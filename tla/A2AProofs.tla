----------------------------- MODULE A2AProofs -----------------------------
(***************************************************************************)
(* Proofs about the A2A server, for any number of replicas, callers and    *)
(* clients.                                                                *)
(***************************************************************************)
EXTENDS TaskCluster, PluginHooks, TaskListing, PushConfigs, LegacyHandler, FiniteSetTheorems, TLAPS

(***************************************************************************)
(* TaskCluster.  The log has an event for every version, or for every one  *)
(* but the first; a writer whose snapshot has the row's version read a row *)
(* that had not ended; a tail has read a contiguous piece of the log from  *)
(* its snapshot's version on.                                              *)
(***************************************************************************)
Rows == [state : RowStates \cup {"none"}, ver : Nat]
Events == [state : RowStates, ver : Nat]
Writers == [pc : {"idle", "save", "again"}, snap : Rows, want : RowStates, tries : Nat]
CancelCalls == [pc : {"idle", "write", "canceled", "not_cancelable", "not_found"}, snap : Rows,
                tries : Nat]
TailCalls == [pc : {"idle", "refused", "seek", "poll", "ended"}, after : Nat, cursor : Nat,
              seen : RowStates \cup {"none"}, got : Seq(Events)]

ClusterTypeOK ==
    /\ row \in Rows /\ log \in Seq(Events)
    /\ writer \in [Replicas -> Writers]
    /\ cancelCall \in [Cancellers -> CancelCalls]
    /\ tail \in [Tails -> TailCalls]

\* Versions without an event: none, or the first.
Bare == IF Len(log) = row.ver THEN 0 ELSE 1

LogComplete ==
    /\ row.state = "none" <=> row.ver = 0
    /\ Len(log) + Bare = row.ver
    /\ \A i \in 1..Len(log) : log[i].ver = i + Bare
    /\ Len(log) > 0 => log[Len(log)].state = row.state

FreshSnapshot(x) ==
    x.pc # "idle" =>
        /\ x.snap.ver <= row.ver
        /\ x.snap.ver = 0 => x.want # "canceled"
        /\ x.snap.ver = row.ver => ~Ended(row.state)

ContiguousTail(x) ==
    /\ x.pc \in {"idle", "refused", "seek"} => x.got = <<>>
    /\ x.pc \in {"seek", "poll", "ended"} =>
          /\ x.after > 0 /\ x.after <= row.ver
          /\ Len(x.got) = 0 /\ x.after = row.ver => x.seen = row.state
    /\ x.pc \in {"poll", "ended"} =>
          /\ x.cursor <= Len(log)
          /\ x.cursor + Bare = x.after + Len(x.got)
          /\ \A i \in 1..Len(x.got) : x.got[i].ver = x.after + i
          /\ Len(x.got) > 0 => x.seen = log[x.cursor].state

SnapshotsFresh == \A w \in Replicas : FreshSnapshot(writer[w])
TailsContiguous == \A t \in Tails : ContiguousTail(tail[t])

ClusterInv == ClusterTypeOK /\ LogComplete /\ SnapshotsFresh /\ TailsContiguous /\ CancelHonest

\* At the start there is no task, no event and no call.
LEMMA ClusterStarts == ClusterInit => ClusterInv
<1> SUFFICES ASSUME ClusterInit PROVE ClusterInv
  OBVIOUS
<1> USE DEF ClusterInit
<1>1. row = NoRow /\ NoRow \in Rows /\ "working" \in RowStates
  BY DEF NoRow, Rows, RowStates
<1>2. IdleWriter \in Writers /\ IdleCancel \in CancelCalls /\ IdleTail \in TailCalls
  BY <1>1 DEF IdleWriter, IdleCancel, IdleTail, Writers, CancelCalls, TailCalls
<1>3. ClusterTypeOK
  BY <1>1, <1>2 DEF ClusterTypeOK
<1>4. LogComplete
  BY DEF LogComplete, Bare, NoRow
<1>5. SnapshotsFresh /\ TailsContiguous /\ CancelHonest
  BY DEF SnapshotsFresh, FreshSnapshot, TailsContiguous, ContiguousTail, CancelHonest, IdleWriter,
         IdleCancel, IdleTail
<1> QED BY <1>3, <1>4, <1>5 DEF ClusterInv

\* Only a task that has not ended is written: save() refuses a write that was derived from an
\* older version, and a cancellation of what ended.
LEMMA RefusedAfterEnd ==
    ASSUME ClusterInv, NEW w \in Replicas, writer[w].pc # "idle",
           ~Refused(writer[w].snap, writer[w].want)
    PROVE  ~Ended(row.state) /\ (writer[w].snap.ver = 0 => row.ver = 0)
BY DEF ClusterInv, LogComplete, SnapshotsFresh, FreshSnapshot, Refused, Ended, EndStates

\* A commit, with an event unless it is the first write, keeps the log complete.
LEMMA CommitKeepsLog ==
    ASSUME ClusterInv, NEW state \in RowStates, NEW event \in BOOLEAN, Commit(state, event),
           event \/ row.ver = 0
    PROVE  /\ row' = [state |-> state, ver |-> row.ver + 1] /\ row' \in Rows
           /\ log' \in Seq(Events) /\ LogComplete'
           /\ Len(log) <= Len(log') /\ \A i \in 1..Len(log) : log'[i] = log[i]
           /\ row.ver > 0 => Bare' = Bare
<1> USE DEF ClusterInv, ClusterTypeOK, LogComplete
<1>1. row' = [state |-> state, ver |-> row.ver + 1] /\ row.ver \in Nat /\ Len(log) \in Nat
  BY DEF Commit, Rows
<1>2. row' \in Rows /\ [state |-> state, ver |-> row.ver + 1] \in Events /\ state # "none"
  BY <1>1 DEF Rows, Events, RowStates, StopStates, EndStates
<1>3. CASE event
  <2>1. log' = Append(log, [state |-> state, ver |-> row.ver + 1])
    BY <1>3 DEF Commit
  <2>2. Len(log') = Len(log) + 1 /\ log' \in Seq(Events)
    BY <1>2, <2>1
  <2>3. Bare' = Bare
    BY <1>1, <2>2 DEF Bare
  <2>4. \A i \in 1..Len(log) : log'[i] = log[i]
    BY <2>1
  <2>5. log'[Len(log')] = [state |-> state, ver |-> row.ver + 1]
    BY <2>1, <2>2
  <2>6. \A i \in 1..Len(log') : log'[i].ver = i + Bare
    BY <1>1, <2>2, <2>4, <2>5 DEF Bare
  <2>7. LogComplete'
    BY <1>1, <1>2, <2>2, <2>3, <2>5, <2>6 DEF Bare
  <2> QED BY <1>1, <1>2, <2>2, <2>3, <2>4, <2>7
<1>4. CASE ~event
  <2>1. log' = log /\ row.ver = 0 /\ Len(log) = 0
    BY <1>4, <1>1 DEF Commit, Bare
  <2>2. Bare' = 1
    BY <1>1, <2>1 DEF Bare
  <2>3. LogComplete'
    BY <1>1, <1>2, <2>1, <2>2
  <2> QED BY <1>1, <1>2, <2>1, <2>3
<1> QED BY <1>3, <1>4

\* What a tail has yielded stays a piece of the log.
LEMMA CommitKeepsTails ==
    ASSUME ClusterInv, NEW state \in RowStates, NEW event \in BOOLEAN, Commit(state, event),
           event \/ row.ver = 0, tail' = tail
    PROVE  TailsContiguous'
<1> SUFFICES ASSUME NEW t \in Tails PROVE ContiguousTail(tail[t])'
  BY DEF TailsContiguous
<1> DEFINE x == tail[t]
<1>1. x \in TailCalls /\ ContiguousTail(x) /\ row.ver \in Nat /\ Len(log) \in Nat
  BY DEF ClusterInv, ClusterTypeOK, TailsContiguous, Rows
<1>2. x.after \in Nat /\ x.cursor \in Nat /\ Len(x.got) \in Nat
  BY <1>1 DEF TailCalls
<1>3. /\ row'.ver = row.ver + 1 /\ Len(log') \in Nat
      /\ Len(log) <= Len(log') /\ \A i \in 1..Len(log) : log'[i] = log[i]
      /\ row.ver > 0 => Bare' = Bare
  BY CommitKeepsLog
<1>4. CASE x.pc \in {"poll", "ended"} /\ Len(x.got) > 0
  <2>1. Bare \in {0, 1} /\ x.after > 0 /\ x.after <= row.ver /\ x.cursor <= Len(log)
        /\ x.cursor + Bare = x.after + Len(x.got)
    BY <1>1, <1>4 DEF ContiguousTail, Bare
  <2> HIDE DEF x
  <2>2. Bare' = Bare
    BY <1>1, <1>2, <1>3, <2>1
  <2>3. x.cursor \in 1..Len(log)
    BY <1>1, <1>2, <1>4, <2>1
  <2> QED BY <1>1, <1>2, <1>3, <1>4, <2>2, <2>3 DEF ContiguousTail, x
<1>5. CASE ~(x.pc \in {"poll", "ended"} /\ Len(x.got) > 0)
  BY <1>1, <1>2, <1>3, <1>5 DEF ContiguousTail
<1> QED BY <1>4, <1>5

\* A snapshot of an older version is never that of the row again.
LEMMA CommitKeepsSnapshots ==
    ASSUME ClusterInv, NEW state \in RowStates, NEW event \in BOOLEAN, Commit(state, event),
           NEW w \in Replicas, NEW x \in Writers, FreshSnapshot(writer[w]),
           x.pc # "idle" => writer[w].pc # "idle" /\ x.snap = writer[w].snap
                            /\ x.want = writer[w].want
    PROVE  x.pc # "idle" => /\ x.snap.ver <= row'.ver
                            /\ x.snap.ver = 0 => x.want # "canceled"
                            /\ x.snap.ver # row'.ver
<1>1. row'.ver = row.ver + 1 /\ row.ver \in Nat /\ x.snap.ver \in Nat
  BY DEF ClusterInv, ClusterTypeOK, Rows, Commit, Writers
<1> QED BY <1>1 DEF FreshSnapshot

\* A retry keeps what the writer derived its write from.
LEMMA AnotherAttemptKeeps ==
    ASSUME NEW x \in Writers
    PROVE  /\ AnotherAttempt(x) \in Writers
           /\ AnotherAttempt(x).snap = x.snap /\ AnotherAttempt(x).want = x.want
<1>1. x.tries + 1 \in Nat
  BY DEF Writers
<1> QED BY <1>1 DEF Writers, AnotherAttempt

\* The actions of the writers.
LEMMA WriterStep ==
    ASSUME ClusterInv, NEW w \in Replicas,
           WriterReads(w) \/ WriterSaves(w) \/ WriterContends(w) \/ WriterConflicts(w)
    PROVE  ClusterInv'
<1> USE DEF ClusterInv
<1>1. /\ writer \in [Replicas -> Writers] /\ writer[w] \in Writers
      /\ IdleWriter \in Writers /\ IdleWriter.pc = "idle"
      /\ \A v \in Replicas : FreshSnapshot(writer[v])
  BY DEF ClusterTypeOK, IdleWriter, Writers, NoRow, Rows, RowStates, SnapshotsFresh
<1>2. writer[w].tries \in Nat
  BY <1>1 DEF Writers
<1>3. CASE WriterReads(w)
  <2> USE <1>3 DEF WriterReads
  <2>1. PICK want \in IF row.ver = 0 THEN {"working"} ELSE RowStates :
           writer' = [writer EXCEPT ![w] = [pc |-> "save", snap |-> row, want |-> want, tries |-> 0]]
    OBVIOUS
  <2> DEFINE x == [pc |-> "save", snap |-> row, want |-> want, tries |-> 0]
  <2>2. want \in RowStates /\ (row.ver = 0 => want # "canceled")
    BY DEF RowStates
  <2>3. x \in Writers
    BY <2>2 DEF Writers, ClusterTypeOK
  <2>4. row.ver \in Nat /\ FreshSnapshot(x)
    BY <2>2 DEF FreshSnapshot, ClusterTypeOK, Rows
  <2>5. ClusterTypeOK' /\ SnapshotsFresh'
    BY <1>1, <2>1, <2>3, <2>4 DEF ClusterTypeOK, SnapshotsFresh, FreshSnapshot
  <2>6. LogComplete' /\ TailsContiguous' /\ CancelHonest'
    BY DEF LogComplete, TailsContiguous, ContiguousTail, CancelHonest, Bare
  <2> QED BY <2>5, <2>6
<1>4. CASE WriterSaves(w)
  <2> USE <1>4 DEF WriterSaves
  <2>1. ~Ended(row.state) /\ (writer[w].snap.ver = 0 => row.ver = 0)
    BY RefusedAfterEnd
  <2>2. PICK event \in IF writer[w].snap.ver = 0 THEN BOOLEAN ELSE {TRUE} :
           Commit(writer[w].want, event)
    OBVIOUS
  <2>3. event \in BOOLEAN /\ (event \/ row.ver = 0) /\ writer[w].want \in RowStates
    BY <1>1, <2>1 DEF Writers
  <2>4. row' \in Rows /\ log' \in Seq(Events) /\ LogComplete' /\ TailsContiguous'
    BY <2>2, <2>3, CommitKeepsLog, CommitKeepsTails
  <2>5. \E x \in Writers : /\ writer' = [writer EXCEPT ![w] = x]
                           /\ x.pc # "idle" => x.snap = writer[w].snap /\ x.want = writer[w].want
    <3>2. CASE writer' = [writer EXCEPT ![w] = IdleWriter]
      BY <1>1, <3>2
    <3>3. CASE writer' = [writer EXCEPT ![w] = AnotherAttempt(writer[w])]
      BY <1>1, <3>3, AnotherAttemptKeeps
    <3> QED BY <3>2, <3>3
  <2>6. ClusterTypeOK'
    BY <1>1, <2>4, <2>5 DEF ClusterTypeOK
  <2>7. SnapshotsFresh'
    <3> SUFFICES ASSUME NEW v \in Replicas PROVE FreshSnapshot(writer[v])'
      BY DEF SnapshotsFresh
    <3>1. /\ writer'[v] \in Writers
          /\ writer'[v].pc # "idle" => /\ writer[v].pc # "idle" /\ writer'[v].snap = writer[v].snap
                                       /\ writer'[v].want = writer[v].want
      BY <1>1, <2>5
    <3> QED BY <1>1, <2>2, <2>3, <3>1, CommitKeepsSnapshots DEF FreshSnapshot
  <2>8. CancelHonest'
    BY <2>1 DEF CancelHonest, Ended, EndStates
  <2> QED BY <2>4, <2>6, <2>7, <2>8
<1>5. CASE WriterContends(w) \/ WriterConflicts(w)
  <2> USE <1>5 DEF WriterContends, WriterConflicts
  <2>1. AnotherAttempt(writer[w]) \in Writers
    BY <1>1, AnotherAttemptKeeps
  <2>2. CASE writer' = [writer EXCEPT ![w] = IdleWriter]
    BY <1>1, <2>2 DEF ClusterTypeOK, SnapshotsFresh, FreshSnapshot, LogComplete, TailsContiguous,
                      ContiguousTail, CancelHonest, Bare
  <2>3. CASE writer' = [writer EXCEPT ![w] = AnotherAttempt(writer[w])]
    <3>2. /\ writer'[w].snap = writer[w].snap /\ writer'[w].want = writer[w].want
          /\ writer[w].pc # "idle"
      BY <1>1, <2>3, AnotherAttemptKeeps
    <3>3. SnapshotsFresh'
      BY <1>1, <2>3, <3>2 DEF SnapshotsFresh, FreshSnapshot
    <3>4. ClusterTypeOK'
      BY <1>1, <2>1, <2>3 DEF ClusterTypeOK
    <3> QED BY <3>3, <3>4 DEF LogComplete, TailsContiguous, ContiguousTail, CancelHonest, Bare
  <2> QED BY <2>2, <2>3
<1> QED BY <1>3, <1>4, <1>5

\* The actions of a remote cancel.
LEMMA CancelStep ==
    ASSUME ClusterInv, NEW c \in Cancellers, CancelReads(c) \/ CancelWrites(c) \/ CancelReloads(c)
    PROVE  ClusterInv'
<1> USE DEF ClusterInv
<1>1. cancelCall \in [Cancellers -> CancelCalls] /\ cancelCall[c] \in CancelCalls
  BY DEF ClusterTypeOK
<1>2. CASE CancelReads(c)
  <2> USE <1>2 DEF CancelReads
  <2> DEFINE x == [pc |-> IF row.state = "none" THEN "not_found"
                          ELSE IF Ended(row.state) THEN "not_cancelable" ELSE "write",
                   snap |-> row, tries |-> 0]
  <2>1. x \in CancelCalls
    BY DEF CancelCalls, ClusterTypeOK
  <2>2. ClusterTypeOK'
    BY <2>1 DEF ClusterTypeOK
  <2>3. CancelHonest'
    BY <1>1 DEF CancelHonest
  <2> QED BY <2>2, <2>3 DEF SnapshotsFresh, FreshSnapshot, LogComplete, TailsContiguous,
                            ContiguousTail, Bare
<1>3. CASE CancelReloads(c)
  <2> USE <1>3 DEF CancelReloads
  <2> DEFINE pc == CASE row.state = "none" -> "not_found"
                     [] row.state = "canceled" -> "canceled"
                     [] OTHER -> "not_cancelable"
  <2>1. [cancelCall[c] EXCEPT !.pc = pc] \in CancelCalls
    BY <1>1 DEF CancelCalls
  <2>2. cancelCall' = [cancelCall EXCEPT ![c] = [cancelCall[c] EXCEPT !.pc = pc]]
    BY <1>1
  <2>3. ClusterTypeOK'
    BY <2>1, <2>2 DEF ClusterTypeOK
  <2>4. cancelCall'[c].pc = pc /\ \A d \in Cancellers \ {c} : cancelCall'[d] = cancelCall[d]
    BY <1>1, <2>2 DEF CancelCalls
  <2>5. row.state = "none" \/ Ended(row.state)
    BY DEF Refused
  <2>6. CancelHonest'
    BY <2>4, <2>5 DEF CancelHonest
  <2> QED BY <2>3, <2>6 DEF SnapshotsFresh, FreshSnapshot, LogComplete, TailsContiguous,
                            ContiguousTail, Bare
<1>4. CASE CancelWrites(c)
  <2>1. /\ ~Ended(row.state) /\ "canceled" \in RowStates /\ cancelCall[c].tries \in Nat
        /\ Commit("canceled", TRUE) /\ tail' = tail /\ writer' = writer
        /\ cancelCall[c].pc = "write"
    BY <1>1, <1>4 DEF CancelWrites, Refused, RowStates, StopStates, EndStates, CancelCalls
  <2>2. /\ row' = [state |-> "canceled", ver |-> row.ver + 1] /\ row' \in Rows
        /\ log' \in Seq(Events) /\ LogComplete'
    BY <2>1, CommitKeepsLog
  <2>3. TailsContiguous'
    BY <2>1, CommitKeepsTails
  <2>4. \E x \in CancelCalls : /\ cancelCall' = [cancelCall EXCEPT ![c] = x]
                               /\ x.pc \in {"canceled", "write"}
    <3>1. CASE cancelCall' = [cancelCall EXCEPT ![c].pc = "canceled"]
      <4> DEFINE x == [cancelCall[c] EXCEPT !.pc = "canceled"]
      <4>1. x \in CancelCalls /\ x.pc = "canceled"
        BY <1>1 DEF CancelCalls
      <4>2. cancelCall' = [cancelCall EXCEPT ![c] = x]
        BY <1>1, <3>1
      <4> QED BY <4>1, <4>2
    <3>2. CASE cancelCall' = [cancelCall EXCEPT ![c].tries = cancelCall[c].tries + 1]
      <4> DEFINE x == [cancelCall[c] EXCEPT !.tries = cancelCall[c].tries + 1]
      <4>1. x \in CancelCalls /\ x.pc = "write"
        BY <1>1, <2>1 DEF CancelCalls
      <4>2. cancelCall' = [cancelCall EXCEPT ![c] = x]
        BY <1>1, <3>2
      <4> QED BY <4>1, <4>2
    <3> QED BY <1>4, <3>1, <3>2 DEF CancelWrites
  <2>5. ClusterTypeOK'
    BY <2>1, <2>2, <2>4 DEF ClusterTypeOK
  <2>6. SnapshotsFresh'
    <3> SUFFICES ASSUME NEW v \in Replicas PROVE FreshSnapshot(writer[v])'
      BY DEF SnapshotsFresh
    <3>1. writer[v] \in Writers /\ FreshSnapshot(writer[v])
      BY DEF ClusterTypeOK, SnapshotsFresh
    <3> QED BY <2>1, <3>1, CommitKeepsSnapshots DEF FreshSnapshot
  <2>7. CancelHonest'
    BY <1>1, <2>1, <2>2, <2>4 DEF CancelHonest, Ended, EndStates
  <2> QED BY <2>2, <2>3, <2>5, <2>6, <2>7
<1> QED BY <1>2, <1>3, <1>4

\* The cursor a tail starts from is the last event its snapshot includes.
LEMMA CursorIsSnapshot ==
    ASSUME ClusterInv, NEW after \in Nat, after > 0, after <= row.ver
    PROVE  CursorFor(after) \in Nat /\ CursorFor(after) + Bare = after
<1> USE DEF ClusterInv, ClusterTypeOK, LogComplete
<1> DEFINE included == {i \in DOMAIN log : log[i].ver <= after}
<1>1. Len(log) \in Nat /\ row.ver \in Nat /\ DOMAIN log = 1..Len(log) /\ Bare \in {0, 1}
  BY DEF Bare, Rows
<1>2. included = 1..(after - Bare) /\ after - Bare \in Nat
  BY <1>1
<1>3. CASE after = Bare
  BY <1>1, <1>2, <1>3 DEF CursorFor
<1>4. CASE after # Bare
  <2> DEFINE n == after - Bare
  <2>1. n \in Nat \ {0}
    BY <1>1, <1>2, <1>4
  <2> HIDE DEF n
  <2>2. included = 1..n
    BY <1>2 DEF n
  <2> HIDE DEF included
  <2>3. n \in included /\ \A j \in included : j <= n
    BY <2>1, <2>2
  <2>4. \A i \in included : (\A j \in included : j <= i) => i = n
    BY <2>1, <2>2
  <2>5. (CHOOSE i \in included : \A j \in included : j <= i) = n
    BY <2>3, <2>4
  <2>6. CursorFor(after) = n
    BY <2>3, <2>5 DEF CursorFor, included
  <2> QED BY <1>1, <2>1, <2>6 DEF n
<1> QED BY <1>3, <1>4

\* What yielding an event does to a subscription.
LEMMA YieldAppends ==
    ASSUME NEW x \in TailCalls, NEW e \in Events
    PROVE  /\ Yield(x, e) \in TailCalls
           /\ Yield(x, e).pc \in {"poll", "ended"} /\ Yield(x, e).after = x.after
           /\ Yield(x, e).cursor = x.cursor + 1 /\ Yield(x, e).seen = e.state
           /\ Yield(x, e).got = Append(x.got, e)
<1>1. x.cursor + 1 \in Nat /\ Append(x.got, e) \in Seq(Events) /\ e.state \in RowStates
  BY DEF TailCalls, Events
<1> QED BY <1>1 DEF TailCalls, Yield

\* Events appended in version order stay so.
LEMMA AppendNextVersion ==
    ASSUME NEW got \in Seq(Events), NEW e \in Events, NEW after \in Nat,
           \A i \in 1..Len(got) : got[i].ver = after + i, e.ver = after + Len(got) + 1
    PROVE  /\ Len(Append(got, e)) = Len(got) + 1
           /\ \A i \in 1..Len(Append(got, e)) : Append(got, e)[i].ver = after + i
<1> DEFINE more == Append(got, e)
           m == Len(got)
<1>1. m \in Nat /\ Len(more) = m + 1 /\ \A i \in 1..m : got[i].ver = after + i
  OBVIOUS
<1>2. \A i \in 1..m : more[i] = got[i]
  OBVIOUS
<1>3. more[m + 1] = e /\ e.ver = after + (m + 1)
  BY <1>1
<1> HIDE DEF more, m
<1>4. \A i \in 1..m + 1 : i \in 1..m \/ i = m + 1
  BY <1>1
<1>5. \A i \in 1..m + 1 : more[i].ver = after + i
  BY <1>1, <1>2, <1>3, <1>4
<1> QED BY <1>1, <1>5 DEF more, m

\* The actions of a remote subscription.
LEMMA TailStep ==
    ASSUME ClusterInv, NEW t \in Tails, TailOpens(t) \/ TailSeeks(t) \/ TailTakes(t)
    PROVE  ClusterInv'
<1> USE DEF ClusterInv
<1>1. LogComplete' /\ SnapshotsFresh' /\ CancelHonest' /\ row' = row /\ log' = log /\ Bare' = Bare
  BY DEF LogComplete, SnapshotsFresh, FreshSnapshot, CancelHonest, Bare, TailOpens, TailSeeks,
         TailTakes
<1>2. /\ tail \in [Tails -> TailCalls] /\ tail[t] \in TailCalls /\ row.ver \in Nat
      /\ Len(log) \in Nat /\ \A s \in Tails : ContiguousTail(tail[s])
  BY DEF ClusterTypeOK, TailsContiguous, Rows
<1>3. tail[t].after \in Nat /\ tail[t].cursor \in Nat /\ tail[t].got \in Seq(Events)
  BY <1>2 DEF TailCalls
<1>4. ASSUME NEW x \in TailCalls, tail' = [tail EXCEPT ![t] = x], ContiguousTail(x)
      PROVE  ClusterInv'
  <2>1. ClusterTypeOK'
    BY <1>4, <1>2 DEF ClusterTypeOK, TailOpens, TailSeeks, TailTakes
  <2>2. TailsContiguous'
    BY <1>1, <1>2, <1>4 DEF TailsContiguous, ContiguousTail
  <2> QED BY <1>1, <2>1, <2>2
<1>5. CASE TailOpens(t)
  <2> USE <1>5 DEF TailOpens
  <2>1. [tail[t] EXCEPT !.pc = "refused"] \in TailCalls
    BY <1>2 DEF TailCalls
  <2>2. [tail[t] EXCEPT !.pc = "seek", !.after = row.ver, !.seen = row.state] \in TailCalls
    BY <1>2 DEF TailCalls, ClusterTypeOK, Rows
  <2>3. ContiguousTail([tail[t] EXCEPT !.pc = "refused"])
    BY <1>2 DEF TailCalls, ContiguousTail
  <2>4. ContiguousTail([tail[t] EXCEPT !.pc = "seek", !.after = row.ver, !.seen = row.state])
    BY <1>2 DEF TailCalls, ContiguousTail, LogComplete
  <2> QED BY <1>4, <2>1, <2>2, <2>3, <2>4
<1>6. CASE TailSeeks(t)
  <2> USE <1>6 DEF TailSeeks
  <2> DEFINE x == [tail[t] EXCEPT !.pc = "poll", !.cursor = CursorFor(tail[t].after)]
  <2>1. tail[t].got = <<>> /\ tail[t].after > 0 /\ tail[t].after <= row.ver
        /\ (tail[t].after = row.ver => tail[t].seen = row.state)
    BY <1>2, <1>3 DEF ContiguousTail
  <2>2. CursorFor(tail[t].after) \in Nat /\ CursorFor(tail[t].after) + Bare = tail[t].after
    BY <1>3, <2>1, CursorIsSnapshot
  <2>3. x \in TailCalls /\ tail' = [tail EXCEPT ![t] = x]
    BY <1>2, <2>2 DEF TailCalls
  <2>4. /\ x.pc = "poll" /\ x.after = tail[t].after /\ x.cursor = CursorFor(tail[t].after)
        /\ x.got = <<>> /\ x.seen = tail[t].seen
    BY <1>2, <2>1 DEF TailCalls
  <2>5. ContiguousTail(x)
    BY <1>2, <1>3, <2>1, <2>2, <2>4 DEF ContiguousTail, LogComplete, Bare
  <2> QED BY <1>4, <2>3, <2>5
<1>7. CASE TailTakes(t)
  <2> DEFINE x == tail[t]
             e == log[x.cursor + 1]
  <2>1. /\ x.pc = "poll" /\ x.cursor < Len(log) /\ ContiguousTail(x)
        /\ tail' = [tail EXCEPT ![t] = IF e.ver > x.after THEN Yield(x, e)
                                       ELSE [x EXCEPT !.cursor = x.cursor + 1]]
    BY <1>2, <1>7 DEF TailTakes
  <2> x \in TailCalls /\ x.after \in Nat /\ x.cursor \in Nat /\ x.got \in Seq(Events)
    BY <1>2, <1>3
  <2> HIDE DEF x
  <2>2. Bare \in {0, 1} /\ x.cursor + 1 \in 1..Len(log)
    BY <1>2, <2>1 DEF Bare
  <2>3. e \in Events /\ e.ver = x.cursor + 1 + Bare
    BY <2>2 DEF ClusterTypeOK, LogComplete
  <2> HIDE DEF e
  <2>4. /\ x.cursor + Bare = x.after + Len(x.got) /\ Len(x.got) \in Nat
        /\ x.after > 0 /\ x.after <= row.ver
        /\ \A i \in 1..Len(x.got) : x.got[i].ver = x.after + i
    BY <2>1 DEF ContiguousTail
  <2>5. e.ver = x.after + Len(x.got) + 1 /\ e.ver > x.after
    <3> DEFINE got == Len(x.got)
    <3>1. /\ x.cursor + Bare = x.after + got /\ got \in Nat /\ Bare \in Nat
          /\ e.ver = x.cursor + 1 + Bare
      BY <2>2, <2>3, <2>4
    <3> HIDE DEF got, Bare
    <3>2. e.ver = x.after + got + 1 /\ e.ver > x.after
      BY <3>1
    <3> QED BY <3>2 DEF got
  <2>6. tail' = [tail EXCEPT ![t] = Yield(x, e)]
    BY <2>1, <2>5
  <2> DEFINE y == Yield(x, e)
  <2>7. /\ y \in TailCalls /\ y.pc \in {"poll", "ended"} /\ y.after = x.after
        /\ y.cursor = x.cursor + 1 /\ y.seen = e.state /\ y.got = Append(x.got, e)
    BY <2>3, YieldAppends
  <2>8. /\ Len(y.got) = Len(x.got) + 1
        /\ \A i \in 1..Len(y.got) : y.got[i].ver = x.after + i
    BY <2>3, <2>4, <2>5, <2>7, AppendNextVersion
  <2> HIDE DEF y
  <2>9. y.cursor <= Len(log) /\ y.cursor + Bare = y.after + Len(y.got) /\ Len(y.got) # 0
    <3>1. x.cursor < Len(log) /\ Len(log) \in Nat
      BY <1>2, <2>1
    <3>2. /\ x.cursor + Bare = x.after + Len(x.got) /\ Len(x.got) \in Nat
          /\ Len(y.got) = Len(x.got) + 1
      BY <2>4, <2>8
    <3> DEFINE old == Len(x.got)
               new == Len(y.got)
               len == Len(log)
               bare == Bare
    <3>3. /\ x.cursor < len /\ len \in Nat /\ x.cursor + bare = x.after + old /\ old \in Nat
          /\ new = old + 1 /\ bare \in Nat /\ y.cursor = x.cursor + 1 /\ y.after = x.after
      BY <2>2, <2>7, <3>1, <3>2
    <3> HIDE DEF old, new, len, bare
    <3>4. y.cursor <= len /\ y.cursor + bare = y.after + new /\ new # 0
      <4>1. ASSUME NEW c \in Nat, NEW b \in Nat, NEW a \in Nat, NEW o \in Nat, NEW l \in Nat,
                   c < l, c + b = a + o
            PROVE  c + 1 <= l /\ (c + 1) + b = a + (o + 1) /\ o + 1 # 0
        BY ONLY <4>1
      <4>2. x.cursor \in Nat /\ x.after \in Nat
        OBVIOUS
      <4>3. x.cursor + 1 <= len /\ (x.cursor + 1) + bare = x.after + (old + 1) /\ old + 1 # 0
        BY ONLY <3>3, <4>1, <4>2
      <4> QED BY ONLY <3>3, <4>3
    <3> QED BY <3>4 DEF new, len, bare
  <2>10. y.seen = log[y.cursor].state
    BY <2>7 DEF e
  <2>11. ContiguousTail(y)
    BY <2>4, <2>7, <2>8, <2>9, <2>10 DEF ContiguousTail
  <2> QED BY <1>4, <2>6, <2>7, <2>11 DEF y
<1> QED BY <1>5, <1>6, <1>7

\* The invariant of the shared task, for any number of replicas, cancels and tails.
THEOREM ClusterInvariant == ClusterSpec => []ClusterInv
<1>1. ClusterInv /\ [ClusterNext]_clusterVars => ClusterInv'
  <2> SUFFICES ASSUME ClusterInv, [ClusterNext]_clusterVars PROVE ClusterInv'
    OBVIOUS
  <2>1. CASE UNCHANGED clusterVars
    BY <2>1 DEF clusterVars, ClusterInv, ClusterTypeOK, LogComplete, SnapshotsFresh,
                FreshSnapshot, TailsContiguous, ContiguousTail, CancelHonest, Bare
  <2> QED BY <2>1, WriterStep, CancelStep, TailStep DEF ClusterNext
<1> QED BY <1>1, ClusterStarts, PTL DEF ClusterSpec

\* CancelHonest: a remote cancel reports what happened to the task.
THEOREM CancelIsHonest == ClusterSpec => []CancelHonest
BY ClusterInvariant, PTL DEF ClusterInv

\* TailFaithful: a remote subscription yields every event after its snapshot once, in order.
THEOREM TailIsFaithful == ClusterSpec => []TailFaithful
<1>1. ClusterInv => TailFaithful
  <2> SUFFICES ASSUME ClusterInv, NEW t \in Tails
               PROVE /\ \A i, j \in DOMAIN tail[t].got :
                           i < j => tail[t].got[i].ver < tail[t].got[j].ver
                     /\ \A i \in DOMAIN tail[t].got : tail[t].got[i].ver = tail[t].after + i
                     /\ tail[t].pc = "poll" /\ tail[t].cursor = Len(log) => tail[t].seen = row.state
    BY DEF TailFaithful
  <2>1. /\ tail[t].pc \in {"idle", "refused", "seek", "poll", "ended"} /\ tail[t].after \in Nat
        /\ tail[t].got \in Seq(Events) /\ ContiguousTail(tail[t]) /\ Len(tail[t].got) \in Nat
        /\ DOMAIN tail[t].got = 1..Len(tail[t].got) /\ Len(log) \in Nat
    BY DEF ClusterInv, ClusterTypeOK, TailCalls, TailsContiguous
  <2>2. \A i \in 1..Len(tail[t].got) : tail[t].got[i].ver = tail[t].after + i
    BY <2>1 DEF ContiguousTail
  <2>3. tail[t].pc = "poll" /\ tail[t].cursor = Len(log) => tail[t].seen = row.state
    BY <2>1 DEF ContiguousTail, ClusterInv, LogComplete, Bare
  <2>4. \A i, j \in DOMAIN tail[t].got : i < j => tail[t].got[i].ver < tail[t].got[j].ver
    <3> SUFFICES ASSUME NEW i \in 1..Len(tail[t].got), NEW j \in 1..Len(tail[t].got), i < j
                 PROVE  tail[t].got[i].ver < tail[t].got[j].ver
      BY <2>1
    <3> tail[t].got[i].ver = tail[t].after + i /\ tail[t].got[j].ver = tail[t].after + j
      BY <2>2
    <3> QED BY <2>1
  <2> QED BY <2>1, <2>2, <2>3, <2>4
<1> QED BY <1>1, ClusterInvariant, PTL

\* EndIsFinal: no step of a writer or a cancel changes a task that ended.
THEOREM EndStaysFinal == ClusterSpec => EndIsFinal
<1>1. ClusterInv /\ [ClusterNext]_clusterVars => [Ended(row.state) => row' = row]_row
  <2> SUFFICES ASSUME ClusterInv, ClusterNext, Ended(row.state) PROVE row' = row
    BY DEF clusterVars
  <2>1. ASSUME NEW w \in Replicas PROVE ~WriterSaves(w)
    BY RefusedAfterEnd DEF WriterSaves
  <2>2. ASSUME NEW c \in Cancellers PROVE ~CancelWrites(c)
    BY DEF CancelWrites, Refused
  <2> QED BY <2>1, <2>2 DEF ClusterNext, WriterReads, WriterContends, WriterConflicts, CancelReads,
             CancelReloads, TailOpens, TailSeeks, TailTakes
<1> QED BY <1>1, ClusterInvariant, PTL DEF ClusterSpec, EndIsFinal

(***************************************************************************)
(* PluginHooks.  What the log holds in each stage: nothing is closed until *)
(* a call unwinds, and from then on the closed plugins are those above     *)
(* hook.at; the interceptors whose after hook is still to run have run     *)
(* their before hook.                                                      *)
(***************************************************************************)
HookSpec == HookInit /\ [][HookNext]_hookVars

HookStages == {"before", "unwind", "intercept", "work", "interceptAfter", "event", "final", "ended"}
Calls == [side : {"server", "client"}, kind : {"unary", "stream"}, stage : HookStages, at : Nat,
          executed : Nat, events : Nat, error : BOOLEAN, early : BOOLEAN, cut : BOOLEAN]
HookNames == {"open", "close", "event", "intercept", "interceptAfter"}

HookTypeOK == hook \in Calls /\ hookLog \in Seq(HookNames \X Nat)

\* The entry of a hook of that name at place n.
Logged(lg, what, n) == \E i \in 1..Len(lg) : lg[i] = <<what, n>>
Unlogged(lg, what) == \A i \in 1..Len(lg) : lg[i][1] # what

\* The plugins opened, of which those above `at` are closed, the outer after the inner.
PluginsIn(lg, stage, at) ==
    /\ ~Logged(lg, "open", 0)
    /\ stage = "before" => /\ at > 0 /\ at <= PluginCount + 1
                           /\ \A n \in Nat : Logged(lg, "open", n) <=> n > 0 /\ n < at
    /\ stage \in {"intercept", "work", "interceptAfter", "event"} =>
          \A n \in Nat : Logged(lg, "open", n) <=> n > 0 /\ n <= PluginCount
    /\ stage \in {"before", "intercept", "work", "interceptAfter", "event"} => Unlogged(lg, "close")
    /\ stage \in {"unwind", "final"} =>
          /\ \A n \in Nat : n > 0 /\ n <= at => Logged(lg, "open", n)
          /\ \A n \in Nat : Logged(lg, "open", n) => n <= at \/ Logged(lg, "close", n)
          /\ \A n \in Nat : Logged(lg, "close", n) => n > at

\* The interceptors whose before hook has run.
InterceptorsIn(lg, stage, at, early, count) ==
    /\ stage = "intercept" => \A n \in Nat : n > 0 /\ n < at => Logged(lg, "intercept", n)
    /\ stage = "work" \/ (stage = "event" /\ ~early) =>
          \A n \in Nat : n > 0 /\ n <= count => Logged(lg, "intercept", n)
    /\ stage = "interceptAfter" =>
          /\ \A n \in Nat : n > 0 /\ n <= at => Logged(lg, "intercept", n)
          /\ ~early => \A n \in Nat : n > 0 /\ n <= count => Logged(lg, "intercept", n)

\* What a finished part of the log says, whatever follows it.
PairedLog(lg) ==
    /\ \A i, j \in 1..Len(lg) :
          lg[i][1] = "close" /\ lg[j][1] = "close" /\ i < j => lg[i][2] > lg[j][2]
    /\ \A i \in 1..Len(lg) : lg[i][1] = "close" =>
          \E j \in 1..Len(lg) : j < i /\ lg[j] = <<"open", lg[i][2]>>
    /\ \A i, j \in 1..Len(lg) : lg[i][1] = "event" /\ lg[j][1] = "close" => i < j
    /\ \A i \in 1..Len(lg) : lg[i][1] = "interceptAfter" =>
          \E j \in 1..Len(lg) : j < i /\ lg[j] = <<"intercept", lg[i][2]>>

\* A call that ends by itself has closed what it opened.
ClosedAtEnd ==
    hook.stage = "ended" /\ ~hook.cut =>
        \A n \in Nat : Logged(hookLog, "open", n) => Logged(hookLog, "close", n)

HookInv ==
    /\ HookTypeOK
    /\ PluginsIn(hookLog, hook.stage, hook.at)
    /\ InterceptorsIn(hookLog, hook.stage, hook.at, hook.early, Interceptors)
    /\ PairedLog(hookLog)
    /\ ClosedAtEnd

\* One more entry: the log has it and what it had before.
LEMMA LogGrows ==
    ASSUME NEW lg \in Seq(HookNames \X Nat), NEW e \in HookNames \X Nat
    PROVE  /\ Append(lg, e) \in Seq(HookNames \X Nat)
           /\ Len(lg) \in Nat /\ Len(Append(lg, e)) = Len(lg) + 1
           /\ Append(lg, e)[Len(lg) + 1] = e /\ \A i \in 1..Len(lg) : Append(lg, e)[i] = lg[i]
           /\ \A w, n : Logged(Append(lg, e), w, n) <=> Logged(lg, w, n) \/ e = <<w, n>>
           /\ e[1] # "close" /\ Unlogged(lg, "close") => Unlogged(Append(lg, e), "close")
<1> DEFINE lh == Append(lg, e)
<1>1. lh \in Seq(HookNames \X Nat) /\ Len(lg) \in Nat /\ Len(lh) = Len(lg) + 1
  OBVIOUS
<1>2. lh[Len(lg) + 1] = e /\ \A i \in 1..Len(lg) : lh[i] = lg[i]
  OBVIOUS
<1> HIDE DEF lh
<1>3. \A i : i \in 1..Len(lh) <=> i \in 1..Len(lg) \/ i = Len(lg) + 1
  BY <1>1
<1>4. \A w, n : Logged(lh, w, n) <=> Logged(lg, w, n) \/ e = <<w, n>>
  BY <1>2, <1>3 DEF Logged
<1>5. e[1] # "close" /\ Unlogged(lg, "close") => Unlogged(lh, "close")
  BY <1>2, <1>3 DEF Unlogged
<1> QED BY <1>1, <1>2, <1>4, <1>5 DEF lh

\* An entry that is no close, while nothing is closed, or the close of an opened plugin below
\* all that are closed; the after hook of an interceptor only where its before hook ran.
LEMMA PairedGrows ==
    ASSUME NEW lg \in Seq(HookNames \X Nat), NEW e \in HookNames \X Nat, PairedLog(lg),
           e[1] = "close" => /\ Logged(lg, "open", e[2])
                             /\ \A n \in Nat : Logged(lg, "close", n) => n > e[2],
           e[1] = "event" => Unlogged(lg, "close"),
           e[1] = "interceptAfter" => Logged(lg, "intercept", e[2])
    PROVE  PairedLog(Append(lg, e))
<1> DEFINE m  == Len(lg)
           lh == Append(lg, e)
           what == e[1]
           at == e[2]
<1>1. /\ lh \in Seq(HookNames \X Nat) /\ m \in Nat /\ Len(lh) = m + 1
      /\ lh[m + 1] = e /\ \A i \in 1..m : lh[i] = lg[i]
  BY LogGrows
<1>0. what \in HookNames /\ at \in Nat
  OBVIOUS
<1>2. \A i \in 1..m : lg[i] \in HookNames \X Nat
  OBVIOUS
<1>5. lh[m + 1][1] = what /\ lh[m + 1][2] = at
  BY <1>1
<1>12. /\ what = "close" => /\ Logged(lg, "open", at)
                             /\ \A n \in Nat : Logged(lg, "close", n) => n > at
       /\ what = "event" => Unlogged(lg, "close")
       /\ what = "interceptAfter" => Logged(lg, "intercept", at)
  OBVIOUS
<1> HIDE DEF m, lh, what, at
<1>3. \A i \in 1..m + 1 : i \in 1..m \/ i = m + 1
  BY <1>1
<1>4. \A i \in 1..m : i \in 1..m + 1 /\ i < m + 1
  BY <1>1
<1>6. \A i \in 1..m : lg[i][1] = "close" => Logged(lg, "close", lg[i][2]) /\ lg[i][2] \in Nat
  <2> SUFFICES ASSUME NEW i \in 1..m, lg[i][1] = "close"
               PROVE  Logged(lg, "close", lg[i][2]) /\ lg[i][2] \in Nat
    OBVIOUS
  <2>1. lg[i] = <<"close", lg[i][2]>> /\ lg[i][2] \in Nat
    BY <1>2
  <2> QED BY <2>1 DEF Logged, m
<1>7. \A i, j \in 1..m + 1 :
         lh[i][1] = "close" /\ lh[j][1] = "close" /\ i < j => lh[i][2] > lh[j][2]
  <2> SUFFICES ASSUME NEW i \in 1..m + 1, NEW j \in 1..m + 1, lh[i][1] = "close",
                      lh[j][1] = "close", i < j
               PROVE  lh[i][2] > lh[j][2]
    OBVIOUS
  <2>1. i \in 1..m
    BY <1>1
  <2>2. CASE j \in 1..m
    BY <1>1, <2>1, <2>2 DEF PairedLog, m
  <2>3. CASE j = m + 1
    BY <1>0, <1>1, <1>5, <1>6, <1>12, <2>1, <2>3
  <2> QED BY <1>3, <2>2, <2>3
<1>8. \A i \in 1..m + 1 : lh[i][1] = "close" =>
         \E j \in 1..m + 1 : j < i /\ lh[j] = <<"open", lh[i][2]>>
  <2> SUFFICES ASSUME NEW i \in 1..m + 1, lh[i][1] = "close"
               PROVE  \E j \in 1..m + 1 : j < i /\ lh[j] = <<"open", lh[i][2]>>
    OBVIOUS
  <2>1. CASE i \in 1..m
    <3>1. PICK j \in 1..m : j < i /\ lg[j] = <<"open", lg[i][2]>>
      BY <1>1, <2>1 DEF PairedLog, m
    <3> QED BY <1>1, <1>4, <2>1, <3>1
  <2>2. CASE i = m + 1
    <3>1. PICK j \in 1..m : lg[j] = <<"open", at>>
      BY <1>5, <1>12, <2>2 DEF Logged, m
    <3> QED BY <1>1, <1>4, <1>5, <2>2, <3>1
  <2> QED BY <1>3, <2>1, <2>2
<1>9. \A i, j \in 1..m + 1 : lh[i][1] = "event" /\ lh[j][1] = "close" => i < j
  <2> SUFFICES ASSUME NEW i \in 1..m + 1, NEW j \in 1..m + 1, lh[i][1] = "event",
                      lh[j][1] = "close"
               PROVE  i < j
    OBVIOUS
  <2>1. CASE i \in 1..m /\ j \in 1..m
    BY <1>1, <2>1 DEF PairedLog, m
  <2>2. CASE i \in 1..m /\ j = m + 1
    BY <1>4, <2>2
  <2>3. CASE i = m + 1
    <3>1. what = "event" /\ j \in 1..m
      BY <1>3, <1>5, <2>3
    <3> QED BY <1>1, <1>12, <3>1 DEF Unlogged, m
  <2> QED BY <1>3, <2>1, <2>2, <2>3
<1>10. \A i \in 1..m + 1 : lh[i][1] = "interceptAfter" =>
          \E j \in 1..m + 1 : j < i /\ lh[j] = <<"intercept", lh[i][2]>>
  <2> SUFFICES ASSUME NEW i \in 1..m + 1, lh[i][1] = "interceptAfter"
               PROVE  \E j \in 1..m + 1 : j < i /\ lh[j] = <<"intercept", lh[i][2]>>
    OBVIOUS
  <2>1. CASE i \in 1..m
    <3>1. PICK j \in 1..m : j < i /\ lg[j] = <<"intercept", lg[i][2]>>
      BY <1>1, <2>1 DEF PairedLog, m
    <3> QED BY <1>1, <1>4, <2>1, <3>1
  <2>2. CASE i = m + 1
    <3>1. PICK j \in 1..m : lg[j] = <<"intercept", at>>
      BY <1>5, <1>12, <2>2 DEF Logged, m
    <3> QED BY <1>1, <1>4, <1>5, <2>2, <3>1
  <2> QED BY <1>3, <2>1, <2>2
<1>11. 1..m + 1 = 1..Len(lh)
  BY <1>1
<1> QED BY ONLY <1>7, <1>8, <1>9, <1>10, <1>11 DEF PairedLog, lh

\* A call begins with nothing logged.
LEMMA HookStarts == HookInit => HookInv
<1> SUFFICES ASSUME HookInit PROVE HookInv
  OBVIOUS
<1>1. hookLog = <<>> /\ Len(hookLog) = 0 /\ hook.stage = "before" /\ hook.at = 1
  BY DEF HookInit
<1>2. HookTypeOK
  BY DEF HookInit, HookTypeOK, Calls, HookStages
<1>3. /\ PluginsIn(hookLog, hook.stage, hook.at) /\ ClosedAtEnd
      /\ InterceptorsIn(hookLog, hook.stage, hook.at, hook.early, Interceptors)
  BY <1>1, HookConstants DEF PluginsIn, InterceptorsIn, ClosedAtEnd, Logged, Unlogged
<1>4. PairedLog(hookLog)
  BY <1>1 DEF PairedLog
<1> QED BY <1>2, <1>3, <1>4 DEF HookInv

\* Before anything is closed, the plugins opened are those to close.
LEMMA PluginsToClose ==
    ASSUME NEW lg, NEW stage, NEW at \in Nat, PluginsIn(lg, stage, at)
    PROVE  /\ stage \in {"intercept", "work", "interceptAfter", "event"} =>
                 /\ PluginsIn(lg, "final", PluginCount)
                 /\ \A other \in {"intercept", "work", "interceptAfter", "event"}, n \in Nat :
                       PluginsIn(lg, other, n)
           /\ stage = "before" => PluginsIn(lg, "unwind", at - 1) /\ at - 1 \in Nat
           /\ stage = "before" /\ at > PluginCount =>
                 \A n \in Nat : PluginsIn(lg, "intercept", n)
           /\ stage \in {"unwind", "final"} /\ at = 0 =>
                 \A n \in Nat : Logged(lg, "open", n) => Logged(lg, "close", n)
<1> USE HookConstants
<1>1. ASSUME Unlogged(lg, "close") PROVE \A n : ~Logged(lg, "close", n)
  <2>1. \A n : <<"close", n>>[1] = "close"
    OBVIOUS
  <2> QED BY <1>1, <2>1 DEF Logged, Unlogged
<1>2. CASE stage \in {"intercept", "work", "interceptAfter", "event"}
  BY <1>1, <1>2 DEF PluginsIn
<1>3. CASE stage = "before"
  <2>1. at - 1 \in Nat /\ at <= PluginCount + 1
    BY <1>3 DEF PluginsIn
  <2>2. \A n \in Nat : n < at <=> n <= at - 1
    OBVIOUS
  <2>3. PluginsIn(lg, "unwind", at - 1)
    BY <1>1, <1>3, <2>1, <2>2 DEF PluginsIn
  <2>4. ASSUME at > PluginCount PROVE \A n \in Nat : PluginsIn(lg, "intercept", n)
    <3>1. \A n \in Nat : n < at <=> n <= PluginCount
      BY <2>1, <2>4
    <3> QED BY <1>3, <3>1 DEF PluginsIn
  <2> QED BY <1>3, <2>1, <2>3, <2>4
<1>4. CASE stage \in {"unwind", "final"}
  BY <1>4 DEF PluginsIn
<1> QED BY <1>2, <1>3, <1>4

\* A step that logs nothing moves to a stage whose promise the log already keeps.
LEMMA MovingKeepsHooks ==
    ASSUME HookInv,
           BeforeRaises \/ UnwindEnds \/ BeforeEnds \/ InterceptEnds \/ WorkGives
           \/ InterceptAfterEnds \/ EventYielded \/ StreamCloses \/ InsideRaises \/ FinalEnds
           \/ HookCancelled
    PROVE  HookInv'
<1> USE HookConstants
<1>1. hookLog' = hookLog /\ PairedLog(hookLog')
  BY DEF HookInv, BeforeRaises, UnwindEnds, BeforeEnds, InterceptEnds, WorkGives,
     InterceptAfterEnds, EventYielded, StreamCloses, InsideRaises, FinalEnds, HookCancelled
<1>2. hook \in Calls /\ hook.at \in Nat /\ Interceptors \in Nat /\ hookLog' \in Seq(HookNames \X Nat)
  BY <1>1 DEF HookInv, HookTypeOK, Calls, Interceptors
<1>3. CASE BeforeRaises
  <2>1. /\ hook' \in Calls /\ hook'.stage = "unwind" /\ hook'.at = hook.at - 1
        /\ UNCHANGED <<hook.early, hook.cut, hook.side>>
    BY <1>2, <1>3, PluginsToClose DEF BeforeRaises, Calls, HookStages, HookInv
  <2>2. PluginsIn(hookLog', hook'.stage, hook'.at)
    BY PluginsToClose, <1>1, <1>2, <1>3, <2>1 DEF BeforeRaises, HookInv
  <2>3. InterceptorsIn(hookLog', hook'.stage, hook'.at, hook'.early, Interceptors')
    BY <1>1, <1>2, <1>3, <2>1 DEF BeforeRaises, HookInv, InterceptorsIn, Interceptors
  <2>4. ClosedAtEnd'
    BY <1>1, <1>2, <1>3, <2>1 DEF BeforeRaises, HookInv, PluginsIn, ClosedAtEnd
  <2> QED BY <1>1, <1>2, <2>1, <2>2, <2>3, <2>4 DEF HookInv, HookTypeOK
<1>4. CASE UnwindEnds
  <2>1. /\ hook' \in Calls /\ hook'.stage = "ended" /\ hook'.at = hook.at
        /\ UNCHANGED <<hook.early, hook.cut, hook.side>>
    BY <1>2, <1>4 DEF UnwindEnds, Calls, HookStages
  <2>2. PluginsIn(hookLog', hook'.stage, hook'.at)
    BY <1>1, <1>2, <1>4, <2>1 DEF UnwindEnds, HookInv, PluginsIn
  <2>3. InterceptorsIn(hookLog', hook'.stage, hook'.at, hook'.early, Interceptors')
    BY <1>1, <1>2, <1>4, <2>1 DEF UnwindEnds, HookInv, InterceptorsIn, Interceptors
  <2>4. ClosedAtEnd'
    BY PluginsToClose, <1>1, <1>2, <1>4, <2>1 DEF UnwindEnds, HookInv, ClosedAtEnd
  <2> QED BY <1>1, <1>2, <2>1, <2>2, <2>3, <2>4 DEF HookInv, HookTypeOK
<1>5. CASE BeforeEnds
  <2>1. /\ hook' \in Calls /\ hook'.stage = "intercept" /\ hook'.at = 1
        /\ UNCHANGED <<hook.early, hook.cut, hook.side>>
    BY <1>2, <1>5 DEF BeforeEnds, Calls, HookStages
  <2>2. PluginsIn(hookLog', hook'.stage, hook'.at)
    BY PluginsToClose, <1>1, <1>2, <1>5, <2>1 DEF BeforeEnds, HookInv
  <2>3. InterceptorsIn(hookLog', hook'.stage, hook'.at, hook'.early, Interceptors')
    BY <1>1, <1>2, <1>5, <2>1 DEF BeforeEnds, HookInv, InterceptorsIn, Interceptors
  <2>4. ClosedAtEnd'
    BY <1>1, <1>2, <1>5, <2>1 DEF BeforeEnds, HookInv, PluginsIn, ClosedAtEnd
  <2> QED BY <1>1, <1>2, <2>1, <2>2, <2>3, <2>4 DEF HookInv, HookTypeOK
<1>6. CASE InterceptEnds
  <2>1. /\ hook' \in Calls /\ hook'.stage = "work" /\ hook'.at = hook.at
        /\ UNCHANGED <<hook.early, hook.cut, hook.side>>
    BY <1>2, <1>6 DEF InterceptEnds, Calls, HookStages
  <2>2. PluginsIn(hookLog', hook'.stage, hook'.at)
    BY PluginsToClose, <1>1, <1>2, <1>6, <2>1 DEF InterceptEnds, HookInv
  <2>3. InterceptorsIn(hookLog', hook'.stage, hook'.at, hook'.early, Interceptors')
    BY <1>1, <1>2, <1>6, <2>1 DEF InterceptEnds, HookInv, InterceptorsIn, Interceptors
  <2>4. ClosedAtEnd'
    BY <1>1, <1>2, <1>6, <2>1 DEF InterceptEnds, HookInv, PluginsIn, ClosedAtEnd
  <2> QED BY <1>1, <1>2, <2>1, <2>2, <2>3, <2>4 DEF HookInv, HookTypeOK
<1>7. CASE WorkGives
  <2>1. /\ hook' \in Calls /\ hook'.stage = "interceptAfter" /\ hook'.at = Interceptors
        /\ UNCHANGED <<hook.early, hook.cut, hook.side>>
    <3> DEFINE last == Interceptors
    <3>1. /\ last \in Nat /\ hook.events + 1 \in Nat
          /\ hook' = [hook EXCEPT !.stage = "interceptAfter", !.at = last,
                                  !.events = hook.events + 1]
      BY <1>2, <1>7 DEF WorkGives, Calls
    <3> HIDE DEF last
    <3>2. /\ hook' \in Calls /\ hook'.stage = "interceptAfter" /\ hook'.at = last
          /\ UNCHANGED <<hook.early, hook.cut, hook.side>>
      BY <1>2, <3>1 DEF Calls, HookStages
    <3> QED BY <3>2 DEF last
  <2>2. PluginsIn(hookLog', hook'.stage, hook'.at)
    BY PluginsToClose, <1>1, <1>2, <1>7, <2>1 DEF WorkGives, HookInv
  <2>3. InterceptorsIn(hookLog', hook'.stage, hook'.at, hook'.early, Interceptors')
    BY <1>1, <1>2, <1>7, <2>1 DEF WorkGives, HookInv, InterceptorsIn, Interceptors
  <2>4. ClosedAtEnd'
    BY <1>1, <1>2, <1>7, <2>1 DEF WorkGives, HookInv, PluginsIn, ClosedAtEnd
  <2> QED BY <1>1, <1>2, <2>1, <2>2, <2>3, <2>4 DEF HookInv, HookTypeOK
<1>8. CASE InterceptAfterEnds
  <2>1. /\ hook' \in Calls /\ hook'.stage = (IF hook.kind = "unary" THEN "final" ELSE "event") /\ hook'.at = PluginCount
        /\ UNCHANGED <<hook.early, hook.cut, hook.side>>
    BY <1>2, <1>8 DEF InterceptAfterEnds, Calls, HookStages
  <2>2. PluginsIn(hookLog', hook'.stage, hook'.at)
    BY PluginsToClose, <1>1, <1>2, <1>8, <2>1 DEF InterceptAfterEnds, HookInv
  <2>3. InterceptorsIn(hookLog', hook'.stage, hook'.at, hook'.early, Interceptors')
    BY <1>1, <1>2, <1>8, <2>1 DEF InterceptAfterEnds, HookInv, InterceptorsIn, Interceptors
  <2>4. ClosedAtEnd'
    BY <1>1, <1>2, <1>8, <2>1 DEF InterceptAfterEnds, HookInv, PluginsIn, ClosedAtEnd
  <2> QED BY <1>1, <1>2, <2>1, <2>2, <2>3, <2>4 DEF HookInv, HookTypeOK
<1>9. CASE EventYielded
  <2>1. /\ hook' \in Calls /\ hook'.stage = (IF hook.early THEN "final" ELSE "work") /\ hook'.at = (IF hook.early THEN PluginCount ELSE hook.at)
        /\ UNCHANGED <<hook.early, hook.cut, hook.side>>
    BY <1>2, <1>9 DEF EventYielded, Calls, HookStages
  <2>2. PluginsIn(hookLog', hook'.stage, hook'.at)
    BY PluginsToClose, <1>1, <1>2, <1>9, <2>1 DEF EventYielded, HookInv
  <2>3. InterceptorsIn(hookLog', hook'.stage, hook'.at, hook'.early, Interceptors')
    BY <1>1, <1>2, <1>9, <2>1 DEF EventYielded, HookInv, InterceptorsIn, Interceptors
  <2>4. ClosedAtEnd'
    BY <1>1, <1>2, <1>9, <2>1 DEF EventYielded, HookInv, PluginsIn, ClosedAtEnd
  <2> QED BY <1>1, <1>2, <2>1, <2>2, <2>3, <2>4 DEF HookInv, HookTypeOK
<1>10. CASE StreamCloses
  <2>1. /\ hook' \in Calls /\ hook'.stage = "final" /\ hook'.at = PluginCount
        /\ UNCHANGED <<hook.early, hook.cut, hook.side>>
    BY <1>2, <1>10 DEF StreamCloses, Calls, HookStages
  <2>2. PluginsIn(hookLog', hook'.stage, hook'.at)
    BY PluginsToClose, <1>1, <1>2, <1>10, <2>1 DEF StreamCloses, HookInv
  <2>3. InterceptorsIn(hookLog', hook'.stage, hook'.at, hook'.early, Interceptors')
    BY <1>1, <1>2, <1>10, <2>1 DEF StreamCloses, HookInv, InterceptorsIn, Interceptors
  <2>4. ClosedAtEnd'
    BY <1>1, <1>2, <1>10, <2>1 DEF StreamCloses, HookInv, PluginsIn, ClosedAtEnd
  <2> QED BY <1>1, <1>2, <2>1, <2>2, <2>3, <2>4 DEF HookInv, HookTypeOK
<1>11. CASE InsideRaises
  <2>1. /\ hook' \in Calls /\ hook'.stage = "final" /\ hook'.at = PluginCount
        /\ UNCHANGED <<hook.early, hook.cut, hook.side>>
    BY <1>2, <1>11 DEF InsideRaises, Calls, HookStages, Inside
  <2>2. PluginsIn(hookLog', hook'.stage, hook'.at)
    BY PluginsToClose, <1>1, <1>2, <1>11, <2>1 DEF InsideRaises, HookInv, Inside
  <2>3. InterceptorsIn(hookLog', hook'.stage, hook'.at, hook'.early, Interceptors')
    BY <1>1, <1>2, <1>11, <2>1 DEF InsideRaises, HookInv, InterceptorsIn, Interceptors
  <2>4. ClosedAtEnd'
    BY <1>1, <1>2, <1>11, <2>1 DEF InsideRaises, HookInv, PluginsIn, ClosedAtEnd
  <2> QED BY <1>1, <1>2, <2>1, <2>2, <2>3, <2>4 DEF HookInv, HookTypeOK
<1>12. CASE FinalEnds
  <2>1. /\ hook' \in Calls /\ hook'.stage = "ended" /\ hook'.at = hook.at
        /\ UNCHANGED <<hook.early, hook.cut, hook.side>>
    BY <1>2, <1>12 DEF FinalEnds, Calls, HookStages
  <2>2. PluginsIn(hookLog', hook'.stage, hook'.at)
    BY <1>1, <1>2, <1>12, <2>1 DEF FinalEnds, HookInv, PluginsIn
  <2>3. InterceptorsIn(hookLog', hook'.stage, hook'.at, hook'.early, Interceptors')
    BY <1>1, <1>2, <1>12, <2>1 DEF FinalEnds, HookInv, InterceptorsIn, Interceptors
  <2>4. ClosedAtEnd'
    BY PluginsToClose, <1>1, <1>2, <1>12, <2>1 DEF FinalEnds, HookInv, ClosedAtEnd
  <2> QED BY <1>1, <1>2, <2>1, <2>2, <2>3, <2>4 DEF HookInv, HookTypeOK
<1>13. CASE HookCancelled
  <2>1. CASE hook.kind = "stream" /\ hook.stage \in Inside \cup {"event"}
    <3>1. /\ hook' \in Calls /\ hook'.stage = "final" /\ hook'.at = PluginCount
          /\ UNCHANGED <<hook.early, hook.cut, hook.side>>
      BY <1>2, <1>13, <2>1 DEF HookCancelled, Calls, HookStages
    <3>2. PluginsIn(hookLog', hook'.stage, hook'.at)
      BY PluginsToClose, <1>1, <1>2, <2>1, <3>1 DEF HookInv, Inside
    <3> QED BY <1>1, <1>2, <3>1, <3>2 DEF HookInv, HookTypeOK, InterceptorsIn, ClosedAtEnd
  <2>2. CASE ~(hook.kind = "stream" /\ hook.stage \in Inside \cup {"event"})
    <3>1. hook' \in Calls /\ hook'.stage = "ended" /\ hook'.cut = TRUE
      BY <1>2, <1>13, <2>2 DEF HookCancelled, Calls, HookStages
    <3> QED BY <1>1, <1>2, <3>1 DEF HookInv, HookTypeOK, PluginsIn, InterceptorsIn, ClosedAtEnd
  <2> QED BY <2>1, <2>2
<1> QED BY <1>3, <1>4, <1>5, <1>6, <1>7, <1>8, <1>9, <1>10, <1>11, <1>12, <1>13

\* The log after a plugin was opened, a plugin was closed, or another hook ran.
LEMMA OpenLogged ==
    ASSUME NEW lg \in Seq(HookNames \X Nat), NEW at \in Nat, NEW e, e = <<"open", at>>,
           PairedLog(lg), PluginsIn(lg, "before", at), at <= PluginCount
    PROVE  /\ Append(lg, e) \in Seq(HookNames \X Nat) /\ PairedLog(Append(lg, e))
           /\ PluginsIn(Append(lg, e), "before", at + 1)
<1> DEFINE lh == Append(lg, e)
<1>1. /\ e \in HookNames \X Nat /\ e[1] = "open" /\ e[2] = at
      /\ \A n : e = <<"open", n>> <=> n = at
  BY DEF HookNames
<1>2. PairedLog(lh)
  BY <1>1, PairedGrows
<1>3. /\ lh \in Seq(HookNames \X Nat)
      /\ \A w, n : Logged(lh, w, n) <=> Logged(lg, w, n) \/ e = <<w, n>>
      /\ e[1] # "close" /\ Unlogged(lg, "close") => Unlogged(lh, "close")
  BY <1>1, LogGrows
<1> HIDE DEF lh
<1>4. \A n \in Nat : n < at + 1 <=> n < at \/ n = at
  OBVIOUS
<1>5. at > 0 /\ at + 1 > 0 /\ at + 1 <= PluginCount + 1
  BY HookConstants DEF PluginsIn
<1>6. \A n \in Nat : Logged(lh, "open", n) <=> n > 0 /\ n < at + 1
  BY <1>1, <1>3, <1>4, <1>5 DEF PluginsIn
<1>7. Unlogged(lh, "close")
  BY <1>1, <1>3 DEF PluginsIn
<1>8. PluginsIn(lh, "before", at + 1)
  BY <1>5, <1>6, <1>7 DEF PluginsIn
<1> QED BY <1>2, <1>3, <1>8 DEF lh

LEMMA CloseLogged ==
    ASSUME NEW lg \in Seq(HookNames \X Nat), NEW at \in Nat, NEW e, e = <<"close", at>>,
           PairedLog(lg), at > 0, NEW stage \in {"unwind", "final"}, PluginsIn(lg, stage, at)
    PROVE  /\ Append(lg, e) \in Seq(HookNames \X Nat) /\ PairedLog(Append(lg, e))
           /\ PluginsIn(Append(lg, e), stage, at - 1)
<1> DEFINE lh == Append(lg, e)
<1>1. /\ e \in HookNames \X Nat /\ e[1] = "close" /\ e[2] = at
      /\ \A n : e = <<"close", n>> <=> n = at
      /\ \A n : e # <<"open", n>>
  BY DEF HookNames
<1>2. /\ \A n \in Nat : n > 0 /\ n <= at => Logged(lg, "open", n)
      /\ \A n \in Nat : Logged(lg, "open", n) => n <= at \/ Logged(lg, "close", n)
      /\ \A n \in Nat : Logged(lg, "close", n) => n > at
      /\ ~Logged(lg, "open", 0)
  BY DEF PluginsIn
<1>3. Logged(lg, "open", e[2]) /\ \A n \in Nat : Logged(lg, "close", n) => n > e[2]
  BY <1>1, <1>2
<1>4. PairedLog(lh)
  BY <1>1, <1>3, PairedGrows
<1>5. /\ lh \in Seq(HookNames \X Nat)
      /\ \A w, n : Logged(lh, w, n) <=> Logged(lg, w, n) \/ e = <<w, n>>
  BY <1>1, LogGrows
<1> HIDE DEF lh
<1>6. /\ \A n \in Nat : Logged(lh, "close", n) <=> Logged(lg, "close", n) \/ n = at
      /\ \A n \in Nat : Logged(lh, "open", n) <=> Logged(lg, "open", n)
  BY <1>1, <1>5
<1>7. at - 1 \in Nat /\ \A n \in Nat : n <= at <=> n <= at - 1 \/ n = at
  OBVIOUS
<1>8. \A n \in Nat : n > at \/ n = at => n > at - 1
  OBVIOUS
<1>9. /\ \A n \in Nat : n > 0 /\ n <= at - 1 => Logged(lh, "open", n)
      /\ \A n \in Nat : Logged(lh, "open", n) => n <= at - 1 \/ Logged(lh, "close", n)
      /\ \A n \in Nat : Logged(lh, "close", n) => n > at - 1
      /\ ~Logged(lh, "open", 0)
  BY <1>2, <1>6, <1>7, <1>8
<1>10. PluginsIn(lh, stage, at - 1)
  BY <1>9 DEF PluginsIn
<1> QED BY <1>4, <1>5, <1>10 DEF lh

LEMMA OtherLogged ==
    ASSUME NEW lg \in Seq(HookNames \X Nat), NEW at \in Nat,
           NEW what \in {"intercept", "interceptAfter", "event"}, NEW e, e = <<what, at>>,
           PairedLog(lg), NEW n,
           NEW stage \in {"intercept", "interceptAfter", "event"}, PluginsIn(lg, stage, n),
           what = "interceptAfter" => Logged(lg, "intercept", at)
    PROVE  /\ Append(lg, e) \in Seq(HookNames \X Nat) /\ PairedLog(Append(lg, e))
           /\ \A other \in {"intercept", "interceptAfter", "event"}, next \in Nat :
                 PluginsIn(Append(lg, e), other, next)
           /\ \A k \in Nat : Logged(Append(lg, e), "intercept", k) <=>
                                Logged(lg, "intercept", k) \/ (what = "intercept" /\ k = at)
<1> DEFINE lh == Append(lg, e)
<1>1. /\ e \in HookNames \X Nat /\ e[1] = what /\ e[2] = at /\ what # "open" /\ what # "close"
      /\ \A w, k : e = <<w, k>> <=> w = what /\ k = at
  BY DEF HookNames
<1>2. Unlogged(lg, "close")
  BY DEF PluginsIn
<1>3. /\ e[1] # "close"
      /\ e[1] = "interceptAfter" => Logged(lg, "intercept", e[2])
  BY <1>1
<1>4. PairedLog(lh)
  BY <1>1, <1>2, <1>3, PairedGrows
<1>5. /\ lh \in Seq(HookNames \X Nat)
      /\ \A w, k : Logged(lh, w, k) <=> Logged(lg, w, k) \/ e = <<w, k>>
      /\ e[1] # "close" /\ Unlogged(lg, "close") => Unlogged(lh, "close")
  BY <1>1, LogGrows
<1> HIDE DEF lh
<1>6. /\ \A k \in Nat : Logged(lh, "open", k) <=> Logged(lg, "open", k)
      /\ ~Logged(lh, "open", 0) <=> ~Logged(lg, "open", 0)
      /\ Unlogged(lh, "close")
  BY <1>1, <1>2, <1>5
<1>7. \A other \in {"intercept", "interceptAfter", "event"}, next \in Nat :
         PluginsIn(lh, other, next)
  BY <1>6 DEF PluginsIn
<1>8. \A k \in Nat : Logged(lh, "intercept", k) <=>
                        Logged(lg, "intercept", k) \/ (what = "intercept" /\ k = at)
  BY <1>1, <1>5
<1> QED BY <1>4, <1>5, <1>7, <1>8 DEF lh

\* A hook that completes is logged.
LEMMA LoggingKeepsHooks ==
    ASSUME HookInv,
           BeforeRuns \/ UnwindRuns \/ InterceptRuns \/ InterceptAfterRuns \/ EventHookRuns
           \/ FinalRuns
    PROVE  HookInv'
<1> USE HookConstants
<1> DEFINE at == hook.at
<1>1. /\ hook \in Calls /\ at \in Nat /\ Interceptors \in Nat
      /\ hookLog \in Seq(HookNames \X Nat) /\ PairedLog(hookLog)
  BY DEF HookInv, HookTypeOK, Calls, Interceptors
<1>2. /\ PluginsIn(hookLog, hook.stage, at)
      /\ InterceptorsIn(hookLog, hook.stage, at, hook.early, Interceptors)
  BY DEF HookInv
<1>3. ASSUME NEW next \in Nat, hook' = [hook EXCEPT !.at = next]
      PROVE  /\ hook' \in Calls /\ hook'.stage = hook.stage /\ hook'.at = next
             /\ hook'.early = hook.early /\ hook'.cut = hook.cut /\ hook'.side = hook.side
  BY <1>1, <1>3 DEF Calls
<1>4. CASE BeforeRuns
  <2>1. /\ hook.stage = "before" /\ at <= PluginCount /\ hook' = [hook EXCEPT !.at = at + 1]
        /\ hookLog' = Append(hookLog, <<"open", at>>) /\ at + 1 \in Nat
    BY <1>1, <1>4 DEF BeforeRuns, Logs
  <2>2. hook' \in Calls /\ hook'.stage = "before" /\ hook'.at = at + 1
    BY <1>3, <2>1
  <2>3. /\ hookLog' \in Seq(HookNames \X Nat) /\ PairedLog(hookLog')
        /\ PluginsIn(hookLog', "before", at + 1)
    BY <1>1, <1>2, <2>1, OpenLogged
  <2> QED BY <2>2, <2>3 DEF HookInv, HookTypeOK, InterceptorsIn, ClosedAtEnd
<1>5. CASE UnwindRuns \/ FinalRuns
  <2>1. /\ hook.stage \in {"unwind", "final"} /\ at > 0 /\ hook' = [hook EXCEPT !.at = at - 1]
        /\ hookLog' = Append(hookLog, <<"close", at>>) /\ at - 1 \in Nat
    BY <1>1, <1>5 DEF UnwindRuns, FinalRuns, Logs
  <2>2. hook' \in Calls /\ hook'.stage = hook.stage /\ hook'.at = at - 1
    BY <1>3, <2>1
  <2>3. /\ hookLog' \in Seq(HookNames \X Nat) /\ PairedLog(hookLog')
        /\ PluginsIn(hookLog', hook.stage, at - 1)
    BY <1>1, <1>2, <2>1, CloseLogged
  <2> QED BY <2>1, <2>2, <2>3 DEF HookInv, HookTypeOK, InterceptorsIn, ClosedAtEnd
<1>6. CASE InterceptRuns
  <2>1. /\ hook.stage = "intercept" /\ at <= Interceptors
        /\ hookLog' = Append(hookLog, <<"intercept", at>>)
    BY <1>6 DEF InterceptRuns, Logs
  <2>2. PICK early \in BOOLEAN :
          hook' = [hook EXCEPT !.executed = at, !.early = early,
                               !.stage = IF early THEN "interceptAfter" ELSE hook.stage,
                               !.at = IF early THEN hook.at ELSE hook.at + 1]
    BY <1>6 DEF InterceptRuns
  <2>3. /\ hook' \in Calls /\ hook'.stage = (IF early THEN "interceptAfter" ELSE "intercept")
        /\ hook'.at = (IF early THEN at ELSE at + 1) /\ hook'.early = early
        /\ hook'.side = hook.side
    <3> DEFINE stage == IF early THEN "interceptAfter" ELSE "intercept"
               next  == IF early THEN at ELSE at + 1
    <3>1. /\ hook' = [hook EXCEPT !.executed = at, !.early = early, !.stage = stage, !.at = next]
          /\ stage \in HookStages /\ next \in Nat
      BY <1>1, <2>1, <2>2 DEF HookStages
    <3> HIDE DEF stage, next, at
    <3>2. /\ hook' \in Calls /\ hook'.stage = stage /\ hook'.at = next /\ hook'.early = early
          /\ hook'.side = hook.side
      BY <1>1, <3>1 DEF Calls
    <3> QED BY <3>2 DEF stage, next
  <2>4. /\ hookLog' \in Seq(HookNames \X Nat) /\ PairedLog(hookLog')
        /\ PluginsIn(hookLog', hook'.stage, hook'.at)
        /\ \A k \in Nat : Logged(hookLog', "intercept", k) <=>
                             Logged(hookLog, "intercept", k) \/ k = at
    <3>1. hook'.stage \in {"intercept", "interceptAfter", "event"} /\ hook'.at \in Nat
      BY <1>1, <2>3
    <3>2. "intercept" \in {"intercept", "interceptAfter", "event"} /\ "intercept" # "interceptAfter"
      OBVIOUS
    <3> HIDE DEF at
    <3> QED BY <1>1, <1>2, <2>1, <3>1, <3>2, OtherLogged
  <2> HIDE DEF at
  <2>5. \A k \in Nat : k > 0 /\ k < at => Logged(hookLog, "intercept", k)
    BY <1>2, <2>1 DEF InterceptorsIn
  <2>6. /\ \A k \in Nat : k > 0 /\ k <= at => Logged(hookLog', "intercept", k)
        /\ \A k \in Nat : k > 0 /\ k < at + 1 => Logged(hookLog', "intercept", k)
    BY <1>1, <2>4, <2>5
  <2>7. InterceptorsIn(hookLog', hook'.stage, hook'.at, hook'.early, Interceptors')
    <3>1. CASE early
      BY <2>3, <2>6, <3>1 DEF InterceptorsIn
    <3>2. CASE ~early
      BY <2>3, <2>6, <3>2 DEF InterceptorsIn
    <3> QED BY <3>1, <3>2
  <2> QED BY <2>3, <2>4, <2>7 DEF HookInv, HookTypeOK, ClosedAtEnd
<1>7. CASE InterceptAfterRuns \/ EventHookRuns
  <2>1. PICK what \in {"interceptAfter", "event"} :
          hook.stage = what /\ at > 0 /\ hookLog' = Append(hookLog, <<what, at>>)
    BY <1>7 DEF InterceptAfterRuns, EventHookRuns, Logs
  <2>2. at - 1 \in Nat /\ at - 1 <= at /\ 0 <= at
    BY <1>1, <2>1
  <2>3. hook' = [hook EXCEPT !.at = 0] \/ hook' = [hook EXCEPT !.at = at - 1]
    BY <1>7 DEF InterceptAfterRuns, EventHookRuns
  <2>4. PICK next \in Nat : next <= at /\ hook' = [hook EXCEPT !.at = next]
    BY <2>2, <2>3
  <2>5. /\ hook' \in Calls /\ hook'.stage = what /\ hook'.at = next
        /\ hook'.early = hook.early /\ hook'.side = hook.side
    BY <1>3, <2>1, <2>4
  <2> HIDE DEF at
  <2>6. what = "interceptAfter" => Logged(hookLog, "intercept", at)
    BY <1>1, <1>2, <2>1 DEF InterceptorsIn
  <2>7. /\ hookLog' \in Seq(HookNames \X Nat) /\ PairedLog(hookLog')
        /\ PluginsIn(hookLog', what, next)
        /\ \A k \in Nat : Logged(hookLog', "intercept", k) <=> Logged(hookLog, "intercept", k)
    BY <1>1, <1>2, <2>1, <2>6, OtherLogged
  <2>8. Interceptors' = Interceptors
    BY <2>5 DEF Interceptors
  <2>9. \A k \in Nat : k <= next => k <= at
    BY <1>1, <2>4
  <2>10. InterceptorsIn(hookLog', what, next, hook.early, Interceptors)
    BY <1>2, <2>1, <2>7, <2>9 DEF InterceptorsIn
  <2> QED BY <2>1, <2>5, <2>7, <2>8, <2>10 DEF HookInv, HookTypeOK, ClosedAtEnd
<1> QED BY <1>4, <1>5, <1>6, <1>7

\* The invariant of the hooks of one call, for any number of plugins and interceptors.
THEOREM HookInvariant == HookSpec => []HookInv
<1>1. HookInv /\ [HookNext]_hookVars => HookInv'
  <2> SUFFICES ASSUME HookInv, [HookNext]_hookVars PROVE HookInv'
    OBVIOUS
  <2>1. CASE HookNext
    BY <2>1, MovingKeepsHooks, LoggingKeepsHooks DEF HookNext
  <2>2. CASE UNCHANGED hookVars
    BY <2>2 DEF hookVars, HookInv, HookTypeOK, Interceptors, ClosedAtEnd
  <2> QED BY <2>1, <2>2
<1> QED BY <1>1, HookStarts, PTL DEF HookSpec

\* HooksPaired: the plugins of a call nest and every one opened is closed, except in a call
\* that was cancelled; an interceptor is only left where it was entered.
THEOREM HooksArePaired == HookSpec => []HooksPaired
<1>1. ASSUME HookInv PROVE HooksPaired
  <2> DEFINE m == Len(hookLog)
  <2>1. DOMAIN hookLog = 1..m /\ \A i \in 1..m : hookLog[i] \in HookNames \X Nat
    BY <1>1 DEF HookInv, HookTypeOK
  <2>2. PairedLog(hookLog) /\ ClosedAtEnd
    BY <1>1 DEF HookInv
  <2>3. \A i \in 1..m : hookLog[i] = <<hookLog[i][1], hookLog[i][2]>> /\ hookLog[i][2] \in Nat
    BY <2>1
  <2>4. \A w, n : <<w, n>>[1] = w /\ <<w, n>>[2] = n
    OBVIOUS
  <2>5. \A w : \A i : i \in Where(w) <=> i \in 1..m /\ hookLog[i][1] = w
    BY <2>1 DEF Where
  <2> HIDE DEF m
  <2>6. \A i, j \in Where("close") : i < j => hookLog[i][2] > hookLog[j][2]
    BY <2>2, <2>5 DEF PairedLog, m
  <2>7. \A i \in Where("close") : \E j \in Where("open") : j < i /\ hookLog[j][2] = hookLog[i][2]
    <3> SUFFICES ASSUME NEW i \in Where("close")
                 PROVE  \E j \in Where("open") : j < i /\ hookLog[j][2] = hookLog[i][2]
      OBVIOUS
    <3>1. PICK j \in 1..m : j < i /\ hookLog[j] = <<"open", hookLog[i][2]>>
      BY <2>2, <2>5 DEF PairedLog, m
    <3> QED BY <2>4, <2>5, <3>1
  <2>8. \A i \in Where("event"), j \in Where("close") : i < j
    BY <2>2, <2>5 DEF PairedLog, m
  <2>9. \A i \in Where("interceptAfter") :
          \E j \in Where("intercept") : j < i /\ hookLog[j][2] = hookLog[i][2]
    <3> SUFFICES ASSUME NEW i \in Where("interceptAfter")
                 PROVE  \E j \in Where("intercept") : j < i /\ hookLog[j][2] = hookLog[i][2]
      OBVIOUS
    <3>1. PICK j \in 1..m : j < i /\ hookLog[j] = <<"intercept", hookLog[i][2]>>
      BY <2>2, <2>5 DEF PairedLog, m
    <3> QED BY <2>4, <2>5, <3>1
  <2>10. hook.stage = "ended" /\ ~hook.cut =>
           \A i \in Where("open") : \E j \in Where("close") : hookLog[j][2] = hookLog[i][2]
    <3> SUFFICES ASSUME hook.stage = "ended", ~hook.cut, NEW i \in Where("open")
                 PROVE  \E j \in Where("close") : hookLog[j][2] = hookLog[i][2]
      OBVIOUS
    <3>1. Logged(hookLog, "open", hookLog[i][2]) /\ hookLog[i][2] \in Nat
      BY <2>3, <2>5 DEF Logged, m
    <3>2. Logged(hookLog, "close", hookLog[i][2])
      BY <2>2, <3>1 DEF ClosedAtEnd
    <3>3. PICK j \in 1..m : hookLog[j] = <<"close", hookLog[i][2]>>
      BY <3>2 DEF Logged, m
    <3> QED BY <2>4, <2>5, <3>3
  <2> QED BY <2>6, <2>7, <2>8, <2>9, <2>10 DEF HooksPaired
<1> QED BY <1>1, HookInvariant, PTL

(***************************************************************************)
(* PushConfigs.  The readable rows are the configurations promised and not *)
(* taken over, at all times; what a consumer read for an event stays the   *)
(* audience of the event; and its posts to a webhook never run ahead of    *)
(* the event it sends.                                                     *)
(***************************************************************************)
PushSpec == PushInit /\ [][PushNext]_pushVars

\* The events a webhook was called for increase, up to the event e.
Ordered(s, e) ==
    /\ s \in Seq(Nat)
    /\ \A i, j \in 1..Len(s) : i < j => s[i] < s[j]
    /\ \A i \in 1..Len(s) : s[i] <= e
CalledFor(s, e) == \E i \in 1..Len(s) : s[i] = e

RegistryKept ==
    /\ pushMode.key \in {"none", "k1"} /\ pushMode.kind \in {"memory", "database"}
    /\ pushTaken \subseteq pushRegistry /\ (pushMode.kind = "memory" => pushTaken = {})
    /\ pushChanges \in Nat /\ (pushChanges = 0 => pushTaken = {})
    /\ SelectConfigs(pushRows) = Standing
SendKept(send, most) ==
    /\ send = [event |-> send.event, phase |-> send.phase, audience |-> send.audience,
               stage |-> send.stage]
    /\ send.event \in Nat /\ send.event <= most /\ send.phase \in {"idle", "sending", "ended", "stopped"}
    /\ send.phase # "idle" => DOMAIN send.stage = send.audience
    /\ send.phase = "ended" => \A c \in DOMAIN send.stage : send.stage[c] \in Handled
SendingKept ==
    /\ pushEvents \in Nat /\ pushSend = [p \in PushSenders |-> pushSend[p]]
    /\ \A p \in PushSenders : SendKept(pushSend[p], pushEvents)
PostsKept ==
    /\ DOMAIN pushPosts = PushSenders
    /\ \A p \in PushSenders :
          /\ \A c : Ordered(PostsOf(p, c), pushSend[p].event)
          /\ pushSend[p].phase # "idle" =>
                \A c \in DOMAIN pushSend[p].stage :
                   CalledFor(PostsOf(p, c), pushSend[p].event) <=> pushSend[p].stage[c] = "posted"
PushInv == RegistryKept /\ SendingKept /\ PostsKept

\* One more post, for an event later than those before it.
LEMMA PostsGrow ==
    ASSUME NEW s, NEW e \in Nat, Ordered(s, e), ~CalledFor(s, e)
    PROVE  Ordered(Append(s, e), e) /\ CalledFor(Append(s, e), e)
<1> DEFINE t == Append(s, e)
           m == Len(s)
<1>1. s \in Seq(Nat) /\ m \in Nat /\ \A i \in 1..m : s[i] \in Nat /\ s[i] <= e /\ s[i] # e
  BY DEF Ordered, CalledFor
<1>2. t \in Seq(Nat) /\ Len(t) = m + 1 /\ t[m + 1] = e /\ \A i \in 1..m : t[i] = s[i]
  BY <1>1
<1>3. \A i, j \in 1..m : i < j => s[i] < s[j]
  BY DEF Ordered
<1> HIDE DEF t, m
<1>4. \A i \in 1..m + 1 : i \in 1..m \/ i = m + 1
  BY <1>1
<1>5. m + 1 \in 1..m + 1 /\ \A i \in 1..m, j \in 1..m + 1 : i < j => i \in 1..m
  BY <1>1
<1>6. \A i \in 1..m : t[i] < t[m + 1]
  BY <1>1, <1>2
<1>7. ASSUME NEW i \in 1..m + 1, NEW j \in 1..m + 1, i < j PROVE t[i] < t[j]
  <2>1. i \in 1..m
    BY <1>1, <1>7
  <2>2. CASE j \in 1..m
    BY <1>2, <1>3, <1>7, <2>1, <2>2
  <2>3. CASE j = m + 1
    BY <1>6, <2>1, <2>3
  <2> QED BY <1>4, <2>2, <2>3
<1>8. \A i \in 1..m + 1 : t[i] <= e
  BY <1>1, <1>2, <1>4
<1>9. Ordered(t, e)
  BY <1>2, <1>7, <1>8 DEF Ordered
<1>10. CalledFor(t, e)
  BY <1>2, <1>5 DEF CalledFor
<1> QED BY <1>9, <1>10 DEF t

\* A later event: the posts stay below it.
LEMMA LaterEvent ==
    ASSUME NEW s, NEW e \in Nat, NEW later \in Nat, e < later, Ordered(s, e)
    PROVE  Ordered(s, later) /\ ~CalledFor(s, later)
<1>1. s \in Seq(Nat) /\ \A i \in 1..Len(s) : s[i] \in Nat /\ s[i] <= e
  BY DEF Ordered
<1>2. \A i \in 1..Len(s) : s[i] <= later /\ s[i] # later
  BY <1>1
<1> QED BY <1>2 DEF Ordered, CalledFor

\* What is read back of a row.
LEMMA Parsed ==
    \A r : /\ ParsedConfig(r).owner = r.owner /\ ParsedConfig(r).task = r.task
           /\ ParsedConfig(r).id = r.id /\ ParsedConfig(r).url = r.url
BY DEF ParsedConfig

LEMMA Selected ==
    \A rows, c : c \in SelectConfigs(rows) <=> \E r \in rows : Readable(r) /\ c = ParsedConfig(r)
BY DEF SelectConfigs

\* The readers select what the callers were promised.
LEMMA ReadersSelect ==
    ASSUME RegistryKept, NEW owner, NEW task
    PROVE  /\ GetInfo(owner, task) = {c \in Standing : c.owner = owner /\ c.task = task}
           /\ GetInfoForDispatch(task) = {c \in Standing : c.task = task}
<1>1. \A c : c \in Standing <=> \E r \in pushRows : Readable(r) /\ c = ParsedConfig(r)
  BY Selected DEF RegistryKept
<1>2. \A c : c \in GetInfo(owner, task) <=>
               \E r \in pushRows : /\ r.task = task /\ r.owner = owner
                                   /\ Readable(r) /\ c = ParsedConfig(r)
  BY Selected DEF GetInfo
<1>3. \A c : c \in GetInfoForDispatch(task) <=>
               \E r \in pushRows : r.task = task /\ Readable(r) /\ c = ParsedConfig(r)
  BY Selected DEF GetInfoForDispatch
<1>4. \A c : c \in GetInfo(owner, task) <=> c \in Standing /\ c.owner = owner /\ c.task = task
  BY <1>1, <1>2, Parsed
<1>5. \A c : c \in GetInfoForDispatch(task) <=> c \in Standing /\ c.task = task
  BY <1>1, <1>3, Parsed
<1>6. GetInfo(owner, task) = {c \in Standing : c.owner = owner /\ c.task = task}
  BY <1>4
<1>7. GetInfoForDispatch(task) = {c \in Standing : c.task = task}
  BY <1>5
<1> QED BY <1>6, <1>7

\* Requests change rows and promises alike, and leave the senders alone.
LEMMA RequestsKeepRegistry ==
    ASSUME PushInv, CreateConfig \/ StoredEarlier \/ DeleteConfig
    PROVE  PushInv'
<1>1. UNCHANGED <<pushMode, pushEvents, pushSend, pushPosts>>
  BY DEF CreateConfig, StoredEarlier, DeleteConfig
<1>2. SendingKept' /\ PostsKept'
  BY <1>1 DEF PushInv, SendingKept, SendKept, PostsKept, PostsOf
<1>3. /\ pushMode.key \in {"none", "k1"} /\ pushMode.kind \in {"memory", "database"}
      /\ pushTaken \subseteq pushRegistry /\ (pushMode.kind = "memory" => pushTaken = {})
      /\ \A c : c \in pushRegistry /\ c \notin pushTaken <=>
                  \E r \in pushRows : Readable(r) /\ c = ParsedConfig(r)
  BY Selected DEF PushInv, RegistryKept, Standing
<1>4. \A r : Readable(r)' <=> Readable(r)
  BY <1>1 DEF Readable, Decrypted
<1>5. \A c : c \in SelectConfigs(pushRows)' <=> \E r \in pushRows' : Readable(r) /\ c = ParsedConfig(r)
  BY <1>4 DEF SelectConfigs, ParsedConfig
<1>0. pushChanges \in Nat /\ pushChanges' \in Nat /\ pushChanges' # 0
  BY DEF PushInv, RegistryKept, CreateConfig, StoredEarlier, DeleteConfig
<1>6. SUFFICES /\ pushTaken' \subseteq pushRegistry'
               /\ pushMode.kind = "memory" => pushTaken' = {}
               /\ \A c : c \in pushRegistry' /\ c \notin pushTaken' <=>
                           \E r \in pushRows' : Readable(r) /\ c = ParsedConfig(r)
  <2>1. SelectConfigs(pushRows)' = Standing'
    BY <1>5, <1>6 DEF Standing
  <2> QED BY <1>0, <1>1, <1>2, <1>3, <1>6, <2>1 DEF PushInv, RegistryKept
<1>7. CASE CreateConfig
  <2>1. PICK owner \in PushOwners, task \in PushTasks, id \in PushIds \cup {NoId}, url \in PushUrls :
          /\ pushRows' = (pushRows \ SetOver(owner, task, id)) \cup {ToRow(owner, task, id, url)}
          /\ pushRegistry' = Registered(owner, task, id, url)
          /\ pushTaken' = TakenOver(owner, task, id)
    BY <1>7 DEF CreateConfig
  <2> DEFINE own == NormalizedId(task, id)
             new == [owner |-> owner, task |-> task, id |-> own, url |-> url]
             kept == ToRow(owner, task, id, url)
             Same(x) == x.task = task /\ x.id = own
             Over(x) == Same(x) /\ (pushMode.kind = "memory" => x.owner = owner)
  <2>2. Readable(kept) /\ ParsedConfig(kept) = new
    BY <1>3 DEF ToRow, Readable, Decrypted, ParsedConfig
  <2>3. \A r : r \in pushRows' <=> (r \in pushRows /\ ~Over(r)) \/ r = kept
    BY <2>1 DEF SetOver
  <2>4. \A c : c \in pushRegistry' <=>
                 (c \in pushRegistry /\ ~(Same(c) /\ c.owner = owner)) \/ c = new
    BY <2>1 DEF Registered, OwnConfigs, SameConfig
  <2>5. \A c : c \in pushTaken' <=>
                 \/ c \in pushTaken /\ ~(Same(c) /\ c.owner = owner)
                 \/ c \in pushRegistry /\ Same(c) /\ c.owner # owner /\ pushMode.kind = "database"
    BY <1>3, <2>1 DEF TakenOver, OwnConfigs, SameConfig
  <2>6. \A r : Over(ParsedConfig(r)) <=> Over(r)
    BY Parsed
  <2>7. Same(new) /\ new.owner = owner
    OBVIOUS
  <2>8. \A c : Over(c) <=> Same(c) /\ (c.owner = owner \/ pushMode.kind = "database")
    BY <1>3
  <2> HIDE DEF own, new, kept, Same, Over
  <2>9. \A c : c \in pushRegistry' /\ c \notin pushTaken' <=>
                 (c \in pushRegistry /\ c \notin pushTaken /\ ~Over(c)) \/ c = new
    BY <1>3, <2>4, <2>5, <2>7, <2>8
  <2>10. \A c : c \in pushRegistry' /\ c \notin pushTaken' <=>
                 \E r \in pushRows' : Readable(r) /\ c = ParsedConfig(r)
    BY <1>3, <2>2, <2>3, <2>6, <2>9
  <2>11. pushTaken' \subseteq pushRegistry'
    BY <1>3, <2>4, <2>5
  <2>12. pushMode.kind = "memory" => pushTaken' = {}
    BY <1>3, <2>5
  <2> QED BY <2>10, <2>11, <2>12
<1>8. CASE StoredEarlier
  <2>1. PICK owner \in PushOwners, task \in PushTasks, sealed \in {"none", "lost"} :
          /\ pushRows = {} /\ pushMode.kind = "database" /\ pushTaken' = pushTaken
          /\ pushRows' = {[owner |-> owner, task |-> task, id |-> task, url |-> "u",
                           sealed |-> sealed]}
          /\ pushRegistry' = IF sealed = "none" THEN Registered(owner, task, NoId, "u") ELSE {}
    BY <1>8 DEF StoredEarlier
  <2> DEFINE new == [owner |-> owner, task |-> task, id |-> task, url |-> "u"]
             kept == [owner |-> owner, task |-> task, id |-> task, url |-> "u", sealed |-> sealed]
  <2>2. ParsedConfig(kept) = new /\ (Readable(kept) <=> sealed = "none")
    BY <1>3 DEF Readable, Decrypted, ParsedConfig
  <2>3. pushChanges = 0
    BY <1>8 DEF StoredEarlier
  <2>4. pushRegistry = {} /\ pushTaken = {}
    <3>1. pushTaken = {}
      BY <2>3 DEF PushInv, RegistryKept
    <3> QED BY <1>3, <2>1, <3>1
  <2>5. \A c : c \in Registered(owner, task, NoId, "u") <=> c = new
    BY <2>4 DEF Registered, NormalizedId
  <2> HIDE DEF new
  <2>6. \A c : c \in pushRegistry' <=> sealed = "none" /\ c = new
    BY <2>1, <2>5
  <2>7. pushRows' = {kept} /\ pushTaken' = {}
    BY <2>1, <2>4
  <2> HIDE DEF kept
  <2> QED BY <2>2, <2>6, <2>7
<1>9. CASE DeleteConfig
  <2>1. PICK owner \in PushOwners, task \in PushTasks, id \in PushIds \cup {NoId} :
          LET gone == {c \in pushRegistry :
                         c.owner = owner /\ c.task = task /\ (id = NoId \/ c.id = id)}
          IN /\ pushRows' = pushRows \ DeletedConfigs(owner, task, id)
             /\ pushRegistry' = pushRegistry \ gone /\ pushTaken' = pushTaken \ gone
    BY <1>9 DEF DeleteConfig
  <2> DEFINE Gone(x) == x.owner = owner /\ x.task = task /\ (id = NoId \/ x.id = id)
  <2>2. \A r : r \in pushRows' <=> r \in pushRows /\ ~Gone(r)
    BY <2>1 DEF DeletedConfigs
  <2>3. /\ \A c : c \in pushRegistry' <=> c \in pushRegistry /\ ~Gone(c)
        /\ \A c : c \in pushTaken' <=> c \in pushTaken /\ ~Gone(c)
    BY <1>3, <2>1
  <2>4. \A r : Gone(ParsedConfig(r)) <=> Gone(r)
    BY Parsed
  <2> HIDE DEF Gone
  <2>5. \A c : c \in pushRegistry' /\ c \notin pushTaken' <=>
                 \E r \in pushRows' : Readable(r) /\ c = ParsedConfig(r)
    BY <1>3, <2>2, <2>3, <2>4
  <2>6. pushTaken' \subseteq pushRegistry' /\ (pushMode.kind = "memory" => pushTaken' = {})
    BY <1>3, <2>3
  <2> QED BY <2>5, <2>6
<1> QED BY <1>7, <1>8, <1>9

\* What a step of one consumer has to show.
Replaces(p, send) ==
    /\ UNCHANGED <<pushMode, pushStore>> /\ pushSend' = [pushSend EXCEPT ![p] = send]
    /\ pushEvents' \in Nat /\ pushEvents <= pushEvents' /\ SendKept(send, pushEvents')
    /\ DOMAIN pushPosts' = PushSenders
    /\ \A q \in PushSenders : q # p => pushPosts'[q] = pushPosts[q]
    /\ \A c : Ordered(PostsOf(p, c)', send.event)
    /\ send.phase # "idle" => \A c \in DOMAIN send.stage :
          CalledFor(PostsOf(p, c)', send.event) <=> send.stage[c] = "posted"

LEMMA SenderStep ==
    ASSUME PushInv, NEW p \in PushSenders, NEW send, Replaces(p, send)
    PROVE  PushInv'
<1> USE DEF Replaces
<1>1. RegistryKept'
  BY DEF PushInv, RegistryKept, pushStore, SelectConfigs, Readable, Decrypted, ParsedConfig, Standing
<1>2. /\ DOMAIN pushSend' = PushSenders /\ pushSend'[p] = send
      /\ \A q \in PushSenders : q # p => pushSend'[q] = pushSend[q]
  BY DEF PushInv, SendingKept
<1>3. \A q \in PushSenders : SendKept(pushSend[q], pushEvents')
  BY DEF PushInv, SendingKept, SendKept
<1>4. SendingKept'
  BY <1>2, <1>3 DEF SendingKept
<1>5. \A q \in PushSenders : q # p => \A c : PostsOf(q, c)' = PostsOf(q, c)
  BY DEF PostsOf
<1>6. ASSUME NEW q \in PushSenders
      PROVE  /\ \A c : Ordered(PostsOf(q, c)', pushSend'[q].event)
             /\ pushSend'[q].phase # "idle" => \A c \in DOMAIN pushSend'[q].stage :
                   CalledFor(PostsOf(q, c)', pushSend'[q].event) <=> pushSend'[q].stage[c] = "posted"
  <2>1. CASE q = p
    BY <1>2, <2>1
  <2>2. CASE q # p
    BY <1>2, <1>5, <2>2 DEF PushInv, PostsKept
  <2> QED BY <2>1, <2>2
<1>7. PostsKept'
  BY <1>6 DEF PostsKept
<1> QED BY <1>1, <1>4, <1>7 DEF PushInv

\* Reading the configurations for an event, and the end of a send.
LEMMA SendsKeepPushes ==
    ASSUME PushInv, NEW p \in PushSenders, BeginSend(p) \/ SendFails(p) \/ SendEnds(p) \/ NextEvent(p) \/ SenderStops(p)
    PROVE  PushInv'
<1> DEFINE send == pushSend[p]
<1>1. UNCHANGED <<pushMode, pushStore, pushPosts>>
  BY DEF BeginSend, SendFails, SendEnds, NextEvent, SenderStops, TakesEvent, Phase
<1>2. /\ SendKept(send, pushEvents) /\ pushEvents \in Nat /\ DOMAIN pushSend = PushSenders
      /\ DOMAIN pushPosts' = PushSenders /\ \A q \in PushSenders : pushPosts'[q] = pushPosts[q]
      /\ \A c : PostsOf(p, c)' = PostsOf(p, c) /\ Ordered(PostsOf(p, c), send.event)
      /\ send.phase # "idle" => \A c \in DOMAIN send.stage :
            CalledFor(PostsOf(p, c), send.event) <=> send.stage[c] = "posted"
  BY <1>1 DEF PushInv, SendingKept, PostsKept, PostsOf
<1>3. CASE BeginSend(p)
  <2>1. PICK task \in PushTasks :
          pushSend' = [pushSend EXCEPT ![p] =
                [event |-> pushEvents + 1, phase |-> "sending",
                 audience |-> {c \in Standing : c.task = task},
                 stage |-> [c \in GetInfoForDispatch(task) |-> "asked"]]]
    BY <1>3 DEF BeginSend
  <2> DEFINE new == [event |-> pushEvents + 1, phase |-> "sending",
                     audience |-> {c \in Standing : c.task = task},
                     stage |-> [c \in GetInfoForDispatch(task) |-> "asked"]]
  <2>2. GetInfoForDispatch(task) = {c \in Standing : c.task = task}
    BY ReadersSelect DEF PushInv
  <2>3. pushEvents' = pushEvents + 1
    BY <1>3 DEF BeginSend, TakesEvent
  <2>4. SendKept(new, pushEvents')
    BY <1>2, <2>2, <2>3 DEF SendKept
  <2>5. \A c : Ordered(PostsOf(p, c), new.event) /\ ~CalledFor(PostsOf(p, c), new.event)
    BY <1>2, LaterEvent DEF SendKept
  <2>6. \A c \in DOMAIN new.stage : new.stage[c] # "posted"
    OBVIOUS
  <2>7. pushSend' = [pushSend EXCEPT ![p] = new]
    BY <2>1
  <2> HIDE DEF new
  <2>8. pushEvents' \in Nat /\ pushEvents <= pushEvents'
    BY <1>2, <2>3
  <2>9. Replaces(p, new)
    BY <1>1, <1>2, <2>4, <2>5, <2>6, <2>7, <2>8 DEF Replaces
  <2> QED BY <2>9, SenderStep
<1>4. CASE SendFails(p)
  <2>1. pushEvents' = pushEvents + 1 /\ pushSend' = pushSend
    BY <1>4 DEF SendFails, TakesEvent
  <2>2. SendKept(send, pushEvents') /\ pushEvents' \in Nat /\ pushEvents <= pushEvents'
    BY <1>2, <2>1 DEF SendKept
  <2>3. pushSend' = [pushSend EXCEPT ![p] = send]
    BY <2>1 DEF PushInv, SendingKept
  <2> HIDE DEF send
  <2>4. Replaces(p, send)
    BY <1>1, <1>2, <2>2, <2>3 DEF Replaces
  <2> QED BY <2>4, SenderStep
<1>5. CASE SendEnds(p) \/ NextEvent(p) \/ SenderStops(p)
  <2>1. PICK to \in {"idle", "ended", "stopped"} :
          /\ Phase(p, to) /\ send.phase # "idle"
          /\ to = "ended" => \A c \in DOMAIN send.stage : send.stage[c] \in Handled
    BY <1>5 DEF SendEnds, NextEvent, SenderStops
  <2> DEFINE new == [send EXCEPT !.phase = to]
  <2>2. pushSend' = [pushSend EXCEPT ![p] = new] /\ pushEvents' = pushEvents
    BY <2>1 DEF Phase
  <2>3. /\ new.event = send.event /\ new.stage = send.stage /\ new.audience = send.audience
        /\ new.phase = to
        /\ new = [event |-> new.event, phase |-> new.phase, audience |-> new.audience,
                  stage |-> new.stage]
    BY <1>2 DEF SendKept
  <2> HIDE DEF new, send
  <2>4. SendKept(new, pushEvents')
    BY <1>2, <2>1, <2>2, <2>3 DEF SendKept
  <2>5. /\ \A c : Ordered(PostsOf(p, c)', new.event)
        /\ \A c \in DOMAIN new.stage : CalledFor(PostsOf(p, c)', new.event) <=> new.stage[c] = "posted"
    BY <1>2, <2>1, <2>3
  <2>6. pushEvents' \in Nat /\ pushEvents <= pushEvents'
    BY <1>2, <2>2
  <2>7. Replaces(p, new)
    BY <1>1, <1>2, <2>2, <2>4, <2>5, <2>6 DEF Replaces
  <2> QED BY <2>7, SenderStep
<1> QED BY <1>3, <1>4, <1>5

\* What the move of one delivery makes of the record of its send.
LEMMA StageReplaced ==
    ASSUME NEW p \in PushSenders, NEW c, NEW to, NEW send, send = pushSend[p],
           DOMAIN pushSend = PushSenders, Moves(p, c, to), c \in DOMAIN send.stage,
           send = [event |-> send.event, phase |-> send.phase, audience |-> send.audience,
                   stage |-> send.stage]
    PROVE  /\ pushSend' = [pushSend EXCEPT ![p] =
                  [event |-> send.event, phase |-> send.phase, audience |-> send.audience,
                   stage |-> [send.stage EXCEPT ![c] = to]]]
           /\ send.phase = "sending" /\ pushEvents' = pushEvents
           /\ pushMode' = pushMode /\ pushStore' = pushStore
<1>1. [send EXCEPT !.stage = [send.stage EXCEPT ![c] = to]] =
        [event |-> send.event, phase |-> send.phase, audience |-> send.audience,
         stage |-> [send.stage EXCEPT ![c] = to]]
  OBVIOUS
<1>2. pushSend' = [pushSend EXCEPT ![p] = [send EXCEPT !.stage = [send.stage EXCEPT ![c] = to]]]
  BY DEF Moves
<1>3. send.phase = "sending" /\ pushEvents' = pushEvents /\ pushMode' = pushMode
      /\ pushStore' = pushStore
  BY DEF Moves
<1> QED BY <1>1, <1>2, <1>3

\* What the move of a delivery does to the calls: it adds one exactly when it has posted.
CallsWebhook(p, c, to, event) ==
    /\ to # "posted" => pushPosts' = pushPosts
    /\ to = "posted" => pushPosts' = [pushPosts EXCEPT ![p] =
                            [d \in DOMAIN pushPosts[p] \cup {c} |->
                                IF d = c THEN Append(PostsOf(p, c), event) ELSE pushPosts[p][d]]]

\* One delivery moves on: its webhook is called exactly when it passes from "post".
LEMMA DeliveryKeepsPushes ==
    ASSUME PushInv, NEW p \in PushSenders, NEW send, send = pushSend[p], NEW c \in DOMAIN send.stage,
           NEW to \in {"post", "skipped", "posted"}, Moves(p, c, to), send.stage[c] # "posted",
           CallsWebhook(p, c, to, send.event)
    PROVE  PushInv'
<1>1. /\ SendKept(send, pushEvents) /\ pushEvents \in Nat /\ DOMAIN pushPosts = PushSenders
      /\ DOMAIN pushSend = PushSenders
  BY DEF PushInv, SendingKept, PostsKept
<1>2. send = [event |-> send.event, phase |-> send.phase, audience |-> send.audience,
              stage |-> send.stage]
  BY <1>1 DEF SendKept
<1>3. PICK new : new = [event |-> send.event, phase |-> send.phase, audience |-> send.audience,
                        stage |-> [send.stage EXCEPT ![c] = to]]
  OBVIOUS
<1>4. /\ pushSend' = [pushSend EXCEPT ![p] = new] /\ send.phase = "sending"
      /\ pushEvents' = pushEvents /\ pushMode' = pushMode /\ pushStore' = pushStore
  <2>1. /\ pushSend' = [pushSend EXCEPT ![p] =
                  [event |-> send.event, phase |-> send.phase, audience |-> send.audience,
                   stage |-> [send.stage EXCEPT ![c] = to]]]
        /\ send.phase = "sending" /\ pushEvents' = pushEvents
        /\ pushMode' = pushMode /\ pushStore' = pushStore
    BY <1>1, <1>2, StageReplaced
  <2> QED BY <1>3, <2>1
<1>5. /\ \A d : Ordered(PostsOf(p, d), send.event)
      /\ \A d \in DOMAIN send.stage :
            CalledFor(PostsOf(p, d), send.event) <=> send.stage[d] = "posted"
  BY <1>4 DEF PushInv, PostsKept
<1>6. /\ new.event = send.event /\ new.phase = "sending" /\ new.audience = send.audience
      /\ new.stage = [send.stage EXCEPT ![c] = to]
      /\ new = [event |-> new.event, phase |-> new.phase, audience |-> new.audience,
                stage |-> new.stage]
  BY <1>3, <1>4
<1>7. /\ DOMAIN new.stage = DOMAIN send.stage /\ new.stage[c] = to
      /\ \A d \in DOMAIN send.stage : d # c => new.stage[d] = send.stage[d]
  BY <1>6
<1>8. SendKept(new, pushEvents)
  BY <1>1, <1>4, <1>6, <1>7 DEF SendKept
<1>9. /\ DOMAIN pushPosts' = PushSenders
      /\ \A q \in PushSenders : q # p => pushPosts'[q] = pushPosts[q]
  BY <1>1 DEF CallsWebhook
<1>10. /\ \A d : Ordered(PostsOf(p, d)', send.event)
       /\ \A d \in DOMAIN send.stage :
             CalledFor(PostsOf(p, d)', send.event) <=> new.stage[d] = "posted"
  <2>1. CASE to # "posted"
    <3>1. \A d : PostsOf(p, d)' = PostsOf(p, d)
      BY <2>1 DEF PostsOf, CallsWebhook
    <3> QED BY <1>5, <1>7, <2>1, <3>1
  <2>2. CASE to = "posted"
    <3>1. PostsOf(p, c)' = Append(PostsOf(p, c), send.event)
          /\ \A d : d # c => PostsOf(p, d)' = PostsOf(p, d)
      BY <1>1, <2>2 DEF PostsOf, CallsWebhook
    <3>2. send.event \in Nat
      BY <1>1 DEF SendKept
    <3>3. ~CalledFor(PostsOf(p, c), send.event)
      BY <1>5
    <3>4. Ordered(PostsOf(p, c)', send.event) /\ CalledFor(PostsOf(p, c)', send.event)
      BY <1>5, <3>1, <3>2, <3>3, PostsGrow
    <3> QED BY <1>5, <1>7, <2>2, <3>1, <3>4
  <2> QED BY <2>1, <2>2
<1>11. pushEvents' \in Nat /\ pushEvents <= pushEvents'
  <2>1. pushEvents' = pushEvents
    BY <1>4
  <2>2. pushEvents \in Nat
    BY <1>1
  <2>3. \A m, n : m = n /\ n \in Nat => m \in Nat /\ n <= m
    OBVIOUS
  <2> QED BY ONLY <2>1, <2>2, <2>3
<1>12. Replaces(p, new)
  BY <1>4, <1>6, <1>7, <1>8, <1>9, <1>10, <1>11 DEF Replaces
<1> QED BY <1>12, SenderStep

LEMMA DeliveriesKeepPushes ==
    ASSUME PushInv, NEW p \in PushSenders, AskBeforeSend(p) \/ PostWebhook(p)
    PROVE  PushInv'
<1>1. CASE AskBeforeSend(p)
  <2>1. PICK c \in DOMAIN pushSend[p].stage, to \in {"post", "skipped"} :
          pushSend[p].stage[c] = "asked" /\ Moves(p, c, to) /\ UNCHANGED pushPosts
    BY <1>1 DEF AskBeforeSend
  <2>2. CallsWebhook(p, c, to, pushSend[p].event)
    BY <2>1 DEF CallsWebhook
  <2> QED BY <2>1, <2>2, DeliveryKeepsPushes
<1>2. CASE PostWebhook(p)
  <2>1. PICK c \in DOMAIN pushSend[p].stage :
          /\ pushSend[p].stage[c] = "post" /\ Moves(p, c, "posted")
          /\ pushPosts' = [pushPosts EXCEPT ![p] =
                [d \in DOMAIN pushPosts[p] \cup {c} |->
                    IF d = c THEN Append(PostsOf(p, c), pushSend[p].event) ELSE pushPosts[p][d]]]
    BY <1>2 DEF PostWebhook
  <2>2. CallsWebhook(p, c, "posted", pushSend[p].event)
    BY <2>1 DEF CallsWebhook
  <2> QED BY <2>1, <2>2, DeliveryKeepsPushes
<1> QED BY <1>1, <1>2

\* The invariant of the stores and of the senders, for any owners, tasks, consumers and events.
THEOREM PushInvariant == PushSpec => []PushInv
<1>1. PushInit => PushInv
  <2> SUFFICES ASSUME PushInit PROVE PushInv
    OBVIOUS
  <2>1. RegistryKept
    BY DEF PushInit, RegistryKept, SelectConfigs, Standing
  <2>2. SendingKept
    BY DEF PushInit, SendingKept, SendKept
  <2>3. \A p \in PushSenders : /\ \A c : PostsOf(p, c) = <<>>
                               /\ pushSend[p].event = 0 /\ pushSend[p].phase = "idle"
    BY DEF PushInit, PostsOf
  <2>4. Ordered(<<>>, 0)
    BY DEF Ordered
  <2>5. PostsKept
    BY <2>3, <2>4 DEF PushInit, PostsKept
  <2> QED BY <2>1, <2>2, <2>5 DEF PushInv
<1>2. PushInv /\ [PushNext]_pushVars => PushInv'
  <2> SUFFICES ASSUME PushInv, [PushNext]_pushVars PROVE PushInv'
    OBVIOUS
  <2>1. CASE PushNext
    BY <2>1, RequestsKeepRegistry, SendsKeepPushes, DeliveriesKeepPushes DEF PushNext
  <2>2. CASE UNCHANGED pushVars
    BY <2>2 DEF pushVars, pushStore, PushInv, RegistryKept, SelectConfigs, Readable, Decrypted,
       ParsedConfig, Standing, SendingKept, SendKept, PostsKept, PostsOf
  <2> QED BY <2>1, <2>2
<1> QED BY <1>1, <1>2, PTL DEF PushSpec

\* PushFaithful: a consumer sends each event once, in order, to exactly the webhooks set and
\* not taken over when it read them, and a caller reads back its own configurations.
THEOREM PushesAreFaithful == PushSpec => []PushFaithful
<1>1. ASSUME PushInv PROVE PushFaithful
  <2>1. \A p \in PushSenders : \A c : /\ PostsOf(p, c) \in Seq(Nat)
               /\ \A i, j \in 1..Len(PostsOf(p, c)) : i < j => PostsOf(p, c)[i] < PostsOf(p, c)[j]
    BY <1>1 DEF PushInv, PostsKept, Ordered
  <2>2. ASSUME NEW p \in PushSenders, NEW c, NEW n
        PROVE  n \in Range(PostsOf(p, c)) <=> CalledFor(PostsOf(p, c), n)
    <3> DEFINE s == PostsOf(p, c)
    <3>1. DOMAIN s = 1..Len(s)
      BY <2>1
    <3> HIDE DEF s
    <3>2. n \in Range(s) <=> CalledFor(s, n)
      BY <3>1 DEF Range, CalledFor
    <3> QED BY <3>2 DEF s
  <2>3. ASSUME NEW p \in PushSenders
        PROVE  LET send == pushSend[p] IN
                 /\ send.phase # "idle" => DOMAIN send.stage = send.audience
                 /\ send.phase = "ended" =>
                      \A c \in send.audience :
                         (send.event \in Range(PostsOf(p, c))) = (send.stage[c] = "posted")
                 /\ \A c \in DOMAIN pushPosts[p] : \A i, j \in DOMAIN pushPosts[p][c] :
                      i < j => pushPosts[p][c][i] < pushPosts[p][c][j]
    <3>1. pushSend[p].phase # "idle" => DOMAIN pushSend[p].stage = pushSend[p].audience
      BY <1>1 DEF PushInv, SendingKept, SendKept
    <3>2. ASSUME pushSend[p].phase = "ended", NEW c \in pushSend[p].audience
          PROVE  (pushSend[p].event \in Range(PostsOf(p, c))) = (pushSend[p].stage[c] = "posted")
      <4>1. CalledFor(PostsOf(p, c), pushSend[p].event) <=> pushSend[p].stage[c] = "posted"
        BY <1>1, <3>1, <3>2 DEF PushInv, PostsKept
      <4> QED BY <2>2, <4>1
    <3>3. ASSUME NEW c \in DOMAIN pushPosts[p], NEW i \in DOMAIN pushPosts[p][c],
                 NEW j \in DOMAIN pushPosts[p][c], i < j
          PROVE  pushPosts[p][c][i] < pushPosts[p][c][j]
      <4>1. PostsOf(p, c) = pushPosts[p][c]
        BY DEF PostsOf
      <4>2. DOMAIN pushPosts[p][c] = 1..Len(pushPosts[p][c])
        BY <2>1, <4>1
      <4> QED BY <2>1, <3>3, <4>1, <4>2
    <3> QED BY <3>1, <3>2, <3>3
  <2>4. \A owner \in PushOwners, task \in PushTasks :
          GetInfo(owner, task) = {c \in Standing : c.owner = owner /\ c.task = task}
    BY <1>1, ReadersSelect DEF PushInv
  <2>5. pushMode.kind = "memory" => pushTaken = {}
    BY <1>1 DEF PushInv, RegistryKept
  <2> QED BY <2>3, <2>4, <2>5 DEF PushFaithful
<1> QED BY <1>1, PushInvariant, PTL

(***************************************************************************)
(* LegacyHandler.  Of a request that taps no other queue, every event of   *)
(* its agent is in its queue, in its consumer's hand, saved or lost, or    *)
(* follows one that ended the run; and they pass through in order.         *)
(***************************************************************************)
LegacySpec == LegacyInit /\ [][LegacyNext]_legacyVars

KindSet == {"done"} \cup UNION {LegacyKinds[r] : r \in LegacyCalls}
AgentEventSet == [by : LegacyCalls, n : Nat, kind : KindSet]

Rising(s) == \A i, j \in 1..Len(s) : i < j => s[i].n < s[j].n

\* accepted, saved, lost, queued and in hand: the places of a request's events
EventsKept(A, S, L, items, hand) ==
    /\ \A i \in 1..Len(A) : A[i].n = i
    /\ Rising(S) /\ Rising(items)
    /\ \A h \in hand : /\ \A e : Contains(S, e) => e.n < h.n
                       /\ \A e : Contains(items, e) => h.n < e.n
    /\ \A e, x : Contains(S, e) /\ Contains(items, x) => e.n < x.n
    /\ \A e : Contains(A, e) =>
          \/ Contains(S, e) \/ Contains(items, e) \/ e \in L \/ e \in hand
          \/ \E f : Contains(A, f) /\ Ends(f) /\ f.n < e.n
Within(A, S, items, hand) ==
    \A e : Contains(S, e) \/ Contains(items, e) \/ e \in hand => Contains(A, e)

\* Sequences of events: what one holds after it grew or was read.
LEMMA GrownSequence ==
    ASSUME NEW s \in Seq(AgentEventSet), NEW e \in AgentEventSet
    PROVE  /\ Append(s, e) \in Seq(AgentEventSet)
           /\ Len(s) \in Nat /\ Len(Append(s, e)) = Len(s) + 1
           /\ \A i \in 1..Len(s) : Append(s, e)[i] = s[i]
           /\ Append(s, e)[Len(s) + 1] = e
           /\ \A x : Contains(Append(s, e), x) <=> Contains(s, x) \/ x = e
           /\ Rising(s) /\ (\A x : Contains(s, x) => x.n < e.n) => Rising(Append(s, e))
<1> DEFINE t == Append(s, e)
           m == Len(s)
<1>1. t \in Seq(AgentEventSet) /\ m \in Nat /\ Len(t) = m + 1
  OBVIOUS
<1>2. t[m + 1] = e /\ \A i \in 1..m : t[i] = s[i]
  OBVIOUS
<1> HIDE DEF t, m
<1>3. \A i : i \in 1..m + 1 <=> i \in 1..m \/ i = m + 1
  BY <1>1
<1>4. \A x : Contains(t, x) <=> \E i \in 1..m + 1 : t[i] = x
  BY <1>1 DEF Contains
<1>5. \A x : Contains(s, x) <=> \E i \in 1..m : s[i] = x
  BY DEF Contains, m
<1>6. \A x : Contains(t, x) <=> Contains(s, x) \/ x = e
  BY <1>2, <1>3, <1>4, <1>5
<1>7. ASSUME Rising(s), \A x : Contains(s, x) => x.n < e.n PROVE Rising(t)
  <2>1. \A i, j \in 1..m : i < j => s[i].n < s[j].n
    BY <1>7 DEF Rising, m
  <2>2. \A i \in 1..m : s[i].n < e.n
    BY <1>5, <1>7
  <2>3. ASSUME NEW i \in 1..m + 1, NEW j \in 1..m + 1, i < j PROVE t[i].n < t[j].n
    <3>1. i \in 1..m
      BY <1>1, <2>3
    <3>2. CASE j \in 1..m
      BY <1>2, <2>1, <2>3, <3>1, <3>2
    <3>3. CASE j = m + 1
      BY <1>2, <2>2, <3>1, <3>3
    <3> QED BY <1>3, <3>2, <3>3
  <2> QED BY <1>1, <2>3 DEF Rising
<1> QED BY <1>1, <1>2, <1>6, <1>7 DEF t, m

\* The head is the earliest of a rising sequence, and the tail is what is left.
LEMMA ReadSequence ==
    ASSUME NEW s \in Seq(AgentEventSet), s # <<>>
    PROVE  /\ Head(s) \in AgentEventSet /\ Tail(s) \in Seq(AgentEventSet)
           /\ Contains(s, Head(s))
           /\ \A x : Contains(s, x) <=> x = Head(s) \/ Contains(Tail(s), x)
           /\ Rising(s) => Rising(Tail(s)) /\ \A x : Contains(Tail(s), x) => Head(s).n < x.n
<1> DEFINE t == Tail(s)
           h == Head(s)
           m == Len(s)
<1>1. /\ m \in Nat /\ m > 0 /\ h = s[1] /\ h \in AgentEventSet
      /\ t \in Seq(AgentEventSet) /\ Len(t) = m - 1
  OBVIOUS
<1>2. \A i \in 1..m - 1 : t[i] = s[i + 1]
  BY <1>1
<1> HIDE DEF t, h, m
<1>3. \A i \in 1..m - 1 : i + 1 \in 1..m /\ 1 < i + 1
  BY <1>1
<1>4. \A i \in 1..m : i = 1 \/ (i - 1 \in 1..m - 1 /\ i - 1 + 1 = i)
  BY <1>1
<1>5. \A x : Contains(t, x) <=> \E i \in 1..m - 1 : t[i] = x
  BY <1>1 DEF Contains
<1>6. \A x : Contains(s, x) <=> \E i \in 1..m : s[i] = x
  BY DEF Contains, m
<1>7. 1 \in 1..m /\ Contains(s, h)
  BY <1>1, <1>6
<1>8. \A x : Contains(s, x) <=> x = h \/ Contains(t, x)
  <2>1. ASSUME NEW x, Contains(s, x) PROVE x = h \/ Contains(t, x)
    <3>1. PICK i \in 1..m : s[i] = x
      BY <1>6, <2>1
    <3> QED BY <1>1, <1>2, <1>4, <1>5, <3>1
  <2>2. ASSUME NEW x, Contains(t, x) PROVE Contains(s, x)
    BY <1>2, <1>3, <1>5, <1>6, <2>2
  <2> QED BY <1>7, <2>1, <2>2
<1>9. ASSUME Rising(s) PROVE Rising(t) /\ \A x : Contains(t, x) => h.n < x.n
  <2>1. \A i, j \in 1..m : i < j => s[i].n < s[j].n
    BY <1>9 DEF Rising, m
  <2>2. \A i, j \in 1..m - 1 : i < j => t[i].n < t[j].n
    <3> SUFFICES ASSUME NEW i \in 1..m - 1, NEW j \in 1..m - 1, i < j PROVE t[i].n < t[j].n
      OBVIOUS
    <3>1. i + 1 < j + 1
      BY <1>1
    <3> QED BY <1>2, <1>3, <2>1, <3>1
  <2>3. \A i \in 1..m - 1 : s[1].n < t[i].n
    BY <1>2, <1>3, <1>7, <2>1
  <2>4. Rising(t)
    BY <1>1, <2>2 DEF Rising
  <2> QED BY <1>1, <1>5, <2>3, <2>4
<1> QED BY <1>1, <1>7, <1>8, <1>9 DEF t, h, m

\* The agent's next event: into the queue, later than all before it.
LEMMA EmitKeeps ==
    ASSUME NEW A \in Seq(AgentEventSet), NEW S \in Seq(AgentEventSet), NEW L,
           NEW items \in Seq(AgentEventSet), NEW hand \in SUBSET AgentEventSet,
           EventsKept(A, S, L, items, hand), Within(A, S, items, hand),
           NEW e \in AgentEventSet, e.n = Len(A) + 1
    PROVE  /\ EventsKept(Append(A, e), S, L, Append(items, e), hand)
           /\ Within(Append(A, e), S, Append(items, e), hand)
<1> DEFINE B == Append(A, e)
           more == Append(items, e)
           m == Len(A)
<1>1. /\ m \in Nat /\ Len(B) = m + 1 /\ B[m + 1] = e /\ \A i \in 1..m : B[i] = A[i]
      /\ \A x : Contains(B, x) <=> Contains(A, x) \/ x = e
  BY GrownSequence
<1>2. /\ \A x : Contains(more, x) <=> Contains(items, x) \/ x = e
      /\ Rising(items) /\ (\A x : Contains(items, x) => x.n < e.n) => Rising(more)
  BY GrownSequence
<1>3. \A i \in 1..m : A[i].n = i
  BY DEF EventsKept
<1>4. \A x : Contains(A, x) => x.n < e.n
  <2> SUFFICES ASSUME NEW x, Contains(A, x) PROVE x.n < e.n
    OBVIOUS
  <2>1. PICK i \in 1..m : A[i] = x
    BY DEF Contains
  <2> QED BY <1>1, <1>3, <2>1
<1> HIDE DEF B, more, m
<1>5. \A i \in 1..m + 1 : B[i].n = i
  <2>1. \A i \in 1..m + 1 : i \in 1..m \/ i = m + 1
    BY <1>1
  <2> QED BY <1>1, <1>3, <2>1 DEF m
<1>6. \A x : Contains(S, x) \/ Contains(items, x) \/ x \in hand => x.n < e.n
  BY <1>4 DEF Within
<1>7. Rising(S) /\ Rising(more)
  BY <1>2, <1>6 DEF EventsKept
<1>8. \A h \in hand : /\ \A x : Contains(S, x) => x.n < h.n
                      /\ \A x : Contains(more, x) => h.n < x.n
  BY <1>2, <1>6 DEF EventsKept
<1>9. \A x, y : Contains(S, x) /\ Contains(more, y) => x.n < y.n
  BY <1>2, <1>6 DEF EventsKept
<1>10. \A x : Contains(B, x) =>
          \/ Contains(S, x) \/ Contains(more, x) \/ x \in L \/ x \in hand
          \/ \E f : Contains(B, f) /\ Ends(f) /\ f.n < x.n
  BY <1>1, <1>2 DEF EventsKept
<1>11. EventsKept(B, S, L, more, hand)
  BY <1>1, <1>5, <1>7, <1>8, <1>9, <1>10 DEF EventsKept
<1>12. Within(B, S, more, hand)
  BY <1>1, <1>2 DEF Within
<1> QED BY <1>11, <1>12 DEF B, more

\* An event that does not end the run is taken in hand.
LEMMA TakeKeeps ==
    ASSUME NEW A, NEW S, NEW L, NEW items \in Seq(AgentEventSet), items # <<>>,
           EventsKept(A, S, L, items, {})
    PROVE  /\ EventsKept(A, S, L, Tail(items), {Head(items)})
           /\ Within(A, S, items, {}) => Within(A, S, Tail(items), {Head(items)})
<1> DEFINE h == Head(items)
           rest == Tail(items)
<1>1. /\ \A x : Contains(items, x) <=> x = h \/ Contains(rest, x)
      /\ Rising(items) => Rising(rest) /\ \A x : Contains(rest, x) => h.n < x.n
  BY ReadSequence
<1> HIDE DEF h, rest
<1>2. Rising(rest) /\ \A x : Contains(rest, x) => h.n < x.n
  BY <1>1 DEF EventsKept
<1>3. \A x : Contains(S, x) => x.n < h.n
  BY <1>1 DEF EventsKept
<1>4. EventsKept(A, S, L, rest, {h})
  BY <1>1, <1>2, <1>3 DEF EventsKept
<1>5. Within(A, S, items, {}) => Within(A, S, rest, {h})
  BY <1>1 DEF Within
<1> QED BY <1>4, <1>5 DEF h, rest

\* The event that ends the run is taken in hand, and what follows it is dropped.
LEMMA LastTakenKeeps ==
    ASSUME NEW A, NEW S, NEW L, NEW items \in Seq(AgentEventSet), items # <<>>,
           EventsKept(A, S, L, items, {}), Ends(Head(items)), Len(A) = 0 \/ Within(A, S, items, {})
    PROVE  /\ EventsKept(A, S, L, <<>>, {Head(items)})
           /\ Within(A, S, items, {}) => Within(A, S, <<>>, {Head(items)})
<1> DEFINE h == Head(items)
           rest == Tail(items)
<1>1. /\ \A x : Contains(items, x) <=> x = h \/ Contains(rest, x)
      /\ Rising(items) => \A x : Contains(rest, x) => h.n < x.n
  BY ReadSequence
<1>2. Ends(h)
  OBVIOUS
<1> HIDE DEF h, rest
<1>3. \A x : Contains(rest, x) => h.n < x.n
  BY <1>1 DEF EventsKept
<1>4. \A x : Contains(S, x) => x.n < h.n
  BY <1>1 DEF EventsKept
<1>5. \A x : ~Contains(<<>>, x)
  BY DEF Contains
<1>6. Rising(<<>>)
  BY DEF Rising
<1>7. ASSUME NEW x, Contains(A, x)
      PROVE  \/ Contains(S, x) \/ x \in L \/ x = h
             \/ \E f : Contains(A, f) /\ Ends(f) /\ f.n < x.n
  <2>1. Len(A) # 0
    BY <1>7 DEF Contains
  <2>2. Contains(A, h)
    BY <1>1, <2>1 DEF Within
  <2> QED BY <1>1, <1>2, <1>3, <1>7, <2>2 DEF EventsKept
<1>8. EventsKept(A, S, L, <<>>, {h})
  BY <1>4, <1>5, <1>6, <1>7 DEF EventsKept
<1>9. Within(A, S, items, {}) => Within(A, S, <<>>, {h})
  BY <1>1, <1>5 DEF Within
<1> QED BY <1>8, <1>9 DEF h

\* What is in hand is saved.
LEMMA SaveKeeps ==
    ASSUME NEW A, NEW S \in Seq(AgentEventSet), NEW L, NEW items, NEW e \in AgentEventSet,
           EventsKept(A, S, L, items, {e})
    PROVE  /\ EventsKept(A, Append(S, e), L, items, {})
           /\ Within(A, S, items, {e}) => Within(A, Append(S, e), items, {})
<1> DEFINE T == Append(S, e)
<1>1. /\ \A x : Contains(T, x) <=> Contains(S, x) \/ x = e
      /\ Rising(S) /\ (\A x : Contains(S, x) => x.n < e.n) => Rising(T)
  BY GrownSequence
<1> HIDE DEF T
<1>2. EventsKept(A, T, L, items, {})
  BY <1>1 DEF EventsKept
<1>3. Within(A, S, items, {e}) => Within(A, T, items, {})
  BY <1>1 DEF Within
<1> QED BY <1>2, <1>3 DEF T

\* What is in hand when its save fails or the client leaves is lost.
LEMMA LoseKeeps ==
    ASSUME NEW A, NEW S, NEW L, NEW items, NEW hand, EventsKept(A, S, L, items, hand)
    PROVE  /\ EventsKept(A, S, L \cup hand, items, {})
           /\ Within(A, S, items, hand) => Within(A, S, items, {})
BY DEF EventsKept, Within

LegacyQueues == [items : Seq(AgentEventSet), open : BOOLEAN, taps : LegacyCalls \cup {NoCaller}]
LegacyRequests ==
    [kind : {"none", "send", "quick", "stream", "subscribe", "cancel"},
     state : {"none", "open", "cleaning", "failing", "answered", "failed", "gone"}]
LegacyConsumers ==
    [pc : {"none", "setup", "agent", "told", "waiting", "saving", "yielding", "ended", "failed",
           "stopped"},
     event : AgentEventSet \cup {NoEvent}, failed : {0, 1, 2}]
LegacyTypeOK ==
    /\ lgQueue \in [LegacyCalls -> LegacyQueues] /\ lgRoot \in LegacyCalls \cup {NoCaller}
    /\ lgCall \in [LegacyCalls -> LegacyRequests]
    /\ lgConsumer \in [LegacyCalls -> LegacyConsumers]
    /\ \A r \in LegacyCalls : lgConsumer[r].pc = "saving" => lgConsumer[r].event \in AgentEventSet
    /\ lgSaved \in [LegacyCalls -> Seq(AgentEventSet)]
    /\ lgAccepted \in [LegacyCalls -> Seq(AgentEventSet)]
    /\ DOMAIN lgProducer = LegacyCalls /\ DOMAIN lgLost = LegacyCalls

HandOf(c) == IF c.pc = "saving" THEN {c.event} ELSE {}
\* before a request has a queue, and before an agent has answered its cancellation
NoQueueYet == {"none", "setup"}
Fresh == {"none", "setup", "agent"}
\* A request r that taps no queue: what became of its events, and what a request that did not
\* begin, or a cancellation, cannot have.
RootIn(r, A, S, L, items, c, call, prod) ==
    /\ EventsKept(A, S, L, items, HandOf(c))
    /\ call.kind # "cancel" => Within(A, S, items, HandOf(c))
    /\ call.kind \in {"none", "cancel"} => Len(A) = 0 /\ prod = "none"
    /\ c.pc \in Fresh => Len(A) = 0 /\ prod = "none" /\ S = <<>> /\ L = {} /\ items = <<>>
    /\ c.pc = "agent" => call.kind = "cancel"
    /\ L # {} => call.state = "gone" \/ c.pc = "failed"
    /\ \A e : Contains(items, e) \/ e \in HandOf(c) => e.by = r
Rooted(r) == RootIn(r, lgAccepted[r], lgSaved[r], lgLost[r], lgQueue[r].items,
                    lgConsumer[r], lgCall[r], lgProducer[r])

LegacyInv ==
    /\ LegacyTypeOK
    /\ \A r \in LegacyCalls : /\ lgCall[r].kind = "none" => lgConsumer[r].pc = "none"
                              /\ lgConsumer[r].pc \in NoQueueYet => lgQueue[r].taps = NoCaller
    /\ \A r \in LegacyCalls : lgQueue[r].taps = NoCaller => Rooted(r)

\* The queues: types, and what an operation on one of them does to a queue that taps none.
LEMMA QueueOperations ==
    ASSUME lgQueue \in [LegacyCalls -> LegacyQueues], NEW q \in LegacyCalls,
           NEW e \in AgentEventSet
    PROVE  /\ Enqueued(q, e) \in [LegacyCalls -> LegacyQueues]
           /\ ClosedQueue(q) \in [LegacyCalls -> LegacyQueues]
           /\ ShutQueue(q) \in [LegacyCalls -> LegacyQueues]
           /\ \A r \in LegacyCalls :
                /\ Enqueued(q, e)[r].taps = lgQueue[r].taps
                /\ ClosedQueue(q)[r].taps = lgQueue[r].taps
                /\ ShutQueue(q)[r].taps = lgQueue[r].taps
                /\ ClosedQueue(q)[r].items = lgQueue[r].items
                /\ lgQueue[r].taps = NoCaller /\ r # q =>
                     /\ Enqueued(q, e)[r].items = lgQueue[r].items
                     /\ ShutQueue(q)[r].items = lgQueue[r].items
           /\ lgQueue[q].open => Enqueued(q, e)[q].items = Append(lgQueue[q].items, e)
           /\ ShutQueue(q)[q].items = <<>>
<1>1. ASSUME NEW r \in LegacyCalls
      PROVE  /\ lgQueue[r] \in LegacyQueues /\ Append(lgQueue[r].items, e) \in Seq(AgentEventSet)
             /\ [lgQueue[r] EXCEPT !.items = Append(@, e)] \in LegacyQueues
             /\ [lgQueue[r] EXCEPT !.open = FALSE] \in LegacyQueues
             /\ [lgQueue[r] EXCEPT !.open = FALSE, !.items = <<>>] \in LegacyQueues
  <2>1. lgQueue[r] \in LegacyQueues /\ Append(lgQueue[r].items, e) \in Seq(AgentEventSet)
    BY GrownSequence DEF LegacyQueues
  <2>2. [lgQueue[r] EXCEPT !.items = Append(@, e)] \in LegacyQueues
    BY <2>1 DEF LegacyQueues
  <2>3. <<>> \in Seq(AgentEventSet)
    OBVIOUS
  <2>4. /\ [lgQueue[r] EXCEPT !.open = FALSE] \in LegacyQueues
        /\ [lgQueue[r] EXCEPT !.open = FALSE, !.items = <<>>] \in LegacyQueues
    BY <2>1, <2>3 DEF LegacyQueues
  <2> QED BY <2>1, <2>2, <2>4
<1>2. ASSUME NEW x \in LegacyQueues, NEW s
      PROVE  /\ [x EXCEPT !.items = s].items = s /\ [x EXCEPT !.items = s].taps = x.taps
             /\ [x EXCEPT !.open = FALSE].items = x.items /\ [x EXCEPT !.open = FALSE].taps = x.taps
             /\ [x EXCEPT !.open = FALSE, !.items = s].items = s
             /\ [x EXCEPT !.open = FALSE, !.items = s].taps = x.taps
  BY <1>2 DEF LegacyQueues
<1>3. Enqueued(q, e) \in [LegacyCalls -> LegacyQueues]
  BY <1>1 DEF Enqueued
<1>4. ClosedQueue(q) \in [LegacyCalls -> LegacyQueues] /\ ShutQueue(q) \in [LegacyCalls -> LegacyQueues]
  BY <1>1 DEF ClosedQueue, ShutQueue
<1>5. ASSUME NEW r \in LegacyCalls
      PROVE  /\ Enqueued(q, e)[r].taps = lgQueue[r].taps
             /\ ClosedQueue(q)[r].taps = lgQueue[r].taps
             /\ ShutQueue(q)[r].taps = lgQueue[r].taps
             /\ ClosedQueue(q)[r].items = lgQueue[r].items
  BY <1>1, <1>2 DEF Enqueued, ClosedQueue, ShutQueue
<1>6. ASSUME NEW r \in LegacyCalls, lgQueue[r].taps = NoCaller, r # q
      PROVE  Enqueued(q, e)[r] = lgQueue[r] /\ ShutQueue(q)[r] = lgQueue[r]
  <2>1. r \notin {q} \cup Children(q)
    BY <1>6, LegacyConstants DEF Children
  <2> QED BY <2>1 DEF Enqueued, ShutQueue
<1>7. lgQueue[q].open => Enqueued(q, e)[q].items = Append(lgQueue[q].items, e)
  <2>1. lgQueue[q].open =>
          Enqueued(q, e)[q] = [lgQueue[q] EXCEPT !.items = Append(lgQueue[q].items, e)]
    BY DEF Enqueued
  <2>2. lgQueue[q] \in LegacyQueues
    OBVIOUS
  <2> QED BY <2>1, <2>2 DEF LegacyQueues
<1>8. ShutQueue(q)[q].items = <<>>
  <2>1. ShutQueue(q)[q] = [lgQueue[q] EXCEPT !.open = FALSE, !.items = <<>>]
    BY DEF ShutQueue
  <2>2. lgQueue[q] \in LegacyQueues
    OBVIOUS
  <2> QED BY <2>1, <2>2 DEF LegacyQueues
<1> QED BY <1>3, <1>4, <1>5, <1>6, <1>7, <1>8

\* What may change of a request while its events stay where they are.
Settles(c, d) == /\ HandOf(d) = HandOf(c) /\ (d.pc \in Fresh => d.pc = c.pc)
                 /\ c.pc = "none" => d.pc = "none"
                 /\ c.pc = "failed" => d.pc = "failed"
LEMMA RootQuiet ==
    ASSUME NEW r, NEW A, NEW S, NEW L, NEW items, NEW c, NEW call, NEW prod,
           RootIn(r, A, S, L, items, c, call, prod), NEW d, NEW call2, NEW prod2, Settles(c, d),
           call2.kind = call.kind, call.state = "gone" => call2.state = "gone",
           prod = "none" => prod2 = "none"
    PROVE  RootIn(r, A, S, L, items, d, call2, prod2)
<1>1. /\ EventsKept(A, S, L, items, HandOf(d))
      /\ call2.kind # "cancel" => Within(A, S, items, HandOf(d))
      /\ \A e : Contains(items, e) \/ e \in HandOf(d) => e.by = r
  BY DEF RootIn, Settles
<1>2. /\ call2.kind \in {"none", "cancel"} => Len(A) = 0 /\ prod2 = "none"
      /\ d.pc \in Fresh => Len(A) = 0 /\ prod2 = "none" /\ S = <<>> /\ L = {} /\ items = <<>>
      /\ L # {} => call2.state = "gone" \/ d.pc = "failed"
  BY DEF RootIn, Settles
<1>3. d.pc = "agent" => call2.kind = "cancel"
  BY DEF RootIn, Settles, Fresh
<1> QED BY <1>1, <1>2, <1>3 DEF RootIn

\* A step that moves no event.
LEMMA QuietKeepsLegacy ==
    ASSUME LegacyInv, LegacyTypeOK',
           lgAccepted' = lgAccepted, lgSaved' = lgSaved, lgLost' = lgLost,
           \A r \in LegacyCalls :
              /\ lgQueue'[r].items = lgQueue[r].items /\ lgQueue'[r].taps = lgQueue[r].taps
              /\ Settles(lgConsumer[r], lgConsumer'[r])
              /\ lgCall'[r].kind = lgCall[r].kind
              /\ lgCall[r].state = "gone" => lgCall'[r].state = "gone"
              /\ lgProducer[r] = "none" => lgProducer'[r] = "none"
    PROVE  LegacyInv'
<1>1. ASSUME NEW r \in LegacyCalls, lgQueue[r].taps = NoCaller PROVE Rooted(r)'
  <2>1. Rooted(r)
    BY <1>1 DEF LegacyInv
  <2> QED BY <1>1, <2>1, RootQuiet DEF Rooted
<1>2. \A r \in LegacyCalls : /\ lgCall'[r].kind = "none" => lgConsumer'[r].pc = "none"
                             /\ lgConsumer'[r].pc \in NoQueueYet => lgQueue'[r].taps = NoCaller
  BY DEF LegacyInv, Settles, Fresh, NoQueueYet
<1> QED BY <1>1, <1>2 DEF LegacyInv

\* The steps that move no event: the end of an agent run, of a queue, of a request, the cleanup.
LEMMA QuietSteps ==
    ASSUME LegacyInv, NEW a \in LegacyCalls,
           \/ AgentReturns(a) \/ ProducerEnds(a) \/ AgentRaises(a) \/ ClientTakes(a) \/ QueueEnds(a)
           \/ RequestEnds(a) \/ FailureRaised(a) \/ CleanupRaises(a) \/ CleanupCloses(a)
           \/ CleanupEnds(a) \/ LeavesCleanup(a) \/ SendAnswered(a)
           \/ CancelProducer(a) \/ SetupAbandoned(a) \/ LoadTask(a)
    PROVE  LegacyInv'
<1> USE DEF legacyLog
<1>1. lgAccepted' = lgAccepted /\ lgSaved' = lgSaved /\ lgLost' = lgLost
  BY DEF AgentReturns, ProducerEnds, AgentRaises, ClientTakes, QueueEnds, RequestEnds,
     FailureRaised, CleanupRaises, CleanupCloses, CleanupEnds, LeavesCleanup, SendAnswered,
     CancelProducer, SetupAbandoned, LoadTask
<1>2. LegacyTypeOK
  BY DEF LegacyInv
<1>3. /\ lgQueue' \in [LegacyCalls -> LegacyQueues] /\ lgRoot' \in LegacyCalls \cup {NoCaller}
      /\ \A r \in LegacyCalls :
            lgQueue'[r].items = lgQueue[r].items /\ lgQueue'[r].taps = lgQueue[r].taps
  <2>1. \/ lgQueue' = lgQueue /\ lgRoot' = lgRoot
        \/ \E q \in LegacyCalls : lgQueue' = ClosedQueue(q) /\ lgRoot' \in {lgRoot, NoCaller}
    BY <1>2 DEF AgentReturns, ProducerEnds, AgentRaises, ClientTakes, QueueEnds, RequestEnds,
       FailureRaised, CleanupRaises, CleanupCloses, CleanupEnds, LeavesCleanup, SendAnswered,
       CancelProducer, SetupAbandoned, LoadTask, LegacyTypeOK
  <2>2. CASE lgQueue' = lgQueue /\ lgRoot' = lgRoot
    BY <1>2, <2>2 DEF LegacyTypeOK
  <2>3. CASE \E q \in LegacyCalls : lgQueue' = ClosedQueue(q) /\ lgRoot' \in {lgRoot, NoCaller}
    <3>1. PICK q \in LegacyCalls : lgQueue' = ClosedQueue(q) /\ lgRoot' \in {lgRoot, NoCaller}
      BY <2>3
    <3>2. PICK e : e \in AgentEventSet
      <4>1. [by |-> a, n |-> 0, kind |-> "done"] \in AgentEventSet
        BY DEF AgentEventSet, KindSet
      <4> QED BY <4>1
    <3> QED BY <1>2, <3>1, <3>2, QueueOperations DEF LegacyTypeOK
  <2> QED BY <2>1, <2>2, <2>3
<1>4. /\ DOMAIN lgProducer' = LegacyCalls
      /\ \A r \in LegacyCalls : lgProducer[r] = "none" => lgProducer'[r] = "none"
  <2>1. \/ lgProducer' = lgProducer
        \/ /\ lgProducer[a] # "none"
           /\ \E v : lgProducer' = [lgProducer EXCEPT ![a] = v]
        \/ lgProducer' = [p \in LegacyCalls |-> IF p = lgRunning THEN Cancelled(lgProducer[p])
                                                ELSE lgProducer[p]]
    BY DEF AgentReturns, ProducerEnds, AgentRaises, ClientTakes, QueueEnds, RequestEnds,
       FailureRaised, CleanupRaises, CleanupCloses, CleanupEnds, LeavesCleanup, SendAnswered,
       CancelProducer, SetupAbandoned, LoadTask
  <2> QED BY <1>2, <2>1 DEF LegacyTypeOK, Cancelled
<1>5. /\ lgConsumer' \in [LegacyCalls -> LegacyConsumers]
      /\ \A r \in LegacyCalls :
            /\ lgConsumer'[r].pc = "saving" => lgConsumer'[r].event \in AgentEventSet
            /\ Settles(lgConsumer[r], lgConsumer'[r])
  <2> DEFINE c == lgConsumer[a]
  <2>1. \/ lgConsumer' = lgConsumer
        \/ \E f \in {1, 2} : lgConsumer' = [lgConsumer EXCEPT ![a] = [c EXCEPT !.failed = f]]
        \/ /\ c.pc \notin {"saving", "none", "failed"}
           /\ \E pc \in {"waiting", "ended", "failed", "stopped"} :
                \/ lgConsumer' = [lgConsumer EXCEPT ![a] = [c EXCEPT !.pc = pc]]
                \/ lgConsumer' = [lgConsumer EXCEPT ![a] = [c EXCEPT !.pc = pc, !.event = NoEvent]]
    <3>1. CASE AgentRaises(a)
      BY <3>1 DEF AgentRaises
    <3>2. CASE ClientTakes(a)
      <4>1. /\ c.pc = "yielding" /\ After(c.event) \in {"waiting", "ended"}
            /\ lgConsumer' = [lgConsumer EXCEPT ![a] = [c EXCEPT !.pc = After(c.event), !.event = NoEvent]]
        BY <1>2, <3>2 DEF ClientTakes, After, LegacyTypeOK
      <4> QED BY <4>1
    <3>3. CASE QueueEnds(a) \/ FailureRaised(a) \/ CancelProducer(a) \/ SetupAbandoned(a)
      BY <3>3 DEF QueueEnds, FailureRaised, CancelProducer, SetupAbandoned
    <3>4. CASE \/ AgentReturns(a) \/ ProducerEnds(a) \/ RequestEnds(a) \/ CleanupRaises(a)
               \/ CleanupCloses(a) \/ CleanupEnds(a) \/ LeavesCleanup(a) \/ SendAnswered(a)
               \/ LoadTask(a)
      BY <3>4 DEF AgentReturns, ProducerEnds, RequestEnds, CleanupRaises, CleanupCloses,
         CleanupEnds, LeavesCleanup, SendAnswered, LoadTask
    <3> QED BY <3>1, <3>2, <3>3, <3>4
  <2>2. c \in LegacyConsumers /\ (c.pc = "saving" => c.event \in AgentEventSet)
    BY <1>2 DEF LegacyTypeOK
  <2>3. PICK d \in LegacyConsumers :
          /\ lgConsumer' = lgConsumer \/ lgConsumer' = [lgConsumer EXCEPT ![a] = d]
          /\ d.pc = "saving" => d.event \in AgentEventSet
          /\ Settles(c, d)
    <3> HIDE DEF c
    <3>1. CASE lgConsumer' = lgConsumer
      BY <2>2, <3>1 DEF Settles
    <3>2. CASE \E f \in {1, 2} : lgConsumer' = [lgConsumer EXCEPT ![a] = [c EXCEPT !.failed = f]]
      <4>1. PICK f \in {1, 2} : lgConsumer' = [lgConsumer EXCEPT ![a] = [c EXCEPT !.failed = f]]
        BY <3>2
      <4> DEFINE d == [c EXCEPT !.failed = f]
      <4>2. d \in LegacyConsumers /\ d.pc = c.pc /\ d.event = c.event
        BY <2>2 DEF LegacyConsumers
      <4>3. lgConsumer' = [lgConsumer EXCEPT ![a] = d]
        BY <4>1
      <4> HIDE DEF d
      <4> QED BY <2>2, <4>2, <4>3 DEF HandOf, Settles
    <3>3. CASE /\ c.pc \notin {"saving", "none", "failed"}
               /\ \E pc \in {"waiting", "ended", "failed", "stopped"} :
                    \/ lgConsumer' = [lgConsumer EXCEPT ![a] = [c EXCEPT !.pc = pc]]
                    \/ lgConsumer' = [lgConsumer EXCEPT ![a] = [c EXCEPT !.pc = pc, !.event = NoEvent]]
      <4>1. PICK pc \in {"waiting", "ended", "failed", "stopped"} :
                \/ lgConsumer' = [lgConsumer EXCEPT ![a] = [c EXCEPT !.pc = pc]]
                \/ lgConsumer' = [lgConsumer EXCEPT ![a] = [c EXCEPT !.pc = pc, !.event = NoEvent]]
        BY <3>3
      <4> DEFINE d == [c EXCEPT !.pc = pc]
                 e == [c EXCEPT !.pc = pc, !.event = NoEvent]
      <4>2. d \in LegacyConsumers /\ d.pc = pc /\ e \in LegacyConsumers /\ e.pc = pc
        BY <2>2 DEF LegacyConsumers
      <4>3. lgConsumer' = [lgConsumer EXCEPT ![a] = d] \/ lgConsumer' = [lgConsumer EXCEPT ![a] = e]
        BY <4>1
      <4>4. pc \notin Fresh \cup {"saving"} /\ c.pc \notin {"saving", "none", "failed"}
        BY <3>3 DEF Fresh
      <4> HIDE DEF d, e
      <4>5. HandOf(c) = {} /\ HandOf(d) = {} /\ HandOf(e) = {}
        BY <4>2, <4>4 DEF HandOf
      <4> QED BY <4>2, <4>3, <4>4, <4>5 DEF Settles
    <3> QED BY <2>1, <3>1, <3>2, <3>3
  <2>4. \A r \in LegacyCalls : Settles(lgConsumer[r], lgConsumer[r])
    BY DEF Settles
  <2> QED BY <1>2, <2>3, <2>4 DEF LegacyTypeOK
<1>6. /\ lgCall' \in [LegacyCalls -> LegacyRequests]
      /\ \A r \in LegacyCalls : /\ lgCall'[r].kind = lgCall[r].kind
                                /\ lgCall[r].state = "gone" => lgCall'[r].state = "gone"
  <2> DEFINE x == lgCall[a]
  <2>1. \/ lgCall' = lgCall
        \/ /\ x.state # "gone"
           /\ \E state \in {"cleaning", "failing", "answered", "failed"} :
                lgCall' = [lgCall EXCEPT ![a] = [x EXCEPT !.state = state]]
        \/ lgCall' = [lgCall EXCEPT ![a] = [x EXCEPT !.state = x.state]]
        \/ lgCall' = [lgCall EXCEPT ![a] = [x EXCEPT !.state = "gone"]]
    <3>1. CASE RequestEnds(a)
      BY <3>1 DEF RequestEnds
    <3>2. CASE SendAnswered(a)
      BY <3>2 DEF SendAnswered
    <3>3. CASE FailureRaised(a)
      BY <3>3 DEF FailureRaised
    <3>4. CASE \/ AgentReturns(a) \/ ProducerEnds(a) \/ AgentRaises(a) \/ ClientTakes(a)
               \/ QueueEnds(a) \/ CleanupRaises(a) \/ CleanupCloses(a) \/ CleanupEnds(a)
               \/ LeavesCleanup(a) \/ CancelProducer(a) \/ LoadTask(a)
      BY <3>4 DEF AgentReturns, ProducerEnds, AgentRaises, ClientTakes, QueueEnds, CleanupRaises,
         CleanupCloses, CleanupEnds, LeavesCleanup, CancelProducer, LoadTask
    <3>5. CASE SetupAbandoned(a)
      BY <3>5 DEF SetupAbandoned
    <3> QED BY <3>1, <3>2, <3>3, <3>4, <3>5
  <2>2. x \in LegacyRequests /\ [x EXCEPT !.state = x.state] = x
    BY <1>2 DEF LegacyTypeOK, LegacyRequests
  <2> DEFINE gone == [x EXCEPT !.state = "gone"]
  <2>3. PICK y \in LegacyRequests :
          /\ lgCall' = lgCall \/ lgCall' = [lgCall EXCEPT ![a] = y]
          /\ y.kind = x.kind /\ (x.state = "gone" => y.state = "gone")
    <3> HIDE DEF x
    <3>0. gone \in LegacyRequests /\ gone.kind = x.kind /\ gone.state = "gone"
      BY <2>2 DEF LegacyRequests
    <3> HIDE DEF gone
    <3>1. CASE lgCall' = lgCall \/ lgCall' = [lgCall EXCEPT ![a] = [x EXCEPT !.state = x.state]]
      BY <2>2, <3>1
    <3>2. CASE /\ x.state # "gone"
               /\ \E state \in {"cleaning", "failing", "answered", "failed"} :
                    lgCall' = [lgCall EXCEPT ![a] = [x EXCEPT !.state = state]]
      <4>1. PICK state \in {"cleaning", "failing", "answered", "failed"} :
              lgCall' = [lgCall EXCEPT ![a] = [x EXCEPT !.state = state]]
        BY <3>2
      <4> DEFINE y == [x EXCEPT !.state = state]
      <4>2. y \in LegacyRequests /\ y.kind = x.kind
        BY <2>2 DEF LegacyRequests
      <4>3. lgCall' = [lgCall EXCEPT ![a] = y]
        BY <4>1
      <4> HIDE DEF y
      <4> QED BY <3>2, <4>2, <4>3
    <3>3. CASE lgCall' = [lgCall EXCEPT ![a] = gone]
      BY <3>0, <3>3
    <3> QED BY <2>1, <3>1, <3>2, <3>3 DEF gone
  <2> QED BY <1>2, <2>3 DEF LegacyTypeOK
<1>7. LegacyTypeOK'
  BY <1>1, <1>2, <1>3, <1>4, <1>5, <1>6 DEF LegacyTypeOK
<1> QED BY <1>1, <1>3, <1>4, <1>5, <1>6, <1>7, QuietKeepsLegacy

\* A step of request a: the others are as they were.
LEMMA OneMoves ==
    ASSUME LegacyInv, LegacyTypeOK', NEW a \in LegacyCalls,
           \A r \in LegacyCalls : r # a =>
              /\ lgAccepted'[r] = lgAccepted[r] /\ lgSaved'[r] = lgSaved[r] /\ lgLost'[r] = lgLost[r]
              /\ lgConsumer'[r] = lgConsumer[r] /\ lgCall'[r] = lgCall[r]
              /\ lgQueue'[r].taps = lgQueue[r].taps
              /\ lgQueue[r].taps = NoCaller => lgQueue'[r].items = lgQueue[r].items
              /\ lgProducer[r] = "none" => lgProducer'[r] = "none",
           lgCall'[a].kind = "none" => lgConsumer'[a].pc = "none",
           lgConsumer'[a].pc \in NoQueueYet => lgQueue'[a].taps = NoCaller,
           lgQueue'[a].taps = NoCaller => Rooted(a)'
    PROVE  LegacyInv'
<1>1. ASSUME NEW r \in LegacyCalls, r # a, lgQueue[r].taps = NoCaller PROVE Rooted(r)'
  <2>1. Rooted(r)
    BY <1>1 DEF LegacyInv
  <2>2. Settles(lgConsumer[r], lgConsumer'[r])
    BY <1>1 DEF Settles
  <2> QED BY <1>1, <2>1, <2>2, RootQuiet DEF Rooted
<1>2. ASSUME NEW r \in LegacyCalls, lgQueue'[r].taps = NoCaller PROVE Rooted(r)'
  BY <1>1, <1>2
<1>3. ASSUME NEW r \in LegacyCalls
      PROVE  /\ lgCall'[r].kind = "none" => lgConsumer'[r].pc = "none"
             /\ lgConsumer'[r].pc \in NoQueueYet => lgQueue'[r].taps = NoCaller
  BY <1>3 DEF LegacyInv
<1> QED BY <1>2, <1>3 DEF LegacyInv

\* Sequences of no event and of one.
LEMMA NoEvents ==
    ASSUME NEW A, Len(A) = 0
    PROVE  (\A i : i \notin 1..Len(A)) /\ (\A e : ~Contains(A, e))
<1>1. \A i : i \notin 1..Len(A)
  OBVIOUS
<1> QED BY <1>1 DEF Contains

\* The queues a request may begin with.
LEMMA FewEvents ==
    /\ <<>> \in Seq(AgentEventSet) /\ Rising(<<>>) /\ \A x : ~Contains(<<>>, x)
    /\ \A e \in AgentEventSet :
         <<e>> \in Seq(AgentEventSet) /\ Rising(<<e>>) /\ \A x : Contains(<<e>>, x) => x = e
<1>1. <<>> \in Seq(AgentEventSet) /\ Len(<<>>) = 0
  OBVIOUS
<1>2. \A x : ~Contains(<<>>, x)
  BY <1>1, NoEvents
<1>3. Rising(<<>>)
  BY <1>1, NoEvents DEF Rising
<1>4. ASSUME NEW e \in AgentEventSet
      PROVE  <<e>> \in Seq(AgentEventSet) /\ Rising(<<e>>) /\ \A x : Contains(<<e>>, x) => x = e
  <2>1. <<e>> \in Seq(AgentEventSet) /\ Len(<<e>>) = 1 /\ <<e>>[1] = e
    OBVIOUS
  <2>2. \A i \in 1..1 : i = 1
    OBVIOUS
  <2> QED BY <2>1, <2>2 DEF Rising, Contains
<1> QED BY <1>1, <1>2, <1>3, <1>4

\* What is known of a request before its own step.
LEMMA RootFacts ==
    ASSUME LegacyInv, NEW a \in LegacyCalls
    PROVE  /\ LegacyTypeOK /\ lgQueue[a] \in LegacyQueues /\ lgQueue[a].items \in Seq(AgentEventSet)
           /\ lgConsumer[a] \in LegacyConsumers /\ lgCall[a] \in LegacyRequests
           /\ lgAccepted[a] \in Seq(AgentEventSet) /\ lgSaved[a] \in Seq(AgentEventSet)
           /\ HandOf(lgConsumer[a]) \in SUBSET AgentEventSet
           /\ lgCall[a].kind = "none" => lgConsumer[a].pc = "none"
           /\ lgConsumer[a].pc \in NoQueueYet => lgQueue[a].taps = NoCaller
           /\ lgQueue[a].taps = NoCaller => Rooted(a)
<1>1. LegacyTypeOK
  BY DEF LegacyInv
<1>2. lgQueue[a] \in LegacyQueues /\ lgQueue[a].items \in Seq(AgentEventSet)
  BY <1>1 DEF LegacyTypeOK, LegacyQueues
<1>3. HandOf(lgConsumer[a]) \in SUBSET AgentEventSet
  BY <1>1 DEF LegacyTypeOK, HandOf
<1> QED BY <1>1, <1>2, <1>3 DEF LegacyInv, LegacyTypeOK

\* A request arrives and reads the task: it has no queue yet.
LEMMA ArriveStep ==
    ASSUME LegacyInv, NEW a \in LegacyCalls, RequestArrives(a)
    PROVE  LegacyInv'
<1> DEFINE c == [lgConsumer[a] EXCEPT !.pc = "setup"]
<1>1. LegacyTypeOK /\ lgCall[a].kind = "none" /\ lgConsumer[a].pc = "none"
      /\ lgQueue[a].taps = NoCaller /\ Rooted(a)
  BY DEF LegacyInv, RequestArrives, NoQueueYet
<1>2. PICK kind \in {"send", "quick", "stream", "subscribe", "cancel"} :
        lgCall' = [lgCall EXCEPT ![a] = [kind |-> kind, state |-> "open"]]
  BY DEF RequestArrives, Sends
<1>3. /\ lgConsumer' = [lgConsumer EXCEPT ![a] = c]
      /\ UNCHANGED <<lgQueue, lgRoot, lgProducer, lgSaved, lgAccepted, lgLost>>
  BY DEF RequestArrives
<1>4. c \in LegacyConsumers /\ c.pc = "setup" /\ HandOf(c) = {}
  BY <1>1 DEF LegacyTypeOK, LegacyConsumers, HandOf
<1> HIDE DEF c
<1>5. /\ lgConsumer' \in [LegacyCalls -> LegacyConsumers] /\ lgConsumer'[a] = c
      /\ \A r \in LegacyCalls : r # a => lgConsumer'[r] = lgConsumer[r]
  BY <1>1, <1>3, <1>4 DEF LegacyTypeOK
<1>6. /\ lgCall' \in [LegacyCalls -> LegacyRequests] /\ lgCall'[a].kind = kind
      /\ \A r \in LegacyCalls : r # a => lgCall'[r] = lgCall[r]
  BY <1>1, <1>2 DEF LegacyTypeOK, LegacyRequests
<1>7. LegacyTypeOK'
  BY <1>1, <1>3, <1>4, <1>5, <1>6 DEF LegacyTypeOK
<1>8. Rooted(a)'
  <2>1. RootIn(a, lgAccepted[a], lgSaved[a], lgLost[a], lgQueue[a].items, lgConsumer[a],
               lgCall[a], lgProducer[a])
    BY <1>1 DEF Rooted
  <2>2. HandOf(lgConsumer[a]) = {}
    BY <1>1 DEF HandOf
  <2>3. RootIn(a, lgAccepted[a], lgSaved[a], lgLost[a], lgQueue[a].items, c,
               lgCall'[a], lgProducer[a])
    BY <1>1, <1>4, <2>1, <2>2 DEF RootIn, Fresh
  <2> QED BY <1>3, <1>5, <2>3 DEF Rooted
<1>9. lgCall'[a].kind # "none" /\ lgQueue'[a].taps = NoCaller
  BY <1>1, <1>2, <1>3, <1>6
<1> QED BY <1>3, <1>5, <1>6, <1>7, <1>8, <1>9, OneMoves

\* A request that has read the task gets an empty queue.
LEMMA BeginSteps ==
    ASSUME LegacyInv, NEW a \in LegacyCalls, SendMessage(a) \/ Subscribe(a) \/ CancelTask(a)
    PROVE  LegacyInv'
<1> DEFINE new == [items |-> <<>>, open |-> TRUE, taps |-> lgRoot]
<1>1. LegacyTypeOK /\ lgConsumer[a].pc = "setup" /\ lgQueue[a].taps = NoCaller /\ Rooted(a)
      /\ lgCall[a].kind # "none"
  BY DEF LegacyInv, SendMessage, Subscribe, CancelTask, Opens, NoQueueYet
<1>2. PICK pc \in {"waiting", "agent"} :
        /\ lgConsumer' = [lgConsumer EXCEPT ![a] = [lgConsumer[a] EXCEPT !.pc = pc]]
        /\ pc = "agent" <=> lgCall[a].kind = "cancel"
  BY DEF SendMessage, Subscribe, CancelTask, Opens, Sends
<1>3. /\ lgSaved' = lgSaved /\ lgLost' = lgLost /\ lgAccepted' = lgAccepted /\ lgCall' = lgCall
      /\ lgRoot' \in {lgRoot, a} /\ lgQueue' = [lgQueue EXCEPT ![a] = new]
  BY DEF SendMessage, Subscribe, CancelTask, Opens, legacyLog
<1>4. /\ DOMAIN lgProducer' = LegacyCalls
      /\ \A r \in LegacyCalls : r # a /\ lgProducer[r] = "none" => lgProducer'[r] = "none"
      /\ lgCall[a].kind = "cancel" => lgProducer'[a] = lgProducer[a]
  <2>1. DOMAIN lgProducer = LegacyCalls
    BY <1>1 DEF LegacyTypeOK
  <2>2. \/ lgProducer' = lgProducer
        \/ lgProducer' = [lgProducer EXCEPT ![a] = "running"] /\ lgCall[a].kind # "cancel"
    BY DEF SendMessage, Subscribe, CancelTask, Opens, Sends
  <2> QED BY <2>1, <2>2
<1>5. new \in LegacyQueues /\ new.items = <<>>
  BY <1>1, FewEvents DEF LegacyQueues, LegacyTypeOK
<1> DEFINE c == [lgConsumer[a] EXCEPT !.pc = pc]
<1>6. c \in LegacyConsumers /\ c.pc = pc /\ HandOf(c) = {} /\ lgConsumer' = [lgConsumer EXCEPT ![a] = c]
  BY <1>1, <1>2 DEF LegacyTypeOK, LegacyConsumers, HandOf
<1> HIDE DEF c, new
<1>7. LegacyTypeOK'
  <2>1. lgQueue' \in [LegacyCalls -> LegacyQueues] /\ lgRoot' \in LegacyCalls \cup {NoCaller}
    BY <1>1, <1>3, <1>5 DEF LegacyTypeOK
  <2>2. lgConsumer' \in [LegacyCalls -> LegacyConsumers]
    BY <1>1, <1>6 DEF LegacyTypeOK
  <2>3. \A r \in LegacyCalls : lgConsumer'[r].pc = "saving" => lgConsumer'[r].event \in AgentEventSet
    BY <1>1, <1>6 DEF LegacyTypeOK
  <2> QED BY <1>1, <1>3, <1>4, <2>1, <2>2, <2>3 DEF LegacyTypeOK
<1>8. lgQueue'[a].items = <<>> /\ lgConsumer'[a] = c
  BY <1>1, <1>3, <1>5, <1>6 DEF LegacyTypeOK
<1> DEFINE A == lgAccepted[a]
<1>9. lgSaved[a] = <<>> /\ lgLost[a] = {} /\ Len(A) = 0 /\ lgProducer[a] = "none"
  BY <1>1 DEF Rooted, RootIn, Fresh
<1>10. \A e : ~Contains(A, e) /\ ~Contains(<<>>, e)
  BY <1>9, NoEvents, FewEvents
<1> HIDE DEF A
<1>11. EventsKept(A, <<>>, {}, <<>>, {}) /\ Within(A, <<>>, <<>>, {})
  <2>1. \A i : i \notin 1..Len(A)
    BY <1>9, NoEvents
  <2> QED BY <1>10, <2>1, FewEvents DEF EventsKept, Within
<1>12. RootIn(a, A, <<>>, {}, <<>>, c, lgCall[a], lgProducer'[a])
  BY <1>1, <1>2, <1>4, <1>6, <1>9, <1>10, <1>11 DEF RootIn, Fresh
<1>13. Rooted(a)'
  BY <1>3, <1>8, <1>9, <1>12 DEF Rooted, A
<1>14. \A r \in LegacyCalls : r # a => lgConsumer'[r] = lgConsumer[r] /\ lgQueue'[r] = lgQueue[r]
  BY <1>1, <1>3, <1>6 DEF LegacyTypeOK
<1>15. lgCall'[a].kind # "none" /\ lgConsumer'[a].pc \notin NoQueueYet
  BY <1>1, <1>2, <1>3, <1>6, <1>8 DEF NoQueueYet
<1> QED BY <1>3, <1>4, <1>7, <1>13, <1>14, <1>15, OneMoves

\* The agent answers a cancellation: one event in a queue that had none of its own.
LEMMA AnswerStep ==
    ASSUME LegacyInv, NEW a \in LegacyCalls, CancelAnswers(a)
    PROVE  LegacyInv'
<1> DEFINE e == [by |-> a, n |-> 1, kind |-> "done"]
           c == [lgConsumer[a] EXCEPT !.pc = "told"]
           items == lgQueue'[a].items
           A == lgAccepted[a]
<1>1. LegacyTypeOK /\ lgConsumer[a].pc = "agent"
  BY DEF LegacyInv, CancelAnswers
<1>2. /\ lgQueue' = Enqueued(a, e) /\ lgConsumer' = [lgConsumer EXCEPT ![a] = c]
      /\ UNCHANGED <<lgCall, lgRoot, lgProducer, lgSaved, lgAccepted, lgLost>>
  BY DEF CancelAnswers, legacyLog
<1>3. e \in AgentEventSet /\ e.by = a
  BY DEF AgentEventSet, KindSet
<1>4. c \in LegacyConsumers /\ c.pc = "told" /\ HandOf(c) = {}
  BY <1>1 DEF LegacyTypeOK, LegacyConsumers, HandOf
<1> HIDE DEF e, c
<1>5. /\ lgQueue' \in [LegacyCalls -> LegacyQueues]
      /\ \A r \in LegacyCalls :
           /\ lgQueue'[r].taps = lgQueue[r].taps
           /\ lgQueue[r].taps = NoCaller /\ r # a => lgQueue'[r].items = lgQueue[r].items
      /\ items \in {lgQueue[a].items, Append(lgQueue[a].items, e)}
  <2>1. lgQueue[a].open => items = Append(lgQueue[a].items, e)
    BY <1>1, <1>2, <1>3, QueueOperations DEF LegacyTypeOK
  <2>2. ~lgQueue[a].open => items = lgQueue[a].items
    BY <1>2 DEF Enqueued
  <2> QED BY <1>1, <1>2, <1>3, <2>1, <2>2, QueueOperations DEF LegacyTypeOK
<1>6. /\ lgConsumer' \in [LegacyCalls -> LegacyConsumers] /\ lgConsumer'[a] = c
      /\ \A r \in LegacyCalls : r # a => lgConsumer'[r] = lgConsumer[r]
  BY <1>1, <1>2, <1>4 DEF LegacyTypeOK
<1>7. \A r \in LegacyCalls : lgConsumer'[r].pc = "saving" => lgConsumer'[r].event \in AgentEventSet
  BY <1>1, <1>4, <1>6 DEF LegacyTypeOK
<1>8. LegacyTypeOK'
  BY <1>1, <1>2, <1>5, <1>6, <1>7 DEF LegacyTypeOK
<1>9. ASSUME lgQueue'[a].taps = NoCaller PROVE Rooted(a)'
  <2>1. RootIn(a, A, lgSaved[a], lgLost[a], lgQueue[a].items, lgConsumer[a], lgCall[a], lgProducer[a])
    BY <1>5, <1>9 DEF LegacyInv, Rooted
  <2>2. /\ Len(A) = 0 /\ lgProducer[a] = "none" /\ lgSaved[a] = <<>> /\ lgLost[a] = {}
        /\ lgQueue[a].items = <<>>
    BY <1>1, <2>1 DEF RootIn, Fresh
  <2>3. items \in {<<>>, <<e>>}
    BY <1>3, <1>5, <2>2
  <2>4. Rising(items) /\ \A x : Contains(items, x) => x = e
    BY <1>3, <2>3, FewEvents
  <2>5. \A x : ~Contains(A, x) /\ ~Contains(<<>>, x)
    BY <2>2, NoEvents, FewEvents
  <2> HIDE DEF A, items
  <2>6. EventsKept(A, <<>>, {}, items, {})
    <3>1. \A i : i \notin 1..Len(A)
      BY <2>2, NoEvents
    <3> QED BY <2>4, <2>5, <3>1, FewEvents DEF EventsKept
  <2>7. lgCall[a].kind = "cancel"
    BY <1>1, <2>1 DEF RootIn
  <2>8. RootIn(a, A, <<>>, {}, items, c, lgCall[a], lgProducer[a])
    BY <1>3, <1>4, <2>2, <2>4, <2>6, <2>7 DEF RootIn, Fresh
  <2> QED BY <1>2, <1>6, <2>2, <2>8 DEF Rooted, A, items
<1>10. lgCall'[a].kind = "none" => lgConsumer'[a].pc = "none"
  BY <1>1, <1>2 DEF LegacyInv
<1>11. lgConsumer'[a].pc \notin NoQueueYet
  BY <1>4, <1>6 DEF NoQueueYet
<1> QED BY <1>2, <1>5, <1>6, <1>8, <1>9, <1>10, <1>11, OneMoves

\* The agent emits an event into its open queue.
LEMMA EmitStep ==
    ASSUME LegacyInv, NEW a \in LegacyCalls, AgentEmits(a)
    PROVE  LegacyInv'
<1>1. PICK kind \in LegacyKinds[a] :
        LET e == [by |-> a, n |-> Len(lgAccepted[a]) + 1, kind |-> kind]
        IN /\ lgProducer[a] = "running" /\ lgQueue[a].open /\ lgQueue' = Enqueued(a, e)
           /\ lgAccepted' = [lgAccepted EXCEPT ![a] = Append(lgAccepted[a], e)]
  BY DEF AgentEmits
<1> DEFINE A == lgAccepted[a]
           e == [by |-> a, n |-> Len(A) + 1, kind |-> kind]
           items == lgQueue[a].items
           hand == HandOf(lgConsumer[a])
<1>2. /\ lgCall' = lgCall /\ lgRoot' = lgRoot /\ lgProducer' = lgProducer
      /\ lgConsumer' = lgConsumer /\ lgSaved' = lgSaved /\ lgLost' = lgLost
  BY DEF AgentEmits
<1>3. LegacyTypeOK /\ A \in Seq(AgentEventSet) /\ Len(A) \in Nat
  BY RootFacts
<1>4. e \in AgentEventSet /\ e.by = a /\ e.n = Len(A) + 1
  <2>1. kind \in KindSet
    BY DEF KindSet
  <2> QED BY <1>3, <2>1 DEF AgentEventSet
<1>5. lgQueue' = Enqueued(a, e) /\ lgAccepted' = [lgAccepted EXCEPT ![a] = Append(A, e)]
  BY <1>1
<1>6. lgQueue[a].open /\ lgProducer[a] = "running"
  BY <1>1
<1> HIDE DEF e
<1>7. /\ lgQueue' \in [LegacyCalls -> LegacyQueues] /\ lgQueue'[a].items = Append(items, e)
      /\ \A r \in LegacyCalls :
           /\ lgQueue'[r].taps = lgQueue[r].taps
           /\ lgQueue[r].taps = NoCaller /\ r # a => lgQueue'[r].items = lgQueue[r].items
  BY <1>3, <1>4, <1>5, <1>6, QueueOperations DEF LegacyTypeOK
<1>8. /\ lgAccepted' \in [LegacyCalls -> Seq(AgentEventSet)] /\ lgAccepted'[a] = Append(A, e)
      /\ \A r \in LegacyCalls : r # a => lgAccepted'[r] = lgAccepted[r]
  <2>1. Append(A, e) \in Seq(AgentEventSet)
    BY <1>3, <1>4, GrownSequence
  <2> HIDE DEF A
  <2> QED BY <1>3, <1>5, <2>1 DEF LegacyTypeOK
<1>9. LegacyTypeOK'
  BY <1>2, <1>3, <1>7, <1>8 DEF LegacyTypeOK
<1>10. ASSUME lgQueue'[a].taps = NoCaller PROVE Rooted(a)'
  <2>1. lgQueue[a].taps = NoCaller
    BY <1>7, <1>10
  <2>2. RootIn(a, A, lgSaved[a], lgLost[a], items, lgConsumer[a], lgCall[a], lgProducer[a])
    BY <2>1, RootFacts DEF Rooted
  <2>3. lgCall[a].kind \notin {"none", "cancel"} /\ lgConsumer[a].pc \notin Fresh
    BY <1>6, <2>2 DEF RootIn
  <2>4. items \in Seq(AgentEventSet) /\ hand \in SUBSET AgentEventSet /\ lgSaved[a] \in Seq(AgentEventSet)
    BY RootFacts
  <2> HIDE DEF A, items
  <2>5. /\ EventsKept(Append(A, e), lgSaved[a], lgLost[a], Append(items, e), hand)
        /\ Within(Append(A, e), lgSaved[a], Append(items, e), hand)
    BY <1>3, <1>4, <2>2, <2>3, <2>4, EmitKeeps DEF RootIn
  <2>6. \A x : Contains(Append(items, e), x) => Contains(items, x) \/ x = e
    BY <1>4, <2>4, GrownSequence
  <2>7. RootIn(a, Append(A, e), lgSaved[a], lgLost[a], Append(items, e), lgConsumer[a], lgCall[a],
               lgProducer[a])
    BY <1>4, <2>2, <2>3, <2>5, <2>6 DEF RootIn
  <2> QED BY <1>2, <1>7, <1>8, <2>7 DEF Rooted
<1>11. /\ lgCall'[a].kind = "none" => lgConsumer'[a].pc = "none"
       /\ lgConsumer'[a].pc \in NoQueueYet => lgQueue'[a].taps = NoCaller
  BY <1>2, <1>7, RootFacts
<1> QED BY <1>2, <1>7, <1>8, <1>9, <1>10, <1>11, OneMoves

\* The consumer takes the next event; a final one shuts the queue.
LEMMA DequeueStep ==
    ASSUME LegacyInv, NEW a \in LegacyCalls, Dequeue(a)
    PROVE  LegacyInv'
<1> DEFINE items == lgQueue[a].items
           e == Head(items)
           rest == IF Ends(e) THEN <<>> ELSE Tail(items)
           A == lgAccepted[a]
<1>1. /\ lgConsumer[a].pc = "waiting" /\ items # <<>>
      /\ lgQueue' = IF Ends(e) THEN ShutQueue(a)
                    ELSE [lgQueue EXCEPT ![a] = [lgQueue[a] EXCEPT !.items = Tail(items)]]
      /\ lgCall' = lgCall /\ lgRoot' = lgRoot /\ lgProducer' = lgProducer
      /\ lgSaved' = lgSaved /\ lgLost' = lgLost /\ lgAccepted' = lgAccepted
  BY DEF Dequeue, legacyLog
<1>2. PICK failed \in {0, 2} :
        lgConsumer' = [lgConsumer EXCEPT ![a] = [pc |-> "saving", event |-> e, failed |-> failed]]
  BY DEF Dequeue
<1>3. LegacyTypeOK /\ items \in Seq(AgentEventSet) /\ lgQueue[a] \in LegacyQueues
  BY RootFacts
<1>4. /\ e \in AgentEventSet /\ Tail(items) \in Seq(AgentEventSet) /\ Contains(items, e)
      /\ \A x : Contains(Tail(items), x) => Contains(items, x)
  BY <1>1, <1>3, ReadSequence
<1>5. /\ rest \in Seq(AgentEventSet) /\ (\A x : Contains(rest, x) => Contains(items, x))
      /\ Ends(e) => rest = <<>>
      /\ ~Ends(e) => rest = Tail(items)
  BY <1>4, FewEvents
<1>6. /\ lgQueue' \in [LegacyCalls -> LegacyQueues] /\ lgQueue'[a].items = rest
      /\ \A r \in LegacyCalls :
           /\ lgQueue'[r].taps = lgQueue[r].taps
           /\ lgQueue[r].taps = NoCaller /\ r # a => lgQueue'[r].items = lgQueue[r].items
  <2>1. CASE Ends(e)
    <3>1. lgQueue' = ShutQueue(a) /\ rest = <<>>
      BY <1>1, <2>1
    <3> HIDE DEF rest, e
    <3> QED BY <1>3, <1>4, <3>1, QueueOperations DEF LegacyTypeOK
  <2>2. CASE ~Ends(e)
    <3> DEFINE q == [lgQueue[a] EXCEPT !.items = rest]
    <3>1. lgQueue' = [lgQueue EXCEPT ![a] = q]
      BY <1>1, <2>2
    <3> HIDE DEF rest, e, items
    <3>2. q \in LegacyQueues /\ q.items = rest /\ q.taps = lgQueue[a].taps
      BY <1>3, <1>5 DEF LegacyQueues
    <3> HIDE DEF q
    <3> QED BY <1>3, <3>1, <3>2 DEF LegacyTypeOK
  <2> QED BY <2>1, <2>2
<1> DEFINE c == [pc |-> "saving", event |-> e, failed |-> failed]
<1> HIDE DEF rest, e, items
<1>7. c \in LegacyConsumers /\ c.pc = "saving" /\ c.event = e /\ HandOf(c) = {e}
  BY <1>4 DEF LegacyConsumers, HandOf
<1>8. lgConsumer' = [lgConsumer EXCEPT ![a] = c]
  BY <1>2
<1> HIDE DEF c
<1>9. /\ lgConsumer' \in [LegacyCalls -> LegacyConsumers] /\ lgConsumer'[a] = c
      /\ \A r \in LegacyCalls : r # a => lgConsumer'[r] = lgConsumer[r]
  BY <1>3, <1>7, <1>8 DEF LegacyTypeOK
<1>10. \A r \in LegacyCalls : lgConsumer'[r].pc = "saving" => lgConsumer'[r].event \in AgentEventSet
  BY <1>3, <1>4, <1>7, <1>9 DEF LegacyTypeOK
<1>11. LegacyTypeOK'
  BY <1>1, <1>3, <1>6, <1>9, <1>10 DEF LegacyTypeOK
<1>12. ASSUME lgQueue'[a].taps = NoCaller PROVE Rooted(a)'
  <2>1. lgQueue[a].taps = NoCaller /\ HandOf(lgConsumer[a]) = {}
    BY <1>1, <1>6, <1>12 DEF HandOf
  <2>2. RootIn(a, A, lgSaved[a], lgLost[a], items, lgConsumer[a], lgCall[a], lgProducer[a])
    BY <2>1, RootFacts DEF Rooted, items
  <2> HIDE DEF A
  <2>3. Len(A) = 0 \/ Within(A, lgSaved[a], items, {})
    BY <2>1, <2>2 DEF RootIn
  <2>4. EventsKept(A, lgSaved[a], lgLost[a], items, {})
    BY <2>1, <2>2 DEF RootIn
  <2>5. /\ EventsKept(A, lgSaved[a], lgLost[a], rest, {e})
        /\ Within(A, lgSaved[a], items, {}) => Within(A, lgSaved[a], rest, {e})
    <3>1. CASE Ends(e)
      <4>1. rest = <<>>
        BY <1>5, <3>1
      <4> QED BY <1>1, <1>3, <2>3, <2>4, <3>1, <4>1, LastTakenKeeps DEF e
    <3>2. CASE ~Ends(e)
      <4>1. rest = Tail(items)
        BY <1>5, <3>2
      <4> QED BY <1>1, <1>3, <2>4, <4>1, TakeKeeps DEF e
    <3> QED BY <3>1, <3>2
  <2>6. \A x : Contains(rest, x) \/ x \in {e} => Contains(items, x)
    BY <1>4, <1>5
  <2>7. RootIn(a, A, lgSaved[a], lgLost[a], rest, c, lgCall[a], lgProducer[a])
    BY <1>1, <1>7, <2>1, <2>2, <2>5, <2>6 DEF RootIn, Fresh
  <2> QED BY <1>1, <1>6, <1>7, <1>9, <2>7 DEF Rooted, A
<1>13. /\ lgCall'[a].kind = "none" => lgConsumer'[a].pc = "none"
       /\ lgConsumer'[a].pc \notin NoQueueYet
  BY <1>1, <1>7, <1>9, RootFacts DEF NoQueueYet
<1> QED BY <1>1, <1>6, <1>9, <1>11, <1>12, <1>13, OneMoves

\* The consumer saves the event in its hand.
LEMMA SaveStep ==
    ASSUME LegacyInv, NEW a \in LegacyCalls, SaveEvent(a)
    PROVE  LegacyInv'
<1> DEFINE e == lgConsumer[a].event
           x == lgCall[a]
           A == lgAccepted[a]
           items == lgQueue[a].items
           S == IF e.by = a THEN Append(lgSaved[a], e) ELSE lgSaved[a]
<1>1. LegacyTypeOK /\ lgConsumer[a] \in LegacyConsumers /\ lgConsumer[a].pc = "saving"
      /\ e \in AgentEventSet /\ x \in LegacyRequests /\ lgSaved[a] \in Seq(AgentEventSet)
  BY RootFacts DEF SaveEvent, LegacyTypeOK
<1>2. /\ lgQueue' = lgQueue /\ lgRoot' = lgRoot /\ lgProducer' = lgProducer
      /\ lgAccepted' = lgAccepted /\ lgLost' = lgLost
      /\ lgSaved' = [lgSaved EXCEPT ![a] = S]
  BY DEF SaveEvent
<1>3. PICK d \in LegacyConsumers : /\ d.pc \in {"yielding", "waiting", "ended"}
                                   /\ lgConsumer' = [lgConsumer EXCEPT ![a] = d]
  <2> DEFINE p == lgConsumer[a]
             yields == lgCall[a].state = "open" /\ lgCall[a].kind \in {"stream", "subscribe"}
             d == IF yields THEN [p EXCEPT !.pc = "yielding"]
                  ELSE [p EXCEPT !.pc = After(e), !.event = NoEvent]
  <2>1. lgConsumer' = [lgConsumer EXCEPT ![a] = d]
    BY DEF SaveEvent
  <2>2. After(e) \in {"waiting", "ended"}
    BY DEF After
  <2>3. p \in LegacyConsumers
    BY <1>1
  <2> HIDE DEF p, e
  <2>4. /\ [p EXCEPT !.pc = "yielding"] \in LegacyConsumers
        /\ [p EXCEPT !.pc = "yielding"].pc = "yielding"
        /\ [p EXCEPT !.pc = After(e), !.event = NoEvent] \in LegacyConsumers
        /\ [p EXCEPT !.pc = After(e), !.event = NoEvent].pc = After(e)
    BY <2>2, <2>3 DEF LegacyConsumers
  <2>5. d \in LegacyConsumers /\ d.pc \in {"yielding", "waiting", "ended"}
    BY <2>2, <2>4
  <2> HIDE DEF d
  <2> QED BY <2>1, <2>5
<1>4. PICK y \in LegacyRequests : /\ lgCall' = [lgCall EXCEPT ![a] = y] /\ y.kind = x.kind
                                  /\ x.state = "gone" => y.state = "gone"
  <2>1. PICK state \in {"answered", x.state} :
          /\ lgCall' = [lgCall EXCEPT ![a] = [x EXCEPT !.state = state]]
          /\ x.state = "gone" => state = "gone"
    BY DEF SaveEvent
  <2> HIDE DEF x
  <2>2. [x EXCEPT !.state = state] \in LegacyRequests /\ [x EXCEPT !.state = state].kind = x.kind
        /\ [x EXCEPT !.state = state].state = state
    BY <1>1, <2>1 DEF LegacyRequests
  <2> QED BY <2>1, <2>2
<1>5. S \in Seq(AgentEventSet) /\ (e.by = a => S = Append(lgSaved[a], e))
  BY <1>1, GrownSequence
<1> HIDE DEF S
<1>6. /\ lgSaved' \in [LegacyCalls -> Seq(AgentEventSet)] /\ lgSaved'[a] = S
      /\ \A r \in LegacyCalls : r # a => lgSaved'[r] = lgSaved[r]
  BY <1>1, <1>2, <1>5 DEF LegacyTypeOK
<1>7. /\ lgConsumer' \in [LegacyCalls -> LegacyConsumers] /\ lgConsumer'[a] = d /\ HandOf(d) = {}
      /\ \A r \in LegacyCalls : r # a => lgConsumer'[r] = lgConsumer[r]
      /\ \A r \in LegacyCalls : lgConsumer'[r].pc = "saving" => lgConsumer'[r].event \in AgentEventSet
  BY <1>1, <1>3 DEF LegacyTypeOK, HandOf
<1>8. /\ lgCall' \in [LegacyCalls -> LegacyRequests] /\ lgCall'[a] = y
      /\ \A r \in LegacyCalls : r # a => lgCall'[r] = lgCall[r]
  BY <1>1, <1>4 DEF LegacyTypeOK
<1>9. LegacyTypeOK'
  BY <1>1, <1>2, <1>6, <1>7, <1>8 DEF LegacyTypeOK
<1>10. ASSUME lgQueue'[a].taps = NoCaller PROVE Rooted(a)'
  <2>1. lgQueue[a].taps = NoCaller /\ HandOf(lgConsumer[a]) = {e}
    BY <1>1, <1>2, <1>10 DEF HandOf
  <2>2. RootIn(a, A, lgSaved[a], lgLost[a], items, lgConsumer[a], x, lgProducer[a])
    BY <2>1, RootFacts DEF Rooted
  <2> HIDE DEF A, e, items, x
  <2>3. e.by = a /\ S = Append(lgSaved[a], e)
    BY <1>5, <2>1, <2>2 DEF RootIn
  <2>4. EventsKept(A, lgSaved[a], lgLost[a], items, {e})
    BY <2>1, <2>2 DEF RootIn
  <2>5. /\ EventsKept(A, S, lgLost[a], items, {})
        /\ Within(A, lgSaved[a], items, {e}) => Within(A, S, items, {})
    BY <1>1, <2>3, <2>4, SaveKeeps
  <2>6. RootIn(a, A, S, lgLost[a], items, d, y, lgProducer[a])
    BY <1>1, <1>3, <1>4, <1>7, <2>1, <2>2, <2>5 DEF RootIn, Fresh
  <2> QED BY <1>2, <1>6, <1>7, <1>8, <2>6 DEF Rooted, A, items
<1>11. /\ lgCall'[a].kind = "none" => lgConsumer'[a].pc = "none"
       /\ lgConsumer'[a].pc \notin NoQueueYet
  BY <1>1, <1>3, <1>4, <1>7, <1>8, RootFacts DEF NoQueueYet
<1> QED BY <1>2, <1>6, <1>7, <1>8, <1>9, <1>10, <1>11, OneMoves

\* What request a has in hand is lost: its client has left, or its consumer has failed.
LEMMA LoseStep ==
    ASSUME LegacyInv, NEW a \in LegacyCalls, NEW d \in LegacyConsumers, NEW y \in LegacyRequests,
           lgConsumer[a].pc \in {"waiting", "saving", "yielding"},
           lgConsumer' = [lgConsumer EXCEPT ![a] = d], d.pc \in {"waiting", "stopped", "failed"},
           lgCall' = [lgCall EXCEPT ![a] = y], y.kind = lgCall[a].kind,
           y.state = "gone" \/ d.pc = "failed",
           lgLost' = [lgLost EXCEPT ![a] = lgLost[a] \cup HandOf(lgConsumer[a])],
           UNCHANGED <<lgQueue, lgRoot, lgAccepted, lgSaved>>,
           DOMAIN lgProducer' = LegacyCalls,
           \A r \in LegacyCalls : lgProducer[r] = "none" => lgProducer'[r] = "none"
    PROVE  LegacyInv'
<1> DEFINE p == lgConsumer[a]
           x == lgCall[a]
           A == lgAccepted[a]
           S == lgSaved[a]
           L == lgLost[a]
           items == lgQueue[a].items
<1>1. LegacyTypeOK /\ HandOf(d) = {} /\ d.pc # "saving"
  BY RootFacts DEF HandOf
<1>2. /\ lgConsumer' \in [LegacyCalls -> LegacyConsumers] /\ lgConsumer'[a] = d
      /\ \A r \in LegacyCalls : r # a => lgConsumer'[r] = lgConsumer[r]
      /\ \A r \in LegacyCalls : lgConsumer'[r].pc = "saving" => lgConsumer'[r].event \in AgentEventSet
  BY <1>1 DEF LegacyTypeOK
<1>3. /\ lgCall' \in [LegacyCalls -> LegacyRequests] /\ lgCall'[a] = y
      /\ \A r \in LegacyCalls : r # a => lgCall'[r] = lgCall[r]
  BY <1>1 DEF LegacyTypeOK
<1>4. /\ DOMAIN lgLost' = LegacyCalls /\ lgLost'[a] = L \cup HandOf(p)
      /\ \A r \in LegacyCalls : r # a => lgLost'[r] = lgLost[r]
  BY <1>1 DEF LegacyTypeOK
<1>5. LegacyTypeOK'
  BY <1>1, <1>2, <1>3, <1>4 DEF LegacyTypeOK
<1>6. ASSUME lgQueue'[a].taps = NoCaller PROVE Rooted(a)'
  <2>1. RootIn(a, A, S, L, items, p, x, lgProducer[a])
    BY <1>6, RootFacts DEF Rooted
  <2> HIDE DEF A, S, L, items, x, p
  <2>2. EventsKept(A, S, L, items, HandOf(p))
    BY <2>1 DEF RootIn
  <2>3. /\ EventsKept(A, S, L \cup HandOf(p), items, {})
        /\ Within(A, S, items, HandOf(p)) => Within(A, S, items, {})
    BY <2>2, LoseKeeps
  <2>4. RootIn(a, A, S, L \cup HandOf(p), items, d, y, lgProducer'[a])
    BY <1>1, <2>1, <2>3 DEF RootIn, Fresh, x
  <2> QED BY <1>2, <1>3, <1>4, <2>4 DEF Rooted, A, S, L, items, p
<1>7. /\ lgCall'[a].kind = "none" => lgConsumer'[a].pc = "none"
      /\ lgConsumer'[a].pc \notin NoQueueYet
  BY <1>2, <1>3, RootFacts DEF NoQueueYet
<1> QED BY <1>2, <1>3, <1>4, <1>5, <1>6, <1>7, OneMoves

\* The client leaves, in the middle of a save or not.
LEMMA LeaveStep ==
    ASSUME LegacyInv, NEW a \in LegacyCalls, ClientLeaves(a)
    PROVE  LegacyInv'
<1> DEFINE p == lgConsumer[a]
           x == lgCall[a]
           y == [x EXCEPT !.state = "gone"]
<1>1. LegacyTypeOK /\ p \in LegacyConsumers /\ x \in LegacyRequests
      /\ p.pc \in {"waiting", "saving", "yielding"} /\ DOMAIN lgProducer = LegacyCalls
  BY RootFacts DEF ClientLeaves, LegacyTypeOK
<1>2. /\ UNCHANGED <<lgQueue, lgRoot, lgProducer, lgAccepted, lgSaved>>
      /\ lgCall' = [lgCall EXCEPT ![a] = y]
      /\ lgLost' = [lgLost EXCEPT ![a] = lgLost[a] \cup HandOf(p)]
  BY DEF ClientLeaves, HandOf
<1>3. PICK pc \in {"waiting", "stopped"} :
        lgConsumer' = [lgConsumer EXCEPT ![a] = [p EXCEPT !.event = NoEvent, !.pc = pc]]
  BY <1>1 DEF ClientLeaves, LegacyTypeOK
<1> DEFINE d == [p EXCEPT !.event = NoEvent, !.pc = pc]
<1> HIDE DEF p, x
<1>4. d \in LegacyConsumers /\ d.pc \in {"waiting", "stopped"}
  BY <1>1 DEF LegacyConsumers
<1>5. y \in LegacyRequests /\ y.kind = x.kind /\ y.state = "gone"
  BY <1>1 DEF LegacyRequests
<1>6. lgConsumer' = [lgConsumer EXCEPT ![a] = d]
  BY <1>3
<1> HIDE DEF d, y
<1> QED BY <1>1, <1>2, <1>4, <1>5, <1>6, LoseStep DEF p, x

\* A save fails.
LEMMA FailStep ==
    ASSUME LegacyInv, NEW a \in LegacyCalls, SaveFails(a)
    PROVE  LegacyInv'
<1> DEFINE p == lgConsumer[a]
           x == lgCall[a]
           d == [p EXCEPT !.pc = "failed", !.event = NoEvent]
<1>1. LegacyTypeOK /\ p \in LegacyConsumers /\ x \in LegacyRequests /\ p.pc = "saving"
      /\ DOMAIN lgProducer = LegacyCalls
  BY RootFacts DEF SaveFails, LegacyTypeOK
<1>2. /\ UNCHANGED <<lgQueue, lgRoot, lgAccepted, lgSaved>>
      /\ lgConsumer' = [lgConsumer EXCEPT ![a] = d]
      /\ lgLost' = [lgLost EXCEPT ![a] = lgLost[a] \cup HandOf(p)]
  BY DEF SaveFails, HandOf
<1>3. PICK state \in {"failing", "failed", x.state} :
        lgCall' = [lgCall EXCEPT ![a] = [x EXCEPT !.state = state]]
  BY DEF SaveFails
<1>4. \A r \in LegacyCalls : lgProducer[r] = "none" => lgProducer'[r] = "none"
  BY <1>1 DEF SaveFails, Cancelled
<1>5. DOMAIN lgProducer' = LegacyCalls
  BY <1>1 DEF SaveFails
<1> DEFINE y == [x EXCEPT !.state = state]
<1> HIDE DEF p, x
<1>6. d \in LegacyConsumers /\ d.pc = "failed"
  BY <1>1 DEF LegacyConsumers
<1>7. y \in LegacyRequests /\ y.kind = x.kind /\ lgCall' = [lgCall EXCEPT ![a] = y]
  BY <1>1, <1>3 DEF LegacyRequests
<1> HIDE DEF d, y
<1> QED BY <1>1, <1>2, <1>4, <1>5, <1>6, <1>7, LoseStep DEF p, x

\* At the start no request has begun.
LEMMA LegacyStarts == LegacyInit => LegacyInv
<1> SUFFICES ASSUME LegacyInit PROVE LegacyInv
  OBVIOUS
<1>1. LegacyTypeOK
  <2>1. <<>> \in Seq(AgentEventSet)
    BY FewEvents
  <2> QED BY <2>1 DEF LegacyInit, LegacyTypeOK, LegacyQueues, LegacyRequests, LegacyConsumers
<1>2. ASSUME NEW r \in LegacyCalls
      PROVE  Rooted(r) /\ lgQueue[r].taps = NoCaller /\ lgConsumer[r].pc = "none"
  <2>1. /\ lgAccepted[r] = <<>> /\ lgSaved[r] = <<>> /\ lgLost[r] = {} /\ lgQueue[r].items = <<>>
        /\ lgQueue[r].taps = NoCaller /\ lgCall[r].kind = "none" /\ lgProducer[r] = "none"
        /\ HandOf(lgConsumer[r]) = {} /\ lgConsumer[r].pc = "none"
    BY DEF LegacyInit, HandOf
  <2>2. Len(<<>>) = 0
    OBVIOUS
  <2>3. EventsKept(<<>>, <<>>, {}, <<>>, {}) /\ Within(<<>>, <<>>, <<>>, {})
    BY <2>2, NoEvents, FewEvents DEF EventsKept, Within
  <2> QED BY <2>1, <2>2, <2>3, FewEvents DEF Rooted, RootIn, Fresh
<1> QED BY <1>1, <1>2 DEF LegacyInv

(* Types, and the place of every event of a request that taps no other      *)
(* queue: a final event is taken in hand before what follows it is dropped, *)
(* and only a client that has left or a save that failed can have lost one. *)
THEOREM LegacyInvariant == LegacySpec => []LegacyInv
<1>1. LegacyInv /\ [LegacyNext]_legacyVars => LegacyInv'
  <2> SUFFICES ASSUME LegacyInv, [LegacyNext]_legacyVars PROVE LegacyInv'
    OBVIOUS
  <2>1. CASE LegacyNext
    <3>1. PICK a \in LegacyCalls :
            \/ RequestArrives(a) \/ SendMessage(a) \/ Subscribe(a) \/ CancelTask(a)
            \/ CancelAnswers(a) \/ CancelProducer(a) \/ SetupAbandoned(a)
            \/ AgentEmits(a) \/ Dequeue(a) \/ LoadTask(a) \/ SaveEvent(a) \/ SaveFails(a)
            \/ ClientLeaves(a)
            \/ AgentReturns(a) \/ ProducerEnds(a) \/ AgentRaises(a) \/ ClientTakes(a) \/ QueueEnds(a)
            \/ RequestEnds(a) \/ FailureRaised(a) \/ CleanupRaises(a) \/ CleanupCloses(a)
            \/ CleanupEnds(a) \/ LeavesCleanup(a) \/ SendAnswered(a)
      BY <2>1 DEF LegacyNext
    <3> QED BY <3>1, ArriveStep, BeginSteps, AnswerStep, EmitStep, DequeueStep, SaveStep, FailStep,
               LeaveStep, QuietSteps
  <2>2. CASE UNCHANGED legacyVars
    <3>1. UNCHANGED <<lgCall, lgQueue, lgRoot, lgProducer, lgConsumer, lgSaved, lgAccepted, lgLost>>
      BY <2>2 DEF legacyVars, legacyLog
    <3>2. LegacyTypeOK'
      BY <3>1 DEF LegacyInv, LegacyTypeOK
    <3>3. \A r \in LegacyCalls : Settles(lgConsumer[r], lgConsumer'[r])
      BY <3>1 DEF Settles
    <3> QED BY <3>1, <3>2, <3>3, QuietKeepsLegacy
  <2> QED BY <2>1, <2>2
<1> QED BY <1>1, LegacyStarts, PTL DEF LegacySpec

\* What a request saved is in its own copy of the task, and stored while it wrote last.
StoreKept ==
    /\ DOMAIN lgCopy = LegacyCalls
    /\ \A r \in LegacyCalls : ~lgCopy[r].read => lgSaved[r] = <<>>
    /\ \A r \in LegacyCalls : \A e : Contains(lgSaved[r], e) =>
          e \in lgCopy[r].has /\ (lgTask.by = r => e \in lgTask.has)

\* A save that returned, or that did not: what is stored is the writer's copy and the event.
LEMMA WritesKeepStore ==
    ASSUME LegacyInv, StoreKept, NEW a \in LegacyCalls,
           SaveEvent(a) \/ SaveFails(a) \/ ClientLeaves(a)
    PROVE  StoreKept'
<1> DEFINE e == lgConsumer[a].event
<1>1. CASE SaveEvent(a)
  <2>1. /\ lgCopy' = [lgCopy EXCEPT ![a] = [read |-> TRUE, has |-> lgCopy[a].has \cup {e}]]
        /\ lgTask' = Stored(a, e)
        /\ lgSaved' = [lgSaved EXCEPT ![a] = IF e.by = a THEN Append(lgSaved[a], e) ELSE lgSaved[a]]
    BY <1>1 DEF SaveEvent
  <2>2. e \in AgentEventSet /\ lgSaved[a] \in Seq(AgentEventSet) /\ DOMAIN lgSaved = LegacyCalls
    BY <1>1, RootFacts DEF SaveEvent, LegacyTypeOK
  <2>3. \A x : Contains(Append(lgSaved[a], e), x) <=> Contains(lgSaved[a], x) \/ x = e
    BY <2>2, GrownSequence
  <2>4. /\ \A x : Contains(lgSaved'[a], x) => Contains(lgSaved[a], x) \/ x = e
        /\ \A r \in LegacyCalls : r # a => lgSaved'[r] = lgSaved[r]
    BY <2>1, <2>2, <2>3
  <2>5. lgTask'.by = a /\ lgTask'.has = lgCopy[a].has \cup {e}
    BY <2>1 DEF Stored
  <2>6. /\ DOMAIN lgCopy' = LegacyCalls /\ lgCopy'[a].read /\ lgCopy'[a].has = lgCopy[a].has \cup {e}
        /\ \A r \in LegacyCalls : r # a => lgCopy'[r] = lgCopy[r]
    BY <2>1 DEF StoreKept
  <2> HIDE DEF e
  <2>7. ASSUME NEW r \in LegacyCalls, NEW x, Contains(lgSaved'[r], x)
        PROVE  x \in lgCopy'[r].has /\ (lgTask'.by = r => x \in lgTask'.has)
    BY <2>4, <2>5, <2>6, <2>7 DEF StoreKept
  <2>8. ASSUME NEW r \in LegacyCalls, ~lgCopy'[r].read PROVE lgSaved'[r] = <<>>
    BY <2>4, <2>6, <2>8 DEF StoreKept
  <2> QED BY <2>6, <2>7, <2>8 DEF StoreKept
<1>2. CASE SaveFails(a) \/ ClientLeaves(a)
  <2>1. lgCopy' = lgCopy /\ lgSaved' = lgSaved /\ lgTask' \in {lgTask, Stored(a, e)}
    BY <1>2 DEF SaveFails, ClientLeaves, Unreturned
  <2>2. lgTask' = Stored(a, e) => lgTask'.by = a /\ lgTask'.has = lgCopy[a].has \cup {e}
    BY DEF Stored
  <2> QED BY <2>1, <2>2 DEF StoreKept
<1> QED BY <1>1, <1>2

LEMMA StepsKeepStore ==
    ASSUME LegacyInv, StoreKept, [LegacyNext]_legacyVars
    PROVE  StoreKept'
<1>1. CASE UNCHANGED <<lgTask, lgCopy, lgSaved>>
  BY <1>1 DEF StoreKept
<1>2. ASSUME NEW a \in LegacyCalls, RequestArrives(a) \/ LoadTask(a) PROVE StoreKept'
  <2>1. /\ \/ lgCopy' = lgCopy
           \/ lgCopy' = [lgCopy EXCEPT ![a] = [read |-> TRUE, has |-> lgTask.has]]
        /\ lgSaved' = lgSaved
        /\ lgTask' \in {lgTask, [state |-> "open", has |-> {}, by |-> a]}
    BY <1>2 DEF RequestArrives, LoadTask
  <2>2. lgSaved[a] = <<>>
    <3>1. CASE RequestArrives(a)
      BY <3>1, RootFacts DEF RequestArrives, Rooted, RootIn, Fresh, NoQueueYet
    <3>2. CASE LoadTask(a)
      BY <3>2 DEF LoadTask, StoreKept
    <3> QED BY <1>2, <3>1, <3>2
  <2>3. \A x : ~Contains(lgSaved[a], x)
    BY <2>2, FewEvents
  <2>4. \A r \in LegacyCalls : \/ r # a /\ lgCopy'[r] = lgCopy[r]
                               \/ r = a
    BY <2>1 DEF StoreKept
  <2>5. DOMAIN lgCopy' = LegacyCalls
    BY <2>1 DEF StoreKept
  <2>6. lgTask' # lgTask => lgTask'.by = a
    BY <2>1
  <2> QED BY <2>1, <2>2, <2>3, <2>4, <2>5, <2>6 DEF StoreKept
<1>3. CASE LegacyNext
  <2>1. PICK a \in LegacyCalls :
          \/ RequestArrives(a) \/ LoadTask(a)
          \/ SaveEvent(a) \/ SaveFails(a) \/ ClientLeaves(a)
          \/ UNCHANGED <<lgTask, lgCopy, lgSaved>>
    BY <1>3 DEF LegacyNext, legacyLog, SendMessage, Subscribe, CancelTask, Opens, CancelAnswers,
       CancelProducer, SetupAbandoned, AgentEmits, AgentReturns, ProducerEnds, AgentRaises, Dequeue,
       ClientTakes, QueueEnds, RequestEnds, FailureRaised, CleanupRaises, CleanupCloses,
       CleanupEnds, LeavesCleanup, SendAnswered
  <2> QED BY <1>1, <1>2, <2>1, WritesKeepStore
<1> QED BY <1>1, <1>3 DEF legacyVars, legacyLog

(* LegacyKept: a request that created the task's queue drops no event of    *)
(* its agent, up to the final one, but for one whose save failed or its     *)
(* leaving client interrupted, and what it saved is stored while no other   *)
(* request has written; for any number of requests, events and their kinds. *)
THEOREM LegacyIsKept == LegacySpec => []LegacyKept
<1>1. LegacyInv /\ StoreKept => LegacyKept
  <2> SUFFICES ASSUME LegacyInv, StoreKept, NEW r \in LegacyCalls
               PROVE  /\ lgQueue[r].taps = NoCaller =>
                          /\ \A e \in ToSet(lgAccepted[r]) :
                               (\A f \in Finals(r) : e.n <= f.n) =>
                                  e \in InHand(r) \cup lgLost[r] \cup ToSet(lgSaved[r])
                          /\ \A i, j \in DOMAIN lgSaved[r] :
                               i < j => lgSaved[r][i].n < lgSaved[r][j].n
                          /\ lgLost[r] # {} =>
                               lgCall[r].state = "gone" \/ lgConsumer[r].pc = "failed"
                      /\ lgTask.by = r => ToSet(lgSaved[r]) \subseteq lgTask.has
    BY DEF LegacyKept
  <2> DEFINE A == lgAccepted[r]
             S == lgSaved[r]
             items == lgQueue[r].items
             hand == HandOf(lgConsumer[r])
  <2>1. /\ lgQueue[r].taps = NoCaller =>
             RootIn(r, A, S, lgLost[r], items, lgConsumer[r], lgCall[r], lgProducer[r])
        /\ A \in Seq(AgentEventSet) /\ S \in Seq(AgentEventSet) /\ items \in Seq(AgentEventSet)
    BY RootFacts DEF Rooted
  <2>2. ASSUME NEW s \in Seq(AgentEventSet), NEW x PROVE x \in ToSet(s) <=> Contains(s, x)
    <3>1. DOMAIN s = 1..Len(s)
      OBVIOUS
    <3> QED BY <3>1 DEF ToSet, Contains
  <2>3. \A x : Contains(A, x) => x.n \in Nat
    <3> SUFFICES ASSUME NEW x, Contains(A, x) PROVE x.n \in Nat
      OBVIOUS
    <3>1. PICK i \in 1..Len(A) : A[i] = x
      BY DEF Contains
    <3>2. x \in AgentEventSet
      BY <2>1, <3>1
    <3> QED BY <3>2 DEF AgentEventSet
  <2>4. InHand(r) = ToSet(items) \cup hand /\ Finals(r) = {f \in ToSet(A) : Ends(f)}
    BY DEF InHand, Finals, HandOf
  <2>5. DOMAIN S = 1..Len(S)
    BY <2>1
  <2> HIDE DEF A, S, items, hand
  <2>6. ASSUME lgQueue[r].taps = NoCaller, NEW e \in ToSet(A), \A f \in Finals(r) : e.n <= f.n
        PROVE  e \in InHand(r) \cup lgLost[r] \cup ToSet(S)
    <3>1. Contains(A, e)
      BY <2>1, <2>2
    <3>2. ASSUME NEW f, Contains(A, f), Ends(f), f.n < e.n PROVE FALSE
      <4>1. f \in Finals(r)
        BY <2>1, <2>2, <2>4, <3>2
      <4> QED BY <2>3, <2>6, <3>1, <3>2, <4>1
    <3>3. Contains(S, e) \/ Contains(items, e) \/ e \in lgLost[r] \/ e \in hand
      BY <2>1, <2>6, <3>1, <3>2 DEF RootIn, EventsKept, hand
    <3> QED BY <2>1, <2>2, <2>4, <3>3
  <2>7. lgQueue[r].taps = NoCaller => \A i, j \in DOMAIN S : i < j => S[i].n < S[j].n
    BY <2>1, <2>5 DEF RootIn, EventsKept, Rising
  <2>8. lgQueue[r].taps = NoCaller /\ lgLost[r] # {} =>
          lgCall[r].state = "gone" \/ lgConsumer[r].pc = "failed"
    BY <2>1 DEF RootIn
  <2>9. lgTask.by = r => ToSet(S) \subseteq lgTask.has
    BY <2>1, <2>2 DEF StoreKept, S
  <2> QED BY <2>6, <2>7, <2>8, <2>9 DEF A, S
<1>2. LegacyInit => StoreKept
  BY FewEvents DEF LegacyInit, StoreKept
<1> QED BY <1>1, <1>2, LegacyInvariant, StepsKeepStore, PTL DEF LegacySpec

(***************************************************************************)
(* tasks/list, page by page                                                *)
(***************************************************************************)
Stamp == Nat \cup {NoStamp}
ListRow == [owner : ListOwners, id : ListIds, stamp : Stamp,
            context : {t.context : t \in ListTasks}, state : {t.state : t \in ListTasks}]
\* the order of the listing on two rows, without the sort keys
Below(r, q) ==
    \/ r.stamp = NoStamp /\ q.stamp # NoStamp
    \/ r.stamp # NoStamp /\ q.stamp # NoStamp /\ r.stamp < q.stamp
    \/ r.stamp = q.stamp /\ r.id < q.id

LEMMA KeyLessIsBelow ==
    ASSUME NEW a \in Stamp, NEW i \in Nat, NEW b \in Stamp, NEW j \in Nat
    PROVE  KeyLess(SortKey(a, i), SortKey(b, j))
             <=> \/ a = NoStamp /\ b # NoStamp
                 \/ a # NoStamp /\ b # NoStamp /\ a < b
                 \/ a = b /\ i < j
<1>1. CASE a = NoStamp /\ b = NoStamp
  <2>1. SortKey(a, i) = <<0, 0, i>> /\ SortKey(b, j) = <<0, 0, j>>
    BY <1>1 DEF SortKey
  <2> QED BY <1>1, <2>1 DEF KeyLess
<1>2. CASE a = NoStamp /\ b # NoStamp
  <2>1. SortKey(a, i) = <<0, 0, i>> /\ SortKey(b, j) = <<1, b, j>>
    BY <1>2 DEF SortKey
  <2> QED BY <1>2, <2>1 DEF KeyLess
<1>3. CASE a # NoStamp /\ b = NoStamp
  <2>1. SortKey(a, i) = <<1, a, i>> /\ SortKey(b, j) = <<0, 0, j>>
    BY <1>3 DEF SortKey
  <2> QED BY <1>3, <2>1 DEF KeyLess
<1>4. CASE a # NoStamp /\ b # NoStamp
  <2>1. SortKey(a, i) = <<1, a, i>> /\ SortKey(b, j) = <<1, b, j>>
    BY <1>4 DEF SortKey
  <2>2. a \in Nat /\ b \in Nat
    BY <1>4 DEF Stamp
  <2> QED BY <1>4, <2>1, <2>2 DEF KeyLess
<1> QED BY <1>1, <1>2, <1>3, <1>4

LEMMA RowOrder ==
    ASSUME NEW r \in ListRow, NEW q \in ListRow
    PROVE  KeyLess(SortKey(r.stamp, r.id), SortKey(q.stamp, q.id)) <=> Below(r, q)
<1>1. r.stamp \in Stamp /\ q.stamp \in Stamp /\ r.id \in Nat /\ q.id \in Nat
  BY ListingConstants DEF ListRow
<1> QED BY <1>1, KeyLessIsBelow DEF Below

(* The position the database puts into its SQL, with what a comparison with *)
(* NULL selects, and the comparison of sort keys in memory select the same  *)
(* tasks after every cursor.                                                *)
THEOREM PositionsAgree ==
    ASSUME NEW r \in ListRow, NEW at \in Stamp, NEW id \in ListIds
    PROVE  /\ DatabaseAfter(r, CursorToken(at, id)) <=> MemoryAfter(r, CursorToken(at, id))
           /\ AfterCursor(r, CursorToken(at, id)) <=> Below(r, [stamp |-> at, id |-> id])
<1>1. r.stamp \in Stamp /\ r.id \in Nat /\ id \in Nat
  BY ListingConstants DEF ListRow
<1>2. MemoryAfter(r, CursorToken(at, id)) <=> Below(r, [stamp |-> at, id |-> id])
  BY <1>1, KeyLessIsBelow DEF MemoryAfter, CursorToken, Below
<1>3. DatabaseAfter(r, CursorToken(at, id)) <=> Below(r, [stamp |-> at, id |-> id])
  BY <1>1 DEF DatabaseAfter, CursorToken, Below, SqlLess
<1> QED BY <1>2, <1>3 DEF AfterCursor

\* the order is strict and total on rows that differ in stamp or id
LEMMA BelowOrder ==
    ASSUME NEW r \in ListRow, NEW q \in ListRow, NEW t \in ListRow
    PROVE  /\ ~ Below(r, r)
           /\ Below(r, q) /\ Below(q, t) => Below(r, t)
           /\ r.id # q.id => Below(r, q) \/ Below(q, r)
           /\ ~ (Below(r, q) /\ Below(q, r))
<1>1. /\ r.id \in Nat /\ q.id \in Nat /\ t.id \in Nat
      /\ r.stamp \in Stamp /\ q.stamp \in Stamp /\ t.stamp \in Stamp
  BY ListingConstants DEF ListRow
<1> QED BY <1>1 DEF Below, Stamp

(* ---- the rank of a row: how many of the candidates are above it ---- *)
LEMMA AboveRows ==
    ASSUME NEW C \in SUBSET ListRow, IsFiniteSet(C), NEW r \in C
    PROVE  /\ Above(r, C) = {q \in C : Below(r, q)}
           /\ IsFiniteSet(Above(r, C))
           /\ Cardinality(Above(r, C)) \in Nat
           /\ Cardinality(Above(r, C)) < Cardinality(C)
<1>1. Above(r, C) = {q \in C : Below(r, q)}
  BY RowOrder DEF Above
<1>2. Above(r, C) \subseteq C /\ r \notin Above(r, C)
  BY <1>1, BelowOrder
<1>3. IsFiniteSet(Above(r, C)) /\ Cardinality(Above(r, C)) < Cardinality(C)
  <2>1. Above(r, C) \subseteq C \ {r}
    BY <1>2
  <2>2. IsFiniteSet(C \ {r}) /\ Cardinality(C \ {r}) = Cardinality(C) - 1
    BY FS_RemoveElement
  <2>3. IsFiniteSet(Above(r, C)) /\ Cardinality(Above(r, C)) <= Cardinality(C \ {r})
    BY <2>1, <2>2, FS_Subset
  <2> QED BY <2>2, <2>3, FS_CardinalityType
<1> QED BY <1>1, <1>3, FS_CardinalityType

LEMMA RankFalls ==
    ASSUME NEW C \in SUBSET ListRow, IsFiniteSet(C), NEW r \in C, NEW q \in C, Below(r, q)
    PROVE  Cardinality(Above(q, C)) < Cardinality(Above(r, C))
<1>1. Above(q, C) \subseteq Above(r, C) \ {q}
  <2>1. Above(q, C) = {t \in C : Below(q, t)} /\ Above(r, C) = {t \in C : Below(r, t)}
    BY AboveRows
  <2> QED BY <2>1, BelowOrder
<1>2. IsFiniteSet(Above(r, C)) /\ q \in Above(r, C)
  BY AboveRows
<1>3. /\ IsFiniteSet(Above(r, C) \ {q})
      /\ Cardinality(Above(r, C) \ {q}) = Cardinality(Above(r, C)) - 1
  BY <1>2, FS_RemoveElement
<1>4. Cardinality(Above(q, C)) <= Cardinality(Above(r, C) \ {q})
  BY <1>1, <1>3, FS_Subset
<1> QED BY <1>2, <1>3, <1>4, AboveRows, FS_CardinalityType

(* Every rank below the number of candidates is taken: the rank is one-to-  *)
(* one on rows with different ids, and there are as many ranks as rows.     *)
LEMMA RankTaken ==
    ASSUME NEW C \in SUBSET ListRow, IsFiniteSet(C),
           \A r, q \in C : r.id = q.id => r = q,
           NEW n \in Nat, n < Cardinality(C)
    PROVE  \E r \in C : Cardinality(Above(r, C)) = n
<1> DEFINE ranks == 0 .. Cardinality(C) - 1
           rank == [r \in C |-> Cardinality(Above(r, C))]
<1>1. Cardinality(C) \in Nat
  BY FS_CardinalityType
<1>2. rank \in [C -> ranks]
  <2>1. ASSUME NEW r \in C PROVE Cardinality(Above(r, C)) \in ranks
    BY <1>1, AboveRows
  <2> QED BY <2>1
<1>3. \A r, q \in C : rank[r] = rank[q] => r = q
  <2>1. ASSUME NEW r \in C, NEW q \in C, rank[r] = rank[q], r # q PROVE FALSE
    <3>1. Below(r, q) \/ Below(q, r)
      BY <2>1, BelowOrder
    <3>2. Cardinality(Above(r, C)) = Cardinality(Above(q, C))
      BY <2>1
    <3>3. Cardinality(Above(r, C)) \in Nat
      BY AboveRows
    <3> QED BY <3>1, <3>2, <3>3, RankFalls
  <2> QED BY <2>1
<1>4. rank \in Injection(C, ranks)
  BY <1>2, <1>3 DEF Injection, IsInjective
<1>5. IsFiniteSet(ranks) /\ Cardinality(ranks) = Cardinality(C)
  <2>1. 0 \in Int /\ Cardinality(C) - 1 \in Int
    BY <1>1
  <2> QED BY <1>1, <2>1, FS_Interval
<1>6. rank \in Surjection(C, ranks)
  BY <1>4, <1>5, FS_Injection
<1>7. n \in ranks
  BY <1>1
<1>8. \E r \in C : rank[r] = n
  BY <1>6, <1>7 DEF Surjection
<1> QED BY <1>8

(* One page of finitely many candidates with different ids.  The last page  *)
(* is all of them and has no token.  Any other page is not empty, and its   *)
(* token is the position of one of the candidates: the page's tasks are     *)
(* exactly the candidates that are not below it.                            *)
THEOREM PageCutsOrder ==
    ASSUME NEW C \in SUBSET ListRow, IsFiniteSet(C),
           \A r, q \in C : r.id = q.id => r = q,
           NEW size \in Nat \ {0}
    PROVE  \/ /\ NextToken(C, size) = NoToken
              /\ PageRows(C, size) = C
           \/ \E last \in C :
                 /\ NextToken(C, size) = CursorToken(last.stamp, last.id)
                 /\ last \in PageRows(C, size)
                 /\ \A r \in C : r \in PageRows(C, size) <=> ~ Below(r, last)
<1>1. Cardinality(C) \in Nat
  BY FS_CardinalityType
<1>2. CASE Cardinality(C) <= size
  <2>1. NextToken(C, size) = NoToken
    BY <1>2 DEF NextToken
  <2>2. ASSUME NEW r \in C PROVE Cardinality(Above(r, C)) < size
    <3>1. Cardinality(Above(r, C)) \in Nat /\ Cardinality(Above(r, C)) < Cardinality(C)
      BY AboveRows
    <3> QED BY <1>1, <1>2, <3>1
  <2> QED BY <2>1, <2>2 DEF PageRows
<1>3. CASE ~ (Cardinality(C) <= size)
  <2> DEFINE last == CHOOSE r \in C : Cardinality(Above(r, C)) = size - 1
  <2>1. \E r \in C : Cardinality(Above(r, C)) = size - 1
    <3>1. size - 1 \in Nat /\ size - 1 < Cardinality(C)
      BY <1>1, <1>3
    <3> QED BY <3>1, RankTaken
  <2>2. last \in C /\ Cardinality(Above(last, C)) = size - 1
    BY <2>1
  <2>3. NextToken(C, size) = CursorToken(last.stamp, last.id)
    BY <1>3 DEF NextToken
  <2> HIDE DEF last
  <2>4. ASSUME NEW r \in C
        PROVE  Cardinality(Above(r, C)) < size <=> ~ Below(r, last)
    <3>1. Cardinality(Above(r, C)) \in Nat
      BY AboveRows
    <3>2. CASE Below(r, last)
      <4>1. Cardinality(Above(last, C)) < Cardinality(Above(r, C))
        BY <2>2, <3>2, RankFalls
      <4> QED BY <2>2, <3>1, <3>2, <4>1
    <3>3. CASE Below(last, r)
      <4>1. Cardinality(Above(r, C)) < Cardinality(Above(last, C))
        BY <2>2, <3>3, RankFalls
      <4>2. ~ Below(r, last)
        BY <2>2, <3>3, BelowOrder
      <4> QED BY <2>2, <3>1, <4>1, <4>2
    <3>4. CASE r = last
      <4>1. ~ Below(r, last)
        BY <3>4, BelowOrder
      <4> QED BY <2>2, <3>4, <4>1
    <3> QED BY <2>2, <3>2, <3>3, <3>4, BelowOrder
  <2>5. \A r \in C : r \in PageRows(C, size) <=> ~ Below(r, last)
    BY <2>4 DEF PageRows
  <2>6. last \in PageRows(C, size)
    BY <2>2, <2>5, BelowOrder
  <2> QED BY <2>2, <2>3, <2>5, <2>6
<1> QED BY <1>2, <1>3

(* ---- the invariant ---- *)
ListToken == {NoToken} \cup {CursorToken(at, id) : at \in Stamp, id \in ListIds}
ListTypeOK ==
    /\ listKind \in {"memory", "database"}
    /\ listRows \in SUBSET ListRow /\ IsFiniteSet(listRows)
    /\ listing \in [phase : {"none", "more", "done", "refused"}, filter : ListFilters \cup {Unset}, token : ListToken,
                    pages : Seq(SUBSET ListIds), wanted : SUBSET ListIds,
                    changed : SUBSET ListIds, changes : Nat]
\* an owner has one task per id
RowsUnique == \A r, q \in listRows : r.owner = q.owner /\ r.id = q.id => r = q
\* before the first page
ListingFresh ==
    listing.phase \in {"none", "refused"} =>
        /\ listing.pages = <<>> /\ listing.wanted = {} /\ listing.changed = {}
ListedOnce ==
    \A i, j \in DOMAIN listing.pages, id \in ListIds \ listing.changed :
        id \in listing.pages[i] => id \in listing.wanted /\ (id \in listing.pages[j] => i = j)
(* Between two pages the cursor separates the unchanged tasks: those below  *)
(* it are the wanted ones that no page has, and they are still there.       *)
Paged(id) == \E i \in DOMAIN listing.pages : id \in listing.pages[i]
CursorSplits ==
    listing.phase = "more" =>
        /\ listing.token # NoToken
        /\ \A r \in Filtered(listing.filter) :
             r.id \notin listing.changed =>
                (AfterCursor(r, listing.token) <=> r.id \in listing.wanted /\ ~ Paged(r.id))
        /\ \A id \in listing.wanted \ listing.changed :
             \E r \in Filtered(listing.filter) : r.id = id
ListingEnded ==
    listing.phase = "done" => \A id \in listing.wanted \ listing.changed : Paged(id)
PagesFilled ==
    /\ listing.phase \in {"more", "done"} => listing.pages # <<>>
    /\ \A i \in DOMAIN listing.pages :
         listing.phase = "more" \/ i < Len(listing.pages) => listing.pages[i] # {}
ListingInv ==
    ListTypeOK /\ RowsUnique /\ ListingFresh /\ ListedOnce /\ CursorSplits /\ ListingEnded
      /\ PagesFilled

LEMMA ListingInvHolds ==
    ASSUME ListingInv PROVE PagesComplete
<1> USE DEF ListingInv
<1>1. ASSUME NEW id \in ListIds \ listing.changed
      PROVE  /\ Cardinality(Pages(id)) <= 1
             /\ Pages(id) # {} => id \in listing.wanted
             /\ listing.phase = "done" /\ id \in listing.wanted => Pages(id) # {}
  <2>1. \A i, j \in Pages(id) : i = j
    BY DEF Pages, ListedOnce
  <2>2. Cardinality(Pages(id)) <= 1
    <3>1. CASE Pages(id) = {}
      BY <3>1, FS_EmptySet
    <3>2. CASE Pages(id) # {}
      <4>1. PICK i \in Pages(id) : TRUE
        BY <3>2
      <4>2. Pages(id) = {i}
        BY <2>1, <4>1
      <4>3. Cardinality({i}) = 1
        BY FS_Singleton
      <4> QED BY <4>2, <4>3
    <3> QED BY <3>1, <3>2
  <2>3. Pages(id) # {} => id \in listing.wanted
    BY DEF Pages, ListedOnce
  <2>4. listing.phase = "done" /\ id \in listing.wanted => Pages(id) # {}
    BY DEF Pages, ListingEnded, Paged
  <2> QED BY <2>2, <2>3, <2>4
<1>2. /\ listing.phase \in {"more", "done"} => listing.pages # <<>>
      /\ \A i \in DOMAIN listing.pages : i < Len(listing.pages) => listing.pages[i] # {}
  BY DEF PagesFilled
<1> QED BY <1>1, <1>2 DEF PagesComplete

LEMMA ListingInitInv ==
    ListingInit => ListingInv
<1> SUFFICES ASSUME ListingInit PROVE ListingInv
  OBVIOUS
<1> USE DEF ListingInit
<1>1. ListTypeOK
  <2>1. <<>> \in Seq(SUBSET ListIds)
    OBVIOUS
  <2>2. listRows \in SUBSET ListRow /\ IsFiniteSet(listRows)
    BY FS_EmptySet
  <2>3. NoStamp \in Stamp /\ NoToken \in ListToken
    BY DEF Stamp, ListToken
  <2> QED BY <2>1, <2>2, <2>3 DEF ListTypeOK
<1>2. RowsUnique /\ ListingFresh /\ ListedOnce /\ CursorSplits /\ ListingEnded /\ PagesFilled
  BY DEF RowsUnique, ListingFresh, ListedOnce, CursorSplits, ListingEnded, PagesFilled
<1> QED BY <1>1, <1>2 DEF ListingInv

(* ---- turning a page ---- *)
LEMMA FilteredRows ==
    ASSUME ListTypeOK, RowsUnique, NEW filter
    PROVE  /\ Filtered(filter) \in SUBSET ListRow
           /\ IsFiniteSet(Filtered(filter))
           /\ \A r, q \in Filtered(filter) : r.id = q.id => r = q
<1>1. Filtered(filter) \subseteq listRows /\ \A r \in Filtered(filter) : r.owner = ListCaller
  BY DEF Filtered, OwnerRows
<1>2. IsFiniteSet(Filtered(filter))
  BY <1>1, FS_Subset DEF ListTypeOK
<1> QED BY <1>1, <1>2 DEF ListTypeOK, RowsUnique

LEMMA CandidateRows ==
    ASSUME NEW F, NEW token, token.kind \in {"none", "cursor", "task"}
    PROVE  Candidates(F, token) \subseteq F
<1>1. CASE token.kind = "none"
  BY <1>1 DEF Candidates
<1>2. CASE token.kind = "cursor"
  BY <1>2 DEF Candidates
<1>3. CASE token.kind = "task"
  BY <1>3 DEF Candidates
<1> QED BY <1>1, <1>2, <1>3

LEMMA TokenKinds ==
    /\ NoToken.kind = "none"
    /\ \A at, id : CursorToken(at, id).kind = "cursor" /\ CursorToken(at, id) # NoToken
    /\ \A id : TaskToken(id).kind = "task"
BY DEF NoToken, CursorToken, TaskToken

\* the fields of a turned listing
LEMMA TurnedFields ==
    ASSUME ListTypeOK, NEW ids \in SUBSET ListIds, NEW next \in ListToken
    PROVE  LET t == Turned([ids |-> ids, next |-> next])
           IN /\ t \in [phase : {"none", "more", "done", "refused"}, filter : ListFilters \cup {Unset},
                        token : ListToken, pages : Seq(SUBSET ListIds),
                        wanted : SUBSET ListIds, changed : SUBSET ListIds, changes : Nat]
              /\ t.pages = Append(listing.pages, ids) /\ t.token = next
              /\ t.phase = (IF next = NoToken THEN "done" ELSE "more")
              /\ t.filter = listing.filter /\ t.wanted = listing.wanted
              /\ t.changed = listing.changed
<1>1. listing \in [phase : {"none", "more", "done", "refused"}, filter : ListFilters \cup {Unset}, token : ListToken,
                   pages : Seq(SUBSET ListIds), wanted : SUBSET ListIds,
                   changed : SUBSET ListIds, changes : Nat]
  BY DEF ListTypeOK
<1>2. Append(listing.pages, ids) \in Seq(SUBSET ListIds)
  BY <1>1
<1> QED BY <1>1, <1>2 DEF Turned

\* where an appended page stands among the pages
LEMMA AppendedPage ==
    ASSUME NEW T, NEW s \in Seq(T), NEW x \in T
    PROVE  /\ DOMAIN Append(s, x) = DOMAIN s \cup {Len(s) + 1}
           /\ \A i \in DOMAIN s : Append(s, x)[i] = s[i] /\ i # Len(s) + 1 /\ i < Len(s) + 1
           /\ Append(s, x)[Len(s) + 1] = x
           /\ Len(Append(s, x)) = Len(s) + 1 /\ Append(s, x) # <<>>
           /\ \A i \in DOMAIN s : i \in Nat
OBVIOUS

LEMMA PageIds ==
    ASSUME NEW C \in SUBSET ListRow, \A r, q \in C : r.id = q.id => r = q, NEW P \in SUBSET C
    PROVE  /\ Ids(P) \in SUBSET ListIds
           /\ \A r \in C : r.id \in Ids(P) <=> r \in P
           /\ \A id \in Ids(P) : \E r \in P : r.id = id
BY DEF Ids, ListRow

\* what a page of the listing is, its next token included
LEMMA ListedPage ==
    ASSUME ListTypeOK, RowsUnique, NEW filter, NEW size \in ListSizes,
           NEW token, token.kind \in {"none", "cursor", "task"}
    PROVE  LET C == Candidates(Filtered(filter), token)
               P == PageRows(C, size)
           IN /\ C \in SUBSET ListRow /\ C \subseteq Filtered(filter)
              /\ \A r, q \in C : r.id = q.id => r = q
              /\ P \subseteq C
              /\ NextToken(C, size) \in ListToken
              /\ \/ NextToken(C, size) = NoToken /\ P = C
                 \/ \E last \in C :
                       /\ NextToken(C, size) = CursorToken(last.stamp, last.id)
                       /\ last \in P
                       /\ \A r \in C : r \in P <=> ~ Below(r, last)
<1> DEFINE C == Candidates(Filtered(filter), token)
<1>1. C \subseteq Filtered(filter)
  BY CandidateRows
<1>2. C \in SUBSET ListRow /\ IsFiniteSet(C) /\ \A r, q \in C : r.id = q.id => r = q
  BY <1>1, FilteredRows, FS_Subset
<1>3. size \in Nat \ {0}
  BY ListingConstants
<1> HIDE DEF C
<1>4. \/ NextToken(C, size) = NoToken /\ PageRows(C, size) = C
      \/ \E last \in C :
            /\ NextToken(C, size) = CursorToken(last.stamp, last.id)
            /\ last \in PageRows(C, size)
            /\ \A r \in C : r \in PageRows(C, size) <=> ~ Below(r, last)
  BY <1>2, <1>3, PageCutsOrder
<1>5. NextToken(C, size) \in ListToken
  BY <1>2, <1>4 DEF ListToken, ListRow
<1>6. PageRows(C, size) \subseteq C
  BY DEF PageRows
<1> QED BY <1>1, <1>2, <1>4, <1>5, <1>6 DEF C

LEMMA FirstPageInv ==
    ASSUME ListingInv, FirstPage PROVE ListingInv'
<1>1. PICK size \in ListSizes, filter \in ListFilters,
           token \in {NoToken} \cup {TaskToken(id) : id \in ListIds} :
        /\ listing.phase = "none"
        /\ listing' = [Turned(Listed(size, token, filter)) EXCEPT
                         !.filter = filter, !.wanted = Ids(Candidates(Filtered(filter), token))]
        /\ UNCHANGED <<listKind, listRows>>
  BY DEF FirstPage
<1> DEFINE F == Filtered(filter)
           C == Candidates(F, token)
           P == PageRows(C, size)
           next == NextToken(C, size)
<1>2. filter \in ListFilters /\ token.kind \in {"none", "task"}
  BY ListingConstants, TokenKinds DEF Stamp
<1>t. ListTypeOK /\ RowsUnique /\ ListingFresh
  BY DEF ListingInv
<1>3. /\ C \in SUBSET ListRow /\ C \subseteq F
      /\ \A r, q \in C : r.id = q.id => r = q
      /\ P \subseteq C /\ next \in ListToken
      /\ \/ next = NoToken /\ P = C
         \/ \E last \in C : /\ next = CursorToken(last.stamp, last.id) /\ last \in P
                            /\ \A r \in C : r \in P <=> ~ Below(r, last)
  BY <1>2, <1>t, ListedPage
<1>4. F \in SUBSET ListRow /\ \A r, q \in F : r.id = q.id => r = q
  BY <1>2, <1>t, FilteredRows
<1>5. \* a filtered row that is no candidate is above every candidate
      ASSUME NEW r \in F, r \notin C, NEW last \in C PROVE ~ Below(r, last)
  <2>1. token.kind = "task"
    BY <1>2, <1>5 DEF Candidates
  <2>2. PICK start \in LegacyStart(F, token) : KeyLess(SortKey(start.stamp, start.id), SortKey(r.stamp, r.id))
    BY <2>1, <1>5 DEF Candidates, LegacyFrom
  <2>3. ~ KeyLess(SortKey(start.stamp, start.id), SortKey(last.stamp, last.id))
    BY <2>1, <1>5 DEF Candidates, LegacyFrom
  <2>4. start \in ListRow /\ r \in ListRow /\ last \in ListRow
    BY <1>3, <1>4, <1>t, <1>5 DEF LegacyStart, OwnerRows, ListTypeOK
  <2>5. Below(start, r) /\ ~ Below(start, last)
    BY <2>2, <2>3, <2>4, RowOrder
  <2> QED BY <2>4, <2>5, BelowOrder
<1>6. Listed(size, token, filter) = [ids |-> Ids(P), next |-> next]
  BY DEF Listed
<1>7. Ids(P) \in SUBSET ListIds /\ Ids(C) \in SUBSET ListIds
  BY <1>3, PageIds
<1>8. /\ listing' \in [phase : {"none", "more", "done", "refused"}, filter : ListFilters \cup {Unset},
                       token : ListToken, pages : Seq(SUBSET ListIds),
                       wanted : SUBSET ListIds, changed : SUBSET ListIds, changes : Nat]
      /\ listing'.pages = Append(listing.pages, Ids(P)) /\ listing'.token = next
      /\ listing'.phase = (IF next = NoToken THEN "done" ELSE "more")
      /\ listing'.filter = filter /\ listing'.wanted = Ids(C)
      /\ listing'.changed = listing.changed
  <2> DEFINE t == Turned([ids |-> Ids(P), next |-> next])
  <2>2. listing' = [t EXCEPT !.filter = filter, !.wanted = Ids(C)]
    BY <1>1, <1>6
  <2> HIDE DEF C, P, next, F
  <2>1. /\ t \in [phase : {"none", "more", "done", "refused"}, filter : ListFilters \cup {Unset},
                  token : ListToken, pages : Seq(SUBSET ListIds),
                  wanted : SUBSET ListIds, changed : SUBSET ListIds, changes : Nat]
        /\ t.pages = Append(listing.pages, Ids(P)) /\ t.token = next
        /\ t.phase = (IF next = NoToken THEN "done" ELSE "more")
        /\ t.changed = listing.changed
    <3>1. ListTypeOK /\ Ids(P) \in SUBSET ListIds /\ next \in ListToken
      BY <1>3, <1>7, <1>t
    <3> QED BY ONLY <3>1, TurnedFields
  <2> HIDE DEF t
  <2> QED BY <1>2, <1>7, <2>1, <2>2
<1>9. listing.pages = <<>> /\ listing.changed = {}
  BY <1>1, <1>t DEF ListingFresh
<1>10. listing'.pages = <<Ids(P)>> /\ listing'.changed = {}
  BY <1>8, <1>9
<1>11. Filtered(filter)' = F /\ \A r, k : AfterCursor(r, k)' = AfterCursor(r, k)
  BY <1>1 DEF Filtered, OwnerRows, AfterCursor, LastUpdated, AfterLookedUp, MemoryAfter, DatabaseAfter
<1> HIDE DEF F, C, P, next
<1>12. ListTypeOK' /\ RowsUnique' /\ ListingFresh'
  BY <1>1, <1>8, <1>t DEF ListTypeOK, RowsUnique, ListingFresh
<1>13. ListedOnce'
  <2>1. Ids(P) \subseteq Ids(C)
    BY <1>3 DEF Ids
  <2> QED BY <1>8, <1>10, <2>1 DEF ListedOnce
<1>14. \A id : Paged(id)' <=> id \in Ids(P)
  BY <1>10 DEF Paged
<1>15. CursorSplits'
  <2> SUFFICES ASSUME listing'.phase = "more" PROVE CursorSplits'
    BY DEF CursorSplits
  <2>1. next # NoToken
    BY <1>8
  <2>2. PICK last \in C : /\ next = CursorToken(last.stamp, last.id) /\ last \in P
                          /\ \A r \in C : r \in P <=> ~ Below(r, last)
    BY <1>3, <2>1
  <2>3. last \in ListRow /\ last.stamp \in Stamp /\ last.id \in ListIds
    BY <1>3 DEF ListRow
  <2>4. ASSUME NEW r \in F
        PROVE  AfterCursor(r, next) <=> r.id \in Ids(C) /\ r.id \notin Ids(P)
    <3>1. r \in ListRow
      BY <1>4
    <3>2. AfterCursor(r, next) <=> Below(r, last)
      BY <2>2, <2>3, <3>1, PositionsAgree DEF Below
    <3>3. CASE r \in C
      BY <1>3, <2>2, <3>2, <3>3, PageIds
    <3>4. CASE r \notin C
      <4>1. r.id \notin Ids(C)
        BY <1>3, <1>4, <3>4, PageIds
      <4> QED BY <1>5, <3>2, <3>4, <4>1 DEF F, C
    <3> QED BY <3>3, <3>4
  <2>5. \A id \in Ids(C) : \E r \in F : r.id = id
    BY <1>3 DEF Ids
  <2>6. Filtered(listing.filter)' = F
    BY <1>8, <1>11 DEF Filtered, OwnerRows
  <2> QED BY <1>8, <1>11, <1>14, <2>1, <2>4, <2>5, <2>6 DEF CursorSplits, AfterCursor
<1>16. ListingEnded'
  BY <1>3, <1>8, <1>14, TokenKinds DEF ListingEnded
<1>17. PagesFilled'
  <2>1. listing'.phase = "more" => Ids(P) # {}
    BY <1>3, <1>8 DEF Ids
  <2> QED BY <1>10, <2>1 DEF PagesFilled
<1> QED BY <1>12, <1>13, <1>15, <1>16, <1>17 DEF ListingInv

LEMMA NextPageInv ==
    ASSUME ListingInv, NextPage PROVE ListingInv'
<1>1. PICK size \in ListSizes :
        /\ listing.phase = "more"
        /\ listing' = Turned(Listed(size, listing.token, listing.filter))
        /\ UNCHANGED <<listKind, listRows>>
  BY DEF NextPage
<1> DEFINE F == Filtered(listing.filter)
           C == Candidates(F, listing.token)
           P == PageRows(C, size)
           next == NextToken(C, size)
<1>t. ListTypeOK /\ RowsUnique /\ ListedOnce /\ CursorSplits /\ PagesFilled
  BY DEF ListingInv
<1>2. /\ listing.pages \in Seq(SUBSET ListIds)
      /\ \E at \in Stamp, id \in ListIds : listing.token = CursorToken(at, id)
      /\ listing.token.kind = "cursor"
  <2>1. listing.pages \in Seq(SUBSET ListIds) /\ listing.token \in ListToken
    BY <1>t DEF ListTypeOK
  <2>2. \E at \in Stamp, id \in ListIds : listing.token = CursorToken(at, id)
    BY <1>1, <1>t, <2>1 DEF CursorSplits, ListToken
  <2> QED BY <2>1, <2>2, TokenKinds
<1>3. /\ C \in SUBSET ListRow /\ C \subseteq F
      /\ \A r, q \in C : r.id = q.id => r = q
      /\ P \subseteq C /\ next \in ListToken
      /\ \/ next = NoToken /\ P = C
         \/ \E last \in C : /\ next = CursorToken(last.stamp, last.id) /\ last \in P
                            /\ \A r \in C : r \in P <=> ~ Below(r, last)
  BY <1>2, <1>t, ListedPage
<1>4. F \in SUBSET ListRow /\ \A r, q \in F : r.id = q.id => r = q
  BY <1>2, <1>t, FilteredRows
<1>c. C = {r \in F : AfterCursor(r, listing.token)}
  BY <1>2 DEF Candidates
<1>5. ASSUME NEW r \in F, r \notin C, NEW last \in C PROVE ~ Below(r, last)
  <2>1. PICK at \in Stamp, id \in ListIds : listing.token = CursorToken(at, id)
    BY <1>2
  <2> DEFINE k == [r EXCEPT !.stamp = at, !.id = id]
  <2>2. r \in ListRow /\ last \in ListRow /\ k \in ListRow
    BY <1>3, <1>4, <1>5, <2>1 DEF ListRow
  <2>3. ~ Below(r, k) /\ Below(last, k)
    <3>1. ~ AfterCursor(r, listing.token) /\ AfterCursor(last, listing.token)
      BY <1>c, <1>5
    <3>2. ~ Below(r, [stamp |-> at, id |-> id]) /\ Below(last, [stamp |-> at, id |-> id])
      BY <2>1, <2>2, <3>1, PositionsAgree
    <3> QED BY <3>2 DEF Below
  <2> HIDE DEF k
  <2> QED BY <2>2, <2>3, BelowOrder
<1>6. Listed(size, listing.token, listing.filter) = [ids |-> Ids(P), next |-> next]
  BY DEF Listed
<1>7. Ids(P) \in SUBSET ListIds
  BY <1>3, PageIds
<1>w. ASSUME NEW r \in F, r.id \notin listing.changed
      PROVE  r \in C <=> r.id \in listing.wanted /\ ~ Paged(r.id)
  BY <1>1, <1>t, <1>c, <1>w DEF CursorSplits
<1>v. ASSUME NEW id \in listing.wanted \ listing.changed PROVE \E r \in F : r.id = id
  BY <1>1, <1>t DEF CursorSplits
<1>11. Filtered(listing.filter)' = Filtered(listing'.filter)
  BY <1>1 DEF Filtered, OwnerRows, LastUpdated
<1>0. listing' = Turned([ids |-> Ids(P), next |-> next])
  BY <1>1, <1>6
<1>9. \A r, k : AfterCursor(r, k)' = AfterCursor(r, k)
  BY <1>1 DEF AfterCursor, MemoryAfter, DatabaseAfter
<1> HIDE DEF C, P, next
<1>8. /\ listing' \in [phase : {"none", "more", "done", "refused"}, filter : ListFilters \cup {Unset},
                       token : ListToken, pages : Seq(SUBSET ListIds),
                       wanted : SUBSET ListIds, changed : SUBSET ListIds, changes : Nat]
      /\ listing'.pages = Append(listing.pages, Ids(P)) /\ listing'.token = next
      /\ listing'.phase = (IF next = NoToken THEN "done" ELSE "more")
      /\ listing'.filter = listing.filter /\ listing'.wanted = listing.wanted
      /\ listing'.changed = listing.changed
  BY <1>0, <1>3, <1>7, <1>t, TurnedFields
<1>f. Filtered(listing.filter)' = F
  BY <1>8, <1>11
<1> HIDE DEF F
<1> DEFINE n == Len(listing.pages) + 1
<1>d. /\ DOMAIN listing'.pages = DOMAIN listing.pages \cup {n}
      /\ \A i \in DOMAIN listing.pages : listing'.pages[i] = listing.pages[i] /\ i # n /\ i < n
      /\ listing'.pages[n] = Ids(P) /\ Len(listing'.pages) = n /\ listing'.pages # <<>>
      /\ \A i \in DOMAIN listing.pages : i \in Nat
      /\ n \in Nat
  BY <1>2, <1>7, <1>8, AppendedPage
<1> HIDE DEF n
<1>12. ListTypeOK' /\ RowsUnique' /\ ListingFresh'
  BY <1>1, <1>8, <1>t DEF ListTypeOK, RowsUnique, ListingFresh
<1>14. \A id : Paged(id)' <=> Paged(id) \/ id \in Ids(P)
  BY <1>d DEF Paged
<1>p. ASSUME NEW id \in Ids(P), id \notin listing.changed PROVE id \in listing.wanted /\ ~ Paged(id)
  <2>1. PICK r \in P : r.id = id
    BY DEF Ids
  <2> QED BY <1>3, <1>w, <1>p, <2>1
<1>13. ListedOnce'
  <2> SUFFICES ASSUME NEW i \in DOMAIN listing'.pages, NEW j \in DOMAIN listing'.pages,
                      NEW id \in ListIds \ listing.changed, id \in listing'.pages[i]
               PROVE  id \in listing.wanted /\ (id \in listing'.pages[j] => i = j)
    BY <1>8 DEF ListedOnce
  <2>1. CASE i = n
    <3>1. id \in listing.wanted /\ ~ Paged(id)
      BY <1>p, <1>d, <2>1
    <3> QED BY <1>d, <2>1, <3>1 DEF Paged
  <2>2. CASE i \in DOMAIN listing.pages
    <3>1. id \in listing.pages[i] /\ Paged(id)
      BY <1>d, <2>2 DEF Paged
    <3>2. id \notin Ids(P)
      BY <1>p, <3>1
    <3> QED BY <1>d, <1>t, <2>2, <3>1, <3>2 DEF ListedOnce
  <2> QED BY <1>d, <2>1, <2>2
<1>15. CursorSplits'
  <2> SUFFICES ASSUME listing'.phase = "more" PROVE CursorSplits'
    BY DEF CursorSplits
  <2>1. next # NoToken
    BY <1>8
  <2>2. PICK last \in C : /\ next = CursorToken(last.stamp, last.id) /\ last \in P
                          /\ \A r \in C : r \in P <=> ~ Below(r, last)
    BY <1>3, <2>1
  <2>3. last \in ListRow /\ last.stamp \in Stamp /\ last.id \in ListIds
    BY <1>3 DEF ListRow
  <2>4. ASSUME NEW r \in F, r.id \notin listing.changed
        PROVE  AfterCursor(r, next) <=> r.id \in listing.wanted /\ ~ (Paged(r.id) \/ r.id \in Ids(P))
    <3>1. r \in ListRow
      BY <1>4
    <3>2. AfterCursor(r, next) <=> Below(r, last)
      BY <2>2, <2>3, <3>1, PositionsAgree DEF Below
    <3>3. CASE r \in C
      <4>1. r.id \in Ids(P) <=> r \in P
        BY <1>3, <3>3, PageIds
      <4> QED BY <1>w, <2>2, <2>4, <3>2, <3>3, <4>1
    <3>4. CASE r \notin C
      <4>1. ~ Below(r, last)
        BY <1>5, <3>4
      <4> QED BY <1>w, <2>4, <3>2, <3>4, <4>1
    <3> QED BY <3>3, <3>4
  <2> QED BY <1>8, <1>9, <1>f, <1>14, <1>v, <2>1, <2>4 DEF CursorSplits
<1>16. ListingEnded'
  <2> SUFFICES ASSUME listing'.phase = "done", NEW id \in listing.wanted \ listing.changed
               PROVE  Paged(id) \/ id \in Ids(P)
    BY <1>8, <1>14 DEF ListingEnded
  <2>1. P = C
    BY <1>3, <1>8, TokenKinds
  <2>2. PICK r \in F : r.id = id
    BY <1>v
  <2> QED BY <1>w, <2>1, <2>2 DEF Ids
<1>17. PagesFilled'
  <2>1. listing'.phase = "more" => Ids(P) # {}
    BY <1>3, <1>8 DEF Ids
  <2>2. \A i \in DOMAIN listing.pages : listing.pages[i] # {}
    BY <1>1, <1>t DEF PagesFilled
  <2> QED BY <1>d, <2>1, <2>2 DEF PagesFilled
<1> QED BY <1>12, <1>13, <1>15, <1>16, <1>17 DEF ListingInv

(* ---- changes between two pages ---- *)
LEMMA ChangesFields ==
    ASSUME ListTypeOK, NEW ids \in SUBSET ListIds
    PROVE  /\ Changes(ids) \in [phase : {"none", "more", "done", "refused"}, filter : ListFilters \cup {Unset},
                                token : ListToken, pages : Seq(SUBSET ListIds),
                                wanted : SUBSET ListIds, changed : SUBSET ListIds, changes : Nat]
           /\ Changes(ids).changed = listing.changed \cup ids
           /\ Changes(ids).phase = listing.phase /\ Changes(ids).filter = listing.filter
           /\ Changes(ids).token = listing.token /\ Changes(ids).pages = listing.pages
           /\ Changes(ids).wanted = listing.wanted
<1>1. listing \in [phase : {"none", "more", "done", "refused"}, filter : ListFilters \cup {Unset}, token : ListToken,
                   pages : Seq(SUBSET ListIds), wanted : SUBSET ListIds,
                   changed : SUBSET ListIds, changes : Nat]
  BY DEF ListTypeOK
<1>2. listing.changed \cup ids \in SUBSET ListIds /\ listing.changes + 1 \in Nat
  BY <1>1
<1>3. Changes(ids) = [listing EXCEPT !.changed = listing.changed \cup ids,
                                     !.changes = listing.changes + 1]
  BY DEF Changes
<1> QED BY ONLY <1>1, <1>2, <1>3

LEMMA ChangeInv ==
    ASSUME ListingInv, listing.phase = "more", NEW ids \in SUBSET ListIds,
           listing' = Changes(ids), UNCHANGED listKind,
           listRows' \in SUBSET ListRow, IsFiniteSet(listRows'), RowsUnique',
           \A r : r.owner = ListCaller /\ r.id \notin ids => (r \in listRows' <=> r \in listRows)
    PROVE  ListingInv'
<1>t. ListTypeOK /\ RowsUnique /\ ListedOnce /\ CursorSplits /\ PagesFilled
  BY DEF ListingInv
<1>1. /\ listing' \in [phase : {"none", "more", "done", "refused"}, filter : ListFilters \cup {Unset},
                       token : ListToken, pages : Seq(SUBSET ListIds),
                       wanted : SUBSET ListIds, changed : SUBSET ListIds, changes : Nat]
      /\ listing'.changed = listing.changed \cup ids
      /\ listing'.phase = "more" /\ listing'.filter = listing.filter
      /\ listing'.token = listing.token /\ listing'.pages = listing.pages
      /\ listing'.wanted = listing.wanted
  BY <1>t, ChangesFields
<1>2. ListTypeOK' /\ ListingFresh' /\ ListingEnded'
  BY <1>1, <1>t DEF ListTypeOK, ListingFresh, ListingEnded
<1>3. ListedOnce'
  BY <1>1, <1>t DEF ListedOnce
<1>4. PagesFilled'
  BY <1>1, <1>t DEF PagesFilled
<1>5. \A id : Paged(id)' <=> Paged(id)
  BY <1>1 DEF Paged
<1>6. \A r : r.id \notin ids => (r \in Filtered(listing.filter)' <=> r \in Filtered(listing.filter))
  BY <1>1 DEF Filtered, OwnerRows, LastUpdated
<1>7. \A r, k : AfterCursor(r, k)' = AfterCursor(r, k)
  BY DEF AfterCursor, MemoryAfter, DatabaseAfter
<1>8. CursorSplits'
  <2>1. listing'.token # NoToken
    BY <1>1, <1>t DEF CursorSplits
  <2>2. ASSUME NEW r \in Filtered(listing.filter)', r.id \notin listing'.changed
        PROVE  AfterCursor(r, listing.token)' <=> r.id \in listing.wanted /\ ~ Paged(r.id)
    <3>1. r \in Filtered(listing.filter) /\ r.id \notin listing.changed
      BY <1>1, <1>6, <2>2
    <3> QED BY <1>1, <1>7, <1>t, <3>1 DEF CursorSplits
  <2>3. ASSUME NEW id \in listing.wanted \ listing'.changed
        PROVE  \E r \in Filtered(listing.filter)' : r.id = id
    <3>1. PICK r \in Filtered(listing.filter) : r.id = id
      BY <1>1, <1>t DEF CursorSplits
    <3> QED BY <1>1, <1>6, <3>1
  <2> QED BY <1>1, <1>5, <2>1, <2>2, <2>3 DEF CursorSplits
<1> QED BY <1>2, <1>3, <1>4, <1>8 DEF ListingInv

LEMMA RowType ==
    ASSUME NEW owner \in ListOwners, NEW id \in ListIds, NEW task \in ListTasks
    PROVE  /\ Row(owner, id, task) \in ListRow
           /\ Row(owner, id, task).owner = owner /\ Row(owner, id, task).id = id
<1>1. LastUpdated(listKind, task.stamp) \in Stamp
  <2>1. CASE task.stamp = NoStamp
    BY <2>1 DEF LastUpdated, Stamp
  <2>2. CASE task.stamp \in Nat
    <3>1. (task.stamp \div MicroSecond) \in Nat
      BY <2>2, ListingConstants
    <3>2. (task.stamp \div MicroSecond) * MicroSecond \in Nat
      BY <3>1, ListingConstants
    <3> QED BY <2>2, <3>2 DEF LastUpdated, Stamp
  <2> QED BY <2>1, <2>2, ListingConstants
<1> QED BY <1>1 DEF Row, ListRow

LEMMA SaveTaskInv ==
    ASSUME ListingInv, SaveTask PROVE ListingInv'
<1>1. PICK owner \in ListOwners, id \in ListIds, task \in ListTasks :
        /\ listing.phase = "more"
        /\ listRows' = (listRows \ SavedOver(owner, id)) \cup {Row(owner, id, task)}
        /\ listing' = Changes(IF owner = ListCaller THEN {id} ELSE Ids(SavedOver(owner, id)))
        /\ UNCHANGED listKind
  BY DEF SaveTask
<1> DEFINE ids == IF owner = ListCaller THEN {id} ELSE Ids(SavedOver(owner, id))
           saved == Row(owner, id, task)
<1>t. listRows \in SUBSET ListRow /\ IsFiniteSet(listRows) /\ RowsUnique
  BY DEF ListingInv, ListTypeOK
<1>2. saved \in ListRow /\ saved.owner = owner /\ saved.id = id
  BY RowType
<1>3. SavedOver(owner, id) \subseteq listRows /\ \A r \in SavedOver(owner, id) : r.id = id
  BY DEF SavedOver
<1>4. ids \in SUBSET ListIds
  BY <1>3 DEF Ids
<1>5. \A r \in listRows : r.owner = owner /\ r.id = id => r \in SavedOver(owner, id)
  BY DEF SavedOver
<1>6. \A r \in SavedOver(owner, id) : r.id \in ids
  BY <1>3 DEF Ids
<1>7. listing' = Changes(ids) /\ listRows' = (listRows \ SavedOver(owner, id)) \cup {saved}
  BY <1>1
<1>8. owner = ListCaller => id \in ids
  OBVIOUS
<1> HIDE DEF ids, saved
<1>9. listRows' \in SUBSET ListRow /\ RowsUnique'
  BY <1>2, <1>5, <1>7, <1>t DEF RowsUnique
<1>10. IsFiniteSet(listRows')
  BY <1>7, <1>t, FS_AddElement, FS_Subset, FS_Difference
<1>11. \A r : r.owner = ListCaller /\ r.id \notin ids => (r \in listRows' <=> r \in listRows)
  BY <1>2, <1>6, <1>7, <1>8
<1> QED BY <1>1, <1>4, <1>7, <1>9, <1>10, <1>11, ChangeInv

LEMMA DeleteTaskInv ==
    ASSUME ListingInv, DeleteTask PROVE ListingInv'
<1>1. PICK owner \in ListOwners, id \in ListIds :
        /\ listing.phase = "more"
        /\ listRows' = listRows \ DeletedRows(owner, id)
        /\ listing' = Changes(IF owner = ListCaller THEN {id} ELSE {})
        /\ UNCHANGED listKind
  BY DEF DeleteTask
<1> DEFINE ids == IF owner = ListCaller THEN {id} ELSE {}
<1>t. listRows \in SUBSET ListRow /\ IsFiniteSet(listRows) /\ RowsUnique
  BY DEF ListingInv, ListTypeOK
<1>2. ids \in SUBSET ListIds /\ listing' = Changes(ids)
  BY <1>1
<1>3. listRows' \in SUBSET ListRow /\ IsFiniteSet(listRows') /\ RowsUnique'
  BY <1>1, <1>t, FS_Subset DEF RowsUnique
<1>4. \A r : r.owner = ListCaller /\ r.id \notin ids => (r \in listRows' <=> r \in listRows)
  BY <1>1 DEF DeletedRows
<1> HIDE DEF ids
<1> QED BY <1>1, <1>2, <1>3, <1>4, ChangeInv

LEMMA SaveBeforeInv ==
    ASSUME ListingInv, SaveBefore PROVE ListingInv'
<1>1. PICK owner \in ListOwners, id \in ListIds, task \in ListTasks :
        /\ listing.phase = "none"
        /\ \A r \in listRows : r.id < id
        /\ listRows' = listRows \cup {Row(owner, id, task)}
        /\ UNCHANGED <<listKind, listing>>
  BY DEF SaveBefore
<1>2. Row(owner, id, task) \in ListRow /\ Row(owner, id, task).id = id
  BY RowType
<1>3. ListTypeOK'
  BY <1>1, <1>2, FS_AddElement DEF ListingInv, ListTypeOK
<1>4. \A r \in listRows : r.id # id
  BY <1>1, ListingConstants
<1>5. RowsUnique'
  BY <1>1, <1>2, <1>4 DEF ListingInv, RowsUnique
<1>6. ListingFresh' /\ ListedOnce' /\ CursorSplits' /\ ListingEnded' /\ PagesFilled'
  BY <1>1 DEF ListingInv, ListingFresh, ListedOnce, CursorSplits, ListingEnded, PagesFilled, Paged
<1> QED BY <1>3, <1>5, <1>6 DEF ListingInv

LEMMA PageRefusedInv ==
    ASSUME ListingInv, PageRefused PROVE ListingInv'
<1>1. /\ listing.phase = "none" /\ listing' = [listing EXCEPT !.phase = "refused"]
      /\ UNCHANGED <<listKind, listRows>>
  BY DEF PageRefused
<1>2. ListTypeOK'
  BY <1>1 DEF ListingInv, ListTypeOK
<1>3. /\ listing'.phase = "refused" /\ listing'.pages = listing.pages
      /\ listing'.wanted = listing.wanted /\ listing'.changed = listing.changed
  BY <1>1 DEF ListingInv, ListTypeOK
<1>4. RowsUnique' /\ ListingFresh' /\ ListedOnce' /\ CursorSplits' /\ ListingEnded' /\ PagesFilled'
  BY <1>1, <1>3 DEF ListingInv, RowsUnique, ListingFresh, ListedOnce, CursorSplits,
     ListingEnded, PagesFilled, Paged
<1> QED BY <1>2, <1>4 DEF ListingInv

ListingSpec == ListingInit /\ [][ListingNext]_listVars

(* A task that matches when its listing begins and that nobody saves or     *)
(* deletes meanwhile is on exactly one page when the listing ends, for both *)
(* stores, any number of tasks and owners, any page sizes from 1 on, and    *)
(* whatever happens to the tasks around it.                                 *)
THEOREM ListingPagesComplete ==
    ListingSpec => []PagesComplete
<1>1. ListingInv /\ [ListingNext]_listVars => ListingInv'
  <2> SUFFICES ASSUME ListingInv, [ListingNext]_listVars PROVE ListingInv'
    OBVIOUS
  <2>1. CASE UNCHANGED listVars
    <3>1. Filtered(listing.filter)' = Filtered(listing.filter)
      BY <2>1 DEF listVars, Filtered, OwnerRows, LastUpdated
    <3>2. \A r, k : AfterCursor(r, k)' = AfterCursor(r, k)
      BY <2>1 DEF listVars, AfterCursor, MemoryAfter, DatabaseAfter
    <3> QED BY <2>1, <3>1, <3>2 DEF listVars, ListingInv, ListTypeOK, RowsUnique, ListingFresh,
          ListedOnce, CursorSplits, ListingEnded, PagesFilled, Paged
  <2> QED BY <2>1, FirstPageInv, NextPageInv, SaveBeforeInv, PageRefusedInv, SaveTaskInv,
        DeleteTaskInv DEF ListingNext
<1> QED BY <1>1, ListingInitInv, ListingInvHolds, PTL DEF ListingSpec
=============================================================================
