---------------------------- MODULE TaskCluster ----------------------------
(***************************************************************************)
(* One task shared by the replicas of an A2A server: the versioned task    *)
(* store, the event log it appends in the same transaction, the remote     *)
(* cancel and the remote subscription of the request handler               *)
(* (native_a2a/server/cluster, request_handlers/default_request_handler_v2). *)
(*                                                                         *)
(* A transaction is one step.  Its commit may be reported as a transient   *)
(* error although it took effect; save() then tries again.                 *)
(***************************************************************************)
EXTENDS Naturals, Sequences

CONSTANTS Replicas,     \* writers: the consumer of an active task, or another one
          Cancellers,   \* calls of on_cancel_task served by another replica
          Tails,        \* calls of on_subscribe_to_task served by another replica
          MaxVersion,   \* bound on the writes
          MaxAttempts   \* _MAX_ATTEMPTS of save()

ASSUME ClusterConstants == MaxVersion \in Nat /\ MaxAttempts \in Nat \ {0}

EndStates == {"completed", "canceled"}
StopStates == EndStates \cup {"input"}
RowStates == {"working"} \cup StopStates
NoRow == [state |-> "none", ver |-> 0]

VARIABLES row,       \* the tasks row and its task_versions row
          log,       \* task_events: the version and state each event was written with
          writer,    \* per replica: the snapshot it holds, the state it wants, its attempts
          cancelCall,  \* per call of on_cancel_task: where it is, its snapshot and attempts
          tail       \* per subscription: where it is, after, cursor, and what it yielded

clusterVars == <<row, log, writer, cancelCall, tail>>

Writer == [pc : {"idle", "save", "again"}, snap : [state : RowStates \cup {"none"}, ver : Nat],
           want : RowStates, tries : Nat]
IdleWriter == [pc |-> "idle", snap |-> NoRow, want |-> "working", tries |-> 0]
IdleCancel == [pc |-> "idle", snap |-> NoRow, tries |-> 0]
IdleTail == [pc |-> "idle", after |-> 0, cursor |-> 0, seen |-> "none", got |-> <<>>]

ClusterInit ==
    /\ row = NoRow /\ log = <<>>
    /\ writer = [w \in Replicas |-> IdleWriter]
    /\ cancelCall = [c \in Cancellers |-> IdleCancel]
    /\ tail = [t \in Tails |-> IdleTail]

Ended(state) == state \in EndStates

-----------------------------------------------------------------------------
(***************************************************************************)
(* The store.                                                              *)
(***************************************************************************)
\* Variant: a cancellation is not refused for a task that ended.
RefusedUnlessGone(snap, state) ==
    IF state = "canceled" THEN row.state = "none"
    ELSE IF snap.ver = 0 THEN row.ver # 0
    ELSE snap.ver # row.ver

\* _save_once(): a cancellation needs a task that has not ended, a first write no version row,
\* any other write the version it was derived from.
Refused(snap, state) ==
    IF state = "canceled" THEN row.state = "none" \/ Ended(row.state)
    ELSE IF snap.ver = 0 THEN row.ver # 0
    ELSE snap.ver # row.ver

\* The row, its version and the event commit together; a bare write has no event.
Commit(state, event) ==
    /\ row.ver < MaxVersion
    /\ row' = [state |-> state, ver |-> row.ver + 1]
    /\ log' = IF event THEN Append(log, [state |-> state, ver |-> row.ver + 1]) ELSE log

\* get(): the task with its version.
WriterReads(w) ==
    /\ writer[w].pc = "idle"
    /\ ~Ended(row.state)
    /\ \E want \in IF row.ver = 0 THEN {"working"} ELSE RowStates :
           writer' = [writer EXCEPT ![w] = [pc |-> "save", snap |-> row, want |-> want, tries |-> 0]]
    /\ UNCHANGED <<row, log, cancelCall, tail>>

\* The loop of save() goes round once more.
AnotherAttempt(x) == [x EXCEPT !.pc = "again", !.tries = x.tries + 1]

\* The first save of a task, by _init_task_obj(), carries no event; all others do.
WriterSaves(w) ==
    /\ writer[w].pc \in {"save", "again"}
    /\ ~Refused(writer[w].snap, writer[w].want)
    /\ \E event \in IF writer[w].snap.ver = 0 THEN BOOLEAN ELSE {TRUE} :
           Commit(writer[w].want, event)
    /\ \/ writer' = [writer EXCEPT ![w] = IdleWriter]
       \/ /\ writer[w].tries + 1 < MaxAttempts
          /\ writer' = [writer EXCEPT ![w] = AnotherAttempt(writer[w])]
    /\ UNCHANGED <<cancelCall, tail>>

\* Contention rolled the transaction back: another attempt, or the error is raised.
WriterContends(w) ==
    /\ writer[w].pc \in {"save", "again"}
    /\ writer' = IF writer[w].tries + 1 < MaxAttempts
                 THEN [writer EXCEPT ![w] = AnotherAttempt(writer[w])]
                 ELSE [writer EXCEPT ![w] = IdleWriter]
    /\ UNCHANGED <<row, log, cancelCall, tail>>

\* ConcurrentTaskModificationError, never retried; the caller reads again.
WriterConflicts(w) ==
    /\ writer[w].pc \in {"save", "again"}
    /\ Refused(writer[w].snap, writer[w].want)
    /\ writer' = [writer EXCEPT ![w] = IdleWriter]
    /\ UNCHANGED <<row, log, cancelCall, tail>>

-----------------------------------------------------------------------------
(***************************************************************************)
(* on_cancel_task() for a task that runs elsewhere.                        *)
(***************************************************************************)
CancelReads(c) ==
    /\ cancelCall[c].pc = "idle"
    /\ cancelCall' = [cancelCall EXCEPT ![c] =
           [pc |-> IF row.state = "none" THEN "not_found"
                   ELSE IF Ended(row.state) THEN "not_cancelable" ELSE "write",
            snap |-> row, tries |-> 0]]
    /\ UNCHANGED <<row, log, writer, tail>>

\* _write_cancel(): as a save of CANCELED, with the same attempts.
CancelWrites(c) ==
    /\ cancelCall[c].pc = "write"
    /\ ~Refused(cancelCall[c].snap, "canceled")
    /\ Commit("canceled", TRUE)
    /\ \/ cancelCall' = [cancelCall EXCEPT ![c].pc = "canceled"]
       \/ /\ cancelCall[c].tries + 1 < MaxAttempts
          /\ cancelCall' = [cancelCall EXCEPT ![c].tries = cancelCall[c].tries + 1]
    /\ UNCHANGED <<writer, tail>>

\* Variant: a conflict is taken for somebody else's cancellation.
CancelAssumes(c) ==
    /\ cancelCall[c].pc = "write"
    /\ Refused(cancelCall[c].snap, "canceled")
    /\ cancelCall' = [cancelCall EXCEPT ![c].pc = "canceled"]
    /\ UNCHANGED <<row, log, writer, tail>>

\* _cancel_remote() after a conflict: a task somebody canceled is the answer.
CancelReloads(c) ==
    /\ cancelCall[c].pc = "write"
    /\ Refused(cancelCall[c].snap, "canceled")
    /\ cancelCall' = [cancelCall EXCEPT ![c].pc =
           CASE row.state = "none" -> "not_found"
             [] row.state = "canceled" -> "canceled"
             [] OTHER -> "not_cancelable"]
    /\ UNCHANGED <<row, log, writer, tail>>

-----------------------------------------------------------------------------
(***************************************************************************)
(* on_subscribe_to_task() for a task that runs elsewhere: the snapshot,    *)
(* then the log from the snapshot's version.                               *)
(***************************************************************************)
TailOpens(t) ==
    /\ tail[t].pc = "idle" /\ row.state # "none"
    /\ tail' = [tail EXCEPT ![t] =
           IF Ended(row.state) THEN [tail[t] EXCEPT !.pc = "refused"]
           ELSE [tail[t] EXCEPT !.pc = "seek", !.after = row.ver, !.seen = row.state]]
    /\ UNCHANGED <<row, log, writer, cancelCall>>

\* Variant: the tail starts at the end of the log.
CursorAtEnd(after) == Len(log)

\* _seq_at_or_before_version(): the last event the snapshot already includes.
CursorFor(after) ==
    LET included == {i \in DOMAIN log : log[i].ver <= after}
    IN  IF included = {} THEN 0 ELSE CHOOSE i \in included : \A j \in included : j <= i

TailSeeks(t) ==
    /\ tail[t].pc = "seek"
    /\ tail' = [tail EXCEPT ![t].pc = "poll", ![t].cursor = CursorFor(tail[t].after)]
    /\ UNCHANGED <<row, log, writer, cancelCall>>

\* An event the snapshot does not include is yielded; one that stops the task is the last.
Yield(x, e) == [x EXCEPT !.cursor = x.cursor + 1, !.got = Append(x.got, e), !.seen = e.state,
                         !.pc = IF e.state \in StopStates THEN "ended" ELSE "poll"]

\* The next row behind the cursor.  A poll fetches all rows there are, which never change.
TailTakes(t) ==
    /\ tail[t].pc = "poll" /\ tail[t].cursor < Len(log)
    /\ LET x == tail[t]
           e == log[x.cursor + 1]
       IN  tail' = [tail EXCEPT ![t] = IF e.ver > x.after THEN Yield(x, e)
                                       ELSE [x EXCEPT !.cursor = x.cursor + 1]]
    /\ UNCHANGED <<row, log, writer, cancelCall>>

-----------------------------------------------------------------------------
ClusterNext ==
    \/ \E w \in Replicas : WriterReads(w) \/ WriterSaves(w) \/ WriterContends(w) \/ WriterConflicts(w)
    \/ \E c \in Cancellers : CancelReads(c) \/ CancelWrites(c) \/ CancelReloads(c)
    \/ \E t \in Tails : TailOpens(t) \/ TailSeeks(t) \/ TailTakes(t)

ClusterSpec == ClusterInit /\ [][ClusterNext]_clusterVars

-----------------------------------------------------------------------------
\* Once a task is terminal no replica, cancellation or repeated attempt changes it.
EndIsFinal == [][Ended(row.state) => row' = row]_row

\* A cancel is answered "canceled" only for a task that is canceled, and refused as not
\* cancelable only for one that ended, although its own commit may have gone unreported.
CancelHonest ==
    \A c \in Cancellers :
        /\ cancelCall[c].pc = "canceled" => row.state = "canceled"
        /\ cancelCall[c].pc = "not_cancelable" => Ended(row.state)

\* A tail has yielded every event after its snapshot once and in order, and what it has shown
\* last is the state of the task whenever it has read the whole log.
TailFaithful ==
    \A t \in Tails :
        /\ \A i, j \in DOMAIN tail[t].got : i < j => tail[t].got[i].ver < tail[t].got[j].ver
        /\ \A i \in DOMAIN tail[t].got : tail[t].got[i].ver = tail[t].after + i
        /\ tail[t].pc = "poll" /\ tail[t].cursor = Len(log) => tail[t].seen = row.state
=============================================================================
