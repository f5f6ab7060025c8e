---------------------------- MODULE StdioProofs ----------------------------
(***************************************************************************)
(* Proofs about the threaded stdio of the child, for any number of         *)
(* senders, frames, calls and lines.                                       *)
(***************************************************************************)
EXTENDS StdioWriter, StdioReader, SequenceTheorems, FiniteSetTheorems, TLAPS

(***************************************************************************)
(* StdioWriter.  The frames are in one row; what is needed beside it is    *)
(* where the sentinel of close() may be and what the worker holds.         *)
(***************************************************************************)
WorkerHolds ==
    /\ worker = "write" <=> job # <<>>
    /\ terminal => worker = "ended"
    /\ worker = "ended" /\ ~terminal => closing /\ jobs = <<>>

\* The sentinel is the last job once the writer is closing, and the worker ends with it.
MarkLast ==
    /\ closing => unclaimed = <<>>
    /\ worker \in {"get", "write"} =>
          /\ closing => jobs # <<>>
          /\ \A i \in 1..Len(jobs) : jobs[i] = CloseMark <=> closing /\ i = Len(jobs)

WriterInv == FramesConserved /\ WorkerHolds /\ MarkLast

\* write(): one more frame, as long as there is no sentinel.
LEMMA RowGrows ==
    ASSUME NEW w \in Seq(Nat), NEW j \in Seq(Nat), NEW q \in Seq(Seq(Nat)), NEW u \in Seq(Nat),
           NEW n \in Nat, InOneRow(w, j, q, u, n), \A i \in 1..Len(q) : q[i] # CloseMark
    PROVE  InOneRow(w, j, q, Append(u, n + 1), n + 1)
<1> DEFINE R(i) == Reach(w, j, q, n, i)
           S(i) == Reach(w, j, q, n + 1, i)
<1>1. \A i \in 0..Len(q) : S(i) = R(i)
  BY DEF Reach
<1>2. /\ Len(u) = n - R(Len(q)) /\ \A i \in 1..Len(u) : u[i] = R(Len(q)) + i
      /\ Len(q) \in Nat /\ Len(u) \in Nat /\ Len(w) \in Nat /\ Len(j) \in Nat
  BY DEF InOneRow, Span
<1>3. R(Len(q)) \in Int
  <2>1. CASE Len(q) = 0
    BY <1>2, <2>1 DEF Reach
  <2>2. CASE Len(q) # 0
    <3>1. q[Len(q)] \in Seq(Nat) /\ q[Len(q)] # <<>>
      BY <1>2, <2>2 DEF CloseMark
    <3> QED BY <1>2, <2>2, <3>1 DEF Reach, Last, CloseMark
  <2> QED BY <2>1, <2>2
<1> HIDE DEF R, S
<1>4. Len(Append(u, n + 1)) = Len(u) + 1
  OBVIOUS
<1>5. \A i \in 1..Len(u) + 1 : Append(u, n + 1)[i] = IF i = Len(u) + 1 THEN n + 1 ELSE u[i]
  BY <1>2
<1>6. Span(Append(u, n + 1), S(Len(q)), n + 1)
  <2>1. S(Len(q)) = R(Len(q)) /\ R(Len(q)) = n - Len(u)
    BY <1>1, <1>2, <1>3
  <2>2. \A i \in 1..Len(u) + 1 : Append(u, n + 1)[i] = n - Len(u) + i
    BY <1>2, <1>5, <2>1
  <2> QED BY <1>2, <1>4, <2>1, <2>2 DEF Span
<1>7. \A i \in 1..Len(q) : S(i) = R(i) /\ S(i - 1) = R(i - 1)
  BY <1>1, <1>2
<1>8. Span(w, 0, Len(w)) /\ Span(j, Len(w), S(0)) /\ \A i \in 1..Len(q) : Span(q[i], S(i - 1), S(i))
  BY <1>1, <1>2, <1>7 DEF InOneRow, R
<1> QED BY <1>6, <1>8 DEF InOneRow, S

\* drain() and close(): all that is unclaimed becomes the last job.
LEMMA RowQueues ==
    ASSUME NEW w \in Seq(Nat), NEW j \in Seq(Nat), NEW q \in Seq(Seq(Nat)), NEW u \in Seq(Nat),
           NEW n \in Nat, InOneRow(w, j, q, u, n), u # <<>>
    PROVE  InOneRow(w, j, Append(q, u), <<>>, n) /\ Last(u) = n
<1> DEFINE R(i) == Reach(w, j, q, n, i)
           S(i) == Reach(w, j, Append(q, u), n, i)
<1>1. /\ Len(q) \in Nat /\ Len(u) \in Nat /\ Len(u) # 0 /\ Len(Append(q, u)) = Len(q) + 1
      /\ \A i \in 1..Len(q) : Append(q, u)[i] = q[i]
      /\ Append(q, u)[Len(q) + 1] = u
  OBVIOUS
<1>2. \A i \in 0..Len(q) : S(i) = R(i)
  BY <1>1 DEF Reach
<1>3. Span(u, R(Len(q)), n)
  BY DEF InOneRow
<1>4. Last(u) = n
  <2>1. u[Len(u)] = R(Len(q)) + Len(u) /\ Len(u) = n - R(Len(q))
    BY <1>1, <1>3 DEF Span
  <2>2. u[Len(u)] \in Nat
    BY <1>1
  <2>3. R(Len(q)) \in Int
    <3>1. CASE Len(q) = 0
      BY <3>1 DEF Reach
    <3>2. CASE Len(q) # 0 /\ q[Len(q)] = CloseMark
      BY <1>1, <3>2 DEF Reach
    <3>3. CASE Len(q) # 0 /\ q[Len(q)] # CloseMark
      <4>1. q[Len(q)] \in Seq(Nat)
        BY <1>1, <3>3
      <4> QED BY <1>1, <3>3, <4>1 DEF Reach, Last, CloseMark
    <3> QED BY <3>1, <3>2, <3>3
  <2> HIDE DEF R
  <2> QED BY <1>1, <2>1, <2>2, <2>3 DEF Last
<1>5. S(Len(q) + 1) = n
  BY <1>1, <1>4 DEF Reach, CloseMark
<1>6. Span(w, 0, Len(w)) /\ Span(j, Len(w), S(0))
      /\ \A i \in 1..Len(q) : Span(q[i], S(i - 1), S(i))
  <2>1. Span(w, 0, Len(w)) /\ Span(j, Len(w), R(0))
        /\ \A i \in 1..Len(q) : Span(q[i], R(i - 1), R(i))
    BY DEF InOneRow
  <2>2. 0 \in 0..Len(q) /\ \A i \in 1..Len(q) : i \in 0..Len(q) /\ i - 1 \in 0..Len(q)
    BY <1>1
  <2> HIDE DEF R, S
  <2>3. S(0) = R(0) /\ \A i \in 1..Len(q) : S(i) = R(i) /\ S(i - 1) = R(i - 1)
    BY <1>2, <2>2
  <2> QED BY <2>1, <2>3
<1> HIDE DEF R, S
<1>7. \A i \in 1..Len(q) + 1 : Span(Append(q, u)[i], S(i - 1), S(i))
  <2>1. Len(q) + 1 - 1 = Len(q) /\ Len(q) \in 0..Len(q)
    BY <1>1
  <2>2. S(Len(q)) = R(Len(q))
    BY <1>2, <2>1
  <2>3. Span(u, S(Len(q)), S(Len(q) + 1))
    BY <1>3, <1>5, <2>2
  <2> DEFINE m == Len(q)
  <2>4. m \in Nat
    OBVIOUS
  <2> HIDE DEF m
  <2>5. \A i \in 1..m + 1 : i \in 1..m \/ i = m + 1
    BY <2>4
  <2> QED BY <1>1, <1>6, <2>1, <2>3, <2>5 DEF m
<1>8. Span(<<>>, S(Len(q) + 1), n)
  BY <1>5 DEF Span
<1> QED BY <1>1, <1>4, <1>6, <1>7, <1>8 DEF InOneRow, S

\* close(): the sentinel, when nothing is left unclaimed.
LEMMA RowMarked ==
    ASSUME NEW w \in Seq(Nat), NEW j \in Seq(Nat), NEW q \in Seq(Seq(Nat)), NEW n \in Nat,
           InOneRow(w, j, q, <<>>, n)
    PROVE  InOneRow(w, j, Append(q, CloseMark), <<>>, n)
<1> DEFINE R(i) == Reach(w, j, q, n, i)
           S(i) == Reach(w, j, Append(q, CloseMark), n, i)
<1>1. /\ Len(q) \in Nat /\ Len(Append(q, CloseMark)) = Len(q) + 1
      /\ \A i \in 1..Len(q) : Append(q, CloseMark)[i] = q[i]
      /\ Append(q, CloseMark)[Len(q) + 1] = CloseMark
  BY DEF CloseMark
<1>2. \A i \in 0..Len(q) : S(i) = R(i)
  BY <1>1 DEF Reach
<1>3. S(Len(q) + 1) = n
  BY <1>1 DEF Reach
<1>4. Span(<<>>, R(Len(q)), n)
  BY DEF InOneRow
<1>5. Span(w, 0, Len(w)) /\ Span(j, Len(w), S(0))
      /\ \A i \in 1..Len(q) : Span(q[i], S(i - 1), S(i))
  <2>1. Span(w, 0, Len(w)) /\ Span(j, Len(w), R(0))
        /\ \A i \in 1..Len(q) : Span(q[i], R(i - 1), R(i))
    BY DEF InOneRow
  <2>2. 0 \in 0..Len(q) /\ \A i \in 1..Len(q) : i \in 0..Len(q) /\ i - 1 \in 0..Len(q)
    BY <1>1
  <2> HIDE DEF R, S
  <2>3. S(0) = R(0) /\ \A i \in 1..Len(q) : S(i) = R(i) /\ S(i - 1) = R(i - 1)
    BY <1>2, <2>2
  <2> QED BY <2>1, <2>3
<1> HIDE DEF R, S
<1>6. \A i \in 1..Len(q) + 1 : Span(Append(q, CloseMark)[i], S(i - 1), S(i))
  <2>1. Span(CloseMark, S(Len(q)), S(Len(q) + 1)) /\ Len(q) + 1 - 1 = Len(q)
    BY <1>1, <1>2, <1>3, <1>4 DEF CloseMark
  <2>2. \A i \in 1..Len(q) + 1 : i \in 1..Len(q) \/ i = Len(q) + 1
    BY <1>1
  <2> QED BY <1>1, <1>5, <2>1, <2>2
<1>7. Span(<<>>, S(Len(q) + 1), n)
  BY <1>3 DEF Span
<1> QED BY <1>1, <1>5, <1>6, <1>7 DEF InOneRow, S

\* The worker takes the first job.
LEMMA RowTaken ==
    ASSUME NEW w \in Seq(Nat), NEW q \in Seq(Seq(Nat)), NEW u \in Seq(Nat), NEW n \in Nat,
           InOneRow(w, <<>>, q, u, n), q # <<>>, Head(q) # CloseMark
    PROVE  InOneRow(w, Head(q), Tail(q), u, n)
<1> DEFINE R(i) == Reach(w, <<>>, q, n, i)
           S(i) == Reach(w, Head(q), Tail(q), n, i)
<1>1. /\ Len(q) \in Nat \ {0} /\ Len(Tail(q)) = Len(q) - 1 /\ Head(q) = q[1] /\ q[1] \in Seq(Nat)
      /\ \A i \in 1..Len(Tail(q)) : Tail(q)[i] = q[i + 1]
  OBVIOUS
<1>2. /\ Span(w, 0, Len(w)) /\ \A i \in 1..Len(q) : Span(q[i], R(i - 1), R(i))
      /\ Span(u, R(Len(q)), n) /\ Len(w) \in Nat
  BY DEF InOneRow
<1>3. R(0) = Len(w) /\ R(1) = Last(q[1]) /\ S(0) = Len(w) + Len(q[1])
  BY <1>1, <1>2 DEF Reach
<1>4. \A i \in 1..Len(q) - 1 : S(i) = R(i + 1)
  BY <1>1 DEF Reach
<1> HIDE DEF R, S
<1>5. 1 \in 1..Len(q) /\ 1 - 1 = 0 /\ Len(q[1]) \in Nat /\ Len(q[1]) # 0
  BY <1>1 DEF CloseMark
<1>6. Span(q[1], Len(w), R(1))
  BY <1>2, <1>3, <1>5
<1>7. S(0) = R(1)
  <2> Len(q[1]) \in 1..Len(q[1])
    BY <1>5
  <2>1. q[1][Len(q[1])] = Len(w) + Len(q[1])
    BY <1>6 DEF Span
  <2> QED BY <1>3, <2>1 DEF Last
<1>8. Span(Head(q), Len(w), S(0))
  BY <1>1, <1>6, <1>7
<1>9. \A i \in 0..Len(q) - 1 : S(i) = R(i + 1)
  <2>1. \A i \in 0..Len(q) - 1 : i = 0 \/ i \in 1..Len(q) - 1
    BY <1>1
  <2>2. 0 + 1 = 1
    OBVIOUS
  <2> QED BY <1>4, <1>7, <2>1, <2>2
<1>10. \A i \in 1..Len(Tail(q)) : Span(Tail(q)[i], S(i - 1), S(i))
  <2> SUFFICES ASSUME NEW i \in 1..Len(Tail(q)) PROVE Span(Tail(q)[i], S(i - 1), S(i))
    OBVIOUS
  <2>1. /\ i + 1 \in 1..Len(q) /\ i - 1 \in 0..Len(q) - 1 /\ i \in 0..Len(q) - 1
        /\ (i - 1) + 1 = i /\ (i + 1) - 1 = i
    BY <1>1
  <2>2. S(i - 1) = R(i) /\ S(i) = R(i + 1)
    BY <1>9, <2>1
  <2>3. Span(q[i + 1], R(i), R(i + 1))
    BY <1>2, <2>1
  <2> QED BY <1>1, <2>2, <2>3
<1>11. Span(u, S(Len(Tail(q))), n)
  <2>1. Len(Tail(q)) \in 0..Len(q) - 1 /\ Len(Tail(q)) + 1 = Len(q)
    BY <1>1
  <2> QED BY <1>2, <1>9, <2>1
<1> QED BY <1>2, <1>8, <1>10, <1>11 DEF InOneRow, S

\* The worker has written its job.
LEMMA RowWritten ==
    ASSUME NEW w \in Seq(Nat), NEW j \in Seq(Nat), NEW q \in Seq(Seq(Nat)), NEW u \in Seq(Nat),
           NEW n \in Nat, InOneRow(w, j, q, u, n)
    PROVE  /\ InOneRow(w \o j, <<>>, q, u, n) /\ Len(w \o j) = Len(w) + Len(j)
           /\ \A i \in 1..Len(w) + Len(j) : (w \o j)[i] = i
<1> DEFINE R(i) == Reach(w, j, q, n, i)
           S(i) == Reach(w \o j, <<>>, q, n, i)
<1>1. /\ Len(w) \in Nat /\ Len(j) \in Nat /\ Len(w \o j) = Len(w) + Len(j) /\ Len(q) \in Nat
      /\ \A i \in 1..Len(w) + Len(j) : (w \o j)[i] = IF i <= Len(w) THEN w[i] ELSE j[i - Len(w)]
  BY ConcatProperties
<1>2. S(0) = R(0) /\ S(0) = Len(w) + Len(j) /\ \A i \in 1..Len(q) : S(i) = R(i)
  BY <1>1 DEF Reach
<1>3. /\ Span(w, 0, Len(w)) /\ Span(j, Len(w), R(0))
      /\ Span(u, R(Len(q)), n) /\ \A i \in 1..Len(q) : Span(q[i], R(i - 1), R(i))
  BY DEF InOneRow
<1> HIDE DEF R, S
<1>4. (\A i \in 1..Len(w) : w[i] = i) /\ \A i \in 1..Len(j) : j[i] = Len(w) + i
  <2>1. (\A i \in 1..Len(w) : w[i] = 0 + i) /\ \A i \in 1..Len(j) : j[i] = Len(w) + i
    BY <1>3 DEF Span
  <2>2. \A i \in 1..Len(w) : 0 + i = i
    BY <1>1
  <2> QED BY <2>1, <2>2
<1>5. \A i \in 1..Len(w) + Len(j) : (w \o j)[i] = i
  <2> SUFFICES ASSUME NEW i \in 1..Len(w) + Len(j) PROVE (w \o j)[i] = i
    OBVIOUS
  <2>1. CASE i <= Len(w)
    BY <1>1, <1>4, <2>1
  <2>2. CASE ~(i <= Len(w))
    <3>1. i - Len(w) \in 1..Len(j)
      BY <1>1, <2>2
    <3>2. j[i - Len(w)] = Len(w) + (i - Len(w))
      BY <1>4, <3>1
    <3> QED BY <1>1, <2>2, <3>1, <3>2
  <2> QED BY <2>1, <2>2
<1>6. Span(w \o j, 0, Len(w \o j)) /\ Span(<<>>, Len(w \o j), S(0))
  BY <1>1, <1>2, <1>5 DEF Span
<1>7. \A i \in 0..Len(q) : S(i) = R(i)
  <2>1. \A i \in 0..Len(q) : i = 0 \/ i \in 1..Len(q)
    BY <1>1
  <2> QED BY <1>2, <2>1
<1>8. \A i \in 1..Len(q) : i \in 0..Len(q) /\ i - 1 \in 0..Len(q)
  BY <1>1
<1>9. \A i \in 1..Len(q) : Span(q[i], S(i - 1), S(i))
  BY <1>3, <1>7, <1>8
<1>10. Span(u, S(Len(q)), n)
  <2>1. Len(q) \in 0..Len(q) /\ Span(u, R(Len(q)), n)
    BY <1>1, <1>3
  <2> QED BY <1>7, <2>1
<1> QED BY <1>1, <1>5, <1>6, <1>9, <1>10 DEF InOneRow, S

\* Frames are numbers.
LEMMA WriterSequences ==
    ASSUME WriterTypeOK
    PROVE  /\ wire \in Seq(Nat) /\ job \in Seq(Nat) /\ jobs \in Seq(Seq(Nat)) /\ unclaimed \in Seq(Nat)
           /\ accepted \in Nat /\ Frames \subseteq Nat
<1>1. Frames \subseteq Nat /\ Torn \in Nat /\ accepted \in Nat
  BY WriterConstants DEF WriterTypeOK, Frames, Torn
<1>2. Frames \cup {Torn} \subseteq Nat /\ Seq(Frames) \subseteq Seq(Nat)
  BY <1>1, SeqMonotonic
<1>3. wire \in Seq(Nat)
  BY <1>2, SeqMonotonic DEF WriterTypeOK
<1>4. jobs \in Seq(Seq(Nat))
  BY <1>2, SeqMonotonic DEF WriterTypeOK
<1> QED BY <1>1, <1>2, <1>3, <1>4 DEF WriterTypeOK

\* At the start there are no frames.
LEMMA WriterStarts == WriterInit => WriterInv
<1> SUFFICES ASSUME WriterInit PROVE WriterInv
  OBVIOUS
<1>1. WriterTypeOK
  <2>1. 0 \in 0..MaxFrames
    BY WriterConstants
  <2> QED BY <2>1, EmptySeq DEF WriterInit, WriterTypeOK
<1>2. InOneRow(wire, job, jobs, unclaimed, accepted)
  BY DEF WriterInit, InOneRow, Reach, Span
<1> QED BY <1>1, <1>2 DEF WriterInit, WriterInv, FramesConserved, WorkerHolds, MarkLast

\* write()
LEMMA WriteKeeps == ASSUME WriterInv, Write PROVE WriterInv'
<1>1. WriterTypeOK /\ wire \in Seq(Nat) /\ job \in Seq(Nat) /\ jobs \in Seq(Seq(Nat))
      /\ unclaimed \in Seq(Nat) /\ accepted \in Nat
  BY WriterSequences DEF WriterInv, FramesConserved
<1>2. /\ ~terminal /\ ~closing /\ accepted' = accepted + 1
      /\ unclaimed' = Append(unclaimed, accepted + 1)
      /\ UNCHANGED <<jobs, drains, closing, terminal, drainFut, waits, worker, job, wire>>
  BY DEF Write
<1>3. WriterTypeOK'
  <2>1. accepted + 1 \in Frames /\ accepted' \in 0..MaxFrames
    BY <1>1, <1>2, WriterConstants DEF Write, Frames
  <2> QED BY <1>1, <1>2, <2>1 DEF WriterTypeOK
<1>4. worker # "latch" => InOneRow(wire, job, jobs, unclaimed, accepted)'
  <2>1. worker \in {"get", "write"} \/ worker = "latch"
    BY <1>1, <1>2 DEF WriterInv, WorkerHolds, WriterTypeOK
  <2>2. worker # "latch" => \A i \in 1..Len(jobs) : jobs[i] # CloseMark
    BY <1>2, <2>1 DEF WriterInv, MarkLast
  <2>3. worker # "latch" => InOneRow(wire, job, jobs, Append(unclaimed, accepted + 1), accepted + 1)
    BY <1>1, <1>2, <2>2, RowGrows DEF WriterInv, FramesConserved
  <2> QED BY <1>2, <2>3
<1>5. WorkerHolds' /\ MarkLast'
  BY <1>2 DEF WriterInv, WorkerHolds, MarkLast
<1>6. worker # "ended"
  BY <1>2 DEF WriterInv, WorkerHolds
<1> QED BY <1>2, <1>3, <1>4, <1>5, <1>6 DEF WriterInv, FramesConserved

\* drain()
LEMMA DrainKeeps == ASSUME WriterInv, NEW s \in Senders, Drain(s) PROVE WriterInv'
<1> DEFINE c == Last(unclaimed)
<1>1. WriterTypeOK /\ wire \in Seq(Nat) /\ job \in Seq(Nat) /\ jobs \in Seq(Seq(Nat))
      /\ unclaimed \in Seq(Nat) /\ accepted \in Nat /\ Frames \subseteq Nat
  BY WriterSequences DEF WriterInv, FramesConserved
<1>2. /\ ~terminal /\ ~closing /\ unclaimed # <<>>
      /\ drains' = drains \cup {c} /\ drainFut' = [drainFut EXCEPT ![c] = "open"]
      /\ waits' = [waits EXCEPT ![s] = c]
      /\ jobs' = Append(jobs, unclaimed) /\ unclaimed' = <<>>
      /\ UNCHANGED <<accepted, closing, terminal, worker, job, wire>>
  BY DEF Drain
<1>3. c \in Frames
  BY <1>1, <1>2 DEF WriterTypeOK, Last
<1> HIDE DEF c
<1>4. WriterTypeOK'
  <2>1. c \in 0..MaxFrames
    BY <1>3, WriterConstants DEF Frames
  <2>2. jobs' \in Seq(Seq(Frames)) /\ unclaimed' \in Seq(Frames)
    BY <1>1, <1>2 DEF WriterTypeOK
  <2> QED BY <1>1, <1>2, <1>3, <2>1, <2>2 DEF WriterTypeOK
<1>5. worker # "latch" => InOneRow(wire, job, jobs, unclaimed, accepted)'
  <2>1. worker # "latch" => InOneRow(wire, job, Append(jobs, unclaimed), <<>>, accepted)
    BY <1>1, <1>2, RowQueues DEF WriterInv, FramesConserved
  <2> QED BY <1>2, <2>1
<1>6. WorkerHolds' /\ worker # "ended"
  BY <1>2 DEF WriterInv, WorkerHolds
<1>7. MarkLast'
  <2>1. /\ Len(jobs) \in Nat /\ Len(Append(jobs, unclaimed)) = Len(jobs) + 1
        /\ \A i \in 1..Len(jobs) : Append(jobs, unclaimed)[i] = jobs[i]
        /\ Append(jobs, unclaimed)[Len(jobs) + 1] = unclaimed
    BY <1>1
  <2>2. \A i \in 1..Len(jobs) + 1 : i \in 1..Len(jobs) \/ i = Len(jobs) + 1
    BY <2>1
  <2>3. worker \in {"get", "write"} =>
           \A i \in 1..Len(jobs) + 1 : Append(jobs, unclaimed)[i] # CloseMark
    BY <1>2, <2>1, <2>2 DEF WriterInv, MarkLast, CloseMark
  <2> QED BY <1>2, <2>1, <2>3 DEF MarkLast
<1>8. \A f \in Frames : drainFut'[f] = "done" => f <= Len(wire) /\ wire[f] = f
  BY <1>1, <1>2, <1>3 DEF WriterInv, FramesConserved, WriterTypeOK
<1> QED BY <1>2, <1>4, <1>5, <1>6, <1>7, <1>8 DEF WriterInv, FramesConserved

\* The senders' waits are not part of the row.
LEMMA WaitsKeep ==
    ASSUME WriterInv, NEW s \in Senders, DrainEnds(s) \/ CancelDrain(s) PROVE WriterInv'
<1>1. waits' = [waits EXCEPT ![s] = 0] /\ 0 \in 0..MaxFrames
      /\ UNCHANGED <<accepted, unclaimed, jobs, drains, closing, terminal, drainFut, worker, job, wire>>
  BY WriterConstants DEF DrainEnds, CancelDrain
<1>2. WriterTypeOK'
  BY <1>1 DEF WriterInv, FramesConserved, WriterTypeOK
<1> QED BY <1>1, <1>2 DEF WriterInv, FramesConserved, WorkerHolds, MarkLast

\* close()
LEMMA CloseKeeps == ASSUME WriterInv, CloseWriter PROVE WriterInv'
<1> DEFINE q == IF unclaimed = <<>> THEN jobs ELSE Append(jobs, unclaimed)
<1>1. WriterTypeOK /\ wire \in Seq(Nat) /\ job \in Seq(Nat) /\ jobs \in Seq(Seq(Nat))
      /\ unclaimed \in Seq(Nat) /\ accepted \in Nat
  BY WriterSequences DEF WriterInv, FramesConserved
<1>2. /\ ~terminal /\ ~closing /\ closing' = TRUE /\ jobs' = Append(q, CloseMark)
      /\ unclaimed' = <<>>
      /\ UNCHANGED <<accepted, drains, terminal, drainFut, waits, worker, job, wire>>
  BY DEF CloseWriter
<1>3. q \in Seq(Seq(Nat)) /\ q \in Seq(Seq(Frames)) /\ CloseMark \in Seq(Frames)
  BY <1>1 DEF WriterTypeOK, CloseMark
<1>4. WriterTypeOK'
  <2>1. jobs' \in Seq(Seq(Frames)) /\ unclaimed' \in Seq(Frames)
    BY <1>2, <1>3
  <2> QED BY <1>1, <1>2, <2>1 DEF WriterTypeOK
<1>5. worker # "latch" => InOneRow(wire, job, q, <<>>, accepted)
  <2>1. CASE unclaimed = <<>>
    BY <1>2, <2>1 DEF WriterInv, FramesConserved
  <2>2. CASE unclaimed # <<>>
    BY <1>1, <1>2, <2>2, RowQueues DEF WriterInv, FramesConserved
  <2> QED BY <2>1, <2>2
<1>6. worker # "latch" => InOneRow(wire, job, jobs, unclaimed, accepted)'
  <2>1. worker # "latch" => InOneRow(wire, job, Append(q, CloseMark), <<>>, accepted)
    BY <1>1, <1>3, <1>5, RowMarked
  <2> QED BY <1>2, <2>1
<1>7. WorkerHolds' /\ worker # "ended"
  BY <1>2 DEF WriterInv, WorkerHolds
<1>8. worker \in {"get", "write"} => \A i \in 1..Len(q) : q[i] # CloseMark
  <2>1. CASE unclaimed = <<>>
    BY <1>2, <2>1 DEF WriterInv, MarkLast
  <2>2. CASE unclaimed # <<>>
    <3>1. /\ Len(jobs) \in Nat /\ Len(Append(jobs, unclaimed)) = Len(jobs) + 1
          /\ \A i \in 1..Len(jobs) : Append(jobs, unclaimed)[i] = jobs[i]
          /\ Append(jobs, unclaimed)[Len(jobs) + 1] = unclaimed
      BY <1>1
    <3>2. \A i \in 1..Len(jobs) + 1 : i \in 1..Len(jobs) \/ i = Len(jobs) + 1
      BY <3>1
    <3> QED BY <1>2, <2>2, <3>1, <3>2 DEF WriterInv, MarkLast, CloseMark
  <2> QED BY <2>1, <2>2
<1> HIDE DEF q
<1>9. MarkLast'
  <2>1. /\ Len(q) \in Nat /\ Len(Append(q, CloseMark)) = Len(q) + 1
        /\ \A i \in 1..Len(q) : Append(q, CloseMark)[i] = q[i]
        /\ Append(q, CloseMark)[Len(q) + 1] = CloseMark
    BY <1>3 DEF CloseMark
  <2>2. \A i \in 1..Len(q) + 1 : (i \in 1..Len(q) /\ i # Len(q) + 1) \/ i = Len(q) + 1
    BY <2>1
  <2>3. worker \in {"get", "write"} =>
           \A i \in 1..Len(q) + 1 : Append(q, CloseMark)[i] = CloseMark <=> i = Len(q) + 1
    BY <1>8, <2>1, <2>2
  <2>4. jobs' # <<>>
    BY <1>2, <2>1
  <2> QED BY <1>2, <2>1, <2>3, <2>4 DEF MarkLast
<1> QED BY <1>2, <1>4, <1>6, <1>7, <1>9 DEF WriterInv, FramesConserved

\* The worker takes a job, or ends with the sentinel.
LEMMA TakeJobKeeps == ASSUME WriterInv, TakeJob PROVE WriterInv'
<1>1. WriterTypeOK /\ wire \in Seq(Nat) /\ job \in Seq(Nat) /\ jobs \in Seq(Seq(Nat))
      /\ unclaimed \in Seq(Nat) /\ accepted \in Nat
  BY WriterSequences DEF WriterInv, FramesConserved
<1>2. /\ worker = "get" /\ jobs # <<>> /\ jobs' = Tail(jobs) /\ job' = Head(jobs)
      /\ worker' = IF Head(jobs) = CloseMark THEN "ended" ELSE "write"
      /\ UNCHANGED <<accepted, unclaimed, drains, closing, terminal, drainFut, waits, wire>>
  BY DEF TakeJob
<1>3. /\ Len(jobs) \in Nat \ {0} /\ Len(Tail(jobs)) = Len(jobs) - 1 /\ Head(jobs) = jobs[1]
      /\ \A i \in 1..Len(Tail(jobs)) : Tail(jobs)[i] = jobs[i + 1]
  BY <1>1, <1>2
<1>4. WriterTypeOK'
  <2>1. jobs' \in Seq(Seq(Frames)) /\ job' \in Seq(Frames)
    BY <1>1, <1>2, HeadTailProperties DEF WriterTypeOK
  <2> QED BY <1>1, <1>2, <2>1 DEF WriterTypeOK
<1>5. ~terminal /\ job = <<>> /\ InOneRow(wire, <<>>, jobs, unclaimed, accepted)
  BY <1>2 DEF WriterInv, WorkerHolds, FramesConserved
<1>6. \A i \in 1..Len(jobs) : jobs[i] = CloseMark <=> closing /\ i = Len(jobs)
  BY <1>2 DEF WriterInv, MarkLast
<1>7. \A f \in Frames : drainFut'[f] = "done" => f <= Len(wire') /\ wire'[f] = f
  BY <1>2 DEF WriterInv, FramesConserved
<1>8. \A i \in DOMAIN wire' : wire'[i] = i \/ (wire'[i] = Torn /\ i = Len(wire'))
  BY <1>2 DEF WriterInv, FramesConserved
<1>9. CASE Head(jobs) = CloseMark
  <2>1. closing /\ Len(jobs) = 1 /\ unclaimed = <<>>
    <3>1. 1 \in 1..Len(jobs) /\ jobs[1] = CloseMark
      BY <1>3, <1>9
    <3> QED BY <1>6, <3>1 DEF WriterInv, MarkLast
  <2>2. jobs' = <<>> /\ job' = <<>> /\ worker' = "ended" /\ unclaimed' = <<>>
    <3>1. Len(Tail(jobs)) = 0 /\ Tail(jobs) \in Seq(Seq(Nat))
      BY <1>1, <1>2, <1>3, <2>1, HeadTailProperties
    <3>2. Tail(jobs) = <<>>
      BY <3>1, EmptySeq
    <3> QED BY <1>2, <1>9, <2>1, <3>2 DEF CloseMark
  <2>3. Len(wire) = accepted /\ Span(wire, 0, Len(wire)) /\ Len(wire) \in Nat
    <3>1. Len(wire) \in Nat /\ Span(<<>>, Reach(wire, <<>>, jobs, accepted, 1), accepted)
      BY <1>1, <1>5, <2>1 DEF InOneRow
    <3>2. Span(jobs[1], Reach(wire, <<>>, jobs, accepted, 0), Reach(wire, <<>>, jobs, accepted, 1))
      <4>1. 1 \in 1..Len(jobs) /\ 1 - 1 = 0
        BY <1>3
      <4> QED BY <1>5, <4>1 DEF InOneRow
    <3>3. Reach(wire, <<>>, jobs, accepted, 0) = Len(wire)
      BY <1>1 DEF Reach
    <3>4. Reach(wire, <<>>, jobs, accepted, 1) = accepted
      BY <1>3, <1>9 DEF Reach
    <3>5. Len(jobs[1]) = 0
      BY <1>3, <1>9 DEF CloseMark
    <3>6. 0 = accepted - Len(wire)
      BY <3>2, <3>3, <3>4, <3>5 DEF Span
    <3> QED BY <1>1, <1>5, <3>1, <3>6 DEF InOneRow
  <2>4. InOneRow(wire, <<>>, <<>>, <<>>, accepted)
    BY <1>1, <2>3 DEF InOneRow, Reach, Span
  <2>5. InOneRow(wire, job, jobs, unclaimed, accepted)'
    BY <1>2, <2>2, <2>4
  <2>6. WorkerHolds' /\ MarkLast'
    BY <1>2, <1>5, <2>1, <2>2 DEF WorkerHolds, MarkLast
  <2> QED BY <1>2, <1>4, <1>7, <1>8, <2>3, <2>5, <2>6 DEF WriterInv, FramesConserved
<1>10. CASE Head(jobs) # CloseMark
  <2>1. InOneRow(wire, Head(jobs), Tail(jobs), unclaimed, accepted)
    BY <1>1, <1>2, <1>5, <1>10, RowTaken
  <2>2. InOneRow(wire, job, jobs, unclaimed, accepted)'
    BY <1>2, <2>1
  <2>3. worker' = "write" /\ job' # <<>>
    BY <1>2, <1>10 DEF CloseMark
  <2>4. WorkerHolds'
    BY <1>2, <1>5, <2>3 DEF WorkerHolds
  <2>5. closing => Len(jobs) # 1
    BY <1>3, <1>6, <1>10
  <2>6. MarkLast'
    <3>1. \A i \in 1..Len(Tail(jobs)) : /\ i + 1 \in 1..Len(jobs)
                                        /\ i + 1 = Len(jobs) <=> i = Len(Tail(jobs))
      BY <1>3
    <3>2. \A i \in 1..Len(Tail(jobs)) : Tail(jobs)[i] = CloseMark <=> closing /\ i = Len(Tail(jobs))
      BY <1>3, <1>6, <3>1
    <3>3. closing => Tail(jobs) # <<>>
      <4>1. closing => Len(Tail(jobs)) # 0
        BY <1>3, <2>5
      <4>2. Len(<<>>) = 0
        OBVIOUS
      <4> QED BY <4>1, <4>2
    <3> QED BY <1>2, <2>3, <3>2, <3>3 DEF WriterInv, MarkLast
  <2> QED BY <1>2, <1>4, <1>7, <1>8, <2>2, <2>3, <2>4, <2>6 DEF WriterInv, FramesConserved
<1> QED BY <1>9, <1>10

\* The job reaches the wire and its drain is answered.
LEMMA WriteSucceedsKeeps == ASSUME WriterInv, WriteSucceeds PROVE WriterInv'
<1> DEFINE c == Last(job)
<1>1. WriterTypeOK /\ wire \in Seq(Nat) /\ job \in Seq(Nat) /\ jobs \in Seq(Seq(Nat))
      /\ unclaimed \in Seq(Nat) /\ accepted \in Nat /\ Frames \subseteq Nat
  BY WriterSequences DEF WriterInv, FramesConserved
<1>2. /\ worker = "write" /\ wire' = wire \o job /\ drains' = drains \ {c}
      /\ drainFut' = [drainFut EXCEPT ![c] = IF drainFut[c] = "open" THEN "done" ELSE drainFut[c]]
      /\ job' = <<>> /\ worker' = "get"
      /\ UNCHANGED <<accepted, unclaimed, jobs, closing, terminal, waits>>
  BY DEF WriteSucceeds
<1>3. ~terminal /\ job # <<>> /\ InOneRow(wire, job, jobs, unclaimed, accepted)
  BY <1>2 DEF WriterInv, WorkerHolds, FramesConserved
<1>4. /\ InOneRow(wire \o job, <<>>, jobs, unclaimed, accepted)
      /\ Len(wire \o job) = Len(wire) + Len(job)
      /\ \A i \in 1..Len(wire) + Len(job) : (wire \o job)[i] = i
  BY <1>1, <1>3, RowWritten
<1>5. /\ Len(wire) \in Nat /\ Len(job) \in Nat \ {0} /\ c \in Frames
      /\ c = Len(wire) + Len(job)
  <2>1. Len(wire) \in Nat /\ Len(job) \in Nat \ {0} /\ c \in Frames
    BY <1>1, <1>3 DEF WriterTypeOK, Last
  <2>2. Span(job, Len(wire), Reach(wire, job, jobs, accepted, 0))
    BY <1>3 DEF InOneRow
  <2>3. Len(job) \in 1..Len(job)
    BY <2>1
  <2>4. job[Len(job)] = Len(wire) + Len(job)
    BY <2>2, <2>3 DEF Span
  <2> QED BY <2>1, <2>4 DEF Last
<1> HIDE DEF c
<1>6. WriterTypeOK'
  <2>1. wire' \in Seq(Frames \cup {Torn}) /\ job' \in Seq(Frames)
    <3>1. job \in Seq(Frames \cup {Torn})
      BY <1>1, SeqMonotonic DEF WriterTypeOK
    <3> QED BY <1>1, <1>2, <3>1, ConcatProperties, EmptySeq DEF WriterTypeOK
  <2>2. drainFut' \in [Frames -> {"unused", "open", "done", "failed"}]
    BY <1>1, <1>2, <1>5 DEF WriterTypeOK
  <2> QED BY <1>1, <1>2, <2>1, <2>2 DEF WriterTypeOK
<1>7. InOneRow(wire, job, jobs, unclaimed, accepted)'
  BY <1>2, <1>4
<1>8. \A i \in DOMAIN wire' : wire'[i] = i
  <2>1. DOMAIN (wire \o job) = 1..Len(wire) + Len(job)
    BY <1>1, <1>4, ConcatProperties, LenProperties
  <2> QED BY <1>2, <1>4, <2>1
<1>9. \A f \in Frames : drainFut'[f] = "done" => f <= Len(wire') /\ wire'[f] = f
  <2> SUFFICES ASSUME NEW f \in Frames, drainFut'[f] = "done"
               PROVE  f <= Len(wire') /\ wire'[f] = f
    OBVIOUS
  <2>1. f \in 1..Len(wire) + Len(job)
    <3>1. CASE f = c
      BY <1>5, <3>1
    <3>2. CASE f # c
      <4>1. drainFut[f] = "done"
        BY <1>1, <1>2, <3>2 DEF WriterTypeOK
      <4>2. f <= Len(wire)
        BY <4>1 DEF WriterInv, FramesConserved
      <4>3. f \in Nat /\ f >= 1
        BY WriterConstants DEF Frames
      <4> QED BY <1>5, <4>2, <4>3
    <3> QED BY <3>1, <3>2
  <2> QED BY <1>2, <1>4, <1>5, <2>1
<1>10. WorkerHolds' /\ MarkLast'
  BY <1>2, <1>3 DEF WriterInv, WorkerHolds, MarkLast
<1> QED BY <1>2, <1>6, <1>7, <1>8, <1>9, <1>10 DEF WriterInv, FramesConserved

\* The stream raises within the job: what reached the wire is a prefix, perhaps cut short.
LEMMA WriteFailsKeeps == ASSUME WriterInv, WriteFails PROVE WriterInv'
<1>1. WriterTypeOK /\ wire \in Seq(Nat) /\ job \in Seq(Nat) /\ jobs \in Seq(Seq(Nat))
      /\ unclaimed \in Seq(Nat) /\ accepted \in Nat /\ Frames \subseteq Nat
  BY WriterSequences DEF WriterInv, FramesConserved
<1>2. PICK n \in 0..Len(job), cut \in {<<>>, <<Torn>>} :
          /\ n = Len(job) => cut = <<>>
          /\ wire' = wire \o SubSeq(job, 1, n) \o cut
  BY DEF WriteFails
<1>3. /\ worker = "write" /\ job' = <<>> /\ worker' = "latch"
      /\ UNCHANGED <<accepted, unclaimed, jobs, drains, closing, terminal, drainFut, waits>>
  BY DEF WriteFails
<1>4. ~terminal /\ job # <<>> /\ InOneRow(wire, job, jobs, unclaimed, accepted)
  BY <1>3 DEF WriterInv, WorkerHolds, FramesConserved
<1> DEFINE F == Frames \cup {Torn}
           part == SubSeq(job, 1, n)
           whole == wire \o part
<1>5. wire \in Seq(F) /\ part \in Seq(F) /\ cut \in Seq(F)
  <2>1. wire \in Seq(F) /\ job \in Seq(Frames)
    BY <1>1 DEF WriterTypeOK
  <2>2. Torn \in F /\ Frames \subseteq F
    OBVIOUS
  <2>3. cut \in Seq(F)
    <3> HIDE DEF F
    <3>1. <<Torn>> \in Seq(F)
      BY <2>2
    <3>2. <<>> \in Seq(F)
      BY EmptySeq
    <3>3. cut = <<>> \/ cut = <<Torn>>
      BY <1>2
    <3> QED BY <3>1, <3>2, <3>3
  <2>4. job \in Seq(F)
    BY <2>1, <2>2, SeqMonotonic
  <2>5. part \in Seq(F)
    BY <2>4, SubSeqProperties
  <2> QED BY <2>1, <2>3, <2>5
<1>6. whole \in Seq(F) /\ whole \o cut \in Seq(F) /\ wire' = whole \o cut
  BY <1>2, <1>5, ConcatProperties
<1>7. /\ Len(wire) \in Nat /\ n \in Nat /\ n <= Len(job) /\ Len(job) \in Nat /\ Len(part) = n
      /\ \A i \in 1..n : part[i] = job[i]
  <2>1. Len(wire) \in Nat /\ Len(job) \in Nat /\ n \in Nat /\ n <= Len(job)
    BY <1>1
  <2> QED BY <2>1
<1>8. (\A i \in 1..Len(wire) : wire[i] = i) /\ \A i \in 1..Len(job) : job[i] = Len(wire) + i
  <2>1. Span(wire, 0, Len(wire)) /\ Span(job, Len(wire), Reach(wire, job, jobs, accepted, 0))
    BY <1>4 DEF InOneRow
  <2>2. \A i \in 1..Len(wire) : 0 + i = i
    BY <1>7
  <2> QED BY <2>1, <2>2 DEF Span
<1>9. Len(whole) = Len(wire) + n /\ \A i \in 1..Len(wire) + n : whole[i] = i
  <2>1. /\ Len(whole) = Len(wire) + n
        /\ \A i \in 1..Len(wire) + n : whole[i] = IF i <= Len(wire) THEN wire[i] ELSE part[i - Len(wire)]
    <3> HIDE DEF part, F
    <3> QED BY <1>5, <1>7, ConcatProperties
  <2> SUFFICES ASSUME NEW i \in 1..Len(wire) + n PROVE whole[i] = i
    BY <2>1
  <2>2. CASE i <= Len(wire)
    BY <1>7, <1>8, <2>1, <2>2
  <2>3. CASE ~(i <= Len(wire))
    <3>1. i - Len(wire) \in 1..n /\ i - Len(wire) \in 1..Len(job)
      BY <1>7, <2>3
    <3>2. part[i - Len(wire)] = Len(wire) + (i - Len(wire))
      BY <1>7, <1>8, <3>1
    <3> QED BY <1>7, <2>1, <2>3, <3>1, <3>2
  <2> QED BY <2>2, <2>3
<1> HIDE DEF whole, part
<1>10. /\ Len(wire') \in Nat /\ Len(whole) <= Len(wire') /\ DOMAIN wire' = 1..Len(wire')
       /\ \A i \in 1..Len(whole) : wire'[i] = i
       /\ \A i \in 1..Len(wire') : i \in 1..Len(whole) \/ (i = Len(wire') /\ wire'[i] = Torn)
  <2>1. Len(cut) \in {0, 1} /\ (Len(cut) = 1 => cut[1] = Torn) /\ Len(whole) \in Nat
    BY <1>7, <1>9
  <2>2. /\ Len(wire') = Len(whole) + Len(cut)
        /\ \A i \in 1..Len(whole) + Len(cut) :
              wire'[i] = IF i <= Len(whole) THEN whole[i] ELSE cut[i - Len(whole)]
    BY <1>5, <1>6, ConcatProperties
  <2>3. DOMAIN wire' = 1..Len(wire')
    BY <1>6, LenProperties
  <2>4. \A i \in 1..Len(whole) : wire'[i] = i
    <3> SUFFICES ASSUME NEW i \in 1..Len(whole) PROVE wire'[i] = i
      OBVIOUS
    <3>1. i \in 1..Len(whole) + Len(cut) /\ i <= Len(whole)
      BY <2>1
    <3> QED BY <1>9, <2>2, <3>1
  <2>5. \A i \in 1..Len(wire') : i \in 1..Len(whole) \/ (i = Len(wire') /\ wire'[i] = Torn)
    <3> SUFFICES ASSUME NEW i \in 1..Len(wire'), i \notin 1..Len(whole)
                 PROVE  i = Len(wire') /\ wire'[i] = Torn
      OBVIOUS
    <3>1. Len(cut) = 1 /\ i = Len(whole) + 1 /\ i - Len(whole) = 1 /\ ~(i <= Len(whole))
      BY <2>1, <2>2
    <3>2. i \in 1..Len(whole) + Len(cut)
      BY <2>1, <3>1
    <3> QED BY <2>1, <2>2, <3>1, <3>2
  <2> QED BY <2>1, <2>2, <2>3, <2>4, <2>5
<1>11. WriterTypeOK'
  BY <1>1, <1>3, <1>6, EmptySeq DEF WriterTypeOK
<1>12. \A i \in DOMAIN wire' : wire'[i] = i \/ (wire'[i] = Torn /\ i = Len(wire'))
  BY <1>10
<1>13. \A f \in Frames : drainFut'[f] = "done" => f <= Len(wire') /\ wire'[f] = f
  <2> SUFFICES ASSUME NEW f \in Frames, drainFut'[f] = "done"
               PROVE  f <= Len(wire') /\ wire'[f] = f
    OBVIOUS
  <2>1. f <= Len(wire) /\ f \in Nat /\ f >= 1
    BY <1>3, WriterConstants DEF WriterInv, FramesConserved, Frames
  <2>2. f \in 1..Len(whole)
    BY <1>7, <1>9, <2>1
  <2>3. f <= Len(wire')
    <3>1. Len(whole) = Len(wire) + n /\ Len(whole) <= Len(wire') /\ Len(wire') \in Nat
      BY <1>9, <1>10
    <3>2. Len(wire) \in Nat /\ n \in Nat
      BY <1>7
    <3> HIDE DEF whole
    <3> QED BY <2>1, <3>1, <3>2
  <2> QED BY <1>10, <2>2, <2>3
<1>14. WorkerHolds' /\ MarkLast'
  BY <1>3, <1>4 DEF WriterInv, WorkerHolds, MarkLast
<1> QED BY <1>3, <1>11, <1>12, <1>13, <1>14 DEF WriterInv, FramesConserved

\* The failure is latched: the queue is dropped and every open drain fails.
LEMMA LatchKeeps == ASSUME WriterInv, Latch PROVE WriterInv'
<1>1. /\ worker = "latch" /\ terminal' = TRUE /\ unclaimed' = <<>> /\ jobs' = <<>> /\ drains' = {}
      /\ drainFut' = [f \in Frames |-> IF f \in drains THEN "failed" ELSE drainFut[f]]
      /\ worker' = "ended" /\ UNCHANGED <<accepted, closing, waits, job, wire>>
  BY DEF Latch
<1>2. WriterTypeOK /\ job = <<>>
  BY <1>1 DEF WriterInv, FramesConserved, WorkerHolds
<1>3. WriterTypeOK'
  BY <1>1, <1>2, EmptySeq DEF WriterTypeOK
<1>4. WorkerHolds' /\ MarkLast'
  BY <1>1, <1>2 DEF WorkerHolds, MarkLast
<1> QED BY <1>1, <1>3, <1>4 DEF WriterInv, FramesConserved

\* The invariant of the writer.
THEOREM WriterInvariant == WriterSpec => []WriterInv
<1>1. WriterInv /\ [WriterNext]_writerVars => WriterInv'
  <2> SUFFICES ASSUME WriterInv, [WriterNext]_writerVars PROVE WriterInv'
    OBVIOUS
  <2>1. CASE UNCHANGED writerVars
    BY <2>1 DEF writerVars, WriterInv, FramesConserved, WriterTypeOK, WorkerHolds, MarkLast
  <2> QED BY <2>1, WriteKeeps, DrainKeeps, WaitsKeep, CloseKeeps, TakeJobKeeps,
             WriteSucceedsKeeps, WriteFailsKeeps, LatchKeeps DEF WriterNext, Worker
<1> QED BY <1>1, WriterStarts, PTL DEF WriterSpec

\* FramesConserved: no frame is lost, doubled or overtaken on its way through the queue and the
\* worker, a drain that succeeded is on the wire, and nothing follows a frame that was cut short.
THEOREM FramesAreConserved == WriterSpec => []FramesConserved
BY WriterInvariant, PTL DEF WriterInv


(***************************************************************************)
(* StdioReader.  Lines are taken in the order of the calls, so a line is   *)
(* never with a call later than the one the thread serves; a completion    *)
(* stays open until its own result is applied, unless the reader closes.   *)
(***************************************************************************)
LineAt(c, n) == lineFut[c] = n \/ \E i \in DOMAIN posted : posted[i] = <<c, n>>

LinesBehind ==
    \A c \in Calls, n \in 1..MaxLines :
        LineAt(c, n) => /\ n <= taken
                        /\ thread # "ended" => c <= serving
                        /\ thread = "read" => c < serving

LinesAscend ==
    \A c, d \in Calls, n, m \in 1..MaxLines : LineAt(c, n) /\ LineAt(d, m) /\ c < d => n < m

\* A line that was taken is with a call, delivered or on its way.
LinesKept == closed \/ \A n \in 1..taken : \E c \in Calls : LineAt(c, n)

\* Requests wait in the order of the calls, behind the one the thread serves.
RequestsAscend ==
    /\ thread = "read" => serving \in Calls
    /\ closed => requests = <<Sentinel>> \/ requests = <<>>
    /\ ~closed =>
          /\ thread # "ended" /\ serving <= calls
          /\ thread = "read" => lineFut[serving] = Open
          /\ \A i \in 1..Len(requests) : /\ requests[i] \in Calls /\ lineFut[requests[i]] = Open
                                         /\ serving < requests[i] /\ requests[i] <= calls
          /\ \A i, j \in 1..Len(requests) : i < j => requests[i] < requests[j]

\* Results are posted in the order of the calls, each to a completion that is still open.
PostedAscend ==
    ~closed =>
        /\ \A i \in 1..Len(posted) : /\ lineFut[posted[i][1]] = Open
                                     /\ posted[i][1] <= serving
                                     /\ thread = "read" => posted[i][1] < serving
        /\ \A i, j \in 1..Len(posted) : i < j => posted[i][1] < posted[j][1]

ReaderInv ==
    ReaderTypeOK /\ LinesBehind /\ LinesAscend /\ LinesKept /\ RequestsAscend /\ PostedAscend

\* What the numbers stand for is told apart.
LEMMA ReaderNumbers ==
    /\ MaxCalls \in Nat /\ MaxLines \in Nat /\ Calls \subseteq Nat /\ Sentinel \notin Calls
    /\ \A n \in 1..MaxLines : n # Eof /\ n # Unused /\ n # Open /\ n \in Lines
    /\ Open # Unused /\ Open \notin Lines /\ Unused \notin Lines /\ Eof \in Lines
BY ReaderConstants DEF Calls, Sentinel, Eof, Unused, Open, Lines

LEMMA ReaderStarts == ReaderInit => ReaderInv
<1> SUFFICES ASSUME ReaderInit PROVE ReaderInv
  OBVIOUS
<1>1. ReaderTypeOK
  <2>1. <<>> \in Seq(Calls \cup {Sentinel}) /\ <<>> \in Seq(Calls \X Lines)
    BY EmptySeq
  <2>2. 0 \in 0..MaxCalls /\ 0 \in 0..MaxLines
    BY ReaderConstants
  <2>3. [c \in Calls |-> Unused] \in [Calls -> Lines \cup {Unused, Open}]
    OBVIOUS
  <2> QED BY <2>1, <2>2, <2>3 DEF ReaderInit, ReaderTypeOK
<1>2. \A c \in Calls, n \in 1..MaxLines : ~LineAt(c, n)
  BY ReaderNumbers DEF ReaderInit, LineAt
<1>3. LinesBehind /\ LinesAscend
  BY <1>2 DEF LinesBehind, LinesAscend
<1>4. LinesKept /\ RequestsAscend /\ PostedAscend
  BY DEF ReaderInit, LinesKept, RequestsAscend, PostedAscend, Sentinel
<1> QED BY <1>1, <1>3, <1>4 DEF ReaderInv

\* readline(): the new call is the last one, and its completion is open.
LEMMA ReadlineKeeps == ASSUME ReaderInv, Readline PROVE ReaderInv'
<1>1. ReaderTypeOK
  BY DEF ReaderInv
<1> DEFINE c == calls + 1
<1>2. /\ ~closed /\ calls' = c /\ lineFut' = [lineFut EXCEPT ![c] = Open]
      /\ pending' = pending \cup {c} /\ requests' = Append(requests, c)
      /\ thread' = (IF thread = "none" THEN "get" ELSE thread)
      /\ UNCHANGED <<closed, gone, serving, posted, taken>>
  BY DEF Readline
<1>3. calls \in Nat /\ c \in Calls /\ c \in 0..MaxCalls /\ c > calls /\ serving \in Nat
  BY <1>1, ReaderConstants, ReaderNumbers DEF ReaderTypeOK, Readline, Calls, Sentinel
<1> HIDE DEF c
<1>4. lineFut'[c] = Open /\ \A d \in Calls : d # c => lineFut'[d] = lineFut[d]
  BY <1>1, <1>2, <1>3 DEF ReaderTypeOK
<1>5. \A d \in Calls, n \in 1..MaxLines : LineAt(d, n)' => LineAt(d, n)
  BY <1>2, <1>4, ReaderNumbers DEF LineAt
<1>6. ReaderTypeOK'
  <2>1. requests' \in Seq(Calls \cup {Sentinel})
    BY <1>1, <1>2, <1>3 DEF ReaderTypeOK
  <2>2. lineFut' \in [Calls -> Lines \cup {Unused, Open}]
    BY <1>1, <1>2, <1>3 DEF ReaderTypeOK
  <2> QED BY <1>1, <1>2, <1>3, <2>1, <2>2 DEF ReaderTypeOK
<1>7. (thread' = "ended" <=> thread = "ended") /\ (thread' = "read" <=> thread = "read")
  BY <1>2
<1>8. LinesBehind' /\ LinesAscend'
  BY <1>2, <1>5, <1>7 DEF ReaderInv, LinesBehind, LinesAscend
<1>9. /\ thread # "ended" /\ serving <= calls
      /\ thread = "read" => serving \in Calls /\ lineFut[serving] = Open
      /\ \A i \in 1..Len(requests) : /\ requests[i] \in Calls /\ lineFut[requests[i]] = Open
                                     /\ serving < requests[i] /\ requests[i] <= calls
      /\ \A i, j \in 1..Len(requests) : i < j => requests[i] < requests[j]
  BY <1>2 DEF ReaderInv, RequestsAscend
<1>10. LinesKept'
  <2> SUFFICES ASSUME NEW n \in 1..taken PROVE \E d \in Calls : LineAt(d, n)'
    BY <1>2 DEF LinesKept
  <2>1. PICK d \in Calls : LineAt(d, n)
    BY <1>2 DEF ReaderInv, LinesKept
  <2>2. n \in 1..MaxLines
    BY <1>1, ReaderConstants DEF ReaderTypeOK
  <2>3. d <= serving
    BY <1>9, <2>1, <2>2 DEF ReaderInv, LinesBehind
  <2>4. d # c
    BY <1>3, <1>9, <2>3, ReaderNumbers
  <2>5. LineAt(d, n)'
    BY <1>2, <1>4, <2>1, <2>4 DEF LineAt
  <2> QED BY <2>5
<1>11. RequestsAscend'
  <2>1. Len(requests) \in Nat /\ Len(requests') = Len(requests) + 1 /\ requests'[Len(requests) + 1] = c
        /\ \A i \in 1..Len(requests) : requests'[i] = requests[i]
    BY <1>1, <1>2 DEF ReaderTypeOK
  <2>2. thread = "read" => serving \in Calls /\ serving # c /\ lineFut'[serving] = Open
    BY <1>3, <1>4, <1>9
  <2>3. \A i \in 1..Len(requests) : lineFut'[requests[i]] = Open /\ requests[i] < c
    <3> SUFFICES ASSUME NEW i \in 1..Len(requests)
                 PROVE  lineFut'[requests[i]] = Open /\ requests[i] < c
      OBVIOUS
    <3>1. requests[i] \in Calls /\ requests[i] \in Nat /\ requests[i] <= calls /\ c \in Nat
      BY <1>3, <1>9, ReaderNumbers
    <3>2. requests[i] < c /\ requests[i] # c
      BY <1>3, <3>1
    <3> QED BY <1>4, <1>9, <3>1, <3>2
  <2>4. \A i \in 1..Len(requests') : /\ requests'[i] \in Calls /\ lineFut'[requests'[i]] = Open
                                     /\ serving < requests'[i] /\ requests'[i] <= c
    <3> SUFFICES ASSUME NEW i \in 1..Len(requests')
                 PROVE  /\ requests'[i] \in Calls /\ lineFut'[requests'[i]] = Open
                        /\ serving < requests'[i] /\ requests'[i] <= c
      OBVIOUS
    <3>1. CASE i = Len(requests) + 1
      BY <1>3, <1>4, <1>9, <2>1, <3>1
    <3>2. CASE i \in 1..Len(requests)
      <4>1. requests'[i] = requests[i] /\ requests[i] < c /\ lineFut'[requests[i]] = Open
        BY <2>1, <2>3, <3>2
      <4>2. requests[i] \in Calls /\ serving < requests[i] /\ requests[i] \in Nat /\ c \in Nat
        BY <1>3, <1>9, <3>2, ReaderNumbers
      <4> QED BY <4>1, <4>2
    <3> QED BY <2>1, <3>1, <3>2
  <2>5. \A i, j \in 1..Len(requests') : i < j => requests'[i] < requests'[j]
    <3> SUFFICES ASSUME NEW i \in 1..Len(requests'), NEW j \in 1..Len(requests'), i < j
                 PROVE  requests'[i] < requests'[j]
      OBVIOUS
    <3>1. i \in 1..Len(requests)
      BY <2>1
    <3>2. CASE j = Len(requests) + 1
      BY <2>1, <2>3, <3>1, <3>2
    <3>3. CASE j \in 1..Len(requests)
      BY <1>9, <2>1, <3>1, <3>3
    <3> QED BY <2>1, <3>2, <3>3
  <2> QED BY <1>2, <1>3, <1>7, <1>9, <2>2, <2>4, <2>5 DEF RequestsAscend
<1>12. PostedAscend'
  <2>1. \A i \in 1..Len(posted) : posted[i][1] \in Calls /\ posted[i][1] <= serving
    BY <1>1, <1>2 DEF ReaderInv, ReaderTypeOK, PostedAscend
  <2>2. \A i \in 1..Len(posted) : lineFut'[posted[i][1]] = lineFut[posted[i][1]]
    <3> SUFFICES ASSUME NEW i \in 1..Len(posted) PROVE posted[i][1] # c
      BY <1>4, <2>1
    <3>1. posted[i][1] \in Nat /\ posted[i][1] <= serving /\ c \in Nat
      BY <1>3, <2>1, ReaderNumbers
    <3> QED BY <1>3, <1>9, <3>1
  <2> QED BY <1>2, <1>7, <2>2 DEF ReaderInv, PostedAscend
<1> QED BY <1>6, <1>8, <1>10, <1>11, <1>12 DEF ReaderInv

\* A closed reader and a cancelled caller change no line.
LEMMA AsideKeeps ==
    ASSUME ReaderInv, ReadlineClosed \/ \E c \in Calls : CancelReadline(c)
    PROVE  ReaderInv'
<1>1. CASE ReadlineClosed
  <2>1. /\ closed /\ calls' = calls + 1 /\ calls + 1 \in Calls /\ calls + 1 \in 0..MaxCalls
        /\ lineFut' = [lineFut EXCEPT ![calls + 1] = Eof]
        /\ UNCHANGED <<requests, pending, closed, gone, thread, serving, posted, taken>>
    BY <1>1, ReaderConstants DEF ReadlineClosed, ReaderInv, ReaderTypeOK, Calls
  <2>2. ReaderTypeOK'
    <3>1. lineFut' \in [Calls -> Lines \cup {Unused, Open}]
      BY <2>1, ReaderNumbers DEF ReaderInv, ReaderTypeOK
    <3> QED BY <2>1, <3>1 DEF ReaderInv, ReaderTypeOK
  <2>3. \A d \in Calls, n \in 1..MaxLines : LineAt(d, n)' => LineAt(d, n)
    BY <2>1, ReaderNumbers DEF LineAt, ReaderInv, ReaderTypeOK
  <2>4. LinesBehind' /\ LinesAscend'
    BY <2>1, <2>3 DEF ReaderInv, LinesBehind, LinesAscend
  <2>5. LinesKept' /\ RequestsAscend' /\ PostedAscend'
    BY <2>1 DEF ReaderInv, LinesKept, RequestsAscend, PostedAscend
  <2> QED BY <2>2, <2>4, <2>5 DEF ReaderInv
<1>2. CASE \E c \in Calls : CancelReadline(c)
  <2>1. /\ gone' \subseteq Calls
        /\ UNCHANGED <<calls, requests, pending, closed, lineFut, thread, serving, posted, taken>>
    BY <1>2 DEF CancelReadline, ReaderInv, ReaderTypeOK
  <2> QED BY <2>1 DEF ReaderInv, ReaderTypeOK, LinesBehind, LinesAscend, LinesKept, LineAt,
                      RequestsAscend, PostedAscend
<1> QED BY <1>1, <1>2

\* A finite set can be listed.
LEMMA ListOfSet == ASSUME NEW S, IsFiniteSet(S) PROVE SetToSeq(S) \in Seq(S)
<1>1. Cardinality(S) \in Nat /\ \E f \in [1..Cardinality(S) -> S] : IsInjective(f)
  BY FS_CardinalityType DEF ExistsBijection, Bijection, Injection
<1>2. SetToSeq(S) \in [1..Cardinality(S) -> S]
  BY <1>1 DEF SetToSeq
<1> QED BY <1>1, <1>2

\* close(): the answers it posts are no lines.
LEMMA CloseReaderKeeps == ASSUME ReaderInv, CloseReader PROVE ReaderInv'
<1> DEFINE woken == {<<c, Eof>> : c \in pending}
<1>1. ReaderTypeOK
  BY DEF ReaderInv
<1>2. /\ closed' = TRUE /\ pending' = {} /\ requests' = <<Sentinel>>
      /\ posted' = posted \o SetToSeq(woken)
      /\ UNCHANGED <<calls, lineFut, gone, thread, serving, taken>>
  BY DEF CloseReader
<1>3. SetToSeq(woken) \in Seq(woken)
  <2>1. IsFiniteSet(Calls) /\ IsFiniteSet({Eof})
    <3>1. 1 \in Int /\ MaxCalls \in Int
      BY ReaderConstants
    <3> QED BY <3>1, FS_Interval, FS_Singleton DEF Calls
  <2>2. IsFiniteSet(Calls \X {Eof})
    BY <2>1, FS_Product
  <2>3. woken \in SUBSET (Calls \X {Eof})
    BY <1>1 DEF ReaderTypeOK
  <2>4. IsFiniteSet(woken)
    BY <2>2, <2>3, FS_Subset
  <2> HIDE DEF woken
  <2> QED BY <2>4, ListOfSet
<1>4. woken \subseteq Calls \X Lines /\ \A w \in woken : w[2] = Eof
  BY <1>1, ReaderNumbers DEF ReaderTypeOK
<1> DEFINE answers == SetToSeq(woken)
<1> HIDE DEF woken, answers
<1>5. answers \in Seq(Calls \X Lines) /\ posted \in Seq(Calls \X Lines) /\ posted' = posted \o answers
      /\ Len(posted) \in Nat /\ Len(answers) \in Nat
  <2>1. answers \in Seq(woken)
    BY <1>3 DEF answers
  <2>2. posted \in Seq(Calls \X Lines)
    BY <1>1 DEF ReaderTypeOK
  <2>3. answers \in Seq(Calls \X Lines)
    BY <1>4, <2>1, SeqMonotonic
  <2> QED BY <1>2, <2>2, <2>3 DEF answers
<1>6. \A i \in 1..Len(answers) : answers[i][2] = Eof
  <2>1. answers \in Seq(woken)
    BY <1>3 DEF answers
  <2>2. \A i \in 1..Len(answers) : answers[i] \in woken
    BY <2>1
  <2> QED BY <1>4, <2>2
<1>7. /\ posted' \in Seq(Calls \X Lines) /\ Len(posted') = Len(posted) + Len(answers)
      /\ \A i \in 1..Len(posted) + Len(answers) :
            posted'[i] = IF i <= Len(posted) THEN posted[i] ELSE answers[i - Len(posted)]
  BY <1>5, ConcatProperties
<1>8. \A c \in Calls, n \in 1..MaxLines : LineAt(c, n)' => LineAt(c, n)
  <2> SUFFICES ASSUME NEW c \in Calls, NEW n \in 1..MaxLines, NEW i \in DOMAIN posted', posted'[i] = <<c, n>>
               PROVE  LineAt(c, n)
    BY <1>2 DEF LineAt
  <2>1. i \in 1..Len(posted) + Len(answers)
    BY <1>5, <1>7, LenProperties
  <2>2. i <= Len(posted)
    <3> SUFFICES ASSUME ~(i <= Len(posted)) PROVE FALSE
      OBVIOUS
    <3>1. i - Len(posted) \in 1..Len(answers) /\ posted'[i] = answers[i - Len(posted)]
      BY <1>5, <1>7, <2>1
    <3>2. n = Eof
      BY <1>6, <3>1
    <3> QED BY <3>2, ReaderNumbers
  <2>3. i \in DOMAIN posted /\ posted[i] = <<c, n>>
    BY <1>5, <1>7, <2>1, <2>2, LenProperties
  <2> QED BY <2>3 DEF LineAt
<1>9. LinesBehind' /\ LinesAscend'
  BY <1>2, <1>8 DEF ReaderInv, LinesBehind, LinesAscend
<1>10. ReaderTypeOK'
  BY <1>1, <1>2, <1>7 DEF ReaderTypeOK
<1>11. LinesKept' /\ RequestsAscend' /\ PostedAscend'
  BY <1>2 DEF ReaderInv, LinesKept, RequestsAscend, PostedAscend
<1> QED BY <1>9, <1>10, <1>11 DEF ReaderInv

\* The loop applies the oldest result: a line that was on its way is delivered.
LEMMA ApplyKeeps == ASSUME ReaderInv, Apply PROVE ReaderInv'
<1>1. ReaderTypeOK /\ posted \in Seq(Calls \X Lines)
  BY DEF ReaderInv, ReaderTypeOK
<1> DEFINE c == Head(posted)[1]
           n == Head(posted)[2]
<1>2. /\ posted # <<>> /\ posted' = Tail(posted) /\ pending' = pending \ {c}
      /\ lineFut' = [lineFut EXCEPT ![c] = IF lineFut[c] = Open THEN n ELSE lineFut[c]]
      /\ UNCHANGED <<calls, requests, closed, gone, thread, serving, taken>>
  BY DEF Apply
<1>3. /\ c \in Calls /\ n \in Lines /\ posted[1] = <<c, n>> /\ 1 \in 1..Len(posted)
      /\ Len(posted) \in Nat /\ DOMAIN posted = 1..Len(posted)
      /\ posted' \in Seq(Calls \X Lines) /\ Len(posted') = Len(posted) - 1
      /\ DOMAIN posted' = 1..Len(posted')
      /\ \A i \in 1..Len(posted') : posted'[i] = posted[i + 1] /\ i + 1 \in 1..Len(posted)
  <2>1. Head(posted) \in Calls \X Lines /\ Head(posted) = posted[1] /\ Len(posted) \in Nat /\ Len(posted) # 0
    BY <1>1, <1>2, HeadTailProperties
  <2>2. /\ posted' \in Seq(Calls \X Lines) /\ Len(posted') = Len(posted) - 1
        /\ \A i \in 1..Len(posted') : posted'[i] = posted[i + 1]
    BY <1>1, <1>2, HeadTailProperties
  <2>3. \A i \in 1..Len(posted') : i + 1 \in 1..Len(posted)
    BY <2>1, <2>2
  <2>4. DOMAIN posted = 1..Len(posted) /\ DOMAIN posted' = 1..Len(posted')
    BY <1>1, <2>2, LenProperties
  <2>5. 1 \in 1..Len(posted)
    BY <2>1
  <2> QED BY <2>1, <2>2, <2>3, <2>4, <2>5
<1> HIDE DEF c, n
<1>4. /\ lineFut'[c] = (IF lineFut[c] = Open THEN n ELSE lineFut[c])
      /\ \A d \in Calls : d # c => lineFut'[d] = lineFut[d]
      /\ lineFut' \in [Calls -> Lines \cup {Unused, Open}]
  BY <1>1, <1>2, <1>3 DEF ReaderTypeOK
<1>5. \A d \in Calls, m \in 1..MaxLines : LineAt(d, m)' => LineAt(d, m)
  <2> SUFFICES ASSUME NEW d \in Calls, NEW m \in 1..MaxLines, LineAt(d, m)' PROVE LineAt(d, m)
    OBVIOUS
  <2>1. CASE lineFut'[d] = m
    BY <1>3, <1>4, <2>1 DEF LineAt
  <2>2. CASE lineFut'[d] # m
    <3>1. PICK i \in DOMAIN posted' : posted'[i] = <<d, m>>
      BY <2>2 DEF LineAt
    <3>2. i + 1 \in DOMAIN posted /\ posted[i + 1] = <<d, m>>
      BY <1>3, <3>1
    <3> QED BY <3>2 DEF LineAt
  <2> QED BY <2>1, <2>2
<1>6. ReaderTypeOK'
  BY <1>1, <1>2, <1>3, <1>4 DEF ReaderTypeOK
<1>7. LinesBehind' /\ LinesAscend'
  BY <1>2, <1>5 DEF ReaderInv, LinesBehind, LinesAscend
<1>8. LinesKept'
  <2> SUFFICES ASSUME ~closed, NEW m \in 1..taken PROVE \E d \in Calls : LineAt(d, m)'
    BY <1>2 DEF LinesKept
  <2>1. PICK d \in Calls : LineAt(d, m)
    BY DEF ReaderInv, LinesKept
  <2>2. lineFut[c] = Open
    BY <1>3 DEF ReaderInv, PostedAscend
  <2>3. m # Open
    BY <1>1, ReaderConstants, ReaderNumbers DEF ReaderTypeOK
  <2>4. CASE lineFut[d] = m
    BY <1>4, <2>2, <2>3, <2>4 DEF LineAt
  <2>5. CASE lineFut[d] # m
    <3>1. PICK i \in 1..Len(posted) : posted[i] = <<d, m>>
      BY <1>3, <2>1, <2>5 DEF LineAt
    <3>2. CASE i = 1
      BY <1>3, <1>4, <2>2, <3>1, <3>2 DEF LineAt
    <3>3. CASE i # 1
      <4>1. i - 1 \in 1..Len(posted') /\ (i - 1) + 1 = i
        BY <1>3, <3>3
      <4>2. posted'[i - 1] = <<d, m>>
        BY <1>3, <3>1, <4>1
      <4> QED BY <1>3, <4>1, <4>2 DEF LineAt
    <3> QED BY <3>2, <3>3
  <2> QED BY <2>4, <2>5
<1>9. RequestsAscend'
  <2>1. CASE closed
    BY <1>2, <2>1 DEF ReaderInv, RequestsAscend
  <2>2. CASE ~closed
    <3>1. c <= serving /\ (thread = "read" => c < serving)
      BY <1>3, <2>2 DEF ReaderInv, PostedAscend
    <3>2. c \in Nat /\ serving \in Nat
      BY <1>1, <1>3, ReaderNumbers DEF ReaderTypeOK, Sentinel
    <3>3. thread = "read" => serving # c /\ serving \in Calls
      BY <2>2, <3>1, <3>2 DEF ReaderInv, RequestsAscend
    <3>4. \A i \in 1..Len(requests) : requests[i] # c /\ requests[i] \in Calls
      <4> SUFFICES ASSUME NEW i \in 1..Len(requests) PROVE requests[i] # c /\ requests[i] \in Calls
        OBVIOUS
      <4>1. requests[i] \in Calls /\ serving < requests[i] /\ requests[i] \in Nat
        BY <2>2, ReaderNumbers DEF ReaderInv, RequestsAscend
      <4> QED BY <3>1, <3>2, <4>1
    <3> QED BY <1>2, <1>4, <2>2, <3>3, <3>4 DEF ReaderInv, RequestsAscend
  <2> QED BY <2>1, <2>2
<1>10. PostedAscend'
  <2> SUFFICES ASSUME ~closed PROVE PostedAscend'
    BY <1>2 DEF PostedAscend
  <2>1. \A i \in 1..Len(posted') : posted'[i][1] \in Calls /\ posted'[i][1] # c
    <3> SUFFICES ASSUME NEW i \in 1..Len(posted') PROVE posted'[i][1] \in Calls /\ posted'[i][1] # c
      OBVIOUS
    <3>1. posted'[i] = posted[i + 1] /\ i + 1 \in 1..Len(posted) /\ 1 < i + 1
      BY <1>3
    <3>2. posted[1][1] < posted[i + 1][1] /\ posted[1][1] = c
      BY <1>3, <3>1 DEF ReaderInv, PostedAscend
    <3>3. posted[i + 1] \in Calls \X Lines
      BY <1>1, <3>1
    <3>4. posted'[i][1] \in Calls /\ c \in Nat /\ posted'[i][1] \in Nat
      BY <1>3, <3>1, <3>3, ReaderNumbers
    <3> QED BY <3>1, <3>2, <3>4
  <2>2. \A i \in 1..Len(posted') : /\ lineFut'[posted'[i][1]] = Open
                                   /\ posted'[i][1] <= serving
                                   /\ thread = "read" => posted'[i][1] < serving
    BY <1>3, <1>4, <2>1 DEF ReaderInv, PostedAscend
  <2>3. \A i, j \in 1..Len(posted') : i < j => posted'[i][1] < posted'[j][1]
    <3> SUFFICES ASSUME NEW i \in 1..Len(posted'), NEW j \in 1..Len(posted'), i < j
                 PROVE  posted'[i][1] < posted'[j][1]
      OBVIOUS
    <3>1. posted'[i] = posted[i + 1] /\ posted'[j] = posted[j + 1] /\ i + 1 < j + 1
          /\ i + 1 \in 1..Len(posted) /\ j + 1 \in 1..Len(posted)
      BY <1>3
    <3> QED BY <3>1 DEF ReaderInv, PostedAscend
  <2> QED BY <1>2, <2>2, <2>3 DEF PostedAscend
<1> QED BY <1>6, <1>7, <1>8, <1>9, <1>10 DEF ReaderInv

\* The thread takes the oldest request, which is later than every line so far.
LEMMA TakeRequestKeeps == ASSUME ReaderInv, TakeRequest PROVE ReaderInv'
<1>1. ReaderTypeOK /\ requests \in Seq(Calls \cup {Sentinel})
  BY DEF ReaderInv, ReaderTypeOK
<1>2. /\ thread = "get" /\ requests # <<>> /\ serving' = Head(requests) /\ requests' = Tail(requests)
      /\ thread' = (IF serving' = Sentinel THEN "ended" ELSE "read")
      /\ UNCHANGED <<calls, pending, closed, lineFut, gone, posted, taken>>
  BY DEF TakeRequest
<1>3. /\ Head(requests) \in Calls \cup {Sentinel} /\ Head(requests) = requests[1]
      /\ 1 \in 1..Len(requests) /\ Len(requests) \in Nat
      /\ requests' \in Seq(Calls \cup {Sentinel}) /\ Len(requests') = Len(requests) - 1
      /\ \A i \in 1..Len(requests') : requests'[i] = requests[i + 1] /\ i + 1 \in 1..Len(requests)
  <2>1. /\ Head(requests) \in Calls \cup {Sentinel} /\ Len(requests) \in Nat /\ Len(requests) # 0
        /\ Head(requests) = requests[1]
    BY <1>1, <1>2, HeadTailProperties
  <2>2. /\ requests' \in Seq(Calls \cup {Sentinel}) /\ Len(requests') = Len(requests) - 1
        /\ \A i \in 1..Len(requests') : requests'[i] = requests[i + 1]
    BY <1>1, <1>2, HeadTailProperties
  <2>3. \A i \in 1..Len(requests') : i + 1 \in 1..Len(requests)
    BY <2>1, <2>2
  <2>4. 1 \in 1..Len(requests)
    BY <2>1
  <2> QED BY <2>1, <2>2, <2>3, <2>4
<1>4. ReaderTypeOK'
  BY <1>1, <1>2, <1>3 DEF ReaderTypeOK
<1>5. \A d, m : LineAt(d, m)' <=> LineAt(d, m)
  BY <1>2 DEF LineAt
<1>6. LinesAscend' /\ LinesKept'
  BY <1>2, <1>5 DEF ReaderInv, LinesAscend, LinesKept
<1>7. serving \in Nat /\ serving' \in Nat
  <2>1. Calls \cup {Sentinel} \subseteq Nat
    BY ReaderNumbers DEF Sentinel
  <2>2. serving \in Calls \cup {Sentinel} /\ serving' \in Calls \cup {Sentinel}
    BY <1>1, <1>2, <1>3 DEF ReaderTypeOK
  <2> QED BY <2>1, <2>2
<1>8. CASE closed
  <2>1. requests = <<Sentinel>>
    BY <1>2, <1>8 DEF ReaderInv, RequestsAscend
  <2>2. serving' = Sentinel /\ requests' = <<>> /\ thread' = "ended"
    BY <1>2, <2>1
  <2>3. LinesBehind'
    BY <1>2, <1>5, <2>2 DEF ReaderInv, LinesBehind
  <2>4. RequestsAscend' /\ PostedAscend'
    BY <1>2, <1>8, <2>2 DEF RequestsAscend, PostedAscend
  <2> QED BY <1>4, <1>6, <2>3, <2>4 DEF ReaderInv
<1>9. CASE ~closed
  <2>1. /\ \A i \in 1..Len(requests) : /\ requests[i] \in Calls /\ lineFut[requests[i]] = Open
                                       /\ serving < requests[i] /\ requests[i] <= calls
        /\ \A i, j \in 1..Len(requests) : i < j => requests[i] < requests[j]
    BY <1>9 DEF ReaderInv, RequestsAscend
  <2>2. /\ serving' \in Calls /\ serving < serving' /\ serving' <= calls /\ lineFut[serving'] = Open
        /\ thread' = "read" /\ serving' = requests[1]
    BY <1>2, <1>3, <2>1, ReaderNumbers
  <2>3. LinesBehind'
    <3> SUFFICES ASSUME NEW d \in Calls, NEW m \in 1..MaxLines, LineAt(d, m)
                 PROVE  m <= taken /\ d <= serving' /\ d < serving'
      BY <1>2, <1>5, <2>2 DEF LinesBehind
    <3>1. m <= taken /\ d <= serving
      BY <1>2 DEF ReaderInv, LinesBehind
    <3>2. d \in Nat
      BY ReaderNumbers
    <3> QED BY <1>7, <2>2, <3>1, <3>2
  <2>4. \A i \in 1..Len(requests') : /\ requests'[i] \in Calls /\ lineFut[requests'[i]] = Open
                                     /\ serving' < requests'[i] /\ requests'[i] <= calls
    <3> SUFFICES ASSUME NEW i \in 1..Len(requests')
                 PROVE  /\ requests'[i] \in Calls /\ lineFut[requests'[i]] = Open
                        /\ serving' < requests'[i] /\ requests'[i] <= calls
      OBVIOUS
    <3>1. requests'[i] = requests[i + 1] /\ i + 1 \in 1..Len(requests) /\ 1 < i + 1
      BY <1>3
    <3> QED BY <1>3, <2>1, <2>2, <3>1
  <2>5. \A i, j \in 1..Len(requests') : i < j => requests'[i] < requests'[j]
    <3> SUFFICES ASSUME NEW i \in 1..Len(requests'), NEW j \in 1..Len(requests'), i < j
                 PROVE  requests'[i] < requests'[j]
      OBVIOUS
    <3>1. requests'[i] = requests[i + 1] /\ requests'[j] = requests[j + 1] /\ i + 1 < j + 1
          /\ i + 1 \in 1..Len(requests) /\ j + 1 \in 1..Len(requests)
      BY <1>3
    <3> QED BY <2>1, <3>1
  <2>6. RequestsAscend'
    BY <1>2, <1>9, <2>2, <2>4, <2>5 DEF RequestsAscend
  <2>7. \A i \in 1..Len(posted) : posted[i][1] \in Nat /\ posted[i][1] <= serving
    <3>1. \A i \in 1..Len(posted) : posted[i] \in Calls \X Lines
      BY <1>1 DEF ReaderTypeOK
    <3> QED BY <1>9, <3>1, ReaderNumbers DEF ReaderInv, PostedAscend
  <2>8. \A i \in 1..Len(posted) : posted[i][1] <= serving' /\ posted[i][1] < serving'
    BY <1>7, <2>2, <2>7
  <2>9. PostedAscend'
    BY <1>2, <1>9, <2>2, <2>8 DEF ReaderInv, PostedAscend
  <2> QED BY <1>4, <1>6, <2>3, <2>6, <2>9 DEF ReaderInv
<1> QED BY <1>8, <1>9

\* The read returns: the next line goes to the call the thread serves, or there is no line.
LEMMA ReadReturnsKeeps == ASSUME ReaderInv, ReadReturns PROVE ReaderInv'
<1>1. ReaderTypeOK /\ posted \in Seq(Calls \X Lines) /\ taken \in Nat
  BY ReaderConstants DEF ReaderInv, ReaderTypeOK
<1>2. /\ thread = "read" /\ thread' = "get"
      /\ UNCHANGED <<calls, requests, pending, closed, lineFut, gone, serving>>
  BY DEF ReadReturns
<1>3. serving \in Calls /\ serving \in Nat
  BY <1>2, ReaderNumbers DEF ReaderInv, RequestsAscend
<1>4. PICK m \in Lines :
          /\ posted' = Append(posted, <<serving, m>>)
          /\ \/ taken < MaxLines /\ taken' = taken + 1 /\ m = taken'
             \/ taken' = taken /\ m = Eof
  <2>1. CASE taken < MaxLines /\ taken' = taken + 1 /\ posted' = Append(posted, <<serving, taken'>>)
    <3>1. taken + 1 \in Lines
      BY <1>1, <2>1, ReaderConstants DEF Lines, Eof
    <3> QED BY <2>1, <3>1
  <2>2. CASE UNCHANGED taken /\ posted' = Append(posted, <<serving, Eof>>)
    BY <2>2, ReaderNumbers
  <2> QED BY <2>1, <2>2 DEF ReadReturns
<1>5. /\ posted' \in Seq(Calls \X Lines) /\ Len(posted') = Len(posted) + 1 /\ Len(posted) \in Nat
      /\ \A i \in 1..Len(posted) : posted'[i] = posted[i]
      /\ posted'[Len(posted) + 1] = <<serving, m>>
      /\ DOMAIN posted = 1..Len(posted) /\ DOMAIN posted' = 1..Len(posted) + 1
  <2>1. <<serving, m>> \in Calls \X Lines
    BY <1>3
  <2> QED BY <1>1, <1>4, <2>1, AppendProperties, LenProperties
<1>6. /\ taken' \in 0..MaxLines /\ taken <= taken' /\ taken' \in Nat
      /\ m \in 1..MaxLines => m = taken' /\ taken < taken'
  BY <1>1, <1>4, ReaderConstants, ReaderNumbers DEF ReaderTypeOK
<1>7. \A d \in Calls, n \in 1..MaxLines : LineAt(d, n)' <=> LineAt(d, n) \/ (d = serving /\ n = m)
  <2> SUFFICES ASSUME NEW d \in Calls, NEW n \in 1..MaxLines
               PROVE  LineAt(d, n)' <=> LineAt(d, n) \/ (d = serving /\ n = m)
    OBVIOUS
  <2>1. (\E i \in DOMAIN posted' : posted'[i] = <<d, n>>)
          <=> (\E i \in DOMAIN posted : posted[i] = <<d, n>>) \/ (d = serving /\ n = m)
    <3>1. ASSUME NEW i \in DOMAIN posted', posted'[i] = <<d, n>>
          PROVE  (\E k \in DOMAIN posted : posted[k] = <<d, n>>) \/ (d = serving /\ n = m)
      <4>1. i \in 1..Len(posted) \/ i = Len(posted) + 1
        BY <1>5
      <4> QED BY <1>5, <3>1, <4>1
    <3>2. ASSUME NEW i \in DOMAIN posted, posted[i] = <<d, n>>
          PROVE  \E k \in DOMAIN posted' : posted'[k] = <<d, n>>
      BY <1>5, <3>2
    <3>3. ASSUME d = serving /\ n = m
          PROVE  \E k \in DOMAIN posted' : posted'[k] = <<d, n>>
      <4>1. Len(posted) + 1 \in DOMAIN posted'
        BY <1>5
      <4> QED BY <1>5, <3>3, <4>1
    <3> QED BY <3>1, <3>2, <3>3
  <2> QED BY <1>2, <2>1 DEF LineAt
<1>8. ReaderTypeOK'
  BY <1>1, <1>2, <1>5, <1>6 DEF ReaderTypeOK
<1>9. \A d \in Calls, n \in 1..MaxLines : LineAt(d, n) => n <= taken /\ d < serving
  BY <1>2 DEF ReaderInv, LinesBehind
<1>10. LinesBehind'
  <2> SUFFICES ASSUME NEW d \in Calls, NEW n \in 1..MaxLines, LineAt(d, n)'
               PROVE  n <= taken' /\ d <= serving
    BY <1>2 DEF LinesBehind
  <2>1. d \in Nat /\ n \in Nat
    BY ReaderNumbers
  <2>2. CASE LineAt(d, n)
    <3>1. n <= taken /\ d < serving
      BY <1>9, <2>2
    <3> QED BY <1>1, <1>3, <1>6, <2>1, <3>1
  <2>3. CASE d = serving /\ n = m
    BY <1>3, <1>6, <2>1, <2>3
  <2> QED BY <1>7, <2>2, <2>3
<1>11. LinesAscend'
  <2> SUFFICES ASSUME NEW d \in Calls, NEW e \in Calls, NEW n \in 1..MaxLines, NEW k \in 1..MaxLines,
                      LineAt(d, n)', LineAt(e, k)', d < e
               PROVE  n < k
    BY DEF LinesAscend
  <2>1. d \in Nat /\ e \in Nat /\ n \in Nat /\ k \in Nat
    BY ReaderNumbers
  <2>2. CASE LineAt(d, n) /\ LineAt(e, k)
    BY <2>2 DEF ReaderInv, LinesAscend
  <2>3. CASE LineAt(d, n) /\ e = serving /\ k = m
    <3>1. n <= taken /\ k = taken' /\ taken < taken'
      BY <1>6, <1>9, <2>3
    <3> QED BY <1>1, <1>6, <2>1, <3>1
  <2>4. CASE d = serving /\ n = m
    <3>1. e = serving \/ e < serving
      BY <1>7, <1>9
    <3> QED BY <1>3, <2>1, <2>4, <3>1
  <2> QED BY <1>7, <2>2, <2>3, <2>4
<1>12. LinesKept'
  <2> SUFFICES ASSUME ~closed, NEW n \in 1..taken' PROVE \E d \in Calls : LineAt(d, n)'
    BY <1>2 DEF LinesKept
  <2>1. n \in 1..MaxLines
    BY <1>6, ReaderConstants
  <2>2. CASE n \in 1..taken
    <3>1. PICK d \in Calls : LineAt(d, n)
      BY <2>2 DEF ReaderInv, LinesKept
    <3> QED BY <1>7, <2>1, <3>1
  <2>3. CASE n \notin 1..taken
    <3>1. n = m
      BY <1>1, <1>4, <1>6, <2>3
    <3> QED BY <1>3, <1>7, <2>1, <3>1
  <2> QED BY <2>2, <2>3
<1>13. RequestsAscend'
  BY <1>2 DEF ReaderInv, RequestsAscend
<1>14. PostedAscend'
  <2> SUFFICES ASSUME ~closed PROVE PostedAscend'
    BY <1>2 DEF PostedAscend
  <2>1. lineFut[serving] = Open
    BY <1>2 DEF ReaderInv, RequestsAscend
  <2>2. \A i \in 1..Len(posted) : /\ lineFut[posted[i][1]] = Open /\ posted[i][1] < serving
                                  /\ posted[i][1] <= serving
    BY <1>2 DEF ReaderInv, PostedAscend
  <2>3. \A i \in 1..Len(posted') : lineFut[posted'[i][1]] = Open /\ posted'[i][1] <= serving
    <3> SUFFICES ASSUME NEW i \in 1..Len(posted')
                 PROVE  lineFut[posted'[i][1]] = Open /\ posted'[i][1] <= serving
      OBVIOUS
    <3>1. CASE i = Len(posted) + 1
      BY <1>3, <1>5, <2>1, <3>1
    <3>2. CASE i \in 1..Len(posted)
      BY <1>5, <2>2, <3>2
    <3> QED BY <1>5, <3>1, <3>2
  <2>4. \A i, j \in 1..Len(posted') : i < j => posted'[i][1] < posted'[j][1]
    <3> SUFFICES ASSUME NEW i \in 1..Len(posted'), NEW j \in 1..Len(posted'), i < j
                 PROVE  posted'[i][1] < posted'[j][1]
      OBVIOUS
    <3>1. i \in 1..Len(posted)
      BY <1>5
    <3>2. CASE j = Len(posted) + 1
      BY <1>5, <2>2, <3>1, <3>2
    <3>3. CASE j \in 1..Len(posted)
      BY <1>5, <3>1, <3>3 DEF ReaderInv, PostedAscend
    <3> QED BY <1>5, <3>2, <3>3
  <2> QED BY <1>2, <2>3, <2>4 DEF PostedAscend
<1> QED BY <1>8, <1>10, <1>11, <1>12, <1>13, <1>14 DEF ReaderInv

\* The invariant of the reader.
THEOREM ReaderInvariant == ReaderSpec => []ReaderInv
<1>1. ReaderInv /\ [ReaderNext]_readerVars => ReaderInv'
  <2> SUFFICES ASSUME ReaderInv, [ReaderNext]_readerVars PROVE ReaderInv'
    OBVIOUS
  <2>1. CASE UNCHANGED readerVars
    BY <2>1 DEF readerVars, ReaderInv, ReaderTypeOK, LinesBehind, LinesAscend, LinesKept, LineAt,
                RequestsAscend, PostedAscend
  <2> QED BY <2>1, ReadlineKeeps, AsideKeeps, CloseReaderKeeps, ApplyKeeps, TakeRequestKeeps,
             ReadReturnsKeeps DEF ReaderNext
<1> QED BY <1>1, ReaderStarts, PTL DEF ReaderSpec

\* LinesInOrder: calls of readline() get the lines of the parent in order and at most once, and
\* no line that was taken is lost before close(), whichever callers are cancelled.
THEOREM LinesComeInOrder == ReaderSpec => []LinesInOrder
<1>1. ReaderInv => LinesInOrder
  <2> SUFFICES ASSUME ReaderInv PROVE LinesInOrder
    OBVIOUS
  <2>1. \A c, d \in Calls : c < d /\ Delivered(c) /\ Delivered(d) => lineFut[c] < lineFut[d]
    BY DEF ReaderInv, LinesAscend, LineAt, Delivered
  <2>2. \A n \in 1..taken : \/ \E c \in Calls : lineFut[c] = n
                            \/ \E i \in DOMAIN posted : posted[i][2] = n
                            \/ closed
    <3> SUFFICES ASSUME ~closed, NEW n \in 1..taken
                 PROVE  (\E c \in Calls : lineFut[c] = n) \/ \E i \in DOMAIN posted : posted[i][2] = n
      OBVIOUS
    <3>1. PICK c \in Calls : lineFut[c] = n \/ \E i \in DOMAIN posted : posted[i] = <<c, n>>
      BY DEF ReaderInv, LinesKept, LineAt
    <3>2. ASSUME NEW i \in DOMAIN posted, posted[i] = <<c, n>> PROVE posted[i][2] = n
      BY <3>2
    <3> QED BY <3>1, <3>2
  <2> QED BY <2>1, <2>2 DEF LinesInOrder, ReaderInv
<1> QED BY <1>1, ReaderInvariant, PTL

=============================================================================
