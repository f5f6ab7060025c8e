---------------------------- MODULE StdioWriter ----------------------------
(***************************************************************************)
(* _ThreadedStdioWriter (isolated_feature/service.py): the event loop      *)
(* queues frames, one daemon thread writes them to the private wire.       *)
(*                                                                         *)
(* write(), drain() and close() run on the event loop and are one locked   *)
(* section each; the worker runs beside them.  Frames are numbered in the  *)
(* order write() accepts them, and a drain is named by its last frame.     *)
(***************************************************************************)
EXTENDS Naturals, Sequences, SequencesExt

CONSTANTS Senders,   \* tasks of the event loop that send frames
          MaxFrames  \* bound: frames accepted in a behaviour

ASSUME WriterConstants == MaxFrames \in Nat

VARIABLES accepted,  \* frames write() has accepted
          unclaimed,   \* _pending: frames not yet claimed by a drain
          jobs,      \* _jobs: the queue, with the sentinel of close()
          drains,    \* _drains: completions the worker owes an answer
          closing, terminal,
          drainFut,       \* per drain: its completion, as posted to the event loop
          waits,     \* per sender: the drain it awaits, 0 if none
          worker,    \* the thread: "get", "write", "latch", "ended"
          job,       \* the frames it is writing
          wire       \* what reached the stream; Torn is a frame cut short

writerVars == <<accepted, unclaimed, jobs, drains, closing, terminal, drainFut, waits, worker, job, wire>>

Torn == 0
Frames == 1..MaxFrames
CloseMark == <<>>

WriterTypeOK ==
    /\ accepted \in 0..MaxFrames
    /\ unclaimed \in Seq(Frames) /\ jobs \in Seq(Seq(Frames)) /\ job \in Seq(Frames)
    /\ drains \subseteq Frames
    /\ closing \in BOOLEAN /\ terminal \in BOOLEAN
    /\ drainFut \in [Frames -> {"unused", "open", "done", "failed"}]
    /\ waits \in [Senders -> 0..MaxFrames]
    /\ worker \in {"get", "write", "latch", "ended"}
    /\ wire \in Seq(Frames \cup {Torn})

WriterInit ==
    /\ accepted = 0
    /\ unclaimed = <<>> /\ jobs = <<>> /\ job = <<>> /\ wire = <<>>
    /\ drains = {}
    /\ closing = FALSE /\ terminal = FALSE
    /\ drainFut = [f \in Frames |-> "unused"]
    /\ waits = [s \in Senders |-> 0]
    /\ worker = "get"

-----------------------------------------------------------------------------
\* write(): refused once the wire is closing or has failed.
Write ==
    /\ ~terminal /\ ~closing
    /\ accepted < MaxFrames
    /\ accepted' = accepted + 1
    /\ unclaimed' = Append(unclaimed, accepted')
    /\ UNCHANGED <<jobs, drains, closing, terminal, drainFut, waits, worker, job, wire>>

\* Variant: the frames stay unclaimed and are queued again by the next drain.
DrainKeepsPending(s) ==
    /\ waits[s] = 0
    /\ ~terminal /\ ~closing /\ unclaimed # <<>>
    /\ LET c == Last(unclaimed)
       IN  /\ drains' = drains \cup {c}
           /\ drainFut' = [drainFut EXCEPT ![c] = "open"]
           /\ waits' = [waits EXCEPT ![s] = c]
    /\ jobs' = Append(jobs, unclaimed)
    /\ UNCHANGED <<accepted, unclaimed, closing, terminal, worker, job, wire>>

\* drain(): everything unclaimed becomes one job with a completion of its own.
Drain(s) ==
    /\ waits[s] = 0
    /\ ~terminal /\ ~closing /\ unclaimed # <<>>
    /\ LET c == Last(unclaimed)
       IN  /\ drains' = drains \cup {c}
           /\ drainFut' = [drainFut EXCEPT ![c] = "open"]
           /\ waits' = [waits EXCEPT ![s] = c]
    /\ jobs' = Append(jobs, unclaimed)
    /\ unclaimed' = <<>>
    /\ UNCHANGED <<accepted, closing, terminal, worker, job, wire>>

\* The shielded completion ends and the sender goes on.
DrainEnds(s) ==
    /\ waits[s] # 0 /\ drainFut[waits[s]] \in {"done", "failed"}
    /\ waits' = [waits EXCEPT ![s] = 0]
    /\ UNCHANGED <<accepted, unclaimed, jobs, drains, closing, terminal, drainFut, worker, job, wire>>

\* The sender is cancelled: the shield leaves the queued frame and its completion alone.
CancelDrain(s) ==
    /\ waits[s] # 0
    /\ waits' = [waits EXCEPT ![s] = 0]
    /\ UNCHANGED <<accepted, unclaimed, jobs, drains, closing, terminal, drainFut, worker, job, wire>>

\* close(): the frames still unclaimed, then the sentinel.
CloseWriter ==
    /\ ~terminal /\ ~closing
    /\ closing' = TRUE
    /\ jobs' = Append(IF unclaimed = <<>> THEN jobs ELSE Append(jobs, unclaimed), CloseMark)
    /\ unclaimed' = <<>>
    /\ UNCHANGED <<accepted, drains, terminal, drainFut, waits, worker, job, wire>>

-----------------------------------------------------------------------------
\* The worker takes a job, or the sentinel and closes the stream.
TakeJob ==
    /\ worker = "get" /\ jobs # <<>>
    /\ jobs' = Tail(jobs)
    /\ job' = Head(jobs)
    /\ worker' = IF Head(jobs) = CloseMark THEN "ended" ELSE "write"
    /\ UNCHANGED <<accepted, unclaimed, drains, closing, terminal, drainFut, waits, wire>>

\* Every byte is written and flushed: the drain is answered.
WriteSucceeds ==
    /\ worker = "write"
    /\ wire' = wire \o job
    /\ drains' = drains \ {Last(job)}
    /\ drainFut' = [drainFut EXCEPT ![Last(job)] = IF @ = "open" THEN "done" ELSE @]
    /\ job' = <<>> /\ worker' = "get"
    /\ UNCHANGED <<accepted, unclaimed, jobs, closing, terminal, waits>>

\* The stream raises: after some frames of the job, inside a frame, or at the flush.
WriteFails ==
    /\ worker = "write"
    /\ \E n \in 0..Len(job), cut \in {<<>>, <<Torn>>} :
          /\ n = Len(job) => cut = <<>>
          /\ wire' = wire \o SubSeq(job, 1, n) \o cut
    /\ job' = <<>> /\ worker' = "latch"
    /\ UNCHANGED <<accepted, unclaimed, jobs, drains, closing, terminal, drainFut, waits>>

\* Variant: the queue is dropped without telling the drains behind the failed frame.
LatchDropsQueue ==
    /\ worker = "latch"
    /\ terminal' = TRUE
    /\ unclaimed' = <<>> /\ jobs' = <<>>
    /\ drains' = {}
    /\ drainFut' = [f \in Frames |-> IF f \in drains /\ \A d \in drains : f <= d THEN "failed" ELSE drainFut[f]]
    /\ worker' = "ended"
    /\ UNCHANGED <<accepted, closing, waits, job, wire>>

\* _latch_terminal_failure(): the queue is fenced and every drain fails; then the stream is
\* closed.
Latch ==
    /\ worker = "latch"
    /\ terminal' = TRUE
    /\ unclaimed' = <<>> /\ jobs' = <<>>
    /\ drains' = {}
    /\ drainFut' = [f \in Frames |-> IF f \in drains THEN "failed" ELSE drainFut[f]]
    /\ worker' = "ended"
    /\ UNCHANGED <<accepted, closing, waits, job, wire>>

Worker == TakeJob \/ WriteSucceeds \/ WriteFails \/ Latch

WriterNext ==
    \/ Write \/ CloseWriter \/ Worker
    \/ \E s \in Senders : Drain(s) \/ DrainEnds(s) \/ CancelDrain(s)

WriterSpec == WriterInit /\ [][WriterNext]_writerVars

\* The thread and the event loop run; nothing says that a call of the stream returns, since
\* the parent may have stopped reading.
WriterFairness ==
    /\ WF_writerVars(TakeJob) /\ WF_writerVars(Latch)
    /\ \A s \in Senders : WF_writerVars(DrainEnds(s))

-----------------------------------------------------------------------------
\* The frames after number from, up to number to.
Span(s, from, to) == Len(s) = to - from /\ \A i \in 1..Len(s) : s[i] = from + i

\* The last frame that is on the wire, with the worker or among the first i jobs of the queue.
Reach(onWire, inWork, queue, last, i) ==
    IF i = 0 THEN Len(onWire) + Len(inWork)
    ELSE IF queue[i] = CloseMark THEN last ELSE Last(queue[i])

\* Each frame up to the last is in one of the places, and they hold them in order.
InOneRow(onWire, inWork, queue, rest, last) ==
    LET R(i) == Reach(onWire, inWork, queue, last, i)
    IN  /\ Span(onWire, 0, Len(onWire))
        /\ Span(inWork, Len(onWire), R(0))
        /\ \A i \in 1..Len(queue) : Span(queue[i], R(i - 1), R(i))
        /\ Span(rest, R(Len(queue)), last)

\* The state is well-formed. Until a failure every accepted frame is in one place: on the
\* wire, with the worker, queued or unclaimed, and in that order, also when senders are
\* cancelled. After it nothing follows a frame that was cut short. A drain that succeeded
\* has all its frames, and all earlier ones, on the wire; one that was closed without a
\* failure has every accepted frame.
FramesConserved ==
    /\ WriterTypeOK
    /\ worker # "latch" /\ ~terminal => InOneRow(wire, job, jobs, unclaimed, accepted)
    /\ \A i \in DOMAIN wire : wire[i] = i \/ (wire[i] = Torn /\ i = Len(wire))
    /\ \A f \in Frames : drainFut[f] = "done" => f <= Len(wire) /\ wire[f] = f
    /\ worker = "ended" /\ ~terminal => Len(wire) = accepted

\* A sender that drains gets out, also one that races the failure of the worker: it joins
\* the failed set or sees the failure first. The exception is a write that never returns.
DrainSettles ==
    \A s \in Senders : (waits[s] # 0 ~> waits[s] = 0) \/ <>[](worker = "write")
=============================================================================
