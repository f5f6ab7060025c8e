----------------------------- MODULE ActiveTask -----------------------------
(***************************************************************************)
(* One ActiveTask of kestrel_sdk/native_a2a/server/agent_execution: its    *)
(* producer runs the agent for one queued request after the other, its     *)
(* consumer applies the agent's events to the store and fans them out, and *)
(* clients tail it through sinks of their own.  With a VersionedTaskStore  *)
(* other replicas write the same task.                                     *)
(*                                                                         *)
(* The agent is arbitrary code: it enqueues any events, returns, raises,   *)
(* or is cancelled.  Dispatch from a source to its sinks is one step here. *)
(***************************************************************************)
EXTENDS Naturals, Sequences, FiniteSets

CONSTANTS Senders,     \* calls of on_message_send
          Watchers,    \* calls of on_subscribe_to_task
          NoClient,
          AgentStates, \* the states the agent reports
          ReplicaStates,  \* those other replicas write
          MaxEvents,   \* bound on the events of one execution
          MaxOthers,   \* bound on the steps of others: replicas, cancel(), aclose(), a disconnect
          SinkSize     \* max_queue_size of a subscriber's sink

Clients == Senders \cup Watchers

TerminalStates == {"completed", "failed", "canceled", "rejected"}
InterruptedStates == {"input", "auth"}
TaskStates == {"working"} \cup InterruptedStates \cup TerminalStates

ASSUME ActiveConstants ==
    /\ AgentStates \subseteq TaskStates /\ ReplicaStates \subseteq TaskStates
    /\ NoClient \notin Clients /\ Senders \cap Watchers = {}
    /\ MaxEvents \in Nat /\ MaxOthers \in Nat /\ SinkSize \in Nat \ {0}


VARIABLES db,              \* the stored task: its state ("none" if absent) and version
          others,          \* steps of others so far
          cache,           \* TaskManager._current_task and _current_version
          base,            \* the task and version the consumer or cancel() is about to write over
          created,         \* _task_created
          finished,        \* _is_finished
          requestQ, requestOpen, requestLock,
          producer,        \* where _run_producer is
          serving,         \* the request it executes
          produced,        \* events of this execution
          producerCancel,  \* the producer task was cancelled
          agentQ, agentState,
          consumer,        \* where _run_consumer is
          current,         \* the event it processes
          taskMode, producerFailed,
          subsOpen, sinkQ, sinkState,
          client,          \* where each client is
          refs,            \* _reference_count
          timer,           \* _idle_release_task
          cleaned,         \* _on_cleanup was called
          canceller,       \* where a call of cancel() is
          closer           \* where a call of aclose() is

storeVars == <<db, others>>
managerVars == <<cache, base, created>>
requestVars == <<requestQ, requestOpen, requestLock>>
producerVars == <<producer, serving, produced, producerCancel>>
agentVars == <<agentQ, agentState>>
consumerVars == <<consumer, current, taskMode, producerFailed>>
sinkVars == <<subsOpen, sinkQ, sinkState>>
lifeVars == <<finished, refs, timer, cleaned>>
activeVars == <<storeVars, managerVars, requestVars, producerVars, agentVars,
                consumerVars, sinkVars, lifeVars, client, canceller, closer>>

\* A task cancelled before its first step never enters its body: no handler, no finally block.
ProducerOver == producer \in {"done", "skipped"}

Event(kind, state, who) == [kind |-> kind, state |-> state, who |-> who]
Events == [kind : {"started", "completed", "task", "status", "message", "error"},
           state : TaskStates \cup {"none"}, who : Clients \cup {NoClient}]
Failure == Event("error", "none", NoClient)
AgentEvents == {Event("message", "none", NoClient)}
               \cup {Event(k, s, NoClient) : k \in {"task", "status"}, s \in AgentStates}

Snapshots == [state : TaskStates \cup {"none"}, ver : Nat]
NoTask == [state |-> "none", ver |-> 0]
Writers == {"consumer", "cancel"}

ActiveTypeOK ==
    /\ db \in Snapshots /\ cache \in Snapshots /\ others \in Nat
    /\ base \in [Writers -> Snapshots]
    /\ {created, finished, requestOpen, requestLock, producerCancel, subsOpen,
        cleaned, producerFailed} \subseteq BOOLEAN
    /\ requestQ \in Seq(Senders) /\ serving \in Clients \cup {NoClient} /\ produced \in Nat
    /\ producer \in {"none", "new", "skipped", "get", "lock", "exec", "drainAgent", "drainSubs", "done"}
    /\ agentQ \in Seq(Events) /\ agentState \in {"open", "draining", "closed"}
    /\ consumer \in {"none", "new", "get", "apply", "retry", "overtaken", "fail", "cancelled",
                    "await", "lost", "done"}
    /\ current \in Events /\ taskMode \in {"unset", "task", "message"}
    /\ sinkQ \in [Clients -> Seq(Events)]
    /\ sinkState \in [Clients -> {"none", "open", "draining", "closed"}]
    /\ client \in [Clients -> {"idle", "read", "held", "result", "done", "refused", "dropped"}]
    /\ refs \in Nat /\ timer \in {"off", "armed"}
    /\ canceller \in {"idle", "executor", "wait", "save", "done"}
    /\ closer \in {"idle", "subscribers", "lock"}

-----------------------------------------------------------------------------
(***************************************************************************)
(* TaskManager over a store that compares and swaps.  get_task() serves    *)
(* the cached task, also a stale one.                                      *)
(***************************************************************************)
Current == IF cache.state # "none" THEN cache ELSE db
IsTerminal(snapshot) == snapshot.state \in TerminalStates

\* Variant: the store takes the write whatever version it was based on.
StaleAccepted(snapshot, state) == FALSE

\* What the store refuses: a write over another version; a cancellation only of a task that
\* is terminal or gone, whatever version it was based on.
Stale(snapshot, state) ==
    IF state = "canceled" THEN db.state = "none" \/ IsTerminal(db) ELSE snapshot.ver # db.ver

Save(snapshot, state) ==
    /\ ~Stale(snapshot, state)
    /\ db' = [state |-> state, ver |-> db.ver + 1]
    /\ cache' = db'
    /\ UNCHANGED others

OthersStep == others < MaxOthers /\ others' = others + 1

\* Another replica advances the task; no writer changes a terminal one (see StatusFinal).
ReplicaWrites ==
    /\ db.state # "none" /\ ~IsTerminal(db)
    /\ \E s \in ReplicaStates : db' = [state |-> s, ver |-> db.ver + 1]
    /\ OthersStep
    /\ UNCHANGED <<managerVars, requestVars, producerVars, agentVars, consumerVars,
                   sinkVars, lifeVars, client, canceller, closer>>

-----------------------------------------------------------------------------
ActiveInit ==
    /\ db \in {NoTask, [state |-> "input", ver |-> 1]} /\ others = 0
    /\ cache = NoTask /\ created = FALSE
    /\ base = [w \in Writers |-> NoTask]
    /\ finished = FALSE
    /\ requestQ = <<>> /\ requestOpen = TRUE /\ requestLock = FALSE
    /\ producer = "none" /\ serving = NoClient /\ produced = 0 /\ producerCancel = FALSE
    /\ agentQ = <<>> /\ agentState = "open"
    /\ consumer = "none" /\ current = Failure /\ taskMode = "unset" /\ producerFailed = FALSE
    /\ subsOpen = TRUE
    /\ sinkQ = [c \in Clients |-> <<>>] /\ sinkState = [c \in Clients |-> "none"]
    /\ client = [c \in Clients |-> "idle"]
    /\ refs = 0 /\ timer = "off" /\ cleaned = FALSE
    /\ canceller = "idle" /\ closer = "idle"

\* start(): a terminal task is refused, otherwise both background tasks are created.
Start ==
    /\ producer = "none" /\ ~finished
    /\ cache' = db
    /\ created' = (db.state # "none")
    /\ IF IsTerminal(db)
       THEN finished' = TRUE /\ cleaned' = (refs = 0) /\ UNCHANGED <<producer, consumer, refs>>
       ELSE /\ producer' = "new" /\ consumer' = "new" /\ refs' = refs + 1
            /\ UNCHANGED <<finished, cleaned>>
    /\ UNCHANGED <<storeVars, base, requestVars, serving, produced, producerCancel, agentVars,
                   current, taskMode, producerFailed, sinkVars, timer, client, canceller, closer>>

\* The first steps of the two tasks, one after the other: a task cancelled before is skipped.
TasksBegin ==
    /\ producer = "new"
    /\ producer' = IF producerCancel THEN "skipped" ELSE "get"
    /\ consumer' = IF consumer = "new" THEN "get" ELSE consumer
    /\ UNCHANGED <<storeVars, managerVars, requestVars, serving, produced, producerCancel, agentVars,
                   current, taskMode, producerFailed, sinkVars, lifeVars, client, canceller, closer>>

\* enqueue_event(): an event for a closed queue is dropped.
Enqueue(event) ==
    agentQ' = IF agentState = "open" THEN Append(agentQ, event) ELSE agentQ

ShutRequests == requestOpen' = FALSE /\ requestQ' = <<>>

\* The finally block of _run_producer(): no more requests, then the agent's queue drains.
ProducerCloses(events) ==
    /\ producer' = "drainAgent"
    /\ ShutRequests
    /\ agentQ' = IF agentState = "open" THEN agentQ \o events ELSE agentQ
    /\ agentState' = IF agentState = "open" THEN "draining" ELSE agentState

-----------------------------------------------------------------------------
(***************************************************************************)
(* The producer.  A cancellation is delivered where the producer waits,    *)
(* and the agent does not suppress it.                                     *)
(***************************************************************************)
ProducerGet ==
    /\ producer = "get" /\ ~producerCancel /\ requestQ # <<>>
    /\ serving' = Head(requestQ) /\ requestQ' = Tail(requestQ)
    /\ producer' = "lock"
    /\ UNCHANGED <<storeVars, managerVars, requestOpen, requestLock, produced, producerCancel,
                   agentVars, consumerVars, sinkVars, lifeVars, client, canceller, closer>>

\* With the lock: drop the snapshot, read again, and refuse a task finished elsewhere.
ProducerBegin ==
    /\ producer = "lock" /\ ~producerCancel /\ ~requestLock
    /\ requestLock' = TRUE
    /\ cache' = db
    /\ produced' = 0
    /\ IF IsTerminal(db)
       THEN ProducerCloses(<<Failure>>)
       ELSE /\ producer' = "exec" /\ Enqueue(Event("started", "none", serving))
            /\ UNCHANGED <<agentState, requestQ, requestOpen>>
    /\ UNCHANGED <<storeVars, base, created, serving, producerCancel, consumerVars, sinkVars, lifeVars, client, canceller, closer>>

AgentEnqueues ==
    /\ producer = "exec" /\ ~producerCancel /\ produced < MaxEvents
    /\ produced' = produced + 1
    /\ \E event \in AgentEvents : Enqueue(event)
    /\ UNCHANGED <<storeVars, managerVars, requestVars, producer, serving, producerCancel,
                   agentState, consumerVars, sinkVars, lifeVars, client, canceller, closer>>

ProducerReturns ==
    /\ producer = "exec" /\ ~producerCancel
    /\ producer' = "get" /\ serving' = NoClient /\ produced' = 0
    /\ Enqueue(Event("completed", "none", serving))
    /\ UNCHANGED <<storeVars, managerVars, requestVars, producerCancel,
                   agentState, consumerVars, sinkVars, lifeVars, client, canceller, closer>>

ProducerRaises ==
    /\ producer = "exec" /\ ~producerCancel
    /\ ProducerCloses(<<Failure>>)
    /\ UNCHANGED <<storeVars, managerVars, requestLock, serving, produced, producerCancel,
                   consumerVars, sinkVars, lifeVars, client, canceller, closer>>

\* The request queue was shut down, or the task was cancelled: both end in the finally block.
ProducerEnds ==
    /\ \/ producer = "get" /\ requestQ = <<>> /\ ~requestOpen /\ ~producerCancel
          /\ UNCHANGED producerCancel
       \/ producer \in {"get", "lock", "exec"} /\ producerCancel /\ producerCancel' = FALSE
    /\ ProducerCloses(<<>>)
    /\ UNCHANGED <<storeVars, managerVars, requestLock, serving, produced, consumerVars, sinkVars, lifeVars, client, canceller, closer>>

\* close() of the subscribers' source: no more taps, every sink drains or is shut at once.
CloseSubscribers(immediate) ==
    /\ subsOpen' = FALSE
    /\ sinkState' = [c \in Clients |-> IF sinkState[c] = "none" THEN "none"
                                       ELSE IF immediate THEN "closed"
                                       ELSE IF sinkState[c] = "open" THEN "draining"
                                       ELSE sinkState[c]]
    /\ sinkQ' = IF immediate THEN [c \in Clients |-> <<>>] ELSE sinkQ

\* close(immediate=False) of the agent queue returns once every event was acknowledged.
ProducerClosesSubscribers ==
    /\ producer = "drainAgent" /\ ~producerCancel
    /\ agentQ = <<>> /\ (consumer \in {"apply", "retry", "fail"} => agentState = "closed")
    /\ CloseSubscribers(FALSE)
    /\ producer' = "drainSubs"
    /\ UNCHANGED <<storeVars, managerVars, requestVars, serving, produced, producerCancel,
                   agentVars, consumerVars, lifeVars, client, canceller, closer>>

SinksDrained == \A c \in Clients : sinkQ[c] = <<>>

\* The sinks were drained, or a cancellation ends the wait of the finally block.
ProducerDone ==
    /\ \/ producer = "drainSubs" /\ SinksDrained
       \/ producer \in {"drainAgent", "drainSubs"} /\ producerCancel
    /\ producer' = "done"
    /\ UNCHANGED <<storeVars, managerVars, requestVars, serving, produced, producerCancel,
                   agentVars, consumerVars, sinkVars, lifeVars, client, canceller, closer>>

-----------------------------------------------------------------------------
(***************************************************************************)
(* The consumer.  An event is read and acknowledged when it was applied.   *)
(***************************************************************************)
\* _deliver_to_sink(): a sink that is full is evicted, one that is closing is skipped.
FanOut(event) ==
    LET full(c) == Len(sinkQ[c]) >= SinkSize
    IN  /\ sinkQ' = [c \in Clients |-> IF sinkState[c] # "open" THEN sinkQ[c]
                                       ELSE IF full(c) THEN <<>> ELSE Append(sinkQ[c], event)]
        /\ sinkState' = [c \in Clients |-> IF sinkState[c] = "open" /\ full(c)
                                           THEN "closed" ELSE sinkState[c]]
        /\ UNCHANGED subsOpen

Acknowledge ==
    consumer' = "get" /\ current' = Failure /\ base' = [base EXCEPT !["consumer"] = NoTask]

\* A terminal state or a message ends the active lifecycle.
Finishing == finished' = TRUE /\ ShutRequests

\* dequeue_event() of an event that needs no store: acknowledged when it was fanned out.
Dequeue(kind) ==
    /\ consumer = "get" /\ agentQ # <<>> /\ Head(agentQ).kind = kind
    /\ agentQ' = Tail(agentQ)

ApplyStarted ==
    /\ Dequeue("started")
    /\ FanOut(Head(agentQ))
    /\ UNCHANGED <<storeVars, managerVars, requestVars, producerVars, agentState, consumerVars,
                   lifeVars, client, canceller, closer>>

\* The next request may start, and the timer of an idle task does.
ApplyCompleted ==
    /\ Dequeue("completed")
    /\ FanOut(Head(agentQ))
    /\ requestLock' = FALSE
    /\ timer' = IF finished THEN timer ELSE "armed"
    /\ UNCHANGED <<storeVars, managerVars, requestQ, requestOpen, producerVars, agentState,
                   consumerVars, finished, refs, cleaned, client, canceller, closer>>

\* A direct message ends the task; a second one, or one for a task, is refused.
ApplyMessage ==
    /\ Dequeue("message")
    /\ IF taskMode = "unset"
       THEN taskMode' = "message" /\ FanOut(Head(agentQ)) /\ Finishing /\ UNCHANGED consumer
       ELSE consumer' = "fail" /\ UNCHANGED <<taskMode, sinkVars, finished, requestQ, requestOpen>>
    /\ UNCHANGED <<storeVars, managerVars, requestLock, producerVars, agentState, current,
                   producerFailed, refs, timer, cleaned, client, canceller, closer>>

ApplyError ==
    /\ Dequeue("error")
    /\ producerFailed' = TRUE /\ consumer' = "fail"
    /\ UNCHANGED <<storeVars, managerVars, requestVars, producerVars, agentState, current,
                   taskMode, sinkVars, lifeVars, client, canceller, closer>>

\* A task or a status: the task is read, and a status for a terminal task is dropped.
ConsumerTake ==
    /\ consumer = "get" /\ agentQ # <<>> /\ Head(agentQ).kind \in {"task", "status"}
    /\ agentQ' = Tail(agentQ)
    /\ cache' = Current
    /\ IF Head(agentQ).kind = "status" /\ IsTerminal(Current)
       THEN UNCHANGED <<consumer, current, base>>
       ELSE /\ current' = Head(agentQ) /\ consumer' = "apply"
            /\ base' = [base EXCEPT !["consumer"] = Current]
    /\ UNCHANGED <<storeVars, created, requestVars, producerVars, agentState, taskMode,
                   producerFailed, sinkVars, lifeVars, client, canceller, closer>>

Base == base["consumer"]

\* What raises: a task event after a message, a status before any task.
Rejected ==
    \/ taskMode = "message"
    \/ current.kind = "status" /\ ~created /\ Base.state = "none"

ApplyRejected ==
    /\ consumer \in {"apply", "retry"} /\ Rejected
    /\ consumer' = "fail"
    /\ UNCHANGED <<storeVars, managerVars, requestVars, producerVars, agentVars, current,
                   taskMode, producerFailed, sinkVars, lifeVars, client, canceller, closer>>

\* A task the store already has is ignored; the event still goes out.
TaskIgnored == current.kind = "task" /\ Base.state # "none"

ApplyTask ==
    /\ consumer \in {"apply", "retry"} /\ ~Rejected
    /\ IF TaskIgnored THEN UNCHANGED <<storeVars, cache>> ELSE Save(Base, current.state)
    /\ taskMode' = "task" /\ created' = TRUE
    /\ IF IsTerminal(IF TaskIgnored THEN Base ELSE db')
       THEN Finishing ELSE UNCHANGED <<finished, requestQ, requestOpen>>
    /\ FanOut(current) /\ Acknowledge
    /\ UNCHANGED <<requestLock, producerVars, agentVars, producerFailed,
                   refs, timer, cleaned, client, canceller, closer>>

\* Another writer was first: read again; a terminal task ends this one, else one more try.
ApplyConflict ==
    /\ consumer = "apply" /\ ~Rejected
    /\ ~TaskIgnored /\ Stale(Base, current.state)
    /\ cache' = db /\ base' = [base EXCEPT !["consumer"] = db]
    /\ IF IsTerminal(db)
       THEN /\ FanOut(Event("task", db.state, NoClient))
            /\ producerCancel' = (producerCancel \/ ~ProducerOver)
            /\ Finishing /\ consumer' = "overtaken"
       ELSE /\ consumer' = "retry"
            /\ UNCHANGED <<sinkVars, producerCancel, finished, requestQ, requestOpen>>
    /\ UNCHANGED <<storeVars, created, requestLock, producer, serving, produced, agentVars,
                   current, taskMode, producerFailed, refs, timer, cleaned, client, canceller, closer>>

\* The second conflict is an error of the request.
RetryConflict ==
    /\ consumer = "retry" /\ ~Rejected /\ ~TaskIgnored /\ Stale(Base, current.state)
    /\ consumer' = "fail"
    /\ UNCHANGED <<storeVars, managerVars, requestVars, producerVars, agentVars, current,
                   taskMode, producerFailed, sinkVars, lifeVars, client, canceller, closer>>

\* The subscribers see the end of a task finished elsewhere, then the loop goes on.
OvertakenCloses ==
    /\ consumer = "overtaken" /\ subsOpen
    /\ CloseSubscribers(FALSE)
    /\ UNCHANGED <<storeVars, managerVars, requestVars, producerVars, agentVars,
                   consumerVars, lifeVars, client, canceller, closer>>

OvertakenGoesOn ==
    /\ consumer = "overtaken" /\ ~subsOpen /\ SinksDrained
    /\ consumer' = "get"
    /\ UNCHANGED <<storeVars, managerVars, requestVars, producerVars, agentVars, current,
                   taskMode, producerFailed, sinkVars, lifeVars, client, canceller, closer>>

\* The finally block of _run_consumer(), up to its wait for the producer.
ConsumerFinishes ==
    /\ Finishing /\ timer' = "off"
    /\ agentQ' = <<>> /\ agentState' = "closed"
    /\ consumer' = "await" /\ current' = Failure

\* _write_failed_status(), and the error to every subscriber whatever became of the write.
\* Nothing suspends between the error and the end of the consumer.
Fail ==
    /\ consumer = "fail"
    /\ IF (Current.state = "none" /\ ~producerFailed) \/ IsTerminal(Current)
       THEN cache' = Current /\ UNCHANGED <<storeVars, created>>
       ELSE \/ Save(Current, "failed") /\ created' = TRUE
            \/ Stale(Current, "failed") /\ cache' = NoTask /\ UNCHANGED <<storeVars, created>>
    /\ FanOut(Failure)
    /\ ConsumerFinishes
    /\ UNCHANGED <<base, requestLock, producerVars, taskMode, producerFailed,
                   refs, cleaned, client, canceller, closer>>

\* The agent's queue was shut down and is empty, or the consumer was cancelled.
ConsumerEnds ==
    /\ \/ consumer = "get" /\ agentQ = <<>> /\ agentState # "open"
       \/ consumer = "cancelled"
    /\ ConsumerFinishes
    /\ UNCHANGED <<storeVars, managerVars, requestLock, producerVars, taskMode, producerFailed,
                   sinkVars, refs, cleaned, client, canceller, closer>>

\* The lifecycle lock is held while an agent's cancel() runs.
LockFree == canceller # "executor"

\* _maybe_cleanup() after a reference was given back.
Unref == refs' = refs - 1 /\ cleaned' = (cleaned \/ (finished /\ refs = 1))

ConsumerDone ==
    /\ consumer = "await" /\ ProducerOver /\ LockFree
    /\ Unref
    /\ consumer' = "done"
    /\ UNCHANGED <<storeVars, managerVars, requestVars, producerVars, agentVars, current,
                   taskMode, producerFailed, sinkVars, finished, timer, client, canceller, closer>>

-----------------------------------------------------------------------------
(***************************************************************************)
(* Clients: subscribe() with a request (on_message_send and its streaming  *)
(* form) or without one (on_subscribe_to_task).                            *)
(***************************************************************************)
\* The count is raised first; a closed source or request queue then raises past the finally.
Subscribe(c) ==
    /\ client[c] = "idle" /\ LockFree /\ producer # "none" /\ ~cleaned
    /\ timer' = "off"
    /\ IF finished
       THEN /\ client' = [client EXCEPT ![c] = "refused"]
            /\ UNCHANGED <<refs, sinkState, requestQ>>
       ELSE /\ refs' = refs + 1
            /\ sinkState' = IF subsOpen THEN [sinkState EXCEPT ![c] = "open"] ELSE sinkState
            /\ LET asked == subsOpen /\ requestOpen /\ c \in Senders
               IN  /\ requestQ' = IF asked THEN Append(requestQ, c) ELSE requestQ
                   /\ client' = [client EXCEPT ![c] =
                          IF asked \/ (subsOpen /\ c \in Watchers) THEN "read" ELSE "dropped"]
    /\ UNCHANGED <<storeVars, managerVars, requestOpen, requestLock, producerVars, agentVars,
                   consumerVars, subsOpen, sinkQ, finished, cleaned, canceller, closer>>

\* What a read event means to a client: go on, hold a result, or leave.
Verdict(c, event) ==
    CASE event.kind = "error" -> "leave"
      [] event.kind = "completed" /\ event.who = c -> "leave"
      [] event.kind = "message" /\ c \in Senders -> "hold"
      [] event.kind \in {"task", "status"} /\ c \in Senders
             /\ event.state \in TerminalStates \cup InterruptedStates ->
             IF event.state = "failed" THEN "hold" ELSE "return"
      [] OTHER -> "next"

\* Variant: a subscriber that leaves takes no reference with it.
LeaveKeepsReference(c, held) ==
    /\ LockFree
    /\ sinkState' = [sinkState EXCEPT ![c] = "closed"]
    /\ sinkQ' = [sinkQ EXCEPT ![c] = <<>>]
    /\ refs' = 0 /\ cleaned' = (cleaned \/ finished)
    /\ timer' = IF finished THEN timer ELSE "armed"
    /\ client' = [client EXCEPT ![c] = IF held \/ c \in Watchers THEN "done" ELSE "result"]

\* The finally block of subscribe(): detach the sink, give the reference back, arm the timer.
Leave(c, held) ==
    /\ LockFree
    /\ sinkState' = [sinkState EXCEPT ![c] = "closed"]
    /\ sinkQ' = [sinkQ EXCEPT ![c] = <<>>]
    /\ Unref
    /\ timer' = IF finished THEN timer ELSE "armed"
    /\ client' = [client EXCEPT ![c] = IF held \/ c \in Watchers THEN "done" ELSE "result"]

Reading(c) == client[c] \in {"read", "held"}

ClientReads(c) ==
    /\ Reading(c) /\ sinkQ[c] # <<>>
    /\ LET event == Head(sinkQ[c])
           verdict == Verdict(c, event)
       IN  CASE verdict = "next" -> /\ sinkQ' = [sinkQ EXCEPT ![c] = Tail(@)]
                                    /\ UNCHANGED <<sinkState, refs, cleaned, timer, client>>
             [] verdict = "hold" -> /\ sinkQ' = [sinkQ EXCEPT ![c] = Tail(@)]
                                    /\ client' = [client EXCEPT ![c] = "held"]
                                    /\ UNCHANGED <<sinkState, refs, cleaned, timer>>
             [] verdict = "return" -> Leave(c, TRUE)
             [] verdict = "leave" -> Leave(c, client[c] = "held" \/ event.kind = "error")
    /\ UNCHANGED <<storeVars, managerVars, requestVars, producerVars, agentVars, consumerVars,
                   subsOpen, finished, canceller, closer>>

\* The sink was closed and drained, or the client disconnects.
SinkEnded(c) == sinkQ[c] = <<>> /\ sinkState[c] # "open"

ClientEnds(c) ==
    /\ Reading(c) /\ SinkEnded(c)
    /\ Leave(c, client[c] = "held")
    /\ UNCHANGED <<storeVars, managerVars, requestVars, producerVars, agentVars, consumerVars,
                   subsOpen, finished, canceller, closer>>

ClientDisconnects(c) ==
    /\ Reading(c) /\ OthersStep
    /\ Leave(c, TRUE)
    /\ UNCHANGED <<db, managerVars, requestVars, producerVars, agentVars, consumerVars,
                   subsOpen, finished, canceller, closer>>

\* on_message_send without a result waits for the task to exist.
ClientGetsTask(c) ==
    /\ client[c] = "result" /\ created
    /\ client' = [client EXCEPT ![c] = "done"]
    /\ cache' = Current
    /\ UNCHANGED <<storeVars, base, created, requestVars, producerVars, agentVars, consumerVars,
                   sinkVars, lifeVars, canceller, closer>>

-----------------------------------------------------------------------------
(***************************************************************************)
(* Other callers.                                                          *)
(***************************************************************************)
\* cancel(): the agent's own cancel() runs first, with the lock; the producer afterwards.
CancelCalled ==
    /\ canceller = "idle" /\ producer # "none" /\ OthersStep
    /\ cache' = Current
    /\ canceller' = IF finished THEN "wait" ELSE "executor"
    /\ UNCHANGED <<db, base, created, requestVars, producerVars, agentVars, consumerVars,
                   sinkVars, lifeVars, client, closer>>

\* Variant: the producer is left running.
AgentCancelsAlone ==
    /\ canceller = "executor"
    /\ \/ Enqueue(Event("status", "canceled", NoClient)) /\ canceller' = "wait"
       \/ UNCHANGED agentQ /\ canceller' = "wait"
    /\ UNCHANGED <<storeVars, managerVars, requestVars, producerVars, agentState,
                   consumerVars, sinkVars, lifeVars, client, closer>>

\* The agent may write the terminal status itself, do nothing, or raise.
AgentCancels ==
    /\ canceller = "executor"
    /\ \/ Enqueue(Event("status", "canceled", NoClient)) /\ canceller' = "wait"
       \/ UNCHANGED agentQ /\ canceller' = "wait"
       \/ /\ IF created /\ Current.state # "none" /\ ~IsTerminal(Current)
             THEN Enqueue(Event("status", "failed", NoClient)) ELSE UNCHANGED agentQ
          /\ canceller' = "done"
    /\ producerCancel' = (producerCancel \/ ~ProducerOver)
    /\ UNCHANGED <<storeVars, managerVars, requestVars, producer, serving, produced, agentState,
                   consumerVars, sinkVars, lifeVars, client, closer>>

CancelRereads ==
    /\ canceller = "wait" /\ finished
    /\ cache' = db /\ base' = [base EXCEPT !["cancel"] = db]
    /\ canceller' = IF db.state = "none" \/ IsTerminal(db) THEN "done" ELSE "save"
    /\ UNCHANGED <<storeVars, created, requestVars, producerVars, agentVars, consumerVars,
                   sinkVars, lifeVars, client, closer>>

\* A task nobody closed is written as canceled; a lost race is the caller's error.
CancelSaves ==
    /\ canceller = "save"
    /\ \/ Save(base["cancel"], "canceled")
       \/ Stale(base["cancel"], "canceled") /\ UNCHANGED <<storeVars, cache>>
    /\ canceller' = "done"
    /\ UNCHANGED <<base, created, requestVars, producerVars, agentVars, consumerVars,
                   sinkVars, lifeVars, client, closer>>

\* _release_when_idle(): a task parked in an interrupted state and tailed by nobody ends.
IdleRelease ==
    /\ timer = "armed" /\ LockFree
    /\ timer' = "off"
    /\ cache' = Current
    /\ IF /\ Current.state \in InterruptedStates /\ ~finished
          /\ refs = 1 /\ ~requestLock /\ requestQ = <<>>
       THEN Finishing
       ELSE UNCHANGED <<finished, requestQ, requestOpen>>
    /\ UNCHANGED <<storeVars, base, created, requestLock, producerVars, agentVars, consumerVars,
                   sinkVars, refs, cleaned, client, canceller, closer>>

\* aclose() shuts the requests and the agent's queue, then the subscribers, without the lock;
\* with the lock it cancels both background tasks.
AcloseCalled ==
    /\ closer = "idle" /\ OthersStep /\ closer' = "subscribers"
    /\ ShutRequests
    /\ agentQ' = <<>> /\ agentState' = "closed"
    /\ UNCHANGED <<db, managerVars, requestLock, producerVars, consumerVars, sinkVars, lifeVars,
                   client, canceller>>

AcloseSubscribers ==
    /\ closer = "subscribers" /\ closer' = "lock"
    /\ CloseSubscribers(TRUE)
    /\ UNCHANGED <<storeVars, managerVars, requestVars, producerVars, agentVars, consumerVars,
                   lifeVars, client, canceller>>

\* What becomes of a cancelled consumer: one that waits for the producer goes on when that
\* ends; one that has not started, or queues for the lock behind aclose() while cancel() had
\* it, never gives its reference back.
ConsumerCancelled ==
    CASE consumer = "new" -> {"lost"}
      [] consumer = "await" /\ ProducerOver /\ canceller # "idle" -> {"await", "lost"}
      [] consumer \in {"none", "await", "lost", "done"} -> {consumer}
      [] OTHER -> {"cancelled"}

AcloseCancels ==
    /\ closer = "lock" /\ LockFree /\ closer' = "idle"
    /\ finished' = TRUE /\ timer' = "off"
    /\ producerCancel' = (producer # "none" /\ ~ProducerOver)
    /\ consumer' \in ConsumerCancelled
    /\ UNCHANGED <<storeVars, managerVars, requestVars, producer, serving, produced, agentVars,
                   current, taskMode, producerFailed, sinkVars, refs, cleaned, client, canceller>>

-----------------------------------------------------------------------------
ProducerNext ==
    \/ ProducerGet \/ ProducerBegin \/ AgentEnqueues \/ ProducerReturns \/ ProducerRaises
    \/ ProducerEnds \/ ProducerClosesSubscribers \/ ProducerDone
ConsumerNext ==
    \/ ApplyStarted \/ ApplyCompleted \/ ApplyMessage \/ ApplyError
    \/ ConsumerTake \/ ApplyRejected
    \/ ApplyTask \/ ApplyConflict \/ RetryConflict \/ OvertakenCloses \/ OvertakenGoesOn
    \/ Fail \/ ConsumerEnds \/ ConsumerDone
CloseNext == AcloseCalled \/ AcloseSubscribers \/ AcloseCancels
CancelNext == CancelCalled \/ AgentCancels \/ CancelRereads \/ CancelSaves

ActiveNext ==
    \/ Start \/ TasksBegin \/ ReplicaWrites \/ ProducerNext \/ ConsumerNext \/ CancelNext
    \/ IdleRelease \/ CloseNext
    \/ \E c \in Clients : \/ Subscribe(c) \/ ClientReads(c) \/ ClientEnds(c)
                          \/ ClientDisconnects(c) \/ ClientGetsTask(c)

ActiveSpec == ActiveInit /\ [][ActiveNext]_activeVars

\* The event loop runs every ready task, an agent's execute() and cancel() end, a client reads.
ActiveFairness ==
    /\ WF_activeVars(TasksBegin) /\ WF_activeVars(ConsumerNext)
    /\ WF_activeVars(ProducerGet) /\ WF_activeVars(ProducerBegin)
    /\ WF_activeVars(ProducerReturns \/ ProducerRaises)
    /\ WF_activeVars(ProducerEnds \/ ProducerClosesSubscribers \/ ProducerDone)
    /\ WF_activeVars(AgentCancels) /\ WF_activeVars(CancelRereads \/ CancelSaves)
    /\ WF_activeVars(AcloseSubscribers \/ AcloseCancels)
    /\ \A c \in Clients : WF_activeVars(ClientReads(c) \/ ClientEnds(c))
ActiveFairSpec == ActiveSpec /\ ActiveFairness

-----------------------------------------------------------------------------
\* A terminal state of the stored task is never overwritten, whoever writes: the consumer, its
\* failure path, cancel() or another replica.
StatusFinal == [][IsTerminal(db) => db' = db]_db

\* The task is dropped from the registry only when nobody tails it and its consumer ended.
CleanedUnused == cleaned => consumer \in {"none", "done"} /\ ~\E c \in Clients : Reading(c)

\* cancel() returns once the agent's own cancel() did: the task it waits for does finish.  The
\* exception is the code's: a producer that cancel() reached before its first step closes nothing.
CancelReturns == (canceller # "idle") ~> (canceller = "done" \/ producer = "skipped")

\* A message/send that waits on its subscription returns, also when cancel() interrupts a
\* producer that has started: _run_producer() is "Safe to cancel".
RequestReturns == \A c \in Senders : Reading(c) ~> (~Reading(c) \/ producer = "skipped")
=============================================================================
