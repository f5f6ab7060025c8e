--------------------------- MODULE LegacyHandler ---------------------------
(* The older request handler on one task: every message starts an agent run *)
(* (producer) that feeds a queue, the request's consumer applies what it    *)
(* reads to the request's own copy of the task and stores that, further     *)
(* requests tap the task's registered queue, and a cleanup waits for the    *)
(* producer, closes the registered queue and forgets the agent.  Clients    *)
(* leave at any moment, saves fail, and nothing orders the saves of two     *)
(* requests.  Capacity (1024) is not reached.                               *)
EXTENDS Naturals, Sequences, FiniteSets, SequencesExt

CONSTANTS LegacyCalls,       \* requests, numbered as they arrive
          NoCaller,          \* no request
          LegacyKinds,       \* kinds of events each request's agent emits
          LegacyEvents       \* bound: events of each request's agent run

ASSUME LegacyConstants == NoCaller \notin LegacyCalls

VARIABLES lgCall,            \* kind and state of each request
          lgQueue,           \* its queue: items, open, the queue it taps
          lgRoot,            \* owner of the registered queue of the task
          lgRunning,         \* _running_agents: the request whose producer is registered
          lgProducer, lgJoin,  \* the agent run, and the queues its close() waits for
          lgConsumer,        \* the request's event consumer
          lgCleanup, lgDrain,  \* _cleanup_producer, and the queues it waits for
          lgTask,            \* the stored task: none, open or ended, the events it has, its writer
          lgCopy,            \* the copy of the task a request's TaskManager has read
          lgSaved,           \* own agent's events a request's consumer saved
          lgAccepted,        \* events a request's own queue took from its agent
          lgLost             \* those whose save failed or the client's leaving interrupted
legacyLog == <<lgTask, lgCopy, lgSaved, lgAccepted, lgLost>>
legacyVars == <<lgCall, lgQueue, lgRoot, lgRunning, lgProducer, lgJoin, lgConsumer, lgCleanup,
                lgDrain, legacyLog>>

NoEvent == [kind |-> "none"]
Ends(e) == e.kind \in {"done", "input"}
Children(q) == {r \in LegacyCalls : lgQueue[r].taps = q}

(* ---- EventQueueLegacy ---- *)
\* the queue and what taps it; a closed one drops the event
Enqueued(q, e) ==
    [r \in LegacyCalls |->
        IF r \in {q} \cup Children(q) /\ lgQueue[r].open /\ lgQueue[q].open
        THEN [lgQueue[r] EXCEPT !.items = Append(@, e)] ELSE lgQueue[r]]
\* close(): the taps close too, and all are joined; a closed queue is left alone
ClosedQueue(q) ==
    [r \in LegacyCalls |-> IF r \in {q} \cup Children(q) /\ lgQueue[q].open
                           THEN [lgQueue[r] EXCEPT !.open = FALSE] ELSE lgQueue[r]]
Joined(q) == {r \in {q} \cup Children(q) : lgQueue[q].open /\ lgQueue[r].open}
\* close(immediate): what is unread is dropped, in the taps as well
ShutQueue(q) ==
    [r \in LegacyCalls |-> IF r \in {q} \cup Children(q)
                           THEN [lgQueue[r] EXCEPT !.open = FALSE, !.items = <<>>]
                           ELSE lgQueue[r]]
Drained(queues) == \A r \in queues : lgQueue[r].items = <<>>

LegacyInit ==
    /\ lgCall = [r \in LegacyCalls |-> [kind |-> "none", state |-> "none"]]
    /\ lgQueue = [r \in LegacyCalls |-> [items |-> <<>>, open |-> FALSE, taps |-> NoCaller]]
    /\ lgRoot = NoCaller /\ lgRunning = NoCaller
    /\ lgProducer = [r \in LegacyCalls |-> "none"] /\ lgJoin = [r \in LegacyCalls |-> {}]
    /\ lgConsumer = [r \in LegacyCalls |-> [pc |-> "none", event |-> NoEvent, failed |-> 0]]
    /\ lgCleanup = [r \in LegacyCalls |-> "none"] /\ lgDrain = [r \in LegacyCalls |-> {}]
    /\ lgTask = [state |-> "none", has |-> {}, by |-> NoCaller]
    /\ lgCopy = [r \in LegacyCalls |-> [read |-> FALSE, has |-> {}]]
    /\ lgSaved = [r \in LegacyCalls |-> <<>>]
    /\ lgAccepted = [r \in LegacyCalls |-> <<>>] /\ lgLost = [r \in LegacyCalls |-> {}]

(* ---- requests ---- *)
Sends == {"send", "quick", "stream"}
\* the stored task is read first: a message without a task names none, any other request one
\* that has not ended; a message keeps what it has read
RequestArrives(r) ==
    \E kind \in Sends \cup {"subscribe", "cancel"} :
        /\ lgCall[r].kind = "none" /\ \A p \in LegacyCalls : p < r => lgCall[p].kind # "none"
        /\ \/ lgTask.state = "open"
           \/ /\ lgTask.state = "none" /\ kind \in Sends
              /\ \A p \in LegacyCalls : lgCall[p].kind = "none"
        /\ lgCall' = [lgCall EXCEPT ![r] = [kind |-> kind, state |-> "open"]]
        /\ lgConsumer' = [lgConsumer EXCEPT ![r].pc = "setup"]
        /\ lgCopy' = IF kind \in Sends /\ lgTask.state = "open"
                     THEN [lgCopy EXCEPT ![r] = [read |-> TRUE, has |-> lgTask.has]] ELSE lgCopy
        /\ UNCHANGED <<lgQueue, lgRoot, lgRunning, lgProducer, lgJoin, lgCleanup, lgDrain, lgTask,
                       lgSaved, lgAccepted, lgLost>>
\* a new queue, or a tap of the registered one
Opens(r, kinds, pc) ==
    /\ lgConsumer[r].pc = "setup" /\ lgCall[r].kind \in kinds
    /\ lgQueue' = [lgQueue EXCEPT ![r] = [items |-> <<>>, open |-> TRUE, taps |-> lgRoot]]
    /\ lgConsumer' = [lgConsumer EXCEPT ![r].pc = pc]
    /\ UNCHANGED <<lgCall, lgJoin, lgCleanup, lgDrain, legacyLog>>
\* create_or_tap; the producer replaces the registered one
SendMessage(r) ==
    /\ Opens(r, Sends, "waiting")
    /\ lgRoot' = IF lgRoot = NoCaller THEN r ELSE lgRoot
    /\ lgProducer' = [lgProducer EXCEPT ![r] = "running"] /\ lgRunning' = r
Subscribe(r) ==
    /\ lgRoot # NoCaller /\ Opens(r, {"subscribe"}, "waiting")
    /\ UNCHANGED <<lgRoot, lgRunning, lgProducer>>
\* the tap, or a queue nobody else sees, is handed to the agent's cancel()
CancelTask(r) ==
    /\ Opens(r, {"cancel"}, "agent")
    /\ UNCHANGED <<lgRoot, lgRunning, lgProducer>>
\* the agent may answer; it may also say nothing
CancelAnswers(r) ==
    /\ lgConsumer[r].pc = "agent"
    /\ lgQueue' = Enqueued(r, [by |-> r, n |-> 1, kind |-> "done"])
    /\ lgConsumer' = [lgConsumer EXCEPT ![r].pc = "told"]
    /\ UNCHANGED <<lgCall, lgRoot, lgRunning, lgProducer, lgJoin, lgCleanup, lgDrain, legacyLog>>
Cancelled(p) == IF p \in {"running", "closing"} THEN "cancelled" ELSE p
\* cancel() has returned: the producer registered now is cancelled
CancelProducer(r) ==
    /\ lgConsumer[r].pc \in {"agent", "told"}
    /\ lgProducer' = [p \in LegacyCalls |-> IF p = lgRunning THEN Cancelled(lgProducer[p])
                                            ELSE lgProducer[p]]
    /\ lgConsumer' = [lgConsumer EXCEPT ![r].pc = "waiting"]
    /\ UNCHANGED <<lgCall, lgQueue, lgRoot, lgRunning, lgJoin, lgCleanup, lgDrain, legacyLog>>
\* before its events are read: the client leaves, or something awaited raises (no queue to
\* subscribe to, the agent's cancel()); nothing is undone
SetupAbandoned(r) ==
    /\ lgConsumer[r].pc \in {"setup", "agent", "told"}
    /\ lgCall' = [lgCall EXCEPT ![r].state = "gone"]
    /\ lgConsumer' = [lgConsumer EXCEPT ![r].pc = "stopped"]
    /\ UNCHANGED <<lgQueue, lgRoot, lgRunning, lgProducer, lgJoin, lgCleanup, lgDrain, legacyLog>>

(* ---- the agent run ---- *)
AgentEmits(r) ==
    \E kind \in LegacyKinds[r] :
        LET e == [by |-> r, n |-> Len(lgAccepted[r]) + 1, kind |-> kind]
        IN /\ lgProducer[r] = "running" /\ Len(lgAccepted[r]) < LegacyEvents[r]
           /\ lgQueue[r].open /\ lgQueue' = Enqueued(r, e)
           /\ lgAccepted' = [lgAccepted EXCEPT ![r] = Append(@, e)]
           /\ UNCHANGED <<lgCall, lgRoot, lgRunning, lgProducer, lgJoin, lgConsumer, lgCleanup,
                          lgDrain, lgTask, lgCopy, lgSaved, lgLost>>
\* bug variant: the queue is shut down at once
CloseImmediate(r) ==
    /\ lgProducer[r] = "running"
    /\ lgQueue' = ShutQueue(r) /\ lgJoin' = [lgJoin EXCEPT ![r] = {}]
    /\ lgProducer' = [lgProducer EXCEPT ![r] = "closing"]
    /\ UNCHANGED <<lgCall, lgRoot, lgRunning, lgConsumer, lgCleanup, lgDrain, legacyLog>>
AgentReturns(r) ==
    /\ lgProducer[r] = "running"
    /\ lgQueue' = ClosedQueue(r) /\ lgJoin' = [lgJoin EXCEPT ![r] = Joined(r)]
    /\ lgProducer' = [lgProducer EXCEPT ![r] = "closing"]
    /\ UNCHANGED <<lgCall, lgRoot, lgRunning, lgConsumer, lgCleanup, lgDrain, legacyLog>>
ProducerEnds(r) ==
    /\ lgProducer[r] = "closing" /\ Drained(lgJoin[r])
    /\ lgProducer' = [lgProducer EXCEPT ![r] = "done"] /\ lgJoin' = [lgJoin EXCEPT ![r] = {}]
    /\ UNCHANGED <<lgCall, lgQueue, lgRoot, lgRunning, lgConsumer, lgCleanup, lgDrain,
                   legacyLog>>
\* agent_task_callback; a consumer that is in its wait reads one more event
AgentRaises(r) ==
    /\ lgProducer[r] = "running"
    /\ lgProducer' = [lgProducer EXCEPT ![r] = "failed"]
    /\ lgConsumer' = [lgConsumer EXCEPT ![r].failed = IF lgConsumer[r].pc = "waiting" THEN 1 ELSE 2]
    /\ UNCHANGED <<lgCall, lgQueue, lgRoot, lgRunning, lgJoin, lgCleanup, lgDrain, legacyLog>>

(* ---- the consumer ---- *)
\* an event that ends the run shuts the queue before it is handed on
Dequeue(r) ==
    LET e == Head(lgQueue[r].items)
    IN /\ lgConsumer[r].pc = "waiting" /\ lgConsumer[r].failed < 2
       /\ lgQueue[r].items # <<>>
       /\ lgQueue' = IF Ends(e) THEN ShutQueue(r) ELSE [lgQueue EXCEPT ![r].items = Tail(@)]
       /\ lgConsumer' = [lgConsumer EXCEPT ![r] = [pc |-> "saving", event |-> e,
                            failed |-> IF lgConsumer[r].failed = 0 THEN 0 ELSE 2]]
       /\ UNCHANGED <<lgCall, lgRoot, lgRunning, lgProducer, lgJoin, lgCleanup, lgDrain, legacyLog>>
After(e) == IF Ends(e) THEN "ended" ELSE "waiting"
\* a copy that was not read before is read at the first save; a task nobody stored is created
LoadTask(r) ==
    /\ lgConsumer[r].pc = "saving" /\ ~lgCopy[r].read
    /\ lgCopy' = [lgCopy EXCEPT ![r] = [read |-> TRUE, has |-> lgTask.has]]
    /\ lgTask' = IF lgTask.state = "none" THEN [state |-> "open", has |-> {}, by |-> r] ELSE lgTask
    /\ UNCHANGED <<lgCall, lgQueue, lgRoot, lgRunning, lgProducer, lgJoin, lgConsumer, lgCleanup,
                   lgDrain, lgSaved, lgAccepted, lgLost>>
\* the copy with the event applied replaces whatever is stored
Stored(r, e) == [state |-> IF e.kind = "done" THEN "ended" ELSE "open",
                 has |-> lgCopy[r].has \cup {e}, by |-> r]
\* message/send goes on in the background after the first event, or an auth-required one
Interrupts(r, e) == \/ lgCall[r].kind = "quick"
                    \/ lgCall[r].kind = "send" /\ e.kind = "auth"
SaveEvent(r) ==
    LET e == lgConsumer[r].event
        open == lgCall[r].state = "open"
        interrupts == open /\ Interrupts(r, e)
    IN /\ lgConsumer[r].pc = "saving" /\ lgCopy[r].read
       /\ lgTask' = Stored(r, e)
       /\ lgCopy' = [lgCopy EXCEPT ![r] = [read |-> TRUE, has |-> lgCopy[r].has \cup {e}]]
       /\ lgSaved' = [lgSaved EXCEPT ![r] = IF e.by = r THEN Append(@, e) ELSE @]
       /\ lgConsumer' = [lgConsumer EXCEPT ![r] =
                            IF open /\ lgCall[r].kind \in {"stream", "subscribe"}
                            THEN [@ EXCEPT !.pc = "yielding"]
                            ELSE [@ EXCEPT !.pc = After(e), !.event = NoEvent]]
       /\ lgCall' = [lgCall EXCEPT ![r].state = IF interrupts THEN "answered" ELSE @]
       /\ lgCleanup' = [lgCleanup EXCEPT ![r] = IF interrupts THEN "waiting" ELSE @]
       /\ UNCHANGED <<lgQueue, lgRoot, lgRunning, lgProducer, lgJoin, lgDrain, lgAccepted, lgLost>>
\* a save that does not return may have been stored or not; the copy is as it was
Unreturned(r) == lgTask' \in {lgTask} \cup
                    (IF lgCopy[r].read THEN {Stored(r, lgConsumer[r].event)} ELSE {})
\* process() raises: a bad event, the store, a conflict.  The event is lost and its consumer
\* ends; a send cancels its producer and waits for the cleanup, a stream leaves both alone
SaveFails(r) ==
    LET open == lgCall[r].state = "open"
        send == open /\ lgCall[r].kind \in {"send", "quick"}
    IN /\ lgConsumer[r].pc = "saving" /\ Unreturned(r)
       /\ lgLost' = [lgLost EXCEPT ![r] = @ \cup {lgConsumer[r].event}]
       /\ lgConsumer' = [lgConsumer EXCEPT ![r].pc = "failed", ![r].event = NoEvent]
       /\ lgCall' = [lgCall EXCEPT ![r].state = IF send THEN "failing"
                                                ELSE IF open THEN "failed" ELSE @]
       /\ lgProducer' = [lgProducer EXCEPT ![r] = IF send THEN Cancelled(@) ELSE @]
       /\ lgCleanup' = [lgCleanup EXCEPT ![r] =
                            IF open /\ lgCall[r].kind \in Sends THEN "waiting" ELSE @]
       /\ UNCHANGED <<lgQueue, lgRoot, lgRunning, lgJoin, lgDrain, lgCopy, lgSaved, lgAccepted>>
ClientTakes(r) ==
    /\ lgConsumer[r].pc = "yielding"
    /\ lgConsumer' = [lgConsumer EXCEPT ![r].pc = After(lgConsumer[r].event),
                                              ![r].event = NoEvent]
    /\ UNCHANGED <<lgCall, lgQueue, lgRoot, lgRunning, lgProducer, lgJoin, lgCleanup, lgDrain,
                   legacyLog>>
QueueEnds(r) ==
    /\ lgConsumer[r].pc = "waiting" /\ ~lgQueue[r].open /\ lgQueue[r].items = <<>>
    /\ lgConsumer' = [lgConsumer EXCEPT ![r].pc = "ended"]
    /\ UNCHANGED <<lgCall, lgQueue, lgRoot, lgRunning, lgProducer, lgJoin, lgCleanup, lgDrain,
                   legacyLog>>
HasCleanup(r) == lgCall[r].kind \in Sends
\* the request ends with its consumer; a send waits for its cleanup first
RequestEnds(r) ==
    /\ lgConsumer[r].pc = "ended" /\ lgCall[r].state = "open"
    /\ lgCall' = [lgCall EXCEPT ![r].state =
                    IF lgCall[r].kind \in {"send", "quick"} THEN "cleaning" ELSE "answered"]
    /\ lgCleanup' = [lgCleanup EXCEPT ![r] = IF HasCleanup(r) THEN "waiting" ELSE @]
    /\ UNCHANGED <<lgQueue, lgRoot, lgRunning, lgProducer, lgJoin, lgConsumer, lgDrain, legacyLog>>
\* the agent's exception reaches the request, or ends the background consumer
FailureRaised(r) ==
    /\ lgConsumer[r].pc = "waiting" /\ lgConsumer[r].failed > 0
    /\ lgConsumer' = [lgConsumer EXCEPT ![r].pc = "failed"]
    /\ lgCall' = [lgCall EXCEPT ![r].state =
                    IF @ # "open" THEN @
                    ELSE IF lgCall[r].kind = "stream" THEN "failed" ELSE "failing"]
    /\ lgCleanup' = [lgCleanup EXCEPT ![r] = IF lgCall[r].state = "open" THEN "waiting" ELSE @]
    /\ UNCHANGED <<lgQueue, lgRoot, lgRunning, lgProducer, lgJoin, lgDrain, legacyLog>>
\* a stream is consumed on in the background, whatever else is abandoned
ClientLeaves(r) ==
    /\ lgCall[r].state = "open" /\ lgConsumer[r].pc \in {"waiting", "saving", "yielding"}
    /\ lgCall' = [lgCall EXCEPT ![r].state = "gone"]
    /\ lgConsumer' = [lgConsumer EXCEPT ![r].event = NoEvent,
                        ![r].pc = IF lgCall[r].kind = "stream" THEN "waiting" ELSE "stopped"]
    /\ \/ lgConsumer[r].pc = "saving" /\ Unreturned(r)
       \/ lgConsumer[r].pc # "saving" /\ UNCHANGED lgTask
    /\ lgLost' = [lgLost EXCEPT ![r] = @ \cup IF lgConsumer[r].pc = "saving"
                                             THEN {lgConsumer[r].event} ELSE {}]
    /\ lgCleanup' = [lgCleanup EXCEPT ![r] = IF HasCleanup(r) THEN "waiting" ELSE @]
    /\ UNCHANGED <<lgQueue, lgRoot, lgRunning, lgProducer, lgJoin, lgDrain, lgCopy, lgSaved,
                   lgAccepted>>

(* ---- _cleanup_producer ---- *)
\* what the agent raised is raised here, before the queue is closed
CleanupRaises(r) ==
    /\ lgCleanup[r] = "waiting"
    /\ lgProducer[r] = "failed" \/ (lgProducer[r] \in {"done", "cancelled"} /\ lgRoot = NoCaller)
    /\ lgCleanup' = [lgCleanup EXCEPT ![r] = "raised"]
    /\ UNCHANGED <<lgCall, lgQueue, lgRoot, lgRunning, lgProducer, lgJoin, lgConsumer, lgDrain,
                   legacyLog>>
CleanupCloses(r) ==
    /\ lgCleanup[r] = "waiting" /\ lgProducer[r] \in {"done", "cancelled"} /\ lgRoot # NoCaller
    /\ lgQueue' = ClosedQueue(lgRoot)
    /\ lgDrain' = [lgDrain EXCEPT ![r] = Joined(lgRoot)]
    /\ lgRoot' = NoCaller /\ lgCleanup' = [lgCleanup EXCEPT ![r] = "joining"]
    /\ UNCHANGED <<lgCall, lgRunning, lgProducer, lgJoin, lgConsumer, legacyLog>>
CleanupEnds(r) ==
    /\ lgCleanup[r] = "joining" /\ Drained(lgDrain[r])
    /\ lgCleanup' = [lgCleanup EXCEPT ![r] = "done"] /\ lgRunning' = NoCaller
    /\ lgDrain' = [lgDrain EXCEPT ![r] = {}]
    /\ UNCHANGED <<lgCall, lgQueue, lgRoot, lgProducer, lgJoin, lgConsumer, legacyLog>>
\* the cancelled wait cancels the producer and goes on; a cancelled join ends the cleanup
LeavesCleanup(r) ==
    /\ lgCall[r].state \in {"cleaning", "failing"}
    /\ \/ /\ lgCleanup[r] = "waiting" /\ lgProducer[r] \in {"running", "closing"}
          /\ lgProducer' = [lgProducer EXCEPT ![r] = "cancelled"] /\ UNCHANGED lgCleanup
       \/ /\ lgCleanup[r] = "joining" /\ ~Drained(lgDrain[r])
          /\ lgCleanup' = [lgCleanup EXCEPT ![r] = "raised"] /\ UNCHANGED lgProducer
    /\ UNCHANGED <<lgCall, lgQueue, lgRoot, lgRunning, lgJoin, lgConsumer, lgDrain, legacyLog>>
SendAnswered(r) ==
    /\ lgCall[r].state \in {"cleaning", "failing"} /\ lgCleanup[r] \in {"done", "raised"}
    /\ lgCall' = [lgCall EXCEPT ![r].state =
                    IF @ = "cleaning" /\ lgCleanup[r] = "done" THEN "answered" ELSE "failed"]
    /\ UNCHANGED <<lgQueue, lgRoot, lgRunning, lgProducer, lgJoin, lgConsumer, lgCleanup, lgDrain,
                   legacyLog>>

LegacyNext ==
    \E r \in LegacyCalls :
        \/ RequestArrives(r) \/ SendMessage(r) \/ Subscribe(r) \/ CancelTask(r)
        \/ CancelAnswers(r) \/ CancelProducer(r) \/ SetupAbandoned(r)
        \/ AgentEmits(r) \/ AgentReturns(r) \/ ProducerEnds(r) \/ AgentRaises(r)
        \/ Dequeue(r) \/ LoadTask(r) \/ SaveEvent(r) \/ SaveFails(r) \/ ClientTakes(r)
        \/ QueueEnds(r) \/ RequestEnds(r)
        \/ FailureRaised(r) \/ ClientLeaves(r)
        \/ CleanupRaises(r) \/ CleanupCloses(r) \/ CleanupEnds(r) \/ LeavesCleanup(r)
        \/ SendAnswered(r)

InHand(r) == ToSet(lgQueue[r].items) \cup
             (IF lgConsumer[r].pc = "saving" THEN {lgConsumer[r].event} ELSE {})
Finals(r) == {e \in ToSet(lgAccepted[r]) : Ends(e)}
(* A request that created its task's queue drops no event of its agent:     *)
(* whether its client stays, leaves a stream or was answered early, and     *)
(* whatever other requests on the task do, every event the queue accepted,  *)
(* up to the one that ends the run, is saved once and in order or still in  *)
(* its queue or in hand, except the one whose save failed, which ends the   *)
(* consumer, or was interrupted by the client's leaving.  An agent that     *)
(* raises is the other exception.  What a request saved is in the stored    *)
(* task until another request stores a copy of its own over it.             *)
LegacyKept ==
    \A r \in LegacyCalls :
        /\ lgQueue[r].taps = NoCaller /\ lgProducer[r] # "failed" =>
            /\ \A e \in ToSet(lgAccepted[r]) :
                 (\A f \in Finals(r) : e.n <= f.n) =>
                    e \in InHand(r) \cup lgLost[r] \cup ToSet(lgSaved[r])
            /\ \A i, j \in DOMAIN lgSaved[r] : i < j => lgSaved[r][i].n < lgSaved[r][j].n
            /\ lgLost[r] # {} => lgCall[r].state = "gone" \/ lgConsumer[r].pc = "failed"
        /\ lgTask.by = r => ToSet(lgSaved[r]) \subseteq lgTask.has
=============================================================================
