-------------------------- MODULE ActiveTaskProofs --------------------------
(***************************************************************************)
(* Proofs about the lifecycle of an ActiveTask, for any number of clients, *)
(* any agent and any writes of other replicas: a stored terminal state is  *)
(* final, and the task is dropped from the registry only when it is        *)
(* unused.                                                                 *)
(***************************************************************************)
EXTENDS ActiveTask, FiniteSetTheorems, TLAPS

(***************************************************************************)
(* What a writer knows of the store: a task and a version it once had.     *)
(***************************************************************************)
IsSnapshot(s) == s = [state |-> s.state, ver |-> s.ver] /\ s.ver \in Nat
Seen(d, s) == IsSnapshot(s) /\ s.ver <= d.ver /\ (s.ver = d.ver => s = d)
StoreKept ==
    /\ IsSnapshot(db) /\ (db.ver = 0 => db = NoTask)
    /\ Seen(db, cache)
    /\ DOMAIN base = Writers /\ \A w \in Writers : Seen(db, base[w])

\* A status is only applied over a task that was not terminal when it was read.
ApplyingKept ==
    consumer \in {"apply", "retry"} =>
        /\ current.kind \in {"task", "status"}
        /\ current.kind = "status" => ~IsTerminal(base["consumer"])

(***************************************************************************)
(* References: one of the consumer until it gives it back, also of one     *)
(* that was cancelled and never will; one of every client that reads, or   *)
(* that was dropped between the count and the finally block.               *)
(***************************************************************************)
Alive == consumer \notin {"none", "done"}
Holders == {c \in Clients : client[c] \in {"read", "held", "dropped"}}
RefsKept ==
    /\ DOMAIN client = Clients /\ IsFiniteSet(Holders)
    /\ refs = (IF Alive THEN 1 ELSE 0) + Cardinality(Holders)
    /\ cleaned => finished /\ ~Alive /\ Holders = {}
    /\ producer = "none" => consumer = "none" /\ Holders = {}

ActiveInv == StoreKept /\ ApplyingKept /\ RefsKept

\* A step that reads: the task stays, and what is remembered of it was read from it.
LEMMA ReadKeepsStore ==
    ASSUME StoreKept, db' = db,
           cache' = cache \/ cache' = db \/ cache' = Current \/ cache' = NoTask,
           \/ base' = base
           \/ \E w \in Writers : \/ base' = [base EXCEPT ![w] = db]
                                 \/ base' = [base EXCEPT ![w] = Current]
                                 \/ base' = [base EXCEPT ![w] = NoTask]
    PROVE  StoreKept'
<1>1. Seen(db, db) /\ Seen(db, cache) /\ Seen(db, NoTask)
  BY DEF StoreKept, Seen, IsSnapshot, NoTask
<1>2. Seen(db, Current)
  BY <1>1 DEF Current
<1>3. Seen(db, cache')
  BY <1>1, <1>2
<1>4. DOMAIN base' = Writers /\ \A w \in Writers : Seen(db, base'[w])
  BY <1>1, <1>2 DEF StoreKept
<1> QED BY <1>3, <1>4 DEF StoreKept

\* A step that writes: what others remember is of an earlier version.
LEMMA WriteKeepsStore ==
    ASSUME StoreKept, NEW state, db' = [state |-> state, ver |-> db.ver + 1],
           cache' = cache \/ cache' = db',
           base' = base \/ \E w \in Writers : base' = [base EXCEPT ![w] = NoTask]
    PROVE  StoreKept'
<1>1. IsSnapshot(db') /\ db'.ver = db.ver + 1 /\ db.ver \in Nat
  BY DEF StoreKept, IsSnapshot
<1>2. Seen(db', db') /\ Seen(db', NoTask)
  BY <1>1 DEF Seen, IsSnapshot, NoTask
<1>3. ASSUME NEW s, Seen(db, s) PROVE Seen(db', s)
  BY <1>1, <1>3 DEF Seen, IsSnapshot
<1>4. Seen(db', cache')
  BY <1>2, <1>3 DEF StoreKept
<1>5. DOMAIN base' = Writers /\ \A w \in Writers : Seen(db', base'[w])
  BY <1>2, <1>3 DEF StoreKept
<1>6. db'.ver # 0
  BY <1>1
<1> QED BY <1>1, <1>4, <1>5, <1>6 DEF StoreKept

LEMMA StoreStep == ASSUME StoreKept, ActiveNext PROVE StoreKept'
<1> USE DEF storeVars, managerVars, Acknowledge
<1>0. "consumer" \in Writers /\ "cancel" \in Writers
  BY DEF Writers
<1>1. CASE Start
  BY <1>1, ReadKeepsStore DEF Start
<1>2. CASE ReplicaWrites
  BY <1>2, WriteKeepsStore DEF ReplicaWrites
<1>3. CASE ProducerNext
  <2>1. CASE ProducerBegin
    BY <2>1, ReadKeepsStore DEF ProducerBegin
  <2>2. CASE ~ProducerBegin
    BY <1>3, <2>2, ReadKeepsStore DEF ProducerNext, ProducerGet, AgentEnqueues, ProducerReturns,
       ProducerRaises, ProducerEnds, ProducerClosesSubscribers, ProducerDone
  <2> QED BY <2>1, <2>2
<1>4. CASE ConsumerNext
  <2>1. CASE ConsumerTake
    BY <1>0, <2>1, ReadKeepsStore DEF ConsumerTake
  <2>2. CASE ApplyTask
    <3>1. CASE TaskIgnored
      BY <1>0, <2>2, <3>1, ReadKeepsStore DEF ApplyTask
    <3>2. CASE ~TaskIgnored
      BY <1>0, <2>2, <3>2, WriteKeepsStore DEF ApplyTask, Save
    <3> QED BY <3>1, <3>2
  <2>3. CASE ApplyConflict
    BY <1>0, <2>3, ReadKeepsStore DEF ApplyConflict
  <2>4. CASE Fail
    <3>1. CASE Save(Current, "failed")
      BY <2>4, <3>1, WriteKeepsStore DEF Fail, Save
    <3>2. CASE ~Save(Current, "failed")
      BY <2>4, <3>2, ReadKeepsStore DEF Fail
    <3> QED BY <3>1, <3>2
  <2>5. CASE \/ ApplyStarted \/ ApplyCompleted \/ ApplyMessage \/ ApplyError \/ ApplyRejected
             \/ RetryConflict \/ OvertakenCloses \/ OvertakenGoesOn \/ ConsumerEnds \/ ConsumerDone
    <3>1. db' = db /\ cache' = cache /\ base' = base
      BY <2>5 DEF ApplyStarted, ApplyCompleted, ApplyMessage, ApplyError, ApplyRejected,
         RetryConflict, OvertakenCloses, OvertakenGoesOn, ConsumerEnds, ConsumerDone
    <3> QED BY <3>1, ReadKeepsStore
  <2> QED BY <1>4, <2>1, <2>2, <2>3, <2>4, <2>5 DEF ConsumerNext
<1>5. CASE CancelNext
  <2>1. CASE CancelCalled \/ AgentCancels
    BY <2>1, ReadKeepsStore DEF CancelCalled, AgentCancels
  <2>2. CASE CancelRereads
    BY <1>0, <2>2, ReadKeepsStore DEF CancelRereads
  <2>3. CASE CancelSaves
    <3>1. CASE Save(base["cancel"], "canceled")
      BY <2>3, <3>1, WriteKeepsStore DEF CancelSaves, Save
    <3>2. CASE ~Save(base["cancel"], "canceled")
      BY <2>3, <3>2, ReadKeepsStore DEF CancelSaves
    <3> QED BY <3>1, <3>2
  <2> QED BY <1>5, <2>1, <2>2, <2>3 DEF CancelNext
<1>6. CASE IdleRelease \/ CloseNext \/ TasksBegin
  BY <1>6, ReadKeepsStore DEF IdleRelease, CloseNext, AcloseCalled, AcloseSubscribers,
     AcloseCancels, TasksBegin
<1>7. ASSUME NEW c \in Clients,
             Subscribe(c) \/ ClientReads(c) \/ ClientEnds(c) \/ ClientDisconnects(c) \/ ClientGetsTask(c)
      PROVE  StoreKept'
  <2>1. CASE ClientGetsTask(c)
    BY <2>1, ReadKeepsStore DEF ClientGetsTask
  <2>2. CASE ~ClientGetsTask(c)
    <3>1. db' = db /\ cache' = cache /\ base' = base
      BY <1>7, <2>2 DEF Subscribe, ClientReads, ClientEnds, ClientDisconnects
    <3> QED BY <3>1, ReadKeepsStore
  <2> QED BY <2>1, <2>2
<1> QED BY <1>1, <1>2, <1>3, <1>4, <1>5, <1>6, <1>7 DEF ActiveNext
LEMMA ApplyingStep == ASSUME StoreKept, ApplyingKept, ActiveNext PROVE ApplyingKept'
<1> USE DEF managerVars, consumerVars
<1>0. DOMAIN base = Writers /\ "consumer" \in Writers /\ "cancel" \in Writers
  BY DEF StoreKept, Writers
<1>1. ASSUME base'["consumer"] = base["consumer"] /\ consumer' = consumer /\ current' = current
      PROVE  ApplyingKept'
  BY <1>1 DEF ApplyingKept, IsTerminal
<1>2. ASSUME consumer' \notin {"apply", "retry"} PROVE ApplyingKept'
  BY <1>2 DEF ApplyingKept
<1>3. CASE Start
  BY <1>2, <1>3, <1>1 DEF Start
<1>4. CASE ReplicaWrites \/ IdleRelease
  BY <1>1, <1>4 DEF ReplicaWrites, IdleRelease
<1>5. CASE CloseNext \/ TasksBegin
  <2>1. CASE AcloseCalled \/ AcloseSubscribers
    BY <1>1, <2>1 DEF AcloseCalled, AcloseSubscribers
  <2>2. CASE AcloseCancels
    BY <1>2, <2>2 DEF AcloseCancels, ConsumerCancelled
  <2>3. CASE TasksBegin
    BY <1>1, <1>2, <2>3 DEF TasksBegin
  <2> QED BY <1>5, <2>1, <2>2, <2>3 DEF CloseNext
<1>6. CASE ProducerNext
  <2>1. base' = base /\ consumer' = consumer /\ current' = current
    BY <1>6 DEF ProducerNext, ProducerGet, ProducerBegin, AgentEnqueues, ProducerReturns,
       ProducerRaises, ProducerEnds, ProducerClosesSubscribers, ProducerDone
  <2> QED BY <1>1, <2>1
<1>7. CASE CancelNext
  <2>1. consumer' = consumer /\ current' = current
    BY <1>7 DEF CancelNext, CancelCalled, AgentCancels, CancelRereads, CancelSaves
  <2>2. base' = base \/ base' = [base EXCEPT !["cancel"] = db]
    BY <1>7 DEF CancelNext, CancelCalled, AgentCancels, CancelRereads, CancelSaves
  <2>3. base'["consumer"] = base["consumer"]
    BY <1>0, <2>2
  <2> QED BY <1>1, <2>1, <2>3
<1>8. CASE ConsumerNext
  <2>1. CASE ConsumerTake
    <3>1. CASE Head(agentQ).kind = "status" /\ IsTerminal(Current)
      BY <1>1, <2>1, <3>1 DEF ConsumerTake
    <3>2. CASE ~(Head(agentQ).kind = "status" /\ IsTerminal(Current))
      <4>1. /\ current' = Head(agentQ) /\ current'.kind \in {"task", "status"}
            /\ base' = [base EXCEPT !["consumer"] = Current]
        BY <2>1, <3>2 DEF ConsumerTake
      <4>2. base'["consumer"] = Current
        BY <1>0, <4>1
      <4>3. current'.kind = "status" => ~IsTerminal(Current)
        BY <3>2, <4>1
      <4> QED BY <4>1, <4>2, <4>3 DEF ApplyingKept, IsTerminal
    <3> QED BY <3>1, <3>2
  <2>2. CASE ApplyTask
    BY <1>2, <2>2 DEF ApplyTask, Acknowledge
  <2>3. CASE ApplyConflict
    <3>1. CASE IsTerminal(db)
      BY <1>2, <2>3, <3>1 DEF ApplyConflict
    <3>2. CASE ~IsTerminal(db)
      <4>1. /\ consumer = "apply" /\ current' = current
            /\ base' = [base EXCEPT !["consumer"] = db]
        BY <2>3 DEF ApplyConflict
      <4>2. base'["consumer"] = db
        BY <1>0, <4>1
      <4> QED BY <3>2, <4>1, <4>2 DEF ApplyingKept, IsTerminal
    <3> QED BY <3>1, <3>2
  <2>4. CASE Fail \/ ConsumerEnds
    BY <1>2, <2>4 DEF Fail, ConsumerEnds, ConsumerFinishes
  <2>5. CASE ApplyError \/ ApplyRejected \/ RetryConflict \/ OvertakenGoesOn \/ ConsumerDone
    BY <1>2, <2>5 DEF ApplyError, ApplyRejected, RetryConflict, OvertakenGoesOn, ConsumerDone
  <2>6. CASE ApplyStarted \/ ApplyCompleted \/ OvertakenCloses
    BY <1>1, <2>6 DEF ApplyStarted, ApplyCompleted, OvertakenCloses
  <2>7. CASE ApplyMessage
    BY <1>2, <2>7 DEF ApplyMessage, Dequeue
  <2> QED BY <1>8, <2>1, <2>2, <2>3, <2>4, <2>5, <2>6, <2>7 DEF ConsumerNext
<1>9. ASSUME NEW c \in Clients,
             Subscribe(c) \/ ClientReads(c) \/ ClientEnds(c) \/ ClientDisconnects(c) \/ ClientGetsTask(c)
      PROVE  ApplyingKept'
  BY <1>1, <1>9 DEF Subscribe, ClientReads, ClientEnds, ClientDisconnects, ClientGetsTask
<1> QED BY <1>3, <1>4, <1>5, <1>6, <1>7, <1>8, <1>9 DEF ActiveNext

\* A step that gives and takes no reference.
LEMMA QuietKeepsRefs ==
    ASSUME RefsKept, refs' = refs, client' = client, cleaned' = cleaned, finished => finished',
           Alive' <=> Alive, producer' = "none" => producer = "none",
           consumer = "none" => consumer' = "none"
    PROVE  RefsKept'
<1>1. Holders' = Holders
  BY DEF Holders
<1> QED BY <1>1 DEF RefsKept

\* A client that leaves gives its reference back; the last one cleans a finished task.
LEMMA LeaveKeepsRefs ==
    ASSUME RefsKept, NEW c \in Clients, Reading(c), NEW to,
           to \notin {"read", "held", "dropped"},
           client' = [client EXCEPT ![c] = to], Unref, finished' = finished, consumer' = consumer,
           producer' = producer
    PROVE  RefsKept'
<1>1. c \in Holders /\ Holders' = Holders \ {c} /\ DOMAIN client' = Clients
  BY DEF RefsKept, Reading, Holders
<1>2. /\ IsFiniteSet(Holders) /\ IsFiniteSet(Holders') /\ Cardinality(Holders) \in Nat
      /\ Cardinality(Holders') = Cardinality(Holders) - 1
  BY <1>1, FS_RemoveElement, FS_CardinalityType DEF RefsKept
<1>3. Alive' = Alive
  BY DEF Alive
<1>4. refs' = (IF Alive' THEN 1 ELSE 0) + Cardinality(Holders')
  BY <1>2, <1>3 DEF RefsKept, Unref
<1>5. ASSUME finished, refs = 1 PROVE ~Alive /\ Holders' = {}
  <2>1. Cardinality(Holders) >= 1
    BY <1>1, <1>2, FS_EmptySet
  <2>2. ~Alive /\ Cardinality(Holders') = 0
    BY <1>2, <1>5, <2>1 DEF RefsKept
  <2> QED BY <1>2, <2>2, FS_EmptySet
<1>6. cleaned' => finished' /\ ~Alive' /\ Holders' = {}
  BY <1>1, <1>3, <1>5 DEF RefsKept, Unref
<1>7. producer # "none"
  BY <1>1 DEF RefsKept
<1> QED BY <1>1, <1>2, <1>4, <1>6, <1>7 DEF RefsKept

\* A subscriber is counted before anything can refuse it.
LEMMA SubscribeKeepsRefs ==
    ASSUME RefsKept, NEW c \in Clients, Subscribe(c)
    PROVE  RefsKept'
<1> USE DEF consumerVars, producerVars
<1>1. /\ client[c] = "idle" /\ producer # "none" /\ ~cleaned /\ ~cleaned'
      /\ producer' = producer /\ consumer' = consumer
  BY DEF Subscribe
<1>2. c \notin Holders /\ DOMAIN client = Clients /\ (Alive' <=> Alive)
  BY <1>1 DEF Holders, RefsKept, Alive
<1>3. CASE finished
  <2>1. client' = [client EXCEPT ![c] = "refused"] /\ refs' = refs
    BY <1>3 DEF Subscribe
  <2>2. Holders' = Holders /\ DOMAIN client' = Clients
    BY <1>2, <2>1 DEF Holders
  <2> QED BY <1>1, <1>2, <2>1, <2>2 DEF RefsKept
<1>4. CASE ~finished
  <2>1. PICK to \in {"read", "dropped"} : client' = [client EXCEPT ![c] = to]
    BY <1>4 DEF Subscribe
  <2>2. refs' = refs + 1
    BY <1>4 DEF Subscribe
  <2>3. Holders' = Holders \cup {c} /\ DOMAIN client' = Clients
    BY <1>2, <2>1 DEF Holders
  <2>4. /\ IsFiniteSet(Holders') /\ Cardinality(Holders) \in Nat
        /\ Cardinality(Holders') = Cardinality(Holders) + 1
    BY <1>2, <2>3, FS_AddElement, FS_CardinalityType DEF RefsKept
  <2>5. refs' = (IF Alive' THEN 1 ELSE 0) + Cardinality(Holders')
    BY <1>2, <2>2, <2>4 DEF RefsKept
  <2> QED BY <1>1, <2>3, <2>4, <2>5 DEF RefsKept
<1> QED BY <1>3, <1>4

\* start() counts the consumer, or finishes a task nobody can tail yet.
LEMMA StartKeepsRefs ==
    ASSUME RefsKept, Start
    PROVE  RefsKept'
<1>1. /\ producer = "none" /\ ~finished /\ client' = client /\ consumer = "none" /\ Holders = {}
  BY DEF Start, RefsKept
<1>2. Holders' = {} /\ Cardinality(Holders') = 0 /\ IsFiniteSet(Holders') /\ DOMAIN client' = Clients
  BY <1>1, FS_EmptySet DEF Holders, RefsKept
<1>3. refs = 0 /\ ~cleaned
  BY <1>1, <1>2 DEF RefsKept, Alive
<1>4. CASE IsTerminal(db)
  BY <1>1, <1>2, <1>3, <1>4 DEF Start, RefsKept, Alive
<1>5. CASE ~IsTerminal(db)
  BY <1>1, <1>2, <1>3, <1>5 DEF Start, RefsKept, Alive
<1> QED BY <1>4, <1>5

\* The consumer gives its reference back last.
LEMMA ConsumerDoneKeepsRefs ==
    ASSUME RefsKept, ConsumerDone
    PROVE  RefsKept'
<1>1. /\ Alive /\ ~Alive' /\ client' = client /\ producer # "none" /\ producer' # "none"
      /\ Unref /\ finished' = finished
  BY DEF ConsumerDone, Alive, producerVars, ProducerOver
<1>2. Holders' = Holders
  BY <1>1 DEF Holders
<1>3. IsFiniteSet(Holders) /\ Cardinality(Holders) \in Nat /\ refs = 1 + Cardinality(Holders)
  BY <1>1, FS_CardinalityType DEF RefsKept
<1>4. refs' = Cardinality(Holders')
  BY <1>1, <1>2, <1>3 DEF Unref
<1>5. refs = 1 => Holders = {}
  BY <1>3, FS_EmptySet
<1>6. cleaned' => finished' /\ Holders' = {}
  BY <1>1, <1>2, <1>5 DEF Unref, RefsKept
<1> QED BY <1>1, <1>2, <1>3, <1>4, <1>6 DEF RefsKept

LEMMA RefsStep == ASSUME RefsKept, ActiveNext PROVE RefsKept'
<1> USE DEF lifeVars, consumerVars, producerVars, Finishing
<1>1. CASE Start
  BY <1>1, StartKeepsRefs
<1>2. CASE ReplicaWrites
  BY <1>2, QuietKeepsRefs DEF ReplicaWrites, Alive
<1>3. CASE IdleRelease
  BY <1>3, QuietKeepsRefs DEF IdleRelease, Alive
<1>4. CASE CloseNext \/ TasksBegin
  <2>1. CASE AcloseCalled \/ AcloseSubscribers
    <3>1. UNCHANGED <<refs, client, cleaned, finished, consumer, producer>>
      BY <2>1 DEF AcloseCalled, AcloseSubscribers
    <3> QED BY <3>1, QuietKeepsRefs DEF Alive
  <2>2. CASE AcloseCancels
    BY <2>2, QuietKeepsRefs DEF AcloseCancels, ConsumerCancelled, Alive
  <2>3. CASE TasksBegin
    BY <2>3, QuietKeepsRefs DEF TasksBegin, Alive
  <2> QED BY <1>4, <2>1, <2>2, <2>3 DEF CloseNext
<1>5. CASE ProducerNext
  <2>1. /\ refs' = refs /\ client' = client /\ cleaned' = cleaned /\ finished' = finished
        /\ consumer' = consumer
    BY <1>5 DEF ProducerNext, ProducerGet, ProducerBegin, AgentEnqueues, ProducerReturns,
       ProducerRaises, ProducerEnds, ProducerClosesSubscribers, ProducerDone
  <2>2. producer' # "none"
    BY <1>5 DEF ProducerNext, ProducerGet, ProducerBegin, AgentEnqueues, ProducerReturns,
       ProducerRaises, ProducerEnds, ProducerClosesSubscribers, ProducerDone, ProducerCloses
  <2> QED BY <2>1, <2>2, QuietKeepsRefs DEF Alive
<1>6. CASE CancelNext
  <2>1. /\ refs' = refs /\ client' = client /\ cleaned' = cleaned /\ finished' = finished
        /\ consumer' = consumer /\ producer' = producer
    BY <1>6 DEF CancelNext, CancelCalled, AgentCancels, CancelRereads, CancelSaves
  <2> QED BY <2>1, QuietKeepsRefs DEF Alive
<1>7. CASE ConsumerNext
  <2>1. CASE ConsumerDone
    BY <2>1, ConsumerDoneKeepsRefs
  <2>2. CASE ~ConsumerDone
    <3>1. /\ refs' = refs /\ client' = client /\ cleaned' = cleaned /\ producer' = producer
      BY <1>7, <2>2 DEF ConsumerNext, ApplyStarted, ApplyCompleted, ApplyMessage, ApplyError,
         ConsumerTake, ApplyRejected, ApplyTask, ApplyConflict, RetryConflict, OvertakenCloses,
         OvertakenGoesOn, Fail, ConsumerEnds
    <3>2. finished => finished'
      BY <1>7, <2>2 DEF ConsumerNext, ApplyStarted, ApplyCompleted, ApplyMessage, ApplyError,
         ConsumerTake, ApplyRejected, ApplyTask, ApplyConflict, RetryConflict, OvertakenCloses,
         OvertakenGoesOn, Fail, ConsumerEnds, ConsumerFinishes
    <3>3. Alive /\ Alive' /\ consumer # "none"
      BY <1>7, <2>2 DEF ConsumerNext, ApplyStarted, ApplyCompleted, ApplyMessage, ApplyError,
         ConsumerTake, ApplyRejected, ApplyTask, ApplyConflict, RetryConflict, OvertakenCloses,
         OvertakenGoesOn, Fail, ConsumerEnds, ConsumerFinishes, Acknowledge, Dequeue, Alive
    <3> QED BY <3>1, <3>2, <3>3, QuietKeepsRefs
  <2> QED BY <2>1, <2>2
<1>8. ASSUME NEW c \in Clients,
             Subscribe(c) \/ ClientReads(c) \/ ClientEnds(c) \/ ClientDisconnects(c) \/ ClientGetsTask(c)
      PROVE  RefsKept'
  <2>1. CASE Subscribe(c)
    BY <2>1, SubscribeKeepsRefs
  <2>2. CASE \E held : Reading(c) /\ Leave(c, held) /\ UNCHANGED <<finished, consumer, producer>>
    <3>1. PICK held : Reading(c) /\ Leave(c, held) /\ UNCHANGED <<finished, consumer, producer>>
      BY <2>2
    <3>2. PICK to \in {"done", "result"} : client' = [client EXCEPT ![c] = to]
      BY <3>1 DEF Leave
    <3> QED BY <3>1, <3>2, LeaveKeepsRefs DEF Leave
  <2>3. CASE ClientReads(c)
    <3> DEFINE verdict == Verdict(c, Head(sinkQ[c]))
    <3>1. Reading(c) /\ UNCHANGED <<finished, consumer, producer>>
      BY <2>3 DEF ClientReads
    <3>2. verdict \in {"next", "hold", "return", "leave"}
      BY DEF Verdict
    <3>3. CASE verdict = "next"
      <4>1. UNCHANGED <<refs, cleaned, client>>
        BY <2>3, <3>3 DEF ClientReads
      <4> QED BY <3>1, <4>1, QuietKeepsRefs DEF Alive
    <3>4. CASE verdict = "hold"
      <4>1. refs' = refs /\ cleaned' = cleaned /\ client' = [client EXCEPT ![c] = "held"]
        BY <2>3, <3>4 DEF ClientReads
      <4>2. Holders' = Holders /\ DOMAIN client' = DOMAIN client
        BY <3>1, <4>1 DEF Holders, RefsKept, Reading
      <4> QED BY <3>1, <4>1, <4>2 DEF RefsKept, Alive
    <3>5. CASE verdict = "return" \/ verdict = "leave"
      <4>1. \E held : Leave(c, held)
        BY <2>3, <3>5 DEF ClientReads
      <4> QED BY <2>2, <3>1, <4>1
    <3> QED BY <3>2, <3>3, <3>4, <3>5
  <2>4. CASE ClientEnds(c) \/ ClientDisconnects(c)
    BY <2>2, <2>4 DEF ClientEnds, ClientDisconnects
  <2>5. CASE ClientGetsTask(c)
    <3>1. client[c] = "result" /\ client' = [client EXCEPT ![c] = "done"]
          /\ UNCHANGED <<refs, cleaned, finished, consumer, producer>>
      BY <2>5 DEF ClientGetsTask
    <3>2. Holders' = Holders /\ DOMAIN client' = DOMAIN client
      BY <3>1 DEF Holders, RefsKept
    <3> QED BY <3>1, <3>2 DEF RefsKept, Alive
  <2> QED BY <1>8, <2>1, <2>3, <2>4, <2>5
<1> QED BY <1>1, <1>2, <1>3, <1>4, <1>5, <1>6, <1>7, <1>8 DEF ActiveNext

LEMMA ActiveStarts == ActiveInit => ActiveInv
<1> SUFFICES ASSUME ActiveInit PROVE ActiveInv
  OBVIOUS
<1>1. StoreKept
  <2>1. Seen(db, NoTask) /\ IsSnapshot(db) /\ (db.ver = 0 => db = NoTask)
    BY DEF ActiveInit, Seen, IsSnapshot, NoTask
  <2>2. cache = NoTask /\ base = [w \in Writers |-> NoTask]
    BY DEF ActiveInit
  <2> QED BY <2>1, <2>2 DEF StoreKept
<1>2. ApplyingKept
  BY DEF ActiveInit, ApplyingKept
<1>3. Holders = {} /\ DOMAIN client = Clients
  BY DEF ActiveInit, Holders
<1>4. RefsKept
  BY <1>3, FS_EmptySet DEF ActiveInit, RefsKept, Alive
<1> QED BY <1>1, <1>2, <1>4 DEF ActiveInv

LEMMA ActiveStep == ActiveInv /\ [ActiveNext]_activeVars => ActiveInv'
<1> SUFFICES ASSUME ActiveInv, [ActiveNext]_activeVars PROVE ActiveInv'
  OBVIOUS
<1>1. CASE ActiveNext
  BY <1>1, StoreStep, ApplyingStep, RefsStep DEF ActiveInv
<1>2. CASE UNCHANGED activeVars
  <2>1. UNCHANGED <<db, cache, base, consumer, current, client, refs, cleaned, finished, producer>>
    BY <1>2 DEF activeVars, storeVars, managerVars, consumerVars, lifeVars, producerVars
  <2>2. StoreKept' /\ ApplyingKept'
    BY <2>1 DEF ActiveInv, StoreKept, ApplyingKept, IsTerminal
  <2>3. RefsKept'
    BY <2>1, QuietKeepsRefs DEF ActiveInv, Alive
  <2> QED BY <2>2, <2>3 DEF ActiveInv
<1> QED BY <1>1, <1>2

\* The invariant of the active task, for any clients, agents and other replicas.
THEOREM ActiveInvariant == ActiveSpec => []ActiveInv
BY ActiveStarts, ActiveStep, PTL DEF ActiveSpec

\* CleanedUnused: the registry drops the task only when its consumer ended and nobody tails it.
THEOREM CleanedIsUnused == ActiveSpec => []CleanedUnused
<1>1. ActiveInv => CleanedUnused
  BY DEF ActiveInv, RefsKept, CleanedUnused, Alive, Holders, Reading
<1> QED BY <1>1, ActiveInvariant, PTL

\* Nobody writes over a terminal task: not the consumer or its failure path, whose snapshot
\* would be an older version, nor cancel() or another replica, which look first.
LEMMA TerminalKept == ASSUME ActiveInv, ActiveNext, IsTerminal(db) PROVE db' = db
<1> USE DEF storeVars
<1>1. /\ Seen(db, cache) /\ Seen(db, base["consumer"]) /\ Seen(db, base["cancel"])
  BY DEF ActiveInv, StoreKept, Writers
<1>2. ASSUME NEW s, NEW state, Seen(db, s), ~IsTerminal(s) PROVE ~Save(s, state)
  BY <1>2 DEF Save, Stale, Seen
<1>3. \A s : ~Save(s, "canceled")
  BY DEF Save, Stale
<1>4. CASE ConsumerNext
  <2>1. CASE ApplyTask
    <3>1. ~TaskIgnored => ~IsTerminal(base["consumer"])
      BY <2>1 DEF ApplyTask, TaskIgnored, ActiveInv, ApplyingKept, Base, IsTerminal, TerminalStates
    <3> QED BY <1>1, <1>2, <2>1, <3>1 DEF ApplyTask, Base
  <2>2. CASE Fail
    <3>1. Seen(db, Current)
      BY <1>1 DEF Current, ActiveInv, StoreKept, Seen, IsSnapshot
    <3> QED BY <1>2, <2>2, <3>1 DEF Fail
  <2>3. CASE ~ApplyTask /\ ~Fail
    BY <1>4, <2>3 DEF ConsumerNext, ApplyStarted, ApplyCompleted, ApplyMessage, ApplyError,
       ConsumerTake, ApplyRejected, ApplyConflict, RetryConflict, OvertakenCloses,
       OvertakenGoesOn, ConsumerEnds, ConsumerDone
  <2> QED BY <2>1, <2>2, <2>3
<1>5. CASE CancelNext
  BY <1>3, <1>5 DEF CancelNext, CancelCalled, AgentCancels, CancelRereads, CancelSaves
<1>6. CASE ReplicaWrites
  BY <1>6 DEF ReplicaWrites
<1>7. CASE ProducerNext
  BY <1>7 DEF ProducerNext, ProducerGet, ProducerBegin, AgentEnqueues, ProducerReturns,
     ProducerRaises, ProducerEnds, ProducerClosesSubscribers, ProducerDone
<1>8. CASE Start \/ IdleRelease \/ CloseNext \/ TasksBegin
  BY <1>8 DEF Start, IdleRelease, CloseNext, AcloseCalled, AcloseSubscribers, AcloseCancels, TasksBegin
<1>9. ASSUME NEW c \in Clients,
             Subscribe(c) \/ ClientReads(c) \/ ClientEnds(c) \/ ClientDisconnects(c) \/ ClientGetsTask(c)
      PROVE  db' = db
  BY <1>9 DEF Subscribe, ClientReads, ClientEnds, ClientDisconnects, ClientGetsTask
<1> QED BY <1>4, <1>5, <1>6, <1>7, <1>8, <1>9 DEF ActiveNext

\* StatusFinal: a terminal state of the stored task is never overwritten, whoever writes.
THEOREM StatusIsFinal == ActiveSpec => StatusFinal
<1>1. ActiveInv /\ [ActiveNext]_activeVars => [IsTerminal(db) => db' = db]_db
  BY TerminalKept DEF activeVars, storeVars
<1> QED BY <1>1, ActiveInvariant, PTL DEF ActiveSpec, StatusFinal
=============================================================================
