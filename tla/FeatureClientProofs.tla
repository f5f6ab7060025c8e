------------------------ MODULE FeatureClientProofs ------------------------
(***************************************************************************)
(* Theorems about the host client of FeatureClient, for every set of       *)
(* callers, configs and capabilities and every bound.                      *)
(***************************************************************************)
EXTENDS FeatureClient, TLAPS

\* Building blocks have their types.
LEMMA Pieces ==
    /\ NoCaps \in Caps
    /\ NoReply \in Outcomes
    /\ \A k \in TerminalKinds \cup {"cancelled"} : Failure(k) \in Outcomes
    /\ \A k \in {"result", "error"}, v \in Values, p \in Caps : Outcome(k, v, p) \in Outcomes
    /\ \A id \in Nat, m \in Methods, g \in Configs \cup {NoConfig} :
          Request(id, m, g) \in Requests
    /\ \A id \in Nat : Error(id) \in Lines
    /\ \A id \in Nat, v \in Values, p \in Caps : Result(id, v, p) \in Lines
    /\ \A k \in {"bad", "overlong"} : Junk(k) \in Lines
  BY DEF NoCaps, Caps, NoReply, Failure, Outcome, Outcomes, TerminalKinds, Request,
         Requests, Error, Result, Junk, Lines, Values, HealthValues, TransitionValues

\* The ends of an await are outcomes.
LEMMA EndsType ==
    ASSUME TypeOK, NEW c \in Callers
    PROVE  Ends(c) \subseteq Outcomes
  BY Pieces DEF Ends, TypeOK, TerminalKinds

FlagsOK ==
    /\ ready \in BOOLEAN /\ shutdownStarted \in BOOLEAN /\ restartRequired \in BOOLEAN
    /\ caps \in Caps /\ hostConfig \in Configs

\* Issuing a request keeps the types, whatever its caller does to the flags.
LEMMA IssueType ==
    ASSUME TypeOK, NEW c \in Callers, NEW m \in Methods,
           NEW g \in Configs \cup {NoConfig}, Issue(c, m, g),
           FlagsOK', lifecycleLock' \in Callers \cup {NoCaller}
    PROVE  TypeOK'
  <1>1. Request(nextId + 1, m, g) \in Requests
    BY Pieces DEF TypeOK
  <1>2. toChild' \in Seq(Requests)
    BY <1>1 DEF TypeOK, WireTypeOK, Issue
  <1>3. WireTypeOK'
    BY <1>2 DEF TypeOK, WireTypeOK, Issue
  <1>4. pending' \subseteq 1..nextId' /\ nextId' \in Nat
    BY DEF TypeOK, Issue
  <1> QED
    BY <1>3, <1>4 DEF TypeOK, Issue, FlagsOK

\* Settling a call keeps the types.
LEMMA SettleType ==
    ASSUME TypeOK, NEW c \in Callers, Settle(c), FlagsOK'
    PROVE  TypeOK'
  <1>1. WireTypeOK'
    BY DEF TypeOK, WireTypeOK, Settle, wireVars
  <1>2. pending' \subseteq 1..nextId' /\ nextId' \in Nat
    BY DEF TypeOK, Settle
  <1>3. reply' \in [Callers -> Outcomes] /\ op' \in [Callers -> Methods]
    BY Pieces DEF TypeOK, Settle, Methods
  <1> QED
    BY <1>1, <1>2, <1>3 DEF TypeOK, Settle, FlagsOK, streamVars

\* So does leaving the lock queue.
LEMMA LeaveLockType ==
    ASSUME TypeOK, NEW c \in Callers, LeaveLock(c), FlagsOK',
           UNCHANGED <<wireVars, streamVars, nextId, pending, lifecycleLock>>
    PROVE  TypeOK'
  BY DEF TypeOK, WireTypeOK, LeaveLock, FlagsOK, wireVars, streamVars, Methods

\* And ending the read loop.
LEMMA TerminateType ==
    ASSUME TypeOK, NEW k \in TerminalKinds, Terminate(k), fromChild' \in Seq(Lines)
    PROVE  TypeOK'
  <1>1. reply' \in [Callers -> Outcomes]
    BY Pieces DEF TypeOK, Terminate
  <1> QED
    BY <1>1 DEF TypeOK, WireTypeOK, Terminate, flagVars

\* A step of a caller keeps the types.
LEMMA CallerType ==
    ASSUME TypeOK, TransitionHasConfig, NEW c \in Callers, CallerNext(c)
    PROVE  TypeOK'
  <1> USE WireConstants, ClientConstants
  <1>1. CASE Initialize(c)
    <2>1. FlagsOK' /\ lifecycleLock' \in Callers \cup {NoCaller}
      BY <1>1 DEF Initialize, TypeOK, FlagsOK, flagVars
    <2> QED BY <1>1, <2>1, IssueType DEF Initialize, Methods, TypeOK
  <1>2. CASE Health(c)
    <2>1. CASE ~restartRequired
      <3>1. FlagsOK' /\ lifecycleLock' \in Callers \cup {NoCaller}
        BY <1>2, <2>1 DEF Health, TypeOK, FlagsOK, flagVars
      <3> QED BY <1>2, <2>1, <3>1, IssueType DEF Health, Methods
    <2>2. CASE restartRequired
      <3>1. /\ ready' \in BOOLEAN
            /\ UNCHANGED <<wireVars, shutdownStarted, restartRequired, caps, hostConfig,
                          streamVars, callVars, nextId, pending, lifecycleLock>>
        BY <1>2, <2>2 DEF Health
      <3> QED BY <3>1 DEF TypeOK, WireTypeOK, wireVars, streamVars, callVars
    <2> QED BY <2>1, <2>2
  <1>3. CASE CallHostIngress(c)
    <2>1. FlagsOK' /\ lifecycleLock' \in Callers \cup {NoCaller}
      BY <1>3 DEF CallHostIngress, TypeOK, FlagsOK, flagVars
    <2> QED BY <1>3, <2>1, IssueType DEF CallHostIngress, Methods
  <1>4. ASSUME NEW m \in {"list", "call"}, UseTools(c, m) PROVE TypeOK'
    <2>1. FlagsOK' /\ lifecycleLock' \in Callers \cup {NoCaller}
      BY <1>4 DEF UseTools, TypeOK, FlagsOK, flagVars
    <2> QED BY <1>4, <2>1, IssueType DEF UseTools, Methods
  <1>5. ASSUME NEW m \in LifecycleOps, NEW g \in Configs \cup {NoConfig},
               RequestLifecycle(c, m, g)
        PROVE  TypeOK'
    BY <1>5 DEF RequestLifecycle, TypeOK, WireTypeOK, wireVars, flagVars, streamVars,
                LifecycleOps, Methods
  <1>6. CASE AcquireTransition(c)
    <2>1. FlagsOK' /\ lifecycleLock' \in Callers \cup {NoCaller}
      BY <1>6 DEF AcquireTransition, TypeOK, FlagsOK, flagVars
    <2>2. arg[c] \in Configs \cup {NoConfig}
      BY DEF TypeOK
    <2> QED BY <1>6, <2>1, <2>2, IssueType DEF AcquireTransition, Methods
  <1>7. CASE AcquireTransitionDead(c)
    <2>1. FlagsOK'
      BY <1>7 DEF AcquireTransitionDead, TypeOK, FlagsOK, TransitionHasConfig
    <2> QED BY <1>7, <2>1, LeaveLockType DEF AcquireTransitionDead
  <1>8. CASE AcquireShutdown(c)
    <2>1. FlagsOK'
      BY <1>8 DEF AcquireShutdown, TypeOK, FlagsOK
    <2>2. CASE Issue(c, "shutdown", NoConfig) /\ lifecycleLock' = c
      BY <2>1, <2>2, IssueType DEF Methods
    <2>3. CASE StreamDead /\ LeaveLock(c) /\ UNCHANGED <<wireVars, streamVars, nextId, pending, lifecycleLock>>
      BY <2>1, <2>3, LeaveLockType
    <2> QED BY <1>8, <2>2, <2>3 DEF AcquireShutdown
  <1>9. CASE RefuseLifecycle(c) \/ CancelQueued(c)
    <2>1. FlagsOK'
      BY <1>9 DEF RefuseLifecycle, CancelQueued, TypeOK, FlagsOK, flagVars
    <2> QED BY <1>9, <2>1, LeaveLockType DEF RefuseLifecycle, CancelQueued
  <1>10. CASE DrainDone(c)
    BY <1>10 DEF DrainDone, TypeOK, WireTypeOK, wireVars, flagVars, streamVars
  <1>11. CASE EndInitialize(c)
    <2>1. FlagsOK'
      BY <1>11, EndsType DEF EndInitialize, TypeOK, FlagsOK, Outcomes
    <2> QED BY <1>11, <2>1, SettleType DEF EndInitialize
  <1>12. CASE EndHealth(c)
    <2>1. FlagsOK'
      BY <1>12 DEF EndHealth, TypeOK, FlagsOK
    <2> QED BY <1>12, <2>1, SettleType DEF EndHealth
  <1>13. CASE EndPlain(c)
    <2>1. FlagsOK'
      BY <1>13 DEF EndPlain, TypeOK, FlagsOK, flagVars
    <2> QED BY <1>13, <2>1, SettleType DEF EndPlain
  <1>14. CASE EndTransition(c)
    <2>1. FlagsOK'
      BY <1>14 DEF EndTransition, TypeOK, FlagsOK, TransitionHasConfig
    <2> QED BY <1>14, <2>1, SettleType DEF EndTransition
  <1> QED
    BY <1>1, <1>2, <1>3, <1>4, <1>5, <1>6, <1>7, <1>8, <1>9, <1>10, <1>11, <1>12,
       <1>13, <1>14 DEF CallerNext
\* So does every step of the reader, the close task and the child.
LEMMA OtherType ==
    ASSUME TypeOK, ReaderNext \/ CloserNext \/ ChildNext
    PROVE  TypeOK'
  <1>1. CASE ReadResponse
    <2>1. Line \in Lines /\ Tail(fromChild) \in Seq(Lines)
      BY <1>1 DEF ReadResponse, Line, TypeOK, WireTypeOK
    <2>2. Outcome(Line.kind, Line.value, Line.caps) \in Outcomes
      BY <1>1, <2>1, Pieces DEF ReadResponse, Lines
    <2>3. reply' \in [Callers -> Outcomes]
      BY <1>1, <2>2 DEF ReadResponse, TypeOK
    <2>4. WireTypeOK'
      BY <1>1, <2>1 DEF ReadResponse, TypeOK, WireTypeOK
    <2>5. UNCHANGED <<flagVars, streamVars, pc, op, arg, rid, nextId, lifecycleLock>>
          /\ pending' \subseteq pending
      BY <1>1 DEF ReadResponse
    <2> QED
      BY <2>3, <2>4, <2>5 DEF TypeOK, flagVars, streamVars
  <1>2. CASE ReadJunk
    <2>1. fromChild' \in Seq(Lines)
      BY <1>2 DEF ReadJunk, TypeOK, WireTypeOK
    <2>2. PICK k \in TerminalKinds : Terminate(k)
      BY <1>2 DEF ReadJunk, TerminalKinds
    <2> QED BY <2>1, <2>2, TerminateType
  <1>3. CASE ReadEof \/ ReadCancelled
    <2>1. fromChild' \in Seq(Lines)
      BY <1>3 DEF ReadEof, ReadCancelled, TypeOK, WireTypeOK
    <2>2. PICK k \in TerminalKinds : Terminate(k)
      BY <1>3 DEF ReadEof, ReadCancelled, TerminalKinds
    <2> QED BY <2>1, <2>2, TerminateType
  <1>9. CASE ReadSkipped
    BY <1>9 DEF ReadSkipped, TypeOK, WireTypeOK, wireVars, flagVars, callVars
  <1>4. CASE Close
    BY <1>4 DEF Close, TypeOK, WireTypeOK, wireVars, callVars
  <1>5. CASE CloseStreams
    <2>1. readCancel' \in BOOLEAN /\ closeJoins' \in BOOLEAN
      BY <1>5 DEF CloseStreams
    <2>2. <<>> \in Seq(Lines)
      OBVIOUS
    <2>3. WireTypeOK'
      BY <1>5, <2>2 DEF CloseStreams, TypeOK, WireTypeOK
    <2> QED
      BY <1>5, <2>1, <2>3 DEF CloseStreams, TypeOK, flagVars, callVars
  <1>6. CASE CloseJoined
    BY <1>6 DEF CloseJoined, TypeOK, WireTypeOK, wireVars, flagVars, callVars
  <1>7. CASE CloseDone
    BY <1>7 DEF CloseDone, TypeOK, WireTypeOK, TerminalKinds, wireVars, flagVars, callVars
  <1>8. CASE ChildNext
    <2>1. ASSUME NEW line \in Lines, ChildWrites(line) PROVE TypeOK'
      BY <2>1 DEF ChildWrites, TypeOK, WireTypeOK, clientVars, flagVars, streamVars, callVars
    <2>2. ASSUME NEW c \in Callers, NEW line \in Answers(rid[c], op[c])
          PROVE  line \in Lines
      BY <2>2, Pieces, WireConstants
         DEF Answers, TypeOK, Values, HealthValues, TransitionValues
    <2>3. \A id \in 1..nextId : Error(id) \in Lines
      BY Pieces DEF TypeOK
    <2>4. CASE ChildClosesStdin
      <3>1. WireTypeOK'
        BY <2>4 DEF ChildClosesStdin, TypeOK, WireTypeOK
      <3>2. UNCHANGED <<flagVars, streamVars, callVars, nextId, pending, lifecycleLock>>
        BY <2>4 DEF ChildClosesStdin, clientVars
      <3> QED
        BY <3>1, <3>2 DEF TypeOK, flagVars, streamVars, callVars
    <2>5. CASE ChildClosesStdout
      <3>1. WireTypeOK'
        BY <2>5 DEF ChildClosesStdout, TypeOK, WireTypeOK
      <3>2. UNCHANGED <<flagVars, streamVars, callVars, nextId, pending, lifecycleLock>>
        BY <2>5 DEF ChildClosesStdout, clientVars
      <3> QED
        BY <3>1, <3>2 DEF TypeOK, flagVars, streamVars, callVars
    <2> QED BY <1>8, <2>1, <2>2, <2>3, <2>4, <2>5, Pieces DEF ChildNext
  <1> QED
    BY <1>1, <1>2, <1>3, <1>4, <1>5, <1>6, <1>7, <1>8, <1>9 DEF ReaderNext, CloserNext

-----------------------------------------------------------------------------
\* The bookkeeping of calls and of the reader, as one bundle.
CallInv == OwnIds /\ NoStaleReply /\ ReaderLatch /\ PendingExact /\ PendingHasReader

\* A fresh request is registered under an id nobody else holds.
LEMMA IssueCalls ==
    ASSUME TypeOK, CallInv, NEW c \in Callers, NEW m, NEW g, ~InCall(c), Issue(c, m, g)
    PROVE  CallInv'
  <1>1. /\ InCall(c)' /\ rid'[c] = nextId + 1
        /\ \A d \in Callers \ {c} : InCall(d)' = InCall(d) /\ rid'[d] = rid[d]
    BY DEF TypeOK, Issue, InCall
  <1>2. nextId + 1 \in 1..nextId' /\ nextId + 1 \notin 1..nextId
        /\ 1..nextId \subseteq 1..nextId'
    BY DEF TypeOK, Issue
  <1>3. OwnIds'
    BY <1>1, <1>2 DEF CallInv, OwnIds
  <1>4. NoStaleReply'
    BY <1>1 DEF CallInv, NoStaleReply, Issue
  <1>5. ReaderLatch' /\ (readTask' = "running" \/ overtaken')
    BY DEF CallInv, ReaderLatch, Issue, StreamDead, TypeOK
  <1>6. Unanswered' = Unanswered \cup {c} /\ c \notin Unanswered
    BY <1>1 DEF CallInv, NoStaleReply, Unanswered, Issue
  <1>7. PendingExact'
    BY <1>1, <1>6 DEF CallInv, PendingExact, Issue, Unanswered
  <1> QED
    BY <1>3, <1>4, <1>5, <1>7 DEF CallInv, PendingHasReader

\* A settled call takes exactly its own id out of _pending.
LEMMA SettleCalls ==
    ASSUME TypeOK, CallInv, NEW c \in Callers, InCall(c), Settle(c)
    PROVE  CallInv'
  <1>1. /\ ~InCall(c)' /\ reply'[c] = NoReply
        /\ \A d \in Callers \ {c} :
              InCall(d)' = InCall(d) /\ rid'[d] = rid[d] /\ reply'[d] = reply[d]
    BY DEF TypeOK, Settle, InCall
  <1>2. OwnIds'
    BY <1>1 DEF CallInv, OwnIds, Settle
  <1>3. NoStaleReply'
    BY <1>1 DEF CallInv, NoStaleReply, NoReply, Failure, Outcome
  <1>4. ReaderLatch'
    BY DEF CallInv, ReaderLatch, Settle, streamVars, StreamDead
  <1>5. Unanswered' = Unanswered \ {c}
    BY <1>1 DEF Unanswered
  <1>6. \A d \in Unanswered \ {c} : rid[d] # rid[c] /\ rid'[d] = rid[d]
    BY <1>1 DEF CallInv, OwnIds, Unanswered
  <1>7. PendingExact'
    BY <1>5, <1>6 DEF CallInv, PendingExact, Settle
  <1>8. PendingHasReader'
    BY DEF CallInv, PendingHasReader, Settle, streamVars
  <1> QED
    BY <1>2, <1>3, <1>4, <1>7, <1>8 DEF CallInv

\* Steps that leave ids, futures, the reader and the close task alone.
LEMMA QuietCalls ==
    ASSUME CallInv, UNCHANGED <<nextId, pending, streamVars, rid, reply>>,
           \A d \in Callers : InCall(d)' = InCall(d)
    PROVE  CallInv'
  <1>1. Unanswered' = Unanswered
    BY DEF Unanswered
  <1> QED
    BY <1>1 DEF CallInv, OwnIds, NoStaleReply, ReaderLatch, PendingExact, PendingHasReader,
                streamVars, StreamDead, Unanswered

\* The end of the read loop fails every registered future.
LEMMA TerminateCalls ==
    ASSUME TypeOK, CallInv, NEW k \in TerminalKinds, Terminate(k), readTask = "running"
    PROVE  CallInv'
  <1>1. \A d \in Callers : InCall(d)' = InCall(d) /\ rid'[d] = rid[d]
    BY DEF Terminate, InCall
  <1>2. \A d \in Callers :
           reply'[d] = IF InCall(d) /\ rid[d] \in pending THEN Failure(k) ELSE reply[d]
    BY DEF Terminate
  <1>3. Failure(k).kind # "none"
    BY DEF Failure, Outcome, TerminalKinds
  <1>4. OwnIds'
    BY <1>1 DEF CallInv, OwnIds, Terminate
  <1>5. NoStaleReply'
    BY <1>1, <1>2 DEF CallInv, NoStaleReply
  <1>6. ReaderLatch'
    BY DEF CallInv, ReaderLatch, Terminate, StreamDead, TerminalKinds
  <1>7. \A d \in Unanswered : rid[d] \in pending
    BY DEF CallInv, PendingExact
  <1>8. Unanswered' = {}
    BY <1>1, <1>2, <1>3, <1>7 DEF Unanswered
  <1> QED
    BY <1>4, <1>5, <1>6, <1>8 DEF CallInv, PendingExact, PendingHasReader, Terminate

\* A response settles the one future registered under its id, or none.
LEMMA ResponseCalls ==
    ASSUME TypeOK, CallInv, ReadResponse
    PROVE  CallInv'
  <1>1. \A d \in Callers : InCall(d)' = InCall(d) /\ rid'[d] = rid[d]
    BY DEF ReadResponse, InCall
  <1>2. \A d \in Callers :
           reply'[d] = IF Line.id \in pending /\ InCall(d) /\ rid[d] = Line.id
                       THEN Outcome(Line.kind, Line.value, Line.caps) ELSE reply[d]
    BY DEF ReadResponse, Hit
  <1>3. Outcome(Line.kind, Line.value, Line.caps).kind # "none"
    BY DEF ReadResponse, Outcome
  <1>4. OwnIds'
    BY <1>1 DEF CallInv, OwnIds, ReadResponse
  <1>5. NoStaleReply'
    BY <1>1, <1>2 DEF CallInv, NoStaleReply
  <1>6. ReaderLatch' /\ readTask' = "running"
    BY DEF CallInv, ReaderLatch, ReadResponse, Reading, streamVars, StreamDead
  <1>7. Unanswered' = {d \in Unanswered : rid[d] # Line.id}
    BY <1>1, <1>2, <1>3 DEF Unanswered, CallInv, PendingExact
  <1>8. PendingExact'
    BY <1>1, <1>7 DEF CallInv, PendingExact, ReadResponse, Unanswered
  <1> QED
    BY <1>4, <1>5, <1>6, <1>8 DEF CallInv, PendingHasReader

\* A read task that never ran leaves every future registered.
LEMMA SkippedCalls ==
    ASSUME CallInv, ReadSkipped
    PROVE  CallInv'
  <1>1. \A d \in Callers : InCall(d)' = InCall(d) /\ rid'[d] = rid[d] /\ reply'[d] = reply[d]
    BY DEF ReadSkipped, callVars, InCall
  <1>2. Unanswered' = Unanswered
    BY <1>1 DEF Unanswered
  <1> QED
    BY <1>1, <1>2 DEF CallInv, OwnIds, NoStaleReply, ReaderLatch, PendingExact, PendingHasReader,
                      ReadSkipped, StreamDead, Unanswered

\* No step of the close task loses a registered future.
LEMMA CloserCalls ==
    ASSUME TypeOK, CallInv, CloserNext
    PROVE  CallInv'
  <1>1. \A d \in Callers : InCall(d)' = InCall(d) /\ rid'[d] = rid[d] /\ reply'[d] = reply[d]
    BY DEF CloserNext, Close, CloseStreams, CloseJoined, CloseDone, callVars, InCall
  <1>2. nextId' = nextId /\ pending' = pending
    BY DEF CloserNext, Close, CloseStreams, CloseJoined, CloseDone
  <1>3. OwnIds' /\ NoStaleReply'
    BY <1>1, <1>2 DEF CallInv, OwnIds, NoStaleReply
  <1>4. Unanswered' = Unanswered
    BY <1>1 DEF Unanswered
  <1>5. PendingExact'
    BY <1>1, <1>2, <1>4 DEF CallInv, PendingExact, Unanswered
  <1>6. ReaderLatch' /\ PendingHasReader'
    <2>1. CASE Close
      BY <2>1, <1>2 DEF Close, CallInv, ReaderLatch, PendingHasReader, StreamDead
    <2>2. CASE CloseStreams
      BY <2>2, <1>2 DEF CloseStreams, CallInv, ReaderLatch, PendingHasReader, StreamDead
    <2>3. CASE CloseJoined
      BY <2>3, <1>2 DEF CloseJoined, CallInv, ReaderLatch, PendingHasReader, StreamDead
    <2>4. CASE CloseDone
      BY <2>4, <1>2 DEF CloseDone, CallInv, ReaderLatch, PendingHasReader, StreamDead
    <2> QED BY <2>1, <2>2, <2>3, <2>4 DEF CloserNext
  <1> QED
    BY <1>3, <1>5, <1>6 DEF CallInv

\* Every caller step is an issue, a departure from the queue, a settlement or quiet.
LEMMA CallerCalls ==
    ASSUME TypeOK, CallInv, NEW c \in Callers, CallerNext(c)
    PROVE  CallInv'
  <1>1. ASSUME NEW m, NEW g, ~InCall(c), Issue(c, m, g) PROVE CallInv'
    BY <1>1, IssueCalls
  <1>2. ASSUME pc[c] = "lock", LeaveLock(c), UNCHANGED <<nextId, pending, streamVars>>
        PROVE  CallInv'
    <2>1. \A d \in Callers : InCall(d)' = InCall(d)
      BY <1>2 DEF LeaveLock, InCall, TypeOK
    <2> QED BY <1>2, <2>1, QuietCalls DEF LeaveLock
  <1>3. ASSUME Ends(c) # {}, Settle(c) PROVE CallInv'
    BY <1>3, SettleCalls DEF Ends, InCall
  <1>4. CASE Initialize(c) \/ CallHostIngress(c) \/ AcquireTransition(c)
    BY <1>1, <1>4 DEF Initialize, CallHostIngress, AcquireTransition, InCall
  <1>5. CASE Health(c)
    <2>1. CASE ~restartRequired
      BY <1>1, <1>5, <2>1 DEF Health, InCall
    <2>2. CASE restartRequired
      BY <1>5, <2>2, QuietCalls DEF Health, callVars, InCall
    <2> QED BY <2>1, <2>2
  <1>6. ASSUME NEW m \in {"list", "call"}, UseTools(c, m) PROVE CallInv'
    BY <1>1, <1>6 DEF UseTools, InCall
  <1>7. ASSUME NEW m, NEW g, RequestLifecycle(c, m, g) PROVE CallInv'
    <2>1. \A d \in Callers : InCall(d)' = InCall(d)
      BY <1>7 DEF RequestLifecycle, InCall, TypeOK
    <2> QED BY <1>7, <2>1, QuietCalls DEF RequestLifecycle
  <1>8. CASE AcquireTransitionDead(c) \/ RefuseLifecycle(c) \/ CancelQueued(c)
    BY <1>2, <1>8 DEF AcquireTransitionDead, RefuseLifecycle, CancelQueued
  <1>9. CASE AcquireShutdown(c)
    BY <1>1, <1>2, <1>9 DEF AcquireShutdown, InCall
  <1>10. CASE DrainDone(c)
    <2>1. \A d \in Callers : InCall(d)' = InCall(d)
      BY <1>10 DEF DrainDone, InCall, TypeOK
    <2> QED BY <1>10, <2>1, QuietCalls DEF DrainDone
  <1>11. CASE EndInitialize(c) \/ EndHealth(c) \/ EndPlain(c) \/ EndTransition(c)
    BY <1>3, <1>11 DEF EndInitialize, EndHealth, EndPlain, EndTransition
  <1> QED
    BY <1>4, <1>5, <1>6, <1>7, <1>8, <1>9, <1>10, <1>11 DEF CallerNext

-----------------------------------------------------------------------------
\* Who holds the lifecycle lock, which config it carries, and the fence.
LockInv ==
    TransitionHasConfig /\ AwaitedUnfenced /\ OneLifecycleRpc /\ FencedNotReady

\* A step of a caller keeps the lifecycle lock, its queue and the RPC it guards in step.
LEMMA CallerLock ==
    ASSUME TypeOK, CallInv, LockInv, NEW c \in Callers, CallerNext(c)
    PROVE  LockInv'
  <1> USE ClientConstants
  <1>1. ASSUME NEW m \in Methods \ LifecycleOps, NEW g, pc[c] = "idle", Issue(c, m, g),
               UNCHANGED <<flagVars, lifecycleLock>>
        PROVE  LockInv'
    <2>1. lifecycleLock # c /\ op'[c] = m /\ m # "transition"
      BY <1>1 DEF LockInv, OneLifecycleRpc, InCall, Issue, TypeOK, LifecycleOps
    <2>2. \A d \in Callers \ {c} :
             InCall(d)' = InCall(d) /\ op'[d] = op[d] /\ arg'[d] = arg[d]
      BY <1>1 DEF Issue, InCall, TypeOK
    <2>3. OneLifecycleRpc'
      BY <1>1, <2>1, <2>2 DEF LockInv, OneLifecycleRpc
    <2> QED
      BY <1>1, <2>1, <2>2, <2>3
         DEF LockInv, TransitionHasConfig, AwaitedUnfenced, FencedNotReady, flagVars
  <1>2. ASSUME NEW m \in LifecycleOps, NEW g, Issue(c, m, g), lifecycleLock = NoCaller,
               lifecycleLock' = c,
               m = "transition" => g \in Configs /\ ~restartRequired,
               UNCHANGED <<ready, restartRequired>>
        PROVE  LockInv'
    <2>1. InCall(c)' /\ op'[c] = m /\ arg'[c] = g
      BY <1>2 DEF Issue, InCall, TypeOK
    <2>2. \A d \in Callers \ {c} :
             InCall(d)' = InCall(d) /\ op'[d] = op[d] /\ arg'[d] = arg[d]
      BY <1>2 DEF Issue, InCall, TypeOK
    <2>3. \A d \in Callers : ~(InCall(d) /\ op[d] \in LifecycleOps)
      BY <1>2 DEF LockInv, OneLifecycleRpc
    <2>4. OneLifecycleRpc'
      BY <1>2, <2>1, <2>2, <2>3 DEF OneLifecycleRpc
    <2> QED
      BY <1>2, <2>1, <2>2, <2>4
         DEF LockInv, TransitionHasConfig, AwaitedUnfenced, FencedNotReady
  <1>3. ASSUME pc[c] = "lock", LeaveLock(c), UNCHANGED lifecycleLock, FencedNotReady',
               restartRequired' => restartRequired \/ lifecycleLock = NoCaller
        PROVE  LockInv'
    <2>1. ~InCall(c) /\ ~InCall(c)' /\ op'[c] = "health"
      BY <1>3 DEF LeaveLock, InCall, TypeOK
    <2>2. \A d \in Callers \ {c} :
             InCall(d)' = InCall(d) /\ op'[d] = op[d] /\ arg'[d] = arg[d]
      BY <1>3 DEF LeaveLock, InCall, TypeOK
    <2> QED
      BY <1>3, <2>1, <2>2
         DEF LockInv, OneLifecycleRpc, TransitionHasConfig, AwaitedUnfenced, LifecycleOps
  <1>4. ASSUME Settle(c), FencedNotReady',
               restartRequired' => restartRequired \/ lifecycleLock = c
        PROVE  LockInv'
    <2>1. ~InCall(c)' /\ op'[c] = "health"
      BY <1>4 DEF Settle, InCall, TypeOK
    <2>2. \A d \in Callers \ {c} :
             InCall(d)' = InCall(d) /\ op'[d] = op[d] /\ arg'[d] = arg[d]
      BY <1>4 DEF Settle, InCall, TypeOK
    <2>3. \A d \in Callers : (lifecycleLock' = d) <=> (lifecycleLock = d /\ d # c)
      BY <1>4 DEF Settle
    <2> QED
      BY <1>4, <2>1, <2>2, <2>3
         DEF LockInv, OneLifecycleRpc, TransitionHasConfig, AwaitedUnfenced, LifecycleOps
  <1>5. CASE Initialize(c) \/ CallHostIngress(c)
    BY <1>1, <1>5 DEF Initialize, CallHostIngress, Methods, LifecycleOps
  <1>6. CASE Health(c)
    <2>1. CASE ~restartRequired
      BY <1>1, <1>6, <2>1 DEF Health, Methods, LifecycleOps
    <2>2. CASE restartRequired
      BY <1>6, <2>2 DEF Health, callVars, InCall, LockInv, OneLifecycleRpc,
                        TransitionHasConfig, AwaitedUnfenced, FencedNotReady
    <2> QED BY <2>1, <2>2
  <1>7. ASSUME NEW m \in {"list", "call"}, UseTools(c, m) PROVE LockInv'
    BY <1>1, <1>7 DEF UseTools, Methods, LifecycleOps
  <1>8. ASSUME NEW m \in LifecycleOps, NEW g \in Configs \cup {NoConfig},
               RequestLifecycle(c, m, g)
        PROVE  LockInv'
    <2>1. ~InCall(c) /\ ~InCall(c)' /\ op'[c] = m /\ arg'[c] = g
      BY <1>8 DEF RequestLifecycle, InCall, TypeOK
    <2>2. \A d \in Callers \ {c} :
             InCall(d)' = InCall(d) /\ op'[d] = op[d] /\ arg'[d] = arg[d]
      BY <1>8 DEF RequestLifecycle, InCall, TypeOK
    <2>3. m = "transition" => g \in Configs
      BY <1>8 DEF RequestLifecycle
    <2> QED
      BY <1>8, <2>1, <2>2, <2>3 DEF RequestLifecycle, LockInv, OneLifecycleRpc,
         TransitionHasConfig, AwaitedUnfenced, FencedNotReady, flagVars
  <1>9. CASE AcquireTransition(c)
    BY <1>2, <1>9 DEF AcquireTransition, LifecycleOps, flagVars, LockInv, TransitionHasConfig
  <1>10. CASE AcquireTransitionDead(c)
    BY <1>3, <1>10 DEF AcquireTransitionDead, FencedNotReady
  <1>11. CASE AcquireShutdown(c)
    <2>1. FencedNotReady'
      BY <1>11 DEF AcquireShutdown, LockInv, FencedNotReady
    <2> QED BY <1>2, <1>3, <1>11, <2>1 DEF AcquireShutdown, LifecycleOps
  <1>12. CASE RefuseLifecycle(c) \/ CancelQueued(c)
    <2>1. FencedNotReady'
      BY <1>12 DEF RefuseLifecycle, CancelQueued, LockInv, FencedNotReady, flagVars
    <2> QED BY <1>3, <1>12, <2>1 DEF RefuseLifecycle, CancelQueued, flagVars
  <1>13. CASE DrainDone(c)
    <2>1. \A d \in Callers : InCall(d)' = InCall(d)
      BY <1>13 DEF DrainDone, InCall, TypeOK
    <2> QED
      BY <1>13, <2>1 DEF DrainDone, LockInv, OneLifecycleRpc, TransitionHasConfig,
                         AwaitedUnfenced, FencedNotReady, flagVars
  <1>14. CASE EndInitialize(c)
    BY <1>4, <1>14 DEF EndInitialize, LockInv, FencedNotReady
  <1>15. CASE EndHealth(c)
    <2>1. FencedNotReady'
      BY <1>15 DEF EndHealth, LockInv, FencedNotReady
    <2> QED BY <1>4, <1>15, <2>1 DEF EndHealth
  <1>16. CASE EndPlain(c)
    BY <1>4, <1>16 DEF EndPlain, LockInv, FencedNotReady, flagVars
  <1>17. CASE EndTransition(c)
    <2>1. FencedNotReady'
      BY <1>17 DEF EndTransition, LockInv, FencedNotReady, TypeOK
    <2>2. InCall(c)
      BY <1>17 DEF EndTransition, Ends, InCall
    <2>3. lifecycleLock = c
      BY <1>17, <2>2 DEF EndTransition, LockInv, OneLifecycleRpc, LifecycleOps
    <2> QED BY <1>4, <1>17, <2>1, <2>3 DEF EndTransition
  <1> QED
    BY <1>5, <1>6, <1>7, <1>8, <1>9, <1>10, <1>11, <1>12, <1>13, <1>14, <1>15, <1>16,
       <1>17 DEF CallerNext

-----------------------------------------------------------------------------
\* The frames already written to the child.
FrameInv == ShutdownIsLatched /\ WireOrder

\* A frame may be appended if the shutdown latch allows its method.
LEMMA IssueFrames ==
    ASSUME TypeOK, FrameInv, NEW c \in Callers, NEW m \in Methods,
           NEW g \in Configs \cup {NoConfig}, Issue(c, m, g),
           shutdownStarted => shutdownStarted',
           m = "shutdown" => shutdownStarted',
           m \in {"transition", "ingress", "shutdown"} => ~shutdownStarted
    PROVE  FrameInv'
  <1>1. CASE ~inOpen
    BY <1>1 DEF Issue, FrameInv, ShutdownIsLatched, WireOrder
  <1>2. CASE inOpen
    <2>1. Request(nextId + 1, m, g) \in Requests /\ toChild \in Seq(Requests)
      BY Pieces DEF TypeOK, WireTypeOK
    <2>2. /\ Len(toChild') = Len(toChild) + 1
          /\ \A i \in 1..Len(toChild) : toChild'[i] = toChild[i]
          /\ toChild'[Len(toChild) + 1].method = m
      BY <1>2, <2>1 DEF Issue, Request
    <2>3. Len(toChild) \in Nat
      BY <2>1
    <2>4. ShutdownIsLatched'
      BY <2>2, <2>3 DEF FrameInv, ShutdownIsLatched
    <2>5. WireOrder'
      BY <2>2, <2>3 DEF FrameInv, ShutdownIsLatched, WireOrder
    <2> QED BY <2>4, <2>5 DEF FrameInv
  <1> QED BY <1>1, <1>2 DEF TypeOK, WireTypeOK

\* Every other step leaves the written frames and the latch alone.
LEMMA QuietFrames ==
    ASSUME FrameInv, UNCHANGED toChild, shutdownStarted => shutdownStarted'
    PROVE  FrameInv'
  BY DEF FrameInv, ShutdownIsLatched, WireOrder

\* No step writes a frame that starts work behind a shutdown frame.
LEMMA NextFrames ==
    ASSUME TypeOK, FrameInv, Next
    PROVE  FrameInv'
  <1> USE ClientConstants, WireConstants
  <1>1. ASSUME NEW c \in Callers, CallerNext(c) PROVE FrameInv'
    <2>1. CASE Initialize(c)
      BY <2>1, IssueFrames DEF Initialize, Methods, flagVars, TypeOK
    <2>2. CASE Health(c)
      <3>1. CASE ~restartRequired
        BY <2>2, <3>1, IssueFrames DEF Health, Methods, flagVars
      <3>2. CASE restartRequired
        BY <2>2, <3>2, QuietFrames DEF Health, wireVars
      <3> QED BY <3>1, <3>2
    <2>3. CASE CallHostIngress(c)
      BY <2>3, IssueFrames DEF CallHostIngress, Methods, flagVars
    <2>4. ASSUME NEW m \in {"list", "call"}, UseTools(c, m) PROVE FrameInv'
      BY <2>4, IssueFrames DEF UseTools, Methods, flagVars
    <2>5. ASSUME NEW m, NEW g, RequestLifecycle(c, m, g) PROVE FrameInv'
      BY <2>5, QuietFrames DEF RequestLifecycle, wireVars, flagVars
    <2>6. CASE AcquireTransition(c)
      <3>1. arg[c] \in Configs \cup {NoConfig}
        BY DEF TypeOK
      <3> QED BY <2>6, <3>1, IssueFrames DEF AcquireTransition, Methods, flagVars
    <2>7. CASE AcquireTransitionDead(c)
      BY <2>7, QuietFrames DEF AcquireTransitionDead, wireVars
    <2>8. CASE AcquireShutdown(c)
      <3>1. CASE Issue(c, "shutdown", NoConfig)
        BY <2>8, <3>1, IssueFrames DEF AcquireShutdown, Methods
      <3>2. CASE UNCHANGED wireVars
        BY <2>8, <3>2, QuietFrames DEF AcquireShutdown, wireVars
      <3> QED BY <2>8, <3>1, <3>2 DEF AcquireShutdown
    <2>9. CASE RefuseLifecycle(c) \/ CancelQueued(c) \/ DrainDone(c)
      BY <2>9, QuietFrames DEF RefuseLifecycle, CancelQueued, DrainDone, wireVars, flagVars
    <2>10. CASE EndInitialize(c) \/ EndHealth(c) \/ EndPlain(c) \/ EndTransition(c)
      BY <2>10, QuietFrames
         DEF EndInitialize, EndHealth, EndPlain, EndTransition, Settle, wireVars, flagVars
    <2> QED
      BY <1>1, <2>1, <2>2, <2>3, <2>4, <2>5, <2>6, <2>7, <2>8, <2>9, <2>10 DEF CallerNext
  <1>2. CASE ReaderNext
    BY <1>2, QuietFrames DEF ReaderNext, ReadResponse, ReadJunk, ReadEof, ReadCancelled,
                             ReadSkipped, Terminate, wireVars, flagVars
  <1>3. CASE CloserNext
    BY <1>3, QuietFrames DEF CloserNext, Close, CloseStreams, CloseJoined, CloseDone,
                             wireVars, flagVars
  <1>4. CASE ChildNext
    BY <1>4, QuietFrames DEF ChildNext, ChildWrites, ChildClosesStdin, ChildClosesStdout,
                             clientVars, flagVars
  <1> QED BY <1>1, <1>2, <1>3, <1>4 DEF Next, ClientNext

-----------------------------------------------------------------------------
\* What is known of a client whose first request close() has overtaken.
FirstInv == Untouched /\ CloseIsLatched /\ OvertakenIsFirst

\* A request issued by a client that knows nothing of its child is health or initialize.
LEMMA IssueFirst ==
    ASSUME TypeOK, FirstInv, NEW c \in Callers, NEW m, NEW g, Issue(c, m, g), ~InCall(c),
           NoStaleReply, UNCHANGED <<ready, caps>>, shutdownStarted => shutdownStarted',
           shutdownStarted /\ caps = NoCaps /\ ~ready => m \in {"initialize", "health"}
    PROVE  FirstInv'
  <1>1. Untouched'
    BY DEF Untouched, Issue, TypeOK
  <1>2. CloseIsLatched'
    BY DEF FirstInv, CloseIsLatched, Issue
  <1>3. /\ \A d \in Callers \ {c} : InCall(d)' = InCall(d) /\ op'[d] = op[d]
        /\ op'[c] = m /\ reply' = reply
    BY DEF Issue, InCall, TypeOK
  <1>4. OvertakenIsFirst'
    <2> SUFFICES ASSUME overtaken' PROVE OvertakenIsFirst'
      BY DEF OvertakenIsFirst
    <2>1. CASE overtaken
      BY <1>3, <2>1 DEF FirstInv, OvertakenIsFirst, Issue, NoStaleReply
    <2>2. CASE readTask = "none" /\ closeTask = "created"
      BY <1>3, <2>2 DEF FirstInv, Untouched, CloseIsLatched, OvertakenIsFirst, Issue, NoStaleReply
    <2> QED BY <2>1, <2>2 DEF Issue
  <1> QED BY <1>1, <1>2, <1>4 DEF FirstInv

\* Steps after which no caller is in a call that was not, and nothing more is known.
LEMMA QuietFirst ==
    ASSUME FirstInv, UNCHANGED <<overtaken, caps>>, ready' => ready,
           shutdownStarted => shutdownStarted',
           readTask' = readTask \/ (readTask = "running" /\ readTask' = "done")
               \/ closeTask' = "done",
           closeTask' = closeTask \/ (closeTask' # "none" /\ shutdownStarted'),
           closeTask' = "none" => closeTask = "none",
           closeTask = "done" => closeTask' = "done",
           \A d \in Callers : InCall(d)' => InCall(d) /\ op'[d] = op[d],
           overtaken => \A d \in Callers : InCall(d)' => reply'[d] = reply[d]
    PROVE  FirstInv'
  <1>1. Untouched'
    BY DEF FirstInv, Untouched
  <1>2. CloseIsLatched'
    BY DEF FirstInv, CloseIsLatched
  <1>3. OvertakenIsFirst'
    BY DEF FirstInv, OvertakenIsFirst
  <1> QED BY <1>1, <1>2, <1>3 DEF FirstInv

\* Every step of a caller keeps what is known of an overtaken client.
LEMMA CallerFirst ==
    ASSUME TypeOK, NoStaleReply, FirstInv, NEW c \in Callers, CallerNext(c)
    PROVE  FirstInv'
  <1>1. CASE Initialize(c) \/ CallHostIngress(c) \/ AcquireTransition(c)
    BY <1>1, IssueFirst DEF Initialize, CallHostIngress, AcquireTransition, InCall, flagVars, NoCaps
  <1>2. CASE Health(c)
    <2>1. CASE ~restartRequired
      BY <1>2, <2>1, IssueFirst DEF Health, InCall, flagVars
    <2>2. CASE restartRequired
      BY <1>2, <2>2, QuietFirst DEF Health, callVars, streamVars, InCall
    <2> QED BY <2>1, <2>2
  <1>3. ASSUME NEW m \in {"list", "call"}, UseTools(c, m) PROVE FirstInv'
    BY <1>3, IssueFirst DEF UseTools, InCall, flagVars
  <1>4. ASSUME NEW m, NEW g, RequestLifecycle(c, m, g) PROVE FirstInv'
    <2>1. \A d \in Callers : InCall(d)' => InCall(d) /\ op'[d] = op[d]
      BY <1>4 DEF RequestLifecycle, InCall, TypeOK
    <2> QED BY <1>4, <2>1, QuietFirst DEF RequestLifecycle, flagVars, streamVars
  <1>5. ASSUME pc[c] = "lock", LeaveLock(c), UNCHANGED <<streamVars, caps>>, ready' => ready,
               shutdownStarted => shutdownStarted'
        PROVE  FirstInv'
    <2>1. \A d \in Callers : InCall(d)' => InCall(d) /\ op'[d] = op[d]
      BY <1>5 DEF LeaveLock, InCall, TypeOK
    <2> QED BY <1>5, <2>1, QuietFirst DEF LeaveLock, streamVars
  <1>6. CASE AcquireTransitionDead(c) \/ RefuseLifecycle(c) \/ CancelQueued(c)
    BY <1>5, <1>6 DEF AcquireTransitionDead, RefuseLifecycle, CancelQueued, flagVars
  <1>7. CASE AcquireShutdown(c)
    <2>1. CASE Issue(c, "shutdown", NoConfig)
      BY <1>7, <2>1, IssueFirst DEF AcquireShutdown, InCall
    <2>2. CASE LeaveLock(c) /\ UNCHANGED streamVars
      BY <1>5, <1>7, <2>2 DEF AcquireShutdown
    <2> QED BY <1>7, <2>1, <2>2 DEF AcquireShutdown
  <1>8. CASE DrainDone(c)
    <2>1. \A d \in Callers : InCall(d)' => InCall(d) /\ op'[d] = op[d]
      BY <1>8 DEF DrainDone, InCall, TypeOK
    <2> QED BY <1>8, <2>1, QuietFirst DEF DrainDone, flagVars, streamVars
  <1>9. CASE EndInitialize(c) \/ EndHealth(c) \/ EndPlain(c) \/ EndTransition(c)
    <2>1. Settle(c) /\ InCall(c) /\ shutdownStarted' = shutdownStarted
      BY <1>9 DEF EndInitialize, EndHealth, EndPlain, EndTransition, Ends, InCall, flagVars
    <2>2. \A d \in Callers : /\ InCall(d)' => InCall(d) /\ op'[d] = op[d]
                             /\ InCall(d)' => reply'[d] = reply[d]
      BY <2>1 DEF Settle, InCall, TypeOK
    <2>3. CASE overtaken
      <3>1. reply[c].kind = "none" /\ op[c] \in {"initialize", "health"}
        BY <2>1, <2>3 DEF FirstInv, OvertakenIsFirst
      <3>2. \A o \in Ends(c) : o.kind # "result"
        BY <3>1 DEF Ends, Failure, Outcome
      <3>3. UNCHANGED <<ready, caps>>
        BY <1>9, <3>1, <3>2 DEF EndInitialize, EndHealth, EndPlain, EndTransition, PlainOps, flagVars
      <3> QED BY <2>1, <2>2, <3>3, QuietFirst DEF Settle, streamVars
    <2>4. CASE ~overtaken
      <3>1. UNCHANGED streamVars /\ ~overtaken'
        BY <2>1, <2>4 DEF Settle, streamVars
      <3>2. ~(readTask = "none" /\ closeTask # "done")
        BY <2>1 DEF FirstInv, Untouched
      <3> QED BY <2>1, <3>1, <3>2
              DEF FirstInv, Untouched, CloseIsLatched, OvertakenIsFirst, streamVars
    <2> QED BY <2>3, <2>4
  <1> QED
    BY <1>1, <1>2, <1>3, <1>4, <1>6, <1>7, <1>8, <1>9 DEF CallerNext

\* So does every step of the read task and of the close task.
LEMMA StreamFirst ==
    ASSUME TypeOK, FirstInv, ReaderNext \/ CloserNext
    PROVE  FirstInv'
  <1>1. \A d \in Callers : InCall(d)' = InCall(d) /\ op'[d] = op[d]
    BY DEF ReaderNext, ReadResponse, ReadJunk, ReadEof, ReadCancelled, ReadSkipped, Terminate,
           CloserNext, Close, CloseStreams, CloseJoined, CloseDone, callVars, InCall
  <1>2. CASE ReadResponse
    BY <1>1, <1>2, QuietFirst DEF ReadResponse, Reading, streamVars, flagVars
  <1>3. CASE ReadJunk \/ ReadEof \/ ReadCancelled
    BY <1>1, <1>3, QuietFirst DEF ReadJunk, ReadEof, ReadCancelled, Reading, Terminate, flagVars
  <1>4. CASE ReadSkipped
    BY <1>1, <1>4, QuietFirst DEF ReadSkipped, flagVars, callVars
  <1>5. CASE Close \/ CloseStreams \/ CloseJoined \/ CloseDone
    <2>1. closeTask # "none" => shutdownStarted
      BY DEF FirstInv, CloseIsLatched
    <2> QED BY <1>1, <1>5, <2>1, QuietFirst
            DEF Close, CloseStreams, CloseJoined, CloseDone, flagVars, callVars
  <1> QED BY <1>2, <1>3, <1>4, <1>5 DEF ReaderNext, CloserNext

-----------------------------------------------------------------------------
\* A client that has issued nothing satisfies the invariant.
LEMMA InitInv == Init => ClientInv
  <1> SUFFICES ASSUME Init PROVE ClientInv
    OBVIOUS
  <1> USE DEF Init, WireInit, ClientInit
  <1>1. TypeOK
    <2>1. <<>> \in Seq(Requests) /\ <<>> \in Seq(Lines)
      OBVIOUS
    <2>2. WireTypeOK
      BY <2>1 DEF WireTypeOK
    <2>3. pending \subseteq 1..nextId /\ nextId \in Nat
      OBVIOUS
    <2> QED BY <2>2, <2>3, Pieces DEF TypeOK, Methods
  <1>2. \A c \in Callers : ~InCall(c) /\ reply[c].kind = "none" /\ op[c] = "health"
    BY DEF InCall, NoReply, Failure, Outcome
  <1>3. Unanswered = {}
    BY <1>2 DEF Unanswered
  <1>4. /\ TransitionHasConfig /\ AwaitedUnfenced
        /\ OwnIds /\ NoStaleReply /\ OneLifecycleRpc
    BY <1>2, ClientConstants
       DEF TransitionHasConfig, AwaitedUnfenced, OwnIds, NoStaleReply, OneLifecycleRpc
  <1>5. ReaderLatch /\ PendingExact /\ PendingHasReader /\ FencedNotReady
    BY <1>3 DEF ReaderLatch, PendingExact, PendingHasReader, FencedNotReady
  <1>6. ShutdownIsLatched /\ WireOrder
    BY DEF ShutdownIsLatched, WireOrder
  <1>7. Untouched /\ CloseIsLatched /\ OvertakenIsFirst
    BY <1>2 DEF Untouched, CloseIsLatched, OvertakenIsFirst
  <1> QED BY <1>1, <1>4, <1>5, <1>6, <1>7 DEF ClientInv

\* Every step of callers, reader, close task and child preserves the invariant.
LEMMA StepInv == ClientInv /\ [Next]_vars => ClientInv'
  <1> SUFFICES ASSUME ClientInv, [Next]_vars PROVE ClientInv'
    OBVIOUS
  <1>1. TypeOK /\ CallInv /\ LockInv /\ FrameInv /\ FirstInv /\ NoStaleReply
    BY DEF ClientInv, CallInv, LockInv, FrameInv, FirstInv
  <1>2. ASSUME TypeOK', CallInv', LockInv', FrameInv', FirstInv' PROVE ClientInv'
    BY <1>2 DEF ClientInv, CallInv, LockInv, FrameInv, FirstInv
  <1>3. ASSUME NEW c \in Callers, CallerNext(c) PROVE ClientInv'
    <2>1. Next
      BY <1>3 DEF Next, ClientNext
    <2> QED
      BY <1>1, <1>2, <1>3, <2>1, CallerType, CallerCalls, CallerLock, CallerFirst, NextFrames
         DEF LockInv
  <1>4. CASE ReaderNext
    <2>1. CallInv'
      <3>1. CASE ReadResponse
        BY <3>1, <1>1, ResponseCalls
      <3>2. CASE ReadJunk \/ ReadEof \/ ReadCancelled
        <4>1. PICK k \in TerminalKinds : Terminate(k)
          BY <3>2 DEF ReadJunk, ReadEof, ReadCancelled, TerminalKinds
        <4> QED
          BY <1>1, <3>2, <4>1, TerminateCalls DEF ReadJunk, ReadEof, ReadCancelled, Reading
      <3>3. CASE ReadSkipped
        BY <3>3, <1>1, SkippedCalls
      <3> QED BY <1>4, <3>1, <3>2, <3>3 DEF ReaderNext
    <2>2. UNCHANGED <<flagVars, pc, op, arg, lifecycleLock>>
      BY <1>4 DEF ReaderNext, ReadResponse, ReadJunk, ReadEof, ReadCancelled, ReadSkipped,
                  callVars, Terminate
    <2>3. LockInv'
      BY <1>1, <2>2 DEF LockInv, TransitionHasConfig, AwaitedUnfenced, OneLifecycleRpc,
                        FencedNotReady, InCall, flagVars
    <2> QED BY <1>1, <1>2, <1>4, <2>1, <2>3, StreamFirst, OtherType, NextFrames DEF Next, ClientNext
  <1>5. CASE CloserNext
    <2>1. UNCHANGED <<ready, restartRequired, pc, op, arg, lifecycleLock>>
      BY <1>5 DEF CloserNext, Close, CloseStreams, CloseJoined, CloseDone, flagVars, callVars
    <2>2. LockInv'
      BY <1>1, <2>1 DEF LockInv, TransitionHasConfig, AwaitedUnfenced, OneLifecycleRpc,
                        FencedNotReady, InCall
    <2> QED BY <1>1, <1>2, <1>5, <2>2, CloserCalls, StreamFirst, OtherType, NextFrames DEF Next, ClientNext
  <1>6. CASE ChildNext \/ UNCHANGED vars
    <2>1. UNCHANGED clientVars
      BY <1>6 DEF ChildNext, ChildWrites, ChildClosesStdin, ChildClosesStdout, vars
    <2>2. UNCHANGED <<nextId, pending, streamVars, rid, reply, pc, op, arg, lifecycleLock,
                      ready, restartRequired, caps, shutdownStarted>>
      BY <2>1 DEF clientVars, callVars, flagVars
    <2>3. LockInv'
      BY <1>1, <2>2 DEF LockInv, TransitionHasConfig, AwaitedUnfenced, OneLifecycleRpc,
                        FencedNotReady, InCall
    <2>4. CallInv'
      BY <1>1, <2>2, QuietCalls DEF InCall
    <2>5. TypeOK'
      <3>1. CASE ChildNext
        BY <1>1, <3>1, OtherType
      <3>2. CASE UNCHANGED vars
        BY <1>1, <3>2 DEF TypeOK, WireTypeOK, vars, wireVars, clientVars, flagVars,
                          streamVars, callVars
      <3> QED BY <1>6, <3>1, <3>2
    <2>6. FrameInv'
      <3>1. CASE ChildNext
        BY <1>1, <3>1, NextFrames DEF Next
      <3>2. CASE UNCHANGED vars
        BY <1>1, <3>2, QuietFrames DEF vars, wireVars, clientVars, flagVars
      <3> QED BY <1>6, <3>1, <3>2
    <2>7. FirstInv'
      BY <1>1, <2>2, QuietFirst DEF InCall, streamVars
    <2> QED BY <1>2, <2>3, <2>4, <2>5, <2>6, <2>7
  <1> QED
    BY <1>3, <1>4, <1>5, <1>6 DEF Next, ClientNext

(***************************************************************************)
(* The client's inductive invariant holds in every state, whatever the     *)
(* child writes and whenever calls are cancelled.                          *)
(***************************************************************************)
THEOREM ClientInvariant == Spec => []ClientInv
  BY InitInv, StepInv, PTL DEF Spec

\* The host client is type correct.
THEOREM ClientTypeCorrect == Spec => []TypeOK
  <1>1. ClientInv => TypeOK
    BY DEF ClientInv
  <1> QED BY <1>1, ClientInvariant, PTL

(***************************************************************************)
(* No waiter of request() is forgotten and none lacks a read loop that     *)
(* will still settle it: _pending is exact, and non-empty only while the   *)
(* reader runs.  The exception is a client whose first request came behind *)
(* a queued close(): it has sent nothing but health and initialize.        *)
(***************************************************************************)
THEOREM NoForgottenCall == Spec => []PendingSound
  <1>1. ClientInv => PendingSound
    BY DEF ClientInv, PendingSound
  <1> QED BY <1>1, ClientInvariant, PTL

\* No late health reply revives a fenced client.
THEOREM FenceHolds == Spec => []FencedNotReady
  <1>1. ClientInv => FencedNotReady
    BY DEF ClientInv
  <1> QED BY <1>1, ClientInvariant, PTL

\* Lifecycle RPCs exclude each other, and nothing follows a shutdown frame.
THEOREM LifecycleSerialized == Spec => []LifecycleOrder
  <1>1. ClientInv => LifecycleOrder
    BY DEF ClientInv, LifecycleOrder
  <1> QED BY <1>1, ClientInvariant, PTL

(***************************************************************************)
(* A fence is final: after it no reply clears it and no queued transition  *)
(* overwrites the config the replacement will be started with.             *)
(***************************************************************************)
THEOREM FenceFinal == Spec => FenceIsFinal
  <1> DEFINE Keeps == restartRequired => restartRequired' /\ hostConfig' = hostConfig
  <1>1. ASSUME ClientInv, [Next]_vars PROVE [Keeps]_vars
    <2> SUFFICES ASSUME Next, restartRequired PROVE Keeps
      BY <1>1
    <2>1. ASSUME NEW c \in Callers, EndTransition(c) PROVE FALSE
      BY <1>1, <2>1 DEF EndTransition, Ends, InCall, ClientInv, AwaitedUnfenced
    <2>2. ASSUME NEW c \in Callers, CallerNext(c)
          PROVE  UNCHANGED <<restartRequired, hostConfig>>
      BY <2>1, <2>2
         DEF CallerNext, Initialize, Health, UseTools, CallHostIngress, RequestLifecycle,
             AcquireTransition, AcquireTransitionDead, AcquireShutdown, RefuseLifecycle,
             CancelQueued, DrainDone, EndInitialize, EndHealth, EndPlain, flagVars
    <2>3. ASSUME ReaderNext \/ CloserNext \/ ChildNext
          PROVE  UNCHANGED <<restartRequired, hostConfig>>
      BY <2>3
         DEF ReaderNext, ReadResponse, ReadJunk, ReadEof, ReadCancelled, ReadSkipped, Terminate,
             CloserNext, Close, CloseStreams, CloseJoined, CloseDone, ChildNext,
             ChildWrites, ChildClosesStdin, ChildClosesStdout, clientVars, flagVars
    <2> QED
      BY <2>2, <2>3 DEF Next, ClientNext
  <1>2. ClientInv /\ [Next]_vars => [Keeps]_vars
    BY <1>1
  <1> QED
    BY <1>2, ClientInvariant, PTL DEF Spec, FenceIsFinal
=============================================================================
