----------------------- MODULE ChildSupervisorProofs -----------------------
(***************************************************************************)
(* Proofs about ChildSupervisor, for any number of starting and changing   *)
(* tasks, of processes, generations and configs: at most one child is      *)
(* unreaped and it always has an owner, a successful stop() leaves none,   *)
(* and the wrapper's config is the one its published child runs on.        *)
(*                                                                         *)
(* The arguments meet in one inductive invariant.  The lifecycle lock makes *)
(* the spawn slot and the open handoff belong to the one task that works;  *)
(* stop() never takes that lock, so what it may rely on is that every task *)
(* it interrupted carries a cancellation.                                  *)
(***************************************************************************)
EXTENDS ChildSupervisor, FiniteSetTheorems, TLAPS

StartPcs == {"idle", "lock", "check", "joinOld", "admit", "spawn", "phases", "claim",
             "joinRet", "finalize", "return", "leave", "unregister"}
ChangePcs == {"idle", "lock", "snapshot", "pend", "probe", "rpc", "keep", "restore",
              "leave", "unregister"}
LockedPcs == OpPcs \ {"idle", "lock", "leave", "unregister"}

\* A task inside the section of the lifecycle lock holds it, and runs its own operation
\* on a child it knows.
Serialized ==
    /\ \A o \in Ops : opPc[o] \in LockedPcs => lockOwner = o
    /\ \A o \in Starters : opPc[o] \in StartPcs
    /\ \A o \in Changers : opPc[o] \in ChangePcs
    /\ \A o \in Ops : opPc[o] \in {"joinOld", "spawn", "phases", "claim", "joinRet", "pend", "rpc"}
                        => opProc[o] # NoProc
    /\ generation # NoGen

\* A task at work is registered, or it was interrupted by stop() and has a cancellation.
Accounted ==
    \A o \in Ops : opPc[o] # "idle" => o \in active \/ (o \in retiringOps /\ o \in cancelled)

\* The spawn slot belongs to the start that is spawning; one child at most is unreaped,
\* it has an owner, and a record is complete only for a child that is gone.
Owned ==
    /\ spawnTask # NoProc =>
         /\ startingGen # NoGen
         /\ \E o \in Starters : opPc[o] \in {"spawn", "claim"} /\ opProc[o] = spawnTask
    /\ \A p, q \in Unreaped : p = q
    /\ \A p \in Unreaped : published = p \/ spawnTask = p \/ retire[p] # "none"
    /\ \A p \in Procs : retire[p] = "complete" => proc[p] \in {"failed", "reaped"}

\* While stop() is at work nothing is published, spawned or handed over, and nobody is
\* admitted; its verdict is true as soon as it is formed.
Stopped ==
    /\ stopping <=> stopPc \in {"settle", "fence", "settleAgain", "reap", "join", "ops", "finish"}
    /\ stopping => active = {} /\ published = NoProc /\ spawnTask = NoProc /\ pending = {}
    /\ stopOk => /\ stopPc \in {"ops", "finish", "done"}
                 /\ Unreaped = {} /\ published = NoProc /\ pending = {}

\* An open handoff belongs to a transition that is under way on the published child, and
\* remembers the config of before; where it stands says what the child runs on.
HandedOver ==
    /\ \A r \in pending :
         /\ r.owner \in Changers /\ opPc[r.owner] \in {"rpc", "keep", "restore"}
         /\ published # NoProc /\ r.previous = config /\ pending = {r}
         /\ opPc[r.owner] = "rpc" => opProc[r.owner] = published
         /\ ~fenced => running[published] =
              IF opPc[r.owner] = "keep" THEN r.next ELSE config
    /\ ConfigCoherent

SupervisorInv ==
    TypeOK /\ Serialized /\ Accounted /\ Owned /\ Stopped /\ HandedOver
\* The names of None, the two kinds of task and the groups of variables are always open.
USE SupervisorConstants DEF NoProc, NoGen, Ops, vars, osVars, startVars, opVars, retireVars,
                            stopVars, cfgVars

\* Registering, taking and leaving the lifecycle lock, cancellation and its delivery.
LEMMA TaskKeepsInv ==
    ASSUME SupervisorInv, NEW o \in Ops,
           Register(o) \/ TakeLock(o) \/ Unwind(o) \/ Leave(o) \/ Unregister(o)
           \/ ReleaseRetiredOperation(o) \/ Cancel(o)
    PROVE  SupervisorInv'
<1>1. CASE Register(o)
  <2>1. TypeOK'
    BY <1>1 DEF SupervisorInv, TypeOK, OpPcs, RetireStages, RetireEnds, StopPcs, Register, Goto,
       Retirements
  <2>2. Serialized'
    BY <1>1 DEF SupervisorInv, TypeOK, Serialized, LockedPcs, OpPcs, StartPcs, ChangePcs,
       Register, Goto, Retirements
  <2>3. Accounted'
    BY <1>1 DEF SupervisorInv, TypeOK, Accounted, Register, Goto, Retirements
  <2>4. Owned'
    BY <1>1 DEF SupervisorInv, TypeOK, Serialized, Owned, Unreaped, LockedPcs, OpPcs, Register,
       Goto, Retirements
  <2>5. Stopped'
    BY <1>1 DEF SupervisorInv, TypeOK, Serialized, Accounted, Owned, Stopped, Unreaped, Register,
       Goto, Retirements
  <2>6. HandedOver'
    BY <1>1 DEF SupervisorInv, TypeOK, Serialized, HandedOver, ConfigCoherent, LockedPcs, OpPcs,
       Register, Goto, Retirements
  <2> QED BY <2>1, <2>2, <2>3, <2>4, <2>5, <2>6 DEF SupervisorInv
<1>2. CASE TakeLock(o)
  <2>1. TypeOK'
    BY <1>2 DEF SupervisorInv, TypeOK, OpPcs, RetireStages, RetireEnds, StopPcs, TakeLock, Goto
  <2>2. Serialized'
    BY <1>2 DEF SupervisorInv, TypeOK, Serialized, LockedPcs, OpPcs, StartPcs, ChangePcs,
       TakeLock, Goto
  <2>3. Accounted'
    BY <1>2 DEF SupervisorInv, TypeOK, Accounted, TakeLock, Goto
  <2>4. Owned'
    BY <1>2 DEF SupervisorInv, TypeOK, Serialized, Owned, Unreaped, LockedPcs, OpPcs, TakeLock,
       Goto
  <2>5. HandedOver'
    BY <1>2 DEF SupervisorInv, TypeOK, Serialized, HandedOver, ConfigCoherent, LockedPcs, OpPcs,
       TakeLock, Goto
  <2>6. Stopped'
    BY <1>2 DEF SupervisorInv, TypeOK, Serialized, Accounted, Owned, Stopped, Unreaped, TakeLock,
       Goto
  <2> QED BY <2>1, <2>2, <2>3, <2>4, <2>5, <2>6 DEF SupervisorInv
<1>3. CASE Unwind(o)
  <2>1. TypeOK'
    BY <1>3 DEF SupervisorInv, TypeOK, OpPcs, RetireStages, RetireEnds, StopPcs, Unwind, Goto
  <2>2. Serialized'
    BY <1>3 DEF SupervisorInv, TypeOK, Serialized, LockedPcs, OpPcs, StartPcs, ChangePcs, Unwind,
       Goto
  <2>3. Accounted'
    BY <1>3 DEF SupervisorInv, TypeOK, Accounted, Unwind, Goto
  <2>4. Owned'
    BY <1>3 DEF SupervisorInv, TypeOK, Serialized, Owned, Unreaped, LockedPcs, OpPcs, Unwind, Goto
  <2>5. HandedOver'
    BY <1>3 DEF SupervisorInv, TypeOK, Serialized, HandedOver, ConfigCoherent, LockedPcs, OpPcs,
       Unwind, Goto
  <2>6. Stopped'
    BY <1>3 DEF SupervisorInv, TypeOK, Serialized, Accounted, Owned, Stopped, Unreaped, Unwind,
       Goto
  <2> QED BY <2>1, <2>2, <2>3, <2>4, <2>5, <2>6 DEF SupervisorInv
<1>4. CASE Leave(o)
  <2>1. TypeOK'
    BY <1>4 DEF SupervisorInv, TypeOK, OpPcs, RetireStages, RetireEnds, StopPcs, Leave, Goto
  <2>2. Serialized'
    BY <1>4 DEF SupervisorInv, TypeOK, Serialized, LockedPcs, OpPcs, StartPcs, ChangePcs, Leave,
       Goto
  <2>3. Accounted'
    BY <1>4 DEF SupervisorInv, TypeOK, Accounted, Leave, Goto
  <2>4. Owned'
    BY <1>4 DEF SupervisorInv, TypeOK, Serialized, Owned, Unreaped, LockedPcs, OpPcs, Leave, Goto
  <2>5. HandedOver'
    BY <1>4 DEF SupervisorInv, TypeOK, Serialized, HandedOver, ConfigCoherent, LockedPcs, OpPcs,
       Leave, Goto
  <2>6. Stopped'
    BY <1>4 DEF SupervisorInv, TypeOK, Serialized, Accounted, Owned, Stopped, Unreaped, Leave,
       Goto
  <2> QED BY <2>1, <2>2, <2>3, <2>4, <2>5, <2>6 DEF SupervisorInv
<1>5. CASE Unregister(o)
  <2>1. TypeOK'
    BY <1>5 DEF SupervisorInv, TypeOK, OpPcs, RetireStages, RetireEnds, StopPcs, Unregister, Goto
  <2>2. Serialized'
    BY <1>5 DEF SupervisorInv, TypeOK, Serialized, LockedPcs, OpPcs, StartPcs, ChangePcs,
       Unregister, Goto
  <2>3. Accounted'
    BY <1>5 DEF SupervisorInv, TypeOK, Accounted, Unregister, Goto
  <2>4. Owned'
    BY <1>5 DEF SupervisorInv, TypeOK, Serialized, Owned, Unreaped, LockedPcs, OpPcs, Unregister,
       Goto
  <2>5. Stopped'
    BY <1>5 DEF SupervisorInv, TypeOK, Serialized, Accounted, Owned, Stopped, Unreaped,
       Unregister, Goto
  <2>6. HandedOver'
    BY <1>5 DEF SupervisorInv, TypeOK, Serialized, HandedOver, ConfigCoherent, LockedPcs, OpPcs,
       Unregister, Goto
  <2> QED BY <2>1, <2>2, <2>3, <2>4, <2>5, <2>6 DEF SupervisorInv
<1>6. CASE ReleaseRetiredOperation(o)
  <2>1. TypeOK'
    BY <1>6 DEF SupervisorInv, TypeOK, OpPcs, RetireStages, RetireEnds, StopPcs,
       ReleaseRetiredOperation
  <2>2. Accounted'
    BY <1>6 DEF SupervisorInv, TypeOK, Accounted, ReleaseRetiredOperation
  <2>3. Serialized' /\ Owned' /\ Stopped' /\ HandedOver'
    BY <1>6 DEF SupervisorInv, TypeOK, Serialized, LockedPcs, OpPcs, StartPcs, ChangePcs, Owned,
       Unreaped, Accounted, Stopped, HandedOver, ConfigCoherent, ReleaseRetiredOperation
  <2> QED BY <2>1, <2>2, <2>3 DEF SupervisorInv
<1>7. CASE Cancel(o)
  <2>1. TypeOK'
    BY <1>7 DEF SupervisorInv, TypeOK, OpPcs, RetireStages, RetireEnds, StopPcs, Cancel
  <2>2. Accounted'
    BY <1>7 DEF SupervisorInv, TypeOK, Accounted, Cancel
  <2>3. Serialized' /\ Owned' /\ Stopped' /\ HandedOver'
    BY <1>7 DEF SupervisorInv, TypeOK, Serialized, LockedPcs, OpPcs, StartPcs, ChangePcs, Owned,
       Unreaped, Accounted, Stopped, HandedOver, ConfigCoherent, Cancel
  <2> QED BY <2>1, <2>2, <2>3 DEF SupervisorInv
<1> QED BY <1>1, <1>2, <1>3, <1>4, <1>5, <1>6, <1>7

\* _start(): the spawn of a replacement finds no child left, because the lock excludes every
\* other start, and what an earlier one or stop() did not finish still has its record.
LEMMA StartKeepsInv ==
    ASSUME SupervisorInv, NEW o \in Starters, StartStep(o)
    PROVE  SupervisorInv'
<1>1. CASE CheckPublished(o)
  <2>1. TypeOK'
    <3>1. opPc' \in [Ops -> OpPcs]
      BY <1>1 DEF SupervisorInv, TypeOK, OpPcs, CheckPublished, Goto
    <3>2. retire' \in [Procs -> RetireStages]
      BY <1>1 DEF SupervisorInv, TypeOK, RetireStages, RetireEnds, CheckPublished, Claimed
    <3>3. opProc' \in [Ops -> Procs \cup {NoProc}]
      BY <1>1 DEF SupervisorInv, TypeOK, CheckPublished
    <3>4. published' \in Procs \cup {NoProc} /\ generation' \in Nat
      BY <1>1 DEF SupervisorInv, TypeOK, CheckPublished, Detached
    <3>5. streamDead' \in BOOLEAN /\ fenced' \in BOOLEAN
      BY <1>1 DEF SupervisorInv, TypeOK, CheckPublished, Detached
    <3> QED BY <1>1, <3>1, <3>2, <3>3, <3>4, <3>5 DEF SupervisorInv, TypeOK, CheckPublished
  <2>2. Serialized'
    BY <1>1 DEF SupervisorInv, TypeOK, Serialized, LockedPcs, OpPcs, StartPcs, ChangePcs,
       CheckPublished, Goto, Claimed, PublishedTerminal, Detached
  <2>3. Accounted'
    BY <1>1 DEF SupervisorInv, TypeOK, Accounted, CheckPublished, Goto, Claimed,
       PublishedTerminal, Detached
  <2>4. Owned'
    BY <1>1 DEF SupervisorInv, TypeOK, Serialized, Owned, Unreaped, LockedPcs, OpPcs,
       CheckPublished, Goto, Claimed, PublishedTerminal, Detached
  <2>5. Stopped'
    BY <1>1 DEF SupervisorInv, TypeOK, Serialized, Accounted, Owned, Stopped, Unreaped,
       CheckPublished, Goto, Claimed, PublishedTerminal, Detached
  <2>6. HandedOver'
    BY <1>1 DEF SupervisorInv, TypeOK, Serialized, HandedOver, ConfigCoherent, LockedPcs, OpPcs,
       CheckPublished, Goto, Claimed, PublishedTerminal, Detached
  <2> QED BY <2>1, <2>2, <2>3, <2>4, <2>5, <2>6 DEF SupervisorInv
<1>2. CASE JoinOld(o)
  <2>1. TypeOK'
    <3>1. opPc' \in [Ops -> OpPcs]
      BY <1>2 DEF SupervisorInv, TypeOK, OpPcs, JoinOld, Goto
    <3>2. retire' \in [Procs -> RetireStages]
      BY <1>2 DEF SupervisorInv, TypeOK, RetireStages, RetireEnds, JoinOld
    <3>3. opProc' \in [Ops -> Procs \cup {NoProc}]
      BY <1>2 DEF SupervisorInv, TypeOK, JoinOld
    <3> QED BY <1>2, <3>1, <3>2, <3>3 DEF SupervisorInv, TypeOK, JoinOld, RetireEnds
  <2>2. Serialized'
    BY <1>2 DEF SupervisorInv, TypeOK, Serialized, LockedPcs, OpPcs, StartPcs, ChangePcs, JoinOld,
       Goto, RetireEnds
  <2>3. Accounted'
    BY <1>2 DEF SupervisorInv, TypeOK, Accounted, JoinOld, Goto, RetireEnds
  <2>4. Owned'
    BY <1>2 DEF SupervisorInv, TypeOK, Serialized, Owned, Unreaped, LockedPcs, OpPcs, JoinOld,
       Goto, RetireEnds
  <2>5. HandedOver'
    BY <1>2 DEF SupervisorInv, TypeOK, Serialized, HandedOver, ConfigCoherent, LockedPcs, OpPcs,
       JoinOld, Goto, RetireEnds
  <2>6. Stopped'
    BY <1>2 DEF SupervisorInv, TypeOK, Serialized, Accounted, Owned, Stopped, Unreaped, JoinOld,
       Goto, RetireEnds
  <2> QED BY <2>1, <2>2, <2>3, <2>4, <2>5, <2>6 DEF SupervisorInv
<1>3. CASE Admit(o)
  <2>1. TypeOK'
    BY <1>3 DEF SupervisorInv, TypeOK, OpPcs, RetireStages, RetireEnds, StopPcs, Admit, Goto,
       ClearedUncertainty, Admissible, NextProc, Retirements, StopRunning, StartSettled
  <2>2. Serialized'
    <3>1. NextProc \in Procs /\ proc[NextProc] = "none"
      BY <1>3 DEF Admit, NextProc
    <3>2. /\ opPc' = [opPc EXCEPT ![o] = "spawn"] /\ opProc' = [opProc EXCEPT ![o] = NextProc]
          /\ opPc[o] = "admit" /\ lockOwner' = lockOwner /\ generation' = generation
          /\ opPc \in [Ops -> OpPcs] /\ opProc \in [Ops -> Procs \cup {NoProc}] /\ NextProc # NoProc
      BY <1>3, <3>1 DEF SupervisorInv, TypeOK, Procs, Admit, Goto
    <3> HIDE DEF NextProc
    <3> QED BY <3>2 DEF SupervisorInv, Serialized, LockedPcs, OpPcs, StartPcs, ChangePcs
  <2>3. Accounted'
    BY <1>3 DEF SupervisorInv, TypeOK, Accounted, Admit, Goto, ClearedUncertainty, Admissible,
       NextProc, Retirements, StopRunning, StartSettled
  <2>4. Owned'
    <3>1. NextProc \in Procs /\ proc[NextProc] = "none"
      BY <1>3 DEF Admit, NextProc
    <3>2. spawnTask = NoProc
      BY <1>3 DEF SupervisorInv, Serialized, Owned, LockedPcs, OpPcs, Admit
    <3>3. Unreaped = {}
      BY <1>3, <3>2 DEF SupervisorInv, Owned, Unreaped, Procs, Admit, Admissible, Retirements
    <3>4. Unreaped' = {NextProc}
      BY <1>3, <3>1, <3>3 DEF SupervisorInv, TypeOK, Unreaped, Admit
    <3>5. \A p \in Procs : retire'[p] = "none"
      BY <1>3 DEF Admit, Admissible, Retirements
    <3>6. /\ opPc'[o] = "spawn" /\ opProc'[o] = NextProc /\ spawnTask' = NextProc
          /\ startingGen' = generation /\ generation # NoGen
      BY <1>3 DEF SupervisorInv, TypeOK, Serialized, Admit, Goto
    <3> QED BY <3>4, <3>5, <3>6 DEF Owned
  <2>5. Stopped'
    BY <1>3 DEF SupervisorInv, TypeOK, Serialized, Accounted, Owned, Stopped, Unreaped, Admit,
       Goto, ClearedUncertainty, Admissible, NextProc, Retirements, StopRunning, StartSettled
  <2>6. HandedOver'
    BY <1>3 DEF SupervisorInv, TypeOK, Serialized, HandedOver, ConfigCoherent, LockedPcs, OpPcs,
       Admit, Goto, ClearedUncertainty, Admissible, NextProc, Retirements, StopRunning,
       StartSettled
  <2> QED BY <2>1, <2>2, <2>3, <2>4, <2>5, <2>6 DEF SupervisorInv
<1>4. CASE NotAdmitted(o)
  <2>1. TypeOK'
    BY <1>4 DEF SupervisorInv, TypeOK, OpPcs, RetireStages, RetireEnds, StopPcs, NotAdmitted,
       Goto, ClearedUncertainty, PublishedTerminal, Admissible, Retirements, StopRunning,
       StartSettled
  <2>2. Serialized'
    BY <1>4 DEF SupervisorInv, TypeOK, Serialized, LockedPcs, OpPcs, StartPcs, ChangePcs,
       NotAdmitted, Goto, ClearedUncertainty, PublishedTerminal, Admissible, Retirements,
       StopRunning, StartSettled
  <2>3. Accounted'
    BY <1>4 DEF SupervisorInv, TypeOK, Accounted, NotAdmitted, Goto, ClearedUncertainty,
       PublishedTerminal, Admissible, Retirements, StopRunning, StartSettled
  <2>4. Owned'
    BY <1>4 DEF SupervisorInv, TypeOK, Serialized, Owned, Unreaped, LockedPcs, OpPcs, NotAdmitted,
       Goto, ClearedUncertainty, PublishedTerminal, Admissible, Retirements, StopRunning,
       StartSettled
  <2>5. HandedOver'
    BY <1>4 DEF SupervisorInv, TypeOK, Serialized, HandedOver, ConfigCoherent, LockedPcs, OpPcs,
       NotAdmitted, Goto, ClearedUncertainty, PublishedTerminal, Admissible, Retirements,
       StopRunning, StartSettled
  <2>6. Stopped'
    BY <1>4 DEF SupervisorInv, TypeOK, Serialized, Accounted, Owned, Stopped, Unreaped,
       NotAdmitted, Goto, ClearedUncertainty, PublishedTerminal, Admissible, Retirements,
       StopRunning, StartSettled
  <2> QED BY <2>1, <2>2, <2>3, <2>4, <2>5, <2>6 DEF SupervisorInv
<1>5. CASE Publish(o)
  <2>1. TypeOK'
    <3>1. opPc' \in [Ops -> OpPcs]
      BY <1>5 DEF SupervisorInv, TypeOK, OpPcs, Publish, Goto
    <3>2. running' \in [Procs -> Configs]
      BY <1>5 DEF SupervisorInv, TypeOK, Publish
    <3>3. phaseAlive' \in [Procs -> BOOLEAN]
      BY <1>5 DEF SupervisorInv, TypeOK, Publish
    <3> QED BY <1>5, <3>1, <3>2, <3>3 DEF SupervisorInv, TypeOK, Publish
  <2>2. Serialized'
    BY <1>5 DEF SupervisorInv, TypeOK, Serialized, LockedPcs, OpPcs, StartPcs, ChangePcs, Publish,
       Goto
  <2>3. Accounted'
    BY <1>5 DEF SupervisorInv, TypeOK, Accounted, Publish, Goto
  <2>4. Owned'
    BY <1>5 DEF SupervisorInv, TypeOK, Serialized, Owned, Unreaped, LockedPcs, OpPcs, Publish,
       Goto
  <2>5. Stopped'
    BY <1>5 DEF SupervisorInv, TypeOK, Serialized, Accounted, Owned, Stopped, Unreaped, Publish,
       Goto
  <2>6. HandedOver'
    BY <1>5 DEF SupervisorInv, TypeOK, Serialized, HandedOver, ConfigCoherent, LockedPcs, OpPcs,
       Publish, Goto
  <2> QED BY <2>1, <2>2, <2>3, <2>4, <2>5, <2>6 DEF SupervisorInv
<1>6. CASE SpawnFails(o)
  <2>1. TypeOK'
    BY <1>6 DEF SupervisorInv, TypeOK, OpPcs, RetireStages, RetireEnds, StopPcs, SpawnFails, Goto
  <2>2. Serialized'
    BY <1>6 DEF SupervisorInv, TypeOK, Serialized, LockedPcs, OpPcs, StartPcs, ChangePcs,
       SpawnFails, Goto
  <2>3. Accounted'
    BY <1>6 DEF SupervisorInv, TypeOK, Accounted, SpawnFails, Goto
  <2>4. Owned'
    BY <1>6 DEF SupervisorInv, TypeOK, Serialized, Owned, Unreaped, LockedPcs, OpPcs, SpawnFails,
       Goto
  <2>5. HandedOver'
    BY <1>6 DEF SupervisorInv, TypeOK, Serialized, HandedOver, ConfigCoherent, LockedPcs, OpPcs,
       SpawnFails, Goto
  <2>6. Stopped'
    BY <1>6 DEF SupervisorInv, TypeOK, Serialized, Accounted, Owned, Stopped, Unreaped,
       SpawnFails, Goto
  <2> QED BY <2>1, <2>2, <2>3, <2>4, <2>5, <2>6 DEF SupervisorInv
<1>7. CASE PhasesSucceed(o)
  <2>1. TypeOK'
    <3>1. opPc' \in [Ops -> OpPcs]
      BY <1>7 DEF SupervisorInv, TypeOK, OpPcs, PhasesSucceed, Goto
    <3>2. phaseAlive' \in [Procs -> BOOLEAN]
      BY <1>7 DEF SupervisorInv, TypeOK, PhasesSucceed
    <3> QED BY <1>7, <3>1, <3>2 DEF SupervisorInv, TypeOK, PhasesSucceed
  <2>2. Serialized'
    BY <1>7 DEF SupervisorInv, TypeOK, Serialized, LockedPcs, OpPcs, StartPcs, ChangePcs,
       PhasesSucceed, Goto
  <2>3. Accounted'
    BY <1>7 DEF SupervisorInv, TypeOK, Accounted, PhasesSucceed, Goto
  <2>4. Owned'
    BY <1>7 DEF SupervisorInv, TypeOK, Serialized, Owned, Unreaped, LockedPcs, OpPcs,
       PhasesSucceed, Goto
  <2>5. HandedOver'
    BY <1>7 DEF SupervisorInv, TypeOK, Serialized, HandedOver, ConfigCoherent, LockedPcs, OpPcs,
       PhasesSucceed, Goto
  <2>6. Stopped'
    BY <1>7 DEF SupervisorInv, TypeOK, Serialized, Accounted, Owned, Stopped, Unreaped,
       PhasesSucceed, Goto
  <2> QED BY <2>1, <2>2, <2>3, <2>4, <2>5, <2>6 DEF SupervisorInv
<1>8. CASE PhaseFails(o)
  <2>1. TypeOK'
    BY <1>8 DEF SupervisorInv, TypeOK, OpPcs, RetireStages, RetireEnds, StopPcs, PhaseFails, Goto
  <2>2. Serialized'
    BY <1>8 DEF SupervisorInv, TypeOK, Serialized, LockedPcs, OpPcs, StartPcs, ChangePcs,
       PhaseFails, Goto
  <2>3. Accounted'
    BY <1>8 DEF SupervisorInv, TypeOK, Accounted, PhaseFails, Goto
  <2>4. Owned'
    BY <1>8 DEF SupervisorInv, TypeOK, Serialized, Owned, Unreaped, LockedPcs, OpPcs, PhaseFails,
       Goto
  <2>5. HandedOver'
    BY <1>8 DEF SupervisorInv, TypeOK, Serialized, HandedOver, ConfigCoherent, LockedPcs, OpPcs,
       PhaseFails, Goto
  <2>6. Stopped'
    BY <1>8 DEF SupervisorInv, TypeOK, Serialized, Accounted, Owned, Stopped, Unreaped,
       PhaseFails, Goto
  <2> QED BY <2>1, <2>2, <2>3, <2>4, <2>5, <2>6 DEF SupervisorInv
<1>9. CASE ClaimStartup(o)
  <2>1. TypeOK'
    <3>1. opPc' \in [Ops -> OpPcs]
      BY <1>9 DEF SupervisorInv, TypeOK, OpPcs, ClaimStartup, Goto
    <3>2. retire' \in [Procs -> RetireStages]
      BY <1>9 DEF SupervisorInv, TypeOK, RetireStages, RetireEnds, ClaimStartup, Claimed
    <3>3. published' \in Procs \cup {NoProc} /\ generation' \in Nat
      BY <1>9 DEF SupervisorInv, TypeOK, ClaimStartup, Detached
    <3>4. streamDead' \in BOOLEAN /\ fenced' \in BOOLEAN
      BY <1>9 DEF SupervisorInv, TypeOK, ClaimStartup, Detached
    <3> QED BY <1>9, <3>1, <3>2, <3>3, <3>4 DEF SupervisorInv, TypeOK, ClaimStartup
  <2>2. Serialized'
    BY <1>9 DEF SupervisorInv, TypeOK, Serialized, LockedPcs, OpPcs, StartPcs, ChangePcs,
       ClaimStartup, Goto, Claimed, Detached
  <2>3. Accounted'
    BY <1>9 DEF SupervisorInv, TypeOK, Accounted, ClaimStartup, Goto, Claimed, Detached
  <2>4. Owned'
    BY <1>9 DEF SupervisorInv, TypeOK, Serialized, Owned, Unreaped, LockedPcs, OpPcs,
       ClaimStartup, Goto, Claimed, Detached
  <2>5. Stopped'
    BY <1>9 DEF SupervisorInv, TypeOK, Serialized, Accounted, Owned, Stopped, Unreaped,
       ClaimStartup, Goto, Claimed, Detached
  <2>6. HandedOver'
    BY <1>9 DEF SupervisorInv, TypeOK, Serialized, HandedOver, ConfigCoherent, LockedPcs, OpPcs,
       ClaimStartup, Goto, Claimed, Detached
  <2> QED BY <2>1, <2>2, <2>3, <2>4, <2>5, <2>6 DEF SupervisorInv
<1>10. CASE JoinRetirement(o)
  <2>1. TypeOK'
    <3>1. opPc' \in [Ops -> OpPcs]
      BY <1>10 DEF SupervisorInv, TypeOK, OpPcs, JoinRetirement, Goto
    <3>2. retire' \in [Procs -> RetireStages]
      BY <1>10 DEF SupervisorInv, TypeOK, RetireStages, RetireEnds, JoinRetirement
    <3>3. opProc' \in [Ops -> Procs \cup {NoProc}]
      BY <1>10 DEF SupervisorInv, TypeOK, JoinRetirement
    <3> QED BY <1>10, <3>1, <3>2, <3>3 DEF SupervisorInv, TypeOK, JoinRetirement, RetireEnds
  <2>2. Serialized'
    BY <1>10 DEF SupervisorInv, TypeOK, Serialized, LockedPcs, OpPcs, StartPcs, ChangePcs,
       JoinRetirement, Goto, RetireEnds
  <2>3. Accounted'
    BY <1>10 DEF SupervisorInv, TypeOK, Accounted, JoinRetirement, Goto, RetireEnds
  <2>4. Owned'
    BY <1>10 DEF SupervisorInv, TypeOK, Serialized, Owned, Unreaped, LockedPcs, OpPcs,
       JoinRetirement, Goto, RetireEnds
  <2>5. HandedOver'
    BY <1>10 DEF SupervisorInv, TypeOK, Serialized, HandedOver, ConfigCoherent, LockedPcs, OpPcs,
       JoinRetirement, Goto, RetireEnds
  <2>6. Stopped'
    BY <1>10 DEF SupervisorInv, TypeOK, Serialized, Accounted, Owned, Stopped, Unreaped,
       JoinRetirement, Goto, RetireEnds
  <2> QED BY <2>1, <2>2, <2>3, <2>4, <2>5, <2>6 DEF SupervisorInv
<1>11. CASE FinalizeStart(o)
  <2>1. TypeOK'
    <3>1. opPc' \in [Ops -> OpPcs]
      BY <1>11 DEF SupervisorInv, TypeOK, OpPcs, FinalizeStart, Goto
    <3>2. startingGen' \in Nat /\ uncertainGen' \in Nat
      BY <1>11 DEF SupervisorInv, TypeOK, FinalizeStart
    <3>3. settled' \in BOOLEAN
      BY <1>11 DEF SupervisorInv, TypeOK, FinalizeStart
    <3> QED BY <1>11, <3>1, <3>2, <3>3 DEF SupervisorInv, TypeOK, FinalizeStart
  <2>2. Serialized'
    BY <1>11 DEF SupervisorInv, TypeOK, Serialized, LockedPcs, OpPcs, StartPcs, ChangePcs,
       FinalizeStart, Goto
  <2>3. Accounted'
    BY <1>11 DEF SupervisorInv, TypeOK, Accounted, FinalizeStart, Goto
  <2>4. Owned'
    BY <1>11 DEF SupervisorInv, TypeOK, Serialized, Owned, Unreaped, LockedPcs, OpPcs,
       FinalizeStart, Goto
  <2>5. HandedOver'
    BY <1>11 DEF SupervisorInv, TypeOK, Serialized, HandedOver, ConfigCoherent, LockedPcs, OpPcs,
       FinalizeStart, Goto
  <2>6. Stopped'
    BY <1>11 DEF SupervisorInv, TypeOK, Serialized, Accounted, Owned, Stopped, Unreaped,
       FinalizeStart, Goto
  <2> QED BY <2>1, <2>2, <2>3, <2>4, <2>5, <2>6 DEF SupervisorInv
<1>12. CASE ReturnStarted(o)
  <2>1. TypeOK'
    BY <1>12 DEF SupervisorInv, TypeOK, OpPcs, RetireStages, RetireEnds, StopPcs, ReturnStarted,
       Goto
  <2>2. Serialized'
    BY <1>12 DEF SupervisorInv, TypeOK, Serialized, LockedPcs, OpPcs, StartPcs, ChangePcs,
       ReturnStarted, Goto
  <2>3. Accounted'
    BY <1>12 DEF SupervisorInv, TypeOK, Accounted, ReturnStarted, Goto
  <2>4. Owned'
    BY <1>12 DEF SupervisorInv, TypeOK, Serialized, Owned, Unreaped, LockedPcs, OpPcs,
       ReturnStarted, Goto
  <2>5. Stopped'
    BY <1>12 DEF SupervisorInv, TypeOK, Serialized, Accounted, Owned, Stopped, Unreaped,
       ReturnStarted, Goto
  <2>6. HandedOver'
    BY <1>12 DEF SupervisorInv, TypeOK, Serialized, HandedOver, ConfigCoherent, LockedPcs, OpPcs,
       ReturnStarted, Goto
  <2> QED BY <2>1, <2>2, <2>3, <2>4, <2>5, <2>6 DEF SupervisorInv
<1>13. CASE ReturnFailed(o)
  <2>1. TypeOK'
    BY <1>13 DEF SupervisorInv, TypeOK, OpPcs, RetireStages, RetireEnds, StopPcs, ReturnFailed,
       Goto
  <2>2. Serialized'
    BY <1>13 DEF SupervisorInv, TypeOK, Serialized, LockedPcs, OpPcs, StartPcs, ChangePcs,
       ReturnFailed, Goto
  <2>3. Accounted'
    BY <1>13 DEF SupervisorInv, TypeOK, Accounted, ReturnFailed, Goto
  <2>4. Owned'
    BY <1>13 DEF SupervisorInv, TypeOK, Serialized, Owned, Unreaped, LockedPcs, OpPcs,
       ReturnFailed, Goto
  <2>5. HandedOver'
    BY <1>13 DEF SupervisorInv, TypeOK, Serialized, HandedOver, ConfigCoherent, LockedPcs, OpPcs,
       ReturnFailed, Goto
  <2>6. Stopped'
    BY <1>13 DEF SupervisorInv, TypeOK, Serialized, Accounted, Owned, Stopped, Unreaped,
       ReturnFailed, Goto
  <2> QED BY <2>1, <2>2, <2>3, <2>4, <2>5, <2>6 DEF SupervisorInv
<1> QED BY <1>1, <1>2, <1>3, <1>4, <1>5, <1>6, <1>7, <1>8, <1>9, <1>10, <1>11,
       <1>12, <1>13 DEF StartStep

\* The end of the inner transition: a child that may run on the next config without having
\* said so is fenced.
LEMMA EndRpcKeepsInv ==
    ASSUME SupervisorInv, NEW o \in Changers, NEW where \in {"keep", "restore"},
           NEW nowFenced \in BOOLEAN, NEW ran \in BOOLEAN, EndRpc(o, where, nowFenced, ran),
           IF where = "keep" THEN nowFenced \/ ran ELSE ~ran
    PROVE  SupervisorInv'
<1>1. TypeOK'
  <2>1. pending # {} => (CHOOSE r \in pending : TRUE) \in pending
    OBVIOUS
  <2>2. running' \in [Procs -> Configs]
    BY <2>1 DEF SupervisorInv, TypeOK, EndRpc
  <2>3. opPc' \in [Ops -> OpPcs]
    BY DEF SupervisorInv, TypeOK, EndRpc, Goto, OpPcs
  <2> QED BY <2>2, <2>3 DEF SupervisorInv, TypeOK, EndRpc
<1>2. Serialized'
  BY DEF SupervisorInv, TypeOK, Serialized, LockedPcs, OpPcs, StartPcs, ChangePcs, EndRpc, Goto
<1>3. Accounted'
  BY DEF SupervisorInv, TypeOK, Accounted, EndRpc, Goto
<1>4. Owned'
  BY DEF SupervisorInv, TypeOK, Serialized, Owned, Unreaped, LockedPcs, OpPcs, EndRpc, Goto
<1>5. HandedOver'
  BY DEF SupervisorInv, TypeOK, Serialized, HandedOver, ConfigCoherent, LockedPcs, OpPcs, EndRpc,
     Goto
<1>6. Stopped'
  BY DEF SupervisorInv, TypeOK, Serialized, Accounted, Owned, Stopped, Unreaped, EndRpc, Goto
<1> QED BY <1>1, <1>2, <1>3, <1>4, <1>5, <1>6 DEF SupervisorInv

\* prepare_config_transition(), from the snapshot to _finish_transition().
LEMMA ChangeKeepsInv ==
    ASSUME SupervisorInv, NEW o \in Changers, ChangeStep(o)
    PROVE  SupervisorInv'
<1>1. CASE Snapshot(o)
  <2>1. TypeOK'
    BY <1>1 DEF SupervisorInv, TypeOK, OpPcs, RetireStages, RetireEnds, StopPcs, Snapshot, Goto
  <2>2. Serialized'
    BY <1>1 DEF SupervisorInv, TypeOK, Serialized, LockedPcs, OpPcs, StartPcs, ChangePcs,
       Snapshot, Goto
  <2>3. Accounted'
    BY <1>1 DEF SupervisorInv, TypeOK, Accounted, Snapshot, Goto
  <2>4. Owned'
    BY <1>1 DEF SupervisorInv, TypeOK, Serialized, Owned, Unreaped, LockedPcs, OpPcs, Snapshot,
       Goto
  <2>5. HandedOver'
    BY <1>1 DEF SupervisorInv, TypeOK, Serialized, HandedOver, ConfigCoherent, LockedPcs, OpPcs,
       Snapshot, Goto
  <2>6. Stopped'
    BY <1>1 DEF SupervisorInv, TypeOK, Serialized, Accounted, Owned, Stopped, Unreaped, Snapshot,
       Goto
  <2> QED BY <2>1, <2>2, <2>3, <2>4, <2>5, <2>6 DEF SupervisorInv
<1>2. CASE Pend(o)
  <2>1. TypeOK'
    BY <1>2 DEF SupervisorInv, TypeOK, OpPcs, RetireStages, RetireEnds, StopPcs, Pend, Goto
  <2>2. Serialized'
    BY <1>2 DEF SupervisorInv, TypeOK, Serialized, LockedPcs, OpPcs, StartPcs, ChangePcs, Pend,
       Goto
  <2>3. Accounted'
    BY <1>2 DEF SupervisorInv, TypeOK, Accounted, Pend, Goto
  <2>4. Owned'
    BY <1>2 DEF SupervisorInv, TypeOK, Serialized, Owned, Unreaped, LockedPcs, OpPcs, Pend, Goto
  <2>5. Stopped'
    BY <1>2 DEF SupervisorInv, TypeOK, Serialized, Accounted, Owned, Stopped, Unreaped, Pend, Goto
  <2>6. HandedOver'
    BY <1>2 DEF SupervisorInv, TypeOK, Serialized, HandedOver, ConfigCoherent, LockedPcs, OpPcs,
       Pend, Goto
  <2> QED BY <2>1, <2>2, <2>3, <2>4, <2>5, <2>6 DEF SupervisorInv
<1>3. CASE Probe(o)
  <2>1. TypeOK'
    BY <1>3 DEF SupervisorInv, TypeOK, OpPcs, RetireStages, RetireEnds, StopPcs, Probe, Goto
  <2>2. Serialized'
    BY <1>3 DEF SupervisorInv, TypeOK, Serialized, LockedPcs, OpPcs, StartPcs, ChangePcs, Probe,
       Goto
  <2>3. Accounted'
    BY <1>3 DEF SupervisorInv, TypeOK, Accounted, Probe, Goto
  <2>4. Owned'
    BY <1>3 DEF SupervisorInv, TypeOK, Serialized, Owned, Unreaped, LockedPcs, OpPcs, Probe, Goto
  <2>5. HandedOver'
    BY <1>3 DEF SupervisorInv, TypeOK, Serialized, HandedOver, ConfigCoherent, LockedPcs, OpPcs,
       Probe, Goto
  <2>6. Stopped'
    BY <1>3 DEF SupervisorInv, TypeOK, Serialized, Accounted, Owned, Stopped, Unreaped, Probe,
       Goto
  <2> QED BY <2>1, <2>2, <2>3, <2>4, <2>5, <2>6 DEF SupervisorInv
<1>4. CASE FinishTransition(o)
  <2>1. TypeOK'
    BY <1>4 DEF SupervisorInv, TypeOK, OpPcs, RetireStages, RetireEnds, StopPcs, FinishTransition,
       Goto
  <2>2. Serialized'
    BY <1>4 DEF SupervisorInv, TypeOK, Serialized, LockedPcs, OpPcs, StartPcs, ChangePcs,
       FinishTransition, Goto
  <2>3. Accounted'
    BY <1>4 DEF SupervisorInv, TypeOK, Accounted, FinishTransition, Goto
  <2>4. Owned'
    BY <1>4 DEF SupervisorInv, TypeOK, Serialized, Owned, Unreaped, LockedPcs, OpPcs,
       FinishTransition, Goto
  <2>5. Stopped'
    BY <1>4 DEF SupervisorInv, TypeOK, Serialized, Accounted, Owned, Stopped, Unreaped,
       FinishTransition, Goto
  <2>6. HandedOver'
    BY <1>4 DEF SupervisorInv, TypeOK, Serialized, HandedOver, ConfigCoherent, LockedPcs, OpPcs,
       FinishTransition, Goto
  <2> QED BY <2>1, <2>2, <2>3, <2>4, <2>5, <2>6 DEF SupervisorInv
<1>5. CASE RpcPrepared(o) \/ RpcApplied(o) \/ RpcRejected(o)
  BY <1>5, EndRpcKeepsInv DEF RpcPrepared, RpcApplied, RpcRejected
<1>6. CASE RpcLost(o)
  BY <1>6, EndRpcKeepsInv DEF RpcLost
<1> QED BY <1>1, <1>2, <1>3, <1>4, <1>5, <1>6 DEF ChangeStep

\* _retire_child() and the callback of a late spawn: a record only completes once the child
\* is reaped or was never born.
LEMMA RetireKeepsInv ==
    ASSUME SupervisorInv, NEW p \in Procs, RetireStep(p)
    PROVE  SupervisorInv'
<1>1. CASE RetireSpawn(p)
  <2>1. TypeOK'
    BY <1>1 DEF SupervisorInv, TypeOK, OpPcs, RetireStages, RetireEnds, StopPcs, RetireSpawn, At,
       Advance
  <2>2. Owned'
    BY <1>1 DEF SupervisorInv, TypeOK, Serialized, Owned, Unreaped, LockedPcs, OpPcs, RetireSpawn,
       At, Advance
  <2>3. Serialized' /\ Accounted' /\ Stopped' /\ HandedOver'
    BY <1>1 DEF SupervisorInv, TypeOK, Serialized, LockedPcs, OpPcs, StartPcs, ChangePcs,
       Accounted, Owned, Stopped, Unreaped, HandedOver, ConfigCoherent, RetireSpawn, At, Advance
  <2> QED BY <2>1, <2>2, <2>3 DEF SupervisorInv
<1>2. CASE RetireReaps(p)
  <2>1. TypeOK'
    BY <1>2 DEF SupervisorInv, TypeOK, OpPcs, RetireStages, RetireEnds, StopPcs, RetireReaps, At,
       Advance
  <2>2. Owned'
    BY <1>2 DEF SupervisorInv, TypeOK, Serialized, Owned, Unreaped, LockedPcs, OpPcs, RetireReaps,
       At, Advance
  <2>3. Stopped'
    BY <1>2 DEF SupervisorInv, TypeOK, Serialized, Accounted, Owned, Stopped, Unreaped,
       RetireReaps, At, Advance
  <2>4. Serialized' /\ Accounted' /\ HandedOver'
    BY <1>2 DEF SupervisorInv, TypeOK, Serialized, LockedPcs, OpPcs, StartPcs, ChangePcs,
       Accounted, HandedOver, ConfigCoherent, RetireReaps, At, Advance
  <2> QED BY <2>1, <2>2, <2>3, <2>4 DEF SupervisorInv
<1>3. CASE RetireTimesOut(p)
  <2>1. TypeOK'
    BY <1>3 DEF SupervisorInv, TypeOK, OpPcs, RetireStages, RetireEnds, StopPcs, RetireTimesOut,
       At, Advance
  <2>2. Owned'
    BY <1>3 DEF SupervisorInv, TypeOK, Serialized, Owned, Unreaped, LockedPcs, OpPcs,
       RetireTimesOut, At, Advance
  <2>3. Serialized' /\ Accounted' /\ Stopped' /\ HandedOver'
    BY <1>3 DEF SupervisorInv, TypeOK, Serialized, LockedPcs, OpPcs, StartPcs, ChangePcs,
       Accounted, Owned, Stopped, Unreaped, HandedOver, ConfigCoherent, RetireTimesOut, At,
       Advance
  <2> QED BY <2>1, <2>2, <2>3 DEF SupervisorInv
<1>4. CASE RetireTerm(p)
  <2>1. TypeOK'
    <3>1. retire' \in [Procs -> RetireStages]
      BY <1>4 DEF SupervisorInv, TypeOK, RetireStages, RetireEnds, RetireTerm, At, Advance
    <3>2. termSent' \in [Procs -> BOOLEAN]
      BY <1>4 DEF SupervisorInv, TypeOK, RetireTerm, Advance
    <3> QED BY <1>4, <3>1, <3>2 DEF SupervisorInv, TypeOK, RetireTerm
  <2>2. Owned'
    BY <1>4 DEF SupervisorInv, TypeOK, Serialized, Owned, Unreaped, LockedPcs, OpPcs, RetireTerm,
       At, Advance
  <2>3. Serialized' /\ Accounted' /\ Stopped' /\ HandedOver'
    BY <1>4 DEF SupervisorInv, TypeOK, Serialized, LockedPcs, OpPcs, StartPcs, ChangePcs,
       Accounted, Owned, Stopped, Unreaped, HandedOver, ConfigCoherent, RetireTerm, At, Advance
  <2> QED BY <2>1, <2>2, <2>3 DEF SupervisorInv
<1>5. CASE RetireKill(p)
  <2>1. TypeOK'
    <3>1. retire' \in [Procs -> RetireStages]
      BY <1>5 DEF SupervisorInv, TypeOK, RetireStages, RetireEnds, RetireKill, At, Advance
    <3>2. killSent' \in [Procs -> BOOLEAN]
      BY <1>5 DEF SupervisorInv, TypeOK, RetireKill, Advance
    <3> QED BY <1>5, <3>1, <3>2 DEF SupervisorInv, TypeOK, RetireKill
  <2>2. Owned'
    BY <1>5 DEF SupervisorInv, TypeOK, Serialized, Owned, Unreaped, LockedPcs, OpPcs, RetireKill,
       At, Advance
  <2>3. Serialized' /\ Accounted' /\ Stopped' /\ HandedOver'
    BY <1>5 DEF SupervisorInv, TypeOK, Serialized, LockedPcs, OpPcs, StartPcs, ChangePcs,
       Accounted, Owned, Stopped, Unreaped, HandedOver, ConfigCoherent, RetireKill, At, Advance
  <2> QED BY <2>1, <2>2, <2>3 DEF SupervisorInv
<1>6. CASE RetireClose(p)
  <2>1. TypeOK'
    BY <1>6 DEF SupervisorInv, TypeOK, OpPcs, RetireStages, RetireEnds, StopPcs, RetireClose, At,
       Advance
  <2>2. Owned'
    BY <1>6 DEF SupervisorInv, TypeOK, Serialized, Owned, Unreaped, LockedPcs, OpPcs, RetireClose,
       At, Advance
  <2>3. Serialized' /\ Accounted' /\ Stopped' /\ HandedOver'
    BY <1>6 DEF SupervisorInv, TypeOK, Serialized, LockedPcs, OpPcs, StartPcs, ChangePcs,
       Accounted, Owned, Stopped, Unreaped, HandedOver, ConfigCoherent, RetireClose, At, Advance
  <2> QED BY <2>1, <2>2, <2>3 DEF SupervisorInv
<1>7. CASE LateSpawn(p)
  <2>1. TypeOK'
    BY <1>7 DEF SupervisorInv, TypeOK, OpPcs, RetireStages, RetireEnds, StopPcs, LateSpawn,
       Advance
  <2>2. Owned'
    BY <1>7 DEF SupervisorInv, TypeOK, Serialized, Owned, Unreaped, LockedPcs, OpPcs, LateSpawn,
       Advance
  <2>3. Serialized' /\ Accounted' /\ Stopped' /\ HandedOver'
    BY <1>7 DEF SupervisorInv, TypeOK, Serialized, LockedPcs, OpPcs, StartPcs, ChangePcs,
       Accounted, Owned, Stopped, Unreaped, HandedOver, ConfigCoherent, LateSpawn, Advance
  <2> QED BY <2>1, <2>2, <2>3 DEF SupervisorInv
<1>8. CASE LateRemove(p)
  <2>1. TypeOK'
    BY <1>8 DEF SupervisorInv, TypeOK, OpPcs, RetireStages, RetireEnds, StopPcs, LateRemove, At,
       Advance
  <2>2. Owned'
    BY <1>8 DEF SupervisorInv, TypeOK, Serialized, Owned, Unreaped, LockedPcs, OpPcs, LateRemove,
       At, Advance
  <2>3. Serialized' /\ Accounted' /\ Stopped' /\ HandedOver'
    BY <1>8 DEF SupervisorInv, TypeOK, Serialized, LockedPcs, OpPcs, StartPcs, ChangePcs,
       Accounted, Owned, Stopped, Unreaped, HandedOver, ConfigCoherent, LateRemove, At, Advance
  <2> QED BY <2>1, <2>2, <2>3 DEF SupervisorInv
<1> QED BY <1>1, <1>2, <1>3, <1>4, <1>5, <1>6, <1>7, <1>8 DEF RetireStep


\* What the operating system and the child do on their own.
LEMMA WorldKeepsInv ==
    ASSUME SupervisorInv, NEW p \in Procs, OsStep(p)
    PROVE  SupervisorInv'
<1>1. CASE SpawnEnds(p)
  <2>1. TypeOK'
    BY <1>1 DEF SupervisorInv, TypeOK, OpPcs, RetireStages, RetireEnds, StopPcs, SpawnEnds
  <2>2. Owned'
    BY <1>1 DEF SupervisorInv, TypeOK, Serialized, Owned, Unreaped, LockedPcs, OpPcs, SpawnEnds
  <2>3. Stopped'
    BY <1>1 DEF SupervisorInv, TypeOK, Serialized, Accounted, Owned, Stopped, Unreaped, SpawnEnds
  <2>4. Serialized' /\ Accounted' /\ HandedOver'
    BY <1>1 DEF SupervisorInv, TypeOK, Serialized, LockedPcs, OpPcs, StartPcs, ChangePcs,
       Accounted, HandedOver, ConfigCoherent, SpawnEnds
  <2> QED BY <2>1, <2>2, <2>3, <2>4 DEF SupervisorInv
<1>2. CASE ProcExits(p)
  <2>1. TypeOK'
    BY <1>2 DEF SupervisorInv, TypeOK, OpPcs, RetireStages, RetireEnds, StopPcs, ProcExits
  <2>2. Owned'
    BY <1>2 DEF SupervisorInv, TypeOK, Serialized, Owned, Unreaped, LockedPcs, OpPcs, ProcExits
  <2>3. Stopped'
    BY <1>2 DEF SupervisorInv, TypeOK, Serialized, Accounted, Owned, Stopped, Unreaped, ProcExits
  <2>4. Serialized' /\ Accounted' /\ HandedOver'
    BY <1>2 DEF SupervisorInv, TypeOK, Serialized, LockedPcs, OpPcs, StartPcs, ChangePcs,
       Accounted, HandedOver, ConfigCoherent, ProcExits
  <2> QED BY <2>1, <2>2, <2>3, <2>4 DEF SupervisorInv
<1>3. CASE PhaseEnds(p)
  <2>1. TypeOK'
    BY <1>3 DEF SupervisorInv, TypeOK, OpPcs, RetireStages, RetireEnds, StopPcs, PhaseEnds
  <2>2. Serialized' /\ Accounted' /\ Owned' /\ Stopped' /\ HandedOver'
    BY <1>3 DEF SupervisorInv, TypeOK, Serialized, LockedPcs, OpPcs, StartPcs, ChangePcs,
       Accounted, Owned, Unreaped, Stopped, HandedOver, ConfigCoherent, PhaseEnds
  <2> QED BY <2>1, <2>2 DEF SupervisorInv
<1>4. CASE CloseSettles(p)
  <2>1. TypeOK'
    BY <1>4 DEF SupervisorInv, TypeOK, OpPcs, RetireStages, RetireEnds, StopPcs, CloseSettles
  <2>2. Serialized' /\ Accounted' /\ Owned' /\ Stopped' /\ HandedOver'
    BY <1>4 DEF SupervisorInv, TypeOK, Serialized, LockedPcs, OpPcs, StartPcs, ChangePcs,
       Accounted, Owned, Unreaped, Stopped, HandedOver, ConfigCoherent, CloseSettles
  <2> QED BY <2>1, <2>2 DEF SupervisorInv
<1> QED BY <1>1, <1>2, <1>3, <1>4 DEF OsStep

\* The stream of the published client ends.
LEMMA StreamKeepsInv ==
    ASSUME SupervisorInv, StreamDies
    PROVE  SupervisorInv'
<1>1. TypeOK'
  BY DEF SupervisorInv, TypeOK, OpPcs, RetireStages, RetireEnds, StopPcs, StreamDies
<1>2. Serialized' /\ Accounted' /\ Owned' /\ Stopped' /\ HandedOver'
  BY DEF SupervisorInv, TypeOK, Serialized, LockedPcs, OpPcs, StartPcs, ChangePcs, Accounted,
     Owned, Unreaped, Stopped, HandedOver, ConfigCoherent, StreamDies
<1> QED BY <1>1, <1>2 DEF SupervisorInv

\* stop(), from the call to its verdict, which is formed without the lifecycle lock: the
\* records are joined, and nobody it interrupted can publish or hand over any more.
LEMMA StopKeepsInv ==
    ASSUME SupervisorInv, StopCall \/ StopStep
    PROVE  SupervisorInv'
<1>1. CASE StopCall
  <2>1. TypeOK'
    BY <1>1 DEF SupervisorInv, TypeOK, OpPcs, RetireStages, RetireEnds, StopPcs, StopCall
  <2>2. Stopped'
    BY <1>1 DEF SupervisorInv, TypeOK, Serialized, Accounted, Owned, Stopped, Unreaped, StopCall
  <2>3. Serialized' /\ Accounted' /\ Owned' /\ HandedOver'
    BY <1>1 DEF SupervisorInv, TypeOK, Serialized, LockedPcs, OpPcs, StartPcs, ChangePcs,
       Accounted, Owned, Unreaped, HandedOver, ConfigCoherent, StopCall
  <2> QED BY <2>1, <2>2, <2>3 DEF SupervisorInv
<1>2. CASE Detach
  <2>1. TypeOK'
    <3>1. retire' \in [Procs -> RetireStages]
      BY <1>2 DEF SupervisorInv, TypeOK, RetireStages, RetireEnds, Detach
    <3>2. config' \in Configs /\ pending' = {}
      BY <1>2 DEF SupervisorInv, TypeOK, Detach, TakeHandoff
    <3>3. stopPc' \in StopPcs
      BY <1>2 DEF SupervisorInv, TypeOK, StopPcs, Detach
    <3>4. published' \in Procs \cup {NoProc} /\ generation' \in Nat
      BY <1>2 DEF SupervisorInv, TypeOK, Detach, Detached
    <3>5. streamDead' \in BOOLEAN /\ fenced' \in BOOLEAN
      BY <1>2 DEF SupervisorInv, TypeOK, Detach, Detached
    <3>6. uncertainGen' \in Nat
      BY <1>2 DEF SupervisorInv, TypeOK, Detach, ClearedUncertainty
    <3> QED BY <1>2, <3>1, <3>2, <3>3, <3>4, <3>5, <3>6 DEF SupervisorInv, TypeOK, Detach
  <2>2. Serialized'
    BY <1>2 DEF SupervisorInv, TypeOK, Serialized, LockedPcs, OpPcs, StartPcs, ChangePcs, Detach,
       ClearedUncertainty, Detached, TakeHandoff, StartSettled
  <2>3. Accounted'
    BY <1>2 DEF SupervisorInv, TypeOK, Accounted, Detach, ClearedUncertainty, Detached,
       TakeHandoff, StartSettled
  <2>4. Owned'
    BY <1>2 DEF SupervisorInv, TypeOK, Serialized, Owned, Unreaped, LockedPcs, OpPcs, Detach,
       ClearedUncertainty, Detached, TakeHandoff, StartSettled
  <2>5. Stopped'
    BY <1>2 DEF SupervisorInv, TypeOK, Serialized, Accounted, Owned, Stopped, Unreaped, Detach,
       ClearedUncertainty, Detached, TakeHandoff, StartSettled
  <2>6. HandedOver'
    BY <1>2 DEF SupervisorInv, TypeOK, Serialized, HandedOver, ConfigCoherent, LockedPcs, OpPcs,
       Detach, ClearedUncertainty, Detached, TakeHandoff, StartSettled
  <2> QED BY <2>1, <2>2, <2>3, <2>4, <2>5, <2>6 DEF SupervisorInv
<1>3. CASE StopSettled
  <2>1. TypeOK'
    BY <1>3 DEF SupervisorInv, TypeOK, OpPcs, RetireStages, RetireEnds, StopPcs, StopSettled,
       StartSettled
  <2>2. Stopped'
    BY <1>3 DEF SupervisorInv, TypeOK, Serialized, Accounted, Owned, Stopped, Unreaped,
       StopSettled, StartSettled
  <2>3. Serialized' /\ Accounted' /\ Owned' /\ HandedOver'
    BY <1>3 DEF SupervisorInv, TypeOK, Serialized, LockedPcs, OpPcs, StartPcs, ChangePcs,
       Accounted, Owned, Unreaped, HandedOver, ConfigCoherent, StopSettled, StartSettled
  <2> QED BY <2>1, <2>2, <2>3 DEF SupervisorInv
<1>4. CASE StopWaitTimesOut
  <2>1. TypeOK'
    BY <1>4 DEF SupervisorInv, TypeOK, OpPcs, RetireStages, RetireEnds, StopPcs, StopWaitTimesOut
  <2>2. Stopped'
    BY <1>4 DEF SupervisorInv, TypeOK, Serialized, Accounted, Owned, Stopped, Unreaped,
       StopWaitTimesOut
  <2>3. Serialized' /\ Accounted' /\ Owned' /\ HandedOver'
    BY <1>4 DEF SupervisorInv, TypeOK, Serialized, LockedPcs, OpPcs, StartPcs, ChangePcs,
       Accounted, Owned, Unreaped, HandedOver, ConfigCoherent, StopWaitTimesOut
  <2> QED BY <2>1, <2>2, <2>3 DEF SupervisorInv
<1>5. CASE StopFence
  <2>1. TypeOK'
    BY <1>5 DEF SupervisorInv, TypeOK, OpPcs, RetireStages, RetireEnds, StopPcs, StopFence,
       StartSettled, ClearedUncertainty
  <2>2. Stopped'
    BY <1>5 DEF SupervisorInv, TypeOK, Serialized, Accounted, Owned, Stopped, Unreaped, StopFence,
       StartSettled, ClearedUncertainty
  <2>3. Serialized' /\ Accounted' /\ Owned' /\ HandedOver'
    BY <1>5 DEF SupervisorInv, TypeOK, Serialized, LockedPcs, OpPcs, StartPcs, ChangePcs,
       Accounted, Owned, Unreaped, HandedOver, ConfigCoherent, StopFence, StartSettled,
       ClearedUncertainty
  <2> QED BY <2>1, <2>2, <2>3 DEF SupervisorInv
<1>6. CASE StopReap
  <2>1. TypeOK'
    BY <1>6 DEF SupervisorInv, TypeOK, OpPcs, RetireStages, RetireEnds, StopPcs, StopReap,
       ClearedUncertainty, StartSettled
  <2>2. Owned'
    BY <1>6 DEF SupervisorInv, TypeOK, Serialized, Owned, Unreaped, LockedPcs, OpPcs, StopReap,
       ClearedUncertainty, StartSettled
  <2>3. Stopped'
    BY <1>6 DEF SupervisorInv, TypeOK, Serialized, Accounted, Owned, Stopped, Unreaped, StopReap,
       ClearedUncertainty, StartSettled
  <2>4. Serialized' /\ Accounted' /\ HandedOver'
    BY <1>6 DEF SupervisorInv, TypeOK, Serialized, LockedPcs, OpPcs, StartPcs, ChangePcs,
       Accounted, HandedOver, ConfigCoherent, StopReap, ClearedUncertainty, StartSettled
  <2> QED BY <2>1, <2>2, <2>3, <2>4 DEF SupervisorInv
<1>7. CASE StopJoin
  <2>1. TypeOK'
    BY <1>7 DEF SupervisorInv, TypeOK, OpPcs, RetireStages, StopPcs, StopJoin, ClearedUncertainty,
       Retirements, RetireEnds, StartSettled
  <2>2. Owned'
    BY <1>7 DEF SupervisorInv, TypeOK, Serialized, Owned, Unreaped, LockedPcs, OpPcs, StopJoin,
       ClearedUncertainty, Retirements, RetireEnds, StartSettled
  <2>3. Stopped'
    <3>1. /\ stopPc = "join" /\ stopPc' = "ops" /\ stopping /\ stopping' = stopping
          /\ stopOk' = (\A p \in Procs : retire'[p] = "none" /\ ClearedUncertainty = NoGen)
          /\ UNCHANGED <<active, published, spawnTask, pending, proc>>
      BY <1>7 DEF SupervisorInv, Stopped, StopJoin
    <3>2. stopOk' => \A p \in Procs : retire[p] \in {"none", "complete"}
      BY <1>7, <3>1 DEF StopJoin
    <3>3. \A p \in Procs : published # p /\ spawnTask # p
      BY <3>1 DEF SupervisorInv, Stopped, Procs
    <3>4. stopOk' => Unreaped = {}
      BY <3>2, <3>3 DEF SupervisorInv, Owned, Unreaped
    <3> QED BY <3>1, <3>4 DEF SupervisorInv, Stopped, Unreaped
  <2>4. Serialized' /\ Accounted' /\ HandedOver'
    BY <1>7 DEF SupervisorInv, TypeOK, Serialized, LockedPcs, OpPcs, StartPcs, ChangePcs,
       Accounted, HandedOver, ConfigCoherent, StopJoin, ClearedUncertainty, Retirements,
       RetireEnds, StartSettled
  <2> QED BY <2>1, <2>2, <2>3, <2>4 DEF SupervisorInv
<1>8. CASE StopOperations
  <2>1. TypeOK'
    BY <1>8 DEF SupervisorInv, TypeOK, OpPcs, RetireStages, RetireEnds, StopPcs, StopOperations
  <2>2. Stopped'
    BY <1>8 DEF SupervisorInv, TypeOK, Serialized, Accounted, Owned, Stopped, Unreaped,
       StopOperations
  <2>3. Serialized' /\ Accounted' /\ Owned' /\ HandedOver'
    BY <1>8 DEF SupervisorInv, TypeOK, Serialized, LockedPcs, OpPcs, StartPcs, ChangePcs,
       Accounted, Owned, Unreaped, HandedOver, ConfigCoherent, StopOperations
  <2> QED BY <2>1, <2>2, <2>3 DEF SupervisorInv
<1>9. CASE StopFinish
  <2>1. TypeOK'
    BY <1>9 DEF SupervisorInv, TypeOK, OpPcs, RetireStages, RetireEnds, StopPcs, StopFinish
  <2>2. Stopped'
    BY <1>9 DEF SupervisorInv, TypeOK, Serialized, Accounted, Owned, Stopped, Unreaped, StopFinish
  <2>3. Serialized' /\ Accounted' /\ Owned' /\ HandedOver'
    BY <1>9 DEF SupervisorInv, TypeOK, Serialized, LockedPcs, OpPcs, StartPcs, ChangePcs,
       Accounted, Owned, Unreaped, HandedOver, ConfigCoherent, StopFinish
  <2> QED BY <2>1, <2>2, <2>3 DEF SupervisorInv
<1> QED BY <1>1, <1>2, <1>3, <1>4, <1>5, <1>6, <1>7, <1>8, <1>9 DEF StopStep

\* The initial state: no child, no task at work, no handoff.
LEMMA InitEstablishesInv == Init => SupervisorInv
<1> SUFFICES ASSUME Init PROVE SupervisorInv
  OBVIOUS
<1>1. TypeOK
  BY DEF Init, TypeOK, OpPcs, RetireStages, StopPcs
<1>2. Serialized /\ Accounted
  BY DEF Init, Serialized, Accounted, LockedPcs, StartPcs, ChangePcs
<1>3. Owned /\ Stopped /\ HandedOver
  BY DEF Init, Owned, Stopped, HandedOver, ConfigCoherent, Unreaped
<1> QED BY <1>1, <1>2, <1>3 DEF SupervisorInv

\* Every step keeps the invariant.
LEMMA NextKeepsInv == SupervisorInv /\ [Next]_vars => SupervisorInv'
<1> SUFFICES ASSUME SupervisorInv, [Next]_vars PROVE SupervisorInv'
  OBVIOUS
<1>1. ASSUME NEW o \in Ops, Register(o) \/ OpStep(o) \/ ReleaseRetiredOperation(o) \/ Cancel(o)
      PROVE  SupervisorInv'
  BY <1>1, TaskKeepsInv, StartKeepsInv, ChangeKeepsInv DEF OpStep
<1>2. ASSUME NEW p \in Procs, RetireStep(p) \/ OsStep(p)
      PROVE  SupervisorInv'
  BY <1>2, RetireKeepsInv, WorldKeepsInv
<1>3. CASE StreamDies
  BY <1>3, StreamKeepsInv
<1>4. CASE StopCall \/ StopStep
  BY <1>4, StopKeepsInv
<1>5. CASE UNCHANGED vars
  BY <1>5 DEF SupervisorInv, TypeOK, Serialized, Accounted, Owned, Stopped, HandedOver,
              ConfigCoherent, Unreaped
<1> QED BY <1>1, <1>2, <1>3, <1>4, <1>5 DEF Next

\* The invariant holds of every execution of start(), stop() and the transitions.
THEOREM SupervisorInvariant == Spec => []SupervisorInv
<1> QED BY InitEstablishesInv, NextKeepsInv, PTL DEF Spec

\* At most one child process is unreaped, and the public pair, the spawn slot or a
\* retirement record owns it, however starts, stops and cancellations interleave.
THEOREM ChildrenAreOwned == Spec => []ChildrenOwned
<1>1. ASSUME SupervisorInv PROVE ChildrenOwned
  <2>1. CASE Unreaped = {}
    BY <1>1, <2>1, FS_EmptySet DEF SupervisorInv, Owned, ChildrenOwned, NoTwoChildren,
                                   EveryChildOwned
  <2>2. CASE Unreaped # {}
    <3>1. PICK p \in Unreaped : TRUE
      BY <2>2
    <3>2. Unreaped = {p}
      BY <1>1, <3>1 DEF SupervisorInv, Owned
    <3>3. Cardinality(Unreaped) = 1
      BY <3>2, FS_Singleton
    <3> QED BY <1>1, <3>3 DEF SupervisorInv, Owned, ChildrenOwned, NoTwoChildren, EveryChildOwned
  <2> QED BY <2>1, <2>2
<1> QED BY <1>1, SupervisorInvariant, PTL

\* A stop() that reported success left no child, no published client and no open handoff.
THEOREM StopReallyReaped == Spec => []StopSuccessMeansReaped
<1>1. ASSUME SupervisorInv PROVE StopSuccessMeansReaped
  BY <1>1 DEF SupervisorInv, Stopped, StopSuccessMeansReaped
<1> QED BY <1>1, SupervisorInvariant, PTL

\* self.config is what the published child runs on, unless that child is fenced.
THEOREM ConfigIsCoherent == Spec => []ConfigCoherent
<1>1. ASSUME SupervisorInv PROVE ConfigCoherent
  BY <1>1 DEF SupervisorInv, HandedOver
<1> QED BY <1>1, SupervisorInvariant, PTL

\* While no child is published nothing overwrites the config stop() left for the next one:
\* only a step that ends an open handoff writes it, and an open handoff has a published child.
THEOREM ConfigIsHeld == Spec => ConfigHeld
<1>1. ASSUME SupervisorInv, Next, published = NoProc, published' = NoProc
      PROVE  config' = config
  <2>1. pending = {}
    BY <1>1 DEF SupervisorInv, HandedOver
  <2>2. ASSUME NEW o \in Ops, Register(o) \/ OpStep(o) \/ ReleaseRetiredOperation(o) \/ Cancel(o)
        PROVE  config' = config
    <3>1. CASE Register(o) \/ TakeLock(o) \/ Unwind(o) \/ Leave(o) \/ Unregister(o)
               \/ ReleaseRetiredOperation(o) \/ Cancel(o)
      BY <3>1 DEF Register, TakeLock, Unwind, Leave, Unregister, ReleaseRetiredOperation, Cancel
    <3>2. CASE StartStep(o)
      BY <3>2 DEF StartStep, CheckPublished, JoinOld, Admit, NotAdmitted, Publish, SpawnFails,
           PhasesSucceed, PhaseFails, ClaimStartup, JoinRetirement, FinalizeStart, ReturnStarted,
           ReturnFailed
    <3>3. CASE ChangeStep(o)
      BY <2>1, <3>3 DEF ChangeStep, Snapshot, Pend, Probe, RpcPrepared, RpcApplied, RpcRejected,
           RpcLost, EndRpc, FinishTransition
    <3> QED BY <2>2, <3>1, <3>2, <3>3 DEF OpStep
  <2>3. ASSUME NEW p \in Procs, RetireStep(p) \/ OsStep(p)
        PROVE  config' = config
    BY <2>3 DEF RetireStep, RetireSpawn, RetireReaps, RetireTimesOut, RetireTerm, RetireKill,
         RetireClose, LateSpawn, LateRemove, OsStep, SpawnEnds, ProcExits, PhaseEnds, CloseSettles
  <2>4. CASE StreamDies \/ StopCall \/ StopStep
    BY <2>1, <2>4 DEF StreamDies, StopCall, StopStep, Detach, TakeHandoff, StopSettled,
         StopWaitTimesOut, StopFence, StopReap, StopJoin, StopOperations, StopFinish
  <2> QED BY <1>1, <2>2, <2>3, <2>4 DEF Next
<1>2. SupervisorInv /\ [Next]_vars
        => [published = NoProc /\ published' = NoProc => config' = config]_vars
  BY <1>1
<1> QED BY <1>2, SupervisorInvariant, PTL DEF Spec, ConfigHeld
=============================================================================
