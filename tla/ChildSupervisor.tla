-------------------------- MODULE ChildSupervisor --------------------------
(***************************************************************************)
(* Process ownership of SubprocessIsolatedFeatureClient                    *)
(* (kestrel_sdk/isolated_feature/client.py): start(), stop(), the          *)
(* retirement records that own a detached child until it is reaped, and    *)
(* the config handoff of a transition that stop() interrupts.              *)
(*                                                                         *)
(* Nothing is awaited under _state_lock, so a section that holds it is one *)
(* step.  Every bounded wait may end either way.  RPC traffic is           *)
(* FeatureClient's; here a start phase or a transition just ends.          *)
(***************************************************************************)
EXTENDS Naturals, FiniteSets

CONSTANTS Starters,    \* tasks that call start()
          Changers,    \* tasks that call prepare_config_transition()
          NoOp,        \* the lifecycle lock is free
          MaxProcs,    \* bound on spawned processes
          MaxGen,      \* bound on _generation when a stop() begins
          Configs      \* config objects

Ops == Starters \cup Changers

ASSUME SupervisorConstants ==
    /\ Starters \cap Changers = {}
    /\ NoOp \notin Ops
    /\ MaxProcs \in Nat /\ MaxGen \in Nat

Procs == 1..MaxProcs
NoProc == 0
NoGen == 0             \* None, for the attributes that hold a generation

VARIABLES proc,        \* what the operating system knows of each child
          streamDead,  \* the published client has latched _closed_exc
          fenced,      \* the published client requires replacement
          running,     \* per child: the config it runs on
          phaseAlive,  \* per child: a startup phase task has not settled
          spawnTask,   \* child of self._spawn_task, or NoProc
          published,   \* child behind self.process / self.client, or NoProc
          generation,  \* self._generation
          startingGen, \* self._starting_generation
          uncertainGen,\* self._start_uncertain_generation
          settled,     \* self._start_settled
          opPc,        \* per calling task: where its operation is
          opProc,      \* per calling task: the child it works on
          opGen,       \* per calling task: the generation it was admitted with
          cancelled,   \* tasks with a cancellation to be delivered or recorded
          lockOwner,   \* holder of self._lifecycle_lock
          active,      \* self._active_operations
          retiringOps, \* self._retiring_operations
          retire,      \* per child: stage of its retirement record
          termSent, killSent, closing,  \* per child: one-shot phases of retirement
          late,        \* children whose late spawn is retired by its own callback
          stopPc,      \* progress of self._stop_task
          stopGen,     \* starting generation the stop attempt found
          stopping,    \* self._stopping
          stopOk,      \* result of the stop attempt
          config,      \* self.config
          pending      \* self._pending_transition: {} or one record

osVars == <<proc, streamDead, fenced, running, phaseAlive>>
startVars == <<spawnTask, published, generation, startingGen, uncertainGen, settled>>
opVars == <<opPc, opProc, opGen, cancelled, lockOwner, active, retiringOps>>
retireVars == <<retire, termSent, killSent, closing, late>>
stopVars == <<stopPc, stopGen, stopping, stopOk>>
cfgVars == <<config, pending>>
vars == <<osVars, startVars, opVars, retireVars, stopVars, cfgVars>>

RetireEnds == {"unspawned", "unresolved", "complete"}
RetireStages == RetireEnds \cup {"none", "spawn", "shutdown", "term", "termwait", "kill",
                                 "killwait", "close", "last"}
OpPcs == {"idle", "lock", "check", "joinOld", "admit", "spawn", "phases", "claim",
          "joinRet", "finalize", "return", "snapshot", "pend", "probe", "rpc", "keep", "restore",
          "leave", "unregister"}
StopPcs == {"none", "detach", "settle", "fence", "settleAgain", "reap", "join", "ops",
            "finish", "done"}

Unreaped == {p \in Procs : proc[p] \in {"spawning", "alive", "exited"}}
Retirements == {p \in Procs : retire[p] # "none"}
StopRunning == stopPc \notin {"none", "done"}

TypeOK ==
    /\ proc \in [Procs -> {"none", "spawning", "failed", "alive", "exited", "reaped"}]
    /\ streamDead \in BOOLEAN /\ fenced \in BOOLEAN
    /\ running \in [Procs -> Configs]
    /\ phaseAlive \in [Procs -> BOOLEAN]
    /\ spawnTask \in Procs \cup {NoProc} /\ published \in Procs \cup {NoProc}
    /\ generation \in Nat /\ startingGen \in Nat /\ uncertainGen \in Nat
    /\ settled \in BOOLEAN
    /\ opPc \in [Ops -> OpPcs]
    /\ opProc \in [Ops -> Procs \cup {NoProc}]
    /\ opGen \in [Ops -> Nat]
    /\ cancelled \subseteq Ops /\ active \subseteq Ops /\ retiringOps \subseteq Ops
    /\ lockOwner \in Ops \cup {NoOp}
    /\ retire \in [Procs -> RetireStages]
    /\ termSent \in [Procs -> BOOLEAN] /\ killSent \in [Procs -> BOOLEAN]
    /\ closing \in [Procs -> {"none", "open", "ok", "bad"}] /\ late \subseteq Procs
    /\ stopPc \in StopPcs /\ stopGen \in Nat
    /\ stopping \in BOOLEAN /\ stopOk \in BOOLEAN
    /\ config \in Configs
    /\ pending \subseteq [owner : Changers, previous : Configs, next : Configs]

Init ==
    /\ proc = [p \in Procs |-> "none"]
    /\ streamDead = FALSE /\ fenced = FALSE
    /\ phaseAlive = [p \in Procs |-> FALSE]
    /\ spawnTask = NoProc /\ published = NoProc
    /\ generation = 1 /\ startingGen = NoGen /\ uncertainGen = NoGen
    /\ settled = TRUE
    /\ opPc = [o \in Ops |-> "idle"]
    /\ opProc = [o \in Ops |-> NoProc]
    /\ opGen = [o \in Ops |-> NoGen]
    /\ cancelled = {} /\ active = {} /\ retiringOps = {}
    /\ lockOwner = NoOp
    /\ retire = [p \in Procs |-> "none"]
    /\ termSent = [p \in Procs |-> FALSE] /\ killSent = [p \in Procs |-> FALSE]
    /\ closing = [p \in Procs |-> "none"] /\ late = {}
    /\ stopPc = "none" /\ stopGen = NoGen /\ stopping = FALSE /\ stopOk = FALSE
    /\ config \in Configs
    /\ running = [p \in Procs |-> config]
    /\ pending = {}

-----------------------------------------------------------------------------
Goto(o, where) == opPc' = [opPc EXCEPT ![o] = where]

\* _claim_retirement_locked(): one record per child, whoever claims it first.
Claimed(p) == [retire EXCEPT ![p] = IF @ = "none" THEN "spawn" ELSE @]

\* _start_is_settled_locked() and _clear_settled_start_uncertainty_locked().
StartSettled(gen) == startingGen # gen /\ settled

ClearedUncertainty ==
    IF uncertainGen # NoGen /\ StartSettled(uncertainGen) THEN NoGen ELSE uncertainGen

\* _published_child_is_terminal_locked()
PublishedTerminal ==
    published # NoProc /\ (proc[published] \in {"exited", "reaped"} \/ streamDead)

\* The public handle pair becomes None.
Detached == published' = NoProc /\ streamDead' = FALSE /\ fenced' = FALSE

\* _register_operation(), then queue for the lifecycle lock.
Register(o) ==
    /\ opPc[o] = "idle"
    /\ ~stopping /\ retiringOps = {} /\ Retirements = {} /\ uncertainGen = NoGen
    /\ active' = active \cup {o}
    /\ Goto(o, "lock")
    /\ UNCHANGED <<osVars, startVars, opProc, opGen, cancelled, lockOwner, retiringOps,
                   retireVars, stopVars, cfgVars>>

TakeLock(o) ==
    /\ opPc[o] = "lock" /\ o \notin cancelled
    /\ lockOwner = NoOp
    /\ lockOwner' = o
    /\ Goto(o, IF o \in Starters THEN "check" ELSE "snapshot")
    /\ UNCHANGED <<osVars, startVars, opProc, opGen, cancelled, active, retiringOps,
                   retireVars, stopVars, cfgVars>>

\* A cancellation at an await that nothing protects ends the operation.
Unwind(o) ==
    /\ o \in cancelled
    /\ opPc[o] \in {"lock", "check", "admit", "snapshot", "pend"}
    /\ Goto(o, "leave")
    /\ UNCHANGED <<osVars, startVars, opProc, opGen, cancelled, lockOwner, active,
                   retiringOps, retireVars, stopVars, cfgVars>>

\* Leaving the lifecycle lock, then _unregister_operation_owned().
Leave(o) ==
    /\ opPc[o] = "leave"
    /\ lockOwner' = IF lockOwner = o THEN NoOp ELSE lockOwner
    /\ Goto(o, "unregister")
    /\ UNCHANGED <<osVars, startVars, opProc, opGen, cancelled, active, retiringOps,
                   retireVars, stopVars, cfgVars>>

Unregister(o) ==
    /\ opPc[o] = "unregister"
    /\ active' = active \ {o}
    /\ cancelled' = cancelled \ {o}
    /\ opProc' = [opProc EXCEPT ![o] = NoProc]
    /\ opGen' = [opGen EXCEPT ![o] = NoGen]
    /\ Goto(o, "idle")
    /\ UNCHANGED <<osVars, startVars, lockOwner, retiringOps, retireVars, stopVars, cfgVars>>

\* The calling task itself ends: stop() no longer has to wait for it.
ReleaseRetiredOperation(o) ==
    /\ opPc[o] = "idle" /\ o \in retiringOps
    /\ retiringOps' = retiringOps \ {o}
    /\ UNCHANGED <<osVars, startVars, opPc, opProc, opGen, cancelled, lockOwner, active,
                   retireVars, stopVars, cfgVars>>

Cancel(o) ==
    /\ opPc[o] \notin {"idle", "leave", "unregister"} /\ o \notin cancelled
    /\ cancelled' = cancelled \cup {o}
    /\ UNCHANGED <<osVars, startVars, opPc, opProc, opGen, lockOwner, active, retiringOps,
                   retireVars, stopVars, cfgVars>>

-----------------------------------------------------------------------------
\* _retire_terminal_published_child(): detach a child that is already dead.
CheckPublished(o) ==
    /\ opPc[o] = "check" /\ o \notin cancelled
    /\ \/ /\ ~PublishedTerminal
          /\ Goto(o, "admit")
          /\ UNCHANGED <<published, streamDead, fenced, generation, retire, opProc>>
       \/ /\ PublishedTerminal
          /\ Detached
          /\ generation' = generation + 1
          /\ retire' = Claimed(published)
          /\ opProc' = [opProc EXCEPT ![o] = published]
          /\ Goto(o, "joinOld")
    /\ UNCHANGED <<proc, running, phaseAlive, spawnTask, startingGen, uncertainGen, settled,
                   opGen, cancelled, lockOwner, active, retiringOps, termSent, killSent,
                   closing, late, stopVars, cfgVars>>

JoinOld(o) ==
    /\ opPc[o] = "joinOld"
    /\ LET p == opProc[o]
       IN  /\ retire[p] \in RetireEnds \cup {"none"}
           /\ retire' = [retire EXCEPT ![p] = IF @ = "complete" THEN "none" ELSE @]
           /\ Goto(o, IF retire[p] = "complete" /\ o \notin cancelled
                      THEN "check" ELSE "leave")
    /\ opProc' = [opProc EXCEPT ![o] = NoProc]
    /\ UNCHANGED <<osVars, startVars, opGen, cancelled, lockOwner, active, retiringOps,
                   termSent, killSent, closing, late, stopVars, cfgVars>>

\* The admission section of _start(), up to the creation of the spawn task.
Admissible ==
    /\ ~stopping /\ startingGen = NoGen /\ ClearedUncertainty = NoGen
    /\ Retirements = {} /\ retiringOps = {} /\ ~StopRunning

NextProc == CHOOSE p \in Procs : proc[p] = "none"

Admit(o) ==
    /\ opPc[o] = "admit" /\ o \notin cancelled
    /\ published = NoProc /\ Admissible
    /\ \E p \in Procs : proc[p] = "none"
    /\ uncertainGen' = ClearedUncertainty
    /\ stopPc' = "none" /\ stopOk' = FALSE
    /\ startingGen' = generation
    /\ settled' = FALSE
    /\ proc' = [proc EXCEPT ![NextProc] = "spawning"]
    /\ spawnTask' = NextProc
    /\ opProc' = [opProc EXCEPT ![o] = NextProc]
    /\ opGen' = [opGen EXCEPT ![o] = generation]
    /\ Goto(o, "spawn")
    /\ UNCHANGED <<streamDead, fenced, running, phaseAlive, published, generation, cancelled,
                   lockOwner, active, retiringOps, retireVars, stopGen, stopping, cfgVars>>

\* Already running (return), terminal by now (look again), or fenced (raise).
NotAdmitted(o) ==
    /\ opPc[o] = "admit" /\ o \notin cancelled
    /\ published # NoProc \/ ~Admissible
    /\ uncertainGen' = ClearedUncertainty
    /\ Goto(o, IF PublishedTerminal THEN "check" ELSE "leave")
    /\ UNCHANGED <<osVars, spawnTask, published, generation, startingGen, settled, opProc,
                   opGen, cancelled, lockOwner, active, retiringOps, retireVars, stopVars,
                   cfgVars>>

\* The spawn returned a process: it is published without any suspension.
Publish(o) ==
    /\ opPc[o] = "spawn" /\ o \notin cancelled
    /\ LET p == opProc[o]
       IN  /\ proc[p] \in {"alive", "exited"}
           /\ spawnTask' = IF spawnTask = p THEN NoProc ELSE spawnTask
           /\ published' = p
           /\ running' = [running EXCEPT ![p] = config]
           /\ phaseAlive' = [phaseAlive EXCEPT ![p] = TRUE]
    /\ Goto(o, "phases")
    /\ UNCHANGED <<proc, streamDead, fenced, generation, startingGen, uncertainGen, settled, opProc, opGen,
                   cancelled, lockOwner, active, retiringOps, retireVars, stopVars, cfgVars>>

\* The spawn failed, its deadline passed, or start() was cancelled meanwhile.
SpawnFails(o) ==
    /\ opPc[o] = "spawn"
    /\ o \in cancelled \/ proc[opProc[o]] \in {"spawning", "failed"}
    /\ Goto(o, "claim")
    /\ UNCHANGED <<osVars, startVars, opProc, opGen, cancelled, lockOwner, active,
                   retiringOps, retireVars, stopVars, cfgVars>>

\* initialize, health until ready, tools/list: all done, or one of them not.
PhasesSucceed(o) ==
    /\ opPc[o] = "phases" /\ o \notin cancelled
    /\ phaseAlive' = [phaseAlive EXCEPT ![opProc[o]] = FALSE]
    /\ Goto(o, "finalize")
    /\ UNCHANGED <<proc, streamDead, fenced, running, startVars, opProc, opGen, cancelled,
                   lockOwner, active,
                   retiringOps, retireVars, stopVars, cfgVars>>

PhaseFails(o) ==
    /\ opPc[o] = "phases"
    /\ Goto(o, "claim")
    /\ UNCHANGED <<osVars, startVars, opProc, opGen, cancelled, lockOwner, active,
                   retiringOps, retireVars, stopVars, cfgVars>>

\* _retire_startup_child(): detach the child unless stop() already has.
ClaimStartup(o) ==
    /\ opPc[o] = "claim"
    /\ LET p == opProc[o]
       IN  /\ IF published = p
              THEN Detached /\ generation' = generation + 1
              ELSE UNCHANGED <<published, streamDead, fenced, generation>>
           /\ spawnTask' = IF spawnTask = p THEN NoProc ELSE spawnTask
           /\ retire' = Claimed(p)
    /\ Goto(o, "joinRet")
    /\ UNCHANGED <<proc, running, phaseAlive, startingGen, uncertainGen, settled, opProc, opGen,
                   cancelled, lockOwner, active, retiringOps, termSent, killSent, closing,
                   late, stopVars, cfgVars>>

JoinRetirement(o) ==
    /\ opPc[o] = "joinRet"
    /\ LET p == opProc[o]
       IN  /\ retire[p] \in RetireEnds \cup {"none"}
           /\ retire' = [retire EXCEPT ![p] = IF @ = "complete" THEN "none" ELSE @]
    /\ Goto(o, IF startingGen = opGen[o] THEN "finalize" ELSE "leave")
    /\ cancelled' = cancelled \cup {o}              \* start() will raise
    /\ opProc' = [opProc EXCEPT ![o] = NoProc]     \* retirement_claimed
    /\ UNCHANGED <<osVars, startVars, opGen, lockOwner, active, retiringOps,
                   termSent, killSent, closing, late, stopVars, cfgVars>>

\* Variant: the slot is compared with the generation of now.
FinalizeCurrentGeneration(o) ==
    /\ opPc[o] = "finalize"
    /\ IF startingGen = generation
       THEN startingGen' = NoGen /\ uncertainGen' = NoGen /\ settled' = TRUE
       ELSE UNCHANGED <<startingGen, uncertainGen, settled>>
    /\ Goto(o, "return")
    /\ UNCHANGED <<osVars, spawnTask, published, generation, opProc, opGen, cancelled,
                   lockOwner, active, retiringOps, retireVars, stopVars, cfgVars>>

\* _finalize_start()
FinalizeStart(o) ==
    /\ opPc[o] = "finalize"
    /\ IF startingGen = opGen[o]
       THEN /\ startingGen' = NoGen
            /\ uncertainGen' = IF uncertainGen = opGen[o] THEN NoGen ELSE uncertainGen
            /\ settled' = TRUE
       ELSE UNCHANGED <<startingGen, uncertainGen, settled>>
    /\ Goto(o, "return")
    /\ UNCHANGED <<osVars, spawnTask, published, generation, opProc, opGen, cancelled,
                   lockOwner, active, retiringOps, retireVars, stopVars, cfgVars>>

\* Success is public only here: lock, operation and return are one step.
ReturnStarted(o) ==
    /\ opPc[o] = "return" /\ o \notin cancelled
    /\ lockOwner' = NoOp
    /\ active' = active \ {o}
    /\ opProc' = [opProc EXCEPT ![o] = NoProc]
    /\ opGen' = [opGen EXCEPT ![o] = NoGen]
    /\ Goto(o, "idle")
    /\ UNCHANGED <<osVars, startVars, cancelled, retiringOps, retireVars, stopVars, cfgVars>>

\* A cancellation or failure seen after the finalizer: retire this child too.
ReturnFailed(o) ==
    /\ opPc[o] = "return" /\ o \in cancelled
    /\ Goto(o, IF opProc[o] # NoProc THEN "claim" ELSE "leave")
    /\ UNCHANGED <<osVars, startVars, opProc, opGen, cancelled, lockOwner, active,
                   retiringOps, retireVars, stopVars, cfgVars>>

-----------------------------------------------------------------------------
\* prepare_config_transition(): _current_client(), then the snapshot of config.  health()
\* and a transition on a fenced client have the same shape, without a pending handoff.
Snapshot(o) ==
    /\ opPc[o] = "snapshot" /\ o \notin cancelled
    /\ IF published = NoProc \/ stopping
       THEN Goto(o, "leave") /\ UNCHANGED <<opProc, opGen>>
       ELSE /\ opProc' = [opProc EXCEPT ![o] = published]
            /\ opGen' = [opGen EXCEPT ![o] = generation]
            /\ Goto(o, IF fenced THEN "probe" ELSE "pend")
    /\ UNCHANGED <<osVars, startVars, cancelled, lockOwner, active, retiringOps, retireVars,
                   stopVars, cfgVars>>

\* The handoff is recorded only for the client and generation of the snapshot.
Pend(o) ==
    /\ opPc[o] = "pend" /\ o \notin cancelled
    /\ IF generation # opGen[o] \/ published # opProc[o]
       THEN Goto(o, "leave") /\ UNCHANGED pending
       ELSE /\ \E next \in Configs :
                 pending' = {[owner |-> o, previous |-> config, next |-> next]}
            /\ Goto(o, "rpc")
    /\ UNCHANGED <<osVars, startVars, opProc, opGen, cancelled, lockOwner, active, retiringOps,
                   retireVars, stopVars, config>>

Probe(o) ==
    /\ opPc[o] \in {"pend", "probe"}
    /\ Goto(o, "leave")
    /\ UNCHANGED <<osVars, startVars, opProc, opGen, cancelled, lockOwner, active, retiringOps,
                   retireVars, stopVars, cfgVars>>

\* The inner prepare_config_transition() ends.  Once the request is on the wire the child
\* may run it whether or not the caller waits for the answer.
EndRpc(o, where, nowFenced, ran) ==
    /\ opPc[o] = "rpc"
    /\ fenced' = ((published = opProc[o] /\ nowFenced) \/ fenced)
    /\ running' = IF ran THEN [running EXCEPT ![opProc[o]] =
                                 IF pending = {} THEN @ ELSE (CHOOSE r \in pending : TRUE).next]
                         ELSE running
    /\ Goto(o, where)
    /\ UNCHANGED <<proc, streamDead, phaseAlive, startVars, opProc, opGen, cancelled,
                   lockOwner, active, retiringOps, retireVars, stopVars, cfgVars>>

RpcPrepared(o) == o \notin cancelled /\ EndRpc(o, "keep", TRUE, FALSE)
RpcApplied(o) == o \notin cancelled /\ EndRpc(o, "keep", FALSE, TRUE)

\* Variant: a refused transition keeps the requested config.
RpcRejectedKept(o) == o \notin cancelled /\ EndRpc(o, "keep", FALSE, FALSE)

RpcRejected(o) == o \notin cancelled /\ EndRpc(o, "restore", FALSE, FALSE)

\* Cancelled, or the stream died: after the request was written the client is fenced.
RpcLost(o) ==
    /\ o \in cancelled \/ streamDead \/ published # opProc[o]
    /\ \/ \E ran \in BOOLEAN : EndRpc(o, "keep", TRUE, ran)
       \/ EndRpc(o, "restore", FALSE, FALSE)

\* _finish_transition(): only the transition that still owns the handoff ends it.
FinishTransition(o) ==
    /\ opPc[o] \in {"keep", "restore"}
    /\ IF \E r \in pending : r.owner = o
       THEN LET r == CHOOSE r \in pending : TRUE
            IN  /\ config' = IF opPc[o] = "keep" THEN r.next ELSE r.previous
                /\ pending' = {}
       ELSE UNCHANGED cfgVars
    /\ Goto(o, "leave")
    /\ UNCHANGED <<osVars, startVars, opProc, opGen, cancelled, lockOwner, active, retiringOps,
                   retireVars, stopVars>>

-----------------------------------------------------------------------------
\* _retire_child(), one record.  "unspawned" and "unresolved" end an attempt with False.
At(p, stage) == retire[p] = stage
Advance(p, stage) == retire' = [retire EXCEPT ![p] = stage]

\* Variant: a spawn that outlives its bounded wait is forgotten.
RetireSpawnForgets(p) ==
    /\ At(p, "spawn")
    /\ Advance(p, IF proc[p] \in {"spawning", "failed"} THEN "complete" ELSE "shutdown")
    /\ UNCHANGED <<osVars, startVars, opVars, termSent, killSent, closing, late, stopVars, cfgVars>>

\* _retire_spawn_task(): adopt the process of a spawn that ended; a bounded wait otherwise.
RetireSpawn(p) ==
    /\ At(p, "spawn")
    /\ Advance(p, CASE proc[p] = "spawning" -> "unspawned"
                    [] proc[p] = "failed" -> "complete"
                    [] OTHER -> "shutdown")
    /\ UNCHANGED <<osVars, startVars, opVars, termSent, killSent, closing, late, stopVars, cfgVars>>

\* _wait_for_process() proves the child is reaped within its bound ...
RetireReaps(p) ==
    /\ retire[p] \in {"shutdown", "termwait", "killwait", "last"}
    /\ proc[p] \in {"exited", "reaped"}
    /\ proc' = [proc EXCEPT ![p] = "reaped"]
    /\ Advance(p, IF At(p, "last") THEN "complete" ELSE "close")
    /\ UNCHANGED <<streamDead, fenced, running, phaseAlive, startVars, opVars, termSent,
                   killSent, closing, late, stopVars, cfgVars>>

\* Variant: the wait after KILL is not bounded.
RetireAwaitsKill(p) ==
    /\ proc[p] # "reaped"
    /\ \/ At(p, "shutdown") /\ Advance(p, "term")
       \/ At(p, "termwait") /\ Advance(p, "kill")
    /\ UNCHANGED <<osVars, startVars, opVars, termSent, killSent, closing, late, stopVars, cfgVars>>

\* ... or not, and the next phase follows.
RetireTimesOut(p) ==
    /\ proc[p] # "reaped"
    /\ \/ At(p, "shutdown") /\ Advance(p, "term")
       \/ At(p, "termwait") /\ Advance(p, "kill")
       \/ At(p, "killwait") /\ Advance(p, "close")
       \/ At(p, "last") /\ Advance(p, "unresolved")
    /\ UNCHANGED <<osVars, startVars, opVars, termSent, killSent, closing, late, stopVars, cfgVars>>

\* terminate() and kill(): each once per process, and only while it has no return code.
RetireTerm(p) ==
    /\ At(p, "term")
    /\ IF proc[p] = "alive" /\ ~termSent[p]
       THEN termSent' = [termSent EXCEPT ![p] = TRUE] /\ Advance(p, "termwait")
       ELSE UNCHANGED termSent /\ Advance(p, "kill")
    /\ UNCHANGED <<osVars, startVars, opVars, killSent, closing, late, stopVars, cfgVars>>

RetireKill(p) ==
    /\ At(p, "kill")
    /\ IF proc[p] = "alive" /\ ~killSent[p]
       THEN killSent' = [killSent EXCEPT ![p] = TRUE] /\ Advance(p, "killwait")
       ELSE UNCHANGED killSent /\ Advance(p, "close")
    /\ UNCHANGED <<osVars, startVars, opVars, termSent, closing, late, stopVars, cfgVars>>

\* client.close() is started once and observed; the record is released only when every
\* phase settled (an observation that timed out also ends the attempt with False) and the
\* process is reaped.  Only the attempt that started the close waits once more.
RetireClose(p) ==
    /\ At(p, "close")
    /\ closing' \in {closing} \cup
         {[closing EXCEPT ![p] = c] : c \in IF closing[p] = "none" THEN {"open", "ok", "bad"}
                                                                   ELSE {}}
    /\ closing'[p] # "none"
    /\ \/ Advance(p, "unresolved")
       \/ /\ closing'[p] = "ok" /\ ~phaseAlive[p]
          /\ IF proc[p] = "reaped" THEN Advance(p, "complete")
                                   ELSE closing[p] = "none" /\ Advance(p, "last")
    /\ UNCHANGED <<osVars, startVars, opVars, termSent, killSent, late, stopVars, cfgVars>>

\* _on_spawn_task_done() of a transferred spawn: retire it without another stop().
LateSpawn(p) ==
    /\ retire[p] \in {"spawn", "unspawned"} /\ p \notin late
    /\ proc[p] \in {"alive", "exited", "failed"}
    /\ late' = late \cup {p}
    /\ Advance(p, "spawn")
    /\ UNCHANGED <<osVars, startVars, opVars, termSent, killSent, closing, stopVars, cfgVars>>

LateRemove(p) ==
    /\ p \in late /\ At(p, "complete")
    /\ Advance(p, "none")
    /\ late' = late \ {p}
    /\ UNCHANGED <<osVars, startVars, opVars, termSent, killSent, closing, stopVars, cfgVars>>

RetireStep(p) == RetireSpawn(p) \/ RetireReaps(p) \/ RetireTimesOut(p) \/ RetireTerm(p)
                 \/ RetireKill(p) \/ RetireClose(p) \/ LateSpawn(p) \/ LateRemove(p)

-----------------------------------------------------------------------------
\* The operating system and the child (external).
SpawnEnds(p) ==
    /\ proc[p] = "spawning"
    /\ \E s \in {"alive", "failed"} : proc' = [proc EXCEPT ![p] = s]
    /\ UNCHANGED <<streamDead, fenced, running, phaseAlive, startVars, opVars, retireVars,
                   stopVars, cfgVars>>

ProcExits(p) ==
    /\ proc[p] = "alive"
    /\ proc' = [proc EXCEPT ![p] = "exited"]
    /\ UNCHANGED <<streamDead, fenced, running, phaseAlive, startVars, opVars, retireVars,
                   stopVars, cfgVars>>

StreamDies ==
    /\ published # NoProc /\ ~streamDead
    /\ streamDead' = TRUE
    /\ UNCHANGED <<proc, fenced, running, phaseAlive, startVars, opVars, retireVars, stopVars,
                   cfgVars>>

\* _finish_retired_startup_task() and _finish_retired_close_task() run as callbacks.
PhaseEnds(p) ==
    /\ phaseAlive[p] /\ \A o \in Ops : opPc[o] = "phases" => opProc[o] # p
    /\ phaseAlive' = [phaseAlive EXCEPT ![p] = FALSE]
    /\ UNCHANGED <<proc, streamDead, fenced, running, startVars, opVars, retireVars, stopVars,
                   cfgVars>>

CloseSettles(p) ==
    /\ closing[p] = "open"
    /\ \E c \in {"ok", "bad"} : closing' = [closing EXCEPT ![p] = c]
    /\ UNCHANGED <<osVars, startVars, opVars, retire, termSent, killSent, late, stopVars, cfgVars>>

-----------------------------------------------------------------------------
\* stop(): one attempt at a time; a call after a success finds that success.
StopCall ==
    /\ stopPc = "none" \/ (stopPc = "done" /\ ~stopOk)
    /\ generation < MaxGen
    /\ stopPc' = "detach" /\ stopOk' = FALSE
    /\ UNCHANGED <<osVars, startVars, opVars, retireVars, stopGen, stopping, cfgVars>>

\* Variant: the open handoff is left to the transition's own finalizer.
LeaveHandoff == UNCHANGED cfgVars

\* A transition whose request may be on the wire: its config is the next one.
TakeHandoff ==
    /\ config' = IF pending = {} THEN config ELSE (CHOOSE r \in pending : TRUE).next
    /\ pending' = {}

\* _run_stop_attempt(): everything up to the first await.
Detach ==
    /\ stopPc = "detach"
    /\ stopping' = TRUE
    /\ uncertainGen' = ClearedUncertainty
    /\ generation' = generation + 1
    /\ TakeHandoff
    /\ active' = {} /\ retiringOps' = retiringOps \cup active
    /\ cancelled' = cancelled \cup active
    /\ Detached
    /\ stopGen' = startingGen
    /\ spawnTask' = IF startingGen # NoGen THEN NoProc ELSE spawnTask
    /\ retire' = [p \in Procs |->
                    IF retire[p] = "none"
                       /\ (p = published \/ (p = spawnTask /\ startingGen # NoGen))
                    THEN "spawn" ELSE retire[p]]
    /\ stopPc' = IF startingGen = NoGen THEN "reap" ELSE "settle"
    /\ UNCHANGED <<proc, running, phaseAlive, startingGen, settled, opPc, opProc, opGen,
                   lockOwner, termSent, killSent, closing, late, stopOk>>

\* _wait_for_start_settlement(), bounded, twice.
StopSettled ==
    /\ stopPc \in {"settle", "settleAgain"} /\ StartSettled(stopGen)
    /\ stopPc' = "reap"
    /\ UNCHANGED <<osVars, startVars, opVars, retireVars, stopGen, stopping, stopOk, cfgVars>>

StopWaitTimesOut ==
    /\ stopPc \in {"settle", "settleAgain"} /\ ~settled
    /\ stopPc' = IF stopPc = "settle" THEN "fence" ELSE "finish"
    /\ UNCHANGED <<osVars, startVars, opVars, retireVars, stopGen, stopping, stopOk, cfgVars>>

\* Fence the generation only if it is still unsettled under the lock.
StopFence ==
    /\ stopPc = "fence"
    /\ uncertainGen' = IF StartSettled(stopGen) THEN ClearedUncertainty ELSE stopGen
    /\ stopPc' = "settleAgain"
    /\ UNCHANGED <<osVars, spawnTask, published, generation, startingGen, settled, opVars,
                   retireVars, stopGen, stopping, stopOk, cfgVars>>

\* _reap_owned_children(): retry the records of failed attempts, then join them all.
StopReap ==
    /\ stopPc = "reap"
    /\ uncertainGen' = ClearedUncertainty
    /\ retire' = [p \in Procs |-> IF retire[p] \in {"unspawned", "unresolved"}
                                  THEN "spawn" ELSE retire[p]]
    /\ stopPc' = "join"
    /\ UNCHANGED <<osVars, spawnTask, published, generation, startingGen, settled, opVars,
                   termSent, killSent, closing, late, stopGen, stopping, stopOk, cfgVars>>

\* Variant: success does not depend on the records that remain.
StopJoinIgnoresRecords ==
    /\ stopPc = "join"
    /\ \A p \in Retirements : retire[p] \in RetireEnds
    /\ retire' = [p \in Procs |-> IF retire[p] = "complete" THEN "none" ELSE retire[p]]
    /\ uncertainGen' = ClearedUncertainty
    /\ stopOk' = (ClearedUncertainty = NoGen)
    /\ stopPc' = "ops"
    /\ UNCHANGED <<osVars, spawnTask, published, generation, startingGen, settled, opVars,
                   termSent, killSent, closing, late, stopGen, stopping, cfgVars>>

StopJoin ==
    /\ stopPc = "join"
    /\ \A p \in Retirements : retire[p] \in RetireEnds
    /\ retire' = [p \in Procs |-> IF retire[p] = "complete" THEN "none" ELSE retire[p]]
    /\ uncertainGen' = ClearedUncertainty
    /\ stopOk' = (\A p \in Procs : retire'[p] = "none" /\ ClearedUncertainty = NoGen)
    /\ stopPc' = "ops"
    /\ UNCHANGED <<osVars, spawnTask, published, generation, startingGen, settled, opVars,
                   termSent, killSent, closing, late, stopGen, stopping, cfgVars>>

\* _observe_retiring_operations(), bounded.
StopOperations ==
    /\ stopPc = "ops"
    /\ stopOk' = (stopOk /\ retiringOps = {})
    /\ stopPc' = "finish"
    /\ UNCHANGED <<osVars, startVars, opVars, retireVars, stopGen, stopping, cfgVars>>

StopFinish ==
    /\ stopPc = "finish"
    /\ stopping' = FALSE
    /\ stopPc' = "done"
    /\ UNCHANGED <<osVars, startVars, opVars, retireVars, stopGen, stopOk, cfgVars>>

StopStep == Detach \/ StopSettled \/ StopWaitTimesOut \/ StopFence \/ StopReap \/ StopJoin
            \/ StopOperations \/ StopFinish

StartStep(o) == CheckPublished(o) \/ JoinOld(o) \/ Admit(o) \/ NotAdmitted(o) \/ Publish(o)
                \/ SpawnFails(o) \/ PhasesSucceed(o) \/ PhaseFails(o) \/ ClaimStartup(o)
                \/ JoinRetirement(o) \/ FinalizeStart(o) \/ ReturnStarted(o) \/ ReturnFailed(o)

ChangeStep(o) == Snapshot(o) \/ Pend(o) \/ Probe(o) \/ RpcPrepared(o) \/ RpcApplied(o)
                 \/ RpcRejected(o) \/ RpcLost(o) \/ FinishTransition(o)

OpStep(o) == \/ TakeLock(o) \/ Unwind(o) \/ Leave(o) \/ Unregister(o)
             \/ o \in Starters /\ StartStep(o)
             \/ o \in Changers /\ ChangeStep(o)

OsStep(p) == SpawnEnds(p) \/ ProcExits(p) \/ PhaseEnds(p) \/ CloseSettles(p)

Next == \/ \E o \in Ops : Register(o) \/ OpStep(o) \/ ReleaseRetiredOperation(o) \/ Cancel(o)
        \/ \E p \in Procs : RetireStep(p) \/ OsStep(p)
        \/ StreamDies
        \/ StopCall \/ StopStep

Spec == Init /\ [][Next]_vars

\* The event loop runs every ready task, and every wait of these tasks is bounded: no
\* fairness is asked of the child, of the operating system or of callers.
SupervisorFairness ==
    /\ WF_vars(StopStep)
    /\ \A p \in Procs : WF_vars(RetireStep(p))
    /\ \A o \in Starters : WF_vars(StartStep(o))

FairSpec == Spec /\ SupervisorFairness

-----------------------------------------------------------------------------
(***************************************************************************)
(* What the supervisor promises.                                           *)
(***************************************************************************)

\* A replacement is never spawned while an earlier child may still be running: whatever
\* start(), stop(), a late spawn and cancellations do, at most one child is unreaped.
NoTwoChildren == Cardinality(Unreaped) <= 1

\* The state is well-formed, and every child that is not reaped has an owner that stop()
\* finds: the public pair, the spawn slot of the running start, or a retirement record.
EveryChildOwned ==
    /\ TypeOK
    /\ \A p \in Unreaped : published = p \/ spawnTask = p \/ retire[p] # "none"

\* At most one child, and somebody to reap it.
ChildrenOwned == NoTwoChildren /\ EveryChildOwned

\* stop() reports success only when no child is left and no handoff is open, although it
\* never waits for the lifecycle lock.
StopSuccessMeansReaped ==
    stopPc \in {"finish", "done"} /\ stopOk => Unreaped = {} /\ published = NoProc /\ pending = {}

\* The wrapper's config is the one the published child runs on, whatever transition was
\* applied, rejected, cancelled or cut short, unless the child is fenced.
ConfigCoherent ==
    published # NoProc /\ pending = {} /\ ~fenced => running[published] = config

\* What stop() recorded for the replacement is not overwritten by the finalizer of the
\* transition it interrupted, or by anything else, while no child is published.
ConfigHeld == [][published = NoProc /\ published' = NoProc => config' = config]_vars

\* A stop() attempt ends whatever the child does: one that ignores shutdown, TERM and KILL,
\* a spawn that never returns, a start that does not settle.
StopEnds == stopPc = "detach" ~> stopPc = "done"

\* A start that was admitted gives its slot back, so it cannot fence the feature forever.
StartSettles == startingGen # NoGen ~> startingGen = NoGen

=============================================================================
