----------------------------- MODULE FeatureRpc -----------------------------
(***************************************************************************)
(* Host client and child service joined by their two pipes, with the child *)
(* dying at any moment.                                                    *)
(***************************************************************************)
EXTENDS FeatureClient, FeatureService

rpcVars == <<wireVars, clientVars, serviceVars>>

RpcTypeOK == TypeOK /\ ServiceTypeOK

RpcInit == WireInit /\ ClientInit /\ ServiceInit

RpcNext ==
    \/ ClientNext /\ UNCHANGED serviceVars
    \/ ServiceNext /\ UNCHANGED clientVars

RpcSpec == RpcInit /\ [][RpcNext]_rpcVars

(***************************************************************************)
(* Fairness of the child: its loop runs what is ready, its lifecycle and   *)
(* health hooks return.  A tool or ingress handler may run forever.        *)
(***************************************************************************)
ServeStep ==
    \/ SvcRead \/ SvcLeaveLoop \/ SvcExit
    \/ \E job \in inline : InlineNext(job)

TaskStepOf(id) ==
    \E job \in inflight :
        /\ job.req.id = id
        /\ \/ TaskStart(job) \/ TaskReply(job) \/ TaskBroken(job)
           \/ job.req.method = "health" /\ TaskDone(job)

ServiceFairness ==
    /\ WF_rpcVars(ServeStep /\ UNCHANGED clientVars)
    /\ \A id \in 1..MaxRequests : WF_rpcVars(TaskStepOf(id) /\ UNCHANGED clientVars)

\* Fairness of the host: the read loop and every caller that can move.
HostFairness ==
    /\ WF_rpcVars(ReaderNext /\ UNCHANGED serviceVars)
    /\ \A c \in Callers :
          WF_rpcVars((Wake(c) \/ DrainDone(c) \/ TakeLock(c)) /\ UNCHANGED serviceVars)

FairRpcSpec == RpcSpec /\ ServiceFairness /\ HostFairness

-----------------------------------------------------------------------------
InTransition(c) == InCall(c) /\ op[c] = "transition"

(***************************************************************************)
(* A child that has retired its resources is never treated as usable: the  *)
(* host has fenced it, or the transition that did it is still being        *)
(* awaited.  Holds through cancellation, crash and lost replies.           *)
(***************************************************************************)
ChildFenceSeen == svcRestart => restartRequired \/ \E c \in Callers : InTransition(c)

(***************************************************************************)
(* Both sides are well-formed, and the child is sent no transition frame   *)
(* it could act on after one whose outcome the host does not know.         *)
(***************************************************************************)
OneTransitionOnWire ==
    /\ RpcTypeOK
    /\ Cardinality({i \in 1..Len(toChild) : toChild[i].method = "transition"})
       + Cardinality({job \in inline : job.req.method = "transition"}) <= 1

(***************************************************************************)
(* The config-transition promise of ConfigHandoff, kept by the two sides   *)
(* and the wire between them.                                              *)
(***************************************************************************)
Asked ==
    IF \E c \in Callers : InTransition(c)
    THEN arg[CHOOSE c \in Callers : InTransition(c)] ELSE NoConfig

Handoff == INSTANCE ConfigHandoff
             WITH hostCfg <- hostConfig, childCfg <- svcConfig, asked <- Asked,
                  fenced <- restartRequired, retired <- svcRestart

\* Client, service and wire together take only steps of the abstract handoff: through lost
\* replies, cancellation and crashes the outcome of prepare_config_transition() is one that
\* the abstract protocol allows.
ImplementsHandoff == Handoff!Spec

\* Host and child never settle on different configs without the host having fenced the child.
HandoffAgreement == Handoff!Agreement

\* What a config transition may leave behind, in one.
TransitionSafe == ChildFenceSeen /\ OneTransitionOnWire /\ HandoffAgreement

(***************************************************************************)
(* Every awaited request is somewhere: on its way, being handled, or its   *)
(* answer is on its way back, unless the child is leaving, which the host  *)
(* sees as EOF.  In particular a lifecycle hook that raises is answered,   *)
(* or its caller would hold the lifecycle lock for ever.  The exception is *)
(* a spawned handler that cancels itself: only host ingress answers then.  *)
(***************************************************************************)
Leaving == serving \in {"draining", "exited"} \/ ~inOpen \/ ~outOpen

MaySilentlyEnd(m) == m \in SelfCancelling \ (InlineMethods \cup {"ingress"})

NoRequestLost ==
    \A c \in Callers :
        InCall(c) /\ rid[c] \in pending /\ ~MaySilentlyEnd(op[c]) =>
            \/ \E i \in DOMAIN toChild : toChild[i].id = rid[c]
            \/ \E job \in inline \cup inflight : job.req.id = rid[c]
            \/ \E i \in DOMAIN fromChild : fromChild[i].id = rid[c]
            \/ Leaving

(***************************************************************************)
(* A health probe is answered while tool calls hang: the supervisor never  *)
(* waits behind a stuck handler.  Unless the child dies, the answer comes  *)
(* from the child; if it dies, the probe fails.  A probe that is a         *)
(* client's first request, made behind a queued close(), is the exception. *)
(***************************************************************************)
HealthAnswered ==
    \A c \in Callers : (InCall(c) /\ op[c] = "health") ~> (pc[c] = "idle" \/ overtaken)
=============================================================================
