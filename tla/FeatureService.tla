--------------------------- MODULE FeatureService ---------------------------
(***************************************************************************)
(* The child side of the wire: IsolatedFeatureService of                   *)
(* kestrel_sdk/isolated_feature/service.py.                                *)
(*                                                                         *)
(* serve() reads one request at a time.  initialize, config/transition and *)
(* shutdown are awaited inline; every other request becomes a task of its  *)
(* own, so replies leave in any order.  The feature's hooks and handlers   *)
(* are arbitrary code: they return, raise, never return, or end with a     *)
(* CancelledError of their own.                                            *)
(***************************************************************************)
EXTENDS FeatureWire, FiniteSets

CONSTANTS PipeSize,        \* replies that fit the stdout pipe before drain() blocks
          SelfCancelling   \* methods whose handler may raise CancelledError itself

ASSUME ServiceConstants == PipeSize \in Nat \ {0} /\ SelfCancelling \subseteq Methods

VARIABLES serving,      \* where serve() is
          inline,       \* the request it awaits inline, {} or a singleton of Jobs
          inflight,     \* self._inflight: one job per spawned request
          svcStopping,  \* self._stopping
          svcRestart,   \* self._restart_required
          svcConfig,    \* self.host_config
          svcCaps       \* what the feature advertised before serving

serviceVars == <<serving, inline, inflight, svcStopping, svcRestart, svcConfig,
                 svcCaps>>

(***************************************************************************)
(* A request being handled: not started, inside the feature's hook or      *)
(* handler, or holding the response it is about to send.                   *)
(***************************************************************************)
NoAnswer == Junk("bad")
Job(req, stage, answer) == [req |-> req, stage |-> stage, answer |-> answer]
Jobs == [req : Requests, stage : {"new", "run", "reply"}, answer : Lines]

ServiceTypeOK ==
    /\ serving \in {"reading", "inline", "draining", "exited"}
    /\ inline \subseteq Jobs
    /\ inflight \subseteq Jobs
    /\ svcStopping \in BOOLEAN
    /\ svcRestart \in BOOLEAN
    /\ svcConfig \in Configs \cup {NoConfig}
    /\ svcCaps \in Caps

ServiceInit ==
    /\ serving = "reading"
    /\ inline = {}
    /\ inflight = {}
    /\ svcStopping = FALSE
    /\ svcRestart = FALSE
    /\ svcConfig = NoConfig
    /\ svcCaps \in ChildCaps

-----------------------------------------------------------------------------
\* serve(): take the next line; inline methods are awaited, others spawned.
SvcRead ==
    /\ serving = "reading" /\ ~svcStopping
    /\ toChild # <<>>
    /\ toChild' = Tail(toChild)
    /\ LET job == Job(Head(toChild), "new", NoAnswer)
       IN IF job.req.method \in InlineMethods
          THEN serving' = "inline" /\ inline' = {job} /\ UNCHANGED inflight
          ELSE inflight' = inflight \cup {job} /\ UNCHANGED <<serving, inline>>
    /\ UNCHANGED <<fromChild, inOpen, outOpen, svcStopping, svcRestart, svcConfig,
                   svcCaps>>

\* The loop ends on EOF or once _stopping is set.
SvcLeaveLoop ==
    /\ serving = "reading"
    /\ svcStopping \/ (toChild = <<>> /\ ~inOpen)
    /\ serving' = "draining"
    /\ UNCHANGED <<wireVars, inline, inflight, svcStopping, svcRestart, svcConfig,
                   svcCaps>>

(***************************************************************************)
(* serve()'s finally block and run_stdio()'s: after the grace period every *)
(* handler still running is cancelled, the writer is dropped and the       *)
(* private stdout is closed.                                               *)
(***************************************************************************)
SvcExit ==
    /\ serving = "draining"
    /\ serving' = "exited"
    /\ inflight' = {}
    /\ outOpen' = FALSE
    /\ UNCHANGED <<toChild, fromChild, inOpen, inline, svcStopping, svcRestart,
                   svcConfig, svcCaps>>

\* The process is gone: by itself after serve(), or killed at any point.
SvcDie ==
    /\ inOpen \/ outOpen
    /\ serving' = "exited"
    /\ inOpen' = FALSE /\ outOpen' = FALSE
    /\ toChild' = <<>>
    /\ inline' = {} /\ inflight' = {}
    /\ UNCHANGED <<fromChild, svcStopping, svcRestart, svcConfig, svcCaps>>

-----------------------------------------------------------------------------
(***************************************************************************)
(* _dispatch() of the inline methods, up to the feature's hook.            *)
(***************************************************************************)
InlineStep(job, next) ==
    /\ inline = {job} /\ serving = "inline"
    /\ inline' = {next}
    /\ UNCHANGED <<wireVars, serving, inflight, svcCaps>>

\* on_initialize(): host_config is set before configure() is awaited.
SvcInitialize(job) ==
    /\ job.req.method = "initialize" /\ job.stage = "new"
    /\ svcConfig' = job.req.config
    /\ InlineStep(job, [job EXCEPT !.stage = "run"])
    /\ UNCHANGED <<svcStopping, svcRestart>>

SvcInitialized(job) ==
    /\ job.req.method = "initialize" /\ job.stage = "run"
    /\ \E answer \in {Result(job.req.id, "value", svcCaps), Error(job.req.id)} :
          InlineStep(job, Job(job.req, "reply", answer))
    /\ UNCHANGED <<svcStopping, svcRestart, svcConfig>>

SvcTransition(job) ==
    /\ job.req.method = "transition" /\ job.stage = "new"
    /\ IF svcRestart \/ svcCaps.transition = "no"
       THEN InlineStep(job, Job(job.req, "reply", Error(job.req.id)))
       ELSE InlineStep(job, [job EXCEPT !.stage = "run"])
    /\ UNCHANGED <<svcStopping, svcRestart, svcConfig>>

\* The hook prepared a restart: fence before the reply is sent.
SvcPrepared(job) ==
    /\ job.req.method = "transition" /\ job.stage = "run"
    /\ svcRestart' = TRUE
    /\ InlineStep(job, Job(job.req, "reply", Result(job.req.id, "restart", NoCaps)))
    /\ UNCHANGED <<svcStopping, svcConfig>>

\* Variant: the config of a live apply is not committed.
SvcAppliedUncommitted(job) ==
    /\ job.req.method = "transition" /\ job.stage = "run"
    /\ svcCaps.transition = "live"
    /\ InlineStep(job, Job(job.req, "reply", Result(job.req.id, "applied", NoCaps)))
    /\ UNCHANGED <<svcStopping, svcRestart, svcConfig>>

\* The hook applied the config live: commit it, if that was advertised.
SvcApplied(job) ==
    /\ job.req.method = "transition" /\ job.stage = "run"
    /\ svcCaps.transition = "live"
    /\ svcConfig' = job.req.config
    /\ InlineStep(job, Job(job.req, "reply", Result(job.req.id, "applied", NoCaps)))
    /\ UNCHANGED <<svcStopping, svcRestart>>

\* Variant: a hook that raises is not answered.
SvcRejectedSilently(job) ==
    /\ job.req.method = "transition" /\ job.stage = "run"
    /\ inline = {job} /\ serving = "inline"
    /\ inline' = {} /\ serving' = "reading"
    /\ UNCHANGED <<wireVars, inflight, svcCaps, svcStopping, svcRestart, svcConfig>>

\* The hook raised, returned no result object, or an unadvertised action.
SvcRejected(job) ==
    /\ job.req.method = "transition" /\ job.stage = "run"
    /\ InlineStep(job, Job(job.req, "reply", Error(job.req.id)))
    /\ UNCHANGED <<svcStopping, svcRestart, svcConfig>>

\* _stopping is latched before on_shutdown() can raise or forget super().
SvcShutdown(job) ==
    /\ job.req.method = "shutdown" /\ job.stage = "new"
    /\ svcStopping' = TRUE
    /\ InlineStep(job, [job EXCEPT !.stage = "run"])
    /\ UNCHANGED <<svcRestart, svcConfig>>

SvcShutdownDone(job) ==
    /\ job.req.method = "shutdown" /\ job.stage = "run"
    /\ \E answer \in {Result(job.req.id, "value", NoCaps), Error(job.req.id)} :
          InlineStep(job, Job(job.req, "reply", answer))
    /\ UNCHANGED <<svcStopping, svcRestart, svcConfig>>

\* _send(): one frame at a time, as soon as the pipe takes it.
Sendable == Len(fromChild) < PipeSize /\ outOpen

SvcInlineReply(job) ==
    /\ inline = {job} /\ serving = "inline" /\ job.stage = "reply"
    /\ Sendable
    /\ fromChild' = Append(fromChild, job.answer)
    /\ inline' = {}
    /\ serving' = "reading"
    /\ UNCHANGED <<toChild, inOpen, outOpen, inflight, svcStopping, svcRestart,
                   svcConfig, svcCaps>>

\* A hook awaited inline ends with its own CancelledError: serve() unwinds.
SvcInlineCancelled(job) ==
    /\ inline = {job} /\ serving = "inline" /\ job.stage = "run"
    /\ job.req.method \in SelfCancelling
    /\ inline' = {}
    /\ serving' = "draining"
    /\ UNCHANGED <<wireVars, inflight, svcStopping, svcRestart, svcConfig, svcCaps>>

\* drain() raises on a broken stdout, and so does the error reply: serve() unwinds.
SvcInlineBroken(job) ==
    /\ inline = {job} /\ serving = "inline" /\ job.stage = "reply"
    /\ ~outOpen
    /\ inline' = {}
    /\ serving' = "draining"
    /\ UNCHANGED <<wireVars, inflight, svcStopping, svcRestart, svcConfig, svcCaps>>

-----------------------------------------------------------------------------
(***************************************************************************)
(* Spawned requests.  The lifecycle flags are tested when the task starts, *)
(* not when the line was read and not when the handler returns.            *)
(***************************************************************************)
TaskStep(job, next) ==
    /\ job \in inflight /\ serving # "exited"
    /\ inflight' = (inflight \ {job}) \cup next
    /\ UNCHANGED <<serving, inline, svcStopping, svcRestart, svcConfig, svcCaps>>

Refused(m) ==
    \/ svcRestart
    \/ m = "ingress" /\ (svcStopping \/ ~svcCaps.ingress)

TaskStart(job) ==
    /\ job.stage = "new"
    /\ LET id == job.req.id
           refusal == IF job.req.method = "health"
                      THEN Result(id, "notready", NoCaps) ELSE Error(id)
       IN TaskStep(job, {IF Refused(job.req.method)
                         THEN Job(job.req, "reply", refusal)
                         ELSE [job EXCEPT !.stage = "run"]})
    /\ UNCHANGED wireVars

HandlerAnswers(req) ==
    {Error(req.id)} \cup
    {Result(req.id, v, NoCaps) :
        v \in IF req.method = "health" THEN HealthValues ELSE {"value"}}

TaskDone(job) ==
    /\ job.stage = "run"
    /\ \E answer \in HandlerAnswers(job.req) :
          TaskStep(job, {Job(job.req, "reply", answer)})
    /\ UNCHANGED wireVars

\* Only host ingress turns a handler's own CancelledError into a reply.
TaskCancelled(job) ==
    /\ job.stage = "run"
    /\ job.req.method \in SelfCancelling
    /\ TaskStep(job, IF job.req.method = "ingress"
                     THEN {Job(job.req, "reply", Error(job.req.id))} ELSE {})
    /\ UNCHANGED wireVars

TaskReply(job) ==
    /\ job.stage = "reply"
    /\ Sendable
    /\ fromChild' = Append(fromChild, job.answer)
    /\ TaskStep(job, {})
    /\ UNCHANGED <<toChild, inOpen, outOpen>>

TaskBroken(job) ==
    /\ job.stage = "reply"
    /\ ~outOpen
    /\ TaskStep(job, {})
    /\ UNCHANGED wireVars

-----------------------------------------------------------------------------
InlineNext(job) ==
    \/ SvcInitialize(job) \/ SvcInitialized(job)
    \/ SvcTransition(job) \/ SvcPrepared(job) \/ SvcApplied(job) \/ SvcRejected(job)
    \/ SvcShutdown(job) \/ SvcShutdownDone(job)
    \/ SvcInlineReply(job) \/ SvcInlineCancelled(job) \/ SvcInlineBroken(job)

TaskNext(job) ==
    \/ TaskStart(job) \/ TaskDone(job) \/ TaskCancelled(job)
    \/ TaskReply(job) \/ TaskBroken(job)

ServiceNext ==
    \/ SvcRead \/ SvcLeaveLoop \/ SvcExit \/ SvcDie
    \/ \E job \in inline : InlineNext(job)
    \/ \E job \in inflight : TaskNext(job)
=============================================================================
