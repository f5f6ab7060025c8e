---------------------------- MODULE PluginHooks ----------------------------
(* The hooks around one call of the A2A server or client: plugins of a      *)
(* SequentialPluginManager outside, client interceptors inside, then the    *)
(* handler or the transport.  Every hook is an await: it may raise, and the *)
(* call may be cancelled or its stream closed there.                        *)
EXTENDS Naturals, Sequences

CONSTANTS PluginCount, InterceptorCount, StreamEvents   \* StreamEvents bounds a stream

ASSUME HookConstants == PluginCount \in Nat /\ InterceptorCount \in Nat

VARIABLES hook,         \* the call: where it is and what it has met
          hookLog       \* the hooks that completed, in order
hookVars == <<hook, hookLog>>

\* stage "final" and "unwind" count plugins down, the others count hooks up
HookInit ==
    /\ \E side \in {"server", "client"}, kind \in {"unary", "stream"} :
         hook = [side |-> side, kind |-> kind, stage |-> "before", at |-> 1, executed |-> 0,
                 events |-> 0, error |-> FALSE, early |-> FALSE, cut |-> FALSE]
    /\ hookLog = <<>>
Logs(what) == hookLog' = Append(hookLog, <<what, hook.at>>)
Interceptors == IF hook.side = "client" THEN InterceptorCount ELSE 0

\* before_handler_run / before_client_request: in order; a failure closes those that ran
BeforeRuns ==
    /\ hook.stage = "before" /\ hook.at <= PluginCount
    /\ hook' = [hook EXCEPT !.at = @ + 1] /\ Logs("open")
BeforeRaises ==
    /\ hook.stage = "before" /\ hook.at <= PluginCount
    /\ hook' = [hook EXCEPT !.stage = "unwind", !.at = @ - 1, !.error = TRUE]
    /\ UNCHANGED hookLog
\* after hooks, last first; what they raise is logged and swallowed
UnwindRuns ==
    /\ hook.stage = "unwind" /\ hook.at > 0
    /\ hook' = [hook EXCEPT !.at = @ - 1] /\ Logs("close")
UnwindEnds ==
    /\ hook.stage = "unwind" /\ hook.at = 0
    /\ hook' = [hook EXCEPT !.stage = "ended"] /\ UNCHANGED hookLog
BeforeEnds ==
    /\ hook.stage = "before" /\ hook.at > PluginCount
    /\ hook' = [hook EXCEPT !.stage = "intercept", !.at = 1] /\ UNCHANGED hookLog

\* _intercept_before: one that answers early stops the chain
InterceptRuns ==
    /\ hook.stage = "intercept" /\ hook.at <= Interceptors
    /\ \E early \in BOOLEAN :
         hook' = [hook EXCEPT !.executed = hook.at, !.early = early,
                              !.stage = IF early THEN "interceptAfter" ELSE @,
                              !.at = IF early THEN @ ELSE @ + 1]
    /\ Logs("intercept")
InterceptEnds ==
    /\ hook.stage = "intercept" /\ hook.at > Interceptors
    /\ hook' = [hook EXCEPT !.stage = "work"] /\ UNCHANGED hookLog
\* the handler or the transport gives its result or the next event of its stream
WorkGives ==
    /\ hook.stage = "work" /\ (hook.kind = "stream" => hook.events < StreamEvents)
    /\ hook' = [hook EXCEPT !.stage = "interceptAfter", !.at = Interceptors, !.events = @ + 1]
    /\ UNCHANGED hookLog
\* _intercept_after: last first, until one answers early
InterceptAfterRuns ==
    /\ hook.stage = "interceptAfter" /\ hook.at > 0
    /\ \E stop \in BOOLEAN : hook' = [hook EXCEPT !.at = IF stop THEN 0 ELSE @ - 1]
    /\ Logs("interceptAfter")
InterceptAfterEnds ==
    /\ hook.stage = "interceptAfter" /\ hook.at = 0
    /\ hook' = [hook EXCEPT !.stage = IF hook.kind = "unary" THEN "final" ELSE "event",
                            !.at = PluginCount]
    /\ UNCHANGED hookLog
\* a stream's event passes the after hooks with is_final False, then is yielded
EventHookRuns ==
    /\ hook.stage = "event" /\ hook.at > 0
    /\ hook' = [hook EXCEPT !.at = @ - 1] /\ Logs("event")
EventYielded ==
    /\ hook.stage = "event" /\ hook.at = 0
    /\ hook' = [hook EXCEPT !.stage = IF hook.early THEN "final" ELSE "work",
                            !.at = IF hook.early THEN PluginCount ELSE @]
    /\ UNCHANGED hookLog
StreamCloses ==
    /\ hook.stage = "work" /\ hook.kind = "stream"
    /\ hook' = [hook EXCEPT !.stage = "final", !.at = PluginCount] /\ UNCHANGED hookLog
Inside == {"intercept", "work", "interceptAfter"}
\* bug variant: the after hooks of a failed call are not run
InsideRaisesOut ==
    /\ hook.stage \in Inside
    /\ hook.stage = "intercept" => hook.at <= Interceptors
    /\ hook.stage = "interceptAfter" => hook.at > 0
    /\ hook' = [hook EXCEPT !.stage = "ended", !.error = TRUE]
    /\ UNCHANGED hookLog
InsideRaises ==
    /\ hook.stage \in Inside
    /\ hook.stage = "intercept" => hook.at <= Interceptors
    /\ hook.stage = "interceptAfter" => hook.at > 0
    /\ hook' = [hook EXCEPT !.stage = "final", !.at = PluginCount, !.error = TRUE]
    /\ UNCHANGED hookLog

FinalRuns ==
    /\ hook.stage = "final" /\ hook.at > 0
    /\ hook' = [hook EXCEPT !.at = @ - 1] /\ Logs("close")
FinalEnds ==
    /\ hook.stage = "final" /\ hook.at = 0
    /\ hook' = [hook EXCEPT !.stage = "ended"] /\ UNCHANGED hookLog
\* CancelledError and GeneratorExit are no Exception: only a stream's finally runs
HookCancelled ==
    /\ hook.stage # "ended"
    /\ hook' = IF hook.kind = "stream" /\ hook.stage \in Inside \cup {"event"}
               THEN [hook EXCEPT !.stage = "final", !.at = PluginCount]
               ELSE [hook EXCEPT !.stage = "ended", !.cut = TRUE]
    /\ UNCHANGED hookLog

HookNext == \/ BeforeRuns \/ BeforeRaises \/ UnwindRuns \/ UnwindEnds \/ BeforeEnds
            \/ InterceptRuns \/ InterceptEnds \/ WorkGives \/ InterceptAfterRuns
            \/ InterceptAfterEnds \/ EventHookRuns \/ EventYielded \/ StreamCloses
            \/ InsideRaises \/ FinalRuns \/ FinalEnds \/ HookCancelled

Where(what) == {i \in DOMAIN hookLog : hookLog[i][1] = what}
(* Plugins nest: a plugin's last hook follows that of every plugin opened   *)
(* after it, none is closed twice or unopened, none runs once it is closed, *)
(* and when the call ends every opened plugin has been closed, unless the   *)
(* call was cancelled in a unary handler or in a hook.  An interceptor's    *)
(* after hook runs only where its before hook ran.                          *)
HooksPaired ==
    /\ \A i, j \in Where("close") : i < j => hookLog[i][2] > hookLog[j][2]
    /\ \A i \in Where("close") : \E j \in Where("open") : j < i /\ hookLog[j][2] = hookLog[i][2]
    /\ \A i \in Where("event"), j \in Where("close") : i < j
    /\ \A i \in Where("interceptAfter") :
         \E j \in Where("intercept") : j < i /\ hookLog[j][2] = hookLog[i][2]
    /\ hook.stage = "ended" /\ ~hook.cut =>
         \A i \in Where("open") : \E j \in Where("close") : hookLog[j][2] = hookLog[i][2]
=============================================================================
