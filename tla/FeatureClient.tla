--------------------------- MODULE FeatureClient ---------------------------
(***************************************************************************)
(* The host side of one isolated-feature child: IsolatedFeatureClient of   *)
(* kestrel_sdk/isolated_feature/client.py.                                 *)
(*                                                                         *)
(* One asyncio loop runs the read loop, the private close task and any     *)
(* number of callers.  A step below is the code between two suspension     *)
(* points.  The child is not modelled here: it may close either pipe and   *)
(* write any line at any moment (late, duplicate, unsolicited, malformed   *)
(* or overlong).  FeatureRpc replaces it with the real service.            *)
(***************************************************************************)
EXTENDS FeatureWire, FiniteSets

CONSTANTS Callers,      \* tasks that call the public API
          NoCaller,     \* the lifecycle lock is free
          Ops,          \* the public methods they use
          MaxRequests,  \* bound on _next_id
          MaxBacklog    \* bound on unread lines of an arbitrary child

ASSUME ClientConstants ==
    /\ NoCaller \notin Callers
    /\ Ops \subseteq Methods
    /\ MaxRequests \in Nat /\ MaxBacklog \in Nat

VARIABLES ready,            \* self.ready
          shutdownStarted,  \* self._shutdown_started
          restartRequired,  \* self._restart_required
          caps,             \* self.capabilities, as the capability properties read it
          nextId,           \* self._next_id
          pending,          \* ids that are keys of self._pending
          closedExc,        \* class of self._closed_exc
          readTask,         \* self._read_task
          readCancel,       \* close() has cancelled the read task
          overtaken,        \* the read task was created behind the queued close task
          closeTask,        \* progress of self._close_task
          closeJoins,       \* _close_owned found a read task to join
          lifecycleLock,    \* owner of self._lifecycle_lock
          hostConfig,       \* the wrapper's self.config, for its next start()
          pc, op, arg,      \* per caller: where it is, which method, which config
          rid, reply        \* per caller: its request id, what its future holds

flagVars == <<ready, shutdownStarted, restartRequired, caps, hostConfig>>
streamVars == <<closedExc, readTask, readCancel, overtaken, closeTask, closeJoins>>
callVars == <<pc, op, arg, rid, reply>>
clientVars == <<flagVars, streamVars, callVars, nextId, pending, lifecycleLock>>
vars == <<wireVars, clientVars>>

LifecycleOps == {"transition", "shutdown"}
PlainOps == {"list", "call", "ingress", "shutdown"}

(***************************************************************************)
(* What a caller's await can end with: a response of the child, one of the *)
(* three terminal classes, or its own cancellation.                        *)
(***************************************************************************)
TerminalKinds == {"eof", "protocol", "connection"}
Outcome(kind, value, c) == [kind |-> kind, value |-> value, caps |-> c]
Failure(kind) == Outcome(kind, "malformed", NoCaps)
NoReply == Failure("none")
Outcomes == [kind : {"none", "result", "error", "cancelled"} \cup TerminalKinds,
             value : Values, caps : Caps]

TypeOK ==
    /\ WireTypeOK
    /\ ready \in BOOLEAN
    /\ shutdownStarted \in BOOLEAN
    /\ restartRequired \in BOOLEAN
    /\ caps \in Caps
    /\ nextId \in Nat
    /\ pending \subseteq 1..nextId
    /\ closedExc \in {"none"} \cup TerminalKinds
    /\ readTask \in {"none", "running", "done"}
    /\ readCancel \in BOOLEAN
    /\ overtaken \in BOOLEAN
    /\ closeTask \in {"none", "created", "joining", "writer", "done"}
    /\ closeJoins \in BOOLEAN
    /\ lifecycleLock \in Callers \cup {NoCaller}
    /\ hostConfig \in Configs
    /\ pc \in [Callers -> {"idle", "lock", "drain", "wait"}]
    /\ op \in [Callers -> Methods]
    /\ arg \in [Callers -> Configs \cup {NoConfig}]
    /\ rid \in [Callers -> Nat]
    /\ reply \in [Callers -> Outcomes]

InCall(c) == pc[c] \in {"drain", "wait"}

ClientInit ==
    /\ ready = FALSE
    /\ shutdownStarted = FALSE
    /\ restartRequired = FALSE
    /\ caps = NoCaps
    /\ nextId = 0
    /\ pending = {}
    /\ closedExc = "none"
    /\ readTask = "none"
    /\ readCancel = FALSE
    /\ overtaken = FALSE
    /\ closeTask = "none"
    /\ closeJoins = FALSE
    /\ lifecycleLock = NoCaller
    /\ hostConfig \in Configs
    /\ pc = [c \in Callers |-> "idle"]
    /\ op = [c \in Callers |-> "health"]
    /\ arg = [c \in Callers |-> NoConfig]
    /\ rid = [c \in Callers |-> 0]
    /\ reply = [c \in Callers |-> NoReply]

-----------------------------------------------------------------------------
(***************************************************************************)
(* request(): start the reader if there is none, refuse a dead stream,     *)
(* register a future under a fresh id and write the frame.  None of this   *)
(* suspends; a write to a broken pipe is silently dropped by the           *)
(* transport.  The caller is left in writer.drain().  The loop runs new    *)
(* tasks in the order of their creation: a read task created while the     *)
(* close task has not run yet is cancelled before its first step.          *)
(***************************************************************************)

StreamDead == closedExc # "none"

Issue(c, m, config) ==
    /\ m \in Ops
    /\ ~StreamDead
    /\ nextId < MaxRequests
    /\ nextId' = nextId + 1
    /\ pending' = pending \cup {nextId + 1}
    /\ toChild' = IF inOpen THEN Append(toChild, Request(nextId + 1, m, config))
                            ELSE toChild
    /\ readTask' = IF readTask = "none" THEN "running" ELSE readTask
    /\ overtaken' = (overtaken \/ (readTask = "none" /\ closeTask = "created"))
    /\ pc' = [pc EXCEPT ![c] = "drain"]
    /\ op' = [op EXCEPT ![c] = m]
    /\ arg' = [arg EXCEPT ![c] = config]
    /\ rid' = [rid EXCEPT ![c] = nextId + 1]
    /\ UNCHANGED <<reply, fromChild, inOpen, outOpen, closedExc, readCancel,
                   closeTask, closeJoins>>

\* The wrapper's _start() sends it once, before any other request.
Initialize(c) ==
    /\ pc[c] = "idle"
    /\ nextId = 0
    /\ Issue(c, "initialize", hostConfig)
    /\ UNCHANGED <<flagVars, lifecycleLock>>

\* health() answers locally for a fenced client and clears ready on the way.
Health(c) ==
    /\ pc[c] = "idle"
    /\ \/ /\ ~restartRequired
          /\ Issue(c, "health", NoConfig)
          /\ UNCHANGED <<flagVars, lifecycleLock>>
       \/ /\ restartRequired
          /\ ready' = FALSE
          /\ UNCHANGED <<wireVars, shutdownStarted, restartRequired, caps,
                         hostConfig, streamVars, callVars, nextId, pending,
                         lifecycleLock>>

\* list_tools() and call_tool() share their guards.
UseTools(c, m) ==
    /\ pc[c] = "idle"
    /\ m \in {"list", "call"}
    /\ ~restartRequired
    /\ ready
    /\ Issue(c, m, NoConfig)
    /\ UNCHANGED <<flagVars, lifecycleLock>>

\* Variant: ingress is still sent after shutdown() has begun.
IngressAfterShutdown(c) ==
    /\ pc[c] = "idle"
    /\ ~restartRequired
    /\ caps.ingress
    /\ Issue(c, "ingress", NoConfig)
    /\ UNCHANGED <<flagVars, lifecycleLock>>

CallHostIngress(c) ==
    /\ pc[c] = "idle"
    /\ ~shutdownStarted
    /\ ~restartRequired
    /\ caps.ingress
    /\ Issue(c, "ingress", NoConfig)
    /\ UNCHANGED <<flagVars, lifecycleLock>>

-----------------------------------------------------------------------------
(***************************************************************************)
(* prepare_config_transition() and shutdown() first queue for the          *)
(* lifecycle lock; every guard but the first capability test is evaluated  *)
(* once the lock is held.                                                  *)
(***************************************************************************)
RequestLifecycle(c, m, config) ==
    /\ pc[c] = "idle"
    /\ m \in Ops
    /\ m = "transition" => config \in Configs /\ caps.transition # "no"
    /\ m = "shutdown" => config = NoConfig
    /\ pc' = [pc EXCEPT ![c] = "lock"]
    /\ op' = [op EXCEPT ![c] = m]
    /\ arg' = [arg EXCEPT ![c] = config]
    /\ UNCHANGED <<wireVars, flagVars, streamVars, rid, reply, nextId, pending,
                   lifecycleLock>>

LeaveLock(c) ==
    /\ pc' = [pc EXCEPT ![c] = "idle"]
    /\ op' = [op EXCEPT ![c] = "health"]
    /\ arg' = [arg EXCEPT ![c] = NoConfig]
    /\ UNCHANGED <<rid, reply>>

AcquireTransition(c) ==
    /\ pc[c] = "lock" /\ op[c] = "transition"
    /\ lifecycleLock = NoCaller
    /\ ~shutdownStarted
    /\ ~restartRequired
    /\ caps.transition # "no"
    /\ Issue(c, "transition", arg[c])
    /\ lifecycleLock' = c
    /\ UNCHANGED flagVars

\* Variant: a later transition on a fenced, dead client overwrites the config.
AcquireTransitionOverwrites(c) ==
    /\ pc[c] = "lock" /\ op[c] = "transition"
    /\ lifecycleLock = NoCaller
    /\ StreamDead
    /\ restartRequired' = TRUE
    /\ ready' = FALSE
    /\ hostConfig' = arg[c]
    /\ LeaveLock(c)
    /\ UNCHANGED <<wireVars, shutdownStarted, caps, streamVars, nextId, pending,
                   lifecycleLock>>

\* The stream was dead already: request() raises the terminal error at once,
\* and anything but a plain remote error fences the client.
AcquireTransitionDead(c) ==
    /\ pc[c] = "lock" /\ op[c] = "transition"
    /\ lifecycleLock = NoCaller
    /\ ~shutdownStarted
    /\ ~restartRequired
    /\ caps.transition # "no"
    /\ StreamDead
    /\ restartRequired' = TRUE
    /\ ready' = FALSE
    /\ hostConfig' = arg[c]
    /\ LeaveLock(c)
    /\ UNCHANGED <<wireVars, shutdownStarted, caps, streamVars, nextId, pending,
                   lifecycleLock>>

AcquireShutdown(c) ==
    /\ pc[c] = "lock" /\ op[c] = "shutdown"
    /\ lifecycleLock = NoCaller
    /\ ~shutdownStarted
    /\ shutdownStarted' = TRUE
    /\ \/ Issue(c, "shutdown", NoConfig) /\ lifecycleLock' = c
       \/ /\ StreamDead
          /\ LeaveLock(c)
          /\ UNCHANGED <<wireVars, streamVars, nextId, pending, lifecycleLock>>
    /\ UNCHANGED <<ready, restartRequired, caps, hostConfig>>

\* A guard evaluated under the lock refuses; nothing was written.
RefuseLifecycle(c) ==
    /\ pc[c] = "lock"
    /\ lifecycleLock = NoCaller
    /\ \/ shutdownStarted
       \/ op[c] = "transition" /\ (restartRequired \/ caps.transition = "no")
    /\ LeaveLock(c)
    /\ UNCHANGED <<wireVars, flagVars, streamVars, nextId, pending, lifecycleLock>>

\* The caller is cancelled while it queues for the lock; nothing was written.
CancelQueued(c) ==
    /\ pc[c] = "lock"
    /\ LeaveLock(c)
    /\ UNCHANGED <<wireVars, flagVars, streamVars, nextId, pending, lifecycleLock>>

-----------------------------------------------------------------------------
DrainDone(c) ==
    /\ pc[c] = "drain"
    /\ pc' = [pc EXCEPT ![c] = "wait"]
    /\ UNCHANGED <<wireVars, flagVars, streamVars, op, arg, rid, reply, nextId,
                   pending, lifecycleLock>>

(***************************************************************************)
(* The ways the await of request() can end in this state: drain() raises   *)
(* on a broken pipe, the future has settled, or the caller is cancelled    *)
(* (also between the future's completion and the caller's next step).      *)
(***************************************************************************)
Ends(c) ==
    (IF pc[c] = "drain" /\ ~inOpen THEN {Failure("connection")} ELSE {})
    \cup (IF pc[c] = "wait" /\ reply[c].kind # "none" THEN {reply[c]} ELSE {})
    \cup (IF InCall(c) THEN {Failure("cancelled")} ELSE {})

\* Variant: the finally block leaves the future registered.
SettleKeepsFuture(c) ==
    /\ lifecycleLock' = IF lifecycleLock = c THEN NoCaller ELSE lifecycleLock
    /\ pc' = [pc EXCEPT ![c] = "idle"]
    /\ op' = [op EXCEPT ![c] = "health"]
    /\ arg' = [arg EXCEPT ![c] = NoConfig]
    /\ rid' = [rid EXCEPT ![c] = 0]
    /\ reply' = [reply EXCEPT ![c] = NoReply]
    /\ UNCHANGED <<wireVars, streamVars, nextId, pending>>

\* The finally block of request() and the release of the lifecycle lock.
Settle(c) ==
    /\ pending' = pending \ {rid[c]}
    /\ lifecycleLock' = IF lifecycleLock = c THEN NoCaller ELSE lifecycleLock
    /\ pc' = [pc EXCEPT ![c] = "idle"]
    /\ op' = [op EXCEPT ![c] = "health"]
    /\ arg' = [arg EXCEPT ![c] = NoConfig]
    /\ rid' = [rid EXCEPT ![c] = 0]
    /\ reply' = [reply EXCEPT ![c] = NoReply]
    /\ UNCHANGED <<wireVars, streamVars, nextId>>

EndInitialize(c) ==
    /\ op[c] = "initialize"
    /\ \E o \in Ends(c) :
          caps' = IF o.kind = "result" /\ o.value # "malformed" THEN o.caps ELSE caps
    /\ Settle(c)
    /\ UNCHANGED <<ready, shutdownStarted, restartRequired, hostConfig>>

\* Variant: the fence is tested before the RPC only.
EndHealthRevives(c) ==
    /\ op[c] = "health"
    /\ \E o \in Ends(c) :
          ready' = IF o.kind = "result" /\ o.value # "malformed"
                   THEN o.value = "ready" ELSE ready
    /\ Settle(c)
    /\ UNCHANGED <<shutdownStarted, restartRequired, caps, hostConfig>>

\* A reply that arrives after a fence must not revive readiness.
EndHealth(c) ==
    /\ op[c] = "health"
    /\ \E o \in Ends(c) :
          ready' = IF o.kind = "result" /\ o.value # "malformed"
                   THEN ~restartRequired /\ o.value = "ready"
                   ELSE ready
    /\ Settle(c)
    /\ UNCHANGED <<shutdownStarted, restartRequired, caps, hostConfig>>

EndPlain(c) ==
    /\ op[c] \in PlainOps
    /\ Ends(c) # {}
    /\ Settle(c)
    /\ UNCHANGED flagVars

(***************************************************************************)
(* The end of a transition.  Applied: an advertised live apply.  Rejected: *)
(* a remote JSON-RPC error on a stream that still works.  Everything else  *)
(* leaves the child's effective state unknown or retired and fences.  The  *)
(* wrapper keeps the requested config unless the transition was rejected.  *)
(***************************************************************************)
Applied(o) == o.kind = "result" /\ o.value = "applied" /\ caps.transition = "live"

\* Variant: a cancelled wait is taken for a refusal.
RejectedIfCancelled(o) == o.kind \in {"error", "cancelled"} /\ ~StreamDead

Rejected(o) == o.kind = "error" /\ ~StreamDead

EndTransition(c) ==
    /\ op[c] = "transition"
    /\ \E o \in Ends(c) :
          LET fence == ~Applied(o) /\ ~Rejected(o)
          IN  /\ restartRequired' = (restartRequired \/ fence)
              /\ ready' = (ready /\ ~fence)
              /\ hostConfig' = IF Rejected(o) THEN hostConfig ELSE arg[c]
    /\ Settle(c)
    /\ UNCHANGED <<shutdownStarted, caps>>

-----------------------------------------------------------------------------
\* _read_loop(): a response settles the future registered under its id.
Reading == readTask = "running" /\ ~readCancel /\ ~overtaken

Line == Head(fromChild)

Hit(c) == InCall(c) /\ rid[c] = Line.id

ReadResponse ==
    /\ Reading
    /\ fromChild # <<>> /\ Line.kind \in {"result", "error"}
    /\ fromChild' = Tail(fromChild)
    /\ pending' = pending \ {Line.id}
    /\ reply' = [c \in Callers |->
                    IF Line.id \in pending /\ Hit(c)
                    THEN Outcome(Line.kind, Line.value, Line.caps)
                    ELSE reply[c]]
    /\ UNCHANGED <<toChild, inOpen, outOpen, flagVars, streamVars, pc, op, arg,
                   rid, nextId, lifecycleLock>>

\* Variant: the futures are forgotten without being failed.
TerminateSilently(kind) ==
    /\ closedExc' = kind
    /\ readTask' = "done"
    /\ pending' = {}
    /\ UNCHANGED <<toChild, inOpen, outOpen, flagVars, readCancel, overtaken, closeTask,
                   closeJoins, callVars, nextId, lifecycleLock>>

\* The finally block of _read_loop: latch the class, fail every future, forget them.
Terminate(kind) ==
    /\ closedExc' = kind
    /\ readTask' = "done"
    /\ reply' = [c \in Callers |->
                    IF InCall(c) /\ rid[c] \in pending THEN Failure(kind) ELSE reply[c]]
    /\ pending' = {}
    /\ UNCHANGED <<toChild, inOpen, outOpen, flagVars, readCancel, overtaken, closeTask,
                   closeJoins, pc, op, arg, rid, nextId, lifecycleLock>>

\* decode_message() refuses the line, or readline() refuses its length.
ReadJunk ==
    /\ Reading
    /\ fromChild # <<>> /\ Line.kind \in {"bad", "overlong"}
    /\ Terminate(IF Line.kind = "bad" THEN "protocol" ELSE "connection")
    /\ fromChild' = Tail(fromChild)

ReadEof ==
    /\ Reading
    /\ fromChild = <<>> /\ ~outOpen
    /\ Terminate("eof")
    /\ UNCHANGED fromChild

ReadCancelled ==
    /\ readTask = "running" /\ readCancel /\ ~overtaken
    /\ Terminate("connection")
    /\ UNCHANGED fromChild

\* A task that is cancelled before its first step ends without entering its body: the
\* finally block does not run, no class is latched and no future is failed.
ReadSkipped ==
    /\ readTask = "running" /\ readCancel /\ overtaken
    /\ readTask' = "done"
    /\ UNCHANGED <<wireVars, flagVars, closedExc, readCancel, overtaken, closeTask,
                   closeJoins, callVars, nextId, pending, lifecycleLock>>

-----------------------------------------------------------------------------
\* close(): any number of callers share one private close task.
Close ==
    /\ shutdownStarted' = TRUE
    /\ closeTask' = IF closeTask = "none" THEN "created" ELSE closeTask
    /\ UNCHANGED <<wireVars, ready, restartRequired, caps, hostConfig, closedExc,
                   readTask, readCancel, overtaken, closeJoins, callVars, nextId, pending,
                   lifecycleLock>>

\* Variant: only the writer is closed before the read task is joined.
CloseWriterOnly ==
    /\ closeTask = "created"
    /\ closeTask' = "joining"
    /\ closeJoins' = (readTask # "none")
    /\ inOpen' = FALSE
    /\ UNCHANGED <<toChild, fromChild, outOpen, flagVars, closedExc, readTask, readCancel,
                   overtaken, callVars, nextId, pending, lifecycleLock>>

\* _close_owned(): cancel the read task, then close both streams at once and
\* drop what was buffered for the reader.
CloseStreams ==
    /\ closeTask = "created"
    /\ closeTask' = "joining"
    /\ readCancel' = (readTask = "running")
    /\ closeJoins' = (readTask # "none")
    /\ inOpen' = FALSE /\ outOpen' = FALSE
    /\ fromChild' = <<>>
    /\ UNCHANGED <<toChild, flagVars, closedExc, readTask, overtaken, callVars,
                   nextId, pending, lifecycleLock>>

CloseJoined ==
    /\ closeTask = "joining"
    /\ closeJoins => readTask = "done"
    /\ closeTask' = "writer"
    /\ UNCHANGED <<wireVars, flagVars, closedExc, readTask, readCancel, overtaken, closeJoins,
                   callVars, nextId, pending, lifecycleLock>>

\* wait_closed() returned: forget the joined read task, latch the closed class.
CloseDone ==
    /\ closeTask = "writer"
    /\ closeTask' = "done"
    /\ closedExc' = "connection"
    /\ readTask' = IF closeJoins THEN "none" ELSE readTask
    /\ UNCHANGED <<wireVars, flagVars, readCancel, overtaken, closeJoins, callVars, nextId,
                   pending, lifecycleLock>>

-----------------------------------------------------------------------------
CallerNext(c) ==
    \/ Initialize(c) \/ Health(c) \/ CallHostIngress(c)
    \/ \E m \in {"list", "call"} : UseTools(c, m)
    \/ \E m \in LifecycleOps, config \in Configs \cup {NoConfig} :
          RequestLifecycle(c, m, config)
    \/ AcquireTransition(c) \/ AcquireTransitionDead(c) \/ AcquireShutdown(c)
    \/ RefuseLifecycle(c) \/ CancelQueued(c) \/ DrainDone(c)
    \/ EndInitialize(c) \/ EndHealth(c) \/ EndPlain(c) \/ EndTransition(c)

ReaderNext == ReadResponse \/ ReadJunk \/ ReadEof \/ ReadCancelled \/ ReadSkipped

CloserNext == Close \/ CloseStreams \/ CloseJoined \/ CloseDone

ClientNext == (\E c \in Callers : CallerNext(c)) \/ ReaderNext \/ CloserNext

(***************************************************************************)
(* An arbitrary child (external).  It answers any id the host has issued   *)
(* and may do so repeatedly.                                               *)
(***************************************************************************)
ChildWrites(line) ==
    /\ outOpen
    /\ Len(fromChild) < MaxBacklog
    /\ fromChild' = Append(fromChild, line)
    /\ UNCHANGED <<toChild, inOpen, outOpen, clientVars>>

ChildClosesStdin ==
    /\ inOpen
    /\ inOpen' = FALSE
    /\ UNCHANGED <<toChild, fromChild, outOpen, clientVars>>

ChildClosesStdout ==
    /\ outOpen
    /\ outOpen' = FALSE
    /\ UNCHANGED <<toChild, fromChild, inOpen, clientVars>>

\* What the child may answer to a request: every class that ends it differently.
Answers(id, m) ==
    {Error(id)} \cup
    CASE m = "initialize" -> {Result(id, "value", k) : k \in ChildCaps}
      [] m = "health" -> {Result(id, v, NoCaps) : v \in HealthValues}
      [] m = "transition" -> {Result(id, v, NoCaps) :
                                 v \in TransitionValues \cup {"malformed"}}
      [] OTHER -> {Result(id, "value", NoCaps)}

ChildNext ==
    \/ \E c \in Callers : InCall(c) /\ \E line \in Answers(rid[c], op[c]) :
                                           ChildWrites(line)
    \/ \E id \in 1..nextId : ChildWrites(Error(id))   \* late or repeated
    \/ \E kind \in {"bad", "overlong"} : ChildWrites(Junk(kind))
    \/ ChildClosesStdin \/ ChildClosesStdout

Init == WireInit /\ ClientInit

Next == ClientNext \/ ChildNext

Spec == Init /\ [][Next]_vars

(***************************************************************************)
(* Fairness.  The event loop runs every task that is ready: the read loop  *)
(* when a line or EOF is there, the close task, a caller whose future has  *)
(* settled, whose pipe is broken, or whose turn at the lock has come.      *)
(* Nothing makes a caller call, a child write, or a cancellation happen,   *)
(* and writer.wait_closed() may never return.                              *)
(***************************************************************************)
Wake(c) ==
    /\ pc[c] = "wait" /\ reply[c].kind # "none"
    /\ EndInitialize(c) \/ EndHealth(c) \/ EndPlain(c) \/ EndTransition(c)

TakeLock(c) ==
    \/ AcquireTransition(c) \/ AcquireTransitionDead(c) \/ AcquireShutdown(c)
    \/ RefuseLifecycle(c)

ClientFairness ==
    /\ WF_vars(ReaderNext)
    /\ WF_vars(CloseStreams \/ CloseJoined)
    /\ \A c \in Callers :
          /\ WF_vars(Wake(c))
          /\ WF_vars(~inOpen /\ DrainDone(c))
          /\ WF_vars(TakeLock(c))

FairSpec == Spec /\ ClientFairness

-----------------------------------------------------------------------------
(***************************************************************************)
(* Every future a caller awaits and the child has not answered is in       *)
(* _pending, and nothing else is: no waiter is forgotten, and a late reply *)
(* for a cancelled call finds nothing to settle.                           *)
(***************************************************************************)
Unanswered == {c \in Callers : InCall(c) /\ reply[c].kind = "none"}

PendingExact == pending = {rid[c] : c \in Unanswered}

\* A registered future has a live read loop that can still settle it, unless close() was
\* already queued when the client's first request created that loop.
PendingHasReader == pending # {} => readTask = "running" \/ overtaken

\* Only a close() that came before the first request overtakes it.  No capability of the child
\* is known then and none becomes known, so that only health and initialize can hang.
OvertakenIsFirst ==
    overtaken =>
        /\ closeTask # "none" /\ shutdownStarted
        /\ caps = NoCaps /\ ~ready
        /\ \A c \in Callers :
              InCall(c) => op[c] \in {"initialize", "health"} /\ reply[c].kind = "none"

\* The request table is well-formed, exact, and has a reader; a first request overtaken by
\* close() is the one exception, and not one of a tool call, an ingress or a transition.
PendingSound == TypeOK /\ PendingExact /\ PendingHasReader /\ OvertakenIsFirst

\* A fenced client is never ready, whatever health replies are still to come.
FencedNotReady == restartRequired => ~ready

\* At most one transition or shutdown RPC is in flight, its caller holds the lock.
OneLifecycleRpc ==
    \A c \in Callers :
        (lifecycleLock = c) <=> (InCall(c) /\ op[c] \in LifecycleOps)

(***************************************************************************)
(* On the wire nothing that starts work of the old configuration follows a *)
(* shutdown frame: no transition, no ingress, no second shutdown.          *)
(***************************************************************************)
WireOrder ==
    \A i, j \in 1..Len(toChild) :
        i < j /\ toChild[i].method = "shutdown" =>
            toChild[j].method \notin {"transition", "ingress", "shutdown"}

\* Lifecycle RPCs are serialized, and a shutdown is the last of them.
LifecycleOrder == OneLifecycleRpc /\ WireOrder

(***************************************************************************)
(* The inductive invariant behind the properties above: they hold together *)
(* with what each action relies on about the calls, the reader and the     *)
(* frames already written.                                                 *)
(***************************************************************************)
TransitionHasConfig == \A c \in Callers : op[c] = "transition" => arg[c] \in Configs

\* A transition is awaited only by a client that is not fenced yet.
AwaitedUnfenced ==
    \A c \in Callers : InCall(c) /\ op[c] = "transition" => ~restartRequired

OwnIds ==
    /\ \A c \in Callers : InCall(c) => rid[c] \in 1..nextId
    /\ \A c, d \in Callers : InCall(c) /\ InCall(d) /\ rid[c] = rid[d] => c = d

NoStaleReply == \A c \in Callers : ~InCall(c) => reply[c].kind = "none"

ReaderLatch ==
    /\ readTask = "done" => StreamDead \/ overtaken
    /\ closeJoins /\ closeTask = "writer" => readTask = "done"

\* Before its first request a client knows nothing of its child.
Untouched ==
    readTask = "none" /\ closeTask # "done" =>
        caps = NoCaps /\ ~ready /\ ~overtaken /\ \A c \in Callers : ~InCall(c)

CloseIsLatched == closeTask # "none" => shutdownStarted

ShutdownIsLatched ==
    \A i \in 1..Len(toChild) : toChild[i].method = "shutdown" => shutdownStarted

ClientInv ==
    /\ TypeOK
    /\ TransitionHasConfig
    /\ AwaitedUnfenced
    /\ OwnIds
    /\ NoStaleReply
    /\ ReaderLatch
    /\ PendingExact
    /\ PendingHasReader
    /\ Untouched
    /\ CloseIsLatched
    /\ OvertakenIsFirst
    /\ FencedNotReady
    /\ OneLifecycleRpc
    /\ ShutdownIsLatched
    /\ WireOrder

(***************************************************************************)
(* Once a transition has fenced the client, the config its replacement is  *)
(* started with stays the one of that transition: a transition that was    *)
(* queued behind it cannot overwrite it, and no reply clears the fence.    *)
(***************************************************************************)
FenceIsFinal == [][restartRequired => restartRequired' /\ hostConfig' = hostConfig]_vars

(***************************************************************************)
(* When both pipes of the child are gone every caller gets out of the      *)
(* client: from the lock queue, from drain() or from its future, whether   *)
(* or not close() was called and its wait for the writer ends.  The one    *)
(* exception is a first request that a queued close() has overtaken.       *)
(***************************************************************************)
DeadChildReleases ==
    \A c \in Callers :
        (~inOpen /\ ~outOpen /\ pc[c] # "idle")
            ~> (pc[c] = "idle" \/ (overtaken /\ pc[c] = "wait"))

\* close() releases both streams and joins the read task, whatever the child and the other
\* callers do: only the writer's own wait_closed() can keep it from ending.
CloseReleasesStreams ==
    (closeTask # "none") ~> (closeTask \in {"writer", "done"} /\ ~inOpen /\ ~outOpen)
=============================================================================
