---------------------------- MODULE HumanControl ----------------------------
(* Human control of a computer session.  The host admits a human's input    *)
(* with the checks of computer_use/human_control.py on its own snapshots of *)
(* the session, the lease and the last frame, which may be stale; the       *)
(* driver (external) applies it later, after comparing its own lease and    *)
(* epoch and the deadline.  Opening races revocation: the driver fences a   *)
(* control id it has accepted no lease for.                                 *)
EXTENDS Naturals, FiniteSets

CONSTANTS ControlIds, Consumers, Clicks,
          FrameWidth,       \* clicks from FrameWidth on are off the screen
          FrameAges,        \* max_frame_age_seconds a request may ask for
          SessionExpiry,
          LeaseExpiries,    \* expires_at a request may ask for
          MaxEpoch,         \* bound: takeovers and resumptions
          MaxControlTime    \* bound: the clock

ASSUME ControlConstants ==
    /\ Clicks \subseteq Nat /\ FrameWidth \in Nat /\ FrameAges \subseteq Nat
    /\ SessionExpiry \in Nat /\ LeaseExpiries \subseteq Nat
    /\ MaxEpoch \in Nat /\ MaxControlTime \in Nat

VARIABLES ctlNow,
          ctlSession,       \* the driver's session: epoch, state and controller
          ctlLeases,        \* the driver's installed leases
          ctlFences,        \* control ids fenced before any lease
          ctlHost,          \* the host's snapshots: session, lease, frame
          ctlSent,          \* an admitted input on its way to the driver
          ctlEffect         \* the input the last step applied, with what it was admitted under
controlVars == <<ctlNow, ctlSession, ctlLeases, ctlFences, ctlHost, ctlSent, ctlEffect>>

Nothing == [control |-> "none"]
MinOf(a, b) == IF a <= b THEN a ELSE b

(* ---- records and their checks ---- *)
ValidSession(x) == /\ (x.state = "ready") = (x.controller = "agent")
                   /\ x.controller = "human" => x.state = "paused"
BoundedRequest(q) == /\ q.issued_at < q.expires_at
                     /\ q.max_frame_age <= q.expires_at - q.issued_at
                     /\ "screenshot" \in q.capabilities
RequireSession(q, session, at) ==
    /\ q.epoch = session.epoch
    /\ session.state = "paused" /\ session.controller = "human"
    /\ "takeover" \in session.capabilities /\ q.capabilities \subseteq session.capabilities
    /\ q.issued_at <= at /\ at < q.expires_at /\ q.expires_at <= SessionExpiry
CorrelatedAcceptance(l) ==
    /\ l.request.issued_at <= l.accepted_at /\ l.accepted_at < l.request.expires_at
RequireActive(l, session, at) ==
    RequireSession(l.request, session, at) /\ l.state = "active" /\ l.accepted_at <= at
FrameOfLease(f, l, session, at) ==
    /\ RequireActive(l, session, at)
    /\ f.control = l.request.control /\ f.consumer = l.request.consumer
    /\ f.epoch = l.request.epoch
    /\ l.accepted_at <= f.observed_at /\ f.observed_at <= at
    /\ at - f.observed_at < l.request.max_frame_age
\* bug variant: the deadline is bounded by the lease alone
DeadlineInLease(a, l, f, at) == at < a.not_after /\ a.not_after <= l.request.expires_at
DeadlineBounded(a, l, f, at) ==
    /\ at < a.not_after /\ a.not_after <= MinOf(l.request.expires_at, SessionExpiry)
    /\ a.not_after - f.observed_at <= l.request.max_frame_age
ActionOfLease(a, l, session, f, at) ==
    /\ FrameOfLease(f, l, session, at)
    /\ a.control = l.request.control /\ a.consumer = l.request.consumer
    /\ a.epoch = l.request.epoch /\ a.observed_at = f.observed_at
    /\ "click" \in l.request.capabilities
    /\ DeadlineBounded(a, l, f, at)
    /\ a.x < FrameWidth
\* a retirement names the original binding, after its expiry or a new epoch too
RequireTarget(rv, l) == /\ rv.control = l.request.control /\ rv.consumer = l.request.consumer
                        /\ rv.epoch = l.request.epoch
RequireRevocation(rv, fence) == rv = fence

ControlInit ==
    /\ ctlNow = 0
    /\ ctlSession = [epoch |-> 0, state |-> "ready", controller |-> "agent",
                     capabilities |-> {"screenshot", "click", "takeover"}]
    /\ ctlLeases = {} /\ ctlFences = {}
    /\ ctlHost = [session |-> ctlSession, lease |-> Nothing, frame |-> Nothing]
    /\ ctlSent = Nothing /\ ctlEffect = Nothing

(* ---- the driver: external ---- *)
Retired(leases) == {[l EXCEPT !.state = "revoked"] : l \in leases}
Controlled(state, controller) ==
    /\ ctlSession.epoch < MaxEpoch
    /\ ctlSession' = [ctlSession EXCEPT !.epoch = @ + 1, !.state = state, !.controller = controller]
    /\ ctlLeases' = Retired(ctlLeases)
    /\ ctlEffect' = Nothing /\ UNCHANGED <<ctlNow, ctlFences, ctlHost, ctlSent>>
TakeOver == Controlled("paused", "human")
Resume == ctlSession.state = "paused" /\ Controlled("ready", "agent")
\* a fenced id never opens, an epoch has one lease, a replay is answered with the original
OpenLease ==
    \E c \in ControlIds, u \in Consumers, issued \in 0..ctlNow, expires \in LeaseExpiries,
       age \in FrameAges, caps \in {{"screenshot"}, {"screenshot", "click"}} :
        LET q == [control |-> c, consumer |-> u, epoch |-> ctlHost.session.epoch,
                  issued_at |-> issued, expires_at |-> expires, max_frame_age |-> age,
                  capabilities |-> caps]
            l == [request |-> q, state |-> "active", accepted_at |-> ctlNow]
        IN /\ BoundedRequest(q) /\ RequireSession(q, ctlHost.session, ctlNow)
           /\ ValidSession(ctlSession) /\ RequireSession(q, ctlSession, ctlNow)
           /\ CorrelatedAcceptance(l)
           /\ ~\E f \in ctlFences : f.control = c
           /\ ~\E k \in ctlLeases : k.request.control = c \/ k.request.epoch = q.epoch
           /\ ctlLeases' = ctlLeases \cup {l}
           /\ ctlHost' = [ctlHost EXCEPT !.lease = l]
           /\ ctlEffect' = Nothing /\ UNCHANGED <<ctlNow, ctlSession, ctlFences, ctlSent>>
Revoke ==
    \E c \in ControlIds, u \in Consumers,
       epoch \in {ctlHost.session.epoch} \cup {l.request.epoch : l \in ctlLeases} :
        LET rv == [control |-> c, consumer |-> u, epoch |-> epoch]
            bound == {l \in ctlLeases : l.request.control = c}
        IN /\ \A l \in bound : RequireTarget(rv, l)
           /\ \A f \in ctlFences : f.control = c => RequireRevocation(rv, f)
           /\ ctlLeases' = (ctlLeases \ bound) \cup Retired(bound)
           /\ ctlFences' = IF bound = {} THEN ctlFences \cup {rv} ELSE ctlFences
           /\ ctlEffect' = Nothing /\ UNCHANGED <<ctlNow, ctlSession, ctlHost, ctlSent>>
Observe ==
    \E l \in ctlLeases :
        /\ RequireActive(l, ctlSession, ctlNow)
        /\ ctlHost' = [ctlHost EXCEPT !.frame =
              [control |-> l.request.control, consumer |-> l.request.consumer,
               epoch |-> l.request.epoch, observed_at |-> ctlNow]]
        /\ ctlEffect' = Nothing /\ UNCHANGED <<ctlNow, ctlSession, ctlLeases, ctlFences, ctlSent>>
\* the driver compares its own lease and epoch and the deadline
ApplyInput ==
    /\ ctlSent # Nothing /\ ctlSent' = Nothing
    /\ \E l \in ctlLeases :
         /\ l.request.control = ctlSent.control /\ l.state = "active"
         /\ l.request.epoch = ctlSession.epoch /\ ctlNow < ctlSent.action.not_after
         /\ ctlEffect' = [control |-> ctlSent.control, action |-> ctlSent.action,
                          lease |-> l, at |-> ctlNow]
    /\ UNCHANGED <<ctlNow, ctlSession, ctlLeases, ctlFences, ctlHost>>

(* ---- the host ---- *)
RefreshSession ==
    /\ ctlHost' = [ctlHost EXCEPT !.session = ctlSession]
    /\ ctlEffect' = Nothing /\ UNCHANGED <<ctlNow, ctlSession, ctlLeases, ctlFences, ctlSent>>
AdmitInput ==
    \E x \in Clicks, u \in Consumers, deadline \in 1..MaxControlTime :
        LET l == ctlHost.lease
            f == ctlHost.frame
            a == [control |-> f.control, consumer |-> u, epoch |-> f.epoch,
                  observed_at |-> f.observed_at, not_after |-> deadline, x |-> x]
        IN /\ ctlSent = Nothing /\ l # Nothing /\ f # Nothing
           /\ ActionOfLease(a, l, ctlHost.session, f, ctlNow)
           /\ ctlSent' = [control |-> f.control, action |-> a]
           /\ ctlEffect' = Nothing /\ UNCHANGED <<ctlNow, ctlSession, ctlLeases, ctlFences, ctlHost>>
InputLost == /\ ctlSent # Nothing /\ ctlSent' = Nothing
             /\ ctlEffect' = Nothing /\ UNCHANGED <<ctlNow, ctlSession, ctlLeases, ctlFences, ctlHost>>
ControlTime == /\ ctlNow < MaxControlTime /\ ctlNow' = ctlNow + 1
               /\ ctlEffect' = Nothing /\ UNCHANGED <<ctlSession, ctlLeases, ctlFences, ctlHost, ctlSent>>
ControlNext ==
    \/ TakeOver \/ Resume \/ OpenLease \/ Revoke \/ Observe \/ ApplyInput
    \/ RefreshSession \/ AdmitInput \/ InputLost \/ ControlTime
ControlSpec == ControlInit /\ [][ControlNext]_controlVars

(* When a human's input takes effect, however long after its admission, the *)
(* lease and the session are within their lifetimes, the frame the human    *)
(* acted on was observed under that lease and is younger than the lease     *)
(* allows, the click is inside it, and the consumer is the lease's; a       *)
(* fenced control id never gets a lease and an epoch never gets two.        *)
InputBounded ==
    /\ ctlEffect # Nothing =>
         LET a == ctlEffect.action
             q == ctlEffect.lease.request
         IN /\ q.issued_at <= ctlEffect.at /\ ctlEffect.at < q.expires_at
            /\ ctlEffect.at < SessionExpiry
            /\ ctlEffect.lease.accepted_at <= a.observed_at
            /\ ctlEffect.at - a.observed_at < q.max_frame_age
            /\ a.consumer = q.consumer /\ a.epoch = q.epoch
            /\ "click" \in q.capabilities /\ a.x < FrameWidth
    /\ \A f \in ctlFences, l \in ctlLeases : f.control # l.request.control
    /\ \A l, k \in ctlLeases : l.request.epoch = k.request.epoch => l = k
=============================================================================
