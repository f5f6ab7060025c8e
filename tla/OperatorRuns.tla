---------------------------- MODULE OperatorRuns ----------------------------
(* The operator run plane: who may launch, read and control a run, under    *)
(* which key a request is a replay, and what a caller learns of runs of     *)
(* other tenants.  The SDK gives the requests, the records and their checks *)
(* (operator/context.py, operator/runs.py); the durable RunService behind   *)
(* them is external and resolves a run by its id, among all tenants or      *)
(* within the caller's.                                                     *)
EXTENDS Naturals, FiniteSets

CONSTANTS RunContexts,      \* authenticated callers
          RunLaunches,      \* launch requests
          RunControls,      \* control requests
          MaxContextLifetime,
          AnySequence,      \* expected_sequence is None
          MaxRunTime,       \* bound: the clock
          MaxRunSequence    \* bound: mutations of one run

ASSUME RunConstants == \A r \in RunControls : r.action \in {"pause", "resume", "cancel", "retry"}

VARIABLES runNow,           \* the trusted clock
          runRecords,       \* durable runs
          launchKeys,       \* launch idempotency scope -> the run it accepted
          controlLog        \* controls that were applied
runVars == <<runNow, runRecords, launchKeys, controlLog>>

NoAgent == "none"
RunStates == {"queued", "running", "paused", "succeeded", "failed", "cancelled"}
IsTerminal(state) == state \in {"succeeded", "failed", "cancelled"}
RequiredAction(control) ==
    [pause |-> "run.pause", resume |-> "run.resume", cancel |-> "run.cancel",
     retry |-> "run.retry"][control.action]

(* ---- OperatorContext ---- *)
ValidContext(c) == /\ c.issued_at < c.expires_at
                   /\ c.expires_at - c.issued_at <= MaxContextLifetime
IsFresh(c) == c.issued_at <= runNow /\ runNow < c.expires_at
AllowsAction(c, action) == action \in c.granted_actions
InScope(c, launch) == /\ launch.boundary \in c.permitted_boundary_ids
                      /\ launch.capability \in c.granted_capabilities

(* ---- requests ---- *)
ValidLaunch(l) == (l.source = "manual") = (l.orchestrator = NoAgent)
\* the fields that make two launches the same; the key is not one of them
ReplayIdentity(l) == <<l.run_id, l.source, l.initiated_by, l.tenant_id, l.boundary,
                       l.capability, l.orchestrator>>
\* bug variant: the key is scoped to the run
LaunchScopePerRun(tenant, l) == <<tenant, l.run_id, l.idempotency_key>>
LaunchScope(tenant, l) == <<tenant, "run.launch", l.idempotency_key>>
LaunchAuthorized(l, c) ==
    /\ IsFresh(c) /\ AllowsAction(c, "run.launch")
    /\ l.tenant_id = c.tenant_id /\ InScope(c, l)
    /\ IF l.source = "manual"
       THEN c.acting_agent_id = NoAgent /\ l.initiated_by = c.principal_id
       ELSE c.acting_agent_id # NoAgent /\ l.initiated_by = c.acting_agent_id
ControlAuthorized(r, c) == IsFresh(c) /\ AllowsAction(c, RequiredAction(r))
ValidControl(r) == (r.action = "retry") = (r.stage_id # "none")
ControlScope(tenant, r) ==
    <<tenant, r.run_id, RequiredAction(r), r.stage_id, r.idempotency_key>>

(* ---- RunRecord.authorize: what it raises for a resolved run ---- *)
\* bug variant: freshness and the action are asked before the tenant
RecordDenialLate(record, c, action) ==
    IF ~IsFresh(c) \/ ~AllowsAction(c, action) THEN "denied"
    ELSE IF record.launch.tenant_id # c.tenant_id THEN "not found"
    ELSE IF ~InScope(c, record.launch) THEN "denied" ELSE "none"
RecordDenial(record, c, action) ==
    IF record.launch.tenant_id # c.tenant_id THEN "not found"
    ELSE IF ~IsFresh(c) \/ ~AllowsAction(c, action) \/ ~InScope(c, record.launch) THEN "denied"
    ELSE "none"

(* ---- the service: external ---- *)
\* the caller's own run, else one of that id that belongs to somebody else
RunResolved(records, id, c) ==
    LET named == {r \in records : r.launch.run_id = id}
        own == {r \in named : r.launch.tenant_id = c.tenant_id}
    IN IF own # {} THEN own ELSE named
ReadAnswer(records, id, c, action) ==
    LET found == RunResolved(records, id, c)
    IN IF found = {} THEN {[error |-> "not found"]}
       ELSE {IF RecordDenial(r, c, action) = "none" THEN [run |-> r]
             ELSE [error |-> RecordDenial(r, c, action)] : r \in found}
ControlAnswer(records, control, c) ==
    IF ControlAuthorized(control, c)
    THEN ReadAnswer(records, control.run_id, c, RequiredAction(control))
    ELSE {[error |-> "denied"]}
\* a page leaves out what its caller may not see, and is refused whole for a repeated id
PageLimit == 100
ValidPage(page) ==
    /\ Cardinality(page) <= PageLimit
    /\ \A r, q \in page : r.launch.run_id = q.launch.run_id => r = q
ListAnswer(records, c) ==
    LET page == {r \in records : RecordDenial(r, c, "run.read") = "none"}
    IN IF ~IsFresh(c) \/ ~AllowsAction(c, "run.read") THEN [error |-> "denied"]
       ELSE IF ~ValidPage(page) THEN [error |-> "invalid page"]
       ELSE [runs |-> page]

RunsInit == runNow = 0 /\ runRecords = {} /\ launchKeys = {} /\ controlLog = {}

NewRecord(l) == [launch |-> l, state |-> "queued", sequence |-> 0,
                 accepted_at |-> runNow, state_changed_at |-> runNow]
\* a known scope replays or conflicts, and so does a known run under another key
LaunchRun ==
    \E l \in RunLaunches, c \in RunContexts :
        /\ ValidLaunch(l) /\ ValidContext(c) /\ LaunchAuthorized(l, c)
        /\ ~\E k \in launchKeys : k.scope = LaunchScope(c.tenant_id, l)
        /\ ~\E r \in runRecords : r.launch.tenant_id = c.tenant_id /\ r.launch.run_id = l.run_id
        /\ runRecords' = runRecords \cup {NewRecord(l)}
        /\ launchKeys' = launchKeys \cup {[scope |-> LaunchScope(c.tenant_id, l), launch |-> l]}
        /\ UNCHANGED <<runNow, controlLog>>
\* what a launch of a known scope is answered
ReplayAnswer(l, c) ==
    LET known == {k \in launchKeys : k.scope = LaunchScope(c.tenant_id, l)}
    IN {IF ReplayIdentity(k.launch) = ReplayIdentity(l) THEN k.launch.run_id ELSE "conflict" :
          k \in known}

Moved(record, state) == [record EXCEPT !.state = state, !.sequence = @ + 1,
                                       !.state_changed_at = runNow]
ControlledState(control) ==
    [pause |-> "paused", resume |-> "running", cancel |-> "cancelled",
     retry |-> "queued"][control.action]
\* a new control takes effect on the run it was authorized for, at the expected sequence;
\* one whose scope is known, or the lost answer of one, is answered without effect
ApplyControl ==
    \E control \in RunControls, c \in RunContexts :
        \E answer \in ControlAnswer(runRecords, control, c) :
            /\ ValidControl(control) /\ ValidContext(c)
            /\ "run" \in DOMAIN answer
            /\ ~\E a \in controlLog : a.scope = ControlScope(c.tenant_id, control)
            /\ ~IsTerminal(answer.run.state) /\ answer.run.sequence < MaxRunSequence
            /\ control.expected_sequence \in {AnySequence, answer.run.sequence}
            /\ runRecords' = (runRecords \ {answer.run}) \cup {Moved(answer.run, ControlledState(control))}
            /\ controlLog' = controlLog \cup
                 {[scope |-> ControlScope(c.tenant_id, control), control |-> control, by |-> c,
                   launch |-> answer.run.launch, from |-> answer.run.sequence, at |-> runNow]}
            /\ UNCHANGED <<runNow, launchKeys>>
\* the workflow moves its runs on
RunAdvances ==
    \E r \in runRecords, state \in {"running", "succeeded", "failed"} :
        /\ state # r.state
        /\ ~IsTerminal(r.state) /\ r.sequence < MaxRunSequence
        /\ runRecords' = (runRecords \ {r}) \cup {Moved(r, state)}
        /\ UNCHANGED <<runNow, launchKeys, controlLog>>
RunTime == /\ runNow < MaxRunTime /\ runNow' = runNow + 1
           /\ UNCHANGED <<runRecords, launchKeys, controlLog>>
RunsNext == LaunchRun \/ ApplyControl \/ RunAdvances \/ RunTime
RunsSpec == RunsInit /\ [][RunsNext]_runVars

(* What a caller is told about a run id, of a read, an attachment, a        *)
(* control or a list, is what it would be told if no other tenant had any   *)
(* run: no answer is an oracle of the runs of others, whatever the caller   *)
(* lacks.  Only a launch names a tenant, and only its own.                  *)
NoOracle ==
    \A c \in RunContexts :
        LET own == {r \in runRecords : r.launch.tenant_id = c.tenant_id}
        IN own # runRecords =>
             /\ \A id \in {l.run_id : l \in RunLaunches},
                  action \in {"run.read", "run.attach", "artifact.read"} :
                  ReadAnswer(runRecords, id, c, action) = ReadAnswer(own, id, c, action)
             /\ \A control \in RunControls :
                  ControlAnswer(runRecords, control, c) = ControlAnswer(own, control, c)
             /\ ListAnswer(runRecords, c) = ListAnswer(own, c)

(* A tenant's idempotency key accepts one run for good and names it in      *)
(* every replay; a run exists once in its tenant; a control took effect     *)
(* once for its scope, from the sequence it asked for, while its caller was *)
(* entitled to it, and on a run of the caller's tenant.                     *)
RunsOnce ==
    /\ \A r, q \in runRecords :
         r # q /\ r.launch.tenant_id = q.launch.tenant_id =>
            /\ r.launch.run_id # q.launch.run_id
            /\ r.launch.idempotency_key # q.launch.idempotency_key
    /\ \A r \in runRecords, c \in RunContexts :
         r.launch.tenant_id = c.tenant_id => ReplayAnswer(r.launch, c) = {r.launch.run_id}
    /\ \A a, b \in controlLog : a.scope = b.scope => a = b
    /\ \A a, b \in controlLog : a # b /\ a.launch = b.launch => a.from # b.from
    /\ \A a \in controlLog :
         /\ a.control.expected_sequence \in {AnySequence, a.from}
         /\ a.by.issued_at <= a.at /\ a.at < a.by.expires_at
         /\ a.launch.tenant_id = a.by.tenant_id
    /\ \A r \in runRecords : r.accepted_at <= r.state_changed_at
=============================================================================
