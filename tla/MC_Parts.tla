------------------------------ MODULE MC_Parts ------------------------------
(* The SDK's self-contained parts, one at a time: Init chooses the part    *)
(* that runs, the others stay in their initial state.                      *)
EXTENDS StdioWriter, StdioReader, KeyFileSalt, DeferredDelivery, AcquisitionCustody,
        OperatorRuns, HumanControl

VARIABLE part

\* two tenants; a caller of the second that lacks nearly everything
Caller(tenant, actions, boundaries, expiry, agent) ==
    [principal_id |-> "p", tenant_id |-> tenant, granted_actions |-> actions,
     granted_capabilities |-> {"c"}, permitted_boundary_ids |-> boundaries,
     issued_at |-> 0, expires_at |-> expiry, acting_agent_id |-> agent]
MCContexts ==
    {Caller("t1", {"run.launch", "run.read", "run.pause", "run.retry"}, {"b"}, 2, NoAgent),
     Caller("t2", {"run.launch", "run.read", "run.cancel"}, {"b"}, 1, "ag"),
     Caller("t2", {"run.cancel"}, {}, 2, NoAgent)}
\* the same run ids and keys in both tenants, two runs under one key
MCLaunches ==
    [run_id : {"r1", "r2"}, source : {"manual"}, initiated_by : {"p"}, tenant_id : {"t1"},
     boundary : {"b"}, capability : {"c"}, idempotency_key : {"k1", "k2"}, orchestrator : {NoAgent}]
    \cup
    [run_id : {"r1"}, source : {"agent"}, initiated_by : {"ag"}, tenant_id : {"t2"},
     boundary : {"b"}, capability : {"c"}, idempotency_key : {"k1"}, orchestrator : {"o"}]
MCControls ==
    [run_id : {"r1"}, action : {"pause", "cancel"}, idempotency_key : {"k1"}, stage_id : {"none"},
     expected_sequence : {0, 1}]
    \cup [run_id : {"r1"}, action : {"retry"}, idempotency_key : {"k1", "k2"}, stage_id : {"s"},
          expected_sequence : {AnySequence}]

partVars == <<part, writerVars, readerVars, saltVars, deliveryVars, custodyVars, runVars,
              controlVars>>

PartsInit ==
    /\ part \in {"writer", "reader", "salt", "delivery", "custody", "runs", "control"}
    /\ WriterInit /\ ReaderInit /\ SaltInit /\ DeliveryInit /\ CustodyInit
    /\ RunsInit /\ ControlInit
    /\ part # "salt" => source = "bare" /\ stored = {}

PartsNext ==
    \/ /\ part = "writer" /\ WriterNext
       /\ UNCHANGED <<part, readerVars, saltVars, deliveryVars, custodyVars, runVars, controlVars>>
    \/ /\ part = "reader" /\ ReaderNext
       /\ UNCHANGED <<part, writerVars, saltVars, deliveryVars, custodyVars, runVars, controlVars>>
    \/ /\ part = "salt" /\ SaltNext
       /\ UNCHANGED <<part, writerVars, readerVars, deliveryVars, custodyVars, runVars, controlVars>>
    \/ /\ part = "delivery" /\ DeliveryNext
       /\ UNCHANGED <<part, writerVars, readerVars, saltVars, custodyVars, runVars, controlVars>>
    \/ /\ part = "custody" /\ CustodyNext
       /\ UNCHANGED <<part, writerVars, readerVars, saltVars, deliveryVars, runVars, controlVars>>
    \/ /\ part = "runs" /\ RunsNext
       /\ UNCHANGED <<part, writerVars, readerVars, saltVars, deliveryVars, custodyVars, controlVars>>
    \/ /\ part = "control" /\ ControlNext
       /\ UNCHANGED <<part, writerVars, readerVars, saltVars, deliveryVars, custodyVars, runVars>>

PartsSpec == PartsInit /\ [][PartsNext]_partVars /\ WriterFairness /\ ReaderFairness
=============================================================================
