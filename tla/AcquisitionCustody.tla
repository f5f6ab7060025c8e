------------------------- MODULE AcquisitionCustody -------------------------
(***************************************************************************)
(* Acquisition of a paid environment through an API that has no idempotent *)
(* create (kestrel_sdk/computer_use/acquisition.py).                       *)
(*                                                                         *)
(* The SDK contributes the checkpoint and its pure candidate transitions   *)
(* (prepared, dispatched, accepted, unknown).  The host commits a          *)
(* candidate with a compare-and-swap on one durable row; the commit's      *)
(* acknowledgement may be lost, operations race, and any of them may die.  *)
(* Host row, provider and native API are external: they are modelled from  *)
(* the Attempt and Custody protocols of the same file.                     *)
(***************************************************************************)
EXTENDS Naturals, FiniteSets

CONSTANTS Operations,  \* lexical operations on the same request, also after restarts
          Preps,       \* preparations: exact create payload and worker identity
          NoPrep,      \* preparation_sha256 is None
          LeaseIds,    \* lease ids a provider may report
          Resources,   \* native resource ids
          NoResource,  \* provider_resource_id is None
          Expiry,      \* expires_at of the original request
          MaxSequence  \* bound on the row's sequence

ASSUME CustodyConstants ==
    /\ NoPrep \notin Preps /\ NoResource \notin Resources
    /\ Expiry \in Nat /\ MaxSequence \in Nat

VARIABLES row,      \* the durable checkpoint
          view,     \* per operation: the checkpoint its attempt last read
          place,       \* per operation: where the provider is
          fact,     \* per operation: the lease it has to record, {} or one
          created   \* native resources that exist, with the payload that made them

custodyVars == <<row, view, place, fact, created>>

\* A lease, reduced to what _native_fact() compares; expiries up to one too late.
Leases == [id : LeaseIds, resource : Resources \cup {NoResource}, expiry : 0..(Expiry + 1)]

States == {"unprepared", "prepared", "dispatching", "accepted", "unknown"}
Dispatched == {"dispatching", "accepted", "unknown"}

Checkpoints == [state : States, prep : Preps \cup {NoPrep}, lease : SUBSET Leases,
                sequence : Nat]

CustodyTypeOK ==
    /\ row \in Checkpoints
    /\ view \in [Operations -> Checkpoints]
    /\ place \in [Operations -> {"out", "open", "post", "holding", "reconcile"}]
    /\ fact \in [Operations -> SUBSET Leases]
    /\ created \subseteq [resource : Resources, prep : Preps]

Fresh == [state |-> "unprepared", prep |-> NoPrep, lease |-> {}, sequence |-> 0]

-----------------------------------------------------------------------------
(***************************************************************************)
(* The candidate transitions: {} stands for ResourceConflict or a refused  *)
(* validation, a singleton for the candidate.                              *)
(***************************************************************************)

\* prepared(): the first bytes win; the same bytes again change nothing.
PreparedFrom(c, p) ==
    CASE c.prep = p -> {c}
      [] c.prep = NoPrep -> {[c EXCEPT !.state = "prepared", !.prep = p,
                                       !.sequence = c.sequence + 1]}
      [] OTHER -> {}

\* Variant: dispatching again is taken for a retry of the same attempt.
RedispatchedFrom(c) ==
    IF c.state \in {"prepared", "dispatching"}
    THEN {[c EXCEPT !.state = "dispatching", !.sequence = c.sequence + 1]} ELSE {}

\* dispatched()
DispatchedFrom(c) ==
    IF c.state = "prepared"
    THEN {[c EXCEPT !.state = "dispatching", !.sequence = c.sequence + 1]} ELSE {}

\* A later fact may add the native id to a placeholder and change nothing else.
KeepsCustody(old, new) ==
    /\ new.id = old.id /\ new.expiry = old.expiry
    /\ old.resource # NoResource => new.resource = old.resource

\* correlated_facts(), for the lease of a dispatched checkpoint.
ValidFact(state, lease) ==
    /\ \A l \in lease : l.expiry <= Expiry
    /\ state = "accepted" => \E l \in lease : l.resource # NoResource

\* Variant: a report without a lease clears the recorded one.
FactClears(c, state, reported) ==
    IF /\ c.state \in Dispatched
       /\ \A old \in c.lease, new \in reported : KeepsCustody(old, new)
       /\ ValidFact(state, reported)
    THEN {[c EXCEPT !.state = state, !.lease = reported, !.sequence = c.sequence + 1]}
    ELSE {}

\* _native_fact(): accepted() and unknown().
FactFrom(c, state, reported) ==
    LET lease == IF reported = {} THEN c.lease ELSE reported
    IN  IF /\ c.state \in Dispatched
           /\ \A old \in c.lease, new \in lease : KeepsCustody(old, new)
           /\ ValidFact(state, lease)
        THEN {[c EXCEPT !.state = state, !.lease = lease, !.sequence = c.sequence + 1]}
        ELSE {}

-----------------------------------------------------------------------------
CustodyInit ==
    /\ row = Fresh
    /\ view = [o \in Operations |-> Fresh]
    /\ place = [o \in Operations |-> "out"]
    /\ fact = [o \in Operations |-> {}]
    /\ created = {}

Goto(o, where) == place' = [place EXCEPT ![o] = where]

\* custody.operation(): a new lexical operation reads the row.
Enter(o) ==
    /\ place[o] = "out"
    /\ view' = [view EXCEPT ![o] = row]
    /\ Goto(o, "open")
    /\ UNCHANGED <<row, fact, created>>

\* The host's compare-and-swap (external): the row must still be the one that was read.
CAS(o, candidates) ==
    /\ row.sequence = view[o].sequence
    /\ row.sequence < MaxSequence
    /\ row' \in candidates
    /\ view' = [view EXCEPT ![o] = row']

PrepareOnce(o) ==
    /\ place[o] = "open"
    /\ \E p \in Preps : CAS(o, PreparedFrom(view[o], p))
    /\ UNCHANGED <<place, fact, created>>

\* begin_dispatch() returns True: the commit is acknowledged.
BeginDispatch(o) ==
    /\ place[o] = "open"
    /\ CAS(o, DispatchedFrom(view[o]))
    /\ Goto(o, "post")
    /\ UNCHANGED <<fact, created>>

\* A commit whose acknowledgement is lost raises: this operation may not go on.
LostAcknowledgement(o) ==
    /\ place[o] = "open"
    /\ \/ \E p \in Preps : CAS(o, PreparedFrom(view[o], p))
       \/ CAS(o, DispatchedFrom(view[o]))
    /\ Goto(o, "out")
    /\ UNCHANGED <<fact, created>>

\* begin_dispatch() returns False: the attempt was dispatched, by whomever.
OnlyReconcile(o) ==
    /\ place[o] = "open"
    /\ view[o].state \in Dispatched
    /\ Goto(o, "reconcile")
    /\ UNCHANGED <<row, view, fact, created>>

\* The native create (external): it may take effect or not, and be answered or not.
Post(o) ==
    /\ place[o] = "post"
    /\ \/ UNCHANGED <<created, fact>>
       \/ \E r \in Resources \ {c.resource : c \in created} :
             /\ created' = created \cup {[resource |-> r, prep |-> view[o].prep]}
             /\ \E l \in {l \in Leases : l.resource \in {r, NoResource}} :
                   fact' \in {fact, [fact EXCEPT ![o] = {l}]}
    /\ Goto(o, "holding")
    /\ UNCHANGED <<row, view>>

\* Reconciliation (external) may find what exists; finding nothing proves nothing.
Reconcile(o) ==
    /\ place[o] = "reconcile"
    /\ \/ UNCHANGED fact
       \/ \E l \in {l \in Leases : l.resource \in {c.resource : c \in created}} :
             fact' = [fact EXCEPT ![o] = {l}]
    /\ Goto(o, "holding")
    /\ UNCHANGED <<row, view, created>>

\* record_accepted() and record_unknown(), serialized by the host on the current row.
Record(o) ==
    /\ place[o] = "holding"
    /\ row.sequence < MaxSequence
    /\ \E state \in {"accepted", "unknown"} : row' \in FactFrom(row, state, fact[o])
    /\ view' = [view EXCEPT ![o] = row']
    /\ UNCHANGED <<place, fact, created>>

\* The operation ends, raises, or its process dies.
Exit(o) ==
    /\ place[o] # "out"
    /\ Goto(o, "out")
    /\ fact' = [fact EXCEPT ![o] = {}]
    /\ UNCHANGED <<row, view, created>>

CustodyNext == \E o \in Operations :
           \/ Enter(o) \/ PrepareOnce(o) \/ BeginDispatch(o) \/ LostAcknowledgement(o)
           \/ OnlyReconcile(o) \/ Post(o) \/ Reconcile(o) \/ Record(o) \/ Exit(o)

CustodySpec == CustodyInit /\ [][CustodyNext]_custodyVars

-----------------------------------------------------------------------------
\* However operations race, die or lose acknowledgements, dispatched() lets at most one
\* native create take effect for the attempt.
OneCreate == \A a, b \in created : a = b

\* What was created was created with the bytes that prepared() put on the row, and the row
\* says that a create may have happened.
CreatedAsPrepared == \A a \in created : a.prep = row.prep /\ row.state \in Dispatched

\* At most one create, and it is the recorded one.
CreateOnce == OneCreate /\ CreatedAsPrepared

\* Recorded custody is never cleared, replaced or extended, and a dispatch is never undone.
CustodyKept ==
    [][/\ \A old \in row.lease : \E new \in row'.lease : KeepsCustody(old, new)
       /\ row.state \in Dispatched => row'.state \in Dispatched /\ row'.prep = row.prep]_custodyVars

\* The inductive invariant: a permission to post is unique, and used up by a create.
Posting == {o \in Operations : place[o] = "post"}

CustodyInv ==
    /\ CustodyTypeOK
    /\ OneCreate
    /\ CreatedAsPrepared
    /\ \A o \in Posting : created = {} /\ row.state \in Dispatched /\ view[o].prep = row.prep
    /\ \A o, q \in Posting : o = q
    /\ (row.state = "unprepared") <=> (row.prep = NoPrep)
    /\ \A o \in Operations : view[o].sequence = row.sequence => view[o] = row
    /\ \A o \in Operations : view[o].sequence <= row.sequence
=============================================================================
