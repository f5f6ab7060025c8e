----------------------------- MODULE HostProofs -----------------------------
(***************************************************************************)
(* Proofs about the parts a host embeds: AcquisitionCustody, HumanControl, *)
(* OperatorRuns, DeferredDelivery and KeyFileSalt.                         *)
(***************************************************************************)
EXTENDS AcquisitionCustody, HumanControl, OperatorRuns, DeferredDelivery, KeyFileSalt, TLAPS

(***************************************************************************)
(* AcquisitionCustody, for any number of operations, any payloads and      *)
(* leases, and any length of the row's history.                            *)
(*                                                                         *)
(* The argument: a commit goes through only on the row the operation read  *)
(* (equal sequences mean equal rows), so dispatched() is granted on a row  *)
(* that was still "prepared".  Such a row has no create behind it and no   *)
(* other permission outstanding, and every later row stays dispatched.     *)
(***************************************************************************)
\* A commit is made on the current row: what the operation read is what the row holds.
LEMMA CommitOnCurrentRow ==
    ASSUME CustodyInv, NEW o \in Operations, row.sequence = view[o].sequence
    PROVE  view[o] = row
BY DEF CustodyInv

\* prepared() on a row: the same row, or the first bytes on an unprepared one.
LEMMA PreparedShape ==
    ASSUME NEW c \in Checkpoints, NEW p \in Preps, NEW d \in PreparedFrom(c, p)
    PROVE  \/ d = c
           \/ /\ c.prep = NoPrep
              /\ d \in Checkpoints
              /\ d.state = "prepared" /\ d.prep = p /\ d.lease = c.lease
              /\ d.sequence = c.sequence + 1
<1>1. CASE c.prep = p
  BY <1>1, CustodyConstants DEF PreparedFrom
<1>2. CASE c.prep # p /\ c.prep = NoPrep
  <2>1. d = [c EXCEPT !.state = "prepared", !.prep = p, !.sequence = c.sequence + 1]
    BY <1>2 DEF PreparedFrom
  <2>2. d = [state |-> "prepared", prep |-> p, lease |-> c.lease, sequence |-> c.sequence + 1]
    BY <2>1 DEF Checkpoints
  <2>3. c.lease \in SUBSET Leases /\ c.sequence + 1 \in Nat /\ "prepared" \in States
    BY DEF Checkpoints, States
  <2> QED BY <1>2, <2>2, <2>3 DEF Checkpoints
<1>3. CASE c.prep # p /\ c.prep # NoPrep
  BY <1>3 DEF PreparedFrom
<1> QED BY <1>1, <1>2, <1>3

\* dispatched() on a row: only a prepared row is dispatched, and it keeps its bytes.
LEMMA DispatchedShape ==
    ASSUME NEW c \in Checkpoints, NEW d \in DispatchedFrom(c)
    PROVE  /\ c.state = "prepared"
           /\ d \in Checkpoints
           /\ d.state = "dispatching" /\ d.prep = c.prep /\ d.lease = c.lease
           /\ d.sequence = c.sequence + 1
<1>1. /\ c.state = "prepared"
      /\ d = [c EXCEPT !.state = "dispatching", !.sequence = c.sequence + 1]
  BY DEF DispatchedFrom
<1>2. d = [state |-> "dispatching", prep |-> c.prep, lease |-> c.lease,
           sequence |-> c.sequence + 1]
  BY <1>1 DEF Checkpoints
<1>3. /\ c.prep \in Preps \cup {NoPrep} /\ c.lease \in SUBSET Leases
      /\ c.sequence + 1 \in Nat /\ "dispatching" \in States
  BY DEF Checkpoints, States
<1> QED BY <1>1, <1>2, <1>3 DEF Checkpoints

\* _native_fact() on a row: it stays dispatched, keeps its bytes and every recorded lease.
LEMMA FactShape ==
    ASSUME NEW c \in Checkpoints, NEW s \in {"accepted", "unknown"},
           NEW reported \in SUBSET Leases, NEW d \in FactFrom(c, s, reported)
    PROVE  /\ c.state \in Dispatched
           /\ d \in Checkpoints
           /\ d.state \in Dispatched /\ d.prep = c.prep
           /\ d.sequence = c.sequence + 1
           /\ \A old \in c.lease : \E new \in d.lease : KeepsCustody(old, new)
<1> DEFINE lease == IF reported = {} THEN c.lease ELSE reported
<1>1. /\ c.state \in Dispatched
      /\ \A old \in c.lease, new \in lease : KeepsCustody(old, new)
      /\ d = [c EXCEPT !.state = s, !.lease = lease, !.sequence = c.sequence + 1]
  BY DEF FactFrom
<1>2. lease \in SUBSET Leases
  BY DEF Checkpoints
<1>3. \A old \in c.lease : \E new \in lease : KeepsCustody(old, new)
  BY <1>1
<1> HIDE DEF lease
<1>4. d = [state |-> s, prep |-> c.prep, lease |-> lease, sequence |-> c.sequence + 1]
  BY <1>1 DEF Checkpoints
<1>5. c.prep \in Preps \cup {NoPrep} /\ c.sequence + 1 \in Nat /\ s \in States /\ s \in Dispatched
  BY DEF Checkpoints, States, Dispatched
<1> QED BY <1>1, <1>2, <1>3, <1>4, <1>5 DEF Checkpoints

-----------------------------------------------------------------------------
\* A fresh attempt, with no operation inside, satisfies the invariant.
LEMMA InitEstablishesCustody == CustodyInit => CustodyInv
BY DEF CustodyInit, CustodyInv, CustodyTypeOK, OneCreate, CreatedAsPrepared, Posting, Fresh, Checkpoints,
       States

\* A commit on a row that no create stands behind yet.
LEMMA CommitBeforeCreate ==
    ASSUME CustodyInv, NEW o \in Operations, NEW d \in Checkpoints,
           row.sequence = view[o].sequence, row.state \notin Dispatched,
           d.state # "unprepared", d.prep # NoPrep, d.sequence = row.sequence + 1,
           row' = d, view' = [view EXCEPT ![o] = d],
           UNCHANGED <<fact, created>>,
           \/ UNCHANGED place
           \/ place' = [place EXCEPT ![o] = "out"]
           \/ place' = [place EXCEPT ![o] = "post"] /\ d.state \in Dispatched
    PROVE  CustodyInv'
<1>1. created = {} /\ Posting = {}
  BY DEF CustodyInv, CreatedAsPrepared, Posting
<1>2. CustodyTypeOK'
  BY DEF CustodyInv, CustodyTypeOK
<1>3. Posting' = {} \/ (Posting' = {o} /\ d.state \in Dispatched)
  BY <1>1 DEF Posting, CustodyInv, CustodyTypeOK
<1>4. \A q \in Posting' : created' = {} /\ row'.state \in Dispatched /\ view'[q].prep = row'.prep
  BY <1>1, <1>3 DEF CustodyInv, CustodyTypeOK
<1>5. \A q \in Operations : /\ view'[q].sequence = row'.sequence => view'[q] = row'
                            /\ view'[q].sequence <= row'.sequence
  <2> TAKE q \in Operations
  <2>1. row.sequence \in Nat /\ view[q].sequence \in Nat /\ view[q].sequence <= row.sequence
    BY DEF CustodyInv, CustodyTypeOK, Checkpoints
  <2>2. CASE q = o
    BY <2>1, <2>2 DEF CustodyInv, CustodyTypeOK
  <2>3. CASE q # o
    <3>1. view'[q] = view[q]
      BY <2>3 DEF CustodyInv, CustodyTypeOK
    <3> QED BY <2>1, <3>1
  <2> QED BY <2>2, <2>3
<1>6. OneCreate' /\ CreatedAsPrepared'
  BY <1>1 DEF OneCreate, CreatedAsPrepared
<1>7. \A q, r \in Posting' : q = r
  BY <1>3
<1> QED BY <1>2, <1>3, <1>4, <1>5, <1>6, <1>7 DEF CustodyInv

\* A commit that leaves the row as it is (prepared() with the same bytes).
LEMMA CommitOfSameRow ==
    ASSUME CustodyInv, NEW o \in Operations, row' = row,
           view' = [view EXCEPT ![o] = row], UNCHANGED <<fact, created>>,
           \/ UNCHANGED place
           \/ place' = [place EXCEPT ![o] = "out"]
           \/ place[o] = "out" /\ place' = [place EXCEPT ![o] = "open"]
    PROVE  CustodyInv'
<1>1. CustodyTypeOK'
  BY DEF CustodyInv, CustodyTypeOK
<1>2. Posting' \subseteq Posting
  BY DEF Posting, CustodyInv, CustodyTypeOK
<1>3. \A q \in Operations : view'[q] = view[q] \/ view'[q] = row
  BY DEF CustodyInv, CustodyTypeOK
<1>4. row.sequence <= row.sequence
  BY DEF CustodyInv, CustodyTypeOK, Checkpoints
<1>5. OneCreate' /\ CreatedAsPrepared'
  BY DEF CustodyInv, OneCreate, CreatedAsPrepared
<1>6. \A q \in Posting' : created' = {} /\ row'.state \in Dispatched /\ view'[q].prep = row'.prep
  BY <1>2, <1>3 DEF CustodyInv, Posting
<1> QED BY <1>1, <1>2, <1>3, <1>4, <1>5, <1>6 DEF CustodyInv

\* Every step of the attempt preserves the invariant.
LEMMA StepPreservesCustody == CustodyInv /\ [CustodyNext]_custodyVars => CustodyInv'
<1> SUFFICES ASSUME CustodyInv, [CustodyNext]_custodyVars PROVE CustodyInv'
  OBVIOUS
<1>0. row \in Checkpoints /\ \A q \in Operations : view[q] \in Checkpoints
  BY DEF CustodyInv, CustodyTypeOK
<1>1. ASSUME NEW o \in Operations, Enter(o) PROVE CustodyInv'
  BY <1>1, CommitOfSameRow DEF Enter, Goto
<1>p. ASSUME NEW o \in Operations, NEW p \in Preps, CAS(o, PreparedFrom(view[o], p)),
             UNCHANGED place \/ Goto(o, "out"), UNCHANGED <<fact, created>>
      PROVE  CustodyInv'
  <2>1. view[o] = row /\ row.sequence = view[o].sequence
    BY <1>p, CommitOnCurrentRow DEF CAS
  <2>2. row' \in PreparedFrom(row, p) /\ view' = [view EXCEPT ![o] = row']
    BY <1>p, <2>1 DEF CAS
  <2>3. CASE row' = row
    BY <1>p, <2>2, <2>3, CommitOfSameRow DEF Goto
  <2>4. CASE row' # row
    <3>1. /\ row.prep = NoPrep /\ row' \in Checkpoints
          /\ row'.state = "prepared" /\ row'.prep = p /\ row'.sequence = row.sequence + 1
      BY <1>0, <2>2, <2>4, PreparedShape
    <3>2. row.state \notin Dispatched
      BY <3>1 DEF CustodyInv, Dispatched
    <3>3. row'.prep # NoPrep
      BY <3>1, CustodyConstants
    <3> QED BY <1>p, <2>1, <2>2, <3>1, <3>2, <3>3, CommitBeforeCreate DEF Goto
  <2> QED BY <2>3, <2>4
<1>d. ASSUME NEW o \in Operations, CAS(o, DispatchedFrom(view[o])),
             Goto(o, "post") \/ Goto(o, "out"), UNCHANGED <<fact, created>>
      PROVE  CustodyInv'
  <2>1. view[o] = row /\ row.sequence = view[o].sequence
    BY <1>d, CommitOnCurrentRow DEF CAS
  <2>2. row' \in DispatchedFrom(row) /\ view' = [view EXCEPT ![o] = row']
    BY <1>d, <2>1 DEF CAS
  <2>3. /\ row.state = "prepared" /\ row' \in Checkpoints
        /\ row'.state = "dispatching" /\ row'.prep = row.prep
        /\ row'.sequence = row.sequence + 1
    BY <1>0, <2>2, DispatchedShape
  <2>4. row.prep # NoPrep /\ row.state \notin Dispatched /\ row'.state \in Dispatched
    BY <2>3 DEF CustodyInv, Dispatched
  <2> QED BY <1>d, <2>1, <2>2, <2>3, <2>4, CommitBeforeCreate DEF Goto
<1>2. ASSUME NEW o \in Operations, PrepareOnce(o) PROVE CustodyInv'
  BY <1>2, <1>p DEF PrepareOnce
<1>3. ASSUME NEW o \in Operations, BeginDispatch(o) PROVE CustodyInv'
  BY <1>3, <1>d DEF BeginDispatch
<1>4. ASSUME NEW o \in Operations, LostAcknowledgement(o) PROVE CustodyInv'
  BY <1>4, <1>p, <1>d DEF LostAcknowledgement
<1>5. ASSUME NEW o \in Operations, OnlyReconcile(o) PROVE CustodyInv'
  BY <1>5 DEF OnlyReconcile, Goto, CustodyInv, CustodyTypeOK, Posting, OneCreate, CreatedAsPrepared
<1>6. ASSUME NEW o \in Operations, Post(o) PROVE CustodyInv'
  <2>1. /\ o \in Posting /\ created = {} /\ row.state \in Dispatched
        /\ view[o].prep = row.prep /\ Posting = {o}
    BY <1>6 DEF Post, CustodyInv, Posting
  <2>2. row.prep \in Preps
    BY <1>0, <2>1 DEF CustodyInv, Dispatched, Checkpoints
  <2>3. Posting' = {}
    BY <1>6, <2>1 DEF Post, Goto, Posting, CustodyInv, CustodyTypeOK
  <2>4. \/ created' = {}
        \/ \E r \in Resources : created' = {[resource |-> r, prep |-> row.prep]}
    BY <1>6, <2>1 DEF Post
  <2>5. fact' \in [Operations -> SUBSET Leases]
    <3>1. \/ fact' = fact
          \/ \E l \in Leases : fact' = [fact EXCEPT ![o] = {l}]
      BY <1>6 DEF Post
    <3> QED BY <3>1 DEF CustodyInv, CustodyTypeOK
  <2>6. CustodyTypeOK'
    <3>1. created' \subseteq [resource : Resources, prep : Preps]
      BY <2>2, <2>4
    <3> QED BY <1>6, <2>5, <3>1 DEF Post, Goto, CustodyInv, CustodyTypeOK
  <2>7. OneCreate' /\ CreatedAsPrepared'
    BY <1>6, <2>1, <2>4 DEF Post, OneCreate, CreatedAsPrepared
  <2> QED BY <1>6, <2>3, <2>6, <2>7 DEF Post, CustodyInv
<1>7. ASSUME NEW o \in Operations, Reconcile(o) PROVE CustodyInv'
  <2>1. \/ fact' = fact
        \/ \E l \in Leases : fact' = [fact EXCEPT ![o] = {l}]
    BY <1>7 DEF Reconcile
  <2>2. CustodyTypeOK'
    BY <1>7, <2>1 DEF Reconcile, Goto, CustodyInv, CustodyTypeOK
  <2>3. Posting' \subseteq Posting
    BY <1>7 DEF Reconcile, Goto, Posting, CustodyInv, CustodyTypeOK
  <2> QED BY <1>7, <2>2, <2>3 DEF Reconcile, CustodyInv, OneCreate, CreatedAsPrepared
<1>8. ASSUME NEW o \in Operations, Record(o) PROVE CustodyInv'
  <2>0. fact[o] \in SUBSET Leases
    BY DEF CustodyInv, CustodyTypeOK
  <2>1. /\ row.state \in Dispatched /\ row' \in Checkpoints
        /\ row'.state \in Dispatched /\ row'.prep = row.prep
        /\ row'.sequence = row.sequence + 1
    BY <1>0, <1>8, <2>0, FactShape DEF Record
  <2>2. view' = [view EXCEPT ![o] = row'] /\ UNCHANGED <<place, fact, created>> /\ place[o] = "holding"
    BY <1>8 DEF Record
  <2>3. CustodyTypeOK'
    BY <2>1, <2>2 DEF CustodyInv, CustodyTypeOK
  <2>4. Posting' = Posting /\ o \notin Posting
    BY <2>2 DEF Posting
  <2>5. \A q \in Operations : q # o => view'[q] = view[q]
    BY <2>2 DEF CustodyInv, CustodyTypeOK
  <2>6. \A q \in Posting' : created' = {} /\ row'.state \in Dispatched
                                          /\ view'[q].prep = row'.prep
    BY <2>1, <2>2, <2>4, <2>5 DEF CustodyInv, Posting
  <2>7. \A q \in Operations : /\ view'[q].sequence = row'.sequence => view'[q] = row'
                              /\ view'[q].sequence <= row'.sequence
    <3> TAKE q \in Operations
    <3>1. row.sequence \in Nat /\ view[q].sequence \in Nat /\ view[q].sequence <= row.sequence
      BY DEF CustodyInv, CustodyTypeOK, Checkpoints
    <3>2. CASE q = o
      BY <2>1, <2>2, <3>1, <3>2 DEF CustodyInv, CustodyTypeOK
    <3>3. CASE q # o
      BY <2>1, <2>5, <3>1, <3>3
    <3> QED BY <3>2, <3>3
  <2>8. OneCreate' /\ CreatedAsPrepared'
    BY <2>1, <2>2 DEF CustodyInv, OneCreate, CreatedAsPrepared
  <2>9. (row'.state = "unprepared") <=> (row'.prep = NoPrep)
    BY <2>1 DEF CustodyInv, Dispatched
  <2> QED BY <2>3, <2>4, <2>6, <2>7, <2>8, <2>9 DEF CustodyInv
<1>9. ASSUME NEW o \in Operations, Exit(o) PROVE CustodyInv'
  <2>1. CustodyTypeOK'
    BY <1>9 DEF Exit, Goto, CustodyInv, CustodyTypeOK
  <2>2. Posting' \subseteq Posting
    BY <1>9 DEF Exit, Goto, Posting, CustodyInv, CustodyTypeOK
  <2> QED BY <1>9, <2>1, <2>2 DEF Exit, CustodyInv, OneCreate, CreatedAsPrepared
<1>10. CASE UNCHANGED custodyVars
  BY <1>10 DEF custodyVars, CustodyInv, CustodyTypeOK, OneCreate, CreatedAsPrepared, Posting
<1> QED BY <1>1, <1>2, <1>3, <1>4, <1>5, <1>6, <1>7, <1>8, <1>9, <1>10 DEF CustodyNext

-----------------------------------------------------------------------------
\* The strengthened invariant holds throughout every attempt: a permission to post is unique
\* and used up by a create, and equal sequences mean equal rows.
THEOREM CustodyInvariant == CustodySpec => []CustodyInv
BY InitEstablishesCustody, StepPreservesCustody, PTL DEF CustodySpec

\* However many operations race, die and lose acknowledgements, dispatched() lets at most one
\* native create take effect.
THEOREM AtMostOneCreate == CustodySpec => []OneCreate
<1>1. CustodyInv => OneCreate
  BY DEF CustodyInv
<1> QED BY <1>1, CustodyInvariant, PTL

\* What was created was created with the bytes prepared() put on the row, and the row says
\* that a create may have happened.
THEOREM CreatesThePreparedBytes == CustodySpec => []CreatedAsPrepared
<1>1. CustodyInv => CreatedAsPrepared
  BY DEF CustodyInv
<1> QED BY <1>1, CustodyInvariant, PTL

\* Both together, as the instance is model-checked: one create, and the recorded one.
THEOREM CreatesOnce == CustodySpec => []CreateOnce
<1>1. CustodyInv => CreateOnce
  BY DEF CustodyInv, CreateOnce
<1> QED BY <1>1, CustodyInvariant, PTL

\* No step clears, replaces or extends recorded custody (_native_fact), or undoes a dispatch.
THEOREM CustodyIsKept == CustodySpec => CustodyKept
<1> DEFINE RowKept ==
      /\ \A old \in row.lease : \E new \in row'.lease : KeepsCustody(old, new)
      /\ row.state \in Dispatched => row'.state \in Dispatched /\ row'.prep = row.prep
<1>1. ASSUME CustodyInv, [CustodyNext]_custodyVars PROVE [RowKept]_custodyVars
  <2>0. row \in Checkpoints
    BY <1>1 DEF CustodyInv, CustodyTypeOK
  <2>1. CASE row' = row
    BY <2>1 DEF KeepsCustody
  <2>p. ASSUME NEW o \in Operations, NEW p \in Preps, CAS(o, PreparedFrom(view[o], p))
        PROVE  RowKept
    <3>1. view[o] = row
      BY <1>1, <2>p, CommitOnCurrentRow DEF CAS
    <3>2. row' \in PreparedFrom(row, p)
      BY <2>p, <3>1 DEF CAS
    <3>3. row' = row \/ (row.prep = NoPrep /\ row'.lease = row.lease)
      BY <2>0, <3>2, PreparedShape
    <3>4. row.prep = NoPrep => row.state \notin Dispatched
      BY <1>1 DEF CustodyInv, Dispatched
    <3> QED BY <3>3, <3>4 DEF KeepsCustody
  <2>d. ASSUME NEW o \in Operations, CAS(o, DispatchedFrom(view[o])) PROVE RowKept
    <3>1. view[o] = row
      BY <1>1, <2>d, CommitOnCurrentRow DEF CAS
    <3>2. row' \in DispatchedFrom(row)
      BY <2>d, <3>1 DEF CAS
    <3>3. row.state = "prepared" /\ row'.lease = row.lease
      BY <2>0, <3>2, DispatchedShape
    <3> QED BY <3>3 DEF KeepsCustody, Dispatched
  <2>r. ASSUME NEW o \in Operations, Record(o) PROVE RowKept
    <3>0. fact[o] \in SUBSET Leases
      BY <1>1 DEF CustodyInv, CustodyTypeOK
    <3> QED BY <2>0, <2>r, <3>0, FactShape DEF Record
  <2>2. CASE row' # row /\ CustodyNext
    <3>1. PICK o \in Operations : \/ PrepareOnce(o) \/ BeginDispatch(o)
                                  \/ LostAcknowledgement(o) \/ Record(o)
      BY <2>2 DEF CustodyNext, Enter, OnlyReconcile, Post, Reconcile, Exit
    <3> QED BY <3>1, <2>p, <2>d, <2>r DEF PrepareOnce, BeginDispatch, LostAcknowledgement
  <2>3. CASE UNCHANGED custodyVars
    BY <2>3 DEF custodyVars
  <2> HIDE DEF RowKept
  <2> QED BY <1>1, <2>1, <2>2, <2>3 DEF custodyVars
<1> QED BY <1>1, CustodyInvariant, PTL DEF CustodySpec, CustodyKept
-----------------------------------------------------------------------------
(***************************************************************************)
(* HumanControl, for any control ids, consumers, expiries and frame ages.  *)
(*                                                                         *)
(* The argument: control ids and epochs name one lease each, and retiring  *)
(* a lease changes only its state; so the lease an input was admitted      *)
(* under, from the host's stale snapshot, is the driver's lease of the     *)
(* same id, and the deadline the host agreed to bounds what the driver     *)
(* does whenever it gets to it.                                            *)
(***************************************************************************)
ControlCapabilities == {"screenshot", "click", "takeover"}
Requests == [control : ControlIds, consumer : Consumers, epoch : Nat, issued_at : Nat,
             expires_at : Nat, max_frame_age : Nat, capabilities : SUBSET ControlCapabilities]
ControlLeases == [request : Requests, state : {"active", "revoked"}, accepted_at : Nat]
Sessions == [epoch : Nat, state : {"ready", "paused"}, controller : {"agent", "human"},
             capabilities : SUBSET ControlCapabilities]
Frames == [control : ControlIds, consumer : Consumers, epoch : Nat, observed_at : Nat]
Inputs == [control : ControlIds, consumer : Consumers, epoch : Nat, observed_at : Nat,
           not_after : Nat, x : Nat]
Sendings == [control : ControlIds, action : Inputs]
HostViews == [session : Sessions, lease : ControlLeases \cup {Nothing},
              frame : Frames \cup {Nothing}]

ControlTypeOK ==
    /\ ctlNow \in Nat /\ ctlSession \in Sessions
    /\ ctlLeases \subseteq ControlLeases
    /\ ctlHost \in HostViews
    /\ ctlSent \in Sendings \cup {Nothing}

\* A lease was accepted within its lifetime and the session's.
LeasesInTime ==
    \A l \in ctlLeases : /\ l.request.issued_at <= l.accepted_at /\ l.accepted_at <= ctlNow
                         /\ l.request.expires_at <= SessionExpiry

OneLeasePerId == \A l, k \in ctlLeases : l.request.control = k.request.control => l = k
OneLeasePerEpoch == \A l, k \in ctlLeases : l.request.epoch = k.request.epoch => l = k
FencedNeverOpens == \A f \in ctlFences, l \in ctlLeases : f.control # l.request.control

\* The driver has the lease the host holds, perhaps retired since.
Installed(l) == \E k \in ctlLeases : k.request = l.request /\ k.accepted_at = l.accepted_at
HostLeaseInstalled == ctlHost.lease # Nothing => Installed(ctlHost.lease)

\* What the host checked of an input, against the lease of its control id.
Admissible(a, q, accepted) ==
    /\ a.consumer = q.consumer /\ a.epoch = q.epoch
    /\ accepted <= a.observed_at
    /\ a.not_after <= q.expires_at /\ a.not_after <= SessionExpiry
    /\ a.not_after - a.observed_at <= q.max_frame_age
    /\ "click" \in q.capabilities /\ a.x < FrameWidth
SentAdmissible ==
    ctlSent # Nothing =>
        \E l \in ctlLeases : /\ l.request.control = ctlSent.control
                             /\ Admissible(ctlSent.action, l.request, l.accepted_at)

ControlInv == /\ ControlTypeOK /\ LeasesInTime /\ OneLeasePerId /\ OneLeasePerEpoch
              /\ FencedNeverOpens /\ HostLeaseInstalled /\ SentAdmissible /\ InputBounded

\* At the start there is no lease, no frame and no input.
LEMMA ControlStarts == ControlInit => ControlInv
<1> SUFFICES ASSUME ControlInit PROVE ControlInv
  OBVIOUS
<1>1. ctlSession \in Sessions /\ ctlNow = 0 /\ ctlLeases = {} /\ ctlFences = {}
  BY DEF ControlInit, Sessions, ControlCapabilities
<1>2. ctlHost = [session |-> ctlSession, lease |-> Nothing, frame |-> Nothing]
      /\ ctlSent = Nothing /\ ctlEffect = Nothing
  BY DEF ControlInit
<1>3. ControlTypeOK
  BY <1>1, <1>2 DEF ControlTypeOK, HostViews
<1> QED BY <1>1, <1>2, <1>3 DEF ControlInv, LeasesInTime, OneLeasePerId, OneLeasePerEpoch,
           FencedNeverOpens, HostLeaseInstalled, SentAdmissible, InputBounded

\* Retiring leases changes their state and nothing else, so what is known of the leases' requests
\* stays known.
LEMMA RetiringKeeps ==
    ASSUME ControlInv, NEW B, B \subseteq ctlLeases,
           ctlLeases' = (ctlLeases \ B) \cup Retired(B), ctlNow' = ctlNow
    PROVE  /\ ctlLeases' \subseteq ControlLeases
           /\ LeasesInTime' /\ OneLeasePerId' /\ OneLeasePerEpoch'
           /\ \A k \in ctlLeases' : \E l \in ctlLeases : k.request = l.request
           /\ \A l \in ctlLeases : \E k \in ctlLeases' :
                 k.request = l.request /\ k.accepted_at = l.accepted_at
<1> DEFINE g(l) == IF l \in B THEN [l EXCEPT !.state = "revoked"] ELSE l
<1>1. \A l \in ctlLeases : /\ g(l) \in ControlLeases /\ g(l).request = l.request
                           /\ g(l).accepted_at = l.accepted_at
  BY DEF ControlInv, ControlTypeOK, ControlLeases
<1>2. ctlLeases' = {g(l) : l \in ctlLeases}
  BY DEF Retired
<1> HIDE DEF g
<1>3. ctlLeases' \subseteq ControlLeases
  BY <1>1, <1>2
<1>4. \A k \in ctlLeases' : \E l \in ctlLeases :
         k = g(l) /\ k.request = l.request /\ k.accepted_at = l.accepted_at
  BY <1>1, <1>2
<1>5. \A l \in ctlLeases : g(l) \in ctlLeases'
  BY <1>2
<1>6. LeasesInTime'
  BY <1>4 DEF ControlInv, LeasesInTime
<1>7. OneLeasePerId' /\ OneLeasePerEpoch'
  BY <1>4 DEF ControlInv, OneLeasePerId, OneLeasePerEpoch
<1> QED BY <1>1, <1>3, <1>4, <1>5, <1>6, <1>7

\* An invariant of the leases that retiring keeps is kept by the host's lease and the input too.
LEMMA RetiringKeepsUses ==
    ASSUME ControlInv, \A l \in ctlLeases : \E k \in ctlLeases' :
                           k.request = l.request /\ k.accepted_at = l.accepted_at,
           ctlHost'.lease = ctlHost.lease, ctlSent' = ctlSent
    PROVE  HostLeaseInstalled' /\ SentAdmissible'
BY DEF ControlInv, HostLeaseInstalled, Installed, SentAdmissible, Admissible

\* A step that applies no input only has to keep the leases apart.
LEMMA NoEffectBounded ==
    ASSUME ctlEffect' = Nothing, OneLeasePerEpoch', FencedNeverOpens'
    PROVE  InputBounded'
BY DEF InputBounded, OneLeasePerEpoch, FencedNeverOpens

\* TakeOver and Resume: a new epoch, and every lease retired.
LEMMA ControlledKeeps ==
    ASSUME ControlInv, NEW state \in {"ready", "paused"}, NEW controller \in {"agent", "human"},
           Controlled(state, controller)
    PROVE  ControlInv'
<1>1. /\ ctlLeases' = (ctlLeases \ ctlLeases) \cup Retired(ctlLeases)
      /\ ctlEffect' = Nothing /\ ctlNow' = ctlNow /\ ctlFences' = ctlFences
      /\ ctlHost' = ctlHost /\ ctlSent' = ctlSent
      /\ ctlSession' = [ctlSession EXCEPT !.epoch = ctlSession.epoch + 1, !.state = state,
                                          !.controller = controller]
  BY DEF Controlled
<1>2. /\ ctlLeases' \subseteq ControlLeases
      /\ LeasesInTime' /\ OneLeasePerId' /\ OneLeasePerEpoch'
      /\ \A k \in ctlLeases' : \E l \in ctlLeases : k.request = l.request
      /\ \A l \in ctlLeases : \E k \in ctlLeases' :
            k.request = l.request /\ k.accepted_at = l.accepted_at
  BY <1>1, RetiringKeeps
<1>3. ctlSession \in Sessions
  BY DEF ControlInv, ControlTypeOK
<1>4. ctlSession' \in Sessions
  <2>1. ctlSession.epoch + 1 \in Nat
    BY <1>3 DEF Sessions
  <2> QED BY <1>1, <1>3, <2>1 DEF Sessions
<1>5. ControlTypeOK'
  BY <1>1, <1>2, <1>4 DEF ControlInv, ControlTypeOK
<1>6. FencedNeverOpens'
  BY <1>1, <1>2 DEF ControlInv, FencedNeverOpens
<1>7. HostLeaseInstalled' /\ SentAdmissible'
  BY <1>1, <1>2, RetiringKeepsUses
<1>8. InputBounded'
  BY <1>1, <1>2, <1>6, NoEffectBounded
<1> QED BY <1>2, <1>5, <1>6, <1>7, <1>8 DEF ControlInv

\* Opening: the id and the epoch are new among the leases, and the id is not fenced.
LEMMA OpenLeaseKeeps == ASSUME ControlInv, OpenLease PROVE ControlInv'
<1>1. PICK c \in ControlIds, u \in Consumers, issued \in 0..ctlNow, expires \in LeaseExpiries,
           age \in FrameAges, caps \in {{"screenshot"}, {"screenshot", "click"}} :
        LET q == [control |-> c, consumer |-> u, epoch |-> ctlHost.session.epoch,
                  issued_at |-> issued, expires_at |-> expires, max_frame_age |-> age,
                  capabilities |-> caps]
            l == [request |-> q, state |-> "active", accepted_at |-> ctlNow]
        IN /\ BoundedRequest(q) /\ RequireSession(q, ctlHost.session, ctlNow)
           /\ ValidSession(ctlSession) /\ RequireSession(q, ctlSession, ctlNow)
           /\ CorrelatedAcceptance(l)
           /\ ~\E f \in ctlFences : f.control = c
           /\ ~\E k \in ctlLeases : k.request.control = c \/ k.request.epoch = q.epoch
           /\ ctlLeases' = ctlLeases \cup {l}
           /\ ctlHost' = [ctlHost EXCEPT !.lease = l]
           /\ ctlEffect' = Nothing /\ UNCHANGED <<ctlNow, ctlSession, ctlFences, ctlSent>>
  BY DEF OpenLease
<1> DEFINE q == [control |-> c, consumer |-> u, epoch |-> ctlHost.session.epoch,
                 issued_at |-> issued, expires_at |-> expires, max_frame_age |-> age,
                 capabilities |-> caps]
           l == [request |-> q, state |-> "active", accepted_at |-> ctlNow]
<1>2. /\ ctlLeases' = ctlLeases \cup {l} /\ ctlHost' = [ctlHost EXCEPT !.lease = l]
      /\ ctlEffect' = Nothing /\ UNCHANGED <<ctlNow, ctlSession, ctlFences, ctlSent>>
      /\ ~\E f \in ctlFences : f.control = c
      /\ ~\E k \in ctlLeases : k.request.control = c \/ k.request.epoch = ctlHost.session.epoch
  BY <1>1
<1>3. q.expires_at <= SessionExpiry
  BY <1>1 DEF RequireSession
<1>4. /\ ctlHost \in HostViews /\ ctlHost.session.epoch \in Nat /\ ctlNow \in Nat
      /\ issued \in Nat /\ issued <= ctlNow /\ expires \in Nat /\ age \in Nat
  BY ControlConstants DEF ControlInv, ControlTypeOK, HostViews, Sessions
<1>5. caps \in SUBSET ControlCapabilities
  BY DEF ControlCapabilities
<1>6. q \in Requests /\ q.control = c /\ q.epoch = ctlHost.session.epoch /\ q.issued_at = issued
  BY <1>4, <1>5 DEF Requests
<1> HIDE DEF q
<1>7. l \in ControlLeases /\ l.request = q /\ l.accepted_at = ctlNow
  BY <1>4, <1>6 DEF ControlLeases
<1> HIDE DEF l
<1>8. ctlHost' \in HostViews /\ ctlHost'.lease = l
  BY <1>2, <1>4, <1>7 DEF HostViews
<1>9. ControlTypeOK'
  BY <1>2, <1>7, <1>8 DEF ControlInv, ControlTypeOK
<1>10. LeasesInTime'
  BY <1>2, <1>3, <1>4, <1>6, <1>7 DEF ControlInv, LeasesInTime
<1>11. OneLeasePerId' /\ OneLeasePerEpoch' /\ FencedNeverOpens'
  BY <1>2, <1>6, <1>7 DEF ControlInv, OneLeasePerId, OneLeasePerEpoch, FencedNeverOpens
<1>12. HostLeaseInstalled'
  BY <1>2, <1>8 DEF HostLeaseInstalled, Installed
<1>13. SentAdmissible'
  BY <1>2 DEF ControlInv, SentAdmissible, Admissible
<1>14. InputBounded'
  BY <1>2, <1>11, NoEffectBounded
<1> QED BY <1>9, <1>10, <1>11, <1>12, <1>13, <1>14 DEF ControlInv

\* Revoking: the lease of the id is retired, or the id is fenced because it has none.
LEMMA RevokeKeeps == ASSUME ControlInv, Revoke PROVE ControlInv'
<1>1. PICK c \in ControlIds, u \in Consumers,
           epoch \in {ctlHost.session.epoch} \cup {l.request.epoch : l \in ctlLeases} :
        LET rv == [control |-> c, consumer |-> u, epoch |-> epoch]
            bound == {l \in ctlLeases : l.request.control = c}
        IN /\ \A l \in bound : RequireTarget(rv, l)
           /\ \A f \in ctlFences : f.control = c => RequireRevocation(rv, f)
           /\ ctlLeases' = (ctlLeases \ bound) \cup Retired(bound)
           /\ ctlFences' = IF bound = {} THEN ctlFences \cup {rv} ELSE ctlFences
           /\ ctlEffect' = Nothing /\ UNCHANGED <<ctlNow, ctlSession, ctlHost, ctlSent>>
  BY DEF Revoke
<1> DEFINE rv == [control |-> c, consumer |-> u, epoch |-> epoch]
           bound == {l \in ctlLeases : l.request.control = c}
<1>2. /\ rv.control = c /\ bound \subseteq ctlLeases
      /\ ctlLeases' = (ctlLeases \ bound) \cup Retired(bound)
      /\ ctlFences' = IF bound = {} THEN ctlFences \cup {rv} ELSE ctlFences
      /\ ctlEffect' = Nothing /\ UNCHANGED <<ctlNow, ctlSession, ctlHost, ctlSent>>
  BY <1>1
<1>3. /\ ctlLeases' \subseteq ControlLeases
      /\ LeasesInTime' /\ OneLeasePerId' /\ OneLeasePerEpoch'
      /\ \A k \in ctlLeases' : \E l \in ctlLeases : k.request = l.request
      /\ \A l \in ctlLeases : \E k \in ctlLeases' :
            k.request = l.request /\ k.accepted_at = l.accepted_at
  BY <1>2, RetiringKeeps
<1>4. ControlTypeOK'
  BY <1>2, <1>3 DEF ControlInv, ControlTypeOK
<1>5. FencedNeverOpens'
  BY <1>2, <1>3 DEF ControlInv, FencedNeverOpens
<1>6. HostLeaseInstalled' /\ SentAdmissible'
  BY <1>2, <1>3, RetiringKeepsUses
<1>7. InputBounded'
  BY <1>2, <1>3, <1>5, NoEffectBounded
<1> QED BY <1>3, <1>4, <1>5, <1>6, <1>7 DEF ControlInv

\* A step that leaves the leases and the fences alone keeps what only they are about.
LEMMA SameLeasesKeep ==
    ASSUME ControlInv, UNCHANGED <<ctlLeases, ctlFences>>, ctlNow' \in Nat, ctlNow <= ctlNow'
    PROVE  LeasesInTime' /\ OneLeasePerId' /\ OneLeasePerEpoch' /\ FencedNeverOpens'
<1>1. LeasesInTime'
  <2> SUFFICES ASSUME NEW l \in ctlLeases PROVE l.accepted_at <= ctlNow'
    BY DEF ControlInv, LeasesInTime
  <2>1. l.accepted_at \in Nat /\ l.accepted_at <= ctlNow /\ ctlNow \in Nat
    BY DEF ControlInv, ControlTypeOK, ControlLeases, LeasesInTime
  <2> QED BY <2>1
<1> QED BY <1>1 DEF ControlInv, OneLeasePerId, OneLeasePerEpoch, FencedNeverOpens

\* The host's snapshots: a frame of a lease, or the session again.
LEMMA SnapshotsKeep == ASSUME ControlInv, Observe \/ RefreshSession PROVE ControlInv'
<1>1. /\ UNCHANGED <<ctlNow, ctlSession, ctlLeases, ctlFences, ctlSent>> /\ ctlEffect' = Nothing
      /\ ctlNow \in Nat /\ ctlHost \in HostViews /\ ctlSession \in Sessions
  BY DEF Observe, RefreshSession, ControlInv, ControlTypeOK
<1>2. ctlHost' \in HostViews /\ ctlHost'.lease = ctlHost.lease
  <2>1. CASE RefreshSession
    BY <1>1, <2>1 DEF RefreshSession, HostViews
  <2>2. CASE Observe
    <3>1. PICK l \in ctlLeases :
             ctlHost' = [ctlHost EXCEPT !.frame =
                [control |-> l.request.control, consumer |-> l.request.consumer,
                 epoch |-> l.request.epoch, observed_at |-> ctlNow]]
      BY <2>2 DEF Observe
    <3>2. [control |-> l.request.control, consumer |-> l.request.consumer,
           epoch |-> l.request.epoch, observed_at |-> ctlNow] \in Frames
      BY <1>1 DEF ControlInv, ControlTypeOK, ControlLeases, Requests, Frames
    <3> QED BY <1>1, <3>1, <3>2 DEF HostViews
  <2> QED BY <2>1, <2>2
<1>3. ControlTypeOK'
  BY <1>1, <1>2 DEF ControlInv, ControlTypeOK
<1>4. LeasesInTime' /\ OneLeasePerId' /\ OneLeasePerEpoch' /\ FencedNeverOpens'
  BY <1>1, SameLeasesKeep
<1>5. HostLeaseInstalled' /\ SentAdmissible'
  BY <1>1, <1>2, RetiringKeepsUses
<1>6. InputBounded'
  BY <1>1, <1>4, NoEffectBounded
<1> QED BY <1>3, <1>4, <1>5, <1>6 DEF ControlInv

\* Admission: the checks were made on the host's lease, which the driver has too.
LEMMA AdmitInputKeeps == ASSUME ControlInv, AdmitInput PROVE ControlInv'
<1>1. PICK x \in Clicks, u \in Consumers, deadline \in 1..MaxControlTime :
        LET l == ctlHost.lease
            f == ctlHost.frame
            a == [control |-> f.control, consumer |-> u, epoch |-> f.epoch,
                  observed_at |-> f.observed_at, not_after |-> deadline, x |-> x]
        IN /\ ctlSent = Nothing /\ l # Nothing /\ f # Nothing
           /\ ActionOfLease(a, l, ctlHost.session, f, ctlNow)
           /\ ctlSent' = [control |-> f.control, action |-> a]
           /\ ctlEffect' = Nothing /\ UNCHANGED <<ctlNow, ctlSession, ctlLeases, ctlFences, ctlHost>>
  BY DEF AdmitInput
<1> DEFINE l == ctlHost.lease
           f == ctlHost.frame
           a == [control |-> f.control, consumer |-> u, epoch |-> f.epoch,
                 observed_at |-> f.observed_at, not_after |-> deadline, x |-> x]
<1>2. /\ l \in ControlLeases /\ f \in Frames /\ ctlNow \in Nat
      /\ ActionOfLease(a, l, ctlHost.session, f, ctlNow) /\ l # Nothing
      /\ ctlSent' = [control |-> f.control, action |-> a]
      /\ ctlEffect' = Nothing /\ UNCHANGED <<ctlNow, ctlSession, ctlLeases, ctlFences, ctlHost>>
  BY <1>1 DEF ControlInv, ControlTypeOK, HostViews
<1>3. /\ a \in Inputs /\ a.control = f.control /\ a.not_after = deadline
      /\ a.observed_at = f.observed_at /\ deadline \in Nat /\ f.observed_at \in Nat
  BY <1>2, ControlConstants DEF Frames, Inputs
<1> HIDE DEF a, f, l
<1>4. l.request \in Requests /\ l.accepted_at \in Nat
  BY <1>2 DEF ControlLeases
<1>5. f.control = l.request.control /\ Admissible(a, l.request, l.accepted_at)
  <2>1. /\ f.control = l.request.control /\ l.accepted_at <= f.observed_at
        /\ a.consumer = l.request.consumer /\ a.epoch = l.request.epoch
        /\ "click" \in l.request.capabilities /\ a.x < FrameWidth
    BY <1>2 DEF ActionOfLease, FrameOfLease
  <2>2. /\ a.not_after <= MinOf(l.request.expires_at, SessionExpiry)
        /\ a.not_after - f.observed_at <= l.request.max_frame_age
    BY <1>2 DEF ActionOfLease, DeadlineBounded
  <2>3. l.request.expires_at \in Nat /\ SessionExpiry \in Nat
    BY <1>4, ControlConstants DEF Requests
  <2>4. a.not_after <= l.request.expires_at /\ a.not_after <= SessionExpiry
    BY <1>3, <2>2, <2>3 DEF MinOf
  <2> QED BY <1>3, <2>1, <2>2, <2>4 DEF Admissible
<1>6. \E k \in ctlLeases : k.request = l.request /\ k.accepted_at = l.accepted_at
  BY <1>2 DEF ControlInv, HostLeaseInstalled, Installed, l
<1>7. ctlSent' \in Sendings /\ ctlSent'.control = f.control /\ ctlSent'.action = a
  BY <1>2, <1>3 DEF Sendings, Frames
<1>8. SentAdmissible'
  BY <1>2, <1>5, <1>6, <1>7 DEF SentAdmissible, Admissible
<1>9. ControlTypeOK'
  BY <1>2, <1>7 DEF ControlInv, ControlTypeOK
<1>10. LeasesInTime' /\ OneLeasePerId' /\ OneLeasePerEpoch' /\ FencedNeverOpens'
  BY <1>2, SameLeasesKeep
<1>11. HostLeaseInstalled'
  BY <1>2 DEF ControlInv, HostLeaseInstalled, Installed
<1>12. InputBounded'
  BY <1>2, <1>10, NoEffectBounded
<1> QED BY <1>8, <1>9, <1>10, <1>11, <1>12 DEF ControlInv

\* Application: the lease the driver found by its id is the one the input was admitted under.
LEMMA ApplyInputKeeps == ASSUME ControlInv, ApplyInput PROVE ControlInv'
<1>1. PICK l \in ctlLeases :
         /\ l.request.control = ctlSent.control /\ l.state = "active"
         /\ l.request.epoch = ctlSession.epoch /\ ctlNow < ctlSent.action.not_after
         /\ ctlEffect' = [control |-> ctlSent.control, action |-> ctlSent.action,
                          lease |-> l, at |-> ctlNow]
  BY DEF ApplyInput
<1> DEFINE a == ctlSent.action
           q == l.request
<1>2. /\ ctlSent # Nothing /\ ctlSent' = Nothing /\ ctlNow \in Nat
      /\ UNCHANGED <<ctlNow, ctlSession, ctlLeases, ctlFences, ctlHost>>
  BY DEF ApplyInput, ControlInv, ControlTypeOK
<1>3. Admissible(a, q, l.accepted_at)
  <2>1. PICK k \in ctlLeases : /\ k.request.control = ctlSent.control
                               /\ Admissible(ctlSent.action, k.request, k.accepted_at)
    BY <1>2 DEF ControlInv, SentAdmissible
  <2>2. k = l
    BY <1>1, <2>1 DEF ControlInv, OneLeasePerId
  <2> QED BY <2>1, <2>2
<1>4. /\ q.issued_at \in Nat /\ q.expires_at \in Nat /\ q.max_frame_age \in Nat
      /\ l.accepted_at \in Nat /\ SessionExpiry \in Nat
      /\ q.issued_at <= l.accepted_at /\ l.accepted_at <= ctlNow
  BY ControlConstants DEF ControlInv, ControlTypeOK, ControlLeases, Requests, LeasesInTime
<1>5. a \in Inputs /\ a.observed_at \in Nat /\ a.not_after \in Nat
  BY <1>2 DEF ControlInv, ControlTypeOK, Sendings, Inputs
<1>6. ctlEffect'.action = a /\ ctlEffect'.lease = l /\ ctlEffect'.at = ctlNow
  BY <1>1
<1> HIDE DEF a, q
<1>7. /\ q.issued_at <= ctlNow /\ ctlNow < q.expires_at /\ ctlNow < SessionExpiry
      /\ ctlNow - a.observed_at < q.max_frame_age
  <2>1. /\ a.not_after <= q.expires_at /\ a.not_after <= SessionExpiry
        /\ a.not_after - a.observed_at <= q.max_frame_age /\ ctlNow < a.not_after
    BY <1>1, <1>3 DEF Admissible, a
  <2> QED BY <1>2, <1>4, <1>5, <2>1
<1>8. /\ l.accepted_at <= a.observed_at /\ a.consumer = q.consumer /\ a.epoch = q.epoch
      /\ "click" \in q.capabilities /\ a.x < FrameWidth
  BY <1>3 DEF Admissible
<1>9. LeasesInTime' /\ OneLeasePerId' /\ OneLeasePerEpoch' /\ FencedNeverOpens'
  BY <1>2, SameLeasesKeep
<1>10. InputBounded'
  BY <1>6, <1>7, <1>8, <1>9 DEF InputBounded, OneLeasePerEpoch, FencedNeverOpens, q
<1>11. HostLeaseInstalled' /\ SentAdmissible' /\ ControlTypeOK'
  BY <1>2 DEF ControlInv, HostLeaseInstalled, Installed, SentAdmissible, ControlTypeOK
<1> QED BY <1>9, <1>10, <1>11 DEF ControlInv

\* A lost input and the clock.
LEMMA LossAndTimeKeep == ASSUME ControlInv, InputLost \/ ControlTime PROVE ControlInv'
<1>1. /\ UNCHANGED <<ctlSession, ctlLeases, ctlFences, ctlHost>> /\ ctlEffect' = Nothing
      /\ ctlNow \in Nat /\ ctlNow' \in Nat /\ ctlNow <= ctlNow' /\ ctlSent' \in {ctlSent, Nothing}
  BY DEF InputLost, ControlTime, ControlInv, ControlTypeOK
<1>2. LeasesInTime' /\ OneLeasePerId' /\ OneLeasePerEpoch' /\ FencedNeverOpens'
  BY <1>1, SameLeasesKeep
<1>3. HostLeaseInstalled' /\ SentAdmissible' /\ ControlTypeOK'
  BY <1>1 DEF ControlInv, HostLeaseInstalled, Installed, SentAdmissible, Admissible, ControlTypeOK
<1>4. InputBounded'
  BY <1>1, <1>2, NoEffectBounded
<1> QED BY <1>2, <1>3, <1>4 DEF ControlInv

\* The invariant of human control.
THEOREM ControlInvariant == ControlSpec => []ControlInv
<1>1. ControlInv /\ [ControlNext]_controlVars => ControlInv'
  <2> SUFFICES ASSUME ControlInv, [ControlNext]_controlVars PROVE ControlInv'
    OBVIOUS
  <2>1. CASE TakeOver \/ Resume
    BY <2>1, ControlledKeeps DEF TakeOver, Resume
  <2>2. CASE UNCHANGED controlVars
    BY <2>2 DEF controlVars, ControlInv, ControlTypeOK, LeasesInTime, OneLeasePerId,
                OneLeasePerEpoch, FencedNeverOpens, HostLeaseInstalled, Installed,
                SentAdmissible, Admissible, InputBounded
  <2> QED BY <2>1, <2>2, OpenLeaseKeeps, RevokeKeeps, SnapshotsKeep, AdmitInputKeeps,
             ApplyInputKeeps, LossAndTimeKeep DEF ControlNext
<1> QED BY <1>1, ControlStarts, PTL DEF ControlSpec

\* InputBounded: whenever the driver gets to an input the host admitted, it is within the lease,
\* the session and the age of the frame; a fenced id never opens and an epoch has one lease.
THEOREM InputStaysBounded == ControlSpec => []InputBounded
BY ControlInvariant, PTL DEF ControlInv

-----------------------------------------------------------------------------
(***************************************************************************)
(* OperatorRuns, for any callers, requests and tenants.                    *)
(*                                                                         *)
(* The argument: a run and its idempotency key are recorded together, so   *)
(* a key's scope leads to one launch and a launch to one run; a control    *)
(* moves the run's sequence on, so no two controls of a run start from the *)
(* same one.  What a caller is told of another tenant's run is what it is  *)
(* told of no run.                                                         *)
(***************************************************************************)
KnownRecords == [launch : RunLaunches, state : RunStates, sequence : Nat, accepted_at : Nat,
                 state_changed_at : Nat]

RunsTypeOK == runNow \in Nat /\ runRecords \subseteq KnownRecords

RecordedInTime ==
    \A r \in runRecords : r.accepted_at <= r.state_changed_at /\ r.state_changed_at <= runNow

OneRunPerId ==
    \A r, q \in runRecords :
        r.launch.tenant_id = q.launch.tenant_id /\ r.launch.run_id = q.launch.run_id => r = q

\* Keys and runs belong together, one to one.
KeyOf(k, l) == k.launch = l /\ k.scope = LaunchScope(l.tenant_id, l)
OneKeyPerScope == \A k, j \in launchKeys : k.scope = j.scope => k = j
RunsHaveKeys == \A r \in runRecords : \E k \in launchKeys : KeyOf(k, r.launch)

\* An applied control was one of the caller's tenant, when the caller was entitled to it.
ControlEntitled(a) ==
    /\ a.control.expected_sequence \in {AnySequence, a.from}
    /\ a.by.issued_at <= a.at /\ a.at < a.by.expires_at
    /\ a.launch.tenant_id = a.by.tenant_id
ControlsEntitled == \A a \in controlLog : ControlEntitled(a)

\* The run has moved on since the control.
ControlsBehind ==
    \A a \in controlLog : /\ a.from \in Nat
                          /\ \E r \in runRecords : r.launch = a.launch /\ a.from < r.sequence
ControlsOnce ==
    /\ \A a, b \in controlLog : a.scope = b.scope => a = b
    /\ \A a, b \in controlLog : a # b /\ a.launch = b.launch => a.from # b.from

RunsInv == /\ RunsTypeOK /\ RecordedInTime /\ OneRunPerId /\ OneKeyPerScope /\ RunsHaveKeys
           /\ ControlsEntitled /\ ControlsBehind /\ ControlsOnce

\* A run that is moved on keeps its launch and its place.
LEMMA MovedKeeps ==
    ASSUME RunsInv, NEW r \in runRecords, NEW state \in RunStates
    PROVE  /\ Moved(r, state) \in KnownRecords
           /\ Moved(r, state).launch = r.launch /\ Moved(r, state).sequence = r.sequence + 1
           /\ Moved(r, state).accepted_at <= Moved(r, state).state_changed_at
           /\ Moved(r, state).state_changed_at = runNow
<1>1. r \in KnownRecords /\ runNow \in Nat
  BY DEF RunsInv, RunsTypeOK
<1>2. r.sequence + 1 \in Nat /\ r.accepted_at <= runNow
  BY <1>1 DEF KnownRecords, RunsInv, RecordedInTime
<1>3. Moved(r, state) = [r EXCEPT !.state = state, !.sequence = r.sequence + 1,
                                  !.state_changed_at = runNow]
  BY DEF Moved
<1> QED BY <1>1, <1>2, <1>3 DEF KnownRecords

\* Replacing a run by itself moved on keeps what is known of the runs.
LEMMA MovingKeepsRuns ==
    ASSUME RunsInv, NEW r \in runRecords, NEW state \in RunStates,
           runRecords' = (runRecords \ {r}) \cup {Moved(r, state)},
           UNCHANGED <<runNow, launchKeys>>
    PROVE  /\ RunsTypeOK' /\ RecordedInTime' /\ OneRunPerId' /\ OneKeyPerScope' /\ RunsHaveKeys'
           /\ \A q \in runRecords : \E k \in runRecords' :
                 k.launch = q.launch /\ q.sequence <= k.sequence
<1> DEFINE m == Moved(r, state)
<1>1. /\ m \in KnownRecords /\ m.launch = r.launch /\ m.sequence = r.sequence + 1
      /\ m.accepted_at <= m.state_changed_at /\ m.state_changed_at = runNow
  BY MovedKeeps
<1> HIDE DEF m
<1>2. runRecords' = (runRecords \ {r}) \cup {m} /\ runNow' = runNow /\ launchKeys' = launchKeys
  BY DEF m
<1>3. RunsTypeOK' /\ runNow \in Nat /\ \A q \in runRecords : q.sequence \in Nat
  BY <1>1, <1>2 DEF RunsInv, RunsTypeOK, KnownRecords
<1>4. RecordedInTime'
  BY <1>1, <1>2, <1>3 DEF RunsInv, RecordedInTime
<1>5. OneRunPerId' /\ OneKeyPerScope' /\ RunsHaveKeys'
  <2>1. \A k \in runRecords' : \E q \in runRecords : k.launch = q.launch /\ (k = m <=> q = r)
                                                    /\ (k # m => k = q)
    BY <1>1, <1>2 DEF RunsInv, OneRunPerId
  <2>2. OneRunPerId'
    BY <2>1 DEF RunsInv, OneRunPerId
  <2>3. OneKeyPerScope'
    BY <1>2 DEF RunsInv, OneKeyPerScope
  <2>4. RunsHaveKeys'
    BY <1>2, <2>1 DEF RunsInv, RunsHaveKeys, KeyOf
  <2> QED BY <2>2, <2>3, <2>4
<1>6. \A q \in runRecords : \E k \in runRecords' : k.launch = q.launch /\ q.sequence <= k.sequence
  BY <1>1, <1>2, <1>3
<1> QED BY <1>3, <1>4, <1>5, <1>6

\* LaunchRun: the scope of the key and the id of the run are new.
LEMMA LaunchKeeps == ASSUME RunsInv, LaunchRun PROVE RunsInv'
<1>1. PICK l \in RunLaunches, c \in RunContexts :
        /\ ValidLaunch(l) /\ ValidContext(c) /\ LaunchAuthorized(l, c)
        /\ ~\E k \in launchKeys : k.scope = LaunchScope(c.tenant_id, l)
        /\ ~\E r \in runRecords : r.launch.tenant_id = c.tenant_id /\ r.launch.run_id = l.run_id
        /\ runRecords' = runRecords \cup {NewRecord(l)}
        /\ launchKeys' = launchKeys \cup {[scope |-> LaunchScope(c.tenant_id, l), launch |-> l]}
        /\ UNCHANGED <<runNow, controlLog>>
  BY DEF LaunchRun
<1> DEFINE n == NewRecord(l)
           k == [scope |-> LaunchScope(c.tenant_id, l), launch |-> l]
<1>2. /\ n \in KnownRecords /\ n.launch = l /\ n.accepted_at = runNow
      /\ n.state_changed_at = runNow
  BY DEF NewRecord, KnownRecords, RunStates, RunsInv, RunsTypeOK
<1>3. l.tenant_id = c.tenant_id
  BY <1>1 DEF LaunchAuthorized
<1>4. KeyOf(k, l) /\ k.scope = LaunchScope(c.tenant_id, l)
  BY <1>3 DEF KeyOf
<1>5. runRecords' = runRecords \cup {n} /\ launchKeys' = launchKeys \cup {k}
      /\ UNCHANGED <<runNow, controlLog>>
  BY <1>1
<1> HIDE DEF n, k
<1>6. RunsTypeOK' /\ RecordedInTime'
  BY <1>2, <1>5 DEF RunsInv, RunsTypeOK, RecordedInTime
<1>7. OneRunPerId'
  BY <1>1, <1>2, <1>3, <1>5 DEF RunsInv, OneRunPerId
<1>8. OneKeyPerScope'
  BY <1>1, <1>4, <1>5 DEF RunsInv, OneKeyPerScope
<1>9. RunsHaveKeys'
  BY <1>2, <1>4, <1>5 DEF RunsInv, RunsHaveKeys, KeyOf, LaunchScope
<1>10. ControlsEntitled' /\ ControlsBehind' /\ ControlsOnce'
  BY <1>5 DEF RunsInv, ControlsEntitled, ControlEntitled, ControlsBehind, ControlsOnce
<1> QED BY <1>6, <1>7, <1>8, <1>9, <1>10 DEF RunsInv

\* A caller that is answered with a run is fresh, and the run is of its tenant.
LEMMA AnsweredWithOwnRun ==
    ASSUME NEW records, NEW control, NEW c, NEW answer \in ControlAnswer(records, control, c),
           "run" \in DOMAIN answer
    PROVE  /\ answer.run \in records /\ answer.run.launch.tenant_id = c.tenant_id /\ IsFresh(c)
<1>1. CASE ~ControlAuthorized(control, c)
  BY <1>1 DEF ControlAnswer
<1>2. CASE ControlAuthorized(control, c)
  <2> DEFINE action == RequiredAction(control)
             found == RunResolved(records, control.run_id, c)
  <2>1. answer \in ReadAnswer(records, control.run_id, c, action)
    BY <1>2 DEF ControlAnswer
  <2> HIDE DEF action
  <2>2. found # {}
    <3>1. found = {} => answer = [error |-> "not found"]
      BY <2>1 DEF ReadAnswer
    <3>2. "run" \notin DOMAIN [error |-> "not found"]
      OBVIOUS
    <3> QED BY <3>1, <3>2
  <2>3. PICK r \in found : answer = IF RecordDenial(r, c, action) = "none" THEN [run |-> r]
                                    ELSE [error |-> RecordDenial(r, c, action)]
    BY <2>1, <2>2 DEF ReadAnswer
  <2>4. RecordDenial(r, c, action) = "none" /\ answer.run = r
    BY <2>3
  <2>5. r \in records
    BY DEF RunResolved
  <2>6. r.launch.tenant_id = c.tenant_id
    BY <2>4 DEF RecordDenial
  <2> QED BY <1>2, <2>4, <2>5, <2>6 DEF ControlAuthorized
<1> QED BY <1>1, <1>2

\* ApplyControl: the scope is new, and the control starts from the run's current sequence.
LEMMA ControlKeeps == ASSUME RunsInv, ApplyControl PROVE RunsInv'
<1>1. PICK control \in RunControls, c \in RunContexts :
        \E answer \in ControlAnswer(runRecords, control, c) :
            /\ ValidControl(control) /\ ValidContext(c)
            /\ "run" \in DOMAIN answer
            /\ ~\E a \in controlLog : a.scope = ControlScope(c.tenant_id, control)
            /\ ~IsTerminal(answer.run.state) /\ answer.run.sequence < MaxRunSequence
            /\ control.expected_sequence \in {AnySequence, answer.run.sequence}
            /\ runRecords' = (runRecords \ {answer.run}) \cup {Moved(answer.run, ControlledState(control))}
            /\ controlLog' = controlLog \cup
                 {[scope |-> ControlScope(c.tenant_id, control), control |-> control, by |-> c,
                   launch |-> answer.run.launch, from |-> answer.run.sequence, at |-> runNow]}
            /\ UNCHANGED <<runNow, launchKeys>>
  BY DEF ApplyControl
<1>2. PICK answer \in ControlAnswer(runRecords, control, c) :
            /\ ValidControl(control) /\ ValidContext(c)
            /\ "run" \in DOMAIN answer
            /\ ~\E a \in controlLog : a.scope = ControlScope(c.tenant_id, control)
            /\ ~IsTerminal(answer.run.state) /\ answer.run.sequence < MaxRunSequence
            /\ control.expected_sequence \in {AnySequence, answer.run.sequence}
            /\ runRecords' = (runRecords \ {answer.run}) \cup {Moved(answer.run, ControlledState(control))}
            /\ controlLog' = controlLog \cup
                 {[scope |-> ControlScope(c.tenant_id, control), control |-> control, by |-> c,
                   launch |-> answer.run.launch, from |-> answer.run.sequence, at |-> runNow]}
            /\ UNCHANGED <<runNow, launchKeys>>
  BY <1>1
<1> DEFINE r == answer.run
           n == [scope |-> ControlScope(c.tenant_id, control), control |-> control, by |-> c,
                 launch |-> r.launch, from |-> r.sequence, at |-> runNow]
<1>3. r \in runRecords /\ r.launch.tenant_id = c.tenant_id /\ IsFresh(c)
  BY <1>2, AnsweredWithOwnRun
<1>4. /\ controlLog' = controlLog \cup {n}
      /\ runRecords' = (runRecords \ {r}) \cup {Moved(r, ControlledState(control))}
      /\ UNCHANGED <<runNow, launchKeys>>
      /\ \A a \in controlLog : a.scope # n.scope
      /\ control.expected_sequence \in {AnySequence, r.sequence}
  BY <1>2
<1>5. n.launch = r.launch /\ n.from = r.sequence /\ ControlEntitled(n)
  BY <1>3, <1>4 DEF ControlEntitled, IsFresh
<1> HIDE DEF n, r
<1>6. ControlledState(control) \in RunStates
  BY RunConstants DEF ControlledState, RunStates
<1>7. /\ RunsTypeOK' /\ RecordedInTime' /\ OneRunPerId' /\ OneKeyPerScope' /\ RunsHaveKeys'
      /\ \A q \in runRecords : \E k \in runRecords' :
            k.launch = q.launch /\ q.sequence <= k.sequence
  BY <1>3, <1>4, <1>6, MovingKeepsRuns
<1>8. ControlsEntitled'
  BY <1>4, <1>5 DEF RunsInv, ControlsEntitled, ControlEntitled
<1>9. /\ \A q \in runRecords : q.sequence \in Nat
      /\ \A q \in runRecords' : q.sequence \in Nat
      /\ r.sequence \in Nat
  BY <1>3, <1>7 DEF RunsInv, RunsTypeOK, KnownRecords
<1>10. \A a \in controlLog : a.launch = n.launch => a.from < r.sequence
  BY <1>3, <1>5 DEF RunsInv, ControlsBehind, OneRunPerId
<1>11. ControlsOnce'
  <2>1. \A a \in controlLog : a.from \in Nat
    BY DEF RunsInv, ControlsBehind
  <2> QED BY <1>4, <1>5, <1>9, <1>10, <2>1 DEF RunsInv, ControlsOnce
<1>12. ControlsBehind'
  <2>1. ASSUME NEW a \in controlLog PROVE
           a.from \in Nat /\ \E k \in runRecords' : k.launch = a.launch /\ a.from < k.sequence
    <3>1. PICK q \in runRecords : a.from \in Nat /\ q.launch = a.launch /\ a.from < q.sequence
      BY DEF RunsInv, ControlsBehind
    <3>2. PICK k \in runRecords' : k.launch = q.launch /\ q.sequence <= k.sequence
      BY <1>7
    <3> QED BY <1>9, <3>1, <3>2
  <2>2. n.from \in Nat /\ \E k \in runRecords' : k.launch = n.launch /\ n.from < k.sequence
    <3>1. /\ Moved(r, ControlledState(control)).launch = r.launch
          /\ Moved(r, ControlledState(control)).sequence = r.sequence + 1
      BY <1>3, <1>6, MovedKeeps
    <3> QED BY <1>4, <1>5, <1>9, <3>1
  <2> QED BY <1>4, <2>1, <2>2 DEF ControlsBehind
<1> QED BY <1>7, <1>8, <1>11, <1>12 DEF RunsInv

\* RunAdvances: a move without a control.
LEMMA AdvanceKeeps == ASSUME RunsInv, RunAdvances PROVE RunsInv'
<1>1. PICK r \in runRecords, state \in {"running", "succeeded", "failed"} :
        /\ state # r.state
        /\ ~IsTerminal(r.state) /\ r.sequence < MaxRunSequence
        /\ runRecords' = (runRecords \ {r}) \cup {Moved(r, state)}
        /\ UNCHANGED <<runNow, launchKeys, controlLog>>
  BY DEF RunAdvances
<1>2. state \in RunStates
  BY DEF RunStates
<1>3. /\ RunsTypeOK' /\ RecordedInTime' /\ OneRunPerId' /\ OneKeyPerScope' /\ RunsHaveKeys'
      /\ \A q \in runRecords : \E k \in runRecords' :
            k.launch = q.launch /\ q.sequence <= k.sequence
  BY <1>1, <1>2, MovingKeepsRuns
<1>4. /\ \A q \in runRecords : q.sequence \in Nat
      /\ \A q \in runRecords' : q.sequence \in Nat
  BY <1>3 DEF RunsInv, RunsTypeOK, KnownRecords
<1>5. ControlsBehind'
  <2> SUFFICES ASSUME NEW a \in controlLog
               PROVE  a.from \in Nat /\ \E k \in runRecords' : k.launch = a.launch /\ a.from < k.sequence
    BY <1>1 DEF ControlsBehind
  <2>1. PICK q \in runRecords : a.from \in Nat /\ q.launch = a.launch /\ a.from < q.sequence
    BY DEF RunsInv, ControlsBehind
  <2>2. PICK k \in runRecords' : k.launch = q.launch /\ q.sequence <= k.sequence
    BY <1>3
  <2> QED BY <1>4, <2>1, <2>2
<1>6. ControlsEntitled' /\ ControlsOnce'
  BY <1>1 DEF RunsInv, ControlsEntitled, ControlEntitled, ControlsOnce
<1> QED BY <1>3, <1>5, <1>6 DEF RunsInv

\* The invariant of the run plane.
THEOREM RunsInvariant == RunsSpec => []RunsInv
<1>1. RunsInit => RunsInv
  BY DEF RunsInit, RunsInv, RunsTypeOK, RecordedInTime, OneRunPerId, OneKeyPerScope, RunsHaveKeys,
         ControlsEntitled, ControlsBehind, ControlsOnce
<1>2. RunsInv /\ [RunsNext]_runVars => RunsInv'
  <2> SUFFICES ASSUME RunsInv, [RunsNext]_runVars PROVE RunsInv'
    OBVIOUS
  <2>1. CASE RunTime \/ UNCHANGED runVars
    <3>1. /\ UNCHANGED <<runRecords, launchKeys, controlLog>> /\ runNow \in Nat
          /\ runNow' \in Nat /\ runNow <= runNow'
      BY <2>1 DEF RunTime, runVars, RunsInv, RunsTypeOK
    <3>2. RunsTypeOK' /\ RecordedInTime'
      BY <3>1 DEF RunsInv, RunsTypeOK, RecordedInTime, KnownRecords
    <3> QED BY <3>1, <3>2 DEF RunsInv, OneRunPerId, OneKeyPerScope, RunsHaveKeys, KeyOf,
               LaunchScope, ControlsEntitled, ControlEntitled, ControlsBehind, ControlsOnce
  <2> QED BY <2>1, LaunchKeeps, ControlKeeps, AdvanceKeeps DEF RunsNext
<1> QED BY <1>1, <1>2, PTL DEF RunsSpec

\* RunsOnce: a key accepts one run for good and names it in every replay, a run exists once in its
\* tenant, and a control took effect once, from its sequence, for an entitled caller of the tenant.
THEOREM RunsHappenOnce == RunsSpec => []RunsOnce
<1>1. RunsInv => RunsOnce
  <2> SUFFICES ASSUME RunsInv PROVE RunsOnce
    OBVIOUS
  <2>1. ASSUME NEW r \in runRecords, NEW q \in runRecords, r # q,
               r.launch.tenant_id = q.launch.tenant_id
        PROVE  /\ r.launch.run_id # q.launch.run_id
               /\ r.launch.idempotency_key # q.launch.idempotency_key
    <3>1. r.launch.run_id # q.launch.run_id
      BY <2>1 DEF RunsInv, OneRunPerId
    <3>2. PICK k \in launchKeys, j \in launchKeys : KeyOf(k, r.launch) /\ KeyOf(j, q.launch)
      BY DEF RunsInv, RunsHaveKeys
    <3>3. ASSUME r.launch.idempotency_key = q.launch.idempotency_key PROVE FALSE
      <4>1. k.scope = j.scope
        BY <2>1, <3>2, <3>3 DEF KeyOf, LaunchScope
      <4>2. k = j
        BY <4>1 DEF RunsInv, OneKeyPerScope
      <4> QED BY <3>1, <3>2, <4>2 DEF KeyOf
    <3> QED BY <3>1, <3>3
  <2>2. ASSUME NEW r \in runRecords, NEW c \in RunContexts, r.launch.tenant_id = c.tenant_id
        PROVE  ReplayAnswer(r.launch, c) = {r.launch.run_id}
    <3>1. PICK k \in launchKeys : KeyOf(k, r.launch)
      BY DEF RunsInv, RunsHaveKeys
    <3>2. {j \in launchKeys : j.scope = LaunchScope(c.tenant_id, r.launch)} = {k}
      BY <2>2, <3>1 DEF RunsInv, OneKeyPerScope, KeyOf
    <3> QED BY <3>1, <3>2 DEF ReplayAnswer, KeyOf
  <2> QED BY <2>1, <2>2 DEF RunsOnce, RunsInv, ControlsOnce, ControlsEntitled, ControlEntitled,
             RecordedInTime
<1> QED BY <1>1, RunsInvariant, PTL

\* A read of an id is answered from the caller's own runs: a run of another tenant under that id
\* is answered as none.
LEMMA ReadFromOwnRuns ==
    ASSUME NEW records, NEW c, NEW id, NEW action
    PROVE  LET own == {r \in records : r.launch.tenant_id = c.tenant_id}
           IN  ReadAnswer(records, id, c, action) = ReadAnswer(own, id, c, action)
<1> DEFINE own == {r \in records : r.launch.tenant_id = c.tenant_id}
           mine == {r \in own : r.launch.run_id = id}
           named == {r \in records : r.launch.run_id = id}
<1>1. RunResolved(own, id, c) = mine
  BY DEF RunResolved
<1>2. RunResolved(records, id, c) = IF mine # {} THEN mine ELSE named
  BY DEF RunResolved
<1>3. CASE mine # {}
  BY <1>1, <1>2, <1>3 DEF ReadAnswer
<1>4. CASE mine = {}
  <2>1. ReadAnswer(own, id, c, action) = {[error |-> "not found"]}
    BY <1>1, <1>4 DEF ReadAnswer
  <2>2. \A r \in named : RecordDenial(r, c, action) = "not found"
    <3>1. \A r \in named : r.launch.tenant_id # c.tenant_id
      BY <1>4
    <3>2. ASSUME NEW r, r.launch.tenant_id # c.tenant_id
          PROVE  RecordDenial(r, c, action) = "not found"
      BY <3>2 DEF RecordDenial
    <3> QED BY <3>1, <3>2
  <2>3. {IF RecordDenial(r, c, action) = "none" THEN [run |-> r]
         ELSE [error |-> RecordDenial(r, c, action)] : r \in named}
        = {[error |-> "not found"] : r \in named}
    BY <2>2
  <2>4. ReadAnswer(records, id, c, action) = {[error |-> "not found"]}
    <3>1. CASE named = {}
      BY <1>2, <1>4, <3>1 DEF ReadAnswer
    <3>2. CASE named # {}
      <4>1. {[error |-> "not found"] : r \in named} = {[error |-> "not found"]}
        BY <3>2
      <4>2. RunResolved(records, id, c) = named
        BY <1>2, <1>4
      <4> HIDE DEF named
      <4> QED BY <2>3, <3>2, <4>1, <4>2 DEF ReadAnswer
    <3> QED BY <3>1, <3>2
  <2> QED BY <2>1, <2>4
<1> QED BY <1>3, <1>4

\* NoOracle: no answer of a read, a control or a list depends on the runs of other tenants,
\* whatever runs there are.
THEOREM NoOracleOfOthers == RunsSpec => []NoOracle
<1>1. NoOracle
  <2> SUFFICES ASSUME NEW c \in RunContexts
               PROVE  LET own == {r \in runRecords : r.launch.tenant_id = c.tenant_id}
                      IN /\ \A id, action :
                              ReadAnswer(runRecords, id, c, action) = ReadAnswer(own, id, c, action)
                         /\ \A control \in RunControls :
                              ControlAnswer(runRecords, control, c) = ControlAnswer(own, control, c)
                         /\ ListAnswer(runRecords, c) = ListAnswer(own, c)
    BY DEF NoOracle
  <2> DEFINE own == {r \in runRecords : r.launch.tenant_id = c.tenant_id}
  <2>1. \A id, action : ReadAnswer(runRecords, id, c, action) = ReadAnswer(own, id, c, action)
    BY ReadFromOwnRuns
  <2>2. {r \in runRecords : RecordDenial(r, c, "run.read") = "none"}
        = {r \in own : RecordDenial(r, c, "run.read") = "none"}
    BY DEF RecordDenial
  <2>3. ListAnswer(runRecords, c) = ListAnswer(own, c)
    BY <2>2 DEF ListAnswer
  <2> HIDE DEF own
  <2>4. \A control \in RunControls :
           ControlAnswer(runRecords, control, c) = ControlAnswer(own, control, c)
    BY <2>1 DEF ControlAnswer
  <2> QED BY <2>1, <2>3, <2>4 DEF own
<1> QED BY <1>1, PTL

(***************************************************************************)
(* DeferredDelivery, for any number of threads, destinations and wrappers. *)
(* The argument is that the factory is a single token: a result holds it,  *)
(* or one thread does, or it is spent.                                     *)
(***************************************************************************)
\* The tool's own result holds the token.
LEMMA InitDelivery == DeliveryInit => DeliveryInv
BY DeliveryConstants
   DEF DeliveryInit, DeliveryInv, DeliveryTypeOK, FactoryRunsOnce, NoEditDelivered, ContextOnlyInside, OneToken,
       Holders, Places, Results, Texts

\* Every step moves the token, spends it, or leaves it where it is.
LEMMA StepDelivery == DeliveryInv /\ [DeliveryNext]_deliveryVars => DeliveryInv'
<1> SUFFICES ASSUME DeliveryInv, [DeliveryNext]_deliveryVars PROVE DeliveryInv'
  OBVIOUS
<1> USE DeliveryConstants
    DEF DeliveryInv, DeliveryTypeOK, FactoryRunsOnce, NoEditDelivered, ContextOnlyInside, OneToken,
        Holders, Places, Results, Texts, At, resultVars, threadVars
<1>1. ASSUME NEW r \in Results, Edit(r) PROVE DeliveryInv'
  BY <1>1 DEF Edit
<1>2. ASSUME NEW t \in Threads, NEW r \in Results, ForTool(t, r) PROVE DeliveryInv'
  <2>1. factory = {r} /\ factory' = {} /\ r \in 1..made
    <3>1. r \in factory /\ factory' = factory \ {r}
      BY <1>2 DEF ForTool, TakeFactory
    <3>2. \A s \in factory : s = r
      BY <3>1
    <3>3. r \in 1..made
      BY <3>1
    <3> HIDE DEF DeliveryInv
    <3> QED BY <3>1, <3>2, <3>3
  <2>2. \A u \in Threads : at[u] = "idle"
    BY <2>1
  <2>3. context = None /\ runs # 1
    BY <2>1, <2>2
  <2>4. \A u \in Threads : at'[u] # "idle" => u = t /\ on'[u] = r /\ at'[u] \notin {"leave"}
    BY <1>2, <2>2 DEF ForTool
  <2>5. DeliveryTypeOK'
    BY <1>2, <2>1 DEF ForTool
  <2> QED BY <1>2, <2>1, <2>2, <2>3, <2>4, <2>5 DEF ForTool
<1>3. ASSUME NEW t \in Threads, NEW r \in Results, Finalize(t, r) PROVE DeliveryInv'
  <2>1. factory = {r} /\ factory' = {} /\ r \in 1..made
    <3>1. r \in factory /\ factory' = factory \ {r}
      BY <1>3 DEF Finalize, TakeFactory
    <3>2. \A s \in factory : s = r
      BY <3>1
    <3>3. r \in 1..made
      BY <3>1
    <3> HIDE DEF DeliveryInv
    <3> QED BY <3>1, <3>2, <3>3
  <2>2. \A u \in Threads : at[u] = "idle"
    BY <2>1
  <2>3. context = None /\ runs # 1
    BY <2>1, <2>2
  <2>4. \A u \in Threads : at'[u] # "idle" => u = t /\ on'[u] = r /\ at'[u] \notin {"leave"}
    BY <1>3, <2>2 DEF Finalize
  <2>5. DeliveryTypeOK'
    BY <1>3, <2>1 DEF Finalize
  <2> QED BY <1>3, <2>1, <2>2, <2>3, <2>4, <2>5 DEF Finalize
<1>4. ASSUME NEW t \in Threads, Wrap(t) PROVE DeliveryInv'
  BY <1>4 DEF Wrap
<1>5. ASSUME NEW t \in Threads, WrapRefused(t) PROVE DeliveryInv'
  BY <1>5 DEF WrapRefused
<1>6. ASSUME NEW t \in Threads, Withhold(t) PROVE DeliveryInv'
  BY <1>6 DEF Withhold
<1>7. ASSUME NEW t \in Threads, Decide(t) PROVE DeliveryInv'
  <2>1. on[t] \in Results /\ text[on[t]] = "tool"
    BY <1>7 DEF Decide
  <2>2. delivered' \subseteq {"tool"}
    BY <1>7, <2>1 DEF Decide
  <2>3. at' = [at EXCEPT ![t] = "enter"] /\ at[t] = "decide"
    BY <1>7 DEF Decide
  <2>4. UNCHANGED <<made, text, baseline, on, to, factory, context, runs>>
    BY <1>7 DEF Decide
  <2> QED BY <2>2, <2>3, <2>4
<1>8. ASSUME NEW t \in Threads, EnterContext(t) PROVE DeliveryInv'
  BY <1>8 DEF EnterContext
<1>9. ASSUME NEW t \in Threads, Publish(t) PROVE DeliveryInv'
  BY <1>9 DEF Publish
<1>10. ASSUME NEW t \in Threads, LeaveContext(t) PROVE DeliveryInv'
  BY <1>10 DEF LeaveContext
<1>11. CASE UNCHANGED deliveryVars
  BY <1>11 DEF deliveryVars
<1> QED
  BY <1>1, <1>2, <1>3, <1>4, <1>5, <1>6, <1>7, <1>8, <1>9, <1>10, <1>11 DEF DeliveryNext

-----------------------------------------------------------------------------
\* The token invariant holds throughout.
THEOREM DeliveryInvariant == DeliverySpec => []DeliveryInv
BY InitDelivery, StepDelivery, PTL DEF DeliverySpec

\* However wrappers, finalizers and hooks interleave, the factory runs at most once.
THEOREM FactoryIsOneShot == DeliverySpec => []FactoryRunsOnce
<1>1. DeliveryInv => FactoryRunsOnce
  BY DEF DeliveryInv
<1> QED BY <1>1, DeliveryInvariant, PTL

\* No envelope that a hook edited is delivered with its parts, whatever wraps it.
THEOREM EditsAreWithheld == DeliverySpec => []NoEditDelivered
<1>1. DeliveryInv => NoEditDelivered
  BY DEF DeliveryInv
<1> QED BY <1>1, DeliveryInvariant, PTL

\* A destination is visible only while the factory it is meant for is being run.
THEOREM ContextIsScoped == DeliverySpec => []ContextOnlyInside
<1>1. DeliveryInv => ContextOnlyInside
  BY DEF DeliveryInv
<1> QED BY <1>1, DeliveryInvariant, PTL

\* The three promises of finalize() and for_tool() together.
THEOREM DeliveryIsSafe == DeliverySpec => []DeliverySafe
<1>1. DeliveryInv => DeliverySafe
  BY DEF DeliveryInv, DeliverySafe
<1> QED BY <1>1, DeliveryInvariant, PTL
(***************************************************************************)
(* KeyFileSalt, for any number of processes and salts.                     *)
(*                                                                         *)
(* The argument: an entry only ever appears where there was none, so once  *)
(* a directory entry is durable no crash and no race changes the salt; and *)
(* a salt becomes a write key only after its entry is durable or because   *)
(* the operator configured it.                                             *)
(***************************************************************************)
\* Nothing is running, and nothing was written but legacy ciphertext.
LEMMA InitSalt == SaltInit => SaltInv
BY SaltConstants DEF SaltInit, SaltInv, SaltTypeOK, FileOrder, InFile, KeysKept, Kept, OnDisk, Keys, Maybe

\* Every step keeps the types.
LEMMA StepTypes == SaltInv /\ [SaltNext]_saltVars => SaltTypeOK'
<1> SUFFICES ASSUME SaltInv, [SaltNext]_saltVars PROVE SaltTypeOK'
  OBVIOUS
<1> USE DEF SaltInv, SaltTypeOK, Keys, Maybe, envVars, fileVars
<1>1. ASSUME NEW p \in Procs, Boot(p) PROVE SaltTypeOK'
  BY <1>1 DEF Boot
<1>2. ASSUME NEW p \in Procs, ResolveConfigured(p) PROVE SaltTypeOK'
  BY <1>2 DEF ResolveConfigured, Resolved
<1>3. ASSUME NEW p \in Procs, CheckFile(p) PROVE SaltTypeOK'
  BY <1>3 DEF CheckFile
<1>4. ASSUME NEW p \in Procs, PublishSalt(p) PROVE SaltTypeOK'
  BY <1>4 DEF PublishSalt
<1>5. ASSUME NEW p \in Procs, PublishFails(p) PROVE SaltTypeOK'
  BY <1>5 DEF PublishFails, Resolved
<1>6. ASSUME NEW p \in Procs, Load(p) PROVE SaltTypeOK'
  BY <1>6 DEF Load
<1>7. ASSUME NEW p \in Procs, CallFails(p) PROVE SaltTypeOK'
  BY <1>7 DEF CallFails
<1>8. ASSUME NEW p \in Procs, Sync(p) PROVE SaltTypeOK'
  BY <1>8 DEF Sync, Resolved, InFile
<1>9. ASSUME NEW p \in Procs, SyncFails(p) PROVE SaltTypeOK'
  BY <1>9 DEF SyncFails, Resolved
<1>10. ASSUME NEW p \in Procs, ResolveRead(p) PROVE SaltTypeOK'
  <2>1. ReadKeys \subseteq Keys
    BY DEF ReadKeys
  <2> QED BY <1>10, <2>1 DEF ResolveRead
<1>11. ASSUME NEW p \in Procs, Encrypt(p) PROVE SaltTypeOK'
  BY <1>11 DEF Encrypt
<1>12. ASSUME NEW p \in Procs, ExitProcess(p) PROVE SaltTypeOK'
  BY <1>12 DEF ExitProcess
<1>13. CASE HostCrash
  BY <1>13 DEF HostCrash
<1>14. CASE Reconfigure
  BY <1>14 DEF Reconfigure
<1>15. CASE UNCHANGED saltVars
  BY <1>15 DEF saltVars
<1> QED
  BY <1>1, <1>2, <1>3, <1>4, <1>5, <1>6, <1>7, <1>8, <1>9, <1>10, <1>11, <1>12, <1>13,
     <1>14, <1>15 DEF SaltNext

\* Every step keeps the order of the files and the position of the processes.
LEMMA StepFiles == SaltInv /\ [SaltNext]_saltVars => FileOrder' /\ InFile'
<1> SUFFICES ASSUME SaltInv, [SaltNext]_saltVars PROVE FileOrder' /\ InFile'
  OBVIOUS
<1> USE SaltConstants DEF SaltInv, SaltTypeOK, FileOrder, InFile, envVars, fileVars
<1>1. ASSUME NEW p \in Procs, Boot(p) PROVE FileOrder' /\ InFile'
  BY <1>1 DEF Boot
<1>2. ASSUME NEW p \in Procs, ResolveConfigured(p) PROVE FileOrder' /\ InFile'
  BY <1>2 DEF ResolveConfigured, Resolved
<1>3. ASSUME NEW p \in Procs, CheckFile(p) PROVE FileOrder' /\ InFile'
  BY <1>3 DEF CheckFile
<1>4. ASSUME NEW p \in Procs, PublishSalt(p) PROVE FileOrder' /\ InFile'
  BY <1>4 DEF PublishSalt
<1>5. ASSUME NEW p \in Procs, PublishFails(p) PROVE FileOrder' /\ InFile'
  BY <1>5 DEF PublishFails, Resolved
<1>6. ASSUME NEW p \in Procs, Load(p) PROVE FileOrder' /\ InFile'
  BY <1>6 DEF Load
<1>7. ASSUME NEW p \in Procs, CallFails(p) PROVE FileOrder' /\ InFile'
  BY <1>7 DEF CallFails
<1>8. ASSUME NEW p \in Procs, Sync(p) PROVE FileOrder' /\ InFile'
  BY <1>8 DEF Sync, Resolved
<1>9. ASSUME NEW p \in Procs, SyncFails(p) PROVE FileOrder' /\ InFile'
  BY <1>9 DEF SyncFails, Resolved
<1>10. ASSUME NEW p \in Procs, ResolveRead(p) PROVE FileOrder' /\ InFile'
  BY <1>10 DEF ResolveRead
<1>11. ASSUME NEW p \in Procs, Encrypt(p) PROVE FileOrder' /\ InFile'
  BY <1>11 DEF Encrypt
<1>12. ASSUME NEW p \in Procs, ExitProcess(p) PROVE FileOrder' /\ InFile'
  BY <1>12 DEF ExitProcess
<1>13. CASE HostCrash
  BY <1>13 DEF HostCrash
<1>14. CASE Reconfigure
  BY <1>14 DEF Reconfigure
<1>15. CASE UNCHANGED saltVars
  BY <1>15 DEF saltVars
<1> QED
  BY <1>1, <1>2, <1>3, <1>4, <1>5, <1>6, <1>7, <1>8, <1>9, <1>10, <1>11, <1>12, <1>13,
     <1>14, <1>15 DEF SaltNext

\* No step loses a key in use, but a crash of a host that cannot sync directories.
LEMMA KeptStays ==
    ASSUME SaltInv, [SaltNext]_saltVars
    PROVE  /\ lost => lost'
           /\ \A key \in Salts : OnDisk(key) => OnDisk(key)' \/ HostCrash
           /\ \A key \in Keys : Kept(key) => Kept(key)' \/ HostCrash
           /\ ~lost' => \A key \in Keys : Kept(key) => Kept(key)'
<1> USE SaltConstants DEF SaltInv, SaltTypeOK, FileOrder, Keys, envVars, fileVars
<1>1. configured # NoSalt => configured' = configured
  BY DEF SaltNext, saltVars, Boot, ResolveConfigured, CheckFile, PublishSalt, PublishFails, Load, CallFails,
         Sync, SyncFails, ResolveRead, Encrypt, ExitProcess, HostCrash, Reconfigure
<1>2. diskEntry # NoSalt => diskEntry' = diskEntry
  BY DEF SaltNext, saltVars, Boot, ResolveConfigured, CheckFile, PublishSalt, PublishFails, Load, CallFails,
         Sync, SyncFails, ResolveRead, Encrypt, ExitProcess, HostCrash, Reconfigure
<1>3. dirSync' = dirSync /\ (lost => lost')
  BY DEF SaltNext, saltVars, Boot, ResolveConfigured, CheckFile, PublishSalt, PublishFails, Load, CallFails,
         Sync, SyncFails, ResolveRead, Encrypt, ExitProcess, HostCrash, Reconfigure
<1>4. entry # NoSalt /\ ~HostCrash => entry' = entry
  BY DEF SaltNext, saltVars, Boot, ResolveConfigured, CheckFile, PublishSalt, PublishFails, Load, CallFails,
         Sync, SyncFails, ResolveRead, Encrypt, ExitProcess, HostCrash, Reconfigure
<1>5. entry # NoSalt /\ HostCrash /\ ~dirSync /\ ~lost' => entry' = entry
  BY DEF HostCrash
<1>6. \A key \in Salts : OnDisk(key) => OnDisk(key)' \/ (HostCrash /\ lost')
  BY <1>2, <1>3, <1>4, <1>5 DEF OnDisk
<1>7. \A key \in Keys : key # Legacy /\ OnDisk(key) => key \in Salts
  BY DEF OnDisk
<1>8. \A key \in Keys : Kept(key) => Kept(key)' \/ (HostCrash /\ lost')
  BY <1>1, <1>6, <1>7 DEF Kept
<1> QED BY <1>3, <1>6, <1>8

\* Every step leaves every key in use kept.
LEMMA StepKeys == SaltInv /\ [SaltNext]_saltVars => KeysKept'
<1> SUFFICES ASSUME SaltInv, [SaltNext]_saltVars PROVE KeysKept'
  OBVIOUS
<1>c. SaltTypeOK'
  BY StepTypes
<1>e. (lost => lost') /\ (~lost' => \A key \in Keys : Kept(key) => Kept(key)')
  BY KeptStays
<1>0. ASSUME ~HostCrash
      PROVE  /\ \A key \in Keys : Kept(key) => Kept(key)'
             /\ \A key \in Salts : OnDisk(key) => OnDisk(key)'
  BY <1>0, KeptStays
<1>h. ASSUME HostCrash PROVE KeysKept'
  <2>1. \A p \in Procs : stage'[p] = "down" /\ durable'[p] = {} /\ held'[p] = {}
    BY <1>h DEF HostCrash
  <2>2. stored' = stored /\ stored \subseteq Keys
    BY <1>h DEF HostCrash, SaltInv, SaltTypeOK
  <2> QED BY <1>e, <2>1, <2>2 DEF KeysKept, SaltInv
<1> SUFFICES ASSUME ~HostCrash PROVE KeysKept'
  BY <1>h
<1> USE SaltConstants DEF SaltInv, SaltTypeOK, KeysKept, envVars, fileVars, Keys
<1>1. ASSUME NEW p \in Procs, Boot(p) PROVE KeysKept'
  BY <1>0, <1>e, <1>1 DEF Boot
<1>2. ASSUME NEW p \in Procs, ResolveConfigured(p) PROVE KeysKept'
  <2>1. UNCHANGED <<dirSync, source, configured, entry, diskEntry, lost, durable, held, stored>>
    BY <1>2 DEF ResolveConfigured
  <2>2. /\ stage'[p] = "read"
        /\ \/ writer'[p] = configured /\ configured \in Salts
           \/ writer'[p] = Legacy /\ source = "bare" /\ configured = NoSalt
    <3>1. /\ stage'[p] = "read"
          /\ writer'[p] = IF configured # NoSalt THEN configured ELSE Legacy
          /\ configured # NoSalt \/ source = "bare"
      BY <1>2 DEF ResolveConfigured, Resolved
    <3> QED BY <3>1 DEF Maybe
  <2>3. \A q \in Procs : q # p => writer'[q] = writer[q] /\ stage'[q] = stage[q]
    BY <1>2 DEF ResolveConfigured, Resolved
  <2>4. durable' = durable /\ \A q \in Procs : stage'[q] = "down" => stage[q] = "down"
    BY <2>1, <2>2, <2>3
  <2> QED BY <1>0, <2>1, <2>2, <2>3, <2>4 DEF Kept
<1>3. ASSUME NEW p \in Procs, CheckFile(p) PROVE KeysKept'
  BY <1>0, <1>e, <1>3 DEF CheckFile
<1>4. ASSUME NEW p \in Procs, PublishSalt(p) PROVE KeysKept'
  BY <1>0, <1>e, <1>4 DEF PublishSalt
<1>5. ASSUME NEW p \in Procs, PublishFails(p) PROVE KeysKept'
  BY <1>0, <1>e, <1>5 DEF PublishFails, Resolved
<1>6. ASSUME NEW p \in Procs, Load(p) PROVE KeysKept'
  BY <1>0, <1>e, <1>6 DEF Load
<1>7. ASSUME NEW p \in Procs, CallFails(p) PROVE KeysKept'
  BY <1>0, <1>e, <1>7 DEF CallFails
<1>8. ASSUME NEW p \in Procs, Sync(p) PROVE KeysKept'
  <2>1. salt[p] = entry /\ entry # NoSalt /\ entry \in Salts
    BY <1>8 DEF Sync, InFile, Maybe
  <2>2. /\ UNCHANGED <<dirSync, source, configured, entry, lost, held, stored>>
        /\ durable' = [durable EXCEPT ![p] = @ \cup {salt[p]}]
        /\ diskEntry' = IF salt[p] \in durable[p] \/ ~dirSync THEN diskEntry ELSE entry
    BY <1>8 DEF Sync
  <2>3. OnDisk(entry)'
    BY <2>1, <2>2 DEF OnDisk
  <2>4. \A q \in Procs : \A key \in durable'[q] : OnDisk(key)'
    BY <1>0, <2>1, <2>2, <2>3
  <2>5. /\ writer'[p] = entry /\ stage'[p] = "read"
        /\ \A q \in Procs : q # p => writer'[q] = writer[q] /\ stage'[q] = stage[q]
    BY <1>8, <2>1 DEF Sync, Resolved
  <2>6. \A q \in Procs : stage[q] = "down" => q # p
    BY <1>8 DEF Sync
  <2> QED BY <1>0, <2>1, <2>2, <2>3, <2>4, <2>5, <2>6 DEF Kept
<1>9. ASSUME NEW p \in Procs, SyncFails(p) PROVE KeysKept'
  BY <1>0, <1>e, <1>9 DEF SyncFails, Resolved
<1>10. ASSUME NEW p \in Procs, ResolveRead(p) PROVE KeysKept'
  BY <1>0, <1>e, <1>10 DEF ResolveRead
<1>11. ASSUME NEW p \in Procs, Encrypt(p) PROVE KeysKept'
  BY <1>0, <1>e, <1>11 DEF Encrypt
<1>12. ASSUME NEW p \in Procs, ExitProcess(p) PROVE KeysKept'
  BY <1>0, <1>e, <1>12 DEF ExitProcess
<1>13. CASE HostCrash
  BY <1>13
<1>14. CASE Reconfigure
  BY <1>0, <1>e, <1>14 DEF Reconfigure
<1>15. CASE UNCHANGED saltVars
  BY <1>0, <1>e, <1>15 DEF saltVars
<1> QED
  BY <1>1, <1>2, <1>3, <1>4, <1>5, <1>6, <1>7, <1>8, <1>9, <1>10, <1>11, <1>12, <1>13,
     <1>14, <1>15 DEF SaltNext

-----------------------------------------------------------------------------
\* The strengthened invariant holds throughout: whatever is in use is kept.
THEOREM SaltInvariant == SaltSpec => []SaltInv
<1>1. SaltInv /\ [SaltNext]_saltVars => SaltInv'
  BY StepTypes, StepFiles, StepKeys DEF SaltInv
<1> QED BY <1>1, InitSalt, PTL DEF SaltSpec

\* In such a state the read keys cover what exists.
LEMMA CoversStored == SaltInv => AlwaysReadable
BY SaltConstants DEF SaltInv, SaltTypeOK, FileOrder, KeysKept, Kept, OnDisk, AlwaysReadable, ReadKeys, Keys,
                     Maybe

\* decrypt() finds the key of every ciphertext ever written, whatever processes race, die or
\* are refused, and whatever the host loses in a crash, unless it has no directory fsync.
THEOREM NothingStranded == SaltSpec => []AlwaysReadable
BY SaltInvariant, CoversStored, PTL

\* Processes that hold ciphers at the same time encrypt under one salt.
THEOREM FirstSaltWins == SaltSpec => []OneSalt
<1>1. SaltInv => OneSalt
  BY SaltConstants DEF SaltInv, SaltTypeOK, FileOrder, KeysKept, Kept, OnDisk, OneSalt, Keys, Maybe
<1> QED BY <1>1, SaltInvariant, PTL

\* Both together: no ciphertext is stranded by a crash or by a second salt, with that exception.
THEOREM SaltIsSafe == SaltSpec => []SaltSafe
BY NothingStranded, FirstSaltWins, PTL DEF SaltSafe

\* The read keys of a new cipher, also of one that refuses to write, cover what exists, unless
\* a host without directory fsync crashed and lost the salt.
THEOREM CiphersCover == SaltSpec => ReadersCoverStored
<1>1. ASSUME SaltInv, SaltNext, NEW p \in Procs, stage[p] = "read", stage'[p] = "idle", readers'[p] # {}
      PROVE  ~lost => stored \subseteq readers'[p]
  <2>1. ResolveRead(p)
    BY <1>1 DEF SaltNext, SaltInv, SaltTypeOK, Boot, ResolveConfigured, CheckFile, PublishSalt, PublishFails,
                Load, CallFails, Sync, SyncFails, ResolveRead, Encrypt, ExitProcess, HostCrash,
                Reconfigure, Resolved
  <2>2. readers'[p] = ReadKeys
    BY <1>1, <2>1 DEF ResolveRead, SaltInv, SaltTypeOK
  <2> QED BY <1>1, <2>2, CoversStored DEF AlwaysReadable
<1>2. SaltInv /\ [SaltNext]_saltVars =>
        [\A p \in Procs : stage[p] = "read" /\ stage'[p] = "idle" /\ readers'[p] # {} =>
            (~lost => stored \subseteq readers'[p])]_saltVars
  BY <1>1
<1> QED BY <1>2, SaltInvariant, PTL DEF SaltSpec, ReadersCoverStored

\* A salt whose directory entry is durable is never replaced or lost, not even by a crash.
THEOREM DurableSaltStays == SaltSpec => DurableSaltKept
<1>1. SaltInv /\ [SaltNext]_saltVars => [diskEntry # NoSalt => diskEntry' = diskEntry]_saltVars
  BY DEF SaltNext, saltVars, Boot, ResolveConfigured, CheckFile, PublishSalt, PublishFails, Load, CallFails,
         Sync, SyncFails, ResolveRead, Encrypt, ExitProcess, HostCrash, Reconfigure, SaltInv, FileOrder,
         envVars, fileVars
<1> QED BY <1>1, SaltInvariant, PTL DEF SaltSpec, DurableSaltKept

\* Once a salt can be had, nothing new is written under the unsalted key.
THEOREM LegacyIsReadOnly == SaltSpec => NoNewLegacy
<1>1. SaltInv /\ [SaltNext]_saltVars =>
        [source = "keyfile" \/ configured # NoSalt => (Legacy \in stored' => Legacy \in stored)]_saltVars
  BY DEF SaltNext, saltVars, Boot, ResolveConfigured, CheckFile, PublishSalt, PublishFails, Load, CallFails,
         Sync, SyncFails, ResolveRead, Encrypt, ExitProcess, HostCrash, Reconfigure, SaltInv, KeysKept,
         envVars, fileVars
<1> QED BY <1>1, SaltInvariant, PTL DEF SaltSpec, NoNewLegacy
=============================================================================
