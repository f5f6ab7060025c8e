------------------------- MODULE FeatureRpcProofs -------------------------
(***************************************************************************)
(* Theorems about host client and child service together: what a config    *)
(* transition may leave behind, that no awaited request is lost, and that  *)
(* the two sides implement the abstract handoff, for any number of callers *)
(* and requests and any configs, capabilities and pipe size.               *)
(***************************************************************************)
EXTENDS FeatureRpc, FeatureClientProofs, SequenceTheorems, FiniteSetTheorems

(***************************************************************************)
(* Where a request is.  An id is in one place: written to the child, being *)
(* handled, answered on the wire, or answered to its caller.               *)
(***************************************************************************)
Answered == {c \in Callers : InCall(c) /\ reply[c].kind \in {"result", "error"}}

Apart(to, jobs, from, done) ==
    /\ \A i, k \in 1..Len(to) : to[i].id = to[k].id => i = k
    /\ \A i, k \in 1..Len(from) : from[i].id = from[k].id => i = k
    /\ \A j, k \in jobs : j.req.id = k.req.id => j = k
    /\ \A i \in 1..Len(to), j \in jobs : to[i].id # j.req.id
    /\ \A i \in 1..Len(to), k \in 1..Len(from) : to[i].id # from[k].id
    /\ \A j \in jobs, k \in 1..Len(from) : j.req.id # from[k].id
    /\ \A i \in 1..Len(to) : to[i].id \notin done
    /\ \A j \in jobs : j.req.id \notin done
    /\ \A k \in 1..Len(from) : from[k].id \notin done

\* Ids come from the host's counter.
Numbered(to, jobs, from, n) ==
    /\ \A i \in 1..Len(to) : to[i].id \in 1..n
    /\ \A j \in jobs : j.req.id \in 1..n
    /\ \A k \in 1..Len(from) : from[k].id \in 1..n

AllJobs == inline \cup inflight
DoneIds == {rid[c] : c \in Answered}

\* A job holds the answer to its own request once it is to reply.
JobForms ==
    /\ \A j, k \in inline : j = k
    /\ inline # {} => serving = "inline"
    /\ \A j \in inline : j.req.method \in InlineMethods
    /\ \A j \in inflight : j.req.method \notin InlineMethods
    /\ \A j \in AllJobs :
          j.stage = "reply" => j.answer.kind \in {"result", "error"} /\ j.answer.id = j.req.id
    /\ \A i \in 1..Len(fromChild) : fromChild[i].kind \in {"result", "error"}

Placed ==
    /\ ServiceTypeOK
    /\ JobForms
    /\ Apart(toChild, AllJobs, fromChild, DoneIds)
    /\ Numbered(toChild, AllJobs, fromChild, nextId)

\* The child has what its callers sent.
AtChild == {toChild[i] : i \in 1..Len(toChild)} \cup {j.req : j \in AllJobs}

Matches ==
    \A c \in Callers, r \in AtChild :
        InCall(c) /\ rid[c] = r.id => r.method = op[c] /\ r.config = arg[c]

(***************************************************************************)
(* A config transition.  Until the host is fenced, a transition that the   *)
(* child has is awaited; until the child acts on it both keep the config,  *)
(* and the answer tells what the child did.                                *)
(***************************************************************************)
TransitionsOwned ==
    /\ \A r, s \in AtChild : r.method = "transition" /\ s.method = "transition" => r = s
    /\ \A r \in AtChild : r.method = "transition" => r.config \in Configs
    /\ ~restartRequired =>
          \A r \in AtChild : r.method = "transition" => \E c \in Callers : InTransition(c) /\ rid[c] = r.id

Kept == ~svcRestart /\ svcConfig \in {NoConfig, hostConfig}
Took(c) == ~svcRestart /\ svcConfig = arg[c]

Truthful(c, kind, value) ==
    /\ kind = "error" => Kept
    /\ kind = "result" /\ value = "applied" => Took(c)

AnswersTruthful(c) ==
    /\ Truthful(c, reply[c].kind, reply[c].value)
    /\ \A i \in 1..Len(fromChild) :
          fromChild[i].id = rid[c] => Truthful(c, fromChild[i].kind, fromChild[i].value)
    /\ \A j \in inline : j.req.id = rid[c] =>
          IF j.stage = "reply" THEN Truthful(c, j.answer.kind, j.answer.value) ELSE Kept
    /\ \A i \in 1..Len(toChild) : toChild[i].id = rid[c] => Kept

Transitions ==
    /\ TransitionsOwned
    /\ \A j \in inline : j.req.method = "transition" /\ j.stage = "run" => ~svcRestart
    /\ ~restartRequired =>
          /\ \A c \in Callers : InTransition(c) => AnswersTruthful(c)
          /\ (\A c \in Callers : ~InTransition(c)) => Kept

(***************************************************************************)
(* initialize comes first, and only once: the child has a config before    *)
(* its capabilities let the host ask for another.                          *)
(***************************************************************************)
Fresh(r) ==
    /\ r.id = 1 /\ r.config = hostConfig /\ caps.transition = "no" /\ svcConfig = NoConfig

Initializes ==
    /\ restartRequired \/ (\E c \in Callers : InTransition(c)) => caps.transition # "no"
    /\ caps.transition # "no" => svcConfig # NoConfig
    /\ nextId = 0 => svcConfig = NoConfig
    /\ \A i \in 1..Len(toChild) : toChild[i].method = "initialize" => Fresh(toChild[i])
    /\ \A j \in inline : j.req.method = "initialize" =>
          IF j.stage = "new" THEN Fresh(j.req) ELSE j.req.id = 1 /\ svcConfig # NoConfig
    /\ \A c \in Callers : InCall(c) /\ op[c] = "initialize" =>
          /\ rid[c] = 1 /\ caps.transition = "no"
          /\ reply[c].kind = "result" => svcConfig # NoConfig
          /\ \A i \in 1..Len(fromChild) : fromChild[i].id = 1 => svcConfig # NoConfig

RpcInv == ClientInv /\ Placed /\ Matches /\ NoRequestLost /\ Transitions /\ Initializes

-----------------------------------------------------------------------------
\* A request that is written gets a new id.
LEMMA ApartWritten ==
    ASSUME NEW R, NEW L, NEW J, NEW done, NEW to \in Seq(R), NEW from \in Seq(L), NEW r \in R, NEW n \in Nat,
           Apart(to, J, from, done), Numbered(to, J, from, n), done \subseteq 1..n, r.id = n + 1
    PROVE  /\ Apart(Append(to, r), J, from, done)
           /\ Numbered(Append(to, r), J, from, n + 1)
<1> DEFINE t == Append(to, r)
<1>1. /\ Len(to) \in Nat /\ Len(t) = Len(to) + 1 /\ t[Len(to) + 1] = r
      /\ \A i \in 1..Len(to) : t[i] = to[i]
  BY AppendProperties
<1> HIDE DEF t
<1>2. \A i \in 1..Len(t) : \/ i \in 1..Len(to) /\ t[i] = to[i] /\ t[i].id \in 1..n
                           \/ i = Len(to) + 1 /\ t[i].id = n + 1
  BY <1>1 DEF Numbered
<1>3. n + 1 \notin 1..n
  OBVIOUS
<1>4. Numbered(t, J, from, n + 1)
  <2>1. \A x \in 1..n : x \in 1..n + 1
    OBVIOUS
  <2> QED BY <1>2, <2>1 DEF Numbered
<1>5. \A i, k \in 1..Len(t) : t[i].id = t[k].id => i = k
  <2> SUFFICES ASSUME NEW i \in 1..Len(t), NEW k \in 1..Len(t), t[i].id = t[k].id PROVE i = k
    OBVIOUS
  <2>1. \A a, b \in 1..Len(to) : to[a].id = to[b].id => a = b
    BY DEF Apart
  <2>2. CASE i \in 1..Len(to) /\ t[i] = to[i] /\ t[i].id \in 1..n
    <3>1. t[k].id # n + 1
      BY <1>3, <2>2
    <3>2. k \in 1..Len(to) /\ t[k] = to[k]
      BY <1>2, <3>1
    <3> QED BY <2>1, <2>2, <3>2
  <2>3. CASE i = Len(to) + 1 /\ t[i].id = n + 1
    BY <1>2, <1>3, <2>3
  <2> QED BY <1>2, <2>2, <2>3
<1>6. /\ \A i \in 1..Len(t), j \in J : t[i].id # j.req.id
      /\ \A i \in 1..Len(t), k \in 1..Len(from) : t[i].id # from[k].id
      /\ \A i \in 1..Len(t) : t[i].id \notin done
  <2> SUFFICES ASSUME NEW i \in 1..Len(t)
               PROVE  /\ \A j \in J : t[i].id # j.req.id
                      /\ \A k \in 1..Len(from) : t[i].id # from[k].id
                      /\ t[i].id \notin done
    OBVIOUS
  <2>1. CASE i \in 1..Len(to) /\ t[i] = to[i]
    BY <2>1 DEF Apart
  <2>2. CASE t[i].id = n + 1
    BY <1>3, <2>2 DEF Numbered
  <2> QED BY <1>2, <2>1, <2>2
<1> QED BY <1>4, <1>5, <1>6 DEF Apart, t

\* The child takes the oldest frame and makes a job of it.
LEMMA ApartRead ==
    ASSUME NEW R, NEW L, NEW J, NEW done, NEW to \in Seq(R), NEW from \in Seq(L), NEW n \in Nat, NEW job,
           Apart(to, J, from, done), Numbered(to, J, from, n), to # <<>>, job.req = Head(to)
    PROVE  /\ Apart(Tail(to), J \cup {job}, from, done)
           /\ Numbered(Tail(to), J \cup {job}, from, n)
<1> DEFINE t == Tail(to)
<1>1. /\ Len(to) \in Nat /\ 1 \in 1..Len(to) /\ Len(t) = Len(to) - 1 /\ job.req = to[1]
      /\ \A i \in 1..Len(t) : t[i] = to[i + 1]
  BY HeadTailProperties
<1> HIDE DEF t
<1>2. \A i \in 1..Len(t) : t[i] = to[i + 1] /\ i + 1 \in 1..Len(to) /\ i + 1 # 1
  BY <1>1
<1>3. Numbered(t, J \cup {job}, from, n)
  BY <1>1, <1>2 DEF Numbered
<1>4. \A i, k \in 1..Len(t) : t[i].id = t[k].id => i = k
  <2> SUFFICES ASSUME NEW i \in 1..Len(t), NEW k \in 1..Len(t), t[i].id = t[k].id PROVE i = k
    OBVIOUS
  <2>1. t[i] = to[i + 1] /\ t[k] = to[k + 1] /\ i + 1 \in 1..Len(to) /\ k + 1 \in 1..Len(to)
    BY <1>2
  <2>2. i + 1 = k + 1
    BY <2>1 DEF Apart
  <2> QED BY <2>2
<1>5. \A j, k \in J \cup {job} : j.req.id = k.req.id => j = k
  BY <1>1 DEF Apart
<1>6. /\ \A i \in 1..Len(t), j \in J \cup {job} : t[i].id # j.req.id
      /\ \A i \in 1..Len(t), k \in 1..Len(from) : t[i].id # from[k].id
      /\ \A i \in 1..Len(t) : t[i].id \notin done
  <2> SUFFICES ASSUME NEW i \in 1..Len(t)
               PROVE  /\ \A j \in J \cup {job} : t[i].id # j.req.id
                      /\ \A k \in 1..Len(from) : t[i].id # from[k].id
                      /\ t[i].id \notin done
    OBVIOUS
  <2>1. t[i] = to[i + 1] /\ i + 1 \in 1..Len(to) /\ i + 1 # 1
    BY <1>2
  <2>2. to[i + 1].id # to[1].id
    BY <1>1, <2>1 DEF Apart
  <2> QED BY <1>1, <2>1, <2>2 DEF Apart
<1>7. /\ \A j \in J \cup {job}, k \in 1..Len(from) : j.req.id # from[k].id
      /\ \A j \in J \cup {job} : j.req.id \notin done
  BY <1>1 DEF Apart
<1> QED BY <1>3, <1>4, <1>5, <1>6, <1>7 DEF Apart, t

\* A job goes on with its request, or is dropped.
LEMMA ApartStep ==
    ASSUME NEW to, NEW from, NEW J, NEW K, NEW done, NEW n, NEW job \in J, NEW next,
           Apart(to, J, from, done), Numbered(to, J, from, n), next.req = job.req,
           K \subseteq (J \ {job}) \cup {next}
    PROVE  Apart(to, K, from, done) /\ Numbered(to, K, from, n)
<1>1. \A j \in K : (j \in J /\ j # job) \/ (j = next /\ j.req = job.req)
  OBVIOUS
<1>2. \A j, k \in K : j.req.id = k.req.id => j = k
  BY <1>1 DEF Apart
<1>3. \A j \in K : \E k \in J : j.req = k.req
  BY <1>1
<1>4. /\ \A j \in K, i \in 1..Len(to) : to[i].id # j.req.id
      /\ \A j \in K, i \in 1..Len(from) : j.req.id # from[i].id
      /\ \A j \in K : j.req.id \notin done /\ j.req.id \in 1..n
  BY <1>3 DEF Apart, Numbered
<1> QED BY <1>2, <1>4 DEF Apart, Numbered

\* A job is answered.
LEMMA ApartReply ==
    ASSUME NEW R, NEW L, NEW J, NEW done, NEW to \in Seq(R), NEW from \in Seq(L), NEW n \in Nat, NEW job \in J,
           NEW a \in L, Apart(to, J, from, done), Numbered(to, J, from, n), a.id = job.req.id
    PROVE  /\ Apart(to, J \ {job}, Append(from, a), done)
           /\ Numbered(to, J \ {job}, Append(from, a), n)
<1> DEFINE f == Append(from, a)
<1>1. /\ Len(from) \in Nat /\ Len(f) = Len(from) + 1 /\ f[Len(from) + 1] = a
      /\ \A i \in 1..Len(from) : f[i] = from[i]
  BY AppendProperties
<1> HIDE DEF f
<1>2. \A i \in 1..Len(f) : (i \in 1..Len(from) /\ f[i] = from[i]) \/ (i = Len(from) + 1 /\ f[i].id = job.req.id)
  BY <1>1
<1>3. \A i, k \in 1..Len(f) : f[i].id = f[k].id => i = k
  BY <1>1, <1>2 DEF Apart
<1>4. /\ \A i \in 1..Len(to), k \in 1..Len(f) : to[i].id # f[k].id
      /\ \A j \in J \ {job}, k \in 1..Len(f) : j.req.id # f[k].id
      /\ \A k \in 1..Len(f) : f[k].id \notin done /\ f[k].id \in 1..n
  <2> SUFFICES ASSUME NEW k \in 1..Len(f)
               PROVE  /\ \A i \in 1..Len(to) : to[i].id # f[k].id
                      /\ \A j \in J \ {job} : j.req.id # f[k].id
                      /\ f[k].id \notin done /\ f[k].id \in 1..n
    OBVIOUS
  <2>1. CASE k \in 1..Len(from) /\ f[k] = from[k]
    BY <2>1 DEF Apart, Numbered
  <2>2. CASE f[k].id = job.req.id
    BY <2>2 DEF Apart, Numbered
  <2> QED BY <1>2, <2>1, <2>2
<1> QED BY <1>3, <1>4 DEF Apart, Numbered, f

\* The read loop takes the oldest answer.
LEMMA ApartTaken ==
    ASSUME NEW L, NEW J, NEW done, NEW more, NEW to, NEW from \in Seq(L), NEW n \in Nat,
           Apart(to, J, from, done), Numbered(to, J, from, n), from # <<>>,
           more \subseteq done \cup {Head(from).id}
    PROVE  /\ Apart(to, J, Tail(from), more)
           /\ Numbered(to, J, Tail(from), n)
<1> DEFINE f == Tail(from)
<1>1. /\ Len(from) \in Nat /\ 1 \in 1..Len(from) /\ Len(f) = Len(from) - 1 /\ Head(from) = from[1]
      /\ \A i \in 1..Len(f) : f[i] = from[i + 1]
  BY HeadTailProperties
<1> HIDE DEF f
<1>2. \A i \in 1..Len(f) : f[i] = from[i + 1] /\ i + 1 \in 1..Len(from) /\ i + 1 # 1
  BY <1>1
<1>3. \A i, k \in 1..Len(f) : f[i].id = f[k].id => i = k
  <2> SUFFICES ASSUME NEW i \in 1..Len(f), NEW k \in 1..Len(f), f[i].id = f[k].id PROVE i = k
    OBVIOUS
  <2>1. \A a, b \in 1..Len(from) : from[a].id = from[b].id => a = b
    BY DEF Apart
  <2>2. PICK a \in 1..Len(from), b \in 1..Len(from) :
              a = i + 1 /\ b = k + 1 /\ f[i] = from[a] /\ f[k] = from[b]
    BY <1>2
  <2>3. a = b
    BY <2>1, <2>2
  <2> QED BY <2>2, <2>3
<1>4. /\ \A i \in 1..Len(to), k \in 1..Len(f) : to[i].id # f[k].id
      /\ \A j \in J, k \in 1..Len(f) : j.req.id # f[k].id
      /\ \A k \in 1..Len(f) : f[k].id \in 1..n
  <2> SUFFICES ASSUME NEW k \in 1..Len(f)
               PROVE  /\ \A i \in 1..Len(to) : to[i].id # f[k].id
                      /\ \A j \in J : j.req.id # f[k].id
                      /\ f[k].id \in 1..n
    OBVIOUS
  <2>1. f[k] = from[k + 1] /\ k + 1 \in 1..Len(from)
    BY <1>2
  <2> QED BY <2>1 DEF Apart, Numbered
<1>5. \A k \in 1..Len(f) : f[k].id \notin done /\ f[k].id # Head(from).id
  BY <1>1, <1>2 DEF Apart
<1>6. /\ \A i \in 1..Len(to) : to[i].id \notin done /\ to[i].id # Head(from).id
      /\ \A j \in J : j.req.id \notin done /\ j.req.id # Head(from).id
  BY <1>1 DEF Apart
<1> QED BY <1>3, <1>4, <1>5, <1>6 DEF Apart, Numbered, f

\* Jobs, frames or answers are dropped, or a caller no longer waits.
LEMMA ApartFewer ==
    ASSUME NEW to, NEW from, NEW J, NEW done, NEW n, NEW K, NEW fewer, NEW t, NEW f,
           Apart(to, J, from, done), Numbered(to, J, from, n),
           t = to \/ t = <<>>, f = from \/ f = <<>>, K \subseteq J, fewer \subseteq done
    PROVE  Apart(t, K, f, fewer) /\ Numbered(t, K, f, n)
<1>1. (t = to \/ Len(t) = 0) /\ (f = from \/ Len(f) = 0)
  OBVIOUS
<1>2. 1..0 = {}
  OBVIOUS
<1> QED BY <1>1, <1>2 DEF Apart, Numbered

-----------------------------------------------------------------------------
\* The three facts about where requests are.
Places == Placed /\ Matches /\ NoRequestLost

\* The state behind them has its type.
LEMMA PlacesTypes ==
    ASSUME TypeOK, Placed
    PROVE  /\ toChild \in Seq(Requests) /\ fromChild \in Seq(Lines) /\ nextId \in Nat
           /\ Len(toChild) \in Nat /\ DOMAIN toChild = 1..Len(toChild)
           /\ Len(fromChild) \in Nat /\ DOMAIN fromChild = 1..Len(fromChild)
           /\ AllJobs \subseteq Jobs /\ inline \subseteq AllJobs /\ inflight \subseteq AllJobs
           /\ \A j \in AllJobs : j.req \in Requests /\ j.answer \in Lines
           /\ \A i \in 1..Len(toChild) : toChild[i] \in AtChild
           /\ \A j \in AllJobs : j.req \in AtChild
           /\ \A r \in AtChild : (\E i \in 1..Len(toChild) : r = toChild[i]) \/ (\E j \in AllJobs : r = j.req)
<1>1. toChild \in Seq(Requests) /\ fromChild \in Seq(Lines) /\ nextId \in Nat
  BY DEF TypeOK, WireTypeOK
<1>2. /\ Len(toChild) \in Nat /\ DOMAIN toChild = 1..Len(toChild)
      /\ Len(fromChild) \in Nat /\ DOMAIN fromChild = 1..Len(fromChild)
  BY <1>1, LenProperties
<1>3. AllJobs \subseteq Jobs /\ inline \subseteq AllJobs /\ inflight \subseteq AllJobs
  BY DEF Placed, ServiceTypeOK, AllJobs
<1>4. \A j \in AllJobs : j.req \in Requests /\ j.answer \in Lines
  BY <1>3 DEF Jobs
<1>5. /\ \A i \in 1..Len(toChild) : toChild[i] \in AtChild
      /\ \A j \in AllJobs : j.req \in AtChild
      /\ \A r \in AtChild : (\E i \in 1..Len(toChild) : r = toChild[i]) \/ (\E j \in AllJobs : r = j.req)
  BY DEF AtChild
<1> QED BY <1>1, <1>2, <1>3, <1>4, <1>5

\* Answered calls have ids the host has given out.
LEMMA DoneNumbered == ASSUME ClientInv PROVE DoneIds \subseteq 1..nextId
BY DEF ClientInv, OwnIds, DoneIds, Answered

\* The host does not write: calls end or fail, the read loop or close() ends the stream.
LEMMA HostPlaces ==
    ASSUME ClientInv, ClientInv', Places, UNCHANGED <<serviceVars, nextId, toChild>>,
           fromChild' = fromChild \/ (fromChild' = <<>> /\ ~outOpen'),
           inOpen' = inOpen \/ ~inOpen', outOpen' = outOpen \/ ~outOpen', pending' \subseteq pending,
           \A d \in Callers : InCall(d)' =>
              /\ InCall(d) /\ op'[d] = op[d] /\ arg'[d] = arg[d] /\ rid'[d] = rid[d]
              /\ reply'[d] = reply[d] \/ reply'[d].kind \notin {"result", "error"}
    PROVE  Places'
<1>1. UNCHANGED <<serving, inline, inflight, svcStopping, svcRestart, svcConfig, svcCaps>>
  BY DEF serviceVars
<1>2. AllJobs' = AllJobs /\ AtChild' = AtChild
  BY <1>1 DEF AllJobs, AtChild
<1>3. DoneIds' \subseteq DoneIds
  BY DEF DoneIds, Answered
<1>4. Placed'
  <2>1. Apart(toChild, AllJobs, fromChild', DoneIds') /\ Numbered(toChild, AllJobs, fromChild', nextId)
    BY <1>3, ApartFewer DEF Places, Placed
  <2>2. ServiceTypeOK' /\ JobForms'
    <3>1. \A i \in 1..Len(fromChild') : fromChild'[i].kind \in {"result", "error"}
      BY DEF Places, Placed, JobForms
    <3> QED BY <1>1, <1>2, <3>1 DEF Places, Placed, ServiceTypeOK, JobForms
  <2> QED BY <1>2, <2>1, <2>2 DEF Placed
<1>5. Matches'
  BY <1>2 DEF Places, Matches
<1>6. NoRequestLost'
  <2>1. Leaving => Leaving'
    BY <1>1 DEF Leaving
  <2>2. fromChild' = fromChild \/ Leaving'
    BY DEF Leaving
  <2> QED BY <1>1, <2>1, <2>2 DEF Places, NoRequestLost
<1> QED BY <1>4, <1>5, <1>6 DEF Places

\* request(): a frame with a new id, unless the pipe is broken.
LEMMA IssuePlaces ==
    ASSUME ClientInv, ClientInv', Places, NEW c \in Callers, NEW m \in Methods, NEW g \in Configs \cup {NoConfig},
           Issue(c, m, g), ~InCall(c), UNCHANGED serviceVars
    PROVE  Places'
<1>1. UNCHANGED <<serving, inline, inflight, svcStopping, svcRestart, svcConfig, svcCaps>>
  BY DEF serviceVars
<1>2. TypeOK /\ Placed
  BY DEF ClientInv, Places
<1> DEFINE r == Request(nextId + 1, m, g)
<1>3. /\ nextId' = nextId + 1 /\ pending' = pending \cup {nextId + 1}
      /\ toChild' = (IF inOpen THEN Append(toChild, r) ELSE toChild)
      /\ pc' = [pc EXCEPT ![c] = "drain"] /\ op' = [op EXCEPT ![c] = m]
      /\ arg' = [arg EXCEPT ![c] = g] /\ rid' = [rid EXCEPT ![c] = nextId + 1]
      /\ UNCHANGED <<reply, fromChild, inOpen, outOpen>>
  BY DEF Issue
<1>4. r \in Requests /\ r.id = nextId + 1 /\ r.method = m /\ r.config = g
  BY <1>2, PlacesTypes, Pieces DEF Request
<1> HIDE DEF r
<1>5. /\ InCall(c)' /\ op'[c] = m /\ arg'[c] = g /\ rid'[c] = nextId + 1
      /\ \A d \in Callers : d # c => /\ InCall(d)' <=> InCall(d)
                                     /\ op'[d] = op[d] /\ arg'[d] = arg[d] /\ rid'[d] = rid[d]
  BY <1>2, <1>3 DEF TypeOK, InCall
<1>6. AllJobs' = AllJobs /\ AtChild' \subseteq AtChild \cup {r}
  <2>1. AllJobs' = AllJobs
    BY <1>1 DEF AllJobs
  <2>2. \A i \in 1..Len(toChild') : toChild'[i] \in AtChild \cup {r}
    <3>1. CASE inOpen
      <4>1. /\ Len(toChild') = Len(toChild) + 1 /\ toChild'[Len(toChild) + 1] = r
            /\ \A i \in 1..Len(toChild) : toChild'[i] = toChild[i]
        BY <1>2, <1>3, <1>4, <3>1, PlacesTypes, AppendProperties
      <4> QED BY <1>2, <4>1, PlacesTypes
    <3>2. CASE ~inOpen
      BY <1>2, <1>3, <3>2, PlacesTypes
    <3> QED BY <3>1, <3>2
  <2> QED BY <2>1, <2>2 DEF AtChild
<1>7. DoneIds' = DoneIds
  <2>1. reply[c].kind = "none"
    BY DEF ClientInv, NoStaleReply
  <2>2. Answered' = Answered
    BY <1>3, <1>5, <2>1 DEF Answered
  <2>3. \A d \in Answered : rid'[d] = rid[d]
    BY <1>5, <2>1 DEF Answered
  <2> QED BY <2>2, <2>3 DEF DoneIds
<1>8. Apart(toChild', AllJobs, fromChild, DoneIds) /\ Numbered(toChild', AllJobs, fromChild, nextId + 1)
  <2>1. CASE inOpen
    BY <1>2, <1>3, <1>4, <2>1, ApartWritten, DoneNumbered, PlacesTypes DEF Placed
  <2>2. CASE ~inOpen
    <3>1. \A x \in 1..nextId : x \in 1..nextId + 1
      BY <1>2, PlacesTypes
    <3> QED BY <1>2, <1>3, <2>2, <3>1 DEF Placed, Numbered
  <2> QED BY <2>1, <2>2
<1>9. Placed'
  <2>1. ServiceTypeOK' /\ JobForms'
    BY <1>1, <1>2, <1>3, <1>6 DEF Placed, ServiceTypeOK, JobForms
  <2> QED BY <1>3, <1>6, <1>7, <1>8, <2>1 DEF Placed
<1>10. \A s \in AtChild : s.id # nextId + 1
  <2>1. \A s \in AtChild : s.id \in 1..nextId
    BY <1>2, PlacesTypes DEF Placed, Numbered
  <2>2. nextId + 1 \notin 1..nextId
    BY <1>2, PlacesTypes
  <2> QED BY <2>1, <2>2
<1>11. Matches'
  <2> SUFFICES ASSUME NEW d \in Callers, NEW s \in AtChild \cup {r}, InCall(d)', rid'[d] = s.id
               PROVE  s.method = op'[d] /\ s.config = arg'[d]
    BY <1>6 DEF Matches
  <2>1. CASE d = c
    BY <1>4, <1>5, <1>10, <2>1
  <2>2. CASE d # c
    <3>1. rid[d] \in 1..nextId
      BY <1>5, <2>2 DEF ClientInv, OwnIds
    <3>2. s # r
      BY <1>2, <1>4, <1>5, <2>2, <3>1, PlacesTypes
    <3> QED BY <1>5, <2>2, <3>2 DEF Places, Matches
  <2> QED BY <2>1, <2>2
<1>12. NoRequestLost'
  <2> SUFFICES ASSUME NEW d \in Callers, InCall(d)', rid'[d] \in pending', ~MaySilentlyEnd(op'[d])
               PROVE  \/ \E i \in DOMAIN toChild' : toChild'[i].id = rid'[d]
                      \/ \E job \in inline \cup inflight : job.req.id = rid'[d]
                      \/ \E i \in DOMAIN fromChild : fromChild[i].id = rid'[d]
                      \/ Leaving'
    BY <1>1, <1>3 DEF NoRequestLost
  <2>1. inOpen \/ Leaving'
    BY <1>3 DEF Leaving
  <2>2. ASSUME inOpen
        PROVE  /\ DOMAIN toChild' = 1..Len(toChild) + 1 /\ toChild'[Len(toChild) + 1] = r
               /\ \A i \in 1..Len(toChild) : toChild'[i] = toChild[i]
               /\ Len(toChild) + 1 \in DOMAIN toChild'
    BY <1>2, <1>3, <1>4, <2>2, PlacesTypes, AppendProperties, LenProperties
  <2>3. CASE d = c /\ inOpen
    BY <1>4, <1>5, <2>2, <2>3
  <2>4. CASE d # c /\ inOpen
    <3>1. rid[d] # nextId + 1 /\ rid[d] \in pending
      BY <1>2, <1>3, <1>5, <2>4, PlacesTypes DEF ClientInv, OwnIds
    <3>2. \/ \E i \in DOMAIN toChild : toChild[i].id = rid[d]
          \/ \E job \in inline \cup inflight : job.req.id = rid[d]
          \/ \E i \in DOMAIN fromChild : fromChild[i].id = rid[d]
          \/ Leaving
      BY <1>5, <2>4, <3>1 DEF Places, NoRequestLost
    <3>3. \A i \in DOMAIN toChild : i \in DOMAIN toChild' /\ toChild'[i] = toChild[i]
      BY <1>2, <2>2, <2>4, PlacesTypes
    <3>4. Leaving => Leaving'
      BY <1>1, <1>3 DEF Leaving
    <3> QED BY <1>5, <2>4, <3>2, <3>3, <3>4
  <2> QED BY <2>1, <2>3, <2>4
<1> QED BY <1>9, <1>11, <1>12 DEF Places

\* The read loop takes an answer.
LEMMA ResponsePlaces ==
    ASSUME ClientInv, ClientInv', Places, ReadResponse, UNCHANGED serviceVars
    PROVE  Places'
<1>1. UNCHANGED <<serving, inline, inflight, svcStopping, svcRestart, svcConfig, svcCaps>>
  BY DEF serviceVars
<1>2. TypeOK /\ Placed
  BY DEF ClientInv, Places
<1>3. /\ fromChild # <<>> /\ fromChild' = Tail(fromChild) /\ pending' = pending \ {Line.id}
      /\ reply' = [c \in Callers |-> IF Line.id \in pending /\ Hit(c)
                                     THEN Outcome(Line.kind, Line.value, Line.caps) ELSE reply[c]]
      /\ UNCHANGED <<toChild, inOpen, outOpen, pc, op, arg, rid, nextId>>
  BY DEF ReadResponse
<1>4. \A d \in Callers : InCall(d)' <=> InCall(d)
  BY <1>3 DEF InCall
<1>5. AllJobs' = AllJobs /\ AtChild' = AtChild
  BY <1>1, <1>3 DEF AllJobs, AtChild
<1>6. DoneIds' \subseteq DoneIds \cup {Head(fromChild).id}
  <2>1. \A d \in Callers : reply'[d] = reply[d] \/ rid[d] = Line.id
    BY <1>3 DEF Hit
  <2> QED BY <1>3, <1>4, <2>1 DEF DoneIds, Answered, Line
<1>7. Apart(toChild, AllJobs, fromChild', DoneIds') /\ Numbered(toChild, AllJobs, fromChild', nextId)
  BY <1>2, <1>3, <1>6, ApartTaken, PlacesTypes DEF Placed
<1>8. /\ Head(fromChild) = fromChild[1] /\ Len(fromChild') = Len(fromChild) - 1
      /\ DOMAIN fromChild' = 1..Len(fromChild') /\ DOMAIN fromChild = 1..Len(fromChild)
      /\ Len(fromChild) \in Nat
      /\ \A i \in 1..Len(fromChild') : fromChild'[i] = fromChild[i + 1] /\ i + 1 \in 1..Len(fromChild)
      /\ \A i \in 1..Len(fromChild) : i # 1 => i - 1 \in 1..Len(fromChild') /\ fromChild'[i - 1] = fromChild[i]
  <2>1. fromChild \in Seq(Lines) /\ Len(fromChild) \in Nat /\ DOMAIN fromChild = 1..Len(fromChild)
    BY <1>2, PlacesTypes
  <2>2. /\ fromChild' \in Seq(Lines) /\ Len(fromChild') = Len(fromChild) - 1 /\ Head(fromChild) = fromChild[1]
        /\ \A i \in 1..Len(fromChild') : fromChild'[i] = fromChild[i + 1]
    BY <1>3, <2>1, HeadTailProperties
  <2>3. DOMAIN fromChild' = 1..Len(fromChild')
    BY <2>2, LenProperties
  <2>4. \A i \in 1..Len(fromChild') : i + 1 \in 1..Len(fromChild)
    BY <2>1, <2>2
  <2>5. \A i \in 1..Len(fromChild) : i # 1 => i - 1 \in 1..Len(fromChild') /\ (i - 1) + 1 = i
    BY <2>1, <2>2
  <2> QED BY <2>1, <2>2, <2>3, <2>4, <2>5
<1>9. Placed'
  <2>1. ServiceTypeOK' /\ JobForms'
    BY <1>1, <1>2, <1>5, <1>8 DEF Placed, ServiceTypeOK, JobForms
  <2> QED BY <1>3, <1>5, <1>7, <2>1 DEF Placed
<1>10. Matches'
  BY <1>3, <1>4, <1>5 DEF Places, Matches
<1>11. NoRequestLost'
  <2> SUFFICES ASSUME NEW d \in Callers, InCall(d), rid[d] \in pending, rid[d] # Line.id, ~MaySilentlyEnd(op[d])
               PROVE  \/ \E i \in DOMAIN toChild : toChild[i].id = rid[d]
                      \/ \E job \in inline \cup inflight : job.req.id = rid[d]
                      \/ \E i \in DOMAIN fromChild' : fromChild'[i].id = rid[d]
                      \/ Leaving'
    BY <1>1, <1>3, <1>4 DEF NoRequestLost
  <2>1. Leaving => Leaving'
    BY <1>1, <1>3 DEF Leaving
  <2>2. ASSUME NEW i \in DOMAIN fromChild, fromChild[i].id = rid[d]
        PROVE  \E k \in DOMAIN fromChild' : fromChild'[k].id = rid[d]
    BY <1>8, <2>2 DEF Line
  <2> QED BY <2>1, <2>2 DEF Places, NoRequestLost
<1> QED BY <1>9, <1>10, <1>11 DEF Places

-----------------------------------------------------------------------------
\* serve() takes a frame.
LEMMA ReadPlaces ==
    ASSUME ClientInv, Places, SvcRead, UNCHANGED clientVars
    PROVE  Places'
<1>1. UNCHANGED <<pc, op, arg, rid, reply, nextId, pending>>
  BY DEF clientVars, callVars
<1>2. TypeOK /\ Placed
  BY DEF ClientInv, Places
<1> DEFINE job == Job(Head(toChild), "new", NoAnswer)
<1>3. /\ serving = "reading" /\ toChild # <<>> /\ toChild' = Tail(toChild)
      /\ \/ job.req.method \in InlineMethods /\ serving' = "inline" /\ inline' = {job} /\ UNCHANGED inflight
         \/ job.req.method \notin InlineMethods /\ inflight' = inflight \cup {job} /\ UNCHANGED <<serving, inline>>
      /\ UNCHANGED <<fromChild, inOpen, outOpen, svcStopping, svcRestart, svcConfig, svcCaps>>
  BY DEF SvcRead
<1>4. job.req = Head(toChild) /\ job.stage = "new" /\ job.answer = NoAnswer
  BY DEF Job
<1>5. Head(toChild) \in Requests /\ job \in Jobs
  <2>1. Head(toChild) \in Requests
    BY <1>2, <1>3, PlacesTypes, HeadTailProperties
  <2> QED BY <2>1, Pieces DEF Job, Jobs, NoAnswer
<1> HIDE DEF job
<1>6. inline = {}
  BY <1>2, <1>3 DEF Placed, JobForms
<1>7. AllJobs' = AllJobs \cup {job}
  BY <1>3, <1>6 DEF AllJobs
<1>8. DoneIds' = DoneIds
  BY <1>1 DEF DoneIds, Answered, InCall
<1>9. Apart(toChild', AllJobs', fromChild, DoneIds) /\ Numbered(toChild', AllJobs', fromChild, nextId)
  BY <1>2, <1>3, <1>4, <1>7, ApartRead, PlacesTypes DEF Placed
<1>10. ServiceTypeOK'
  BY <1>2, <1>3, <1>5 DEF Placed, ServiceTypeOK
<1>11. JobForms'
  BY <1>2, <1>3, <1>4, <1>6, <1>7 DEF Placed, JobForms, AllJobs
<1>12. /\ Head(toChild) = toChild[1] /\ 1 \in 1..Len(toChild) /\ DOMAIN toChild' = 1..Len(toChild')
       /\ \A i \in 1..Len(toChild') : toChild'[i] = toChild[i + 1] /\ i + 1 \in 1..Len(toChild)
       /\ \A i \in 1..Len(toChild) : i # 1 => i - 1 \in 1..Len(toChild') /\ toChild'[i - 1] = toChild[i]
  <2>1. toChild \in Seq(Requests) /\ Len(toChild) \in Nat
    BY <1>2, PlacesTypes
  <2>2. /\ toChild' \in Seq(Requests) /\ Len(toChild') = Len(toChild) - 1 /\ Head(toChild) = toChild[1]
        /\ 1 \in 1..Len(toChild) /\ \A i \in 1..Len(toChild') : toChild'[i] = toChild[i + 1]
    BY <1>3, <2>1, HeadTailProperties
  <2>3. DOMAIN toChild' = 1..Len(toChild')
    BY <2>2, LenProperties
  <2>4. \A i \in 1..Len(toChild') : i + 1 \in 1..Len(toChild)
    BY <2>1, <2>2
  <2>5. \A i \in 1..Len(toChild) : i # 1 => i - 1 \in 1..Len(toChild') /\ (i - 1) + 1 = i
    BY <2>1, <2>2
  <2> QED BY <2>1, <2>2, <2>3, <2>4, <2>5
<1>13. Placed'
  BY <1>1, <1>3, <1>8, <1>9, <1>10, <1>11 DEF Placed
<1>14. Matches'
  <2>1. AtChild' \subseteq AtChild
    <3>1. \A i \in 1..Len(toChild') : toChild'[i] \in AtChild
      BY <1>2, <1>12, PlacesTypes
    <3>2. \A j \in AllJobs' : j.req \in AtChild
      BY <1>2, <1>4, <1>7, <1>12, PlacesTypes
    <3> QED BY <3>1, <3>2 DEF AtChild
  <2> QED BY <1>1, <2>1 DEF Places, Matches, InCall
<1>15. NoRequestLost'
  <2> SUFFICES ASSUME NEW d \in Callers, InCall(d), rid[d] \in pending, ~MaySilentlyEnd(op[d])
               PROVE  \/ \E i \in DOMAIN toChild' : toChild'[i].id = rid[d]
                      \/ \E k \in AllJobs' : k.req.id = rid[d]
                      \/ \E i \in DOMAIN fromChild : fromChild[i].id = rid[d]
                      \/ Leaving'
    BY <1>1, <1>3 DEF NoRequestLost, InCall, AllJobs
  <2>1. Leaving => Leaving'
    BY <1>3 DEF Leaving
  <2>2. ASSUME NEW i \in DOMAIN toChild, toChild[i].id = rid[d]
        PROVE  \/ \E k \in DOMAIN toChild' : toChild'[k].id = rid[d]
               \/ \E k \in AllJobs' : k.req.id = rid[d]
    <3>1. i \in 1..Len(toChild)
      BY <1>2, <2>2, PlacesTypes
    <3>2. CASE i = 1
      BY <1>4, <1>7, <1>12, <2>2, <3>2
    <3>3. CASE i # 1
      BY <1>12, <2>2, <3>1, <3>3
    <3> QED BY <3>2, <3>3
  <2> QED BY <1>7, <2>1, <2>2 DEF Places, NoRequestLost, AllJobs
<1> QED BY <1>13, <1>14, <1>15 DEF Places

\* A job goes on, or ends without an answer.
LEMMA JobPlaces ==
    ASSUME ClientInv, Places, NEW job \in AllJobs, NEW next, next.req = job.req,
           AllJobs' \subseteq (AllJobs \ {job}) \cup {next}, AllJobs \ {job} \subseteq AllJobs',
           ServiceTypeOK', JobForms', Leaving => Leaving', UNCHANGED <<toChild, fromChild>>,
           next \in AllJobs' \/ Leaving' \/ MaySilentlyEnd(job.req.method), UNCHANGED clientVars
    PROVE  Places'
<1>1. UNCHANGED <<pc, op, arg, rid, reply, nextId, pending>>
  BY DEF clientVars, callVars
<1>2. TypeOK /\ Placed
  BY DEF ClientInv, Places
<1>3. DoneIds' = DoneIds
  BY <1>1 DEF DoneIds, Answered, InCall
<1>4. Apart(toChild, AllJobs', fromChild, DoneIds) /\ Numbered(toChild, AllJobs', fromChild, nextId)
  BY <1>2, ApartStep DEF Placed
<1>5. Placed'
  BY <1>1, <1>3, <1>4 DEF Placed
<1>6. AtChild' \subseteq AtChild
  <2>1. \A j \in AllJobs' : j.req \in AtChild
    BY <1>2, PlacesTypes
  <2> QED BY <1>2, <2>1, PlacesTypes DEF AtChild
<1>7. Matches'
  BY <1>1, <1>6 DEF Places, Matches, InCall
<1>8. NoRequestLost'
  <2> SUFFICES ASSUME NEW d \in Callers, InCall(d), rid[d] \in pending, ~MaySilentlyEnd(op[d])
               PROVE  \/ \E i \in DOMAIN toChild : toChild[i].id = rid[d]
                      \/ \E k \in AllJobs' : k.req.id = rid[d]
                      \/ \E i \in DOMAIN fromChild : fromChild[i].id = rid[d]
                      \/ Leaving'
    BY <1>1 DEF NoRequestLost, InCall, AllJobs
  <2>1. ASSUME NEW j \in AllJobs, j.req.id = rid[d]
        PROVE  (\E k \in AllJobs' : k.req.id = rid[d]) \/ Leaving'
    <3>1. CASE j # job
      BY <2>1, <3>1
    <3>2. CASE j = job
      <4>1. job.req.method = op[d]
        BY <1>2, <2>1, <3>2, PlacesTypes DEF Places, Matches
      <4> QED BY <2>1, <3>2, <4>1
    <3> QED BY <3>1, <3>2
  <2> QED BY <2>1 DEF Places, NoRequestLost, AllJobs
<1> QED BY <1>5, <1>7, <1>8 DEF Places

\* A job is answered.
LEMMA ReplyPlaces ==
    ASSUME ClientInv, Places, NEW job \in AllJobs, job.stage = "reply", AllJobs' = AllJobs \ {job},
           fromChild' = Append(fromChild, job.answer), UNCHANGED <<toChild, clientVars>>,
           ServiceTypeOK', inline' \subseteq inline, inflight' \subseteq inflight,
           inline' # {} => serving' = "inline", Leaving => Leaving'
    PROVE  Places'
<1>1. UNCHANGED <<pc, op, arg, rid, reply, nextId, pending>>
  BY DEF clientVars, callVars
<1>2. TypeOK /\ Placed
  BY DEF ClientInv, Places
<1>3. job.answer \in Lines /\ job.answer.id = job.req.id /\ job.answer.kind \in {"result", "error"}
  BY <1>2, PlacesTypes DEF Placed, JobForms
<1>4. /\ DOMAIN fromChild = 1..Len(fromChild) /\ DOMAIN fromChild' = 1..Len(fromChild) + 1
      /\ Len(fromChild') = Len(fromChild) + 1 /\ Len(fromChild) + 1 \in DOMAIN fromChild'
      /\ fromChild'[Len(fromChild) + 1] = job.answer /\ Len(fromChild) \in Nat
      /\ \A i \in 1..Len(fromChild) : fromChild'[i] = fromChild[i]
  BY <1>2, <1>3, PlacesTypes, AppendProperties, LenProperties
<1>5. DoneIds' = DoneIds
  BY <1>1 DEF DoneIds, Answered, InCall
<1>6. Apart(toChild, AllJobs', fromChild', DoneIds) /\ Numbered(toChild, AllJobs', fromChild', nextId)
  BY <1>2, <1>3, ApartReply, PlacesTypes DEF Placed
<1>7. JobForms'
  <2>1. \A i \in 1..Len(fromChild') : fromChild'[i].kind \in {"result", "error"}
    BY <1>2, <1>3, <1>4 DEF Placed, JobForms
  <2> QED BY <1>2, <2>1 DEF Placed, JobForms
<1>8. Placed'
  BY <1>1, <1>5, <1>6, <1>7 DEF Placed
<1>9. AtChild' \subseteq AtChild
  BY DEF AtChild
<1>10. Matches'
  BY <1>1, <1>9 DEF Places, Matches, InCall
<1>11. NoRequestLost'
  <2> SUFFICES ASSUME NEW d \in Callers, InCall(d), rid[d] \in pending, ~MaySilentlyEnd(op[d])
               PROVE  \/ \E i \in DOMAIN toChild : toChild[i].id = rid[d]
                      \/ \E k \in AllJobs' : k.req.id = rid[d]
                      \/ \E i \in DOMAIN fromChild' : fromChild'[i].id = rid[d]
                      \/ Leaving'
    BY <1>1 DEF NoRequestLost, InCall, AllJobs
  <2>1. ASSUME NEW j \in AllJobs, j.req.id = rid[d]
        PROVE  \/ \E k \in AllJobs' : k.req.id = rid[d]
               \/ \E i \in DOMAIN fromChild' : fromChild'[i].id = rid[d]
    BY <1>3, <1>4, <2>1
  <2>2. ASSUME NEW i \in DOMAIN fromChild, fromChild[i].id = rid[d]
        PROVE  \E k \in DOMAIN fromChild' : fromChild'[k].id = rid[d]
    BY <1>4, <2>2
  <2> QED BY <2>1, <2>2 DEF Places, NoRequestLost, AllJobs
<1> QED BY <1>8, <1>10, <1>11 DEF Places

\* The child leaves: what it had is dropped.
LEMMA LeavePlaces ==
    ASSUME ClientInv, Places, toChild' = toChild \/ toChild' = <<>>, fromChild' = fromChild,
           inline' \subseteq inline, inflight' \subseteq inflight, inline' # {} => serving' = "inline",
           ServiceTypeOK', Leaving', UNCHANGED clientVars
    PROVE  Places'
<1>1. UNCHANGED <<pc, op, arg, rid, reply, nextId, pending>>
  BY DEF clientVars, callVars
<1>2. TypeOK /\ Placed
  BY DEF ClientInv, Places
<1>3. AllJobs' \subseteq AllJobs
  BY DEF AllJobs
<1>4. DoneIds' = DoneIds
  BY <1>1 DEF DoneIds, Answered, InCall
<1>5. Apart(toChild', AllJobs', fromChild, DoneIds) /\ Numbered(toChild', AllJobs', fromChild, nextId)
  BY <1>2, <1>3, ApartFewer DEF Placed
<1>6. JobForms'
  BY <1>2, <1>3 DEF Placed, JobForms
<1>7. AtChild' \subseteq AtChild
  <2>1. \A i \in 1..Len(toChild') : toChild'[i] \in AtChild
    <3>1. toChild' = <<>> => Len(toChild') = 0
      OBVIOUS
    <3> QED BY <1>2, <3>1, PlacesTypes
  <2> QED BY <1>2, <1>3, <2>1, PlacesTypes DEF AtChild
<1>8. Matches'
  BY <1>1, <1>7 DEF Places, Matches, InCall
<1> QED BY <1>1, <1>4, <1>5, <1>6, <1>8 DEF Places, Placed, NoRequestLost

\* A step of the request awaited inline.
LEMMA InlinePlaces ==
    ASSUME ClientInv, Places, NEW job \in inline, NEW next \in Jobs, InlineStep(job, next), next.req = job.req,
           next.stage = "reply" => next.answer.kind \in {"result", "error"} /\ next.answer.id = job.req.id,
           svcStopping' \in BOOLEAN, svcRestart' \in BOOLEAN, svcConfig' \in Configs \cup {NoConfig},
           UNCHANGED clientVars
    PROVE  Places'
<1>1. TypeOK /\ Placed
  BY DEF ClientInv, Places
<1>2. /\ inline = {job} /\ serving = "inline" /\ inline' = {next}
      /\ UNCHANGED <<toChild, fromChild, inOpen, outOpen, serving, inflight, svcCaps>>
  BY DEF InlineStep, wireVars
<1>3. job \notin inflight
  BY <1>1, <1>2 DEF Placed, JobForms
<1>4. AllJobs' \subseteq (AllJobs \ {job}) \cup {next} /\ AllJobs \ {job} \subseteq AllJobs' /\ next \in AllJobs'
      /\ job \in AllJobs
  BY <1>2, <1>3 DEF AllJobs
<1>5. ServiceTypeOK'
  BY <1>1, <1>2 DEF Placed, ServiceTypeOK
<1>6. JobForms'
  <2>1. \A j \in AllJobs' :
           j.stage = "reply" => j.answer.kind \in {"result", "error"} /\ j.answer.id = j.req.id
    BY <1>1, <1>4 DEF Placed, JobForms
  <2> QED BY <1>1, <1>2, <2>1 DEF Placed, JobForms
<1>7. Leaving => Leaving'
  BY <1>2 DEF Leaving
<1> QED BY <1>2, <1>4, <1>5, <1>6, <1>7, JobPlaces

\* A step of a spawned request that is not its answer.
LEMMA TaskPlaces ==
    ASSUME ClientInv, Places, NEW job \in inflight, NEW next \in Jobs, NEW S \in {{}, {next}}, TaskStep(job, S),
           next.req = job.req,
           next.stage = "reply" => next.answer.kind \in {"result", "error"} /\ next.answer.id = job.req.id,
           S = {} => Leaving \/ MaySilentlyEnd(job.req.method), UNCHANGED <<wireVars, clientVars>>
    PROVE  Places'
<1>1. TypeOK /\ Placed
  BY DEF ClientInv, Places
<1>2. /\ inflight' = (inflight \ {job}) \cup S
      /\ UNCHANGED <<serving, inline, svcStopping, svcRestart, svcConfig, svcCaps>>
      /\ UNCHANGED <<toChild, fromChild, inOpen, outOpen>>
  BY DEF TaskStep, wireVars
<1>3. job \notin inline
  BY <1>1 DEF Placed, JobForms
<1>4. /\ AllJobs' \subseteq (AllJobs \ {job}) \cup {next} /\ AllJobs \ {job} \subseteq AllJobs'
      /\ S # {} => next \in AllJobs'
      /\ job \in AllJobs
  BY <1>2, <1>3 DEF AllJobs
<1>5. ServiceTypeOK'
  BY <1>1, <1>2 DEF Placed, ServiceTypeOK
<1>6. JobForms'
  <2>1. \A j \in AllJobs' :
           j.stage = "reply" => j.answer.kind \in {"result", "error"} /\ j.answer.id = j.req.id
    BY <1>1, <1>4 DEF Placed, JobForms
  <2>2. \A j \in inflight' : j.req.method \notin InlineMethods
    BY <1>1, <1>2 DEF Placed, JobForms
  <2> QED BY <1>1, <1>2, <2>1, <2>2 DEF Placed, JobForms
<1>7. Leaving => Leaving'
  BY <1>2 DEF Leaving
<1> QED BY <1>2, <1>4, <1>5, <1>6, <1>7, JobPlaces

\* What jobs and answers look like.
LEMMA JobShapes ==
    ASSUME NEW job \in Jobs
    PROVE  /\ job.req \in Requests /\ job.req.id \in Nat /\ job.req.config \in Configs \cup {NoConfig}
           /\ [job EXCEPT !.stage = "run"] \in Jobs /\ [job EXCEPT !.stage = "run"].req = job.req
           /\ [job EXCEPT !.stage = "run"].stage = "run"
BY DEF Jobs, Requests

LEMMA ErrorShape ==
    ASSUME NEW id \in Nat
    PROVE  Error(id) \in Lines /\ Error(id).kind = "error" /\ Error(id).id = id
BY Pieces DEF Error

LEMMA ResultShape ==
    ASSUME NEW id \in Nat, NEW v \in Values, NEW p \in Caps
    PROVE  /\ Result(id, v, p) \in Lines /\ Result(id, v, p).kind = "result"
           /\ Result(id, v, p).id = id /\ Result(id, v, p).value = v
BY Pieces DEF Result

\* A job that is to reply.
LEMMA ReplyShape ==
    ASSUME NEW job \in Jobs, NEW a \in Lines
    PROVE  /\ Job(job.req, "reply", a) \in Jobs /\ Job(job.req, "reply", a).req = job.req
           /\ Job(job.req, "reply", a).answer = a /\ Job(job.req, "reply", a).stage = "reply"
BY DEF Jobs, Job

\* Every inline step that does not end the request is one of these.
LEMMA InlineSteps ==
    ASSUME ClientInv, Places, NEW job \in inline, UNCHANGED clientVars,
           \/ SvcInitialize(job) \/ SvcInitialized(job)
           \/ SvcTransition(job) \/ SvcPrepared(job) \/ SvcApplied(job) \/ SvcRejected(job)
           \/ SvcShutdown(job) \/ SvcShutdownDone(job)
    PROVE  Places'
<1>1. TypeOK /\ Placed /\ job \in Jobs
  BY DEF ClientInv, Places, Placed, ServiceTypeOK
<1>2. svcStopping \in BOOLEAN /\ svcRestart \in BOOLEAN /\ svcConfig \in Configs \cup {NoConfig} /\ svcCaps \in Caps
  BY <1>1 DEF Placed, ServiceTypeOK
<1> DEFINE Good(next) == /\ next \in Jobs /\ next.req = job.req
                         /\ next.stage = "reply" => /\ next.answer.kind \in {"result", "error"}
                                                    /\ next.answer.id = job.req.id
<1>3. /\ Good([job EXCEPT !.stage = "run"]) /\ Good(Job(job.req, "reply", Error(job.req.id)))
      /\ \A v \in Values, p \in Caps : Good(Job(job.req, "reply", Result(job.req.id, v, p)))
  <2>1. Good([job EXCEPT !.stage = "run"])
    BY <1>1, JobShapes
  <2>2. Good(Job(job.req, "reply", Error(job.req.id)))
    <3>1. Error(job.req.id) \in Lines /\ Error(job.req.id).kind = "error" /\ Error(job.req.id).id = job.req.id
      BY <1>1, JobShapes, ErrorShape
    <3> DEFINE next == Job(job.req, "reply", Error(job.req.id))
    <3>2. next \in Jobs /\ next.req = job.req /\ next.answer = Error(job.req.id)
      BY <1>1, <3>1, ReplyShape
    <3> HIDE DEF next
    <3> QED BY <3>1, <3>2 DEF next
  <2>3. ASSUME NEW v \in Values, NEW p \in Caps PROVE Good(Job(job.req, "reply", Result(job.req.id, v, p)))
    <3>1. /\ Result(job.req.id, v, p) \in Lines /\ Result(job.req.id, v, p).kind = "result"
          /\ Result(job.req.id, v, p).id = job.req.id
      <4>1. job.req.id \in Nat
        BY <1>1, JobShapes
      <4> QED BY <4>1, ResultShape
    <3> DEFINE next == Job(job.req, "reply", Result(job.req.id, v, p))
    <3>2. next \in Jobs /\ next.req = job.req /\ next.answer = Result(job.req.id, v, p)
      BY <1>1, <3>1, ReplyShape
    <3> HIDE DEF next
    <3> QED BY <3>1, <3>2 DEF next
  <2> QED BY <2>1, <2>2, <2>3
<1>4. {"value", "restart", "applied"} \subseteq Values /\ NoCaps \in Caps
  BY Pieces DEF Values, TransitionValues
<1>5. job.req.config \in Configs \cup {NoConfig}
  BY <1>1, JobShapes
<1> HIDE DEF Good
<1>6. \E next : Good(next) /\ InlineStep(job, next)
  <2>1. CASE SvcInitialize(job) \/ SvcShutdown(job)
    BY <1>3, <2>1 DEF SvcInitialize, SvcShutdown
  <2>2. CASE SvcInitialized(job) \/ SvcShutdownDone(job)
    BY <1>2, <1>3, <1>4, <2>2 DEF SvcInitialized, SvcShutdownDone
  <2>3. CASE SvcTransition(job) \/ SvcRejected(job)
    BY <1>3, <2>3 DEF SvcTransition, SvcRejected
  <2>4. CASE SvcPrepared(job) \/ SvcApplied(job)
    BY <1>3, <1>4, <2>4 DEF SvcPrepared, SvcApplied
  <2> QED BY <2>1, <2>2, <2>3, <2>4
<1>7. svcStopping' \in BOOLEAN /\ svcRestart' \in BOOLEAN /\ svcConfig' \in Configs \cup {NoConfig}
  BY <1>2, <1>5 DEF SvcInitialize, SvcInitialized, SvcTransition, SvcPrepared, SvcApplied, SvcRejected,
                    SvcShutdown, SvcShutdownDone
<1>8. PICK next : Good(next) /\ InlineStep(job, next)
  BY <1>6
<1> QED BY <1>7, <1>8, InlinePlaces DEF Good

\* A step of the child keeps track of every request.
LEMMA ServicePlaces ==
    ASSUME ClientInv, Places, ServiceNext, UNCHANGED clientVars
    PROVE  Places'
<1>1. TypeOK /\ Placed
  BY DEF ClientInv, Places
<1>2. CASE SvcRead
  BY <1>2, ReadPlaces
<1>3. CASE SvcLeaveLoop \/ SvcExit \/ SvcDie
  <2>1. /\ toChild' = toChild \/ toChild' = <<>>
        /\ fromChild' = fromChild /\ inline' \subseteq inline /\ inflight' \subseteq inflight
        /\ serving' \in {"draining", "exited"} /\ UNCHANGED <<svcStopping, svcRestart, svcConfig, svcCaps>>
    BY <1>3 DEF SvcLeaveLoop, SvcExit, SvcDie, wireVars
  <2>2. inline' = {}
    BY <1>1, <1>3, <2>1 DEF Placed, JobForms, SvcLeaveLoop, SvcExit, SvcDie
  <2>3. ServiceTypeOK' /\ Leaving'
    BY <1>1, <2>1 DEF Placed, ServiceTypeOK, Leaving
  <2> QED BY <2>1, <2>2, <2>3, LeavePlaces
<1>4. ASSUME NEW job \in inline, InlineNext(job) PROVE Places'
  <2>1. CASE SvcInlineReply(job)
    <3>1. /\ inline = {job} /\ job.stage = "reply" /\ fromChild' = Append(fromChild, job.answer)
          /\ inline' = {} /\ serving' = "reading"
          /\ UNCHANGED <<toChild, inOpen, outOpen, inflight, svcStopping, svcRestart, svcConfig, svcCaps>>
          /\ serving = "inline"
      BY <2>1 DEF SvcInlineReply
    <3>2. job \notin inflight
      BY <1>1, <3>1 DEF Placed, JobForms
    <3>3. AllJobs' = AllJobs \ {job} /\ job \in AllJobs
      BY <3>1, <3>2 DEF AllJobs
    <3>4. ServiceTypeOK' /\ (Leaving => Leaving')
      BY <1>1, <3>1 DEF Placed, ServiceTypeOK, Leaving
    <3> QED BY <3>1, <3>3, <3>4, ReplyPlaces
  <2>2. CASE SvcInlineCancelled(job) \/ SvcInlineBroken(job)
    <3>1. /\ inline' = {} /\ serving' = "draining"
          /\ UNCHANGED <<wireVars, inflight, svcStopping, svcRestart, svcConfig, svcCaps>>
      BY <2>2 DEF SvcInlineCancelled, SvcInlineBroken
    <3>2. ServiceTypeOK' /\ Leaving'
      BY <1>1, <3>1 DEF Placed, ServiceTypeOK, Leaving
    <3> QED BY <3>1, <3>2, LeavePlaces DEF wireVars
  <2> QED BY <1>4, <2>1, <2>2, InlineSteps DEF InlineNext
<1>5. ASSUME NEW job \in inflight, TaskNext(job) PROVE Places'
  <2>1. job \in Jobs
    BY <1>1 DEF Placed, ServiceTypeOK
  <2>2. CASE TaskStart(job)
    <3>1. PICK next \in {[job EXCEPT !.stage = "run"], Job(job.req, "reply", Error(job.req.id)),
                         Job(job.req, "reply", Result(job.req.id, "notready", NoCaps))} : TaskStep(job, {next})
      BY <2>2 DEF TaskStart
    <3>2. "notready" \in Values
      BY DEF Values, HealthValues
    <3>3. /\ next \in Jobs /\ next.req = job.req
          /\ next.stage = "reply" => next.answer.kind \in {"result", "error"} /\ next.answer.id = job.req.id
      <4>1. NoCaps \in Caps
        BY Pieces
      <4>2. /\ Error(job.req.id) \in Lines /\ Error(job.req.id).kind = "error"
            /\ Error(job.req.id).id = job.req.id
            /\ Result(job.req.id, "notready", NoCaps) \in Lines
            /\ Result(job.req.id, "notready", NoCaps).kind = "result"
            /\ Result(job.req.id, "notready", NoCaps).id = job.req.id
        <5>1. job.req.id \in Nat
          BY <2>1, JobShapes
        <5> QED BY <3>2, <4>1, <5>1, ErrorShape, ResultShape
      <4>3. CASE next = [job EXCEPT !.stage = "run"]
        BY <2>1, <4>3, JobShapes
      <4>4. CASE next = Job(job.req, "reply", Error(job.req.id))
        <5>1. next \in Jobs /\ next.req = job.req /\ next.answer = Error(job.req.id)
          BY <2>1, <4>2, <4>4, ReplyShape
        <5> QED BY <4>2, <5>1
      <4>5. CASE next = Job(job.req, "reply", Result(job.req.id, "notready", NoCaps))
        <5>1. next \in Jobs /\ next.req = job.req /\ next.answer = Result(job.req.id, "notready", NoCaps)
          BY <2>1, <4>2, <4>5, ReplyShape
        <5> QED BY <4>2, <5>1
      <4> QED BY <3>1, <4>3, <4>4, <4>5
    <3> QED BY <2>2, <3>1, <3>3, TaskPlaces DEF TaskStart
  <2>3. CASE TaskDone(job)
    <3>1. PICK a \in HandlerAnswers(job.req) : TaskStep(job, {Job(job.req, "reply", a)})
      BY <2>3 DEF TaskDone
    <3>2. a \in Lines /\ a.kind \in {"result", "error"} /\ a.id = job.req.id
      <4>1. HealthValues \subseteq Values /\ "value" \in Values
        BY DEF Values
      <4>2. a = Error(job.req.id) \/ \E v \in Values : a = Result(job.req.id, v, NoCaps)
        BY <3>1, <4>1 DEF HandlerAnswers
      <4>3. NoCaps \in Caps
        BY Pieces
      <4>4. job.req.id \in Nat
        BY <2>1, JobShapes
      <4> QED BY <4>2, <4>3, <4>4, ErrorShape, ResultShape
    <3> DEFINE next == Job(job.req, "reply", a)
    <3>3. next \in Jobs /\ next.req = job.req /\ next.answer = a
      BY <2>1, <3>2, ReplyShape
    <3> HIDE DEF next
    <3>4. TaskStep(job, {next})
      BY <3>1 DEF next
    <3> QED BY <2>3, <3>2, <3>3, <3>4, TaskPlaces DEF TaskDone
  <2>4. CASE TaskCancelled(job)
    <3> DEFINE next == Job(job.req, "reply", Error(job.req.id))
    <3>1. next \in Jobs /\ next.req = job.req /\ next.answer.kind = "error" /\ next.answer.id = job.req.id
      <4>1. Error(job.req.id) \in Lines /\ Error(job.req.id).kind = "error" /\ Error(job.req.id).id = job.req.id
        BY <2>1, JobShapes, ErrorShape
      <4>2. next \in Jobs /\ next.req = job.req /\ next.answer = Error(job.req.id)
        BY <2>1, <4>1, ReplyShape
      <4> HIDE DEF next
      <4> QED BY <4>1, <4>2
    <3> HIDE DEF next
    <3>2. CASE job.req.method = "ingress"
      <4>1. TaskStep(job, {next})
        BY <2>4, <3>2 DEF TaskCancelled, next
      <4> QED BY <2>4, <3>1, <4>1, TaskPlaces DEF TaskCancelled
    <3>3. CASE job.req.method # "ingress"
      <4>1. TaskStep(job, {})
        BY <2>4, <3>3 DEF TaskCancelled
      <4>2. MaySilentlyEnd(job.req.method)
        BY <1>1, <2>4, <3>3 DEF TaskCancelled, MaySilentlyEnd, Placed, JobForms
      <4> QED BY <2>4, <3>1, <4>1, <4>2, TaskPlaces DEF TaskCancelled
    <3> QED BY <3>2, <3>3
  <2>5. CASE TaskReply(job)
    <3>1. /\ job.stage = "reply" /\ fromChild' = Append(fromChild, job.answer) /\ inflight' = inflight \ {job}
          /\ UNCHANGED <<toChild, inOpen, outOpen, serving, inline, svcStopping, svcRestart, svcConfig, svcCaps>>
      BY <2>5 DEF TaskReply, TaskStep
    <3>2. job \notin inline
      BY <1>1 DEF Placed, JobForms
    <3>3. AllJobs' = AllJobs \ {job} /\ job \in AllJobs
      BY <3>1, <3>2 DEF AllJobs
    <3>4. ServiceTypeOK' /\ (Leaving => Leaving') /\ (inline' # {} => serving' = "inline")
      BY <1>1, <3>1 DEF Placed, ServiceTypeOK, Leaving, JobForms
    <3> QED BY <3>1, <3>3, <3>4, ReplyPlaces
  <2>6. CASE TaskBroken(job)
    <3>1. TaskStep(job, {}) /\ Leaving /\ UNCHANGED wireVars
      BY <2>6 DEF TaskBroken, Leaving
    <3>2. [job EXCEPT !.stage = "run"] \in Jobs /\ [job EXCEPT !.stage = "run"].req = job.req
          /\ [job EXCEPT !.stage = "run"].stage = "run"
      BY <2>1, JobShapes
    <3> DEFINE next == [job EXCEPT !.stage = "run"]
    <3> HIDE DEF next
    <3>3. next \in Jobs /\ next.req = job.req /\ next.stage = "run"
      BY <3>2 DEF next
    <3> QED BY <3>1, <3>3, TaskPlaces
  <2> QED BY <1>5, <2>2, <2>3, <2>4, <2>5, <2>6 DEF TaskNext
<1> QED BY <1>2, <1>3, <1>4, <1>5 DEF ServiceNext

-----------------------------------------------------------------------------
\* At most one call is a transition.
LEMMA OneTransitionCall ==
    ASSUME ClientInv, NEW c \in Callers, NEW d \in Callers, InTransition(c), InTransition(d)
    PROVE  c = d
BY DEF ClientInv, OneLifecycleRpc, InTransition, LifecycleOps

\* What the host may do to a config transition other than write, read an answer or accept one:
\* it goes on waiting, or it fences the child.
LEMMA HostTransitions ==
    ASSUME RpcInv, UNCHANGED <<serviceVars, toChild>>, fromChild' = fromChild \/ fromChild' = <<>>,
           \A d \in Callers : InCall(d)' =>
              /\ InCall(d) /\ op'[d] = op[d] /\ arg'[d] = arg[d] /\ rid'[d] = rid[d]
              /\ reply'[d] = reply[d] \/ reply'[d].kind \notin {"result", "error"},
           \/ UNCHANGED <<restartRequired, hostConfig>> /\ \A d \in Callers : InTransition(d) => InTransition(d)'
           \/ restartRequired'
    PROVE  Transitions'
<1>1. UNCHANGED <<serving, inline, inflight, svcStopping, svcRestart, svcConfig, svcCaps>>
  BY DEF serviceVars
<1>2. AtChild' = AtChild
  BY <1>1 DEF AtChild, AllJobs
<1>3. Transitions
  BY DEF RpcInv
<1>4. /\ \A r, s \in AtChild' : r.method = "transition" /\ s.method = "transition" => r = s
      /\ \A r \in AtChild' : r.method = "transition" => r.config \in Configs
      /\ \A j \in inline' : j.req.method = "transition" /\ j.stage = "run" => ~svcRestart'
  BY <1>1, <1>2, <1>3 DEF Transitions, TransitionsOwned
<1>5. CASE restartRequired'
  BY <1>4, <1>5 DEF Transitions, TransitionsOwned
<1>6. CASE ~restartRequired'
  <2>1. /\ UNCHANGED <<restartRequired, hostConfig>> /\ ~restartRequired
        /\ \A d \in Callers : InTransition(d) => InTransition(d)'
    BY <1>6
  <2>2. \A d \in Callers : InTransition(d)' => InTransition(d)
    BY DEF InTransition
  <2>3. Kept' = Kept /\ \A d \in Callers : InCall(d)' => (Took(d)' <=> Took(d))
    BY <1>1, <2>1 DEF Kept, Took
  <2>4. \A r \in AtChild' : r.method = "transition" => \E d \in Callers : InTransition(d)' /\ rid'[d] = r.id
    BY <1>2, <1>3, <2>1 DEF Transitions, TransitionsOwned, InTransition
  <2>5. ASSUME NEW d \in Callers, InTransition(d)' PROVE AnswersTruthful(d)'
    <3>1. /\ AnswersTruthful(d) /\ rid'[d] = rid[d] /\ (Took(d)' <=> Took(d))
          /\ reply'[d] = reply[d] \/ reply'[d].kind \notin {"result", "error"}
      BY <1>3, <2>1, <2>2, <2>3, <2>5 DEF Transitions, InTransition
    <3>2. \A i \in 1..Len(fromChild') : fromChild' = fromChild
      OBVIOUS
    <3> QED BY <1>1, <2>3, <3>1, <3>2 DEF AnswersTruthful, Truthful
  <2>6. (\A d \in Callers : ~InTransition(d)') => Kept'
    BY <1>3, <2>1, <2>3 DEF Transitions
  <2> QED BY <1>4, <2>4, <2>5, <2>6 DEF Transitions, TransitionsOwned
<1> QED BY <1>5, <1>6

\* The same for initialize.
LEMMA HostInitializes ==
    ASSUME RpcInv, UNCHANGED <<serviceVars, toChild, nextId, caps>>, fromChild' = fromChild \/ fromChild' = <<>>,
           \A d \in Callers : InCall(d)' =>
              /\ InCall(d) /\ op'[d] = op[d] /\ arg'[d] = arg[d] /\ rid'[d] = rid[d]
              /\ reply'[d] = reply[d] \/ reply'[d].kind \notin {"result", "error"},
           UNCHANGED <<restartRequired, hostConfig>> \/ caps.transition # "no"
    PROVE  Initializes'
<1>1. UNCHANGED <<serving, inline, inflight, svcStopping, svcRestart, svcConfig, svcCaps>>
  BY DEF serviceVars
<1>2. Initializes
  BY DEF RpcInv
<1>4. (restartRequired' \/ \E c \in Callers : InTransition(c)') => caps'.transition # "no"
  BY <1>2 DEF Initializes, InTransition
<1>5. (\A i \in 1..Len(toChild) : toChild[i].method = "initialize" => Fresh(toChild[i]))'
  <2> SUFFICES ASSUME NEW i \in 1..Len(toChild), NEW r, r = toChild[i], r.method = "initialize" PROVE Fresh(r)'
    OBVIOUS
  <2>1. Fresh(r)
    BY <1>2 DEF Initializes
  <2>2. hostConfig' = hostConfig
    BY <2>1 DEF Fresh
  <2> QED BY <1>1, <2>1, <2>2 DEF Fresh
<1>6. (\A j \in inline : j.req.method = "initialize" =>
           IF j.stage = "new" THEN Fresh(j.req) ELSE j.req.id = 1 /\ svcConfig # NoConfig)'
  <2> SUFFICES ASSUME NEW j \in inline, j.req.method = "initialize"
               PROVE  IF j.stage = "new" THEN Fresh(j.req)' ELSE j.req.id = 1 /\ svcConfig' # NoConfig
    BY <1>1
  <2>1. CASE j.stage = "new"
    <3>1. Fresh(j.req)
      BY <1>2, <2>1 DEF Initializes
    <3>2. hostConfig' = hostConfig
      BY <3>1 DEF Fresh
    <3> QED BY <1>1, <2>1, <3>1, <3>2 DEF Fresh
  <2>2. CASE j.stage # "new"
    BY <1>1, <1>2, <2>2 DEF Initializes
  <2> QED BY <2>1, <2>2
<1>7. \A c \in Callers : InCall(c)' /\ op'[c] = "initialize" =>
          /\ rid'[c] = 1 /\ caps'.transition = "no"
          /\ reply'[c].kind = "result" => svcConfig' # NoConfig
          /\ \A i \in 1..Len(fromChild') : fromChild'[i].id = 1 => svcConfig' # NoConfig
  <2> SUFFICES ASSUME NEW c \in Callers, InCall(c)', op'[c] = "initialize"
               PROVE  /\ rid'[c] = 1 /\ caps'.transition = "no"
                      /\ reply'[c].kind = "result" => svcConfig' # NoConfig
                      /\ \A i \in 1..Len(fromChild') : fromChild'[i].id = 1 => svcConfig' # NoConfig
    OBVIOUS
  <2>1. \A i \in 1..Len(fromChild') : fromChild' = fromChild
    OBVIOUS
  <2>2. /\ InCall(c) /\ op[c] = "initialize" /\ rid'[c] = rid[c]
        /\ reply'[c] = reply[c] \/ reply'[c].kind \notin {"result", "error"}
    OBVIOUS
  <2>3. /\ rid[c] = 1 /\ caps.transition = "no"
        /\ reply[c].kind = "result" => svcConfig # NoConfig
        /\ \A i \in 1..Len(fromChild) : fromChild[i].id = 1 => svcConfig # NoConfig
    BY <1>2, <2>2 DEF Initializes
  <2> QED BY <1>1, <2>1, <2>2, <2>3
<1>8. /\ caps'.transition # "no" => svcConfig' # NoConfig
      /\ nextId' = 0 => svcConfig' = NoConfig
  BY <1>1, <1>2 DEF Initializes
<1> QED BY <1>4, <1>5, <1>6, <1>7, <1>8 DEF Initializes

\* The host accepts what the child did, or keeps what it had.
LEMMA AcceptKeeps ==
    ASSUME RpcInv, NEW c \in Callers, InTransition(c), reply[c].kind \in {"result", "error"}, Settle(c),
           UNCHANGED <<serviceVars, restartRequired, caps>>,
           \/ reply[c].kind = "error" /\ hostConfig' = hostConfig
           \/ reply[c].kind = "result" /\ reply[c].value = "applied" /\ hostConfig' = arg[c]
    PROVE  Transitions' /\ Initializes'
<1>1. UNCHANGED <<serving, inline, inflight, svcStopping, svcRestart, svcConfig, svcCaps>>
  BY DEF serviceVars
<1>2. ClientInv /\ TypeOK /\ Placed /\ Transitions /\ Initializes
  BY DEF RpcInv, ClientInv
<1>3. /\ UNCHANGED <<toChild, fromChild, nextId>>
      /\ ~InCall(c)'
      /\ \A d \in Callers : d # c => /\ InCall(d)' <=> InCall(d)
                                     /\ op'[d] = op[d] /\ arg'[d] = arg[d] /\ rid'[d] = rid[d]
                                     /\ reply'[d] = reply[d]
  BY <1>2 DEF Settle, wireVars, TypeOK, InCall
<1>4. AtChild' = AtChild
  BY <1>1, <1>3 DEF AtChild, AllJobs
<1>5. ~restartRequired
  BY <1>2 DEF ClientInv, AwaitedUnfenced, InTransition
<1>6. \A d \in Callers : ~InTransition(d)'
  BY <1>2, <1>3, OneTransitionCall DEF InTransition
<1>7. \A r \in AtChild : r.id # rid[c]
  <2>1. rid[c] \in DoneIds
    BY DEF DoneIds, Answered, InTransition
  <2>2. \A r \in AtChild : r.id \notin DoneIds
    BY <1>2, PlacesTypes DEF Placed, Apart
  <2> QED BY <2>1, <2>2
<1>8. \A r \in AtChild : r.method # "transition"
  <2> SUFFICES ASSUME NEW r \in AtChild, r.method = "transition" PROVE FALSE
    OBVIOUS
  <2>1. PICK d \in Callers : InTransition(d) /\ rid[d] = r.id
    BY <1>2, <1>5 DEF Transitions, TransitionsOwned
  <2>2. d = c
    BY <1>2, <2>1, OneTransitionCall
  <2> QED BY <1>7, <2>1, <2>2
<1>9. Kept'
  <2>1. AnswersTruthful(c)
    BY <1>2, <1>5 DEF Transitions
  <2> QED BY <1>1, <2>1 DEF AnswersTruthful, Truthful, Kept, Took
<1>10. Transitions'
  <2>1. \A j \in inline' : j.req.method # "transition"
    BY <1>1, <1>2, <1>8, PlacesTypes
  <2> QED BY <1>4, <1>6, <1>8, <1>9, <2>1 DEF Transitions, TransitionsOwned
<1>11. caps.transition # "no"
  BY <1>2 DEF Initializes
<1>12. Initializes'
  <2>1. /\ \A i \in 1..Len(toChild) : toChild[i].method # "initialize"
        /\ \A j \in inline : j.req.method = "initialize" => j.stage # "new" /\ j.req.id = 1 /\ svcConfig # NoConfig
    BY <1>2, <1>11 DEF Initializes, Fresh
  <2>2. \A d \in Callers : ~(InCall(d)' /\ op'[d] = "initialize")
    BY <1>2, <1>3, <1>11 DEF Initializes
  <2> QED BY <1>1, <1>2, <1>3, <1>11, <2>1, <2>2 DEF Initializes
<1> QED BY <1>10, <1>12

\* initialize is answered: the child has its config, and no frame of it is left.
LEMMA InitializedKeeps ==
    ASSUME RpcInv, NEW c \in Callers, InCall(c), op[c] = "initialize", reply[c].kind = "result", Settle(c),
           UNCHANGED <<serviceVars, restartRequired, hostConfig>>
    PROVE  Initializes'
<1>1. UNCHANGED <<serving, inline, inflight, svcStopping, svcRestart, svcConfig, svcCaps>>
  BY DEF serviceVars
<1>2. ClientInv /\ TypeOK /\ Placed /\ Initializes
  BY DEF RpcInv, ClientInv
<1>3. /\ UNCHANGED <<toChild, fromChild, nextId>>
      /\ ~InCall(c)'
      /\ \A d \in Callers : d # c => /\ InCall(d)' <=> InCall(d)
                                     /\ op'[d] = op[d] /\ rid'[d] = rid[d]
  BY <1>2 DEF Settle, wireVars, TypeOK, InCall
<1>4. rid[c] = 1 /\ caps.transition = "no" /\ svcConfig # NoConfig
  BY <1>2 DEF Initializes
<1>5. \A r \in AtChild : r.id # 1
  <2>1. 1 \in DoneIds
    BY <1>4 DEF DoneIds, Answered
  <2>2. \A r \in AtChild : r.id \notin DoneIds
    BY <1>2, PlacesTypes DEF Placed, Apart
  <2> QED BY <2>1, <2>2
<1>6. /\ \A i \in 1..Len(toChild) : toChild[i].method # "initialize"
      /\ \A j \in inline : j.req.method # "initialize"
  BY <1>2, <1>5, PlacesTypes DEF Initializes, Fresh
<1>7. ~restartRequired /\ \A d \in Callers : ~InTransition(d)
  BY <1>2, <1>4 DEF Initializes
<1>8. \A d \in Callers : ~InTransition(d)'
  BY <1>3, <1>7 DEF InTransition
<1>9. \A d \in Callers : ~(InCall(d)' /\ op'[d] = "initialize")
  <2> SUFFICES ASSUME NEW d \in Callers, InCall(d)', op'[d] = "initialize" PROVE FALSE
    OBVIOUS
  <2>1. d # c /\ InCall(d) /\ rid[d] = 1
    BY <1>2, <1>3 DEF Initializes
  <2> QED BY <1>2, <1>4, <2>1 DEF ClientInv, OwnIds
<1> QED BY <1>1, <1>2, <1>3, <1>4, <1>6, <1>7, <1>8, <1>9 DEF Initializes

\* What request() leaves: one caller more, at most one frame more.
LEMMA IssueFacts ==
    ASSUME TypeOK, Placed, NEW c \in Callers, NEW m \in Methods, NEW g \in Configs \cup {NoConfig},
           Issue(c, m, g), UNCHANGED serviceVars, NEW r, r = Request(nextId + 1, m, g)
    PROVE  /\ r.id = nextId + 1 /\ r.method = m /\ r.config = g
           /\ InCall(c)' /\ op'[c] = m /\ arg'[c] = g /\ rid'[c] = nextId + 1
           /\ \A d \in Callers : d # c => /\ InCall(d)' <=> InCall(d)
                                          /\ op'[d] = op[d] /\ arg'[d] = arg[d] /\ rid'[d] = rid[d]
           /\ nextId' = nextId + 1 /\ UNCHANGED <<reply, fromChild>>
           /\ \A i \in 1..Len(toChild') : (i \in 1..Len(toChild) /\ toChild'[i] = toChild[i]) \/ toChild'[i] = r
           /\ AtChild' \subseteq AtChild \cup {r}
<1>1. UNCHANGED <<inline, inflight>>
  BY DEF serviceVars
<1>2. /\ nextId' = nextId + 1
      /\ toChild' = (IF inOpen THEN Append(toChild, r) ELSE toChild)
      /\ pc' = [pc EXCEPT ![c] = "drain"] /\ op' = [op EXCEPT ![c] = m]
      /\ arg' = [arg EXCEPT ![c] = g] /\ rid' = [rid EXCEPT ![c] = nextId + 1]
      /\ UNCHANGED <<reply, fromChild>>
  BY DEF Issue
<1>3. r \in Requests /\ r.id = nextId + 1 /\ r.method = m /\ r.config = g
  <2>1. nextId + 1 \in Nat
    BY PlacesTypes
  <2>2. Request(nextId + 1, m, g) \in Requests
    BY <2>1, Pieces
  <2> QED BY <2>2 DEF Request
<1>4. /\ InCall(c)' /\ op'[c] = m /\ arg'[c] = g /\ rid'[c] = nextId + 1
      /\ \A d \in Callers : d # c => /\ InCall(d)' <=> InCall(d)
                                     /\ op'[d] = op[d] /\ arg'[d] = arg[d] /\ rid'[d] = rid[d]
  BY <1>2 DEF TypeOK, InCall
<1>5. \A i \in 1..Len(toChild') : (i \in 1..Len(toChild) /\ toChild'[i] = toChild[i]) \/ toChild'[i] = r
  <2>1. CASE inOpen
    <3>1. /\ Len(toChild') = Len(toChild) + 1 /\ toChild'[Len(toChild) + 1] = r
          /\ \A i \in 1..Len(toChild) : toChild'[i] = toChild[i]
      BY <1>2, <1>3, <2>1, PlacesTypes, AppendProperties
    <3>2. \A i \in 1..Len(toChild') : i \in 1..Len(toChild) \/ i = Len(toChild) + 1
      BY <3>1, PlacesTypes
    <3> QED BY <3>1, <3>2
  <2>2. CASE ~inOpen
    BY <1>2, <2>2
  <2> QED BY <2>1, <2>2
<1>6. AtChild' \subseteq AtChild \cup {r}
  <2>1. AllJobs' = AllJobs
    BY <1>1 DEF AllJobs
  <2> QED BY <1>5, <2>1 DEF AtChild
<1> QED BY <1>2, <1>3, <1>4, <1>5, <1>6

\* A request that is written keeps what is known about transitions and initialize.
LEMMA IssueHandoff ==
    ASSUME RpcInv, NEW c \in Callers, NEW m \in Methods, NEW g \in Configs \cup {NoConfig},
           Issue(c, m, g), ~InCall(c), UNCHANGED <<serviceVars, caps, hostConfig, restartRequired>>,
           m = "transition" => /\ g \in Configs /\ ~restartRequired /\ caps.transition # "no"
                               /\ \A d \in Callers : ~InTransition(d),
           m = "initialize" => g = hostConfig /\ nextId = 0
    PROVE  Transitions' /\ Initializes'
<1>1. UNCHANGED <<serving, inline, inflight, svcStopping, svcRestart, svcConfig, svcCaps>>
  BY DEF serviceVars
<1>2. ClientInv /\ TypeOK /\ Placed /\ Transitions /\ Initializes
  BY DEF RpcInv, ClientInv
<1> DEFINE r == Request(nextId + 1, m, g)
<1>3. /\ r.id = nextId + 1 /\ r.method = m /\ r.config = g
      /\ InCall(c)' /\ op'[c] = m /\ arg'[c] = g /\ rid'[c] = nextId + 1
      /\ \A d \in Callers : d # c => /\ InCall(d)' <=> InCall(d)
                                     /\ op'[d] = op[d] /\ arg'[d] = arg[d] /\ rid'[d] = rid[d]
      /\ nextId' = nextId + 1 /\ UNCHANGED <<reply, fromChild>>
      /\ \A i \in 1..Len(toChild') : (i \in 1..Len(toChild) /\ toChild'[i] = toChild[i]) \/ toChild'[i] = r
      /\ AtChild' \subseteq AtChild \cup {r}
  <2>1. ASSUME NEW s, s = r
        PROVE  /\ s.id = nextId + 1 /\ s.method = m /\ s.config = g
               /\ InCall(c)' /\ op'[c] = m /\ arg'[c] = g /\ rid'[c] = nextId + 1
               /\ \A d \in Callers : d # c => /\ InCall(d)' <=> InCall(d)
                                              /\ op'[d] = op[d] /\ arg'[d] = arg[d] /\ rid'[d] = rid[d]
               /\ nextId' = nextId + 1 /\ UNCHANGED <<reply, fromChild>>
               /\ \A i \in 1..Len(toChild') : (i \in 1..Len(toChild) /\ toChild'[i] = toChild[i]) \/ toChild'[i] = s
               /\ AtChild' \subseteq AtChild \cup {s}
    BY <1>2, <2>1, IssueFacts
  <2> QED BY <2>1
<1> HIDE DEF r
<1>4. reply[c].kind = "none"
  BY <1>2 DEF ClientInv, NoStaleReply
<1>5. /\ nextId \in Nat /\ nextId + 1 \notin 1..nextId
      /\ \A d \in Callers : InCall(d) => rid[d] \in 1..nextId
      /\ \A i \in 1..Len(fromChild) : fromChild[i].id \in 1..nextId
      /\ \A i \in 1..Len(toChild) : toChild[i].id \in 1..nextId
      /\ \A j \in inline : j.req.id \in 1..nextId
  <2>1. nextId \in Nat /\ nextId + 1 \notin 1..nextId
    BY <1>2, PlacesTypes
  <2> QED BY <1>2, <2>1, PlacesTypes DEF ClientInv, OwnIds, Placed, Numbered
<1>6. Kept' <=> Kept
  BY <1>1 DEF Kept
<1>7. CASE m = "transition"
  <2>1. /\ ~restartRequired /\ Kept /\ \A s \in AtChild : s.method # "transition"
        /\ \A j \in inline : j.req.method # "transition"
    BY <1>2, <1>7, PlacesTypes DEF Transitions, TransitionsOwned
  <2>2. \A s \in AtChild' : s.method = "transition" => s = r
    BY <1>3, <2>1
  <2>3. InTransition(c)' /\ rid'[c] = r.id /\ \A d \in Callers : d # c => ~InTransition(d)'
    BY <1>3, <1>7 DEF InTransition
  <2>4. TransitionsOwned'
    BY <1>3, <1>7, <2>2, <2>3 DEF TransitionsOwned
  <2>5. AnswersTruthful(c)'
    <3>1. Truthful(c, reply[c].kind, reply[c].value)'
      BY <1>3, <1>4 DEF Truthful
    <3>2. \A i \in 1..Len(fromChild) : fromChild[i].id # rid'[c]
      BY <1>3, <1>5
    <3>3. \A j \in inline : j.req.id # rid'[c]
      BY <1>3, <1>5
    <3> QED BY <1>1, <1>3, <1>6, <2>1, <3>1, <3>2, <3>3 DEF AnswersTruthful
  <2>6. Transitions'
    BY <1>1, <2>1, <2>3, <2>4, <2>5 DEF Transitions
  <2>7. \A i \in 1..Len(toChild') : toChild'[i].method # "initialize"
    BY <1>2, <1>3, <1>7 DEF Initializes, Fresh
  <2>8. \A j \in inline : j.req.method = "initialize" => j.stage # "new" /\ j.req.id = 1 /\ svcConfig # NoConfig
    BY <1>2, <1>7 DEF Initializes, Fresh
  <2>9. \A d \in Callers : ~(InCall(d)' /\ op'[d] = "initialize")
    BY <1>2, <1>3, <1>7 DEF Initializes
  <2>10. caps.transition # "no" /\ svcConfig # NoConfig /\ nextId' # 0
    BY <1>2, <1>3, <1>5, <1>7 DEF Initializes
  <2> QED BY <1>1, <2>6, <2>7, <2>8, <2>9, <2>10 DEF Initializes
<1>8. CASE m # "transition"
  <2>1. \A d \in Callers : InTransition(d)' <=> InTransition(d)
    BY <1>3, <1>8 DEF InTransition
  <2>2. \A s \in AtChild' : s.method = "transition" => s \in AtChild
    BY <1>3, <1>8
  <2>3. TransitionsOwned'
    <3>1. ASSUME NEW s \in AtChild', s.method = "transition", ~restartRequired
          PROVE  \E d \in Callers : InTransition(d)' /\ rid'[d] = s.id
      <4>1. PICK d \in Callers : InTransition(d) /\ rid[d] = s.id
        BY <1>2, <2>2, <3>1 DEF Transitions, TransitionsOwned
      <4>2. d # c
        BY <4>1 DEF InTransition
      <4> QED BY <1>3, <2>1, <4>1, <4>2
    <3> QED BY <1>2, <2>2, <3>1 DEF Transitions, TransitionsOwned
  <2>4. ASSUME NEW d \in Callers, InTransition(d)', ~restartRequired PROVE AnswersTruthful(d)'
    <3>1. /\ AnswersTruthful(d) /\ d # c /\ rid'[d] = rid[d] /\ arg'[d] = arg[d] /\ rid[d] # nextId + 1
      BY <1>2, <1>3, <1>5, <2>1, <2>4 DEF Transitions, InTransition
    <3>2. Took(d)' <=> Took(d)
      BY <1>1, <3>1 DEF Took
    <3>3. \A i \in 1..Len(toChild') : toChild'[i].id = rid[d] => Kept
      BY <1>3, <3>1 DEF AnswersTruthful
    <3> QED BY <1>1, <1>3, <1>6, <3>1, <3>2, <3>3 DEF AnswersTruthful, Truthful
  <2>5. Transitions'
    BY <1>1, <1>2, <1>6, <2>1, <2>3, <2>4 DEF Transitions
  <2>6. m = "initialize" => caps.transition = "no" /\ svcConfig = NoConfig
    BY <1>2 DEF Initializes
  <2>7. (\A i \in 1..Len(toChild) : toChild[i].method = "initialize" => Fresh(toChild[i]))'
    <3> SUFFICES ASSUME NEW i \in 1..Len(toChild'), NEW s, s = toChild'[i], s.method = "initialize" PROVE Fresh(s)'
      OBVIOUS
    <3>1. CASE i \in 1..Len(toChild) /\ s = toChild[i]
      BY <1>1, <1>2, <3>1 DEF Initializes, Fresh
    <3>2. CASE s = r
      <4>1. m = "initialize" /\ nextId = 0 /\ g = hostConfig
        BY <1>3, <3>2
      <4> QED BY <1>1, <1>3, <2>6, <3>2, <4>1 DEF Fresh
    <3> QED BY <1>3, <3>1, <3>2
  <2>8. (\A j \in inline : j.req.method = "initialize" =>
            IF j.stage = "new" THEN Fresh(j.req) ELSE j.req.id = 1 /\ svcConfig # NoConfig)'
    <3> SUFFICES ASSUME NEW j \in inline, j.req.method = "initialize"
                 PROVE  IF j.stage = "new" THEN Fresh(j.req)' ELSE j.req.id = 1 /\ svcConfig' # NoConfig
      BY <1>1
    <3> QED BY <1>1, <1>2 DEF Initializes, Fresh
  <2>9. ASSUME NEW d \in Callers, InCall(d)', op'[d] = "initialize"
        PROVE  /\ rid'[d] = 1 /\ caps.transition = "no"
               /\ reply[d].kind = "result" => svcConfig # NoConfig
               /\ \A i \in 1..Len(fromChild) : fromChild[i].id = 1 => svcConfig # NoConfig
    <3>1. CASE d = c
      <4>1. m = "initialize" /\ nextId = 0 /\ 1..0 = {}
        BY <1>3, <2>9, <3>1
      <4> QED BY <1>3, <1>4, <1>5, <2>6, <3>1, <4>1
    <3>2. CASE d # c
      BY <1>2, <1>3, <2>9, <3>2 DEF Initializes
    <3> QED BY <3>1, <3>2
  <2>10. /\ restartRequired' \/ (\E d \in Callers : InTransition(d)') => caps'.transition # "no"
         /\ caps'.transition # "no" => svcConfig' # NoConfig
         /\ nextId' # 0
    BY <1>1, <1>2, <1>3, <1>5, <2>1 DEF Initializes
  <2>11. (\A d \in Callers : InCall(d) /\ op[d] = "initialize" =>
            /\ rid[d] = 1 /\ caps.transition = "no"
            /\ reply[d].kind = "result" => svcConfig # NoConfig
            /\ \A i \in 1..Len(fromChild) : fromChild[i].id = 1 => svcConfig # NoConfig)'
    BY <1>1, <1>3, <2>9
  <2> QED BY <2>5, <2>7, <2>8, <2>10, <2>11 DEF Initializes
<1> QED BY <1>7, <1>8

\* An answer that reaches its caller tells it what the child did.
LEMMA ResponseHandoff ==
    ASSUME RpcInv, ReadResponse, UNCHANGED serviceVars
    PROVE  Transitions' /\ Initializes'
<1>1. UNCHANGED <<serving, inline, inflight, svcStopping, svcRestart, svcConfig, svcCaps>>
  BY DEF serviceVars
<1>2. ClientInv /\ TypeOK /\ Placed /\ Transitions /\ Initializes
  BY DEF RpcInv, ClientInv
<1>3. /\ fromChild # <<>> /\ fromChild' = Tail(fromChild)
      /\ reply' = [c \in Callers |-> IF Line.id \in pending /\ Hit(c)
                                     THEN Outcome(Line.kind, Line.value, Line.caps) ELSE reply[c]]
      /\ UNCHANGED <<toChild, pc, op, arg, rid, nextId, restartRequired, hostConfig, caps>>
  BY DEF ReadResponse, flagVars
<1>4. \A d \in Callers : (InCall(d)' <=> InCall(d)) /\ (InTransition(d)' <=> InTransition(d))
  BY <1>3 DEF InCall, InTransition
<1>5. AtChild' = AtChild
  BY <1>1, <1>3 DEF AllJobs, AtChild
<1>6. /\ Line = fromChild[1] /\ 1 \in 1..Len(fromChild)
      /\ \A i \in 1..Len(fromChild') : fromChild'[i] = fromChild[i + 1] /\ i + 1 \in 1..Len(fromChild)
  <2>1. fromChild \in Seq(Lines) /\ Len(fromChild) \in Nat
    BY <1>2, PlacesTypes
  <2>2. /\ Len(fromChild') = Len(fromChild) - 1 /\ Head(fromChild) = fromChild[1] /\ 1 \in 1..Len(fromChild)
        /\ \A i \in 1..Len(fromChild') : fromChild'[i] = fromChild[i + 1]
    BY <1>3, <2>1, HeadTailProperties
  <2>3. \A i \in 1..Len(fromChild') : i + 1 \in 1..Len(fromChild)
    BY <2>1, <2>2
  <2> QED BY <2>2, <2>3 DEF Line
<1>7. \A d \in Callers :
         \/ reply'[d] = reply[d]
         \/ /\ fromChild[1].id = rid[d]
            /\ reply'[d].kind = fromChild[1].kind /\ reply'[d].value = fromChild[1].value
  BY <1>3, <1>6 DEF Hit, Outcome
<1>8. (Kept' <=> Kept) /\ \A d \in Callers : Took(d)' <=> Took(d)
  BY <1>1, <1>3 DEF Kept, Took
<1>9. ASSUME NEW d \in Callers, InTransition(d), ~restartRequired PROVE AnswersTruthful(d)'
  <2>1. AnswersTruthful(d)
    BY <1>2, <1>9 DEF Transitions
  <2>2. Truthful(d, reply[d].kind, reply[d].value)'
    <3>1. CASE reply'[d] = reply[d]
      BY <1>8, <2>1, <3>1 DEF AnswersTruthful, Truthful
    <3>2. CASE reply'[d] # reply[d]
      <4>1. Truthful(d, fromChild[1].kind, fromChild[1].value)
        BY <1>6, <1>7, <2>1, <3>2 DEF AnswersTruthful
      <4> QED BY <1>7, <1>8, <3>2, <4>1 DEF Truthful
    <3> QED BY <3>1, <3>2
  <2>3. (\A i \in 1..Len(fromChild) :
            fromChild[i].id = rid[d] => Truthful(d, fromChild[i].kind, fromChild[i].value))'
    BY <1>3, <1>6, <1>8, <2>1 DEF AnswersTruthful, Truthful
  <2>4. (\A j \in inline : j.req.id = rid[d] =>
            IF j.stage = "reply" THEN Truthful(d, j.answer.kind, j.answer.value) ELSE Kept)'
    BY <1>1, <1>3, <1>8, <2>1 DEF AnswersTruthful, Truthful
  <2>5. (\A i \in 1..Len(toChild) : toChild[i].id = rid[d] => Kept)'
    BY <1>3, <1>8, <2>1 DEF AnswersTruthful
  <2> QED BY <2>2, <2>3, <2>4, <2>5 DEF AnswersTruthful
<1>10. Transitions'
  <2>1. TransitionsOwned'
    BY <1>2, <1>3, <1>4, <1>5 DEF Transitions, TransitionsOwned
  <2> QED BY <1>1, <1>2, <1>3, <1>4, <1>8, <1>9, <2>1 DEF Transitions
<1>11. ASSUME NEW d \in Callers, InCall(d), op[d] = "initialize"
       PROVE  /\ rid[d] = 1 /\ caps.transition = "no"
              /\ reply'[d].kind = "result" => svcConfig # NoConfig
              /\ \A i \in 1..Len(fromChild') : fromChild'[i].id = 1 => svcConfig # NoConfig
  BY <1>2, <1>6, <1>7, <1>11 DEF Initializes
<1>12. (\A d \in Callers : InCall(d) /\ op[d] = "initialize" =>
            /\ rid[d] = 1 /\ caps.transition = "no"
            /\ reply[d].kind = "result" => svcConfig # NoConfig
            /\ \A i \in 1..Len(fromChild) : fromChild[i].id = 1 => svcConfig # NoConfig)'
  BY <1>1, <1>3, <1>4, <1>11
<1>13. \A r : Fresh(r) => Fresh(r)'
  BY <1>1, <1>3 DEF Fresh
<1>14. (\A i \in 1..Len(toChild) : toChild[i].method = "initialize" => Fresh(toChild[i]))'
  <2> SUFFICES ASSUME NEW i \in 1..Len(toChild), NEW r, r = toChild[i], r.method = "initialize" PROVE Fresh(r)'
    BY <1>3
  <2> QED BY <1>2, <1>13 DEF Initializes
<1>15. (\A j \in inline : j.req.method = "initialize" =>
            IF j.stage = "new" THEN Fresh(j.req) ELSE j.req.id = 1 /\ svcConfig # NoConfig)'
  <2> SUFFICES ASSUME NEW j \in inline, j.req.method = "initialize"
               PROVE  IF j.stage = "new" THEN Fresh(j.req)' ELSE j.req.id = 1 /\ svcConfig' # NoConfig
    BY <1>1
  <2> QED BY <1>1, <1>2, <1>3 DEF Initializes, Fresh
<1>16. /\ restartRequired' \/ (\E d \in Callers : InTransition(d)') => caps'.transition # "no"
       /\ caps'.transition # "no" => svcConfig' # NoConfig
       /\ nextId' = 0 => svcConfig' = NoConfig
  BY <1>1, <1>2, <1>3, <1>4 DEF Initializes
<1> QED BY <1>10, <1>12, <1>14, <1>15, <1>16 DEF Initializes

\* The three facts about the host's side, put together: a step that writes nothing ...
LEMMA HostQuiet ==
    ASSUME RpcInv, ClientInv', UNCHANGED <<serviceVars, nextId, toChild, caps>>,
           fromChild' = fromChild \/ (fromChild' = <<>> /\ ~outOpen'),
           inOpen' = inOpen \/ ~inOpen', outOpen' = outOpen \/ ~outOpen', pending' \subseteq pending,
           \A d \in Callers : InCall(d)' =>
              /\ InCall(d) /\ op'[d] = op[d] /\ arg'[d] = arg[d] /\ rid'[d] = rid[d]
              /\ reply'[d] = reply[d] \/ reply'[d].kind \notin {"result", "error"},
           \/ UNCHANGED <<restartRequired, hostConfig>> /\ \A d \in Callers : InTransition(d) => InTransition(d)'
           \/ restartRequired' /\ caps.transition # "no"
    PROVE  RpcInv'
<1>1. Places /\ ClientInv
  BY DEF RpcInv, Places
<1>2. Places'
  BY <1>1, HostPlaces
<1>3. Transitions'
  BY HostTransitions
<1>4. Initializes'
  BY HostInitializes
<1> QED BY <1>2, <1>3, <1>4 DEF RpcInv, Places

\* ... and one that writes a request.
LEMMA HostIssue ==
    ASSUME RpcInv, ClientInv', NEW c \in Callers, NEW m \in Methods, NEW g \in Configs \cup {NoConfig},
           Issue(c, m, g), ~InCall(c), UNCHANGED <<serviceVars, caps, hostConfig, restartRequired>>,
           m = "transition" => /\ g \in Configs /\ ~restartRequired /\ caps.transition # "no"
                               /\ \A d \in Callers : ~InTransition(d),
           m = "initialize" => g = hostConfig /\ nextId = 0
    PROVE  RpcInv'
<1>1. Places /\ ClientInv
  BY DEF RpcInv, Places
<1>2. Places'
  BY <1>1, IssuePlaces
<1>3. Transitions' /\ Initializes'
  BY IssueHandoff
<1> QED BY <1>2, <1>3 DEF RpcInv, Places

\* A caller that is not in a call leaves no trace.
LEMMA IdleQuiet ==
    ASSUME RpcInv, ClientInv', NEW c \in Callers, ~InCall(c), ~InCall(c)',
           UNCHANGED <<serviceVars, wireVars, nextId, pending, caps, rid, reply>>,
           \A d \in Callers : d # c => pc'[d] = pc[d] /\ op'[d] = op[d] /\ arg'[d] = arg[d],
           UNCHANGED <<restartRequired, hostConfig>> \/ (restartRequired' /\ caps.transition # "no")
    PROVE  RpcInv'
<1>1. UNCHANGED <<toChild, fromChild, inOpen, outOpen>>
  BY DEF wireVars
<1>2. \A d \in Callers : InCall(d)' =>
         InCall(d) /\ op'[d] = op[d] /\ arg'[d] = arg[d] /\ rid'[d] = rid[d] /\ reply'[d] = reply[d]
  BY DEF InCall
<1>3. \A d \in Callers : InTransition(d) => InTransition(d)'
  BY DEF InTransition, InCall
<1> QED BY <1>1, <1>2, <1>3, HostQuiet

\* A call that ends without one of the answers that count.
LEMMA SettleQuiet ==
    ASSUME RpcInv, ClientInv', NEW c \in Callers, InCall(c), Settle(c), UNCHANGED <<serviceVars, caps>>,
           \/ UNCHANGED <<restartRequired, hostConfig>> /\ op[c] # "transition"
           \/ restartRequired' /\ caps.transition # "no"
    PROVE  RpcInv'
<1>1. TypeOK
  BY DEF RpcInv, ClientInv
<1>2. /\ UNCHANGED <<toChild, fromChild, inOpen, outOpen, nextId>> /\ pending' \subseteq pending
      /\ ~InCall(c)'
      /\ \A d \in Callers : d # c => /\ InCall(d)' <=> InCall(d)
                                     /\ op'[d] = op[d] /\ arg'[d] = arg[d] /\ rid'[d] = rid[d]
                                     /\ reply'[d] = reply[d]
  BY <1>1 DEF Settle, wireVars, TypeOK, InCall
<1>3. \A d \in Callers : InCall(d)' =>
         InCall(d) /\ op'[d] = op[d] /\ arg'[d] = arg[d] /\ rid'[d] = rid[d] /\ reply'[d] = reply[d]
  BY <1>2
<1>4. \/ UNCHANGED <<restartRequired, hostConfig>> /\ \A d \in Callers : InTransition(d) => InTransition(d)'
      \/ restartRequired' /\ caps.transition # "no"
  BY <1>2 DEF InTransition
<1> QED BY <1>2, <1>3, <1>4, HostQuiet

\* An ended call leaves requests where they are.
LEMMA SettlePlaces ==
    ASSUME RpcInv, ClientInv', NEW c \in Callers, InCall(c), Settle(c), UNCHANGED serviceVars
    PROVE  Places'
<1>1. TypeOK /\ ClientInv /\ Places
  BY DEF RpcInv, ClientInv, Places
<1>2. /\ UNCHANGED <<toChild, fromChild, inOpen, outOpen, nextId>> /\ pending' \subseteq pending
      /\ ~InCall(c)'
      /\ \A d \in Callers : d # c => /\ InCall(d)' <=> InCall(d)
                                     /\ op'[d] = op[d] /\ arg'[d] = arg[d] /\ rid'[d] = rid[d]
                                     /\ reply'[d] = reply[d]
  BY <1>1 DEF Settle, wireVars, TypeOK, InCall
<1>3. \A d \in Callers : InCall(d)' =>
         InCall(d) /\ op'[d] = op[d] /\ arg'[d] = arg[d] /\ rid'[d] = rid[d] /\ reply'[d] = reply[d]
  BY <1>2
<1> QED BY <1>1, <1>2, <1>3, HostPlaces

\* Steps of a caller.
LEMMA CallerKeeps ==
    ASSUME RpcInv, ClientInv', NEW c \in Callers, CallerNext(c), UNCHANGED serviceVars
    PROVE  RpcInv'
<1>1. ClientInv /\ TypeOK /\ Initializes
  BY DEF RpcInv, ClientInv
<1>2. CASE Initialize(c)
  <2>1. hostConfig \in Configs /\ ~InCall(c) /\ "initialize" \in Methods /\ nextId = 0
    BY <1>1, <1>2 DEF TypeOK, Initialize, InCall, Methods
  <2>2. Issue(c, "initialize", hostConfig) /\ UNCHANGED <<caps, hostConfig, restartRequired>>
    BY <1>2 DEF Initialize, flagVars
  <2> QED BY <2>1, <2>2, HostIssue
<1>3. ASSUME NEW m \in Methods \ {"transition", "initialize"}, pc[c] \in {"idle", "lock"}, Issue(c, m, NoConfig),
             UNCHANGED <<caps, hostConfig, restartRequired>>
      PROVE  RpcInv'
  <2>1. ~InCall(c)
    BY <1>3 DEF InCall
  <2> QED BY <1>3, <2>1, HostIssue
<1>4. CASE CallHostIngress(c)
  BY <1>3, <1>4 DEF CallHostIngress, flagVars, Methods
<1>5. CASE \E m \in {"list", "call"} : UseTools(c, m)
  BY <1>3, <1>5 DEF UseTools, flagVars, Methods
<1>6. CASE Health(c)
  <2>1. CASE ~restartRequired
    BY <1>3, <1>6, <2>1 DEF Health, flagVars, Methods
  <2>2. CASE restartRequired
    <3>1. UNCHANGED <<wireVars, caps, restartRequired, hostConfig, callVars, nextId, pending>> /\ pc[c] = "idle"
      BY <1>6, <2>2 DEF Health
    <3>2. UNCHANGED <<pc, op, arg, rid, reply>> /\ ~InCall(c) /\ ~InCall(c)'
      BY <3>1 DEF callVars, InCall
    <3> QED BY <3>1, <3>2, IdleQuiet
  <2> QED BY <2>1, <2>2
<1>7. CASE \E m \in LifecycleOps, config \in Configs \cup {NoConfig} : RequestLifecycle(c, m, config)
  <2>1. PICK m \in LifecycleOps, config \in Configs \cup {NoConfig} : RequestLifecycle(c, m, config)
    BY <1>7
  <2>2. /\ UNCHANGED <<wireVars, flagVars, rid, reply, nextId, pending>> /\ pc[c] = "idle"
        /\ pc' = [pc EXCEPT ![c] = "lock"] /\ op' = [op EXCEPT ![c] = m] /\ arg' = [arg EXCEPT ![c] = config]
    BY <2>1 DEF RequestLifecycle
  <2>3. ~InCall(c) /\ ~InCall(c)'
    BY <1>1, <2>2 DEF InCall, TypeOK
  <2>4. \A d \in Callers : d # c => pc'[d] = pc[d] /\ op'[d] = op[d] /\ arg'[d] = arg[d]
    BY <1>1, <2>2 DEF TypeOK
  <2> QED BY <2>2, <2>3, <2>4, IdleQuiet DEF flagVars
<1>8. CASE AcquireTransition(c)
  <2>1. /\ lifecycleLock = NoCaller /\ ~restartRequired /\ caps.transition # "no" /\ ~InCall(c)
        /\ Issue(c, "transition", arg[c]) /\ UNCHANGED <<caps, hostConfig, restartRequired>>
    BY <1>8 DEF AcquireTransition, InCall, flagVars
  <2>2. arg[c] \in Configs
    BY <1>1, <1>8 DEF AcquireTransition, ClientInv, TransitionHasConfig
  <2>3. \A d \in Callers : ~InTransition(d)
    BY <1>1, <2>1, ClientConstants DEF ClientInv, OneLifecycleRpc, LifecycleOps, InTransition
  <2>4. "transition" \in Methods
    BY DEF Methods
  <2> QED BY <2>1, <2>2, <2>3, <2>4, HostIssue
<1>9. ASSUME pc[c] = "lock", LeaveLock(c), UNCHANGED <<wireVars, caps, nextId, pending>>,
             UNCHANGED <<restartRequired, hostConfig>> \/ (restartRequired' /\ caps.transition # "no")
      PROVE  RpcInv'
  <2>1. /\ UNCHANGED <<rid, reply>> /\ ~InCall(c) /\ ~InCall(c)'
        /\ \A d \in Callers : d # c => pc'[d] = pc[d] /\ op'[d] = op[d] /\ arg'[d] = arg[d]
    BY <1>1, <1>9 DEF LeaveLock, TypeOK, InCall
  <2> QED BY <1>9, <2>1, IdleQuiet
<1>10. CASE AcquireTransitionDead(c)
  BY <1>9, <1>10 DEF AcquireTransitionDead
<1>11. CASE AcquireShutdown(c)
  BY <1>3, <1>9, <1>11 DEF AcquireShutdown, Methods
<1>12. CASE RefuseLifecycle(c) \/ CancelQueued(c)
  BY <1>9, <1>12 DEF RefuseLifecycle, CancelQueued, flagVars
<1>13. CASE DrainDone(c)
  <2>1. /\ UNCHANGED <<toChild, fromChild, inOpen, outOpen, caps, restartRequired, hostConfig, op, arg, rid, reply,
                       nextId, pending>>
        /\ \A d \in Callers : InCall(d)' <=> InCall(d)
    BY <1>1, <1>13 DEF DrainDone, wireVars, flagVars, InCall, TypeOK
  <2>2. \A d \in Callers : InTransition(d) => InTransition(d)'
    BY <2>1 DEF InTransition
  <2> QED BY <2>1, <2>2, HostQuiet
<1>14. \A o \in Ends(c) : /\ InCall(c)
                          /\ o.kind \in {"result", "error"} => o = reply[c]
  BY DEF Ends, InCall, Failure, Outcome
<1>15. CASE EndInitialize(c)
  <2>1. PICK o \in Ends(c) : caps' = IF o.kind = "result" /\ o.value # "malformed" THEN o.caps ELSE caps
    BY <1>15 DEF EndInitialize
  <2>2. Settle(c) /\ op[c] = "initialize" /\ InCall(c) /\ UNCHANGED <<restartRequired, hostConfig>>
    BY <1>14, <1>15, <2>1 DEF EndInitialize
  <2>3. CASE o.kind = "result"
    <3>1. Places'
      BY <2>2, SettlePlaces
    <3>2. Initializes'
      BY <1>14, <2>1, <2>2, <2>3, InitializedKeeps
    <3>3. Transitions'
      <4>1. /\ UNCHANGED <<toChild, fromChild>> /\ ~InCall(c)'
            /\ \A d \in Callers : d # c => /\ InCall(d)' <=> InCall(d)
                                           /\ op'[d] = op[d] /\ arg'[d] = arg[d] /\ rid'[d] = rid[d]
                                           /\ reply'[d] = reply[d]
        BY <1>1, <2>2 DEF Settle, wireVars, TypeOK, InCall
      <4>2. \A d \in Callers : InCall(d)' =>
               InCall(d) /\ op'[d] = op[d] /\ arg'[d] = arg[d] /\ rid'[d] = rid[d] /\ reply'[d] = reply[d]
        BY <4>1
      <4>3. \A d \in Callers : InTransition(d) => InTransition(d)'
        BY <2>2, <4>1 DEF InTransition
      <4> QED BY <2>2, <4>1, <4>2, <4>3, HostTransitions
    <3> QED BY <3>1, <3>2, <3>3 DEF RpcInv, Places
  <2>4. CASE o.kind # "result"
    BY <2>1, <2>2, <2>4, SettleQuiet
  <2> QED BY <2>3, <2>4
<1>16. CASE EndHealth(c) \/ EndPlain(c)
  <2>1. /\ Settle(c) /\ op[c] # "transition" /\ UNCHANGED <<caps, restartRequired, hostConfig>>
        /\ Ends(c) # {}
    BY <1>16 DEF EndHealth, EndPlain, PlainOps, flagVars
  <2> QED BY <1>14, <2>1, SettleQuiet
<1>17. CASE EndTransition(c)
  <2>1. PICK o \in Ends(c) : /\ restartRequired' = (restartRequired \/ (~Applied(o) /\ ~Rejected(o)))
                             /\ hostConfig' = IF Rejected(o) THEN hostConfig ELSE arg[c]
    BY <1>17 DEF EndTransition
  <2>2. Settle(c) /\ InTransition(c) /\ InCall(c) /\ UNCHANGED caps
    BY <1>14, <1>17, <2>1 DEF EndTransition, InTransition
  <2>3. caps.transition # "no"
    BY <1>1, <2>2 DEF Initializes
  <2>4. CASE ~Applied(o) /\ ~Rejected(o)
    BY <2>1, <2>2, <2>3, <2>4, SettleQuiet
  <2>5. CASE Applied(o) \/ Rejected(o)
    <3>1. reply[c] = o /\ o.kind \in {"result", "error"} /\ restartRequired' = restartRequired
      BY <1>1, <1>14, <2>1, <2>5 DEF Applied, Rejected, TypeOK
    <3>2. \/ reply[c].kind = "error" /\ hostConfig' = hostConfig
          \/ reply[c].kind = "result" /\ reply[c].value = "applied" /\ hostConfig' = arg[c]
      BY <2>1, <2>5, <3>1 DEF Applied, Rejected
    <3>3. Transitions' /\ Initializes'
      BY <2>2, <3>1, <3>2, AcceptKeeps
    <3>4. Places'
      BY <2>2, SettlePlaces
    <3> QED BY <3>3, <3>4 DEF RpcInv, Places
  <2> QED BY <2>4, <2>5
<1> QED BY <1>2, <1>4, <1>5, <1>6, <1>7, <1>8, <1>10, <1>11, <1>12, <1>13, <1>15, <1>16, <1>17 DEF CallerNext

\* Steps of the read loop and of close().
LEMMA StreamKeeps ==
    ASSUME RpcInv, ClientInv', ReaderNext \/ CloserNext, UNCHANGED serviceVars
    PROVE  RpcInv'
<1>1. ClientInv /\ TypeOK /\ Places /\ Placed
  BY DEF RpcInv, ClientInv, Places
<1>2. CASE ReadResponse
  <2>1. Places'
    BY <1>1, <1>2, ResponsePlaces
  <2>2. Transitions' /\ Initializes'
    BY <1>2, ResponseHandoff
  <2> QED BY <2>1, <2>2 DEF RpcInv, Places
<1>3. ~ReadJunk
  <2> SUFFICES ASSUME ReadJunk PROVE FALSE
    OBVIOUS
  <2>1. fromChild # <<>> /\ Head(fromChild).kind \in {"bad", "overlong"}
    BY DEF ReadJunk, Line
  <2>2. Head(fromChild) = fromChild[1] /\ 1 \in 1..Len(fromChild)
    BY <1>1, <2>1, PlacesTypes, HeadTailProperties
  <2> QED BY <1>1, <2>1, <2>2 DEF Placed, JobForms
<1>4. CASE ReadEof \/ ReadCancelled
  <2>1. PICK k \in TerminalKinds : Terminate(k)
    BY <1>4 DEF ReadEof, ReadCancelled, TerminalKinds
  <2>2. /\ UNCHANGED <<toChild, fromChild, inOpen, outOpen, caps, restartRequired, hostConfig, pc, op, arg, rid, nextId>>
        /\ pending' \subseteq pending
        /\ \A d \in Callers : reply'[d] = reply[d] \/ reply'[d] = Failure(k)
    BY <1>4, <2>1 DEF ReadEof, ReadCancelled, Terminate, flagVars
  <2>3. Failure(k).kind \notin {"result", "error"}
    BY DEF Failure, Outcome, TerminalKinds
  <2>4. \A d \in Callers : (InCall(d)' <=> InCall(d)) /\ (InTransition(d)' <=> InTransition(d))
    BY <2>2 DEF InCall, InTransition
  <2> QED BY <2>2, <2>3, <2>4, HostQuiet
<1>5. CASE CloserNext
  <2>1. /\ UNCHANGED <<toChild, caps, restartRequired, hostConfig, pc, op, arg, rid, reply, nextId, pending>>
        /\ fromChild' = fromChild \/ (fromChild' = <<>> /\ ~outOpen')
        /\ inOpen' = inOpen \/ ~inOpen'
        /\ outOpen' = outOpen \/ ~outOpen'
    BY <1>5 DEF CloserNext, Close, CloseStreams, CloseJoined, CloseDone, flagVars, callVars, wireVars
  <2>2. \A d \in Callers : (InCall(d)' <=> InCall(d)) /\ (InTransition(d)' <=> InTransition(d))
    BY <2>1 DEF InCall, InTransition
  <2> QED BY <2>1, <2>2, HostQuiet
<1>6. CASE ReadSkipped
  <2>1. UNCHANGED <<toChild, fromChild, inOpen, outOpen, caps, restartRequired, hostConfig, pc, op, arg, rid, reply, nextId, pending>>
    BY <1>6 DEF ReadSkipped, flagVars, callVars, wireVars
  <2>2. \A d \in Callers : (InCall(d)' <=> InCall(d)) /\ (InTransition(d)' <=> InTransition(d))
    BY <2>1 DEF InCall, InTransition
  <2> QED BY <2>1, <2>2, HostQuiet
<1> QED BY <1>2, <1>3, <1>4, <1>5, <1>6 DEF ReaderNext

\* Every step of the host keeps the invariant of both sides.
LEMMA ClientKeeps ==
    ASSUME RpcInv, ClientNext, UNCHANGED serviceVars
    PROVE  RpcInv'
<1>1. ClientInv'
  BY StepInv DEF RpcInv, Next
<1> QED BY <1>1, CallerKeeps, StreamKeeps DEF ClientNext

-----------------------------------------------------------------------------
\* A step of the child does not disturb the host's own invariant.
LEMMA ServiceClient ==
    ASSUME RpcInv, ServiceNext, UNCHANGED clientVars
    PROVE  ClientInv'
<1>1. TypeOK /\ Placed /\ CallInv /\ LockInv /\ FrameInv /\ FirstInv
  BY DEF RpcInv, ClientInv, CallInv, LockInv, FrameInv, FirstInv
<1>2. UNCHANGED <<nextId, pending, streamVars, rid, reply, pc, op, arg, lifecycleLock, flagVars>>
  BY DEF clientVars, callVars
<1>3. /\ toChild' \in {toChild, <<>>} \/ (toChild # <<>> /\ toChild' = Tail(toChild))
      /\ fromChild' = fromChild \/ \E job \in AllJobs : fromChild' = Append(fromChild, job.answer)
      /\ inOpen' \in {inOpen, FALSE} /\ outOpen' \in {outOpen, FALSE}
  <2>1. CASE SvcRead \/ SvcLeaveLoop \/ SvcExit \/ SvcDie
    BY <2>1 DEF SvcRead, SvcLeaveLoop, SvcExit, SvcDie, wireVars
  <2>2. ASSUME NEW job \in inline, InlineNext(job)
        PROVE  /\ toChild' = toChild /\ UNCHANGED <<inOpen, outOpen>>
               /\ fromChild' = fromChild \/ fromChild' = Append(fromChild, job.answer)
    BY <2>2 DEF InlineNext, SvcInitialize, SvcInitialized, SvcTransition, SvcPrepared, SvcApplied, SvcRejected,
                SvcShutdown, SvcShutdownDone, SvcInlineReply, SvcInlineCancelled, SvcInlineBroken, InlineStep, wireVars
  <2>3. ASSUME NEW job \in inflight, TaskNext(job)
        PROVE  /\ toChild' = toChild /\ UNCHANGED <<inOpen, outOpen>>
               /\ fromChild' = fromChild \/ fromChild' = Append(fromChild, job.answer)
    BY <2>3 DEF TaskNext, TaskStart, TaskDone, TaskCancelled, TaskReply, TaskBroken, wireVars
  <2> QED BY <2>1, <2>2, <2>3 DEF ServiceNext, AllJobs
<1>4. TypeOK'
  <2>1. toChild' \in Seq(Requests)
    <3>1. toChild \in Seq(Requests) /\ (toChild # <<>> => Tail(toChild) \in Seq(Requests))
      BY <1>1, PlacesTypes, HeadTailProperties
    <3>2. <<>> \in Seq(Requests)
      OBVIOUS
    <3> QED BY <1>3, <3>1, <3>2
  <2>2. fromChild' \in Seq(Lines)
    <3>1. \A job \in AllJobs : job.answer \in Lines
      BY <1>1, PlacesTypes
    <3>2. \A a \in Lines : Append(fromChild, a) \in Seq(Lines)
      BY <1>1, PlacesTypes, AppendProperties
    <3> QED BY <1>1, <1>3, <3>1, <3>2, PlacesTypes
  <2>3. WireTypeOK'
    <3>1. inOpen \in BOOLEAN /\ outOpen \in BOOLEAN
      BY <1>1 DEF TypeOK, WireTypeOK
    <3>2. inOpen' \in BOOLEAN /\ outOpen' \in BOOLEAN
      BY <1>3, <3>1
    <3> QED BY <2>1, <2>2, <3>2 DEF WireTypeOK
  <2> QED BY <1>1, <1>2, <2>3 DEF TypeOK, flagVars, streamVars
<1>5. LockInv'
  BY <1>1, <1>2 DEF LockInv, TransitionHasConfig, AwaitedUnfenced, OneLifecycleRpc, FencedNotReady, InCall, flagVars
<1>6. CallInv'
  <2>1. \A d \in Callers : InCall(d)' = InCall(d)
    BY <1>2 DEF InCall
  <2> QED BY <1>1, <1>2, <2>1, QuietCalls
<1>7. FrameInv'
  <2>1. shutdownStarted' = shutdownStarted
    BY <1>2 DEF flagVars
  <2>2. CASE toChild' = toChild
    BY <1>1, <2>1, <2>2, QuietFrames
  <2>3. CASE toChild' = <<>>
    <3>1. Len(toChild') = 0 /\ 1..0 = {}
      BY <2>3
    <3> QED BY <3>1 DEF FrameInv, ShutdownIsLatched, WireOrder
  <2>4. CASE toChild # <<>> /\ toChild' = Tail(toChild)
    <3>1. /\ Len(toChild) \in Nat /\ Len(toChild') = Len(toChild) - 1
          /\ \A i \in 1..Len(toChild') : toChild'[i] = toChild[i + 1]
      BY <1>1, <2>4, PlacesTypes, HeadTailProperties
    <3>2. \A i \in 1..Len(toChild') : toChild'[i] = toChild[i + 1] /\ i + 1 \in 1..Len(toChild)
      BY <3>1
    <3>3. \A i, j \in 1..Len(toChild') : i < j => i + 1 < j + 1
      BY <3>1
    <3>4. ShutdownIsLatched'
      BY <1>1, <2>1, <3>2 DEF FrameInv, ShutdownIsLatched
    <3>5. WireOrder'
      BY <1>1, <3>2, <3>3 DEF FrameInv, WireOrder
    <3> QED BY <3>4, <3>5 DEF FrameInv
  <2> QED BY <1>3, <2>2, <2>3, <2>4
<1>8. FirstInv'
  <2>1. \A d \in Callers : InCall(d)' = InCall(d)
    BY <1>2 DEF InCall
  <2> QED BY <1>1, <1>2, <2>1, QuietFirst DEF flagVars, streamVars
<1> QED BY <1>4, <1>5, <1>6, <1>7, <1>8 DEF ClientInv, CallInv, LockInv, FrameInv, FirstInv

(***************************************************************************)
(* How a step of the child moves requests on without acting on them: none  *)
(* is new, an answer belongs to the request it came from, and a transition *)
(* that is answered at once is refused.                                    *)
(***************************************************************************)
GoesOn(k, j) ==
    /\ j.req = k.req /\ k.stage # "reply" /\ j.stage # "new"
    /\ k.stage = "new" => j.req.method # "initialize"
    /\ j.req.method = "transition" => IF j.stage = "reply" THEN j.answer.kind = "error" ELSE ~svcRestart

Moves ==
    /\ \A i \in 1..Len(toChild') : \E k \in 1..Len(toChild) : toChild'[i] = toChild[k]
    /\ \A i \in 1..Len(fromChild') :
          \/ \E k \in 1..Len(fromChild) : fromChild'[i] = fromChild[k]
          \/ \E j \in inline : j.stage = "reply" /\ fromChild'[i] = j.answer
          \/ \E j \in inflight : fromChild'[i].id = j.req.id
    /\ \A j \in inline' :
          \/ j \in inline
          \/ \E k \in inline : GoesOn(k, j)
          \/ \E i \in 1..Len(toChild) : j.req = toChild[i] /\ j.stage = "new"
    /\ \A j \in inflight' : j.req \in AtChild

\* Such a step keeps what is known about transitions ...
LEMMA MovesTransitions ==
    ASSUME RpcInv, Moves, UNCHANGED <<clientVars, svcConfig, svcRestart>>
    PROVE  Transitions'
<1>1. UNCHANGED <<pc, op, arg, rid, reply, restartRequired, hostConfig>>
  BY DEF clientVars, callVars, flagVars
<1>2. ClientInv /\ TypeOK /\ Placed /\ Matches /\ Transitions
  BY DEF RpcInv, ClientInv
<1>3. \A d \in Callers : InTransition(d)' <=> InTransition(d)
  BY <1>1 DEF InTransition, InCall
<1>4. (Kept' <=> Kept) /\ \A d \in Callers : Took(d)' <=> Took(d)
  BY <1>1 DEF Kept, Took
<1>5. AtChild' \subseteq AtChild
  <2>1. \A i \in 1..Len(toChild') : toChild'[i] \in AtChild
    BY <1>2, PlacesTypes DEF Moves
  <2>2. \A j \in inline' : j.req \in AtChild
    BY <1>2, PlacesTypes DEF Moves, GoesOn
  <2> QED BY <2>1, <2>2 DEF Moves, AtChild, AllJobs
<1>6. TransitionsOwned'
  BY <1>1, <1>2, <1>3, <1>5 DEF Transitions, TransitionsOwned
<1>7. \A j \in inline' : j.req.method = "transition" /\ j.stage = "run" => ~svcRestart'
  BY <1>2 DEF Moves, GoesOn, Transitions
<1>8. ASSUME NEW d \in Callers, InTransition(d), ~restartRequired PROVE AnswersTruthful(d)'
  <2>1. AnswersTruthful(d) /\ InCall(d) /\ op[d] = "transition"
    BY <1>2, <1>8 DEF Transitions, InTransition
  <2>2. \A k, v : Truthful(d, k, v)' <=> Truthful(d, k, v)
    BY <1>4 DEF Truthful
  <2>3. \A r \in AtChild : r.id = rid[d] => r.method = "transition"
    BY <1>2, <2>1 DEF Matches
  <2>4. ASSUME NEW i \in 1..Len(fromChild'), NEW f, f = fromChild'[i], f.id = rid[d]
        PROVE  Truthful(d, f.kind, f.value)
    <3>1. CASE \E k \in 1..Len(fromChild) : f = fromChild[k]
      BY <2>1, <2>4, <3>1 DEF AnswersTruthful
    <3>2. CASE \E j \in inline : j.stage = "reply" /\ f = j.answer
      <4>1. PICK j \in inline : j.stage = "reply" /\ f = j.answer
        BY <3>2
      <4>2. j.req.id = rid[d]
        BY <1>2, <2>4, <4>1, PlacesTypes DEF Placed, JobForms
      <4> QED BY <2>1, <4>1, <4>2 DEF AnswersTruthful
    <3>3. CASE \E j \in inflight : f.id = j.req.id
      <4>1. PICK j \in inflight : j.req.id = rid[d]
        BY <2>4, <3>3
      <4>2. j.req.method = "transition"
        BY <1>2, <2>3, <4>1, PlacesTypes
      <4> QED BY <1>2, <4>2 DEF Placed, JobForms, InlineMethods
    <3> QED BY <2>4, <3>1, <3>2, <3>3 DEF Moves
  <2>5. ASSUME NEW j \in inline', j.req.id = rid[d]
        PROVE  IF j.stage = "reply" THEN Truthful(d, j.answer.kind, j.answer.value) ELSE Kept
    <3>1. CASE j \in inline
      BY <2>1, <2>5, <3>1 DEF AnswersTruthful
    <3>2. CASE \E k \in inline : GoesOn(k, j)
      <4>1. PICK k \in inline : GoesOn(k, j)
        BY <3>2
      <4>2. Kept
        BY <2>1, <2>5, <4>1 DEF AnswersTruthful, GoesOn
      <4>3. j.req.method = "transition"
        BY <1>2, <2>3, <2>5, <4>1, PlacesTypes DEF GoesOn
      <4>4. j.stage = "reply" => j.answer.kind = "error"
        BY <4>1, <4>3 DEF GoesOn
      <4> QED BY <4>2, <4>4 DEF Truthful
    <3>3. CASE \E i \in 1..Len(toChild) : j.req = toChild[i] /\ j.stage = "new"
      BY <2>1, <2>5, <3>3 DEF AnswersTruthful
    <3> QED BY <2>5, <3>1, <3>2, <3>3 DEF Moves
  <2>6. \A i \in 1..Len(toChild') : toChild'[i].id = rid[d] => Kept
    BY <2>1 DEF AnswersTruthful, Moves
  <2>7. Truthful(d, reply[d].kind, reply[d].value)
    BY <2>1 DEF AnswersTruthful
  <2>8. (\A i \in 1..Len(fromChild) :
            fromChild[i].id = rid[d] => Truthful(d, fromChild[i].kind, fromChild[i].value))'
    BY <1>1, <2>2, <2>4
  <2>9. (\A j \in inline : j.req.id = rid[d] =>
            IF j.stage = "reply" THEN Truthful(d, j.answer.kind, j.answer.value) ELSE Kept)'
    BY <1>1, <1>4, <2>2, <2>5
  <2>10. Truthful(d, reply[d].kind, reply[d].value)'
    BY <1>1, <2>2, <2>7
  <2> QED BY <1>1, <1>4, <2>6, <2>8, <2>9, <2>10 DEF AnswersTruthful
<1> QED BY <1>1, <1>2, <1>3, <1>4, <1>6, <1>7, <1>8 DEF Transitions

\* ... and about initialize.
LEMMA MovesInitializes ==
    ASSUME RpcInv, Moves, UNCHANGED <<clientVars, svcConfig, svcRestart>>
    PROVE  Initializes'
<1>1. UNCHANGED <<pc, op, arg, rid, reply, restartRequired, hostConfig, caps, nextId>>
  BY DEF clientVars, callVars, flagVars
<1>2. ClientInv /\ TypeOK /\ Placed /\ Matches /\ Initializes
  BY DEF RpcInv, ClientInv
<1>3. \A d \in Callers : (InCall(d)' <=> InCall(d)) /\ (InTransition(d)' <=> InTransition(d))
  BY <1>1 DEF InTransition, InCall
<1>4. \A r : Fresh(r)' <=> Fresh(r)
  BY <1>1 DEF Fresh
<1>5. \A i \in 1..Len(toChild) : toChild[i].method = "initialize" => Fresh(toChild[i])
  BY <1>2 DEF Initializes
<1>6. (\A i \in 1..Len(toChild) : toChild[i].method = "initialize" => Fresh(toChild[i]))'
  <2> SUFFICES ASSUME NEW i \in 1..Len(toChild'), NEW r, r = toChild'[i], r.method = "initialize" PROVE Fresh(r)'
    OBVIOUS
  <2> QED BY <1>4, <1>5 DEF Moves
<1>7. (\A j \in inline : j.req.method = "initialize" =>
          IF j.stage = "new" THEN Fresh(j.req) ELSE j.req.id = 1 /\ svcConfig # NoConfig)'
  <2> SUFFICES ASSUME NEW j \in inline', j.req.method = "initialize"
               PROVE  IF j.stage = "new" THEN Fresh(j.req)' ELSE j.req.id = 1 /\ svcConfig' # NoConfig
    OBVIOUS
  <2>1. \A k \in inline : k.req.method = "initialize" =>
           IF k.stage = "new" THEN Fresh(k.req) ELSE k.req.id = 1 /\ svcConfig # NoConfig
    BY <1>2 DEF Initializes
  <2>2. CASE j \in inline
    BY <1>4, <2>1, <2>2
  <2>3. CASE \E k \in inline : GoesOn(k, j)
    BY <2>1, <2>3 DEF GoesOn
  <2>4. CASE \E i \in 1..Len(toChild) : j.req = toChild[i] /\ j.stage = "new"
    BY <1>4, <1>5, <2>4
  <2> QED BY <2>2, <2>3, <2>4 DEF Moves
<1>8. ASSUME NEW d \in Callers, InCall(d), op[d] = "initialize", NEW i \in 1..Len(fromChild'), fromChild'[i].id = 1
      PROVE  svcConfig # NoConfig
  <2>1. rid[d] = 1
    BY <1>2, <1>8 DEF Initializes
  <2>2. \A r \in AtChild : r.id = 1 => r.method = "initialize"
    BY <1>2, <1>8, <2>1 DEF Matches
  <2>3. CASE \E k \in 1..Len(fromChild) : fromChild'[i] = fromChild[k]
    BY <1>2, <1>8, <2>3 DEF Initializes
  <2>4. CASE \E j \in inline : j.stage = "reply" /\ fromChild'[i] = j.answer
    <3>1. PICK j \in inline : j.stage = "reply" /\ fromChild'[i] = j.answer
      BY <2>4
    <3>2. j.req.id = 1
      BY <1>2, <1>8, <3>1, PlacesTypes DEF Placed, JobForms
    <3>3. j.req.method = "initialize"
      BY <1>2, <2>2, <3>2, PlacesTypes
    <3> QED BY <1>2, <3>1, <3>3 DEF Initializes
  <2>5. CASE \E j \in inflight : fromChild'[i].id = j.req.id
    <3>1. PICK j \in inflight : j.req.id = 1
      BY <1>8, <2>5
    <3>2. j.req.method = "initialize"
      BY <1>2, <2>2, <3>1, PlacesTypes
    <3> QED BY <1>2, <3>2 DEF Placed, JobForms, InlineMethods
  <2> QED BY <2>3, <2>4, <2>5 DEF Moves
<1>9. (\A d \in Callers : InCall(d) /\ op[d] = "initialize" =>
          /\ rid[d] = 1 /\ caps.transition = "no"
          /\ reply[d].kind = "result" => svcConfig # NoConfig
          /\ \A i \in 1..Len(fromChild) : fromChild[i].id = 1 => svcConfig # NoConfig)'
  <2>1. \A d \in Callers : InCall(d) /\ op[d] = "initialize" =>
           /\ rid[d] = 1 /\ caps.transition = "no"
           /\ reply[d].kind = "result" => svcConfig # NoConfig
    BY <1>2 DEF Initializes
  <2> QED BY <1>1, <1>3, <1>8, <2>1
<1>10. /\ restartRequired' \/ (\E d \in Callers : InTransition(d)') => caps'.transition # "no"
       /\ caps'.transition # "no" => svcConfig' # NoConfig
       /\ nextId' = 0 => svcConfig' = NoConfig
  BY <1>1, <1>2, <1>3 DEF Initializes
<1> QED BY <1>6, <1>7, <1>9, <1>10 DEF Initializes

\* The caller of a transition the child is about to act on, while the host is not fenced.
LEMMA JobOwner ==
    ASSUME RpcInv, NEW job \in inline, job.req.method = "transition", ~restartRequired
    PROVE  \E c \in Callers :
              /\ InTransition(c) /\ rid[c] = job.req.id /\ arg[c] = job.req.config
              /\ \A d \in Callers : InTransition(d) => d = c
              /\ reply[c].kind \notin {"result", "error"}
              /\ \A i \in 1..Len(fromChild) : fromChild[i].id # rid[c]
              /\ \A i \in 1..Len(toChild) : toChild[i].id # rid[c]
<1>1. ClientInv /\ TypeOK /\ Placed /\ Matches /\ Transitions
  BY DEF RpcInv, ClientInv
<1>2. job \in AllJobs /\ job.req \in AtChild
  BY <1>1, PlacesTypes
<1>3. PICK c \in Callers : InTransition(c) /\ rid[c] = job.req.id
  BY <1>1, <1>2 DEF Transitions, TransitionsOwned
<1>4. arg[c] = job.req.config
  BY <1>1, <1>2, <1>3 DEF Matches, InTransition
<1>5. \A d \in Callers : InTransition(d) => d = c
  BY <1>1, <1>3, OneTransitionCall
<1>6. reply[c].kind \notin {"result", "error"}
  <2>1. job.req.id \notin DoneIds
    BY <1>1, <1>2 DEF Placed, Apart
  <2> QED BY <1>3, <2>1 DEF DoneIds, Answered, InTransition
<1>7. /\ \A i \in 1..Len(fromChild) : fromChild[i].id # rid[c]
      /\ \A i \in 1..Len(toChild) : toChild[i].id # rid[c]
  BY <1>1, <1>2, <1>3 DEF Placed, Apart
<1> QED BY <1>3, <1>4, <1>5, <1>6, <1>7

\* The child acts on a transition: it retires, or takes the config it was asked for.
LEMMA ActHandoff ==
    ASSUME RpcInv, NEW job \in inline, job.req.method = "transition", job.stage = "run", NEW next,
           InlineStep(job, next), next.req = job.req, next.stage = "reply", next.answer.kind = "result",
           UNCHANGED clientVars,
           \/ next.answer.value = "restart" /\ svcRestart' /\ svcConfig' = svcConfig
           \/ next.answer.value = "applied" /\ svcRestart' = svcRestart /\ svcConfig' = job.req.config
    PROVE  Transitions' /\ Initializes'
<1>1. UNCHANGED <<pc, op, arg, rid, reply, restartRequired, hostConfig, caps, nextId>>
  BY DEF clientVars, callVars, flagVars
<1>2. ClientInv /\ TypeOK /\ Placed /\ Transitions /\ Initializes
  BY DEF RpcInv, ClientInv
<1>3. inline = {job} /\ inline' = {next} /\ UNCHANGED <<toChild, fromChild, inflight>>
  BY DEF InlineStep, wireVars
<1>4. \A d \in Callers : (InCall(d)' <=> InCall(d)) /\ (InTransition(d)' <=> InTransition(d))
  BY <1>1 DEF InTransition, InCall
<1>5. AtChild' \subseteq AtChild /\ job.req \in AtChild
  <2>1. \A j \in AllJobs' : j.req \in AtChild
    BY <1>2, <1>3, PlacesTypes DEF AllJobs
  <2>2. \A i \in 1..Len(toChild') : toChild'[i] \in AtChild
    BY <1>2, <1>3, PlacesTypes
  <2> QED BY <1>2, <2>1, <2>2, PlacesTypes DEF AtChild
<1>6. TransitionsOwned'
  BY <1>1, <1>2, <1>4, <1>5 DEF Transitions, TransitionsOwned
<1>7. ~svcRestart /\ job.req.config \in Configs
  BY <1>2, <1>5 DEF Transitions, TransitionsOwned
<1>8. ASSUME ~restartRequired
      PROVE  /\ \E d \in Callers : InTransition(d)
             /\ \A d \in Callers : InTransition(d) => AnswersTruthful(d)'
  <2>1. PICK c \in Callers :
              /\ InTransition(c) /\ rid[c] = job.req.id /\ arg[c] = job.req.config
              /\ \A d \in Callers : InTransition(d) => d = c
              /\ reply[c].kind \notin {"result", "error"}
              /\ \A i \in 1..Len(fromChild) : fromChild[i].id # rid[c]
              /\ \A i \in 1..Len(toChild) : toChild[i].id # rid[c]
    BY <1>8, JobOwner
  <2>2. next.answer.value = "applied" => Took(c)'
    BY <1>1, <1>7, <2>1 DEF Took
  <2>3. Truthful(c, next.answer.kind, next.answer.value)'
    BY <2>2 DEF Truthful
  <2>4. Truthful(c, reply[c].kind, reply[c].value)'
    BY <1>1, <2>1 DEF Truthful
  <2>5. AnswersTruthful(c)'
    BY <1>1, <1>3, <2>1, <2>3, <2>4 DEF AnswersTruthful
  <2> QED BY <2>1, <2>5
<1>9. Transitions'
  <2>1. \A j \in inline' : j.stage # "run"
    BY <1>3
  <2> QED BY <1>1, <1>4, <1>6, <1>8, <2>1 DEF Transitions
<1>10. caps.transition # "no" /\ svcConfig # NoConfig
  BY <1>2, <1>8 DEF Initializes
<1>11. svcConfig' # NoConfig
  BY <1>7, <1>10, WireConstants
<1>12. /\ \A i \in 1..Len(toChild) : toChild[i].method # "initialize"
       /\ \A d \in Callers : ~(InCall(d) /\ op[d] = "initialize")
  BY <1>2, <1>10 DEF Initializes, Fresh
<1>13. nextId # 0
  <2>1. job.req.id \in 1..nextId /\ 1..0 = {}
    BY <1>2, PlacesTypes DEF Placed, Numbered
  <2> QED BY <2>1
<1>14. \A j \in inline' : j.req.method # "initialize"
  BY <1>3
<1>15. Initializes'
  BY <1>1, <1>3, <1>4, <1>10, <1>11, <1>12, <1>13, <1>14 DEF Initializes
<1> QED BY <1>9, <1>15

\* on_initialize() takes the config the host started the child with.
LEMMA BootHandoff ==
    ASSUME RpcInv, NEW job \in inline, SvcInitialize(job), UNCHANGED clientVars
    PROVE  /\ svcConfig = NoConfig /\ svcConfig' = hostConfig
           /\ Transitions' /\ Initializes'
<1>1. UNCHANGED <<pc, op, arg, rid, reply, restartRequired, hostConfig, caps, nextId>>
  BY DEF clientVars, callVars, flagVars
<1>2. ClientInv /\ TypeOK /\ Placed /\ Transitions /\ Initializes
  BY DEF RpcInv, ClientInv
<1> DEFINE next == [job EXCEPT !.stage = "run"]
<1>3. /\ job.req.method = "initialize" /\ job.stage = "new" /\ svcConfig' = job.req.config
      /\ inline = {job} /\ inline' = {next} /\ UNCHANGED <<toChild, fromChild, inflight, svcRestart>>
  BY DEF SvcInitialize, InlineStep, wireVars
<1>4. next.req = job.req /\ next.stage = "run" /\ job \in AllJobs /\ job.req \in AtChild
  <2>1. job \in Jobs /\ job \in AllJobs /\ job.req \in AtChild
    BY <1>2, PlacesTypes
  <2> QED BY <2>1, JobShapes
<1> HIDE DEF next
<1>5. Fresh(job.req)
  BY <1>2, <1>3 DEF Initializes
<1>6. svcConfig = NoConfig /\ svcConfig' = hostConfig /\ caps.transition = "no" /\ job.req.id = 1
  BY <1>3, <1>5 DEF Fresh
<1>7. ~restartRequired /\ \A d \in Callers : ~InTransition(d)
  BY <1>2, <1>6 DEF Initializes
<1>8. \A d \in Callers : (InCall(d)' <=> InCall(d)) /\ ~InTransition(d)'
  BY <1>1, <1>7 DEF InTransition, InCall
<1>9. \A r \in AtChild : r.method # "transition"
  BY <1>2, <1>7 DEF Transitions, TransitionsOwned
<1>10. AtChild' \subseteq AtChild
  <2>1. \A j \in AllJobs' : j.req \in AtChild
    BY <1>2, <1>3, <1>4, PlacesTypes DEF AllJobs
  <2>2. \A i \in 1..Len(toChild') : toChild'[i] \in AtChild
    BY <1>2, <1>3, PlacesTypes
  <2> QED BY <2>1, <2>2 DEF AtChild
<1>11. Kept'
  BY <1>1, <1>2, <1>3, <1>6, <1>7 DEF Transitions, Kept
<1>12. Transitions'
  <2>1. \A r \in AtChild' : r.method # "transition"
    BY <1>9, <1>10
  <2>2. \A j \in inline' : j.req.method # "transition"
    BY <1>3, <1>4
  <2>3. TransitionsOwned'
    BY <2>1 DEF TransitionsOwned
  <2> QED BY <1>8, <1>11, <2>2, <2>3 DEF Transitions
<1>13. svcConfig' # NoConfig
  BY <1>2, <1>6, WireConstants DEF TypeOK
<1>14. nextId # 0
  <2>1. job.req.id \in 1..nextId /\ 1..0 = {}
    BY <1>2, <1>4 DEF Placed, Numbered
  <2> QED BY <2>1
<1>15. \A i \in 1..Len(toChild) : toChild[i].method # "initialize"
  BY <1>2, <1>4, <1>6 DEF Initializes, Fresh, Placed, Apart
<1>16. \A d \in Callers : InCall(d) /\ op[d] = "initialize" => rid[d] = 1
  BY <1>2 DEF Initializes
<1>17. \A j \in inline' : j.stage # "new" /\ j.req.id = 1
  BY <1>3, <1>4, <1>6
<1>18. Initializes'
  BY <1>1, <1>3, <1>6, <1>7, <1>8, <1>13, <1>14, <1>15, <1>16, <1>17 DEF Initializes
<1> QED BY <1>6, <1>12, <1>18

\* Every other step of the child only moves requests on.
LEMMA ReadMoves ==
    ASSUME TypeOK, Placed, SvcRead
    PROVE  Moves /\ UNCHANGED <<svcConfig, svcRestart>>
<1> DEFINE job == Job(Head(toChild), "new", NoAnswer)
<1>1. /\ serving = "reading" /\ toChild # <<>> /\ toChild' = Tail(toChild)
      /\ \/ inline' = {job} /\ UNCHANGED inflight
         \/ inflight' = inflight \cup {job} /\ UNCHANGED inline
      /\ UNCHANGED <<fromChild, svcRestart, svcConfig>>
  BY DEF SvcRead
<1>2. job.req = Head(toChild) /\ job.stage = "new"
  BY DEF Job
<1> HIDE DEF job
<1>3. toChild \in Seq(Requests) /\ Len(toChild) \in Nat
  BY PlacesTypes
<1>4. /\ Len(toChild') = Len(toChild) - 1 /\ Head(toChild) = toChild[1] /\ 1 \in 1..Len(toChild)
      /\ \A i \in 1..Len(toChild') : toChild'[i] = toChild[i + 1]
  BY <1>1, <1>3, HeadTailProperties
<1>5. \A i \in 1..Len(toChild') : \E k \in 1..Len(toChild) : toChild'[i] = toChild[k]
  <2>1. \A i \in 1..Len(toChild') : i + 1 \in 1..Len(toChild)
    BY <1>3, <1>4
  <2> QED BY <1>4, <2>1
<1>6. job.req = toChild[1] /\ job.req \in AtChild /\ \A j \in inflight : j.req \in AtChild
  BY <1>2, <1>4, PlacesTypes
<1> QED BY <1>1, <1>2, <1>4, <1>5, <1>6 DEF Moves

LEMMA LeaveMoves ==
    ASSUME TypeOK, Placed, toChild' = toChild \/ toChild' = <<>>, fromChild' = fromChild,
           inline' \subseteq inline, \A j \in inflight' : j.req \in AtChild
    PROVE  Moves
<1>1. toChild' = <<>> => Len(toChild') = 0
  OBVIOUS
<1>2. 1..0 = {}
  OBVIOUS
<1> QED BY <1>1, <1>2 DEF Moves

LEMMA ReplyMoves ==
    ASSUME TypeOK, Placed, UNCHANGED toChild, inline' \subseteq inline, inflight' \subseteq inflight,
           NEW job \in AllJobs, job.stage = "reply", fromChild' = Append(fromChild, job.answer)
    PROVE  Moves
<1>1. job.answer \in Lines /\ job.answer.id = job.req.id
  BY PlacesTypes DEF Placed, JobForms
<1>2. /\ Len(fromChild) \in Nat /\ Len(fromChild') = Len(fromChild) + 1
      /\ fromChild'[Len(fromChild) + 1] = job.answer
      /\ \A i \in 1..Len(fromChild) : fromChild'[i] = fromChild[i]
  BY <1>1, PlacesTypes, AppendProperties
<1>3. \A i \in 1..Len(fromChild') : (i \in 1..Len(fromChild) /\ fromChild'[i] = fromChild[i]) \/ fromChild'[i] = job.answer
  <2>1. \A i \in 1..Len(fromChild') : i \in 1..Len(fromChild) \/ i = Len(fromChild) + 1
    BY <1>2
  <2> QED BY <1>2, <2>1
<1>4. \A j \in inflight' : j.req \in AtChild
  BY PlacesTypes
<1>5. job \in inline \/ job \in inflight
  BY DEF AllJobs
<1> QED BY <1>1, <1>3, <1>4, <1>5 DEF Moves

LEMMA InlineMoves ==
    ASSUME TypeOK, Placed, NEW job \in inline,
           \/ SvcInitialized(job) \/ SvcTransition(job) \/ SvcRejected(job) \/ SvcShutdown(job) \/ SvcShutdownDone(job),
           job.req.method = "transition" /\ job.stage = "run" => ~svcRestart
    PROVE  Moves /\ UNCHANGED <<svcConfig, svcRestart>>
<1>1. job \in Jobs /\ \A j \in inflight : j.req \in AtChild
  BY PlacesTypes
<1>2. /\ [job EXCEPT !.stage = "run"].req = job.req /\ [job EXCEPT !.stage = "run"].stage = "run"
      /\ \A a : Job(job.req, "reply", a).req = job.req /\ Job(job.req, "reply", a).stage = "reply"
                /\ Job(job.req, "reply", a).answer = a
      /\ Error(job.req.id).kind = "error"
  BY <1>1, JobShapes DEF Job, Error
<1>3. ASSUME NEW next, InlineStep(job, next), GoesOn(job, next) PROVE Moves
  <2>1. inline' = {next} /\ UNCHANGED <<toChild, fromChild, inflight>>
    BY <1>3 DEF InlineStep, wireVars
  <2> QED BY <1>1, <1>3, <2>1 DEF Moves
<1>4. UNCHANGED <<svcConfig, svcRestart>>
  BY DEF SvcInitialized, SvcTransition, SvcRejected, SvcShutdown, SvcShutdownDone
<1>5. CASE SvcInitialized(job)
  <2>1. PICK a : InlineStep(job, Job(job.req, "reply", a)) /\ job.req.method = "initialize" /\ job.stage = "run"
    BY <1>5 DEF SvcInitialized
  <2>2. GoesOn(job, Job(job.req, "reply", a))
    BY <1>2, <2>1 DEF GoesOn
  <2> QED BY <1>3, <1>4, <2>1, <2>2
<1>6. CASE SvcTransition(job) \/ SvcRejected(job)
  <2>1. /\ job.req.method = "transition" /\ job.stage # "reply"
        /\ \/ InlineStep(job, Job(job.req, "reply", Error(job.req.id)))
           \/ InlineStep(job, [job EXCEPT !.stage = "run"]) /\ ~svcRestart
    BY <1>6 DEF SvcTransition, SvcRejected
  <2>2. GoesOn(job, Job(job.req, "reply", Error(job.req.id)))
    BY <1>2, <2>1 DEF GoesOn
  <2>3. ~svcRestart => GoesOn(job, [job EXCEPT !.stage = "run"])
    BY <1>2, <2>1 DEF GoesOn
  <2> QED BY <1>3, <1>4, <2>1, <2>2, <2>3
<1>7. CASE SvcShutdown(job) \/ SvcShutdownDone(job)
  <2>1. /\ job.req.method = "shutdown" /\ job.stage # "reply"
        /\ \/ InlineStep(job, [job EXCEPT !.stage = "run"])
           \/ \E a : InlineStep(job, Job(job.req, "reply", a))
    BY <1>7 DEF SvcShutdown, SvcShutdownDone
  <2>2. GoesOn(job, [job EXCEPT !.stage = "run"]) /\ \A a : GoesOn(job, Job(job.req, "reply", a))
    BY <1>2, <2>1 DEF GoesOn
  <2> QED BY <1>3, <1>4, <2>1, <2>2
<1> QED BY <1>5, <1>6, <1>7

LEMMA TaskMoves ==
    ASSUME TypeOK, Placed, NEW job \in inflight, TaskNext(job)
    PROVE  Moves /\ UNCHANGED <<svcConfig, svcRestart>>
<1>1. job \in Jobs /\ job \in AllJobs /\ \A j \in inflight : j.req \in AtChild
  BY PlacesTypes
<1>2. /\ [job EXCEPT !.stage = "run"].req = job.req
      /\ \A a : Job(job.req, "reply", a).req = job.req
  BY <1>1, JobShapes DEF Job
<1>3. CASE TaskReply(job)
  <2>1. /\ job.stage = "reply" /\ fromChild' = Append(fromChild, job.answer)
        /\ inflight' \subseteq inflight /\ UNCHANGED <<toChild, inline, svcConfig, svcRestart>>
    BY <1>3 DEF TaskReply, TaskStep
  <2> QED BY <1>1, <2>1, ReplyMoves
<1>4. ASSUME NEW S, TaskStep(job, S), \A j \in S : j.req = job.req, UNCHANGED wireVars
      PROVE  Moves /\ UNCHANGED <<svcConfig, svcRestart>>
  <2>1. /\ inflight' = (inflight \ {job}) \cup S
        /\ UNCHANGED <<toChild, fromChild, inline, svcConfig, svcRestart>>
    BY <1>4 DEF TaskStep, wireVars
  <2>2. \A j \in inflight' : j.req \in AtChild
    BY <1>1, <1>4, <2>1
  <2> QED BY <2>1, <2>2, LeaveMoves
<1>5. CASE TaskStart(job)
  <2>1. PICK next \in {[job EXCEPT !.stage = "run"], Job(job.req, "reply", Error(job.req.id)),
                       Job(job.req, "reply", Result(job.req.id, "notready", NoCaps))} : TaskStep(job, {next})
    BY <1>5 DEF TaskStart
  <2>2. next.req = job.req
    BY <1>2
  <2> QED BY <1>4, <1>5, <2>1, <2>2 DEF TaskStart
<1>6. CASE TaskDone(job)
  BY <1>2, <1>4, <1>6 DEF TaskDone
<1>7. CASE TaskCancelled(job)
  BY <1>2, <1>4, <1>7 DEF TaskCancelled
<1>8. CASE TaskBroken(job)
  BY <1>4, <1>8 DEF TaskBroken
<1> QED BY <1>3, <1>5, <1>6, <1>7, <1>8 DEF TaskNext

\* Every step of the child keeps the invariant of both sides.
LEMMA ServiceKeeps ==
    ASSUME RpcInv, ServiceNext, UNCHANGED clientVars
    PROVE  RpcInv'
<1>1. ClientInv /\ TypeOK /\ Placed /\ Places /\ Transitions
  BY DEF RpcInv, ClientInv, Places
<1>2. ClientInv' /\ Places'
  BY <1>1, ServiceClient, ServicePlaces
<1>3. ASSUME Moves, UNCHANGED <<svcConfig, svcRestart>> PROVE Transitions' /\ Initializes'
  BY <1>3, MovesTransitions, MovesInitializes
<1>4. Transitions' /\ Initializes'
  <2>1. CASE SvcRead
    BY <1>1, <1>3, <2>1, ReadMoves
  <2>2. CASE SvcLeaveLoop \/ SvcExit \/ SvcDie
    <3>1. /\ toChild' = toChild \/ toChild' = <<>>
          /\ fromChild' = fromChild /\ inline' \subseteq inline /\ inflight' \subseteq inflight
          /\ UNCHANGED <<svcConfig, svcRestart>>
      BY <2>2 DEF SvcLeaveLoop, SvcExit, SvcDie, wireVars
    <3>2. \A j \in inflight' : j.req \in AtChild
      BY <1>1, <3>1, PlacesTypes
    <3> QED BY <1>1, <1>3, <3>1, <3>2, LeaveMoves
  <2>3. ASSUME NEW job \in inline, InlineNext(job) PROVE Transitions' /\ Initializes'
    <3>1. CASE SvcInitialize(job)
      BY <3>1, BootHandoff
    <3>2. CASE SvcPrepared(job) \/ SvcApplied(job)
      <4>1. PICK v \in {"restart", "applied"} :
                 /\ job.req.method = "transition" /\ job.stage = "run"
                 /\ InlineStep(job, Job(job.req, "reply", Result(job.req.id, v, NoCaps)))
                 /\ \/ v = "restart" /\ svcRestart' /\ svcConfig' = svcConfig
                    \/ v = "applied" /\ svcRestart' = svcRestart /\ svcConfig' = job.req.config
        BY <3>2 DEF SvcPrepared, SvcApplied
      <4> DEFINE next == Job(job.req, "reply", Result(job.req.id, v, NoCaps))
      <4>2. next.req = job.req /\ next.stage = "reply" /\ next.answer.kind = "result" /\ next.answer.value = v
        BY DEF Job, Result
      <4>3. InlineStep(job, next)
        BY <4>1
      <4> HIDE DEF next
      <4> QED BY <4>1, <4>2, <4>3, ActHandoff
    <3>3. CASE SvcInitialized(job) \/ SvcTransition(job) \/ SvcRejected(job) \/ SvcShutdown(job) \/ SvcShutdownDone(job)
      <4>1. job.req.method = "transition" /\ job.stage = "run" => ~svcRestart
        BY <1>1 DEF Transitions
      <4> QED BY <1>1, <1>3, <3>3, <4>1, InlineMoves
    <3>4. CASE SvcInlineReply(job)
      <4>1. /\ job.stage = "reply" /\ fromChild' = Append(fromChild, job.answer) /\ inline' = {}
            /\ UNCHANGED <<toChild, inflight, svcConfig, svcRestart>>
        BY <3>4 DEF SvcInlineReply
      <4>2. job \in AllJobs
        BY DEF AllJobs
      <4> QED BY <1>1, <1>3, <4>1, <4>2, ReplyMoves
    <3>5. CASE SvcInlineCancelled(job) \/ SvcInlineBroken(job)
      <4>1. inline' = {} /\ UNCHANGED <<toChild, fromChild, inflight, svcConfig, svcRestart>>
        BY <3>5 DEF SvcInlineCancelled, SvcInlineBroken, wireVars
      <4>2. \A j \in inflight' : j.req \in AtChild
        BY <1>1, <4>1, PlacesTypes
      <4> QED BY <1>1, <1>3, <4>1, <4>2, LeaveMoves
    <3> QED BY <2>3, <3>1, <3>2, <3>3, <3>4, <3>5 DEF InlineNext
  <2>4. ASSUME NEW job \in inflight, TaskNext(job) PROVE Transitions' /\ Initializes'
    BY <1>1, <1>3, <2>4, TaskMoves
  <2> QED BY <2>1, <2>2, <2>3, <2>4 DEF ServiceNext
<1> QED BY <1>2, <1>4 DEF RpcInv, Places

-----------------------------------------------------------------------------
LEMMA RpcStart == RpcInit => RpcInv
<1> SUFFICES ASSUME RpcInit PROVE RpcInv
  OBVIOUS
<1>1. ClientInv
  BY InitInv DEF RpcInit, Init
<1>2. /\ toChild = <<>> /\ fromChild = <<>> /\ nextId = 0 /\ caps = NoCaps /\ restartRequired = FALSE
      /\ inline = {} /\ inflight = {} /\ svcRestart = FALSE /\ svcConfig = NoConfig
      /\ \A c \in Callers : ~InCall(c)
  BY DEF RpcInit, WireInit, ClientInit, ServiceInit, InCall
<1>3. Len(toChild) = 0 /\ Len(fromChild) = 0 /\ 1..0 = {} /\ AllJobs = {}
  BY <1>2 DEF AllJobs
<1>4. DoneIds = {} /\ AtChild = {} /\ \A c \in Callers : ~InTransition(c)
  BY <1>2, <1>3 DEF DoneIds, Answered, AtChild, InTransition
<1>5. ServiceTypeOK
  BY WireConstants DEF RpcInit, ServiceInit, ServiceTypeOK
<1>6. Placed
  BY <1>2, <1>3, <1>4, <1>5 DEF Placed, JobForms, Apart, Numbered
<1>7. Matches /\ NoRequestLost
  BY <1>2 DEF Matches, NoRequestLost
<1>8. Transitions
  BY <1>2, <1>4 DEF Transitions, TransitionsOwned, Kept
<1>9. Initializes
  BY <1>2, <1>3, <1>4 DEF Initializes, NoCaps
<1> QED BY <1>1, <1>6, <1>7, <1>8, <1>9 DEF RpcInv

LEMMA RpcStep == RpcInv /\ [RpcNext]_rpcVars => RpcInv'
<1> SUFFICES ASSUME RpcInv, [RpcNext]_rpcVars PROVE RpcInv'
  OBVIOUS
<1>1. CASE ClientNext /\ UNCHANGED serviceVars
  BY <1>1, ClientKeeps
<1>2. CASE ServiceNext /\ UNCHANGED clientVars
  BY <1>2, ServiceKeeps
<1>3. CASE UNCHANGED rpcVars
  <2>1. UNCHANGED <<toChild, fromChild, inOpen, outOpen, serviceVars, clientVars>>
    BY <1>3 DEF rpcVars, wireVars
  <2>2. ClientInv'
    <3>1. UNCHANGED vars
      BY <1>3 DEF rpcVars, vars
    <3> QED BY <3>1, StepInv DEF RpcInv
  <2>3. UNCHANGED <<nextId, pending, caps, restartRequired, hostConfig, pc, op, arg, rid, reply>>
    BY <2>1 DEF clientVars, callVars, flagVars
  <2>4. \A d \in Callers : (InCall(d)' <=> InCall(d)) /\ (InTransition(d)' <=> InTransition(d))
    BY <2>3 DEF InCall, InTransition
  <2> QED BY <2>1, <2>2, <2>3, <2>4, HostQuiet
<1> QED BY <1>1, <1>2, <1>3 DEF RpcNext

(***************************************************************************)
(* The invariant of both sides and the wire between them, through          *)
(* cancellation, lost replies and a child that dies at any moment.         *)
(***************************************************************************)
THEOREM RpcInvariant == RpcSpec => []RpcInv
BY RpcStart, RpcStep, PTL DEF RpcSpec

(***************************************************************************)
(* Every awaited request is on its way, being handled, answered, or its    *)
(* child is leaving (request(), serve() and the spawned handlers).         *)
(***************************************************************************)
THEOREM NoRequestIsLost == RpcSpec => []NoRequestLost
<1>1. RpcInv => NoRequestLost
  BY DEF RpcInv
<1> QED BY <1>1, RpcInvariant, PTL

-----------------------------------------------------------------------------
\* What the refinement mapping shows as asked is the config of the one transition awaited.
LEMMA AskedIs ==
    ClientInv => /\ \A c \in Callers : InTransition(c) => Asked = arg[c] /\ Asked \in Configs /\ Asked # NoConfig
                 /\ (\A c \in Callers : ~InTransition(c)) => Asked = NoConfig
<1> SUFFICES ASSUME ClientInv
             PROVE  /\ \A c \in Callers : InTransition(c) => Asked = arg[c] /\ Asked \in Configs /\ Asked # NoConfig
                    /\ (\A c \in Callers : ~InTransition(c)) => Asked = NoConfig
  OBVIOUS
<1>1. ASSUME NEW c \in Callers, InTransition(c) PROVE Asked = arg[c] /\ Asked \in Configs /\ Asked # NoConfig
  <2> DEFINE d == CHOOSE d \in Callers : InTransition(d)
  <2>1. d \in Callers /\ InTransition(d)
    BY <1>1
  <2>2. Asked = arg[d]
    BY <1>1 DEF Asked
  <2> HIDE DEF d
  <2>3. d = c
    BY <1>1, <2>1, OneTransitionCall
  <2>4. arg[c] \in Configs
    BY <1>1 DEF ClientInv, TransitionHasConfig, InTransition
  <2> QED BY <2>2, <2>3, <2>4, WireConstants
<1>2. (\A c \in Callers : ~InTransition(c)) => Asked = NoConfig
  BY DEF Asked
<1> QED BY <1>1, <1>2

(***************************************************************************)
(* After any run of prepare_config_transition() and its failures: a child  *)
(* that retired its resources is fenced or still awaited, at most one      *)
(* transition is on its way, and unless the host fenced the child both     *)
(* sides settle on one config.                                             *)
(***************************************************************************)
THEOREM TransitionIsSafe == RpcSpec => []TransitionSafe
<1>1. RpcInv => TransitionSafe
  <2> SUFFICES ASSUME RpcInv PROVE TransitionSafe
    OBVIOUS
  <2>1. ClientInv /\ TypeOK /\ Placed /\ Transitions
    BY DEF RpcInv, ClientInv
  <2>2. ChildFenceSeen
    BY <2>1 DEF Transitions, ChildFenceSeen, Kept
  <2>3. OneTransitionOnWire
    <3> DEFINE A == {i \in 1..Len(toChild) : toChild[i].method = "transition"}
               B == {job \in inline : job.req.method = "transition"}
    <3>1. \A i, k \in A : i = k
      <4>1. \A i, k \in A : toChild[i] = toChild[k]
        BY <2>1, PlacesTypes DEF Transitions, TransitionsOwned
      <4> QED BY <2>1, <4>1 DEF Placed, Apart
    <3>2. \A j, k \in B : j = k
      BY <2>1 DEF Placed, JobForms
    <3>3. A = {} \/ B = {}
      <4> SUFFICES ASSUME NEW i \in A, NEW job \in B PROVE FALSE
        OBVIOUS
      <4>1. toChild[i] = job.req /\ job \in AllJobs
        BY <2>1, PlacesTypes DEF Transitions, TransitionsOwned
      <4> QED BY <2>1, <4>1 DEF Placed, Apart
    <3>4. RpcTypeOK
      BY <2>1 DEF RpcTypeOK, Placed
    <3> HIDE DEF A, B
    <3>5. (A = {} \/ \E x : A = {x}) /\ (B = {} \/ \E x : B = {x})
      <4>1. A # {} => \E x : A = {x}
        BY <3>1
      <4>2. B # {} => \E x : B = {x}
        BY <3>2
      <4> QED BY <4>1, <4>2
    <3>6. Cardinality({}) = 0 /\ \A x : Cardinality({x}) = 1
      BY FS_EmptySet, FS_Singleton
    <3>7. Cardinality(A) + Cardinality(B) <= 1
      <4>1. Cardinality(A) \in {0, 1} /\ Cardinality(B) \in {0, 1} /\ (Cardinality(A) = 0 \/ Cardinality(B) = 0)
        BY <3>3, <3>5, <3>6
      <4> QED BY <4>1
    <3> QED BY <3>4, <3>7 DEF OneTransitionOnWire, A, B
  <2>4. HandoffAgreement
    BY <2>1, AskedIs DEF HandoffAgreement, Handoff!Agreement, Transitions, Kept
  <2> QED BY <2>2, <2>3, <2>4 DEF TransitionSafe
<1> QED BY <1>1, RpcInvariant, PTL

-----------------------------------------------------------------------------
\* What a caller's step is in the abstract handoff, before the mapping is applied.
Unasked ==
    /\ UNCHANGED <<restartRequired, hostConfig>>
    /\ \A d \in Callers : (InTransition(d)' <=> InTransition(d)) /\ (InTransition(d) => arg'[d] = arg[d])

LEMMA CallerUnasked ==
    ASSUME ClientInv, NEW c \in Callers, CallerNext(c)
    PROVE  Unasked \/ AcquireTransition(c) \/ AcquireTransitionDead(c) \/ EndTransition(c)
<1>1. TypeOK
  BY DEF ClientInv
<1>2. ASSUME UNCHANGED <<restartRequired, hostConfig>>, ~InTransition(c), ~InTransition(c)',
             \A d \in Callers : d # c => pc'[d] = pc[d] /\ op'[d] = op[d] /\ arg'[d] = arg[d]
      PROVE  Unasked
  BY <1>2 DEF Unasked, InTransition, InCall
<1>3. ASSUME NEW m \in Methods \ {"transition"}, NEW g, pc[c] \in {"idle", "lock"}, Issue(c, m, g),
             UNCHANGED <<restartRequired, hostConfig>>
      PROVE  Unasked
  BY <1>1, <1>2, <1>3 DEF Issue, InTransition, InCall, TypeOK
<1>4. CASE Initialize(c) \/ CallHostIngress(c) \/ \E m \in {"list", "call"} : UseTools(c, m)
  BY <1>3, <1>4 DEF Initialize, CallHostIngress, UseTools, flagVars, Methods
<1>5. CASE Health(c)
  <2>1. CASE ~restartRequired
    BY <1>3, <1>5, <2>1 DEF Health, flagVars, Methods
  <2>2. CASE restartRequired
    BY <1>5, <2>2 DEF Health, callVars, Unasked, InTransition, InCall
  <2> QED BY <2>1, <2>2
<1>6. CASE \E m \in LifecycleOps, config \in Configs \cup {NoConfig} : RequestLifecycle(c, m, config)
  BY <1>1, <1>2, <1>6 DEF RequestLifecycle, flagVars, InTransition, InCall, TypeOK
<1>7. ASSUME pc[c] = "lock", LeaveLock(c), UNCHANGED <<restartRequired, hostConfig>> PROVE Unasked
  BY <1>1, <1>2, <1>7 DEF LeaveLock, InTransition, InCall, TypeOK
<1>8. CASE AcquireShutdown(c)
  BY <1>3, <1>7, <1>8 DEF AcquireShutdown, Methods
<1>9. CASE RefuseLifecycle(c) \/ CancelQueued(c)
  BY <1>7, <1>9 DEF RefuseLifecycle, CancelQueued, flagVars
<1>10. CASE DrainDone(c)
  BY <1>1, <1>10 DEF DrainDone, flagVars, Unasked, InTransition, InCall, TypeOK
<1>11. CASE EndInitialize(c) \/ EndHealth(c) \/ EndPlain(c)
  <2>1. /\ Settle(c) /\ op[c] # "transition" /\ UNCHANGED <<restartRequired, hostConfig>>
    BY <1>11 DEF EndInitialize, EndHealth, EndPlain, PlainOps, flagVars
  <2> QED BY <1>1, <1>2, <2>1 DEF Settle, InTransition, InCall, TypeOK
<1> QED BY <1>4, <1>5, <1>6, <1>8, <1>9, <1>10, <1>11 DEF CallerNext

\* Every step of host and child is one of the abstract handoff, or changes nothing of it.
LEMMA HandoffStep ==
    ASSUME RpcInv, RpcInv', [RpcNext]_rpcVars
    PROVE  [Handoff!Next]_(Handoff!vars)
<1>1. ClientInv /\ TypeOK /\ Placed /\ Transitions /\ Initializes /\ ClientInv'
  BY DEF RpcInv, ClientInv
<1>2. /\ \A c \in Callers : InTransition(c) => Asked = arg[c] /\ Asked \in Configs /\ Asked # NoConfig
      /\ (\A c \in Callers : ~InTransition(c)) => Asked = NoConfig
  BY <1>1, AskedIs
<1>3. (ClientInv => /\ \A c \in Callers : InTransition(c) => Asked = arg[c] /\ Asked \in Configs /\ Asked # NoConfig
                    /\ (\A c \in Callers : ~InTransition(c)) => Asked = NoConfig)'
  BY AskedIs, PTL
<1>4. /\ \A c \in Callers : InTransition(c)' => Asked' = arg'[c]
      /\ (\A c \in Callers : ~InTransition(c)') => Asked' = NoConfig
  BY <1>1, <1>3
<1>5. ASSUME Unasked PROVE Asked' = Asked /\ UNCHANGED <<restartRequired, hostConfig>>
  BY <1>2, <1>4, <1>5 DEF Unasked
<1> HIDE DEF Asked
<1>6. ASSUME Unasked, UNCHANGED <<svcConfig, svcRestart>> PROVE UNCHANGED Handoff!vars
  BY <1>5, <1>6 DEF Handoff!vars
<1>7. CASE ClientNext /\ UNCHANGED serviceVars
  <2>1. UNCHANGED <<svcConfig, svcRestart>>
    BY <1>7 DEF serviceVars
  <2>2. CASE ReaderNext \/ CloserNext
    <3>1. UNCHANGED <<restartRequired, hostConfig, pc, op, arg>>
      BY <2>2 DEF ReaderNext, ReadResponse, ReadJunk, ReadEof, ReadCancelled, ReadSkipped, Terminate,
                  CloserNext, Close, CloseStreams, CloseJoined, CloseDone, flagVars, callVars
    <3>2. Unasked
      BY <3>1 DEF Unasked, InTransition, InCall
    <3> QED BY <1>6, <2>1, <3>2
  <2>3. ASSUME NEW c \in Callers, CallerNext(c) PROVE [Handoff!Next]_(Handoff!vars)
    <3>1. CASE Unasked
      BY <1>6, <2>1, <3>1
    <3>2. CASE AcquireTransition(c) \/ AcquireTransitionDead(c)
      <4>1. arg[c] \in Configs /\ ~restartRequired /\ \A d \in Callers : ~InTransition(d)
        BY <1>1, <3>2, ClientConstants DEF AcquireTransition, AcquireTransitionDead, ClientInv, TransitionHasConfig,
                                           OneLifecycleRpc, LifecycleOps, InTransition
      <4>2. CASE AcquireTransition(c)
        <5>1. InTransition(c)' /\ arg'[c] = arg[c] /\ UNCHANGED <<restartRequired, hostConfig>>
          BY <1>1, <4>2 DEF AcquireTransition, Issue, InTransition, InCall, flagVars, TypeOK
        <5>2. Handoff!Ask(arg[c])
          BY <1>2, <1>4, <2>1, <4>1, <5>1 DEF Handoff!Ask
        <5> QED BY <4>1, <5>2 DEF Handoff!Next
      <4>3. CASE AcquireTransitionDead(c)
        <5>1. /\ \A d \in Callers : ~InTransition(d)'
              /\ restartRequired' = TRUE /\ hostConfig' = arg[c]
          BY <1>1, <4>1, <4>3 DEF AcquireTransitionDead, LeaveLock, InTransition, InCall, TypeOK
        <5>2. Handoff!HostFences
          BY <1>2, <1>4, <2>1, <4>1, <5>1 DEF Handoff!HostFences
        <5> QED BY <5>2 DEF Handoff!Next
      <4> QED BY <3>2, <4>2, <4>3
    <3>3. CASE EndTransition(c)
      <4>1. PICK o \in Ends(c) : /\ restartRequired' = (restartRequired \/ (~Applied(o) /\ ~Rejected(o)))
                                 /\ hostConfig' = IF Rejected(o) THEN hostConfig ELSE arg[c]
        BY <3>3 DEF EndTransition
      <4>2. Settle(c) /\ InTransition(c) /\ (o.kind \in {"result", "error"} => o = reply[c])
        BY <3>3, <4>1 DEF EndTransition, Ends, InTransition, InCall, Failure, Outcome
      <4>3. ~restartRequired /\ caps.transition # "no" /\ svcConfig # NoConfig /\ AnswersTruthful(c)
        BY <1>1, <4>2 DEF ClientInv, AwaitedUnfenced, InTransition, Initializes, Transitions
      <4>4. Asked = arg[c] /\ Asked # NoConfig
        BY <1>2, <4>2
      <4>5. Asked' = NoConfig
        <5>1. ~InTransition(c)' /\ \A d \in Callers : d # c => (InTransition(d)' <=> InTransition(d))
          BY <1>1, <4>2 DEF Settle, InTransition, InCall, TypeOK
        <5>2. \A d \in Callers : ~InTransition(d)'
          BY <1>1, <4>2, <5>1, OneTransitionCall
        <5> QED BY <1>4, <5>2
      <4>6. CASE ~Applied(o) /\ ~Rejected(o)
        <5>1. Handoff!HostFences
          BY <2>1, <4>1, <4>3, <4>4, <4>5, <4>6 DEF Handoff!HostFences
        <5> QED BY <5>1 DEF Handoff!Next
      <4>7. CASE Rejected(o)
        <5>1. Kept
          BY <4>2, <4>3, <4>7 DEF Rejected, AnswersTruthful, Truthful
        <5>2. restartRequired' = restartRequired /\ hostConfig' = hostConfig
          BY <1>1, <4>1, <4>7 DEF TypeOK
        <5>3. Handoff!HostKeeps
          BY <2>1, <4>3, <4>4, <4>5, <5>1, <5>2 DEF Handoff!HostKeeps, Kept
        <5> QED BY <5>3 DEF Handoff!Next
      <4>8. CASE Applied(o) /\ ~Rejected(o)
        <5>1. Took(c)
          BY <4>2, <4>3, <4>8 DEF Applied, AnswersTruthful, Truthful
        <5>2. restartRequired' = restartRequired /\ hostConfig' = arg[c]
          BY <1>1, <4>1, <4>8 DEF TypeOK
        <5>3. Handoff!HostAccepts
          BY <2>1, <4>3, <4>4, <4>5, <5>1, <5>2 DEF Handoff!HostAccepts, Took
        <5> QED BY <5>3 DEF Handoff!Next
      <4> QED BY <4>6, <4>7, <4>8
    <3> QED BY <1>1, <2>3, <3>1, <3>2, <3>3, CallerUnasked
  <2> QED BY <1>7, <2>2, <2>3 DEF ClientNext
<1>8. CASE ServiceNext /\ UNCHANGED clientVars
  <2>1. UNCHANGED <<pc, op, arg, restartRequired, hostConfig>>
    BY <1>8 DEF clientVars, callVars, flagVars
  <2>2. Unasked
    BY <2>1 DEF Unasked, InTransition, InCall
  <2>3. Asked' = Asked
    BY <1>5, <2>2
  <2>4. CASE UNCHANGED <<svcConfig, svcRestart>>
    BY <1>6, <2>2, <2>4
  <2>5. CASE SvcRead \/ SvcLeaveLoop \/ SvcExit \/ SvcDie
    BY <2>4, <2>5 DEF SvcRead, SvcLeaveLoop, SvcExit, SvcDie
  <2>6. ASSUME NEW job \in inflight, TaskNext(job) PROVE [Handoff!Next]_(Handoff!vars)
    BY <2>4, <2>6 DEF TaskNext, TaskStart, TaskDone, TaskCancelled, TaskReply, TaskBroken, TaskStep
  <2>7. ASSUME NEW job \in inline, InlineNext(job) PROVE [Handoff!Next]_(Handoff!vars)
    <3>1. CASE SvcInitialize(job)
      <4>1. svcConfig = NoConfig /\ svcConfig' = hostConfig /\ svcRestart' = svcRestart
        BY <1>8, <3>1, BootHandoff DEF SvcInitialize
      <4>2. Handoff!Boot
        BY <2>1, <2>3, <4>1 DEF Handoff!Boot
      <4> QED BY <4>2 DEF Handoff!Next
    <3>2. CASE SvcPrepared(job) \/ SvcApplied(job)
      <4>1. job.req.method = "transition" /\ job.stage = "run"
        BY <3>2 DEF SvcPrepared, SvcApplied
      <4>2. ~restartRequired => Asked # NoConfig /\ Asked = job.req.config
        <5> SUFFICES ASSUME ~restartRequired PROVE Asked # NoConfig /\ Asked = job.req.config
          OBVIOUS
        <5>1. PICK c \in Callers : InTransition(c) /\ arg[c] = job.req.config
          BY <4>1, JobOwner
        <5> QED BY <1>2, <5>1
      <4>3. ~svcRestart /\ job.req.config \in Configs
        <5>1. job.req \in AtChild
          BY <1>1, PlacesTypes
        <5> QED BY <1>1, <4>1, <5>1 DEF Transitions, TransitionsOwned
      <4>4. CASE SvcPrepared(job)
        <5>1. svcRestart' = TRUE /\ svcConfig' = svcConfig
          BY <4>4 DEF SvcPrepared
        <5>2. Handoff!ChildRetires
          BY <2>1, <2>3, <4>2, <5>1 DEF Handoff!ChildRetires
        <5> QED BY <5>2 DEF Handoff!Next
      <4>5. CASE SvcApplied(job)
        <5>1. svcRestart' = svcRestart /\ svcConfig' = job.req.config
          BY <4>5 DEF SvcApplied
        <5>2. Handoff!ChildApplies
          BY <2>1, <2>3, <4>2, <4>3, <5>1 DEF Handoff!ChildApplies
        <5> QED BY <5>2 DEF Handoff!Next
      <4> QED BY <3>2, <4>4, <4>5
    <3>3. CASE ~(SvcInitialize(job) \/ SvcPrepared(job) \/ SvcApplied(job))
      BY <2>4, <2>7, <3>3 DEF InlineNext, SvcInitialized, SvcTransition, SvcRejected, SvcShutdown, SvcShutdownDone,
                              SvcInlineReply, SvcInlineCancelled, SvcInlineBroken
    <3> QED BY <3>1, <3>2, <3>3
  <2> QED BY <1>8, <2>5, <2>6, <2>7 DEF ServiceNext
<1>9. CASE UNCHANGED rpcVars
  <2>1. UNCHANGED <<pc, op, arg, restartRequired, hostConfig, svcConfig, svcRestart>>
    BY <1>9 DEF rpcVars, clientVars, callVars, flagVars, serviceVars
  <2>2. Unasked
    BY <2>1 DEF Unasked, InTransition, InCall
  <2> QED BY <1>6, <2>1, <2>2
<1> QED BY <1>7, <1>8, <1>9 DEF RpcNext

(***************************************************************************)
(* Client, service and wire implement the abstract config handoff: every   *)
(* step of either side is one that ConfigHandoff allows, or leaves hidden  *)
(* what it speaks of.                                                      *)
(***************************************************************************)
THEOREM RpcImplementsHandoff == RpcSpec => ImplementsHandoff
<1>1. RpcInit => Handoff!Init
  <2> SUFFICES ASSUME RpcInit PROVE Handoff!Init
    OBVIOUS
  <2>1. \A c \in Callers : ~InTransition(c)
    BY DEF RpcInit, ClientInit, InTransition, InCall
  <2>2. Asked = NoConfig
    BY <2>1 DEF Asked
  <2> QED BY <2>2 DEF RpcInit, ClientInit, ServiceInit, Handoff!Init
<1>2. RpcInv /\ RpcInv' /\ [RpcNext]_rpcVars => [Handoff!Next]_(Handoff!vars)
  BY HandoffStep
<1> QED BY <1>1, <1>2, RpcInvariant, PTL DEF RpcSpec, ImplementsHandoff, Handoff!Spec

=============================================================================
