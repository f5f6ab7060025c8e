------------------------------ MODULE A2AWireProofs ------------------------------
EXTENDS A2AWire, WellFoundedInduction, SequenceTheorems, TLAPS

(***************************************************************************)
(* What a call of the A2A client carries, for every card, configuration,   *)
(* request and answer.  CallInv is inductive: it says of a call how far    *)
(* its request and its reply have come, with the frames on their way.      *)
(* The round trips through v0.3, as JSON and as protobuf, are lemmas about *)
(* the conversions, one per type; RequestCarried, ReplyCarried and         *)
(* ErrorCarried follow from the two together.                              *)
(***************************************************************************)

(***************************************************************************)
(* The connection of a client.                                             *)
(***************************************************************************)
\* a set of indices has a least one
LEMMA LeastIndex ==
    ASSUME NEW S \in SUBSET Nat, S # {}
    PROVE  \E i \in S : \A j \in S : i <= j
<1> DEFINE R == OpToRel(<, Nat)
<1>1. IsWellFoundedOn(R, Nat)
  BY NatLessThanWellFounded
<1>2. \A i, j \in Nat : <<i, j>> \in R <=> i < j
  BY DEF OpToRel
<1> HIDE DEF R
<1>3. S \subseteq Nat
  OBVIOUS
<1>4. \E x \in S : \A y \in S : ~ (<<y, x>> \in R)
  BY <1>1, <1>3, WFMin
<1>5. PICK x \in S : \A y \in S : ~ (<<y, x>> \in R)
  BY <1>4
<1>6. ASSUME NEW y \in S PROVE x <= y
  <2>1. ~ (y < x)
    BY <1>2, <1>3, <1>5
  <2> QED BY <1>3, <2>1
<1> QED BY <1>5, <1>6

\* the interface found for a binding is of that binding
LEMMA BestInterface ==
    ASSUME NEW card, card.supported_interfaces \in Seq(CoreInterface), NEW binding,
           FindBestInterface(card, binding) # Absent
    PROVE  FindBestInterface(card, binding).protocol_binding = binding
<1> DEFINE I == card.supported_interfaces
           of(V) == {i \in DOMAIN I : /\ I[i].protocol_binding = binding
                                      /\ I[i].protocol_version \in V}
           first(V) == I[CHOOSE i \in of(V) : \A j \in of(V) : i <= j]
<1>1. ASSUME NEW V, of(V) # {} PROVE first(V).protocol_binding = binding
  <2>1. of(V) \in SUBSET Nat
    OBVIOUS
  <2>2. \E i \in of(V) : \A j \in of(V) : i <= j
    BY <1>1, <2>1, LeastIndex
  <2>3. (CHOOSE i \in of(V) : \A j \in of(V) : i <= j) \in of(V)
    BY <2>2
  <2> QED BY <2>3
<1>2. FindBestInterface(card, binding) =
        CASE of({"1.0"}) # {} -> first({"1.0"})
          [] of({"1.0"}) = {} /\ of({"2.0"}) # {} -> first({"2.0"})
          [] of({"1.0", "2.0"}) = {} /\ of({"0.3"}) # {} -> first({"0.3"})
          [] of({"1.0", "2.0", "0.3"}) = {} /\ of({""}) # {} -> first({""})
          [] OTHER -> Absent
  BY DEF FindBestInterface
<1> HIDE DEF of, first
<1> QED BY <1>1, <1>2

LEMMA ChosenInterface ==
    ASSUME NEW card \in WireCards, NEW config \in WireConfigs,
           SelectedInterface(card, config) # Absent
    PROVE  SelectedInterface(card, config).protocol_binding \in {"JSONRPC", "GRPC", "HTTP+JSON"}
<1> DEFINE B == {"JSONRPC", "GRPC", "HTTP+JSON"}
           order == Preference(card, config)
           ends(b) == IF config.use_client_preference THEN FindBestInterface(card, b) # Absent
                      ELSE \E j \in DOMAIN config.bindings : config.bindings[j] = b
           at == {i \in DOMAIN order : ends(order[i])}
           first == CHOOSE i \in at : \A j \in at : i <= j
<1>1. card.supported_interfaces \in Seq(CoreInterface) /\ config.bindings \in Seq(B)
  BY WireConstants DEF CoreAgentCard
<1>2. DOMAIN order \in SUBSET Nat
  BY <1>1 DEF Preference
<1>3. \A i \in at : order[i] \in B
  <2>1. CASE config.use_client_preference
    <3>1. order = config.bindings
      BY <2>1 DEF Preference
    <3> QED BY <1>1, <3>1
  <2>2. CASE ~ config.use_client_preference
    BY <1>1, <2>2
  <2> QED BY <2>1, <2>2
<1>4. at # {} /\ SelectedInterface(card, config) = FindBestInterface(card, order[first])
  BY DEF SelectedInterface
<1>5. first \in at
  <2>1. at \in SUBSET Nat
    BY <1>2
  <2> HIDE DEF at
  <2> QED BY <1>4, <2>1, LeastIndex
<1> HIDE DEF first, at, order
<1> QED BY <1>1, <1>3, <1>4, <1>5, BestInterface

(***************************************************************************)
(* A reply on its way.  A is the set of answers, D the frame of each, R    *)
(* what is read of it, E the frame of an error.                            *)
(***************************************************************************)
\* got holds what was read of the first answers
Answered(A, R, G, answers, got) ==
    /\ answers \in Seq(A) /\ got \in Seq(G) /\ Len(got) <= Len(answers)
    /\ \A i \in 1..Len(got) : got[i] = R[answers[i]]
\* frames holds the other answers, and behind them the error that ended the reply
Waiting(D, E, F, answers, raised, frames, got) ==
    /\ frames \in Seq(F)
    /\ raised = "" => Len(answers) = Len(got) + Len(frames)
    /\ raised # "" => /\ Len(answers) + 1 = Len(got) + Len(frames) /\ Len(frames) >= 1
                      /\ frames[Len(frames)] = E[raised]
    /\ \A i \in 1..Len(frames) :
         raised = "" \/ i < Len(frames) => frames[i] = D[answers[Len(got) + i]]

LEMMA NoneLeft ==
    ASSUME NEW T, NEW s \in Seq(T), Len(s) <= 0
    PROVE  s = <<>>
OBVIOUS

\* a sequence that grows by one
LEMMA Grown ==
    ASSUME NEW T, NEW s \in Seq(T), NEW x \in T
    PROVE  /\ Append(s, x) \in Seq(T) /\ Len(Append(s, x)) = Len(s) + 1
           /\ Append(s, x)[Len(s) + 1] = x
           /\ \A i \in 1..Len(s) : Append(s, x)[i] = s[i]
           /\ Len(s) \in Nat /\ Append(s, x) # <<>>
OBVIOUS

\* a sequence without its first element
LEMMA Rest ==
    ASSUME NEW T, NEW s \in Seq(T), Len(s) # 0
    PROVE  /\ Tail(s) \in Seq(T) /\ Len(Tail(s)) + 1 = Len(s) /\ Head(s) = s[1]
           /\ \A i \in 1..Len(Tail(s)) : Tail(s)[i] = s[i + 1]
           /\ Len(s) \in Nat /\ Len(Tail(s)) \in Nat /\ Len(s) >= 1
OBVIOUS

LEMMA NothingYet ==
    ASSUME NEW A, NEW D, NEW E, NEW F, NEW R, NEW G
    PROVE  Answered(A, R, G, <<>>, <<>>) /\ Waiting(D, E, F, <<>>, "", <<>>, <<>>)
<1>1. Len(<<>>) = 0 /\ \A i \in 1..0 : FALSE
  OBVIOUS
<1>2. \A T : <<>> \in Seq(T)
  OBVIOUS
<1> QED BY <1>1, <1>2 DEF Answered, Waiting

\* the frame of an error behind those of the answers
LEMMA ErrorJoins ==
    ASSUME NEW D, NEW F, NEW answers, NEW frames \in Seq(F), NEW n \in Nat, NEW x \in F,
           Len(answers) = n + Len(frames),
           \A i \in 1..Len(frames) : frames[i] = D[answers[n + i]]
    PROVE  /\ Append(frames, x) \in Seq(F) /\ Len(answers) + 1 = n + Len(Append(frames, x))
           /\ Len(Append(frames, x)) >= 1 /\ Append(frames, x)[Len(Append(frames, x))] = x
           /\ \A i \in 1..Len(Append(frames, x)) :
                i < Len(Append(frames, x)) => Append(frames, x)[i] = D[answers[n + i]]
<1> DEFINE fs == Append(frames, x)
<1>1. /\ fs \in Seq(F) /\ Len(fs) = Len(frames) + 1 /\ fs[Len(frames) + 1] = x
      /\ \A i \in 1..Len(frames) : fs[i] = frames[i]
  BY Grown
<1>2. Len(frames) \in Nat
  OBVIOUS
<1> HIDE DEF fs
<1>3. \A i \in 1..Len(fs) : i < Len(fs) => fs[i] = D[answers[n + i]]
  <2> TAKE i \in 1..Len(fs)
  <2> HAVE i < Len(fs)
  <2>1. i \in 1..Len(frames)
    BY <1>1, <1>2
  <2> QED BY <1>1, <2>1
<1>4. Len(answers) + 1 = n + Len(fs) /\ Len(fs) >= 1 /\ fs[Len(fs)] = x
  BY <1>1, <1>2
<1> QED BY <1>1, <1>3, <1>4 DEF fs

\* k answers wait in f frames; f - 1 frames remain after one was read
LEMMA FrameCount ==
    ASSUME NEW n \in Nat, NEW l \in Nat, NEW f \in Nat, ~ (f <= 0), NEW isError \in BOOLEAN,
           ~isError => l = n + f, isError => l + 1 = n + f,
           NEW k, k = IF isError THEN f - 1 ELSE f
    PROVE  /\ k \in Nat /\ k <= f /\ l = n + k /\ f # 0 /\ f >= 1 /\ (k # 0 => 1 <= k)
           /\ k = 0 => isError /\ f = 1 /\ n = l
           /\ \A t \in Nat : t + 1 = f =>
                /\ ~isError => l = (n + 1) + t /\ (f = 1 <=> n + 1 = l)
                /\ isError /\ k # 0 => l + 1 = (n + 1) + t /\ t >= 1 /\ t # 0
                /\ \A i \in 1..t : ~isError \/ i < t => i \in 1..(k - 1)
           /\ k # 0 => n + 1 \in 1..l /\ 1 \in 1..k
           /\ \A i \in 1..(k - 1) : i + 1 \in 1..k /\ (n + 1) + i = n + (i + 1)
                                    /\ \A t \in Nat : t + 1 = f => i \in 1..t
           /\ \A i \in 1..k : i \in 1..f /\ (~isError \/ i < f)
OBVIOUS

LEMMA QueueYields ==
    ASSUME NEW A, NEW D, NEW E, NEW F, NEW R, NEW G, NEW answers, NEW frames, NEW got, NEW a \in A,
           Answered(A, R, G, answers, got), Waiting(D, E, F, answers, "", frames, got), D[a] \in F
    PROVE  /\ Answered(A, R, G, Append(answers, a), got)
           /\ Waiting(D, E, F, Append(answers, a), "", Append(frames, D[a]), got)
<1> DEFINE n == Len(got)
           as == Append(answers, a)
           d == D[a]
           fs == Append(frames, d)
<1>1. answers \in Seq(A) /\ got \in Seq(G) /\ \A i \in 1..n : got[i] = R[answers[i]]
  BY Zenon DEF Answered
<1>2. frames \in Seq(F) /\ Len(answers) = n + Len(frames)
      /\ \A i \in 1..Len(frames) : frames[i] = D[answers[n + i]]
  BY Zenon DEF Waiting
<1>3. n \in Nat
  BY ONLY <1>1
<1>0. d \in F /\ d = D[a] /\ a \in A /\ as = Append(answers, a) /\ fs = Append(frames, d)
  OBVIOUS
<1> HIDE DEF n, d, as, fs
<1>4. /\ as \in Seq(A) /\ fs \in Seq(F) /\ Len(as) = n + Len(fs)
      /\ \A i \in 1..Len(fs) : fs[i] = D[as[n + i]]
      /\ n <= Len(as) /\ \A i \in 1..n : as[i] = answers[i]
  <2>1. /\ as \in Seq(A) /\ Len(as) = Len(answers) + 1 /\ as[Len(answers) + 1] = a
        /\ \A i \in 1..Len(answers) : as[i] = answers[i]
    BY ONLY <1>0, <1>1, Grown
  <2>2. /\ fs \in Seq(F) /\ Len(fs) = Len(frames) + 1 /\ fs[Len(frames) + 1] = d
        /\ \A i \in 1..Len(frames) : fs[i] = frames[i] /\ Len(frames) \in Nat
    BY ONLY <1>0, <1>2, Grown
  <2>3. Len(answers) \in Nat /\ Len(frames) \in Nat
    BY ONLY <1>1, <1>2
  <2>4. ASSUME NEW i \in 1..Len(fs) PROVE fs[i] = D[as[n + i]]
    <3>0. i \in 1..Len(fs)
      BY <2>4
    <3>1. CASE i = Len(frames) + 1
      <4>1. n + i = Len(answers) + 1
        BY ONLY <1>2, <1>3, <2>3, <3>0, <3>1
      <4> QED BY ONLY <1>0, <2>1, <2>2, <3>1, <4>1
    <3>2. CASE i # Len(frames) + 1
      <4>1. i \in 1..Len(frames) /\ n + i \in 1..Len(answers)
        BY ONLY <1>2, <1>3, <2>2, <2>3, <3>0, <3>2
      <4> QED BY ONLY <1>2, <2>1, <2>2, <4>1
    <3> QED BY Zenon, <3>1, <3>2
  <2>5. Len(as) = n + Len(fs) /\ n <= Len(as) /\ n <= Len(answers)
    BY ONLY <1>2, <1>3, <2>1, <2>2, <2>3
  <2>6. ASSUME NEW i \in 1..n PROVE as[i] = answers[i]
    <3>1. i \in 1..n
      BY <2>6
    <3>2. i \in 1..Len(answers)
      BY ONLY <1>3, <2>3, <2>5, <3>1
    <3> QED BY Zenon, <2>1, <3>2
  <2> QED BY Zenon, <2>1, <2>2, <2>4, <2>5, <2>6
<1>5. \A i \in 1..n : got[i] = R[as[i]]
  BY ONLY <1>1, <1>4
<1> QED BY Zenon, <1>1, <1>4, <1>5 DEF as, fs, d, Answered, Waiting, n

LEMMA QueueRaises ==
    ASSUME NEW A, NEW D, NEW E, NEW F, NEW R, NEW G, NEW answers, NEW frames, NEW got, NEW e, e # "",
           Answered(A, R, G, answers, got), Waiting(D, E, F, answers, "", frames, got), E[e] \in F
    PROVE  Waiting(D, E, F, answers, e, Append(frames, E[e]), got)
<1> DEFINE n == Len(got)
           x == E[e]
           fs == Append(frames, x)
<1>1. got \in Seq(G)
  BY Zenon DEF Answered
<1>2. frames \in Seq(F) /\ Len(answers) = n + Len(frames)
      /\ \A i \in 1..Len(frames) : frames[i] = D[answers[n + i]]
  BY Zenon DEF Waiting
<1>3. n \in Nat
  BY ONLY <1>1
<1>4. x \in F
  OBVIOUS
<1> HIDE DEF n, x
<1>5. /\ fs \in Seq(F) /\ Len(answers) + 1 = n + Len(fs) /\ Len(fs) >= 1
      /\ fs[Len(fs)] = x
      /\ \A i \in 1..Len(fs) : i < Len(fs) => fs[i] = D[answers[n + i]]
  BY ONLY <1>2, <1>3, <1>4, ErrorJoins
<1> HIDE DEF fs
<1>6. Waiting(D, E, F, answers, e, fs, got)
  BY Zenon, <1>5 DEF Waiting, n, x
<1> QED BY Zenon, <1>6 DEF fs, x

\* the frame read next is that of the next answer, or that of the error and then the last
NextFrame(A, D, E, F, R, G, answers, raised, frames, got) ==
    \/ raised # "" /\ Head(frames) = E[raised] /\ Len(got) = Len(answers)
    \/ \E a \in A :
         /\ Head(frames) = D[a]
         /\ Answered(A, R, G, answers, Append(got, R[a]))
         /\ Waiting(D, E, F, answers, raised, Tail(frames), Append(got, R[a]))
         /\ raised = "" => (Len(frames) = 1 <=> Len(got) + 1 = Len(answers))
LEMMA QueueReads ==
    ASSUME NEW A, NEW D, NEW E, NEW F, NEW R, NEW G, NEW answers, NEW frames, NEW got, NEW raised,
           Answered(A, R, G, answers, got), Waiting(D, E, F, answers, raised, frames, got),
           \A a \in A : R[a] \in G, frames # <<>>
    PROVE  NextFrame(A, D, E, F, R, G, answers, raised, frames, got)
<1> DEFINE n == Len(got)
           l == Len(answers)
           f == Len(frames)
           k == IF raised # "" THEN f - 1 ELSE f
           a == answers[n + 1]
           b == R[a]
           gs == Append(got, b)
           fs == Tail(frames)
<1>1. answers \in Seq(A) /\ got \in Seq(G) /\ \A i \in 1..n : got[i] = R[answers[i]]
  BY Zenon DEF Answered
<1>2. /\ raised = "" => l = n + f
      /\ raised # "" => l + 1 = n + f /\ frames[f] = E[raised]
      /\ \A i \in 1..f : raised = "" \/ i < f => frames[i] = D[answers[n + i]]
  BY Zenon DEF Waiting
<1>3. frames \in Seq(F)
  BY Zenon DEF Waiting
<1>4. n \in Nat /\ l \in Nat
  BY ONLY <1>1
<1>5. f \in Nat
  BY ONLY <1>3
<1>6. ~ (f <= 0)
  BY Zenon, <1>3, NoneLeft
<1>0. a = answers[n + 1] /\ b = R[a] /\ gs = Append(got, b) /\ fs = Tail(frames)
      /\ \A z \in A : R[z] \in G
  OBVIOUS
<1> HIDE DEF n, l, f, a, b, gs, fs
<1>7. k = IF raised # "" THEN f - 1 ELSE f
  OBVIOUS
<1> HIDE DEF k
<1>8. /\ k \in Nat /\ k <= f /\ l = n + k /\ f # 0 /\ f >= 1 /\ (k # 0 => 1 <= k)
      /\ k = 0 => raised # "" /\ f = 1 /\ n = l
      /\ \A t \in Nat : t + 1 = f =>
           /\ raised = "" => l = (n + 1) + t /\ (f = 1 <=> n + 1 = l)
           /\ raised # "" /\ k # 0 => l + 1 = (n + 1) + t /\ t >= 1 /\ t # 0
           /\ \A i \in 1..t : raised = "" \/ i < t => i \in 1..(k - 1)
      /\ k # 0 => n + 1 \in 1..l /\ 1 \in 1..k
      /\ \A i \in 1..(k - 1) : i + 1 \in 1..k /\ (n + 1) + i = n + (i + 1)
                               /\ \A t \in Nat : t + 1 = f => i \in 1..t
      /\ \A i \in 1..k : i \in 1..f /\ (raised = "" \/ i < f)
  <2> DEFINE bad == raised # ""
  <2>1. bad \in BOOLEAN /\ (~bad => l = n + f) /\ (bad => l + 1 = n + f) /\ k = IF bad THEN f - 1 ELSE f
    BY Zenon, <1>2, <1>7
  <2>2. bad <=> raised # ""
    OBVIOUS
  <2> HIDE DEF bad
  <2>3. /\ k \in Nat /\ k <= f /\ l = n + k /\ f # 0 /\ f >= 1 /\ (k # 0 => 1 <= k)
        /\ k = 0 => bad /\ f = 1 /\ n = l
        /\ \A t \in Nat : t + 1 = f =>
             /\ ~bad => l = (n + 1) + t /\ (f = 1 <=> n + 1 = l)
             /\ bad /\ k # 0 => l + 1 = (n + 1) + t /\ t >= 1 /\ t # 0
             /\ \A i \in 1..t : ~bad \/ i < t => i \in 1..(k - 1)
        /\ k # 0 => n + 1 \in 1..l /\ 1 \in 1..k
        /\ \A i \in 1..(k - 1) : i + 1 \in 1..k /\ (n + 1) + i = n + (i + 1)
                                 /\ \A t \in Nat : t + 1 = f => i \in 1..t
        /\ \A i \in 1..k : i \in 1..f /\ (~bad \/ i < f)
    BY ONLY <1>4, <1>5, <1>6, <2>1, FrameCount
  <2> QED BY Zenon, <2>2, <2>3
<1>9. CASE k = 0
  <2>1. raised # "" /\ f = 1 /\ n = l
    BY Zenon, <1>8, <1>9
  <2>2. Head(frames) = frames[1]
    BY Zenon, <1>3, <1>8, Rest DEF f
  <2> QED BY Zenon, <1>2, <2>1, <2>2 DEF n, l, NextFrame
<1>10. CASE k # 0
  <2>1. \A i \in 1..k : frames[i] = D[answers[n + i]]
    BY Zenon, <1>2, <1>8
  <2>2. /\ a \in A /\ Head(frames) = D[a]
        /\ gs \in Seq(G) /\ Len(gs) <= Len(answers) /\ Len(gs) = n + 1
        /\ \A i \in 1..Len(gs) : gs[i] = R[answers[i]]
        /\ fs \in Seq(F) /\ Len(fs) + 1 = f
        /\ \A i \in 1..(k - 1) : fs[i] = D[answers[Len(gs) + i]]
        /\ Len(fs) # 0 => fs[Len(fs)] = frames[f]
    <3>1. n + 1 \in 1..l /\ 1 \in 1..k
      BY Zenon, <1>8, <1>10
    <3>2. a \in A
      BY ONLY <1>0, <1>1, <3>1 DEF l
    <3>3. b \in G
      BY Zenon, <1>0, <3>2
    <3>4. /\ gs \in Seq(G) /\ Len(gs) = n + 1 /\ gs[n + 1] = b
          /\ \A i \in 1..n : gs[i] = got[i]
      BY ONLY <1>0, <1>1, <3>3, Grown DEF n
    <3>5. /\ fs \in Seq(F) /\ Len(fs) + 1 = f /\ Head(frames) = frames[1]
          /\ \A i \in 1..Len(fs) : fs[i] = frames[i + 1]
          /\ Len(fs) \in Nat
      BY ONLY <1>0, <1>3, <1>8, Rest DEF f
    <3>6. Head(frames) = D[a]
      BY Zenon, <1>0, <2>1, <3>1, <3>5
    <3>7. ASSUME NEW i \in 1..Len(gs) PROVE gs[i] = R[answers[i]]
      <4>0. i \in 1..Len(gs)
        BY <3>7
      <4>1. CASE i = n + 1
        BY ONLY <1>0, <3>4, <4>1
      <4>2. CASE i # n + 1
        <5>1. i \in 1..n
          BY ONLY <1>4, <3>4, <4>0, <4>2
        <5> QED BY Zenon, <1>1, <3>4, <5>1
      <4> QED BY Zenon, <4>1, <4>2
    <3>8. ASSUME NEW i \in 1..(k - 1) PROVE fs[i] = D[answers[Len(gs) + i]]
      <4>0. i \in 1..(k - 1)
        BY <3>8
      <4>1. i \in 1..Len(fs) /\ i + 1 \in 1..k /\ Len(gs) + i = n + (i + 1)
        BY Zenon, <1>8, <3>4, <3>5, <4>0
      <4>2. fs[i] = frames[i + 1] /\ frames[i + 1] = D[answers[n + (i + 1)]]
        BY Zenon, <2>1, <3>5, <4>1
      <4> QED BY Zenon, <4>1, <4>2
    <3>9. Len(fs) # 0 => fs[Len(fs)] = frames[f]
      <4>1. Len(fs) # 0 => Len(fs) \in 1..Len(fs)
        BY ONLY <3>5
      <4> QED BY Zenon, <3>5, <4>1
    <3>10. Len(gs) <= Len(answers)
      BY ONLY <1>4, <3>1, <3>4 DEF l
    <3> QED BY Zenon, <3>2, <3>4, <3>5, <3>6, <3>7, <3>8, <3>9, <3>10
  <2>3. fs \in Seq(F)
    BY Zenon, <2>2
  <2>4. Len(fs) \in Nat
    BY ONLY <2>3
  <2>5. /\ raised = "" => l = Len(gs) + Len(fs)
        /\ raised # "" => /\ l + 1 = Len(gs) + Len(fs) /\ Len(fs) >= 1
                          /\ fs[Len(fs)] = E[raised]
        /\ raised = "" => (f = 1 <=> n + 1 = l)
    BY Zenon, <1>2, <1>8, <1>10, <2>2, <2>4
  <2>6. \A i \in 1..Len(fs) : raised = "" \/ i < Len(fs) => fs[i] = D[answers[Len(gs) + i]]
    BY Zenon, <1>8, <2>2, <2>4
  <2>7. Answered(A, R, G, answers, gs) /\ Waiting(D, E, F, answers, raised, fs, gs)
    BY Zenon, <1>1, <2>2, <2>5, <2>6 DEF Answered, Waiting, l
  <2> QED BY Zenon, <2>2, <2>5, <2>7 DEF gs, fs, b, n, f, l, NextFrame
<1> QED BY Zenon, <1>9, <1>10

(* A reply in each stage of its call.  many: the method streams.            *)
Reply(A, D, E, F, R, G, many, stage, answers, raised, frames, got, error) ==
    /\ Answered(A, R, G, answers, got)
    /\ stage # "done" => Waiting(D, E, F, answers, raised, frames, got)
    /\ stage = "sent" \/ (stage = "handling" /\ ~many) =>
         frames = <<>> /\ answers = <<>> /\ got = <<>>
    /\ stage \in {"sent", "handling"} => raised = ""
    /\ stage = "replied" /\ ~many => Len(frames) = 1 /\ got = <<>>
    /\ stage = "done" /\ error = "" => \/ Len(got) = Len(answers) /\ raised = ""
                                       \/ got # <<>> /\ got[Len(got)].which = "message"

LEMMA OneElement ==
    ASSUME NEW x
    PROVE  Append(<<>>, x) = <<x>> /\ Len(<<x>>) = 1
OBVIOUS

LEMMA NoIndex == DOMAIN <<>> = {}
OBVIOUS

LEMMA ReplySent ==
    ASSUME NEW A, NEW D, NEW E, NEW F, NEW R, NEW G, NEW many
    PROVE  Reply(A, D, E, F, R, G, many, "sent", <<>>, "", <<>>, <<>>, "")
BY NothingYet DEF Reply

LEMMA ReplyHandling ==
    ASSUME NEW A, NEW D, NEW E, NEW F, NEW R, NEW G, NEW many, NEW answers, NEW raised, NEW frames,
           NEW got, NEW error,
           Reply(A, D, E, F, R, G, many, "sent", answers, raised, frames, got, error)
    PROVE  Reply(A, D, E, F, R, G, many, "handling", answers, raised, frames, got, error)
BY DEF Reply

LEMMA ReplyRaised ==
    ASSUME NEW A, NEW D, NEW E, NEW F, NEW R, NEW G, NEW many, NEW answers, NEW raised, NEW frames,
           NEW got, NEW error, NEW e, e # "", E[e] \in F, NEW stage \in {"sent", "handling"},
           Reply(A, D, E, F, R, G, many, stage, answers, raised, frames, got, error)
    PROVE  Reply(A, D, E, F, R, G, many, "replied", answers, e, Append(frames, E[e]), got, error)
<1>1. Answered(A, R, G, answers, got) /\ Waiting(D, E, F, answers, "", frames, got)
  BY DEF Reply
<1>2. Waiting(D, E, F, answers, e, Append(frames, E[e]), got)
  BY <1>1, QueueRaises
<1>3. ~many => Len(Append(frames, E[e])) = 1 /\ got = <<>>
  <2>1. ~many => frames = <<>> /\ got = <<>>
    BY DEF Reply
  <2>2. Len(Append(<<>>, E[e])) = 1
    BY Zenon, OneElement
  <2> QED BY Zenon, <2>1, <2>2
<1> QED BY <1>1, <1>2, <1>3 DEF Reply

LEMMA ReplyReturned ==
    ASSUME NEW A, NEW D, NEW E, NEW F, NEW R, NEW G, NEW answers, NEW raised, NEW frames,
           NEW got, NEW error, NEW a \in A, D[a] \in F,
           Reply(A, D, E, F, R, G, FALSE, "handling", answers, raised, frames, got, error)
    PROVE  Reply(A, D, E, F, R, G, FALSE, "replied", <<a>>, raised, <<D[a]>>, got, error)
<1>1. /\ Answered(A, R, G, <<>>, got) /\ Waiting(D, E, F, <<>>, "", <<>>, got)
      /\ raised = "" /\ got = <<>>
  BY DEF Reply
<1>2. /\ Answered(A, R, G, Append(<<>>, a), got)
      /\ Waiting(D, E, F, Append(<<>>, a), "", Append(<<>>, D[a]), got)
  BY <1>1, QueueYields
<1>3. Append(<<>>, a) = <<a>> /\ Append(<<>>, D[a]) = <<D[a]>> /\ Len(<<D[a]>>) = 1
  BY Zenon, OneElement
<1>4. Answered(A, R, G, <<a>>, got) /\ Waiting(D, E, F, <<a>>, "", <<D[a]>>, got)
  BY Zenon, <1>2, <1>3
<1> QED BY Zenon, <1>1, <1>3, <1>4 DEF Reply

LEMMA ReplyYielded ==
    ASSUME NEW A, NEW D, NEW E, NEW F, NEW R, NEW G, NEW answers, NEW raised, NEW frames,
           NEW got, NEW error, NEW a \in A, D[a] \in F,
           Reply(A, D, E, F, R, G, TRUE, "handling", answers, raised, frames, got, error)
    PROVE  Reply(A, D, E, F, R, G, TRUE, "handling", Append(answers, a), raised,
                 Append(frames, D[a]), got, error)
<1>1. /\ Answered(A, R, G, answers, got) /\ Waiting(D, E, F, answers, "", frames, got)
      /\ raised = ""
  BY DEF Reply
<1>2. /\ Answered(A, R, G, Append(answers, a), got)
      /\ Waiting(D, E, F, Append(answers, a), "", Append(frames, D[a]), got)
  BY <1>1, QueueYields
<1> QED BY <1>1, <1>2 DEF Reply

LEMMA ReplyEnded ==
    ASSUME NEW A, NEW D, NEW E, NEW F, NEW R, NEW G, NEW answers, NEW raised, NEW frames,
           NEW got, NEW error,
           Reply(A, D, E, F, R, G, TRUE, "handling", answers, raised, frames, got, error)
    PROVE  Reply(A, D, E, F, R, G, TRUE, "replied", answers, raised, frames, got, error)
BY DEF Reply

\* a stream that was read to its end had no error
LEMMA ReplyDone ==
    ASSUME NEW A, NEW D, NEW E, NEW F, NEW R, NEW G, NEW many, NEW answers, NEW raised,
           NEW got, NEW error,
           Reply(A, D, E, F, R, G, many, "replied", answers, raised, <<>>, got, error)
    PROVE  Reply(A, D, E, F, R, G, many, "done", answers, raised, <<>>, got, error)
<1>1. Answered(A, R, G, answers, got) /\ Waiting(D, E, F, answers, raised, <<>>, got)
  BY DEF Reply
<1>2. Len(<<>>) = 0 /\ ~ (0 >= 1)
  OBVIOUS
<1>3. raised = "" /\ Len(answers) = Len(got) + 0
  BY Zenon, <1>1, <1>2 DEF Waiting
<1>4. got \in Seq(G)
  BY Zenon, <1>1 DEF Answered
<1>5. Len(got) \in Nat
  BY ONLY <1>4
<1>6. Len(got) = Len(answers)
  <2> DEFINE n == Len(got)
  <2>1. Len(answers) = n + 0
    BY <1>3
  <2>2. n + 0 = n
    BY ONLY <1>5
  <2> QED BY Zenon, <2>1, <2>2
<1> QED BY Zenon, <1>1, <1>3, <1>6 DEF Reply

\* a failed call: what was got stays, and the caller has an error
LEMMA ReplyFailed ==
    ASSUME NEW A, NEW D, NEW E, NEW F, NEW R, NEW G, NEW many, NEW stage, NEW answers, NEW raised,
           NEW frames, NEW got, NEW error, NEW r, NEW fs, NEW x, x # "",
           Reply(A, D, E, F, R, G, many, stage, answers, raised, frames, got, error)
    PROVE  Reply(A, D, E, F, R, G, many, "done", answers, r, fs, got, x)
BY DEF Reply

LEMMA AppendLast ==
    ASSUME NEW T, NEW s \in Seq(T), NEW x \in T
    PROVE  Append(s, x) # <<>> /\ Append(s, x)[Len(Append(s, x))] = x
OBVIOUS

\* the frame at the head is the error's, or that of an answer that is read
ReadOutcome(A, D, E, F, R, G, many, stage, answers, raised, frames, got, error) ==
    \/ raised # "" /\ Head(frames) = E[raised]
    \/ \E a \in A :
         /\ Head(frames) = D[a]
         /\ many => Reply(A, D, E, F, R, G, many, stage, answers, raised, Tail(frames),
                          Append(got, R[a]), error)
         /\ many /\ R[a].which = "message" =>
              Reply(A, D, E, F, R, G, many, "done", answers, raised, <<>>,
                    Append(got, R[a]), error)
         /\ ~many /\ (raised # "" => Head(frames) # E[raised]) =>
              Reply(A, D, E, F, R, G, many, "done", answers, raised, <<>>,
                    Append(got, R[a]), error)

LEMMA ReplyRead ==
    ASSUME NEW A, NEW D, NEW E, NEW F, NEW R, NEW G, NEW many,
           NEW stage \in {"handling", "replied"}, NEW answers, NEW raised, NEW frames, NEW got, NEW error,
           Reply(A, D, E, F, R, G, many, stage, answers, raised, frames, got, error),
           frames # <<>>, \A a \in A : R[a] \in G
    PROVE  ReadOutcome(A, D, E, F, R, G, many, stage, answers, raised, frames, got, error)
<1>1. Answered(A, R, G, answers, got) /\ Waiting(D, E, F, answers, raised, frames, got)
  BY DEF Reply
<1>2. CASE raised # "" /\ Head(frames) = E[raised]
  BY Zenon, <1>2 DEF ReadOutcome
<1>3. CASE ~ (raised # "" /\ Head(frames) = E[raised])
  <2>1. PICK a \in A :
          /\ Head(frames) = D[a]
          /\ Answered(A, R, G, answers, Append(got, R[a]))
          /\ Waiting(D, E, F, answers, raised, Tail(frames), Append(got, R[a]))
          /\ raised = "" => (Len(frames) = 1 <=> Len(got) + 1 = Len(answers))
    <3>1. NextFrame(A, D, E, F, R, G, answers, raised, frames, got)
      BY Zenon, <1>1, QueueReads
    <3> QED BY Zenon, <1>3, <3>1 DEF NextFrame
  <2> DEFINE g == R[a]
             gs == Append(got, g)
  <2>2. g \in G
    OBVIOUS
  <2>3. got \in Seq(G) /\ frames \in Seq(F)
    BY Zenon, <1>1 DEF Answered, Waiting
  <2> HIDE DEF g
  <2>4. gs # <<>> /\ gs[Len(gs)] = g /\ Len(gs) = Len(got) + 1
    BY ONLY <2>2, <2>3, AppendLast, Grown
  <2> HIDE DEF gs
  <2>5. many => Reply(A, D, E, F, R, G, many, stage, answers, raised, Tail(frames), gs, error)
    BY <2>1 DEF Reply, gs, g
  <2>6. g.which = "message" => Reply(A, D, E, F, R, G, many, "done", answers, raised, <<>>, gs, error)
    BY <2>1, <2>4 DEF Reply, gs, g
  <2>7. ~many => raised = ""
    <3> SUFFICES ASSUME ~many, raised # "" PROVE FALSE
      BY Zenon
    <3>1. Len(frames) = 1 /\ frames[Len(frames)] = E[raised]
      <4>1. stage = "replied" 
        BY DEF Reply
      <4>2. Len(frames) = 1
        BY <4>1 DEF Reply
      <4> QED BY Zenon, <1>1, <4>2 DEF Waiting
    <3>2. Head(frames) = frames[1]
      BY ONLY <2>3, <3>1
    <3> QED BY Zenon, <1>3, <3>1, <3>2
  <2>8. ~many => Len(frames) = 1
    <3> SUFFICES ASSUME ~many PROVE Len(frames) = 1
      BY Zenon
    <3>1. CASE stage = "handling"
      BY <3>1 DEF Reply
    <3>2. CASE stage = "replied"
      BY <3>2 DEF Reply
    <3> QED BY <3>1, <3>2
  <2>9. ~many => Reply(A, D, E, F, R, G, many, "done", answers, raised, <<>>, gs, error)
    BY Zenon, <2>1, <2>4, <2>7, <2>8 DEF Reply, gs, g
  <2> QED BY Zenon, <2>1, <2>5, <2>6, <2>9 DEF gs, g, ReadOutcome
<1> QED BY Zenon, <1>2, <1>3

\* where there is one frame and it is not the error's, it is that of the one answer
OneFrame(A, D, E, many, answers, raised, frames, got) ==
    ~many /\ ~ (raised # "" /\ Head(frames) = E[raised]) =>
      raised = "" /\ got = <<>> /\ answers[1] \in A /\ Head(frames) = D[answers[1]]
LEMMA OnlyAnswer ==
    ASSUME NEW A, NEW D, NEW E, NEW F, NEW R, NEW G, NEW many,
           NEW stage \in {"handling", "replied"}, NEW answers, NEW raised, NEW frames, NEW got, NEW error,
           Reply(A, D, E, F, R, G, many, stage, answers, raised, frames, got, error),
           frames # <<>>
    PROVE  OneFrame(A, D, E, many, answers, raised, frames, got)
<1> SUFFICES ASSUME ~many, ~ (raised # "" /\ Head(frames) = E[raised])
             PROVE  raised = "" /\ got = <<>> /\ answers[1] \in A /\ Head(frames) = D[answers[1]]
  BY Zenon DEF OneFrame
<1>1. Answered(A, R, G, answers, got) /\ Waiting(D, E, F, answers, raised, frames, got)
  BY DEF Reply
<1>2. stage = "replied"
  BY DEF Reply
<1>3. Len(frames) = 1 /\ got = <<>>
  BY <1>2 DEF Reply
<1>4. answers \in Seq(A) /\ frames \in Seq(F)
  BY Zenon, <1>1 DEF Answered, Waiting
<1>5. Head(frames) = frames[1]
  BY ONLY <1>3, <1>4
<1>6. raised = ""
  BY Zenon, <1>1, <1>3, <1>5 DEF Waiting
<1>7. Len(answers) = Len(got) + Len(frames)
      /\ \A i \in 1..Len(frames) : frames[i] = D[answers[Len(got) + i]]
  BY Zenon, <1>1, <1>6 DEF Waiting
<1>8. Len(answers) = 1 /\ frames[1] = D[answers[1]]
  BY ONLY <1>3, <1>7
<1>9. answers[1] \in A
  <2>1. 1 \in 1..Len(answers)
    BY ONLY <1>8
  <2> QED BY Zenon, <1>4, <2>1, ElementOfSeq
<1> QED BY Zenon, <1>3, <1>5, <1>6, <1>8, <1>9

(***************************************************************************)
(* What a call has carried so far, apart from the record that holds it.    *)
(***************************************************************************)
LegacyRest(conn) == conn = [version |-> "0.3", binding |-> "HTTP+JSON"]
\* what the binding reads back of the handler's answer, and whether it can be read
ReadBack(conn, m, r, a) == ReadReply(conn, m, WireReply(conn, m, r, a))
Readable(conn, m, r, a) == ReplyReadable(conn, m, WireReply(conn, m, r, a))
\* the answers that are sent: AnswerFails is "" for them
Answerable(conn, m) ==
    IF m \in {"get_task", "cancel_task"} THEN CoreTask
    ELSE IF m = "extended_card"
    THEN {a \in CoreAgentCard :
            Legacy(conn) => /\ HasCompatCard(a)
                            /\ conn.binding = "GRPC" => CanPutCard(ToCompatAgentCard(a))}
    ELSE AnswersOf(m)
RaisedErrors == A2AErrors \cup {"RuntimeError", "ValueError", "ServerError",
                               "NotFound", "Redirect", "WrongVerb"}
\* the class at the client of an error raised at the server
Named(conn, e, x) ==
    x \in {e} \cup Vague \/ (e = "NotFound" /\ x = "MethodNotFoundError") \/ LegacyRest(conn)
ReadSet(conn, m, r) == {ReadBack(conn, m, r, a) : a \in Answerable(conn, m)}
FrameSet(conn, m, r) ==
    [which : {"data"}, value : {WireReply(conn, m, r, a) : a \in Answerable(conn, m)}]
      \cup [which : {"error"}, value : {WireError(conn, e) : e \in RaisedErrors}]

Reads(conn, m, r) == [a \in Answerable(conn, m) |-> ReadBack(conn, m, r, a)]
DataFrames(conn, m, r) ==
    [a \in Answerable(conn, m) |-> [which |-> "data", value |-> WireReply(conn, m, r, a)]]
ErrorFrames(conn) == [e \in RaisedErrors |-> [which |-> "error", value |-> WireError(conn, e)]]
ReplyOK(conn, m, r, stage, answers, raised, frames, got, error) ==
    Reply(Answerable(conn, m), DataFrames(conn, m, r), ErrorFrames(conn), FrameSet(conn, m, r),
          Reads(conn, m, r), ReadSet(conn, m, r), m \in Streaming,
          stage, answers, raised, frames, got, error)

(* An error that crosses the wire is named by its class, or by one that     *)
(* names no cause, except over v0.3 REST and where no route took the path.  *)
LEMMA ErrorCrosses ==
    ASSUME NEW conn \in WireConn, NEW e \in RaisedErrors, NEW mid
    PROVE  LET x == RaisedAtClient(conn, WireError(conn, e), mid)
           IN x # "" /\ Named(conn, e, x)
<1> USE DEF Named, WireConn, RaisedErrors, A2AErrors, A2A_ERROR_MAPPING, LegacyCodes, Vague, Legacy
<1>1. CASE conn.binding = "JSONRPC"
  <2>1. WireError(conn, e).reason \in {e, "InternalError"} \cap A2AErrors
        \/ WireError(conn, e).reason = "none"
    BY <1>1 DEF WireError, JsonRpcCode
  <2>2. RaisedAtClient(conn, WireError(conn, e), mid)
          = IF WireError(conn, e).reason = "none" THEN "A2AClientError" ELSE WireError(conn, e).reason
    BY <1>1, <2>1 DEF RaisedAtClient, RaisedByName
  <2> QED BY <2>1, <2>2
<1>2. CASE conn.binding = "GRPC"
  <2>1. WireError(conn, e).reason = GrpcReason(e)
    BY <1>2 DEF WireError
  <2>2. RaisedAtClient(conn, WireError(conn, e), mid) \in {e, "A2AClientError"}
    BY <1>2, <2>1 DEF RaisedAtClient, RaisedByName, GrpcReason
  <2> QED BY <2>2
<1>3. CASE conn.binding = "HTTP+JSON" /\ Legacy(conn)
  <2>1. LegacyRest(conn)
    BY <1>3 DEF LegacyRest
  <2>2. RaisedAtClient(conn, WireError(conn, e), mid) \in {"MethodNotFoundError", "A2AClientError"}
    BY <1>3 DEF RaisedAtClient, RaisedByStatus
  <2> QED BY <2>1, <2>2
<1>4. CASE conn.binding = "HTTP+JSON" /\ ~Legacy(conn)
  <2>1. /\ WireError(conn, e).reason = RestReason(e)
        /\ WireError(conn, e).status = HttpStatus(e)
    BY <1>4 DEF WireError
  <2>2. RaisedAtClient(conn, WireError(conn, e), mid) = RaisedByReason(WireError(conn, e), mid)
    BY <1>4 DEF RaisedAtClient
  <2>3. CASE e \in A2A_ERROR_MAPPING
    BY <2>1, <2>2, <2>3 DEF RaisedByReason, RestReason
  <2>4. CASE e \notin A2A_ERROR_MAPPING
    <3>1. (e # "NotFound" => HttpStatus(e) # 404) /\ RestReason(e) = "UNKNOWN_ERROR"
      BY <2>4 DEF HttpStatus, RestReason
    <3> QED BY <2>1, <2>2, <3>1 DEF RaisedByReason, RaisedByStatus
  <2> QED BY <2>3, <2>4
<1> QED BY <1>1, <1>2, <1>3, <1>4

LEMMA FramesTyped ==
    ASSUME NEW conn, NEW m, NEW r
    PROVE  /\ \A a \in Answerable(conn, m) :
                /\ DataFrames(conn, m, r)[a] = [which |-> "data", value |-> WireReply(conn, m, r, a)]
                /\ DataFrames(conn, m, r)[a] \in FrameSet(conn, m, r)
                /\ Reads(conn, m, r)[a] = ReadBack(conn, m, r, a)
                /\ Reads(conn, m, r)[a] \in ReadSet(conn, m, r)
           /\ \A e \in RaisedErrors :
                /\ ErrorFrames(conn)[e] = [which |-> "error", value |-> WireError(conn, e)]
                /\ ErrorFrames(conn)[e] \in FrameSet(conn, m, r)
<1>1. ASSUME NEW a \in Answerable(conn, m)
      PROVE  /\ DataFrames(conn, m, r)[a] = [which |-> "data", value |-> WireReply(conn, m, r, a)]
             /\ Reads(conn, m, r)[a] = ReadBack(conn, m, r, a)
             /\ DataFrames(conn, m, r)[a] \in FrameSet(conn, m, r)
             /\ Reads(conn, m, r)[a] \in ReadSet(conn, m, r)
  <2>1. /\ DataFrames(conn, m, r)[a] = [which |-> "data", value |-> WireReply(conn, m, r, a)]
        /\ Reads(conn, m, r)[a] = ReadBack(conn, m, r, a)
    BY DEF DataFrames, Reads
  <2>2. ReadBack(conn, m, r, a) \in ReadSet(conn, m, r)
    BY Zenon DEF ReadSet
  <2>3. [which |-> "data", value |-> WireReply(conn, m, r, a)] \in FrameSet(conn, m, r)
    BY DEF FrameSet
  <2> QED BY Zenon, <2>1, <2>2, <2>3
<1>2. ASSUME NEW e \in RaisedErrors
      PROVE  /\ ErrorFrames(conn)[e] = [which |-> "error", value |-> WireError(conn, e)]
             /\ ErrorFrames(conn)[e] \in FrameSet(conn, m, r)
  <2>1. ErrorFrames(conn)[e] = [which |-> "error", value |-> WireError(conn, e)]
    BY DEF ErrorFrames
  <2>2. [which |-> "error", value |-> WireError(conn, e)] \in FrameSet(conn, m, r)
    BY DEF FrameSet
  <2> QED BY Zenon, <2>1, <2>2
<1> QED BY Zenon, <1>1, <1>2

LEMMA OKSent ==
    ASSUME NEW conn, NEW m, NEW r
    PROVE  ReplyOK(conn, m, r, "sent", <<>>, "", <<>>, <<>>, "")
BY Zenon, ReplySent DEF ReplyOK

LEMMA OKHandling ==
    ASSUME NEW conn, NEW m, NEW r, NEW answers, NEW raised, NEW frames, NEW got, NEW error,
           ReplyOK(conn, m, r, "sent", answers, raised, frames, got, error)
    PROVE  ReplyOK(conn, m, r, "handling", answers, raised, frames, got, error)
BY Zenon, ReplyHandling DEF ReplyOK

LEMMA OKRaised ==
    ASSUME NEW conn, NEW m, NEW r, NEW answers, NEW raised, NEW frames, NEW got, NEW error,
           NEW stage \in {"sent", "handling"}, NEW e \in RaisedErrors,
           ReplyOK(conn, m, r, stage, answers, raised, frames, got, error)
    PROVE  ReplyOK(conn, m, r, "replied", answers, e,
                   Append(frames, [which |-> "error", value |-> WireError(conn, e)]), got, error)
<1>1. e # ""
  BY DEF RaisedErrors, A2AErrors
<1>2. /\ ErrorFrames(conn)[e] \in FrameSet(conn, m, r)
      /\ ErrorFrames(conn)[e] = [which |-> "error", value |-> WireError(conn, e)]
  BY Zenon, FramesTyped
<1>3. ReplyOK(conn, m, r, "replied", answers, e, Append(frames, ErrorFrames(conn)[e]), got, error)
  BY Zenon, <1>1, <1>2, ReplyRaised DEF ReplyOK
<1> QED BY Zenon, <1>2, <1>3

LEMMA OKReturned ==
    ASSUME NEW conn, NEW m, NEW r, NEW answers, NEW raised, NEW frames, NEW got, NEW error,
           NEW a \in Answerable(conn, m), m \notin Streaming,
           ReplyOK(conn, m, r, "handling", answers, raised, frames, got, error)
    PROVE  ReplyOK(conn, m, r, "replied", <<a>>, raised,
                   <<[which |-> "data", value |-> WireReply(conn, m, r, a)]>>, got, error)
<1>1. /\ DataFrames(conn, m, r)[a] \in FrameSet(conn, m, r)
      /\ DataFrames(conn, m, r)[a] = [which |-> "data", value |-> WireReply(conn, m, r, a)]
  BY Zenon, FramesTyped
<1>2. (m \in Streaming) = FALSE
  OBVIOUS
<1>3. ReplyOK(conn, m, r, "replied", <<a>>, raised, <<DataFrames(conn, m, r)[a]>>, got, error)
  <2> DEFINE many == m \in Streaming
  <2>1. many = FALSE
    BY <1>2
  <2> HIDE DEF many
  <2>2. Reply(Answerable(conn, m), DataFrames(conn, m, r), ErrorFrames(conn), FrameSet(conn, m, r),
              Reads(conn, m, r), ReadSet(conn, m, r), FALSE,
              "handling", answers, raised, frames, got, error)
    BY Zenon, <2>1 DEF ReplyOK, many
  <2>3. Reply(Answerable(conn, m), DataFrames(conn, m, r), ErrorFrames(conn), FrameSet(conn, m, r),
              Reads(conn, m, r), ReadSet(conn, m, r), FALSE,
              "replied", <<a>>, raised, <<DataFrames(conn, m, r)[a]>>, got, error)
    BY Zenon, <1>1, <2>2, ReplyReturned
  <2> QED BY Zenon, <2>1, <2>3 DEF ReplyOK, many
<1> QED BY Zenon, <1>1, <1>3

LEMMA OKYielded ==
    ASSUME NEW conn, NEW m, NEW r, NEW answers, NEW raised, NEW frames, NEW got, NEW error,
           NEW a \in Answerable(conn, m), m \in Streaming,
           ReplyOK(conn, m, r, "handling", answers, raised, frames, got, error)
    PROVE  ReplyOK(conn, m, r, "handling", Append(answers, a), raised,
                   Append(frames, [which |-> "data", value |-> WireReply(conn, m, r, a)]), got, error)
<1>1. /\ DataFrames(conn, m, r)[a] \in FrameSet(conn, m, r)
      /\ DataFrames(conn, m, r)[a] = [which |-> "data", value |-> WireReply(conn, m, r, a)]
  BY Zenon, FramesTyped
<1> DEFINE many == m \in Streaming
<1>2. many = TRUE
  OBVIOUS
<1> HIDE DEF many
<1>3. Reply(Answerable(conn, m), DataFrames(conn, m, r), ErrorFrames(conn), FrameSet(conn, m, r),
            Reads(conn, m, r), ReadSet(conn, m, r), TRUE,
            "handling", answers, raised, frames, got, error)
  BY Zenon, <1>2 DEF ReplyOK, many
<1>4. Reply(Answerable(conn, m), DataFrames(conn, m, r), ErrorFrames(conn), FrameSet(conn, m, r),
            Reads(conn, m, r), ReadSet(conn, m, r), TRUE,
            "handling", Append(answers, a), raised, Append(frames, DataFrames(conn, m, r)[a]), got, error)
  BY Zenon, <1>1, <1>3, ReplyYielded
<1> QED BY Zenon, <1>1, <1>2, <1>4 DEF ReplyOK, many

LEMMA OKEnded ==
    ASSUME NEW conn, NEW m, NEW r, NEW answers, NEW raised, NEW frames, NEW got, NEW error,
           m \in Streaming,
           ReplyOK(conn, m, r, "handling", answers, raised, frames, got, error)
    PROVE  ReplyOK(conn, m, r, "replied", answers, raised, frames, got, error)
<1> DEFINE many == m \in Streaming
<1>2. many = TRUE
  OBVIOUS
<1> HIDE DEF many
<1>3. Reply(Answerable(conn, m), DataFrames(conn, m, r), ErrorFrames(conn), FrameSet(conn, m, r),
            Reads(conn, m, r), ReadSet(conn, m, r), TRUE,
            "handling", answers, raised, frames, got, error)
  BY Zenon, <1>2 DEF ReplyOK, many
<1>4. Reply(Answerable(conn, m), DataFrames(conn, m, r), ErrorFrames(conn), FrameSet(conn, m, r),
            Reads(conn, m, r), ReadSet(conn, m, r), TRUE,
            "replied", answers, raised, frames, got, error)
  BY Zenon, <1>3, ReplyEnded
<1> QED BY Zenon, <1>2, <1>4 DEF ReplyOK, many

LEMMA OKDone ==
    ASSUME NEW conn, NEW m, NEW r, NEW answers, NEW raised, NEW got, NEW error,
           ReplyOK(conn, m, r, "replied", answers, raised, <<>>, got, error)
    PROVE  ReplyOK(conn, m, r, "done", answers, raised, <<>>, got, error)
BY Zenon, ReplyDone DEF ReplyOK

LEMMA OKFailed ==
    ASSUME NEW conn, NEW m, NEW r, NEW stage, NEW answers, NEW raised, NEW frames, NEW got, NEW error,
           NEW e, NEW fs, NEW x, x # "",
           ReplyOK(conn, m, r, stage, answers, raised, frames, got, error)
    PROVE  ReplyOK(conn, m, r, "done", answers, e, fs, got, x)
BY Zenon, ReplyFailed DEF ReplyOK

\* the frame at the head is the error raised, or data that is read and appended to got
FrameRead(conn, m, r, stage, answers, raised, frames, got, error, frame, read, last) ==
    /\ frame.which \in {"data", "error"}
    /\ frame.which = "error" => raised # "" /\ frame.value = WireError(conn, raised)
    /\ frame.which # "error" =>
         ReplyOK(conn, m, r, IF last THEN "done" ELSE stage, answers, raised,
                 IF last THEN <<>> ELSE Tail(frames), Append(got, read), error)
    /\ frame.which # "error" /\ m \notin Streaming =>
         /\ raised = "" /\ got = <<>> /\ answers[1] \in Answerable(conn, m)
         /\ frame.value = WireReply(conn, m, r, answers[1])

\* the client reads no frame behind this one
LastFrame(m, frame, read) ==
    m \notin Streaming \/ (frame.which = "data" /\ read.which = "message")

LEMMA OKRead ==
    ASSUME NEW conn, NEW m, NEW r, NEW answers, NEW raised \in RaisedErrors \cup {""}, NEW frames,
           NEW got, NEW error, NEW stage \in {"handling", "replied"}, frames # <<>>,
           ReplyOK(conn, m, r, stage, answers, raised, frames, got, error),
           NEW frame, frame = Head(frames), NEW read, read = ReadReply(conn, m, frame.value),
           NEW last, last <=> LastFrame(m, frame, read)
    PROVE  FrameRead(conn, m, r, stage, answers, raised, frames, got, error, frame, read, last)
<1> DEFINE A == Answerable(conn, m)
           D == DataFrames(conn, m, r)
           E == ErrorFrames(conn)
           F == FrameSet(conn, m, r)
           R == Reads(conn, m, r)
           G == ReadSet(conn, m, r)
           many == m \in Streaming
<1>1. \A a \in A : R[a] \in G /\ D[a] = [which |-> "data", value |-> WireReply(conn, m, r, a)]
                   /\ R[a] = ReadReply(conn, m, WireReply(conn, m, r, a))
  BY Zenon, FramesTyped DEF ReadBack
<1>2. \A e \in RaisedErrors : E[e] = [which |-> "error", value |-> WireError(conn, e)]
  BY Zenon, FramesTyped
<1>3. Reply(A, D, E, F, R, G, many, stage, answers, raised, frames, got, error)
  BY Zenon DEF ReplyOK
<1>4. last <=> (m \notin Streaming \/ (frame.which = "data" /\ read.which = "message"))
  BY Zenon DEF LastFrame
<1>5. many <=> m \in Streaming
  OBVIOUS
<1> HIDE DEF A, D, E, F, R, G, many
<1>6. \/ raised # "" /\ frame = E[raised]
      \/ \E a \in A :
           /\ frame = D[a]
           /\ many => Reply(A, D, E, F, R, G, many, stage, answers, raised, Tail(frames),
                            Append(got, R[a]), error)
           /\ many /\ R[a].which = "message" =>
                Reply(A, D, E, F, R, G, many, "done", answers, raised, <<>>,
                      Append(got, R[a]), error)
           /\ ~many /\ (raised # "" => frame # E[raised]) =>
                Reply(A, D, E, F, R, G, many, "done", answers, raised, <<>>,
                      Append(got, R[a]), error)
  <2>1. \A a \in A : R[a] \in G
    BY Zenon, <1>1
  <2>2. ReadOutcome(A, D, E, F, R, G, many, stage, answers, raised, frames, got, error)
    BY Zenon, <1>3, <2>1, ReplyRead
  <2> QED BY Zenon, <2>2 DEF ReadOutcome
<1>7. CASE raised # "" /\ frame = E[raised]
  <2>1. raised \in RaisedErrors
    BY <1>7
  <2>2. frame = [which |-> "error", value |-> WireError(conn, raised)]
    BY Zenon, <1>2, <1>7, <2>1
  <2>3. frame.which = "error" /\ frame.value = WireError(conn, raised)
        /\ frame.which \in {"data", "error"}
    BY ONLY <2>2
  <2> QED BY Zenon, <1>7, <2>3 DEF FrameRead
<1>8. CASE ~ (raised # "" /\ frame = E[raised])
  <2>1. PICK a \in A :
           /\ frame = D[a]
           /\ many => Reply(A, D, E, F, R, G, many, stage, answers, raised, Tail(frames),
                            Append(got, R[a]), error)
           /\ many /\ R[a].which = "message" =>
                Reply(A, D, E, F, R, G, many, "done", answers, raised, <<>>,
                      Append(got, R[a]), error)
           /\ ~many /\ (raised # "" => frame # E[raised]) =>
                Reply(A, D, E, F, R, G, many, "done", answers, raised, <<>>,
                      Append(got, R[a]), error)
    BY Zenon, <1>6, <1>8
  <2> DEFINE w == WireReply(conn, m, r, a)
  <2>2. frame = [which |-> "data", value |-> w] /\ R[a] = ReadReply(conn, m, w)
    BY Zenon, <1>1, <2>1
  <2> HIDE DEF w
  <2>3. frame.which = "data" /\ frame.value = w
    BY ONLY <2>2
  <2>4. read = R[a]
    BY Zenon, <2>2, <2>3
  <2>5. CASE ~many
    <3>1. last /\ Reply(A, D, E, F, R, G, many, "done", answers, raised, <<>>, Append(got, read), error)
      BY Zenon, <1>4, <1>5, <1>8, <2>1, <2>4, <2>5
    <3>2. raised = "" /\ got = <<>> /\ answers[1] \in A /\ frame = D[answers[1]]
      <4>1. ~ (raised # "" /\ Head(frames) = E[raised])
        BY Zenon, <1>8
      <4>2. stage \in {"handling", "replied"} /\ frames # <<>>
        OBVIOUS
      <4>3. raised = "" /\ got = <<>> /\ answers[1] \in A /\ Head(frames) = D[answers[1]]
        <5>1. OneFrame(A, D, E, many, answers, raised, frames, got)
          BY Zenon, <1>3, <4>2, OnlyAnswer
        <5> QED BY Zenon, <2>5, <4>1, <5>1 DEF OneFrame
      <4> QED BY Zenon, <4>3
    <3> DEFINE v == WireReply(conn, m, r, answers[1])
    <3>3. frame = [which |-> "data", value |-> v]
      BY Zenon, <1>1, <3>2
    <3> HIDE DEF v
    <3>4. frame.value = v
      BY ONLY <3>3
    <3>5. frame.which \in {"data", "error"} /\ frame.which # "error"
      BY <2>3
    <3> QED BY Zenon, <3>1, <3>2, <3>4, <3>5 DEF FrameRead, ReplyOK, A, D, E, F, R, G, many, v
  <2>6. CASE many /\ read.which = "message"
    <3>1. last /\ Reply(A, D, E, F, R, G, many, "done", answers, raised, <<>>, Append(got, read), error)
      BY Zenon, <1>4, <2>1, <2>3, <2>4, <2>6
    <3>2. frame.which \in {"data", "error"} /\ frame.which # "error" /\ m \in Streaming
      BY <1>5, <2>3, <2>6
    <3> QED BY Zenon, <3>1, <3>2 DEF FrameRead, ReplyOK, A, D, E, F, R, G, many
  <2>7. CASE many /\ read.which # "message"
    <3>1. ~last /\ Reply(A, D, E, F, R, G, many, stage, answers, raised, Tail(frames), Append(got, read), error)
      BY Zenon, <1>4, <1>5, <2>1, <2>4, <2>7
    <3>2. frame.which \in {"data", "error"} /\ frame.which # "error" /\ m \in Streaming
      BY <1>5, <2>3, <2>7
    <3> QED BY Zenon, <3>1, <3>2 DEF FrameRead, ReplyOK, A, D, E, F, R, G, many
  <2> QED BY Zenon, <2>5, <2>6, <2>7
<1> QED BY Zenon, <1>7, <1>8

(***************************************************************************)
(* The record of a call, and what holds of it from the request on.         *)
(***************************************************************************)
CallFields == {"stage", "method", "req", "tenant", "header", "verb", "wire", "served", "seen",
               "answers", "raised", "frames", "got", "error"}
IsCall(c) == DOMAIN c = CallFields

\* the requests a transport is called with: a configuration is always applied
Asked(m) ==
    IF m \in Messages
    THEN [message : CoreMessage, configuration : CoreSendConfiguration, metadata : CoreDict]
    ELSE RequestsOf(m)

ClientFields == {"card", "held", "config", "tenant", "conn", "override", "auto", "allows"}
\* the verb is overridden only when the server does not take POST
ClientOK(k) ==
    /\ DOMAIN k = ClientFields /\ k.conn \in WireConn /\ k.config \in WireConfigs
    /\ k.allows \in SUBSET {"GET", "POST"} /\ k.override \in {"", "GET", "POST"}
    /\ k.override # "" => "POST" \notin k.allows
    /\ k.override = "POST" => k.allows = {}
RequestOK(conn, m, r, w) ==
    /\ m \in WireMethods /\ r \in Asked(m) /\ ClientSupports(conn, m)
    /\ w = WireRequest(conn, m, r)
VerbOK(allows, override, stage, verb, raised) ==
    /\ stage = "sent" => verb = IF override = "" THEN "POST" ELSE override
    /\ raised = "MethodNotAllowed" => allows = {}
Seen(conn, m, w, header, served, seen) ==
    /\ seen = SeenRequest(conn, m, w) /\ VersionAccepted(conn, header) /\ ~Nameless(conn, m, w)
    /\ served = m \/ (Legacy(conn) /\ m = "get_push" /\ served = "list_push")
SeenOK(conn, stage, m, w, header, served, seen) ==
    /\ stage = "sent" => served = m
    /\ stage = "handling" \/ seen # Absent =>
         Seen(conn, m, w, header, served, seen)
ErrorOK(conn, stage, raised, error) ==
    /\ stage # "done" => error = "" /\ raised \in RaisedErrors \cup {""}
    /\ raised # "" => error = "" \/ Named(conn, raised, error)
\* the client reads what it gets, and fails by itself only at an answer it cannot read
ReadOK(conn, m, r, answers, raised, got, error) ==
    /\ error # "" /\ raised = "" =>
         /\ error = "InvalidParamsError" /\ m \notin Streaming
         /\ answers[1] \in Answerable(conn, m) /\ ~Readable(conn, m, r, answers[1])
    /\ m \notin Streaming => \A i \in DOMAIN got : Readable(conn, m, r, answers[i])
Carrying(k, c) ==
    /\ IsCall(c) /\ c.stage \in {"sent", "handling", "replied", "done"}
    /\ RequestOK(k.conn, c.method, c.req, c.wire)
    /\ VerbOK(k.allows, k.override, c.stage, c.verb, c.raised)
    /\ SeenOK(k.conn, c.stage, c.method, c.wire, c.header, c.served, c.seen)
    /\ ReplyOK(k.conn, c.method, c.req, c.stage, c.answers, c.raised, c.frames, c.got, c.error)
    /\ ErrorOK(k.conn, c.stage, c.raised, c.error)
    /\ ReadOK(k.conn, c.method, c.req, c.answers, c.raised, c.got, c.error)
(* A call that was sent carries its request out and its reply back; one     *)
(* that was not is answered or refused by the client itself.                *)
CallInv ==
    /\ ClientOK(wireClient)
    /\ \/ wireCall = NoCall
       \/ wireCall.stage = "done" /\ wireCall.wire = Absent
       \/ Carrying(wireClient, wireCall)
WireSpec == WireInit /\ [][WireNext]_wireVars

LEMMA ClientCreated ==
    ASSUME WireInit
    PROVE  CallInv
<1>1. PICK card \in WireCards, config \in WireConfigs, allows \in SUBSET {"GET", "POST"} :
        /\ SelectedInterface(card, config) # Absent
        /\ wireClient = Create(card, config, allows)
  BY DEF WireInit
<1> DEFINE chosen == SelectedInterface(card, config)
<1>2. chosen.protocol_binding \in {"JSONRPC", "GRPC", "HTTP+JSON"}
  BY <1>1, ChosenInterface
<1> DEFINE t == chosen.tenant
           cn == [version |-> IF IsLegacyVersion(chosen.protocol_version) THEN "0.3" ELSE "1.0",
                  binding |-> chosen.protocol_binding]
<1>3. cn \in WireConn
  BY <1>2 DEF WireConn
<1>4. wireClient = [card |-> card, held |-> card, config |-> config, tenant |-> t, conn |-> cn,
                    override |-> "", auto |-> TRUE, allows |-> allows]
  BY <1>1 DEF Create
<1> HIDE DEF t, cn
<1>5. /\ DOMAIN wireClient = ClientFields /\ wireClient.conn = cn /\ wireClient.config = config
      /\ wireClient.allows = allows /\ wireClient.override = ""
  BY ONLY <1>4 DEF ClientFields
<1>6. ClientOK(wireClient)
  BY <1>3, <1>5 DEF ClientOK
<1> QED BY <1>6 DEF CallInv, WireInit

LEMMA HandlerEndsInv ==
    ASSUME CallInv, HandlerEnds
    PROVE  CallInv'
<1> DEFINE c == wireCall
           d == wireCall'
           k == wireClient
<1>1. c.stage = "handling" /\ c.method \in Streaming /\ d = [c EXCEPT !.stage = "replied"]
      /\ wireClient' = wireClient
  BY DEF HandlerEnds
<1>2. Carrying(k, c) /\ ClientOK(k)
  BY <1>1 DEF CallInv, NoCall
<1>3. IsCall(c)
  BY <1>2 DEF Carrying
<1> HIDE DEF c, d, k
<1>4. /\ IsCall(d)
      /\ d.stage = "replied" /\ d.method = c.method /\ d.req = c.req /\ d.tenant = c.tenant
      /\ d.header = c.header /\ d.verb = c.verb /\ d.wire = c.wire /\ d.served = c.served
      /\ d.seen = c.seen /\ d.answers = c.answers
      /\ d.raised = c.raised /\ d.frames = c.frames /\ d.got = c.got /\ d.error = c.error
  BY ONLY <1>1, <1>3 DEF IsCall, CallFields
<1>5. ReplyOK(k.conn, d.method, d.req, d.stage, d.answers, d.raised, d.frames, d.got, d.error)
  BY <1>1, <1>2, <1>4, OKEnded DEF Carrying
<1>6. Carrying(k, d)
  BY <1>1, <1>2, <1>4, <1>5 DEF Carrying, VerbOK, SeenOK, ErrorOK, ReadOK
<1> QED BY Zenon, <1>1, <1>2, <1>6 DEF CallInv, c, d, k

\* the server answers with an error
LEMMA RepliedInv ==
    ASSUME NEW k, NEW c, Carrying(k, c), c.stage \in {"sent", "handling"}, NEW e \in RaisedErrors,
           NEW d, d = [c EXCEPT !.stage = "replied", !.raised = e,
                         !.frames = Append(c.frames, [which |-> "error", value |-> WireError(k.conn, e)])]
    PROVE  Carrying(k, d)
<1> DEFINE fs == Append(c.frames, [which |-> "error", value |-> WireError(k.conn, e)])
<1>1. IsCall(c)
  BY DEF Carrying
<1>2. ReplyOK(k.conn, c.method, c.req, "replied", c.answers, e, fs, c.got, c.error)
  BY Zenon, OKRaised DEF Carrying
<1>3. d = [c EXCEPT !.stage = "replied", !.raised = e, !.frames = fs]
  OBVIOUS
<1>4. e # "" /\ e # "MethodNotAllowed"
  BY DEF RaisedErrors, A2AErrors
<1> HIDE DEF fs
<1>5. /\ IsCall(d) /\ d.stage = "replied" /\ d.method = c.method /\ d.req = c.req
      /\ d.tenant = c.tenant /\ d.header = c.header /\ d.verb = c.verb /\ d.wire = c.wire
      /\ d.served = c.served /\ d.seen = c.seen
      /\ d.answers = c.answers /\ d.raised = e /\ d.frames = fs /\ d.got = c.got
      /\ d.error = c.error
  BY ONLY <1>1, <1>3 DEF IsCall, CallFields
<1>6. ReplyOK(k.conn, d.method, d.req, d.stage, d.answers, d.raised, d.frames, d.got, d.error)
  BY Zenon, <1>2, <1>5
<1>7. VerbOK(k.allows, k.override, d.stage, d.verb, d.raised)
  BY <1>4, <1>5 DEF VerbOK
<1>8. /\ SeenOK(k.conn, d.stage, d.method, d.wire, d.header, d.served, d.seen)
      /\ ErrorOK(k.conn, d.stage, d.raised, d.error)
      /\ ReadOK(k.conn, d.method, d.req, d.answers, d.raised, d.got, d.error)
  <2>1. /\ SeenOK(k.conn, c.stage, c.method, c.wire, c.header, c.served, c.seen)
        /\ ErrorOK(k.conn, c.stage, c.raised, c.error)
        /\ ReadOK(k.conn, c.method, c.req, c.answers, c.raised, c.got, c.error)
    BY Zenon DEF Carrying
  <2> QED BY <1>4, <1>5, <2>1 DEF SeenOK, ErrorOK, ReadOK
<1>9. RequestOK(k.conn, d.method, d.req, d.wire)
  BY Zenon, <1>5 DEF Carrying
<1> QED BY <1>5, <1>6, <1>7, <1>8, <1>9 DEF Carrying

\* where a call is under way, it was sent
LEMMA UnderWay ==
    ASSUME CallInv, wireCall.stage \in {"sent", "handling", "replied"}
    PROVE  Carrying(wireClient, wireCall) /\ ClientOK(wireClient)
BY DEF CallInv, NoCall

LEMMA StillCarrying ==
    ASSUME ClientOK(wireClient), Carrying(wireClient, wireCall'), UNCHANGED wireClient
    PROVE  CallInv'
BY Zenon DEF CallInv

LEMMA HandlerRaisesInv ==
    ASSUME CallInv, HandlerRaises
    PROVE  CallInv'
<1>1. wireCall.stage = "handling" /\ UNCHANGED wireClient
  BY DEF HandlerRaises
<1>2. PICK x \in A2AErrors \cup {"RuntimeError"} : wireCall' = Replied(wireCall, Surfaced(x))
  BY Zenon DEF HandlerRaises
<1> DEFINE e == Surfaced(x)
<1>3. e \in RaisedErrors
  BY DEF RaisedErrors, Surfaced
<1> HIDE DEF e
<1>4. wireCall' = [wireCall EXCEPT !.stage = "replied", !.raised = e, !.frames =
                     Append(wireCall.frames, [which |-> "error", value |-> WireError(wireClient.conn, e)])]
  BY Zenon, <1>2 DEF Replied, ErrorFrame, e
<1>5. Carrying(wireClient, wireCall) /\ ClientOK(wireClient)
  BY <1>1, UnderWay
<1>6. wireCall.stage \in {"sent", "handling"}
  BY <1>1
<1>7. Carrying(wireClient, wireCall')
  BY Zenon, <1>3, <1>4, <1>5, <1>6, RepliedInv
<1> QED BY Zenon, <1>1, <1>5, <1>7, StillCarrying

\* the request is handed to the handler, for the list where no config was named
LEMMA HandledInv ==
    ASSUME NEW k, NEW c, Carrying(k, c), c.stage = "sent", VersionAccepted(k.conn, c.header),
           NEW seen, seen = SeenRequest(k.conn, c.method, c.wire), NEW served,
           served = c.method \/ (Legacy(k.conn) /\ c.method = "get_push" /\ served = "list_push"),
           ~Nameless(k.conn, c.method, c.wire),
           NEW d, d = [c EXCEPT !.stage = "handling", !.seen = seen, !.served = served]
    PROVE  Carrying(k, d)
<1>1. IsCall(c)
  BY DEF Carrying
<1>2. /\ IsCall(d) /\ d.stage = "handling" /\ d.method = c.method /\ d.req = c.req
      /\ d.tenant = c.tenant /\ d.header = c.header /\ d.verb = c.verb /\ d.wire = c.wire
      /\ d.served = served /\ d.seen = seen /\ d.answers = c.answers
      /\ d.raised = c.raised /\ d.frames = c.frames /\ d.got = c.got /\ d.error = c.error
  <2>1. d = [c EXCEPT !.stage = "handling", !.seen = seen, !.served = served]
    OBVIOUS
  <2> QED BY ONLY <1>1, <2>1 DEF IsCall, CallFields
<1>3. ReplyOK(k.conn, d.method, d.req, d.stage, d.answers, d.raised, d.frames, d.got, d.error)
  BY Zenon, <1>2, OKHandling DEF Carrying
<1>4. Seen(k.conn, d.method, d.wire, d.header, d.served, d.seen)
  BY Zenon, <1>2 DEF Seen
<1>5. SeenOK(k.conn, d.stage, d.method, d.wire, d.header, d.served, d.seen)
  BY <1>2, <1>4 DEF SeenOK
<1>6. VerbOK(k.allows, k.override, d.stage, d.verb, d.raised) /\ ErrorOK(k.conn, d.stage, d.raised, d.error)
      /\ RequestOK(k.conn, d.method, d.req, d.wire)
      /\ ReadOK(k.conn, d.method, d.req, d.answers, d.raised, d.got, d.error)
  <2>1. VerbOK(k.allows, k.override, c.stage, c.verb, c.raised) /\ ErrorOK(k.conn, c.stage, c.raised, c.error)
        /\ RequestOK(k.conn, c.method, c.req, c.wire)
        /\ ReadOK(k.conn, c.method, c.req, c.answers, c.raised, c.got, c.error)
    BY Zenon DEF Carrying
  <2> QED BY <1>2, <2>1 DEF VerbOK, ErrorOK
<1> QED BY <1>2, <1>3, <1>5, <1>6 DEF Carrying

LEMMA ServerReceivesInv ==
    ASSUME CallInv, ServerReceives
    PROVE  CallInv'
<1> DEFINE c == wireCall
           k == wireClient
           seen == SeenRequest(k.conn, c.method, c.wire)
           listed == Legacy(k.conn) /\ c.method = "get_push" /\ seen.id = ""
           accepted == VersionAccepted(k.conn, c.header)
           nameless == Nameless(k.conn, c.method, c.wire)
           served == IF listed THEN "list_push" ELSE c.served
           over == [c EXCEPT !.stage = "handling", !.seen = seen, !.served = served]
           bad == Replied(c, "VersionNotSupportedError")
           worse == Replied(c, "InvalidParamsError")
<1>1. c.stage = "sent" /\ UNCHANGED wireClient
  BY DEF ServerReceives
<1>2. wireCall' = CASE ~accepted -> bad [] accepted /\ nameless -> worse [] OTHER -> over
  BY Zenon DEF ServerReceives
<1>3. Carrying(k, c) /\ ClientOK(k)
  BY <1>1, UnderWay
<1>4. ASSUME NEW e \in RaisedErrors PROVE Carrying(k, Replied(c, e))
  <2>1. Replied(c, e) = [c EXCEPT !.stage = "replied", !.raised = e, !.frames =
                           Append(c.frames, [which |-> "error", value |-> WireError(k.conn, e)])]
    BY Zenon DEF Replied, ErrorFrame
  <2>2. c.stage \in {"sent", "handling"}
    BY <1>1
  <2> QED BY Zenon, <1>3, <2>1, <2>2, RepliedInv
<1>5. Carrying(k, bad) /\ Carrying(k, worse)
  <2>1. "VersionNotSupportedError" \in RaisedErrors /\ "InvalidParamsError" \in RaisedErrors
    BY DEF RaisedErrors, A2AErrors
  <2> QED BY Zenon, <1>4, <2>1
<1>6. accepted /\ ~nameless => Carrying(k, over)
  <2>1. c.served = c.method
    BY Zenon, <1>1, <1>3 DEF Carrying, SeenOK
  <2>2. served = c.method \/ (Legacy(k.conn) /\ c.method = "get_push" /\ served = "list_push")
    BY Zenon, <2>1
  <2> HIDE DEF seen, served, c, k
  <2>3. seen = SeenRequest(k.conn, c.method, c.wire)
    BY DEF seen
  <2> QED BY Zenon, <1>1, <1>3, <2>2, <2>3, HandledInv
<1> HIDE DEF accepted, nameless, bad, worse, over
<1>7. Carrying(k, wireCall')
  BY <1>2, <1>5, <1>6
<1> QED BY Zenon, <1>1, <1>3, <1>7, StillCarrying

LEMMA RouteMissingInv ==
    ASSUME CallInv, RouteMissing
    PROVE  CallInv'
<1> DEFINE c == wireCall
           k == wireClient
<1>1. c.stage = "sent" /\ UNCHANGED wireClient
  BY DEF RouteMissing
<1>2. PICK e \in {"NotFound", "Redirect", "WrongVerb"} : wireCall' = Replied(c, e)
  BY DEF RouteMissing
<1>3. Carrying(k, c) /\ ClientOK(k) /\ c.stage \in {"sent", "handling"}
  BY <1>1, UnderWay
<1>4. e \in RaisedErrors
  BY DEF RaisedErrors
<1>5. wireCall' = [c EXCEPT !.stage = "replied", !.raised = e, !.frames =
                     Append(c.frames, [which |-> "error", value |-> WireError(k.conn, e)])]
  BY Zenon, <1>2 DEF Replied, ErrorFrame
<1>6. Carrying(k, wireCall')
  BY Zenon, <1>3, <1>4, <1>5, RepliedInv
<1> QED BY Zenon, <1>1, <1>3, <1>6, StillCarrying

LEMMA StreamEndsInv ==
    ASSUME CallInv, StreamEnds
    PROVE  CallInv'
<1> DEFINE c == wireCall
           d == wireCall'
           k == wireClient
<1>1. c.stage = "replied" /\ c.frames = <<>> /\ d = [c EXCEPT !.stage = "done"]
      /\ wireClient' = wireClient
  BY DEF StreamEnds
<1>2. Carrying(k, c) /\ ClientOK(k)
  BY <1>1, UnderWay
<1>3. IsCall(c)
  BY <1>2 DEF Carrying
<1> HIDE DEF c, d, k
<1>4. /\ IsCall(d) /\ d.stage = "done" /\ d.method = c.method /\ d.req = c.req
      /\ d.tenant = c.tenant /\ d.header = c.header /\ d.verb = c.verb /\ d.wire = c.wire
      /\ d.served = c.served /\ d.seen = c.seen
      /\ d.answers = c.answers /\ d.raised = c.raised /\ d.frames = c.frames /\ d.got = c.got
      /\ d.error = c.error
  BY ONLY <1>1, <1>3 DEF IsCall, CallFields
<1>5. ReplyOK(k.conn, d.method, d.req, d.stage, d.answers, d.raised, d.frames, d.got, d.error)
  BY <1>1, <1>2, <1>4, OKDone DEF Carrying
<1>6. Carrying(k, d)
  BY <1>1, <1>2, <1>4, <1>5 DEF Carrying, VerbOK, SeenOK, ErrorOK, ReadOK
<1> QED BY Zenon, <1>1, <1>2, <1>6 DEF CallInv, c, d, k

\* the config picked from a list is one of the list
LEMMA PickedConfig ==
    ASSUME NEW T, NEW configs \in Seq(T), configs # <<>>, NEW task
    PROVE  ConfigOfTask(configs, task) \in T
<1> DEFINE own == {i \in DOMAIN configs : configs[i].id = task}
           at == IF own = {} THEN 1 ELSE CHOOSE i \in own : \A j \in own : i <= j
<1>1. own \in SUBSET Nat
  OBVIOUS
<1>2. 1 \in DOMAIN configs
  OBVIOUS
<1>3. own \subseteq DOMAIN configs
  OBVIOUS
<1> HIDE DEF own
<1>4. at \in DOMAIN configs
  <2>1. CASE own = {}
    BY <1>2, <2>1
  <2>2. CASE own # {}
    <3>1. \E i \in own : \A j \in own : i <= j
      BY Zenon, <1>1, <2>2, LeastIndex
    <3>2. (CHOOSE i \in own : \A j \in own : i <= j) \in own
      BY Zenon, <3>1
    <3> QED BY Zenon, <1>3, <2>2, <3>2
  <2> QED BY <2>1, <2>2
<1>5. ConfigOfTask(configs, task) = configs[at]
  BY Zenon DEF ConfigOfTask, own
<1> HIDE DEF at
<1> QED BY <1>4, <1>5

\* what the handler answers without failing can be sent
LEMMA AnswerSent ==
    ASSUME wireClient.conn \in WireConn, wireCall.method \in WireMethods,
           \/ wireCall.served = wireCall.method
           \/ wireCall.method = "get_push" /\ wireCall.served = "list_push",
           NEW a \in WireAnswers(wireCall.served)
    PROVE  /\ AnswerFails(a) # "" => AnswerFails(a) \in RaisedErrors
           /\ AnswerFails(a) = "" =>
                (IF wireCall.method = "get_push" /\ wireCall.served = "list_push"
                 THEN ConfigOfTask(a, wireCall.seen.task_id) ELSE a)
                  \in Answerable(wireClient.conn, wireCall.method)
<1> DEFINE conn == wireClient.conn
           m == wireCall.method
           p1 == m \in {"get_task", "cancel_task"} /\ a = Absent
           p2 == m = "get_push" /\ wireCall.served = "list_push" /\ a = <<>>
           p3 == m = "extended_card" /\ Legacy(conn) /\ ~HasCompatCard(a)
           p4 == m = "extended_card" /\ conn = [version |-> "0.3", binding |-> "GRPC"]
                   /\ HasCompatCard(a) /\ ~CanPutCard(ToCompatAgentCard(a))
           picked == IF m = "get_push" /\ wireCall.served = "list_push"
                     THEN ConfigOfTask(a, wireCall.seen.task_id) ELSE a
<1>1. AnswerFails(a) = CASE p1 -> "TaskNotFoundError" [] p2 -> "TaskNotFoundError"
                         [] p3 -> "VersionNotSupportedError" [] p4 -> "ValueError" [] OTHER -> ""
  BY Zenon DEF AnswerFails
<1>2. wireCall.served \in WireMethods
  BY DEF WireMethods
<1>3. a \in AnswersOf(wireCall.served)
  BY Zenon, <1>2, WireConstants
<1>4. /\ AnswerFails(a) \in {"TaskNotFoundError", "VersionNotSupportedError", "ValueError", ""}
      /\ AnswerFails(a) = "" => ~p1 /\ ~p2 /\ ~p3 /\ ~p4
  <2> HIDE DEF p1, p2, p3, p4
  <2> QED BY ONLY <1>1
<1>5. AnswerFails(a) # "" => AnswerFails(a) \in RaisedErrors
  BY <1>4 DEF RaisedErrors, A2AErrors
<1>6. ASSUME ~p1, ~p2, ~p3, ~p4 PROVE picked \in Answerable(conn, m)
  <2>1. CASE m \in {"get_task", "cancel_task"}
    <3>1. a \in CompatOpt(CoreTask) /\ a # Absent /\ picked = a
      BY <1>3, <1>6, <2>1 DEF AnswersOf, Messages
    <3> QED BY Zenon, <2>1, <3>1 DEF Answerable, CompatOpt
  <2>2. CASE m = "extended_card"
    <3>1. a \in CoreAgentCard /\ picked = a
      BY <1>3, <2>2 DEF AnswersOf, Messages
    <3>2. Legacy(conn) => HasCompatCard(a)
      BY Zenon, <1>6, <2>2
    <3>3. Legacy(conn) /\ conn.binding = "GRPC" => CanPutCard(ToCompatAgentCard(a))
      <4>1. Legacy(conn) /\ conn.binding = "GRPC" => conn = [version |-> "0.3", binding |-> "GRPC"]
        BY DEF WireConn, Legacy
      <4> QED BY Zenon, <1>6, <2>2, <3>2, <4>1
    <3>4. m \notin {"get_task", "cancel_task"}
      BY <2>2
    <3> QED BY Zenon, <2>2, <3>1, <3>2, <3>3, <3>4 DEF Answerable
  <2>3. CASE m = "get_push" /\ wireCall.served = "list_push"
    <3>1. a \in Seq(CorePushConfig) /\ a # <<>>
      BY <1>3, <1>6, <2>3 DEF AnswersOf, Messages
    <3>2. picked \in CorePushConfig
      BY Zenon, <2>3, <3>1, PickedConfig
    <3>3. Answerable(conn, m) = CorePushConfig
      BY <2>3 DEF Answerable, AnswersOf, Messages
    <3> QED BY Zenon, <3>2, <3>3
  <2>4. CASE m \notin {"get_task", "cancel_task"} /\ m # "extended_card"
               /\ ~ (m = "get_push" /\ wireCall.served = "list_push")
    <3>1. picked = a /\ wireCall.served = m
      BY Zenon, <2>4
    <3>2. Answerable(conn, m) = AnswersOf(m)
      BY Zenon, <2>4 DEF Answerable
    <3> QED BY Zenon, <1>3, <3>1, <3>2
  <2> QED BY Zenon, <2>1, <2>2, <2>3, <2>4
<1> QED BY Zenon, <1>4, <1>5, <1>6

\* what a step that leaves the request and the reply's error alone keeps
LEMMA KeptParts ==
    ASSUME NEW k, NEW c, NEW d, Carrying(k, c), d.method = c.method, d.req = c.req, d.wire = c.wire,
           d.header = c.header, d.tenant = c.tenant, d.served = c.served, d.seen = c.seen,
           d.verb = c.verb, d.raised = c.raised,
           c.stage # "sent", d.stage # "sent", d.stage = "handling" => c.stage = "handling"
    PROVE  /\ RequestOK(k.conn, d.method, d.req, d.wire)
           /\ VerbOK(k.allows, k.override, d.stage, d.verb, d.raised)
           /\ SeenOK(k.conn, d.stage, d.method, d.wire, d.header, d.served, d.seen)
BY DEF Carrying, VerbOK, SeenOK

LEMMA HandlerReturnsInv ==
    ASSUME CallInv, HandlerReturns
    PROVE  CallInv'
<1> DEFINE c == wireCall
           d == wireCall'
           k == wireClient
<1>1. c.stage = "handling" /\ c.method \notin Streaming /\ UNCHANGED wireClient
  BY DEF HandlerReturns
<1>2. Carrying(k, c) /\ ClientOK(k)
  BY <1>1, UnderWay
<1>3. PICK a \in WireAnswers(c.served) :
        d = IF AnswerFails(a) # "" THEN Replied(c, AnswerFails(a))
            ELSE [c EXCEPT !.stage = "replied",
                    !.answers = <<IF c.method = "get_push" /\ c.served = "list_push"
                                  THEN ConfigOfTask(a, c.seen.task_id) ELSE a>>,
                    !.frames = <<DataFrame(IF c.method = "get_push" /\ c.served = "list_push"
                                           THEN ConfigOfTask(a, c.seen.task_id) ELSE a)>>]
  BY Zenon DEF HandlerReturns
<1> DEFINE picked == IF c.method = "get_push" /\ c.served = "list_push"
                     THEN ConfigOfTask(a, c.seen.task_id) ELSE a
<1>4. k.conn \in WireConn /\ c.method \in WireMethods
      /\ (c.served = c.method \/ (c.method = "get_push" /\ c.served = "list_push"))
  BY Zenon, <1>1, <1>2 DEF ClientOK, Carrying, RequestOK, SeenOK, Seen
<1>5. /\ AnswerFails(a) # "" => AnswerFails(a) \in RaisedErrors
      /\ AnswerFails(a) = "" => picked \in Answerable(k.conn, c.method)
  BY Zenon, <1>4, AnswerSent
<1>6. CASE AnswerFails(a) # ""
  <2> DEFINE e == AnswerFails(a)
  <2>1. e \in RaisedErrors
    BY Zenon, <1>5, <1>6
  <2>2. d = [c EXCEPT !.stage = "replied", !.raised = e, !.frames =
               Append(c.frames, [which |-> "error", value |-> WireError(k.conn, e)])]
    BY Zenon, <1>3, <1>6 DEF Replied, ErrorFrame
  <2>3. c.stage \in {"sent", "handling"}
    BY <1>1
  <2> HIDE DEF e
  <2>4. Carrying(k, d)
    BY Zenon, <1>2, <2>1, <2>2, <2>3, RepliedInv
  <2> QED BY Zenon, <1>1, <1>2, <2>4, StillCarrying
<1>7. CASE AnswerFails(a) = ""
  <2> HIDE DEF picked
  <2> DEFINE as == <<picked>>
             fs == <<[which |-> "data", value |-> WireReply(k.conn, c.method, c.req, picked)]>>
  <2>1. d = [c EXCEPT !.stage = "replied", !.answers = as, !.frames = fs]
    BY Zenon, <1>3, <1>7 DEF DataFrame, picked
  <2>2. ReplyOK(k.conn, c.method, c.req, "replied", as, c.raised, fs, c.got, c.error)
    BY Zenon, <1>1, <1>2, <1>5, <1>7, OKReturned DEF Carrying
  <2>3. IsCall(c) /\ ErrorOK(k.conn, c.stage, c.raised, c.error)
    BY Zenon, <1>2 DEF Carrying
  <2>a. c.got = <<>>
    BY Zenon, <1>1, <1>2 DEF Carrying, ReplyOK, Reply
  <2> HIDE DEF as, fs, c, d, k
  <2>4. /\ IsCall(d) /\ d.stage = "replied" /\ d.method = c.method /\ d.req = c.req
        /\ d.tenant = c.tenant /\ d.header = c.header /\ d.verb = c.verb /\ d.wire = c.wire
        /\ d.served = c.served /\ d.seen = c.seen /\ d.answers = as
        /\ d.raised = c.raised /\ d.frames = fs /\ d.got = c.got /\ d.error = c.error
    BY ONLY <2>1, <2>3 DEF IsCall, CallFields
  <2>5. ReplyOK(k.conn, d.method, d.req, d.stage, d.answers, d.raised, d.frames, d.got, d.error)
    BY Zenon, <2>2, <2>4
  <2>6. d.stage # "sent" /\ c.stage # "sent" /\ d.stage # "handling"
        /\ d.stage \in {"sent", "handling", "replied", "done"}
    BY <1>1, <2>4
  <2>7. RequestOK(k.conn, d.method, d.req, d.wire)
        /\ VerbOK(k.allows, k.override, d.stage, d.verb, d.raised)
        /\ SeenOK(k.conn, d.stage, d.method, d.wire, d.header, d.served, d.seen)
    BY <1>2, <2>4, <2>6, KeptParts
  <2>8. ErrorOK(k.conn, d.stage, d.raised, d.error)
    BY <1>1, <2>3, <2>4 DEF ErrorOK
  <2>b. ReadOK(k.conn, d.method, d.req, d.answers, d.raised, d.got, d.error)
    <3>1. d.got = <<>> /\ d.error = ""
      BY <1>1, <2>a, <2>3, <2>4 DEF ErrorOK
    <3>2. DOMAIN d.got = {}
      BY Zenon, <3>1, NoIndex
    <3> QED BY Zenon, <3>1, <3>2 DEF ReadOK
  <2>9. Carrying(k, d)
    BY Zenon, <2>4, <2>5, <2>6, <2>7, <2>8, <2>b DEF Carrying
  <2> QED BY Zenon, <1>1, <1>2, <2>9, StillCarrying DEF c, d, k
<1> QED BY Zenon, <1>6, <1>7

LEMMA HandlerYieldsInv ==
    ASSUME CallInv, HandlerYields
    PROVE  CallInv'
<1> DEFINE c == wireCall
           d == wireCall'
           k == wireClient
<1>1. c.stage = "handling" /\ c.method \in Streaming /\ UNCHANGED wireClient
  BY DEF HandlerYields
<1>2. Carrying(k, c) /\ ClientOK(k)
  BY <1>1, UnderWay
<1>3. PICK a \in WireAnswers(c.served) :
        d = [c EXCEPT !.answers = Append(c.answers, a), !.frames = Append(c.frames, DataFrame(a))]
  BY Zenon DEF HandlerYields
<1>4. /\ c.method \in WireMethods
      /\ c.served = c.method \/ (c.method = "get_push" /\ c.served = "list_push")
  BY Zenon, <1>1, <1>2 DEF Carrying, RequestOK, SeenOK, Seen
<1>5. c.served = c.method /\ c.method \notin {"get_task", "cancel_task", "extended_card"}
  BY <1>1, <1>4 DEF Streaming
<1>6. a \in Answerable(k.conn, c.method)
  <2>1. a \in AnswersOf(c.method)
    BY Zenon, <1>4, <1>5, WireConstants
  <2>2. c.method \notin {"get_task", "cancel_task"} /\ c.method # "extended_card"
    BY <1>5
  <2> QED BY Zenon, <2>1, <2>2 DEF Answerable
<1> DEFINE as == Append(c.answers, a)
           fs == Append(c.frames, [which |-> "data", value |-> WireReply(k.conn, c.method, c.req, a)])
<1>7. d = [c EXCEPT !.answers = as, !.frames = fs]
  BY Zenon, <1>3 DEF DataFrame
<1>8. ReplyOK(k.conn, c.method, c.req, "handling", as, c.raised, fs, c.got, c.error)
  BY Zenon, <1>1, <1>2, <1>6, OKYielded DEF Carrying
<1>9. IsCall(c) /\ ErrorOK(k.conn, c.stage, c.raised, c.error)
  BY Zenon, <1>2 DEF Carrying
<1> HIDE DEF as, fs, c, d, k
<1>10. /\ IsCall(d) /\ d.stage = c.stage /\ d.method = c.method /\ d.req = c.req
       /\ d.tenant = c.tenant /\ d.header = c.header /\ d.verb = c.verb /\ d.wire = c.wire
       /\ d.served = c.served /\ d.seen = c.seen /\ d.answers = as
       /\ d.raised = c.raised /\ d.frames = fs /\ d.got = c.got /\ d.error = c.error
  BY ONLY <1>7, <1>9 DEF IsCall, CallFields
<1>11. ReplyOK(k.conn, d.method, d.req, d.stage, d.answers, d.raised, d.frames, d.got, d.error)
  BY Zenon, <1>1, <1>8, <1>10
<1>12. d.stage # "sent" /\ c.stage # "sent" /\ d.stage \in {"sent", "handling", "replied", "done"}
       /\ (d.stage = "handling" => c.stage = "handling")
  BY <1>1, <1>10
<1>13. RequestOK(k.conn, d.method, d.req, d.wire)
       /\ VerbOK(k.allows, k.override, d.stage, d.verb, d.raised)
       /\ SeenOK(k.conn, d.stage, d.method, d.wire, d.header, d.served, d.seen)
  BY <1>2, <1>10, <1>12, KeptParts
<1>14. ErrorOK(k.conn, d.stage, d.raised, d.error)
  BY Zenon, <1>9, <1>10
<1>15. ReadOK(k.conn, d.method, d.req, d.answers, d.raised, d.got, d.error)
  <2>1. d.error = "" /\ d.method \in Streaming
    BY <1>1, <1>9, <1>10 DEF ErrorOK
  <2> QED BY Zenon, <2>1 DEF ReadOK
<1>16. Carrying(k, d)
  BY Zenon, <1>10, <1>11, <1>12, <1>13, <1>14, <1>15 DEF Carrying
<1> QED BY Zenon, <1>1, <1>2, <1>16, StillCarrying DEF c, d, k

\* a client that only learns another card
LEMMA OtherCard ==
    ASSUME NEW k, ClientOK(k), NEW card, NEW held, NEW l,
           \/ l = k \/ l = [k EXCEPT !.card = card]
           \/ l = [k EXCEPT !.card = card, !.held = held]
    PROVE  /\ ClientOK(l) /\ \A d : Carrying(k, d) => Carrying(l, d)
<1>1. DOMAIN l = DOMAIN k /\ l.conn = k.conn /\ l.config = k.config /\ l.allows = k.allows
      /\ l.override = k.override
  BY DEF ClientOK, ClientFields
<1>2. ClientOK(l)
  BY Zenon, <1>1 DEF ClientOK
<1> QED BY Zenon, <1>1, <1>2 DEF Carrying

\* every event of a stream can be read
LEMMA StreamReadable ==
    ASSUME NEW conn \in WireConn, NEW m \in Streaming
    PROVE  /\ \A w : ReplyReadable(conn, m, w)
           /\ \A r, a : Readable(conn, m, r, a)
<1>1. \A w : ProtoNamed(m, w)
  BY DEF ProtoNamed, Streaming
<1>2. \A w : ReplyReadable(conn, m, w)
  BY <1>1 DEF ReplyReadable, WireConn, Legacy
<1> QED BY Zenon, <1>2 DEF Readable

\* the client reads a frame, or fails at it
LEMMA ReadFrame ==
    ASSUME NEW k, NEW c, ClientOK(k), Carrying(k, c), c.stage \in {"handling", "replied"},
           c.frames # <<>>, NEW frame, frame = Head(c.frames), NEW read, NEW last, NEW error, NEW d,
           NEW readable,
           read = ReadReply(k.conn, c.method, frame.value),
           last <=> (c.method \notin Streaming \/ (frame.which = "data" /\ read.which = "message")),
           readable <=> (frame.which = "data" /\ ReplyReadable(k.conn, c.method, frame.value)),
           error = IF frame.which = "data" THEN "InvalidParamsError"
                   ELSE RaisedAtClient(k.conn, frame.value, c.got # <<>>),
           d = IF ~readable
               THEN [c EXCEPT !.stage = "done", !.frames = <<>>, !.error = error]
               ELSE [c EXCEPT !.stage = IF last THEN "done" ELSE @,
                              !.frames = IF last THEN <<>> ELSE Tail(@), !.got = Append(@, read)]
    PROVE  Carrying(k, d)
<1>0. Carrying(k, c)
  OBVIOUS
<1>1. /\ IsCall(c) /\ ErrorOK(k.conn, c.stage, c.raised, c.error)
      /\ ReplyOK(k.conn, c.method, c.req, c.stage, c.answers, c.raised, c.frames, c.got, c.error)
      /\ ReadOK(k.conn, c.method, c.req, c.answers, c.raised, c.got, c.error)
  BY Zenon DEF Carrying
<1>2. c.raised \in RaisedErrors \cup {""} /\ c.error = "" /\ k.conn \in WireConn
  BY <1>1 DEF ErrorOK, ClientOK
<1>a. FrameRead(k.conn, c.method, c.req, c.stage, c.answers, c.raised, c.frames, c.got, c.error,
                frame, read, last)
  <2>1. /\ c.stage \in {"handling", "replied"} /\ c.frames # <<>> /\ frame = Head(c.frames)
        /\ read = ReadReply(k.conn, c.method, frame.value)
        /\ (last <=> LastFrame(c.method, frame, read))
    BY DEF LastFrame
  <2>2. /\ c.raised \in RaisedErrors \cup {""}
        /\ ReplyOK(k.conn, c.method, c.req, c.stage, c.answers, c.raised, c.frames, c.got, c.error)
    BY Zenon, <1>1, <1>2
  <2> QED BY ONLY <2>1, <2>2, OKRead, Zenon
<1>3. /\ frame.which = "data" \/ frame.which = "error"
      /\ frame.which = "error" => c.raised # "" /\ frame.value = WireError(k.conn, c.raised)
      /\ frame.which # "error" =>
           ReplyOK(k.conn, c.method, c.req, IF last THEN "done" ELSE c.stage, c.answers, c.raised,
                   IF last THEN <<>> ELSE Tail(c.frames), Append(c.got, read), c.error)
      /\ frame.which # "error" /\ c.method \notin Streaming =>
           /\ c.raised = "" /\ c.got = <<>> /\ c.answers[1] \in Answerable(k.conn, c.method)
           /\ frame.value = WireReply(k.conn, c.method, c.req, c.answers[1])
  <2>1. frame.which \in {"data", "error"}
    BY Zenon, <1>a DEF FrameRead
  <2>2. frame.which = "data" \/ frame.which = "error"
    BY <2>1
  <2> QED BY Zenon, <1>a, <2>2 DEF FrameRead
<1>4. CASE ~readable
  <2>1. d = [c EXCEPT !.stage = "done", !.frames = <<>>, !.error = error]
    BY Zenon, <1>4
  <2>2. /\ IsCall(d) /\ d.stage = "done" /\ d.method = c.method /\ d.req = c.req
        /\ d.tenant = c.tenant /\ d.header = c.header /\ d.verb = c.verb /\ d.wire = c.wire
        /\ d.served = c.served /\ d.seen = c.seen
        /\ d.answers = c.answers /\ d.raised = c.raised /\ d.frames = <<>> /\ d.got = c.got
        /\ d.error = error
    BY ONLY <1>1, <2>1 DEF IsCall, CallFields
  <2>3. frame.which = "error" => error # "" /\ c.raised # "" /\ Named(k.conn, c.raised, error)
    <3> SUFFICES ASSUME frame.which = "error"
                 PROVE  error # "" /\ c.raised # "" /\ Named(k.conn, c.raised, error)
      BY Zenon
    <3> DEFINE mid == c.got # <<>>
               e == c.raised
    <3>1. e # "" /\ frame.value = WireError(k.conn, e)
      BY Zenon, <1>3
    <3>2. e \in RaisedErrors
      BY <1>2, <3>1
    <3>3. frame.which # "data"
      OBVIOUS
    <3>4. error = RaisedAtClient(k.conn, WireError(k.conn, e), mid)
      BY Zenon, <3>1, <3>3
    <3> HIDE DEF mid, e
    <3>5. error # "" /\ Named(k.conn, e, error)
      BY Zenon, <1>2, <3>2, <3>4, ErrorCrosses
    <3> QED BY Zenon, <3>1, <3>5 DEF e
  <2>4. frame.which = "data" => /\ error = "InvalidParamsError" /\ c.method \notin Streaming
                                /\ c.raised = "" /\ c.answers[1] \in Answerable(k.conn, c.method)
                                /\ ~Readable(k.conn, c.method, c.req, c.answers[1])
    <3> SUFFICES ASSUME frame.which = "data"
                 PROVE  /\ error = "InvalidParamsError" /\ c.method \notin Streaming
                        /\ c.raised = "" /\ c.answers[1] \in Answerable(k.conn, c.method)
                        /\ ~Readable(k.conn, c.method, c.req, c.answers[1])
      BY Zenon
    <3>1. ~ReplyReadable(k.conn, c.method, frame.value)
      BY Zenon, <1>4
    <3>2. c.method \notin Streaming
      BY Zenon, <1>2, <3>1, StreamReadable
    <3>3. frame.which # "error"
      OBVIOUS
    <3> QED BY Zenon, <1>3, <3>1, <3>2, <3>3 DEF Readable
  <2>5. error # ""
    <3>1. frame.which = "data" => error # ""
      BY <2>4
    <3> QED BY Zenon, <1>3, <2>3, <3>1
  <2>6. ReplyOK(k.conn, d.method, d.req, d.stage, d.answers, d.raised, d.frames, d.got, d.error)
    <3>1. ReplyOK(k.conn, c.method, c.req, "done", c.answers, c.raised, <<>>, c.got, error)
      BY ONLY <1>1, <2>5, OKFailed, Zenon
    <3> QED BY Zenon, <2>2, <3>1
  <2>7. ErrorOK(k.conn, d.stage, d.raised, d.error)
    BY Zenon, <1>3, <2>2, <2>3, <2>4 DEF ErrorOK
  <2>8. ReadOK(k.conn, d.method, d.req, d.answers, d.raised, d.got, d.error)
    BY Zenon, <1>1, <1>3, <2>2, <2>3, <2>4 DEF ReadOK
  <2>9. d.stage # "sent" /\ c.stage # "sent" /\ d.stage # "handling"
        /\ d.stage \in {"sent", "handling", "replied", "done"}
    BY <2>2
  <2>10. RequestOK(k.conn, d.method, d.req, d.wire)
        /\ VerbOK(k.allows, k.override, d.stage, d.verb, d.raised)
        /\ SeenOK(k.conn, d.stage, d.method, d.wire, d.header, d.served, d.seen)
    BY ONLY <1>0, <2>2, <2>9, KeptParts
  <2> QED BY Zenon, <2>2, <2>6, <2>7, <2>8, <2>9, <2>10 DEF Carrying
<1>5. CASE readable
  <2> DEFINE st == IF last THEN "done" ELSE c.stage
             fs == IF last THEN <<>> ELSE Tail(c.frames)
             gs == Append(c.got, read)
  <2>1. d = [c EXCEPT !.stage = st, !.frames = fs, !.got = gs]
    BY Zenon, <1>5
  <2>a. frame.which # "error" /\ ReplyReadable(k.conn, c.method, frame.value)
    BY <1>5
  <2>2. st \in {c.stage, "done"} /\ ReplyOK(k.conn, c.method, c.req, st, c.answers, c.raised, fs, gs, c.error)
    BY Zenon, <1>3, <2>a
  <2>b. c.method \notin Streaming => \A i \in DOMAIN gs : Readable(k.conn, c.method, c.req, c.answers[i])
    <3> SUFFICES ASSUME c.method \notin Streaming
                 PROVE  \A i \in DOMAIN gs : Readable(k.conn, c.method, c.req, c.answers[i])
      BY Zenon
    <3>1. c.got = <<>> /\ Readable(k.conn, c.method, c.req, c.answers[1])
      BY Zenon, <1>3, <2>a DEF Readable
    <3>2. gs = <<read>>
      BY Zenon, <3>1, OneElement
    <3> HIDE DEF gs
    <3>3. DOMAIN gs = {1}
      BY ONLY <3>2
    <3> QED BY <3>1, <3>3
  <2> HIDE DEF st, fs, gs
  <2>3. /\ IsCall(d) /\ d.stage = st /\ d.method = c.method /\ d.req = c.req /\ d.tenant = c.tenant
        /\ d.header = c.header /\ d.verb = c.verb /\ d.wire = c.wire /\ d.served = c.served
        /\ d.seen = c.seen /\ d.answers = c.answers
        /\ d.raised = c.raised /\ d.frames = fs /\ d.got = gs /\ d.error = c.error
    BY ONLY <1>1, <2>1 DEF IsCall, CallFields
  <2>4. ReplyOK(k.conn, d.method, d.req, d.stage, d.answers, d.raised, d.frames, d.got, d.error)
    BY Zenon, <2>2, <2>3
  <2>5. d.stage # "sent" /\ c.stage # "sent" /\ (d.stage = "handling" => c.stage = "handling")
        /\ d.stage \in {"sent", "handling", "replied", "done"}
    BY <2>2, <2>3
  <2>6. RequestOK(k.conn, d.method, d.req, d.wire)
        /\ VerbOK(k.allows, k.override, d.stage, d.verb, d.raised)
        /\ SeenOK(k.conn, d.stage, d.method, d.wire, d.header, d.served, d.seen)
    BY ONLY <1>0, <2>3, <2>5, KeptParts
  <2>7. ErrorOK(k.conn, d.stage, d.raised, d.error)
    BY <1>2, <2>3 DEF ErrorOK
  <2>8. ReadOK(k.conn, d.method, d.req, d.answers, d.raised, d.got, d.error)
    BY Zenon, <1>2, <2>b, <2>3 DEF ReadOK
  <2> QED BY Zenon, <2>3, <2>4, <2>5, <2>6, <2>7, <2>8 DEF Carrying
<1> QED BY Zenon, <1>4, <1>5

LEMMA ClientReadsInv ==
    ASSUME CallInv, ClientReads
    PROVE  CallInv'
<1> DEFINE c == wireCall
           k == wireClient
           frame == Head(c.frames)
           read == ReadReply(k.conn, c.method, frame.value)
           last == c.method \notin Streaming \/ (frame.which = "data" /\ read.which = "message")
           readable == frame.which = "data" /\ ReplyReadable(k.conn, c.method, frame.value)
           error == IF frame.which = "data" THEN "InvalidParamsError"
                    ELSE RaisedAtClient(k.conn, frame.value, c.got # <<>>)
           held == IF Legacy(k.conn) /\ Http(k.conn) THEN read ELSE k.held
<1>1. /\ c.stage \in {"handling", "replied"} /\ c.frames # <<>>
      /\ wireCall' = IF ~readable
                     THEN [c EXCEPT !.stage = "done", !.frames = <<>>, !.error = error]
                     ELSE [c EXCEPT !.stage = IF last THEN "done" ELSE @,
                                    !.frames = IF last THEN <<>> ELSE Tail(@), !.got = Append(@, read)]
      /\ wireClient' = IF frame.which = "data" /\ c.method = "extended_card"
                       THEN [k EXCEPT !.card = read, !.held = held] ELSE k
  BY Zenon DEF ClientReads
<1>2. Carrying(k, c) /\ ClientOK(k)
  BY <1>1, UnderWay
<1>3. Carrying(k, wireCall')
  <2>1. frame = Head(c.frames) /\ read = ReadReply(k.conn, c.method, frame.value)
        /\ (last <=> (c.method \notin Streaming \/ (frame.which = "data" /\ read.which = "message")))
        /\ (readable <=> (frame.which = "data" /\ ReplyReadable(k.conn, c.method, frame.value)))
        /\ error = IF frame.which = "data" THEN "InvalidParamsError"
                   ELSE RaisedAtClient(k.conn, frame.value, c.got # <<>>)
    BY Zenon
  <2> HIDE DEF frame, read, last, readable, error, held, c, k
  <2> QED BY Zenon, <1>1, <1>2, <2>1, ReadFrame
<1>4. wireClient' = k \/ wireClient' = [k EXCEPT !.card = read, !.held = held]
  BY Zenon, <1>1
<1> HIDE DEF read, held
<1>5. ClientOK(wireClient') /\ Carrying(wireClient', wireCall')
  BY Zenon, <1>2, <1>3, <1>4, OtherCard
<1> QED BY Zenon, <1>5 DEF CallInv, ClientOK, Carrying

LEMMA ServerRefusesVerbInv ==
    ASSUME CallInv, ServerRefusesVerb
    PROVE  CallInv'
<1> DEFINE c == wireCall
           k == wireClient
           d == wireCall'
           l == wireClient'
<1>1. /\ c.stage = "sent" /\ c.verb \notin k.allows
      /\ IF k.override = ""
         THEN l = [k EXCEPT !.override = "GET"] /\ d = [c EXCEPT !.verb = "GET"]
         ELSE /\ l = IF k.auto THEN [k EXCEPT !.auto = FALSE, !.override = "POST"] ELSE k
              /\ d = [c EXCEPT !.stage = "done", !.raised = "MethodNotAllowed",
                               !.error = "A2AClientError"]
  BY Zenon DEF ServerRefusesVerb, NotAllowed
<1>2. Carrying(k, c) /\ ClientOK(k)
  BY <1>1, UnderWay
<1>3. /\ IsCall(c) /\ ErrorOK(k.conn, c.stage, c.raised, c.error)
      /\ VerbOK(k.allows, k.override, c.stage, c.verb, c.raised)
      /\ RequestOK(k.conn, c.method, c.req, c.wire)
      /\ SeenOK(k.conn, c.stage, c.method, c.wire, c.header, c.served, c.seen)
      /\ ReplyOK(k.conn, c.method, c.req, c.stage, c.answers, c.raised, c.frames, c.got, c.error)
      /\ ReadOK(k.conn, c.method, c.req, c.answers, c.raised, c.got, c.error)
  BY Zenon, <1>2 DEF Carrying
<1>4. c.verb = IF k.override = "" THEN "POST" ELSE k.override
  BY Zenon, <1>1, <1>3 DEF VerbOK
<1> HIDE DEF c, d, k, l
<1>5. CASE k.override = ""
  <2>1. l = [k EXCEPT !.override = "GET"] /\ d = [c EXCEPT !.verb = "GET"]
    BY Zenon, <1>1, <1>5
  <2>2. "POST" \notin k.allows
    BY Zenon, <1>1, <1>4, <1>5
  <2>3. DOMAIN l = DOMAIN k /\ l.conn = k.conn /\ l.config = k.config /\ l.allows = k.allows
        /\ l.override = "GET"
    BY <1>2, <2>1 DEF ClientOK, ClientFields
  <2>4. ClientOK(l)
    BY <1>2, <2>2, <2>3 DEF ClientOK
  <2>5. /\ IsCall(d) /\ d.stage = c.stage /\ d.method = c.method /\ d.req = c.req
        /\ d.tenant = c.tenant /\ d.header = c.header /\ d.verb = "GET" /\ d.wire = c.wire
        /\ d.served = c.served /\ d.seen = c.seen
        /\ d.answers = c.answers /\ d.raised = c.raised /\ d.frames = c.frames /\ d.got = c.got
        /\ d.error = c.error
    BY ONLY <1>3, <2>1 DEF IsCall, CallFields
  <2>6. VerbOK(l.allows, l.override, d.stage, d.verb, d.raised)
    BY <1>3, <2>3, <2>5 DEF VerbOK
  <2>7. Carrying(l, d)
    <3>1. d.stage \in {"sent", "handling", "replied", "done"}
      BY <1>1, <2>5
    <3> QED BY Zenon, <1>3, <2>3, <2>5, <2>6, <3>1 DEF Carrying
  <2> QED BY Zenon, <2>4, <2>7 DEF CallInv, Carrying, ClientOK, d, l
<1>6. CASE k.override # ""
  <2>1. /\ l = IF k.auto THEN [k EXCEPT !.auto = FALSE, !.override = "POST"] ELSE k
        /\ d = [c EXCEPT !.stage = "done", !.raised = "MethodNotAllowed", !.error = "A2AClientError"]
    BY Zenon, <1>1, <1>6
  <2>2. k.allows = {}
    <3>1. k.override \notin k.allows /\ "POST" \notin k.allows
      BY Zenon, <1>1, <1>2, <1>4, <1>6 DEF ClientOK
    <3>2. k.allows \in SUBSET {"GET", "POST"} /\ k.override \in {"", "GET", "POST"}
          /\ (k.override = "POST" => k.allows = {})
      BY Zenon, <1>2 DEF ClientOK
    <3> QED BY <1>6, <3>1, <3>2
  <2>3. DOMAIN l = DOMAIN k /\ l.conn = k.conn /\ l.config = k.config /\ l.allows = k.allows
        /\ l.override \in {"POST", k.override}
    <3>1. CASE k.auto
      <4>1. l = [k EXCEPT !.auto = FALSE, !.override = "POST"]
        BY Zenon, <2>1, <3>1
      <4> QED BY <1>2, <4>1 DEF ClientOK, ClientFields
    <3>2. CASE ~k.auto
      <4>1. l = k
        BY Zenon, <2>1, <3>2
      <4> QED BY Zenon, <4>1
    <3> QED BY Zenon, <3>1, <3>2
  <2>4. ClientOK(l)
    BY <1>2, <2>2, <2>3 DEF ClientOK
  <2>5. /\ IsCall(d) /\ d.stage = "done" /\ d.method = c.method /\ d.req = c.req
        /\ d.tenant = c.tenant /\ d.header = c.header /\ d.verb = c.verb /\ d.wire = c.wire
        /\ d.served = c.served /\ d.seen = c.seen
        /\ d.answers = c.answers /\ d.raised = "MethodNotAllowed" /\ d.frames = c.frames
        /\ d.got = c.got /\ d.error = "A2AClientError"
    BY ONLY <1>3, <2>1 DEF IsCall, CallFields
  <2>6. ReplyOK(k.conn, d.method, d.req, d.stage, d.answers, d.raised, d.frames, d.got, d.error)
    <3>1. "A2AClientError" # ""
      OBVIOUS
    <3>2. ReplyOK(k.conn, c.method, c.req, "done", c.answers, "MethodNotAllowed", c.frames, c.got, "A2AClientError")
      BY Zenon, <1>3, <3>1, OKFailed
    <3> QED BY Zenon, <2>5, <3>2
  <2>7. VerbOK(l.allows, l.override, d.stage, d.verb, d.raised)
        /\ ErrorOK(k.conn, d.stage, d.raised, d.error)
        /\ d.stage \in {"sent", "handling", "replied", "done"}
        /\ ReadOK(k.conn, d.method, d.req, d.answers, d.raised, d.got, d.error)
    BY <1>3, <2>2, <2>3, <2>5 DEF VerbOK, ErrorOK, Named, Vague, ReadOK
  <2>8. SeenOK(k.conn, d.stage, d.method, d.wire, d.header, d.served, d.seen)
    BY <1>1, <1>3, <2>5 DEF SeenOK
  <2>9. Carrying(l, d)
    BY Zenon, <1>3, <2>3, <2>5, <2>6, <2>7, <2>8 DEF Carrying
  <2> QED BY Zenon, <2>4, <2>9 DEF CallInv, Carrying, ClientOK, d, l
<1> QED BY Zenon, <1>5, <1>6

LEMMA CallerReturnsInv ==
    ASSUME CallInv, CallerReturns
    PROVE  CallInv'
BY Zenon DEF CallInv, CallerReturns, NoCall

\* a configuration is applied to every message that is sent
LEMMA AppliedTyped ==
    ASSUME NEW r \in CoreSendRequest, NEW config \in WireConfigs
    PROVE  Applied(r, config) \in
             [message : CoreMessage, configuration : CoreSendConfiguration, metadata : CoreDict]
<1> DEFINE none == [accepted_output_modes |-> <<>>, task_push_notification_config |-> Absent,
                    history_length |-> Absent, return_immediately |-> FALSE]
           given == IF r.configuration = Absent THEN none ELSE r.configuration
           ri == given.return_immediately \/ config.polling
           pc == IF given.task_push_notification_config = Absent
                 THEN config.push_notification_config ELSE given.task_push_notification_config
           am == IF given.accepted_output_modes = <<>>
                 THEN config.accepted_output_modes ELSE given.accepted_output_modes
           f == [given EXCEPT !.return_immediately = ri, !.task_push_notification_config = pc,
                              !.accepted_output_modes = am]
<1>1. config.polling \in BOOLEAN /\ config.accepted_output_modes \in Seq(CompatStr)
      /\ config.push_notification_config \in CompatOpt(CorePushConfig)
  BY Zenon, WireConstants
<1>2. none \in CoreSendConfiguration
  BY DEF CoreSendConfiguration, CompatOpt
<1>3. r.configuration = Absent \/ r.configuration \in CoreSendConfiguration
  BY DEF CoreSendRequest, CompatOpt
<1>4. given \in CoreSendConfiguration
  BY Zenon, <1>2, <1>3
<1>5. Applied(r, config) = [r EXCEPT !.configuration = f]
  BY Zenon DEF Applied
<1> HIDE DEF given
<1>6. given.return_immediately \in BOOLEAN /\ given.accepted_output_modes \in Seq(CompatStr)
      /\ given.task_push_notification_config \in CompatOpt(CorePushConfig)
  BY <1>4 DEF CoreSendConfiguration
<1>7. ri \in BOOLEAN /\ pc \in CompatOpt(CorePushConfig) /\ am \in Seq(CompatStr)
  BY Zenon, <1>1, <1>6
<1> HIDE DEF ri, pc, am
<1>8. f \in CoreSendConfiguration
  BY <1>4, <1>7 DEF CoreSendConfiguration
<1> HIDE DEF f
<1> QED BY <1>5, <1>8 DEF CoreSendRequest

LEMMA SentInv ==
    ASSUME ClientOK(wireClient), NEW m \in WireMethods, NEW r \in Asked(m), NEW tenant, NEW header,
           ClientSupports(wireClient.conn, m)
    PROVE  Carrying(wireClient, Sent(NewCall(m, r, tenant, header)))
<1> DEFINE k == wireClient
           t == ResolveTenant(tenant)
           v == IF k.override = "" THEN "POST" ELSE k.override
           c == [stage |-> "new", method |-> m, req |-> r, tenant |-> t, header |-> header, verb |-> v,
                 wire |-> Absent, served |-> m, seen |-> Absent,
                 answers |-> <<>>, raised |-> "", frames |-> <<>>, got |-> <<>>, error |-> ""]
           w == WireRequest(k.conn, c.method, c.req)
           d == Sent(NewCall(m, r, tenant, header))
<1>1. NewCall(m, r, tenant, header) = c
  BY Zenon DEF NewCall
<1>2. d = [c EXCEPT !.stage = "sent", !.wire = w]
  BY Zenon, <1>1 DEF Sent
<1>3. w = WireRequest(k.conn, m, r)
  OBVIOUS
<1>4. v = IF k.override = "" THEN "POST" ELSE k.override
  OBVIOUS
<1> HIDE DEF d, w, v, t
<1>5. /\ IsCall(d) /\ d.stage = "sent" /\ d.method = m /\ d.req = r /\ d.tenant = t
      /\ d.header = header /\ d.verb = v /\ d.wire = w /\ d.served = m /\ d.seen = Absent
      /\ d.answers = <<>> /\ d.raised = "" /\ d.frames = <<>> /\ d.got = <<>> /\ d.error = ""
  BY ONLY <1>2 DEF IsCall, CallFields
<1>6. ReplyOK(k.conn, d.method, d.req, d.stage, d.answers, d.raised, d.frames, d.got, d.error)
  BY Zenon, <1>5, OKSent
<1>7. RequestOK(k.conn, d.method, d.req, d.wire)
  BY Zenon, <1>3, <1>5 DEF RequestOK
<1>8. VerbOK(k.allows, k.override, d.stage, d.verb, d.raised)
      /\ SeenOK(k.conn, d.stage, d.method, d.wire, d.header, d.served, d.seen)
      /\ ErrorOK(k.conn, d.stage, d.raised, d.error)
      /\ d.stage \in {"sent", "handling", "replied", "done"}
  BY <1>4, <1>5 DEF VerbOK, SeenOK, ErrorOK
<1>9. ReadOK(k.conn, d.method, d.req, d.answers, d.raised, d.got, d.error)
  <2>1. DOMAIN d.got = {}
    BY Zenon, <1>5, NoIndex
  <2> QED BY Zenon, <1>5, <2>1 DEF ReadOK
<1> QED BY Zenon, <1>5, <1>6, <1>7, <1>8, <1>9 DEF Carrying, d

LEMMA FetchCardInv ==
    ASSUME CallInv, FetchCard
    PROVE  CallInv'
<1> DEFINE k == wireClient
           asks == \/ k.conn = [version |-> "0.3", binding |-> "GRPC"]
                   \/ k.held.capabilities.extended_agent_card = TRUE
<1>1. IF asks
      THEN /\ wireCall' = Sent(NewCall("extended_card", <<>>, "", k.conn.version))
           /\ UNCHANGED wireClient
      ELSE /\ wireCall' = [NewCall("extended_card", <<>>, "", "") EXCEPT !.stage = "done",
                             !.got = <<k.held>>]
           /\ wireClient' = [k EXCEPT !.card = k.held]
  BY Zenon DEF FetchCard
<1>2. ClientOK(k)
  BY Zenon DEF CallInv
<1>3. CASE asks
  <2>1. "extended_card" \in WireMethods /\ <<>> \in Asked("extended_card")
        /\ ClientSupports(k.conn, "extended_card")
    BY DEF WireMethods, Asked, RequestsOf, Messages, ClientSupports
  <2>2. Carrying(k, wireCall')
    BY Zenon, <1>1, <1>2, <1>3, <2>1, SentInv
  <2> QED BY Zenon, <1>1, <1>2, <1>3, <2>2, StillCarrying
<1>4. CASE ~asks
  <2> DEFINE t == ResolveTenant("")
             v == IF k.override = "" THEN "POST" ELSE k.override
             g == <<k.held>>
  <2>1. wireCall' = [[stage |-> "new", method |-> "extended_card", req |-> <<>>, tenant |-> t,
                      header |-> "", verb |-> v, wire |-> Absent, served |-> "extended_card",
                      seen |-> Absent, answers |-> <<>>, raised |-> "",
                      frames |-> <<>>, got |-> <<>>, error |-> ""]
                       EXCEPT !.stage = "done", !.got = g]
    BY Zenon, <1>1, <1>4 DEF NewCall
  <2> HIDE DEF t, v, g
  <2>2. wireCall'.stage = "done" /\ wireCall'.wire = Absent
    BY ONLY <2>1
  <2>3. wireClient' = [k EXCEPT !.card = k.held]
    BY Zenon, <1>1, <1>4
  <2>4. ClientOK(wireClient')
    <3> DEFINE h == k.held
    <3>1. wireClient' = [k EXCEPT !.card = h]
      BY <2>3
    <3> HIDE DEF h
    <3> QED BY Zenon, <1>2, <3>1, OtherCard
  <2> QED BY Zenon, <2>2, <2>4 DEF CallInv, ClientOK
<1> QED BY Zenon, <1>3, <1>4

LEMMA ClientCallsInv ==
    ASSUME CallInv, ClientCalls
    PROVE  CallInv'
<1> DEFINE k == wireClient
<1>1. PICK m \in WireMethods \ {"send_message_streaming", "extended_card"}, tenant \in WireTenants,
           header \in HeaderChoices(k.conn) :
        \E r \in WireRequests(m) :
          LET applied == IF m = "send_message" THEN Applied(r, k.config) ELSE r
              new == NewCall(Dispatched(m), applied, tenant, header)
              refused == \/ m = "subscribe" /\ ~ClientStreams
                         \/ ~ClientSupports(k.conn, m)
          IN wireCall' = IF refused THEN NotImplemented(new) ELSE Sent(new)
  BY Zenon DEF ClientCalls
<1>2. PICK r \in WireRequests(m) :
        LET applied == IF m = "send_message" THEN Applied(r, k.config) ELSE r
            new == NewCall(Dispatched(m), applied, tenant, header)
            refused == \/ m = "subscribe" /\ ~ClientStreams
                       \/ ~ClientSupports(k.conn, m)
        IN wireCall' = IF refused THEN NotImplemented(new) ELSE Sent(new)
  BY Zenon, <1>1
<1> DEFINE applied == IF m = "send_message" THEN Applied(r, k.config) ELSE r
           n == Dispatched(m)
           new == NewCall(n, applied, tenant, header)
           refused == \/ m = "subscribe" /\ ~ClientStreams
                      \/ ~ClientSupports(k.conn, m)
<1>3. UNCHANGED wireClient /\ ClientOK(k)
  BY Zenon DEF ClientCalls, CallInv
<1>4. CASE refused
  <2>1. wireCall' = [new EXCEPT !.stage = "done", !.error = "NotImplementedError"]
    BY Zenon, <1>2, <1>4 DEF NotImplemented
  <2> DEFINE t == ResolveTenant(tenant)
             v == IF k.override = "" THEN "POST" ELSE k.override
  <2> HIDE DEF applied, n
  <2>2. new = [stage |-> "new", method |-> n, req |-> applied, tenant |-> t, header |-> header,
               verb |-> v, wire |-> Absent, served |-> n, seen |-> Absent,
               answers |-> <<>>, raised |-> "", frames |-> <<>>, got |-> <<>>, error |-> ""]
    BY Zenon DEF NewCall
  <2> HIDE DEF new, t, v
  <2>3. wireCall'.stage = "done" /\ wireCall'.wire = Absent
    BY ONLY <2>1, <2>2
  <2> QED BY Zenon, <1>3, <2>3 DEF CallInv, ClientOK
<1>5. CASE ~refused
  <2>1. r \in RequestsOf(m)
    BY Zenon, WireConstants
  <2>2. m \in WireMethods /\ m # "send_message_streaming" /\ ClientSupports(k.conn, m)
    BY <1>5
  <2>3. n \in WireMethods /\ (m = "send_message" => n \in Messages) /\ (m # "send_message" => n = m)
    BY <2>2 DEF Dispatched, WireMethods, Messages
  <2>4. applied \in Asked(n)
    <3>1. CASE m = "send_message"
      <4>1. r \in CoreSendRequest
        BY <2>1, <3>1 DEF RequestsOf, Messages
      <4>2. k.config \in WireConfigs
        BY Zenon, <1>3 DEF ClientOK
      <4>3. applied \in [message : CoreMessage, configuration : CoreSendConfiguration, metadata : CoreDict]
        BY Zenon, <3>1, <4>1, <4>2, AppliedTyped
      <4> QED BY Zenon, <2>3, <3>1, <4>3 DEF Asked
    <3>2. CASE m # "send_message"
      <4>1. m \notin Messages
        BY <2>2, <3>2 DEF Messages
      <4> QED BY Zenon, <2>1, <2>3, <3>2, <4>1 DEF Asked
    <3> QED BY Zenon, <3>1, <3>2
  <2>5. ClientSupports(k.conn, n)
    BY <2>2, <2>3 DEF ClientSupports, Messages
  <2>6. wireCall' = Sent(new)
    BY Zenon, <1>2, <1>5
  <2> HIDE DEF applied, n
  <2>7. Carrying(k, wireCall')
    BY Zenon, <1>3, <2>3, <2>4, <2>5, <2>6, SentInv
  <2> QED BY Zenon, <1>3, <2>7, StillCarrying
<1> QED BY Zenon, <1>4, <1>5

(* The client's verb, and what the call under way has carried so far, in     *)
(* every reachable state.                                                    *)
THEOREM CallsCarried == WireSpec => []CallInv
<1>1. WireInit => CallInv
  BY ClientCreated
<1>2. CallInv /\ [WireNext]_wireVars => CallInv'
  <2> SUFFICES ASSUME CallInv, [WireNext]_wireVars PROVE CallInv'
    OBVIOUS
  <2>1. CASE UNCHANGED wireVars
    BY Zenon, <2>1 DEF wireVars, CallInv, ClientOK, Carrying
  <2>2. CASE ClientCalls
    BY Zenon, <2>2, ClientCallsInv
  <2>3. CASE FetchCard
    BY Zenon, <2>3, FetchCardInv
  <2>4. CASE ServerReceives
    BY Zenon, <2>4, ServerReceivesInv
  <2>5. CASE ServerRefusesVerb
    BY Zenon, <2>5, ServerRefusesVerbInv
  <2>6. CASE HandlerReturns
    BY Zenon, <2>6, HandlerReturnsInv
  <2>7. CASE HandlerYields
    BY Zenon, <2>7, HandlerYieldsInv
  <2>8. CASE HandlerEnds
    BY Zenon, <2>8, HandlerEndsInv
  <2>9. CASE HandlerRaises
    BY Zenon, <2>9, HandlerRaisesInv
  <2>10. CASE ClientReads
    BY Zenon, <2>10, ClientReadsInv
  <2>11. CASE StreamEnds
    BY Zenon, <2>11, StreamEndsInv
  <2>12. CASE CallerReturns
    BY Zenon, <2>12, CallerReturnsInv
  <2>13. CASE RouteMissing
    BY Zenon, <2>13, RouteMissingInv
  <2> QED BY Zenon, <2>1, <2>2, <2>3, <2>4, <2>5, <2>6, <2>7, <2>8, <2>9, <2>10, <2>11, <2>12, <2>13
          DEF WireNext
<1> QED BY <1>1, <1>2, PTL DEF WireSpec

\* an answer that cannot be read is a push config, or a list with one, that is misnamed
LEMMA UnreadAnswer ==
    ASSUME NEW conn \in WireConn, NEW m \in WireMethods, NEW r, NEW a \in Answerable(conn, m),
           ~Readable(conn, m, r, a)
    PROVE  /\ Legacy(conn) /\ conn.binding # "JSONRPC"
           /\ \/ m \in {"create_push", "get_push"} /\ Misnamed(a)
              \/ m = "list_push" /\ \E i \in DOMAIN a : Misnamed(a[i])
<1> DEFINE p == LegacyResult(m, a)
           w == WireReply(conn, m, r, a)
<1>1. ~ReplyReadable(conn, m, w)
  BY DEF Readable
<1>2. Legacy(conn) /\ conn.binding \in {"GRPC", "HTTP+JSON"}
  <2> HIDE DEF w
  <2> QED BY <1>1 DEF ReplyReadable, WireConn
<1>3. ~ProtoNamed(m, GrpcResult(m, p)) \/ ~ProtoNamed(m, RestResult(m, p))
  <2> DEFINE g == GrpcResult(m, p)
             h == RestResult(m, p)
  <2>1. /\ conn.binding = "GRPC" => w = [response |-> g]
        /\ conn.binding = "HTTP+JSON" => w = [content |-> h]
    BY <1>2 DEF WireReply, GrpcReply
  <2> HIDE DEF w, g, h
  <2>2. CASE conn.binding = "GRPC"
    <3>1. ~ProtoNamed(m, ReadGrpc(w))
      BY <1>1, <1>2, <2>2 DEF ReplyReadable
    <3>2. ReadGrpc(w) = g
      BY <2>1, <2>2 DEF ReadGrpc
    <3> QED BY Zenon, <3>1, <3>2 DEF g
  <2>3. CASE conn.binding = "HTTP+JSON"
    <3>1. ~ProtoNamed(m, ReadRest(w))
      BY <1>1, <1>2, <2>3 DEF ReplyReadable
    <3>2. ReadRest(w) = h
      BY <2>1, <2>3 DEF ReadRest
    <3> QED BY Zenon, <3>1, <3>2 DEF h
  <2> QED BY <1>2, <2>2, <2>3
<1>4. m \in {"create_push", "get_push", "list_push"}
  <2> DEFINE g == GrpcResult(m, p)
             h == RestResult(m, p)
  <2>1. ~ProtoNamed(m, g) \/ ~ProtoNamed(m, h)
    BY <1>3
  <2> HIDE DEF g, h
  <2> QED BY <2>1 DEF ProtoNamed
<1>5. GrpcResult(m, p) = ProtoResult(m, p) /\ RestResult(m, p) = ProtoResult(m, p)
  <2> HIDE DEF p
  <2> QED BY <1>4 DEF GrpcResult, RestResult
<1>6. ~ProtoNamed(m, ProtoResult(m, p))
  BY Zenon, <1>3, <1>5
<1>7. CASE m \in {"create_push", "get_push"}
  <2>1. p = ToCompatTaskPushConfig(a) /\ ProtoResult(m, p) = PutTaskPushConfig(p)
    BY <1>7 DEF LegacyResult, ProtoResult, Messages
  <2>2. ~TASK_PUSH_CONFIG_NAME_MATCH(ProtoResult(m, p).name)
    <3> DEFINE g == ProtoResult(m, p)
    <3>1. ~ProtoNamed(m, g)
      BY <1>6
    <3> HIDE DEF g
    <3>2. ~TASK_PUSH_CONFIG_NAME_MATCH(g.name)
      BY Zenon, <1>7, <3>1 DEF ProtoNamed
    <3> QED BY Zenon, <3>2 DEF g
  <2> QED BY Zenon, <1>2, <1>7, <2>1, <2>2 DEF Misnamed
<1>8. CASE m = "list_push"
  <2>1. a \in Seq(CorePushConfig)
    BY <1>8 DEF Answerable, AnswersOf, Messages
  <2>2. p = Each(ToCompatTaskPushConfig, a) /\ ProtoResult(m, p) = Each(PutTaskPushConfig, p)
    BY <1>8 DEF LegacyResult, ProtoResult, Messages
  <2>3. PICK i \in DOMAIN ProtoResult(m, p) : ~TASK_PUSH_CONFIG_NAME_MATCH(ProtoResult(m, p)[i].name)
    <3> DEFINE g == ProtoResult(m, p)
    <3>1. ~ProtoNamed(m, g)
      BY <1>6
    <3> HIDE DEF g
    <3>2. m = "list_push" /\ m \notin {"create_push", "get_push"}
      BY <1>8
    <3>3. \E i \in DOMAIN g : ~TASK_PUSH_CONFIG_NAME_MATCH(g[i].name)
      BY Zenon, <3>1, <3>2 DEF ProtoNamed
    <3> QED BY Zenon, <3>3 DEF g
  <2>4. i \in DOMAIN a /\ ProtoResult(m, p)[i] = PutTaskPushConfig(ToCompatTaskPushConfig(a[i]))
    BY <2>2, <2>3 DEF Each
  <2>5. Misnamed(a[i])
    BY Zenon, <2>3, <2>4 DEF Misnamed
  <2>6. conn.binding # "JSONRPC"
    BY <1>2
  <2> QED BY Zenon, <1>2, <1>8, <2>4, <2>5, <2>6
<1> QED BY Zenon, <1>4, <1>7, <1>8

(* ErrorCarried for every card, configuration, request and answer: a call    *)
(* fails at the client exactly when it failed at the server, and with the    *)
(* class raised there or one that names no cause; a refused verb is final    *)
(* only where the server takes neither.  The client fails by itself only at  *)
(* a push config whose v0.3 name it cannot read.                             *)
THEOREM ErrorsCarried == WireSpec => []ErrorCarried
<1>1. ASSUME CallInv PROVE ErrorCarried
  <2> DEFINE c == wireCall
             k == wireClient
  <2>1. CASE ~ (c.stage = "done" /\ c.wire # Absent)
    BY Zenon, <2>1 DEF ErrorCarried
  <2>2. CASE c.stage = "done" /\ c.wire # Absent
    <3>1. Carrying(k, c) /\ ClientOK(k)
      BY <1>1, <2>2 DEF CallInv, NoCall
    <3>2. /\ ErrorOK(k.conn, c.stage, c.raised, c.error)
          /\ ReadOK(k.conn, c.method, c.req, c.answers, c.raised, c.got, c.error)
          /\ VerbOK(k.allows, k.override, c.stage, c.verb, c.raised)
          /\ ReplyOK(k.conn, c.method, c.req, c.stage, c.answers, c.raised, c.frames, c.got, c.error)
          /\ c.method \in WireMethods /\ k.conn \in WireConn
      BY Zenon, <3>1 DEF Carrying, RequestOK, ClientOK
    <3>3. c.raised # "" => \/ c.error \in {c.raised, ""} \cup Vague
                           \/ c.raised = "NotFound" /\ c.error = "MethodNotFoundError"
                           \/ k.conn = [version |-> "0.3", binding |-> "HTTP+JSON"]
      <4>1. c.raised # "" => c.error = "" \/ Named(k.conn, c.raised, c.error)
        BY Zenon, <3>2 DEF ErrorOK
      <4> HIDE DEF c, k
      <4> QED BY <4>1 DEF Named, LegacyRest
    <3>4. c.raised = "MethodNotAllowed" => k.allows = {}
      BY Zenon, <3>2 DEF VerbOK
    <3>5. c.raised # "" /\ c.error = "" => c.got # <<>> /\ c.got[Len(c.got)].which = "message"
      BY Zenon, <2>2, <3>2 DEF ReplyOK, Reply
    <3>6. c.error # "" /\ c.raised = "" =>
            /\ c.error = "InvalidParamsError" /\ Legacy(k.conn) /\ k.conn.binding # "JSONRPC"
            /\ \/ c.method \in {"create_push", "get_push"} /\ Misnamed(c.answers[1])
               \/ /\ c.method = "list_push"
                  /\ \E i \in DOMAIN c.answers[1] : Misnamed(c.answers[1][i])
      BY Zenon, <3>2, UnreadAnswer DEF ReadOK
    <3> QED BY Zenon, <3>3, <3>4, <3>5, <3>6 DEF ErrorCarried
  <2> QED BY Zenon, <2>1, <2>2
<1> QED BY <1>1, CallsCarried, PTL

(***************************************************************************)
(* What v0.3 keeps of a value: there and back, as JSON or as protobuf.     *)
(***************************************************************************)
LEMMA TextBack ==
    ASSUME NEW s \in CompatStr
    PROVE  /\ s # Absent /\ OrBlank(s) = s /\ OrBlank(BlankAbsent(s)) = s
           /\ BlankAbsent(s) \in CompatOpt(CompatStr)
BY AbsentIsNoValue DEF OrBlank, BlankAbsent, CompatOpt, CompatStr

LEMMA DictBack ==
    ASSUME NEW d \in CoreDict
    PROVE  /\ NoKeysAbsent(d) \in CoreDict /\ d \in CompatDict /\ NoKeys(d) \in CompatDict
           /\ NoKeysAbsent(NoKeysAbsent(d)) = NoKeysAbsent(d)
           /\ NoKeysAbsent(NoKeys(d)) = NoKeysAbsent(d)
<1>1. {} # Absent
  BY AbsentIsNoValue
<1> QED BY <1>1 DEF CoreDict, CompatDict, CompatOpt, NoKeysAbsent, NoKeys

LEMMA DictIn ==
    ASSUME NEW d \in CoreDict
    PROVE  NoKeysAbsent(d) \in CompatDict
BY DictBack

\* the mark of a scalar is taken off again
LEMMA MarkBack ==
    ASSUME NEW d \in CoreDict
    PROVE  /\ ScalarMark(d) # Absent /\ "data_part_compat" \in ScalarMark(d)
           /\ ScalarMark(d) \in CompatDict /\ NoKeysAbsent(ScalarMark(d)) = ScalarMark(d)
           /\ NoKeysAbsent(ScalarMark(d) \ {"data_part_compat"}) = NoKeysAbsent(NoKeys(d))
           /\ d # Absent => /\ "data_part_compat" \notin d
                            /\ d \ {"data_part_compat"} = d
<1>1. ScalarMark(d) = NoKeys(d) \cup {"data_part_compat"}
  BY DEF ScalarMark, NoKeys
<1>2. NoKeys(d) \in SUBSET DictKeys
  BY DEF CoreDict, CompatOpt, NoKeys
<1>3. ScalarMark(d) \in SUBSET (DictKeys \cup {"data_part_compat"})
  BY <1>1, <1>2
<1>4. ScalarMark(d) # Absent
  BY <1>3, AbsentIsNoValue
<1>5. "data_part_compat" \notin NoKeys(d)
  BY <1>2, MarkIsReserved
<1>6. ScalarMark(d) \ {"data_part_compat"} = NoKeys(d)
  BY <1>1, <1>5
<1>7. d # Absent => d = NoKeys(d)
  BY DEF NoKeys
<1>8. NoKeysAbsent(ScalarMark(d)) = ScalarMark(d)
  BY <1>1 DEF NoKeysAbsent
<1>9. ScalarMark(d) \in CompatDict
  BY <1>3 DEF CompatDict, CompatOpt
<1> QED BY <1>1, <1>4, <1>5, <1>6, <1>7, <1>8, <1>9

KeptPart(a, c) == a \in CorePart /\ PlainPart(a) = PlainPart(c)
JsonPart(c) == ToCompatPart(c)
ProtoPart(c) == TakePart(PutPart(ToCompatPart(c)))
\* a v0.3 part from which c is read back
PartOf(p, c) == p \in CompatPart /\ KeptPart(ToCorePart(p), c)

LEMMA TextPartBack ==
    ASSUME NEW c \in CorePart, c.which = "text"
    PROVE  PartOf(JsonPart(c), c) /\ PartOf(ProtoPart(c), c)
<1>1. c.content \in CompatStr /\ c.metadata \in CoreDict
  BY DEF CorePart
<1> DEFINE made(d) == [kind |-> "text", text |-> c.content, metadata |-> d]
<1>2. ASSUME NEW d \in CoreDict, NoKeysAbsent(d) = NoKeysAbsent(c.metadata) PROVE PartOf(made(d), c)
  <2>1. made(d) \in CompatPart
    BY <1>1, <1>2, DictBack DEF CompatPart, TextPart
  <2>2. PICK q : q = ToCorePart(made(d))
    OBVIOUS
  <2>3. q = [which |-> "text", content |-> c.content, media_type |-> "", filename |-> "",
             metadata |-> d]
    BY <2>2 DEF ToCorePart
  <2>4. q \in CorePart
    BY <1>1, <2>3, BlankIsText DEF CorePart
  <2>5. PlainPart(q) = PlainPart(c)
    BY <1>2, <2>3 DEF PlainPart
  <2> QED BY Zenon, <2>1, <2>2, <2>4, <2>5 DEF PartOf, KeptPart
<1>3. JsonPart(c) = made(c.metadata)
  BY DEF JsonPart, ToCompatPart
<1>4. ProtoPart(c) = made(NoKeysAbsent(c.metadata))
  BY <1>3 DEF JsonPart, ProtoPart, PutPart, TakePart
<1> HIDE DEF made
<1> QED BY <1>1, <1>2, <1>3, <1>4, DictBack

LEMMA StructPartBack ==
    ASSUME NEW c \in CorePart, c.which = "struct"
    PROVE  PartOf(JsonPart(c), c) /\ PartOf(ProtoPart(c), c)
<1>1. c.content \in CompatData /\ c.metadata \in CoreDict
  BY DEF CorePart
<1> DEFINE made(d) == [kind |-> "data", data |-> c.content, metadata |-> d]
<1>2. ASSUME NEW d \in CoreDict, NoKeysAbsent(d) = NoKeysAbsent(c.metadata) PROVE PartOf(made(d), c)
  <2>1. made(d) \in CompatPart
    BY <1>1, <1>2, DictBack DEF CompatPart, DataPart
  <2>2. PICK q : q = ToCorePart(made(d))
    OBVIOUS
  <2>3. /\ d # Absent => "data_part_compat" \notin d /\ d \ {"data_part_compat"} = d
        /\ Absent = NoKeysAbsent(Absent)
    BY <1>2, MarkBack, AbsentIsNoValue DEF NoKeysAbsent
  <2>4. q = [which |-> "struct", content |-> c.content, media_type |-> "", filename |-> "",
             metadata |-> NoKeysAbsent(d)]
    BY <2>2, <2>3 DEF ToCorePart
  <2>5. NoKeysAbsent(d) \in CoreDict /\ NoKeysAbsent(NoKeysAbsent(d)) = NoKeysAbsent(c.metadata)
    BY <1>2, DictBack
  <2>6. q \in CorePart
    BY <1>1, <2>4, <2>5, BlankIsText DEF CorePart
  <2>7. PlainPart(q) = PlainPart(c)
    BY <2>4, <2>5 DEF PlainPart
  <2> QED BY Zenon, <2>1, <2>2, <2>6, <2>7 DEF PartOf, KeptPart
<1>3. JsonPart(c) = made(c.metadata)
  BY DEF JsonPart, ToCompatPart
<1>4. ProtoPart(c) = made(NoKeysAbsent(c.metadata))
  BY <1>3 DEF JsonPart, ProtoPart, PutPart, TakePart
<1> HIDE DEF made
<1> QED BY <1>1, <1>2, <1>3, <1>4, DictBack

LEMMA ScalarPartBack ==
    ASSUME NEW c \in CorePart, c.which = "scalar"
    PROVE  PartOf(JsonPart(c), c) /\ PartOf(ProtoPart(c), c)
<1>1. c.content \in CompatStr /\ c.metadata \in CoreDict
  BY DEF CorePart
<1> DEFINE mark == ScalarMark(c.metadata)
           made == [kind |-> "data", data |-> [value |-> c.content], metadata |-> mark]
<1>2. /\ mark # Absent /\ "data_part_compat" \in mark /\ mark \in CompatDict
      /\ NoKeysAbsent(mark) = mark
      /\ NoKeysAbsent(mark \ {"data_part_compat"}) = NoKeysAbsent(c.metadata)
  BY <1>1, MarkBack, DictBack
<1>3. JsonPart(c) = made
  BY DEF JsonPart, ToCompatPart
<1> HIDE DEF mark
<1>4. ProtoPart(c) = made
  BY <1>2, <1>3 DEF JsonPart, ProtoPart, PutPart, TakePart
<1>5. made \in CompatPart
  <2>1. [value |-> c.content] \in CompatData
    BY <1>1 DEF CompatData
  <2> QED BY <1>2, <2>1 DEF CompatPart, DataPart
<1>6. PICK q : q = ToCorePart(made)
  OBVIOUS
<1>7. q = [which |-> "scalar", content |-> c.content, media_type |-> "", filename |-> "",
           metadata |-> NoKeysAbsent(c.metadata)]
  BY <1>2, <1>6 DEF ToCorePart
<1>8. NoKeysAbsent(c.metadata) \in CoreDict
      /\ NoKeysAbsent(NoKeysAbsent(c.metadata)) = NoKeysAbsent(c.metadata)
  BY <1>1, DictBack
<1>9. q \in CorePart
  BY <1>1, <1>7, <1>8, BlankIsText DEF CorePart
<1>10. PlainPart(q) = PlainPart(c)
  BY <1>7, <1>8 DEF PlainPart
<1> QED BY Zenon, <1>3, <1>4, <1>5, <1>6, <1>9, <1>10 DEF PartOf, KeptPart

\* a file in which c's content and names are found
FileOf(f, c) ==
    /\ f \in FileWithBytes \cup FileWithUri
    /\ OrBlank(f.mime_type) = c.media_type /\ OrBlank(f.name) = c.filename
    /\ c.which = "raw" => "uri" \notin DOMAIN f /\ f.bytes[2] = c.content
    /\ c.which = "url" => "uri" \in DOMAIN f /\ f.uri = c.content

LEMMA FileBack ==
    ASSUME NEW c \in CorePart, c.which \in {"raw", "url"}, NEW f, FileOf(f, c)
    PROVE  FileOf(TakeFile(PutFile(f)), c)
<1> DEFINE mt == BlankAbsent(OrBlank(f.mime_type))
           fn == BlankAbsent(OrBlank(f.name))
<1>1. c.media_type \in CompatStr /\ c.filename \in CompatStr
  BY DEF CorePart
<1>2. /\ mt \in CompatOpt(CompatStr) /\ OrBlank(mt) = c.media_type
      /\ fn \in CompatOpt(CompatStr) /\ OrBlank(fn) = c.filename
  BY <1>1, TextBack DEF FileOf
<1> HIDE DEF mt, fn
<1>3. PICK g : g = TakeFile(PutFile(f))
  OBVIOUS
<1>4. f \in FileWithBytes \cup FileWithUri
  BY DEF FileOf
<1>5. CASE c.which = "raw"
  <2>1. f \in FileWithBytes /\ f.bytes[2] = c.content
    BY <1>4, <1>5 DEF FileOf, FileWithUri
  <2>2. g.bytes = f.bytes /\ g.mime_type = mt /\ g.name = fn /\ "uri" \notin DOMAIN g
    BY <1>3, <2>1 DEF TakeFile, PutFile, FileWithBytes, mt, fn
  <2>3. g \in FileWithBytes
    BY <1>2, <1>3, <2>1 DEF TakeFile, PutFile, FileWithBytes, mt, fn
  <2> QED BY <1>2, <1>3, <1>5, <2>1, <2>2, <2>3 DEF FileOf
<1>6. CASE c.which = "url"
  <2>1. f \in FileWithUri /\ f.uri = c.content
    BY <1>4, <1>6 DEF FileOf, FileWithBytes
  <2>2. g.uri = f.uri /\ g.mime_type = mt /\ g.name = fn /\ "uri" \in DOMAIN g
    BY <1>3, <2>1 DEF TakeFile, PutFile, FileWithUri, mt, fn
  <2>3. g \in FileWithUri
    BY <1>2, <1>3, <2>1 DEF TakeFile, PutFile, FileWithUri, mt, fn
  <2> QED BY <1>2, <1>3, <1>6, <2>1, <2>2, <2>3 DEF FileOf
<1> QED BY <1>5, <1>6

LEMMA FilePartBack ==
    ASSUME NEW c \in CorePart, c.which \in {"raw", "url"}
    PROVE  PartOf(JsonPart(c), c) /\ PartOf(ProtoPart(c), c)
<1>1. /\ c.content \in CompatStr /\ c.metadata \in CoreDict
      /\ c.media_type \in CompatStr /\ c.filename \in CompatStr
  BY DEF CorePart
<1> DEFINE mt == BlankAbsent(c.media_type)
           fn == BlankAbsent(c.filename)
           made(d, f) == [kind |-> "file", metadata |-> d, file |-> f]
<1>2. /\ mt \in CompatOpt(CompatStr) /\ OrBlank(mt) = c.media_type
      /\ fn \in CompatOpt(CompatStr) /\ OrBlank(fn) = c.filename
  BY <1>1, TextBack
<1> HIDE DEF mt, fn
<1>3. ASSUME NEW d \in CoreDict, NoKeysAbsent(d) = NoKeysAbsent(c.metadata), NEW f, FileOf(f, c)
      PROVE  PartOf(made(d, f), c)
  <2>1. made(d, f) \in CompatPart
    BY <1>3, DictBack DEF CompatPart, FilePart, FileOf
  <2>2. PICK q : q = ToCorePart(made(d, f))
    OBVIOUS
  <2>3. q = [which |-> c.which, content |-> c.content, media_type |-> c.media_type,
             filename |-> c.filename, metadata |-> d]
    BY <1>3, <2>2 DEF ToCorePart, FileOf
  <2>4. q \in CorePart
    BY <1>1, <2>3 DEF CorePart
  <2>5. PlainPart(q) = PlainPart(c)
    BY <1>3, <2>3 DEF PlainPart
  <2> QED BY Zenon, <2>1, <2>2, <2>4, <2>5 DEF PartOf, KeptPart
<1>4. PICK f : f = IF c.which = "raw"
                   THEN [bytes |-> <<"base64", c.content>>, mime_type |-> mt, name |-> fn]
                   ELSE [uri |-> c.content, mime_type |-> mt, name |-> fn]
  OBVIOUS
<1>5. FileOf(f, c)
  BY <1>1, <1>2, <1>4 DEF FileOf, FileWithBytes, FileWithUri
<1>6. JsonPart(c) = made(c.metadata, f)
  BY <1>4 DEF JsonPart, ToCompatPart, mt, fn
<1>7. PICK g : g = TakeFile(PutFile(f))
  OBVIOUS
<1>8. ProtoPart(c) = made(NoKeysAbsent(c.metadata), g)
  <2>1. PutPart(made(c.metadata, f)) = made(c.metadata, PutFile(f))
    BY DEF PutPart
  <2>2. TakePart(made(c.metadata, PutFile(f))) = made(NoKeysAbsent(c.metadata), g)
    BY <1>7 DEF TakePart
  <2> QED BY <1>6, <2>1, <2>2 DEF JsonPart, ProtoPart
<1>9. FileOf(g, c)
  BY <1>5, <1>7, FileBack
<1> HIDE DEF made
<1> QED BY <1>1, <1>3, <1>5, <1>6, <1>8, <1>9, DictBack

LEMMA PartBack ==
    ASSUME NEW c \in CorePart
    PROVE  PartOf(JsonPart(c), c) /\ PartOf(ProtoPart(c), c)
<1>1. c.which \in {"text", "struct", "scalar", "raw", "url"}
  BY DEF CorePart
<1> QED BY <1>1, TextPartBack, StructPartBack, ScalarPartBack, FilePartBack

\* v0.3 parts from which cs are read back
PartsOf(ps, cs) ==
    /\ ps \in Seq(CompatPart) /\ Each(ToCorePart, ps) \in Seq(CorePart)
    /\ Each(PlainPart, Each(ToCorePart, ps)) = Each(PlainPart, cs)

LEMMA SeqMade ==
    ASSUME NEW S, NEW q, NEW n \in Nat, DOMAIN q = 1..n, q = [i \in 1..n |-> q[i]],
           \A i \in 1..n : q[i] \in S
    PROVE  q \in Seq(S)
<1>1. q \in [1..n -> S]
  OBVIOUS
<1> QED BY <1>1

LEMMA PartsMade ==
    ASSUME NEW cs \in Seq(CorePart), NEW ps, ps = [i \in DOMAIN cs |-> ps[i]],
           \A i \in DOMAIN cs : PartOf(ps[i], cs[i])
    PROVE  PartsOf(ps, cs)
<1>1. DOMAIN ps = 1..Len(cs) /\ Len(cs) \in Nat /\ DOMAIN cs = 1..Len(cs)
  OBVIOUS
<1>2. \A i \in 1..Len(cs) : /\ ps[i] \in CompatPart /\ ToCorePart(ps[i]) \in CorePart
                            /\ PlainPart(ToCorePart(ps[i])) = PlainPart(cs[i])
  BY <1>1 DEF PartOf, KeptPart
<1>3. ps \in Seq(CompatPart)
  BY <1>1, <1>2, SeqMade
<1>4. PICK q : q = Each(ToCorePart, ps)
  OBVIOUS
<1>5. q = [i \in 1..Len(cs) |-> ToCorePart(ps[i])]
  BY <1>1, <1>4 DEF Each
<1>6. q \in Seq(CorePart)
  BY <1>1, <1>2, <1>5, SeqMade
<1>7. Each(PlainPart, q) = Each(PlainPart, cs)
  BY <1>1, <1>2, <1>5 DEF Each
<1> QED BY Zenon, <1>3, <1>4, <1>6, <1>7 DEF PartsOf

LEMMA PartsBack ==
    ASSUME NEW cs \in Seq(CorePart)
    PROVE  /\ PartsOf(Each(ToCompatPart, cs), cs)
           /\ PartsOf(Each(TakePart, Each(PutPart, Each(ToCompatPart, cs))), cs)
<1>1. \A i \in DOMAIN cs : PartOf(ToCompatPart(cs[i]), cs[i])
                           /\ PartOf(TakePart(PutPart(ToCompatPart(cs[i]))), cs[i])
  <2>1. \A i \in DOMAIN cs : cs[i] \in CorePart
    OBVIOUS
  <2> QED BY <2>1, PartBack DEF JsonPart, ProtoPart
<1>2. PICK js : js = Each(ToCompatPart, cs)
  OBVIOUS
<1>3. PICK bs : bs = Each(TakePart, Each(PutPart, js))
  OBVIOUS
<1>4. js = [i \in DOMAIN cs |-> ToCompatPart(cs[i])]
  BY <1>2 DEF Each
<1>5. bs = [i \in DOMAIN cs |-> TakePart(PutPart(ToCompatPart(cs[i])))]
  BY <1>3, <1>4 DEF Each
<1>6. PartsOf(js, cs)
  BY <1>1, <1>4, PartsMade
<1>7. PartsOf(bs, cs)
  BY <1>1, <1>5, PartsMade
<1> QED BY Zenon, <1>2, <1>3, <1>6, <1>7

LEMMA ListBack ==
    ASSUME NEW q \in Seq(CompatStr)
    PROVE  /\ OrNone(q) = q /\ OrNone(NoneAbsent(q)) = q /\ NoneAbsent(q) \in CompatList
           /\ OrNone(NoneAbsent(OrNone(NoneAbsent(q)))) = q
BY AbsentIsNoValue DEF OrNone, NoneAbsent, CompatList, CompatOpt

\* a v0.3 message from which c is read back
KeptMessage(lossy, a, c) == a \in CoreMessage /\ PlainMessage(lossy, a) = PlainMessage(lossy, c)
MessageOf(lossy, m, c) == m \in CompatMessage /\ KeptMessage(lossy, ToCoreMessage(m), c)

LEMMA MessageMade ==
    ASSUME NEW lossy \in BOOLEAN, NEW c \in CoreMessage, NEW m \in CompatMessage,
           m.message_id = c.message_id, OrBlank(m.context_id) = c.context_id,
           OrBlank(m.task_id) = c.task_id, OrNone(m.extensions) = c.extensions,
           m.role = IF c.role = "user" THEN "user" ELSE "agent",
           NoKeysAbsent(m.metadata) = NoKeysAbsent(c.metadata),
           OrNone(m.reference_task_ids) \in Seq(CompatStr),
           lossy \/ OrNone(m.reference_task_ids) = c.reference_task_ids,
           PartsOf(m.parts, c.parts)
    PROVE  MessageOf(lossy, m, c)
<1>1. /\ c.message_id \in CompatStr /\ c.context_id \in CompatStr /\ c.task_id \in CompatStr
      /\ c.extensions \in Seq(CompatStr) /\ c.metadata \in CoreDict
  BY DEF CoreMessage
<1>2. PICK ref : ref = OrNone(m.reference_task_ids)
  OBVIOUS
<1>3. PICK parts : parts = Each(ToCorePart, m.parts)
  OBVIOUS
<1>4. PICK q : q = ToCoreMessage(m)
  OBVIOUS
<1>5. PICK d : d = NoKeysAbsent(c.metadata)
  OBVIOUS
<1>6. q = [message_id |-> c.message_id, context_id |-> c.context_id, task_id |-> c.task_id,
           reference_task_ids |-> ref, role |-> IF c.role = "user" THEN "user" ELSE "agent",
           metadata |-> d, extensions |-> c.extensions, parts |-> parts]
  BY <1>2, <1>3, <1>4, <1>5 DEF ToCoreMessage
<1>7. d \in CoreDict /\ NoKeysAbsent(d) = d
  BY <1>1, <1>5, DictBack
<1>8. parts \in Seq(CorePart) /\ Each(PlainPart, parts) = Each(PlainPart, c.parts)
  BY <1>3 DEF PartsOf
<1>9. q \in CoreMessage
  BY <1>1, <1>2, <1>6, <1>7, <1>8 DEF CoreMessage, Role
<1>10. PlainMessage(lossy, q) = PlainMessage(lossy, c)
  BY <1>2, <1>5, <1>6, <1>7, <1>8 DEF PlainMessage
<1> QED BY Zenon, <1>4, <1>9, <1>10 DEF MessageOf, KeptMessage

LEMMA JsonMessageBack ==
    ASSUME NEW c \in CoreMessage
    PROVE  MessageOf(FALSE, ToCompatMessage(c), c)
<1>1. /\ c.message_id \in CompatStr /\ c.context_id \in CompatStr /\ c.task_id \in CompatStr
      /\ c.extensions \in Seq(CompatStr) /\ c.metadata \in CoreDict
      /\ c.reference_task_ids \in Seq(CompatStr) /\ c.parts \in Seq(CorePart)
  BY DEF CoreMessage
<1>2. PICK m : m = ToCompatMessage(c)
  OBVIOUS
<1>3. PICK parts : parts = Each(ToCompatPart, c.parts)
  OBVIOUS
<1>4. PartsOf(parts, c.parts)
  BY <1>1, <1>3, PartsBack
<1>5. m = [kind |-> "message", message_id |-> c.message_id,
           role |-> IF c.role = "user" THEN "user" ELSE "agent",
           context_id |-> BlankAbsent(c.context_id), task_id |-> BlankAbsent(c.task_id),
           reference_task_ids |-> NoneAbsent(c.reference_task_ids),
           metadata |-> NoKeysAbsent(c.metadata), extensions |-> NoneAbsent(c.extensions),
           parts |-> parts]
  BY <1>2, <1>3 DEF ToCompatMessage
<1>6. /\ BlankAbsent(c.context_id) \in CompatOpt(CompatStr)
      /\ BlankAbsent(c.task_id) \in CompatOpt(CompatStr)
      /\ NoneAbsent(c.reference_task_ids) \in CompatList /\ NoneAbsent(c.extensions) \in CompatList
      /\ NoKeysAbsent(c.metadata) \in CompatDict /\ parts \in Seq(CompatPart)
  BY <1>1, <1>4, TextBack, ListBack, DictBack DEF PartsOf
<1>7. m \in CompatMessage
  BY <1>1, <1>5, <1>6 DEF CompatMessage, Role
<1>8. /\ OrBlank(m.context_id) = c.context_id /\ OrBlank(m.task_id) = c.task_id
      /\ OrNone(m.extensions) = c.extensions
      /\ OrNone(m.reference_task_ids) = c.reference_task_ids
      /\ NoKeysAbsent(m.metadata) = NoKeysAbsent(c.metadata)
  BY <1>1, <1>5, TextBack, ListBack, DictBack
<1>9. /\ m.message_id = c.message_id /\ m.parts = parts
      /\ m.role = IF c.role = "user" THEN "user" ELSE "agent"
  BY <1>5
<1> QED BY <1>1, <1>2, <1>4, <1>7, <1>8, <1>9, MessageMade

LEMMA ProtoMessageBack ==
    ASSUME NEW c \in CoreMessage
    PROVE  MessageOf(TRUE, TakeMessage(PutMessage(ToCompatMessage(c))), c)
<1>1. /\ c.message_id \in CompatStr /\ c.context_id \in CompatStr /\ c.task_id \in CompatStr
      /\ c.extensions \in Seq(CompatStr) /\ c.metadata \in CoreDict
      /\ c.reference_task_ids \in Seq(CompatStr) /\ c.parts \in Seq(CorePart)
  BY DEF CoreMessage
<1>2. PICK j : j = ToCompatMessage(c)
  OBVIOUS
<1>3. PICK k : k = PutMessage(j)
  OBVIOUS
<1>4. PICK m : m = TakeMessage(k)
  OBVIOUS
<1> DEFINE written == Each(ToCompatPart, c.parts)
           parts == Each(TakePart, Each(PutPart, written))
           text(s) == BlankAbsent(OrBlank(BlankAbsent(s)))
           ext == NoneAbsent(OrNone(NoneAbsent(c.extensions)))
           dict == NoKeys(NoKeysAbsent(c.metadata))
<1>5. PartsOf(parts, c.parts)
  BY <1>1, PartsBack
<1>6. /\ DOMAIN m = {"kind", "message_id", "role", "context_id", "task_id", "reference_task_ids",
                     "metadata", "extensions", "parts"}
      /\ m = [x \in DOMAIN m |-> m[x]]
      /\ m.kind = "message" /\ m.message_id = c.message_id
      /\ m.role = (IF c.role = "user" THEN "user" ELSE "agent")
      /\ m.context_id = text(c.context_id) /\ m.task_id = text(c.task_id)
      /\ m.reference_task_ids = Absent /\ m.metadata = dict /\ m.extensions = ext
      /\ m.parts = parts
  <2> HIDE DEF written
  <2>1. j = [kind |-> "message", message_id |-> c.message_id,
             role |-> IF c.role = "user" THEN "user" ELSE "agent",
             context_id |-> BlankAbsent(c.context_id), task_id |-> BlankAbsent(c.task_id),
             reference_task_ids |-> NoneAbsent(c.reference_task_ids),
             metadata |-> NoKeysAbsent(c.metadata), extensions |-> NoneAbsent(c.extensions),
             parts |-> written]
    BY <1>2 DEF ToCompatMessage, written
  <2>2. PICK put : put = Each(PutPart, written)
    OBVIOUS
  <2>3. /\ DOMAIN k = {"kind", "message_id", "role", "context_id", "task_id",
                       "reference_task_ids", "metadata", "extensions", "parts"}
        /\ k.kind = "message" /\ k.message_id = c.message_id
        /\ k.role = (IF c.role = "user" THEN "user" ELSE "agent")
        /\ k.context_id = OrBlank(BlankAbsent(c.context_id))
        /\ k.task_id = OrBlank(BlankAbsent(c.task_id)) /\ k.reference_task_ids = Absent
        /\ k.metadata = NoKeysAbsent(c.metadata)
        /\ k.extensions = OrNone(NoneAbsent(c.extensions)) /\ k.parts = put
    BY <1>3, <2>1, <2>2 DEF PutMessage
  <2>4. PICK taken : taken = Each(TakePart, put)
    OBVIOUS
  <2>5. taken = parts
    BY <2>2, <2>4
  <2> HIDE DEF parts
  <2>6. m = [k EXCEPT !.parts = taken, !.context_id = BlankAbsent(@), !.task_id = BlankAbsent(@),
                      !.metadata = NoKeys(@), !.extensions = NoneAbsent(@)]
    BY <1>4, <2>3, <2>4 DEF TakeMessage
  <2> QED BY <2>3, <2>5, <2>6
<1> HIDE DEF written, parts
<1>7. ASSUME NEW s \in CompatStr PROVE text(s) \in CompatOpt(CompatStr) /\ OrBlank(text(s)) = s
  BY TextBack
<1>8. ext \in CompatList /\ OrNone(ext) = c.extensions
  BY <1>1, ListBack
<1>9. dict \in CompatDict /\ NoKeysAbsent(dict) = NoKeysAbsent(c.metadata)
  BY <1>1, DictBack
<1>10. parts \in Seq(CompatPart)
  BY <1>5 DEF PartsOf
<1>11. /\ m.context_id \in CompatOpt(CompatStr) /\ m.task_id \in CompatOpt(CompatStr)
       /\ OrBlank(m.context_id) = c.context_id /\ OrBlank(m.task_id) = c.task_id
  BY <1>1, <1>6, <1>7
<1> HIDE DEF text, ext, dict
<1>12. m.reference_task_ids \in CompatList /\ OrNone(m.reference_task_ids) \in Seq(CompatStr)
  BY <1>6 DEF CompatList, CompatOpt, OrNone
<1>13. m \in CompatMessage
  BY ONLY <1>1, <1>6, <1>8, <1>9, <1>10, <1>11, <1>12 DEF CompatMessage, Role
<1>14. MessageOf(TRUE, m, c)
  BY <1>5, <1>6, <1>8, <1>9, <1>11, <1>12, <1>13, MessageMade
<1> QED BY Zenon, <1>2, <1>3, <1>4, <1>14

(* ---- artifacts ---- *)
KeptArtifact(a, c) == a \in CoreArtifact /\ PlainArtifact(a) = PlainArtifact(c)
ArtifactOf(p, c) == p \in CompatArtifact /\ KeptArtifact(ToCoreArtifact(p), c)

LEMMA ArtifactMade ==
    ASSUME NEW c \in CoreArtifact, NEW p \in CompatArtifact, p.artifact_id = c.artifact_id,
           OrBlank(p.name) = c.name, OrBlank(p.description) = c.description,
           OrNone(p.extensions) = c.extensions, PartsOf(p.parts, c.parts),
           NoKeysAbsent(p.metadata) = NoKeysAbsent(c.metadata)
    PROVE  ArtifactOf(p, c)
<1>1. /\ c.artifact_id \in CompatStr /\ c.name \in CompatStr /\ c.description \in CompatStr
      /\ c.extensions \in Seq(CompatStr) /\ c.metadata \in CoreDict
  BY DEF CoreArtifact
<1>2. PICK parts : parts = Each(ToCorePart, p.parts)
  OBVIOUS
<1>3. PICK q : q = ToCoreArtifact(p)
  OBVIOUS
<1>4. PICK d : d = NoKeysAbsent(c.metadata)
  OBVIOUS
<1>5. q = [artifact_id |-> c.artifact_id, name |-> c.name, description |-> c.description,
           parts |-> parts, metadata |-> d, extensions |-> c.extensions]
  BY <1>2, <1>3, <1>4 DEF ToCoreArtifact
<1>6. d \in CoreDict /\ NoKeysAbsent(d) = d
  BY <1>1, <1>4, DictBack
<1>7. parts \in Seq(CorePart) /\ Each(PlainPart, parts) = Each(PlainPart, c.parts)
  BY <1>2 DEF PartsOf
<1>8. q \in CoreArtifact
  BY <1>1, <1>5, <1>6, <1>7 DEF CoreArtifact
<1>9. PlainArtifact(q) = PlainArtifact(c)
  BY <1>4, <1>5, <1>6, <1>7 DEF PlainArtifact
<1> QED BY Zenon, <1>3, <1>8, <1>9 DEF ArtifactOf, KeptArtifact

LEMMA ArtifactBack ==
    ASSUME NEW c \in CoreArtifact
    PROVE  /\ ArtifactOf(ToCompatArtifact(c), c)
           /\ ArtifactOf(TakeArtifact(PutArtifact(ToCompatArtifact(c))), c)
<1>1. /\ c.artifact_id \in CompatStr /\ c.name \in CompatStr /\ c.description \in CompatStr
      /\ c.extensions \in Seq(CompatStr) /\ c.metadata \in CoreDict /\ c.parts \in Seq(CorePart)
  BY DEF CoreArtifact
<1>2. PICK j : j = ToCompatArtifact(c)
  OBVIOUS
<1>3. PICK p : p = TakeArtifact(PutArtifact(j))
  OBVIOUS
<1>4. PICK parts : parts = Each(ToCompatPart, c.parts)
  OBVIOUS
<1>5. PICK taken : taken = Each(TakePart, Each(PutPart, parts))
  OBVIOUS
<1>6. PartsOf(parts, c.parts) /\ PartsOf(taken, c.parts)
  BY <1>1, <1>4, <1>5, PartsBack
<1>7. parts \in Seq(CompatPart) /\ taken \in Seq(CompatPart)
  BY <1>6 DEF PartsOf
<1>8. j = [artifact_id |-> c.artifact_id, name |-> BlankAbsent(c.name),
           description |-> BlankAbsent(c.description), parts |-> parts,
           metadata |-> c.metadata, extensions |-> NoneAbsent(c.extensions)]
  BY <1>2, <1>4 DEF ToCompatArtifact
<1>9. ArtifactOf(j, c)
  <2>1. /\ j.name \in CompatOpt(CompatStr) /\ OrBlank(j.name) = c.name
        /\ j.description \in CompatOpt(CompatStr) /\ OrBlank(j.description) = c.description
        /\ j.extensions \in CompatList /\ OrNone(j.extensions) = c.extensions
        /\ j.metadata \in CompatDict
    BY <1>1, <1>8, TextBack, ListBack, DictBack
  <2>2. j.artifact_id = c.artifact_id /\ j.parts = parts /\ j.metadata = c.metadata
    BY <1>8
  <2>3. j \in CompatArtifact
    BY <1>1, <1>7, <1>8, <2>1 DEF CompatArtifact
  <2> QED BY <1>6, <2>1, <2>2, <2>3, ArtifactMade
<1>10. ArtifactOf(p, c)
  <2> DEFINE text(s) == OrBlank(BlankAbsent(s))
             ext == NoneAbsent(OrNone(NoneAbsent(c.extensions)))
  <2>1. /\ DOMAIN p = {"artifact_id", "name", "description", "parts", "metadata", "extensions"}
        /\ p = [x \in DOMAIN p |-> p[x]]
        /\ p.artifact_id = c.artifact_id /\ p.name = text(c.name)
        /\ p.description = text(c.description) /\ p.parts = taken
        /\ p.metadata = NoKeys(c.metadata) /\ p.extensions = ext
    BY <1>3, <1>5, <1>8 DEF TakeArtifact, PutArtifact
  <2>2. /\ p.name = c.name /\ p.description = c.description
        /\ p.name \in CompatOpt(CompatStr) /\ p.description \in CompatOpt(CompatStr)
        /\ OrBlank(p.name) = c.name /\ OrBlank(p.description) = c.description
    BY <1>1, <2>1, TextBack DEF CompatOpt
  <2>3. ext \in CompatList /\ OrNone(ext) = c.extensions
    BY <1>1, ListBack
  <2>4. p.metadata \in CompatDict /\ NoKeysAbsent(p.metadata) = NoKeysAbsent(c.metadata)
    BY <1>1, <2>1, DictBack
  <2> HIDE DEF ext, text
  <2>5. p \in CompatArtifact
    BY ONLY <1>1, <1>7, <2>1, <2>2, <2>3, <2>4 DEF CompatArtifact
  <2> QED BY <1>6, <2>1, <2>2, <2>3, <2>4, <2>5, ArtifactMade
<1> QED BY Zenon, <1>2, <1>3, <1>9, <1>10

(* ---- the status of a task ---- *)
LEMMA StampBack ==
    ASSUME NEW t \in CompatOpt(CompatStr \ {"", "t+00:00"})
    PROVE  Timestamp(t) = t
<1>1. CASE t = Absent
  BY <1>1 DEF Timestamp
<1>2. CASE t # Absent
  <2>1. t # "" /\ t # "t+00:00" /\ t \notin {Absent, ""}
    BY <1>2 DEF CompatOpt
  <2> QED BY Zenon, <2>1 DEF Timestamp
<1> QED BY <1>1, <1>2

LEMMA PutPartTyped ==
    ASSUME NEW p \in CompatPart
    PROVE  PutPart(p) \in CompatPart
<1>1. CASE p.kind # "file"
  BY <1>1 DEF PutPart
<1>2. CASE p.kind = "file"
  <2>1. p \in FilePart
    BY <1>2 DEF CompatPart, TextPart, DataPart
  <2>2. PICK f : f = PutFile(p.file)
    OBVIOUS
  <2>3. p.file \in FileWithBytes \cup FileWithUri /\ p.metadata \in CompatDict
    BY <2>1 DEF FilePart
  <2>4. OrBlank(p.file.mime_type) \in CompatOpt(CompatStr) /\ OrBlank(p.file.name) \in CompatOpt(CompatStr)
    BY <2>3, BlankIsText DEF FileWithBytes, FileWithUri, OrBlank, CompatOpt
  <2>5. f \in FileWithBytes \cup FileWithUri
    BY <2>2, <2>3, <2>4 DEF PutFile, FileWithBytes, FileWithUri
  <2>6. PutPart(p) = [p EXCEPT !.file = f]
    BY <1>2, <2>2 DEF PutPart
  <2> QED BY <2>1, <2>5, <2>6 DEF CompatPart, FilePart
<1> QED BY <1>1, <1>2

LEMMA PutMessageTyped ==
    ASSUME NEW m \in CompatMessage
    PROVE  PutMessage(m) \in CompatMessage
<1>1. PICK parts : parts = Each(PutPart, m.parts)
  OBVIOUS
<1>2. m.parts \in Seq(CompatPart)
  BY DEF CompatMessage
<1>3. parts = [i \in 1..Len(m.parts) |-> PutPart(m.parts[i])]
  BY <1>1, <1>2 DEF Each
<1>4. \A i \in 1..Len(m.parts) : parts[i] \in CompatPart
  BY <1>2, <1>3, PutPartTyped
<1>5. parts \in Seq(CompatPart)
  <2>1. Len(m.parts) \in Nat /\ DOMAIN parts = 1..Len(m.parts)
        /\ parts = [i \in 1..Len(m.parts) |-> parts[i]]
    BY <1>2, <1>3
  <2> QED BY <1>4, <2>1, SeqMade
<1>6. /\ OrBlank(m.context_id) \in CompatOpt(CompatStr) /\ OrBlank(m.task_id) \in CompatOpt(CompatStr)
      /\ OrNone(m.extensions) \in CompatList /\ Absent \in CompatList
  <2>1. m.context_id \in CompatOpt(CompatStr) /\ m.task_id \in CompatOpt(CompatStr) /\ m.extensions \in CompatList
    BY DEF CompatMessage
  <2>2. ASSUME NEW s \in CompatOpt(CompatStr) PROVE OrBlank(s) \in CompatOpt(CompatStr)
    BY BlankIsText DEF OrBlank, CompatOpt
  <2>3. OrNone(m.extensions) \in CompatList /\ Absent \in CompatList
    BY <2>1 DEF OrNone, CompatOpt, CompatList
  <2> QED BY <2>1, <2>2, <2>3
<1>7. PutMessage(m) = [m EXCEPT !.parts = parts, !.context_id = OrBlank(@), !.task_id = OrBlank(@),
              !.reference_task_ids = Absent, !.extensions = OrNone(@)]
  BY <1>1 DEF PutMessage
<1> QED BY <1>5, <1>6, <1>7 DEF CompatMessage

KeptStatus(lossy, a, c) == PlainStatus(lossy, a) = PlainStatus(lossy, c)
\* the message of a status, where it has one
MaybeMessage(lossy, m, c) ==
    IF c = Absent THEN m = Absent ELSE m # Absent /\ MessageOf(lossy, m, c)

LEMMA StatusMade ==
    ASSUME NEW lossy \in BOOLEAN, NEW c \in CoreTaskStatus, NEW s, s.timestamp = c.timestamp,
           s.state = CompatTaskState(c.state), MaybeMessage(lossy, s.message, c.message)
    PROVE  KeptStatus(lossy, ToCoreTaskStatus(s), c)
<1>1. /\ c.state \in CoreState /\ c.message \in CompatOpt(CoreMessage)
      /\ c.timestamp \in CompatOpt(CompatStr \ {"", "t+00:00"})
  BY DEF CoreTaskStatus
<1>2. CoreTaskState(s.state) = c.state
  BY <1>1 DEF CoreTaskState, CompatTaskState, CoreState, TaskState
<1>3. PICK msg : msg = Given(ToCoreMessage, s.message)
  OBVIOUS
<1>4. /\ c.message = Absent => msg = Absent
      /\ c.message # Absent => KeptMessage(lossy, msg, c.message)
  BY Zenon, <1>3 DEF MaybeMessage, MessageOf, Given
<1>5. Timestamp(s.timestamp) = c.timestamp
  BY Zenon, <1>1, StampBack
<1>6. PICK q : q = ToCoreTaskStatus(s)
  OBVIOUS
<1>7. q = [state |-> c.state, message |-> msg, timestamp |-> c.timestamp]
  BY <1>2, <1>3, <1>5, <1>6 DEF ToCoreTaskStatus
<1>8. msg \in CompatOpt(CoreMessage)
  BY <1>4 DEF KeptMessage, CompatOpt
<1>9. q \in CoreTaskStatus
  BY <1>1, <1>7, <1>8 DEF CoreTaskStatus
<1>10. q # Absent /\ c # Absent
  BY <1>9, AbsentIsNoValue
<1>11. msg = Absent <=> c.message = Absent
  BY <1>4, AbsentIsNoValue DEF KeptMessage
<1>12. c.message # Absent => PlainMessage(lossy, msg) = PlainMessage(lossy, c.message)
  BY <1>4 DEF KeptMessage
<1>13. PlainStatus(lossy, q) = PlainStatus(lossy, c)
  BY <1>7, <1>10, <1>11, <1>12 DEF PlainStatus, Given
<1> QED BY Zenon, <1>6, <1>13 DEF KeptStatus

LEMMA NoStatusMade ==
    ASSUME NEW lossy \in BOOLEAN, NEW s, s.state = "unknown", s.message = Absent, s.timestamp = Absent
    PROVE  KeptStatus(lossy, ToCoreTaskStatus(s), Absent)
<1>1. PICK q : q = ToCoreTaskStatus(s)
  OBVIOUS
<1>2. q = [state |-> "unspecified", message |-> Absent, timestamp |-> Absent]
  <2>1. Timestamp(Absent) = Absent /\ CoreTaskState("unknown") = "unspecified"
    BY StampBack DEF CompatOpt, CoreTaskState
  <2>2. Given(ToCoreMessage, Absent) = Absent
    BY DEF Given
  <2> QED BY Zenon, <1>1, <2>1, <2>2 DEF ToCoreTaskStatus
<1>3. q \in CoreTaskStatus
  BY <1>2 DEF CoreTaskStatus, CoreState, CompatOpt
<1>4. q # Absent
  BY <1>3, AbsentIsNoValue
<1>5. PlainStatus(lossy, q) = PlainStatus(lossy, Absent)
  BY <1>2, <1>4 DEF PlainStatus, Given
<1> QED BY Zenon, <1>1, <1>5 DEF KeptStatus

\* how a status, or none, is written
WrittenStatus(c) == IF c = Absent THEN UnknownStatus ELSE ToCompatTaskStatus(c)
TakenStatus(c) == TakeTaskStatus(PutTaskStatus(WrittenStatus(c)))

LEMMA StatusBack ==
    ASSUME NEW c \in CompatOpt(CoreTaskStatus)
    PROVE  /\ KeptStatus(FALSE, ToCoreTaskStatus(WrittenStatus(c)), c)
           /\ KeptStatus(TRUE, ToCoreTaskStatus(TakenStatus(c)), c)
<1>1. PICK s : s = WrittenStatus(c)
  OBVIOUS
<1>2. PICK t : t = TakeTaskStatus(PutTaskStatus(s))
  OBVIOUS
<1>3. CASE c = Absent
  <2>1. s = [state |-> "unknown", message |-> Absent, timestamp |-> Absent]
    BY <1>1, <1>3 DEF WrittenStatus, UnknownStatus
  <2>2. t.state = "unknown" /\ t.message = Absent /\ t.timestamp = Absent
    <3>1. /\ Timestamp(Absent) = Absent /\ PutTaskState("unknown") = "unspecified"
          /\ TakeTaskState("unspecified") = "unknown"
      BY StampBack DEF CompatOpt, PutTaskState, TakeTaskState, TaskState
    <3>2. Given(PutMessage, Absent) = Absent /\ Given(TakeMessage, Absent) = Absent
      BY DEF Given
    <3>3. s.state = "unknown" /\ s.message = Absent /\ s.timestamp = Absent
      BY <2>1
    <3>4. PutTaskStatus(s) = [state |-> "unspecified", message |-> Absent, timestamp |-> Absent]
      BY Zenon, <3>1, <3>2, <3>3 DEF PutTaskStatus
    <3>5. t = [PutTaskStatus(s) EXCEPT !.state = TakeTaskState(@), !.message = Given(TakeMessage, @)]
      BY Zenon, <1>2 DEF TakeTaskStatus
    <3> QED BY <3>1, <3>2, <3>4, <3>5
  <2>3. s.state = "unknown" /\ s.message = Absent /\ s.timestamp = Absent
    BY <2>1
  <2> QED BY Zenon, <1>1, <1>2, <1>3, <2>2, <2>3, NoStatusMade DEF TakenStatus
<1>4. CASE c \in CoreTaskStatus
  <2>1. /\ c.state \in CoreState /\ c.message \in CompatOpt(CoreMessage)
        /\ c.timestamp \in CompatOpt(CompatStr \ {"", "t+00:00"}) /\ c # Absent
    BY <1>4, AbsentIsNoValue DEF CoreTaskStatus
  <2>2. PICK msg : msg = Given(ToCompatMessage, c.message)
    OBVIOUS
  <2>3. s = [state |-> CompatTaskState(c.state), message |-> msg, timestamp |-> c.timestamp]
    BY <1>1, <2>1, <2>2 DEF WrittenStatus, ToCompatTaskStatus
  <2>4. PICK back : back = Given(TakeMessage, Given(PutMessage, msg))
    OBVIOUS
  <2>5. CompatTaskState(c.state) \in TaskState
    BY DEF CompatTaskState, TaskState
  <2>6. TakeTaskState(PutTaskState(CompatTaskState(c.state))) = CompatTaskState(c.state)
    BY <2>5 DEF TakeTaskState, PutTaskState, TaskState
  <2>7. Timestamp(c.timestamp) = c.timestamp
    BY Zenon, <2>1, StampBack
  <2>8. PICK put : put = Given(PutMessage, msg)
    OBVIOUS
  <2>9. PutTaskStatus(s) = [state |-> PutTaskState(CompatTaskState(c.state)), message |-> put,
                            timestamp |-> c.timestamp]
    BY <2>3, <2>7, <2>8 DEF PutTaskStatus
  <2>10. back = Given(TakeMessage, put)
    BY Zenon, <2>4, <2>8
  <2>11. /\ t.state = CompatTaskState(c.state) /\ t.timestamp = c.timestamp /\ t.message = back
    BY <1>2, <2>6, <2>9, <2>10 DEF TakeTaskStatus
  <2>12. MaybeMessage(FALSE, msg, c.message) /\ MaybeMessage(TRUE, back, c.message)
    <3>1. CASE c.message = Absent
      BY Zenon, <3>1, <2>2, <2>4 DEF MaybeMessage, Given
    <3>2. CASE c.message # Absent
      <4>1. c.message \in CoreMessage
        BY <2>1, <3>2 DEF CompatOpt
      <4>2. msg = ToCompatMessage(c.message)
        BY Zenon, <2>2, <3>2 DEF Given
      <4>3. MessageOf(FALSE, msg, c.message)
        BY Zenon, <4>1, <4>2, JsonMessageBack
      <4>4. msg \in CompatMessage
        BY Zenon, <4>3 DEF MessageOf
      <4>5. msg # Absent /\ PutMessage(msg) # Absent
        BY <4>4, PutMessageTyped, AbsentIsNoValue
      <4>6. back = TakeMessage(PutMessage(ToCompatMessage(c.message)))
        BY Zenon, <2>4, <4>2, <4>5 DEF Given
      <4>7. MessageOf(TRUE, back, c.message)
        BY Zenon, <4>1, <4>6, ProtoMessageBack
      <4>8. back # Absent
        BY <4>7, AbsentIsNoValue DEF MessageOf
      <4> QED BY Zenon, <3>2, <4>3, <4>5, <4>7, <4>8 DEF MaybeMessage
    <3> QED BY <3>1, <3>2
  <2>13. s.state = CompatTaskState(c.state) /\ s.timestamp = c.timestamp /\ s.message = msg
    BY <2>3
  <2>14. KeptStatus(FALSE, ToCoreTaskStatus(s), c)
    BY <1>4, <2>12, <2>13, StatusMade
  <2>15. KeptStatus(TRUE, ToCoreTaskStatus(t), c)
    BY <1>4, <2>11, <2>12, StatusMade
  <2> QED BY Zenon, <1>1, <1>2, <2>14, <2>15 DEF TakenStatus
<1> QED BY <1>3, <1>4 DEF CompatOpt

(* ---- tasks and events ---- *)
PlainMessages(lossy, q) == [i \in DOMAIN q |-> PlainMessage(lossy, q[i])]
PlainArtifacts(q) == [i \in DOMAIN q |-> PlainArtifact(q[i])]
WrittenHistory(q) == NoneAbsent(Each(ToCompatMessage, q))
TakenHistory(q) == Each(TakeMessage, EachGiven(PutMessage, WrittenHistory(q)))
WrittenArtifacts(q) == NoneAbsent(Each(ToCompatArtifact, q))
TakenArtifacts(q) == Each(TakeArtifact, EachGiven(PutArtifact, WrittenArtifacts(q)))

LEMMA SomeOrNone ==
    ASSUME NEW S, Absent \notin Seq(S), NEW q \in Seq(S)
    PROVE  OrNone(q) = q /\ OrNone(NoneAbsent(q)) = q
BY DEF OrNone, NoneAbsent

LEMMA MessagesMade ==
    ASSUME NEW lossy \in BOOLEAN, NEW cs \in Seq(CoreMessage), NEW ms,
           ms = [i \in DOMAIN cs |-> ms[i]], \A i \in DOMAIN cs : MessageOf(lossy, ms[i], cs[i])
    PROVE  /\ ms \in Seq(CompatMessage) /\ OrNone(ms) = ms /\ OrNone(NoneAbsent(ms)) = ms
           /\ PlainMessages(lossy, Each(ToCoreMessage, ms)) = PlainMessages(lossy, cs)
<1>1. DOMAIN ms = 1..Len(cs) /\ Len(cs) \in Nat /\ DOMAIN cs = 1..Len(cs)
  OBVIOUS
<1>2. \A i \in 1..Len(cs) :
        /\ ms[i] \in CompatMessage
        /\ PlainMessage(lossy, ToCoreMessage(ms[i])) = PlainMessage(lossy, cs[i])
  BY <1>1 DEF MessageOf, KeptMessage
<1>3. ms \in Seq(CompatMessage)
  BY <1>1, <1>2, SeqMade
<1>4. PICK q : q = Each(ToCoreMessage, ms)
  OBVIOUS
<1>5. q = [i \in 1..Len(cs) |-> ToCoreMessage(ms[i])]
  BY <1>1, <1>4 DEF Each
<1>6. PlainMessages(lossy, q) = PlainMessages(lossy, cs)
  BY <1>1, <1>2, <1>5 DEF PlainMessages
<1>7. OrNone(ms) = ms /\ OrNone(NoneAbsent(ms)) = ms
  BY <1>3, SomeOrNone, AbsentIsNoValue
<1> QED BY Zenon, <1>3, <1>4, <1>6, <1>7

LEMMA HistoryBack ==
    ASSUME NEW cs \in Seq(CoreMessage)
    PROVE  /\ PlainMessages(FALSE, EachGiven(ToCoreMessage, WrittenHistory(cs)))
                = PlainMessages(FALSE, cs)
           /\ PlainMessages(TRUE, EachGiven(ToCoreMessage, TakenHistory(cs)))
                = PlainMessages(TRUE, cs)
<1>1. \A i \in DOMAIN cs : cs[i] \in CoreMessage
  OBVIOUS
<1>2. PICK js : js = Each(ToCompatMessage, cs)
  OBVIOUS
<1>3. js = [i \in DOMAIN cs |-> ToCompatMessage(cs[i])]
  BY <1>2 DEF Each
<1>4. \A i \in DOMAIN cs : MessageOf(FALSE, js[i], cs[i])
  BY <1>1, <1>3, JsonMessageBack
<1>5. /\ OrNone(NoneAbsent(js)) = js
      /\ PlainMessages(FALSE, Each(ToCoreMessage, js)) = PlainMessages(FALSE, cs)
  BY <1>3, <1>4, MessagesMade
<1>6. PICK bs : bs = Each(TakeMessage, Each(PutMessage, js))
  OBVIOUS
<1>7. bs = [i \in DOMAIN cs |-> TakeMessage(PutMessage(ToCompatMessage(cs[i])))]
  BY <1>3, <1>6 DEF Each
<1>8. \A i \in DOMAIN cs : MessageOf(TRUE, bs[i], cs[i])
  BY <1>1, <1>7, ProtoMessageBack
<1>9. OrNone(bs) = bs /\ PlainMessages(TRUE, Each(ToCoreMessage, bs)) = PlainMessages(TRUE, cs)
  BY <1>7, <1>8, MessagesMade
<1>10. EachGiven(ToCoreMessage, WrittenHistory(cs)) = Each(ToCoreMessage, js)
  BY Zenon, <1>2, <1>5 DEF EachGiven, WrittenHistory
<1>11. EachGiven(PutMessage, WrittenHistory(cs)) = Each(PutMessage, js)
  BY Zenon, <1>2, <1>5 DEF EachGiven, WrittenHistory
<1>12. TakenHistory(cs) = bs
  BY Zenon, <1>6, <1>11 DEF TakenHistory
<1>13. EachGiven(ToCoreMessage, TakenHistory(cs)) = Each(ToCoreMessage, bs)
  BY Zenon, <1>9, <1>12 DEF EachGiven
<1> QED BY Zenon, <1>5, <1>9, <1>10, <1>13

LEMMA ArtifactsMade ==
    ASSUME NEW cs \in Seq(CoreArtifact), NEW ps,
           ps = [i \in DOMAIN cs |-> ps[i]], \A i \in DOMAIN cs : ArtifactOf(ps[i], cs[i])
    PROVE  /\ ps \in Seq(CompatArtifact) /\ OrNone(ps) = ps /\ OrNone(NoneAbsent(ps)) = ps
           /\ PlainArtifacts(Each(ToCoreArtifact, ps)) = PlainArtifacts(cs)
<1>1. DOMAIN ps = 1..Len(cs) /\ Len(cs) \in Nat /\ DOMAIN cs = 1..Len(cs)
  OBVIOUS
<1>2. \A i \in 1..Len(cs) :
        ps[i] \in CompatArtifact /\ PlainArtifact(ToCoreArtifact(ps[i])) = PlainArtifact(cs[i])
  BY <1>1 DEF ArtifactOf, KeptArtifact
<1>3. ps \in Seq(CompatArtifact)
  BY <1>1, <1>2, SeqMade
<1>4. PICK q : q = Each(ToCoreArtifact, ps)
  OBVIOUS
<1>5. q = [i \in 1..Len(cs) |-> ToCoreArtifact(ps[i])]
  BY <1>1, <1>4 DEF Each
<1>6. PlainArtifacts(q) = PlainArtifacts(cs)
  BY <1>1, <1>2, <1>5 DEF PlainArtifacts
<1>7. OrNone(ps) = ps /\ OrNone(NoneAbsent(ps)) = ps
  BY <1>3, SomeOrNone, AbsentIsNoValue
<1> QED BY Zenon, <1>3, <1>4, <1>6, <1>7

LEMMA ArtifactsBack ==
    ASSUME NEW cs \in Seq(CoreArtifact)
    PROVE  /\ PlainArtifacts(EachGiven(ToCoreArtifact, WrittenArtifacts(cs))) = PlainArtifacts(cs)
           /\ PlainArtifacts(EachGiven(ToCoreArtifact, TakenArtifacts(cs))) = PlainArtifacts(cs)
<1>1. \A i \in DOMAIN cs : cs[i] \in CoreArtifact
  OBVIOUS
<1>2. PICK js : js = Each(ToCompatArtifact, cs)
  OBVIOUS
<1>3. js = [i \in DOMAIN cs |-> ToCompatArtifact(cs[i])]
  BY <1>2 DEF Each
<1>4. \A i \in DOMAIN cs : ArtifactOf(js[i], cs[i])
  BY <1>1, <1>3, ArtifactBack
<1>5. /\ OrNone(NoneAbsent(js)) = js
      /\ PlainArtifacts(Each(ToCoreArtifact, js)) = PlainArtifacts(cs)
  BY <1>3, <1>4, ArtifactsMade
<1>6. PICK bs : bs = Each(TakeArtifact, Each(PutArtifact, js))
  OBVIOUS
<1>7. bs = [i \in DOMAIN cs |-> TakeArtifact(PutArtifact(ToCompatArtifact(cs[i])))]
  BY <1>3, <1>6 DEF Each
<1>8. \A i \in DOMAIN cs : ArtifactOf(bs[i], cs[i])
  BY <1>1, <1>7, ArtifactBack
<1>9. OrNone(bs) = bs /\ PlainArtifacts(Each(ToCoreArtifact, bs)) = PlainArtifacts(cs)
  BY <1>7, <1>8, ArtifactsMade
<1>10. EachGiven(ToCoreArtifact, WrittenArtifacts(cs)) = Each(ToCoreArtifact, js)
  BY Zenon, <1>2, <1>5 DEF EachGiven, WrittenArtifacts
<1>11. EachGiven(PutArtifact, WrittenArtifacts(cs)) = Each(PutArtifact, js)
  BY Zenon, <1>2, <1>5 DEF EachGiven, WrittenArtifacts
<1>12. TakenArtifacts(cs) = bs
  BY Zenon, <1>6, <1>11 DEF TakenArtifacts
<1>13. EachGiven(ToCoreArtifact, TakenArtifacts(cs)) = Each(ToCoreArtifact, bs)
  BY Zenon, <1>9, <1>12 DEF EachGiven
<1> QED BY Zenon, <1>5, <1>9, <1>10, <1>13

KeptTask(lossy, a, c) == PlainTask(lossy, a) = PlainTask(lossy, c)

LEMMA TaskMade ==
    ASSUME NEW lossy \in BOOLEAN, NEW c \in CoreTask, NEW t, t.id = c.id,
           t.context_id = c.context_id, KeptStatus(lossy, ToCoreTaskStatus(t.status), c.status),
           PlainMessages(lossy, EachGiven(ToCoreMessage, t.history)) = PlainMessages(lossy, c.history),
           PlainArtifacts(EachGiven(ToCoreArtifact, t.artifacts)) = PlainArtifacts(c.artifacts),
           NoKeysAbsent(t.metadata) = NoKeysAbsent(c.metadata)
    PROVE  KeptTask(lossy, ToCoreTask(t), c)
<1>1. PICK s : s = ToCoreTaskStatus(t.status)
  OBVIOUS
<1>2. PICK h : h = EachGiven(ToCoreMessage, t.history)
  OBVIOUS
<1>3. PICK as : as = EachGiven(ToCoreArtifact, t.artifacts)
  OBVIOUS
<1>4. PICK d : d = NoKeysAbsent(c.metadata)
  OBVIOUS
<1>5. PICK q : q = ToCoreTask(t)
  OBVIOUS
<1>6. q = [id |-> c.id, context_id |-> c.context_id, status |-> s, history |-> h,
           artifacts |-> as, metadata |-> d]
  BY Zenon, <1>1, <1>2, <1>3, <1>4, <1>5 DEF ToCoreTask
<1>7. NoKeysAbsent(d) = d
  BY <1>4, DictBack DEF CoreTask
<1>8. PlainStatus(lossy, s) = PlainStatus(lossy, c.status)
  BY Zenon, <1>1 DEF KeptStatus
<1>9. PlainMessages(lossy, h) = PlainMessages(lossy, c.history)
  BY Zenon, <1>2
<1>10. PlainArtifacts(as) = PlainArtifacts(c.artifacts)
  BY Zenon, <1>3
<1>11. \A x : PlainTask(lossy, x) =
         [id |-> x.id, context_id |-> x.context_id, status |-> PlainStatus(lossy, x.status),
          history |-> PlainMessages(lossy, x.history), artifacts |-> PlainArtifacts(x.artifacts),
          metadata |-> NoKeysAbsent(x.metadata)]
  BY DEF PlainTask, PlainMessages, PlainArtifacts, Each
<1>12. /\ q.id = c.id /\ q.context_id = c.context_id /\ q.status = s /\ q.history = h
       /\ q.artifacts = as /\ q.metadata = d
  BY <1>6
<1>13. PlainTask(lossy, q) = PlainTask(lossy, c)
  BY Zenon, <1>4, <1>7, <1>8, <1>9, <1>10, <1>11, <1>12
<1> QED BY Zenon, <1>5, <1>13 DEF KeptTask

LEMMA TaskBack ==
    ASSUME NEW c \in CoreTask
    PROVE  /\ KeptTask(FALSE, ToCoreTask(ToCompatTask(c)), c)
           /\ KeptTask(TRUE, ToCoreTask(TakeTask(PutTask(ToCompatTask(c)))), c)
<1>1. /\ c.status \in CompatOpt(CoreTaskStatus) /\ c.history \in Seq(CoreMessage)
      /\ c.artifacts \in Seq(CoreArtifact) /\ c.metadata \in CoreDict
  BY DEF CoreTask
<1>2. PICK t : t = ToCompatTask(c)
  OBVIOUS
<1>3. PICK s : s = WrittenStatus(c.status)
  OBVIOUS
<1>4. PICK h : h = WrittenHistory(c.history)
  OBVIOUS
<1>5. PICK as : as = WrittenArtifacts(c.artifacts)
  OBVIOUS
<1>6. t = [kind |-> "task", id |-> c.id, context_id |-> c.context_id, status |-> s,
           history |-> h, artifacts |-> as, metadata |-> c.metadata]
  BY Zenon, <1>2, <1>3, <1>4, <1>5 DEF ToCompatTask, WrittenStatus, WrittenHistory, WrittenArtifacts
<1>7. /\ t.id = c.id /\ t.context_id = c.context_id /\ t.status = s /\ t.history = h
      /\ t.artifacts = as /\ t.metadata = c.metadata
  BY <1>6
<1>8. KeptTask(FALSE, ToCoreTask(t), c)
  <2>1. KeptStatus(FALSE, ToCoreTaskStatus(t.status), c.status)
    BY Zenon, <1>1, <1>3, <1>7, StatusBack
  <2>2. PlainMessages(FALSE, EachGiven(ToCoreMessage, t.history)) = PlainMessages(FALSE, c.history)
    BY Zenon, <1>1, <1>4, <1>7, HistoryBack
  <2>3. PlainArtifacts(EachGiven(ToCoreArtifact, t.artifacts)) = PlainArtifacts(c.artifacts)
    BY Zenon, <1>1, <1>5, <1>7, ArtifactsBack
  <2> QED BY <1>7, <2>1, <2>2, <2>3, TaskMade
<1>9. PICK u : u = PutTask(t)
  OBVIOUS
<1>10. PICK v : v = TakeTask(u)
  OBVIOUS
<1>11. PICK ps : ps = PutTaskStatus(s)
  OBVIOUS
<1>12. PICK ph : ph = EachGiven(PutMessage, h)
  OBVIOUS
<1>13. PICK pa : pa = EachGiven(PutArtifact, as)
  OBVIOUS
<1>14. u = [t EXCEPT !.status = ps, !.artifacts = pa, !.history = ph]
  BY Zenon, <1>7, <1>9, <1>11, <1>12, <1>13 DEF PutTask
<1>15. /\ u.id = c.id /\ u.context_id = c.context_id /\ u.status = ps /\ u.history = ph
       /\ u.artifacts = pa /\ u.metadata = c.metadata
       /\ DOMAIN u = {"kind", "id", "context_id", "status", "history", "artifacts", "metadata"}
  BY <1>6, <1>14
<1>16. PICK ts : ts = TakeTaskStatus(ps)
  OBVIOUS
<1>17. PICK th : th = Each(TakeMessage, ph)
  OBVIOUS
<1>18. PICK ta : ta = Each(TakeArtifact, pa)
  OBVIOUS
<1>19. v = [u EXCEPT !.status = ts, !.artifacts = ta, !.history = th, !.metadata = NoKeys(c.metadata)]
  BY Zenon, <1>10, <1>15, <1>16, <1>17, <1>18 DEF TakeTask
<1>20. /\ v.id = c.id /\ v.context_id = c.context_id /\ v.status = ts /\ v.history = th
       /\ v.artifacts = ta /\ v.metadata = NoKeys(c.metadata)
  BY <1>15, <1>19
<1>21. KeptTask(TRUE, ToCoreTask(v), c)
  <2>1. ts = TakenStatus(c.status)
    BY Zenon, <1>3, <1>11, <1>16 DEF TakenStatus
  <2>2. KeptStatus(TRUE, ToCoreTaskStatus(v.status), c.status)
    BY Zenon, <1>1, <1>20, <2>1, StatusBack
  <2>3. th = TakenHistory(c.history)
    BY Zenon, <1>4, <1>12, <1>17 DEF TakenHistory
  <2>4. PlainMessages(TRUE, EachGiven(ToCoreMessage, v.history)) = PlainMessages(TRUE, c.history)
    BY Zenon, <1>1, <1>20, <2>3, HistoryBack
  <2>5. ta = TakenArtifacts(c.artifacts)
    BY Zenon, <1>5, <1>13, <1>18 DEF TakenArtifacts
  <2>6. PlainArtifacts(EachGiven(ToCoreArtifact, v.artifacts)) = PlainArtifacts(c.artifacts)
    BY Zenon, <1>1, <1>20, <2>5, ArtifactsBack
  <2>7. NoKeysAbsent(v.metadata) = NoKeysAbsent(c.metadata)
    BY <1>1, <1>20, DictBack
  <2> QED BY <1>20, <2>2, <2>4, <2>6, <2>7, TaskMade
<1> QED BY Zenon, <1>2, <1>8, <1>9, <1>10, <1>21

LEMMA StatusUpdateMade ==
    ASSUME NEW lossy \in BOOLEAN, NEW c \in CoreStatusUpdate, NEW e, e.task_id = c.task_id,
           e.context_id = c.context_id, KeptStatus(lossy, ToCoreTaskStatus(e.status), c.status),
           NoKeysAbsent(e.metadata) = NoKeysAbsent(c.metadata)
    PROVE  PlainStatusUpdate(lossy, ToCoreStatusUpdate(e)) = PlainStatusUpdate(lossy, c)
<1>1. PICK s : s = ToCoreTaskStatus(e.status)
  OBVIOUS
<1>2. PICK d : d = NoKeysAbsent(c.metadata)
  OBVIOUS
<1>3. PICK q : q = ToCoreStatusUpdate(e)
  OBVIOUS
<1>4. q = [task_id |-> c.task_id, context_id |-> c.context_id, status |-> s, metadata |-> d]
  BY Zenon, <1>1, <1>2, <1>3 DEF ToCoreStatusUpdate
<1>5. q.task_id = c.task_id /\ q.context_id = c.context_id /\ q.status = s /\ q.metadata = d
  BY <1>4
<1>6. NoKeysAbsent(d) = d
  BY <1>2, DictBack DEF CoreStatusUpdate
<1>7. PlainStatus(lossy, s) = PlainStatus(lossy, c.status)
  BY Zenon, <1>1 DEF KeptStatus
<1>8. PlainStatusUpdate(lossy, q) = PlainStatusUpdate(lossy, c)
  BY Zenon, <1>2, <1>5, <1>6, <1>7 DEF PlainStatusUpdate
<1> QED BY Zenon, <1>3, <1>8

LEMMA StatusUpdateBack ==
    ASSUME NEW c \in CoreStatusUpdate
    PROVE  /\ PlainStatusUpdate(FALSE, ToCoreStatusUpdate(ToCompatStatusUpdate(c)))
                = PlainStatusUpdate(FALSE, c)
           /\ PlainStatusUpdate(TRUE, ToCoreStatusUpdate(TakeStatusUpdate(PutStatusUpdate(
                                                              ToCompatStatusUpdate(c)))))
                = PlainStatusUpdate(TRUE, c)
<1>1. c.status \in CompatOpt(CoreTaskStatus) /\ c.metadata \in CoreDict
  BY DEF CoreStatusUpdate
<1>2. PICK s : s = WrittenStatus(c.status)
  OBVIOUS
<1>3. PICK e : e = ToCompatStatusUpdate(c)
  OBVIOUS
<1>4. PICK f : f = (s.state \in {"completed", "canceled", "failed", "rejected"})
  OBVIOUS
<1>5. e = [kind |-> "status-update", task_id |-> c.task_id, context_id |-> c.context_id,
           status |-> s, metadata |-> c.metadata, final |-> f]
  BY Zenon, <1>2, <1>3, <1>4 DEF ToCompatStatusUpdate, WrittenStatus
<1>6. /\ e.task_id = c.task_id /\ e.context_id = c.context_id /\ e.status = s
      /\ e.metadata = c.metadata
  BY <1>5
<1>7. KeptStatus(FALSE, ToCoreTaskStatus(e.status), c.status)
  BY Zenon, <1>1, <1>2, <1>6, StatusBack
<1>8. PICK ps : ps = PutTaskStatus(s)
  OBVIOUS
<1>9. PICK ts : ts = TakeTaskStatus(ps)
  OBVIOUS
<1>10. PICK u : u = PutStatusUpdate(e)
  OBVIOUS
<1>11. PICK v : v = TakeStatusUpdate(u)
  OBVIOUS
<1>12. u = [e EXCEPT !.status = ps]
  BY Zenon, <1>6, <1>8, <1>10 DEF PutStatusUpdate
<1>13. /\ u.task_id = c.task_id /\ u.context_id = c.context_id /\ u.status = ps
       /\ u.metadata = c.metadata
       /\ DOMAIN u = {"kind", "task_id", "context_id", "status", "metadata", "final"}
  BY <1>5, <1>12
<1>14. v = [u EXCEPT !.status = ts, !.metadata = NoKeys(c.metadata)]
  BY Zenon, <1>9, <1>11, <1>13 DEF TakeStatusUpdate
<1>15. /\ v.task_id = c.task_id /\ v.context_id = c.context_id /\ v.status = ts
       /\ v.metadata = NoKeys(c.metadata)
  BY <1>13, <1>14
<1>16. ts = TakenStatus(c.status)
  BY Zenon, <1>2, <1>8, <1>9 DEF TakenStatus
<1>17. KeptStatus(TRUE, ToCoreTaskStatus(v.status), c.status)
  BY Zenon, <1>1, <1>15, <1>16, StatusBack
<1>18. NoKeysAbsent(v.metadata) = NoKeysAbsent(c.metadata)
  BY <1>1, <1>15, DictBack
<1>19. PlainStatusUpdate(FALSE, ToCoreStatusUpdate(e)) = PlainStatusUpdate(FALSE, c)
  BY <1>6, <1>7, StatusUpdateMade
<1>20. PlainStatusUpdate(TRUE, ToCoreStatusUpdate(v)) = PlainStatusUpdate(TRUE, c)
  BY <1>15, <1>17, <1>18, StatusUpdateMade
<1> QED BY Zenon, <1>3, <1>10, <1>11, <1>19, <1>20

LEMMA ArtifactUpdateMade ==
    ASSUME NEW c \in CoreArtifactUpdate, NEW e, e.task_id = c.task_id,
           e.context_id = c.context_id, ArtifactOf(e.artifact, c.artifact),
           (e.append = TRUE) = c.append, (e.last_chunk = TRUE) = c.last_chunk,
           NoKeysAbsent(e.metadata) = NoKeysAbsent(c.metadata)
    PROVE  PlainArtifactUpdate(ToCoreArtifactUpdate(e)) = PlainArtifactUpdate(c)
<1>1. PICK a : a = ToCoreArtifact(e.artifact)
  OBVIOUS
<1>2. PICK d : d = NoKeysAbsent(c.metadata)
  OBVIOUS
<1>3. PICK q : q = ToCoreArtifactUpdate(e)
  OBVIOUS
<1>4. q = [task_id |-> c.task_id, context_id |-> c.context_id, artifact |-> a,
           append |-> c.append, last_chunk |-> c.last_chunk, metadata |-> d]
  BY Zenon, <1>1, <1>2, <1>3 DEF ToCoreArtifactUpdate
<1>5. /\ q.task_id = c.task_id /\ q.context_id = c.context_id /\ q.artifact = a
      /\ q.append = c.append /\ q.last_chunk = c.last_chunk /\ q.metadata = d
  BY <1>4
<1>6. NoKeysAbsent(d) = d
  BY <1>2, DictBack DEF CoreArtifactUpdate
<1>7. PlainArtifact(a) = PlainArtifact(c.artifact)
  BY Zenon, <1>1 DEF ArtifactOf, KeptArtifact
<1>8. PlainArtifactUpdate(q) = PlainArtifactUpdate(c)
  BY Zenon, <1>2, <1>5, <1>6, <1>7 DEF PlainArtifactUpdate
<1> QED BY Zenon, <1>3, <1>8

LEMMA ArtifactUpdateBack ==
    ASSUME NEW c \in CoreArtifactUpdate
    PROVE  /\ PlainArtifactUpdate(ToCoreArtifactUpdate(ToCompatArtifactUpdate(c)))
                = PlainArtifactUpdate(c)
           /\ PlainArtifactUpdate(ToCoreArtifactUpdate(TakeArtifactUpdate(PutArtifactUpdate(
                                                           ToCompatArtifactUpdate(c)))))
                = PlainArtifactUpdate(c)
<1>1. /\ c.artifact \in CoreArtifact /\ c.metadata \in CoreDict
      /\ c.append \in BOOLEAN /\ c.last_chunk \in BOOLEAN
  BY DEF CoreArtifactUpdate
<1>2. PICK a : a = ToCompatArtifact(c.artifact)
  OBVIOUS
<1>3. PICK e : e = ToCompatArtifactUpdate(c)
  OBVIOUS
<1>4. e = [kind |-> "artifact-update", task_id |-> c.task_id, context_id |-> c.context_id,
           artifact |-> a, append |-> c.append, last_chunk |-> c.last_chunk,
           metadata |-> c.metadata]
  BY Zenon, <1>2, <1>3 DEF ToCompatArtifactUpdate
<1>5. /\ e.task_id = c.task_id /\ e.context_id = c.context_id /\ e.artifact = a
      /\ e.append = c.append /\ e.last_chunk = c.last_chunk /\ e.metadata = c.metadata
  BY <1>4
<1>6. PICK pa : pa = PutArtifact(a)
  OBVIOUS
<1>7. PICK ta : ta = TakeArtifact(pa)
  OBVIOUS
<1>8. ArtifactOf(a, c.artifact) /\ ArtifactOf(ta, c.artifact)
  BY Zenon, <1>1, <1>2, <1>6, <1>7, ArtifactBack
<1>9. (c.append = TRUE) = c.append /\ (c.last_chunk = TRUE) = c.last_chunk
  BY <1>1
<1>10. PICK u : u = PutArtifactUpdate(e)
  OBVIOUS
<1>11. PICK v : v = TakeArtifactUpdate(u)
  OBVIOUS
<1>12. u = [e EXCEPT !.artifact = pa, !.append = c.append, !.last_chunk = c.last_chunk]
  BY Zenon, <1>5, <1>6, <1>9, <1>10 DEF PutArtifactUpdate
<1>13. /\ u.task_id = c.task_id /\ u.context_id = c.context_id /\ u.artifact = pa
       /\ u.append = c.append /\ u.last_chunk = c.last_chunk /\ u.metadata = c.metadata
       /\ DOMAIN u = {"kind", "task_id", "context_id", "artifact", "append", "last_chunk", "metadata"}
  BY ONLY <1>4, <1>12
<1>14. v = [u EXCEPT !.artifact = ta, !.metadata = NoKeys(c.metadata)]
  BY Zenon, <1>7, <1>11, <1>13 DEF TakeArtifactUpdate
<1>15. /\ v.task_id = c.task_id /\ v.context_id = c.context_id /\ v.artifact = ta
       /\ v.append = c.append /\ v.last_chunk = c.last_chunk /\ v.metadata = NoKeys(c.metadata)
  BY ONLY <1>13, <1>14
<1>16. NoKeysAbsent(v.metadata) = NoKeysAbsent(c.metadata)
  BY <1>1, <1>15, DictBack
<1>17. ArtifactOf(e.artifact, c.artifact) /\ (e.append = TRUE) = c.append
       /\ (e.last_chunk = TRUE) = c.last_chunk /\ NoKeysAbsent(e.metadata) = NoKeysAbsent(c.metadata)
  BY Zenon, <1>5, <1>8, <1>9
<1>18. ArtifactOf(v.artifact, c.artifact) /\ (v.append = TRUE) = c.append
       /\ (v.last_chunk = TRUE) = c.last_chunk
  BY Zenon, <1>15, <1>8, <1>9
<1>19. PlainArtifactUpdate(ToCoreArtifactUpdate(e)) = PlainArtifactUpdate(c)
  BY Zenon, <1>5, <1>17, ArtifactUpdateMade
<1>20. PlainArtifactUpdate(ToCoreArtifactUpdate(v)) = PlainArtifactUpdate(c)
  BY Zenon, <1>15, <1>16, <1>18, ArtifactUpdateMade
<1> QED BY Zenon, <1>3, <1>10, <1>11, <1>19, <1>20

(* Events are told apart by their kind on the way.                          *)
KeptEvent(lossy, a, c) == PlainEvent(lossy, a) = PlainEvent(lossy, c)

LEMMA EventKept ==
    ASSUME NEW lossy, NEW a, NEW v, NEW w, NEW e, e = [which |-> w, value |-> a],
           NEW c, c = [which |-> w, value |-> v],
           \/ w = "message" /\ PlainMessage(lossy, a) = PlainMessage(lossy, v)
           \/ w = "task" /\ PlainTask(lossy, a) = PlainTask(lossy, v)
           \/ w = "status_update" /\ PlainStatusUpdate(lossy, a) = PlainStatusUpdate(lossy, v)
           \/ w = "artifact_update" /\ PlainArtifactUpdate(a) = PlainArtifactUpdate(v)
    PROVE  KeptEvent(lossy, e, c)
BY DEF KeptEvent, PlainEvent

LEMMA MessageEventBack ==
    ASSUME NEW v \in CoreMessage, NEW c, c = [which |-> "message", value |-> v]
    PROVE  /\ KeptEvent(FALSE, ToCoreEvent(ToCompatEvent(c)), c)
           /\ KeptEvent(TRUE, ToCoreEvent(TakeEvent(PutEvent(ToCompatEvent(c)))), c)
<1>1. PICK j : j = ToCompatMessage(v)
  OBVIOUS
<1>2. PICK p : p = PutMessage(j)
  OBVIOUS
<1>3. PICK t : t = TakeMessage(p)
  OBVIOUS
<1>4. MessageOf(FALSE, j, v) /\ MessageOf(TRUE, t, v)
  BY Zenon, <1>1, <1>2, <1>3, JsonMessageBack, ProtoMessageBack
<1>5. j \in CompatMessage /\ p \in CompatMessage /\ t \in CompatMessage
  BY <1>2, <1>4, PutMessageTyped DEF MessageOf
<1>6. j.kind = "message" /\ p.kind = "message" /\ t.kind = "message"
  BY <1>5 DEF CompatMessage
<1>7. ToCompatEvent(c) = j
  BY <1>1 DEF ToCompatEvent
<1>8. PutEvent(j) = p /\ TakeEvent(p) = t
  BY <1>2, <1>3, <1>6 DEF PutEvent, TakeEvent
<1>9. /\ ToCoreEvent(j) = [which |-> "message", value |-> ToCoreMessage(j)]
      /\ ToCoreEvent(t) = [which |-> "message", value |-> ToCoreMessage(t)]
  BY <1>6 DEF ToCoreEvent
<1>10. /\ PlainMessage(FALSE, ToCoreMessage(j)) = PlainMessage(FALSE, v)
       /\ PlainMessage(TRUE, ToCoreMessage(t)) = PlainMessage(TRUE, v)
  BY Zenon, <1>4 DEF MessageOf, KeptMessage
<1>11. KeptEvent(FALSE, ToCoreEvent(j), c)
  BY Zenon, <1>9, <1>10, EventKept
<1>12. KeptEvent(TRUE, ToCoreEvent(t), c)
  BY Zenon, <1>9, <1>10, EventKept
<1> QED BY Zenon, <1>7, <1>8, <1>11, <1>12

LEMMA TaskEventBack ==
    ASSUME NEW v \in CoreTask, NEW c, c = [which |-> "task", value |-> v]
    PROVE  /\ KeptEvent(FALSE, ToCoreEvent(ToCompatEvent(c)), c)
           /\ KeptEvent(TRUE, ToCoreEvent(TakeEvent(PutEvent(ToCompatEvent(c)))), c)
<1>1. PICK j : j = ToCompatTask(v)
  OBVIOUS
<1>2. PICK p : p = PutTask(j)
  OBVIOUS
<1>3. PICK t : t = TakeTask(p)
  OBVIOUS
<1>4. KeptTask(FALSE, ToCoreTask(j), v) /\ KeptTask(TRUE, ToCoreTask(t), v)
  BY Zenon, <1>1, <1>2, <1>3, TaskBack
<1>5. /\ j.kind = "task"
      /\ DOMAIN j = {"kind", "id", "context_id", "status", "history", "artifacts", "metadata"}
  BY <1>1 DEF ToCompatTask
<1>6. p.kind = "task" /\ DOMAIN p = DOMAIN j
  BY <1>2, <1>5 DEF PutTask
<1>7. t.kind = "task"
  BY <1>3, <1>5, <1>6 DEF TakeTask
<1>8. ToCompatEvent(c) = j
  BY <1>1 DEF ToCompatEvent
<1>9. PutEvent(j) = p /\ TakeEvent(p) = t
  BY <1>2, <1>3, <1>5, <1>6 DEF PutEvent, TakeEvent
<1>10. /\ ToCoreEvent(j) = [which |-> "task", value |-> ToCoreTask(j)]
       /\ ToCoreEvent(t) = [which |-> "task", value |-> ToCoreTask(t)]
  BY <1>5, <1>7 DEF ToCoreEvent
<1>11. KeptEvent(FALSE, ToCoreEvent(j), c)
  BY Zenon, <1>4, <1>10, EventKept DEF KeptTask
<1>12. KeptEvent(TRUE, ToCoreEvent(t), c)
  BY Zenon, <1>4, <1>10, EventKept DEF KeptTask
<1> QED BY Zenon, <1>8, <1>9, <1>11, <1>12

LEMMA StatusEventBack ==
    ASSUME NEW v \in CoreStatusUpdate, NEW c, c = [which |-> "status_update", value |-> v]
    PROVE  /\ KeptEvent(FALSE, ToCoreEvent(ToCompatEvent(c)), c)
           /\ KeptEvent(TRUE, ToCoreEvent(TakeEvent(PutEvent(ToCompatEvent(c)))), c)
<1>1. PICK j : j = ToCompatStatusUpdate(v)
  OBVIOUS
<1>2. PICK p : p = PutStatusUpdate(j)
  OBVIOUS
<1>3. PICK t : t = TakeStatusUpdate(p)
  OBVIOUS
<1>4. /\ PlainStatusUpdate(FALSE, ToCoreStatusUpdate(j)) = PlainStatusUpdate(FALSE, v)
      /\ PlainStatusUpdate(TRUE, ToCoreStatusUpdate(t)) = PlainStatusUpdate(TRUE, v)
  BY Zenon, <1>1, <1>2, <1>3, StatusUpdateBack
<1>5. /\ j.kind = "status-update"
      /\ DOMAIN j = {"kind", "task_id", "context_id", "status", "metadata", "final"}
  BY <1>1 DEF ToCompatStatusUpdate
<1>6. p.kind = "status-update" /\ DOMAIN p = DOMAIN j
  BY <1>2, <1>5 DEF PutStatusUpdate
<1>7. t.kind = "status-update"
  BY <1>3, <1>5, <1>6 DEF TakeStatusUpdate
<1>8. ToCompatEvent(c) = j
  BY <1>1 DEF ToCompatEvent
<1>9. PutEvent(j) = p /\ TakeEvent(p) = t
  BY <1>2, <1>3, <1>5, <1>6 DEF PutEvent, TakeEvent
<1>10. /\ ToCoreEvent(j) = [which |-> "status_update", value |-> ToCoreStatusUpdate(j)]
       /\ ToCoreEvent(t) = [which |-> "status_update", value |-> ToCoreStatusUpdate(t)]
  BY <1>5, <1>7 DEF ToCoreEvent
<1>11. KeptEvent(FALSE, ToCoreEvent(j), c)
  BY Zenon, <1>4, <1>10, EventKept
<1>12. KeptEvent(TRUE, ToCoreEvent(t), c)
  BY Zenon, <1>4, <1>10, EventKept
<1> QED BY Zenon, <1>8, <1>9, <1>11, <1>12

LEMMA ArtifactEventBack ==
    ASSUME NEW v \in CoreArtifactUpdate, NEW c, c = [which |-> "artifact_update", value |-> v]
    PROVE  /\ KeptEvent(FALSE, ToCoreEvent(ToCompatEvent(c)), c)
           /\ KeptEvent(TRUE, ToCoreEvent(TakeEvent(PutEvent(ToCompatEvent(c)))), c)
<1>1. PICK j : j = ToCompatArtifactUpdate(v)
  OBVIOUS
<1>2. PICK p : p = PutArtifactUpdate(j)
  OBVIOUS
<1>3. PICK t : t = TakeArtifactUpdate(p)
  OBVIOUS
<1>4. /\ PlainArtifactUpdate(ToCoreArtifactUpdate(j)) = PlainArtifactUpdate(v)
      /\ PlainArtifactUpdate(ToCoreArtifactUpdate(t)) = PlainArtifactUpdate(v)
  BY Zenon, <1>1, <1>2, <1>3, ArtifactUpdateBack
<1>5. /\ j.kind = "artifact-update"
      /\ DOMAIN j = {"kind", "task_id", "context_id", "artifact", "append", "last_chunk", "metadata"}
  BY <1>1 DEF ToCompatArtifactUpdate
<1>6. p.kind = "artifact-update" /\ DOMAIN p = DOMAIN j
  BY <1>2, <1>5 DEF PutArtifactUpdate
<1>7. t.kind = "artifact-update"
  BY <1>3, <1>5, <1>6 DEF TakeArtifactUpdate
<1>8. ToCompatEvent(c) = j
  BY <1>1 DEF ToCompatEvent
<1>9. PutEvent(j) = p /\ TakeEvent(p) = t
  BY <1>2, <1>3, <1>5, <1>6 DEF PutEvent, TakeEvent
<1>10. /\ ToCoreEvent(j) = [which |-> "artifact_update", value |-> ToCoreArtifactUpdate(j)]
       /\ ToCoreEvent(t) = [which |-> "artifact_update", value |-> ToCoreArtifactUpdate(t)]
  BY <1>5, <1>7 DEF ToCoreEvent
<1>11. KeptEvent(FALSE, ToCoreEvent(j), c)
  BY Zenon, <1>4, <1>10, EventKept
<1>12. KeptEvent(TRUE, ToCoreEvent(t), c)
  BY Zenon, <1>4, <1>10, EventKept
<1> QED BY Zenon, <1>8, <1>9, <1>11, <1>12

LEMMA EventBack ==
    ASSUME NEW c \in CoreEvent
    PROVE  /\ KeptEvent(FALSE, ToCoreEvent(ToCompatEvent(c)), c)
           /\ KeptEvent(TRUE, ToCoreEvent(TakeEvent(PutEvent(ToCompatEvent(c)))), c)
<1>1. c = [which |-> c.which, value |-> c.value]
  BY DEF CoreEvent
<1>2. \/ c.which = "message" /\ c.value \in CoreMessage
      \/ c.which = "task" /\ c.value \in CoreTask
      \/ c.which = "status_update" /\ c.value \in CoreStatusUpdate
      \/ c.which = "artifact_update" /\ c.value \in CoreArtifactUpdate
  BY DEF CoreEvent
<1> QED BY Zenon, <1>1, <1>2, MessageEventBack, TaskEventBack, StatusEventBack, ArtifactEventBack

(* ---- push notification configs ---- *)
LEMMA AuthenticationBack ==
    ASSUME NEW c \in CompatOpt(CoreAuthenticationInfo), NEW j, j = Given(ToCompatAuthenticationInfo, c),
           NEW p, p = Given(PutAuthenticationInfo, j)
    PROVE  /\ Given(ToCoreAuthenticationInfo, j) = c /\ Given(ToCoreAuthenticationInfo, p) = c
           /\ j \in CompatOpt(PushNotificationAuthenticationInfo)
           /\ p \in CompatOpt(PushNotificationAuthenticationInfo)
<1>1. CASE c = Absent
  BY <1>1 DEF Given, CompatOpt
<1>2. CASE c # Absent
  <2>1. c.scheme \in CompatStr /\ c.credentials \in CompatStr
        /\ c = [scheme |-> c.scheme, credentials |-> c.credentials]
    BY <1>2 DEF CompatOpt, CoreAuthenticationInfo
  <2> DEFINE bc == BlankAbsent(c.credentials)
  <2>2. PICK ss : ss = IF c.scheme = "" THEN <<>> ELSE <<c.scheme>>
    OBVIOUS
  <2>3. ss \in Seq(CompatStr) /\ (IF ss = <<>> THEN "" ELSE Head(ss)) = c.scheme
    <3>1. CASE c.scheme = ""
      <4>1. ss = <<>>
        BY <2>2, <3>1
      <4>2. ss \in Seq(CompatStr)
        BY <4>1
      <4> QED BY Zenon, <3>1, <4>1, <4>2
    <3>2. CASE c.scheme # ""
      <4>1. ss = <<c.scheme>>
        BY <2>2, <3>2
      <4> QED BY <2>1, <4>1
    <3> QED BY <3>1, <3>2
  <2>4. /\ bc \in CompatOpt(CompatStr) /\ OrBlank(bc) = c.credentials
        /\ OrBlank(c.credentials) = c.credentials /\ c.credentials \in CompatOpt(CompatStr)
    BY <2>1, TextBack DEF CompatOpt
  <2> HIDE DEF bc
  <2>5. j = [schemes |-> ss, credentials |-> bc]
    BY Zenon, <1>2, <2>2 DEF Given, ToCompatAuthenticationInfo, bc
  <2>6. j \in PushNotificationAuthenticationInfo /\ j # Absent
    <3>1. j \in PushNotificationAuthenticationInfo
      BY ONLY <2>3, <2>4, <2>5 DEF PushNotificationAuthenticationInfo
    <3> QED BY <3>1, AbsentIsNoValue
  <2>7. j.schemes = ss /\ j.credentials = bc
    BY ONLY <2>5
  <2>8. p = [j EXCEPT !.credentials = c.credentials]
    BY Zenon, <2>4, <2>6, <2>7 DEF Given, PutAuthenticationInfo
  <2>9. p.schemes = ss /\ p.credentials = c.credentials
    BY ONLY <2>5, <2>8
  <2>10. p \in PushNotificationAuthenticationInfo /\ p # Absent
    <3>1. p \in PushNotificationAuthenticationInfo
      BY ONLY <2>4, <2>6, <2>8 DEF PushNotificationAuthenticationInfo
    <3> QED BY <3>1, AbsentIsNoValue
  <2>11. ToCoreAuthenticationInfo(j) = c /\ ToCoreAuthenticationInfo(p) = c
    BY Zenon, <2>1, <2>3, <2>4, <2>7, <2>9 DEF ToCoreAuthenticationInfo
  <2> QED BY Zenon, <2>6, <2>10, <2>11 DEF Given, CompatOpt
<1> QED BY <1>1, <1>2

PushFor(c, task) ==
    [task_id |-> task, url |-> c.url, id |-> c.id, token |-> c.token,
     authentication |-> c.authentication]

LEMMA PushBack ==
    ASSUME NEW c \in CorePushConfig, NEW task, NEW j, j = ToCompatPushConfig(c),
           NEW p, p = PutPushConfig(j)
    PROVE  /\ j \in PushNotificationConfig /\ p \in PushNotificationConfig
           /\ ToCorePushConfig(j, task) = PushFor(c, task)
           /\ ToCorePushConfig(p, task) = PushFor(c, task)
           /\ j.id = BlankAbsent(c.id)
<1>1. /\ c.url \in CompatStr /\ c.id \in CompatStr /\ c.token \in CompatStr
      /\ c.authentication \in CompatOpt(CoreAuthenticationInfo)
  BY DEF CorePushConfig
<1>2. PICK ja : ja = Given(ToCompatAuthenticationInfo, c.authentication)
  OBVIOUS
<1>3. PICK pa : pa = Given(PutAuthenticationInfo, ja)
  OBVIOUS
<1>4. /\ Given(ToCoreAuthenticationInfo, ja) = c.authentication
      /\ Given(ToCoreAuthenticationInfo, pa) = c.authentication
      /\ ja \in CompatOpt(PushNotificationAuthenticationInfo)
      /\ pa \in CompatOpt(PushNotificationAuthenticationInfo)
  BY Zenon, <1>1, <1>2, <1>3, AuthenticationBack
<1>5. \A s \in CompatStr : /\ BlankAbsent(s) \in CompatOpt(CompatStr) /\ s \in CompatOpt(CompatStr)
                           /\ OrBlank(BlankAbsent(s)) = s /\ OrBlank(s) = s
  BY TextBack DEF CompatOpt
<1>6. j = [url |-> c.url, id |-> BlankAbsent(c.id), token |-> BlankAbsent(c.token),
           authentication |-> ja]
  BY Zenon, <1>2 DEF ToCompatPushConfig
<1>7. j \in PushNotificationConfig
  BY <1>1, <1>4, <1>5, <1>6 DEF PushNotificationConfig
<1>8. j.url = c.url /\ j.authentication = ja /\ j.id = BlankAbsent(c.id) /\ j.token = BlankAbsent(c.token)
  BY <1>6
<1>9. OrBlank(j.id) = c.id /\ OrBlank(j.token) = c.token
  BY <1>1, <1>5, <1>8
<1>10. p = [j EXCEPT !.id = c.id, !.token = c.token, !.authentication = pa]
  BY Zenon, <1>3, <1>8, <1>9 DEF PutPushConfig
<1>11. p.url = c.url /\ p.id = c.id /\ p.token = c.token /\ p.authentication = pa
  BY ONLY <1>6, <1>10
<1>12. p \in PushNotificationConfig
  BY ONLY <1>1, <1>4, <1>5, <1>7, <1>10 DEF PushNotificationConfig
<1>13. OrBlank(p.id) = c.id /\ OrBlank(p.token) = c.token
  BY <1>1, <1>5, <1>11
<1>14. ToCorePushConfig(j, task) = PushFor(c, task)
  BY Zenon, <1>4, <1>8, <1>9 DEF ToCorePushConfig, PushFor
<1>15. ToCorePushConfig(p, task) = PushFor(c, task)
  BY Zenon, <1>4, <1>11, <1>13 DEF ToCorePushConfig, PushFor
<1> QED BY Zenon, <1>7, <1>8, <1>12, <1>14, <1>15

\* a config and its task, back where the client can read the name, and without its name
NameRead(c) == TASK_PUSH_CONFIG_NAME_MATCH(PutTaskPushConfig(ToCompatTaskPushConfig(c)).name)
LEMMA TaskPushBack ==
    ASSUME NEW c \in CorePushConfig
    PROVE  /\ ToCoreTaskPushConfig(ToCompatTaskPushConfig(c)) = c
           /\ NameRead(c) =>
                ToCoreTaskPushConfig(TakeTaskPushConfig(PutTaskPushConfig(ToCompatTaskPushConfig(c)))) = c
           /\ \A task : ToCoreTaskPushConfig(
                [task_id |-> task, push_notification_config |->
                   PutTaskPushConfig(ToCompatTaskPushConfig(c)).push_notification_config])
                     = [c EXCEPT !.task_id = task]
<1>1. PICK j : j = ToCompatPushConfig(c)
  OBVIOUS
<1>2. PICK p : p = PutPushConfig(j)
  OBVIOUS
<1>3. \A task : /\ ToCorePushConfig(j, task) = PushFor(c, task)
                /\ ToCorePushConfig(p, task) = PushFor(c, task)
  BY Zenon, <1>1, <1>2, PushBack
<1>4. PushFor(c, c.task_id) = c /\ \A task : PushFor(c, task) = [c EXCEPT !.task_id = task]
  BY DEF PushFor, CorePushConfig
<1>5. PICK w : w = ToCompatTaskPushConfig(c)
  OBVIOUS
<1>6. w = [task_id |-> c.task_id, push_notification_config |-> j]
  BY Zenon, <1>1, <1>5 DEF ToCompatTaskPushConfig
<1>7. w.task_id = c.task_id /\ w.push_notification_config = j
  BY <1>6
<1>8. ToCoreTaskPushConfig(w) = c
  BY Zenon, <1>3, <1>4, <1>7 DEF ToCoreTaskPushConfig
<1>9. PICK u : u = PutTaskPushConfig(w)
  OBVIOUS
<1>10. PICK id : id = IF j.id = Absent THEN "None" ELSE j.id
  OBVIOUS
<1>11. u = [name |-> [task |-> c.task_id, config |-> id], push_notification_config |-> p]
  BY Zenon, <1>2, <1>7, <1>9, <1>10 DEF PutTaskPushConfig, PushConfigName
<1>12. u.name.task = c.task_id /\ u.push_notification_config = p
  BY <1>11
<1>13. PICK v : v = TakeTaskPushConfig(u)
  OBVIOUS
<1>14. ASSUME NameRead(c) PROVE ToCoreTaskPushConfig(v) = c
  <2>1. TASK_PUSH_CONFIG_NAME_MATCH(u.name)
    BY Zenon, <1>5, <1>9, <1>14 DEF NameRead
  <2>2. Cut(u.name.task) = c.task_id
    BY <1>12, <2>1 DEF TASK_PUSH_CONFIG_NAME_MATCH, Cut
  <2>3. v = [task_id |-> c.task_id, push_notification_config |-> p]
    BY Zenon, <1>12, <1>13, <2>2 DEF TakeTaskPushConfig
  <2>4. v.task_id = c.task_id /\ v.push_notification_config = p
    BY <2>3
  <2> QED BY Zenon, <1>3, <1>4, <2>4 DEF ToCoreTaskPushConfig
<1>15. ASSUME NEW task
       PROVE  ToCoreTaskPushConfig([task_id |-> task, push_notification_config |-> u.push_notification_config])
                = [c EXCEPT !.task_id = task]
  <2>1. PICK x : x = [task_id |-> task, push_notification_config |-> u.push_notification_config]
    OBVIOUS
  <2>2. x.task_id = task /\ x.push_notification_config = p
    BY <1>12, <2>1
  <2> QED BY Zenon, <1>3, <1>4, <2>1, <2>2 DEF ToCoreTaskPushConfig
<1> QED BY Zenon, <1>5, <1>8, <1>9, <1>13, <1>14, <1>15

LEMMA TaskPushesBack ==
    ASSUME NEW cs \in Seq(CorePushConfig)
    PROVE  /\ Each(ToCoreTaskPushConfig, Each(ToCompatTaskPushConfig, cs)) = cs
           /\ (\A i \in DOMAIN cs : NameRead(cs[i])) =>
                Each(ToCoreTaskPushConfig, Each(TakeTaskPushConfig,
                  Each(PutTaskPushConfig, Each(ToCompatTaskPushConfig, cs)))) = cs
<1>1. \A i \in DOMAIN cs : cs[i] \in CorePushConfig
  OBVIOUS
<1>2. cs = [i \in DOMAIN cs |-> cs[i]]
  OBVIOUS
<1>3. \A i \in DOMAIN cs :
        /\ ToCoreTaskPushConfig(ToCompatTaskPushConfig(cs[i])) = cs[i]
        /\ NameRead(cs[i]) =>
             ToCoreTaskPushConfig(TakeTaskPushConfig(PutTaskPushConfig(ToCompatTaskPushConfig(cs[i]))))
               = cs[i]
  BY Zenon, <1>1, TaskPushBack
<1>4. PICK js : js = [i \in DOMAIN cs |-> ToCompatTaskPushConfig(cs[i])]
  OBVIOUS
<1>5. PICK ps : ps = [i \in DOMAIN cs |-> PutTaskPushConfig(js[i])]
  OBVIOUS
<1>6. PICK ts : ts = [i \in DOMAIN cs |-> TakeTaskPushConfig(ps[i])]
  OBVIOUS
<1>7. Each(ToCompatTaskPushConfig, cs) = js
  BY <1>4 DEF Each
<1>8. Each(PutTaskPushConfig, js) = ps
  BY <1>4, <1>5 DEF Each
<1>9. Each(TakeTaskPushConfig, ps) = ts
  BY <1>5, <1>6 DEF Each
<1>10. Each(ToCoreTaskPushConfig, js) = cs
  BY <1>2, <1>3, <1>4 DEF Each
<1>11. (\A i \in DOMAIN cs : NameRead(cs[i])) => Each(ToCoreTaskPushConfig, ts) = cs
  BY <1>2, <1>3, <1>4, <1>5, <1>6 DEF Each
<1> QED BY Zenon, <1>7, <1>8, <1>9, <1>10, <1>11

(* ---- the parameters of send ---- *)
KeptConfiguration(a, c) == PlainConfiguration(a) = PlainConfiguration(c)

LEMMA PushTyped ==
    ASSUME NEW c \in CorePushConfig
    PROVE  /\ PushFor(c, "") # Absent /\ c # Absent
           /\ PlainPush(PushFor(c, "")) = PlainPush(c)
<1>1. PICK q : q = PushFor(c, "")
  OBVIOUS
<1>2. q = [task_id |-> "", url |-> c.url, id |-> c.id, token |-> c.token,
           authentication |-> c.authentication]
  BY <1>1 DEF PushFor
<1>3. q \in CorePushConfig
  BY <1>2, BlankIsText DEF CorePushConfig
<1>4. q.url = c.url /\ q.id = c.id /\ q.token = c.token /\ q.authentication = c.authentication
  BY ONLY <1>2
<1>5. PlainPush(q) = PlainPush(c)
  BY Zenon, <1>4 DEF PlainPush
<1>6. q # Absent /\ c # Absent
  BY <1>3, AbsentIsNoValue
<1> QED BY Zenon, <1>1, <1>5, <1>6

\* the push config of a configuration, where it has one
MaybePush(p, c) ==
    IF c = Absent THEN p = Absent
    ELSE p # Absent /\ ToCorePushConfig(p, "") = PushFor(c, "")

LEMMA ConfigurationMade ==
    ASSUME NEW c \in CoreSendConfiguration, NEW f, OrNone(f.accepted_output_modes) = c.accepted_output_modes,
           MaybePush(f.push_notification_config, c.task_push_notification_config),
           Unlimited(f.history_length) = Unlimited(c.history_length),
           (f.blocking = FALSE) = c.return_immediately
    PROVE  KeptConfiguration(ToCoreSendConfiguration(f), c)
<1> DEFINE of(x) == ToCorePushConfig(x, "")
<1>1. PICK push : push = Given(of, f.push_notification_config)
  OBVIOUS
<1>2. PICK q : q = ToCoreSendConfiguration(f)
  OBVIOUS
<1>3. q = [accepted_output_modes |-> c.accepted_output_modes, task_push_notification_config |-> push,
           history_length |-> Unlimited(c.history_length),
           return_immediately |-> c.return_immediately]
  BY Zenon, <1>1, <1>2 DEF ToCoreSendConfiguration, Given
<1>4. /\ q.accepted_output_modes = c.accepted_output_modes /\ q.task_push_notification_config = push
      /\ q.history_length = Unlimited(c.history_length)
      /\ q.return_immediately = c.return_immediately
  BY ONLY <1>3
<1>5. Unlimited(Unlimited(c.history_length)) = Unlimited(c.history_length)
  BY DEF Unlimited
<1>6. c.task_push_notification_config \in CompatOpt(CorePushConfig)
  BY DEF CoreSendConfiguration
<1>7. Given(PlainPush, push) = Given(PlainPush, c.task_push_notification_config)
  <2>1. CASE c.task_push_notification_config = Absent
    BY Zenon, <1>1, <2>1 DEF MaybePush, Given
  <2>2. CASE c.task_push_notification_config # Absent
    <3>1. c.task_push_notification_config \in CorePushConfig
      BY <1>6, <2>2 DEF CompatOpt
    <3>2. push = PushFor(c.task_push_notification_config, "")
      BY Zenon, <1>1, <2>2 DEF MaybePush, Given
    <3> QED BY Zenon, <2>2, <3>1, <3>2, PushTyped DEF Given
  <2> QED BY <2>1, <2>2
<1>8. PlainConfiguration(q) = PlainConfiguration(c)
  BY Zenon, <1>4, <1>5, <1>7 DEF PlainConfiguration
<1> QED BY Zenon, <1>2, <1>8 DEF KeptConfiguration

LEMMA ConfigurationBack ==
    ASSUME NEW c \in CoreSendConfiguration, NEW f, f = ToCompatSendConfiguration(c),
           NEW w, w = PutSendConfiguration(f), NEW g, g = TakeSendConfiguration(w)
    PROVE  /\ f # Absent /\ w # Absent /\ g # Absent
           /\ KeptConfiguration(ToCoreSendConfiguration(f), c)
           /\ KeptConfiguration(ToCoreSendConfiguration(g), c)
<1>1. /\ c.accepted_output_modes \in Seq(CompatStr) /\ c.history_length \in CompatOpt(Nat)
      /\ c.return_immediately \in BOOLEAN
      /\ c.task_push_notification_config \in CompatOpt(CorePushConfig)
  BY DEF CoreSendConfiguration
<1> DEFINE cp == c.task_push_notification_config
           fp == Given(ToCompatPushConfig, cp)
           wp == Given(PutPushConfig, fp)
           modes == NoneAbsent(c.accepted_output_modes)
           hl == IF c.history_length = Absent THEN 0 ELSE c.history_length
<1>2. /\ modes \in CompatList /\ OrNone(modes) = c.accepted_output_modes
      /\ c.accepted_output_modes \in CompatList
      /\ OrNone(c.accepted_output_modes) = c.accepted_output_modes
  BY <1>1, ListBack DEF CompatList, CompatOpt
<1>3. /\ fp \in CompatOpt(PushNotificationConfig) /\ wp \in CompatOpt(PushNotificationConfig)
      /\ MaybePush(fp, cp) /\ MaybePush(wp, cp)
  <2>1. CASE cp = Absent
    BY Zenon, <2>1 DEF Given, CompatOpt, MaybePush
  <2>2. CASE cp # Absent
    <3>1. cp \in CorePushConfig
      BY <1>1, <2>2 DEF CompatOpt
    <3>2. PICK j : j = ToCompatPushConfig(cp)
      OBVIOUS
    <3>3. PICK p : p = PutPushConfig(j)
      OBVIOUS
    <3>4. /\ j \in PushNotificationConfig /\ p \in PushNotificationConfig
          /\ ToCorePushConfig(j, "") = PushFor(cp, "") /\ ToCorePushConfig(p, "") = PushFor(cp, "")
      BY Zenon, <3>1, <3>2, <3>3, PushBack
    <3>5. j # Absent /\ p # Absent
      BY <3>4, AbsentIsNoValue
    <3>6. fp = j /\ wp = p
      BY Zenon, <2>2, <3>2, <3>3, <3>5 DEF Given
    <3> QED BY Zenon, <2>2, <3>4, <3>5, <3>6 DEF MaybePush, CompatOpt
  <2> QED BY <2>1, <2>2
<1>4. hl \in Nat /\ Unlimited(hl) \in CompatOpt(Nat) /\ Unlimited(hl) = Unlimited(c.history_length)
      /\ Unlimited(Unlimited(hl)) = Unlimited(c.history_length)
  BY <1>1, AbsentIsNoValue DEF CompatOpt, Unlimited
<1>5. PICK bl : bl = Blocking(c.return_immediately)
  OBVIOUS
<1>6. bl \in BOOLEAN /\ (bl = FALSE) = c.return_immediately /\ (bl = TRUE) = bl
      /\ bl \in CompatOpt(BOOLEAN)
  BY <1>1, <1>5 DEF Blocking, CompatOpt
<1> HIDE DEF fp, wp, modes, hl
<1>7. f = [accepted_output_modes |-> modes, push_notification_config |-> fp,
           history_length |-> c.history_length, blocking |-> bl]
  BY Zenon, <1>5 DEF ToCompatSendConfiguration, modes, fp
<1>8. f \in MessageSendConfiguration
  BY ONLY <1>1, <1>2, <1>3, <1>6, <1>7 DEF MessageSendConfiguration
<1>9. f # Absent
  BY <1>8, AbsentIsNoValue
<1>10. /\ f.accepted_output_modes = modes /\ f.push_notification_config = fp
       /\ f.history_length = c.history_length /\ f.blocking = bl
  BY ONLY <1>7
<1>11. w = [accepted_output_modes |-> c.accepted_output_modes, push_notification_config |-> wp,
            history_length |-> hl, blocking |-> bl]
  BY Zenon, <1>2, <1>6, <1>9, <1>10 DEF PutSendConfiguration, wp, hl
<1>12. w \in MessageSendConfiguration
  BY ONLY <1>2, <1>3, <1>4, <1>6, <1>11 DEF MessageSendConfiguration, CompatOpt
<1>13. w.history_length = hl
  BY ONLY <1>11
<1>14. g = [w EXCEPT !.history_length = Unlimited(hl)]
  BY Zenon, <1>13 DEF TakeSendConfiguration
<1>15. /\ g.accepted_output_modes = c.accepted_output_modes /\ g.push_notification_config = wp
       /\ g.history_length = Unlimited(hl) /\ g.blocking = bl
  BY ONLY <1>11, <1>14
<1>16. g \in MessageSendConfiguration
  BY ONLY <1>4, <1>12, <1>14 DEF MessageSendConfiguration
<1>17. w # Absent /\ g # Absent
  BY <1>12, <1>16, AbsentIsNoValue
<1>18. KeptConfiguration(ToCoreSendConfiguration(f), c)
  BY Zenon, <1>2, <1>3, <1>6, <1>10, ConfigurationMade
<1>19. KeptConfiguration(ToCoreSendConfiguration(g), c)
  BY Zenon, <1>2, <1>3, <1>4, <1>6, <1>15, ConfigurationMade
<1> QED BY Zenon, <1>9, <1>17, <1>18, <1>19

LEMMA SendBack ==
    ASSUME NEW r \in [message : CoreMessage, configuration : CoreSendConfiguration, metadata : CoreDict]
    PROVE  /\ PlainSend(FALSE, ToCoreSendRequest(ToCompatSendRequest(r))) = PlainSend(FALSE, r)
           /\ PlainSend(TRUE, ToCoreSendRequest(TakeSendParams(ProtoSend(r)))) = PlainSend(TRUE, r)
<1>1. /\ r.message \in CoreMessage /\ r.configuration \in CoreSendConfiguration
      /\ r.metadata \in CoreDict
  OBVIOUS
<1>2. PICK m : m = ToCompatMessage(r.message)
  OBVIOUS
<1>3. PICK t : t = TakeMessage(PutMessage(m))
  OBVIOUS
<1>4. MessageOf(FALSE, m, r.message) /\ MessageOf(TRUE, t, r.message)
  BY Zenon, <1>1, <1>2, <1>3, JsonMessageBack, ProtoMessageBack
<1>5. PICK f : f = ToCompatSendConfiguration(r.configuration)
  OBVIOUS
<1>6. PICK w : w = PutSendConfiguration(f)
  OBVIOUS
<1>7. PICK g : g = TakeSendConfiguration(w)
  OBVIOUS
<1>8. /\ f # Absent /\ w # Absent /\ g # Absent
      /\ KeptConfiguration(ToCoreSendConfiguration(f), r.configuration)
      /\ KeptConfiguration(ToCoreSendConfiguration(g), r.configuration)
  BY Zenon, <1>1, <1>5, <1>6, <1>7, ConfigurationBack
<1>9. r.configuration # Absent
  BY <1>1, AbsentIsNoValue
<1>10. PICK j : j = ToCompatSendRequest(r)
  OBVIOUS
<1>11. j = [message |-> m, configuration |-> f, metadata |-> r.metadata]
  BY Zenon, <1>2, <1>5, <1>9, <1>10 DEF ToCompatSendRequest, Given
<1>12. PICK p : p = ProtoSend(r)
  OBVIOUS
<1>13. j.message = m /\ j.configuration = f /\ j.metadata = r.metadata
  BY ONLY <1>11
<1>14. PICK pm : pm = PutMessage(m)
  OBVIOUS
<1>15. p = [message |-> pm, metadata |-> r.metadata, configuration |-> w]
  BY Zenon, <1>6, <1>10, <1>12, <1>13, <1>14 DEF ProtoSend
<1>16. p.message = pm /\ p.configuration = w /\ p.metadata = r.metadata
  BY ONLY <1>15
<1>17. PICK k : k = TakeSendParams(p)
  OBVIOUS
<1>18. PICK kd : kd = NoKeys(r.metadata)
  OBVIOUS
<1>19. k = [message |-> t, configuration |-> g, metadata |-> kd]
  BY Zenon, <1>3, <1>7, <1>8, <1>14, <1>16, <1>17, <1>18 DEF TakeSendParams, Given
<1>20. k.message = t /\ k.configuration = g /\ k.metadata = kd
  BY ONLY <1>19
<1>21. NoKeysAbsent(NoKeysAbsent(r.metadata)) = NoKeysAbsent(r.metadata)
       /\ NoKeysAbsent(NoKeysAbsent(kd)) = NoKeysAbsent(r.metadata)
  BY <1>1, <1>18, DictBack
<1>22. ASSUME NEW lossy, NEW x, NEW xm, NEW xf, x.message = xm, x.configuration = xf, xf # Absent,
              MessageOf(lossy, xm, r.message),
              KeptConfiguration(ToCoreSendConfiguration(xf), r.configuration),
              NoKeysAbsent(NoKeysAbsent(x.metadata)) = NoKeysAbsent(r.metadata)
       PROVE  PlainSend(lossy, ToCoreSendRequest(x)) = PlainSend(lossy, r)
  <2>1. PICK a : a = ToCoreMessage(xm)
    OBVIOUS
  <2>2. PICK b : b = ToCoreSendConfiguration(xf)
    OBVIOUS
  <2>3. PICK d : d = NoKeysAbsent(x.metadata)
    OBVIOUS
  <2>4. PICK q : q = ToCoreSendRequest(x)
    OBVIOUS
  <2>5. q = [message |-> a, configuration |-> b, metadata |-> d]
    BY Zenon, <1>22, <2>1, <2>2, <2>3, <2>4 DEF ToCoreSendRequest, Given
  <2>6. q.message = a /\ q.configuration = b /\ q.metadata = d
    BY ONLY <2>5
  <2>7. PlainMessage(lossy, a) = PlainMessage(lossy, r.message)
    BY Zenon, <1>22, <2>1 DEF MessageOf, KeptMessage
  <2>8. PlainConfiguration(b) = PlainConfiguration(r.configuration)
    BY Zenon, <1>22, <2>2 DEF KeptConfiguration
  <2>9. NoKeysAbsent(d) = NoKeysAbsent(r.metadata)
    BY Zenon, <1>22, <2>3
  <2>10. PlainSend(lossy, q) = PlainSend(lossy, r)
    BY Zenon, <2>6, <2>7, <2>8, <2>9 DEF PlainSend
  <2> QED BY Zenon, <2>4, <2>10
<1>23. PlainSend(FALSE, ToCoreSendRequest(j)) = PlainSend(FALSE, r)
  BY Zenon, <1>4, <1>8, <1>13, <1>21, <1>22
<1>24. PlainSend(TRUE, ToCoreSendRequest(k)) = PlainSend(TRUE, r)
  BY Zenon, <1>4, <1>8, <1>20, <1>21, <1>22
<1> QED BY Zenon, <1>10, <1>12, <1>17, <1>23, <1>24

(* ---- requests ---- *)
LEMMA JsonRequestBack ==
    ASSUME NEW conn \in WireConn, conn.version = "0.3", conn.binding = "JSONRPC",
           NEW m \in WireMethods \ {"list_tasks"}, NEW r \in Asked(m)
    PROVE  PlainRequest(conn, m, CoreRequest(m, LegacyParams(m, r))) = PlainRequest(conn, m, r)
<1>1. CASE m \in Messages
  <2>1. LegacyParams(m, r) = ToCompatSendRequest(r)
    BY <1>1 DEF LegacyParams, LegacyTaskParams, Messages
  <2>2. \A p : CoreRequest(m, p) = ToCoreSendRequest(p)
    BY <1>1 DEF CoreRequest, Messages
  <2>3. \A x : PlainRequest(conn, m, x) = PlainSend(FALSE, x)
    BY <1>1 DEF PlainRequest, Legacy, Messages
  <2>4. r \in [message : CoreMessage, configuration : CoreSendConfiguration, metadata : CoreDict]
    BY <1>1 DEF Asked
  <2> QED BY Zenon, <2>1, <2>2, <2>3, <2>4, SendBack
<1>2. CASE m = "get_task"
  <2>1. r \in [id : CompatStr, history_length : CompatOpt(Nat)]
    BY <1>2 DEF Asked, RequestsOf, Messages
  <2>2. LegacyParams(m, r) = ToCompatGetTask(r)
    BY <1>2 DEF LegacyParams, LegacyTaskParams, Messages
  <2>3. \A p : CoreRequest(m, p) = ToCoreGetTask(p)
    BY <1>2 DEF CoreRequest, Messages
  <2>4. PICK q : q = ToCoreGetTask(ToCompatGetTask(r))
    OBVIOUS
  <2>5. q.id = r.id /\ q.history_length = Unlimited(r.history_length)
    BY <2>4 DEF ToCoreGetTask, ToCompatGetTask
  <2>6. Unlimited(q.history_length) = Unlimited(r.history_length)
    BY <2>5 DEF Unlimited
  <2>7. PlainRequest(conn, m, q) = PlainRequest(conn, m, r)
    BY <1>2, <2>5, <2>6 DEF PlainRequest, Messages
  <2> QED BY Zenon, <2>2, <2>3, <2>4, <2>7
<1>3. CASE m = "cancel_task"
  <2>1. r \in [id : CompatStr, metadata : CoreDict]
    BY <1>3 DEF Asked, RequestsOf, Messages
  <2>2. LegacyParams(m, r) = ToCompatCancel(r)
    BY <1>3 DEF LegacyParams, LegacyTaskParams, Messages
  <2>3. \A p : CoreRequest(m, p) = ToCoreCancel(p)
    BY <1>3 DEF CoreRequest, Messages
  <2>4. PICK q : q = ToCoreCancel(ToCompatCancel(r))
    OBVIOUS
  <2>5. q.id = r.id /\ q.metadata = NoKeysAbsent(r.metadata)
    BY <2>4 DEF ToCoreCancel, ToCompatCancel
  <2>6. NoKeysAbsent(q.metadata) = NoKeysAbsent(r.metadata)
    BY <2>1, <2>5, DictBack
  <2>7. PlainRequest(conn, m, q) = PlainRequest(conn, m, r)
    BY <1>3, <2>5, <2>6 DEF PlainRequest, Messages
  <2> QED BY Zenon, <2>2, <2>3, <2>4, <2>7
<1>4. CASE m = "create_push"
  <2>1. r \in CorePushConfig
    BY <1>4 DEF Asked, RequestsOf, Messages
  <2>2. LegacyParams(m, r) = ToCompatTaskPushConfig(r)
    BY <1>4 DEF LegacyParams, LegacyPushParams, Messages
  <2>3. \A p : CoreRequest(m, p) = ToCoreTaskPushConfig(p)
    BY <1>4 DEF CoreRequest, Messages
  <2> QED BY Zenon, <2>1, <2>2, <2>3, TaskPushBack
<1>5. CASE m = "get_push"
  <2>1. r \in [task_id : CompatStr, id : CompatStr]
    BY <1>5 DEF Asked, RequestsOf, Messages
  <2>2. LegacyParams(m, r) = ToCompatGetPushConfig(r)
    BY <1>5 DEF LegacyParams, LegacyPushParams, Messages
  <2>3. \A p : CoreRequest(m, p) = ToCoreGetPushConfig(p)
    BY <1>5 DEF CoreRequest, Messages
  <2>4. OrBlank(r.id) = r.id /\ r = [task_id |-> r.task_id, id |-> r.id]
    BY <2>1, TextBack
  <2>5. PICK p : p = ToCompatGetPushConfig(r)
    OBVIOUS
  <2>6. ToCoreGetPushConfig(p) = r
    <3>1. CASE r.id = ""
      <4>1. p.id = r.task_id /\ "push_notification_config_id" \notin DOMAIN p
        BY <2>5, <3>1 DEF ToCompatGetPushConfig
      <4> QED BY Zenon, <2>4, <3>1, <4>1 DEF ToCoreGetPushConfig
    <3>2. CASE r.id # ""
      <4>1. /\ p.id = r.task_id /\ "push_notification_config_id" \in DOMAIN p
            /\ p.push_notification_config_id = r.id
        BY <2>5, <3>2 DEF ToCompatGetPushConfig
      <4> QED BY Zenon, <2>4, <3>2, <4>1 DEF ToCoreGetPushConfig
    <3> QED BY <3>1, <3>2
  <2> QED BY Zenon, <2>2, <2>3, <2>5, <2>6
<1>6. CASE m = "delete_push"
  <2>1. r \in [task_id : CompatStr, id : CompatStr]
    BY <1>6 DEF Asked, RequestsOf, Messages
  <2>2. LegacyParams(m, r) = ToCompatDeletePushConfig(r)
    BY <1>6 DEF LegacyParams, LegacyPushParams, Messages
  <2>3. \A p : CoreRequest(m, p) = ToCoreDeletePushConfig(p)
    BY <1>6 DEF CoreRequest, Messages
  <2>4. ToCoreDeletePushConfig(ToCompatDeletePushConfig(r)) = r
    BY <2>1 DEF ToCoreDeletePushConfig, ToCompatDeletePushConfig
  <2> QED BY Zenon, <2>2, <2>3, <2>4
<1>7. CASE m = "list_push"
  <2>1. r \in [task_id : CompatStr]
    BY <1>7 DEF Asked, RequestsOf, Messages
  <2>2. LegacyParams(m, r) = ToCompatListPushConfigs(r)
    BY <1>7 DEF LegacyParams, LegacyPushParams, Messages
  <2>3. \A p : CoreRequest(m, p) = ToCoreListPushConfigs(p)
    BY <1>7 DEF CoreRequest, Messages
  <2>4. ToCoreListPushConfigs(ToCompatListPushConfigs(r)) = r
    BY <2>1 DEF ToCoreListPushConfigs, ToCompatListPushConfigs
  <2> QED BY Zenon, <2>2, <2>3, <2>4
<1>8. CASE m = "subscribe"
  <2>1. r \in [id : CompatStr]
    BY <1>8 DEF Asked, RequestsOf, Messages
  <2>2. LegacyParams(m, r) = ToCompatSubscribe(r)
    BY <1>8 DEF LegacyParams, Messages
  <2>3. \A p : CoreRequest(m, p) = ToCoreSubscribe(p)
    BY <1>8 DEF CoreRequest, Messages
  <2>4. ToCoreSubscribe(ToCompatSubscribe(r)) = r
    BY <2>1 DEF ToCoreSubscribe, ToCompatSubscribe
  <2> QED BY Zenon, <2>2, <2>3, <2>4
<1>9. CASE m = "extended_card"
  BY <1>9 DEF LegacyParams, CoreRequest, Messages
<1> QED BY <1>1, <1>2, <1>3, <1>4, <1>5, <1>6, <1>7, <1>8, <1>9 DEF WireMethods, Messages

(* v0.3 over gRPC: what is read of a name that matches is what stands before *)
(* a '/'.                                                                    *)
LEMMA GrpcRequestBack ==
    ASSUME NEW conn \in WireConn, conn = [version |-> "0.3", binding |-> "GRPC"],
           NEW m \in WireMethods \ {"list_tasks"}, NEW r \in Asked(m),
           NEW w, w = GrpcRequest(m, r), GrpcNamed(m, w)
    PROVE  PlainRequest(conn, m, CoreRequest(m, ProtoParams(m, w)))
             = PlainRequest(conn, m, Delivered(conn, m, r))
<1>0. conn.version = "0.3" /\ conn.binding = "GRPC" /\ Legacy(conn)
  BY DEF Legacy
<1>1. CASE m \in Messages
  <2>1. w = ProtoSend(r)
    BY <1>1 DEF GrpcRequest, Messages
  <2>2. \A p : CoreRequest(m, p) = ToCoreSendRequest(p)
    BY <1>1 DEF CoreRequest, Messages
  <2>3. \A x : PlainRequest(conn, m, x) = PlainSend(TRUE, x)
    BY <1>0, <1>1 DEF PlainRequest, Messages
  <2>4. r \in [message : CoreMessage, configuration : CoreSendConfiguration, metadata : CoreDict]
    BY <1>1 DEF Asked
  <2>5. \A x : ProtoParams(m, x) = TakeSendParams(x)
    BY <1>1 DEF ProtoParams, Messages
  <2>6. Delivered(conn, m, r) = r
    BY <1>1 DEF Delivered, Messages
  <2>7. PlainSend(TRUE, ToCoreSendRequest(TakeSendParams(ProtoSend(r)))) = PlainSend(TRUE, r)
    BY Zenon, <2>4, SendBack
  <2>8. PlainRequest(conn, m, CoreRequest(m, ProtoParams(m, w)))
          = PlainSend(TRUE, ToCoreSendRequest(TakeSendParams(w)))
    BY Zenon, <2>2, <2>3, <2>5
  <2>9. PlainRequest(conn, m, Delivered(conn, m, r)) = PlainSend(TRUE, r)
    BY Zenon, <2>3, <2>6
  <2> QED BY Zenon, <2>1, <2>7, <2>8, <2>9
<1>2. CASE m = "get_task"
  <2>1. r \in [id : CompatStr, history_length : CompatOpt(Nat)]
    BY <1>2 DEF Asked, RequestsOf, Messages
  <2>2. PICK h : h = IF r.history_length = Absent THEN 0 ELSE r.history_length
    OBVIOUS
  <2>3. w = [name |-> [task |-> r.id], history_length |-> h]
    BY Zenon, <1>2, <2>2 DEF GrpcRequest, Messages, TaskName
  <2>4. w.name.task = r.id /\ w.history_length = h
    BY ONLY <2>3
  <2>5. \A x : ProtoParams(m, x) = TakeTaskQuery(x) /\ CoreRequest(m, x) = ToCoreGetTask(x)
    BY <1>2 DEF ProtoParams, CoreRequest, Messages
  <2>6. PICK q : q = ToCoreGetTask(TakeTaskQuery(w))
    OBVIOUS
  <2>7. q.id = Cut(r.id) /\ q.history_length = Unlimited(Unlimited(h))
    BY <2>4, <2>6 DEF ToCoreGetTask, TakeTaskQuery
  <2>8. Unlimited(Unlimited(Unlimited(h))) = Unlimited(r.history_length)
    <3>1. CASE r.history_length = Absent
      BY <2>2, <3>1, AbsentIsNoValue DEF Unlimited
    <3>2. CASE r.history_length # Absent
      BY <2>2, <3>2 DEF Unlimited
    <3> QED BY <3>1, <3>2
  <2>9. PICK due : due = Delivered(conn, m, r)
    OBVIOUS
  <2>10. due.id = Cut(r.id) /\ due.history_length = r.history_length
    BY <1>2, <2>1, <2>9 DEF Delivered
  <2>11. PlainRequest(conn, m, q) = PlainRequest(conn, m, due)
    BY <1>2, <2>7, <2>8, <2>10 DEF PlainRequest, Messages
  <2> QED BY Zenon, <2>5, <2>6, <2>9, <2>11
<1>3. CASE m = "cancel_task"
  <2>1. w = [name |-> [task |-> r.id]] /\ r \in [id : CompatStr, metadata : CoreDict]
    BY <1>3 DEF GrpcRequest, TaskName, Messages, Asked, RequestsOf
  <2>2. \A x : ProtoParams(m, x) = TakeTaskId(x) /\ CoreRequest(m, x) = ToCoreCancel(x)
    BY <1>3 DEF ProtoParams, CoreRequest, Messages
  <2>3. PICK q : q = ToCoreCancel(TakeTaskId(w))
    OBVIOUS
  <2>4. q.id = Cut(r.id)
    BY <2>1, <2>3 DEF ToCoreCancel, TakeTaskId
  <2>5. PICK due : due = Delivered(conn, m, r)
    OBVIOUS
  <2>6. due.id = Cut(r.id)
    BY <1>3, <2>1, <2>5 DEF Delivered
  <2>7. PlainRequest(conn, m, q) = PlainRequest(conn, m, due)
    BY <1>0, <1>3, <2>4, <2>6 DEF PlainRequest, Messages
  <2> QED BY Zenon, <2>2, <2>3, <2>5, <2>7
<1>4. CASE m = "create_push"
  <2>1. r \in CorePushConfig
    BY <1>4 DEF Asked, RequestsOf, Messages
  <2>2. PICK u : u = PutTaskPushConfig(ToCompatTaskPushConfig(r))
    OBVIOUS
  <2>3. w = [parent |-> [task |-> r.task_id], config |-> u]
    BY <1>4, <2>2 DEF GrpcRequest, ProtoCreate, TaskName, Messages
  <2>4. w.parent.task = r.task_id /\ w.config = u
    BY ONLY <2>3
  <2>5. \A x : ProtoParams(m, x) = TakeTaskPushConfigRequest(x) /\ CoreRequest(m, x) = ToCoreTaskPushConfig(x)
    BY <1>4 DEF ProtoParams, CoreRequest, Messages
  <2>6. TakeTaskPushConfigRequest(w)
          = [task_id |-> Cut(r.task_id), push_notification_config |-> u.push_notification_config]
    BY Zenon, <2>4 DEF TakeTaskPushConfigRequest
  <2>7. ToCoreTaskPushConfig(TakeTaskPushConfigRequest(w)) = [r EXCEPT !.task_id = Cut(r.task_id)]
    BY Zenon, <2>1, <2>2, <2>6, TaskPushBack
  <2>8. Delivered(conn, m, r) = [r EXCEPT !.task_id = Cut(r.task_id)]
    BY <1>4 DEF Delivered
  <2> QED BY Zenon, <2>5, <2>7, <2>8
<1>5. CASE m \in {"get_push", "delete_push"}
  <2>1. r \in [task_id : CompatStr, id : CompatStr]
    BY <1>5 DEF Asked, RequestsOf, Messages
  <2>2. w = [name |-> [task |-> r.task_id, config |-> r.id]]
    BY <1>5 DEF GrpcRequest, PushConfigName, Messages
  <2>3. w.name.task = r.task_id /\ w.name.config = r.id
    BY ONLY <2>2
  <2>4. TASK_PUSH_CONFIG_NAME_MATCH(w.name)
    BY <1>5 DEF GrpcNamed
  <2>5. Cut(w.name.task) = r.task_id
    BY <2>3, <2>4 DEF TASK_PUSH_CONFIG_NAME_MATCH, Cut
  <2>6. PICK id : id = Cut(r.id)
    OBVIOUS
  <2>7. PICK p : p = ProtoParams(m, w)
    OBVIOUS
  <2>8. p = [id |-> r.task_id, push_notification_config_id |-> id]
    BY <1>5, <2>3, <2>5, <2>6, <2>7 DEF ProtoParams, Messages
  <2>9. Delivered(conn, m, r) = [task_id |-> r.task_id, id |-> id]
    BY <1>5, <2>1, <2>6 DEF Delivered
  <2>10. CASE m = "get_push"
    <3>1. /\ p.id = r.task_id /\ "push_notification_config_id" \in DOMAIN p
          /\ p.push_notification_config_id = id
      BY ONLY <2>8
    <3>2. OrBlank(id) = id
      <4>1. r.id \in CompatStr
        BY <2>1
      <4>2. id \in CompatStr
        BY <2>6, <4>1, SlashedStrings DEF Cut, CompatStr
      <4> QED BY <4>2, TextBack
    <3>3. ToCoreGetPushConfig(p) = [task_id |-> r.task_id, id |-> id]
      BY Zenon, <3>1, <3>2 DEF ToCoreGetPushConfig
    <3>4. CoreRequest(m, p) = ToCoreGetPushConfig(p)
      BY <2>10 DEF CoreRequest, Messages
    <3> QED BY Zenon, <2>7, <2>9, <3>3, <3>4
  <2>11. CASE m = "delete_push"
    <3>1. CoreRequest(m, p) = ToCoreDeletePushConfig(p)
      BY <2>11 DEF CoreRequest, Messages
    <3>2. ToCoreDeletePushConfig(p) = [task_id |-> r.task_id, id |-> id]
      BY <2>8 DEF ToCoreDeletePushConfig
    <3> QED BY Zenon, <2>7, <2>9, <3>1, <3>2
  <2> QED BY <1>5, <2>10, <2>11
<1>7. CASE m = "list_push"
  <2>1. r \in [task_id : CompatStr]
    BY <1>7 DEF Asked, RequestsOf, Messages
  <2>2. w = [parent |-> [task |-> r.task_id]]
    BY <1>7 DEF GrpcRequest, TaskName, Messages
  <2>3. PICK p : p = ProtoParams(m, w)
    OBVIOUS
  <2>4. p = [id |-> Cut(r.task_id)]
    BY <1>7, <2>2, <2>3 DEF ProtoParams, Messages
  <2>5. CoreRequest(m, p) = ToCoreListPushConfigs(p)
    BY <1>7 DEF CoreRequest, Messages
  <2>6. ToCoreListPushConfigs(p) = [task_id |-> Cut(r.task_id)]
    BY <2>4 DEF ToCoreListPushConfigs
  <2>7. Delivered(conn, m, r) = [task_id |-> Cut(r.task_id)]
    BY <1>7, <2>1 DEF Delivered
  <2> QED BY Zenon, <2>3, <2>5, <2>6, <2>7
<1>8. CASE m = "subscribe"
  <2>1. r \in [id : CompatStr]
    BY <1>8 DEF Asked, RequestsOf, Messages
  <2>2. w = [name |-> [task |-> r.id]]
    BY <1>8 DEF GrpcRequest, TaskName, Messages
  <2>3. \A x : ProtoParams(m, x) = TakeTaskId(x) /\ CoreRequest(m, x) = ToCoreSubscribe(x)
    BY <1>8 DEF ProtoParams, CoreRequest, Messages
  <2>4. ToCoreSubscribe(TakeTaskId(w)) = [id |-> Cut(r.id)]
    BY <2>2 DEF ToCoreSubscribe, TakeTaskId
  <2>5. Delivered(conn, m, r) = [id |-> Cut(r.id)]
    BY <1>8, <2>1 DEF Delivered
  <2> QED BY Zenon, <2>3, <2>4, <2>5
<1>9. CASE m = "extended_card"
  <2>1. r = <<>>
    BY <1>9 DEF Asked, RequestsOf, Messages
  <2>2. ProtoParams(m, w) = <<>> /\ CoreRequest(m, <<>>) = <<>> /\ Delivered(conn, m, r) = r
    BY <1>9 DEF ProtoParams, CoreRequest, Messages, Delivered
  <2> QED BY Zenon, <2>1, <2>2
<1> QED BY <1>1, <1>2, <1>3, <1>4, <1>5, <1>7, <1>8, <1>9 DEF WireMethods, Messages

\* v0.3 over REST: the ids of the path are those of the request
LEMMA LegacyRestBack ==
    ASSUME NEW conn \in WireConn, conn.version = "0.3", conn.binding = "HTTP+JSON",
           NEW m \in WireMethods \ {"list_tasks", "list_push", "delete_push"}, NEW r \in Asked(m),
           NEW w, w = LegacyRestCall(m, r)
    PROVE  PlainRequest(conn, m, CoreRequest(m, LegacyRestParams(m, w))) = PlainRequest(conn, m, r)
<1>1. CASE m \in Messages
  <2>1. w = [path |-> <<>>, body |-> ProtoSend(r)]
    BY <1>1 DEF LegacyRestCall, Messages
  <2>2. PICK b : b = ProtoSend(r)
    OBVIOUS
  <2>3. w.body = b
    BY <2>1, <2>2
  <2>4. \A p : CoreRequest(m, p) = ToCoreSendRequest(p)
    BY <1>1 DEF CoreRequest, Messages
  <2>5. \A x : PlainRequest(conn, m, x) = PlainSend(TRUE, x)
    BY <1>1 DEF PlainRequest, Legacy, Messages
  <2>6. r \in [message : CoreMessage, configuration : CoreSendConfiguration, metadata : CoreDict]
    BY <1>1 DEF Asked
  <2>7. \A x : LegacyRestParams(m, x) = TakeSendParams(x.body)
    BY <1>1 DEF LegacyRestParams, Messages
  <2>8. PlainSend(TRUE, ToCoreSendRequest(TakeSendParams(b))) = PlainSend(TRUE, r)
    BY Zenon, <2>2, <2>6, SendBack
  <2>9. PlainRequest(conn, m, CoreRequest(m, LegacyRestParams(m, w)))
          = PlainSend(TRUE, ToCoreSendRequest(TakeSendParams(w.body)))
    BY Zenon, <2>4, <2>5, <2>7
  <2>10. PlainRequest(conn, m, r) = PlainSend(TRUE, r)
    BY Zenon, <2>5
  <2> QED BY Zenon, <2>3, <2>8, <2>9, <2>10
<1>2. CASE m = "get_task"
  <2>1. w = [path |-> <<r.id>>, history_length |-> r.history_length]
    BY <1>2 DEF LegacyRestCall, Messages
  <2>2. w.path[1] = r.id /\ w.history_length = r.history_length
    BY ONLY <2>1
  <2>3. PICK p : p = LegacyRestParams(m, w)
    OBVIOUS
  <2>4. p = [id |-> r.id, history_length |-> Unlimited(r.history_length)]
    BY <1>2, <2>2, <2>3 DEF LegacyRestParams, Messages
  <2>5. PICK q : q = ToCoreGetTask(p)
    OBVIOUS
  <2>6. q.id = r.id /\ q.history_length = Unlimited(Unlimited(r.history_length))
    BY <2>4, <2>5 DEF ToCoreGetTask
  <2>7. Unlimited(Unlimited(Unlimited(r.history_length))) = Unlimited(r.history_length)
    BY DEF Unlimited
  <2>8. PlainRequest(conn, m, q) = PlainRequest(conn, m, r)
    BY <1>2, <2>6, <2>7 DEF PlainRequest, Messages
  <2>9. CoreRequest(m, p) = q
    BY <1>2, <2>5 DEF CoreRequest, Messages
  <2> QED BY Zenon, <2>3, <2>8, <2>9
<1>3. CASE m \in {"cancel_task", "subscribe"}
  <2>1. w = [path |-> <<r.id>>]
    BY <1>3 DEF LegacyRestCall, Messages
  <2>2. PICK p : p = LegacyRestParams(m, w)
    OBVIOUS
  <2>3. p = [id |-> r.id, metadata |-> Absent]
    BY <1>3, <2>1, <2>2 DEF LegacyRestParams, Messages
  <2>4. CASE m = "cancel_task"
    <3>1. PICK q : q = ToCoreCancel(p)
      OBVIOUS
    <3>2. q.id = r.id
      BY <2>3, <3>1 DEF ToCoreCancel
    <3>3. PlainRequest(conn, m, q) = PlainRequest(conn, m, r)
      BY <2>4, <3>2 DEF PlainRequest, Messages
    <3>4. CoreRequest(m, p) = q
      BY <2>4, <3>1 DEF CoreRequest, Messages
    <3> QED BY Zenon, <2>2, <3>3, <3>4
  <2>5. CASE m = "subscribe"
    <3>1. r \in [id : CompatStr]
      BY <2>5 DEF Asked, RequestsOf, Messages
    <3>2. ToCoreSubscribe(p) = r
      BY <2>3, <3>1 DEF ToCoreSubscribe
    <3>3. CoreRequest(m, p) = ToCoreSubscribe(p)
      BY <2>5 DEF CoreRequest, Messages
    <3> QED BY Zenon, <2>2, <3>2, <3>3
  <2> QED BY <1>3, <2>4, <2>5
<1>4. CASE m = "create_push"
  <2>1. r \in CorePushConfig
    BY <1>4 DEF Asked, RequestsOf, Messages
  <2>2. PICK u : u = PutTaskPushConfig(ToCompatTaskPushConfig(r))
    OBVIOUS
  <2>3. w = [path |-> <<r.task_id>>, body |-> [parent |-> [task |-> r.task_id], config |-> u]]
    BY <1>4, <2>2 DEF LegacyRestCall, ProtoCreate, TaskName, Messages
  <2>4. w.path[1] = r.task_id /\ w.body.parent.task = r.task_id /\ w.body.config = u
    BY ONLY <2>3
  <2>5. PICK x : x = TakeTaskPushConfigRequest(w.body)
    OBVIOUS
  <2>6. x = [task_id |-> Cut(r.task_id), push_notification_config |-> u.push_notification_config]
    BY Zenon, <2>4, <2>5 DEF TakeTaskPushConfigRequest
  <2>7. [x EXCEPT !.task_id = r.task_id]
          = [task_id |-> r.task_id, push_notification_config |-> u.push_notification_config]
    BY ONLY <2>6
  <2>8. LegacyRestParams(m, w) = [x EXCEPT !.task_id = r.task_id]
    BY <1>4, <2>4, <2>5 DEF LegacyRestParams, Messages
  <2>9. [r EXCEPT !.task_id = r.task_id] = r
    BY <2>1 DEF CorePushConfig
  <2>10. ToCoreTaskPushConfig(LegacyRestParams(m, w)) = r
    <3>1. LegacyRestParams(m, w)
            = [task_id |-> r.task_id, push_notification_config |-> u.push_notification_config]
      BY Zenon, <2>7, <2>8
    <3>2. ToCoreTaskPushConfig(
            [task_id |-> r.task_id, push_notification_config |-> u.push_notification_config])
              = [r EXCEPT !.task_id = r.task_id]
      BY Zenon, <2>1, <2>2, TaskPushBack
    <3> QED BY Zenon, <2>9, <3>1, <3>2
  <2>11. \A y : CoreRequest(m, y) = ToCoreTaskPushConfig(y)
    BY <1>4 DEF CoreRequest, Messages
  <2> QED BY Zenon, <2>10, <2>11
<1>5. CASE m = "get_push"
  <2>1. r \in [task_id : CompatStr, id : CompatStr]
    BY <1>5 DEF Asked, RequestsOf, Messages
  <2>2. w = [path |-> <<r.task_id, r.id>>]
    BY <1>5 DEF LegacyRestCall, Messages
  <2>3. PICK p : p = LegacyRestParams(m, w)
    OBVIOUS
  <2>4. p = [id |-> r.task_id, push_notification_config_id |-> r.id]
    BY <1>5, <2>2, <2>3 DEF LegacyRestParams, Messages
  <2>5. /\ p.id = r.task_id /\ "push_notification_config_id" \in DOMAIN p
        /\ p.push_notification_config_id = r.id
    BY ONLY <2>4
  <2>6. OrBlank(r.id) = r.id /\ r = [task_id |-> r.task_id, id |-> r.id]
    BY <2>1, TextBack
  <2>7. ToCoreGetPushConfig(p) = r
    BY Zenon, <2>5, <2>6 DEF ToCoreGetPushConfig
  <2>8. CoreRequest(m, p) = ToCoreGetPushConfig(p)
    BY <1>5 DEF CoreRequest, Messages
  <2> QED BY Zenon, <2>3, <2>7, <2>8
<1>6. CASE m = "extended_card"
  <2>1. r = <<>>
    BY <1>6 DEF Asked, RequestsOf, Messages
  <2>2. LegacyRestParams(m, w) = <<>> /\ CoreRequest(m, <<>>) = <<>>
    BY <1>6 DEF LegacyRestParams, CoreRequest, Messages
  <2> QED BY Zenon, <2>1, <2>2
<1> QED BY <1>1, <1>2, <1>3, <1>4, <1>5, <1>6 DEF WireMethods, Messages

\* v1.0 over REST: the ids of the path are those of the request, a cancel has no more
LEMMA RestRequestBack ==
    ASSUME NEW m \in WireMethods, NEW r \in Asked(m)
    PROVE  RestParams(m, RestCall(m, r))
             = IF m = "cancel_task" THEN [r EXCEPT !.metadata = Absent] ELSE r
<1>1. PICK w : w = RestCall(m, r)
  OBVIOUS
<1>2. CASE m \in Messages \cup {"list_tasks", "extended_card"}
  BY <1>2 DEF RestCall, RestParams, Messages
<1>3. CASE m = "get_task"
  <2>1. r \in [id : CompatStr, history_length : CompatOpt(Nat)]
    BY <1>3 DEF Asked, RequestsOf, Messages
  <2>2. w = [path |-> <<r.id>>, body |-> r]
    BY <1>1, <1>3 DEF RestCall, Messages
  <2>3. RestParams(m, w) = [r EXCEPT !.id = r.id]
    BY <1>3, <2>2 DEF RestParams, Messages
  <2>4. [r EXCEPT !.id = r.id] = r
    BY <2>1
  <2> QED BY Zenon, <1>1, <1>3, <2>3, <2>4
<1>4. CASE m = "cancel_task"
  <2>1. w = [path |-> <<r.id>>, body |-> r]
    BY <1>1, <1>4 DEF RestCall, Messages
  <2>2. RestParams(m, w) = [id |-> r.id, metadata |-> Absent]
    BY <1>4, <2>1 DEF RestParams, Messages
  <2>3. r \in [id : CompatStr, metadata : CoreDict]
    BY <1>4 DEF Asked, RequestsOf, Messages
  <2>4. [r EXCEPT !.metadata = Absent] = [id |-> r.id, metadata |-> Absent]
    BY <2>3
  <2> QED BY Zenon, <1>1, <1>4, <2>2, <2>4
<1>5. CASE m = "subscribe"
  <2>1. r \in [id : CompatStr]
    BY <1>5 DEF Asked, RequestsOf, Messages
  <2>2. w = [path |-> <<r.id>>, body |-> <<>>]
    BY <1>1, <1>5 DEF RestCall, Messages
  <2>3. RestParams(m, w) = r
    BY <1>5, <2>1, <2>2 DEF RestParams, Messages
  <2> QED BY Zenon, <1>1, <1>5, <2>3
<1>6. CASE m = "create_push"
  <2>1. r \in CorePushConfig
    BY <1>6 DEF Asked, RequestsOf, Messages
  <2>2. w = [path |-> <<r.task_id>>, body |-> r]
    BY <1>1, <1>6 DEF RestCall, Messages
  <2>3. RestParams(m, w) = [r EXCEPT !.task_id = r.task_id]
    BY <1>6, <2>2 DEF RestParams, Messages
  <2>4. [r EXCEPT !.task_id = r.task_id] = r
    BY <2>1 DEF CorePushConfig
  <2> QED BY Zenon, <1>1, <1>6, <2>3, <2>4
<1>7. CASE m = "list_push"
  <2>1. r \in [task_id : CompatStr]
    BY <1>7 DEF Asked, RequestsOf, Messages
  <2>2. w = [path |-> <<r.task_id>>, body |-> r]
    BY <1>1, <1>7 DEF RestCall, Messages
  <2>3. RestParams(m, w) = [r EXCEPT !.task_id = r.task_id]
    BY <1>7, <2>2 DEF RestParams, Messages
  <2>4. [r EXCEPT !.task_id = r.task_id] = r
    BY <2>1
  <2> QED BY Zenon, <1>1, <1>7, <2>3, <2>4
<1>8. CASE m \in {"get_push", "delete_push"}
  <2>1. r \in [task_id : CompatStr, id : CompatStr]
    BY <1>8 DEF Asked, RequestsOf, Messages
  <2>2. w = [path |-> <<r.task_id, r.id>>, body |-> <<>>]
    BY <1>1, <1>8 DEF RestCall, Messages
  <2>3. RestParams(m, w) = r
    BY <1>8, <2>1, <2>2 DEF RestParams, Messages
  <2> QED BY <1>1, <1>8, <2>3
<1> QED BY <1>2, <1>3, <1>4, <1>5, <1>6, <1>7, <1>8 DEF WireMethods, Messages

\* what the handler sees of a request
RequestKept(conn, m, seen, due) ==
    IF Legacy(conn) THEN PlainRequest(conn, m, seen) = PlainRequest(conn, m, due) ELSE seen = due
LEMMA RequestBack ==
    ASSUME NEW conn \in WireConn, NEW m \in WireMethods, NEW r \in Asked(m),
           ClientSupports(conn, m), NEW w, w = WireRequest(conn, m, r), ~Nameless(conn, m, w),
           NEW seen, seen = SeenRequest(conn, m, w)
    PROVE  RequestKept(conn, m, seen, Delivered(conn, m, r))
<1> USE DEF RequestKept
<1>1. conn.binding \in {"JSONRPC", "GRPC", "HTTP+JSON"} /\ conn.version \in {"1.0", "0.3"}
  BY DEF WireConn
<1>2. CASE Legacy(conn)
  <2>1. conn.version = "0.3" /\ m \in WireMethods \ {"list_tasks"}
    BY <1>2 DEF Legacy, ClientSupports
  <2>2. CASE conn.binding = "JSONRPC"
    <3>1. seen = CoreRequest(m, LegacyParams(m, r))
      <4>1. w = [method |-> m, params |-> LegacyParams(m, r)]
        BY <1>2, <2>2 DEF WireRequest, JsonRpcCall
      <4>2. JsonRpcParams(w) = LegacyParams(m, r)
        BY <4>1 DEF JsonRpcParams
      <4> QED BY <1>2, <2>2, <4>2 DEF SeenRequest
    <3>2. Delivered(conn, m, r) = r
      BY <2>2 DEF Delivered
    <3> QED BY Zenon, <1>2, <2>1, <2>2, <3>1, <3>2, JsonRequestBack
  <2>3. CASE conn.binding = "GRPC"
    <3>1. PICK g : g = GrpcRequest(m, r)
      OBVIOUS
    <3>2. w = [rpc |-> m, request |-> g]
      BY <1>2, <2>3, <3>1 DEF WireRequest, GrpcCall
    <3>3. GrpcParams(w) = g /\ w.request = g
      BY <3>2 DEF GrpcParams
    <3>4. seen = CoreRequest(m, ProtoParams(m, g))
      BY <1>2, <2>3, <3>3 DEF SeenRequest
    <3>5. conn = [version |-> "0.3", binding |-> "GRPC"]
      BY <2>1, <2>3 DEF WireConn
    <3>6. GrpcNamed(m, g)
      BY Zenon, <3>3, <3>5 DEF Nameless
    <3>7. PlainRequest(conn, m, CoreRequest(m, ProtoParams(m, g)))
            = PlainRequest(conn, m, Delivered(conn, m, r))
      BY Zenon, <2>1, <3>1, <3>5, <3>6, GrpcRequestBack
    <3> QED BY Zenon, <1>2, <3>4, <3>7
  <2>4. CASE conn.binding = "HTTP+JSON"
    <3>1. w = LegacyRestCall(m, r) /\ seen = CoreRequest(m, LegacyRestParams(m, w))
      BY <1>2, <2>4 DEF SeenRequest, WireRequest
    <3>2. m \in WireMethods \ {"list_tasks", "list_push", "delete_push"}
      BY <1>2, <2>1, <2>4 DEF ClientSupports
    <3>3. PlainRequest(conn, m, CoreRequest(m, LegacyRestParams(m, w))) = PlainRequest(conn, m, r)
      BY Zenon, <2>1, <2>4, <3>1, <3>2, LegacyRestBack
    <3>4. Delivered(conn, m, r) = r
      BY <2>1, <2>4 DEF Delivered
    <3> QED BY Zenon, <1>2, <3>1, <3>3, <3>4
  <2> QED BY <1>1, <2>2, <2>3, <2>4
<1>3. CASE ~Legacy(conn)
  <2>a. conn.version = "1.0"
    BY <1>1, <1>3 DEF Legacy
  <2>1. CASE conn.binding = "JSONRPC"
    <3>1. w = [method |-> m, params |-> r]
      BY <1>3, <2>1 DEF WireRequest, JsonRpcCall
    <3>2. JsonRpcParams(w) = r
      BY <3>1 DEF JsonRpcParams
    <3>3. Delivered(conn, m, r) = r
      BY <2>a, <2>1 DEF Delivered
    <3> QED BY <1>3, <2>1, <3>2, <3>3 DEF SeenRequest
  <2>2. CASE conn.binding = "GRPC"
    <3>1. w = [rpc |-> m, request |-> r]
      BY <1>3, <2>2 DEF WireRequest, GrpcCall
    <3>2. GrpcParams(w) = r
      BY <3>1 DEF GrpcParams
    <3>3. Delivered(conn, m, r) = r
      BY <2>a, <2>2 DEF Delivered
    <3> QED BY <1>3, <2>2, <3>2, <3>3 DEF SeenRequest
  <2>3. CASE conn.binding = "HTTP+JSON"
    <3>1. seen = RestParams(m, RestCall(m, r))
      BY <1>3, <2>3 DEF SeenRequest, WireRequest
    <3>2. conn = [version |-> "1.0", binding |-> "HTTP+JSON"]
      BY <2>a, <2>3 DEF WireConn
    <3>3. Delivered(conn, m, r) = IF m = "cancel_task" THEN [r EXCEPT !.metadata = Absent] ELSE r
      BY <3>2 DEF Delivered
    <3> QED BY Zenon, <1>3, <3>1, <3>3, RestRequestBack
  <2> QED BY <1>1, <2>1, <2>2, <2>3
<1> QED BY <1>2, <1>3

(* RequestCarried for every card, configuration, request and answer: the     *)
(* handler is given the request the transport was called with, of its own    *)
(* major version, but for the fields v0.3 has no place for, for what follows *)
(* a '/' in an id that v0.3 gRPC puts in a name, and for the metadata of a   *)
(* v1.0 REST cancel.                                                         *)
THEOREM RequestsCarried == WireSpec => []RequestCarried
<1>1. ASSUME CallInv PROVE RequestCarried
  <2> DEFINE c == wireCall
             k == wireClient
             due == Delivered(k.conn, c.method, c.req)
  <2>1. CASE ~ (c.stage \in {"handling", "replied"} /\ c.seen # Absent)
    BY Zenon, <2>1 DEF RequestCarried
  <2>2. CASE c.stage \in {"handling", "replied"} /\ c.seen # Absent
    <3>1. Carrying(k, c) /\ ClientOK(k)
      BY <1>1, <2>2 DEF CallInv, NoCall
    <3>2. /\ RequestOK(k.conn, c.method, c.req, c.wire)
          /\ SeenOK(k.conn, c.stage, c.method, c.wire, c.header, c.served, c.seen)
      BY Zenon, <3>1 DEF Carrying
    <3>3. Seen(k.conn, c.method, c.wire, c.header, c.served, c.seen)
      BY Zenon, <2>2, <3>2 DEF SeenOK
    <3>4. k.conn \in WireConn
      BY Zenon, <3>1 DEF ClientOK
    <3>5. /\ c.method \in WireMethods /\ c.req \in Asked(c.method)
          /\ ClientSupports(k.conn, c.method) /\ c.wire = WireRequest(k.conn, c.method, c.req)
      BY Zenon, <3>2 DEF RequestOK
    <3>6. /\ c.seen = SeenRequest(k.conn, c.method, c.wire) /\ VersionAccepted(k.conn, c.header)
          /\ ~Nameless(k.conn, c.method, c.wire)
          /\ c.served = c.method \/ (Legacy(k.conn) /\ c.method = "get_push" /\ c.served = "list_push")
      BY Zenon, <3>3 DEF Seen
    <3>7. RequestKept(k.conn, c.method, c.seen, due)
      BY Zenon, <3>4, <3>5, <3>6, RequestBack
    <3>8. c.served # c.method => c.seen.task_id = c.req.task_id
      <4>1. \A x : PlainRequest(k.conn, "get_push", x) = x
        BY DEF PlainRequest, Messages
      <4>2. CASE c.served # c.method
        <5>1. Legacy(k.conn) /\ c.method = "get_push"
          BY Zenon, <3>6, <4>2
        <5>2. PlainRequest(k.conn, "get_push", c.seen) = PlainRequest(k.conn, "get_push", due)
          BY Zenon, <3>7, <5>1 DEF RequestKept
        <5>3. PlainRequest(k.conn, "get_push", c.seen) = c.seen
          BY Zenon, <4>1
        <5>4. PlainRequest(k.conn, "get_push", due) = due
          BY Zenon, <4>1
        <5>5. c.seen = due
          BY Zenon, <5>2, <5>3, <5>4
        <5>6. due.task_id = c.req.task_id
          <6> DEFINE r == c.req
                     cn == k.conn
          <6>1. r \in [task_id : CompatStr, id : CompatStr]
            BY <3>5, <5>1 DEF Asked, RequestsOf, Messages
          <6>2. due = Delivered(cn, "get_push", r)
            BY Zenon, <5>1
          <6> HIDE DEF due, r, cn
          <6>3. due = [r EXCEPT !.id = Cut(r.id)] \/ due = r
            BY <6>2 DEF Delivered
          <6>4. due.task_id = r.task_id
            BY ONLY <6>1, <6>3
          <6> QED BY Zenon, <6>4 DEF r
        <5> QED BY Zenon, <5>5, <5>6
      <4> QED BY Zenon, <4>2
    <3>9. Http(k.conn) => Major(c.header) = Major(k.conn.version)
      BY Zenon, <3>6 DEF VersionAccepted
    <3> QED BY Zenon, <3>7, <3>8, <3>9 DEF RequestCarried, RequestKept
  <2> QED BY Zenon, <2>1, <2>2
<1> QED BY <1>1, CallsCarried, PTL

(* ---- agent cards: what of them a client goes by ---- *)
LEMMA RequirementsBack ==
    ASSUME NEW c \in Seq(CoreSecurityRequirement), NEW j, j = Each(ToCompatSecurityRequirement, c)
    PROVE  /\ EachGiven(ToCoreSecurityRequirement, NoneAbsent(j)) = c
           /\ EachGiven(ToCoreSecurityRequirement, NoneAbsent(OrNone(NoneAbsent(j)))) = c
<1>1. \A i \in 1..Len(c) : c[i] \in [{"s"} -> [list : Seq(CompatStr)]]
  BY DEF CoreSecurityRequirement
<1>2. DOMAIN c = 1..Len(c) /\ Len(c) \in Nat /\ c = [i \in 1..Len(c) |-> c[i]]
  OBVIOUS
<1>3. j = [i \in 1..Len(c) |-> ToCompatSecurityRequirement(c[i])]
  BY <1>2 DEF Each
<1>4. \A i \in 1..Len(c) : /\ j[i] \in [{"s"} -> Seq(CompatStr)]
                           /\ ToCoreSecurityRequirement(j[i]) = c[i]
  <2> SUFFICES ASSUME NEW i \in 1..Len(c)
               PROVE  /\ j[i] \in [{"s"} -> Seq(CompatStr)]
                      /\ ToCoreSecurityRequirement(j[i]) = c[i]
    OBVIOUS
  <2>1. PICK x : x = c[i]
    OBVIOUS
  <2>2. PICK y : y = ToCompatSecurityRequirement(x)
    OBVIOUS
  <2>3. x \in [{"s"} -> [list : Seq(CompatStr)]]
    BY <1>1, <2>1
  <2>4. x["s"] \in [list : Seq(CompatStr)] /\ DOMAIN x = {"s"} /\ x = [n \in {"s"} |-> x[n]]
    BY <2>3
  <2>5. y = [n \in {"s"} |-> x[n].list]
    BY <2>2, <2>4 DEF ToCompatSecurityRequirement
  <2>6. y \in [{"s"} -> Seq(CompatStr)]
    BY <2>4, <2>5
  <2>7. [list |-> x["s"].list] = x["s"]
    BY <2>4
  <2>8. ToCoreSecurityRequirement(y) = x
    BY <2>4, <2>5, <2>7 DEF ToCoreSecurityRequirement
  <2>9. j[i] = y
    BY <1>3, <2>1, <2>2
  <2> QED BY Zenon, <2>1, <2>6, <2>8, <2>9
<1>5. j \in Seq([{"s"} -> Seq(CompatStr)])
  <2>1. DOMAIN j = 1..Len(c) /\ j = [i \in 1..Len(c) |-> j[i]]
    BY <1>3
  <2> QED BY <1>2, <1>4, <2>1, SeqMade
<1>6. OrNone(NoneAbsent(j)) = j
  BY <1>5, SomeOrNone, AbsentIsNoValue
<1>7. Each(ToCoreSecurityRequirement, j) = c
  BY <1>2, <1>3, <1>4 DEF Each
<1> QED BY Zenon, <1>6, <1>7 DEF EachGiven

\* the kind of a scheme is read back
KindOf(s, c) ==
    /\ c.which = "api_key" => s.type = "apiKey"
    /\ c.which = "http_auth" => s.type = "http"
    /\ c.which = "oauth2" => s.type = "oauth2"
    /\ c.which = "open_id_connect" => s.type = "openIdConnect"
    /\ c.which = "mtls" => s.type = "mutualTLS"

LEMMA KindRead ==
    ASSUME NEW c \in CoreSecurityScheme, NEW s, KindOf(s, c)
    PROVE  ToCoreSecurityScheme(s).which = c.which
<1>1. c.which \in {"api_key", "http_auth", "oauth2", "open_id_connect", "mtls"}
  BY DEF CoreSecurityScheme
<1>2. PICK q : q = ToCoreSecurityScheme(s)
  OBVIOUS
<1>3. q.which = c.which
  BY <1>1, <1>2 DEF ToCoreSecurityScheme, KindOf
<1> QED BY Zenon, <1>2, <1>3

LEMMA FlowsTyped ==
    ASSUME NEW c \in CompatOpt(CoreOAuthFlows)
    PROVE  ToCompatOAuthFlows(c) \in OAuthFlows
<1>1. {FlowNames[i] : i \in DOMAIN FlowNames}
        = {"authorization_code", "client_credentials", "implicit", "password"}
  BY DEF FlowNames
<1>2. ASSUME c # Absent
      PROVE  [url |-> c.flow.url, refresh_url |-> BlankAbsent(c.flow.refresh_url)] \in OAuthFlow
  <2>1. c.flow \in [url : CompatStr, refresh_url : CompatStr]
    BY <1>2 DEF CompatOpt, CoreOAuthFlows
  <2>2. c.flow.url \in CompatStr /\ BlankAbsent(c.flow.refresh_url) \in CompatOpt(CompatStr)
    BY <2>1, TextBack
  <2> QED BY <2>2 DEF OAuthFlow
<1> QED BY <1>1, <1>2 DEF ToCompatOAuthFlows, OAuthFlows, CompatOpt

LEMMA SchemeTyped ==
    ASSUME NEW c \in CoreSecurityScheme, NEW s, s = ToCompatSecurityScheme(c)
    PROVE  s \in CompatSecurityScheme /\ KindOf(s, c)
<1>1. c.description \in CompatStr
  BY DEF CoreSecurityScheme
<1>2. PICK d : d = BlankAbsent(c.description)
  OBVIOUS
<1>3. d \in CompatOpt(CompatStr)
  BY <1>1, <1>2, TextBack
<1>4. CASE c.which = "api_key"
  <2>1. c.location \in {"cookie", "header", "query"} /\ c.name \in CompatStr
    BY <1>4 DEF CoreSecurityScheme
  <2>2. s = [type |-> "apiKey", in_ |-> c.location, name |-> c.name, description |-> d]
    BY <1>2, <1>4 DEF ToCompatSecurityScheme
  <2>3. s \in APIKeySecurityScheme
    BY <1>3, <2>1, <2>2 DEF APIKeySecurityScheme
  <2> QED BY <1>4, <2>2, <2>3 DEF CompatSecurityScheme, KindOf
<1>5. CASE c.which = "http_auth"
  <2>1. c.scheme \in CompatStr /\ c.bearer_format \in CompatStr
    BY <1>5 DEF CoreSecurityScheme
  <2>2. PICK b : b = BlankAbsent(c.bearer_format)
    OBVIOUS
  <2>3. b \in CompatOpt(CompatStr)
    BY <2>1, <2>2, TextBack
  <2>4. s = [type |-> "http", scheme |-> c.scheme, bearer_format |-> b, description |-> d]
    BY <1>2, <1>5, <2>2 DEF ToCompatSecurityScheme
  <2>5. s \in HTTPAuthSecurityScheme
    BY <1>3, <2>1, <2>3, <2>4 DEF HTTPAuthSecurityScheme
  <2> QED BY <1>5, <2>4, <2>5 DEF CompatSecurityScheme, KindOf
<1>6. CASE c.which = "oauth2"
  <2>1. c.flows \in CompatOpt(CoreOAuthFlows) /\ c.oauth2_metadata_url \in CompatStr
    BY <1>6 DEF CoreSecurityScheme
  <2>2. PICK b : b = BlankAbsent(c.oauth2_metadata_url)
    OBVIOUS
  <2>3. PICK f : f = ToCompatOAuthFlows(c.flows)
    OBVIOUS
  <2>4. b \in CompatOpt(CompatStr) /\ f \in OAuthFlows
    BY <2>1, <2>2, <2>3, TextBack, FlowsTyped
  <2>5. s = [type |-> "oauth2", flows |-> f, oauth2_metadata_url |-> b, description |-> d]
    BY <1>2, <1>6, <2>2, <2>3 DEF ToCompatSecurityScheme
  <2>6. s \in OAuth2SecurityScheme
    BY <1>3, <2>4, <2>5 DEF OAuth2SecurityScheme
  <2> QED BY <1>6, <2>5, <2>6 DEF CompatSecurityScheme, KindOf
<1>7. CASE c.which = "open_id_connect"
  <2>1. c.open_id_connect_url \in CompatStr
    BY <1>7 DEF CoreSecurityScheme
  <2>2. s = [type |-> "openIdConnect", open_id_connect_url |-> c.open_id_connect_url,
             description |-> d]
    BY <1>2, <1>7 DEF ToCompatSecurityScheme
  <2>3. s \in OpenIdConnectSecurityScheme
    BY <1>3, <2>1, <2>2 DEF OpenIdConnectSecurityScheme
  <2> QED BY <1>7, <2>2, <2>3 DEF CompatSecurityScheme, KindOf
<1>8. CASE c.which = "mtls"
  <2>1. s = [type |-> "mutualTLS", description |-> d]
    BY <1>2, <1>8 DEF ToCompatSecurityScheme
  <2>2. s \in MutualTLSSecurityScheme
    BY <1>3, <2>1 DEF MutualTLSSecurityScheme
  <2> QED BY <1>8, <2>1, <2>2 DEF CompatSecurityScheme, KindOf
<1>9. c.which \in {"api_key", "http_auth", "oauth2", "open_id_connect", "mtls"}
  BY DEF CoreSecurityScheme
<1> QED BY <1>4, <1>5, <1>6, <1>7, <1>8, <1>9

LEMMA KindTaken ==
    ASSUME NEW s \in CompatSecurityScheme
    PROVE  TakeScheme(PutScheme(s)).type = s.type
<1>1. PICK t : t = [s EXCEPT !.description = OrBlank(@)]
  OBVIOUS
<1>2. PICK p : p = PutScheme(s)
  OBVIOUS
<1>3. PICK q : q = TakeScheme(p)
  OBVIOUS
<1>4. CASE s.type = "http"
  <2>1. DOMAIN s = {"type", "scheme", "bearer_format", "description"}
    BY <1>4 DEF CompatSecurityScheme, APIKeySecurityScheme, HTTPAuthSecurityScheme,
                OAuth2SecurityScheme, OpenIdConnectSecurityScheme, MutualTLSSecurityScheme
  <2>2. p = [t EXCEPT !.bearer_format = OrBlank(@)]
    BY <1>1, <1>2, <1>4 DEF PutScheme
  <2>3. p.type = s.type
    BY <1>1, <2>1, <2>2
  <2>4. q = p
    BY <1>3, <1>4, <2>3 DEF TakeScheme
  <2> QED BY Zenon, <1>2, <1>3, <2>3, <2>4
<1>5. CASE s.type = "oauth2"
  <2>1. DOMAIN s = {"type", "flows", "oauth2_metadata_url", "description"}
    BY <1>5 DEF CompatSecurityScheme, APIKeySecurityScheme, HTTPAuthSecurityScheme,
                OAuth2SecurityScheme, OpenIdConnectSecurityScheme, MutualTLSSecurityScheme
  <2>2. PICK f : f = PutOAuthFlows(t.flows)
    OBVIOUS
  <2>3. p = [t EXCEPT !.flows = f, !.oauth2_metadata_url = OrBlank(@)]
    BY Zenon, <1>1, <1>2, <1>5, <2>2 DEF PutScheme
  <2>4. p.type = s.type /\ DOMAIN p = DOMAIN s
    BY <1>1, <2>1, <2>3
  <2>5. PICK g : g = TakeOAuthFlows(p.flows)
    OBVIOUS
  <2>6. q = [p EXCEPT !.flows = g, !.oauth2_metadata_url = BlankAbsent(@)]
    BY Zenon, <1>3, <1>5, <2>4, <2>5 DEF TakeScheme
  <2>7. q.type = s.type
    BY <2>1, <2>4, <2>6
  <2> QED BY Zenon, <1>2, <1>3, <2>7
<1>6. CASE s.type \in {"apiKey", "mutualTLS", "openIdConnect"}
  <2>1. "type" \in DOMAIN s
    BY DEF CompatSecurityScheme, APIKeySecurityScheme, HTTPAuthSecurityScheme,
           OAuth2SecurityScheme, OpenIdConnectSecurityScheme, MutualTLSSecurityScheme
  <2>2. p = t
    BY <1>1, <1>2, <1>6 DEF PutScheme
  <2>3. p.type = s.type
    BY <1>1, <2>1, <2>2
  <2>4. q = p
    BY <1>3, <1>6, <2>3 DEF TakeScheme
  <2> QED BY Zenon, <1>2, <1>3, <2>3, <2>4
<1>7. s.type \in {"apiKey", "http", "oauth2", "openIdConnect", "mutualTLS"}
  BY DEF CompatSecurityScheme, APIKeySecurityScheme, HTTPAuthSecurityScheme,
         OAuth2SecurityScheme, OpenIdConnectSecurityScheme, MutualTLSSecurityScheme
<1> QED BY <1>4, <1>5, <1>6, <1>7

\* the schemes of a v0.3 card, and the card, from which those of c are read back
SchemesOf(s, c) ==
    IF s = Absent THEN c = <<>>
    ELSE DOMAIN s = DOMAIN c /\ \A n \in DOMAIN c : KindOf(s[n], c[n])
SameFlag(x, y) == (x = TRUE) = (y = TRUE)
SkillsOf(k, c) ==
    /\ DOMAIN k = DOMAIN c
    /\ \A i \in DOMAIN c : k[i].id = c[i].id
CardOf(rest, a, c) ==
    /\ a.name = c.name
    /\ SameFlag(a.capabilities.streaming, c.capabilities.streaming)
    /\ SameFlag(a.supports_authenticated_extended_card, c.capabilities.extended_agent_card)
    /\ SkillsOf(a.skills, c.skills)
    /\ a.default_input_modes = c.default_input_modes
    /\ a.default_output_modes = c.default_output_modes
    /\ ~rest => /\ SchemesOf(a.security_schemes, c.security_schemes)
                /\ EachGiven(ToCoreSecurityRequirement, a.security) = c.security_requirements
CoreSchemes(s) == IF s = Absent THEN <<>> ELSE EachScheme(ToCoreSecurityScheme, s)
KindsOf(c) == {c[n].which : n \in DOMAIN c}
SkillIds(k) == [i \in DOMAIN k |-> k[i].id]

LEMMA SchemesRead ==
    ASSUME NEW c \in {<<>>} \cup [{"s"} -> CoreSecurityScheme], NEW s, SchemesOf(s, c)
    PROVE  KindsOf(CoreSchemes(s)) = KindsOf(c)
<1>1. CASE s = Absent
  BY <1>1 DEF SchemesOf, CoreSchemes
<1>2. CASE s # Absent
  <2>1. DOMAIN s = DOMAIN c /\ \A n \in DOMAIN c : KindOf(s[n], c[n])
    BY <1>2 DEF SchemesOf
  <2>2. \A n \in DOMAIN c : c[n] \in CoreSecurityScheme
    OBVIOUS
  <2>3. \A n \in DOMAIN c : ToCoreSecurityScheme(s[n]).which = c[n].which
    BY Zenon, <2>1, <2>2, KindRead
  <2>4. CoreSchemes(s) = [n \in DOMAIN c |-> ToCoreSecurityScheme(s[n])]
    BY <1>2, <2>1 DEF CoreSchemes, EachScheme
  <2>5. PICK q : q = CoreSchemes(s)
    OBVIOUS
  <2>6. DOMAIN q = DOMAIN c /\ \A n \in DOMAIN c : q[n] = ToCoreSecurityScheme(s[n])
    BY ONLY <2>4, <2>5
  <2>7. \A n \in DOMAIN c : q[n].which = c[n].which
    BY Zenon, <2>3, <2>6
  <2>8. KindsOf(q) = KindsOf(c)
    BY <2>6, <2>7 DEF KindsOf
  <2> QED BY Zenon, <2>5, <2>8
<1> QED BY <1>1, <1>2

LEMMA SkillsRead ==
    ASSUME NEW c \in Seq(CoreSkill), NEW k, SkillsOf(k, c)
    PROVE  SkillIds(Each(ToCoreSkill, k)) = SkillIds(c)
<1>1. DOMAIN k = DOMAIN c /\ \A i \in DOMAIN c : k[i].id = c[i].id
  BY DEF SkillsOf
<1>2. PICK q : q = Each(ToCoreSkill, k)
  OBVIOUS
<1>3. q = [i \in DOMAIN c |-> ToCoreSkill(k[i])]
  BY <1>1, <1>2 DEF Each
<1>4. \A x : ToCoreSkill(x).id = x.id
  BY DEF ToCoreSkill
<1>5. DOMAIN q = DOMAIN c /\ \A i \in DOMAIN c : q[i] = ToCoreSkill(k[i])
  BY ONLY <1>3
<1>6. \A i \in DOMAIN c : q[i].id = c[i].id
  BY Zenon, <1>1, <1>4, <1>5
<1>7. SkillIds(q) = SkillIds(c)
  BY <1>5, <1>6 DEF SkillIds
<1> QED BY Zenon, <1>2, <1>7

LEMMA CardRead ==
    ASSUME NEW conn, NEW c \in CoreAgentCard, NEW a, CardOf(LegacyRest(conn), a, c)
    PROVE  PlainCard(conn, ToCoreAgentCard(a)) = PlainCard(conn, c)
<1>1. PICK q : q = ToCoreAgentCard(a)
  OBVIOUS
<1>2. PICK caps : caps = ToCoreCapabilities(a.capabilities, a.supports_authenticated_extended_card)
  OBVIOUS
<1>3. PICK req : req = EachGiven(ToCoreSecurityRequirement, a.security)
  OBVIOUS
<1>4. PICK sk : sk = Each(ToCoreSkill, a.skills)
  OBVIOUS
<1>5. PICK sch : sch = CoreSchemes(a.security_schemes)
  OBVIOUS
<1> DEFINE main == [url |-> a.url,
                    protocol_binding |-> IF a.preferred_transport \in {Absent, ""} THEN "JSONRPC"
                                         ELSE a.preferred_transport,
                    protocol_version |-> IF a.protocol_version \in {Absent, ""} THEN "0.3"
                                         ELSE a.protocol_version,
                    tenant |-> ""]
           ifs == <<main>> \o EachGiven(ToCoreInterface, a.additional_interfaces)
           prov == Given(ToCoreProvider, a.provider)
           doc == IF a.documentation_url = "" THEN Absent ELSE a.documentation_url
           icon == IF a.icon_url = "" THEN Absent ELSE a.icon_url
           sigs == EachGiven(ToCoreSignature, a.signatures)
<1>6. q = [name |-> a.name, supported_interfaces |-> ifs, provider |-> prov,
           documentation_url |-> doc, icon_url |-> icon, capabilities |-> caps,
           security_schemes |-> sch, security_requirements |-> req,
           default_input_modes |-> a.default_input_modes,
           default_output_modes |-> a.default_output_modes, skills |-> sk, signatures |-> sigs]
  BY Zenon, <1>1, <1>2, <1>3, <1>4, <1>5 DEF ToCoreAgentCard, CoreSchemes
<1> HIDE DEF ifs, prov, doc, icon, sigs, main
<1>7. /\ q.name = a.name /\ q.capabilities = caps /\ q.security_schemes = sch
      /\ q.security_requirements = req /\ q.default_input_modes = a.default_input_modes
      /\ q.default_output_modes = a.default_output_modes /\ q.skills = sk
  BY ONLY <1>6
<1>8. /\ caps.streaming = a.capabilities.streaming
      /\ caps.extended_agent_card = a.supports_authenticated_extended_card
  BY <1>2 DEF ToCoreCapabilities
<1>9. /\ c.security_schemes \in {<<>>} \cup [{"s"} -> CoreSecurityScheme]
      /\ c.skills \in Seq(CoreSkill)
  BY DEF CoreAgentCard
<1>10. /\ a.name = c.name /\ (a.capabilities.streaming = TRUE) = (c.capabilities.streaming = TRUE)
       /\ (a.supports_authenticated_extended_card = TRUE)
            = (c.capabilities.extended_agent_card = TRUE)
       /\ a.default_input_modes = c.default_input_modes
       /\ a.default_output_modes = c.default_output_modes
       /\ SkillsOf(a.skills, c.skills)
       /\ ~LegacyRest(conn) => /\ SchemesOf(a.security_schemes, c.security_schemes)
                               /\ req = c.security_requirements
  BY Zenon, <1>3 DEF CardOf, SameFlag
<1>11. SkillIds(sk) = SkillIds(c.skills)
  BY Zenon, <1>4, <1>9, <1>10, SkillsRead
<1>12. ~LegacyRest(conn) => KindsOf(sch) = KindsOf(c.security_schemes)
  BY Zenon, <1>5, <1>9, <1>10, SchemesRead
<1>13. \A x : PlainCard(conn, x) =
         [name |-> x.name, streaming |-> x.capabilities.streaming = TRUE,
          extended |-> x.capabilities.extended_agent_card = TRUE, skills |-> SkillIds(x.skills),
          modes |-> <<x.default_input_modes, x.default_output_modes>>,
          schemes |-> IF LegacyRest(conn) THEN {} ELSE KindsOf(x.security_schemes),
          required |-> IF LegacyRest(conn) THEN <<>> ELSE x.security_requirements]
  BY Zenon DEF PlainCard, SkillIds, KindsOf, LegacyRest
<1>14. /\ (q.capabilities.streaming = TRUE) = (c.capabilities.streaming = TRUE)
       /\ (q.capabilities.extended_agent_card = TRUE) = (c.capabilities.extended_agent_card = TRUE)
       /\ SkillIds(q.skills) = SkillIds(c.skills)
       /\ <<q.default_input_modes, q.default_output_modes>>
            = <<c.default_input_modes, c.default_output_modes>>
       /\ q.name = c.name
  BY Zenon, <1>7, <1>8, <1>10, <1>11
<1>15. (IF LegacyRest(conn) THEN {} ELSE KindsOf(q.security_schemes))
         = (IF LegacyRest(conn) THEN {} ELSE KindsOf(c.security_schemes))
  BY Zenon, <1>7, <1>12
<1>16. (IF LegacyRest(conn) THEN <<>> ELSE q.security_requirements)
         = (IF LegacyRest(conn) THEN <<>> ELSE c.security_requirements)
  BY Zenon, <1>7, <1>10
<1>17. PlainCard(conn, q) = PlainCard(conn, c)
  <2>1. PlainCard(conn, q) =
          [name |-> q.name, streaming |-> q.capabilities.streaming = TRUE,
           extended |-> q.capabilities.extended_agent_card = TRUE, skills |-> SkillIds(q.skills),
           modes |-> <<q.default_input_modes, q.default_output_modes>>,
           schemes |-> IF LegacyRest(conn) THEN {} ELSE KindsOf(q.security_schemes),
           required |-> IF LegacyRest(conn) THEN <<>> ELSE q.security_requirements]
    BY Zenon, <1>13
  <2>2. PlainCard(conn, c) =
          [name |-> c.name, streaming |-> c.capabilities.streaming = TRUE,
           extended |-> c.capabilities.extended_agent_card = TRUE, skills |-> SkillIds(c.skills),
           modes |-> <<c.default_input_modes, c.default_output_modes>>,
           schemes |-> IF LegacyRest(conn) THEN {} ELSE KindsOf(c.security_schemes),
           required |-> IF LegacyRest(conn) THEN <<>> ELSE c.security_requirements]
    BY Zenon, <1>13
  <2> QED BY <2>1, <2>2, <1>14, <1>15, <1>16
<1> QED BY Zenon, <1>1, <1>17

\* the schemes of a card, written, put in protobuf and taken out of it
LEMMA FlowsTaken ==
    ASSUME NEW f \in OAuthFlows, HasFlow(f)
    PROVE  TakeOAuthFlows(PutOAuthFlows(f)) \in OAuthFlows
<1> DEFINE names == {"authorization_code", "client_credentials", "implicit", "password"}
           given == {i \in DOMAIN FlowNames : f[FlowNames[i]] # Absent}
           first == FlowNames[CHOOSE i \in given : \A j \in given : i <= j]
<1>1. /\ {FlowNames[i] : i \in DOMAIN FlowNames} = names /\ DOMAIN FlowNames = 1..4
      /\ \A i \in 1..4 : FlowNames[i] \in names
      /\ \A n \in names : \E i \in 1..4 : FlowNames[i] = n
  BY DEF FlowNames
<1>2. DOMAIN f = names /\ \A n \in names : f[n] \in CompatOpt(OAuthFlow)
  BY DEF OAuthFlows
<1>3. given \in SUBSET Nat /\ given # {}
  BY <1>1, <1>2 DEF HasFlow
<1>4. PICK i \in given : \A j \in given : i <= j
  BY <1>3, LeastIndex
<1>5. first \in names /\ f[first] # Absent
  <2>1. (CHOOSE k \in given : \A j \in given : k <= j) \in given
    BY <1>4
  <2> QED BY <1>1, <2>1
<1>6. PICK p : p = PutOAuthFlows(f)
  OBVIOUS
<1>7. p = [which |-> first, url |-> f[first].url, refresh_url |-> OrBlank(f[first].refresh_url)]
  BY Zenon, <1>6 DEF PutOAuthFlows
<1> HIDE DEF given, first
<1>8. f[first] \in OAuthFlow
  BY <1>2, <1>5 DEF CompatOpt
<1>9. p.url \in CompatStr /\ p.refresh_url \in CompatStr
  <2>1. f[first].url \in CompatStr /\ f[first].refresh_url \in CompatOpt(CompatStr)
    BY <1>8 DEF OAuthFlow
  <2>2. OrBlank(f[first].refresh_url) \in CompatStr
    BY <2>1, BlankIsText DEF OrBlank, CompatOpt
  <2> QED BY <1>7, <2>1, <2>2
<1>10. [url |-> p.url, refresh_url |-> p.refresh_url] \in OAuthFlow
  BY <1>9 DEF OAuthFlow, CompatOpt
<1>11. PICK t : t = TakeOAuthFlows(p)
  OBVIOUS
<1>12. t = [n \in names |-> IF p.which = n THEN [url |-> p.url, refresh_url |-> p.refresh_url]
                            ELSE Absent]
  BY Zenon, <1>1, <1>11 DEF TakeOAuthFlows
<1>13. t \in OAuthFlows
  BY <1>10, <1>12 DEF OAuthFlows, CompatOpt
<1> QED BY Zenon, <1>6, <1>11, <1>13

\* a scheme that can be put in protobuf at all
Puttable(s) == s.type = "oauth2" => HasFlow(s.flows)

LEMMA SchemeTaken ==
    ASSUME NEW s \in CompatSecurityScheme, Puttable(s)
    PROVE  TakeScheme(PutScheme(s)) \in CompatSecurityScheme
<1>1. PICK t : t = [s EXCEPT !.description = OrBlank(@)]
  OBVIOUS
<1>2. PICK p : p = PutScheme(s)
  OBVIOUS
<1>3. PICK q : q = TakeScheme(p)
  OBVIOUS
<1>4. PICK d : d = OrBlank(s.description)
  OBVIOUS
<1>5. s.description \in CompatOpt(CompatStr)
  BY DEF CompatSecurityScheme, APIKeySecurityScheme, HTTPAuthSecurityScheme,
         OAuth2SecurityScheme, OpenIdConnectSecurityScheme, MutualTLSSecurityScheme
<1>6. d \in CompatStr
  BY <1>4, <1>5, BlankIsText DEF OrBlank, CompatOpt
<1>7. t = [s EXCEPT !.description = d]
  BY Zenon, <1>1, <1>4
<1>8. CASE s.type = "http"
  <2>1. /\ s \in HTTPAuthSecurityScheme /\ DOMAIN t = DOMAIN s
        /\ DOMAIN s = {"type", "scheme", "bearer_format", "description"}
    BY <1>7, <1>8 DEF CompatSecurityScheme, APIKeySecurityScheme, HTTPAuthSecurityScheme,
                OAuth2SecurityScheme, OpenIdConnectSecurityScheme, MutualTLSSecurityScheme
  <2>2. PICK b : b = OrBlank(s.bearer_format)
    OBVIOUS
  <2>3. b \in CompatStr
    BY <2>1, <2>2, BlankIsText DEF OrBlank, CompatOpt, HTTPAuthSecurityScheme
  <2>4. p = [t EXCEPT !.bearer_format = OrBlank(@)]
    BY Zenon, <1>1, <1>2, <1>8 DEF PutScheme
  <2>5. t.bearer_format = s.bearer_format
    BY <1>7, <2>1
  <2>6. p = [t EXCEPT !.bearer_format = b]
    BY Zenon, <2>2, <2>4, <2>5
  <2>7. p \in HTTPAuthSecurityScheme /\ p.type = "http"
    BY <1>6, <1>7, <1>8, <2>1, <2>3, <2>6 DEF HTTPAuthSecurityScheme, CompatOpt
  <2>8. q = p
    BY <1>3, <2>7 DEF TakeScheme
  <2>9. q \in CompatSecurityScheme
    BY <2>7, <2>8 DEF CompatSecurityScheme
  <2> QED BY Zenon, <1>2, <1>3, <2>9
<1>9. CASE s.type = "oauth2"
  <2>1. /\ s \in OAuth2SecurityScheme /\ DOMAIN t = DOMAIN s
        /\ DOMAIN s = {"type", "flows", "oauth2_metadata_url", "description"}
    BY <1>7, <1>9 DEF CompatSecurityScheme, APIKeySecurityScheme, HTTPAuthSecurityScheme,
                OAuth2SecurityScheme, OpenIdConnectSecurityScheme, MutualTLSSecurityScheme
  <2>2. PICK f : f = PutOAuthFlows(s.flows)
    OBVIOUS
  <2>3. PICK b : b = OrBlank(s.oauth2_metadata_url)
    OBVIOUS
  <2>4. t.flows = s.flows /\ t.oauth2_metadata_url = s.oauth2_metadata_url
    BY <1>7, <2>1
  <2>5. p = [t EXCEPT !.flows = PutOAuthFlows(@), !.oauth2_metadata_url = OrBlank(@)]
    BY Zenon, <1>1, <1>2, <1>9 DEF PutScheme
  <2>6. p = [t EXCEPT !.flows = PutOAuthFlows(t.flows), !.oauth2_metadata_url = OrBlank(t.oauth2_metadata_url)]
    BY <2>1, <2>5
  <2>7. p = [t EXCEPT !.flows = f, !.oauth2_metadata_url = b]
    BY Zenon, <2>2, <2>3, <2>4, <2>6
  <2>8. /\ p.type = "oauth2" /\ p.flows = f /\ p.oauth2_metadata_url = b /\ p.description = d
        /\ DOMAIN p = DOMAIN s
    BY <1>7, <1>9, <2>1, <2>7
  <2>9. PICK g : g = TakeOAuthFlows(f)
    OBVIOUS
  <2>10. PICK u : u = BlankAbsent(b)
    OBVIOUS
  <2>11. q = [p EXCEPT !.flows = TakeOAuthFlows(p.flows), !.oauth2_metadata_url = BlankAbsent(p.oauth2_metadata_url)]
    BY <1>3, <2>1, <2>8 DEF TakeScheme
  <2>12. q = [p EXCEPT !.flows = g, !.oauth2_metadata_url = u]
    BY Zenon, <2>8, <2>9, <2>10, <2>11
  <2>13. s.flows \in OAuthFlows /\ s.oauth2_metadata_url \in CompatOpt(CompatStr)
    BY <2>1 DEF OAuth2SecurityScheme
  <2>14. g \in OAuthFlows
    BY Zenon, <1>9, <2>2, <2>9, <2>13, FlowsTaken DEF Puttable
  <2>15. u \in CompatOpt(CompatStr)
    <3>1. b \in CompatStr
      BY <2>3, <2>13, BlankIsText DEF OrBlank, CompatOpt
    <3> QED BY Zenon, <2>10, <3>1, TextBack
  <2>16. q = [type |-> "oauth2", flows |-> g, oauth2_metadata_url |-> u, description |-> d]
    BY <2>1, <2>8, <2>12
  <2>17. q \in CompatSecurityScheme
    BY <1>6, <2>14, <2>15, <2>16 DEF CompatSecurityScheme, OAuth2SecurityScheme, CompatOpt
  <2> QED BY Zenon, <1>2, <1>3, <2>17
<1>10. CASE s.type \in {"apiKey", "mutualTLS", "openIdConnect"}
  <2>1. p = t
    BY Zenon, <1>1, <1>2, <1>10 DEF PutScheme
  <2>2. t \in CompatSecurityScheme /\ t.type = s.type
    BY <1>6, <1>7, <1>10
       DEF CompatSecurityScheme, APIKeySecurityScheme, HTTPAuthSecurityScheme,
           OAuth2SecurityScheme, OpenIdConnectSecurityScheme, MutualTLSSecurityScheme, CompatOpt
  <2>3. q = p
    BY <1>3, <1>10, <2>1, <2>2 DEF TakeScheme
  <2> QED BY Zenon, <1>2, <1>3, <2>1, <2>2, <2>3
<1>11. s.type \in {"apiKey", "http", "oauth2", "openIdConnect", "mutualTLS"}
  BY DEF CompatSecurityScheme, APIKeySecurityScheme, HTTPAuthSecurityScheme,
         OAuth2SecurityScheme, OpenIdConnectSecurityScheme, MutualTLSSecurityScheme
<1> QED BY <1>8, <1>9, <1>10, <1>11

WrittenSchemes(c) == IF c = <<>> THEN Absent ELSE EachScheme(ToCompatSecurityScheme, c)
PutSchemes(s) == IF s = Absent THEN <<>> ELSE EachScheme(PutScheme, s)

LEMMA SchemesBack ==
    ASSUME NEW c \in {<<>>} \cup [{"s"} -> CoreSecurityScheme], NEW s, s = WrittenSchemes(c),
           NEW t, t = EachScheme(TakeScheme, PutSchemes(s))
    PROVE  /\ SchemesOf(s, c)
           /\ (s # Absent => \A n \in DOMAIN s : Puttable(s[n])) => SchemesOf(t, c)
<1>1. CASE c = <<>>
  <2>1. s = Absent
    BY <1>1 DEF WrittenSchemes
  <2>2. PutSchemes(s) = <<>>
    BY <2>1 DEF PutSchemes
  <2>3. t = [n \in DOMAIN <<>> |-> TakeScheme(<<>>[n])]
    BY Zenon, <2>2 DEF EachScheme
  <2>4. DOMAIN t = {} /\ DOMAIN c = {}
    BY <1>1, <2>3
  <2> QED BY <1>1, <2>1, <2>4 DEF SchemesOf
<1>2. CASE c # <<>>
  <2>1. c \in [{"s"} -> CoreSecurityScheme]
    BY <1>2
  <2>2. DOMAIN c = {"s"} /\ c["s"] \in CoreSecurityScheme
    BY <2>1
  <2>3. s = [n \in {"s"} |-> ToCompatSecurityScheme(c[n])]
    BY <1>2, <2>2 DEF WrittenSchemes, EachScheme
  <2>4. PICK x : x = s["s"]
    OBVIOUS
  <2>5. x = ToCompatSecurityScheme(c["s"]) /\ DOMAIN s = {"s"}
    BY <2>3, <2>4
  <2>6. x \in CompatSecurityScheme /\ KindOf(x, c["s"])
    BY Zenon, <2>2, <2>5, SchemeTyped
  <2>7. s \in [{"s"} -> CompatSecurityScheme]
    BY ONLY <2>3, <2>4, <2>6
  <2>8. s # Absent
    BY Zenon, <2>7, AbsentIsNoValue
  <2>9. SchemesOf(s, c)
    BY Zenon, <2>2, <2>4, <2>5, <2>6, <2>8 DEF SchemesOf
  <2>10. PICK y : y = TakeScheme(PutScheme(x))
    OBVIOUS
  <2>11. ASSUME \A n \in DOMAIN s : Puttable(s[n]) PROVE SchemesOf(t, c)
    <3>1. Puttable(x)
      BY Zenon, <2>4, <2>5, <2>11
    <3>2. y \in CompatSecurityScheme /\ y.type = x.type
      BY Zenon, <2>6, <2>10, <3>1, SchemeTaken, KindTaken
    <3>3. PICK p : p = PutSchemes(s)
      OBVIOUS
    <3>4. p = [n \in {"s"} |-> PutScheme(s[n])]
      BY <2>5, <2>8, <3>3 DEF PutSchemes, EachScheme
    <3>5. DOMAIN p = {"s"} /\ p["s"] = PutScheme(x)
      BY <2>4, <3>4
    <3>6. t = [n \in {"s"} |-> TakeScheme(p[n])]
      BY <3>3, <3>5 DEF EachScheme
    <3>7. DOMAIN t = {"s"} /\ t["s"] = y
      BY <2>10, <3>5, <3>6
    <3>8. t \in [{"s"} -> CompatSecurityScheme]
      BY ONLY <3>2, <3>6, <3>7
    <3>9. t # Absent
      BY Zenon, <3>8, AbsentIsNoValue
    <3>10. KindOf(y, c["s"])
      BY Zenon, <2>6, <3>2 DEF KindOf
    <3> QED BY Zenon, <2>2, <3>7, <3>9, <3>10 DEF SchemesOf
  <2> QED BY Zenon, <2>8, <2>9, <2>11
<1> QED BY <1>1, <1>2

CardFields == {"name", "url", "preferred_transport", "protocol_version", "additional_interfaces",
               "provider", "documentation_url", "icon_url", "capabilities",
               "supports_authenticated_extended_card", "security_schemes", "security",
               "default_input_modes", "default_output_modes", "skills", "signatures"}

LEMMA PutCard ==
    ASSUME NEW a, DOMAIN a = CardFields, NEW p, p = PutAgentCard(a)
    PROVE  /\ DOMAIN p = CardFields /\ p.name = a.name
           /\ p.capabilities = PutCapabilities(a.capabilities)
           /\ p.supports_authenticated_extended_card = (a.supports_authenticated_extended_card = TRUE)
           /\ p.security_schemes = PutSchemes(a.security_schemes)
           /\ p.security = OrNone(a.security) /\ p.skills = Each(PutSkill, a.skills)
           /\ p.default_input_modes = a.default_input_modes
           /\ p.default_output_modes = a.default_output_modes
<1> DEFINE caps == PutCapabilities(a.capabilities)
           doc == OrBlank(a.documentation_url)
           sec == OrNone(a.security)
           sk == Each(PutSkill, a.skills)
           sch == PutSchemes(a.security_schemes)
           ext == a.supports_authenticated_extended_card = TRUE
           pref == OrBlank(a.preferred_transport)
           ver == OrBlank(a.protocol_version)
           ifs == OrNone(a.additional_interfaces)
           icon == OrBlank(a.icon_url)
           sigs == EachGiven(PutSignature, a.signatures)
<1>1. p = [a EXCEPT !.capabilities = caps, !.documentation_url = doc, !.security = sec,
                    !.skills = sk, !.security_schemes = sch,
                    !.supports_authenticated_extended_card = ext, !.preferred_transport = pref,
                    !.protocol_version = ver, !.additional_interfaces = ifs, !.icon_url = icon,
                    !.signatures = sigs]
  BY DEF PutAgentCard, PutSchemes, CardFields
<1> HIDE DEF caps, doc, sec, sk, sch, ext, pref, ver, ifs, icon, sigs
<1>2. DOMAIN p = CardFields
  BY <1>1
<1>3. /\ p.name = a.name /\ p.default_input_modes = a.default_input_modes
      /\ p.default_output_modes = a.default_output_modes
  BY <1>1 DEF CardFields
<1>4. p.capabilities = caps /\ p.supports_authenticated_extended_card = ext
  BY <1>1 DEF CardFields
<1>5. p.security_schemes = sch /\ p.security = sec
  BY <1>1 DEF CardFields
<1>6. p.skills = sk
  BY <1>1 DEF CardFields
<1> QED BY Zenon, <1>2, <1>3, <1>4, <1>5, <1>6 DEF caps, sec, sk, sch, ext

LEMMA TakeCard ==
    ASSUME NEW a, DOMAIN a = CardFields, NEW t, t = TakeAgentCard(a)
    PROVE  /\ t.name = a.name /\ t.capabilities = TakeCapabilities(a.capabilities)
           /\ t.supports_authenticated_extended_card = a.supports_authenticated_extended_card
           /\ t.security_schemes = EachScheme(TakeScheme, a.security_schemes)
           /\ t.security = NoneAbsent(a.security) /\ t.skills = Each(TakeSkill, a.skills)
           /\ t.default_input_modes = a.default_input_modes
           /\ t.default_output_modes = a.default_output_modes
<1> DEFINE caps == TakeCapabilities(a.capabilities)
           sec == NoneAbsent(a.security)
           sch == EachScheme(TakeScheme, a.security_schemes)
           sk == Each(TakeSkill, a.skills)
           ifs == NoneAbsent(a.additional_interfaces)
           icon == BlankAbsent(a.icon_url)
           sigs == NoneAbsent(Each(TakeSignature, a.signatures))
<1>1. t = [a EXCEPT !.capabilities = caps, !.security = sec, !.security_schemes = sch,
                    !.skills = sk, !.additional_interfaces = ifs, !.icon_url = icon,
                    !.signatures = sigs]
  BY DEF TakeAgentCard, CardFields
<1> HIDE DEF caps, sec, sch, sk, ifs, icon, sigs
<1>2. /\ t.name = a.name /\ t.capabilities = caps /\ t.security_schemes = sch
      /\ t.supports_authenticated_extended_card = a.supports_authenticated_extended_card
      /\ t.security = sec /\ t.skills = sk
      /\ t.default_input_modes = a.default_input_modes
      /\ t.default_output_modes = a.default_output_modes
  BY <1>1 DEF CardFields
<1> QED BY Zenon, <1>2 DEF caps, sec, sch, sk

LEMMA CapabilitiesTaken ==
    ASSUME NEW c, NEW k, k = ToCompatCapabilities(c)
    PROVE  /\ SameFlag(k.streaming, c.streaming)
           /\ SameFlag(TakeCapabilities(PutCapabilities(k)).streaming, c.streaming)
<1>1. PICK e : e = NoneAbsent(Each(ToCompatExtension, c.extensions))
  OBVIOUS
<1>2. k = [streaming |-> c.streaming, push_notifications |-> c.push_notifications,
           extensions |-> e, state_transition_history |-> Absent]
  BY Zenon, <1>1 DEF ToCompatCapabilities
<1>3. PICK p : p = PutCapabilities(k)
  OBVIOUS
<1>4. DOMAIN k = {"streaming", "push_notifications", "extensions", "state_transition_history"}
      /\ k.streaming = c.streaming
  BY <1>2
<1> DEFINE st == k.streaming = TRUE
           pn == k.push_notifications = TRUE
           pe == EachGiven(PutExtension, k.extensions)
<1>5. p = [k EXCEPT !.streaming = st, !.push_notifications = pn,
                    !.state_transition_history = Absent, !.extensions = pe]
  BY <1>3, <1>4 DEF PutCapabilities
<1> HIDE DEF pn, pe
<1>6. DOMAIN p = DOMAIN k /\ p.streaming = st
  <2> HIDE DEF st
  <2> QED BY <1>4, <1>5
<1>7. PICK t : t = TakeCapabilities(p)
  OBVIOUS
<1> DEFINE te == Each(TakeExtension, p.extensions)
<1>8. t = [p EXCEPT !.extensions = te]
  BY <1>4, <1>6, <1>7 DEF TakeCapabilities
<1> HIDE DEF te
<1>9. t.streaming = st
  <2> HIDE DEF st
  <2> QED BY <1>4, <1>6, <1>8
<1>10. SameFlag(t.streaming, c.streaming)
  BY <1>4, <1>9 DEF SameFlag
<1>11. SameFlag(k.streaming, c.streaming)
  BY Zenon, <1>4 DEF SameFlag
<1> QED BY Zenon, <1>3, <1>7, <1>10, <1>11

LEMMA SkillsTaken ==
    ASSUME NEW c \in Seq(CoreSkill), NEW k, k = Each(ToCompatSkill, c),
           NEW p, p = Each(PutSkill, k), NEW t, t = Each(TakeSkill, p)
    PROVE  SkillsOf(k, c) /\ SkillsOf(p, c) /\ SkillsOf(t, c) /\ \A i \in DOMAIN c : "id" \in DOMAIN p[i]
<1>1. DOMAIN k = DOMAIN c /\ \A i \in DOMAIN c : k[i] = ToCompatSkill(c[i])
  BY DEF Each
<1>2. DOMAIN p = DOMAIN c /\ \A i \in DOMAIN c : p[i] = PutSkill(k[i])
  BY <1>1 DEF Each
<1>3. DOMAIN t = DOMAIN c /\ \A i \in DOMAIN c : t[i] = TakeSkill(p[i])
  BY <1>2 DEF Each
<1>4. ASSUME NEW i \in DOMAIN c
      PROVE  k[i].id = c[i].id /\ p[i].id = c[i].id /\ t[i].id = c[i].id /\ "id" \in DOMAIN p[i]
  <2>1. PICK x, y, z, w : x = c[i] /\ y = k[i] /\ z = p[i] /\ w = t[i]
    OBVIOUS
  <2>2. y = ToCompatSkill(x) /\ z = PutSkill(y) /\ w = TakeSkill(z)
    BY Zenon, <1>1, <1>2, <1>3, <2>1
  <2>3. "id" \in DOMAIN y /\ y.id = x.id
    BY ONLY <2>2 DEF ToCompatSkill
  <2>4. "id" \in DOMAIN z /\ z.id = x.id
    BY ONLY <2>2, <2>3 DEF PutSkill
  <2>5. w.id = x.id
    BY ONLY <2>2, <2>4 DEF TakeSkill
  <2> QED BY Zenon, <2>1, <2>3, <2>4, <2>5
<1> QED BY Zenon, <1>1, <1>2, <1>3, <1>4 DEF SkillsOf

LEMMA CardWritten ==
    ASSUME NEW c \in CoreAgentCard, NEW a, a = ToCompatAgentCard(c)
    PROVE  /\ DOMAIN a = CardFields /\ a.name = c.name
           /\ a.capabilities = ToCompatCapabilities(c.capabilities)
           /\ a.supports_authenticated_extended_card = c.capabilities.extended_agent_card
           /\ a.security_schemes = WrittenSchemes(c.security_schemes)
           /\ a.security = NoneAbsent(Each(ToCompatSecurityRequirement, c.security_requirements))
           /\ a.skills = Each(ToCompatSkill, c.skills)
           /\ a.default_input_modes = c.default_input_modes
           /\ a.default_output_modes = c.default_output_modes
<1> DEFINE legacy == LegacyInterfaces(c)
           url == Head(legacy).url
           pref == Head(legacy).protocol_binding
           ver == IF Head(legacy).protocol_version = "" THEN "0.3"
                  ELSE Head(legacy).protocol_version
           ifs == NoneAbsent(Each(ToCompatInterface, Tail(legacy)))
           prov == Given(ToCompatProvider, c.provider)
           caps == ToCompatCapabilities(c.capabilities)
           sch == WrittenSchemes(c.security_schemes)
           sec == NoneAbsent(Each(ToCompatSecurityRequirement, c.security_requirements))
           sk == Each(ToCompatSkill, c.skills)
           sigs == NoneAbsent(Each(ToCompatSignature, c.signatures))
<1>1. a = [name |-> c.name, url |-> url, preferred_transport |-> pref, protocol_version |-> ver,
           additional_interfaces |-> ifs, provider |-> prov,
           documentation_url |-> c.documentation_url, icon_url |-> c.icon_url,
           capabilities |-> caps,
           supports_authenticated_extended_card |-> c.capabilities.extended_agent_card,
           security_schemes |-> sch, security |-> sec,
           default_input_modes |-> c.default_input_modes,
           default_output_modes |-> c.default_output_modes, skills |-> sk, signatures |-> sigs]
  BY Zenon DEF ToCompatAgentCard, WrittenSchemes
<1> HIDE DEF legacy, url, pref, ver, ifs, prov, caps, sch, sec, sk, sigs
<1>2. /\ DOMAIN a = CardFields /\ a.name = c.name /\ a.capabilities = caps
      /\ a.supports_authenticated_extended_card = c.capabilities.extended_agent_card
      /\ a.security_schemes = sch /\ a.security = sec /\ a.skills = sk
      /\ a.default_input_modes = c.default_input_modes
      /\ a.default_output_modes = c.default_output_modes
  BY ONLY <1>1 DEF CardFields
<1> QED BY Zenon, <1>2 DEF caps, sch, sec, sk

LEMMA CardBack ==
    ASSUME NEW c \in CoreAgentCard, NEW a, a = ToCompatAgentCard(c)
    PROVE  /\ CardOf(FALSE, a, c)
           /\ CanPutCard(a) => CardOf(FALSE, TakeAgentCard(PutAgentCard(a)), c)
<1>1. /\ c.skills \in Seq(CoreSkill)
      /\ c.security_schemes \in {<<>>} \cup [{"s"} -> CoreSecurityScheme]
      /\ c.security_requirements \in Seq(CoreSecurityRequirement)
  BY DEF CoreAgentCard
<1>2. /\ DOMAIN a = CardFields /\ a.name = c.name
      /\ a.capabilities = ToCompatCapabilities(c.capabilities)
      /\ a.supports_authenticated_extended_card = c.capabilities.extended_agent_card
      /\ a.security_schemes = WrittenSchemes(c.security_schemes)
      /\ a.security = NoneAbsent(Each(ToCompatSecurityRequirement, c.security_requirements))
      /\ a.skills = Each(ToCompatSkill, c.skills)
      /\ a.default_input_modes = c.default_input_modes
      /\ a.default_output_modes = c.default_output_modes
  BY Zenon, CardWritten
<1>3. PICK p : p = PutAgentCard(a)
  OBVIOUS
<1>4. PICK t : t = TakeAgentCard(p)
  OBVIOUS
<1>5. /\ DOMAIN p = CardFields /\ p.name = a.name
      /\ p.capabilities = PutCapabilities(a.capabilities)
      /\ p.supports_authenticated_extended_card = (a.supports_authenticated_extended_card = TRUE)
      /\ p.security_schemes = PutSchemes(a.security_schemes)
      /\ p.security = OrNone(a.security) /\ p.skills = Each(PutSkill, a.skills)
      /\ p.default_input_modes = a.default_input_modes
      /\ p.default_output_modes = a.default_output_modes
  BY Zenon, <1>2, <1>3, PutCard
<1>6. /\ t.name = p.name /\ t.capabilities = TakeCapabilities(p.capabilities)
      /\ t.supports_authenticated_extended_card = p.supports_authenticated_extended_card
      /\ t.security_schemes = EachScheme(TakeScheme, p.security_schemes)
      /\ t.security = NoneAbsent(p.security) /\ t.skills = Each(TakeSkill, p.skills)
      /\ t.default_input_modes = p.default_input_modes
      /\ t.default_output_modes = p.default_output_modes
  BY Zenon, <1>4, <1>5, TakeCard
<1>7. /\ SameFlag(a.capabilities.streaming, c.capabilities.streaming)
      /\ SameFlag(t.capabilities.streaming, c.capabilities.streaming)
  <2>1. t.capabilities = TakeCapabilities(PutCapabilities(a.capabilities))
    BY Zenon, <1>5, <1>6
  <2>2. /\ SameFlag(a.capabilities.streaming, c.capabilities.streaming)
        /\ SameFlag(TakeCapabilities(PutCapabilities(a.capabilities)).streaming,
                    c.capabilities.streaming)
    BY Zenon, <1>2, CapabilitiesTaken
  <2> QED BY Zenon, <2>1, <2>2
<1>8. SkillsOf(a.skills, c.skills) /\ SkillsOf(t.skills, c.skills)
  BY Zenon, <1>1, <1>2, <1>5, <1>6, SkillsTaken
<1>9. /\ EachGiven(ToCoreSecurityRequirement, a.security) = c.security_requirements
      /\ EachGiven(ToCoreSecurityRequirement, t.security) = c.security_requirements
  <2>1. PICK j : j = Each(ToCompatSecurityRequirement, c.security_requirements)
    OBVIOUS
  <2>2. /\ EachGiven(ToCoreSecurityRequirement, NoneAbsent(j)) = c.security_requirements
        /\ EachGiven(ToCoreSecurityRequirement, NoneAbsent(OrNone(NoneAbsent(j))))
             = c.security_requirements
    BY Zenon, <1>1, <2>1, RequirementsBack
  <2>3. a.security = NoneAbsent(j) /\ t.security = NoneAbsent(OrNone(NoneAbsent(j)))
    BY Zenon, <1>2, <1>5, <1>6, <2>1
  <2> QED BY Zenon, <2>2, <2>3
<1>10. SchemesOf(a.security_schemes, c.security_schemes)
  BY Zenon, <1>1, <1>2, SchemesBack
<1>11. ASSUME CanPutCard(a) PROVE SchemesOf(t.security_schemes, c.security_schemes)
  <2>1. a.security_schemes # Absent =>
          \A n \in DOMAIN a.security_schemes : Puttable(a.security_schemes[n])
    BY Zenon, <1>11 DEF CanPutCard, Puttable
  <2>2. t.security_schemes = EachScheme(TakeScheme, PutSchemes(a.security_schemes))
    BY Zenon, <1>5, <1>6
  <2> QED BY Zenon, <1>1, <1>2, <2>1, <2>2, SchemesBack
<1>12. /\ SameFlag(a.supports_authenticated_extended_card, c.capabilities.extended_agent_card)
       /\ SameFlag(t.supports_authenticated_extended_card, c.capabilities.extended_agent_card)
  BY <1>2, <1>5, <1>6 DEF SameFlag
<1>13. CardOf(FALSE, a, c)
  BY Zenon, <1>2, <1>7, <1>8, <1>9, <1>10, <1>12 DEF CardOf
<1>14. CanPutCard(a) => CardOf(FALSE, t, c)
  BY Zenon, <1>2, <1>5, <1>6, <1>7, <1>8, <1>9, <1>11, <1>12 DEF CardOf
<1> QED BY Zenon, <1>3, <1>4, <1>13, <1>14

LEMMA RestCardBack ==
    ASSUME NEW c \in CoreAgentCard, NEW a, a = ToCompatAgentCard(c)
    PROVE  CardOf(TRUE, TakeAgentCard(RestCardAsProto(a)), c)
<1>1. c.skills \in Seq(CoreSkill)
  BY DEF CoreAgentCard
<1>2. /\ DOMAIN a = CardFields /\ a.name = c.name
      /\ a.capabilities = ToCompatCapabilities(c.capabilities)
      /\ a.supports_authenticated_extended_card = c.capabilities.extended_agent_card
      /\ a.skills = Each(ToCompatSkill, c.skills)
      /\ a.default_input_modes = c.default_input_modes
      /\ a.default_output_modes = c.default_output_modes
  BY Zenon, CardWritten
<1>3. PICK b : b = [a EXCEPT !.security_schemes = Absent]
  OBVIOUS
<1>4. /\ DOMAIN b = CardFields /\ b.name = a.name /\ b.capabilities = a.capabilities
      /\ b.supports_authenticated_extended_card = a.supports_authenticated_extended_card
      /\ b.skills = a.skills /\ b.default_input_modes = a.default_input_modes
      /\ b.default_output_modes = a.default_output_modes
  BY <1>2, <1>3 DEF CardFields
<1>5. PICK p : p = PutAgentCard(b)
  OBVIOUS
<1>6. /\ DOMAIN p = CardFields /\ p.name = b.name
      /\ p.capabilities = PutCapabilities(b.capabilities)
      /\ p.supports_authenticated_extended_card = (b.supports_authenticated_extended_card = TRUE)
      /\ p.skills = Each(PutSkill, b.skills)
      /\ p.default_input_modes = b.default_input_modes
      /\ p.default_output_modes = b.default_output_modes
  BY Zenon, <1>4, <1>5, PutCard
<1>7. PICK w : w = RestCardAsProto(a)
  OBVIOUS
<1> DEFINE blank == [type |-> "openIdConnect", open_id_connect_url |-> "", description |-> ""]
           noScheme(q) == [i \in DOMAIN q |-> <<>>]
           sch == IF a.security_schemes = Absent THEN <<>>
                  ELSE [n \in DOMAIN a.security_schemes |-> blank]
           sec == noScheme(p.security)
           sk == [i \in DOMAIN p.skills |->
                    [p.skills[i] EXCEPT !.security = noScheme(p.skills[i].security)]]
<1>8. w = [p EXCEPT !.security_schemes = sch, !.security = sec, !.skills = sk]
  BY Zenon, <1>3, <1>5, <1>7 DEF RestCardAsProto
<1>9. \A i \in DOMAIN p.skills : "id" \in DOMAIN p.skills[i] =>
        sk[i].id = p.skills[i].id /\ "id" \in DOMAIN sk[i]
  OBVIOUS
<1>10. DOMAIN sk = DOMAIN p.skills
  OBVIOUS
<1> HIDE DEF blank, noScheme, sch, sec, sk
<1>11. /\ DOMAIN w = CardFields /\ w.name = p.name /\ w.capabilities = p.capabilities
       /\ w.supports_authenticated_extended_card = p.supports_authenticated_extended_card
       /\ w.skills = sk /\ w.default_input_modes = p.default_input_modes
       /\ w.default_output_modes = p.default_output_modes
  BY <1>6, <1>8 DEF CardFields
<1>12. PICK t : t = TakeAgentCard(w)
  OBVIOUS
<1>13. /\ t.name = w.name /\ t.capabilities = TakeCapabilities(w.capabilities)
       /\ t.supports_authenticated_extended_card = w.supports_authenticated_extended_card
       /\ t.skills = Each(TakeSkill, w.skills)
       /\ t.default_input_modes = w.default_input_modes
       /\ t.default_output_modes = w.default_output_modes
  BY Zenon, <1>11, <1>12, TakeCard
<1>14. SkillsOf(t.skills, c.skills)
  <2>1. p.skills = Each(PutSkill, Each(ToCompatSkill, c.skills))
    BY Zenon, <1>2, <1>4, <1>6
  <2>2. SkillsOf(p.skills, c.skills) /\ \A i \in DOMAIN c.skills : "id" \in DOMAIN p.skills[i]
    BY Zenon, <1>1, <2>1, SkillsTaken
  <2>3. DOMAIN sk = DOMAIN c.skills
        /\ \A i \in DOMAIN c.skills : sk[i].id = c.skills[i].id /\ "id" \in DOMAIN sk[i]
    BY Zenon, <1>9, <1>10, <2>2 DEF SkillsOf
  <2>4. PICK u : u = t.skills
    OBVIOUS
  <2>5. DOMAIN u = DOMAIN sk /\ \A i \in DOMAIN sk : u[i] = TakeSkill(sk[i])
    BY <1>11, <1>13, <2>4 DEF Each
  <2>6. \A x : "id" \in DOMAIN x => TakeSkill(x).id = x.id
    BY DEF TakeSkill
  <2>7. \A i \in DOMAIN sk : TakeSkill(sk[i]).id = sk[i].id
    BY Zenon, <2>3, <2>6
  <2> QED BY Zenon, <2>3, <2>4, <2>5, <2>7 DEF SkillsOf
<1>15. SameFlag(t.capabilities.streaming, c.capabilities.streaming)
  <2>1. t.capabilities = TakeCapabilities(PutCapabilities(a.capabilities))
    BY Zenon, <1>4, <1>6, <1>11, <1>13
  <2>2. SameFlag(TakeCapabilities(PutCapabilities(a.capabilities)).streaming,
                 c.capabilities.streaming)
    BY Zenon, <1>2, CapabilitiesTaken
  <2> QED BY Zenon, <2>1, <2>2
<1>16. SameFlag(t.supports_authenticated_extended_card, c.capabilities.extended_agent_card)
  BY <1>2, <1>4, <1>6, <1>11, <1>13 DEF SameFlag
<1>17. CardOf(TRUE, t, c)
  BY Zenon, <1>2, <1>4, <1>6, <1>11, <1>13, <1>14, <1>15, <1>16 DEF CardOf
<1> QED BY Zenon, <1>7, <1>12, <1>17

(* ---- replies ---- *)
ReplyKept(conn, m, r, got, a) == PlainReply(conn, m, r, got) = PlainReply(conn, m, r, a)
\* the methods a v0.3 transport has, by the shape of their answers
EventMethods == Messages \cup {"subscribe"}
TaskMethods == {"get_task", "cancel_task"}
PushMethods == {"create_push", "get_push"}
LossyConn(conn) == conn.binding # "JSONRPC"

LEMMA LegacyMethods ==
    ASSUME NEW m \in WireMethods, m # "list_tasks"
    PROVE  m \in EventMethods \cup TaskMethods \cup PushMethods
                 \cup {"list_push", "delete_push", "extended_card"}
BY DEF WireMethods, EventMethods, TaskMethods, PushMethods, Messages

LEMMA PlainLegacy ==
    ASSUME NEW conn, Legacy(conn), NEW m, NEW r, NEW x
    PROVE  /\ m \in EventMethods => PlainReply(conn, m, r, x) = PlainEvent(LossyConn(conn), x)
           /\ m \in TaskMethods => PlainReply(conn, m, r, x) = PlainTask(LossyConn(conn), x)
           /\ m = "extended_card" => PlainReply(conn, m, r, x) = PlainCard(conn, x)
BY DEF PlainReply, LossyConn, EventMethods, TaskMethods, Messages

\* what the transport reads, given what its server wrote
LEMMA LegacyReplyBack ==
    ASSUME NEW conn \in WireConn, Legacy(conn), NEW m \in WireMethods, m # "list_tasks", NEW r,
           NEW a \in Answerable(conn, m), Readable(conn, m, r, a)
    PROVE  ReplyKept(conn, m, r, ReadBack(conn, m, r, a), a)
<1>0. PICK lossy : lossy = LossyConn(conn)
  OBVIOUS
<1>1. conn.binding \in {"JSONRPC", "GRPC", "HTTP+JSON"}
  BY DEF WireConn
<1>2. PICK b : b = LegacyResult(m, a)
  OBVIOUS
<1>3. PICK g : g = ReadBack(conn, m, r, a)
  OBVIOUS
<1>13. PICK w : w = IF conn.binding = "GRPC" THEN GrpcResult(m, b) ELSE RestResult(m, b)
  OBVIOUS
<1>5. lossy \in BOOLEAN /\ (lossy <=> conn.binding # "JSONRPC")
  BY <1>0 DEF LossyConn
<1>4. /\ lossy => g = FromLegacyResult(m, FromProtoResult(m, w))
      /\ ~lossy => g = FromLegacyResult(m, b)
  <2>1. CASE conn.binding = "JSONRPC"
    <3>1. WireReply(conn, m, r, a) = [result |-> b]
      BY <1>2, <2>1 DEF WireReply
    <3>2. ReadJsonRpc([result |-> b]) = b
      BY DEF ReadJsonRpc
    <3>3. g = FromLegacyResult(m, ReadJsonRpc(WireReply(conn, m, r, a)))
      BY <1>3, <2>1 DEF ReadBack, ReadReply
    <3>4. g = FromLegacyResult(m, b)
      BY Zenon, <3>1, <3>2, <3>3
    <3> QED BY Zenon, <1>5, <2>1, <3>4
  <2>2. CASE conn.binding = "GRPC"
    <3>1. WireReply(conn, m, r, a) = [response |-> GrpcResult(m, b)]
      BY <1>2, <2>2 DEF WireReply, GrpcReply
    <3>2. PICK v : v = GrpcResult(m, b)
      OBVIOUS
    <3>3. ReadGrpc([response |-> v]) = v
      BY DEF ReadGrpc
    <3>4. g = FromLegacyResult(m, FromProtoResult(m, ReadGrpc(WireReply(conn, m, r, a))))
      BY <1>3, <2>2 DEF ReadBack, ReadReply
    <3>5. g = FromLegacyResult(m, FromProtoResult(m, v))
      BY Zenon, <3>1, <3>2, <3>3, <3>4
    <3>6. w = v /\ lossy
      BY <1>5, <1>13, <2>2, <3>2
    <3> QED BY Zenon, <3>5, <3>6
  <2>3. CASE conn.binding = "HTTP+JSON"
    <3>1. WireReply(conn, m, r, a) = [content |-> RestResult(m, b)]
      BY <1>2, <2>3 DEF WireReply
    <3>2. PICK v : v = RestResult(m, b)
      OBVIOUS
    <3>3. ReadRest([content |-> v]) = v
      BY DEF ReadRest
    <3>4. g = FromLegacyResult(m, FromProtoResult(m, ReadRest(WireReply(conn, m, r, a))))
      BY <1>3, <2>3 DEF ReadBack, ReadReply
    <3>5. g = FromLegacyResult(m, FromProtoResult(m, v))
      BY Zenon, <3>1, <3>2, <3>3, <3>4
    <3>6. w = v /\ lossy
      BY <1>5, <1>13, <2>3, <3>2
    <3> QED BY Zenon, <3>5, <3>6
  <2> QED BY <1>1, <2>1, <2>2, <2>3
<1>6. m # "extended_card" => w = ProtoResult(m, b)
  BY <1>13 DEF GrpcResult, RestResult
<1>14. lossy => ProtoNamed(m, w)
  <2>1. ReplyReadable(conn, m, WireReply(conn, m, r, a))
    BY Zenon DEF Readable
  <2>2. CASE conn.binding = "GRPC"
    <3>1. WireReply(conn, m, r, a) = [response |-> w]
      BY <1>2, <1>13, <2>2 DEF WireReply, GrpcReply
    <3>2. ReadGrpc([response |-> w]) = w
      BY DEF ReadGrpc
    <3>3. PICK v : v = WireReply(conn, m, r, a)
      OBVIOUS
    <3>4. ReplyReadable(conn, m, v) => ProtoNamed(m, ReadGrpc(v))
      BY <2>2 DEF ReplyReadable
    <3> QED BY Zenon, <2>1, <3>1, <3>2, <3>3, <3>4
  <2>3. CASE conn.binding = "HTTP+JSON"
    <3>1. WireReply(conn, m, r, a) = [content |-> w]
      BY <1>2, <1>13, <2>3 DEF WireReply
    <3>2. ReadRest([content |-> w]) = w
      BY DEF ReadRest
    <3>3. PICK v : v = WireReply(conn, m, r, a)
      OBVIOUS
    <3>4. ReplyReadable(conn, m, v) => ProtoNamed(m, ReadRest(v))
      BY <2>3 DEF ReplyReadable
    <3> QED BY Zenon, <2>1, <3>1, <3>2, <3>3, <3>4
  <2> QED BY <1>1, <1>5, <2>2, <2>3
<1>7. CASE m \in EventMethods
  <2>1. a \in CoreEvent
    BY <1>7 DEF Answerable, AnswersOf, EventMethods, Messages
  <2>2. b = ToCompatEvent(a)
    BY <1>2, <1>7 DEF LegacyResult, EventMethods, Messages
  <2>3. \A x : FromLegacyResult(m, x) = ToCoreEvent(x) /\ FromProtoResult(m, x) = TakeEvent(x)
               /\ ProtoResult(m, x) = PutEvent(x)
    BY <1>7 DEF FromLegacyResult, FromProtoResult, ProtoResult, EventMethods, Messages
  <2>4. m # "extended_card"
    BY <1>7 DEF EventMethods, Messages
  <2>5. /\ lossy => g = ToCoreEvent(TakeEvent(PutEvent(ToCompatEvent(a))))
        /\ ~lossy => g = ToCoreEvent(ToCompatEvent(a))
    BY Zenon, <1>4, <1>6, <2>2, <2>3, <2>4
  <2>6. KeptEvent(lossy, g, a)
    <3>1. CASE lossy
      BY <1>5, <2>1, <2>5, <3>1, EventBack
    <3>2. CASE ~lossy
      BY <1>5, <2>1, <2>5, <3>2, EventBack
    <3> QED BY Zenon, <3>1, <3>2
  <2>7. \A x : PlainReply(conn, m, r, x) = PlainEvent(lossy, x)
    BY Zenon, <1>0, <1>7, PlainLegacy
  <2> QED BY Zenon, <1>3, <2>6, <2>7 DEF ReplyKept, KeptEvent
<1>8. CASE m \in TaskMethods
  <2>1. a \in CoreTask
    BY <1>8 DEF Answerable, TaskMethods
  <2>2. b = ToCompatTask(a)
    BY <1>2, <1>8 DEF LegacyResult, TaskMethods, Messages
  <2>3. \A x : FromLegacyResult(m, x) = ToCoreTask(x) /\ FromProtoResult(m, x) = TakeTask(x)
               /\ ProtoResult(m, x) = PutTask(x)
    BY <1>8 DEF FromLegacyResult, FromProtoResult, ProtoResult, TaskMethods, Messages
  <2>4. m # "extended_card"
    BY <1>8 DEF TaskMethods
  <2>5. /\ lossy => g = ToCoreTask(TakeTask(PutTask(ToCompatTask(a))))
        /\ ~lossy => g = ToCoreTask(ToCompatTask(a))
    BY Zenon, <1>4, <1>6, <2>2, <2>3, <2>4
  <2>6. KeptTask(lossy, g, a)
    <3>1. CASE lossy
      BY <1>5, <2>1, <2>5, <3>1, TaskBack
    <3>2. CASE ~lossy
      BY <1>5, <2>1, <2>5, <3>2, TaskBack
    <3> QED BY Zenon, <3>1, <3>2
  <2>7. \A x : PlainReply(conn, m, r, x) = PlainTask(lossy, x)
    BY Zenon, <1>0, <1>8, PlainLegacy
  <2> QED BY Zenon, <1>3, <2>6, <2>7 DEF ReplyKept, KeptTask
<1>9. CASE m \in PushMethods
  <2>1. a \in CorePushConfig
    BY <1>9 DEF Answerable, AnswersOf, PushMethods, Messages
  <2>2. b = ToCompatTaskPushConfig(a)
    BY <1>2, <1>9 DEF LegacyResult, PushMethods, Messages
  <2>3. \A x : /\ FromLegacyResult(m, x) = ToCoreTaskPushConfig(x)
               /\ FromProtoResult(m, x) = TakeTaskPushConfig(x)
               /\ ProtoResult(m, x) = PutTaskPushConfig(x)
    BY <1>9 DEF FromLegacyResult, FromProtoResult, ProtoResult, PushMethods, Messages
  <2>4. m # "extended_card"
    BY <1>9 DEF PushMethods
  <2>5. /\ lossy => g = ToCoreTaskPushConfig(
                         TakeTaskPushConfig(PutTaskPushConfig(ToCompatTaskPushConfig(a))))
        /\ ~lossy => g = ToCoreTaskPushConfig(ToCompatTaskPushConfig(a))
    BY Zenon, <1>4, <1>6, <2>2, <2>3, <2>4
  <2>7. lossy => NameRead(a)
    <3>1. ProtoNamed(m, w) => TASK_PUSH_CONFIG_NAME_MATCH(w.name)
      BY <1>9 DEF ProtoNamed, PushMethods
    <3> QED BY Zenon, <1>6, <1>14, <2>2, <2>3, <2>4, <3>1 DEF NameRead
  <2>6. g = a
    <3>1. CASE lossy
      BY Zenon, <2>1, <2>5, <2>7, <3>1, TaskPushBack
    <3>2. CASE ~lossy
      BY Zenon, <2>1, <2>5, <3>2, TaskPushBack
    <3> QED BY Zenon, <3>1, <3>2
  <2> QED BY Zenon, <1>3, <2>6 DEF ReplyKept
<1>10. CASE m = "list_push"
  <2>1. a \in Seq(CorePushConfig)
    BY <1>10 DEF Answerable, AnswersOf, Messages
  <2>2. b = Each(ToCompatTaskPushConfig, a)
    BY <1>2, <1>10 DEF LegacyResult, Messages
  <2>3. \A x : /\ FromLegacyResult(m, x) = Each(ToCoreTaskPushConfig, x)
               /\ FromProtoResult(m, x) = Each(TakeTaskPushConfig, x)
               /\ ProtoResult(m, x) = Each(PutTaskPushConfig, x)
    BY <1>10 DEF FromLegacyResult, FromProtoResult, ProtoResult, Messages
  <2>4. m # "extended_card"
    BY <1>10
  <2>5. /\ lossy => g = Each(ToCoreTaskPushConfig, Each(TakeTaskPushConfig,
                         Each(PutTaskPushConfig, Each(ToCompatTaskPushConfig, a))))
        /\ ~lossy => g = Each(ToCoreTaskPushConfig, Each(ToCompatTaskPushConfig, a))
    BY Zenon, <1>4, <1>6, <2>2, <2>3, <2>4
  <2>7. lossy => \A i \in DOMAIN a : NameRead(a[i])
    <3>1. ProtoNamed(m, w) => \A i \in DOMAIN w : TASK_PUSH_CONFIG_NAME_MATCH(w[i].name)
      BY <1>10 DEF ProtoNamed
    <3>2. w = Each(PutTaskPushConfig, Each(ToCompatTaskPushConfig, a))
      BY Zenon, <1>6, <2>2, <2>3, <2>4
    <3>3. DOMAIN w = DOMAIN a /\ \A i \in DOMAIN a : w[i] = PutTaskPushConfig(ToCompatTaskPushConfig(a[i]))
      BY <3>2 DEF Each
    <3> QED BY Zenon, <1>14, <3>1, <3>3 DEF NameRead
  <2>6. g = a
    <3>1. CASE lossy
      BY Zenon, <2>1, <2>5, <2>7, <3>1, TaskPushesBack
    <3>2. CASE ~lossy
      BY Zenon, <2>1, <2>5, <3>2, TaskPushesBack
    <3> QED BY Zenon, <3>1, <3>2
  <2> QED BY Zenon, <1>3, <2>6 DEF ReplyKept
<1>11. CASE m = "delete_push"
  <2>1. b = a
    BY <1>2, <1>11 DEF LegacyResult, Messages
  <2>2. \A x : FromLegacyResult(m, x) = x /\ FromProtoResult(m, x) = x /\ ProtoResult(m, x) = x
    BY <1>11 DEF FromLegacyResult, FromProtoResult, ProtoResult, Messages
  <2>3. w = a
    BY <1>6, <1>11, <2>1, <2>2
  <2>4. g = a
    <3>1. CASE lossy
      BY Zenon, <1>4, <2>2, <2>3, <3>1
    <3>2. CASE ~lossy
      BY Zenon, <1>4, <2>1, <2>2, <3>2
    <3> QED BY Zenon, <3>1, <3>2
  <2> QED BY Zenon, <1>3, <2>4 DEF ReplyKept
<1>12. CASE m = "extended_card"
  <2>1. a \in CoreAgentCard /\ (conn.binding = "GRPC" => CanPutCard(ToCompatAgentCard(a)))
    BY <1>12 DEF Answerable
  <2>2. b = ToCompatAgentCard(a)
    BY <1>2, <1>12 DEF LegacyResult, Messages
  <2>3. \A x : FromLegacyResult(m, x) = ToCoreAgentCard(x) /\ FromProtoResult(m, x) = TakeAgentCard(x)
    BY <1>12 DEF FromLegacyResult, FromProtoResult, Messages
  <2>4. PICK d : (lossy => d = TakeAgentCard(w)) /\ (~lossy => d = b)
    <3>1. CASE lossy
      BY Zenon, <3>1
    <3>2. CASE ~lossy
      BY Zenon, <3>2
    <3> QED BY Zenon, <3>1, <3>2
  <2>5. g = ToCoreAgentCard(d)
    BY Zenon, <1>4, <2>3, <2>4
  <2>6. CardOf(LegacyRest(conn), d, a)
    <3>1. CASE conn.binding = "JSONRPC"
      <4>1. d = b
        BY <1>5, <2>4, <3>1
      <4>2. CardOf(FALSE, d, a)
        BY Zenon, <2>1, <2>2, <4>1, CardBack
      <4>3. ~ LegacyRest(conn)
        BY <3>1 DEF LegacyRest
      <4> QED BY Zenon, <4>2, <4>3 DEF CardOf
    <3>2. CASE conn.binding = "GRPC"
      <4>1. w = PutAgentCard(b) /\ lossy
        BY <1>5, <1>12, <1>13, <3>2 DEF GrpcResult
      <4>2. d = TakeAgentCard(PutAgentCard(b))
        BY Zenon, <2>4, <4>1
      <4>3. CardOf(FALSE, d, a)
        BY Zenon, <2>1, <2>2, <3>2, <4>2, CardBack
      <4>4. ~ LegacyRest(conn)
        BY <3>2 DEF LegacyRest
      <4> QED BY Zenon, <4>3, <4>4 DEF CardOf
    <3>3. CASE conn.binding = "HTTP+JSON"
      <4>1. w = RestCardAsProto(b) /\ lossy
        BY <1>5, <1>12, <1>13, <3>3 DEF RestResult
      <4>2. d = TakeAgentCard(RestCardAsProto(b))
        BY Zenon, <2>4, <4>1
      <4>3. CardOf(TRUE, d, a)
        BY Zenon, <2>1, <2>2, <4>2, RestCardBack
      <4>4. LegacyRest(conn)
        BY <3>3 DEF LegacyRest, WireConn, Legacy
      <4> QED BY Zenon, <4>3, <4>4 DEF CardOf
    <3> QED BY <1>1, <3>1, <3>2, <3>3
  <2>7. PlainCard(conn, g) = PlainCard(conn, a)
    BY Zenon, <2>1, <2>5, <2>6, CardRead
  <2>8. \A x : PlainReply(conn, m, r, x) = PlainCard(conn, x)
    BY Zenon, <1>0, <1>12, PlainLegacy
  <2> QED BY Zenon, <1>3, <2>7, <2>8 DEF ReplyKept
<1> QED BY <1>7, <1>8, <1>9, <1>10, <1>11, <1>12, LegacyMethods

LEMMA CurrentReplyBack ==
    ASSUME NEW conn \in WireConn, ~Legacy(conn), NEW m \in WireMethods, NEW r,
           NEW a \in Answerable(conn, m)
    PROVE  ReplyKept(conn, m, r, ReadBack(conn, m, r, a), a)
<1>1. conn.binding \in {"JSONRPC", "GRPC", "HTTP+JSON"}
  BY DEF WireConn
<1>2. PICK g : g = ReadBack(conn, m, r, a)
  OBVIOUS
<1>3. PICK l : l = ListedTasks(r, a)
  OBVIOUS
<1>4. g = a \/ (m = "list_tasks" /\ g = l)
  <2>1. CASE conn.binding = "JSONRPC"
    <3>1. g = ReadJsonRpc(WireReply(conn, m, r, a))
      BY <1>2, <2>1 DEF ReadBack, ReadReply
    <3>2. WireReply(conn, m, r, a) = JsonRpcReply(m, r, a)
      BY <2>1 DEF WireReply
    <3>3. g = IF m = "list_tasks" THEN l ELSE a
      BY <1>3, <3>1, <3>2 DEF JsonRpcReply, ReadJsonRpc
    <3> QED BY <3>3
  <2>2. CASE conn.binding = "GRPC"
    <3>1. g = ReadGrpc(WireReply(conn, m, r, a))
      BY <1>2, <2>2 DEF ReadBack, ReadReply
    <3>2. WireReply(conn, m, r, a) = GrpcReply(a)
      BY <2>2 DEF WireReply
    <3>3. g = a
      BY <3>1, <3>2 DEF GrpcReply, ReadGrpc
    <3> QED BY <3>3
  <2>3. CASE conn.binding = "HTTP+JSON"
    <3>1. g = ReadRest(WireReply(conn, m, r, a))
      BY <1>2, <2>3 DEF ReadBack, ReadReply
    <3>2. WireReply(conn, m, r, a) = RestReply(m, r, a)
      BY <2>3 DEF WireReply
    <3>3. g = IF m = "list_tasks" THEN l ELSE a
      BY <1>3, <3>1, <3>2 DEF RestReply, ReadRest
    <3> QED BY <3>3
  <2> QED BY <1>1, <2>1, <2>2, <2>3
<1>5. CASE g = a
  BY Zenon, <1>2, <1>5 DEF ReplyKept
<1>6. CASE m = "list_tasks" /\ g = l
  <2>1. a \in Seq(CoreTask)
    BY <1>6 DEF Answerable, AnswersOf, Messages
  <2>2. CASE r.include_artifacts
    <3>1. g = a
      BY <1>3, <1>6, <2>2 DEF ListedTasks
    <3> QED BY Zenon, <1>2, <3>1 DEF ReplyKept
  <2>3. CASE ~ r.include_artifacts
    <3>1. g = [i \in DOMAIN a |-> [a[i] EXCEPT !.artifacts = <<>>]]
      BY <1>3, <1>6, <2>3 DEF ListedTasks
    <3>2. \A x : PlainReply(conn, m, r, x) = [i \in DOMAIN x |-> [x[i] EXCEPT !.artifacts = <<>>]]
      BY <1>6, <2>3 DEF PlainReply
    <3>3. \A x \in CoreTask :
            [[x EXCEPT !.artifacts = <<>>] EXCEPT !.artifacts = <<>>] = [x EXCEPT !.artifacts = <<>>]
      BY DEF CoreTask
    <3>4. \A i \in DOMAIN a : a[i] \in CoreTask
      BY <2>1
    <3>5. DOMAIN g = DOMAIN a /\ \A i \in DOMAIN a : g[i] = [a[i] EXCEPT !.artifacts = <<>>]
      BY ONLY <3>1
    <3>6. \A i \in DOMAIN a : [g[i] EXCEPT !.artifacts = <<>>] = [a[i] EXCEPT !.artifacts = <<>>]
      BY Zenon, <3>3, <3>4, <3>5
    <3>7. PlainReply(conn, m, r, g) = [i \in DOMAIN a |-> [a[i] EXCEPT !.artifacts = <<>>]]
      BY <3>2, <3>5, <3>6
    <3> QED BY Zenon, <1>2, <3>2, <3>7 DEF ReplyKept
  <2> QED BY Zenon, <2>2, <2>3
<1> QED BY Zenon, <1>4, <1>5, <1>6

(* What the client reads of an answer is the answer, as far as the protocol *)
(* of the connection carries it.                                            *)
LEMMA ReplyBack ==
    ASSUME NEW conn \in WireConn, NEW m \in WireMethods, NEW r, ClientSupports(conn, m),
           NEW a \in Answerable(conn, m), Readable(conn, m, r, a)
    PROVE  ReplyKept(conn, m, r, ReadBack(conn, m, r, a), a)
<1>1. CASE Legacy(conn)
  <2>1. m # "list_tasks"
    BY Zenon, <1>1 DEF ClientSupports
  <2> QED BY Zenon, <1>1, <2>1, LegacyReplyBack
<1>2. CASE ~Legacy(conn)
  BY Zenon, <1>2, CurrentReplyBack
<1> QED BY Zenon, <1>1, <1>2

(* ReplyCarried for every card, configuration, request and answer: what the  *)
(* caller gets is what the handler answered, in its order and but for what   *)
(* v0.3 has no place for, and a stream that ended well was read to its end   *)
(* or to its first message.                                                  *)
THEOREM RepliesCarried == WireSpec => []ReplyCarried
<1>1. ASSUME CallInv PROVE ReplyCarried
  <2> DEFINE c == wireCall
             k == wireClient
  <2>1. CASE ~ (c.stage # "idle" /\ c.wire # Absent)
    BY Zenon, <2>1 DEF ReplyCarried
  <2>2. CASE c.stage # "idle" /\ c.wire # Absent
    <3>1. Carrying(k, c) /\ ClientOK(k)
      BY <1>1, <2>2 DEF CallInv, NoCall
    <3>2. /\ RequestOK(k.conn, c.method, c.req, c.wire)
          /\ ReplyOK(k.conn, c.method, c.req, c.stage, c.answers, c.raised, c.frames, c.got, c.error)
          /\ ReadOK(k.conn, c.method, c.req, c.answers, c.raised, c.got, c.error)
      BY Zenon, <3>1 DEF Carrying
    <3>3. c.method \in WireMethods /\ ClientSupports(k.conn, c.method) /\ k.conn \in WireConn
      BY Zenon, <3>1, <3>2 DEF RequestOK, ClientOK
    <3>4. /\ Answered(Answerable(k.conn, c.method), Reads(k.conn, c.method, c.req),
                      ReadSet(k.conn, c.method, c.req), c.answers, c.got)
          /\ c.stage = "done" /\ c.error = "" =>
               \/ Len(c.got) = Len(c.answers)
               \/ c.got[Len(c.got)].which = "message"
      BY Zenon, <3>2 DEF ReplyOK, Reply
    <3>5. /\ c.answers \in Seq(Answerable(k.conn, c.method))
          /\ c.got \in Seq(ReadSet(k.conn, c.method, c.req)) /\ Len(c.got) <= Len(c.answers)
          /\ \A i \in 1..Len(c.got) : c.got[i] = Reads(k.conn, c.method, c.req)[c.answers[i]]
      BY Zenon, <3>4 DEF Answered
    <3>6. ASSUME NEW i \in DOMAIN c.got
          PROVE  ReplyKept(k.conn, c.method, c.req, c.got[i], c.answers[i])
      <4>1. i \in 1..Len(c.got) /\ i \in 1..Len(c.answers)
        BY <3>5
      <4>2. c.answers[i] \in Answerable(k.conn, c.method)
        BY <3>5, <4>1
      <4>3. c.got[i] = ReadBack(k.conn, c.method, c.req, c.answers[i])
        <5>1. PICK x : x = c.answers[i]
          OBVIOUS
        <5>2. Reads(k.conn, c.method, c.req)[x] = ReadBack(k.conn, c.method, c.req, x)
          BY Zenon, <4>2, <5>1 DEF Reads
        <5>3. c.got[i] = Reads(k.conn, c.method, c.req)[c.answers[i]]
          BY Zenon, <3>5, <4>1
        <5> QED BY Zenon, <5>1, <5>2, <5>3
      <4>4. Readable(k.conn, c.method, c.req, c.answers[i])
        <5>1. CASE c.method \in Streaming
          BY Zenon, <3>3, <5>1, StreamReadable
        <5>2. CASE c.method \notin Streaming
          BY Zenon, <3>2, <5>2 DEF ReadOK
        <5> QED BY Zenon, <5>1, <5>2
      <4> QED BY Zenon, <3>3, <4>2, <4>3, <4>4, ReplyBack
    <3> QED BY Zenon, <3>4, <3>5, <3>6 DEF ReplyCarried, ReplyKept
  <2> QED BY Zenon, <2>1, <2>2
<1> QED BY <1>1, CallsCarried, PTL
=============================================================================
