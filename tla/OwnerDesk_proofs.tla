-------------------------- MODULE OwnerDesk_proofs --------------------------
(***************************************************************************)
(* Proofs about OwnerDesk: what the app shows, that the agent at work with   *)
(* the app behaves as OwnerApproval says, and that a held spend can still be  *)
(* settled while nothing was lost.                                          *)
(***************************************************************************)
EXTENDS OwnerDesk, OwnerPromise_proofs, FiniteSetTheorems, SequenceTheorems, WellFoundedInduction

-----------------------------------------------------------------------------
(* What a read returns. *)

(* A set of numbers has a least one: the intervals below them are finite,   *)
(* and strict inclusion is well founded on finite sets.                      *)
LEMMA LeastNumber ==
    ASSUME NEW T \in SUBSET Nat, T # {}
    PROVE  \E n \in T : \A m \in T : n <= m
<1> DEFINE Upto == {1 .. n : n \in T}
<1>1. Upto \subseteq FiniteSubsetsOf(Nat) /\ Upto # {}
  <2>1. \A n \in T : IsFiniteSet(1 .. n) /\ (1 .. n) \subseteq Nat
    BY FS_Interval
  <2>2. QED
    BY <2>1 DEF FiniteSubsetsOf
<1>2. PICK X \in Upto : \A Y \in Upto : ~ (<<Y, X>> \in StrictSubsetOrdering(Nat))
  BY <1>1, FS_StrictSubsetOrderingWellFounded, WFMin
<1>3. PICK n \in T : X = 1 .. n
  OBVIOUS
<1>4. ASSUME NEW m \in T, ~ (n <= m)
      PROVE  FALSE
  <2>1. m \in Nat /\ n \in Nat /\ m < n
    BY <1>4
  <2>2. (1 .. m) \subseteq (1 .. n) /\ n \in 1 .. n /\ n \notin 1 .. m
    BY <2>1
  <2>3. (1 .. m) \in SUBSET Nat /\ (1 .. n) \in SUBSET Nat
    BY <2>1
  <2>4. <<1 .. m, 1 .. n>> \in StrictSubsetOrdering(Nat)
    BY <2>2, <2>3 DEF StrictSubsetOrdering
  <2>5. QED
    BY <1>2, <1>3, <1>4, <2>4
<1>5. QED
  BY <1>4

LEMMA IncomingIsPublished ==
    ASSUME toOwner \in Seq(AgentMessage), read \in 0 .. Len(toOwner)
    PROVE  /\ Incoming \in Seq(AgentMessage)
           /\ \A j \in DOMAIN Incoming : \E i \in DOMAIN toOwner : Incoming[j] = toOwner[i]
           /\ \A i \in read + 1 .. Len(toOwner) : \E j \in DOMAIN Incoming :
                 Incoming[j] = toOwner[i]
<1>1. CASE Backend # "evicting"
  BY <1>1 DEF Incoming
<1>2. CASE Backend = "evicting"
  <2> DEFINE rest == SubSeq(toOwner, read + 1, Len(toOwner))
  <2>0. Len(toOwner) \in Nat /\ read \in Nat /\ DOMAIN toOwner = 1 .. Len(toOwner)
    OBVIOUS
  <2>1. /\ rest \in Seq(AgentMessage)
        /\ Len(rest) = Len(toOwner) - read
        /\ \A j \in 1 .. Len(rest) : rest[j] = toOwner[read + j]
    <3> DEFINE m == read + 1
               n == Len(toOwner)
    <3>0. m \in Int /\ n \in Int
      BY <2>0
    <3>1. n - m + 1 = n - read /\ m > 0 /\ read <= n /\ \A j \in 1 .. n - read : m + j - 1 = read + j
      BY <2>0
    <3>2. \A i \in m .. n : toOwner[i] \in AgentMessage
      BY <2>0, <3>1
    <3> HIDE DEF m, n
    <3>3. /\ SubSeq(toOwner, m, n) \in Seq(AgentMessage)
          /\ Len(SubSeq(toOwner, m, n)) = IF m <= n THEN n - m + 1 ELSE 0
          /\ \A i \in 1 .. n - m + 1 : SubSeq(toOwner, m, n)[i] = toOwner[m + i - 1]
      BY ONLY <3>0, <3>2, SubSeqProperties
    <3>4. Len(SubSeq(toOwner, m, n)) = n - read
      BY <2>0, <3>1, <3>3 DEF m
    <3>5. rest = SubSeq(toOwner, m, n)
      BY DEF m, n
    <3> HIDE DEF rest
    <3>6. \A j \in 1 .. n - read : rest[j] = toOwner[read + j]
      BY <3>1, <3>3, <3>5
    <3>7. QED
      BY <3>3, <3>4, <3>5, <3>6 DEF n
  <2>2. DOMAIN rest = 1 .. Len(toOwner) - read
    BY <2>1
  <2> HIDE DEF rest
  <2>3. \A j \in DOMAIN rest : read + j \in DOMAIN toOwner /\ rest[j] = toOwner[read + j]
    BY <2>0, <2>1, <2>2
  <2>4. \A i \in read + 1 .. Len(toOwner) :
           i - read \in DOMAIN rest /\ rest[i - read] = toOwner[i]
    BY <2>0, <2>1, <2>2
  <2>5. Incoming = rest
    BY <1>2 DEF Incoming, rest
  <2>6. QED
    BY <2>1, <2>3, <2>4, <2>5
<1>3. QED
  BY <1>1, <1>2

(* A read of well-typed messages adds requests of this very content, one for *)
(* each id, and none for an id on the screen.                                *)
LEMMA NewAreRequests ==
    ASSUME NEW q \in Seq(AgentMessage), NEW s \in NewRequests(q)
    PROVE  s \in Held /\ \E i \in DOMAIN q : q[i] = Request(s)
<1>1. PICK i \in DOMAIN q : FirstOfItsId(q, i) /\ s = [id |-> IdOf(q[i]), amount |-> q[i].amount]
  BY DEF NewRequests
<1>2. q[i] \in AgentMessage /\ q[i].kind = "request" /\ s.id = q[i].id /\ s.amount = q[i].amount
  BY <1>1 DEF FirstOfItsId, IsRequest, IdOf
<1>3. /\ q[i].id \in Nat /\ q[i].amount \in Amounts
      /\ q[i] = [kind |-> "request", id |-> q[i].id, amount |-> q[i].amount]
  BY <1>2 DEF AgentMessage
<1>4. QED
  BY <1>1, <1>2, <1>3 DEF Held, Request

LEMMA NewHaveOneId ==
    ASSUME NEW q \in Seq(AgentMessage), NEW s \in NewRequests(q), NEW t \in NewRequests(q),
           s.id = t.id
    PROVE  s = t
<1>1. PICK i \in DOMAIN q : FirstOfItsId(q, i) /\ s = [id |-> IdOf(q[i]), amount |-> q[i].amount]
  BY DEF NewRequests
<1>2. PICK j \in DOMAIN q : FirstOfItsId(q, j) /\ t = [id |-> IdOf(q[j]), amount |-> q[j].amount]
  BY DEF NewRequests
<1>3. IdOf(q[i]) = IdOf(q[j]) /\ IsRequest(q[i]) /\ IsRequest(q[j])
  BY <1>1, <1>2 DEF FirstOfItsId
<1>4. i \in Nat /\ j \in Nat /\ i >= 1 /\ j >= 1
  OBVIOUS
<1>5. ~ (i < j) /\ ~ (j < i)
  BY <1>1, <1>2, <1>3, <1>4 DEF FirstOfItsId
<1>6. QED
  BY <1>1, <1>2, <1>4, <1>5

LEMMA NewAreNew ==
    ASSUME NEW q, NEW s \in NewRequests(q), NEW t \in requests
    PROVE  s.id # t.id
BY DEF NewRequests

(* Every request of a read is on the screen after it, itself or an earlier   *)
(* one of its id.                                                            *)
LEMMA ReadIsShown ==
    ASSUME NEW q \in Seq(AgentMessage), NEW j \in DOMAIN q, q[j].kind = "request"
    PROVE  \E t \in Merged(q) : t.id = q[j].id
<1> DEFINE Same == {k \in DOMAIN q : IsRequest(q[k]) /\ IdOf(q[k]) = q[j].id}
<1>1. Same \in SUBSET Nat /\ j \in Same
  BY DEF IsRequest, IdOf
<1>2. PICK k \in Same : \A m \in Same : k <= m
  BY <1>1, LeastNumber
<1>3. FirstOfItsId(q, k) /\ k \in DOMAIN q /\ IdOf(q[k]) = q[j].id
  <2>1. k \in DOMAIN q /\ IsRequest(q[k]) /\ IdOf(q[k]) = q[j].id
    OBVIOUS
  <2>2. ASSUME NEW m \in 1 .. k - 1, IsRequest(q[m]), IdOf(q[m]) = IdOf(q[k])
        PROVE  FALSE
    <3>1. m \in DOMAIN q /\ m < k /\ k \in Nat /\ m \in Nat
      BY <2>1
    <3>2. m \in Same
      BY <2>1, <2>2, <3>1
    <3>3. QED
      BY <1>2, <3>1, <3>2
  <2>3. QED
    BY <2>1, <2>2 DEF FirstOfItsId
<1> HIDE DEF Same
<1>4. CASE \E s \in requests : s.id = q[j].id
  BY <1>4 DEF Merged
<1>5. CASE \A s \in requests : s.id # IdOf(q[k])
  <2>1. [id |-> IdOf(q[k]), amount |-> q[k].amount] \in NewRequests(q)
    BY <1>3, <1>5 DEF NewRequests
  <2>2. QED
    BY <1>3, <2>1 DEF Merged
<1>6. QED
  BY <1>3, <1>4, <1>5

-----------------------------------------------------------------------------
(* The screen. *)

(* Every step of the composition is one of OwnerApproval, or leaves the agent *)
(* alone: the app decides only what is on its screen, which was published.   *)
LEMMA DeskStep ==
    ASSUME DeskOK, [DeskNext]_deskVars
    PROVE  [Next]_vars
<1>1. CASE UNCHANGED deskVars
  BY <1>1 DEF deskVars
<1>2. CASE AgentActs
  BY <1>2 DEF AgentActs, Next
<1>3. ASSUME NEW s \in requests, NEW verdict \in {"approve", "deny"}, AppDecides(s, verdict)
      PROVE  Next
  <2>1. PICK i \in DOMAIN toOwner : toOwner[i] = Request(s)
    BY DEF DeskOK, Announced
  <2>2. Decide(toOwner[i], verdict)
    BY <1>3, <2>1 DEF AppDecides
  <2>3. QED
    BY <2>2 DEF Next, OwnerActs
<1>4. ASSUME NEW key \in PolicyKeys, NEW value \in Limits, AppConfigures(key, value)
      PROVE  Next
  BY <1>4 DEF AppConfigures, Next, OwnerActs
<1>5. CASE AppOpens \/ AppPolls \/ AppPollFails \/ AppCloses \/ \E s \in requests : AppDecideFails(s)
  BY <1>5 DEF AppOpens, AppPolls, AppPollFails, AppCloses, AppDecideFails, AgentIdle
<1>6. QED
  BY <1>1, <1>2, <1>3, <1>4, <1>5 DEF DeskNext, App

(* The agent's topic only grows, and with it what the app may have read. *)
LEMMA TopicGrows ==
    ASSUME TypeOK, [Next]_vars
    PROVE  /\ toOwner' \in Seq(AgentMessage) /\ Len(toOwner) <= Len(toOwner')
           /\ Len(toOwner) \in Nat /\ Len(toOwner') \in Nat
           /\ \A i \in DOMAIN toOwner : i \in DOMAIN toOwner' /\ toOwner'[i] = toOwner[i]
<1>1. toOwner \in Seq(AgentMessage)
  BY DEF TypeOK, TopicsOK
<1>2. QED
  BY <1>1, ToOwnerSteps

LEMMA InitDeskOK == DeskInit => DeskOK
<1> SUFFICES ASSUME DeskInit PROVE DeskOK
  OBVIOUS
<1>1. open \in BOOLEAN /\ broken \in BOOLEAN /\ requests = {} /\ spentShown = {}
  BY DEF DeskInit
<1>2. deskBudget \in Nat /\ read = 0 /\ Len(toOwner) = 0
  BY DeskAssumption DEF DeskInit, Init
<1>3. QED
  BY <1>1, <1>2 DEF DeskOK

(* What was shown stays true of a topic that grows. *)
LEMMA ShownStays ==
    ASSUME TypeOK, DeskOK, [Next]_vars
    PROVE  /\ \A s \in requests : Announced(s)'
           /\ spentShown \subseteq {toOwner'[i].amount : i \in DOMAIN toOwner'}
           /\ read \in 0 .. Len(toOwner')
<1>1. \A s \in requests : Announced(s)'
  BY TopicGrows DEF DeskOK, Announced, Request
<1>2. spentShown \subseteq {toOwner'[i].amount : i \in DOMAIN toOwner'}
  BY TopicGrows DEF DeskOK
<1>3. read \in 0 .. Len(toOwner')
  BY TopicGrows DEF DeskOK
<1>4. QED
  BY <1>1, <1>2, <1>3

LEMMA PollShows ==
    ASSUME TypeOK, DeskOK, AppPolls
    PROVE  DeskOK'
<1>0. /\ toOwner \in Seq(AgentMessage) /\ UNCHANGED toOwner /\ Len(toOwner) \in Nat
      /\ read' = Len(toOwner) /\ UNCHANGED <<open, deskBudget, broken>>
      /\ requests' = Merged(Incoming) /\ spentShown' = MergedSpent(Incoming)
  BY DEF TypeOK, TopicsOK, AppPolls, AgentIdle, vars
<1>1. /\ Incoming \in Seq(AgentMessage)
      /\ \A j \in DOMAIN Incoming : \E i \in DOMAIN toOwner : Incoming[j] = toOwner[i]
  BY <1>0, IncomingIsPublished DEF DeskOK
<1>2. ASSUME NEW s \in requests'
      PROVE  s \in Held /\ Announced(s)'
  <2>1. s \in Held /\ \E i \in DOMAIN toOwner : toOwner[i] = Request(s)
    <3>1. CASE s \in requests
      BY <3>1 DEF DeskOK, Announced
    <3>2. CASE s \in NewRequests(Incoming)
      <4>1. s \in Held
        BY <1>1, <3>2, NewAreRequests
      <4>2. PICK j \in DOMAIN Incoming : Incoming[j] = Request(s)
        BY <1>1, <3>2, NewAreRequests
      <4>3. QED
        BY <1>1, <4>1, <4>2
    <3>3. QED
      BY <1>0, <3>1, <3>2 DEF Merged
  <2>2. QED
    BY <1>0, <2>1 DEF Announced, Request
<1>3. ASSUME NEW s \in requests', NEW t \in requests', s.id = t.id
      PROVE  s = t
  <2>1. s \in requests \cup NewRequests(Incoming) /\ t \in requests \cup NewRequests(Incoming)
    BY <1>0 DEF Merged
  <2>2. CASE s \in requests /\ t \in requests
    BY <1>3, <2>2 DEF DeskOK
  <2>3. CASE s \in NewRequests(Incoming) /\ t \in NewRequests(Incoming)
    BY <1>1, <1>3, <2>3, NewHaveOneId
  <2>4. QED
    BY <1>3, <2>1, <2>2, <2>3, NewAreNew
<1>4. spentShown' \subseteq {toOwner'[i].amount : i \in DOMAIN toOwner'}
  <2> SUFFICES ASSUME NEW a \in spentShown'
               PROVE  \E i \in DOMAIN toOwner : a = toOwner[i].amount
    BY <1>0
  <2>1. CASE a \in spentShown
    BY <2>1 DEF DeskOK
  <2>2. CASE a \notin spentShown
    <3>1. PICK m \in Range(Incoming) : a = m.amount
      BY <1>0, <2>2 DEF MergedSpent
    <3>2. PICK j \in DOMAIN Incoming : m = Incoming[j]
      BY DEF Range
    <3>3. QED
      BY <1>1, <3>1, <3>2
  <2>3. QED
    BY <2>1, <2>2
<1>5. read' \in 0 .. Len(toOwner')
  BY <1>0
<1>6. QED
  BY <1>0, <1>2, <1>3, <1>4, <1>5 DEF DeskOK

LEMMA StepDeskOK ==
    ASSUME TypeOK, DeskOK, [DeskNext]_deskVars
    PROVE  DeskOK'
<1>0. [Next]_vars
  BY DeskStep
<1>1. toOwner \in Seq(AgentMessage) /\ Len(toOwner) \in Nat
  BY DEF TypeOK, TopicsOK
<1>2. ASSUME requests' \subseteq requests, spentShown' \subseteq spentShown,
             read' = read \/ (read' = Len(toOwner) /\ UNCHANGED toOwner),
             open' \in BOOLEAN, deskBudget' \in Nat, broken' \in BOOLEAN
      PROVE  DeskOK'
  <2>1. /\ requests' \subseteq Held
        /\ \A s, t \in requests' : s.id = t.id => s = t
        /\ (\A s \in requests : Announced(s))'
    BY <1>0, <1>2, ShownStays DEF DeskOK, Announced, Request
  <2>2. spentShown' \subseteq {toOwner'[i].amount : i \in DOMAIN toOwner'}
    BY <1>0, <1>2, ShownStays
  <2>3. read' \in 0 .. Len(toOwner')
    BY <1>0, <1>1, <1>2, ShownStays
  <2>4. QED
    BY <1>2, <2>1, <2>2, <2>3 DEF DeskOK
<1>3. CASE AppPolls
  BY <1>3, PollShows
<1>4. CASE UNCHANGED deskVars \/ AgentActs
  BY <1>2, <1>4 DEF deskVars, desk, screen, AgentActs, DeskOK
<1>5. CASE AppOpens \/ AppPollFails \/ AppCloses
  <2>1. /\ requests' \subseteq requests /\ spentShown' \subseteq spentShown
        /\ (UNCHANGED read \/ read' = Len(toOwner))
        /\ UNCHANGED toOwner
    BY <1>5 DEF AppOpens, AppPollFails, AppCloses, AgentIdle, vars, screen
  <2>2. deskBudget' \in Nat
    BY <1>5 DEF AppOpens, AppPollFails, AppCloses, DeskFault, DeskOK
  <2>3. /\ open' = TRUE \/ open' = FALSE \/ open' = open
        /\ broken' = TRUE \/ broken' = broken
    BY <1>5 DEF AppOpens, AppPollFails, AppCloses
  <2>4. open' \in BOOLEAN /\ broken' \in BOOLEAN
    BY <2>3, Zenon DEF DeskOK
  <2>5. QED
    BY <1>2, <2>1, <2>2, <2>4
<1>6. ASSUME NEW s \in requests,
             AppDecideFails(s) \/ \E verdict \in {"approve", "deny"} : AppDecides(s, verdict)
      PROVE  DeskOK'
  <2>1. requests' \subseteq requests
    BY <1>6 DEF AppDecideFails, AppDecides, OffScreen
  <2>2. /\ UNCHANGED <<spentShown, read, open>>
        /\ broken' = TRUE \/ broken' = broken
        /\ UNCHANGED deskBudget \/ DeskFault("decision_lost")
    BY <1>6 DEF AppDecideFails, AppDecides
  <2>3. deskBudget' \in Nat
    BY <2>2 DEF DeskFault, DeskOK
  <2>4. open' \in BOOLEAN /\ broken' \in BOOLEAN
    BY <2>2, Zenon DEF DeskOK
  <2>5. QED
    BY <1>2, <2>1, <2>2, <2>3, <2>4
<1>7. ASSUME NEW key \in PolicyKeys, NEW value \in Limits, AppConfigures(key, value)
      PROVE  DeskOK'
  BY <1>2, <1>7 DEF AppConfigures, desk, screen, DeskOK
<1>8. QED
  BY <1>3, <1>4, <1>5, <1>6, <1>7 DEF DeskNext, App

LEMMA DeskAlways == DeskSpec => [](TypeOK /\ DeskOK)
<1>1. DeskInit => TypeOK /\ DeskOK
  BY InitTypeOK, InitDeskOK DEF DeskInit
<1>2. TypeOK /\ DeskOK /\ [DeskNext]_deskVars => (TypeOK /\ DeskOK)'
  BY DeskStep, StepTypeOK, StepDeskOK
<1>3. QED
  BY <1>1, <1>2, PTL DEF DeskSpec

(* The screen shows nothing the agent did not publish, one request for each  *)
(* id, whatever is lost and whenever the app is closed (the merge of          *)
(* agent_owner_plugin.cpp:126).                                              *)
THEOREM ScreenIsTruthful == DeskSpec => []DeskOK
BY DeskAlways, PTL

(* The agent at work with the app behaves as module OwnerApproval says: what  *)
(* was proved of that module, whose owner may decide any request it ever saw, *)
(* holds of the composition (the decide of agent_owner_plugin.cpp:163).       *)
THEOREM ActsByApp == DeskSpec => OwnerActsByApp
<1>1. DeskInit => Init
  BY DEF DeskInit
<1>2. TypeOK /\ DeskOK /\ [DeskNext]_deskVars => [Next]_vars
  BY DeskStep
<1>3. QED
  BY <1>1, <1>2, DeskAlways, PTL DEF DeskSpec, OwnerActsByApp, Spec

(* So the app and the agent together keep the promise of module OwnerPromise, *)
(* provided the wallet does not refuse an approved transfer.                  *)
THEOREM TogetherKeepPromise ==
    ASSUME "send_error" \notin Faults
    PROVE  DeskSpec => PromiseKept
BY ActsByApp, KeepsPromise DEF OwnerActsByApp

-----------------------------------------------------------------------------
(* What becomes of a held spend.  The invariant also covers the spend that is *)
(* about to be held, whose request was just published, and says that no       *)
(* message waits in a batch while the agent reads the next one.               *)

Decidable(id) == (\E t \in requests : t.id = id) \/ Unread(id) \/ OnItsWay(id)

Settleable ==
    /\ pc \notin {"applying", "executing"} => batch = <<>>
    /\ ~ broken => /\ \A s \in pending : Decidable(s.id)
                   /\ pc = "holding" => Decidable(cur.id)

LEMMA InitSettleable == DeskInit => Settleable
BY DEF DeskInit, Init, Settleable

LEMMA SeenStays ==
    ASSUME TypeOK, [Next]_vars, UNCHANGED <<requests, read>>, NEW id,
           (\E t \in requests : t.id = id) \/ Unread(id), read \in Nat
    PROVE  Decidable(id)'
<1>1. CASE \E t \in requests : t.id = id
  BY <1>1 DEF Decidable
<1>2. CASE Unread(id)
  <2>1. PICK i \in read + 1 .. Len(toOwner) : toOwner[i].kind = "request" /\ toOwner[i].id = id
    BY <1>2 DEF Unread
  <2>2. Len(toOwner) \in Nat /\ DOMAIN toOwner = 1 .. Len(toOwner)
    BY DEF TypeOK, TopicsOK
  <2>3. i \in DOMAIN toOwner /\ i \in read' + 1 .. Len(toOwner')
    BY <2>1, <2>2, TopicGrows
  <2>4. toOwner'[i] = toOwner[i]
    BY <2>3, TopicGrows
  <2>5. Unread(id)'
    BY <2>1, <2>3, <2>4 DEF Unread
  <2>6. QED
    BY <2>5 DEF Decidable
<1>3. QED
  BY <1>1, <1>2

LEMMA RangeTail ==
    ASSUME NEW S, NEW q \in Seq(S), q # <<>>, NEW m \in Range(q)
    PROVE  m = Head(q) \/ m \in Range(Tail(q))
<1>1. PICK i \in DOMAIN q : m = q[i]
  BY DEF Range
<1>2. CASE i = 1
  BY <1>1, <1>2
<1>3. CASE i # 1
  <2>1. i - 1 \in DOMAIN Tail(q) /\ Tail(q)[i - 1] = q[i]
    BY <1>3
  <2>2. QED
    BY <1>1, <2>1 DEF Range
<1>4. QED
  BY <1>2, <1>3

LEMMA RangeAppend ==
    ASSUME NEW S, NEW q \in Seq(S), NEW m \in S
    PROVE  Range(Append(q, m)) = Range(q) \cup {m}
<1>1. /\ DOMAIN Append(q, m) = DOMAIN q \cup {Len(q) + 1}
      /\ \A i \in DOMAIN q : Append(q, m)[i] = q[i]
      /\ Append(q, m)[Len(q) + 1] = m
  OBVIOUS
<1>2. QED
  BY <1>1 DEF Range

(* A decision in either queue. *)
Verdict(m, id) == m.kind \in {"approve", "deny"} /\ m.id = id

LEMMA WayStays ==
    ASSUME NEW id, OnItsWay(id),
           \A m \in Range(toAgent) \cup Range(batch) :
              Verdict(m, id) => m \in Range(toAgent') \cup Range(batch')
    PROVE  OnItsWay(id)'
<1>1. PICK m \in Range(toAgent) \cup Range(batch) : Verdict(m, id)
  BY DEF OnItsWay, Verdict
<1>2. m \in Range(toAgent') \cup Range(batch')
  BY <1>1
<1>3. QED
  BY <1>1, <1>2 DEF OnItsWay, Verdict, Range

(* The steps of the agent: nothing it does loses a decision about a spend it  *)
(* still holds, short of a step that breaks.                                  *)
LEMMA AgentKeepsDecidable ==
    ASSUME TypeOK, [Next]_vars, UNCHANGED <<requests, read>>, read \in Nat, NEW id, Decidable(id),
           \A m \in Range(toAgent) \cup Range(batch) :
              Verdict(m, id) => m \in Range(toAgent') \cup Range(batch')
    PROVE  Decidable(id)'
<1>1. CASE OnItsWay(id)
  BY <1>1, WayStays DEF Decidable
<1>2. CASE (\E t \in requests : t.id = id) \/ Unread(id)
  BY <1>2, SeenStays
<1>3. QED
  BY <1>1, <1>2 DEF Decidable

LEMMA AgentStepSettleable ==
    ASSUME TypeOK, DeskOK, Settleable, AgentActs
    PROVE  Settleable'
<1>0. /\ [Next]_vars /\ UNCHANGED <<requests, read>> /\ read \in Nat
      /\ toAgent \in Seq(OwnerMessage) /\ batch \in Seq(OwnerMessage)
  BY DEF AgentActs, Next, desk, screen, DeskOK, TypeOK, RuntimeOK, TopicsOK
<1>1. ~ broken' => ~ broken /\ ~ PollLost /\ ~ TransferFails /\ ~ Restart
  BY DEF AgentActs, Breaks
<1>2. ASSUME UNCHANGED <<toAgent, batch>>, NEW id, Decidable(id)
      PROVE  Decidable(id)'
  BY <1>0, <1>2, AgentKeepsDecidable
<1>3. CASE Poll
  <2>1. /\ batch = <<>> /\ batch' = toAgent /\ UNCHANGED <<pending, cur>> /\ pc' = "applying"
    BY <1>3 DEF Poll, Fetched, memory, Settleable
  <2>2. ASSUME NEW id, Decidable(id)
        PROVE  Decidable(id)'
    <3>1. Range(batch) = {}
      BY <2>1 DEF Range
    <3>2. QED
      BY <1>0, <2>1, <2>2, <3>1, AgentKeepsDecidable
  <2>3. QED
    BY <1>1, <2>1, <2>2 DEF Settleable
<1>4. CASE ApplyApprove \/ ApplyDeny \/ IgnoreDecision \/ ApplyConfigure
  <2>1. /\ batch # <<>> /\ batch' = Tail(batch) /\ UNCHANGED toAgent
        /\ pc' \in {"applying", "executing"} /\ pending' \subseteq pending
    BY <1>4 DEF ApplyApprove, ApplyDeny, IgnoreDecision, ApplyConfigure, Applying, Without, memory
  <2>2. \A s \in pending' : ~ Verdict(Head(batch), s.id)
    BY <1>4 DEF ApplyApprove, ApplyDeny, IgnoreDecision, ApplyConfigure, Applying, Without, memory,
                IsHeld, Verdict, PolicyKeys
  <2>3. ASSUME NEW s \in pending', ~ broken'
        PROVE  Decidable(s.id)'
    <3>1. PICK id : id = s.id
      OBVIOUS
    <3>2. Decidable(id)
      BY <1>1, <2>1, <2>3, <3>1 DEF Settleable
    <3>3. ~ Verdict(Head(batch), id)
      BY <2>2, <3>1
    <3>4. \A m \in Range(toAgent) \cup Range(batch) :
             Verdict(m, id) => m \in Range(toAgent') \cup Range(batch')
      BY <1>0, <2>1, <3>3, RangeTail
    <3>5. Decidable(id)'
      BY <1>0, <3>2, <3>4, AgentKeepsDecidable
    <3>6. QED
      BY <3>1, <3>5 DEF Decidable, Unread, OnItsWay
  <2>4. QED
    BY <2>1, <2>3 DEF Settleable
<1>5. CASE NotifyOk
  <2>1. /\ pc = "notifying" /\ pc' = "holding" /\ toOwner' = Append(toOwner, Request(cur))
        /\ UNCHANGED <<cur, batch, pending, toAgent>>
    BY <1>5 DEF NotifyOk, memory
  <2>2. Decidable(cur.id)'
    <3>1. /\ toOwner \in Seq(AgentMessage) /\ Len(toOwner) \in Nat /\ read <= Len(toOwner)
      BY DEF TypeOK, TopicsOK, DeskOK
    <3>2. /\ Len(toOwner') = Len(toOwner) + 1 /\ toOwner'[Len(toOwner) + 1] = Request(cur)
      BY <2>1, <3>1
    <3>3. Len(toOwner) + 1 \in read' + 1 .. Len(toOwner')
      BY <1>0, <3>1, <3>2
    <3>4. toOwner'[Len(toOwner) + 1].kind = "request" /\ toOwner'[Len(toOwner) + 1].id = cur'.id
      BY <2>1, <3>2 DEF Request
    <3>5. Unread(cur.id)'
      BY <3>3, <3>4 DEF Unread
    <3>6. QED
      BY <3>5 DEF Decidable
  <2>3. ASSUME NEW s \in pending, ~ broken'
        PROVE  Decidable(s.id)'
    BY <1>1, <1>2, <2>1, <2>3 DEF Settleable
  <2>4. QED
    BY <2>1, <2>2, <2>3 DEF Settleable
<1>6. CASE HoldForApproval
  <2>1. /\ pc = "holding" /\ pc' = "idle" /\ UNCHANGED <<batch, toAgent>>
        /\ pending' \subseteq pending \cup {cur}
    BY <1>6 DEF HoldForApproval, Without
  <2>2. ASSUME NEW s \in pending', ~ broken'
        PROVE  Decidable(s.id)'
    <3>1. Decidable(s.id)
      BY <1>1, <2>1, <2>2 DEF Settleable
    <3>2. QED
      BY <1>2, <2>1, <3>1
  <2>3. QED
    BY <2>1, <2>2 DEF Settleable
<1>7. CASE Proposing \/ NotifyFails \/ TransferOk \/ FinishBatch
  <2>1. /\ UNCHANGED <<batch, pending, toAgent>>
        /\ pc' \notin {"applying", "executing"} => batch = <<>> \/ pc \notin {"applying", "executing"}
        /\ pc' # "holding" \/ UNCHANGED <<pc, cur>>
    BY <1>7 DEF Proposing, ProposeWithinPolicy, ProposeOverPolicy, Propose, NotifyFails, GiveUp,
                TransferOk, InTransfer, FinishBatch, memory
  <2>2. ASSUME NEW s \in pending', ~ broken'
        PROVE  Decidable(s.id)'
    BY <1>1, <1>2, <2>1, <2>2 DEF Settleable
  <2>3. ASSUME pc' = "holding", ~ broken'
        PROVE  Decidable(cur.id)'
    <3>1. PICK id : id = cur.id
      OBVIOUS
    <3>2. Decidable(id)'
      BY <1>1, <1>2, <2>1, <2>3, <3>1 DEF Settleable
    <3>3. QED
      BY <2>1, <2>3, <3>1, <3>2
  <2>4. QED
    BY <2>1, <2>2, <2>3 DEF Settleable
<1>8. CASE PollLost \/ TransferFails \/ Restart
  <2>1. ASSUME ~ broken'
        PROVE  FALSE
    BY <1>1, <1>8, <2>1
  <2>2. pc' \notin {"applying", "executing"} => batch' = <<>>
    BY <1>8 DEF PollLost, TransferFails, Restart, runtime, Settleable
  <2>3. QED
    BY <2>1, <2>2 DEF Settleable
<1>9. QED
  BY <1>3, <1>4, <1>5, <1>6, <1>7, <1>8 DEF AgentActs, Finishing

LEMMA AppPollKeepsDecidable ==
    ASSUME TypeOK, DeskOK, AppPolls, NEW id, Decidable(id)
    PROVE  Decidable(id)'
<1>0. /\ toOwner \in Seq(AgentMessage) /\ read \in 0 .. Len(toOwner)
      /\ requests' = Merged(Incoming) /\ UNCHANGED <<toAgent, batch>>
  BY DEF TypeOK, TopicsOK, DeskOK, AppPolls, AgentIdle, vars, runtime
<1>1. CASE \E t \in requests : t.id = id
  BY <1>0, <1>1 DEF Merged, Decidable
<1>2. CASE Unread(id)
  <2>1. PICK i \in read + 1 .. Len(toOwner) : toOwner[i].kind = "request" /\ toOwner[i].id = id
    BY <1>2 DEF Unread
  <2>2. PICK j \in DOMAIN Incoming : Incoming[j] = toOwner[i]
    BY <1>0, IncomingIsPublished
  <2>3. \E t \in Merged(Incoming) : t.id = id
    BY <1>0, <2>1, <2>2, IncomingIsPublished, ReadIsShown
  <2>4. QED
    BY <1>0, <2>3 DEF Decidable
<1>3. CASE OnItsWay(id)
  <2>1. OnItsWay(id)'
    BY <1>0, <1>3 DEF OnItsWay, Range
  <2>2. QED
    BY <2>1 DEF Decidable
<1>4. QED
  BY <1>1, <1>2, <1>3 DEF Decidable

(* A decision goes on its way as its request leaves the screen. *)
LEMMA AppDecidesKeepsDecidable ==
    ASSUME TypeOK, DeskOK, [Next]_vars, NEW s \in requests, NEW verdict \in {"approve", "deny"},
           AppDecides(s, verdict), NEW id, Decidable(id)
    PROVE  Decidable(id)'
<1> DEFINE m == [kind |-> verdict, id |-> s.id]
<1>0. /\ toAgent \in Seq(OwnerMessage) /\ UNCHANGED <<batch, read, toOwner>>
      /\ requests' = {t \in requests : t.id # s.id}
      /\ toAgent' = Append(toAgent, m) /\ m \in OwnerMessage
  <2>1. Publish([kind |-> verdict, id |-> s.id])
    BY DEF AppDecides, Decide, Request
  <2>2. s.id \in Nat
    BY DEF DeskOK, Held
  <2>3. QED
    BY <2>1, <2>2
       DEF AppDecides, Publish, runtime, OffScreen, TypeOK, TopicsOK, OwnerMessage, Decision
<1>1. m \in Range(toAgent') /\ Range(toAgent) \subseteq Range(toAgent')
  BY <1>0, RangeAppend
<1>2. CASE id = s.id
  <2>1. OnItsWay(id)'
    BY <1>1, <1>2 DEF OnItsWay, Range
  <2>2. QED
    BY <2>1 DEF Decidable
<1>3. CASE id # s.id /\ \E t \in requests : t.id = id
  BY <1>0, <1>3 DEF Decidable
<1>4. CASE Unread(id)
  BY <1>0, <1>4 DEF Decidable, Unread
<1>5. CASE OnItsWay(id)
  <2>1. OnItsWay(id)'
    BY <1>0, <1>1, <1>5, WayStays
  <2>2. QED
    BY <2>1 DEF Decidable
<1>6. QED
  BY <1>2, <1>3, <1>4, <1>5 DEF Decidable

LEMMA AppStepSettleable ==
    ASSUME TypeOK, DeskOK, Settleable, App
    PROVE  Settleable'
<1>0. [Next]_vars /\ read \in Nat
  BY DeskStep DEF DeskNext, DeskOK
<1>1. UNCHANGED <<pc, cur, batch, pending>>
  BY DEF App, AppOpens, AppPolls, AppPollFails, AppCloses, AppDecideFails, AppDecides,
         AppConfigures, AgentIdle, Decide, ConfigurePolicy, Publish, vars, runtime, memory
<1>2. ASSUME ~ broken', NEW id, Decidable(id)
      PROVE  ~ broken /\ Decidable(id)'
  <2>1. CASE AppOpens
    BY <1>2, <2>1
       DEF AppOpens, AgentIdle, vars, runtime, screen, Decidable, Unread, OnItsWay
  <2>2. CASE AppPolls
    BY <1>2, <2>2, AppPollKeepsDecidable DEF AppPolls
  <2>3. CASE AppPollFails \/ AppCloses \/ \E s \in requests : AppDecideFails(s)
    BY <1>2, <2>3 DEF AppPollFails, AppCloses, AppDecideFails
  <2>4. ASSUME NEW s \in requests, NEW verdict \in {"approve", "deny"}, AppDecides(s, verdict)
        PROVE  ~ broken /\ Decidable(id)'
    BY <1>0, <1>2, <2>4, AppDecidesKeepsDecidable DEF AppDecides
  <2>5. ASSUME NEW key \in PolicyKeys, NEW value \in Limits, AppConfigures(key, value)
        PROVE  ~ broken /\ Decidable(id)'
    <3>1. /\ toAgent \in Seq(OwnerMessage) /\ [kind |-> key, value |-> value] \in OwnerMessage
          /\ toAgent' = Append(toAgent, [kind |-> key, value |-> value])
          /\ UNCHANGED <<requests, read, batch, broken>>
      BY <2>5 DEF AppConfigures, ConfigurePolicy, Publish, desk, screen, runtime, TypeOK, TopicsOK,
                  OwnerMessage, Configure
    <3>2. Range(toAgent) \subseteq Range(toAgent')
      BY <3>1, RangeAppend
    <3>3. QED
      BY <1>0, <1>2, <3>1, <3>2, AgentKeepsDecidable
  <2>6. QED
    BY <2>1, <2>2, <2>3, <2>4, <2>5 DEF App
<1>3. ASSUME ~ broken', NEW s \in pending'
      PROVE  Decidable(s.id)'
  <2>1. s \in pending
    BY <1>1
  <2>2. ~ broken
    BY <1>3 DEF App, AppOpens, AppPolls, AppPollFails, AppCloses, AppDecideFails, AppDecides,
                AppConfigures
  <2>3. QED
    BY <1>2, <1>3, <2>1, <2>2 DEF Settleable
<1>4. ASSUME ~ broken', pc' = "holding"
      PROVE  Decidable(cur.id)'
  <2>1. PICK id : id = cur.id
    OBVIOUS
  <2>2. ~ broken
    BY <1>4 DEF App, AppOpens, AppPolls, AppPollFails, AppCloses, AppDecideFails, AppDecides,
                AppConfigures
  <2>3. Decidable(id)'
    BY <1>1, <1>2, <1>4, <2>1, <2>2 DEF Settleable
  <2>4. QED
    BY <1>1, <2>1, <2>3
<1>5. QED
  BY <1>1, <1>3, <1>4 DEF Settleable

LEMMA StepSettleable ==
    ASSUME TypeOK, DeskOK, Settleable, [DeskNext]_deskVars
    PROVE  Settleable'
<1>1. CASE UNCHANGED deskVars
  BY <1>1 DEF deskVars, vars, runtime, memory, desk, screen, Settleable, Decidable, Unread, OnItsWay
<1>2. QED
  BY <1>1, AgentStepSettleable, AppStepSettleable DEF DeskNext

(* Until a read, a decision or a batch is lost, or the app is closed, a held  *)
(* spend can still be settled: its request is on the screen or will be read,  *)
(* or a decision about it is on its way (agent_owner_plugin.cpp:174).        *)
THEOREM HeldStaysDecidable == DeskSpec => []HeldIsDecidable
<1>1. Settleable => HeldIsDecidable
  BY DEF Settleable, HeldIsDecidable, Decidable
<1>2. TypeOK /\ DeskOK /\ Settleable /\ [DeskNext]_deskVars => Settleable'
  BY StepSettleable
<1>3. QED
  BY <1>1, <1>2, InitSettleable, DeskAlways, PTL DEF DeskSpec

=============================================================================
