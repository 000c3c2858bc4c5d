------------------------ MODULE OwnerDecisions_proofs ------------------------
(***************************************************************************)
(* Proofs about OwnerApproval, continued: what becomes of the owner's       *)
(* decisions and limits, and what the state file holds between two calls.   *)
(* Each theorem names the backend or the faults it needs; the runs that     *)
(* check the same properties meet those conditions.                         *)
(***************************************************************************)
EXTENDS OwnerApproval_proofs, FiniteSetTheorems

-----------------------------------------------------------------------------
(* The state file.  It is behind memory only while a batch is applied, and   *)
(* then the batch is known to have resolved something.                       *)

Saved ==
    /\ disk.nextId = nextId
    /\ pc # "executing" /\ ~ resolved => disk = Memory
    /\ pc \notin {"executing", "applying"} => ~ resolved

LEMMA InitSaved == Init => Saved
BY DEF Init, Saved, Memory

LEMMA StepSaved ==
    ASSUME TypeOK, Saved, [Next]_vars,
           Faults \cap {"persist_error", "send_error", "send_ambiguous"} = {}
    PROVE  Saved'
<1>0. resolved \in BOOLEAN
  BY DEF TypeOK, RuntimeOK
<1>1. CASE HoldForApproval
  BY <1>1 DEF HoldForApproval, Persist, Fault, Memory, Saved
<1>2. CASE FinishBatch
  <2>1. CASE resolved
    BY <1>2, <2>1 DEF FinishBatch, PersistResolved, Persist, Fault, Memory, Saved
  <2>2. CASE ~ resolved
    BY <1>2, <2>2 DEF FinishBatch, PersistResolved, Memory, Saved
  <2>3. QED
    BY <2>1, <2>2
<1>3. CASE Restart
  <2>1. disk = [pending |-> disk.pending, nextId |-> disk.nextId]
    BY DEF TypeOK, StateOK
  <2>2. QED
    BY <1>3, <2>1 DEF Restart, Reload, Memory, Saved
<1>4. CASE ApplyApprove \/ ApplyDeny
  BY <1>4 DEF ApplyApprove, ApplyDeny, Applying, Saved
<1>5. CASE TransferOk
  BY <1>5 DEF TransferOk, InTransfer, memory, Memory, Saved
<1>6. CASE TransferFails
  BY <1>6 DEF TransferFails, Fault
<1>7. CASE ApplyConfigure
  BY <1>0, <1>7 DEF ApplyConfigure, Applying, Memory, Saved
<1>8. CASE Proposing \/ NotifyOk \/ NotifyFails \/ IgnoreDecision \/ Poll
  BY <1>8
     DEF Proposing, ProposeWithinPolicy, ProposeOverPolicy, Propose, NotifyOk, NotifyFails,
         GiveUp, Applying, IgnoreDecision, Poll, memory, Memory, Saved
<1>9. CASE UNCHANGED vars \/ PollLost \/ OwnerActs
  <2>1. UNCHANGED <<runtime, memory, disk>>
    BY <1>9 DEF vars, PollLost, OwnerActs, Decide, ConfigurePolicy, Publish
  <2>2. QED
    BY <2>1 DEF runtime, memory, Memory, Saved
<1>10. QED
  BY <1>1, <1>2, <1>3, <1>4, <1>5, <1>6, <1>7, <1>8, <1>9 DEF Next, Finishing

(* Between two calls the state file holds what the runtime holds, provided  *)
(* it can be written and no approved transfer is refused: a restart loses no *)
(* spend awaiting approval and revives none that was settled                 *)
(* (src/owner.rs:206).                                                       *)
THEOREM RestIsDurable ==
    ASSUME Faults \cap {"persist_error", "send_error", "send_ambiguous"} = {}
    PROVE  Spec => []DurableAtRest
<1>1. Saved => DurableAtRest
  BY DEF Saved, DurableAtRest
<1>2. TypeOK /\ Saved /\ [Next]_vars => Saved'
  BY StepSaved
<1>3. QED
  BY <1>1, <1>2, InitSaved, TypeCorrect, PTL DEF Spec

-----------------------------------------------------------------------------
(* The owner's limits.  What a sequence of messages leaves of a limit: the   *)
(* value of its last message about it, or what it was.                       *)

LastIs(messages, key, value) ==
    \E i \in DOMAIN messages :
        /\ messages[i].kind = key /\ messages[i].value = value
        /\ \A j \in DOMAIN messages : j > i => messages[j].kind # key
NoneOf(messages, key) == \A i \in DOMAIN messages : messages[i].kind # key
Leaves(messages, key, old, new) ==
    LastIs(messages, key, new) \/ (NoneOf(messages, key) /\ old = new)

(* Whether an owner message about the limit waits for the next poll.         *)
Waiting(key) == \E i \in DOMAIN toAgent : i > Len(toAgent) - unread /\ toAgent[i].kind = key

(* What the topic still returns ends with what the owner ordered; and with   *)
(* nothing waiting, what is left of the batch makes the limit in force the   *)
(* one the owner ordered.                                                    *)
Ordered(key) ==
    /\ LastIs(toAgent, key, ordered[key]) \/ NoneOf(toAgent, key)
    /\ ~ Waiting(key) => Leaves(batch, key, policy[key], ordered[key])

InForce ==
    /\ pc \notin {"applying", "executing"} => batch = <<>>
    /\ \A key \in PolicyKeys : Ordered(key)

LEMMA LeavesTail ==
    ASSUME NEW messages \in Seq(OwnerMessage), messages # <<>>, NEW key, NEW old, NEW new,
           Leaves(messages, key, old, new)
    PROVE  Leaves(Tail(messages), key,
                  IF Head(messages).kind = key THEN Head(messages).value ELSE old, new)
<1>1. /\ \A i \in DOMAIN Tail(messages) : i + 1 \in DOMAIN messages
                                         /\ Tail(messages)[i] = messages[i + 1]
      /\ \A i \in DOMAIN messages : i # 1 => i - 1 \in DOMAIN Tail(messages)
                                            /\ Tail(messages)[i - 1] = messages[i]
      /\ 1 \in DOMAIN messages /\ Head(messages) = messages[1]
      /\ DOMAIN messages \subseteq Nat /\ DOMAIN Tail(messages) \subseteq Nat
      /\ \A i \in DOMAIN messages : i >= 1
  OBVIOUS
<1>2. CASE NoneOf(messages, key) /\ old = new
  BY <1>1, <1>2 DEF NoneOf, Leaves
<1>3. ASSUME NEW i \in DOMAIN messages,
             messages[i].kind = key /\ messages[i].value = new,
             \A j \in DOMAIN messages : j > i => messages[j].kind # key
      PROVE  Leaves(Tail(messages), key,
                    IF Head(messages).kind = key THEN Head(messages).value ELSE old, new)
  <2>1. CASE i = 1
    <3>1. NoneOf(Tail(messages), key)
      BY <1>1, <1>3, <2>1 DEF NoneOf
    <3>2. QED
      BY <1>1, <1>3, <2>1, <3>1 DEF Leaves
  <2>2. CASE i # 1
    <3>1. /\ i - 1 \in DOMAIN Tail(messages)
          /\ Tail(messages)[i - 1].kind = key /\ Tail(messages)[i - 1].value = new
      BY <1>1, <1>3, <2>2
    <3>2. \A j \in DOMAIN Tail(messages) : j > i - 1 => Tail(messages)[j].kind # key
      <4> SUFFICES ASSUME NEW j \in DOMAIN Tail(messages), j > i - 1
                   PROVE  messages[j + 1].kind # key
        BY <1>1
      <4>1. i \in Nat /\ j \in Nat /\ j + 1 \in DOMAIN messages
        BY <1>1
      <4>2. QED
        BY <1>3, <4>1
    <3>3. LastIs(Tail(messages), key, new)
      BY <3>1, <3>2 DEF LastIs
    <3>4. QED
      BY <3>3 DEF Leaves
  <2>3. QED
    BY <2>1, <2>2
<1>4. QED
  BY <1>2, <1>3 DEF Leaves, LastIs

LEMMA LastOfAppend ==
    ASSUME NEW messages \in Seq(OwnerMessage), NEW message \in OwnerMessage, NEW key, NEW value
    PROVE  /\ message.kind = key =>
                LastIs(Append(messages, message), key, message.value)
           /\ message.kind # key =>
                /\ LastIs(messages, key, value) => LastIs(Append(messages, message), key, value)
                /\ NoneOf(messages, key) => NoneOf(Append(messages, message), key)
<1>1. /\ DOMAIN Append(messages, message) = 1 .. Len(messages) + 1
      /\ DOMAIN messages = 1 .. Len(messages) /\ Len(messages) \in Nat
      /\ \A i \in DOMAIN messages : Append(messages, message)[i] = messages[i]
      /\ Append(messages, message)[Len(messages) + 1] = message
  OBVIOUS
<1>2. QED
  BY <1>1 DEF LastIs, NoneOf

(* The owner publishes.                                                      *)
LEMMA PublishOrdered ==
    ASSUME TypeOK, NEW message \in OwnerMessage, Publish(message), NEW key \in PolicyKeys,
           Ordered(key),
           ordered'[key] = IF message.kind = key THEN message.value ELSE ordered[key]
    PROVE  Ordered(key)'
<1>0. toAgent \in Seq(OwnerMessage) /\ unread \in Nat /\ toAgent' = Append(toAgent, message)
  BY DEF TypeOK, TopicsOK, Publish
<1>1. LastIs(toAgent', key, ordered'[key]) \/ NoneOf(toAgent', key)
  BY <1>0, LastOfAppend DEF Ordered
<1>2. ASSUME ~ Waiting(key)'
      PROVE  message.kind # key /\ ~ Waiting(key)
  <2>1. /\ DOMAIN toAgent' = 1 .. Len(toAgent) + 1 /\ Len(toAgent') = Len(toAgent) + 1
        /\ DOMAIN toAgent = 1 .. Len(toAgent) /\ Len(toAgent) \in Nat
        /\ \A i \in DOMAIN toAgent : toAgent'[i] = toAgent[i]
        /\ toAgent'[Len(toAgent) + 1] = message
    BY <1>0
  <2>2. unread' = unread + 1
    BY DEF Publish
  <2>3. QED
    BY <1>0, <1>2, <2>1, <2>2 DEF Waiting
<1>3. UNCHANGED <<batch, policy>>
  BY DEF Publish, runtime, memory
<1>4. ~ Waiting(key)' => Leaves(batch', key, policy'[key], ordered'[key])
  BY <1>2, <1>3 DEF Ordered
<1>5. QED
  BY <1>1, <1>4 DEF Ordered

LEMMA InitInForce == Init => InForce
BY DEF Init, InForce, Ordered, Waiting, NoneOf, Leaves

LEMMA StepInForce ==
    ASSUME TypeOK, InForce, [Next]_vars,
           Faults \cap {"crash", "restart", "send_error", "send_ambiguous"} = {},
           "poll_lost" \in Faults => Backend = "cumulative"
    PROVE  InForce'
<1>0. /\ toAgent \in Seq(OwnerMessage) /\ batch \in Seq(OwnerMessage) /\ unread \in Nat
      /\ policy \in [PolicyKeys -> Nat] /\ ordered \in [PolicyKeys -> Nat]
      /\ \A key \in PolicyKeys : Ordered(key)
  BY DEF TypeOK, RuntimeOK, StateOK, TopicsOK, HistoryOK, InForce
<1>1. ASSUME UNCHANGED <<batch, policy, toAgent, unread, ordered>>
      PROVE  \A key \in PolicyKeys : Ordered(key)'
  BY <1>0, <1>1 DEF Ordered, Waiting
<1>2. ASSUME UNCHANGED <<toAgent, unread, ordered>>, batch # <<>>, batch' = Tail(batch),
             \A key \in PolicyKeys :
                policy'[key] = IF Head(batch).kind = key THEN Head(batch).value
                                                         ELSE policy[key]
      PROVE  \A key \in PolicyKeys : Ordered(key)'
  <2> TAKE key \in PolicyKeys
  <2>1. LastIs(toAgent', key, ordered'[key]) \/ NoneOf(toAgent', key)
    BY <1>0, <1>2 DEF Ordered
  <2>2. ~ Waiting(key)' => Leaves(batch', key, policy'[key], ordered'[key])
    <3>1. ~ Waiting(key)' => ~ Waiting(key)
      BY <1>2 DEF Waiting
    <3>2. Leaves(batch, key, policy[key], ordered[key]) =>
             Leaves(batch', key, policy'[key], ordered'[key])
      BY <1>0, <1>2, LeavesTail
    <3>3. QED
      BY <1>0, <3>1, <3>2 DEF Ordered
  <2>3. QED
    BY <2>1, <2>2 DEF Ordered
<1>3. CASE ApplyConfigure
  <2>1. \A key \in PolicyKeys :
           policy'[key] = IF Head(batch).kind = key THEN Head(batch).value ELSE policy[key]
    BY <1>0, <1>3 DEF ApplyConfigure, SetLimit
  <2>2. QED
    BY <1>2, <1>3, <2>1 DEF ApplyConfigure, Applying, owner, InForce
<1>4. CASE ApplyApprove \/ ApplyDeny \/ IgnoreDecision
  <2>1. \A key \in PolicyKeys : Head(batch).kind # key
    BY <1>4 DEF ApplyApprove, ApplyDeny, IgnoreDecision, Applying, ReleasingVerdicts, PolicyKeys
  <2>2. UNCHANGED <<policy, toAgent, unread, ordered>> /\ batch # <<>> /\ batch' = Tail(batch)
    BY <1>4 DEF ApplyApprove, ApplyDeny, IgnoreDecision, Applying, memory, owner
  <2>3. pc' \in {"applying", "executing"}
    BY <1>4 DEF ApplyApprove, ApplyDeny, IgnoreDecision, Applying
  <2>4. QED
    BY <1>2, <2>1, <2>2, <2>3 DEF InForce
<1>5. CASE Poll
  <2>1. /\ batch = <<>> /\ batch' = toAgent /\ pc' = "applying" /\ unread' = 0
        /\ UNCHANGED <<policy, ordered>> /\ toAgent' \in {<<>>, toAgent}
    BY <1>5 DEF Poll, Fetched, AfterRead, memory, owner, InForce
  <2>2. ASSUME NEW key \in PolicyKeys
        PROVE  Ordered(key)'
    <3>1. LastIs(toAgent', key, ordered'[key]) \/ NoneOf(toAgent', key)
      BY <1>0, <2>1 DEF Ordered, NoneOf
    <3>2. NoneOf(toAgent, key) => policy[key] = ordered[key]
      BY <1>0, <2>1 DEF Ordered, Waiting, NoneOf, Leaves, LastIs
    <3>3. Leaves(batch', key, policy'[key], ordered'[key])
      BY <1>0, <2>1, <3>2 DEF Ordered, Leaves
    <3>4. QED
      BY <3>1, <3>3 DEF Ordered
  <2>3. QED
    BY <2>1, <2>2 DEF InForce
<1>6. CASE PollLost
  <2>1. toAgent' = toAgent
    BY <1>6 DEF PollLost, Fault, AfterRead
  <2>2. QED
    BY <1>1, <1>6, <2>1 DEF PollLost, runtime, memory, owner, InForce
<1>7. ASSUME NEW i \in DOMAIN toOwner, NEW verdict \in {"approve", "deny"},
             Decide(toOwner[i], verdict)
      PROVE  InForce'
  <2> DEFINE message == [kind |-> verdict, id |-> toOwner[i].id]
  <2>1. toOwner[i].id \in Nat
    BY <1>7 DEF TypeOK, TopicsOK, Decide, AgentMessage
  <2>2. message \in OwnerMessage /\ Publish(message) /\ UNCHANGED ordered
        /\ message.kind \notin PolicyKeys
    BY <1>7, <2>1 DEF Decide, OwnerMessage, Decision, PolicyKeys
  <2>3. UNCHANGED <<pc, batch>>
    BY <2>2 DEF Publish, runtime
  <2> HIDE DEF message
  <2>4. QED
    BY <1>0, <2>2, <2>3, PublishOrdered DEF InForce
<1>8. ASSUME NEW name \in PolicyKeys, NEW value \in Limits, ConfigurePolicy(name, value)
      PROVE  InForce'
  <2> DEFINE message == [kind |-> name, value |-> value]
  <2>1. message \in OwnerMessage /\ Publish(message)
        /\ message.kind = name /\ message.value = value
    BY <1>8 DEF ConfigurePolicy, OwnerMessage, Configure
  <2>2. \A key \in PolicyKeys :
           ordered'[key] = IF message.kind = key THEN message.value ELSE ordered[key]
    BY <1>0, <1>8 DEF ConfigurePolicy
  <2>3. UNCHANGED <<pc, batch>>
    BY <2>1 DEF Publish, runtime
  <2> HIDE DEF message
  <2>4. QED
    BY <1>0, <2>1, <2>2, <2>3, PublishOrdered DEF InForce
<1>9. CASE \/ UNCHANGED vars \/ Proposing \/ NotifyOk \/ NotifyFails \/ HoldForApproval
           \/ TransferOk \/ FinishBatch
  <2>1. UNCHANGED <<batch, policy, toAgent, unread, ordered>>
    BY <1>9
       DEF vars, runtime, memory, owner, Proposing, ProposeWithinPolicy, ProposeOverPolicy,
           NotifyOk, NotifyFails, HoldForApproval, TransferOk, FinishBatch
  <2>2. pc' \notin {"applying", "executing"} =>
           batch = <<>> \/ pc \notin {"applying", "executing"}
    BY <1>9
       DEF vars, runtime, Proposing, ProposeWithinPolicy, ProposeOverPolicy, Propose, NotifyOk,
           NotifyFails, HoldForApproval, TransferOk, InTransfer, FinishBatch
  <2>3. QED
    BY <1>1, <2>1, <2>2 DEF InForce
<1>10. CASE TransferFails \/ Restart
  BY <1>10 DEF TransferFails, Restart, Fault
<1>11. QED
  BY <1>3, <1>4, <1>5, <1>6, <1>7, <1>8, <1>9, <1>10 DEF Next, Finishing, OwnerActs

(* Between two calls, with no message left to read, the limits in force are *)
(* the ones the owner configured last (src/owner.rs:431).  A restart goes    *)
(* back to the command line and a refused transfer drops the rest of its     *)
(* batch: the theorem is about runs without either, in which no read of an   *)
(* evicting backend is lost.                                                 *)
THEOREM OwnersLimitsInForce ==
    ASSUME Faults \cap {"crash", "restart", "send_error", "send_ambiguous"} = {},
           "poll_lost" \in Faults => Backend = "cumulative"
    PROVE  Spec => []PolicyIsOwnersLatest
<1>1. TypeOK /\ InForce => PolicyIsOwnersLatest
  <2> SUFFICES ASSUME TypeOK, InForce, pc = "idle", unread = 0
               PROVE  policy = ordered
    BY DEF PolicyIsOwnersLatest
  <2>1. /\ toAgent \in Seq(OwnerMessage) /\ batch = <<>>
        /\ policy \in [PolicyKeys -> Nat] /\ ordered \in [PolicyKeys -> Nat]
    BY DEF TypeOK, StateOK, TopicsOK, HistoryOK, InForce
  <2>2. ASSUME NEW key \in PolicyKeys
        PROVE  policy[key] = ordered[key]
    <3>1. ~ Waiting(key)
      BY <2>1 DEF Waiting
    <3>2. Leaves(<<>>, key, policy[key], ordered[key])
      BY <2>1, <3>1 DEF InForce, Ordered
    <3>3. QED
      BY <3>2 DEF Leaves, LastIs
  <2>3. QED
    BY <2>1, <2>2
<1>2. TypeOK /\ InForce /\ [Next]_vars => InForce'
  BY StepInForce
<1>3. QED
  BY <1>1, <1>2, InitInForce, TypeCorrect, PTL DEF Spec

-----------------------------------------------------------------------------
(* What the owner was looking at.  While the process does not die and the    *)
(* node does not lose the answer to a publish, one id is announced for one   *)
(* spend only.                                                               *)

Offers(m) == m.kind = "request"

OneOffer ==
    /\ pc \in {"notifying", "holding"} => cur.id = nextId
    /\ \A i \in DOMAIN toOwner : Offers(toOwner[i]) =>
          \/ toOwner[i].id < nextId
          \/ pc = "holding" /\ toOwner[i].id = cur.id
    /\ \A i, j \in DOMAIN toOwner :
          Offers(toOwner[i]) /\ Offers(toOwner[j]) /\ toOwner[i].id = toOwner[j].id
             => toOwner[i].amount = toOwner[j].amount
    /\ \A d \in DOMAIN decisions : Announced(decisions[d])

LEMMA InitOneOffer == Init => OneOffer
BY DEF Init, OneOffer

LEMMA DecisionIsAboutShown ==
    ASSUME TypeOK, [Next]_vars, NEW d \in DOMAIN decisions', decisions'[d] \notin
           {decisions[i] : i \in DOMAIN decisions}
    PROVE  Announced(decisions'[d])
<1>1. ASSUME NEW i \in DOMAIN toOwner, NEW verdict \in {"approve", "deny"},
             Decide(toOwner[i], verdict)
      PROVE  Announced(decisions'[d])
  <2> DEFINE dec == [id |-> toOwner[i].id, amount |-> toOwner[i].amount, verdict |-> verdict]
  <2>1. decisions' = Append(decisions, dec) /\ decisions \in Seq(Judgement)
    BY <1>1 DEF Decide, TypeOK, HistoryOK
  <2>2. decisions'[d] = dec
    BY <2>1
  <2>3. toOwner[i] = Request(dec)
    BY <1>1 DEF Decide, TypeOK, TopicsOK, AgentMessage, Request
  <2>4. Announced(dec)
    BY <2>3 DEF Announced
  <2>5. QED
    BY <2>2, <2>4
<1>2. CASE ~ \E i \in DOMAIN toOwner, verdict \in {"approve", "deny"} :
                Decide(toOwner[i], verdict)
  BY <1>2
     DEF vars, owner, Next, Proposing, Finishing, OwnerActs, ProposeWithinPolicy,
         ProposeOverPolicy, NotifyOk, NotifyFails, HoldForApproval, TransferOk,
         TransferFails, ApplyApprove, ApplyDeny, IgnoreDecision, ApplyConfigure,
         FinishBatch, Poll, PollLost, Restart, ConfigurePolicy
<1>3. QED
  BY <1>1, <1>2

(* The steps on the owner's topic and on the ids.                            *)
LEMMA OfferSteps ==
    ASSUME TypeOK, [Next]_vars, Faults \cap {"publish_ambiguous", "crash", "restart"} = {}
    PROVE  \/ NotifyOk
           \/ HoldForApproval
           \/ /\ nextId' = nextId
              /\ UNCHANGED toOwner \/ toOwner' = Append(toOwner, SpentNotice(cur))
              /\ \/ pc' \notin {"notifying", "holding"} /\ pc # "holding"
                 \/ UNCHANGED <<pc, cur>>
                 \/ pc' = "notifying" /\ pc = "idle" /\ cur'.id = nextId
<1>1. CASE NotifyFails
  BY <1>1 DEF NotifyFails, Fault, GiveUp, memory
<1>2. CASE TransferOk
  BY <1>2 DEF TransferOk, InTransfer, memory
<1>3. CASE Restart
  BY <1>3 DEF Restart, Fault
<1>4. CASE Proposing
  BY <1>4 DEF Proposing, ProposeWithinPolicy, ProposeOverPolicy, Propose, memory
<1>5. CASE TransferFails \/ Poll \/ FinishBatch
  BY <1>5 DEF TransferFails, InTransfer, Poll, FinishBatch, memory
<1>6. CASE ApplyApprove \/ ApplyDeny \/ IgnoreDecision \/ ApplyConfigure
  BY <1>6 DEF ApplyApprove, ApplyDeny, IgnoreDecision, ApplyConfigure, Applying, memory
<1>7. CASE UNCHANGED vars \/ PollLost \/ OwnerActs
  BY <1>7 DEF vars, runtime, memory, PollLost, OwnerActs, Decide, ConfigurePolicy, Publish
<1>8. QED
  BY <1>1, <1>2, <1>3, <1>4, <1>5, <1>6, <1>7 DEF Next, Finishing

LEMMA StepOneOffer ==
    ASSUME TypeOK, OneOffer, [Next]_vars,
           Faults \cap {"publish_ambiguous", "crash", "restart"} = {}
    PROVE  OneOffer'
<1>0. /\ toOwner \in Seq(AgentMessage) /\ nextId \in Nat /\ decisions \in Seq(Judgement)
      /\ \A i \in DOMAIN toOwner : Offers(toOwner[i]) => toOwner[i].id \in Nat
  BY DEF TypeOK, StateOK, TopicsOK, HistoryOK, Offers, AgentMessage
<1> USE DEF Offers
<1>1. (\A d \in DOMAIN decisions : Announced(decisions[d]))'
  <2> SUFFICES ASSUME NEW d \in DOMAIN decisions', NEW dec, dec = decisions'[d]
               PROVE  Announced(dec)'
    BY DEF Announced, Request
  <2>1. CASE dec \in {decisions[i] : i \in DOMAIN decisions}
    BY <2>1, AnnouncedStable DEF OneOffer
  <2>2. CASE dec \notin {decisions[i] : i \in DOMAIN decisions}
    BY <2>2, DecisionIsAboutShown, AnnouncedStable
  <2>3. QED
    BY <2>1, <2>2
<1>2. CASE NotifyOk
  <2>1. /\ toOwner' = Append(toOwner, Request(cur)) /\ pc = "notifying" /\ pc' = "holding"
        /\ UNCHANGED <<cur, nextId>> /\ cur.id = nextId
    BY <1>2 DEF NotifyOk, memory, OneOffer
  <2>2. /\ \A i \in DOMAIN toOwner' : i \in DOMAIN toOwner \/ i = Len(toOwner) + 1
        /\ \A i \in DOMAIN toOwner : toOwner'[i] = toOwner[i]
        /\ toOwner'[Len(toOwner) + 1] = Request(cur)
        /\ Len(toOwner) + 1 \notin DOMAIN toOwner
    BY <1>0, <2>1
  <2>3. \A i \in DOMAIN toOwner : Offers(toOwner[i]) => toOwner[i].id < nextId
    BY <2>1 DEF OneOffer
  <2>4. Request(cur).id = cur.id
    BY DEF Request
  <2>5. \A i \in DOMAIN toOwner' : Offers(toOwner'[i]) =>
           toOwner'[i].id < nextId' \/ (pc' = "holding" /\ toOwner'[i].id = cur'.id)
    BY <2>1, <2>2, <2>3, <2>4
  <2>6. \A i, j \in DOMAIN toOwner' :
           Offers(toOwner'[i]) /\ Offers(toOwner'[j]) /\ toOwner'[i].id = toOwner'[j].id
              => toOwner'[i].amount = toOwner'[j].amount
    <3>1. \A i \in DOMAIN toOwner : Offers(toOwner[i]) => toOwner[i].id # cur.id
      BY <1>0, <2>1, <2>3
    <3>2. QED
      BY <2>2, <2>4, <3>1 DEF OneOffer
  <2>7. QED
    BY <1>1, <2>1, <2>5, <2>6 DEF OneOffer, Offers
<1>3. CASE HoldForApproval
  <2>1. /\ UNCHANGED toOwner /\ nextId' = nextId + 1 /\ pc = "holding" /\ pc' = "idle"
        /\ cur.id = nextId
    BY <1>3 DEF HoldForApproval, TakeId, OneOffer
  <2>2. QED
    BY <1>0, <1>1, <2>1 DEF OneOffer, Offers
<1>4. CASE /\ nextId' = nextId
           /\ UNCHANGED toOwner \/ toOwner' = Append(toOwner, SpentNotice(cur))
           /\ \/ pc' \notin {"notifying", "holding"} /\ pc # "holding"
              \/ UNCHANGED <<pc, cur>>
              \/ pc' = "notifying" /\ pc = "idle" /\ cur'.id = nextId
  <2>1. \A i \in DOMAIN toOwner' : Offers(toOwner'[i]) =>
           i \in DOMAIN toOwner /\ toOwner'[i] = toOwner[i]
    BY <1>0, <1>4 DEF Offers, SpentNotice
  <2>2. pc' \in {"notifying", "holding"} => cur'.id = nextId'
    BY <1>4 DEF OneOffer
  <2>3. \A i \in DOMAIN toOwner' : Offers(toOwner'[i]) =>
           toOwner'[i].id < nextId' \/ (pc' = "holding" /\ toOwner'[i].id = cur'.id)
    BY <1>4, <2>1 DEF OneOffer
  <2>4. \A i, j \in DOMAIN toOwner' :
           Offers(toOwner'[i]) /\ Offers(toOwner'[j]) /\ toOwner'[i].id = toOwner'[j].id
              => toOwner'[i].amount = toOwner'[j].amount
    BY <2>1 DEF OneOffer
  <2>5. QED
    BY <1>1, <2>2, <2>3, <2>4 DEF OneOffer, Offers
<1>5. QED
  BY <1>2, <1>3, <1>4, OfferSteps

(* What is executed under an id is what the owner was looking at when it    *)
(* approved that id (src/owner.rs:414), as long as nothing restarts        *)
(* and no answer to a publish is lost: after either, an id may have been     *)
(* announced for one spend and be taken by the next.                         *)
THEOREM ExecutesWhatWasApproved ==
    ASSUME Faults \cap {"publish_ambiguous", "crash", "restart"} = {}
    PROVE  Spec => []ExecutedAsApproved
<1>1. Provenance /\ OneOffer => ExecutedAsApproved
  <2> SUFFICES ASSUME Provenance, OneOffer, NEW i \in Escalated
               PROVE  \E j \in DOMAIN decisions : /\ decisions[j].id = executed[i].id
                                                  /\ decisions[j].amount = executed[i].amount
                                                  /\ decisions[j].verdict = "approve"
    BY DEF ExecutedAsApproved
  <2>1. PICK j \in DOMAIN decisions :
           decisions[j].id = executed[i].id /\ decisions[j].verdict = "approve"
    BY DEF Provenance, ExecutedWasApproved, Decided
  <2>2. PICK m \in DOMAIN toOwner : toOwner[m] = Request(executed[i])
    BY DEF Provenance, ExecutedWasApproved, Announced
  <2>3. PICK n \in DOMAIN toOwner : toOwner[n] = Request(decisions[j])
    BY DEF OneOffer, Announced
  <2>4. decisions[j].amount = executed[i].amount
    BY <2>1, <2>2, <2>3 DEF OneOffer, Offers, Request
  <2>5. QED
    BY <2>1, <2>4
<1>2. TypeOK /\ OneOffer /\ [Next]_vars => OneOffer'
  BY StepOneOffer
<1>3. QED
  BY <1>1, <1>2, InitOneOffer, InitProvenance, StepProvenance, TypeCorrect, PTL DEF Spec

-----------------------------------------------------------------------------
(* Contradicting decisions.  A cumulative topic returns every decision ever  *)
(* taken, the first one about an id before the others; a batch is the rest   *)
(* of the topic as it was, and no held spend has a decision in what was      *)
(* applied of it.                                                            *)

About(m, id) == m.kind \in {"approve", "deny"} /\ m.id = id

FirstOn(i) == /\ toAgent[i].kind \in {"approve", "deny"}
              /\ \A j \in 1 .. i - 1 : ~ About(toAgent[j], toAgent[i].id)

Published ==
    /\ \A i \in DOMAIN toAgent : FirstOn(i) => FirstVerdict(toAgent[i].id, toAgent[i].kind)
    /\ \A d \in DOMAIN decisions :
          \E i \in DOMAIN toAgent : About(toAgent[i], decisions[d].id)

(* Of the topic, the first n messages are applied and the batch comes next.  *)
AppliedUpTo(n) ==
    /\ n + Len(batch) <= Len(toAgent)
    /\ \A i \in DOMAIN batch : batch[i] = toAgent[n + i]
    /\ \A s \in pending : \A i \in 1 .. n : ~ About(toAgent[i], s.id)

FirstFirst ==
    /\ Published
    /\ pc \in {"applying", "executing"} => \E n \in Nat : AppliedUpTo(n)
    /\ pc = "executing" => FirstVerdict(cur.id, "approve")
    /\ \A i \in Escalated : FirstVerdict(executed[i].id, "approve")

LEMMA InitFirstFirst == Init => FirstFirst
BY DEF Init, FirstFirst, Published, Escalated

LEMMA FirstVerdictStable ==
    ASSUME TypeOK, [Next]_vars, NEW id, NEW verdict, FirstVerdict(id, verdict)
    PROVE  FirstVerdict(id, verdict)'
<1>1. decisions \in Seq(Judgement)
  BY DEF TypeOK, HistoryOK
<1>2. /\ DOMAIN decisions \subseteq DOMAIN decisions' /\ DOMAIN decisions \subseteq Nat
      /\ \A i \in DOMAIN decisions : decisions'[i] = decisions[i]
      /\ \A i \in DOMAIN decisions : \A j \in 1 .. i - 1 : j \in DOMAIN decisions
  BY <1>1, DecisionsSteps
<1>3. QED
  BY <1>2 DEF FirstVerdict

(* A decision is published: of its id it is the first decision exactly if it  *)
(* is the first message.                                                      *)
LEMMA DecidePublished ==
    ASSUME TypeOK, Published, [Next]_vars,
           NEW i \in DOMAIN toOwner, NEW verdict \in {"approve", "deny"},
           Decide(toOwner[i], verdict)
    PROVE  Published'
<1>0. decisions \in Seq(Judgement) /\ toAgent \in Seq(OwnerMessage)
  BY DEF TypeOK, TopicsOK, HistoryOK
<1>1. PICK id, amount : id = toOwner[i].id /\ amount = toOwner[i].amount
  OBVIOUS
<1> DEFINE msg == [kind |-> verdict, id |-> id]
           dec == [id |-> id, amount |-> amount, verdict |-> verdict]
<1>2. toAgent' = Append(toAgent, msg) /\ decisions' = Append(decisions, dec)
  BY <1>1 DEF Decide, Publish
<1>3. /\ \A j \in DOMAIN toAgent : j \in DOMAIN toAgent' /\ toAgent'[j] = toAgent[j]
      /\ \A j \in DOMAIN toAgent' : j \in DOMAIN toAgent \/ j = Len(toAgent) + 1
      /\ toAgent'[Len(toAgent) + 1] = msg /\ Len(toAgent) + 1 \in DOMAIN toAgent'
      /\ \A j \in DOMAIN toAgent : j \in 1 .. Len(toAgent)
      /\ \A j \in 1 .. Len(toAgent) : j \in DOMAIN toAgent
      /\ Len(toAgent) \in Nat
  BY <1>0, <1>2
<1>4. /\ \A j \in DOMAIN decisions : j \in DOMAIN decisions' /\ decisions'[j] = decisions[j]
      /\ \A j \in DOMAIN decisions' : j \in DOMAIN decisions \/ j = Len(decisions) + 1
      /\ decisions'[Len(decisions) + 1] = dec /\ Len(decisions) + 1 \in DOMAIN decisions'
      /\ \A j \in 1 .. Len(decisions) : j \in DOMAIN decisions
      /\ Len(decisions) \in Nat
  BY <1>0, <1>2
<1>5. ASSUME NEW j \in DOMAIN toAgent', NEW m, m = toAgent'[j], FirstOn(j)'
      PROVE  FirstVerdict(m.id, m.kind)'
  <2>1. CASE j \in DOMAIN toAgent
    <3>1. toAgent[j] = m /\ FirstOn(j)
      BY <1>3, <1>5, <2>1 DEF FirstOn, About
    <3>2. FirstVerdict(m.id, m.kind)
      BY <2>1, <3>1 DEF Published
    <3>3. QED
      BY <3>2, FirstVerdictStable
  <2>2. CASE j = Len(toAgent) + 1
    <3>1. m.id = id /\ m.kind = verdict
      BY <1>3, <1>5, <2>2
    <3>2. \A k \in DOMAIN toAgent : ~ About(toAgent[k], id)
      <4>1. \A k \in 1 .. j - 1 : ~ About(toAgent'[k], toAgent'[j].id)
        BY <1>5 DEF FirstOn, About
      <4>2. \A k \in DOMAIN toAgent : k \in 1 .. j - 1 /\ toAgent'[k] = toAgent[k]
        BY <1>3, <2>2
      <4>3. QED
        BY <1>5, <3>1, <4>1, <4>2
    <3>3. \A d \in DOMAIN decisions : decisions[d].id # id
      BY <3>2 DEF Published
    <3>4. /\ decisions'[Len(decisions) + 1].id = id
          /\ decisions'[Len(decisions) + 1].verdict = verdict
      BY <1>4
    <3>5. \A k \in 1 .. Len(decisions) + 1 - 1 : decisions'[k].id # id
      BY <1>4, <3>3
    <3>6. QED
      BY <1>4, <3>1, <3>4, <3>5 DEF FirstVerdict
  <2>3. QED
    BY <1>3, <2>1, <2>2
<1>6. ASSUME NEW d \in DOMAIN decisions'
      PROVE  \E j \in DOMAIN toAgent' : About(toAgent'[j], decisions'[d].id)
  <2>1. CASE d \in DOMAIN decisions
    BY <1>3, <1>4, <2>1 DEF Published
  <2>2. CASE d = Len(decisions) + 1
    <3>1. About(msg, dec.id)
      BY DEF About
    <3>2. QED
      BY <1>3, <1>4, <2>2, <3>1
  <2>3. QED
    BY <1>4, <2>1, <2>2
<1>7. QED
  BY <1>5, <1>6 DEF Published, FirstVerdict, About

LEMMA StepPublished ==
    ASSUME TypeOK, Published, [Next]_vars, Backend = "cumulative"
    PROVE  /\ Published'
           /\ Len(toAgent) <= Len(toAgent')
           /\ \A i \in DOMAIN toAgent : toAgent'[i] = toAgent[i]
<1>0. toAgent \in Seq(OwnerMessage)
  BY DEF TypeOK, TopicsOK
<1>1. ASSUME NEW i \in DOMAIN toOwner, NEW verdict \in {"approve", "deny"},
             Decide(toOwner[i], verdict)
      PROVE  Published' /\ \E m : toAgent' = Append(toAgent, m)
  BY <1>1, DecidePublished DEF Decide, Publish
<1>2. ASSUME NEW key \in PolicyKeys, NEW value \in Limits, ConfigurePolicy(key, value)
      PROVE  Published' /\ \E m : toAgent' = Append(toAgent, m)
  <2> DEFINE msg == [kind |-> key, value |-> value]
  <2>1. toAgent' = Append(toAgent, msg) /\ UNCHANGED decisions
    BY <1>2 DEF ConfigurePolicy, Publish
  <2>2. /\ \A j \in DOMAIN toAgent : j \in DOMAIN toAgent' /\ toAgent'[j] = toAgent[j]
        /\ \A j \in DOMAIN toAgent' : j \in DOMAIN toAgent \/ j = Len(toAgent) + 1
        /\ toAgent'[Len(toAgent) + 1] = msg
        /\ \A j \in DOMAIN toAgent : \A k \in 1 .. j - 1 : k \in DOMAIN toAgent
    BY <1>0, <2>1
  <2>3. msg.kind \notin {"approve", "deny"}
    BY DEF PolicyKeys
  <2> HIDE DEF msg
  <2>4. \A j \in DOMAIN toAgent' : FirstOn(j)' =>
           j \in DOMAIN toAgent /\ FirstOn(j) /\ toAgent'[j] = toAgent[j]
    BY <2>2, <2>3 DEF FirstOn, About
  <2>5. \A j \in DOMAIN toAgent' : FirstOn(j)' => FirstVerdict(toAgent'[j].id, toAgent'[j].kind)
    BY <2>4 DEF Published
  <2>6. \A d \in DOMAIN decisions : \E j \in DOMAIN toAgent' : About(toAgent'[j], decisions[d].id)
    BY <2>2 DEF Published
  <2>7. QED
    BY <2>1, <2>5, <2>6 DEF Published, FirstVerdict, About
<1>3. ASSUME UNCHANGED <<toAgent, decisions>>
      PROVE  Published'
  BY <1>3 DEF Published, FirstOn, FirstVerdict, About
<1>4. CASE Poll \/ PollLost
  BY <1>0, <1>3, <1>4 DEF Poll, PollLost, AfterRead, owner
<1>5. CASE UNCHANGED vars \/ Proposing \/ Finishing \/ Restart
  <2>1. UNCHANGED <<toAgent, decisions>>
    BY <1>5
       DEF vars, owner, Proposing, Finishing, ProposeWithinPolicy, ProposeOverPolicy, NotifyOk,
           NotifyFails, HoldForApproval, TransferOk, TransferFails, ApplyApprove, ApplyDeny,
           IgnoreDecision, ApplyConfigure, FinishBatch, Restart
  <2>2. QED
    BY <1>0, <1>3, <2>1
<1>6. ASSUME NEW m, toAgent' = Append(toAgent, m)
      PROVE  /\ Len(toAgent) <= Len(toAgent')
             /\ \A i \in DOMAIN toAgent : toAgent'[i] = toAgent[i]
  <2>1. toAgent \in Seq(OwnerMessage \cup {m})
    BY <1>0
  <2>2. QED
    BY <1>6, <2>1
<1>7. QED
  BY <1>1, <1>2, <1>4, <1>5, <1>6 DEF Next, OwnerActs

(* Reading one message of the batch.                                         *)
LEMMA ApplyProgress ==
    ASSUME TypeOK, NEW n \in Nat, AppliedUpTo(n), NEW kinds, Applying(kinds),
           UNCHANGED toAgent, pending' \subseteq pending,
           \A s \in pending' : ~ About(Head(batch), s.id)
    PROVE  AppliedUpTo(n + 1)'
<1>0. batch \in Seq(OwnerMessage) /\ batch # <<>> /\ batch' = Tail(batch)
      /\ toAgent \in Seq(OwnerMessage)
  BY DEF TypeOK, RuntimeOK, TopicsOK, Applying
<1>1. /\ Len(batch') = Len(batch) - 1 /\ Len(batch) \in Nat
      /\ \A i \in DOMAIN batch' : i \in Nat /\ i + 1 \in DOMAIN batch /\ batch'[i] = batch[i + 1]
      /\ 1 \in DOMAIN batch /\ Head(batch) = batch[1]
  BY <1>0
<1>2. n + 1 + Len(batch') <= Len(toAgent')
  BY <1>0, <1>1 DEF AppliedUpTo
<1>3. \A i \in DOMAIN batch' : batch'[i] = toAgent'[n + 1 + i]
  <2> TAKE i \in DOMAIN batch'
  <2>1. batch'[i] = toAgent[n + (i + 1)]
    BY <1>1 DEF AppliedUpTo
  <2>2. n + (i + 1) = n + 1 + i
    BY <1>1
  <2>3. QED
    BY <2>1, <2>2
<1>4. ASSUME NEW s \in pending', NEW i \in 1 .. n + 1
      PROVE  ~ About(toAgent'[i], s.id)
  <2>1. CASE i = n + 1
    BY <1>1, <2>1 DEF AppliedUpTo
  <2>2. CASE i # n + 1
    <3>1. i \in 1 .. n /\ s \in pending
      BY <2>2
    <3>2. QED
      BY <3>1 DEF AppliedUpTo
  <2>3. QED
    BY <2>1, <2>2
<1>5. QED
  BY <1>2, <1>3, <1>4 DEF AppliedUpTo, About

(* What is approved while its spend is held was approved first.              *)
LEMMA ApprovedFirst ==
    ASSUME TypeOK, Published, NEW n \in Nat, AppliedUpTo(n), ApplyApprove
    PROVE  FirstVerdict(cur'.id, "approve")
<1>0. batch \in Seq(OwnerMessage) /\ toAgent \in Seq(OwnerMessage)
  BY DEF TypeOK, RuntimeOK, TopicsOK
<1>1. /\ cur' \in pending /\ cur'.id = Head(batch).id /\ Head(batch).kind = "approve"
      /\ batch # <<>>
  BY DEF ApplyApprove, Applying, ReleasingVerdicts
<1>2. n + 1 \in DOMAIN toAgent /\ toAgent[n + 1] = Head(batch)
  <2>1. 1 \in DOMAIN batch /\ Head(batch) = batch[1] /\ Len(batch) >= 1 /\ Len(batch) \in Nat
    BY <1>0, <1>1
  <2>2. n + 1 <= Len(toAgent)
    BY <1>0, <2>1 DEF AppliedUpTo
  <2>3. QED
    BY <1>0, <2>1, <2>2 DEF AppliedUpTo
<1>3. \A i \in 1 .. n : ~ About(toAgent[i], cur'.id)
  BY <1>1 DEF AppliedUpTo
<1>4. FirstOn(n + 1)
  BY <1>1, <1>2, <1>3 DEF FirstOn
<1>5. QED
  BY <1>1, <1>2, <1>4 DEF Published

LEMMA StepFirstFirst ==
    ASSUME TypeOK, FirstFirst, [Next]_vars, Backend = "cumulative"
    PROVE  FirstFirst'
<1>0. toAgent \in Seq(OwnerMessage) /\ batch \in Seq(OwnerMessage)
      /\ executed \in Seq(Transfer)
  BY DEF TypeOK, RuntimeOK, TopicsOK, HistoryOK
<1>1. /\ Published' /\ Len(toAgent) <= Len(toAgent')
      /\ \A i \in DOMAIN toAgent : toAgent'[i] = toAgent[i]
  BY StepPublished DEF FirstFirst
<1>2. ASSUME UNCHANGED batch, pending' \subseteq pending, NEW n \in Nat, AppliedUpTo(n)
      PROVE  AppliedUpTo(n)'
  <2>1. /\ Len(batch) \in Nat /\ Len(toAgent) \in Nat /\ Len(toAgent') \in Nat
        /\ DOMAIN toAgent = 1 .. Len(toAgent) /\ DOMAIN batch = 1 .. Len(batch)
    <3>1. toAgent' \in Seq(OwnerMessage)
      BY StepTypeOK DEF TypeOK, TopicsOK
    <3>2. QED
      BY <1>0, <3>1
  <2>2. n + Len(batch') <= Len(toAgent')
    BY <1>1, <1>2, <2>1 DEF AppliedUpTo
  <2>3. \A i \in DOMAIN batch' : batch'[i] = toAgent'[n + i]
    <3> SUFFICES ASSUME NEW i \in DOMAIN batch
                 PROVE  batch[i] = toAgent'[n + i]
      BY <1>2
    <3>1. n + i \in DOMAIN toAgent /\ batch[i] = toAgent[n + i]
      BY <1>2, <2>1 DEF AppliedUpTo
    <3>2. QED
      BY <1>1, <3>1
  <2>4. \A s \in pending' : \A i \in 1 .. n : ~ About(toAgent'[i], s.id)
    <3> SUFFICES ASSUME NEW s \in pending', NEW i \in 1 .. n
                 PROVE  ~ About(toAgent'[i], s.id)
      OBVIOUS
    <3>1. i \in DOMAIN toAgent
      BY <1>2, <2>1 DEF AppliedUpTo
    <3>2. QED
      BY <1>1, <1>2, <3>1 DEF AppliedUpTo
  <2>5. QED
    BY <2>2, <2>3, <2>4 DEF AppliedUpTo, About
<1>3. pc' \in {"applying", "executing"} => (\E n \in Nat : AppliedUpTo(n))'
  <2>1. CASE Poll
    <3>1. batch' = toAgent /\ toAgent' = toAgent
      BY <2>1 DEF Poll, Fetched, AfterRead
    <3>2. AppliedUpTo(0)'
      BY <1>0, <3>1 DEF AppliedUpTo
    <3>3. QED
      BY <3>2
  <2>2. ASSUME ApplyApprove \/ ApplyDeny \/ IgnoreDecision \/ ApplyConfigure
        PROVE  (\E n \in Nat : AppliedUpTo(n))'
    <3>1. /\ \E kinds : Applying(kinds)
          /\ UNCHANGED toAgent /\ pending' \subseteq pending
          /\ \A s \in pending' : ~ About(Head(batch), s.id)
      BY <2>2 DEF ApplyApprove, ApplyDeny, IgnoreDecision, ApplyConfigure, Applying, Without,
                  IsHeld, About, PolicyKeys, memory
    <3>2. PICK n \in Nat : AppliedUpTo(n)
      BY <2>2 DEF FirstFirst, ApplyApprove, ApplyDeny, IgnoreDecision, ApplyConfigure, Applying
    <3>3. AppliedUpTo(n + 1)'
      BY <3>1, <3>2, ApplyProgress
    <3>4. n + 1 \in Nat
      OBVIOUS
    <3>5. QED
      BY <3>3, <3>4
  <2>3. ASSUME pc \in {"applying", "executing"}, UNCHANGED batch, pending' \subseteq pending
        PROVE  (\E n \in Nat : AppliedUpTo(n))'
    BY <1>2, <2>3 DEF FirstFirst
  <2>4. CASE TransferOk
    BY <2>3, <2>4 DEF TransferOk, InTransfer, memory
  <2>5. CASE UNCHANGED vars \/ OwnerActs \/ PollLost
    BY <2>3, <2>5 DEF vars, runtime, memory, OwnerActs, Decide, ConfigurePolicy, Publish, PollLost
  <2>6. CASE \/ Proposing \/ NotifyOk \/ NotifyFails \/ HoldForApproval \/ TransferFails
             \/ FinishBatch \/ Restart
    BY <2>6 DEF Proposing, ProposeWithinPolicy, ProposeOverPolicy, NotifyOk, NotifyFails, GiveUp,
                HoldForApproval, TransferFails, FinishBatch, Restart
  <2>7. QED
    BY <2>1, <2>2, <2>4, <2>5, <2>6 DEF Next, Finishing
<1>4. ASSUME pc' = "executing"
      PROVE  FirstVerdict(cur.id, "approve")'
  <2>1. PICK id : id = cur'.id
    OBVIOUS
  <2>2. FirstVerdict(id, "approve")
    <3>1. CASE ApplyApprove
      <4>1. PICK n \in Nat : AppliedUpTo(n)
        BY <3>1 DEF FirstFirst, ApplyApprove, Applying
      <4>2. QED
        BY <2>1, <3>1, <4>1, ApprovedFirst DEF FirstFirst
    <3>2. CASE UNCHANGED <<pc, cur>>
      BY <1>4, <2>1, <3>2 DEF FirstFirst
    <3>3. QED
      BY <1>4, <3>1, <3>2, PhaseSteps DEF NotifyOk
  <2>3. FirstVerdict(id, "approve")'
    BY <2>2, FirstVerdictStable
  <2>4. QED
    BY <2>1, <2>3 DEF FirstVerdict
<1>5. (\A i \in Escalated : FirstVerdict(executed[i].id, "approve"))'
  <2> SUFFICES ASSUME NEW i \in DOMAIN executed', NEW e, e = executed'[i], e.id # NoId
               PROVE  FirstVerdict(e.id, "approve")'
    BY DEF Escalated, FirstVerdict
  <2>1. FirstVerdict(e.id, "approve")
    <3>1. CASE i \in DOMAIN executed /\ e = executed[i]
      BY <3>1 DEF FirstFirst, Escalated
    <3>2. CASE InTransfer /\ e = OnChain(cur)
      BY <3>2 DEF InTransfer, OnChain, TypeOK, RuntimeOK, FirstFirst
    <3>3. QED
      BY <1>0, <3>1, <3>2, ExecutedSteps
  <2>2. QED
    BY <2>1, FirstVerdictStable
<1>6. QED
  BY <1>1, <1>3, <1>4, <1>5 DEF FirstFirst

(* Among contradicting decisions about an id the first published one wins,  *)
(* on a backend that keeps its messages: a spend denied first is never       *)
(* executed by a later approval, whatever fails (src/owner.rs:414).          *)
THEOREM FirstDecisionDecides ==
    ASSUME Backend = "cumulative"
    PROVE  Spec => []FirstDecisionWins
<1>1. FirstFirst => FirstDecisionWins
  BY DEF FirstFirst, FirstDecisionWins, FirstVerdict
<1>2. TypeOK /\ FirstFirst /\ [Next]_vars => FirstFirst'
  BY StepFirstFirst
<1>3. QED
  BY <1>1, <1>2, InitFirstFirst, TypeCorrect, PTL DEF Spec

-----------------------------------------------------------------------------
(* An approval is spent by the poll that reads it.  On a backend that evicts  *)
(* what it served, the transfers made under an id, the one under way and the  *)
(* approvals still to be read are together no more than the owner gave.       *)

Matches(q, id) == {i \in DOMAIN q : q[i].kind = "approve" /\ q[i].id = id}
Approvals(id) == {i \in DOMAIN decisions : decisions[i].id = id /\ decisions[i].verdict = "approve"}
Transfers(id) == {i \in DOMAIN executed : executed[i].id = id}
UnderWay(id) == IF pc = "executing" /\ cur.id = id THEN 1 ELSE 0

Spent(id) == Cardinality(Transfers(id)) + UnderWay(id)
Unspent(id) == Cardinality(Matches(batch, id)) + Cardinality(Matches(toAgent, id))

Covered == \A id \in Nat : Spent(id) + Unspent(id) <= Cardinality(Approvals(id))

(* The indexes of a sequence that satisfy a condition, when it grows at its   *)
(* end or loses its head.                                                     *)
LEMMA IndexesFinite ==
    ASSUME NEW S, NEW q \in Seq(S), NEW T \in SUBSET (DOMAIN q)
    PROVE  IsFiniteSet(T) /\ Cardinality(T) \in Nat
<1>1. DOMAIN q = 1 .. Len(q) /\ Len(q) \in Nat
  OBVIOUS
<1>2. IsFiniteSet(1 .. Len(q))
  BY <1>1, FS_Interval
<1>3. QED
  BY <1>1, <1>2, FS_Subset, FS_CardinalityType

LEMMA MatchesAppend ==
    ASSUME NEW q \in Seq(OwnerMessage), NEW m \in OwnerMessage, NEW id
    PROVE  Cardinality(Matches(Append(q, m), id)) =
              Cardinality(Matches(q, id)) + (IF m.kind = "approve" /\ m.id = id THEN 1 ELSE 0)
<1>1. Matches(Append(q, m), id) =
         IF m.kind = "approve" /\ m.id = id THEN Matches(q, id) \cup {Len(q) + 1}
                                            ELSE Matches(q, id)
  <2>1. /\ DOMAIN Append(q, m) = DOMAIN q \cup {Len(q) + 1}
        /\ \A i \in DOMAIN q : Append(q, m)[i] = q[i]
        /\ Append(q, m)[Len(q) + 1] = m
        /\ Len(q) + 1 \notin DOMAIN q
    OBVIOUS
  <2>2. QED
    BY <2>1 DEF Matches
<1>2. Matches(q, id) \in SUBSET (DOMAIN q) /\ Len(q) + 1 \notin Matches(q, id)
  BY DEF Matches
<1>3. IsFiniteSet(Matches(q, id)) /\ Cardinality(Matches(q, id)) \in Nat
  BY <1>2, IndexesFinite
<1>4. Cardinality(Matches(q, id) \cup {Len(q) + 1}) = Cardinality(Matches(q, id)) + 1
  BY <1>2, <1>3, FS_AddElement
<1>5. QED
  BY <1>1, <1>3, <1>4

LEMMA MatchesTail ==
    ASSUME NEW q \in Seq(OwnerMessage), q # <<>>, NEW id
    PROVE  Cardinality(Matches(q, id)) =
              Cardinality(Matches(Tail(q), id))
                 + (IF Head(q).kind = "approve" /\ Head(q).id = id THEN 1 ELSE 0)
<1> DEFINE Rest == {i \in Matches(q, id) : i # 1}
           Later == Matches(Tail(q), id)
           shift == [i \in Later |-> i + 1]
<1>1. /\ Tail(q) \in Seq(OwnerMessage) /\ 1 \in DOMAIN q /\ Head(q) = q[1]
      /\ \A i \in DOMAIN Tail(q) : i \in Nat /\ i >= 1 /\ i + 1 \in DOMAIN q
                                   /\ Tail(q)[i] = q[i + 1]
      /\ \A i \in DOMAIN q : i # 1 => i \in Nat /\ i - 1 \in DOMAIN Tail(q)
                                      /\ Tail(q)[i - 1] = q[i]
  OBVIOUS
<1>2. shift \in Bijection(Later, Rest)
  <2>1. shift \in [Later -> Rest]
    BY <1>1 DEF Matches
  <2>2. \A i, j \in Later : shift[i] = shift[j] => i = j
    BY <1>1 DEF Matches
  <2>3. \A k \in Rest : \E i \in Later : shift[i] = k
    <3> SUFFICES ASSUME NEW k \in Rest
                 PROVE  \E i \in Later : shift[i] = k
      OBVIOUS
    <3>1. k - 1 \in Later /\ k \in Nat
      BY <1>1 DEF Matches
    <3>2. shift[k - 1] = k
      BY <3>1
    <3>3. QED
      BY <3>1, <3>2
  <2> HIDE DEF shift, Rest, Later
  <2>4. QED
    BY <2>1, <2>2, <2>3 DEF Bijection, Injection, Surjection, IsInjective
<1>3. Later \in SUBSET (DOMAIN Tail(q)) /\ Rest \in SUBSET (DOMAIN q)
  BY DEF Matches
<1>4. IsFiniteSet(Later) /\ IsFiniteSet(Rest) /\ Cardinality(Rest) \in Nat
  BY <1>1, <1>3, IndexesFinite
<1>5. Cardinality(Rest) = Cardinality(Later)
  BY <1>2, <1>4, FS_Bijection DEF ExistsBijection
<1>6. Matches(q, id) = IF Head(q).kind = "approve" /\ Head(q).id = id THEN Rest \cup {1} ELSE Rest
  BY <1>1 DEF Matches
<1>7. 1 \notin Rest
  OBVIOUS
<1> HIDE DEF Rest, Later
<1>8. Cardinality(Rest \cup {1}) = Cardinality(Rest) + 1
  BY <1>4, <1>7, FS_AddElement
<1>9. QED
  BY <1>4, <1>5, <1>6, <1>8 DEF Later

LEMMA IndexesGrow ==
    ASSUME NEW S, NEW q \in Seq(S), NEW T \in SUBSET (DOMAIN q)
    PROVE  Cardinality(T \cup {Len(q) + 1}) = Cardinality(T) + 1
<1>1. Len(q) + 1 \notin T
  OBVIOUS
<1>2. IsFiniteSet(T)
  BY IndexesFinite
<1>3. QED
  BY <1>1, <1>2, FS_AddElement

LEMMA ApprovalsAppend ==
    ASSUME NEW d \in Judgement, decisions \in Seq(Judgement), decisions' = Append(decisions, d),
           NEW id
    PROVE  Cardinality(Approvals(id)') =
              Cardinality(Approvals(id)) + (IF d.verdict = "approve" /\ d.id = id THEN 1 ELSE 0)
<1>1. Approvals(id)' =
         IF d.verdict = "approve" /\ d.id = id THEN Approvals(id) \cup {Len(decisions) + 1}
                                               ELSE Approvals(id)
  <2>1. /\ DOMAIN decisions' = DOMAIN decisions \cup {Len(decisions) + 1}
        /\ \A i \in DOMAIN decisions : decisions'[i] = decisions[i]
        /\ decisions'[Len(decisions) + 1] = d
        /\ Len(decisions) + 1 \notin DOMAIN decisions
    OBVIOUS
  <2>2. QED
    BY <2>1 DEF Approvals
<1>2. Approvals(id) \in SUBSET (DOMAIN decisions)
  BY DEF Approvals
<1>3. Cardinality(Approvals(id)) \in Nat
  BY <1>2, IndexesFinite
<1>4. Cardinality(Approvals(id) \cup {Len(decisions) + 1}) = Cardinality(Approvals(id)) + 1
  BY <1>2, IndexesGrow
<1>5. QED
  BY <1>1, <1>3, <1>4

LEMMA TransfersAppend ==
    ASSUME NEW e \in Transfer, executed \in Seq(Transfer), executed' = Append(executed, e),
           NEW id
    PROVE  Cardinality(Transfers(id)') =
              Cardinality(Transfers(id)) + (IF e.id = id THEN 1 ELSE 0)
<1>1. Transfers(id)' =
         IF e.id = id THEN Transfers(id) \cup {Len(executed) + 1} ELSE Transfers(id)
  <2>1. /\ DOMAIN executed' = DOMAIN executed \cup {Len(executed) + 1}
        /\ \A i \in DOMAIN executed : executed'[i] = executed[i]
        /\ executed'[Len(executed) + 1] = e
        /\ Len(executed) + 1 \notin DOMAIN executed
    OBVIOUS
  <2>2. QED
    BY <2>1 DEF Transfers
<1>2. Transfers(id) \in SUBSET (DOMAIN executed)
  BY DEF Transfers
<1>3. Cardinality(Transfers(id)) \in Nat
  BY <1>2, IndexesFinite
<1>4. Cardinality(Transfers(id) \cup {Len(executed) + 1}) = Cardinality(Transfers(id)) + 1
  BY <1>2, IndexesGrow
<1>5. QED
  BY <1>1, <1>3, <1>4

LEMMA NoMatches == \A id : Cardinality(Matches(<<>>, id)) = 0
<1> SUFFICES ASSUME NEW id PROVE Cardinality(Matches(<<>>, id)) = 0
  OBVIOUS
<1>1. Matches(<<>>, id) = {}
  BY DEF Matches
<1>2. QED
  BY <1>1, FS_EmptySet

LEMMA CountsAreNumbers ==
    ASSUME TypeOK, NEW id
    PROVE  /\ Cardinality(Transfers(id)) \in Nat /\ Cardinality(Approvals(id)) \in Nat
           /\ Cardinality(Matches(batch, id)) \in Nat /\ Cardinality(Matches(toAgent, id)) \in Nat
           /\ UnderWay(id) \in {0, 1}
<1>1. /\ batch \in Seq(OwnerMessage) /\ toAgent \in Seq(OwnerMessage)
      /\ executed \in Seq(Transfer) /\ decisions \in Seq(Judgement)
  BY DEF TypeOK, RuntimeOK, TopicsOK, HistoryOK
<1>2. /\ Transfers(id) \in SUBSET (DOMAIN executed)
      /\ Approvals(id) \in SUBSET (DOMAIN decisions)
      /\ Matches(batch, id) \in SUBSET (DOMAIN batch)
      /\ Matches(toAgent, id) \in SUBSET (DOMAIN toAgent)
  BY DEF Transfers, Approvals, Matches
<1>3. UnderWay(id) \in {0, 1}
  BY DEF UnderWay
<1>4. QED
  BY <1>1, <1>2, <1>3, IndexesFinite

LEMMA CountsStayNumbers ==
    TypeOK' => (\A id \in Nat : Spent(id) \in Nat /\ Unspent(id) \in Nat)'
<1>1. TypeOK => \A id \in Nat : Spent(id) \in Nat /\ Unspent(id) \in Nat
  BY CountsAreNumbers DEF Spent, Unspent
<1>2. QED
  BY <1>1, PTL

LEMMA InitCovered == Init => Covered
<1> SUFFICES ASSUME Init, NEW id \in Nat
             PROVE  Spent(id) + Unspent(id) <= Cardinality(Approvals(id))
  BY DEF Covered
<1>1. Transfers(id) = {} /\ Approvals(id) = {} /\ UnderWay(id) = 0
  BY DEF Init, Transfers, Approvals, UnderWay
<1>2. Cardinality(Matches(batch, id)) = 0 /\ Cardinality(Matches(toAgent, id)) = 0
  BY NoMatches DEF Init
<1>3. QED
  BY <1>1, <1>2, FS_EmptySet DEF Spent, Unspent

(* The transfer under way is what reaches the chain: what is spent under an   *)
(* id stays the same, or drops when the transfer did not go through.          *)
LEMMA ChainCovered ==
    ASSUME TypeOK, NEW id \in Nat, pc' # "executing",
           \/ UNCHANGED executed
           \/ InTransfer /\ executed' = Append(executed, OnChain(cur))
    PROVE  Spent(id)' <= Spent(id)
<1>1. UnderWay(id)' = 0
  BY DEF UnderWay
<1>2. CASE UNCHANGED executed
  <2>1. Transfers(id)' = Transfers(id)
    BY <1>2 DEF Transfers
  <2>2. QED
    BY <1>1, <2>1, CountsAreNumbers DEF Spent
<1>3. CASE InTransfer /\ executed' = Append(executed, OnChain(cur))
  <2>1. OnChain(cur) \in Transfer /\ executed \in Seq(Transfer)
    BY <1>3, OnChainType DEF TypeOK, HistoryOK
  <2>2. OnChain(cur).id = id => UnderWay(id) = 1
    BY <1>3, ConstantsAssumption
       DEF InTransfer, OnChain, UnderWay, TypeOK, RuntimeOK
  <2>3. Cardinality(Transfers(id)') =
           Cardinality(Transfers(id)) + (IF OnChain(cur).id = id THEN 1 ELSE 0)
    BY <1>3, <2>1, TransfersAppend
  <2>4. QED
    BY <1>1, <2>2, <2>3, CountsAreNumbers DEF Spent
<1>4. QED
  BY <1>2, <1>3

(* A step that leaves the transfers and the handler alone spends nothing.     *)
LEMMA SpentStays ==
    ASSUME NEW id, UNCHANGED executed,
           UNCHANGED <<pc, cur>> \/ (pc # "executing" /\ pc' # "executing")
    PROVE  Spent(id)' = Spent(id)
BY DEF Spent, Transfers, UnderWay

LEMMA ApplyCovered ==
    ASSUME TypeOK, NEW id \in Nat,
           ApplyApprove \/ ApplyDeny \/ IgnoreDecision \/ ApplyConfigure
    PROVE  Spent(id)' + Unspent(id)' <= Spent(id) + Unspent(id)
<1>1. /\ batch \in Seq(OwnerMessage) /\ batch # <<>> /\ batch' = Tail(batch)
      /\ UNCHANGED <<toAgent, executed>> /\ pc = "applying"
  BY DEF ApplyApprove, ApplyDeny, IgnoreDecision, ApplyConfigure, Applying, TypeOK, RuntimeOK
<1>2. Cardinality(Matches(batch, id)) =
         Cardinality(Matches(batch', id))
            + (IF Head(batch).kind = "approve" /\ Head(batch).id = id THEN 1 ELSE 0)
  BY <1>1, MatchesTail
<1>3. Cardinality(Matches(batch', id)) \in Nat
  <2>1. Tail(batch) \in Seq(OwnerMessage)
    BY <1>1
  <2>2. Matches(batch', id) \in SUBSET (DOMAIN batch')
    BY DEF Matches
  <2>3. QED
    BY <1>1, <2>1, <2>2, IndexesFinite
<1>4. UnderWay(id) = 0 /\ Transfers(id)' = Transfers(id)
  BY <1>1 DEF UnderWay, Transfers
<1>5. UnderWay(id)' = 1 => Head(batch).kind = "approve" /\ Head(batch).id = id
  BY <1>1 DEF UnderWay, ApplyApprove, ApplyDeny, IgnoreDecision, ApplyConfigure, Applying,
              ReleasingVerdicts
<1>6. UnderWay(id)' \in {0, 1}
  BY DEF UnderWay
<1>7. Matches(toAgent, id)' = Matches(toAgent, id) /\ Matches(batch, id)' = Matches(batch', id)
  BY <1>1 DEF Matches
<1>8. QED
  BY <1>2, <1>3, <1>4, <1>5, <1>6, <1>7, CountsAreNumbers DEF Spent, Unspent

LEMMA PublishCovered ==
    ASSUME TypeOK, Covered, NEW id \in Nat, NEW m \in OwnerMessage, Publish(m),
           Cardinality(Approvals(id)') =
              Cardinality(Approvals(id)) + (IF m.kind = "approve" /\ m.id = id THEN 1 ELSE 0)
    PROVE  Spent(id)' + Unspent(id)' <= Cardinality(Approvals(id)')
<1>1. /\ toAgent \in Seq(OwnerMessage) /\ toAgent' = Append(toAgent, m)
      /\ UNCHANGED <<executed, pc, cur, batch>>
  BY DEF TypeOK, TopicsOK, Publish, runtime
<1>2. Cardinality(Matches(toAgent', id)) =
         Cardinality(Matches(toAgent, id)) + (IF m.kind = "approve" /\ m.id = id THEN 1 ELSE 0)
  BY <1>1, MatchesAppend
<1>3. Spent(id)' = Spent(id)
  BY <1>1, SpentStays
<1>4. Matches(batch, id)' = Matches(batch, id) /\ Matches(toAgent, id)' = Matches(toAgent', id)
  BY <1>1 DEF Matches
<1>5. Spent(id) + Unspent(id) <= Cardinality(Approvals(id))
  BY DEF Covered
<1>6. QED
  BY <1>2, <1>3, <1>4, <1>5, CountsAreNumbers DEF Spent, Unspent

LEMMA StepCovered ==
    ASSUME TypeOK, Covered, [Next]_vars, Backend = "evicting"
    PROVE  Covered'
<1> SUFFICES ASSUME NEW id \in Nat
             PROVE  Spent(id)' + Unspent(id)' <= Cardinality(Approvals(id)')
  BY DEF Covered, Approvals, Spent, Unspent, Transfers, UnderWay, Matches
<1>0. /\ Spent(id) + Unspent(id) <= Cardinality(Approvals(id))
      /\ Spent(id) \in Nat /\ Unspent(id) \in Nat
  BY CountsAreNumbers DEF Covered, Spent, Unspent
<1>1. ASSUME UNCHANGED decisions, Spent(id)' <= Spent(id), Unspent(id)' <= Unspent(id)
      PROVE  Spent(id)' + Unspent(id)' <= Cardinality(Approvals(id)')
  <2>1. Spent(id)' \in Nat /\ Unspent(id)' \in Nat
    BY StepTypeOK, CountsStayNumbers
  <2>2. Approvals(id)' = Approvals(id)
    BY <1>1 DEF Approvals
  <2>3. Cardinality(Approvals(id)) \in Nat
    BY CountsAreNumbers
  <2>4. QED
    BY <1>0, <1>1, <2>1, <2>2, <2>3
<1>2. CASE ApplyApprove \/ ApplyDeny \/ IgnoreDecision \/ ApplyConfigure
  <2>1. Approvals(id)' = Approvals(id)
    BY <1>2 DEF ApplyApprove, ApplyDeny, IgnoreDecision, ApplyConfigure, owner, Approvals
  <2>2. Spent(id)' + Unspent(id)' <= Spent(id) + Unspent(id)
    BY <1>2, ApplyCovered
  <2>3. Spent(id)' \in Nat /\ Unspent(id)' \in Nat
    BY StepTypeOK, CountsStayNumbers
  <2>4. Cardinality(Approvals(id)) \in Nat
    BY CountsAreNumbers
  <2>5. QED
    BY <1>0, <2>1, <2>2, <2>3, <2>4
<1>3. ASSUME NEW i \in DOMAIN toOwner, NEW verdict \in {"approve", "deny"},
             Decide(toOwner[i], verdict)
      PROVE  Spent(id)' + Unspent(id)' <= Cardinality(Approvals(id)')
  <2> DEFINE m == [kind |-> verdict, id |-> toOwner[i].id]
             d == [id |-> toOwner[i].id, amount |-> toOwner[i].amount, verdict |-> verdict]
  <2>1. toOwner[i].id \in Nat /\ toOwner[i].amount \in Amounts
    BY <1>3 DEF TypeOK, TopicsOK, Decide, AgentMessage
  <2>2. m \in OwnerMessage /\ d \in Judgement
    BY <2>1 DEF OwnerMessage, Decision, Judgement
  <2>3. /\ Publish(m) /\ decisions' = Append(decisions, d) /\ decisions \in Seq(Judgement)
        /\ m.kind = d.verdict /\ m.id = d.id
    BY <1>3 DEF Decide, TypeOK, HistoryOK
  <2> HIDE DEF m, d
  <2>4. Cardinality(Approvals(id)') =
           Cardinality(Approvals(id)) + (IF d.verdict = "approve" /\ d.id = id THEN 1 ELSE 0)
    BY <2>2, <2>3, ApprovalsAppend
  <2>5. QED
    BY <2>2, <2>3, <2>4, PublishCovered
<1>4. ASSUME NEW key \in PolicyKeys, NEW value \in Limits, ConfigurePolicy(key, value)
      PROVE  Spent(id)' + Unspent(id)' <= Cardinality(Approvals(id)')
  <2> DEFINE m == [kind |-> key, value |-> value]
  <2>1. m \in OwnerMessage /\ Publish(m) /\ m.kind # "approve"
    BY <1>4 DEF ConfigurePolicy, OwnerMessage, Configure, PolicyKeys
  <2>2. Approvals(id)' = Approvals(id)
    BY <1>4 DEF ConfigurePolicy, Approvals
  <2> HIDE DEF m
  <2>3. Cardinality(Approvals(id)') =
           Cardinality(Approvals(id)) + (IF m.kind = "approve" /\ m.id = id THEN 1 ELSE 0)
    BY <2>1, <2>2, CountsAreNumbers
  <2>4. QED
    BY <2>1, <2>3, PublishCovered
<1>5. CASE Poll \/ PollLost
  <2>1. /\ UNCHANGED <<decisions, executed>> /\ toAgent' = <<>>
        /\ pc # "executing" /\ pc' # "executing"
        /\ batch' = toAgent \/ UNCHANGED batch
    BY <1>5 DEF Poll, PollLost, Fetched, AfterRead, owner, runtime
  <2>2. Unspent(id)' <= Unspent(id)
    <3>1. Cardinality(Matches(toAgent', id)) = 0
      BY <2>1, NoMatches
    <3>2. \/ Matches(batch', id) = Matches(toAgent, id)
          \/ Matches(batch', id) = Matches(batch, id)
      BY <2>1
    <3>3. /\ Matches(batch, id)' = Matches(batch', id)
          /\ Matches(toAgent, id)' = Matches(toAgent', id)
      BY DEF Matches
    <3>4. QED
      BY <3>1, <3>2, <3>3, CountsAreNumbers DEF Unspent
  <2>3. Spent(id)' = Spent(id)
    BY <2>1, SpentStays
  <2>4. QED
    BY <1>0, <1>1, <2>1, <2>2, <2>3
<1>6. CASE TransferOk \/ TransferFails \/ Restart
  <2>1. /\ UNCHANGED <<decisions, toAgent>> /\ pc' # "executing"
        /\ batch' = <<>> \/ UNCHANGED batch
        /\ \/ UNCHANGED executed
           \/ InTransfer /\ executed' = Append(executed, OnChain(cur))
    BY <1>6 DEF TransferOk, TransferFails, Restart, owner
  <2>2. Unspent(id)' <= Unspent(id)
    <3>1. Cardinality(Matches(<<>>, id)) = 0
      BY NoMatches
    <3>2. Matches(batch', id) = Matches(<<>>, id) \/ Matches(batch', id) = Matches(batch, id)
      BY <2>1
    <3>3. /\ Matches(batch, id)' = Matches(batch', id)
          /\ Matches(toAgent, id)' = Matches(toAgent, id)
      BY <2>1 DEF Matches
    <3>4. QED
      BY <3>1, <3>2, <3>3, CountsAreNumbers DEF Unspent
  <2>3. Spent(id)' <= Spent(id)
    BY <2>1, ChainCovered
  <2>4. QED
    BY <1>1, <2>1, <2>2, <2>3
<1>7. CASE UNCHANGED vars \/ Proposing \/ NotifyOk \/ NotifyFails \/ HoldForApproval \/ FinishBatch
  <2>1. /\ UNCHANGED <<decisions, toAgent, batch, executed>>
        /\ UNCHANGED <<pc, cur>> \/ (pc # "executing" /\ pc' # "executing")
    BY <1>7 DEF vars, runtime, owner, Proposing, ProposeWithinPolicy, ProposeOverPolicy, Propose,
                NotifyOk, NotifyFails, GiveUp, HoldForApproval, FinishBatch
  <2>2. Unspent(id)' = Unspent(id)
    BY <2>1 DEF Unspent, Matches
  <2>3. Spent(id)' = Spent(id)
    BY <2>1, SpentStays
  <2>4. QED
    BY <1>0, <1>1, <2>1, <2>2, <2>3
<1>8. QED
  BY <1>2, <1>3, <1>4, <1>5, <1>6, <1>7 DEF Next, Finishing, OwnerActs

(* A request id reaches the chain no more often than the owner approved it,  *)
(* across crashes, restarts and refused transfers, on a backend that evicts   *)
(* what it served (src/owner.rs:414, the nwaku store).                        *)
THEOREM ExecutesWithinApprovals ==
    ASSUME Backend = "evicting"
    PROVE  Spec => []ExecutionsWithinApprovals
<1>1. TypeOK /\ Covered => ExecutionsWithinApprovals
  <2> SUFFICES ASSUME TypeOK, Covered, NEW i \in Escalated
               PROVE  Cardinality({j \in Escalated : executed[j].id = executed[i].id})
                         <= Cardinality({j \in DOMAIN decisions :
                                            /\ decisions[j].id = executed[i].id
                                            /\ decisions[j].verdict = "approve"})
    BY DEF ExecutionsWithinApprovals
  <2>1. PICK id : id = executed[i].id
    OBVIOUS
  <2>2. id \in Nat
    <3>1. executed[i] \in Transfer /\ executed[i].id # NoId
      BY DEF Escalated, TypeOK, HistoryOK
    <3>2. QED
      BY <2>1, <3>1 DEF Transfer
  <2>3. {j \in Escalated : executed[j].id = id} = Transfers(id)
    BY <2>2, ConstantsAssumption DEF Escalated, Transfers
  <2>4. Cardinality(Transfers(id)) <= Cardinality(Approvals(id))
    BY <2>2, CountsAreNumbers DEF Covered, Spent, Unspent
  <2>5. QED
    <3>1. Approvals(id) = {j \in DOMAIN decisions :
                              decisions[j].id = id /\ decisions[j].verdict = "approve"}
      BY DEF Approvals
    <3>2. QED
      BY <2>1, <2>3, <2>4, <3>1
<1>2. TypeOK /\ Covered /\ [Next]_vars => Covered'
  BY StepCovered
<1>3. QED
  BY <1>1, <1>2, InitCovered, TypeCorrect, PTL DEF Spec

=============================================================================
