----------------------- MODULE OwnerApproval_proofs -----------------------
(***************************************************************************)
(* Proofs about OwnerApproval, for every value of its constants: any       *)
(* backend, any kinds and number of faults, any number of spends and of    *)
(* owner messages.                                                         *)
(***************************************************************************)
EXTENDS OwnerApproval, TLAPS

(* A call to the wallet or to the node fails at the cost of one fault. *)
LEMMA FaultBudget ==
    ASSUME BudgetOK, NEW kind, Fault(kind)
    PROVE  BudgetOK'
BY DEF BudgetOK, Fault

(* The runtime between two calls. *)
LEMMA AtRestType ==
    ASSUME pc = "idle", cur = Idle, tries = 0, batch = <<>>, resolved = FALSE
    PROVE  RuntimeOK
<1>1. cur \in [id : Nat \cup {NoId}, amount : Nat]
  BY DEF Idle
<1>2. tries \in 0 .. NOTIFY_ATTEMPTS - 1
  BY ConstantsAssumption DEF ConstantsAssumption
<1>3. batch \in Seq(OwnerMessage)
  OBVIOUS
<1>4. resolved \in BOOLEAN
  OBVIOUS
<1>5. QED
  BY ONLY pc = "idle", <1>1, <1>2, <1>3, <1>4 DEF RuntimeOK

(* What is published about the spend of the current call is well formed. *)
LEMMA RequestType ==
    ASSUME RuntimeOK, pc = "notifying"
    PROVE  Request(cur) \in AgentMessage
BY DEF RuntimeOK, Request, AgentMessage, Held

LEMMA NoticeType ==
    ASSUME RuntimeOK, InTransfer
    PROVE  SpentNotice(cur) \in AgentMessage
BY DEF RuntimeOK, InTransfer, SpentNotice, AgentMessage, Held

(* A transfer the runtime awaits is a record of the history's type. *)
LEMMA OnChainType ==
    ASSUME TypeOK, InTransfer
    PROVE  OnChain(cur) \in Transfer
BY DEF TypeOK, RuntimeOK, HistoryOK, InTransfer, OnChain, Transfer, Held

(* Every message of the batch is one the owner may publish. *)
LEMMA HeadType ==
    ASSUME RuntimeOK, NEW kinds, Applying(kinds)
    PROVE  /\ Head(batch) \in OwnerMessage
           /\ batch' \in Seq(OwnerMessage)
BY DEF RuntimeOK, Applying

LEMMA InitTypeOK == Init => TypeOK
<1> SUFFICES ASSUME Init PROVE TypeOK
  OBVIOUS
<1> USE ConstantsAssumption DEF ConstantsAssumption, Init
<1>1. RuntimeOK
  BY AtRestType
<1>2. StateOK
  BY DEF StateOK
<1>3. TopicsOK
  BY DEF TopicsOK
<1>4. HistoryOK
  BY DEF HistoryOK
<1>5. BudgetOK
  BY DEF BudgetOK
<1>6. QED
  BY <1>1, <1>2, <1>3, <1>4, <1>5 DEF TypeOK

LEMMA StepTypeOK == TypeOK /\ [Next]_vars => TypeOK'
<1> SUFFICES ASSUME TypeOK, [Next]_vars
             PROVE  TypeOK'
  OBVIOUS
<1>0. RuntimeOK /\ StateOK /\ TopicsOK /\ HistoryOK /\ BudgetOK
  BY DEF TypeOK
<1> USE DEF runtime, memory, owner
<1>1. ASSUME NEW amount \in Amounts, ProposeWithinPolicy(amount)
      PROVE  TypeOK'
  <2>1. RuntimeOK'
    BY <1>0, <1>1, ConstantsAssumption
       DEF RuntimeOK, ProposeWithinPolicy, ConstantsAssumption
  <2>2. BudgetOK'
    BY <1>0, <1>1 DEF BudgetOK, ProposeWithinPolicy, Propose
  <2>3. QED
    BY <1>0, <1>1, <2>1, <2>2
       DEF TypeOK, StateOK, TopicsOK, HistoryOK, ProposeWithinPolicy
<1>2. ASSUME NEW amount \in Amounts, ProposeOverPolicy(amount)
      PROVE  TypeOK'
  <2>1. RuntimeOK'
    BY <1>0, <1>2, ConstantsAssumption
       DEF RuntimeOK, StateOK, ProposeOverPolicy, Held, ConstantsAssumption
  <2>2. BudgetOK'
    BY <1>0, <1>2 DEF BudgetOK, ProposeOverPolicy, Propose
  <2>3. QED
    BY <1>0, <1>2, <2>1, <2>2
       DEF TypeOK, StateOK, TopicsOK, HistoryOK, ProposeOverPolicy
<1>3. CASE NotifyOk
  <2>1. TopicsOK'
    BY <1>0, <1>3, RequestType DEF TopicsOK, NotifyOk
  <2>2. QED
    BY <1>0, <1>3, <2>1 DEF TypeOK, RuntimeOK, StateOK, HistoryOK, BudgetOK, NotifyOk
<1>4. CASE NotifyFails
  <2>1. RuntimeOK'
    BY <1>0, <1>4, ConstantsAssumption
       DEF RuntimeOK, NotifyFails, GiveUp, LastAttempt, Idle, ConstantsAssumption
  <2>2. TopicsOK'
    BY <1>0, <1>4, RequestType DEF TopicsOK, NotifyFails
  <2>3. BudgetOK'
    BY <1>0, <1>4, FaultBudget DEF NotifyFails
  <2>4. QED
    BY <1>0, <1>4, <2>1, <2>2, <2>3 DEF TypeOK, StateOK, HistoryOK, NotifyFails
<1>5. CASE HoldForApproval
  <2>1. RuntimeOK'
    BY <1>0, <1>5, ConstantsAssumption
       DEF RuntimeOK, HoldForApproval, Idle, ConstantsAssumption
  <2>2. pending' \subseteq Held /\ nextId' \in Nat
    BY <1>0, <1>5 DEF RuntimeOK, StateOK, HoldForApproval, TakeId, Without
  <2>3. StateOK' /\ BudgetOK'
    <3>1. CASE NoFault /\ disk' = Memory'
      BY <1>0, <1>5, <2>2, <3>1
         DEF StateOK, BudgetOK, NoFault, Memory, HoldForApproval
    <3>2. CASE Fault("persist_error") /\ UNCHANGED disk
      BY <1>0, <1>5, <2>2, <3>2, FaultBudget DEF StateOK, HoldForApproval
    <3>3. QED
      BY <1>5, <3>1, <3>2 DEF HoldForApproval, Persist
  <2>4. QED
    BY <1>0, <1>5, <2>1, <2>3 DEF TypeOK, TopicsOK, HistoryOK, HoldForApproval
<1>6. CASE TransferOk
  <2>1. RuntimeOK'
    <3>1. /\ pc' \in {"idle", "applying"} /\ cur' = Idle /\ UNCHANGED <<tries, batch>>
          /\ resolved' = TRUE \/ resolved' = resolved
      BY <1>6 DEF TransferOk
    <3>2. Idle \in [id : Nat \cup {NoId}, amount : Nat]
      BY DEF Idle
    <3>3. /\ tries' \in 0 .. NOTIFY_ATTEMPTS - 1 /\ batch' \in Seq(OwnerMessage)
          /\ resolved' \in BOOLEAN
      BY <1>0, <3>1 DEF RuntimeOK
    <3>4. pc' \in {"idle", "applying"} /\ cur' \in [id : Nat \cup {NoId}, amount : Nat]
      BY <3>1, <3>2
    <3>5. QED
      BY ONLY <3>3, <3>4 DEF RuntimeOK
  <2>2. TopicsOK'
    <3>1. SpentNotice(cur) \in AgentMessage
      BY <1>0, <1>6, NoticeType DEF TransferOk
    <3>2. /\ toOwner' = Append(toOwner, SpentNotice(cur)) \/ UNCHANGED toOwner
          /\ UNCHANGED <<toAgent, unread>>
      BY <1>6 DEF TransferOk
    <3>3. QED
      BY <1>0, <3>1, <3>2 DEF TopicsOK
  <2>3. HistoryOK'
    BY <1>0, <1>6, OnChainType DEF HistoryOK, TransferOk
  <2>4. BudgetOK'
    BY <1>0, <1>6, FaultBudget DEF BudgetOK, TransferOk, NoFault
  <2>5. QED
    BY <1>0, <1>6, <2>1, <2>2, <2>3, <2>4 DEF TypeOK, StateOK, TransferOk
<1>7. CASE TransferFails
  <2>1. RuntimeOK'
    <3>1. /\ pc' = "idle" /\ cur' = Idle /\ batch' = <<>> /\ resolved' = FALSE
          /\ UNCHANGED tries
      BY <1>7 DEF TransferFails
    <3>2. Idle \in [id : Nat \cup {NoId}, amount : Nat]
      BY DEF Idle
    <3>3. batch' \in Seq(OwnerMessage)
      BY <3>1
    <3>4. resolved' \in BOOLEAN
      BY <3>1
    <3>5. tries' \in 0 .. NOTIFY_ATTEMPTS - 1
      BY <1>0, <3>1 DEF RuntimeOK
    <3>6. pc' = "idle" /\ cur' \in [id : Nat \cup {NoId}, amount : Nat]
      BY <3>1, <3>2
    <3>7. QED
      BY ONLY <3>3, <3>4, <3>5, <3>6 DEF RuntimeOK
  <2>2. HistoryOK'
    <3>1. UNCHANGED <<life, owner>>
      BY <1>7 DEF TransferFails
    <3>2. executed \in Seq(Transfer)
      BY <1>0 DEF HistoryOK
    <3>3. OnChain(cur) \in Transfer
      BY <1>0, <1>7, OnChainType DEF TransferFails
    <3>4. executed' = executed \/ executed' = Append(executed, OnChain(cur))
      BY <1>7 DEF TransferFails
    <3>5. executed' \in Seq(Transfer)
      BY ONLY <3>2, <3>3, <3>4
    <3>6. QED
      BY ONLY <1>0, <3>1, <3>5 DEF HistoryOK, owner, Transfer, Judgement
  <2>3. BudgetOK'
    BY <1>0, <1>7, FaultBudget DEF TransferFails
  <2>4. QED
    BY <1>0, <1>7, <2>1, <2>2, <2>3 DEF TypeOK, StateOK, TopicsOK, TransferFails
<1>8. CASE ApplyApprove
  <2>1. RuntimeOK'
    BY <1>0, <1>8, HeadType, ConstantsAssumption
       DEF RuntimeOK, StateOK, ApplyApprove, Held, ConstantsAssumption
  <2>2. StateOK'
    BY <1>0, <1>8 DEF StateOK, ApplyApprove, Without
  <2>3. QED
    BY <1>0, <1>8, <2>1, <2>2 DEF TypeOK, TopicsOK, HistoryOK, BudgetOK, ApplyApprove
<1>9. CASE ApplyDeny
  <2>1. RuntimeOK'
    BY <1>0, <1>9, HeadType DEF RuntimeOK, ApplyDeny
  <2>2. StateOK'
    BY <1>0, <1>9 DEF StateOK, ApplyDeny, Without
  <2>3. QED
    BY <1>0, <1>9, <2>1, <2>2 DEF TypeOK, TopicsOK, HistoryOK, BudgetOK, ApplyDeny
<1>10. CASE IgnoreDecision
  <2>1. RuntimeOK'
    BY <1>0, <1>10, HeadType DEF RuntimeOK, IgnoreDecision
  <2>2. QED
    BY <1>0, <1>10, <2>1 DEF TypeOK, StateOK, TopicsOK, HistoryOK, BudgetOK, IgnoreDecision
<1>11. CASE ApplyConfigure
  <2>1. RuntimeOK'
    BY <1>0, <1>11, HeadType DEF RuntimeOK, ApplyConfigure
  <2>2. Head(batch).value \in Nat
    BY <1>0, <1>11, HeadType, ConstantsAssumption
       DEF ApplyConfigure, Applying, OwnerMessage, Decision, Configure, PolicyKeys,
           ConstantsAssumption
  <2>3. StateOK'
    BY <1>0, <1>11, <2>2 DEF StateOK, ApplyConfigure, SetLimit
  <2>4. QED
    BY <1>0, <1>11, <2>1, <2>3 DEF TypeOK, TopicsOK, HistoryOK, BudgetOK, ApplyConfigure
<1>12. CASE FinishBatch
  <2>1. RuntimeOK'
    BY <1>0, <1>12 DEF RuntimeOK, FinishBatch
  <2>2. StateOK' /\ BudgetOK'
    <3>1. CASE NoFault /\ disk' = Memory'
      BY <1>0, <1>12, <3>1 DEF StateOK, BudgetOK, NoFault, Memory, FinishBatch
    <3>2. CASE Fault("persist_error") /\ UNCHANGED disk
      BY <1>0, <1>12, <3>2, FaultBudget DEF StateOK, FinishBatch
    <3>3. CASE UNCHANGED <<disk, budget>>
      BY <1>0, <1>12, <3>3 DEF StateOK, BudgetOK, FinishBatch
    <3>4. QED
      BY <1>12, <3>1, <3>2, <3>3 DEF FinishBatch, PersistResolved, Persist
  <2>3. QED
    BY <1>0, <1>12, <2>1, <2>2 DEF TypeOK, TopicsOK, HistoryOK, FinishBatch
<1>13. CASE Poll
  <2>1. RuntimeOK'
    BY <1>0, <1>13 DEF RuntimeOK, TopicsOK, Poll, Fetched
  <2>2. TopicsOK'
    BY <1>0, <1>13 DEF TopicsOK, Poll, AfterRead
  <2>3. QED
    BY <1>0, <1>13, <2>1, <2>2 DEF TypeOK, StateOK, HistoryOK, BudgetOK, Poll
<1>14. CASE PollLost
  <2>1. TopicsOK'
    BY <1>0, <1>14 DEF TopicsOK, PollLost, AfterRead
  <2>2. BudgetOK'
    BY <1>0, <1>14, FaultBudget DEF PollLost
  <2>3. QED
    BY <1>0, <1>14, <2>1, <2>2 DEF TypeOK, RuntimeOK, StateOK, HistoryOK, PollLost
<1>15. CASE Restart
  <2>1. RuntimeOK'
    <3>1. pc' = "idle" /\ cur' = Idle /\ tries' = 0 /\ batch' = <<>> /\ resolved' = FALSE
      BY <1>15 DEF Restart
    <3>2. Idle \in [id : Nat \cup {NoId}, amount : Nat]
      BY DEF Idle
    <3>3. tries' \in 0 .. NOTIFY_ATTEMPTS - 1
      BY <3>1, ConstantsAssumption DEF ConstantsAssumption
    <3>4. batch' \in Seq(OwnerMessage)
      BY <3>1
    <3>5. resolved' \in BOOLEAN
      BY <3>1
    <3>6. pc' = "idle" /\ cur' \in [id : Nat \cup {NoId}, amount : Nat]
      BY <3>1, <3>2
    <3>7. QED
      BY ONLY <3>3, <3>4, <3>5, <3>6 DEF RuntimeOK
  <2>2. StateOK'
    BY <1>0, <1>15, ConstantsAssumption
       DEF StateOK, Restart, Reload, ConstantsAssumption
  <2>3. HistoryOK'
    <3>1. executed' \in Seq(Transfer)
      <4>1. executed \in Seq(Transfer)
        BY <1>0 DEF HistoryOK
      <4>2. CASE UNCHANGED executed
        BY <4>1, <4>2
      <4>3. CASE InTransfer /\ executed' = Append(executed, OnChain(cur))
        <5>1. OnChain(cur) \in Transfer
          BY <4>3, OnChainType
        <5>2. QED
          BY <4>1, <4>3, <5>1
      <4>4. QED
        BY <1>15, <4>2, <4>3 DEF Restart
    <3>2. life' \in Nat /\ UNCHANGED <<decisions, ordered>>
      BY <1>0, <1>15 DEF HistoryOK, Restart
    <3>3. QED
      BY <1>0, <3>1, <3>2 DEF HistoryOK
  <2>4. BudgetOK'
    BY <1>0, <1>15, FaultBudget DEF Restart
  <2>5. QED
    BY <1>0, <1>15, <2>1, <2>2, <2>3, <2>4 DEF TypeOK, TopicsOK, Restart
<1>16. ASSUME NEW i \in DOMAIN toOwner, NEW verdict \in {"approve", "deny"},
              Decide(toOwner[i], verdict)
       PROVE  TypeOK'
  <2>1. toOwner[i].id \in Nat /\ toOwner[i].amount \in Amounts
    BY <1>0, <1>16 DEF TopicsOK, Decide, AgentMessage
  <2>2. [kind |-> verdict, id |-> toOwner[i].id] \in OwnerMessage
    BY <2>1 DEF OwnerMessage, Decision
  <2>3. [id |-> toOwner[i].id, amount |-> toOwner[i].amount, verdict |-> verdict]
           \in Judgement
    BY <2>1 DEF Judgement
  <2>4. TopicsOK'
    BY <1>0, <1>16, <2>2 DEF TopicsOK, Decide, Publish
  <2>5. HistoryOK'
    <3>1. /\ decisions' = Append(decisions, [id |-> toOwner[i].id, amount |-> toOwner[i].amount,
                                            verdict |-> verdict])
          /\ UNCHANGED <<life, executed, ordered>>
      BY <1>16 DEF Decide, Publish
    <3>2. decisions' \in Seq(Judgement)
      BY <1>0, <2>3, <3>1 DEF HistoryOK
    <3>3. QED
      BY <1>0, <3>1, <3>2 DEF HistoryOK
  <2>6. BudgetOK'
    <3>1. budget' = [budget EXCEPT !.ownerMsgs = @ - 1] /\ budget.ownerMsgs > 0
      BY <1>16 DEF Decide, Publish
    <3>2. QED
      BY <1>0, <3>1 DEF BudgetOK
  <2>7. QED
    BY <1>0, <1>16, <2>4, <2>5, <2>6 DEF TypeOK, RuntimeOK, StateOK, Decide, Publish
<1>17. ASSUME NEW key \in PolicyKeys, NEW value \in Limits,
              ConfigurePolicy(key, value)
       PROVE  TypeOK'
  <2>1. [kind |-> key, value |-> value] \in OwnerMessage
    BY DEF OwnerMessage, Configure
  <2>2. TopicsOK'
    BY <1>0, <1>17, <2>1 DEF TopicsOK, ConfigurePolicy, Publish
  <2>3. HistoryOK'
    BY <1>0, <1>17, ConstantsAssumption
       DEF HistoryOK, ConfigurePolicy, Publish, ConstantsAssumption
  <2>4. BudgetOK'
    BY <1>0, <1>17 DEF BudgetOK, ConfigurePolicy, Publish
  <2>5. QED
    BY <1>0, <1>17, <2>2, <2>3, <2>4
       DEF TypeOK, RuntimeOK, StateOK, ConfigurePolicy, Publish
<1>18. CASE UNCHANGED vars
  BY <1>0, <1>18
     DEF vars, TypeOK, RuntimeOK, StateOK, TopicsOK, HistoryOK, BudgetOK
<1>19. QED
  BY <1>1, <1>2, <1>3, <1>4, <1>5, <1>6, <1>7, <1>8, <1>9, <1>10, <1>11, <1>12, <1>13,
     <1>14, <1>15, <1>16, <1>17, <1>18
     DEF Next, Proposing, Finishing, OwnerActs

(* Every reachable state is well typed, whatever the backend and the faults. *)
THEOREM TypeCorrect == Spec => []TypeOK
<1>1. QED
  BY InitTypeOK, StepTypeOK, PTL DEF Spec

-----------------------------------------------------------------------------
(* What never shrinks: the owner's topic, the owner's decisions, the chain. *)

LEMMA ToOwnerSteps ==
    ASSUME TypeOK, [Next]_vars
    PROVE  \/ UNCHANGED toOwner
           \/ \E m \in AgentMessage : toOwner' = Append(toOwner, m)
<1>0. RuntimeOK
  BY DEF TypeOK
<1>1. CASE NotifyOk
  BY <1>0, <1>1, RequestType DEF NotifyOk
<1>2. CASE NotifyFails
  BY <1>0, <1>2, RequestType DEF NotifyFails
<1>3. CASE TransferOk
  BY <1>0, <1>3, NoticeType DEF TransferOk
<1>4. CASE ~ (NotifyOk \/ NotifyFails \/ TransferOk)
  BY <1>4
     DEF vars, Next, Proposing, Finishing, OwnerActs, ProposeWithinPolicy,
         ProposeOverPolicy, HoldForApproval, TransferFails, ApplyApprove, ApplyDeny,
         IgnoreDecision, ApplyConfigure, FinishBatch, Poll, PollLost, Restart,
         Decide, ConfigurePolicy, Publish
<1>5. QED
  BY <1>1, <1>2, <1>3, <1>4

LEMMA DecisionsSteps ==
    ASSUME TypeOK, [Next]_vars
    PROVE  \/ UNCHANGED decisions
           \/ \E d \in Judgement : decisions' = Append(decisions, d)
<1>1. ASSUME NEW i \in DOMAIN toOwner, NEW verdict \in {"approve", "deny"},
             Decide(toOwner[i], verdict)
      PROVE  \E d \in Judgement : decisions' = Append(decisions, d)
  <2>1. toOwner[i].id \in Nat /\ toOwner[i].amount \in Amounts
    BY <1>1 DEF TypeOK, TopicsOK, Decide, AgentMessage
  <2>2. [id |-> toOwner[i].id, amount |-> toOwner[i].amount, verdict |-> verdict]
           \in Judgement
    BY <2>1 DEF Judgement
  <2>3. QED
    BY <1>1, <2>2 DEF Decide
<1>2. CASE ~ \E i \in DOMAIN toOwner, verdict \in {"approve", "deny"} :
                Decide(toOwner[i], verdict)
  BY <1>2
     DEF vars, owner, Next, Proposing, Finishing, OwnerActs, ProposeWithinPolicy,
         ProposeOverPolicy, NotifyOk, NotifyFails, HoldForApproval, TransferOk,
         TransferFails, ApplyApprove, ApplyDeny, IgnoreDecision, ApplyConfigure,
         FinishBatch, Poll, PollLost, Restart, ConfigurePolicy
<1>3. QED
  BY <1>1, <1>2

LEMMA ExecutedSteps ==
    ASSUME [Next]_vars
    PROVE  \/ UNCHANGED executed
           \/ InTransfer /\ executed' = Append(executed, OnChain(cur))
<1>1. CASE TransferOk
  BY <1>1 DEF TransferOk
<1>2. CASE TransferFails
  BY <1>2 DEF TransferFails
<1>3. CASE Restart
  BY <1>3 DEF Restart
<1>4. CASE ~ (TransferOk \/ TransferFails \/ Restart)
  BY <1>4
     DEF vars, Next, Proposing, Finishing, OwnerActs, ProposeWithinPolicy,
         ProposeOverPolicy, NotifyOk, NotifyFails, HoldForApproval, ApplyApprove,
         ApplyDeny, IgnoreDecision, ApplyConfigure, FinishBatch, Poll, PollLost,
         Decide, ConfigurePolicy, Publish
<1>5. QED
  BY <1>1, <1>2, <1>3, <1>4

(* A request the owner was shown stays shown, a decision stays taken. *)
LEMMA AnnouncedStable ==
    ASSUME TypeOK, [Next]_vars, NEW s, Announced(s)
    PROVE  Announced(s)'
<1>1. PICK i \in DOMAIN toOwner : toOwner[i] = Request(s)
  BY DEF Announced
<1>2. i \in DOMAIN toOwner' /\ toOwner'[i] = toOwner[i]
  BY <1>1, ToOwnerSteps DEF TypeOK, TopicsOK
<1>3. QED
  BY <1>1, <1>2 DEF Announced, Request

LEMMA DecidedStable ==
    ASSUME TypeOK, [Next]_vars, NEW id, NEW verdict, Decided(id, verdict)
    PROVE  Decided(id, verdict)'
<1>1. PICK i \in DOMAIN decisions :
              decisions[i].id = id /\ decisions[i].verdict = verdict
  BY DEF Decided
<1>2. i \in DOMAIN decisions' /\ decisions'[i] = decisions[i]
  <2>1. decisions \in Seq(Judgement)
    BY DEF TypeOK, HistoryOK
  <2>2. QED
    BY <1>1, <2>1, DecisionsSteps
<1>3. QED
  BY <1>1, <1>2 DEF Decided

-----------------------------------------------------------------------------
(* The inductive invariant behind ExecutedWasApproved: a decision the     *)
(* runtime has read or is about to read was published by the owner, and    *)
(* the spend a handler is about to hold or to send was announced.          *)

Sanctioned(msgs) ==
    \A i \in DOMAIN msgs :
        msgs[i].kind \in {"approve", "deny"} => Decided(msgs[i].id, msgs[i].kind)

Provenance ==
    /\ HeldWasAnnounced
    /\ pc \in {"holding", "executing"} => Announced(cur)
    /\ pc = "executing" => Decided(cur.id, "approve")
    /\ Sanctioned(toAgent)
    /\ Sanctioned(batch)
    /\ ExecutedWasApproved

LEMMA InitProvenance == Init => Provenance
BY DEF Init, Provenance, HeldWasAnnounced, Sanctioned, ExecutedWasApproved, Escalated

(* The topics: what the owner has not published never becomes a decision.  *)
LEMMA StepSanctioned ==
    ASSUME TypeOK, Sanctioned(toAgent), Sanctioned(batch), [Next]_vars
    PROVE  Sanctioned(toAgent)' /\ Sanctioned(batch)'
<1>0. toAgent \in Seq(OwnerMessage) /\ batch \in Seq(OwnerMessage)
  BY DEF TypeOK, RuntimeOK, TopicsOK
<1>1. ASSUME NEW i \in DOMAIN toOwner, NEW verdict \in {"approve", "deny"},
             Decide(toOwner[i], verdict)
      PROVE  Sanctioned(toAgent)' /\ UNCHANGED batch
  <2>1. decisions \in Seq(Judgement)
    BY DEF TypeOK, HistoryOK
  <2>2. PICK id, amount : id = toOwner[i].id /\ amount = toOwner[i].amount
    OBVIOUS
  <2> DEFINE msg == [kind |-> verdict, id |-> id]
             dec == [id |-> id, amount |-> amount, verdict |-> verdict]
  <2>3. /\ toAgent' = Append(toAgent, msg)
        /\ decisions' = Append(decisions, dec)
        /\ UNCHANGED batch
    BY <1>1, <2>2 DEF Decide, Publish, runtime
  <2>4. Decided(id, verdict)'
    <3>1. /\ Len(decisions) + 1 \in DOMAIN decisions'
          /\ decisions'[Len(decisions) + 1] = dec
      BY <2>1, <2>3
    <3>2. QED
      BY <3>1 DEF Decided
  <2>5. ASSUME NEW j \in DOMAIN toAgent', toAgent'[j].kind \in {"approve", "deny"}
        PROVE  \E n \in DOMAIN decisions' :
                   /\ decisions'[n].id = toAgent'[j].id
                   /\ decisions'[n].verdict = toAgent'[j].kind
    <3>1. CASE j = Len(toAgent) + 1
      <4>1. toAgent'[j] = msg
        BY <1>0, <2>3, <3>1
      <4>2. toAgent'[j].id = id /\ toAgent'[j].kind = verdict
        BY <4>1
      <4>3. QED
        BY <2>4, <4>2 DEF Decided
    <3>2. CASE j # Len(toAgent) + 1
      <4>1. j \in DOMAIN toAgent /\ toAgent'[j] = toAgent[j]
        BY <1>0, <2>3, <3>2
      <4>2. Decided(toAgent[j].id, toAgent[j].kind)
        BY <2>5, <4>1 DEF Sanctioned
      <4>3. PICK n \in DOMAIN decisions :
                decisions[n].id = toAgent[j].id /\ decisions[n].verdict = toAgent[j].kind
        BY <4>2 DEF Decided
      <4>4. n \in DOMAIN decisions' /\ decisions'[n] = decisions[n]
        BY <2>1, <2>3
      <4>5. QED
        BY ONLY <4>1, <4>3, <4>4
    <3>3. QED
      BY <3>1, <3>2
  <2>6. QED
    BY ONLY <2>3, <2>5 DEF Sanctioned, Decided
<1>2. ASSUME NEW key \in PolicyKeys, NEW value \in Limits,
             ConfigurePolicy(key, value)
      PROVE  Sanctioned(toAgent)' /\ UNCHANGED batch
  <2> DEFINE msg == [kind |-> key, value |-> value]
  <2>1. toAgent' = Append(toAgent, msg) /\ UNCHANGED <<batch, decisions>>
    BY <1>2 DEF ConfigurePolicy, Publish, runtime
  <2>2. msg.kind \notin {"approve", "deny"}
    BY DEF PolicyKeys
  <2>3. ASSUME NEW j \in DOMAIN toAgent', toAgent'[j].kind \in {"approve", "deny"}
        PROVE  j \in DOMAIN toAgent /\ toAgent'[j] = toAgent[j]
    BY <1>0, <2>1, <2>2, <2>3
  <2>4. QED
    BY <2>1, <2>3 DEF Sanctioned, Decided
<1>3. CASE Poll
  BY <1>0, <1>3 DEF Poll, Fetched, AfterRead, Sanctioned, Decided, owner
<1>4. CASE PollLost
  BY <1>0, <1>4 DEF PollLost, AfterRead, Sanctioned, Decided, runtime, owner
<1>5. ASSUME NEW kinds, Applying(kinds), UNCHANGED <<toAgent, decisions>>
      PROVE  Sanctioned(toAgent)' /\ Sanctioned(batch)'
  <2>1. \A j \in DOMAIN batch' : j + 1 \in DOMAIN batch /\ batch'[j] = batch[j + 1]
    BY <1>0, <1>5 DEF Applying
  <2>2. QED
    BY <1>5, <2>1 DEF Sanctioned, Decided
<1>6. ASSUME batch' = <<>>, UNCHANGED <<toAgent, decisions>>
      PROVE  Sanctioned(toAgent)' /\ Sanctioned(batch)'
  BY <1>6 DEF Sanctioned, Decided
<1>7. ASSUME UNCHANGED <<batch, toAgent, decisions>>
      PROVE  Sanctioned(toAgent)' /\ Sanctioned(batch)'
  BY <1>7 DEF Sanctioned, Decided
<1>8. CASE ApplyApprove \/ ApplyDeny \/ IgnoreDecision \/ ApplyConfigure
  BY <1>5, <1>8 DEF ApplyApprove, ApplyDeny, IgnoreDecision, ApplyConfigure, owner
<1>9. CASE TransferFails \/ Restart
  BY <1>6, <1>9 DEF TransferFails, Restart, owner
<1>10. CASE \/ UNCHANGED vars \/ Proposing \/ NotifyOk \/ NotifyFails \/ HoldForApproval
            \/ TransferOk \/ FinishBatch
  BY <1>7, <1>10
     DEF vars, runtime, owner, Proposing, ProposeWithinPolicy, ProposeOverPolicy,
         NotifyOk, NotifyFails, HoldForApproval, TransferOk, FinishBatch
<1>11. ASSUME Sanctioned(toAgent)', UNCHANGED batch
       PROVE  Sanctioned(batch)'
  BY <1>11, DecidedStable DEF Sanctioned
<1>12. QED
  BY <1>1, <1>2, <1>3, <1>4, <1>8, <1>9, <1>10, <1>11
     DEF Next, Finishing, OwnerActs

(* Only hold_for_approval adds to what is held, in memory or on disk. *)
LEMMA HeldSteps ==
    ASSUME TypeOK, [Next]_vars
    PROVE  \A s \in pending' \cup disk'.pending :
              s \in pending \cup disk.pending \/ (pc = "holding" /\ s = cur)
<1>1. CASE HoldForApproval
  BY <1>1 DEF HoldForApproval, Without, Persist, Memory
<1>2. CASE ApplyApprove
  BY <1>2 DEF ApplyApprove, Without
<1>3. CASE ApplyDeny
  BY <1>3 DEF ApplyDeny, Without
<1>4. CASE FinishBatch
  BY <1>4 DEF FinishBatch, PersistResolved, Persist, Memory
<1>5. CASE Restart
  BY <1>5 DEF Restart, Reload
<1>6. CASE ~ (HoldForApproval \/ ApplyApprove \/ ApplyDeny \/ FinishBatch \/ Restart)
  <2>1. UNCHANGED <<pending, disk>>
    BY <1>6
       DEF vars, memory, Next, Proposing, Finishing, OwnerActs, ProposeWithinPolicy,
           ProposeOverPolicy, NotifyOk, NotifyFails, TransferOk, TransferFails,
           IgnoreDecision, ApplyConfigure, Poll, PollLost, Decide, ConfigurePolicy,
           Publish
  <2>2. QED
    BY <2>1
<1>7. QED
  BY <1>1, <1>2, <1>3, <1>4, <1>5, <1>6

(* How a handler comes to hold or to execute a spend. *)
LEMMA PhaseSteps ==
    ASSUME TypeOK, [Next]_vars, pc' \in {"holding", "executing"}
    PROVE  NotifyOk \/ ApplyApprove \/ UNCHANGED <<pc, cur>>
BY DEF vars, runtime, Next, Proposing, Finishing, OwnerActs, ProposeWithinPolicy,
       ProposeOverPolicy, NotifyFails, GiveUp, HoldForApproval, TransferOk,
       TransferFails, ApplyDeny, IgnoreDecision, ApplyConfigure, FinishBatch, Poll,
       PollLost, Restart, Decide, ConfigurePolicy, Publish

LEMMA StepProvenance == TypeOK /\ Provenance /\ [Next]_vars => Provenance'
<1> SUFFICES ASSUME TypeOK, Provenance, [Next]_vars
             PROVE  Provenance'
  OBVIOUS
<1>1. HeldWasAnnounced'
  <2> SUFFICES ASSUME NEW s \in pending' \cup disk'.pending
               PROVE  Announced(s)'
    BY DEF HeldWasAnnounced
  <2>1. Announced(s)
    BY HeldSteps DEF Provenance, HeldWasAnnounced
  <2>2. QED
    BY <2>1, AnnouncedStable
<1>2. ASSUME pc' \in {"holding", "executing"}
      PROVE  Announced(cur)'
  <2>1. PICK s : s = cur'
    OBVIOUS
  <2>2. Announced(s)'
    <3>1. CASE NotifyOk
      <4>1. toOwner' = Append(toOwner, Request(s)) /\ toOwner \in Seq(AgentMessage)
        BY <2>1, <3>1 DEF NotifyOk, TypeOK, TopicsOK, Request
      <4>2. QED
        BY <4>1 DEF Announced, Request
    <3>2. CASE ApplyApprove
      BY <2>1, <3>2, AnnouncedStable DEF ApplyApprove, Provenance, HeldWasAnnounced
    <3>3. CASE UNCHANGED <<pc, cur>>
      BY <1>2, <2>1, <3>3, AnnouncedStable DEF Provenance
    <3>4. QED
      BY <1>2, <3>1, <3>2, <3>3, PhaseSteps
  <2>3. QED
    BY <2>1, <2>2 DEF Announced, Request
<1>3. ASSUME pc' = "executing"
      PROVE  Decided(cur.id, "approve")'
  <2>1. PICK id : id = cur'.id
    OBVIOUS
  <2>2. Decided(id, "approve")
    <3>1. CASE ApplyApprove
      <4>1. 1 \in DOMAIN batch /\ batch[1].kind = "approve" /\ batch[1].id = id
        BY <2>1, <3>1
           DEF ApplyApprove, Applying, ReleasingVerdicts, TypeOK, RuntimeOK
      <4>2. QED
        BY <4>1 DEF Provenance, Sanctioned
    <3>2. CASE NotifyOk
      BY <1>3, <3>2 DEF NotifyOk
    <3>3. CASE UNCHANGED <<pc, cur>>
      BY <1>3, <2>1, <3>3 DEF Provenance
    <3>4. QED
      BY <1>3, <3>1, <3>2, <3>3, PhaseSteps
  <2>3. Decided(id, "approve")'
    BY <2>2, DecidedStable
  <2>4. QED
    BY <2>1, <2>3 DEF Decided
<1>4. Sanctioned(toAgent)' /\ Sanctioned(batch)'
  BY StepSanctioned DEF Provenance
<1>5. ExecutedWasApproved'
  <2> SUFFICES ASSUME NEW i \in DOMAIN executed', NEW e, e = executed'[i],
                      e.id # NoId
               PROVE  Announced(e)' /\ Decided(e.id, "approve")'
    BY DEF ExecutedWasApproved, Escalated, Announced, Decided, Request
  <2>1. executed \in Seq(Transfer)
    BY DEF TypeOK, HistoryOK
  <2>2. CASE i \in DOMAIN executed /\ e = executed[i]
    <3>1. Announced(e) /\ Decided(e.id, "approve")
      BY <2>2 DEF Provenance, ExecutedWasApproved, Escalated
    <3>2. QED
      BY <3>1, AnnouncedStable, DecidedStable
  <2>3. CASE InTransfer /\ e = OnChain(cur)
    <3>1. pc = "executing" /\ e.id = cur.id /\ e.amount = cur.amount
      BY <2>3 DEF InTransfer, OnChain, TypeOK, RuntimeOK
    <3>2. Announced(e) /\ Decided(e.id, "approve")
      BY <3>1 DEF Provenance, Announced, Request
    <3>3. QED
      BY <3>2, AnnouncedStable, DecidedStable
  <2>4. QED
    BY <2>1, <2>2, <2>3, ExecutedSteps
<1>6. QED
  BY <1>1, <1>2, <1>3, <1>4, <1>5 DEF Provenance

(* A spend is held, in memory or in the state file, only if a request for    *)
(* this very spend was published (owner.rs:345).                            *)
THEOREM HeldOnlyIfAnnounced == Spec => []HeldWasAnnounced
<1>1. Provenance => HeldWasAnnounced
  BY DEF Provenance
<1>2. QED
  BY <1>1, InitProvenance, StepProvenance, TypeCorrect, PTL DEF Spec

(* No spend over the limit reaches the chain that the owner was not shown,  *)
(* or under an id the owner never approved, whatever fails and whenever the *)
(* process dies.                                                            *)
THEOREM ExecutedOnlyIfApproved == Spec => []ExecutedWasApproved
<1>1. Provenance => ExecutedWasApproved
  BY DEF Provenance
<1>2. QED
  BY <1>1, InitProvenance, StepProvenance, TypeCorrect, PTL DEF Spec

-----------------------------------------------------------------------------
(* The inductive invariant behind AtMostOncePerLife: ids are handed out in  *)
(* order, and an id this run of the process has executed is neither held    *)
(* nor under way.                                                           *)

HeldBelow ==
    /\ \A s \in pending : s.id < nextId
    /\ \A s \in disk.pending : s.id < disk.nextId

CurApart ==
    /\ pc \in {"notifying", "holding"} => cur.id = nextId
    /\ pc = "executing" => cur.id < nextId /\ ~ IsHeld(cur.id)

ExecutedApart ==
    \A i \in Escalated :
        /\ executed[i].life <= life
        /\ executed[i].life = life =>
              /\ executed[i].id < nextId
              /\ ~ IsHeld(executed[i].id)
              /\ pc = "executing" => executed[i].id # cur.id

IdsFresh == HeldBelow /\ CurApart /\ ExecutedApart /\ AtMostOncePerLife

LEMMA InitIdsFresh == Init => IdsFresh
BY DEF Init, IdsFresh, HeldBelow, CurApart, ExecutedApart, AtMostOncePerLife, Escalated

LEMMA StepHeldBelow ==
    ASSUME TypeOK, IdsFresh, [Next]_vars
    PROVE  HeldBelow'
<1>0. StateOK /\ HeldBelow
  BY DEF TypeOK, IdsFresh
<1>1. CASE HoldForApproval
  <2>1. cur.id = nextId /\ nextId \in Nat /\ \A s \in pending : s.id \in Nat
    BY <1>0, <1>1 DEF HoldForApproval, IdsFresh, CurApart, StateOK, Held
  <2>2. \A s \in pending' : s.id < nextId'
    BY <1>0, <1>1, <2>1 DEF HoldForApproval, TakeId, Without, HeldBelow
  <2>3. QED
    BY <1>0, <1>1, <2>2 DEF HoldForApproval, Persist, Memory, HeldBelow
<1>2. CASE ApplyApprove
  BY <1>0, <1>2 DEF ApplyApprove, Without, HeldBelow
<1>3. CASE ApplyDeny
  BY <1>0, <1>3 DEF ApplyDeny, Without, HeldBelow
<1>4. CASE FinishBatch
  BY <1>0, <1>4 DEF FinishBatch, PersistResolved, Persist, Memory, HeldBelow
<1>5. CASE Restart
  BY <1>0, <1>5 DEF Restart, Reload, HeldBelow
<1>6. CASE ~ (HoldForApproval \/ ApplyApprove \/ ApplyDeny \/ FinishBatch \/ Restart)
  <2>1. UNCHANGED <<pending, nextId, disk>>
    BY <1>6
       DEF vars, memory, Next, Proposing, Finishing, OwnerActs, ProposeWithinPolicy,
           ProposeOverPolicy, NotifyOk, NotifyFails, TransferOk, TransferFails,
           IgnoreDecision, ApplyConfigure, Poll, PollLost, Decide, ConfigurePolicy,
           Publish
  <2>2. QED
    BY <1>0, <2>1 DEF HeldBelow
<1>7. QED
  BY <1>1, <1>2, <1>3, <1>4, <1>5, <1>6

LEMMA StepCurApart ==
    ASSUME TypeOK, IdsFresh, [Next]_vars
    PROVE  CurApart'
<1>0. StateOK /\ HeldBelow /\ CurApart
  BY DEF TypeOK, IdsFresh
<1>1. ASSUME NEW amount \in Amounts, ProposeOverPolicy(amount)
      PROVE  CurApart'
  BY <1>1 DEF ProposeOverPolicy, CurApart, memory
<1>2. CASE NotifyOk \/ NotifyFails
  BY <1>0, <1>2 DEF NotifyOk, NotifyFails, GiveUp, CurApart, IsHeld, memory
<1>3. CASE ApplyApprove
  <2>1. cur' \in pending /\ pending' = Without(pending, cur'.id)
    BY <1>3 DEF ApplyApprove
  <2>2. pc' = "executing" /\ nextId' = nextId
    BY <1>3 DEF ApplyApprove
  <2>3. QED
    BY <1>0, <2>1, <2>2 DEF CurApart, HeldBelow, IsHeld, Without
<1>4. CASE pc' \notin {"notifying", "holding", "executing"}
  BY <1>4 DEF CurApart
<1>5. CASE UNCHANGED <<pc, cur, pending, nextId>>
  BY <1>0, <1>5 DEF CurApart, IsHeld
<1>6. QED
  BY <1>1, <1>2, <1>3, <1>4, <1>5
     DEF vars, runtime, memory, Next, Proposing, Finishing, OwnerActs,
         ProposeWithinPolicy, HoldForApproval, TransferOk, TransferFails, InTransfer,
         Applying, ApplyDeny, IgnoreDecision, ApplyConfigure, FinishBatch, Poll,
         PollLost, Restart, Decide, ConfigurePolicy, Publish

(* Within one run of the process ids only grow and only a new id is added   *)
(* to what is held.                                                         *)
LEMMA OneLifeSteps ==
    ASSUME TypeOK, [Next]_vars, ~ Restart
    PROVE  /\ life' = life
           /\ nextId' \in {nextId, nextId + 1}
           /\ \A s \in pending' : s \in pending \/ (pc = "holding" /\ s = cur)
<1>1. CASE HoldForApproval
  BY <1>1 DEF HoldForApproval, TakeId, Without
<1>2. CASE ApplyApprove
  BY <1>2 DEF ApplyApprove, Without
<1>3. CASE ApplyDeny
  BY <1>3 DEF ApplyDeny, Without
<1>4. CASE ~ (HoldForApproval \/ ApplyApprove \/ ApplyDeny)
  <2>1. UNCHANGED <<life, nextId, pending>>
    BY <1>4
       DEF vars, memory, Next, Proposing, Finishing, OwnerActs, ProposeWithinPolicy,
           ProposeOverPolicy, NotifyOk, NotifyFails, TransferOk, TransferFails,
           IgnoreDecision, ApplyConfigure, FinishBatch, Poll, PollLost, Decide,
           ConfigurePolicy, Publish
  <2>2. QED
    BY <2>1
<1>5. QED
  BY <1>1, <1>2, <1>3, <1>4

LEMMA TransferPhase ==
    ASSUME [Next]_vars, InTransfer, executed' # executed
    PROVE  \/ pc' # "executing" /\ UNCHANGED <<pending, nextId>>
           \/ Restart
BY DEF vars, memory, InTransfer, Next, Proposing, Finishing, OwnerActs,
       ProposeWithinPolicy, ProposeOverPolicy, Propose, NotifyOk, NotifyFails,
       HoldForApproval, TransferOk, TransferFails, Applying, ApplyApprove, ApplyDeny,
       IgnoreDecision, ApplyConfigure, FinishBatch, Poll, PollLost, Decide,
       ConfigurePolicy, Publish

LEMMA StepAtMostOnce ==
    ASSUME TypeOK, IdsFresh, [Next]_vars
    PROVE  AtMostOncePerLife'
<1>0. executed \in Seq(Transfer)
  BY DEF TypeOK, HistoryOK
<1>1. CASE UNCHANGED executed
  BY <1>1 DEF IdsFresh, AtMostOncePerLife, Escalated
<1>2. CASE InTransfer /\ executed' = Append(executed, OnChain(cur))
  <2>1. \A i \in Escalated' : i # Len(executed) + 1 =>
           i \in Escalated /\ executed'[i] = executed[i]
    BY <1>0, <1>2 DEF Escalated
  <2>2. Len(executed) + 1 \in Escalated' => pc = "executing"
    BY <1>0, <1>2 DEF Escalated, InTransfer, OnChain, TypeOK, RuntimeOK
  <2>3. executed'[Len(executed) + 1] = OnChain(cur)
    BY <1>0, <1>2
  <2>4. \A i \in Escalated : pc = "executing" /\ executed[i].life = life =>
           executed[i].id # cur.id
    BY DEF IdsFresh, ExecutedApart
  <2>5. QED
    BY <2>1, <2>2, <2>3, <2>4 DEF IdsFresh, AtMostOncePerLife, OnChain
<1>3. QED
  BY <1>1, <1>2, ExecutedSteps

LEMMA StepExecutedApart ==
    ASSUME TypeOK, IdsFresh, [Next]_vars
    PROVE  ExecutedApart'
<1>0. /\ executed \in Seq(Transfer) /\ life \in Nat /\ nextId \in Nat
      /\ HeldBelow /\ CurApart /\ ExecutedApart
  BY DEF TypeOK, HistoryOK, StateOK, IdsFresh
<1> SUFFICES ASSUME NEW i \in Escalated', NEW e, e = executed'[i]
             PROVE  /\ e.life <= life'
                    /\ e.life = life' => /\ e.id < nextId'
                                         /\ ~ IsHeld(e.id)'
                                         /\ pc' = "executing" => e.id # cur'.id
  BY DEF ExecutedApart, IsHeld
<1>1. \/ i \in Escalated /\ e = executed[i]
      \/ InTransfer /\ executed' # executed /\ e = OnChain(cur)
  BY <1>0, ExecutedSteps DEF Escalated
<1>2. e.life \in Nat /\ e.id \in Nat /\ e.life <= life
  <2>1. e \in Transfer
    BY <1>0, <1>1, OnChainType DEF Escalated
  <2>2. e.id # NoId
    BY DEF Escalated
  <2>3. e.life <= life
    BY <1>0, <1>1 DEF ExecutedApart, OnChain
  <2>4. QED
    BY <2>1, <2>2, <2>3 DEF Transfer
<1>3. CASE Restart
  BY <1>0, <1>2, <1>3 DEF Restart
<1>4. CASE ~ Restart /\ i \in Escalated /\ e = executed[i]
  <2> SUFFICES ASSUME e.life = life
               PROVE  /\ e.id < nextId'
                      /\ ~ IsHeld(e.id)'
                      /\ pc' = "executing" => e.id # cur'.id
    BY <1>2, <1>4, OneLifeSteps
  <2>1. /\ e.id < nextId
        /\ ~ IsHeld(e.id)
        /\ pc = "executing" => e.id # cur.id
    BY <1>0, <1>4 DEF ExecutedApart
  <2>2. e.id < nextId'
    BY <1>0, <1>2, <1>4, <2>1, OneLifeSteps
  <2>3. ~ IsHeld(e.id)'
    BY <1>0, <1>2, <1>4, <2>1, OneLifeSteps DEF IsHeld, CurApart
  <2>4. ASSUME pc' = "executing"
        PROVE  e.id # cur'.id
    <3>1. CASE ApplyApprove
      BY <2>1, <3>1 DEF ApplyApprove, IsHeld
    <3>2. CASE UNCHANGED <<pc, cur>>
      BY <2>1, <2>4, <3>2
    <3>3. QED
      BY <2>4, <3>1, <3>2, PhaseSteps DEF NotifyOk
  <2>5. QED
    BY <2>2, <2>3, <2>4
<1>5. CASE ~ Restart /\ InTransfer /\ executed' # executed /\ e = OnChain(cur)
  <2>1. pc = "executing" /\ e.id = cur.id
    BY <1>2, <1>5, ConstantsAssumption
       DEF InTransfer, OnChain, TypeOK, RuntimeOK, ConstantsAssumption
  <2>2. pc' # "executing" /\ UNCHANGED <<pending, nextId>> /\ life' = life
    BY <1>5, TransferPhase, OneLifeSteps
  <2>3. QED
    BY <1>0, <1>2, <2>1, <2>2 DEF CurApart, IsHeld
<1>6. QED
  BY <1>1, <1>3, <1>4, <1>5

(* One run of the process executes a request id at most once, however often *)
(* its decision is delivered (owner.rs:414).                                *)
THEOREM ExecutesAtMostOncePerLife == Spec => []AtMostOncePerLife
<1>1. TypeOK /\ IdsFresh /\ [Next]_vars => IdsFresh'
  BY StepHeldBelow, StepCurApart, StepExecutedApart, StepAtMostOnce DEF IdsFresh
<1>2. IdsFresh => AtMostOncePerLife
  BY DEF IdsFresh
<1>3. QED
  BY <1>1, <1>2, InitIdsFresh, TypeCorrect, PTL DEF Spec
=============================================================================
