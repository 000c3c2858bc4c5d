------------------------ MODULE OwnerPromise_proofs ------------------------
(***************************************************************************)
(* OwnerApproval implements OwnerPromise, for every value of its constants, *)
(* provided the wallet does not refuse an approved transfer.               *)
(***************************************************************************)
EXTENDS OwnerApproval_proofs

-----------------------------------------------------------------------------
(* A transfer that reached the chain stays there. *)
LEMMA WasExecutedStable ==
    ASSUME TypeOK, [Next]_vars, NEW s, WasExecuted(s)
    PROVE  WasExecuted(s)'
<1>1. PICK i \in DOMAIN executed :
              executed[i].id = s.id /\ executed[i].amount = s.amount
  BY DEF WasExecuted
<1>2. executed \in Seq(Transfer)
  BY DEF TypeOK, HistoryOK
<1>3. i \in DOMAIN executed' /\ executed'[i] = executed[i]
  BY <1>1, <1>2, ExecutedSteps
<1>4. QED
  BY <1>1, <1>3 DEF WasExecuted

(* The owner is owed no answer about a spend any more. *)
Closed(s) == WasExecuted(s) \/ Decided(s.id, "deny")

LEMMA ClosedStable ==
    ASSUME TypeOK, [Next]_vars, NEW s, Closed(s)
    PROVE  Closed(s)'
<1>1. CASE WasExecuted(s)
  <2>1. WasExecuted(s)'
    BY <1>1, WasExecutedStable
  <2>2. QED
    BY <2>1 DEF Closed, WasExecuted
<1>2. CASE Decided(s.id, "deny")
  <2>1. PICK id : id = s.id
    OBVIOUS
  <2>2. Decided(id, "deny")'
    BY <1>2, <2>1, DecidedStable
  <2>3. QED
    BY <2>1, <2>2 DEF Closed, Decided
<1>3. QED
  BY <1>1, <1>2 DEF Closed

-----------------------------------------------------------------------------
(* The inductive invariant behind ReleasedOnlyWhenSettled: no two spends    *)
(* are held under one id, and what the state file holds and memory does not *)
(* is settled, or is the spend being sent.                                  *)

UniqueIds ==
    /\ \A s, t \in pending : s.id = t.id => s = t
    /\ \A s, t \in disk.pending : s.id = t.id => s = t

Awaited(s) == pc = "executing" /\ s = cur

Accounted == \A s \in disk.pending \ pending : Closed(s) \/ Awaited(s)

Ledgered == UniqueIds /\ Accounted

LEMMA InitLedgered == Init => Ledgered
BY DEF Init, Ledgered, UniqueIds, Accounted

LEMMA StepUniqueIds ==
    ASSUME TypeOK, UniqueIds, [Next]_vars
    PROVE  UniqueIds'
<1>1. CASE HoldForApproval
  <2>1. \A s, t \in pending' : s.id = t.id => s = t
    BY <1>1 DEF HoldForApproval, Without, UniqueIds
  <2>2. QED
    BY <1>1, <2>1 DEF HoldForApproval, Persist, Memory, UniqueIds
<1>2. CASE ApplyApprove
  BY <1>2 DEF ApplyApprove, Without, UniqueIds
<1>3. CASE ApplyDeny
  BY <1>3 DEF ApplyDeny, Without, UniqueIds
<1>4. CASE FinishBatch
  BY <1>4 DEF FinishBatch, PersistResolved, Persist, Memory, UniqueIds
<1>5. CASE Restart
  BY <1>5 DEF Restart, Reload, UniqueIds
<1>6. CASE ~ (HoldForApproval \/ ApplyApprove \/ ApplyDeny \/ FinishBatch \/ Restart)
  <2>1. UNCHANGED <<pending, disk>>
    BY <1>6
       DEF vars, memory, Next, Proposing, Finishing, OwnerActs, ProposeWithinPolicy,
           ProposeOverPolicy, NotifyOk, NotifyFails, TransferOk, TransferFails,
           IgnoreDecision, ApplyConfigure, Poll, PollLost, Decide, ConfigurePolicy,
           Publish
  <2>2. QED
    BY <2>1 DEF UniqueIds
<1>7. QED
  BY <1>1, <1>2, <1>3, <1>4, <1>5, <1>6

(* A transfer of an approved spend that is over has reached the chain. *)
LEMMA TransferSettles ==
    ASSUME TypeOK, "send_error" \notin Faults, TransferOk \/ TransferFails,
           NEW s, Awaited(s)
    PROVE  WasExecuted(s)'
<1>1. executed \in Seq(Transfer)
  BY DEF TypeOK, HistoryOK
<1>2. executed' = Append(executed, OnChain(cur))
  BY DEF TransferOk, TransferFails, Fault
<1>3. /\ Len(executed) + 1 \in DOMAIN executed'
      /\ executed'[Len(executed) + 1].id = s.id
      /\ executed'[Len(executed) + 1].amount = s.amount
  BY <1>1, <1>2 DEF OnChain, Awaited
<1>4. QED
  BY <1>3 DEF WasExecuted

LEMMA StepAccounted ==
    ASSUME TypeOK, Provenance, IdsFresh, Ledgered, "send_error" \notin Faults,
           [Next]_vars
    PROVE  Accounted'
<1> SUFFICES ASSUME NEW s \in disk'.pending \ pending'
             PROVE  Closed(s)' \/ Awaited(s)'
  BY DEF Accounted, Closed, WasExecuted, Decided, Awaited
<1>1. CASE HoldForApproval
  <2>1. UNCHANGED disk
    BY <1>1 DEF HoldForApproval, Persist, Memory
  <2>2. s \notin pending
    <3>1. cur.id = nextId /\ nextId \in Nat /\ \A t \in pending : t.id < nextId
      BY <1>1 DEF HoldForApproval, IdsFresh, CurApart, HeldBelow, TypeOK, StateOK
    <3>2. QED
      BY <1>1, <3>1 DEF HoldForApproval, Without
  <2>3. Closed(s)
    BY <1>1, <2>1, <2>2 DEF HoldForApproval, Ledgered, Accounted, Awaited
  <2>4. QED
    BY <2>3, ClosedStable
<1>2. CASE ApplyApprove
  <2>1. UNCHANGED disk /\ pc = "applying" /\ pc' = "executing"
    BY <1>2 DEF ApplyApprove, Applying
  <2>2. CASE s \in pending
    BY <1>2, <2>1, <2>2 DEF ApplyApprove, Without, Ledgered, UniqueIds, Awaited
  <2>3. CASE s \notin pending
    <3>1. Closed(s)
      BY <2>1, <2>3 DEF Ledgered, Accounted, Awaited
    <3>2. QED
      BY <3>1, ClosedStable
  <2>4. QED
    BY <2>2, <2>3
<1>3. CASE ApplyDeny
  <2>1. UNCHANGED disk /\ pc = "applying"
    BY <1>3 DEF ApplyDeny, Applying
  <2>2. CASE s \in pending
    <3>1. 1 \in DOMAIN batch /\ batch[1].kind = "deny" /\ batch[1].id = s.id
      BY <1>3, <2>2 DEF ApplyDeny, Applying, Without, TypeOK, RuntimeOK
    <3>2. Closed(s)
      BY <3>1 DEF Provenance, Sanctioned, Closed
    <3>3. QED
      BY <3>2, ClosedStable
  <2>3. CASE s \notin pending
    <3>1. Closed(s)
      BY <2>1, <2>3 DEF Ledgered, Accounted, Awaited
    <3>2. QED
      BY <3>1, ClosedStable
  <2>4. QED
    BY <2>2, <2>3
<1>4. CASE FinishBatch
  <2>1. UNCHANGED <<disk, pending>> /\ pc = "applying"
    BY <1>4 DEF FinishBatch, PersistResolved, Persist, Memory
  <2>2. Closed(s)
    BY <2>1 DEF Ledgered, Accounted, Awaited
  <2>3. QED
    BY <2>2, ClosedStable
<1>5. CASE Restart
  BY <1>5 DEF Restart, Reload
<1>6. CASE TransferOk \/ TransferFails
  <2>1. UNCHANGED <<disk, pending>>
    BY <1>6 DEF TransferOk, TransferFails, memory
  <2>2. Closed(s) \/ Awaited(s)
    BY <2>1 DEF Ledgered, Accounted
  <2>3. Awaited(s) => WasExecuted(s)'
    BY <1>6, TransferSettles
  <2>4. WasExecuted(s)' => Closed(s)'
    BY DEF Closed, WasExecuted
  <2>5. QED
    BY <2>2, <2>3, <2>4, ClosedStable
<1>7. CASE ~ \/ HoldForApproval \/ ApplyApprove \/ ApplyDeny \/ FinishBatch
             \/ Restart \/ TransferOk \/ TransferFails
  <2>1. UNCHANGED <<disk, pending>>
    BY <1>7
       DEF vars, memory, Next, Proposing, Finishing, OwnerActs, ProposeWithinPolicy,
           ProposeOverPolicy, NotifyOk, NotifyFails, IgnoreDecision, ApplyConfigure,
           Poll, PollLost, Decide, ConfigurePolicy, Publish
  <2>2. pc = "executing" => UNCHANGED <<pc, cur>>
    BY <1>7
       DEF vars, runtime, Next, Proposing, Finishing, OwnerActs, Propose,
           ProposeWithinPolicy, ProposeOverPolicy, NotifyOk, NotifyFails, Applying,
           IgnoreDecision, ApplyConfigure, Poll, PollLost, Decide, ConfigurePolicy,
           Publish
  <2>3. Closed(s) \/ Awaited(s)
    BY <2>1 DEF Ledgered, Accounted
  <2>4. QED
    BY <2>2, <2>3, ClosedStable DEF Awaited
<1>8. QED
  BY <1>1, <1>2, <1>3, <1>4, <1>5, <1>6, <1>7

(* What the state file lets go of is settled. *)
LEMMA LetGo ==
    ASSUME TypeOK, IdsFresh, Ledgered, [Next]_vars,
           NEW s \in disk.pending \ disk'.pending
    PROVE  Closed(s)
<1>1. CASE HoldForApproval
  <2>1. disk'.pending = pending' /\ pc = "holding"
    BY <1>1 DEF HoldForApproval, Persist, Memory
  <2>2. cur.id = nextId /\ nextId \in Nat /\ \A t \in pending : t.id < nextId
    BY <1>1 DEF HoldForApproval, IdsFresh, CurApart, HeldBelow, TypeOK, StateOK
  <2>3. s \notin pending
    BY <1>1, <2>1, <2>2 DEF HoldForApproval, Without
  <2>4. QED
    BY <2>1, <2>3 DEF Ledgered, Accounted, Awaited
<1>2. CASE FinishBatch
  <2>1. disk'.pending = pending /\ pc = "applying"
    BY <1>2 DEF FinishBatch, PersistResolved, Persist, Memory
  <2>2. QED
    BY <2>1 DEF Ledgered, Accounted, Awaited
<1>3. CASE ~ (HoldForApproval \/ FinishBatch)
  BY <1>3
     DEF vars, Next, Proposing, Finishing, OwnerActs, ProposeWithinPolicy,
         ProposeOverPolicy, NotifyOk, NotifyFails, TransferOk, TransferFails,
         ApplyApprove, ApplyDeny, IgnoreDecision, ApplyConfigure, Poll, PollLost,
         Restart, Decide, ConfigurePolicy, Publish
<1>4. QED
  BY <1>1, <1>2, <1>3

LEMMA StepLedgered ==
    ASSUME TypeOK, Provenance, IdsFresh, Ledgered, "send_error" \notin Faults,
           [Next]_vars
    PROVE  Ledgered'
BY StepUniqueIds, StepAccounted DEF Ledgered

LEMMA StepIdsFresh == TypeOK /\ IdsFresh /\ [Next]_vars => IdsFresh'
BY StepHeldBelow, StepCurApart, StepExecutedApart, StepAtMostOnce DEF IdsFresh

(* Everything the theorems below rest on, as one invariant. *)
Kept == TypeOK /\ Provenance /\ IdsFresh /\ Ledgered

LEMMA KeptAlways ==
    ASSUME "send_error" \notin Faults
    PROVE  Spec => []Kept
<1>1. Init => Kept
  BY InitTypeOK, InitProvenance, InitIdsFresh, InitLedgered DEF Kept
<1>2. Kept /\ [Next]_vars => Kept'
  BY StepTypeOK, StepProvenance, StepIdsFresh, StepLedgered DEF Kept
<1>3. QED
  BY <1>1, <1>2, PTL DEF Spec

(* What Promise!Keep says of leaving the book, of the runtime itself: the   *)
(* state file lets go of a held spend only once the spend reached the chain *)
(* or the owner denied its id.                                              *)
ReleasedOnlyWhenSettled ==
    [][\A s \in disk.pending \ disk'.pending :
          WasExecuted(s) \/ Decided(s.id, "deny")]_vars

(* Provided the wallet does not refuse an approved transfer, the state file *)
(* lets go of a held spend only once it reached the chain or the owner      *)
(* denied its id, whatever else fails and whenever the process dies         *)
(* (owner.rs:274-286).                                                      *)
THEOREM ReleasesOnlySettled ==
    ASSUME "send_error" \notin Faults
    PROVE  Spec => ReleasedOnlyWhenSettled
<1>1. Kept /\ [Next]_vars =>
        [\A s \in disk.pending \ disk'.pending :
            WasExecuted(s) \/ Decided(s.id, "deny")]_vars
  BY LetGo DEF Kept, Closed
<1>2. QED
  BY <1>1, KeptAlways, PTL DEF Spec, ReleasedOnlyWhenSettled

-----------------------------------------------------------------------------
(* What is left of it when the wallet may refuse an approved transfer and   *)
(* the runtime forgets the spend: what the state file holds and memory does *)
(* not, the owner has decided about.                                        *)

Answered(s) == Decided(s.id, "approve") \/ Decided(s.id, "deny")

ForgottenIsAnswered == \A s \in disk.pending \ pending : Answered(s)

LEMMA AnsweredStable ==
    ASSUME TypeOK, [Next]_vars, NEW s, Answered(s)
    PROVE  Answered(s)'
<1>1. PICK id : id = s.id
  OBVIOUS
<1>2. PICK verdict \in {"approve", "deny"} : Decided(id, verdict)
  BY <1>1 DEF Answered
<1>3. Decided(id, verdict)'
  BY <1>2, DecidedStable
<1>4. QED
  BY <1>1, <1>2, <1>3 DEF Answered, Decided

(* A spend leaves memory, other than by a restart, when a decision about    *)
(* its id is applied: the id a new spend takes is nobody else's.            *)
LEMMA LeavesMemory ==
    ASSUME TypeOK, Provenance, IdsFresh, [Next]_vars, ~ Restart,
           NEW s \in pending \ pending'
    PROVE  Answered(s)
<1>1. CASE HoldForApproval
  <2>1. cur.id = nextId /\ nextId \in Nat /\ \A t \in pending : t.id < nextId
    BY <1>1 DEF HoldForApproval, IdsFresh, CurApart, HeldBelow, TypeOK, StateOK
  <2>2. QED
    BY <1>1, <2>1 DEF HoldForApproval, Without
<1>2. CASE ApplyApprove \/ ApplyDeny
  <2>1. batch \in Seq(OwnerMessage) /\ batch # <<>>
    BY <1>2 DEF ApplyApprove, ApplyDeny, Applying, TypeOK, RuntimeOK
  <2>2. /\ 1 \in DOMAIN batch /\ batch[1].kind \in {"approve", "deny"}
        /\ batch[1].id = s.id
    BY <1>2, <2>1 DEF ApplyApprove, ApplyDeny, Applying, ReleasingVerdicts, Without
  <2>3. Decided(batch[1].id, batch[1].kind)
    BY <2>2 DEF Provenance, Sanctioned
  <2>4. QED
    BY <2>2, <2>3 DEF Answered
<1>3. CASE ~ (HoldForApproval \/ ApplyApprove \/ ApplyDeny)
  BY <1>3
     DEF vars, memory, Next, Proposing, Finishing, OwnerActs, ProposeWithinPolicy,
         ProposeOverPolicy, NotifyOk, NotifyFails, TransferOk, TransferFails,
         IgnoreDecision, ApplyConfigure, FinishBatch, Poll, PollLost, Decide,
         ConfigurePolicy, Publish
<1>4. QED
  BY <1>1, <1>2, <1>3

(* The state file is left alone, or written with what memory holds. *)
LEMMA DiskSteps ==
    ASSUME [Next]_vars
    PROVE  UNCHANGED disk \/ (disk'.pending = pending' /\ ~ Restart)
<1>1. CASE HoldForApproval \/ FinishBatch
  <2>1. ~ Restart \/ UNCHANGED disk
    BY DEF Restart
  <2>2. QED
    BY <1>1, <2>1
       DEF HoldForApproval, FinishBatch, PersistResolved, Persist, Memory
<1>2. CASE ~ (HoldForApproval \/ FinishBatch)
  BY <1>2
     DEF vars, Next, Proposing, Finishing, OwnerActs, ProposeWithinPolicy,
         ProposeOverPolicy, NotifyOk, NotifyFails, TransferOk, TransferFails,
         ApplyApprove, ApplyDeny, IgnoreDecision, ApplyConfigure, Poll, PollLost,
         Restart, Decide, ConfigurePolicy, Publish
<1>3. QED
  BY <1>1, <1>2

LEMMA InitForgotten == Init => ForgottenIsAnswered
BY DEF Init, ForgottenIsAnswered

LEMMA StepForgotten ==
    ASSUME TypeOK, Provenance, IdsFresh, ForgottenIsAnswered, [Next]_vars
    PROVE  ForgottenIsAnswered'
<1> SUFFICES ASSUME NEW s \in disk'.pending \ pending'
             PROVE  Answered(s)'
  BY DEF ForgottenIsAnswered, Answered, Decided
<1>1. s \in disk.pending /\ ~ Restart
  BY DiskSteps DEF Restart, Reload
<1>2. Answered(s)
  BY <1>1, LeavesMemory DEF ForgottenIsAnswered
<1>3. QED
  BY <1>2, AnsweredStable

(* Whatever fails, a refused transfer included, and whenever the process    *)
(* dies, the state file lets go of no spend the owner has said nothing      *)
(* about (owner.rs:274-286, 414).                                           *)
THEOREM ReleasesOnlyDecided == Spec => ReleasedOnlyWhenDecided
<1>1. TypeOK /\ Provenance /\ IdsFresh /\ ForgottenIsAnswered /\ [Next]_vars =>
        [\A s \in disk.pending \ disk'.pending :
            Decided(s.id, "approve") \/ Decided(s.id, "deny")]_vars
  <2> SUFFICES ASSUME TypeOK, Provenance, IdsFresh, ForgottenIsAnswered, [Next]_vars,
                      NEW s \in disk.pending \ disk'.pending
               PROVE  Answered(s)
    BY DEF Answered
  <2>1. s \notin pending' /\ ~ Restart
    BY DiskSteps
  <2>2. QED
    BY <2>1, LeavesMemory DEF ForgottenIsAnswered
<1>2. QED
  BY <1>1, InitTypeOK, InitProvenance, InitIdsFresh, InitForgotten, StepTypeOK,
     StepProvenance, StepIdsFresh, StepForgotten, PTL
     DEF Spec, ReleasedOnlyWhenDecided

-----------------------------------------------------------------------------
(* The refinement. *)

LEMMA InitPromise == Init => Promise!Init
BY DEF Init, Promise!Init, Shown, Verdicts, Paid, Range

(* What the histories of the two specifications have in common. *)
LEMMA ShownIsAnnounced ==
    ASSUME NEW s, Announced(s)
    PROVE  [id |-> s.id, amount |-> s.amount] \in Shown
BY DEF Announced, Request, Shown, Range

LEMMA PaidIsExecuted ==
    ASSUME NEW s \in Held, WasExecuted(s)
    PROVE  s \in Paid
<1>1. PICK i \in DOMAIN executed :
              executed[i].id = s.id /\ executed[i].amount = s.amount
  BY DEF WasExecuted
<1>2. executed[i].id # NoId
  BY <1>1, ConstantsAssumption DEF Held, ConstantsAssumption
<1>3. s = [id |-> s.id, amount |-> s.amount]
  BY DEF Held
<1>4. QED
  BY <1>1, <1>2, <1>3 DEF Paid, Range

LEMMA VerdictsAreDecided ==
    ASSUME NEW id, NEW verdict, Decided(id, verdict)
    PROVE  [id |-> id, verdict |-> verdict] \in Verdicts
BY DEF Decided, Verdicts, Range

(* Publishing a request asks; any other publication asks nothing. *)
LEMMA ShownSteps ==
    ASSUME TypeOK, [Next]_vars
    PROVE  Shown \subseteq Shown'
<1>1. toOwner \in Seq(AgentMessage)
  BY DEF TypeOK, TopicsOK
<1>2. \A i \in DOMAIN toOwner : i \in DOMAIN toOwner' /\ toOwner'[i] = toOwner[i]
  BY <1>1, ToOwnerSteps
<1>3. QED
  BY <1>2 DEF Shown, Range

LEMMA NoticeAsksNothing ==
    ASSUME TypeOK, NEW s, toOwner' = Append(toOwner, SpentNotice(s))
    PROVE  Shown' = Shown
<1>1. toOwner \in Seq(AgentMessage)
  BY DEF TypeOK, TopicsOK
<1>2. SpentNotice(s).kind # "request"
  BY DEF SpentNotice
<1>3. \A i \in DOMAIN toOwner' : toOwner'[i].kind = "request" =>
         i \in DOMAIN toOwner /\ toOwner'[i] = toOwner[i]
  BY <1>1, <1>2
<1>4. \A i \in DOMAIN toOwner : i \in DOMAIN toOwner' /\ toOwner'[i] = toOwner[i]
  BY <1>1
<1>5. QED
  BY <1>3, <1>4 DEF Shown, Range

LEMMA StepAsk ==
    ASSUME TypeOK, [Next]_vars, NotifyOk \/ NotifyFails
    PROVE  Promise!Ask
<1>1. UNCHANGED <<decisions, disk, executed>>
  BY DEF NotifyOk, NotifyFails, owner
<1>2. QED
  BY <1>1, ShownSteps DEF Promise!Ask, Verdicts, Paid

LEMMA StepAnswer ==
    ASSUME TypeOK, [Next]_vars,
           NEW i \in DOMAIN toOwner, NEW verdict \in {"approve", "deny"},
           Decide(toOwner[i], verdict)
    PROVE  Promise!Answer
<1>1. PICK request : request = toOwner[i]
  OBVIOUS
<1> DEFINE dec == [id |-> request.id, amount |-> request.amount, verdict |-> verdict]
<1>2. /\ decisions' = Append(decisions, dec)
      /\ UNCHANGED <<toOwner, disk, executed>>
      /\ request.kind = "request"
  BY <1>1 DEF Decide, Publish
<1>3. decisions \in Seq(Judgement)
  BY DEF TypeOK, HistoryOK
<1>4. Range(decisions)' = Range(decisions) \cup {dec}
  <2>1. Len(decisions) \in Nat /\ DOMAIN decisions = 1 .. Len(decisions)
    BY <1>3
  <2> HIDE DEF dec
  <2>2. /\ DOMAIN Append(decisions, dec) = DOMAIN decisions \cup {Len(decisions) + 1}
        /\ \A d \in DOMAIN decisions : Append(decisions, dec)[d] = decisions[d]
        /\ Append(decisions, dec)[Len(decisions) + 1] = dec
    BY <1>3, <2>1
  <2>3. QED
    BY <1>2, <2>2 DEF Range
<1>5. Verdicts' = Verdicts \cup {[id |-> request.id, verdict |-> verdict]}
  <2>1. dec.id = request.id /\ dec.verdict = verdict
    OBVIOUS
  <2> HIDE DEF dec
  <2>2. QED
    BY <1>4, <2>1 DEF Verdicts
<1>6. [id |-> request.id, amount |-> request.amount] \in Shown
  BY <1>1, <1>2 DEF Shown, Range
<1>7. \A v \in Verdicts' \ Verdicts : \E s \in Shown : s.id = v.id
  BY <1>5, <1>6
<1>8. QED
  BY <1>2, <1>5, <1>7 DEF Promise!Answer, Shown, Paid

LEMMA StepPay ==
    ASSUME TypeOK, Provenance, [Next]_vars,
           TransferOk \/ TransferFails \/ Restart
    PROVE  Promise!Pay \/ UNCHANGED <<Shown, Verdicts, disk, Paid>>
<1>1. UNCHANGED <<decisions, disk>>
  BY DEF TransferOk, TransferFails, Restart, owner
<1>2. Shown' = Shown
  <2>1. CASE UNCHANGED toOwner
    BY <2>1 DEF Shown
  <2>2. CASE toOwner' = Append(toOwner, SpentNotice(cur))
    BY <2>2, NoticeAsksNothing
  <2>3. QED
    BY <2>1, <2>2 DEF TransferOk, TransferFails, Restart
<1>3. CASE UNCHANGED executed
  BY <1>1, <1>2, <1>3 DEF Verdicts, Paid
<1>4. CASE InTransfer /\ executed' = Append(executed, OnChain(cur))
  <2>1. executed \in Seq(Transfer)
    BY DEF TypeOK, HistoryOK
  <2>2. Range(executed)' = Range(executed) \cup {OnChain(cur)}
    BY <1>4, <2>1 DEF Range
  <2> DEFINE s == [id |-> cur.id, amount |-> cur.amount]
  <2>3. Paid \subseteq Paid' /\ \A t \in Paid' \ Paid : t = s /\ cur.id # NoId
    BY <2>2 DEF Paid, OnChain
  <2>4. cur.id # NoId => pc = "executing"
    BY <1>4 DEF InTransfer, TypeOK, RuntimeOK
  <2>5. cur.id # NoId => s \in Shown
    BY <2>4, ShownIsAnnounced DEF Provenance
  <2>6. cur.id # NoId => [id |-> cur.id, verdict |-> "approve"] \in Verdicts
    BY <2>4, VerdictsAreDecided DEF Provenance
  <2>7. UNCHANGED Verdicts
    BY <1>1 DEF Verdicts
  <2>8. QED
    BY <1>1, <1>2, <2>3, <2>5, <2>6, <2>7 DEF Promise!Pay, Promise!Answered
<1>5. QED
  BY <1>3, <1>4, ExecutedSteps

LEMMA StepKeep ==
    ASSUME Kept, [Next]_vars, HoldForApproval \/ FinishBatch
    PROVE  Promise!Keep
<1>0. TypeOK /\ TypeOK' /\ Provenance /\ Provenance' /\ IdsFresh /\ Ledgered
  BY StepTypeOK, StepProvenance DEF Kept
<1>1. UNCHANGED <<toOwner, decisions, executed>>
  BY DEF HoldForApproval, FinishBatch, owner
<1>2. UNCHANGED <<Shown, Verdicts, Paid>>
  BY <1>1 DEF Shown, Verdicts, Paid
<1>3. ASSUME NEW s \in disk'.pending
      PROVE  s \in Shown
  <2>1. s \in Held
    BY <1>0 DEF TypeOK, StateOK
  <2>2. Announced(s)
    BY <1>0, <1>1 DEF Provenance, HeldWasAnnounced, Announced, Request
  <2>3. s = [id |-> s.id, amount |-> s.amount]
    BY <2>1 DEF Held
  <2>4. QED
    BY <2>2, <2>3, ShownIsAnnounced
<1>4. ASSUME NEW s \in disk.pending \ disk'.pending
      PROVE  Promise!Settled(s)
  <2>1. s \in Held
    BY <1>0 DEF TypeOK, StateOK
  <2>2. Closed(s)
    BY <1>0, LetGo
  <2>3. QED
    BY <2>1, <2>2, PaidIsExecuted, VerdictsAreDecided
       DEF Closed, Promise!Settled, Promise!Answered
<1>5. QED
  BY <1>2, <1>3, <1>4 DEF Promise!Keep

(* Every step of the runtime, the owner or the environment is a step of the *)
(* promise, or changes nothing of it.                                       *)
LEMMA StepPromise ==
    ASSUME Kept, [Next]_vars
    PROVE  [Promise!Next]_(Promise!asks)
<1>0. TypeOK /\ Provenance
  BY DEF Kept
<1>1. CASE NotifyOk \/ NotifyFails
  BY <1>0, <1>1, StepAsk DEF Promise!Next
<1>2. CASE \E i \in DOMAIN toOwner, verdict \in {"approve", "deny"} :
              Decide(toOwner[i], verdict)
  BY <1>0, <1>2, StepAnswer DEF Promise!Next
<1>3. CASE TransferOk \/ TransferFails \/ Restart
  BY <1>0, <1>3, StepPay DEF Promise!Next, Promise!asks
<1>4. CASE HoldForApproval \/ FinishBatch
  BY <1>4, StepKeep DEF Promise!Next
<1>5. CASE UNCHANGED <<toOwner, decisions, disk, executed>>
  BY <1>5 DEF Promise!asks, Shown, Verdicts, Paid
<1>6. QED
  BY <1>1, <1>2, <1>3, <1>4, <1>5
     DEF vars, owner, Next, Proposing, Finishing, OwnerActs, ProposeWithinPolicy,
         ProposeOverPolicy, ApplyApprove, ApplyDeny, IgnoreDecision, ApplyConfigure,
         Poll, PollLost, ConfigurePolicy, Publish

(* The runtime, with its topics, its file, its retries and its crashes,     *)
(* implements the promise, provided the wallet does not refuse an approved  *)
(* transfer (owner.rs:345-347).                                             *)
THEOREM KeepsPromise ==
    ASSUME "send_error" \notin Faults
    PROVE  Spec => PromiseKept
<1>1. QED
  BY InitPromise, StepPromise, KeptAlways, PTL DEF Spec, PromiseKept, Promise!Spec
=============================================================================
