--------------------------- MODULE OwnerApproval ---------------------------
(***************************************************************************)
(* The agent-side runtime of the owner channel (src/owner.rs) and the      *)
(* restart of the deployed agent (src/bin/agent.rs).                       *)
(*                                                                         *)
(* The host of the runtime either proposes a spend or polls the topic the  *)
(* owner writes to.  A spend within the policy is sent at once; a spend    *)
(* over it is announced to the owner and held until a decision for its     *)
(* request id is read.  The runtime owns itself mutably, so its handlers   *)
(* never interleave with each other; between two of its awaits the owner   *)
(* may publish, a call to the wallet or to the messaging node may fail,    *)
(* and the process may die.                                                *)
(*                                                                         *)
(* A spend is its amount: two spends to different recipients are two       *)
(* amounts.  The period allowance is abstracted to its verdict, which is   *)
(* any the configured limit leaves possible (module SpendingPolicy keeps   *)
(* the accumulator).                                                       *)
(***************************************************************************)
EXTENDS Integers, Sequences, FiniteSets, Functions

CONSTANTS
    Amounts,          \* amounts a spend may have
    Limits,           \* values the owner may configure a limit to
    DeployPolicy,     \* the policy of the agent's command line
    NOTIFY_ATTEMPTS,  \* publish attempts before an approval request is given up
    Backend,          \* "cumulative" (InMemoryMessaging) or "evicting" (nwaku)
    Faults,           \* the kinds of fault that may happen
    MaxFaults,        \* bound: how many faults happen
    MaxProposals,     \* bound: how many spends are proposed
    MaxOwnerMsgs,     \* bound: how many messages the owner publishes
    NoId              \* the id of a spend that needed no request

PolicyKeys == {"per_tx", "per_period"}

FaultKinds == {"publish_lost", "publish_ambiguous", "poll_lost", "send_error",
               "send_ambiguous", "persist_error", "crash", "restart"}

ASSUME ConstantsAssumption ==
    /\ Amounts \subseteq Nat
    /\ Limits \subseteq Nat
    /\ DeployPolicy \in [PolicyKeys -> Nat]
    /\ NOTIFY_ATTEMPTS \in Nat \ {0}
    /\ Backend \in {"cumulative", "evicting"}
    /\ Faults \subseteq FaultKinds
    /\ MaxFaults \in Nat
    /\ MaxProposals \in Nat
    /\ MaxOwnerMsgs \in Nat
    /\ NoId \notin Nat

VARIABLES
    pc,         \* the await the runtime is suspended at
    cur,        \* the spend the current call is about
    tries,      \* failed attempts of the current request_approval
    batch,      \* messages of the current poll not applied yet
    resolved,   \* whether the current poll has resolved anything
    pending,    \* AgentRuntime::pending, a set of [id, amount]
    nextId,     \* AgentRuntime::next_id
    policy,     \* the agent's SpendingPolicy
    disk,       \* the state file: the pending and nextId last written
    toOwner,    \* everything published on the agent -> owner topic
    toAgent,    \* what the owner -> agent topic still returns to a poll
    life,       \* how many times the agent was restarted
    budget,     \* what is left of the three bounds
    executed,   \* history: every transfer that reached the chain
    decisions,  \* history: every decision of the owner, with what it was about
    ordered,    \* history: the policy the owner's messages amount to
    unread      \* history: owner messages published since the last poll

runtime == <<pc, cur, tries, batch, resolved>>
memory  == <<pending, nextId, policy>>
owner   == <<decisions, ordered>>
vars    == <<runtime, memory, disk, toOwner, toAgent, life, budget, executed,
             owner, unread>>

-----------------------------------------------------------------------------
Held == [id : Nat, amount : Amounts]
Idle == [id |-> NoId, amount |-> 0]

Decision     == [kind : {"approve", "deny"}, id : Nat]
Configure    == [kind : PolicyKeys, value : Limits]
OwnerMessage == Decision \cup Configure
AgentMessage == [kind : {"request"}, id : Nat, amount : Amounts]
                    \cup [kind : {"spent"}, amount : Amounts]

Transfer     == [id : Nat \cup {NoId}, amount : Amounts, life : Nat]
Judgement    == [id : Nat, amount : Amounts, verdict : {"approve", "deny"}]

Request(s)    == [kind |-> "request", id |-> s.id, amount |-> s.amount]
SpentNotice(s) == [kind |-> "spent", amount |-> s.amount]
OnChain(s)    == [id |-> s.id, amount |-> s.amount, life |-> life]

Without_KeepsEntry(held, id) == held

Without(held, id) == {s \in held : s.id # id}
IsHeld(id)        == \E s \in pending : s.id = id

Memory == [pending |-> pending, nextId |-> nextId]

Fault(kind) ==
    /\ kind \in Faults
    /\ budget.faults > 0
    /\ budget' = [budget EXCEPT !.faults = @ - 1]

NoFault == UNCHANGED budget

(* pending and next_id come back from the state file. *)
Reload_FreshPending == pending' = {} /\ nextId' = disk.nextId

Reload == pending' = disk.pending /\ nextId' = disk.nextId

(* The state file is rewritten whole; a failed write leaves the old one. *)
Persist ==
    \/ NoFault /\ disk' = Memory'
    \/ Fault("persist_error") /\ UNCHANGED disk

-----------------------------------------------------------------------------
(* The first start finds no state file, so with_state writes an empty one. *)
Init ==
    /\ pc = "idle" /\ cur = Idle /\ tries = 0 /\ batch = <<>> /\ resolved = FALSE
    /\ pending = {} /\ nextId = 0 /\ policy = DeployPolicy
    /\ disk = [pending |-> {}, nextId |-> 0]
    /\ toOwner = <<>> /\ toAgent = <<>>
    /\ life = 0
    /\ budget = [faults |-> MaxFaults, proposals |-> MaxProposals,
                 ownerMsgs |-> MaxOwnerMsgs]
    /\ executed = <<>> /\ decisions = <<>> /\ ordered = DeployPolicy /\ unread = 0

-----------------------------------------------------------------------------
(* Proposing a spend. *)

Propose == /\ pc = "idle"
           /\ budget.proposals > 0
           /\ budget' = [budget EXCEPT !.proposals = @ - 1]

(* check_policy may allow the amount: propose_send calls the wallet. *)
ProposeWithinPolicy(amount) ==
    /\ Propose
    /\ amount <= policy["per_tx"]
    /\ policy["per_period"] = 0 \/ amount <= policy["per_period"]
    /\ pc' = "spending"
    /\ cur' = [id |-> NoId, amount |-> amount]
    /\ UNCHANGED <<tries, batch, resolved, memory, disk, toOwner, toAgent, life,
                   executed, owner, unread>>

(* check_policy may refuse it: hold_for_approval starts with the request.  *)
(* An amount within per_tx trips the period limit or not depending on the  *)
(* accumulator.                                                            *)
ProposeOverPolicy(amount) ==
    /\ Propose
    /\ amount > policy["per_tx"] \/ policy["per_period"] # 0
    /\ pc' = "notifying"
    /\ cur' = [id |-> nextId, amount |-> amount]
    /\ tries' = 0
    /\ UNCHANGED <<batch, resolved, memory, disk, toOwner, toAgent, life,
                   executed, owner, unread>>

NotifyOk ==
    /\ pc = "notifying"
    /\ pc' = "holding"
    /\ toOwner' = Append(toOwner, Request(cur))
    /\ UNCHANGED <<cur, tries, batch, resolved, memory, disk, toAgent, life,
                   budget, executed, owner, unread>>

LastAttempt_OneMore == tries = NOTIFY_ATTEMPTS

LastAttempt == tries + 1 = NOTIFY_ATTEMPTS

GiveUp_HoldsAnyway == pc' = "holding" /\ UNCHANGED cur

GiveUp == pc' = "idle" /\ cur' = Idle

(* An attempt fails, with or without the message having been published (the *)
(* answer of the node may be lost); the last one makes the call return Err. *)
NotifyFails ==
    /\ pc = "notifying"
    /\ \/ Fault("publish_lost") /\ UNCHANGED toOwner
       \/ Fault("publish_ambiguous") /\ toOwner' = Append(toOwner, Request(cur))
    /\ IF LastAttempt
         THEN tries' = 0 /\ GiveUp
         ELSE tries' = tries + 1 /\ UNCHANGED <<pc, cur>>
    /\ UNCHANGED <<batch, resolved, memory, disk, toAgent, life, executed, owner,
                   unread>>

TakeId_Reuses == UNCHANGED nextId

TakeId == nextId' = nextId + 1

HoldForApproval ==
    /\ pc = "holding"
    /\ TakeId
    /\ pending' = Without(pending, cur.id) \cup {cur}
    /\ Persist
    /\ pc' = "idle" /\ cur' = Idle /\ tries' = 0
    /\ UNCHANGED <<batch, resolved, policy, toOwner, toAgent, life, executed,
                   owner, unread>>

-----------------------------------------------------------------------------
(* The wallet call of an autonomous or of an approved spend. *)

InTransfer == pc \in {"spending", "executing"}

(* The transfer returns Ok, then the owner is told, best effort. *)
TransferOk ==
    /\ InTransfer
    /\ executed' = Append(executed, OnChain(cur))
    /\ \/ NoFault /\ toOwner' = Append(toOwner, SpentNotice(cur))
       \/ Fault("publish_lost") /\ UNCHANGED toOwner
    /\ cur' = Idle
    /\ IF pc = "executing"
         THEN pc' = "applying" /\ resolved' = TRUE
         ELSE pc' = "idle" /\ UNCHANGED resolved
    /\ UNCHANGED <<tries, batch, memory, disk, toAgent, life, owner, unread>>

TransferFails_Retries ==
    /\ InTransfer
    /\ \/ Fault("send_error") /\ UNCHANGED executed
       \/ Fault("send_ambiguous") /\ executed' = Append(executed, OnChain(cur))
    /\ UNCHANGED <<runtime, memory, disk, toOwner, toAgent, life, owner, unread>>

(* The transfer returns Err, having reached the chain or not.  The error   *)
(* leaves the handler at once: whatever is left of the poll is dropped and *)
(* nothing is persisted.                                                   *)
TransferFails ==
    /\ InTransfer
    /\ \/ Fault("send_error") /\ UNCHANGED executed
       \/ Fault("send_ambiguous") /\ executed' = Append(executed, OnChain(cur))
    /\ pc' = "idle" /\ cur' = Idle /\ batch' = <<>> /\ resolved' = FALSE
    /\ UNCHANGED <<tries, memory, disk, toOwner, toAgent, life, owner, unread>>

-----------------------------------------------------------------------------
(* process_owner_messages. *)

(* What a poll returns, and what the topic keeps after it: a position kept  *)
(* across polls would be wrong where the topic evicts (owner.rs:392).        *)
Fetched_Cursor ==
    LET seen == MaxOwnerMsgs - budget.ownerMsgs - unread
    IN  SubSeq(toAgent, seen + 1, Len(toAgent))

Fetched == toAgent

AfterRead == IF Backend = "evicting" THEN <<>> ELSE toAgent

Poll ==
    /\ pc = "idle"
    /\ pc' = "applying"
    /\ batch' = Fetched
    /\ toAgent' = AfterRead
    /\ resolved' = FALSE
    /\ unread' = 0
    /\ UNCHANGED <<cur, tries, memory, disk, toOwner, life, budget, executed, owner>>

(* The node served and evicted the messages, and its answer was lost. *)
PollLost ==
    /\ pc = "idle"
    /\ toAgent # <<>>
    /\ Fault("poll_lost")
    /\ toAgent' = AfterRead
    /\ UNCHANGED <<runtime, memory, disk, toOwner, life, executed, owner, unread>>

Applying(kinds) ==
    /\ pc = "applying"
    /\ batch # <<>>
    /\ Head(batch).kind \in kinds
    /\ batch' = Tail(batch)

ReleasingVerdicts_Any == {"approve", "deny"}

ReleasingVerdicts == {"approve"}

(* pending.remove comes first, then the wallet is awaited. *)
ApplyApprove ==
    /\ Applying(ReleasingVerdicts)
    /\ \E s \in pending :
          /\ s.id = Head(batch).id
          /\ cur' = s
          /\ pending' = Without(pending, s.id)
    /\ pc' = "executing"
    /\ UNCHANGED <<tries, resolved, nextId, policy, disk, toOwner, toAgent, life,
                   budget, executed, owner, unread>>

ApplyDeny ==
    /\ Applying({"deny"})
    /\ IsHeld(Head(batch).id)
    /\ pending' = Without(pending, Head(batch).id)
    /\ resolved' = TRUE
    /\ UNCHANGED <<pc, cur, tries, nextId, policy, disk, toOwner, toAgent, life,
                   budget, executed, owner, unread>>

IgnoreDecision ==
    /\ Applying({"approve", "deny"})
    /\ ~ IsHeld(Head(batch).id)
    /\ UNCHANGED <<pc, cur, tries, resolved, memory, disk, toOwner, toAgent, life,
                   budget, executed, owner, unread>>

SetLimit_OnlyRaises(key, value) ==
    policy' = [policy EXCEPT ![key] = IF value > @ THEN value ELSE @]

SetLimit(key, value) == policy' = [policy EXCEPT ![key] = value]

(* configure and configure_period: a value already in force resolves nothing. *)
ApplyConfigure ==
    /\ Applying(PolicyKeys)
    /\ LET m == Head(batch) IN
          /\ SetLimit(m.kind, m.value)
          /\ resolved' = (resolved \/ policy[m.kind] # m.value)
    /\ UNCHANGED <<pc, cur, tries, pending, nextId, disk, toOwner, toAgent, life,
                   budget, executed, owner, unread>>

PersistResolved_Never == UNCHANGED <<disk, budget>>

PersistResolved == IF resolved THEN Persist ELSE UNCHANGED <<disk, budget>>

FinishBatch ==
    /\ pc = "applying"
    /\ batch = <<>>
    /\ pc' = "idle"
    /\ resolved' = FALSE
    /\ UNCHANGED <<pending, nextId>>
    /\ PersistResolved
    /\ UNCHANGED <<cur, tries, batch, policy, toOwner, toAgent, life, executed,
                   owner, unread>>

-----------------------------------------------------------------------------
(* The runtime comes back from its state file, under the policy its host   *)
(* was given.  A process dies at any await, and the transfer under way may *)
(* have reached the chain; the binary that starts again finds its topics   *)
(* where they were, on nwaku.  An in-memory backend ends with its process, *)
(* and everything with it, so there the runtime is only let go between two *)
(* calls and rebuilt over the messaging at hand, as with_state permits.    *)
Restart ==
    /\ \/ Backend = "evicting" /\ Fault("crash")
       \/ pc = "idle" /\ Fault("restart")
    /\ \/ UNCHANGED executed
       \/ InTransfer /\ executed' = Append(executed, OnChain(cur))
    /\ pc' = "idle" /\ cur' = Idle /\ tries' = 0 /\ batch' = <<>> /\ resolved' = FALSE
    /\ Reload /\ policy' = DeployPolicy
    /\ life' = life + 1
    /\ UNCHANGED <<disk, toOwner, toAgent, owner, unread>>

-----------------------------------------------------------------------------
(* The owner. *)

Publish(message) ==
    /\ budget.ownerMsgs > 0
    /\ budget' = [budget EXCEPT !.ownerMsgs = @ - 1]
    /\ toAgent' = Append(toAgent, message)
    /\ unread' = unread + 1
    /\ UNCHANGED <<runtime, memory, disk, toOwner, life, executed>>

(* The owner decides a request it has seen, perhaps not for the first time. *)
Decide(request, verdict) ==
    /\ request.kind = "request"
    /\ Publish([kind |-> verdict, id |-> request.id])
    /\ decisions' = Append(decisions, [id |-> request.id, amount |-> request.amount,
                                       verdict |-> verdict])
    /\ UNCHANGED ordered

ConfigurePolicy(key, value) ==
    /\ Publish([kind |-> key, value |-> value])
    /\ ordered' = [ordered EXCEPT ![key] = value]
    /\ UNCHANGED decisions

-----------------------------------------------------------------------------
Proposing  == \E amount \in Amounts :
                 ProposeWithinPolicy(amount) \/ ProposeOverPolicy(amount)
Finishing  == \/ NotifyOk \/ NotifyFails \/ HoldForApproval
              \/ TransferOk \/ TransferFails
              \/ ApplyApprove \/ ApplyDeny \/ IgnoreDecision \/ ApplyConfigure
              \/ FinishBatch
OwnerActs  == \/ \E i \in DOMAIN toOwner, verdict \in {"approve", "deny"} :
                    Decide(toOwner[i], verdict)
              \/ \E key \in PolicyKeys, value \in Limits :
                    ConfigurePolicy(key, value)

Next == Proposing \/ Finishing \/ Poll \/ PollLost \/ Restart \/ OwnerActs

Spec == Init /\ [][Next]_vars

(* The handler under way goes on, and the agent's loop keeps polling. *)
FairSpec == Spec /\ WF_vars(Finishing) /\ WF_vars(Poll)

-----------------------------------------------------------------------------
(* Properties. *)

(* Every variable keeps its type; the spend a handler works on has the     *)
(* shape its phase needs (the locals of the handlers of src/owner.rs).      *)
RuntimeOK ==
    /\ pc \in {"idle", "notifying", "holding", "spending", "executing", "applying"}
    /\ cur \in [id : Nat \cup {NoId}, amount : Nat]
    /\ pc \in {"notifying", "holding", "executing"} => cur \in Held
    /\ pc = "spending" => cur.id = NoId /\ cur.amount \in Amounts
    /\ tries \in 0 .. NOTIFY_ATTEMPTS - 1
    /\ batch \in Seq(OwnerMessage)
    /\ resolved \in BOOLEAN
StateOK ==
    /\ pending \subseteq Held
    /\ nextId \in Nat
    /\ policy \in [PolicyKeys -> Nat]
    /\ disk \in [pending : SUBSET Held, nextId : Nat]
TopicsOK ==
    /\ toOwner \in Seq(AgentMessage)
    /\ toAgent \in Seq(OwnerMessage)
    /\ unread \in Nat
HistoryOK ==
    /\ life \in Nat
    /\ executed \in Seq(Transfer)
    /\ decisions \in Seq(Judgement)
    /\ ordered \in [PolicyKeys -> Nat]
BudgetOK == budget \in [faults : Nat, proposals : Nat, ownerMsgs : Nat]

TypeOK == RuntimeOK /\ StateOK /\ TopicsOK /\ HistoryOK /\ BudgetOK

Announced(s) == \E i \in DOMAIN toOwner : toOwner[i] = Request(s)

Decided(id, verdict) ==
    \E i \in DOMAIN decisions : decisions[i].id = id /\ decisions[i].verdict = verdict

WasExecuted(s) ==
    \E i \in DOMAIN executed : executed[i].id = s.id /\ executed[i].amount = s.amount

(* Transfers that needed the owner. *)
Escalated == {i \in DOMAIN executed : executed[i].id # NoId}

(* hold_for_approval reaches the owner first (owner.rs:345): a spend held in *)
(* memory or in the state file is one a request for this very spend was     *)
(* published for.                                                            *)
HeldWasAnnounced == \A s \in pending \cup disk.pending : Announced(s)

(* No escalated spend reaches the chain unless the owner was shown it and   *)
(* has approved a request of its id.                                        *)
ExecutedWasApproved ==
    \A i \in Escalated : Announced(executed[i]) /\ Decided(executed[i].id, "approve")

(* pending.remove is the dedupe (owner.rs:414): however often a decision is *)
(* delivered, between two restarts a request id is executed at most once.   *)
AtMostOncePerLife ==
    \A i, j \in Escalated :
        executed[i].id = executed[j].id /\ executed[i].life = executed[j].life => i = j

(* The same across restarts: a request id is executed at most once. *)
AtMostOnce ==
    \A i, j \in Escalated : executed[i].id = executed[j].id => i = j

(* An approval is spent by the poll that reads it: a request id is executed *)
(* no more often than the owner approved it.                                *)
ExecutionsWithinApprovals ==
    \A i \in Escalated :
        LET id == executed[i].id IN
        Cardinality({j \in Escalated : executed[j].id = id})
            <= Cardinality({j \in DOMAIN decisions : decisions[j].id = id
                                             /\ decisions[j].verdict = "approve"})

(* Among contradicting decisions about an id the first published one wins:  *)
(* a spend denied first is never executed by a later approval.              *)
FirstDecisionWins ==
    \A i \in Escalated : \E j \in DOMAIN decisions :
        /\ decisions[j].id = executed[i].id /\ decisions[j].verdict = "approve"
        /\ \A k \in 1 .. j - 1 : decisions[k].id # executed[i].id

(* What is executed under an id is what the owner was looking at when it    *)
(* approved that id.                                                         *)
ExecutedAsApproved ==
    \A i \in Escalated : \E j \in DOMAIN decisions :
        /\ decisions[j].id = executed[i].id
        /\ decisions[j].amount = executed[i].amount
        /\ decisions[j].verdict = "approve"

(* Between two calls the state file holds what the runtime holds, so a      *)
(* restart loses no spend awaiting approval (owner.rs:206) and revives none *)
(* that was settled.                                                         *)
DurableAtRest == pc = "idle" => disk = Memory

(* Between two calls, with no message left to read, the limits in force are *)
(* the ones the owner configured last.                                      *)
PolicyIsOwnersLatest == pc = "idle" /\ unread = 0 => policy = ordered

(* The state file forgets no spend the owner has said nothing about: no     *)
(* write, no failure of one and no restart loses it, not even where a       *)
(* refused transfer makes the runtime forget an approved one (owner.rs:416). *)
ReleasedOnlyWhenDecided ==
    [][\A s \in disk.pending \ disk'.pending :
          Decided(s.id, "approve") \/ Decided(s.id, "deny")]_vars

FirstVerdict(id, verdict) ==
    \E i \in DOMAIN decisions :
        /\ decisions[i].id = id /\ decisions[i].verdict = verdict
        /\ \A j \in 1 .. i - 1 : decisions[j].id # id

(* An approved spend the state file holds is executed in the end. *)
ApprovedIsExecuted ==
    \A id \in 0 .. MaxProposals :
        (/\ \E s \in disk.pending : s.id = id
         /\ FirstVerdict(id, "approve"))
            ~> \E i \in Escalated : executed[i].id = id

ToBeApplied == Range(batch) \cup Range(toAgent)

(* An approval that reached the topic takes effect: the spend the state     *)
(* file holds is executed, through lost answers, failed writes and restarts *)
(* before, unless yet another failure takes the decision away or the owner  *)
(* has denied it too.                                                       *)
ApprovalTakesEffect ==
    \A id \in 0 .. MaxProposals, left \in 0 .. MaxFaults :
        (/\ budget.faults = left
         /\ \E s \in disk.pending : s.id = id
         /\ [kind |-> "approve", id |-> id] \in ToBeApplied
         /\ ~ Decided(id, "deny"))
            ~> (\/ budget.faults < left
                \/ \E i \in Escalated : executed[i].id = id)

(* A limit that reached the topic takes effect and stays, whatever was lost *)
(* or restarted before, unless yet another failure takes it away.           *)
LimitTakesEffect ==
    \A key \in PolicyKeys, left \in 0 .. MaxFaults :
        (budget.faults = left /\ \E m \in ToBeApplied : m.kind = key)
            ~> (\/ budget.faults < left
                \/ [](pc = "idle" => policy[key] = ordered[key]))

-----------------------------------------------------------------------------
(* The promise this runtime implements. *)

Shown    == {[id |-> m.id, amount |-> m.amount] :
                m \in {m \in Range(toOwner) : m.kind = "request"}}
Verdicts == {[id |-> d.id, verdict |-> d.verdict] : d \in Range(decisions)}
Paid     == {[id |-> e.id, amount |-> e.amount] :
                e \in {e \in Range(executed) : e.id # NoId}}

Promise == INSTANCE OwnerPromise WITH
    shown <- Shown, verdicts <- Verdicts, book <- disk.pending, paid <- Paid

(* Provided the wallet does not refuse an approved transfer, the runtime,   *)
(* its state file, its retries and its crashes amount to asking, keeping    *)
(* and paying as module OwnerPromise says (owner.rs:345-347).                *)
PromiseKept == Promise!Spec
=============================================================================
