--------------------------- MODULE SpendingPolicy ---------------------------
(***************************************************************************)
(* The spending policy of an Agent (src/lib.rs): the per-transaction limit *)
(* and the per-period accumulator, with its clock and its file, and the    *)
(* calls that go through them: Agent::send, Agent::send_approved and the   *)
(* program.call skill (src/skills.rs).                                     *)
(*                                                                         *)
(* A transfer awaits the wallet, which is borrowed mutably: one transfer is *)
(* in flight at a time.  While it is, the clock advances, the owner may    *)
(* reconfigure the policy, and the process may die.                        *)
(***************************************************************************)
EXTENDS Integers, Sequences, FiniteSetsExt

CONSTANTS
    Amounts,        \* amounts a transfer may have
    MaxAmount,      \* u128::MAX, where the accumulator saturates
    InitialPolicy,  \* the policy of the agent's command line
    Policies,       \* the policies the owner may set
    Faults,         \* the kinds of fault that may happen
    MaxFaults,      \* bound: how many faults happen
    MaxTransfers,   \* bound: how many transfers are asked for
    MaxReconfigs,   \* bound: how often the owner reconfigures
    MaxTime,        \* bound: the last second
    NoFile,         \* the state of the period file before its first write
    Uncharged       \* the window of a transfer the accumulator did not count

Policy == [per_tx_limit : 0 .. MaxAmount, per_period_limit : 0 .. MaxAmount,
           period_seconds : Nat]

(* What the period file holds once it was written. *)
Contents == [startedAt : Nat, spent : 0 .. MaxAmount]

FaultKinds == {"restart", "crash", "send_error", "send_ambiguous", "persist_error"}

ASSUME ConstantsAssumption ==
    /\ MaxAmount \in Nat
    /\ Amounts \subseteq 0 .. MaxAmount
    /\ InitialPolicy \in Policy
    /\ Policies \subseteq Policy
    /\ Faults \subseteq FaultKinds
    /\ {MaxFaults, MaxTransfers, MaxReconfigs, MaxTime} \subseteq Nat
    /\ Uncharged \notin Nat
    /\ NoFile \notin Contents

VARIABLES
    policy,     \* Agent::policy
    startedAt,  \* PeriodSpend::started_at
    spent,      \* PeriodSpend::amount
    file,       \* the period file: the [startedAt, spent] last written
    flight,     \* the transfer awaiting the wallet
    now,        \* the clock, in seconds
    ledger,     \* history: every transfer that reached the chain
    unsaved,    \* history: charges made since the file was last written
    forgotten,  \* history: unsaved charges a restart has lost
    budget      \* what is left of the bounds

accumulator == <<startedAt, spent>>
charges == <<unsaved, forgotten>>
vars == <<policy, accumulator, file, flight, now, ledger, charges, budget>>

NoFlight == [gate |-> "none", amount |-> 0]

Fault(kind) ==
    /\ kind \in Faults
    /\ budget.faults > 0
    /\ budget' = [budget EXCEPT !.faults = @ - 1]

NoFault == UNCHANGED budget

-----------------------------------------------------------------------------
SaturatingAdd_Overflows(a, b) == a + b

SaturatingAdd(a, b) == IF a + b > MaxAmount THEN MaxAmount ELSE a + b

PeriodOn == policy.per_period_limit # 0 /\ policy.period_seconds # 0

WindowOver_Strict == now - startedAt > policy.period_seconds

WindowOver == now - startedAt >= policy.period_seconds

(* What the accumulator holds once a window that is over is rolled away. *)
SpentInWindow == IF WindowOver THEN 0 ELSE spent
WindowStart   == IF WindowOver THEN now ELSE startedAt

PeriodAllows_SpentOnly(amount) == PeriodOn => SpentInWindow <= policy.per_period_limit

PeriodAllows_Wraps(amount) ==
    PeriodOn => (SpentInWindow + amount) % (MaxAmount + 1) <= policy.per_period_limit

PeriodAllows(amount) ==
    PeriodOn => SaturatingAdd(SpentInWindow, amount) <= policy.per_period_limit

(* check_policy: the transaction limit first, then the period's. *)
Allows(amount) == amount <= policy.per_tx_limit /\ PeriodAllows(amount)

(* Reading the period allowance rolls the window, in memory only. *)
CheckRolls(amount) ==
    IF amount <= policy.per_tx_limit /\ PeriodOn
      THEN startedAt' = WindowStart /\ spent' = SpentInWindow
      ELSE UNCHANGED accumulator

(* The file is rewritten with the whole accumulator. *)
Save ==
    /\ file' = [startedAt |-> startedAt', spent |-> spent']
    /\ unsaved' = {}
    /\ UNCHANGED forgotten

Record_OnlyIfWritten(amount) ==
    IF PeriodOn
      THEN \/ /\ NoFault
              /\ startedAt' = WindowStart
              /\ spent' = SaturatingAdd(SpentInWindow, amount)
              /\ Save
           \/ /\ Fault("persist_error")
              /\ unsaved' = unsaved \cup {Len(ledger) + 1}
              /\ UNCHANGED <<accumulator, file, forgotten>>
      ELSE UNCHANGED <<accumulator, file, charges, budget>>

(* record_period_spend, and the write-through of persist_period. *)
Record(amount) ==
    IF PeriodOn
      THEN /\ startedAt' = WindowStart
           /\ spent' = SaturatingAdd(SpentInWindow, amount)
           /\ \/ NoFault /\ Save
              \/ /\ Fault("persist_error")
                 /\ unsaved' = unsaved \cup {Len(ledger) + 1}
                 /\ UNCHANGED <<file, forgotten>>
      ELSE UNCHANGED <<accumulator, file, charges, budget>>

Landed(window) ==
    ledger' = Append(ledger, [amount |-> flight.amount, gate |-> flight.gate,
                              at |-> now, window |-> window])

-----------------------------------------------------------------------------
Init ==
    /\ policy = InitialPolicy
    /\ startedAt = 0 /\ spent = 0 /\ file = NoFile
    /\ flight = NoFlight
    /\ now = 0
    /\ ledger = <<>> /\ unsaved = {} /\ forgotten = {}
    /\ budget = [faults |-> MaxFaults, transfers |-> MaxTransfers,
                 reconfigs |-> MaxReconfigs]

Try ==
    /\ flight = NoFlight
    /\ budget.transfers > 0
    /\ budget' = [budget EXCEPT !.transfers = @ - 1]

Begin(gate, amount) ==
    /\ Try
    /\ flight' = [gate |-> gate, amount |-> amount]
    /\ UNCHANGED <<policy, file, now, ledger, charges>>

(* Agent::send, and a program.call that declares what it may move. *)
SendAllowed(amount) ==
    /\ Allows(amount)
    /\ Begin("policy", amount)
    /\ CheckRolls(amount)

(* The same over a limit: nothing is sent, the owner is asked. *)
SendHeld(amount) ==
    /\ Try
    /\ ~ Allows(amount)
    /\ CheckRolls(amount)
    /\ UNCHANGED <<policy, file, flight, now, ledger, charges>>

(* Agent::send_approved: no check. *)
SendApproved(amount) ==
    /\ Begin("owner", amount)
    /\ UNCHANGED accumulator

(* A program.call without a declared spend is checked as u128::MAX. *)
CallUndeclared ==
    /\ Allows(MaxAmount)
    /\ Begin("undeclared", MaxAmount)
    /\ CheckRolls(MaxAmount)

-----------------------------------------------------------------------------
TransferOk ==
    /\ flight.gate \in {"policy", "owner"}
    /\ Record(flight.amount)
    /\ Landed(IF PeriodOn THEN startedAt' ELSE Uncharged)
    /\ flight' = NoFlight
    /\ UNCHANGED <<policy, now>>

(* What an undeclared call moved is not charged. *)
CallUndeclaredOk ==
    /\ flight.gate = "undeclared"
    /\ Landed(Uncharged)
    /\ flight' = NoFlight
    /\ UNCHANGED <<policy, accumulator, file, now, charges, budget>>

TransferFails ==
    /\ flight # NoFlight
    /\ \/ Fault("send_error") /\ UNCHANGED ledger
       \/ Fault("send_ambiguous") /\ Landed(Uncharged)
    /\ flight' = NoFlight
    /\ UNCHANGED <<policy, accumulator, file, now, charges>>

-----------------------------------------------------------------------------
(* set_policy_limit and set_period_policy: the accumulator stays as it is. *)
Reconfigure(new) ==
    /\ budget.reconfigs > 0
    /\ budget' = [budget EXCEPT !.reconfigs = @ - 1]
    /\ policy' = new
    /\ UNCHANGED <<accumulator, file, flight, now, ledger, charges>>

Tick ==
    /\ now < MaxTime
    /\ now' = now + 1
    /\ UNCHANGED <<policy, accumulator, file, flight, ledger, charges, budget>>

(* from_parts, then enable_period_persistence. *)
Restore_Fresh == startedAt' = now /\ spent' = 0

Restore ==
    IF file = NoFile
      THEN startedAt' = now /\ spent' = 0
      ELSE startedAt' = file.startedAt /\ spent' = file.spent

Restart ==
    /\ \/ flight = NoFlight /\ Fault("restart") /\ UNCHANGED ledger
       \/ flight # NoFlight /\ Fault("crash")
             /\ (UNCHANGED ledger \/ Landed(Uncharged))
    /\ Restore
    /\ unsaved' = {} /\ forgotten' = forgotten \cup unsaved
    /\ policy' = InitialPolicy
    /\ flight' = NoFlight
    /\ UNCHANGED <<file, now>>

-----------------------------------------------------------------------------
Next ==
    \/ \E amount \in Amounts :
          SendAllowed(amount) \/ SendHeld(amount) \/ SendApproved(amount)
    \/ CallUndeclared
    \/ TransferOk \/ CallUndeclaredOk \/ TransferFails
    \/ \E new \in Policies : Reconfigure(new)
    \/ Tick
    \/ Restart

Spec == Init /\ [][Next]_vars

-----------------------------------------------------------------------------
(* Properties. *)

(* Types; the accumulator saturates instead of overflowing and its window   *)
(* never starts in the future.                                              *)
TypeOK ==
    /\ policy \in Policy
    /\ startedAt \in 0 .. now
    /\ spent \in 0 .. MaxAmount
    /\ file = NoFile \/ (file.startedAt \in 0 .. now /\ file.spent \in 0 .. MaxAmount)
    /\ flight \in [gate : {"none", "policy", "owner", "undeclared"},
                   amount : 0 .. MaxAmount]
    /\ flight.gate = "none" => flight = NoFlight
    /\ now \in 0 .. MaxTime
    /\ ledger \in Seq([gate : {"policy", "owner", "undeclared"},
                       amount : 0 .. MaxAmount, at : Nat, window : Nat \cup {Uncharged}])
    /\ unsaved \cup forgotten \subseteq DOMAIN ledger
    /\ budget \in [faults : Nat, transfers : Nat, reconfigs : Nat]

Total(entries) == MapThenSumSet(LAMBDA i : ledger[i].amount, entries)

InCurrentWindow == {i \in DOMAIN ledger \ forgotten : ledger[i].window = startedAt}
Between(first, last) == {i \in DOMAIN ledger : ledger[i].at \in first .. last}
Autonomous == {i \in DOMAIN ledger : ledger[i].gate = "policy"}

(* The accumulator is the sum of what was charged in its window, through    *)
(* rolls, reconfigurations, failed transfers, failed writes and restarts;   *)
(* a restart forgets exactly the charges the file never received.           *)
AccumulatorMatchesLedger ==
    LET charged == Total(InCurrentWindow) IN
    spent = IF charged > MaxAmount THEN MaxAmount ELSE charged

(* The policy is the command line's, every transfer the agent made on its   *)
(* own was charged, and every charge that a restart relied on was written.  *)
Steady ==
    /\ budget.reconfigs = MaxReconfigs
    /\ \A i \in Autonomous : ledger[i].window # Uncharged
    /\ forgotten = {}

(* Under one policy, what the agent spent on its own since the window began *)
(* is within the period limit, and a restart does not reset the allowance   *)
(* (README.md:83), as long as every charge was made and written.            *)
WindowWithinLimit ==
    Steady /\ PeriodOn =>
       Total(Autonomous \cap Between(startedAt, now)) <= policy.per_period_limit

SpanTotal(first) ==
    Total(Autonomous \cap Between(first, first + policy.period_seconds - 1))

(* Under the same proviso, no span of the period's length sees the agent    *)
(* spend more than twice the limit on its own: windows do not slide, but a  *)
(* span meets two of them at most, and a restart opens no new one.          *)
TwiceLimitAtMost ==
    Steady /\ PeriodOn =>
       \A first \in 0 .. now : SpanTotal(first) <= 2 * policy.per_period_limit

(* A spend is never held without cause: it is over the transaction limit,   *)
(* or it would exceed the period limit counting only what reached the chain *)
(* in the last period, whatever was reconfigured, lost or restarted before. *)
HeldOnlyOverLimit ==
    [][\A amount \in Amounts :
          SendHeld(amount) =>
             \/ amount > policy.per_tx_limit
             \/ PeriodOn /\ amount + Total(Between(now - policy.period_seconds + 1, now))
                               > policy.per_period_limit]_vars

(* A spend the agent makes on its own fits the period limit in force        *)
(* together with everything charged in the window, approved transfers and   *)
(* charges whose write failed included: whatever was reconfigured in the    *)
(* middle of the window, and though a restart came between.  A limit of     *)
(* u128::MAX is no limit: the accumulator saturates there.                  *)
SpendsWithinAllowance ==
    [][\A amount \in Amounts :
          SendAllowed(amount) /\ PeriodOn /\ policy.per_period_limit < MaxAmount =>
             amount + Total(InCurrentWindow)' <= policy.per_period_limit]_vars
=============================================================================
