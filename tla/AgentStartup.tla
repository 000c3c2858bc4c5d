---------------------------- MODULE AgentStartup ----------------------------
(***************************************************************************)
(* What makes a restarted agent the same agent: the start of the deployed  *)
(* binary (src/bin/agent.rs), the state file and the period file it        *)
(* restores from (src/owner.rs, src/lib.rs), and the wallet home it needs  *)
(* (src/bin/agent-wallet-init.rs).                                         *)
(*                                                                         *)
(* Both files are rewritten in place: a process that dies while it writes  *)
(* leaves one that does not parse.  The operator starts the binary again,  *)
(* with or without --account, and may remove the files.                    *)
(*                                                                         *)
(* Accounts are numbered in the order they are minted, spends in the order *)
(* they are made.  What the owner channel does with a held spend is module *)
(* OwnerApproval's, how a charge counts SpendingPolicy's.                  *)
(***************************************************************************)
EXTENDS Integers, FiniteSets

CONSTANTS
    OldFile,      \* whether the agent may find a file from before account_id
    Faults,       \* the kinds of fault that may happen
    MaxFaults,    \* bound: how many faults happen
    MaxLaunches,  \* bound: how often the binary is started
    MaxSpends,    \* bound: how many spends are made
    MaxRemovals,  \* bound: how often the operator removes the files
    NoPin         \* no --account on the command line

FaultKinds == {"wallet_error", "mint_error", "mint_ambiguous", "persist_error",
               "torn_write", "crash"}

ASSUME ConstantsAssumption ==
    /\ OldFile \in BOOLEAN
    /\ Faults \subseteq FaultKinds
    /\ {MaxFaults, MaxLaunches, MaxSpends, MaxRemovals} \subseteq Nat
    /\ NoPin \notin Nat

VARIABLES
    home,        \* whether the wallet's storage exists
    stateFile,   \* the state file: [kind, account, held]
    periodFile,  \* the period file: [kind, charged]
    pc,          \* how far the process is
    pin,         \* --account of the process
    account,     \* the agent's account id
    held,        \* AgentRuntime::pending
    charged,     \* the spends the period accumulator counts
    minted,      \* how many accounts the wallet has created
    budget,      \* what is left of the bounds
    ran,         \* history: the accounts that have been an agent's
    saved,       \* history: spends a write of the state file has held
    counted,     \* history: spends a write of the period file has counted
    settled,     \* history: held spends that were executed or denied
    rebound,     \* history: the operator or an old file changed the identity
    removed      \* history: the operator removed the files

files   == <<stateFile, periodFile>>
memory  == <<account, held, charged>>
history == <<ran, saved, counted, settled, rebound, removed>>
vars == <<home, files, pc, pin, memory, minted, budget, history>>

-----------------------------------------------------------------------------
Account == Nat
Spend   == [no : Nat, by : Account]

Absent == "absent"
Torn   == "torn"

NoState == [kind |-> Absent, account |-> 0, held |-> {}]
OldState(spends) == [kind |-> "old", account |-> 0, held |-> spends]
NoPeriod == [kind |-> Absent, charged |-> {}]

Fault(kind) ==
    /\ kind \in Faults
    /\ budget.faults > 0
    /\ budget' = [budget EXCEPT !.faults = @ - 1]

NoFault == UNCHANGED budget

Use(bound) ==
    /\ budget[bound] > 0
    /\ budget' = [budget EXCEPT ![bound] = @ - 1]

(* The process ends, by an error out of main or by being killed. *)
End == pc' = "down" /\ account' = 0 /\ held' = {} /\ charged' = {} /\ pin' = NoPin

-----------------------------------------------------------------------------
(* An old file holds a spend of account 0, which its agent had minted. *)
Init ==
    /\ home = FALSE
    /\ \/ stateFile = NoState /\ minted = 0 /\ rebound = FALSE
       \/ /\ OldFile
          /\ stateFile = OldState({[no |-> 0, by |-> 0]})
          /\ minted = 1 /\ rebound = TRUE
    /\ periodFile = NoPeriod
    /\ pc = "down" /\ pin = NoPin
    /\ account = 0 /\ held = {} /\ charged = {}
    /\ budget = [faults |-> MaxFaults, launches |-> MaxLaunches, spends |-> MaxSpends,
                 removals |-> MaxRemovals]
    /\ ran = {} /\ saved = {} /\ counted = {} /\ settled = {} /\ removed = FALSE

(* agent-wallet-init leaves a wallet home that exists alone. *)
InitWallet ==
    /\ ~ home
    /\ home' = TRUE
    /\ UNCHANGED <<files, pc, pin, memory, minted, budget, history>>

(* The operator pins an account the wallet has. *)
Launch(id) ==
    /\ pc = "down"
    /\ Use("launches")
    /\ pc' = "opening"
    /\ pin' = id
    /\ UNCHANGED <<home, files, memory, minted, history>>

-----------------------------------------------------------------------------
(* main: the wallet, the identity, the files. *)

(* load_account_id: only a file that parses and has the field knows it. *)
Recorded == IF stateFile.kind = "whole" THEN {stateFile.account} ELSE {}

Known_PinOrMint == IF pin # NoPin THEN {pin} ELSE {}

Known_PinOnly == {pin}

(* An explicit --account wins over the recorded one. *)
Known == IF pin # NoPin THEN {pin} ELSE Recorded

AdoptIdentity(id) == account' = id /\ pc' = "restoring"

OpenWallet ==
    /\ pc = "opening"
    /\ home
    /\ \/ \E id \in Known : AdoptIdentity(id)
       \/ Known = {} /\ pc' = "minting" /\ UNCHANGED account
    /\ rebound' = (rebound \/ (pin # NoPin /\ \E id \in Recorded : id # pin))
    /\ UNCHANGED <<home, files, pin, held, charged, minted, budget, ran, saved,
                   counted, settled, removed>>

OpenWalletFails ==
    /\ pc = "opening"
    /\ \/ ~ home /\ NoFault
       \/ home /\ Fault("wallet_error")
    /\ End
    /\ UNCHANGED <<home, files, minted, history>>

Mint ==
    /\ pc = "minting"
    /\ AdoptIdentity(minted)
    /\ minted' = minted + 1
    /\ UNCHANGED <<home, files, pin, held, charged, budget, history>>

MintFails ==
    /\ pc = "minting"
    /\ \/ Fault("mint_error") /\ UNCHANGED minted
       \/ Fault("mint_ambiguous") /\ minted' = minted + 1
    /\ End
    /\ UNCHANGED <<home, files, history>>

Readable == stateFile.kind # Torn /\ periodFile.kind # Torn

(* with_state rewrites the file when it is new or names another account. *)
MustRewrite_OtherOnly == Recorded # {} /\ account \notin Recorded

MustRewrite == stateFile.kind = Absent \/ (Recorded # {} /\ account \notin Recorded)

RestoreHeld_Fresh == held' = {}

RestoreHeld == held' = stateFile.held

(* enable_period_persistence, then with_state up to its write. *)
Restore ==
    /\ pc = "restoring"
    /\ Readable
    /\ RestoreHeld /\ charged' = periodFile.charged
    /\ IF MustRewrite
         THEN pc' = "rewriting" /\ UNCHANGED ran
         ELSE pc' = "running" /\ ran' = ran \cup {account}
    /\ UNCHANGED <<home, files, pin, account, minted, budget, saved, counted,
                   settled, rebound, removed>>

RestoreFails ==
    /\ pc = "restoring"
    /\ ~ Readable
    /\ End
    /\ UNCHANGED <<home, files, minted, budget, history>>

-----------------------------------------------------------------------------
(* The running agent. *)

NewSpend == [no |-> MaxSpends - budget.spends + 1, by |-> account]

(* hold_for_approval inserts, a decision removes; then the file is written. *)
Hold ==
    /\ pc = "running"
    /\ Use("spends")
    /\ held' = held \cup {NewSpend}
    /\ pc' = "saving"
    /\ UNCHANGED <<home, files, pin, account, charged, minted, history>>

Deny(s) ==
    /\ pc = "running"
    /\ held' = held \ {s} /\ settled' = settled \cup {s}
    /\ pc' = "saving"
    /\ UNCHANGED <<home, files, pin, account, charged, minted, budget, ran, saved,
                   counted, rebound, removed>>

(* An approved spend is charged, and the period file written, first. *)
Execute(s) ==
    /\ pc = "running"
    /\ held' = held \ {s} /\ settled' = settled \cup {s}
    /\ charged' = charged \cup {s}
    /\ pc' = "charging"
    /\ UNCHANGED <<home, files, pin, account, minted, budget, ran, saved, counted,
                   rebound, removed>>

(* A spend within the limits only goes through the accumulator. *)
SpendAlone ==
    /\ pc = "running"
    /\ Use("spends")
    /\ charged' = charged \cup {NewSpend}
    /\ pc' = "recording"
    /\ UNCHANGED <<home, files, pin, account, held, minted, history>>

-----------------------------------------------------------------------------
(* The writes. *)

WritesState  == pc \in {"rewriting", "saving"}
WritesPeriod == pc \in {"charging", "recording"}

AfterPeriod == IF pc = "charging" THEN "saving" ELSE "running"

SaveState ==
    /\ WritesState
    /\ stateFile' = [kind |-> "whole", account |-> account, held |-> held]
    /\ saved' = saved \cup held
    /\ pc' = "running"
    /\ ran' = ran \cup {account}
    /\ UNCHANGED <<home, periodFile, pin, memory, minted, budget, counted, settled,
                   rebound, removed>>

(* A failed write ends the start, or is reported to the loop. *)
SaveStateFails ==
    /\ WritesState
    /\ Fault("persist_error")
    /\ IF pc = "rewriting" THEN End
         ELSE pc' = "running" /\ UNCHANGED <<pin, memory>>
    /\ UNCHANGED <<home, files, minted, history>>

SavePeriod ==
    /\ WritesPeriod
    /\ periodFile' = [kind |-> "whole", charged |-> charged]
    /\ counted' = counted \cup charged
    /\ pc' = AfterPeriod
    /\ UNCHANGED <<home, stateFile, pin, memory, minted, budget, ran, saved, settled,
                   rebound, removed>>

SavePeriodFails ==
    /\ WritesPeriod
    /\ Fault("persist_error")
    /\ pc' = AfterPeriod
    /\ UNCHANGED <<home, files, pin, memory, minted, history>>

Tear ==
    /\ WritesState \/ WritesPeriod
    /\ Fault("torn_write")
    /\ IF WritesState
         THEN stateFile' = [NoState EXCEPT !.kind = Torn] /\ UNCHANGED periodFile
         ELSE periodFile' = [NoPeriod EXCEPT !.kind = Torn] /\ UNCHANGED stateFile
    /\ End
    /\ UNCHANGED <<home, minted, history>>

Crash ==
    /\ pc # "down"
    /\ Fault("crash")
    /\ \/ UNCHANGED minted
       \/ pc = "minting" /\ minted' = minted + 1
    /\ End
    /\ UNCHANGED <<home, files, history>>

(* The operator starts over with no files. *)
RemoveFiles ==
    /\ pc = "down"
    /\ Use("removals")
    /\ stateFile' = NoState /\ periodFile' = NoPeriod
    /\ rebound' = TRUE /\ removed' = TRUE
    /\ UNCHANGED <<home, pc, pin, memory, minted, ran, saved, counted, settled>>

-----------------------------------------------------------------------------
Next ==
    \/ InitWallet
    \/ \E id \in {NoPin} \cup 0 .. minted - 1 : Launch(id)
    \/ OpenWallet \/ OpenWalletFails \/ Mint \/ MintFails
    \/ Restore \/ RestoreFails
    \/ Hold \/ SpendAlone \/ \E s \in held : Deny(s) \/ Execute(s)
    \/ SaveState \/ SaveStateFails \/ SavePeriod \/ SavePeriodFails
    \/ Tear \/ Crash \/ RemoveFiles

Spec == Init /\ [][Next]_vars

-----------------------------------------------------------------------------
(* Properties. *)

(* Every variable keeps its type, and a process that ended leaves nothing    *)
(* in memory (src/bin/agent.rs).                                             *)
TypeOK ==
    /\ home \in BOOLEAN
    /\ stateFile \in [kind : {Absent, Torn, "old", "whole"}, account : Account,
                      held : SUBSET Spend]
    /\ periodFile \in [kind : {Absent, Torn, "whole"}, charged : SUBSET Spend]
    /\ pc \in {"down", "opening", "minting", "restoring", "rewriting", "running",
               "saving", "charging", "recording"}
    /\ pin \in Account \cup {NoPin}
    /\ account \in Account /\ held \subseteq Spend /\ charged \subseteq Spend
    /\ pc = "down" => held = {} /\ charged = {}
    /\ minted \in Nat
    /\ budget \in [faults : Nat, launches : Nat, spends : Nat, removals : Nat]
    /\ ran \subseteq Account
    /\ saved \cup counted \cup settled \subseteq Spend
    /\ rebound \in BOOLEAN /\ removed \in BOOLEAN

(* A restart is the same agent (README.md:179): unless the operator removes *)
(* the file or pins another account, or the file is an old one, all the      *)
(* processes that ever served the owner did so under one account, wherever   *)
(* their predecessors died.                                                  *)
OneIdentity == ~ rebound => Cardinality(ran) <= 1

(* Under the same conditions a held spend is one this very account asked     *)
(* the owner about: no agent executes what another one announced.            *)
HeldIsOwn == ~ rebound => \A s \in held : s.by = account

(* A running agent holds every spend its file ever held that was not settled *)
(* (docs/HEADLESS_DEPLOY.md:98), and its allowance counts all the period     *)
(* file ever counted (README.md:83), unless the files were removed.          *)
NothingForgotten ==
    pc = "running" /\ ~ removed => saved \subseteq held \cup settled /\ counted \subseteq charged

=============================================================================
