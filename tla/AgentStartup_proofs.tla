------------------------ MODULE AgentStartup_proofs ------------------------
(***************************************************************************)
(* Proofs about AgentStartup, for every value of its constants: any number *)
(* of starts, spends and removals, any faults, with or without an old file.*)
(***************************************************************************)
EXTENDS AgentStartup, FiniteSetTheorems, TLAPS

(* Spends are numbered by what is left of the bound, so typing them needs   *)
(* that the bound never grows.                                              *)
Typed == TypeOK /\ budget.spends <= MaxSpends

LEMMA FaultBudget ==
    ASSUME Typed, NEW kind, Fault(kind)
    PROVE  /\ budget' \in [faults : Nat, launches : Nat, spends : Nat, removals : Nat]
           /\ budget'.spends <= MaxSpends
BY DEF Typed, TypeOK, Fault

LEMMA UseBudget ==
    ASSUME Typed, NEW bound \in {"launches", "spends", "removals"}, Use(bound)
    PROVE  /\ budget' \in [faults : Nat, launches : Nat, spends : Nat, removals : Nat]
           /\ budget'.spends <= MaxSpends
BY ConstantsAssumption DEF Typed, TypeOK, Use, ConstantsAssumption

LEMMA NewSpendType ==
    ASSUME Typed
    PROVE  NewSpend \in Spend
BY ConstantsAssumption DEF Typed, TypeOK, NewSpend, Spend, Account, ConstantsAssumption

(* A process that ended is as typed as one that never began. *)
LEMMA EndType ==
    ASSUME End
    PROVE  /\ pc' = "down" /\ pin' = NoPin
           /\ account' \in Account /\ held' = {} /\ charged' = {}
BY DEF End, Account

LEMMA InitTyped == Init => Typed
<1> SUFFICES ASSUME Init PROVE Typed
  OBVIOUS
<1> USE ConstantsAssumption DEF ConstantsAssumption, Init
<1>1. stateFile \in [kind : {Absent, Torn, "old", "whole"}, account : Account,
                     held : SUBSET Spend]
  <2>1. [no |-> 0, by |-> 0] \in Spend
    BY DEF Spend, Account
  <2>2. CASE stateFile = NoState
    BY <2>2 DEF NoState, Account
  <2>3. CASE stateFile = OldState({[no |-> 0, by |-> 0]})
    BY <2>1, <2>3 DEF OldState, Account
  <2>4. QED
    BY <2>2, <2>3
<1>2. periodFile \in [kind : {Absent, Torn, "whole"}, charged : SUBSET Spend]
  BY DEF NoPeriod
<1>3. /\ budget \in [faults : Nat, launches : Nat, spends : Nat, removals : Nat]
      /\ budget.spends <= MaxSpends
  OBVIOUS
<1>4. /\ home \in BOOLEAN /\ rebound \in BOOLEAN /\ removed \in BOOLEAN
      /\ pc = "down" /\ pin = NoPin /\ account = 0
      /\ held = {} /\ charged = {} /\ ran = {}
      /\ saved = {} /\ counted = {} /\ settled = {}
  OBVIOUS
<1>5. minted \in Nat /\ account \in Account
  BY DEF Account
<1>6. QED
  BY ONLY <1>1, <1>2, <1>3, <1>4, <1>5 DEF Typed, TypeOK

LEMMA StepTyped == Typed /\ [Next]_vars => Typed'
<1> SUFFICES ASSUME Typed, [Next]_vars
             PROVE  Typed'
  OBVIOUS
<1>0. TypeOK /\ budget.spends <= MaxSpends
  BY DEF Typed
<1>1. CASE InitWallet
  BY <1>0, <1>1 DEF InitWallet, Typed, TypeOK, files, memory, history
<1>2. ASSUME NEW id \in {NoPin} \cup 0 .. minted - 1, Launch(id)
      PROVE  Typed'
  BY <1>0, <1>2, UseBudget DEF Launch, Typed, TypeOK, files, memory, history, Account
<1>3. CASE OpenWallet
  <2>1. \A id \in Known : id \in Account
    BY <1>0 DEF Known, Recorded, TypeOK, Account
  <2>2. QED
    BY <1>0, <1>3, <2>1 DEF OpenWallet, AdoptIdentity, Typed, TypeOK, files
<1>4. CASE OpenWalletFails
  BY <1>0, <1>4, EndType, FaultBudget
     DEF OpenWalletFails, NoFault, Typed, TypeOK, files, history
<1>5. CASE Mint
  BY <1>0, <1>5 DEF Mint, AdoptIdentity, Typed, TypeOK, files, history, Account
<1>6. CASE MintFails
  BY <1>0, <1>6, EndType, FaultBudget DEF MintFails, Typed, TypeOK, files, history
<1>7. CASE Restore
  BY <1>0, <1>7 DEF Restore, RestoreHeld, Typed, TypeOK, files
<1>8. CASE RestoreFails
  BY <1>0, <1>8, EndType DEF RestoreFails, Typed, TypeOK, files, history
<1>9. CASE Hold
  BY <1>0, <1>9, UseBudget, NewSpendType DEF Hold, Typed, TypeOK, files, history
<1>10. CASE SpendAlone
  BY <1>0, <1>10, UseBudget, NewSpendType DEF SpendAlone, Typed, TypeOK, files, history
<1>11. ASSUME NEW s \in held, Deny(s)
       PROVE  Typed'
  BY <1>0, <1>11 DEF Deny, Typed, TypeOK, files
<1>12. ASSUME NEW s \in held, Execute(s)
       PROVE  Typed'
  BY <1>0, <1>12 DEF Execute, Typed, TypeOK, files
<1>13. CASE SaveState
  BY <1>0, <1>13 DEF SaveState, WritesState, Typed, TypeOK, memory
<1>14. CASE SaveStateFails
  BY <1>0, <1>14, EndType, FaultBudget
     DEF SaveStateFails, Typed, TypeOK, files, memory, history
<1>15. CASE SavePeriod
  BY <1>0, <1>15 DEF SavePeriod, WritesPeriod, AfterPeriod, Typed, TypeOK, memory
<1>16. CASE SavePeriodFails
  BY <1>0, <1>16, FaultBudget
     DEF SavePeriodFails, AfterPeriod, Typed, TypeOK, files, memory, history
<1>17. CASE Tear
  BY <1>0, <1>17, EndType, FaultBudget
     DEF Tear, NoState, NoPeriod, Torn, Absent, Typed, TypeOK, history, Account
<1>18. CASE Crash
  BY <1>0, <1>18, EndType, FaultBudget DEF Crash, Typed, TypeOK, files, history
<1>19. CASE RemoveFiles
  BY <1>0, <1>19, UseBudget
     DEF RemoveFiles, NoState, NoPeriod, Absent, Typed, TypeOK, memory, Account
<1>20. CASE UNCHANGED vars
  BY <1>0, <1>20 DEF vars, files, memory, history, Typed, TypeOK
<1>21. QED
  BY <1>1, <1>2, <1>3, <1>4, <1>5, <1>6, <1>7, <1>8, <1>9, <1>10, <1>11, <1>12, <1>13,
     <1>14, <1>15, <1>16, <1>17, <1>18, <1>19, <1>20 DEF Next

(* Every variable keeps its type, and a process that ended leaves nothing   *)
(* in memory (src/bin/agent.rs), however often the agent is started.        *)
THEOREM TypeCorrect == Spec => []TypeOK
<1>1. Typed => TypeOK
  BY DEF Typed
<1>2. QED
  BY <1>1, InitTyped, StepTyped, PTL DEF Spec

-----------------------------------------------------------------------------
(* The identity.  That no second account was ever an agent's says nothing   *)
(* about the account the next process will take: the file must name the one *)
(* that ran, unless none ran, and every process on its way to the owner must *)
(* carry the account the file names.                                        *)

Serves == pc \in {"running", "saving", "charging", "recording"}

FileIsOwn ==
    /\ stateFile.kind # "old"
    /\ stateFile.kind = Absent => ran = {} /\ stateFile.held = {}
    /\ stateFile.kind = "whole" => ran \subseteq {stateFile.account}
    /\ \A s \in stateFile.held : s.by = stateFile.account

ProcessIsOwn ==
    /\ pc \in {"opening", "minting", "restoring"} => held = {}
    /\ pc = "minting" => stateFile.kind # "whole"
    /\ pc = "restoring" /\ stateFile.kind = "whole" => account = stateFile.account
    /\ pc = "rewriting" => stateFile.kind = Absent
    /\ Serves => stateFile.kind = "whole" /\ account = stateFile.account
    /\ \A s \in held : s.by = account

OneAccount == \A a, b \in ran : a = b

SameAgent == ~ rebound => FileIsOwn /\ ProcessIsOwn /\ OneAccount

LEMMA InitSameAgent == Init => SameAgent
BY DEF Init, SameAgent, FileIsOwn, ProcessIsOwn, OneAccount, Serves, NoState, Absent

LEMMA EndIsOwn ==
    ASSUME End
    PROVE  ProcessIsOwn'
BY DEF End, ProcessIsOwn, Serves

LEMMA StepSameAgent == Typed /\ SameAgent /\ [Next]_vars => SameAgent'
<1> SUFFICES ASSUME Typed, SameAgent, [Next]_vars, ~ rebound'
             PROVE  FileIsOwn' /\ ProcessIsOwn' /\ OneAccount'
  BY DEF SameAgent
<1> USE DEF Absent, Torn
<1>0. /\ TypeOK
      /\ ~ rebound => FileIsOwn /\ ProcessIsOwn /\ OneAccount
  BY DEF Typed, SameAgent
<1>1. CASE InitWallet
  BY <1>0, <1>1 DEF InitWallet, FileIsOwn, ProcessIsOwn, OneAccount, Serves, files,
                    memory, history
<1>2. ASSUME NEW id \in {NoPin} \cup 0 .. minted - 1, Launch(id)
      PROVE  FileIsOwn' /\ ProcessIsOwn' /\ OneAccount'
  <2>1. held = {}
    BY <1>0, <1>2 DEF Launch, TypeOK
  <2>2. QED
    BY <1>0, <1>2, <2>1 DEF Launch, FileIsOwn, ProcessIsOwn, OneAccount, Serves, files,
                            memory, history
<1>3. CASE OpenWallet
  <2>1. ~ rebound /\ (pin # NoPin => \A id \in Recorded : id = pin)
    BY <1>0, <1>3 DEF OpenWallet, TypeOK
  <2>2. pc' = "minting" => stateFile.kind # "whole"
    BY <1>3, <2>1 DEF OpenWallet, AdoptIdentity, Known, Recorded
  <2>3. pc' = "restoring" /\ stateFile.kind = "whole" => account' = stateFile.account
    BY <1>3, <2>1 DEF OpenWallet, AdoptIdentity, Known, Recorded
  <2>4. pc' \in {"minting", "restoring"} /\ held = {}
    BY <1>0, <1>3, <2>1 DEF OpenWallet, AdoptIdentity, ProcessIsOwn
  <2>5. QED
    BY <1>0, <1>3, <2>1, <2>2, <2>3, <2>4
       DEF OpenWallet, FileIsOwn, ProcessIsOwn, OneAccount, Serves, files
<1>4. CASE OpenWalletFails \/ RestoreFails \/ MintFails
  BY <1>0, <1>4, EndIsOwn
     DEF OpenWalletFails, RestoreFails, MintFails, FileIsOwn, OneAccount, files, history
<1>5. CASE Mint
  BY <1>0, <1>5 DEF Mint, AdoptIdentity, FileIsOwn, ProcessIsOwn, OneAccount, Serves,
                    files, history
<1>6. CASE Restore
  BY <1>0, <1>6 DEF Restore, RestoreHeld, MustRewrite, Readable, Recorded, TypeOK,
                    FileIsOwn, ProcessIsOwn, OneAccount, Serves, files
<1>7. CASE Hold \/ SpendAlone
  BY <1>0, <1>7 DEF Hold, SpendAlone, NewSpend, FileIsOwn, ProcessIsOwn, OneAccount, Serves,
                    files, history
<1>8. ASSUME NEW s \in held, Deny(s) \/ Execute(s)
      PROVE  FileIsOwn' /\ ProcessIsOwn' /\ OneAccount'
  BY <1>0, <1>8 DEF Deny, Execute, FileIsOwn, ProcessIsOwn, OneAccount, Serves, files
<1>9. CASE SaveState
  BY <1>0, <1>9 DEF SaveState, WritesState, FileIsOwn, ProcessIsOwn, OneAccount, Serves,
                    memory
<1>10. CASE SaveStateFails
  <2>1. FileIsOwn' /\ OneAccount'
    BY <1>0, <1>10 DEF SaveStateFails, FileIsOwn, OneAccount, files, history
  <2>2. CASE pc = "rewriting"
    BY <1>10, <2>1, <2>2, EndIsOwn DEF SaveStateFails
  <2>3. CASE pc # "rewriting"
    BY <1>0, <1>10, <2>1, <2>3 DEF SaveStateFails, WritesState, ProcessIsOwn, Serves,
                                   files, memory, history
  <2>4. QED
    BY <2>2, <2>3
<1>11. CASE SavePeriod \/ SavePeriodFails
  BY <1>0, <1>11 DEF SavePeriod, SavePeriodFails, WritesPeriod, AfterPeriod,
                     FileIsOwn, ProcessIsOwn, OneAccount, Serves, files, memory, history
<1>12. CASE Tear
  <2>1. FileIsOwn' /\ OneAccount'
    BY <1>0, <1>12 DEF Tear, NoState, FileIsOwn, ProcessIsOwn, OneAccount, Serves,
                       WritesState, WritesPeriod, history
  <2>2. QED
    BY <1>12, <2>1, EndIsOwn DEF Tear
<1>13. CASE Crash
  BY <1>0, <1>13, EndIsOwn DEF Crash, FileIsOwn, OneAccount, files, history
<1>14. CASE RemoveFiles
  BY <1>14 DEF RemoveFiles
<1>15. CASE UNCHANGED vars
  BY <1>0, <1>15 DEF vars, FileIsOwn, ProcessIsOwn, OneAccount, Serves, files, memory, history
<1>16. QED
  BY <1>1, <1>2, <1>3, <1>4, <1>5, <1>6, <1>7, <1>8, <1>9, <1>10, <1>11, <1>12, <1>13,
     <1>14, <1>15 DEF Next

(* A restart is the same agent (README.md:179): unless the operator removes *)
(* the files or pins another account, or the file is an old one, one account *)
(* at most has ever served the owner, wherever its processes died.           *)
THEOREM RestartsAsItself == Spec => []OneIdentity
<1>1. OneAccount => Cardinality(ran) <= 1
  <2>1. CASE ran = {}
    BY <2>1, FS_EmptySet
  <2>2. ASSUME OneAccount, NEW a \in ran
        PROVE  Cardinality(ran) <= 1
    <3>1. ran = {a}
      BY <2>2 DEF OneAccount
    <3>2. QED
      BY <3>1, FS_Singleton
  <2>3. QED
    BY <2>1, <2>2
<1>2. SameAgent => OneIdentity
  BY <1>1 DEF SameAgent, OneIdentity
<1>3. QED
  BY <1>2, InitTyped, StepTyped, InitSameAgent, StepSameAgent, PTL DEF Spec

(* Under the same proviso, a held spend is one this very account asked its  *)
(* owner about: no agent executes what another one announced.                *)
THEOREM HoldsItsOwn == Spec => []HeldIsOwn
<1>1. SameAgent => HeldIsOwn
  BY DEF SameAgent, ProcessIsOwn, HeldIsOwn
<1>2. QED
  BY <1>1, InitTyped, StepTyped, InitSameAgent, StepSameAgent, PTL DEF Spec

-----------------------------------------------------------------------------
(* Nothing forgotten.  What a write has put into a file must still be in the *)
(* file when the next process reads it, and in the memory of whoever writes  *)
(* the file again.                                                           *)

Restored == Serves \/ pc = "rewriting"

FilesKeep ==
    /\ stateFile.kind # Torn => saved \subseteq stateFile.held \cup settled
    /\ periodFile.kind # Torn => counted \subseteq periodFile.charged

MemoryKeeps ==
    Restored => saved \subseteq held \cup settled /\ counted \subseteq charged

Kept == ~ removed => FilesKeep /\ MemoryKeeps

LEMMA InitKept == Init => Kept
BY DEF Init, Kept, FilesKeep, MemoryKeeps

LEMMA EndKept ==
    ASSUME End
    PROVE  MemoryKeeps'
BY DEF End, MemoryKeeps, Restored, Serves

LEMMA StepKept == Typed /\ Kept /\ [Next]_vars => Kept'
<1> SUFFICES ASSUME Typed, Kept, [Next]_vars, ~ removed'
             PROVE  FilesKeep' /\ MemoryKeeps'
  BY DEF Kept
<1> USE DEF Absent, Torn
<1>0. ~ removed => FilesKeep /\ MemoryKeeps
  BY DEF Kept
<1>1. CASE InitWallet \/ OpenWallet \/ Mint
  BY <1>0, <1>1 DEF InitWallet, OpenWallet, Mint, AdoptIdentity, FilesKeep, MemoryKeeps,
                    Restored, Serves, files, memory, history
<1>2. ASSUME NEW id \in {NoPin} \cup 0 .. minted - 1, Launch(id)
      PROVE  FilesKeep' /\ MemoryKeeps'
  BY <1>0, <1>2 DEF Launch, FilesKeep, MemoryKeeps, Restored, Serves, files, memory,
                    history
<1>3. CASE OpenWalletFails \/ MintFails \/ RestoreFails \/ Crash
  BY <1>0, <1>3, EndKept
     DEF OpenWalletFails, MintFails, RestoreFails, Crash, FilesKeep, files, history
<1>4. CASE Restore
  BY <1>0, <1>4 DEF Restore, RestoreHeld, Readable, FilesKeep, MemoryKeeps, files
<1>5. CASE Hold \/ SpendAlone
  BY <1>0, <1>5 DEF Hold, SpendAlone, FilesKeep, MemoryKeeps, Restored, Serves, files,
                    history
<1>6. ASSUME NEW s \in held, Deny(s) \/ Execute(s)
      PROVE  FilesKeep' /\ MemoryKeeps'
  BY <1>0, <1>6 DEF Deny, Execute, FilesKeep, MemoryKeeps, Restored, Serves, files
<1>7. CASE SaveState
  BY <1>0, <1>7 DEF SaveState, WritesState, FilesKeep, MemoryKeeps, Restored, Serves,
                    memory
<1>8. CASE SaveStateFails
  <2>1. FilesKeep'
    BY <1>0, <1>8 DEF SaveStateFails, FilesKeep, files, history
  <2>2. CASE pc = "rewriting"
    BY <1>8, <2>1, <2>2, EndKept DEF SaveStateFails
  <2>3. CASE pc # "rewriting"
    BY <1>0, <1>8, <2>1, <2>3 DEF SaveStateFails, WritesState, MemoryKeeps, Restored,
                                  Serves, memory, history
  <2>4. QED
    BY <2>2, <2>3
<1>9. CASE SavePeriod \/ SavePeriodFails
  BY <1>0, <1>9 DEF SavePeriod, SavePeriodFails, WritesPeriod, AfterPeriod, FilesKeep,
                    MemoryKeeps, Restored, Serves, files, memory, history
<1>10. CASE Tear
  <2>1. FilesKeep'
    BY <1>0, <1>10 DEF Tear, NoState, NoPeriod, FilesKeep, history
  <2>2. QED
    BY <1>10, <2>1, EndKept DEF Tear
<1>11. CASE RemoveFiles
  BY <1>11 DEF RemoveFiles
<1>12. CASE UNCHANGED vars
  BY <1>0, <1>12 DEF vars, FilesKeep, MemoryKeeps, Restored, Serves, files, memory,
                     history
<1>13. QED
  BY <1>1, <1>2, <1>3, <1>4, <1>5, <1>6, <1>7, <1>8, <1>9, <1>10, <1>11, <1>12 DEF Next

(* A running agent holds every spend its state file ever held that was not  *)
(* settled (docs/HEADLESS_DEPLOY.md:98), and its allowance counts all the   *)
(* period file ever counted (README.md:83), unless the files were removed.   *)
THEOREM ForgetsNothing == Spec => []NothingForgotten
<1>1. Kept => NothingForgotten
  BY DEF Kept, MemoryKeeps, Restored, Serves, NothingForgotten
<1>2. QED
  BY <1>1, InitTyped, StepTyped, InitKept, StepKept, PTL DEF Spec

=============================================================================
