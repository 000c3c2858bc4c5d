----------------------- MODULE SpendingPolicy_proofs -----------------------
(***************************************************************************)
(* Proofs about SpendingPolicy, for every value of its constants: any      *)
(* policies, amounts, faults and times.                                    *)
(***************************************************************************)
EXTENDS SpendingPolicy, FiniteSetTheorems, WellFoundedInduction, TLAPS

(* Saturating addition stays within the width of an amount. *)
LEMMA SaturatingAddBounds ==
    ASSUME NEW a \in 0 .. MaxAmount, NEW b \in 0 .. MaxAmount
    PROVE  SaturatingAdd(a, b) \in 0 .. MaxAmount
BY ConstantsAssumption DEF SaturatingAdd, ConstantsAssumption

Accumulates == startedAt \in 0 .. now /\ spent \in 0 .. MaxAmount

(* Rolling a window that is over leaves a window of the past or the present, *)
(* and charging it saturates.                                               *)
LEMMA RolledWindow ==
    ASSUME TypeOK
    PROVE  /\ WindowStart \in 0 .. now
           /\ SpentInWindow \in 0 .. MaxAmount
           /\ \A amount \in 0 .. MaxAmount :
                 SaturatingAdd(SpentInWindow, amount) \in 0 .. MaxAmount
<1>1. WindowStart \in 0 .. now
  BY DEF TypeOK, WindowStart
<1>2. SpentInWindow \in 0 .. MaxAmount
  BY ConstantsAssumption DEF TypeOK, SpentInWindow, ConstantsAssumption
<1>3. QED
  BY <1>1, <1>2, SaturatingAddBounds

(* The conjuncts of TypeOK, by the part of the state they are about. *)
FileOK ==
    file = NoFile \/ (file.startedAt \in 0 .. now /\ file.spent \in 0 .. MaxAmount)
FlightOK ==
    /\ flight \in [gate : {"none", "policy", "owner", "undeclared"},
                   amount : 0 .. MaxAmount]
    /\ flight.gate = "none" => flight = NoFlight
LedgerOK ==
    /\ ledger \in Seq([gate : {"policy", "owner", "undeclared"},
                       amount : 0 .. MaxAmount, at : Nat, window : Nat \cup {Uncharged}])
    /\ unsaved \cup forgotten \subseteq DOMAIN ledger
BudgetOK == budget \in [faults : Nat, transfers : Nat, reconfigs : Nat]

LEMMA TypeParts ==
    TypeOK <=> /\ policy \in Policy
               /\ Accumulates
               /\ FileOK
               /\ FlightOK
               /\ now \in 0 .. MaxTime
               /\ LedgerOK
               /\ BudgetOK
BY DEF TypeOK, Accumulates, FileOK, FlightOK, LedgerOK, BudgetOK

LEMMA InitTypeOK == Init => TypeOK
<1> SUFFICES ASSUME Init PROVE TypeOK
  OBVIOUS
<1> USE ConstantsAssumption DEF ConstantsAssumption, Init
<1>1. policy \in Policy /\ now \in 0 .. MaxTime /\ Accumulates
  BY DEF Accumulates
<1>2. FileOK /\ FlightOK
  BY DEF FileOK, FlightOK, NoFlight
<1>3. LedgerOK /\ BudgetOK
  BY DEF LedgerOK, BudgetOK
<1>4. QED
  BY <1>1, <1>2, <1>3, TypeParts

-----------------------------------------------------------------------------
LEMMA FaultBudget ==
    ASSUME BudgetOK, NEW kind, Fault(kind)
    PROVE  BudgetOK'
BY DEF BudgetOK, Fault

(* A transfer that lands extends the ledger by a well-typed entry. *)
LEMMA LandedType ==
    ASSUME TypeOK, NEW window \in Nat \cup {Uncharged}, flight.gate # "none",
           Landed(window), NEW added, added \subseteq {Len(ledger) + 1},
           unsaved' \cup forgotten' \subseteq unsaved \cup forgotten \cup added
    PROVE  LedgerOK'
<1> DEFINE Entry == [gate : {"policy", "owner", "undeclared"}, amount : 0 .. MaxAmount,
                     at : Nat, window : Nat \cup {Uncharged}]
           entry == [amount |-> flight.amount, gate |-> flight.gate,
                     at |-> now, window |-> window]
<1>1. ledger \in Seq(Entry) /\ unsaved \cup forgotten \subseteq DOMAIN ledger
  BY TypeParts DEF LedgerOK
<1>2. entry \in Entry
  BY TypeParts, ConstantsAssumption DEF FlightOK, ConstantsAssumption
<1>3. ledger' = Append(ledger, entry)
  BY DEF Landed
<1>4. ledger' \in Seq(Entry) /\ DOMAIN ledger' = DOMAIN ledger \cup {Len(ledger) + 1}
  <2> HIDE DEF Entry, entry
  <2>1. QED
    BY <1>1, <1>2, <1>3
<1>5. unsaved' \cup forgotten' \subseteq DOMAIN ledger'
  BY <1>1, <1>4
<1>6. QED
  BY <1>4, <1>5 DEF LedgerOK

(* What is written to the period file is a window of the past or present. *)
LEMMA SavedType ==
    ASSUME Accumulates', UNCHANGED now, Save
    PROVE  FileOK'
BY DEF Accumulates, Save, FileOK

LEMMA RecordType ==
    ASSUME TypeOK, NEW amount \in 0 .. MaxAmount, Record(amount), UNCHANGED now
    PROVE  /\ Accumulates' /\ FileOK' /\ BudgetOK'
           /\ unsaved' \cup forgotten' \subseteq unsaved \cup forgotten \cup {Len(ledger) + 1}
           /\ PeriodOn => startedAt' \in Nat
<1>1. CASE PeriodOn
  <2>1. startedAt' \in 0 .. now /\ spent' \in 0 .. MaxAmount
    BY <1>1, RolledWindow DEF Record
  <2>2. Accumulates'
    BY <2>1 DEF Accumulates
  <2>3. CASE NoFault /\ Save
    BY <2>1, <2>2, <2>3, TypeParts, SavedType DEF NoFault, Save, BudgetOK
  <2>4. CASE /\ Fault("persist_error")
             /\ unsaved' = unsaved \cup {Len(ledger) + 1}
             /\ UNCHANGED <<file, forgotten>>
    <3>1. BudgetOK'
      BY <2>4, TypeParts, FaultBudget
    <3>2. FileOK'
      BY <2>4, TypeParts DEF FileOK
    <3>3. QED
      BY <2>1, <2>2, <2>4, <3>1, <3>2
  <2>5. QED
    BY <1>1, <2>3, <2>4 DEF Record
<1>2. CASE ~ PeriodOn
  BY <1>2, TypeParts DEF Record, accumulator, charges, Accumulates, FileOK, BudgetOK
<1>3. QED
  BY <1>1, <1>2

LEMMA CheckType ==
    ASSUME TypeOK, NEW amount, CheckRolls(amount), UNCHANGED now
    PROVE  Accumulates'
BY TypeParts, RolledWindow DEF CheckRolls, Accumulates, accumulator

LEMMA TryBudget ==
    ASSUME BudgetOK, Try
    PROVE  BudgetOK'
BY DEF BudgetOK, Try

LEMMA StepTypeOK == TypeOK /\ [Next]_vars => TypeOK'
<1> SUFFICES ASSUME TypeOK, [Next]_vars
             PROVE  TypeOK'
  OBVIOUS
<1>0. /\ policy \in Policy /\ Accumulates /\ FileOK /\ FlightOK /\ now \in 0 .. MaxTime
      /\ LedgerOK /\ BudgetOK
  BY TypeParts
<1>a. ASSUME policy' \in Policy, Accumulates', FileOK', FlightOK', now' \in 0 .. MaxTime,
             LedgerOK', BudgetOK'
      PROVE  TypeOK'
  BY <1>a DEF TypeOK, Accumulates, FileOK, FlightOK, LedgerOK, BudgetOK
<1>b. UNCHANGED <<file, now>> => FileOK'
  BY <1>0 DEF FileOK
<1>c. UNCHANGED <<ledger, charges>> => LedgerOK'
  BY <1>0 DEF LedgerOK, charges
<1>d. flight' = NoFlight => FlightOK'
  BY ConstantsAssumption DEF FlightOK, NoFlight, ConstantsAssumption
<1>1. ASSUME NEW amount \in 0 .. MaxAmount, NEW gate \in {"policy", "owner", "undeclared"},
             Begin(gate, amount), Accumulates'
      PROVE  TypeOK'
  <2>1. FlightOK'
    BY <1>1 DEF Begin, FlightOK
  <2>2. BudgetOK'
    BY <1>0, <1>1, TryBudget DEF Begin
  <2>3. QED
    BY <1>0, <1>1, <1>a, <1>b, <1>c, <2>1, <2>2 DEF Begin
<1>2. ASSUME NEW amount \in Amounts,
             SendAllowed(amount) \/ SendHeld(amount) \/ SendApproved(amount)
      PROVE  TypeOK'
  <2>1. amount \in 0 .. MaxAmount
    BY ConstantsAssumption DEF ConstantsAssumption
  <2>2. CASE SendAllowed(amount)
    <3>1. Accumulates'
      BY <2>2, CheckType DEF SendAllowed, Begin
    <3>2. QED
      BY <1>1, <2>1, <2>2, <3>1 DEF SendAllowed
  <2>3. CASE SendHeld(amount)
    <3>1. Accumulates'
      BY <2>3, CheckType DEF SendHeld
    <3>2. BudgetOK'
      BY <1>0, <2>3, TryBudget DEF SendHeld
    <3>3. FlightOK'
      BY <1>0, <2>3 DEF SendHeld, FlightOK
    <3>4. QED
      BY <1>0, <2>3, <1>a, <1>b, <1>c, <3>1, <3>2, <3>3 DEF SendHeld
  <2>4. CASE SendApproved(amount)
    <3>1. Accumulates'
      BY <1>0, <2>4 DEF SendApproved, Begin, accumulator, Accumulates
    <3>2. QED
      BY <1>1, <2>1, <2>4, <3>1 DEF SendApproved
  <2>5. QED
    BY <1>2, <2>2, <2>3, <2>4
<1>3. CASE CallUndeclared
  <2>1. Accumulates'
    BY <1>3, CheckType DEF CallUndeclared, Begin
  <2>2. MaxAmount \in 0 .. MaxAmount
    BY ConstantsAssumption DEF ConstantsAssumption
  <2>3. QED
    BY <1>1, <1>3, <2>1, <2>2 DEF CallUndeclared
<1>4. CASE TransferOk
  <2>1. flight.amount \in 0 .. MaxAmount /\ flight.gate # "none"
    BY <1>0, <1>4 DEF FlightOK, TransferOk
  <2>2. /\ Accumulates' /\ FileOK' /\ BudgetOK'
        /\ unsaved' \cup forgotten' \subseteq unsaved \cup forgotten \cup {Len(ledger) + 1}
        /\ PeriodOn => startedAt' \in Nat
    BY <1>4, <2>1, RecordType DEF TransferOk
  <2>3. PICK window : window = IF PeriodOn THEN startedAt' ELSE Uncharged
    OBVIOUS
  <2>4. LedgerOK'
    BY <1>4, <2>1, <2>2, <2>3, LandedType DEF TransferOk
  <2>5. QED
    BY <1>0, <1>4, <1>a, <1>d, <2>2, <2>4 DEF TransferOk
<1>5. CASE CallUndeclaredOk
  <2>1. LedgerOK'
    BY <1>0, <1>5, LandedType DEF CallUndeclaredOk, charges
  <2>2. Accumulates' /\ BudgetOK'
    BY <1>0, <1>5 DEF CallUndeclaredOk, Accumulates, accumulator, BudgetOK
  <2>3. QED
    BY <1>0, <1>5, <1>a, <1>b, <1>d, <2>1, <2>2 DEF CallUndeclaredOk
<1>6. CASE TransferFails
  <2>1. flight.gate # "none"
    BY <1>0, <1>6 DEF TransferFails, FlightOK, NoFlight
  <2>2. LedgerOK'
    BY <1>0, <1>6, <1>c, <2>1, LandedType DEF TransferFails, charges
  <2>3. Accumulates' /\ BudgetOK'
    BY <1>0, <1>6, FaultBudget DEF TransferFails, Accumulates, accumulator
  <2>4. QED
    BY <1>0, <1>6, <1>a, <1>b, <1>d, <2>2, <2>3 DEF TransferFails
<1>7. ASSUME NEW new \in Policies, Reconfigure(new)
      PROVE  TypeOK'
  <2>1. policy' \in Policy
    BY <1>7, ConstantsAssumption DEF Reconfigure, ConstantsAssumption
  <2>2. Accumulates' /\ FlightOK'
    BY <1>0, <1>7 DEF Reconfigure, Accumulates, accumulator, FlightOK
  <2>3. BudgetOK'
    BY <1>0, <1>7 DEF Reconfigure, BudgetOK
  <2>4. QED
    BY <1>0, <1>7, <1>a, <1>b, <1>c, <2>1, <2>2, <2>3 DEF Reconfigure
<1>8. CASE Tick
  <2>1. now' \in 0 .. MaxTime /\ now' = now + 1
    BY <1>0, <1>8, ConstantsAssumption DEF Tick, ConstantsAssumption
  <2>2. Accumulates' /\ FileOK'
    BY <1>0, <1>8, <2>1 DEF Tick, Accumulates, accumulator, FileOK
  <2>3. FlightOK' /\ BudgetOK'
    BY <1>0, <1>8 DEF Tick, FlightOK, BudgetOK
  <2>4. QED
    BY <1>0, <1>8, <1>a, <1>c, <2>1, <2>2, <2>3 DEF Tick
<1>9. CASE Restart
  <2>1. policy' \in Policy
    BY <1>9, ConstantsAssumption DEF Restart, ConstantsAssumption
  <2>2. Accumulates'
    BY <1>0, <1>9, ConstantsAssumption
       DEF Restart, Restore, Accumulates, FileOK, ConstantsAssumption
  <2>3. unsaved' \cup forgotten' = unsaved \cup forgotten
    BY <1>9 DEF Restart
  <2>4. CASE UNCHANGED ledger
    BY <1>0, <1>9, <1>a, <1>b, <1>d, <2>1, <2>2, <2>3, <2>4, FaultBudget
       DEF Restart, LedgerOK
  <2>5. CASE flight # NoFlight /\ Landed(Uncharged)
    <3>1. flight.gate # "none"
      BY <1>0, <2>5 DEF FlightOK, NoFlight
    <3>2. LedgerOK'
      BY <2>3, <2>5, <3>1, LandedType
    <3>3. QED
      BY <1>0, <1>9, <1>a, <1>b, <1>d, <2>1, <2>2, <3>2, FaultBudget DEF Restart
  <2>6. QED
    BY <1>9, <2>4, <2>5 DEF Restart
<1>10. CASE UNCHANGED vars
  BY <1>10 DEF TypeOK, vars, accumulator, charges
<1>11. QED
  BY <1>2, <1>3, <1>4, <1>5, <1>6, <1>7, <1>8, <1>9, <1>10 DEF Next

(* The accumulator never leaves the width of an amount and its window never *)
(* starts in the future, whatever the policies, the faults and the times.   *)
THEOREM TypeCorrect == Spec => []TypeOK
<1>1. QED
  BY InitTypeOK, StepTypeOK, PTL DEF Spec

-----------------------------------------------------------------------------
(* Sums of amounts.  Total is a fold, defined by recursion over the subsets of *)
(* a set; what it computes is the number of units the entries stand for, and  *)
(* the cardinality of finite sets has the laws a sum needs.                   *)

Entry == [gate : {"policy", "owner", "undeclared"}, amount : 0 .. MaxAmount,
          at : Nat, window : Nat \cup {Uncharged}]

Sums(q, S) ==
    LET sum[s \in SUBSET S] ==
          IF s = {} THEN 0
          ELSE LET x == CHOOSE x \in s : TRUE IN q[x].amount + sum[s \ {x}]
    IN  sum

Units(q, S) == {u \in S \X (1 .. MaxAmount) : u[2] <= q[u[1]].amount}
Mass(q, S)  == Cardinality(Units(q, S))

LEMMA TotalIsSum == \A S : Total(S) = Sums(ledger, S)[S]
BY DEF Total, MapThenSumSet, MapThenFoldSet, Sums

LEMMA UnitsFinite ==
    ASSUME NEW q, NEW S, IsFiniteSet(S)
    PROVE  IsFiniteSet(Units(q, S)) /\ Mass(q, S) \in Nat
<1>1. IsFiniteSet(1 .. MaxAmount)
  <2>1. 1 \in Int /\ MaxAmount \in Int
    BY ConstantsAssumption DEF ConstantsAssumption
  <2>2. QED
    BY <2>1, FS_Interval, Zenon
<1>2. IsFiniteSet(S \X (1 .. MaxAmount))
  BY <1>1, FS_Product
<1>3. Units(q, S) \in SUBSET (S \X (1 .. MaxAmount))
  BY DEF Units
<1>4. QED
  BY <1>2, <1>3, FS_Subset, FS_CardinalityType DEF Mass

LEMMA MassMonotone ==
    ASSUME NEW q, NEW T, IsFiniteSet(T), NEW S \in SUBSET T
    PROVE  Mass(q, S) <= Mass(q, T)
<1>1. Units(q, S) \in SUBSET Units(q, T)
  BY DEF Units
<1>2. QED
  BY <1>1, UnitsFinite, FS_Subset DEF Mass

LEMMA MassOfNone == \A q : Mass(q, {}) = 0
<1> SUFFICES ASSUME NEW q PROVE Mass(q, {}) = 0
  OBVIOUS
<1>1. Units(q, {}) = {}
  BY DEF Units
<1>2. QED
  BY <1>1, FS_EmptySet DEF Mass

LEMMA MassOfOne ==
    ASSUME NEW q, NEW x, q[x].amount \in 0 .. MaxAmount
    PROVE  Mass(q, {x}) = q[x].amount
<1> DEFINE n == q[x].amount
<1>1. n \in Nat /\ n <= MaxAmount /\ MaxAmount \in Nat
  BY ConstantsAssumption DEF ConstantsAssumption
<1>2. Units(q, {x}) = {x} \X (1 .. n)
  BY <1>1 DEF Units
<1> HIDE DEF n
<1>3. IsFiniteSet({x}) /\ Cardinality({x}) = 1
  BY FS_Singleton
<1>4. IsFiniteSet(1 .. n) /\ Cardinality(1 .. n) = n
  <2>1. 1 \in Int /\ n \in Int
    BY <1>1
  <2>2. IsFiniteSet(1 .. n) /\ Cardinality(1 .. n) = IF 1 > n THEN 0 ELSE n - 1 + 1
    BY <2>1, FS_Interval, Zenon
  <2>3. QED
    BY <1>1, <2>2
<1>5. Cardinality({x} \X (1 .. n)) = n
  <2>1. Cardinality({x} \X (1 .. n)) = Cardinality({x}) * Cardinality(1 .. n)
    BY <1>3, <1>4, FS_Product, Zenon
  <2>2. QED
    BY <1>1, <1>3, <1>4, <2>1
<1>6. QED
  BY <1>2, <1>5 DEF Mass, n

LEMMA MassOfUnion ==
    ASSUME NEW q, NEW S, NEW T, IsFiniteSet(S), IsFiniteSet(T)
    PROVE  /\ Mass(q, S \cup T) <= Mass(q, S) + Mass(q, T)
           /\ S \cap T = {} => Mass(q, S \cup T) = Mass(q, S) + Mass(q, T)
<1> DEFINE I == 1 .. MaxAmount
<1>a. (S \cup T) \X I = (S \X I) \cup (T \X I)
  OBVIOUS
<1>b. S \cap T = {} => (S \X I) \cap (T \X I) = {}
  OBVIOUS
<1> HIDE DEF I
<1>1. Units(q, S \cup T) = Units(q, S) \cup Units(q, T)
  BY <1>a DEF Units, I
<1>2. S \cap T = {} => Units(q, S) \cap Units(q, T) = {}
  BY <1>b DEF Units, I
<1>3. /\ IsFiniteSet(Units(q, S)) /\ IsFiniteSet(Units(q, T))
      /\ Mass(q, S) \in Nat /\ Mass(q, T) \in Nat
  BY UnitsFinite
<1>4. /\ IsFiniteSet(Units(q, S) \cap Units(q, T))
      /\ Cardinality(Units(q, S) \cap Units(q, T)) \in Nat
  BY <1>3, FS_Intersection, FS_CardinalityType
<1>5. Mass(q, S \cup T) = Mass(q, S) + Mass(q, T) - Cardinality(Units(q, S) \cap Units(q, T))
  BY <1>1, <1>3, FS_Union DEF Mass
<1>6. QED
  BY <1>2, <1>3, <1>4, <1>5, FS_EmptySet

(* The number of units satisfies the recursion, so the recursion defines a    *)
(* function; a least subset on which the two differ would have a smaller one. *)
LEMMA SumIsMass ==
    ASSUME NEW q, NEW S, IsFiniteSet(S), \A x \in S : q[x].amount \in 0 .. MaxAmount
    PROVE  Sums(q, S)[S] = Mass(q, S)
<1> DEFINE pick(s) == CHOOSE x \in s : TRUE
           g == [s \in SUBSET S |-> Mass(q, s)]
           f == Sums(q, S)
<1>1. ASSUME NEW s \in SUBSET S, s # {}
      PROVE  /\ pick(s) \in s /\ s \ {pick(s)} \in SUBSET S
             /\ Mass(q, s) = q[pick(s)].amount + Mass(q, s \ {pick(s)})
  <2>1. pick(s) \in s
    BY <1>1
  <2> HIDE DEF pick
  <2>2. s = {pick(s)} \cup (s \ {pick(s)}) /\ {pick(s)} \cap (s \ {pick(s)}) = {}
    BY <2>1
  <2>3. IsFiniteSet({pick(s)}) /\ IsFiniteSet(s \ {pick(s)})
    <3>1. s \ {pick(s)} \in SUBSET S
      OBVIOUS
    <3>2. QED
      BY <3>1, FS_Singleton, FS_Subset
  <2>4. Mass(q, s) = Mass(q, {pick(s)}) + Mass(q, s \ {pick(s)})
    BY <2>2, <2>3, MassOfUnion
  <2>5. Mass(q, {pick(s)}) = q[pick(s)].amount
    BY <2>1, MassOfOne
  <2>6. QED
    BY <2>1, <2>4, <2>5
<1>2. g = [s \in SUBSET S |-> IF s = {} THEN 0 ELSE q[pick(s)].amount + g[s \ {pick(s)}]]
  <2>1. \A s \in SUBSET S :
           Mass(q, s) = IF s = {} THEN 0 ELSE q[pick(s)].amount + g[s \ {pick(s)}]
    BY <1>1, MassOfNone
  <2>2. QED
    BY <2>1
<1>3. f = [s \in SUBSET S |-> IF s = {} THEN 0 ELSE q[pick(s)].amount + f[s \ {pick(s)}]]
  <2> HIDE DEF g
  <2>1. f = CHOOSE h :
              h = [s \in SUBSET S |-> IF s = {} THEN 0 ELSE q[pick(s)].amount + h[s \ {pick(s)}]]
    BY Zenon DEF Sums
  <2> HIDE DEF f, pick
  <2>2. QED
    BY <1>2, <2>1
<1> HIDE DEF f, pick
<1>4. \A s \in SUBSET S : s # {} => f[s] = q[pick(s)].amount + f[s \ {pick(s)}]
  BY <1>3
<1>5. f[{}] = 0
  BY <1>3
<1> DEFINE Differ == {s \in SUBSET S : f[s] # Mass(q, s)}
<1>6. Differ = {}
  <2> SUFFICES ASSUME Differ # {} PROVE FALSE
    OBVIOUS
  <2>1. FiniteSubsetsOf(S) = SUBSET S
    BY FS_FiniteSubsetsOfFinite
  <2>2. IsWellFoundedOn(StrictSubsetOrdering(S), SUBSET S)
    BY <2>1, FS_StrictSubsetOrderingWellFounded
  <2>3. PICK s \in Differ : \A t \in Differ : ~ (<<t, s>> \in StrictSubsetOrdering(S))
    BY <2>2, WFMin
  <2>4. s # {}
    BY <1>5, MassOfNone
  <2>5. pick(s) \in s /\ s \ {pick(s)} \in SUBSET S
    BY <1>1, <2>4
  <2>6. f[s \ {pick(s)}] # Mass(q, s \ {pick(s)})
    BY <1>1, <1>4, <2>4
  <2>7. <<s \ {pick(s)}, s>> \in StrictSubsetOrdering(S)
    BY <2>5 DEF StrictSubsetOrdering
  <2>8. QED
    BY <2>3, <2>5, <2>6, <2>7
<1>7. S \in SUBSET S
  OBVIOUS
<1>8. QED
  BY <1>6, <1>7 DEF f

LEMMA EntryAt ==
    ASSUME NEW q \in Seq(Entry), NEW i \in DOMAIN q
    PROVE  /\ q[i].amount \in 0 .. MaxAmount /\ q[i].at \in Nat
           /\ q[i].window \in Nat \cup {Uncharged}
<1>1. q[i] \in Entry
  OBVIOUS
<1>2. QED
  BY <1>1 DEF Entry

LEMMA IndexesFinite ==
    ASSUME NEW q \in Seq(Entry), NEW S \in SUBSET DOMAIN q
    PROVE  IsFiniteSet(S) /\ Mass(q, S) \in Nat
<1>1. DOMAIN q = 1 .. Len(q) /\ Len(q) \in Nat
  OBVIOUS
<1>2. IsFiniteSet(DOMAIN q)
  <2>1. 1 \in Int /\ Len(q) \in Int
    BY <1>1
  <2>2. QED
    BY <1>1, <2>1, FS_Interval, Zenon
<1>3. IsFiniteSet(S)
  BY <1>2, FS_Subset, Zenon
<1>4. QED
  BY <1>3, UnitsFinite

LEMMA TotalIsMass ==
    ledger \in Seq(Entry) =>
       \A S \in SUBSET DOMAIN ledger : Total(S) = Mass(ledger, S)
<1> SUFFICES ASSUME ledger \in Seq(Entry), NEW S \in SUBSET DOMAIN ledger
             PROVE  Total(S) = Mass(ledger, S)
  OBVIOUS
<1>1. IsFiniteSet(S)
  BY IndexesFinite
<1>2. \A x \in S : ledger[x].amount \in 0 .. MaxAmount
  BY EntryAt
<1>3. Sums(ledger, S)[S] = Mass(ledger, S)
  BY <1>1, <1>2, SumIsMass
<1>4. QED
  BY <1>3, TotalIsSum

-----------------------------------------------------------------------------
(* What an accumulator that began at start and holds sum says of the entries S *)
(* of a ledger q: it is the sum of those charged to its window, up to the      *)
(* width of an amount, and none of them was charged to a later window.         *)

Capped(x) == IF x > MaxAmount THEN MaxAmount ELSE x
ChargedTo(q, S, w) == {i \in S : q[i].window = w}

Books(q, S, start, sum) ==
    /\ sum = Capped(Mass(q, ChargedTo(q, S, start)))
    /\ \A i \in S : q[i].window = Uncharged \/ q[i].window <= start

LEMMA AppendEntry ==
    ASSUME NEW q \in Seq(Entry), NEW e \in Entry
    PROVE  /\ Append(q, e) \in Seq(Entry)
           /\ DOMAIN Append(q, e) = DOMAIN q \cup {Len(q) + 1}
           /\ Len(q) + 1 \notin DOMAIN q
           /\ \A i \in DOMAIN q : Append(q, e)[i] = q[i]
           /\ Append(q, e)[Len(q) + 1] = e
OBVIOUS

LEMMA MassAppend ==
    ASSUME NEW q \in Seq(Entry), NEW e \in Entry, NEW S \in SUBSET DOMAIN q
    PROVE  /\ Mass(Append(q, e), S) = Mass(q, S)
           /\ Mass(Append(q, e), S \cup {Len(q) + 1}) = Mass(q, S) + e.amount
<1> DEFINE r == Append(q, e)
           n == Len(q) + 1
<1>1. /\ r \in Seq(Entry) /\ DOMAIN r = DOMAIN q \cup {n} /\ n \notin DOMAIN q
      /\ \A i \in DOMAIN q : r[i] = q[i]
      /\ r[n] = e
  BY AppendEntry
<1> HIDE DEF r, n
<1>2. Mass(r, S) = Mass(q, S)
  <2>1. Units(r, S) = Units(q, S)
    BY <1>1 DEF Units
  <2>2. QED
    BY <2>1 DEF Mass
<1>3. Mass(r, {n}) = e.amount
  BY <1>1, MassOfOne DEF Entry
<1>4. IsFiniteSet(S) /\ IsFiniteSet({n}) /\ S \cap {n} = {}
  BY <1>1, IndexesFinite, FS_Singleton
<1>5. Mass(r, S \cup {n}) = Mass(r, S) + Mass(r, {n})
  BY <1>4, MassOfUnion
<1>6. QED
  BY <1>2, <1>3, <1>5 DEF r, n

(* Rolling a window that is over. *)
LEMMA BooksRoll ==
    ASSUME NEW q \in Seq(Entry), NEW S \in SUBSET DOMAIN q, NEW start \in Nat, NEW sum,
           Books(q, S, start, sum), NEW later \in Nat, start < later
    PROVE  Books(q, S, later, 0)
<1>1. \A i \in S : q[i].window # later /\ (q[i].window = Uncharged \/ q[i].window <= later)
  <2> SUFFICES ASSUME NEW i \in S
               PROVE  q[i].window # later /\ (q[i].window = Uncharged \/ q[i].window <= later)
    OBVIOUS
  <2>1. q[i].window \in Nat \cup {Uncharged} /\ Uncharged \notin Nat
    BY EntryAt, ConstantsAssumption DEF ConstantsAssumption
  <2>2. q[i].window = Uncharged \/ q[i].window <= start
    BY DEF Books
  <2>3. QED
    BY <2>1, <2>2
<1>2. ChargedTo(q, S, later) = {}
  BY <1>1 DEF ChargedTo
<1>3. Capped(0) = 0
  BY ConstantsAssumption DEF Capped, ConstantsAssumption
<1>4. QED
  BY <1>1, <1>2, <1>3, MassOfNone DEF Books

(* A start without a period file. *)
LEMMA BooksFresh ==
    ASSUME NEW q \in Seq(Entry), NEW S \in SUBSET DOMAIN q, NEW start \in Nat,
           \A i \in S : q[i].window = Uncharged
    PROVE  Books(q, S, start, 0)
<1>1. ChargedTo(q, S, start) = {}
  BY ConstantsAssumption DEF ChargedTo, ConstantsAssumption
<1>2. Capped(0) = 0
  BY ConstantsAssumption DEF Capped, ConstantsAssumption
<1>3. QED
  BY <1>1, <1>2, MassOfNone DEF Books

(* An entry the accumulator is not told of, or that is not charged. *)
LEMMA BooksSkip ==
    ASSUME NEW q \in Seq(Entry), NEW e \in Entry, NEW S \in SUBSET DOMAIN q,
           NEW start \in Nat, NEW sum, Books(q, S, start, sum)
    PROVE  /\ Books(Append(q, e), S, start, sum)
           /\ e.window = Uncharged => Books(Append(q, e), S \cup {Len(q) + 1}, start, sum)
<1> DEFINE r == Append(q, e)
           n == Len(q) + 1
<1>1. /\ DOMAIN r = DOMAIN q \cup {n} /\ n \notin DOMAIN q
      /\ \A i \in DOMAIN q : r[i] = q[i]
      /\ r[n] = e
  BY AppendEntry
<1>2. \A T \in SUBSET DOMAIN q : Mass(r, T) = Mass(q, T)
  BY MassAppend
<1> HIDE DEF r, n
<1>3. ChargedTo(r, S, start) = ChargedTo(q, S, start)
  BY <1>1 DEF ChargedTo
<1>4. ChargedTo(q, S, start) \in SUBSET DOMAIN q
  BY DEF ChargedTo
<1>5. Books(r, S, start, sum)
  BY <1>1, <1>2, <1>3, <1>4 DEF Books
<1>6. ASSUME e.window = Uncharged
      PROVE  Books(r, S \cup {n}, start, sum)
  <2>1. ChargedTo(r, S \cup {n}, start) = ChargedTo(r, S, start)
    BY <1>1, <1>6, ConstantsAssumption DEF ChargedTo, ConstantsAssumption
  <2>2. QED
    BY <1>1, <1>5, <1>6, <2>1 DEF Books
<1>7. QED
  BY <1>5, <1>6 DEF r, n

(* An entry charged to the window of the accumulator. *)
LEMMA BooksCharge ==
    ASSUME NEW q \in Seq(Entry), NEW e \in Entry, NEW S \in SUBSET DOMAIN q,
           NEW start \in Nat, NEW sum, Books(q, S, start, sum), e.window = start
    PROVE  Books(Append(q, e), S \cup {Len(q) + 1}, start, SaturatingAdd(sum, e.amount))
<1> DEFINE r == Append(q, e)
           n == Len(q) + 1
           C == ChargedTo(q, S, start)
<1>1. /\ DOMAIN r = DOMAIN q \cup {n} /\ n \notin DOMAIN q
      /\ \A i \in DOMAIN q : r[i] = q[i]
      /\ r[n] = e
  BY AppendEntry
<1>2. C \in SUBSET DOMAIN q
  BY DEF ChargedTo
<1>3. Mass(r, C \cup {n}) = Mass(q, C) + e.amount /\ Mass(q, C) \in Nat
  BY <1>2, MassAppend, IndexesFinite
<1> HIDE DEF r, n
<1>4. ChargedTo(r, S \cup {n}, start) = C \cup {n}
  BY <1>1 DEF ChargedTo
<1> HIDE DEF C
<1>5. sum = Capped(Mass(q, C))
  BY DEF Books, C
<1>6. SaturatingAdd(sum, e.amount) = Capped(Mass(q, C) + e.amount)
  <2>1. e.amount \in Nat /\ MaxAmount \in Nat
    BY ConstantsAssumption DEF Entry, ConstantsAssumption
  <2>2. QED
    BY <1>3, <1>5, <2>1 DEF SaturatingAdd, Capped
<1>7. \A i \in S \cup {n} : r[i].window = Uncharged \/ r[i].window <= start
  BY <1>1 DEF Books
<1>8. QED
  BY <1>3, <1>4, <1>6, <1>7 DEF Books, r, n

-----------------------------------------------------------------------------
(* The inductive invariant behind AccumulatorMatchesLedger: the accumulator in *)
(* memory is right about the charges no restart has forgotten, the one in the  *)
(* file about those that were written, and no charge is dated before its       *)
(* window or after the clock.                                                  *)

Known   == DOMAIN ledger \ forgotten
Written == DOMAIN ledger \ (forgotten \cup unsaved)

FileBooks(q, S, f) ==
    IF f = NoFile THEN \A i \in S : q[i].window = Uncharged
                  ELSE f \in Contents /\ Books(q, S, f.startedAt, f.spent)

Dated == \A i \in DOMAIN ledger :
            /\ ledger[i].at <= now
            /\ ledger[i].window = Uncharged \/ ledger[i].window <= ledger[i].at

Ledgered ==
    /\ Books(ledger, Known, startedAt, spent)
    /\ FileBooks(ledger, Written, file)
    /\ Dated

NewEntry(window) == [amount |-> flight.amount, gate |-> flight.gate, at |-> now, window |-> window]

LEMMA InitLedgered == Init => Ledgered
<1> SUFFICES ASSUME Init PROVE Ledgered
  OBVIOUS
<1>1. ledger \in Seq(Entry) /\ DOMAIN ledger = {} /\ Known = {} /\ Written = {}
  BY DEF Init, Known, Written
<1>2. startedAt = 0 /\ spent = 0 /\ file = NoFile
  BY DEF Init
<1>3. Books(ledger, Known, startedAt, spent)
  BY <1>1, <1>2, BooksFresh
<1>4. QED
  BY <1>1, <1>2, <1>3 DEF Ledgered, FileBooks, Dated

LEMMA LedgerTypes ==
    ASSUME TypeOK
    PROVE  /\ ledger \in Seq(Entry) /\ startedAt \in Nat /\ startedAt <= now /\ now \in Nat
           /\ spent \in 0 .. MaxAmount
           /\ Known \in SUBSET DOMAIN ledger /\ Written \in SUBSET DOMAIN ledger
           /\ unsaved \cup forgotten \subseteq DOMAIN ledger
BY ConstantsAssumption DEF TypeOK, Entry, Known, Written, ConstantsAssumption

LEMMA NewEntryType ==
    ASSUME TypeOK, flight.gate # "none", NEW window \in Nat \cup {Uncharged}
    PROVE  NewEntry(window) \in Entry
BY LedgerTypes DEF TypeOK, Entry, NewEntry

(* A window that is over began before now. *)
LEMMA OverIsEarlier ==
    ASSUME TypeOK, PeriodOn, WindowOver
    PROVE  startedAt < now
BY LedgerTypes DEF TypeOK, PeriodOn, WindowOver, Policy

LEMMA RolledBooks ==
    ASSUME TypeOK, Ledgered, PeriodOn
    PROVE  Books(ledger, Known, WindowStart, SpentInWindow)
<1>1. CASE WindowOver
  BY <1>1, LedgerTypes, OverIsEarlier, BooksRoll DEF Ledgered, WindowStart, SpentInWindow
<1>2. CASE ~ WindowOver
  BY <1>2 DEF Ledgered, WindowStart, SpentInWindow
<1>3. QED
  BY <1>1, <1>2

LEMMA CheckLedgered ==
    ASSUME TypeOK, Ledgered, NEW amount, CheckRolls(amount), UNCHANGED <<file, now, ledger, charges>>
    PROVE  Ledgered'
<1>1. Known' = Known /\ Written' = Written /\ ledger' = ledger /\ file' = file /\ now' = now
  BY DEF Known, Written, charges
<1>2. Books(ledger, Known, startedAt', spent')
  BY RolledBooks DEF CheckRolls, accumulator, Ledgered
<1>3. QED
  BY <1>1, <1>2 DEF Ledgered, Dated

LEMMA FileBooksSkip ==
    ASSUME NEW q \in Seq(Entry), NEW e \in Entry, NEW S \in SUBSET DOMAIN q, NEW f,
           FileBooks(q, S, f)
    PROVE  /\ FileBooks(Append(q, e), S, f)
           /\ e.window = Uncharged => FileBooks(Append(q, e), S \cup {Len(q) + 1}, f)
<1>1. CASE f = NoFile
  BY <1>1, AppendEntry DEF FileBooks
<1>2. CASE f # NoFile
  <2>1. f.startedAt \in Nat
    BY <1>2 DEF FileBooks, Contents
  <2>2. QED
    BY <1>2, <2>1, BooksSkip DEF FileBooks
<1>3. QED
  BY <1>1, <1>2

LEMMA LandedDated ==
    ASSUME TypeOK, Dated, NEW window \in Nat \cup {Uncharged}, flight.gate # "none",
           Landed(window), window = Uncharged \/ window <= now, UNCHANGED now
    PROVE  /\ Dated' /\ ledger' = Append(ledger, NewEntry(window))
           /\ NewEntry(window) \in Entry
<1>1. NewEntry(window) \in Entry /\ ledger' = Append(ledger, NewEntry(window))
  BY NewEntryType DEF Landed, NewEntry
<1>2. /\ DOMAIN ledger' = DOMAIN ledger \cup {Len(ledger) + 1}
      /\ \A i \in DOMAIN ledger : ledger'[i] = ledger[i]
      /\ ledger'[Len(ledger) + 1] = NewEntry(window)
  BY <1>1, LedgerTypes, AppendEntry
<1>3. QED
  BY <1>1, <1>2, LedgerTypes DEF Dated, NewEntry

(* A transfer the accumulator is not told of. *)
LEMMA UnchargedLedgered ==
    ASSUME TypeOK, Ledgered, flight.gate # "none", Landed(Uncharged),
           UNCHANGED <<accumulator, file, charges, now>>
    PROVE  Ledgered'
<1> DEFINE n == Len(ledger) + 1
           e == NewEntry(Uncharged)
<1>1. Dated' /\ ledger' = Append(ledger, e) /\ e \in Entry /\ e.window = Uncharged
  BY LandedDated DEF Ledgered, NewEntry
<1>2. DOMAIN ledger' = DOMAIN ledger \cup {n} /\ n \notin DOMAIN ledger
  BY <1>1, LedgerTypes, AppendEntry
<1>3. Known' = Known \cup {n} /\ Written' = Written \cup {n}
  BY <1>2, LedgerTypes DEF Known, Written, charges
<1>4. /\ startedAt' = startedAt /\ spent' = spent /\ file' = file
      /\ Books(ledger, Known, startedAt, spent) /\ FileBooks(ledger, Written, file)
  BY DEF accumulator, Ledgered
<1> HIDE DEF e
<1>5. Books(ledger', Known', startedAt, spent)
  BY <1>1, <1>3, <1>4, LedgerTypes, BooksSkip
<1>6. FileBooks(ledger', Written', file)
  BY <1>1, <1>3, <1>4, LedgerTypes, FileBooksSkip
<1>7. QED
  BY <1>1, <1>4, <1>5, <1>6 DEF Ledgered

(* A transfer that is charged: the window may roll, and the file may keep the  *)
(* accumulator it had.                                                         *)
LEMMA ChargedLedgered ==
    ASSUME TypeOK, Ledgered, TransferOk, PeriodOn
    PROVE  Ledgered'
<1> DEFINE n == Len(ledger) + 1
           w == WindowStart
           e == NewEntry(w)
<1>0. /\ flight.gate # "none" /\ UNCHANGED now /\ Landed(w)
      /\ startedAt' = w /\ spent' = SaturatingAdd(SpentInWindow, flight.amount)
      /\ w \in Nat /\ w <= now
      /\ \/ Save
         \/ unsaved' = unsaved \cup {n} /\ UNCHANGED <<file, forgotten>>
  BY LedgerTypes DEF TransferOk, Record, WindowStart
<1>1. Dated' /\ ledger' = Append(ledger, e) /\ e \in Entry
  BY <1>0, LandedDated DEF Ledgered
<1>2. e.window = w /\ e.amount = flight.amount
  BY DEF NewEntry
<1> HIDE DEF e, w
<1>3. DOMAIN ledger' = DOMAIN ledger \cup {n} /\ n \notin DOMAIN ledger
  BY <1>1, LedgerTypes, AppendEntry
<1>4. UNCHANGED forgotten
  BY <1>0 DEF Save
<1>5. Known' = Known \cup {n}
  BY <1>3, <1>4, LedgerTypes DEF Known
<1>6. Books(ledger, Known, w, SpentInWindow)
  BY RolledBooks DEF w
<1>7. Books(ledger', Known', w, SaturatingAdd(SpentInWindow, e.amount))
  BY <1>0, <1>1, <1>2, <1>5, <1>6, LedgerTypes, BooksCharge
<1>8. Books(ledger', Known', startedAt', spent')
  BY <1>0, <1>2, <1>7
<1>9. FileBooks(ledger', Written', file')
  <2>1. CASE Save
    <3>1. Written' = Known' /\ file' = [startedAt |-> startedAt', spent |-> spent']
      BY <2>1 DEF Save, Written, Known
    <3>2. file' \in Contents
      BY <3>1, StepTypeOK, <1>0, LedgerTypes, RolledWindow DEF Contents, TypeOK
    <3>3. file' # NoFile
      BY <3>2, ConstantsAssumption DEF ConstantsAssumption
    <3>4. QED
      BY <1>8, <3>1, <3>2, <3>3 DEF FileBooks
  <2>2. CASE unsaved' = unsaved \cup {n} /\ UNCHANGED <<file, forgotten>>
    <3>1. Written' = Written
      BY <1>3, <2>2, LedgerTypes DEF Written
    <3>2. FileBooks(ledger, Written, file)
      BY DEF Ledgered
    <3>3. QED
      BY <1>1, <2>2, <3>1, <3>2, LedgerTypes, FileBooksSkip
  <2>3. QED
    BY <1>0, <2>1, <2>2
<1>10. QED
  BY <1>1, <1>8, <1>9 DEF Ledgered

(* A restart believes the file, and forgets what the file never received. *)
LEMMA RestartLedgered ==
    ASSUME TypeOK, Ledgered, Restart
    PROVE  Ledgered'
<1> DEFINE n == Len(ledger) + 1
           e == NewEntry(Uncharged)
<1>0. /\ UNCHANGED <<file, now>> /\ Restore
      /\ unsaved' = {} /\ forgotten' = forgotten \cup unsaved
      /\ FileBooks(ledger, Written, file) /\ Dated
  BY DEF Restart, Ledgered
<1>1. Known' = Written' /\ Written' = DOMAIN ledger' \ (forgotten \cup unsaved)
  BY <1>0 DEF Known, Written
<1>2. Dated' /\ FileBooks(ledger', Written', file') /\ ledger' \in Seq(Entry)
  <2>1. CASE UNCHANGED ledger
    <3>1. Written' = Written
      BY <1>1, <2>1 DEF Written
    <3>2. QED
      BY <1>0, <2>1, <3>1, LedgerTypes DEF Dated
  <2>2. CASE flight # NoFlight /\ Landed(Uncharged)
    <3>1. flight.gate # "none"
      BY <2>2 DEF TypeOK
    <3>2. Dated' /\ ledger' = Append(ledger, e) /\ e \in Entry /\ e.window = Uncharged
      BY <1>0, <2>2, <3>1, LandedDated DEF NewEntry
    <3> HIDE DEF e
    <3>3. DOMAIN ledger' = DOMAIN ledger \cup {n} /\ n \notin DOMAIN ledger /\ ledger' \in Seq(Entry)
      BY <3>2, LedgerTypes, AppendEntry
    <3>4. Written' = Written \cup {n}
      BY <1>1, <3>3, LedgerTypes DEF Written
    <3>5. QED
      BY <1>0, <3>2, <3>3, <3>4, LedgerTypes, FileBooksSkip
  <2>3. QED
    BY <2>1, <2>2 DEF Restart
<1>3. Books(ledger', Known', startedAt', spent')
  <2>1. Written' \in SUBSET DOMAIN ledger'
    BY <1>1
  <2>2. CASE file = NoFile
    <3>1. startedAt' = now /\ spent' = 0
      BY <1>0, <2>2 DEF Restore
    <3>2. \A i \in Written' : ledger'[i].window = Uncharged
      BY <1>0, <1>2, <2>2 DEF FileBooks
    <3>3. QED
      BY <1>1, <1>2, <2>1, <3>1, <3>2, LedgerTypes, BooksFresh
  <2>3. CASE file # NoFile
    <3>1. startedAt' = file.startedAt /\ spent' = file.spent
      BY <1>0, <2>3 DEF Restore
    <3>2. QED
      BY <1>0, <1>1, <1>2, <2>3, <3>1 DEF FileBooks
  <2>4. QED
    BY <2>2, <2>3
<1>4. QED
  BY <1>2, <1>3 DEF Ledgered

LEMMA StepLedgered == TypeOK /\ Ledgered /\ [Next]_vars => Ledgered'
<1> SUFFICES ASSUME TypeOK, Ledgered, [Next]_vars
             PROVE  Ledgered'
  OBVIOUS
<1>1. ASSUME UNCHANGED <<accumulator, file, ledger, charges>>, now' = now \/ now' = now + 1
      PROVE  Ledgered'
  <2>1. /\ Known' = Known /\ Written' = Written /\ ledger' = ledger /\ file' = file
        /\ startedAt' = startedAt /\ spent' = spent
    BY <1>1 DEF Known, Written, charges, accumulator
  <2>2. Dated'
    <3> SUFFICES ASSUME NEW i \in DOMAIN ledger
                 PROVE  /\ ledger[i].at <= now'
                        /\ ledger[i].window = Uncharged \/ ledger[i].window <= ledger[i].at
      BY <2>1 DEF Dated
    <3>1. ledger[i].at \in Nat /\ ledger[i].at <= now /\ now \in Nat
      BY LedgerTypes, EntryAt DEF Ledgered, Dated
    <3>2. QED
      BY <1>1, <3>1 DEF Ledgered, Dated
  <2>3. QED
    BY <2>1, <2>2 DEF Ledgered
<1>2. ASSUME NEW amount \in Amounts,
             SendAllowed(amount) \/ SendHeld(amount) \/ SendApproved(amount)
      PROVE  Ledgered'
  BY <1>1, <1>2, CheckLedgered DEF SendAllowed, SendHeld, SendApproved, Begin
<1>3. CASE CallUndeclared
  BY <1>3, CheckLedgered DEF CallUndeclared, Begin
<1>4. CASE TransferOk
  <2>1. CASE PeriodOn
    BY <1>4, <2>1, ChargedLedgered
  <2>2. CASE ~ PeriodOn
    BY <1>4, <2>2, UnchargedLedgered DEF TransferOk, Record
  <2>3. QED
    BY <2>1, <2>2
<1>5. CASE CallUndeclaredOk
  BY <1>5, UnchargedLedgered DEF CallUndeclaredOk
<1>6. CASE TransferFails
  <2>1. flight.gate # "none"
    BY <1>6 DEF TransferFails, TypeOK
  <2>2. UNCHANGED ledger \/ Landed(Uncharged)
    BY <1>6 DEF TransferFails
  <2>3. UNCHANGED <<accumulator, file, charges, now>>
    BY <1>6 DEF TransferFails
  <2>4. QED
    BY <1>1, <2>1, <2>2, <2>3, UnchargedLedgered
<1>7. CASE (\E new \in Policies : Reconfigure(new)) \/ Tick \/ UNCHANGED vars
  BY <1>1, <1>7 DEF Reconfigure, Tick, vars
<1>8. CASE Restart
  BY <1>8, RestartLedgered
<1>9. QED
  BY <1>2, <1>3, <1>4, <1>5, <1>6, <1>7, <1>8 DEF Next

LEMMA WindowTotal == TypeOK => Total(InCurrentWindow) \in Nat
<1>1. InCurrentWindow \in SUBSET DOMAIN ledger
  BY DEF InCurrentWindow
<1>2. QED
  BY <1>1, LedgerTypes, TotalIsMass, IndexesFinite

LEMMA LedgeredMatches == TypeOK /\ Ledgered => AccumulatorMatchesLedger
<1> SUFFICES ASSUME TypeOK, Ledgered
             PROVE  AccumulatorMatchesLedger
  OBVIOUS
<1>1. ChargedTo(ledger, Known, startedAt) = InCurrentWindow
  BY DEF ChargedTo, Known, InCurrentWindow
<1>2. InCurrentWindow \in SUBSET DOMAIN ledger
  BY DEF InCurrentWindow
<1>3. Total(InCurrentWindow) = Mass(ledger, InCurrentWindow)
  BY <1>2, LedgerTypes, TotalIsMass
<1>4. QED
  BY <1>1, <1>3 DEF Ledgered, Books, Capped, AccumulatorMatchesLedger

(* The accumulator is the sum of what was charged in its window and not       *)
(* forgotten by a restart, for any policies, amounts, faults and times, up to  *)
(* the width it saturates at (record_period_spend, src/lib.rs).               *)
THEOREM AccumulatorIsLedgersSum == Spec => []AccumulatorMatchesLedger
BY LedgeredMatches, InitLedgered, StepLedgered, TypeCorrect, PTL DEF Spec

(* While a window is not over, its charges were all made in the last period,   *)
(* so the accumulator is at most what reached the chain in it.                *)
LEMMA SpentInLastPeriod ==
    ASSUME TypeOK, Ledgered, PeriodOn
    PROVE  /\ SpentInWindow \in Nat
           /\ Total(Between(now - policy.period_seconds + 1, now)) \in Nat
           /\ SpentInWindow <= Total(Between(now - policy.period_seconds + 1, now))
<1> DEFINE P == policy.period_seconds
           B == Between(now - P + 1, now)
           C == ChargedTo(ledger, Known, startedAt)
<1>1. P \in Nat /\ SpentInWindow \in Nat
  <2>1. P \in Nat
    BY DEF TypeOK, Policy
  <2>2. SpentInWindow \in 0 .. MaxAmount
    BY RolledWindow
  <2>3. QED
    BY <2>1, <2>2
<1>2. B \in SUBSET DOMAIN ledger
  BY DEF Between
<1>3. Total(B) = Mass(ledger, B) /\ Mass(ledger, B) \in Nat /\ IsFiniteSet(B)
  BY <1>2, LedgerTypes, TotalIsMass, IndexesFinite
<1>4. CASE WindowOver
  BY <1>1, <1>3, <1>4 DEF SpentInWindow
<1>5. CASE ~ WindowOver
  <2>1. SpentInWindow = Capped(Mass(ledger, C)) /\ now - startedAt < P
    BY <1>1, <1>5, LedgerTypes DEF SpentInWindow, WindowOver, Ledgered, Books
  <2>2. C \in SUBSET B
    <3> SUFFICES ASSUME NEW i \in C PROVE i \in B
      OBVIOUS
    <3>1. i \in DOMAIN ledger /\ ledger[i].window = startedAt
      BY DEF ChargedTo, Known
    <3>2. startedAt <= ledger[i].at /\ ledger[i].at <= now /\ ledger[i].at \in Nat
      BY <3>1, LedgerTypes, EntryAt, ConstantsAssumption DEF Ledgered, Dated, ConstantsAssumption
    <3> HIDE DEF P
    <3>3. ledger[i].at >= now - P + 1
      BY <1>1, <2>1, <3>2, LedgerTypes
    <3>4. QED
      BY <1>1, <3>1, <3>2, <3>3, LedgerTypes DEF Between, P
  <2>3. Mass(ledger, C) <= Mass(ledger, B)
    BY <1>3, <2>2, MassMonotone
  <2>4. C \in SUBSET DOMAIN ledger
    BY <1>2, <2>2
  <2>5. Mass(ledger, C) \in Nat /\ MaxAmount \in Nat
    BY <2>4, LedgerTypes, IndexesFinite, ConstantsAssumption DEF ConstantsAssumption
  <2> HIDE DEF B, C
  <2>6. Capped(Mass(ledger, C)) <= Mass(ledger, C)
    BY <2>5 DEF Capped
  <2>7. SpentInWindow <= Mass(ledger, B)
    BY <1>1, <1>3, <2>1, <2>3, <2>5, <2>6
  <2>8. QED
    BY <1>1, <1>3, <2>7 DEF B
<1>6. QED
  BY <1>4, <1>5

(* A spend is never held without cause (check_policy, src/lib.rs), whatever    *)
(* was reconfigured, lost or restarted before: it is over the transaction     *)
(* limit, or over the period limit with what reached the chain in the last    *)
(* period.                                                                    *)
THEOREM HoldsOnlyForCause == Spec => HeldOnlyOverLimit
<1> DEFINE Cause(amount) ==
             \/ amount > policy.per_tx_limit
             \/ PeriodOn /\ amount + Total(Between(now - policy.period_seconds + 1, now))
                               > policy.per_period_limit
           Held == \A amount \in Amounts : SendHeld(amount) => Cause(amount)
<1>1. ASSUME TypeOK, Ledgered, NEW amount \in Amounts, SendHeld(amount)
      PROVE  Cause(amount)
  <2>1. amount \in Nat /\ MaxAmount \in Nat /\ policy.per_period_limit \in Nat
        /\ policy.per_tx_limit \in Nat
    BY <1>1, ConstantsAssumption DEF ConstantsAssumption, TypeOK, Policy
  <2>2. CASE ~ (amount <= policy.per_tx_limit)
    BY <2>1, <2>2
  <2>3. CASE ~ PeriodAllows(amount)
    <3> DEFINE total == Total(Between(now - policy.period_seconds + 1, now))
    <3>1. PeriodOn /\ ~ (SaturatingAdd(SpentInWindow, amount) <= policy.per_period_limit)
      BY <2>3 DEF PeriodAllows
    <3>2. SpentInWindow \in Nat /\ total \in Nat /\ SpentInWindow <= total
      BY <1>1, <3>1, SpentInLastPeriod
    <3> HIDE DEF total
    <3>3. SaturatingAdd(SpentInWindow, amount) <= SpentInWindow + amount
          /\ SaturatingAdd(SpentInWindow, amount) \in Nat
      BY <2>1, <3>2 DEF SaturatingAdd
    <3>4. amount + total > policy.per_period_limit
      BY <2>1, <3>1, <3>2, <3>3
    <3>5. QED
      BY <3>1, <3>4 DEF total
  <2>4. QED
    BY <1>1, <2>2, <2>3 DEF SendHeld, Allows
<1>2. TypeOK /\ Ledgered /\ [Next]_vars => [Held]_vars
  BY <1>1
<1>3. Spec => [][Held]_vars
  BY <1>2, InitLedgered, StepLedgered, TypeCorrect, PTL DEF Spec
<1>4. QED
  BY <1>3 DEF HeldOnlyOverLimit

(* What the agent sends on its own fits the period limit in force, with        *)
(* everything charged in the window and not forgotten by a restart             *)
(* (remaining_period_allowance, src/lib.rs): a limit below the width of the    *)
(* accumulator is not evaded by saturation.                                    *)
THEOREM SendsWithinAllowance == Spec => SpendsWithinAllowance
<1> DEFINE Fits(amount) == amount + Total(InCurrentWindow)' <= policy.per_period_limit
           Limited == PeriodOn /\ policy.per_period_limit < MaxAmount
<1>1. ASSUME TypeOK, Ledgered, [Next]_vars, NEW amount \in Amounts,
             SendAllowed(amount), Limited
      PROVE  Fits(amount)
  <2> DEFINE total == Total(InCurrentWindow)'
             limit == policy.per_period_limit
  <2>1. amount \in Nat /\ MaxAmount \in Nat /\ limit \in Nat
    BY <1>1, ConstantsAssumption DEF ConstantsAssumption, TypeOK, Policy
  <2>2. TypeOK' /\ Ledgered'
    BY <1>1, StepTypeOK, StepLedgered
  <2>3. spent' = IF total > MaxAmount THEN MaxAmount ELSE total
    <3>1. AccumulatorMatchesLedger'
      BY <2>2, LedgeredMatches, PTL
    <3>2. QED
      BY <3>1 DEF AccumulatorMatchesLedger
  <2>4. total \in Nat
    <3>1. (Total(InCurrentWindow) \in Nat)'
      BY <2>2, WindowTotal, PTL
    <3>2. QED
      BY <3>1
  <2>5. spent' = SpentInWindow /\ SaturatingAdd(SpentInWindow, amount) <= limit
    BY <1>1 DEF SendAllowed, Allows, PeriodAllows, CheckRolls
  <2>6. SpentInWindow \in 0 .. MaxAmount
    BY <1>1, RolledWindow
  <2> HIDE DEF total, limit
  <2>7. limit < MaxAmount
    BY <1>1 DEF limit
  <2>8. amount + total <= limit
    BY <2>1, <2>3, <2>4, <2>5, <2>6, <2>7 DEF SaturatingAdd
  <2>9. QED
    BY <2>8 DEF total, limit
<1>2. TypeOK /\ Ledgered /\ [Next]_vars =>
        [\A amount \in Amounts :
            SendAllowed(amount) /\ PeriodOn /\ policy.per_period_limit < MaxAmount =>
               amount + Total(InCurrentWindow)' <= policy.per_period_limit]_vars
  BY <1>1
<1>3. QED
  BY <1>2, InitLedgered, StepLedgered, TypeCorrect, PTL DEF Spec, SpendsWithinAllowance

-----------------------------------------------------------------------------
(* The inductive invariant behind the two bounds on what the agent spends on   *)
(* its own.  While the policy is the command line's, every transfer the agent  *)
(* made on its own was charged and no charge was forgotten:                    *)
(*   - charges are made to windows at least a period apart, each within a      *)
(*     period of the window's start, and the accumulator, in memory and in the *)
(*     file, is at the last of them or a period after it;                      *)
(*   - a transfer that was allowed still fits, for none other is in flight;    *)
(*   - what the agent spent on its own in one window is within the limit.      *)

Period == InitialPolicy.period_seconds
Limit  == InitialPolicy.per_period_limit

InitialPolicyInForce ==
    /\ budget.reconfigs <= MaxReconfigs
    /\ budget.reconfigs = MaxReconfigs => policy = InitialPolicy

Charged(q, S) == {i \in S : q[i].window # Uncharged}

Spaced(q, S, start) ==
    \A i \in Charged(q, S) : q[i].window = start \/ q[i].window + Period <= start

WindowsApart(q) ==
    \A i \in Charged(q, DOMAIN q) :
       /\ q[i].at < q[i].window + Period
       /\ \A j \in Charged(q, DOMAIN q) :
             q[i].window < q[j].window => q[i].window + Period <= q[j].window

ByAgent(q) == {i \in DOMAIN q : q[i].gate = "policy"}

WindowsWithin(q) == \A w \in Nat : Mass(q, ChargedTo(q, ByAgent(q), w)) <= Limit

Paced ==
    /\ WindowsApart(ledger)
    /\ Spaced(ledger, DOMAIN ledger, startedAt)
    /\ file # NoFile => Spaced(ledger, Written, file.startedAt)
    /\ flight.gate = "policy" => spent + flight.amount <= Limit
    /\ WindowsWithin(ledger)

PacedWhileSteady == Steady /\ PeriodOn => Paced
LEMMA InitPaced == Init => InitialPolicyInForce /\ PacedWhileSteady
<1> SUFFICES ASSUME Init PROVE InitialPolicyInForce /\ Paced
  BY DEF PacedWhileSteady
<1>1. InitialPolicyInForce
  BY ConstantsAssumption DEF Init, InitialPolicyInForce, ConstantsAssumption
<1>2. DOMAIN ledger = {} /\ file = NoFile /\ flight.gate = "none"
  BY DEF Init, NoFlight
<1>3. \A w \in Nat : ChargedTo(ledger, ByAgent(ledger), w) = {}
  BY <1>2 DEF ChargedTo, ByAgent
<1>4. Limit \in Nat
  BY ConstantsAssumption DEF Limit, ConstantsAssumption, Policy
<1>5. WindowsWithin(ledger)
  BY <1>3, <1>4, MassOfNone DEF WindowsWithin
<1>6. QED
  BY <1>1, <1>2, <1>5 DEF Paced, WindowsApart, Spaced, Charged

(* A step only extends the ledger and the charges that were forgotten. *)
LEMMA LedgerGrows ==
    ASSUME TypeOK, [Next]_vars
    PROVE  /\ forgotten \subseteq forgotten'
           /\ \A i \in DOMAIN ledger : i \in DOMAIN ledger' /\ ledger'[i] = ledger[i]
<1>1. forgotten \subseteq forgotten'
  BY DEF Next, vars, charges, SendAllowed, SendHeld, SendApproved, Begin, CallUndeclared,
         TransferOk, Record, Save, CallUndeclaredOk, TransferFails, Reconfigure, Tick, Restart
<1>2. UNCHANGED ledger \/ (flight.gate # "none" /\ \E window \in Nat \cup {Uncharged} : Landed(window))
  <2>1. CASE TransferOk
    <3>1. PeriodOn => startedAt' \in Nat
      BY <2>1, LedgerTypes DEF TransferOk, Record, WindowStart
    <3>2. QED
      BY <2>1, <3>1 DEF TransferOk
  <2>2. CASE CallUndeclaredOk
    BY <2>2 DEF CallUndeclaredOk
  <2>3. CASE TransferFails \/ Restart
    BY <2>3 DEF TransferFails, Restart, TypeOK
  <2>4. CASE UNCHANGED ledger
    BY <2>4
  <2>5. QED
    BY <2>1, <2>2, <2>3, <2>4
       DEF Next, vars, SendAllowed, SendHeld, SendApproved, Begin, CallUndeclared, Reconfigure, Tick
<1>3. ASSUME NEW window \in Nat \cup {Uncharged}, flight.gate # "none", Landed(window)
      PROVE  \A i \in DOMAIN ledger : i \in DOMAIN ledger' /\ ledger'[i] = ledger[i]
  <2>1. NewEntry(window) \in Entry /\ ledger' = Append(ledger, NewEntry(window))
    BY <1>3, NewEntryType DEF Landed, NewEntry
  <2>2. QED
    BY <2>1, LedgerTypes, AppendEntry
<1>4. QED
  BY <1>1, <1>2, <1>3

(* What is steady after a step was steady before it, under the same policy. *)
LEMMA SteadyBefore ==
    ASSUME TypeOK, InitialPolicyInForce, [Next]_vars
    PROVE  /\ InitialPolicyInForce'
           /\ Steady' => Steady /\ policy = InitialPolicy /\ policy' = InitialPolicy
<1>0. budget.reconfigs \in Nat /\ MaxReconfigs \in Nat
  BY ConstantsAssumption DEF TypeOK, ConstantsAssumption
<1>1. \/ budget'.reconfigs = budget.reconfigs /\ (policy' = policy \/ policy' = InitialPolicy)
      \/ budget'.reconfigs = budget.reconfigs - 1
  <2>1. CASE \E new \in Policies : Reconfigure(new)
    BY <2>1 DEF Reconfigure, TypeOK
  <2>2. ASSUME \/ UNCHANGED budget \/ Try \/ \E kind \in FaultKinds : Fault(kind)
        PROVE  budget'.reconfigs = budget.reconfigs
    BY <2>2 DEF Try, Fault, TypeOK
  <2>3. CASE \E amount \in Amounts : SendAllowed(amount) \/ SendHeld(amount) \/ SendApproved(amount)
    BY <2>2, <2>3 DEF SendAllowed, SendHeld, SendApproved, Begin
  <2>4. CASE CallUndeclared \/ CallUndeclaredOk \/ Tick \/ UNCHANGED vars
    BY <2>2, <2>4 DEF CallUndeclared, Begin, CallUndeclaredOk, Tick, vars
  <2>5. CASE TransferOk \/ TransferFails \/ Restart
    BY <2>2, <2>5 DEF TransferOk, Record, NoFault, TransferFails, Restart, FaultKinds
  <2>6. QED
    BY <2>1, <2>3, <2>4, <2>5 DEF Next
<1>2. InitialPolicyInForce'
  BY <1>0, <1>1 DEF InitialPolicyInForce
<1>3. ASSUME Steady'
      PROVE  Steady /\ policy = InitialPolicy /\ policy' = InitialPolicy
  <2>1. budget.reconfigs = MaxReconfigs
    BY <1>0, <1>1, <1>3 DEF Steady, InitialPolicyInForce
  <2>2. forgotten = {} /\ \A i \in Autonomous : ledger[i].window # Uncharged
    BY <1>3, LedgerGrows DEF Steady, Autonomous
  <2>3. QED
    BY <1>2, <1>3, <2>1, <2>2 DEF Steady, InitialPolicyInForce
<1>4. QED
  BY <1>2, <1>3
(* An entry that is not charged and that is not the agent's own. *)
LEMMA PacedSkip ==
    ASSUME NEW q \in Seq(Entry), NEW e \in Entry, e.window = Uncharged, e.gate # "policy"
    PROVE  /\ WindowsApart(q) => WindowsApart(Append(q, e))
           /\ WindowsWithin(q) => WindowsWithin(Append(q, e))
           /\ \A S \in SUBSET DOMAIN q : \A start :
                 Spaced(q, S, start) => Spaced(Append(q, e), S \cup {Len(q) + 1}, start)
<1> DEFINE r == Append(q, e)
           n == Len(q) + 1
<1>1. /\ DOMAIN r = DOMAIN q \cup {n} /\ n \notin DOMAIN q
      /\ \A i \in DOMAIN q : r[i] = q[i]
      /\ r[n] = e
  BY AppendEntry
<1>2. \A T \in SUBSET DOMAIN q : Mass(r, T) = Mass(q, T)
  BY MassAppend
<1> HIDE DEF r, n
<1>3. \A S \in SUBSET DOMAIN q : Charged(r, S \cup {n}) = Charged(q, S)
  BY <1>1 DEF Charged
<1>4. Charged(r, DOMAIN r) = Charged(q, DOMAIN q)
  BY <1>1, <1>3
<1>5. ByAgent(r) = ByAgent(q)
  BY <1>1 DEF ByAgent
<1>6. \A w : ChargedTo(r, ByAgent(r), w) = ChargedTo(q, ByAgent(q), w)
  BY <1>1, <1>5 DEF ChargedTo, ByAgent
<1>7. \A w : ChargedTo(q, ByAgent(q), w) \in SUBSET DOMAIN q
  BY DEF ChargedTo, ByAgent
<1>8. WindowsApart(q) => WindowsApart(r)
  BY <1>1, <1>4 DEF WindowsApart, Charged
<1>9. WindowsWithin(q) => WindowsWithin(r)
  BY <1>2, <1>6, <1>7 DEF WindowsWithin
<1>10. \A S \in SUBSET DOMAIN q : \A start : Spaced(q, S, start) => Spaced(r, S \cup {n}, start)
  BY <1>1, <1>3 DEF Spaced, Charged
<1>11. QED
  BY <1>8, <1>9, <1>10 DEF r, n

(* An entry charged to a window that is the last one or a period after it. *)
LEMMA PacedCharge ==
    ASSUME NEW q \in Seq(Entry), NEW e \in Entry, NEW w \in Nat, e.window = w,
           w <= e.at, e.at < w + Period,
           \A i \in DOMAIN q : q[i].window = Uncharged \/ q[i].window <= w,
           Spaced(q, DOMAIN q, w), WindowsApart(q), WindowsWithin(q),
           Mass(q, ChargedTo(q, ByAgent(q), w)) + (IF e.gate = "policy" THEN e.amount ELSE 0)
              <= Limit
    PROVE  /\ WindowsApart(Append(q, e))
           /\ WindowsWithin(Append(q, e))
           /\ Spaced(Append(q, e), DOMAIN Append(q, e), w)
<1> DEFINE r == Append(q, e)
           n == Len(q) + 1
<1>0. Period \in Nat /\ Uncharged \notin Nat
  BY ConstantsAssumption DEF Period, ConstantsAssumption, Policy
<1>1. /\ DOMAIN r = DOMAIN q \cup {n} /\ n \notin DOMAIN q
      /\ \A i \in DOMAIN q : r[i] = q[i]
      /\ r[n] = e
  BY AppendEntry
<1>2. \A T \in SUBSET DOMAIN q :
         Mass(r, T) = Mass(q, T) /\ Mass(r, T \cup {n}) = Mass(q, T) + e.amount
  BY MassAppend
<1> HIDE DEF r, n
<1>3. Charged(r, DOMAIN r) = Charged(q, DOMAIN q) \cup {n}
  BY <1>0, <1>1 DEF Charged
<1>4. \A i \in Charged(q, DOMAIN q) :
         /\ q[i].window \in Nat /\ q[i].window <= w
         /\ q[i].window = w \/ q[i].window + Period <= w
         /\ r[i] = q[i]
  <2> SUFFICES ASSUME NEW i \in Charged(q, DOMAIN q)
               PROVE  /\ q[i].window \in Nat /\ q[i].window <= w
                      /\ q[i].window = w \/ q[i].window + Period <= w
                      /\ r[i] = q[i]
    OBVIOUS
  <2>1. i \in DOMAIN q /\ q[i].window # Uncharged
    BY DEF Charged
  <2>2. QED
    BY <1>1, <2>1, EntryAt DEF Spaced
<1>5. Spaced(r, DOMAIN r, w)
  BY <1>1, <1>3, <1>4 DEF Spaced
<1>6. WindowsApart(r)
  <2>1. ASSUME NEW i \in Charged(r, DOMAIN r), NEW j \in Charged(r, DOMAIN r),
               r[i].window < r[j].window
        PROVE  r[i].window + Period <= r[j].window
    <3>1. CASE i \in Charged(q, DOMAIN q) /\ j \in Charged(q, DOMAIN q)
      BY <1>4, <2>1, <3>1 DEF WindowsApart
    <3>2. CASE i = n
      <4>1. r[i].window = w
        BY <1>1, <3>2
      <4>2. r[j].window <= w /\ r[j].window \in Nat
        <5>1. CASE j = n
          BY <1>1, <5>1
        <5>2. CASE j \in Charged(q, DOMAIN q)
          BY <1>4, <5>2
        <5>3. QED
          BY <1>3, <5>1, <5>2
      <4>3. QED
        BY <2>1, <4>1, <4>2
    <3>3. CASE i \in Charged(q, DOMAIN q) /\ j = n
      BY <1>1, <1>4, <2>1, <3>3
    <3>4. QED
      BY <1>3, <3>1, <3>2, <3>3
  <2>2. \A i \in Charged(r, DOMAIN r) : r[i].at < r[i].window + Period
    BY <1>1, <1>3, <1>4 DEF WindowsApart
  <2>3. QED
    BY <2>1, <2>2 DEF WindowsApart
<1>7. WindowsWithin(r)
  <2> SUFFICES ASSUME NEW v \in Nat
               PROVE  Mass(r, ChargedTo(r, ByAgent(r), v)) <= Limit
    BY DEF WindowsWithin
  <2> DEFINE C == ChargedTo(q, ByAgent(q), v)
  <2>1. C \in SUBSET DOMAIN q
    BY DEF ChargedTo, ByAgent
  <2>2. Mass(q, C) <= Limit
    BY DEF WindowsWithin
  <2>3. CASE v = w /\ e.gate = "policy"
    <3>1. ChargedTo(r, ByAgent(r), v) = C \cup {n}
      BY <1>1, <2>3 DEF ChargedTo, ByAgent
    <3>2. QED
      BY <1>2, <2>1, <2>3, <3>1
  <2>4. CASE ~ (v = w /\ e.gate = "policy")
    <3>1. ChargedTo(r, ByAgent(r), v) = C
      BY <1>1, <2>4 DEF ChargedTo, ByAgent
    <3>2. QED
      BY <1>2, <2>1, <2>2, <3>1
  <2>5. QED
    BY <2>3, <2>4
<1>8. QED
  BY <1>5, <1>6, <1>7 DEF r

(* Rolling a window that is over opens one at least a period after the last. *)
LEMMA RolledSpaced ==
    ASSUME TypeOK, Ledgered, Paced, forgotten = {}, policy = InitialPolicy
    PROVE  Spaced(ledger, DOMAIN ledger, WindowStart)
<1>1. CASE WindowOver
  <2> SUFFICES ASSUME NEW i \in Charged(ledger, DOMAIN ledger)
               PROVE  ledger[i].window + Period <= now
    BY <1>1 DEF Spaced, WindowStart
  <2>1. Period \in Nat /\ now - startedAt >= Period
    BY <1>1 DEF TypeOK, Policy, WindowOver, Period
  <2>2. ledger[i].window \in Nat /\ i \in Known
    BY LedgerTypes, EntryAt DEF Charged, Known
  <2>3. ledger[i].window <= startedAt
    BY <2>2, ConstantsAssumption DEF Ledgered, Books, ConstantsAssumption
  <2>4. QED
    BY <2>1, <2>2, <2>3, LedgerTypes
<1>2. CASE ~ WindowOver
  BY <1>2 DEF Paced, WindowStart
<1>3. QED
  BY <1>1, <1>2
(* The entries the accumulator already knew stay where they were. *)
LEMMA SpacedKeeps ==
    ASSUME NEW q \in Seq(Entry), NEW e \in Entry, NEW S \in SUBSET DOMAIN q, NEW start,
           Spaced(q, S, start)
    PROVE  Spaced(Append(q, e), S, start)
BY AppendEntry DEF Spaced, Charged

(* What one step keeps, while the state stays steady. *)
SteadyStep ==
    /\ TypeOK /\ Ledgered /\ Paced /\ PeriodOn
    /\ Steady' /\ forgotten = {} /\ policy = InitialPolicy

(* A step that lands no transfer. *)
LEMMA IdlePaced ==
    ASSUME SteadyStep, UNCHANGED <<file, ledger, charges>>,
           startedAt' = startedAt \/ startedAt' = WindowStart,
           flight'.gate = "policy" => spent' + flight'.amount <= Limit
    PROVE  Paced'
<1>1. Written' = Written /\ ledger' = ledger /\ file' = file
  BY DEF Written, charges
<1>2. Spaced(ledger, DOMAIN ledger, startedAt')
  BY RolledSpaced DEF SteadyStep, Paced
<1>3. QED
  BY <1>1, <1>2 DEF SteadyStep, Paced

(* A transfer the accumulator is not told of is not one of the agent's own. *)
LEMMA UnchargedPaced ==
    ASSUME SteadyStep, flight.gate # "none", Landed(Uncharged)
    PROVE  /\ WindowsApart(ledger') /\ WindowsWithin(ledger')
           /\ DOMAIN ledger' = DOMAIN ledger \cup {Len(ledger) + 1}
           /\ Len(ledger) + 1 \notin DOMAIN ledger
           /\ \A S \in SUBSET DOMAIN ledger : \A start :
                 Spaced(ledger, S, start) => Spaced(ledger', S \cup {Len(ledger) + 1}, start)
<1> DEFINE n == Len(ledger) + 1
           e == NewEntry(Uncharged)
<1>1. e \in Entry /\ ledger' = Append(ledger, e) /\ e.window = Uncharged /\ ledger \in Seq(Entry)
  BY NewEntryType, LedgerTypes DEF SteadyStep, Landed, NewEntry
<1> HIDE DEF e
<1>2. /\ DOMAIN ledger' = DOMAIN ledger \cup {n} /\ n \notin DOMAIN ledger
      /\ ledger'[n] = e
  BY <1>1, AppendEntry
<1>3. e.gate # "policy"
  BY <1>1, <1>2 DEF SteadyStep, Steady, Autonomous
<1>4. QED
  BY <1>1, <1>2, <1>3, PacedSkip DEF SteadyStep, Paced

(* A transfer that is charged. *)
LEMMA ChargedPaced ==
    ASSUME SteadyStep, TransferOk, Limit < MaxAmount
    PROVE  Paced'
<1> DEFINE n == Len(ledger) + 1
           w == WindowStart
           e == NewEntry(w)
           A == ChargedTo(ledger, ByAgent(ledger), w)
           K == ChargedTo(ledger, Known, w)
<1>0. /\ TypeOK /\ Ledgered /\ Paced /\ PeriodOn /\ policy = InitialPolicy /\ forgotten = {}
      /\ ledger \in Seq(Entry) /\ startedAt \in Nat /\ now \in Nat /\ startedAt <= now
      /\ Known = DOMAIN ledger
  BY LedgerTypes DEF SteadyStep, Known
<1>1. /\ flight.gate \in {"policy", "owner"} /\ UNCHANGED now /\ Landed(w)
      /\ startedAt' = w /\ flight' = NoFlight /\ w \in Nat /\ w <= now
      /\ \/ Save
         \/ unsaved' = unsaved \cup {n} /\ UNCHANGED <<file, forgotten>>
  BY <1>0 DEF TransferOk, Record, WindowStart
<1>2. /\ ledger' = Append(ledger, e) /\ e \in Entry
      /\ e.window = w /\ e.at = now /\ e.amount = flight.amount /\ e.gate = flight.gate
  BY <1>0, <1>1, NewEntryType DEF Landed, NewEntry
<1>3. now < w + Period
  BY <1>0 DEF WindowStart, WindowOver, PeriodOn, Period, TypeOK, Policy
<1>4. Books(ledger, Known, w, SpentInWindow)
  BY <1>0, RolledBooks
<1>5. Spaced(ledger, DOMAIN ledger, w)
  BY <1>0, RolledSpaced
<1> HIDE DEF e, w
<1>6. /\ A \in SUBSET K /\ K \in SUBSET DOMAIN ledger
      /\ Mass(ledger, A) <= Mass(ledger, K)
      /\ Mass(ledger, A) \in Nat /\ Mass(ledger, K) \in Nat
  <2>1. A \in SUBSET K /\ K \in SUBSET DOMAIN ledger
    BY <1>0 DEF ChargedTo, ByAgent
  <2>2. IsFiniteSet(K) /\ Mass(ledger, K) \in Nat /\ Mass(ledger, A) \in Nat
    BY <1>0, <2>1, IndexesFinite
  <2>3. QED
    BY <2>1, <2>2, MassMonotone
<1>7. Mass(ledger, A) + (IF e.gate = "policy" THEN e.amount ELSE 0) <= Limit
  <2>0. flight.amount \in Nat /\ Limit \in Nat /\ MaxAmount \in Nat /\ spent \in Nat
    BY <1>0, ConstantsAssumption DEF TypeOK, ConstantsAssumption, Limit, Policy
  <2>1. CASE flight.gate = "policy"
    <3>1. spent + flight.amount <= Limit
      BY <1>0, <2>1 DEF Paced
    <3>2. SpentInWindow = 0 \/ SpentInWindow = spent
      BY DEF SpentInWindow
    <3>3. SpentInWindow = Capped(Mass(ledger, K))
      BY <1>4 DEF Books
    <3> HIDE DEF A, K
    <3>4. SpentInWindow + flight.amount <= Limit /\ SpentInWindow \in Nat
      BY <2>0, <3>1, <3>2
    <3>5. SpentInWindow = Mass(ledger, K)
      BY <1>6, <2>0, <3>3, <3>4 DEF Capped
    <3>6. QED
      BY <1>2, <1>6, <2>0, <2>1, <3>4, <3>5
  <2>2. CASE flight.gate # "policy"
    <3>1. Mass(ledger, A) <= Limit
      BY <1>0, <1>1 DEF Paced, WindowsWithin
    <3>2. QED
      BY <1>2, <1>6, <2>2, <3>1
  <2>3. QED
    BY <2>1, <2>2
<1>8. \A i \in DOMAIN ledger : ledger[i].window = Uncharged \/ ledger[i].window <= w
  BY <1>0, <1>4 DEF Books
<1>9. /\ WindowsApart(ledger') /\ WindowsWithin(ledger')
      /\ Spaced(ledger', DOMAIN ledger', w)
  <2>1. w <= e.at /\ e.at < w + Period
    BY <1>1, <1>2, <1>3
  <2>2. WindowsApart(ledger) /\ WindowsWithin(ledger)
    BY <1>0 DEF Paced
  <2>3. QED
    BY <1>0, <1>1, <1>2, <1>5, <1>7, <1>8, <2>1, <2>2, PacedCharge
<1>10. file' # NoFile => Spaced(ledger', Written', file'.startedAt)
  <2>1. CASE Save
    <3>1. Written' \subseteq DOMAIN ledger' /\ file'.startedAt = w
      BY <1>1, <2>1 DEF Save, Written
    <3>2. QED
      BY <1>9, <3>1 DEF Spaced, Charged
  <2>2. CASE unsaved' = unsaved \cup {n} /\ UNCHANGED <<file, forgotten>>
    <3>1. Written' = Written
      BY <1>0, <1>2, <2>2, LedgerTypes, AppendEntry DEF Written
    <3>2. QED
      BY <1>0, <1>2, <2>2, <3>1, LedgerTypes, SpacedKeeps DEF Paced
  <2>3. QED
    BY <1>1, <2>1, <2>2
<1>11. QED
  BY <1>1, <1>9, <1>10 DEF Paced, NoFlight

(* A restart that forgets nothing: the file holds every charge. *)
LEMMA RestartPaced ==
    ASSUME SteadyStep, Restart
    PROVE  Paced'
<1>0. /\ TypeOK /\ Ledgered /\ Paced /\ forgotten = {} /\ file' = file /\ flight' = NoFlight
      /\ Restore /\ unsaved = {} /\ Written = DOMAIN ledger /\ Written' = DOMAIN ledger'
  <2>1. TypeOK /\ Ledgered /\ Paced /\ forgotten = {} /\ forgotten' = {}
    BY DEF SteadyStep, Steady
  <2>2. unsaved = {} /\ unsaved' = {}
    BY <2>1 DEF Restart
  <2>3. QED
    BY <2>1, <2>2 DEF Restart, Written
<1>1. IF file = NoFile THEN Charged(ledger, DOMAIN ledger) = {}
                       ELSE Spaced(ledger, DOMAIN ledger, file.startedAt)
  BY <1>0 DEF Ledgered, FileBooks, Charged, Paced
<1>2. IF file = NoFile THEN startedAt' = now ELSE startedAt' = file.startedAt
  BY <1>0 DEF Restore
<1>3. Spaced(ledger, DOMAIN ledger, startedAt')
  BY <1>1, <1>2 DEF Spaced
<1>4. file # NoFile => file.startedAt = startedAt'
  BY <1>2
<1>5. CASE UNCHANGED ledger
  BY <1>0, <1>3, <1>4, <1>5 DEF Paced, NoFlight
<1>6. CASE flight # NoFlight /\ Landed(Uncharged)
  <2>1. flight.gate # "none"
    BY <1>0, <1>6 DEF TypeOK
  <2>2. /\ WindowsApart(ledger') /\ WindowsWithin(ledger')
        /\ Spaced(ledger', DOMAIN ledger', startedAt')
    BY <1>3, <1>6, <2>1, UnchargedPaced
  <2>3. QED
    BY <1>0, <1>4, <2>2 DEF Paced, NoFlight
<1>7. QED
  BY <1>5, <1>6 DEF Restart
LEMMA StepPaced ==
    ASSUME Limit < MaxAmount
    PROVE  TypeOK /\ Ledgered /\ InitialPolicyInForce /\ PacedWhileSteady /\ [Next]_vars
              => InitialPolicyInForce' /\ PacedWhileSteady'
<1> SUFFICES ASSUME TypeOK, Ledgered, InitialPolicyInForce, PacedWhileSteady, [Next]_vars,
                    Steady', PeriodOn'
             PROVE  Paced'
  BY SteadyBefore DEF PacedWhileSteady
<1>0. SteadyStep /\ Paced
  BY SteadyBefore DEF PacedWhileSteady, SteadyStep, Steady, PeriodOn
<1>a. /\ Limit = policy.per_period_limit /\ Limit \in Nat /\ MaxAmount \in Nat
      /\ SpentInWindow \in Nat /\ PeriodOn
  <2>1. Limit = policy.per_period_limit /\ Limit \in Nat /\ MaxAmount \in Nat /\ PeriodOn
    BY <1>0, ConstantsAssumption DEF SteadyStep, Limit, TypeOK, Policy, ConstantsAssumption
  <2>2. SpentInWindow \in 0 .. MaxAmount
    BY RolledWindow
  <2>3. QED
    BY <2>1, <2>2
<1>1. ASSUME UNCHANGED <<accumulator, file, flight, ledger, charges>>
      PROVE  Paced'
  BY <1>0, <1>1, IdlePaced DEF accumulator, Paced
<1>2. ASSUME NEW amount \in Amounts, SendAllowed(amount)
      PROVE  Paced'
  <2>1. /\ flight' = [gate |-> "policy", amount |-> amount] /\ amount \in Nat
        /\ UNCHANGED <<file, ledger, charges>>
    BY <1>2, ConstantsAssumption DEF SendAllowed, Begin, ConstantsAssumption
  <2>2. startedAt' = WindowStart /\ spent' = SpentInWindow
    BY <1>2, <1>a DEF SendAllowed, Allows, CheckRolls
  <2>3. SaturatingAdd(SpentInWindow, amount) <= Limit
    BY <1>2, <1>a DEF SendAllowed, Allows, PeriodAllows
  <2>4. SpentInWindow + amount <= Limit
    BY <1>a, <2>1, <2>3 DEF SaturatingAdd
  <2>5. QED
    BY <1>0, <2>1, <2>2, <2>4, IdlePaced
<1>3. ASSUME NEW amount, CheckRolls(amount), UNCHANGED <<file, ledger, charges>>,
             flight'.gate # "policy"
      PROVE  Paced'
  BY <1>0, <1>3, IdlePaced DEF CheckRolls, accumulator
<1>4. ASSUME NEW amount \in Amounts, SendHeld(amount)
      PROVE  Paced'
  BY <1>3, <1>4 DEF SendHeld, Try, NoFlight
<1>5. ASSUME NEW amount \in Amounts, SendApproved(amount)
      PROVE  Paced'
  BY <1>0, <1>5, IdlePaced DEF SendApproved, Begin, accumulator
<1>6. CASE CallUndeclared
  BY <1>3, <1>6 DEF CallUndeclared, Begin
<1>7. CASE TransferOk
  BY <1>0, <1>7, ChargedPaced
<1>8. ASSUME flight.gate # "none", Landed(Uncharged), flight' = NoFlight,
             UNCHANGED <<accumulator, file, charges>>
      PROVE  Paced'
  <2>1. /\ WindowsApart(ledger') /\ WindowsWithin(ledger')
        /\ DOMAIN ledger' = DOMAIN ledger \cup {Len(ledger) + 1}
        /\ Len(ledger) + 1 \notin DOMAIN ledger
        /\ \A S \in SUBSET DOMAIN ledger : \A start :
              Spaced(ledger, S, start) => Spaced(ledger', S \cup {Len(ledger) + 1}, start)
    BY <1>0, <1>8, UnchargedPaced
  <2>2. Written' = Written \cup {Len(ledger) + 1} /\ Written \in SUBSET DOMAIN ledger
    BY <1>8, <2>1, LedgerTypes DEF Written, charges
  <2>3. startedAt' = startedAt /\ file' = file
    BY <1>8 DEF accumulator
  <2>4. Spaced(ledger', DOMAIN ledger', startedAt')
    BY <1>0, <2>1, <2>3 DEF Paced
  <2>5. file' # NoFile => Spaced(ledger', Written', file'.startedAt)
    BY <1>0, <2>1, <2>2, <2>3 DEF Paced
  <2>6. QED
    BY <1>8, <2>1, <2>4, <2>5 DEF Paced, NoFlight
<1>9. CASE CallUndeclaredOk
  BY <1>8, <1>9 DEF CallUndeclaredOk
<1>10. CASE TransferFails
  <2>1. CASE UNCHANGED ledger
    BY <1>0, <1>10, <2>1, IdlePaced DEF TransferFails, accumulator, NoFlight
  <2>2. CASE Landed(Uncharged)
    BY <1>8, <1>10, <2>2 DEF TransferFails, TypeOK
  <2>3. QED
    BY <1>10, <2>1, <2>2 DEF TransferFails
<1>11. CASE (\E new \in Policies : Reconfigure(new)) \/ Tick \/ UNCHANGED vars
  BY <1>1, <1>11 DEF Reconfigure, Tick, vars
<1>12. CASE Restart
  BY <1>0, <1>12, RestartPaced
<1>13. QED
  BY <1>2, <1>4, <1>5, <1>6, <1>7, <1>9, <1>10, <1>11, <1>12 DEF Next

LEMMA PacedAlways ==
    ASSUME Limit < MaxAmount
    PROVE  Spec => [](TypeOK /\ Ledgered /\ InitialPolicyInForce /\ PacedWhileSteady)
<1>1. TypeOK /\ Ledgered /\ InitialPolicyInForce /\ PacedWhileSteady /\ [Next]_vars
         => InitialPolicyInForce' /\ PacedWhileSteady'
  BY StepPaced
<1>2. QED
  BY <1>1, InitLedgered, StepLedgered, TypeCorrect, InitPaced, PTL DEF Spec

(* What the agent spent on its own, charged to windows that are closer than a  *)
(* period, was charged to one window, and is within the limit.                 *)
LEMMA OneWindowWithin ==
    ASSUME TypeOK, Paced, Steady, NEW T \in SUBSET Autonomous, NEW low \in Int,
           \A i \in T : low <= ledger[i].window /\ ledger[i].window < low + Period
    PROVE  IsFiniteSet(T) /\ Mass(ledger, T) \in Nat /\ Mass(ledger, T) <= Limit
<1>0. ledger \in Seq(Entry) /\ Limit \in Nat /\ Period \in Nat
  BY LedgerTypes, ConstantsAssumption DEF Limit, Period, Policy, ConstantsAssumption
<1>1. \A i \in Autonomous :
         i \in Charged(ledger, DOMAIN ledger) /\ i \in ByAgent(ledger) /\ ledger[i].window \in Nat
  BY <1>0, EntryAt DEF Autonomous, ByAgent, Charged, Steady
<1>2. IsFiniteSet(T) /\ Mass(ledger, T) \in Nat
  BY <1>0, IndexesFinite DEF Autonomous
<1>3. CASE T = {}
  BY <1>0, <1>2, <1>3, MassOfNone
<1>4. CASE T # {}
  <2>1. PICK i \in T : TRUE
    BY <1>4
  <2> DEFINE w == ledger[i].window
             C == ChargedTo(ledger, ByAgent(ledger), w)
  <2>2. w \in Nat
    BY <1>1
  <2>3. \A j \in T : ledger[j].window = w
    <3> SUFFICES ASSUME NEW j \in T, ledger[j].window # w PROVE FALSE
      OBVIOUS
    <3>1. /\ i \in Charged(ledger, DOMAIN ledger) /\ j \in Charged(ledger, DOMAIN ledger)
          /\ w \in Nat /\ ledger[j].window \in Nat
      BY <1>1
    <3>2. w + Period <= ledger[j].window \/ ledger[j].window + Period <= w
      BY <3>1 DEF Paced, WindowsApart
    <3>3. QED
      BY <1>0, <3>1, <3>2
  <2>4. T \in SUBSET C
    BY <1>1, <2>3 DEF ChargedTo
  <2>5. C \in SUBSET DOMAIN ledger
    BY DEF ChargedTo, ByAgent
  <2>6. Mass(ledger, T) <= Mass(ledger, C) /\ Mass(ledger, C) <= Limit /\ Mass(ledger, C) \in Nat
    BY <1>0, <2>2, <2>4, <2>5, IndexesFinite, MassMonotone DEF Paced, WindowsWithin
  <2> HIDE DEF C
  <2>7. QED
    BY <1>0, <1>2, <2>6
<1>5. QED
  BY <1>3, <1>4
(* What the agent spends on its own since the window began is within the       *)
(* period limit of the command line, whatever fails and however often it       *)
(* restarts, while every charge was made and written (check_policy and         *)
(* record_period_spend, src/lib.rs).  The limit must be below the width of an  *)
(* amount: the accumulator saturates there, so such a limit is never exceeded. *)
THEOREM SpendsWithinWindow ==
    ASSUME InitialPolicy.per_period_limit < MaxAmount
    PROVE  Spec => []WindowWithinLimit
<1>1. TypeOK /\ Ledgered /\ InitialPolicyInForce /\ PacedWhileSteady => WindowWithinLimit
  <2> SUFFICES ASSUME TypeOK, Ledgered, InitialPolicyInForce, PacedWhileSteady, Steady, PeriodOn
               PROVE  Total(Autonomous \cap Between(startedAt, now)) <= policy.per_period_limit
    BY DEF WindowWithinLimit
  <2> DEFINE T == Autonomous \cap Between(startedAt, now)
  <2>1. Paced /\ policy = InitialPolicy
    BY DEF PacedWhileSteady, InitialPolicyInForce, Steady
  <2>2. Period \in Nat /\ Period > 0 /\ Limit = policy.per_period_limit
    BY <2>1, ConstantsAssumption DEF PeriodOn, Period, Limit, Policy, ConstantsAssumption
  <2>3. ASSUME NEW i \in T
        PROVE  startedAt <= ledger[i].window /\ ledger[i].window < startedAt + Period
    <3>1. /\ i \in Charged(ledger, DOMAIN ledger) /\ ledger[i].window \in Nat
          /\ ledger[i].at \in Nat /\ startedAt <= ledger[i].at /\ i \in Known
      BY LedgerTypes, EntryAt DEF Autonomous, Between, Charged, Steady, Known
    <3>2. ledger[i].at < ledger[i].window + Period
      BY <2>1, <3>1 DEF Paced, WindowsApart
    <3>3. ledger[i].window = startedAt \/ ledger[i].window + Period <= startedAt
      BY <2>1, <3>1 DEF Paced, Spaced
    <3>4. QED
      BY <2>2, <3>1, <3>2, <3>3, LedgerTypes
  <2>4. T \in SUBSET Autonomous /\ T \in SUBSET DOMAIN ledger
    BY DEF Autonomous
  <2>5. startedAt \in Int
    BY LedgerTypes
  <2> HIDE DEF T
  <2>6. Mass(ledger, T) <= Limit
    BY <2>1, <2>3, <2>4, <2>5, OneWindowWithin
  <2>7. QED
    BY <2>2, <2>4, <2>6, LedgerTypes, TotalIsMass DEF T
<1>2. QED
  BY <1>1, PacedAlways, PTL DEF Limit

(* Under the same proviso, no span of the period's length sees the agent spend *)
(* more than twice the limit on its own: it meets two windows at most.         *)
THEOREM SpendsWithinTwice ==
    ASSUME InitialPolicy.per_period_limit < MaxAmount
    PROVE  Spec => []TwiceLimitAtMost
<1>1. TypeOK /\ Ledgered /\ InitialPolicyInForce /\ PacedWhileSteady => TwiceLimitAtMost
  <2> SUFFICES ASSUME TypeOK, Ledgered, InitialPolicyInForce, PacedWhileSteady, Steady, PeriodOn,
                      NEW first \in 0 .. now
               PROVE  SpanTotal(first) <= 2 * policy.per_period_limit
    BY DEF TwiceLimitAtMost
  <2>1. Paced /\ policy = InitialPolicy
    BY DEF PacedWhileSteady, InitialPolicyInForce, Steady
  <2>2. /\ Period \in Nat /\ Period = policy.period_seconds
        /\ Limit = policy.per_period_limit /\ Limit \in Nat
    BY <2>1, ConstantsAssumption DEF Period, Limit, Policy, ConstantsAssumption
  <2> DEFINE T   == Autonomous \cap Between(first, first + Period - 1)
             Old == {i \in T : ledger[i].window < first}
             New == {i \in T : ledger[i].window >= first}
  <2>3. T = Old \cup New /\ first \in Int /\ first - Period \in Int
    <3>1. \A i \in T : ledger[i].window \in Nat
      BY LedgerTypes, EntryAt DEF Autonomous, Steady
    <3>2. first \in Int
      BY LedgerTypes
    <3>3. T = Old \cup New
      BY <3>1, <3>2
    <3>4. QED
      BY <2>2, <3>2, <3>3
  <2>4. ASSUME NEW i \in T
        PROVE  /\ ledger[i].window \in Nat
               /\ first - Period <= ledger[i].window /\ ledger[i].window < first + Period
    <3>1. /\ i \in Charged(ledger, DOMAIN ledger) /\ ledger[i].window \in Nat
          /\ ledger[i].at \in Nat /\ ledger[i].at \in first .. first + Period - 1
      BY LedgerTypes, EntryAt DEF Autonomous, Between, Charged, Steady
    <3>2. ledger[i].at < ledger[i].window + Period
      BY <2>1, <3>1 DEF Paced, WindowsApart
    <3>3. ledger[i].window <= ledger[i].at
      BY <3>1 DEF Charged, Ledgered, Dated
    <3>4. QED
      BY <2>2, <2>3, <3>1, <3>2, <3>3
  <2>5. /\ T \in SUBSET Autonomous /\ T \in SUBSET DOMAIN ledger
        /\ Old \in SUBSET Autonomous /\ New \in SUBSET Autonomous
    BY DEF Autonomous
  <2>6. IsFiniteSet(Old) /\ Mass(ledger, Old) \in Nat /\ Mass(ledger, Old) <= Limit
    <3>1. \A i \in Old : first - Period <= ledger[i].window
                         /\ ledger[i].window < (first - Period) + Period
      BY <2>2, <2>3, <2>4
    <3> HIDE DEF Old
    <3>2. QED
      BY <2>1, <2>3, <2>5, <3>1, OneWindowWithin
  <2>7. IsFiniteSet(New) /\ Mass(ledger, New) \in Nat /\ Mass(ledger, New) <= Limit
    <3>1. \A i \in New : first <= ledger[i].window /\ ledger[i].window < first + Period
      BY <2>2, <2>3, <2>4
    <3> HIDE DEF New
    <3>2. QED
      BY <2>1, <2>3, <2>5, <3>1, OneWindowWithin
  <2>8. SpanTotal(first) = Mass(ledger, T)
    BY <2>2, <2>5, LedgerTypes, TotalIsMass DEF SpanTotal
  <2> HIDE DEF T, Old, New
  <2>9. Mass(ledger, T) <= Mass(ledger, Old) + Mass(ledger, New)
    BY <2>3, <2>6, <2>7, MassOfUnion
  <2>10. IsFiniteSet(T) /\ Mass(ledger, T) \in Nat
    BY <2>5, LedgerTypes, IndexesFinite
  <2>11. QED
    BY <2>2, <2>6, <2>7, <2>8, <2>9, <2>10
<1>2. QED
  BY <1>1, PacedAlways, PTL DEF Limit

=============================================================================
