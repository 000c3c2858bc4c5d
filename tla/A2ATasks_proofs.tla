-------------------------- MODULE A2ATasks_proofs --------------------------
(***************************************************************************)
(* Proofs about A2ATasks, for every value of its constants: any number of  *)
(* clients and tasks, either backend, any faults.                          *)
(***************************************************************************)
EXTENDS A2ATasks, FiniteSetTheorems, TLAPS

(* The conjuncts of TypeOK by the part of the state they are about, with    *)
(* what its steps need besides: that the ledgers and files are one for each *)
(* client.                                                                  *)
ClientsOK ==
    /\ step \in [Clients -> {"idle", "paying", "requesting", "recording"}]
    /\ inHand \in [Clients -> Nat \cup {NoTask}]
    /\ \A c \in Clients : step[c] \in {"requesting", "recording"} <=> inHand[c] \in Nat
    /\ nextTask \in [Clients -> Nat]
FilesOK ==
    /\ ledger = [c \in Clients |-> ledger[c]]
    /\ disk = [c \in Clients |-> disk[c]]
    /\ \A c \in Clients : /\ DOMAIN ledger[c] \subseteq Nat
                          /\ DOMAIN disk[c].ledger \subseteq Nat
                          /\ disk[c].nextTask \in Nat
ProviderOK ==
    /\ phase \in {"idle", "next", "working"} \cup Terminal
    /\ todo \subseteq Request /\ cancelled \subseteq Nat
    /\ phase = "idle" => todo = {} /\ cancelled = {}
    /\ phase \in {"working"} \cup Terminal => todo # {}
TopicsOK == backend \in Backends /\ inbox \subseteq Request \cup Cancel
HistoryOK ==
    /\ paid \in [Clients -> Nat]
    /\ requests \in Seq(Request)
    /\ invoked \cup refunded \cup repeated \subseteq Nat
BudgetOK == budget \in [faults : Nat, tasks : Nat, cancels : Nat]

Typed == ClientsOK /\ FilesOK /\ ProviderOK /\ TopicsOK /\ HistoryOK /\ BudgetOK

LEMMA TypedIsTypeOK == Typed => TypeOK
BY DEF Typed, ClientsOK, FilesOK, ProviderOK, TopicsOK, HistoryOK, BudgetOK, TypeOK

LEMMA InitTyped == Init => Typed
<1> SUFFICES ASSUME Init PROVE Typed
  OBVIOUS
<1> USE ConstantsAssumption DEF ConstantsAssumption, Init, Empty
<1>1. ClientsOK
  BY DEF ClientsOK
<1>2. FilesOK
  BY DEF FilesOK
<1>3. ProviderOK /\ TopicsOK
  BY DEF ProviderOK, TopicsOK, Terminal, Outcomes
<1>4. HistoryOK /\ BudgetOK
  BY DEF HistoryOK, BudgetOK
<1>5. QED
  BY <1>1, <1>2, <1>3, <1>4 DEF Typed

LEMMA FaultBudget ==
    ASSUME BudgetOK, NEW kind, Fault(kind)
    PROVE  BudgetOK'
BY DEF BudgetOK, Fault

(* A client that takes an id holds a number, which no client without one    *)
(* does.                                                                    *)
LEMMA TakeIdType ==
    ASSUME ClientsOK, NEW c \in Clients, step[c] \in {"idle", "paying"}, TakeId(c),
           step' = [step EXCEPT ![c] = "requesting"]
    PROVE  ClientsOK'
BY DEF ClientsOK, TakeId

LEMMA DropIdType ==
    ASSUME ClientsOK, NEW c \in Clients, inHand' = [inHand EXCEPT ![c] = NoTask],
           step' = [step EXCEPT ![c] = "idle"], nextTask' \in [Clients -> Nat]
    PROVE  ClientsOK'
BY ConstantsAssumption DEF ClientsOK, ConstantsAssumption

LEMMA PayType ==
    ASSUME HistoryOK, NEW c \in Clients, Pay(c), UNCHANGED <<requests, settled>>
    PROVE  HistoryOK'
BY DEF HistoryOK, Pay, settled

LEMMA PublishType ==
    ASSUME Typed, NEW c \in Clients, step[c] = "requesting", PublishRequest(c),
           UNCHANGED <<backend, paid, settled>>
    PROVE  TopicsOK' /\ HistoryOK'
<1> DEFINE request == [kind |-> "task_request", id |-> inHand[c], from |-> c,
                       no |-> Len(requests) + 1]
<1>1. requests \in Seq(Request) /\ inHand[c] \in Nat
  BY DEF Typed, ClientsOK, HistoryOK
<1>2. request \in Request
  BY <1>1 DEF Request
<1>3. inbox' = inbox \cup {request} /\ requests' = Append(requests, request)
  BY DEF PublishRequest
<1> HIDE DEF request
<1>4. QED
  BY <1>1, <1>2, <1>3 DEF Typed, TopicsOK, HistoryOK, settled

LEMMA PutDomain ==
    ASSUME NEW f, NEW key, NEW value
    PROVE  DOMAIN Put(f, key, value) = DOMAIN f \cup {key}
BY DEF Put

LEMMA PersistType ==
    ASSUME Typed, NEW c \in Clients, Persist(c), UNCHANGED nextTask,
           NEW id \in Nat, NEW state,
           ledger' = [ledger EXCEPT ![c] = Put(@, id, state)]
    PROVE  FilesOK' /\ BudgetOK'
<1>1. BudgetOK'
  BY FaultBudget DEF Persist, NoFault, Typed, BudgetOK
<1> DEFINE book == Put(ledger[c], id, state)
<1>2. FilesOK /\ nextTask \in [Clients -> Nat]
  BY DEF Typed, ClientsOK
<1>3. DOMAIN book \subseteq Nat
  <2>1. DOMAIN book = DOMAIN ledger[c] \cup {id}
    BY PutDomain
  <2>2. QED
    BY <1>2, <2>1 DEF FilesOK
<1> HIDE DEF book
<1>4. /\ ledger' = [d \in Clients |-> ledger'[d]]
      /\ ledger'[c] = book
      /\ \A d \in Clients : d # c => ledger'[d] = ledger[d]
  <2>1. ledger = [d \in Clients |-> ledger[d]] /\ ledger' = [ledger EXCEPT ![c] = book]
    BY <1>2 DEF FilesOK, book
  <2>2. QED
    BY ONLY <2>1, c \in Clients
<1>5. \/ disk' = disk
      \/ disk' = [disk EXCEPT ![c] = [nextTask |-> nextTask[c], ledger |-> book]]
  BY <1>4 DEF Persist
<1>6. /\ disk' = [d \in Clients |-> disk'[d]]
      /\ \A d \in Clients : \/ disk'[d] = disk[d]
                            \/ d = c /\ disk'[d] = [nextTask |-> nextTask[c], ledger |-> book]
  <2>1. disk = [d \in Clients |-> disk[d]]
    BY <1>2 DEF FilesOK
  <2>2. QED
    BY ONLY <1>5, <2>1, c \in Clients
<1>7. QED
  BY <1>1, <1>2, <1>3, <1>4, <1>6 DEF FilesOK

LEMMA SettlesType ==
    ASSUME Typed, NEW r \in todo, Settles(r)
    PROVE  r.no \in Nat /\ repeated' \subseteq Nat
<1>1. r \in Request /\ repeated \subseteq Nat
  BY DEF Typed, ProviderOK, HistoryOK
<1>2. QED
  BY <1>1 DEF Settles, Request

LEMMA StepTyped == Typed /\ [Next]_vars => Typed'
<1> SUFFICES ASSUME Typed, [Next]_vars
             PROVE  Typed'
  OBVIOUS
<1>0. ClientsOK /\ FilesOK /\ ProviderOK /\ TopicsOK /\ HistoryOK /\ BudgetOK
  BY DEF Typed
<1> USE DEF Typed
<1>1. ASSUME NEW c \in Clients, RunTask(c)
      PROVE  Typed'
  <2>1. ClientsOK' /\ BudgetOK'
    BY <1>0, <1>1 DEF RunTask, Start, ClientsOK, BudgetOK
  <2>2. QED
    BY <1>0, <1>1, <2>1 DEF RunTask, Start, FilesOK, ProviderOK, TopicsOK, HistoryOK,
                            provider, settled
<1>2. ASSUME NEW c \in Clients, RunTaskWithPayment(c)
      PROVE  Typed'
  <2>1. ClientsOK'
    BY <1>0, <1>2, TakeIdType DEF RunTaskWithPayment, Start
  <2>2. HistoryOK'
    BY <1>0, <1>2, PayType DEF RunTaskWithPayment, Start
  <2>3. QED
    BY <1>0, <1>2, <2>1, <2>2
       DEF RunTaskWithPayment, Start, FilesOK, ProviderOK, TopicsOK, BudgetOK, provider
<1>3. ASSUME NEW c \in Clients, PaymentOk(c)
      PROVE  Typed'
  <2>1. ClientsOK'
    BY <1>0, <1>3, TakeIdType DEF PaymentOk
  <2>2. HistoryOK'
    BY <1>0, <1>3, PayType DEF PaymentOk
  <2>3. QED
    BY <1>0, <1>3, <2>1, <2>2
       DEF PaymentOk, FilesOK, ProviderOK, TopicsOK, BudgetOK, provider
<1>4. ASSUME NEW c \in Clients, PaymentFails(c)
      PROVE  Typed'
  <2>1. ClientsOK'
    BY <1>0, <1>4 DEF PaymentFails, AfterFailedPayment, ClientsOK
  <2>2. HistoryOK'
    BY <1>0, <1>4, PayType DEF PaymentFails, HistoryOK, settled
  <2>3. BudgetOK'
    BY <1>0, <1>4, FaultBudget DEF PaymentFails
  <2>4. QED
    BY <1>0, <1>4, <2>1, <2>2, <2>3
       DEF PaymentFails, FilesOK, ProviderOK, TopicsOK, provider
<1>5. ASSUME NEW c \in Clients, RequestOk(c)
      PROVE  Typed'
  <2>1. TopicsOK' /\ HistoryOK'
    BY <1>5, PublishType DEF RequestOk
  <2>2. QED
    BY <1>0, <1>5, <2>1
       DEF RequestOk, ClientsOK, FilesOK, ProviderOK, BudgetOK, provider
<1>6. ASSUME NEW c \in Clients, RequestFails(c)
      PROVE  Typed'
  <2>1. ClientsOK'
    BY <1>0, <1>6, DropIdType DEF RequestFails, AfterFailedRequest, ClientsOK
  <2>2. TopicsOK' /\ HistoryOK'
    <3>1. CASE PublishRequest(c)
      BY <1>6, <3>1, PublishType DEF RequestFails
    <3>2. CASE UNCHANGED <<inbox, requests>>
      BY <1>0, <1>6, <3>2 DEF RequestFails, TopicsOK, HistoryOK, settled
    <3>3. QED
      BY <1>6, <3>1, <3>2 DEF RequestFails
  <2>3. BudgetOK'
    BY <1>0, <1>6, FaultBudget DEF RequestFails
  <2>4. QED
    BY <1>0, <1>6, <2>1, <2>2, <2>3 DEF RequestFails, FilesOK, ProviderOK, provider
<1>7. ASSUME NEW c \in Clients, RecordTask(c)
      PROVE  Typed'
  <2>1. ClientsOK'
    BY <1>0, <1>7, DropIdType DEF RecordTask, ClientsOK
  <2>2. inHand[c] \in Nat
    BY <1>0, <1>7 DEF RecordTask, ClientsOK
  <2>3. FilesOK' /\ BudgetOK'
    BY <1>7, <2>2, PersistType DEF RecordTask
  <2>4. QED
    BY <1>0, <1>7, <2>1, <2>3
       DEF RecordTask, ProviderOK, TopicsOK, HistoryOK, provider, history, settled
<1>8. ASSUME NEW c \in Clients, NEW id \in DOMAIN ledger[c], PollTask(c, id)
      PROVE  Typed'
  <2>1. id \in Nat
    BY <1>0, <1>8 DEF FilesOK
  <2>2. FilesOK' /\ BudgetOK'
    <3>1. PICK state : ledger' = [ledger EXCEPT ![c] = Put(@, id, state)]
      BY <1>8 DEF PollTask
    <3>2. Typed /\ Persist(c) /\ UNCHANGED nextTask
      BY <1>8 DEF PollTask
    <3>3. QED
      BY <2>1, <3>1, <3>2, PersistType
  <2>3. UNCHANGED <<backend, step, inHand, nextTask, inbox, provider, history>>
    BY <1>8 DEF PollTask
  <2>4. QED
    BY <1>0, <2>2, <2>3 DEF ClientsOK, ProviderOK, TopicsOK, HistoryOK,
                            provider, history, settled
<1>9. ASSUME NEW c \in Clients, NEW id \in DOMAIN ledger[c], CancelTask(c, id)
      PROVE  Typed'
  <2>1. [kind |-> "task_cancel", id |-> id] \in Cancel
    BY <1>0, <1>9 DEF FilesOK, Cancel
  <2>2. TopicsOK' /\ BudgetOK'
    BY <1>0, <1>9, <2>1 DEF CancelTask, TopicsOK, BudgetOK
  <2>3. QED
    BY <1>0, <1>9, <2>2 DEF CancelTask, ClientsOK, FilesOK, ProviderOK, HistoryOK, client,
                            provider, history, settled
<1>10. ASSUME NEW c \in Clients, ClientRestart(c)
       PROVE  Typed'
  <2>1. nextTask' \in [Clients -> Nat] /\ FilesOK'
    BY <1>0, <1>10 DEF ClientRestart, Restore, ClientsOK, FilesOK
  <2>2. ClientsOK'
    BY <1>0, <1>10, <2>1, DropIdType DEF ClientRestart
  <2>3. HistoryOK' /\ BudgetOK'
    BY <1>0, <1>10, PayType, FaultBudget DEF ClientRestart, HistoryOK, settled
  <2>4. QED
    BY <1>0, <1>10, <2>1, <2>2, <2>3 DEF ClientRestart, ProviderOK, TopicsOK, provider
<1>11. CASE UpdatesLost
  BY <1>0, <1>11, FaultBudget
     DEF UpdatesLost, ClientsOK, FilesOK, ProviderOK, TopicsOK, HistoryOK, client,
         provider, history, settled
<1>12. CASE Serve
  <2>1. ProviderOK' /\ TopicsOK'
    BY <1>0, <1>12 DEF Serve, AfterRead, ProviderOK, TopicsOK, Request, Cancel, Terminal,
                       Outcomes
  <2>2. QED
    BY <1>0, <1>12, <2>1 DEF Serve, ClientsOK, FilesOK, HistoryOK, BudgetOK, client,
                             history, settled
<1>13. CASE InboxLost
  BY <1>0, <1>13, FaultBudget
     DEF InboxLost, AfterRead, ClientsOK, FilesOK, ProviderOK, TopicsOK, HistoryOK, client,
         provider, history, settled
<1>14. CASE FinishServing \/ ProviderRestart
  BY <1>0, <1>14, FaultBudget
     DEF FinishServing, ProviderRestart, Abort, ClientsOK, FilesOK, ProviderOK, TopicsOK,
         HistoryOK, BudgetOK, Terminal, Outcomes, client, history, settled
<1>15. ASSUME NEW r \in todo, RefundOk(r)
       PROVE  Typed'
  <2>1. ProviderOK'
    BY <1>0, <1>15 DEF RefundOk, ProviderOK, Terminal, Outcomes
  <2>2. HistoryOK'
    BY <1>0, <1>15, SettlesType DEF RefundOk, GiveBack, HistoryOK
  <2>3. QED
    BY <1>0, <1>15, <2>1, <2>2
       DEF RefundOk, ClientsOK, FilesOK, TopicsOK, BudgetOK, client
<1>16. ASSUME NEW r \in todo, RefundFails(r)
       PROVE  Typed'
  <2>1. ProviderOK'
    BY <1>0, <1>16 DEF RefundFails, AfterFailedRefund, Abort, ProviderOK, Terminal, Outcomes
  <2>2. HistoryOK' /\ BudgetOK'
    BY <1>0, <1>16, SettlesType, FaultBudget DEF RefundFails, GiveBack, HistoryOK
  <2>3. QED
    BY <1>0, <1>16, <2>1, <2>2 DEF RefundFails, ClientsOK, FilesOK, TopicsOK, client
<1>17. ASSUME NEW r \in todo, NEW state \in TaskStates, UpdateOk(r, state)
       PROVE  Typed'
  <2>1. ProviderOK'
    BY <1>0, <1>17 DEF UpdateOk, ProviderOK, Terminal, Outcomes
  <2>2. QED
    BY <1>0, <1>17, <2>1 DEF UpdateOk, ClientsOK, FilesOK, TopicsOK, HistoryOK, BudgetOK,
                             client, history, settled
<1>18. ASSUME NEW r \in todo, NEW state \in TaskStates, UpdateFails(r, state)
       PROVE  Typed'
  BY <1>0, <1>18, FaultBudget
     DEF UpdateFails, Abort, ClientsOK, FilesOK, ProviderOK, TopicsOK, HistoryOK,
         Terminal, Outcomes, client, history, settled
<1>19. ASSUME NEW r \in todo, NEW outcome \in Outcomes, Invoke(r, outcome)
       PROVE  Typed'
  <2>1. ProviderOK'
    BY <1>0, <1>19 DEF Invoke, ProviderOK, Terminal, Outcomes
  <2>2. HistoryOK'
    BY <1>0, <1>19, SettlesType DEF Invoke, HistoryOK
  <2>3. QED
    BY <1>0, <1>19, <2>1, <2>2 DEF Invoke, ClientsOK, FilesOK, TopicsOK, BudgetOK, client
<1>20. CASE UNCHANGED vars
  BY <1>0, <1>20 DEF vars, client, provider, history, settled, ClientsOK, FilesOK,
                     ProviderOK, TopicsOK, HistoryOK, BudgetOK
<1>21. QED
  BY <1>1, <1>2, <1>3, <1>4, <1>5, <1>6, <1>7, <1>8, <1>9, <1>10, <1>11, <1>12, <1>13,
     <1>14, <1>15, <1>16, <1>17, <1>18, <1>19, <1>20 DEF Next, Asking, Running, Serving

(* Every variable keeps its type, and nothing is left of a batch between    *)
(* two calls of serve_pending (src/a2a.rs:300).                             *)
THEOREM TypeCorrect == Spec => []TypeOK
<1>1. QED
  BY InitTyped, StepTyped, TypedIsTypeOK, PTL DEF Spec

-----------------------------------------------------------------------------
(* A client's memory and file.  What one step does to the counter, the       *)
(* ledger, the file and the id in hand of one client.                        *)

Rests(c) ==
    /\ nextTask'[c] = nextTask[c] /\ ledger'[c] = ledger[c] /\ disk'[c] = disk[c]
    /\ inHand'[c] \in {inHand[c], NoTask}

Takes(c) ==
    /\ nextTask'[c] = nextTask[c] + 1 /\ ledger'[c] = ledger[c] /\ disk'[c] = disk[c]
    /\ inHand'[c] = nextTask[c]

Writes(c, id, state) ==
    /\ ledger'[c] = Put(ledger[c], id, state)
    /\ nextTask'[c] = nextTask[c]
    /\ \/ disk'[c] = disk[c]
       \/ /\ disk'[c].nextTask = nextTask[c]
          /\ disk'[c].ledger = ledger'[c]

Records(c) ==
    /\ step[c] = "recording"
    /\ inHand[c] \in Nat /\ inHand'[c] = NoTask
    /\ Writes(c, inHand[c], "submitted")

Polls(c) ==
    /\ UNCHANGED inHand
    /\ \E id \in DOMAIN ledger[c] : \E state :
          /\ \/ state \in {"submitted", ledger[c][id]}
             \/ id \in DOMAIN updates /\ state = updates[id]
          /\ Writes(c, id, state)

Restarts(c) ==
    /\ nextTask'[c] = disk[c].nextTask /\ ledger'[c] = disk[c].ledger
    /\ disk'[c] = disk[c] /\ inHand'[c] = NoTask

LEMMA OthersRest ==
    ASSUME Typed, NEW c \in Clients, NEW d \in Clients, d # c,
           \/ RunTask(c) \/ RunTaskWithPayment(c) \/ Running(c) \/ ClientRestart(c)
           \/ \E id \in DOMAIN ledger[c] : PollTask(c, id)
    PROVE  Rests(d)
<1>0. /\ ledger = [e \in Clients |-> ledger[e]] /\ disk = [e \in Clients |-> disk[e]]
      /\ nextTask \in [Clients -> Nat] /\ inHand \in [Clients -> Nat \cup {NoTask}]
  BY DEF Typed, ClientsOK, FilesOK
<1>1. CASE RunTask(c)
  BY <1>1 DEF RunTask, Start, Rests
<1>2. CASE RunTaskWithPayment(c)
  BY <1>0, <1>2 DEF RunTaskWithPayment, Start, TakeId, Rests
<1>3. CASE PaymentOk(c) \/ PaymentFails(c)
  BY <1>0, <1>3 DEF PaymentOk, PaymentFails, TakeId, AfterFailedPayment, Rests
<1>4. CASE RequestOk(c) \/ RequestFails(c)
  BY <1>0, <1>4 DEF RequestOk, RequestFails, AfterFailedRequest, Rests
<1>5. CASE RecordTask(c)
  BY <1>0, <1>5 DEF RecordTask, Persist, Rests
<1>6. CASE ClientRestart(c)
  BY <1>0, <1>6 DEF ClientRestart, Restore, Rests
<1>7. ASSUME NEW id \in DOMAIN ledger[c], PollTask(c, id)
      PROVE  Rests(d)
  BY <1>0, <1>7 DEF PollTask, Persist, Rests
<1>8. QED
  BY <1>1, <1>2, <1>3, <1>4, <1>5, <1>6, <1>7 DEF Running

LEMMA PersistWrites ==
    ASSUME Typed, NEW c \in Clients, NEW id, NEW state, UNCHANGED nextTask,
           ledger' = [ledger EXCEPT ![c] = Put(@, id, state)], Persist(c)
    PROVE  Writes(c, id, state)
<1>0. ledger = [e \in Clients |-> ledger[e]] /\ disk = [e \in Clients |-> disk[e]]
  BY DEF Typed, FilesOK
<1> DEFINE book == Put(ledger[c], id, state)
<1>1. ledger' = [ledger EXCEPT ![c] = book]
  OBVIOUS
<1>2. ledger'[c] = book
  <2> HIDE DEF book
  <2>1. QED
    BY ONLY <1>0, <1>1, c \in Clients
<1>3. \/ disk'[c] = disk[c]
      \/ disk'[c] = [nextTask |-> nextTask[c], ledger |-> ledger'[c]]
  BY <1>0 DEF Persist
<1>4. QED
  BY <1>2, <1>3 DEF Writes

LEMMA ClientSteps ==
    ASSUME Typed, [Next]_vars, NEW c \in Clients
    PROVE  Rests(c) \/ Takes(c) \/ Records(c) \/ Polls(c) \/ Restarts(c)
<1>0. /\ ledger = [e \in Clients |-> ledger[e]] /\ disk = [e \in Clients |-> disk[e]]
      /\ nextTask \in [Clients -> Nat] /\ inHand \in [Clients -> Nat \cup {NoTask}]
      /\ \A d \in Clients : step[d] \in {"requesting", "recording"} <=> inHand[d] \in Nat
  BY DEF Typed, ClientsOK, FilesOK
<1>1. ASSUME RunTask(c) \/ RequestOk(c) \/ RequestFails(c) \/ PaymentFails(c)
      PROVE  Rests(c)
  BY <1>0, <1>1 DEF RunTask, Start, RequestOk, RequestFails, AfterFailedRequest, PaymentFails,
                    AfterFailedPayment, Rests
<1>2. ASSUME RunTaskWithPayment(c) \/ PaymentOk(c)
      PROVE  Takes(c)
  BY <1>0, <1>2 DEF RunTaskWithPayment, PaymentOk, Start, TakeId, Takes
<1>3. ASSUME RecordTask(c)
      PROVE  Records(c)
  <2>1. step[c] = "recording" /\ inHand[c] \in Nat /\ inHand'[c] = NoTask
    BY <1>0, <1>3 DEF RecordTask
  <2>2. Writes(c, inHand[c], "submitted")
    BY <1>3, PersistWrites DEF RecordTask
  <2>3. QED
    BY <2>1, <2>2 DEF Records
<1>4. ASSUME NEW id \in DOMAIN ledger[c], PollTask(c, id)
      PROVE  Polls(c)
  <2>1. PICK copy \in {"submitted", ledger[c][id]} :
           ledger' = [ledger EXCEPT ![c] =
                        Put(@, id, IF id \in DOMAIN updates THEN updates[id] ELSE copy)]
    BY <1>4 DEF PollTask
  <2> DEFINE state == IF id \in DOMAIN updates THEN updates[id] ELSE copy
  <2>2. Writes(c, id, state)
    BY <1>4, <2>1, PersistWrites DEF PollTask
  <2>3. \/ state \in {"submitted", ledger[c][id]}
        \/ id \in DOMAIN updates /\ state = updates[id]
    OBVIOUS
  <2>4. UNCHANGED inHand
    BY <1>4 DEF PollTask
  <2> HIDE DEF state
  <2>5. QED
    BY <2>2, <2>3, <2>4 DEF Polls
<1>5. ASSUME ClientRestart(c)
      PROVE  Restarts(c)
  BY <1>0, <1>5 DEF ClientRestart, Restore, Restarts
<1>6. ASSUME UNCHANGED client
      PROVE  Rests(c)
  BY <1>6 DEF client, Rests
<1>7. ASSUME NEW d \in Clients, d # c, Asking(d) \/ Running(d) \/ ClientRestart(d)
      PROVE  Rests(c)
  <2>1. CASE \E id \in DOMAIN ledger[d] : CancelTask(d, id)
    BY <1>6, <2>1 DEF CancelTask
  <2>2. QED
    BY <1>7, <2>1, OthersRest DEF Asking
<1>8. CASE UNCHANGED vars \/ UpdatesLost \/ Serve \/ Serving \/ InboxLost \/ ProviderRestart
  BY <1>6, <1>8 DEF vars, UpdatesLost, Serve, Serving, InboxLost, ProviderRestart,
                    RefundOk, RefundFails, UpdateOk, UpdateFails, Invoke, FinishServing
<1>9. CASE Asking(c) \/ Running(c) \/ ClientRestart(c)
  <2>1. CASE \E id \in DOMAIN ledger[c] : CancelTask(c, id)
    BY <1>6, <2>1 DEF CancelTask
  <2>2. QED
    BY <1>1, <1>2, <1>3, <1>4, <1>5, <1>9, <2>1 DEF Asking, Running
<1>10. QED
  BY <1>7, <1>8, <1>9 DEF Next

(* Every id a client tracks, in memory or in its file, is below the counter *)
(* kept with it, and the one in hand is not tracked yet.                     *)
Tracks(c) ==
    /\ \A id \in DOMAIN ledger[c] : id < nextTask[c]
    /\ \A id \in DOMAIN disk[c].ledger : id < disk[c].nextTask
    /\ DOMAIN disk[c].ledger \subseteq DOMAIN ledger[c]
    /\ inHand[c] \in Nat => inHand[c] < nextTask[c] /\ inHand[c] \notin DOMAIN ledger[c]

Tracked == \A c \in Clients : Tracks(c)

LEMMA InitTracked == Init => Tracked
BY ConstantsAssumption DEF Init, Tracked, Tracks, Empty, ConstantsAssumption

LEMMA StepTracked == Typed /\ Tracked /\ [Next]_vars => Tracked'
<1> SUFFICES ASSUME Typed, Tracked, [Next]_vars, NEW c \in Clients
             PROVE  Tracks(c)'
  BY DEF Tracked
<1>0. /\ Tracks(c)
      /\ DOMAIN ledger[c] \subseteq Nat /\ nextTask[c] \in Nat /\ NoTask \notin Nat
      /\ DOMAIN disk[c].ledger \subseteq Nat /\ disk[c].nextTask \in Nat
      /\ inHand[c] \in Nat \cup {NoTask}
  BY ConstantsAssumption DEF Tracked, Typed, ClientsOK, FilesOK, ConstantsAssumption
<1>1. CASE Rests(c)
  BY <1>0, <1>1 DEF Rests, Tracks
<1>2. CASE Takes(c)
  BY <1>0, <1>2 DEF Takes, Tracks
<1>3. ASSUME NEW id \in Nat, NEW state, Writes(c, id, state), id < nextTask[c],
             inHand'[c] \in Nat => inHand'[c] < nextTask[c] /\ inHand'[c] \notin DOMAIN ledger[c]
                                     /\ inHand'[c] # id
      PROVE  Tracks(c)'
  <2>1. DOMAIN ledger'[c] = DOMAIN ledger[c] \cup {id}
    BY <1>3 DEF Writes, Put
  <2>2. /\ \A i \in DOMAIN ledger'[c] : i < nextTask'[c]
        /\ inHand'[c] \in Nat => inHand'[c] < nextTask'[c]
                                 /\ inHand'[c] \notin DOMAIN ledger'[c]
    BY <1>0, <1>3, <2>1 DEF Writes, Tracks
  <2>3. /\ \A i \in DOMAIN disk'[c].ledger : i < disk'[c].nextTask
        /\ DOMAIN disk'[c].ledger \subseteq DOMAIN ledger'[c]
    <3>1. CASE disk'[c] = disk[c]
      BY <1>0, <2>1, <3>1 DEF Tracks
    <3>2. CASE disk'[c].nextTask = nextTask[c] /\ disk'[c].ledger = ledger'[c]
      BY <1>3, <2>2, <3>2 DEF Writes
    <3>3. QED
      BY <1>3, <3>1, <3>2 DEF Writes
  <2>4. QED
    BY <2>2, <2>3 DEF Tracks
<1>4. CASE Records(c)
  BY <1>0, <1>3, <1>4 DEF Records, Tracks
<1>5. CASE Polls(c)
  BY <1>0, <1>3, <1>5 DEF Polls, Tracks
<1>6. CASE Restarts(c)
  BY <1>0, <1>6 DEF Restarts, Tracks
<1>7. QED
  BY <1>1, <1>2, <1>4, <1>5, <1>6, ClientSteps

(* The id a new task takes is not one the client tracks, restarts included: *)
(* recording it never overwrites another task.                               *)
THEOREM NewTaskTakesFreeId == Spec => []NewTaskIsNew
<1>1. Typed /\ Tracked => NewTaskIsNew
  <2> SUFFICES ASSUME Typed, Tracked, NEW c \in Clients
               PROVE  inHand[c] \notin DOMAIN ledger[c]
    BY DEF NewTaskIsNew
  <2>1. /\ Tracks(c) /\ DOMAIN ledger[c] \subseteq Nat /\ NoTask \notin Nat
        /\ inHand[c] \in Nat \cup {NoTask}
    BY ConstantsAssumption DEF Tracked, Typed, ClientsOK, FilesOK, ConstantsAssumption
  <2>2. QED
    BY <2>1 DEF Tracks
<1>2. QED
  BY <1>1, InitTyped, StepTyped, InitTracked, StepTracked, PTL DEF Spec

LEMMA FileGrows ==
    ASSUME Typed, Tracked, [Next]_vars, NEW c \in Clients
    PROVE  DOMAIN disk[c].ledger \subseteq DOMAIN disk'[c].ledger
<1>1. Tracks(c)
  BY DEF Tracked
<1>2. ASSUME NEW id, NEW state, Writes(c, id, state)
      PROVE  DOMAIN disk[c].ledger \subseteq DOMAIN disk'[c].ledger
  <2>1. DOMAIN ledger'[c] = DOMAIN ledger[c] \cup {id}
    BY <1>2 DEF Writes, Put
  <2>2. QED
    BY <1>1, <1>2, <2>1 DEF Writes, Tracks
<1>3. Rests(c) \/ Takes(c) \/ Restarts(c) => disk'[c] = disk[c]
  BY DEF Rests, Takes, Restarts
<1>4. Records(c) \/ Polls(c) => \E id, state : Writes(c, id, state)
  BY DEF Records, Polls
<1>5. QED
  BY <1>2, <1>3, <1>4, ClientSteps

(* A task the client's file knows stays known: no later write, poll or      *)
(* restart drops it (src/a2a.rs:417).                                        *)
THEOREM FileDropsNoTask == Spec => TrackedStaysTracked
<1>1. ASSUME Typed, Tracked, [Next]_vars
      PROVE  \A c \in Clients : DOMAIN disk[c].ledger \subseteq DOMAIN disk'[c].ledger
  BY <1>1, FileGrows
<1>2. QED
  BY <1>1, InitTyped, StepTyped, InitTracked, StepTracked, PTL DEF Spec, TrackedStaysTracked

-----------------------------------------------------------------------------
(* Payments.  A client about to publish owes a request that it has paid for: *)
(* with it counted, requests never outnumber payments.                       *)

Owed(c) == IF step[c] = "requesting" THEN 1 ELSE 0

PaidAhead ==
    \A c \in Clients : /\ IsFiniteSet(RequestsOf(c))
                       /\ Cardinality(RequestsOf(c)) + Owed(c) <= paid[c]

Publishes(c) ==
    /\ step[c] = "requesting" /\ step'[c] # "requesting"
    /\ paid'[c] = paid[c]
    /\ RequestsOf(c)' = RequestsOf(c) \cup {Len(requests) + 1}

Pays(c) ==
    /\ paid'[c] = paid[c] + 1
    /\ RequestsOf(c)' = RequestsOf(c)

OwesNoMore(c) ==
    /\ step'[c] = "requesting" => step[c] = "requesting"
    /\ paid'[c] = paid[c]
    /\ RequestsOf(c)' = RequestsOf(c)

LEMMA RequestsOfAppend ==
    ASSUME requests \in Seq(Request), NEW c \in Clients, NEW r \in Request,
           requests' = Append(requests, r)
    PROVE  RequestsOf(c)' = RequestsOf(c) \cup (IF r.from = c THEN {Len(requests) + 1} ELSE {})
<1>1. /\ DOMAIN requests' = DOMAIN requests \cup {Len(requests) + 1}
      /\ \A i \in DOMAIN requests : requests'[i] = requests[i]
      /\ requests'[Len(requests) + 1] = r
      /\ Len(requests) + 1 \notin DOMAIN requests
  OBVIOUS
<1>2. QED
  BY <1>1 DEF RequestsOf

LEMMA PublishAppends ==
    ASSUME Typed, NEW c \in Clients, step[c] = "requesting", PublishRequest(c)
    PROVE  \E r \in Request : /\ r.from = c /\ r.no = Len(requests) + 1
                              /\ requests' = Append(requests, r)
                              /\ inbox' = inbox \cup {r}
<1> DEFINE request == [kind |-> "task_request", id |-> inHand[c], from |-> c,
                       no |-> Len(requests) + 1]
<1>1. requests \in Seq(Request) /\ inHand[c] \in Nat
  BY DEF Typed, ClientsOK, HistoryOK
<1>2. request \in Request
  BY <1>1 DEF Request
<1>3. inbox' = inbox \cup {request} /\ requests' = Append(requests, request)
  BY DEF PublishRequest
<1>4. QED
  BY <1>2, <1>3

LEMMA PaymentSteps ==
    ASSUME Typed, [Next]_vars, NEW c \in Clients
    PROVE  Publishes(c) \/ Pays(c) \/ OwesNoMore(c)
<1>0. /\ requests \in Seq(Request)
      /\ step \in [Clients -> {"idle", "paying", "requesting", "recording"}]
      /\ paid \in [Clients -> Nat]
  BY DEF Typed, ClientsOK, HistoryOK
<1>1. ASSUME UNCHANGED requests
      PROVE  RequestsOf(c)' = RequestsOf(c)
  BY <1>1 DEF RequestsOf
<1>2. ASSUME NEW d \in Clients, RequestOk(d) \/ RequestFails(d), ~ UNCHANGED requests
      PROVE  Publishes(c) \/ OwesNoMore(c)
  <2>1. step[d] = "requesting" /\ PublishRequest(d) /\ UNCHANGED paid
    BY <1>2 DEF RequestOk, RequestFails, AfterFailedRequest
  <2>2. step' = [step EXCEPT ![d] = "recording"] \/ step' = [step EXCEPT ![d] = "idle"]
    BY <1>2 DEF RequestOk, RequestFails, AfterFailedRequest
  <2>3. RequestsOf(c)' = RequestsOf(c) \cup (IF d = c THEN {Len(requests) + 1} ELSE {})
    BY <1>0, <2>1, PublishAppends, RequestsOfAppend
  <2>4. QED
    BY <1>0, <2>1, <2>2, <2>3 DEF Publishes, OwesNoMore
<1>3. ASSUME NEW d \in Clients, RequestOk(d) \/ RequestFails(d), UNCHANGED requests
      PROVE  OwesNoMore(c)
  <2>1. step' = [step EXCEPT ![d] = "recording"] \/ step' = [step EXCEPT ![d] = "idle"]
    BY <1>3 DEF RequestOk, RequestFails, AfterFailedRequest
  <2>2. UNCHANGED paid
    BY <1>3 DEF RequestOk, RequestFails, AfterFailedRequest
  <2>3. QED
    BY <1>0, <1>1, <1>3, <2>1, <2>2 DEF OwesNoMore
<1>4. ASSUME NEW d \in Clients, RunTaskWithPayment(d) \/ PaymentOk(d)
      PROVE  Pays(c) \/ OwesNoMore(c)
  BY <1>0, <1>1, <1>4 DEF RunTaskWithPayment, PaymentOk, Start, Pay, Pays, OwesNoMore
<1>5. ASSUME NEW d \in Clients, RunTask(d) \/ PaymentFails(d) \/ RecordTask(d) \/ ClientRestart(d)
      PROVE  Pays(c) \/ OwesNoMore(c)
  <2>1. UNCHANGED requests
    BY <1>5 DEF RunTask, Start, PaymentFails, RecordTask, ClientRestart, history
  <2>2. UNCHANGED paid \/ Pay(d)
    BY <1>5 DEF RunTask, PaymentFails, RecordTask, ClientRestart, history
  <2>3. step' = [step EXCEPT ![d] = "paying"] \/ step' = [step EXCEPT ![d] = "idle"]
    BY <1>5 DEF RunTask, Start, PaymentFails, AfterFailedPayment, RecordTask, ClientRestart
  <2>4. QED
    BY <1>0, <1>1, <2>1, <2>2, <2>3 DEF Pay, Pays, OwesNoMore
<1>6. ASSUME UNCHANGED <<step, paid, requests>>
      PROVE  OwesNoMore(c)
  BY <1>1, <1>6 DEF OwesNoMore
<1>7. ASSUME NEW d \in Clients, NEW id \in DOMAIN ledger[d],
             PollTask(d, id) \/ CancelTask(d, id)
      PROVE  OwesNoMore(c)
  BY <1>6, <1>7 DEF PollTask, CancelTask, client, history
<1>8. CASE UNCHANGED vars \/ UpdatesLost \/ Serve \/ Serving \/ InboxLost \/ ProviderRestart
  BY <1>6, <1>8 DEF vars, UpdatesLost, Serve, Serving, InboxLost, ProviderRestart, client,
                    RefundOk, RefundFails, UpdateOk, UpdateFails, Invoke, FinishServing,
                    history
<1>9. QED
  BY <1>2, <1>3, <1>4, <1>5, <1>7, <1>8 DEF Next, Asking, Running

LEMMA InitPaidAhead == Init => PaidAhead
BY FS_EmptySet DEF Init, PaidAhead, RequestsOf, Owed

LEMMA StepPaidAhead == Typed /\ PaidAhead /\ [Next]_vars => PaidAhead'
<1> SUFFICES ASSUME Typed, PaidAhead, [Next]_vars, NEW c \in Clients
             PROVE  /\ IsFiniteSet(RequestsOf(c)')
                    /\ Cardinality(RequestsOf(c)') + Owed(c)' <= paid'[c]
  BY DEF PaidAhead
<1>0. /\ IsFiniteSet(RequestsOf(c)) /\ Cardinality(RequestsOf(c)) \in Nat
      /\ Cardinality(RequestsOf(c)) + Owed(c) <= paid[c]
      /\ paid[c] \in Nat
  BY FS_CardinalityType DEF PaidAhead, Typed, HistoryOK
<1>1. CASE Publishes(c)
  <2>1. /\ IsFiniteSet(RequestsOf(c)')
        /\ Cardinality(RequestsOf(c)') <= Cardinality(RequestsOf(c)) + 1
    <3> DEFINE more == RequestsOf(c) \cup {Len(requests) + 1}
    <3>1. IsFiniteSet(more) /\ Cardinality(more) \in {Cardinality(RequestsOf(c)),
                                                      Cardinality(RequestsOf(c)) + 1}
      BY <1>0, FS_AddElement
    <3>2. RequestsOf(c)' = more
      BY <1>1 DEF Publishes
    <3> HIDE DEF more
    <3>3. QED
      BY <1>0, <3>1, <3>2
  <2>2. Owed(c) = 1 /\ Owed(c)' = 0 /\ paid'[c] = paid[c]
    BY <1>1 DEF Publishes, Owed
  <2>3. Cardinality(RequestsOf(c)') \in Nat
    BY <2>1, FS_CardinalityType
  <2>4. QED
    BY <1>0, <2>1, <2>2, <2>3
<1>2. CASE Pays(c)
  <2>1. Owed(c) \in 0 .. 1 /\ Owed(c)' \in 0 .. 1
    BY DEF Owed
  <2>2. QED
    BY <1>0, <1>2, <2>1 DEF Pays
<1>3. CASE OwesNoMore(c)
  <2>1. Owed(c) \in 0 .. 1 /\ Owed(c)' \in 0 .. 1 /\ Owed(c)' <= Owed(c)
    BY <1>3 DEF OwesNoMore, Owed
  <2>2. QED
    BY <1>0, <1>3, <2>1 DEF OwesNoMore
<1>4. QED
  BY <1>1, <1>2, <1>3, PaymentSteps

(* Payment precedes work (docs/A2A_BINDING.md): whatever fails, a client has *)
(* paid at least as often as it has published a request.                     *)
THEOREM PaidAtLeastAsRequested == Spec => []PaidBeforeRequested
<1>1. Typed /\ PaidAhead => PaidBeforeRequested
  <2> SUFFICES ASSUME Typed, PaidAhead, NEW c \in Clients
               PROVE  Cardinality(RequestsOf(c)) <= paid[c]
    BY DEF PaidBeforeRequested
  <2>1. /\ Cardinality(RequestsOf(c)) \in Nat /\ paid[c] \in Nat
        /\ Cardinality(RequestsOf(c)) + Owed(c) <= paid[c]
    BY FS_CardinalityType DEF PaidAhead, Typed, HistoryOK
  <2>2. QED
    BY <2>1 DEF Owed
<1>2. QED
  BY <1>1, InitTyped, StepTyped, InitPaidAhead, StepPaidAhead, PTL DEF Spec

-----------------------------------------------------------------------------
(* The provider's batch.  Requests on the inbox topic and in the batch are   *)
(* known by their number; what is settled was published; and once the first  *)
(* request of the batch is canceled or has an outcome, it is settled.        *)

Known(r) == r.no \in DOMAIN requests /\ requests[r.no] = r

Numbered ==
    /\ \A m \in inbox : m.kind = "task_request" => Known(m)
    /\ \A r \in todo : Known(r)

Accounted ==
    /\ invoked \cup refunded \subseteq DOMAIN requests
    /\ \A r \in todo : IsFirst(r) => /\ phase = "canceled" => r.no \in refunded
                                     /\ phase \in Outcomes => r.no \in invoked

Batch == Numbered /\ Accounted

LEMMA AppendKeepsKnown ==
    ASSUME requests \in Seq(Request), NEW q \in Request, requests' = Append(requests, q),
           NEW r, Known(r)
    PROVE  Known(r)'
BY DEF Known

LEMMA FirstIsOne ==
    ASSUME Typed, Numbered, NEW q, NEW r, IsFirst(q), IsFirst(r)
    PROVE  q = r
<1>1. q \in todo /\ r \in todo /\ q.no <= r.no /\ r.no <= q.no
  BY DEF IsFirst
<1>2. q.no \in Nat /\ r.no \in Nat
  BY <1>1 DEF Typed, ProviderOK, Request
<1>3. q.no = r.no
  BY <1>1, <1>2
<1>4. QED
  BY <1>1, <1>3 DEF Numbered, Known

(* The steps of the provider, each by what it does to its batch and to what  *)
(* is settled.                                                               *)
Same == UNCHANGED <<backend, phase, todo, settled>>
Reads == /\ phase = "idle" /\ phase' = "next"
         /\ todo' = {m \in inbox : m.kind = "task_request"}
         /\ inbox' = AfterRead(inbox, {})
         /\ UNCHANGED <<backend, settled>>
Drops == /\ phase' = "idle" /\ todo' = {}
         /\ UNCHANGED <<backend, settled>>
Refunds(r) == /\ phase = "next" /\ IsFirst(r) /\ GiveBack(r)
              /\ \/ phase' = "canceled" /\ todo' = todo
                 \/ phase' = "idle" /\ todo' = {}
              /\ UNCHANGED <<backend, invoked>>
Runs(r) == /\ phase = "working" /\ IsFirst(r)
           /\ phase' \in Outcomes /\ todo' = todo
           /\ invoked' = invoked \cup {r.no} /\ Settles(r)
           /\ UNCHANGED <<backend, refunded>>
Starts == /\ phase = "next" /\ phase' = "working"
          /\ UNCHANGED <<backend, todo, settled>>
Finishes(r) == /\ phase \in Terminal /\ IsFirst(r)
               /\ phase' = "next" /\ todo' = todo \ {r}
               /\ UNCHANGED <<backend, settled>>

LEMMA ProviderSteps ==
    ASSUME Typed, [Next]_vars
    PROVE  \/ Same \/ Reads \/ Drops \/ Starts
           \/ \E r \in todo : Refunds(r) \/ Runs(r) \/ Finishes(r)
<1>1. ASSUME NEW c \in Clients, Asking(c) \/ Running(c) \/ ClientRestart(c)
      PROVE  Same
  <2>1. CASE Asking(c)
    BY <2>1 DEF Asking, RunTask, RunTaskWithPayment, Start, PollTask, CancelTask,
                provider, history, settled, Same
  <2>2. CASE Running(c)
    BY <2>2 DEF Running, PaymentOk, PaymentFails, RequestOk, RequestFails, RecordTask,
                provider, history, settled, Same
  <2>3. CASE ClientRestart(c)
    BY <2>3 DEF ClientRestart, provider, settled, Same
  <2>4. QED
    BY <1>1, <2>1, <2>2, <2>3
<1>2. CASE UNCHANGED vars \/ UpdatesLost \/ InboxLost
  BY <1>2 DEF vars, UpdatesLost, InboxLost, provider, history, settled, Same
<1>3. CASE Serve
  BY <1>3 DEF Serve, history, settled, Reads
<1>4. CASE ProviderRestart \/ FinishServing
  BY <1>4 DEF ProviderRestart, FinishServing, Abort, history, settled, Drops
<1>5. ASSUME NEW r \in todo, RefundOk(r) \/ RefundFails(r)
      PROVE  Refunds(r) \/ Drops
  BY <1>5 DEF RefundOk, RefundFails, AfterFailedRefund, Abort, Refunds, Drops, settled
<1>6. ASSUME NEW r \in todo, NEW state \in TaskStates, UpdateOk(r, state)
      PROVE  Starts \/ Finishes(r)
  BY <1>6 DEF UpdateOk, UpdateDue, Terminal, Outcomes, history, settled, Starts, Finishes
<1>7. ASSUME NEW r \in todo, NEW state \in TaskStates, UpdateFails(r, state)
      PROVE  Drops
  BY <1>7 DEF UpdateFails, Abort, history, settled, Drops
<1>8. ASSUME NEW r \in todo, NEW outcome \in Outcomes, Invoke(r, outcome)
      PROVE  Runs(r)
  BY <1>8 DEF Invoke, Runs
<1>9. QED
  BY <1>1, <1>2, <1>3, <1>4, <1>5, <1>6, <1>7, <1>8 DEF Next, Serving

(* The steps that publish a request leave the provider alone; the others     *)
(* put nothing but cancels on the inbox topic.                               *)
Requested(r) == /\ r.no = Len(requests) + 1
                /\ requests' = Append(requests, r) /\ inbox' = inbox \cup {r}
                /\ Same
NothingRequested == /\ UNCHANGED requests
                    /\ inbox' \subseteq inbox \cup Cancel

LEMMA RequestSteps ==
    ASSUME Typed, [Next]_vars
    PROVE  NothingRequested \/ \E r \in Request : Requested(r)
<1>1. ASSUME NEW c \in Clients, RequestOk(c) \/ RequestFails(c)
      PROVE  NothingRequested \/ \E r \in Request : Requested(r)
  <2>1. step[c] = "requesting" /\ Same
    BY <1>1 DEF RequestOk, RequestFails, provider, settled, Same
  <2>2. PublishRequest(c) \/ NothingRequested
    BY <1>1 DEF RequestOk, RequestFails, NothingRequested
  <2>3. QED
    BY <2>1, <2>2, PublishAppends DEF Requested
<1>2. ASSUME NEW c \in Clients, NEW id \in DOMAIN ledger[c], CancelTask(c, id)
      PROVE  NothingRequested
  <2>1. [kind |-> "task_cancel", id |-> id] \in Cancel
    BY <1>2 DEF Typed, FilesOK, Cancel
  <2>2. QED
    BY <1>2, <2>1 DEF CancelTask, NothingRequested, history
<1>3. ASSUME NEW c \in Clients,
             \/ RunTask(c) \/ RunTaskWithPayment(c) \/ PaymentOk(c) \/ PaymentFails(c)
             \/ RecordTask(c) \/ ClientRestart(c) \/ \E id \in DOMAIN ledger[c] : PollTask(c, id)
      PROVE  NothingRequested
  BY <1>3 DEF RunTask, RunTaskWithPayment, Start, PaymentOk, PaymentFails, RecordTask,
              ClientRestart, PollTask, history, NothingRequested
<1>4. CASE UNCHANGED vars \/ UpdatesLost \/ ProviderRestart \/ Serving
  BY <1>4 DEF vars, UpdatesLost, ProviderRestart, Serving, RefundOk, RefundFails, UpdateOk,
              UpdateFails, Invoke, FinishServing, history, NothingRequested
<1>5. CASE Serve \/ InboxLost
  BY <1>5 DEF Serve, InboxLost, AfterRead, history, NothingRequested
<1>6. QED
  BY <1>1, <1>2, <1>3, <1>4, <1>5 DEF Next, Asking, Running

LEMMA InitBatch == Init => Batch
BY DEF Init, Batch, Numbered, Accounted

LEMMA StepNumbered == Typed /\ Numbered /\ [Next]_vars => Numbered'
<1> SUFFICES ASSUME Typed, Numbered, [Next]_vars
             PROVE  Numbered'
  OBVIOUS
<1>0. requests \in Seq(Request) /\ todo \subseteq Request
  BY DEF Typed, HistoryOK, ProviderOK
<1>1. ASSUME NEW r \in Request, Requested(r)
      PROVE  Numbered'
  <2>1. Known(r)'
    BY <1>0, <1>1 DEF Requested, Known
  <2>2. todo' = todo /\ inbox' = inbox \cup {r}
    BY <1>1 DEF Requested, Same
  <2>3. \A m : Known(m) => Known(m)'
    BY <1>0, <1>1, AppendKeepsKnown DEF Requested
  <2>4. QED
    BY <2>1, <2>2, <2>3 DEF Numbered
<1>2. ASSUME NothingRequested
      PROVE  Numbered'
  <2>1. \A m : Known(m)' <=> Known(m)
    BY <1>2 DEF NothingRequested, Known
  <2>2. todo' \subseteq todo \cup {m \in inbox : m.kind = "task_request"}
    BY ProviderSteps DEF Same, Reads, Drops, Refunds, Runs, Starts, Finishes
  <2>3. \A m \in inbox' : m.kind = "task_request" => m \in inbox
    BY <1>2 DEF NothingRequested, Cancel
  <2>4. QED
    BY <2>1, <2>2, <2>3 DEF Numbered
<1>3. QED
  BY <1>1, <1>2, RequestSteps

LEMMA StepAccounted == Typed /\ Batch /\ [Next]_vars => Accounted'
<1> SUFFICES ASSUME Typed, Numbered, Accounted, [Next]_vars
             PROVE  Accounted'
  BY DEF Batch
<1>1. DOMAIN requests \subseteq DOMAIN requests'
  <2>1. requests \in Seq(Request)
    BY DEF Typed, HistoryOK
  <2>2. QED
    BY <2>1, RequestSteps DEF NothingRequested, Requested
<1>2. \A r \in todo : r.no \in DOMAIN requests
  BY DEF Numbered, Known
<1>3. CASE Same
  BY <1>1, <1>3 DEF Same, settled, Accounted, IsFirst
<1>4. CASE Reads \/ Drops \/ Starts
  BY <1>1, <1>4 DEF Reads, Drops, Starts, settled, Accounted, Outcomes
<1>5. ASSUME NEW r \in todo, Finishes(r)
      PROVE  Accounted'
  BY <1>1, <1>5 DEF Finishes, settled, Accounted, Outcomes
<1>6. ASSUME NEW r \in todo, Refunds(r)
      PROVE  Accounted'
  <2>1. invoked' \cup refunded' \subseteq DOMAIN requests'
    BY <1>1, <1>2, <1>6 DEF Refunds, GiveBack, Accounted
  <2>2. r.no \in refunded'
    BY <1>6 DEF Refunds, GiveBack
  <2>3. phase' \notin Outcomes /\ \A q \in todo' : IsFirst(q)' => q = r
    BY <1>6, FirstIsOne DEF Refunds, IsFirst, Outcomes
  <2>4. QED
    BY <2>1, <2>2, <2>3 DEF Accounted
<1>7. ASSUME NEW r \in todo, Runs(r)
      PROVE  Accounted'
  <2>1. invoked' \cup refunded' \subseteq DOMAIN requests'
    BY <1>1, <1>2, <1>7 DEF Runs, Accounted
  <2>2. r.no \in invoked'
    BY <1>7 DEF Runs
  <2>3. phase' # "canceled" /\ \A q \in todo' : IsFirst(q)' => q = r
    BY <1>7, FirstIsOne DEF Runs, IsFirst, Outcomes
  <2>4. QED
    BY <2>1, <2>2, <2>3 DEF Accounted
<1>8. QED
  BY <1>3, <1>4, <1>5, <1>6, <1>7, ProviderSteps

LEMMA StepBatch == Typed /\ Batch /\ [Next]_vars => Batch'
BY StepNumbered, StepAccounted DEF Batch

-----------------------------------------------------------------------------
(* On a backend that evicts what it served a request is in one place: on the *)
(* topic, in the batch, or settled; only the first of a batch can be both.    *)

Settled(r) == r.no \in invoked \cup refunded

Fresh ==
    /\ repeated = {}
    /\ \A m \in inbox : m.kind = "task_request" => m \notin todo /\ ~ Settled(m)
    /\ \A r \in todo : Settled(r) => phase \in Terminal /\ IsFirst(r)

OnceEach == backend = "evicting" => Fresh

LEMMA InitOnceEach == Init => OnceEach
BY DEF Init, OnceEach, Fresh

(* The provider settles the first request of its batch, which is not settled *)
(* before: nothing is settled again.                                         *)
LEMMA SettlesFirst ==
    ASSUME Typed, Numbered, Fresh, NothingRequested, NEW r \in todo,
           phase \in {"next", "working"}, IsFirst(r), Settles(r),
           invoked' \cup refunded' = (invoked \cup refunded) \cup {r.no},
           \/ phase' \in Terminal /\ todo' = todo
           \/ todo' = {}
    PROVE  Fresh'
<1>1. ~ Settled(r) /\ \A q \in todo : ~ Settled(q)
  BY DEF Fresh, Terminal, Outcomes
<1>2. repeated' = {}
  BY <1>1 DEF Settles, Settled, Fresh
<1>3. \A q : Known(q) /\ Settled(q)' => Settled(q) \/ q = r
  BY DEF Settled, Numbered, Known
<1>4. \A m \in inbox' : m.kind = "task_request" => m \in inbox
  BY DEF NothingRequested, Cancel
<1>5. \A m \in inbox' : m.kind = "task_request" => m \notin todo' /\ ~ Settled(m)'
  BY <1>3, <1>4 DEF Fresh, Numbered
<1>6. \A q \in todo' : Settled(q)' => phase' \in Terminal /\ IsFirst(q)'
  BY <1>1, <1>3 DEF Numbered, IsFirst
<1>7. QED
  BY <1>2, <1>5, <1>6 DEF Fresh

LEMMA StepOnceEach == Typed /\ Batch /\ OnceEach /\ [Next]_vars => OnceEach'
<1> SUFFICES ASSUME Typed, Numbered, Accounted, OnceEach, [Next]_vars, backend' = "evicting"
             PROVE  Fresh'
  BY DEF OnceEach, Batch
<1>1. backend = "evicting" /\ Fresh
  BY ProviderSteps DEF Same, Reads, Drops, Starts, Refunds, Runs, Finishes, OnceEach
<1>2. ASSUME NEW r \in Request, Requested(r)
      PROVE  Fresh'
  <2>1. r.no \notin DOMAIN requests
    BY <1>2 DEF Requested, Typed, HistoryOK
  <2>2. r \notin todo /\ ~ Settled(r)
    BY <2>1 DEF Numbered, Known, Accounted, Settled
  <2>3. QED
    BY <1>1, <1>2, <2>2 DEF Requested, Same, settled, Fresh, Settled, IsFirst
<1>3. ASSUME NothingRequested
      PROVE  Fresh'
  <2>1. \A m \in inbox' : m.kind = "task_request" => m \in inbox
    BY <1>3 DEF NothingRequested, Cancel
  <2>2. CASE Same
    BY <1>1, <2>1, <2>2 DEF Same, settled, Fresh, Settled, IsFirst
  <2>3. CASE Reads
    BY <1>1, <2>3 DEF Reads, AfterRead, settled, Fresh, Settled
  <2>4. CASE Drops
    BY <1>1, <2>1, <2>4 DEF Drops, settled, Fresh, Settled
  <2>5. CASE Starts
    BY <1>1, <2>1, <2>5 DEF Starts, settled, Fresh, Settled, Terminal, Outcomes
  <2>6. ASSUME NEW r \in todo, Finishes(r)
        PROVE  Fresh'
    <3>1. \A q \in todo' : ~ Settled(q)
      BY <1>1, <2>6, FirstIsOne DEF Finishes, Fresh
    <3>2. QED
      BY <1>1, <2>1, <2>6, <3>1 DEF Finishes, settled, Fresh, Settled
  <2>7. ASSUME NEW r \in todo, Refunds(r)
        PROVE  Fresh'
    BY <1>1, <1>3, <2>7, SettlesFirst DEF Refunds, GiveBack, Terminal
  <2>8. ASSUME NEW r \in todo, Runs(r)
        PROVE  Fresh'
    BY <1>1, <1>3, <2>8, SettlesFirst DEF Runs, Terminal
  <2>9. QED
    BY <2>2, <2>3, <2>4, <2>5, <2>6, <2>7, <2>8, ProviderSteps
<1>4. QED
  BY <1>2, <1>3, RequestSteps

(* On a backend that evicts what it served, a request is served or refunded, *)
(* never both and never again, whatever fails (src/a2a.rs:300).               *)
THEOREM SettledOnce == Spec => []ServedOrRefundedOnce
<1>1. OnceEach => ServedOrRefundedOnce
  BY DEF OnceEach, Fresh, ServedOrRefundedOnce
<1>2. QED
  BY <1>1, InitTyped, StepTyped, InitBatch, StepBatch, InitOnceEach, StepOnceEach, PTL DEF Spec

-----------------------------------------------------------------------------
(* What an update, a ledger or a file says of a task.  A terminal state in    *)
(* any of them is backed by a request of that id that was refunded, if it     *)
(* says canceled, or that a skill ran for.                                    *)

Backed(state, id, reqs, ran, back) ==
    state \in Terminal =>
        \E i \in DOMAIN reqs : /\ reqs[i].id = id
                               /\ i \in IF state = "canceled" THEN back ELSE ran

AllBacked(book, reqs, ran, back) ==
    \A id \in DOMAIN book : Backed(book[id], id, reqs, ran, back)

Truthful ==
    /\ AllBacked(updates, requests, invoked, refunded)
    /\ \A c \in Clients : /\ AllBacked(ledger[c], requests, invoked, refunded)
                          /\ AllBacked(disk[c].ledger, requests, invoked, refunded)

LEMMA PutBacked ==
    ASSUME NEW book, NEW id, NEW state, NEW reqs, NEW ran, NEW back,
           AllBacked(book, reqs, ran, back), Backed(state, id, reqs, ran, back)
    PROVE  AllBacked(Put(book, id, state), reqs, ran, back)
BY DEF AllBacked, Put

LEMMA EmptyBacked ==
    ASSUME NEW reqs, NEW ran, NEW back
    PROVE  AllBacked(Empty, reqs, ran, back)
BY DEF AllBacked, Empty

LEMMA HistoryGrows ==
    ASSUME Typed, [Next]_vars
    PROVE  /\ DOMAIN requests \subseteq DOMAIN requests'
           /\ \A i \in DOMAIN requests : requests'[i] = requests[i]
           /\ invoked \subseteq invoked' /\ refunded \subseteq refunded'
<1>1. requests \in Seq(Request)
  BY DEF Typed, HistoryOK
<1>2. /\ DOMAIN requests \subseteq DOMAIN requests'
      /\ \A i \in DOMAIN requests : requests'[i] = requests[i]
  BY <1>1, RequestSteps DEF NothingRequested, Requested
<1>3. invoked \subseteq invoked' /\ refunded \subseteq refunded'
  BY ProviderSteps
     DEF Same, Reads, Drops, Starts, Refunds, GiveBack, Runs, Finishes, settled
<1>4. QED
  BY <1>2, <1>3

LEMMA StaysBacked ==
    ASSUME Typed, [Next]_vars, NEW book, AllBacked(book, requests, invoked, refunded)
    PROVE  AllBacked(book, requests', invoked', refunded')
BY HistoryGrows DEF AllBacked, Backed

LEMMA UpdateSteps ==
    ASSUME Typed, [Next]_vars
    PROVE  \/ updates' \in {updates, Empty}
           \/ \E r \in todo : \E state : UpdateDue(r, state) /\ updates' = Put(updates, r.id, state)
<1>1. ASSUME NEW c \in Clients, Asking(c) \/ Running(c) \/ ClientRestart(c)
      PROVE  updates' \in {updates, Empty}
  BY <1>1 DEF Asking, RunTask, RunTaskWithPayment, Start, PollTask, CancelTask, AfterRead,
              Running, PaymentOk, PaymentFails, RequestOk, RequestFails, RecordTask,
              ClientRestart
<1>2. CASE UNCHANGED vars \/ UpdatesLost \/ Serve \/ InboxLost \/ ProviderRestart
           \/ FinishServing
  BY <1>2 DEF vars, UpdatesLost, AfterRead, Serve, InboxLost, ProviderRestart, FinishServing
<1>3. ASSUME NEW r \in todo, \/ RefundOk(r) \/ RefundFails(r)
                             \/ \E outcome \in Outcomes : Invoke(r, outcome)
      PROVE  UNCHANGED updates
  BY <1>3 DEF RefundOk, RefundFails, Invoke
<1>4. ASSUME NEW r \in todo, NEW state \in TaskStates,
             UpdateOk(r, state) \/ UpdateFails(r, state)
      PROVE  UNCHANGED updates \/ (UpdateDue(r, state) /\ updates' = Put(updates, r.id, state))
  BY <1>4 DEF UpdateOk, UpdateFails, PublishUpdate
<1>5. QED
  BY <1>1, <1>2, <1>3, <1>4 DEF Next, Serving

LEMMA DueIsBacked ==
    ASSUME Batch, NEW r \in todo, NEW state, UpdateDue(r, state)
    PROVE  Backed(state, r.id, requests, invoked, refunded)
<1>1. r.no \in DOMAIN requests /\ requests[r.no] = r
  BY DEF Batch, Numbered, Known
<1>2. /\ phase = "canceled" => r.no \in refunded
      /\ phase \in Outcomes => r.no \in invoked
  BY DEF Batch, Accounted, UpdateDue
<1>3. QED
  BY <1>1, <1>2 DEF Backed, UpdateDue, Terminal, Outcomes

LEMMA InitTruthful == Init => Truthful
BY EmptyBacked DEF Init, Truthful

LEMMA StepTruthful == Typed /\ Batch /\ Truthful /\ [Next]_vars => Truthful'
<1> SUFFICES ASSUME Typed, Batch, Truthful, [Next]_vars
             PROVE  Truthful'
  OBVIOUS
<1> DEFINE Now(book)  == AllBacked(book, requests, invoked, refunded)
           Then(book) == AllBacked(book, requests', invoked', refunded')
<1>1. ASSUME NEW book, Now(book)
      PROVE  Then(book)
  BY <1>1, StaysBacked
<1>2. Now(updates')
  <2>1. ASSUME NEW r \in todo, NEW state, UpdateDue(r, state)
        PROVE  Now(Put(updates, r.id, state))
    BY <2>1, DueIsBacked, PutBacked DEF Truthful
  <2>2. Now(updates) /\ Now(Empty)
    BY EmptyBacked DEF Truthful
  <2> HIDE DEF Now
  <2>3. QED
    BY <2>1, <2>2, UpdateSteps
<1>3. ASSUME NEW c \in Clients
      PROVE  Now(ledger'[c]) /\ Now(disk'[c].ledger)
  <2>1. Now(ledger[c]) /\ Now(disk[c].ledger) /\ Now(updates)
    BY DEF Truthful
  <2>2. ASSUME NEW id, NEW state, Writes(c, id, state),
               Backed(state, id, requests, invoked, refunded)
        PROVE  Now(ledger'[c]) /\ Now(disk'[c].ledger)
    <3>1. Now(Put(ledger[c], id, state))
      BY <2>1, <2>2, PutBacked
    <3> HIDE DEF Now
    <3>2. QED
      BY <2>1, <2>2, <3>1 DEF Writes
  <2>3. CASE Rests(c) \/ Takes(c) \/ Restarts(c)
    <3> HIDE DEF Now
    <3>1. QED
      BY <2>1, <2>3 DEF Rests, Takes, Restarts
  <2>4. CASE Records(c)
    <3>1. Backed("submitted", inHand[c], requests, invoked, refunded)
      BY DEF Backed, Terminal, Outcomes
    <3>2. QED
      BY <2>2, <2>4, <3>1 DEF Records
  <2>5. CASE Polls(c)
    <3>1. PICK id, state :
             /\ id \in DOMAIN ledger[c]
             /\ \/ state \in {"submitted", ledger[c][id]}
                \/ id \in DOMAIN updates /\ state = updates[id]
             /\ Writes(c, id, state)
      BY <2>5 DEF Polls
    <3>2. CASE state = "submitted"
      BY <2>2, <3>1, <3>2 DEF Backed, Terminal, Outcomes
    <3>3. CASE state = ledger[c][id]
      BY <2>1, <2>2, <3>1, <3>3 DEF AllBacked
    <3>4. CASE id \in DOMAIN updates /\ state = updates[id]
      BY <2>1, <2>2, <3>1, <3>4 DEF AllBacked
    <3>5. QED
      BY <3>1, <3>2, <3>3, <3>4
  <2>6. QED
    BY <2>3, <2>4, <2>5, ClientSteps
<1>4. QED
  BY <1>1, <1>2, <1>3 DEF Truthful

(* What the ledger says of a task whose id only one request carries is what *)
(* happened to that request: canceled means refunded, an outcome means that  *)
(* a skill ran (src/a2a.rs:618).                                              *)
THEOREM LedgerIsTruthful == Spec => []LedgerTruthful
<1>1. Truthful => LedgerTruthful
  <2> SUFFICES ASSUME Truthful, NEW c \in Clients, NEW i \in RequestsOf(c),
                      requests[i].id \in DOMAIN ledger[c],
                      \A j \in DOMAIN requests : requests[j].id = requests[i].id => j = i
               PROVE  /\ ledger[c][requests[i].id] = "canceled" => i \in refunded
                      /\ ledger[c][requests[i].id] \in Outcomes => i \in invoked
    BY DEF LedgerTruthful
  <2>1. Backed(ledger[c][requests[i].id], requests[i].id, requests, invoked, refunded)
    BY DEF Truthful, AllBacked
  <2>2. QED
    BY <2>1 DEF Backed, Terminal, Outcomes
<1>2. QED
  BY <1>1, InitTyped, StepTyped, InitBatch, StepBatch, InitTruthful, StepTruthful, PTL DEF Spec

-----------------------------------------------------------------------------
(* The refinement of TaskPromise.                                            *)

(* Every task a client tracks, and the one it is about to record, it has     *)
(* asked for.                                                                *)
Asked(c, id) == \E n \in RequestsOf(c) : requests[n].id = id

TracksAsked(c) ==
    /\ \A id \in DOMAIN ledger[c] : Asked(c, id)
    /\ step[c] = "recording" => Asked(c, inHand[c])

OnlyAsked == \A c \in Clients : TracksAsked(c)

LEMMA InitOnlyAsked == Init => OnlyAsked
BY DEF Init, OnlyAsked, TracksAsked, Empty

LEMMA AskedStable ==
    ASSUME Typed, [Next]_vars, NEW c, NEW id, Asked(c, id)
    PROVE  Asked(c, id)'
BY HistoryGrows DEF Asked, RequestsOf

(* A client comes to record a task by publishing its request.                *)
LEMMA RecordingSteps ==
    ASSUME Typed, [Next]_vars, NEW c \in Clients, step'[c] = "recording"
    PROVE  \/ step[c] = "recording" /\ inHand'[c] = inHand[c]
           \/ RequestOk(c)
<1>0. /\ step \in [Clients -> {"idle", "paying", "requesting", "recording"}]
      /\ inHand \in [Clients -> Nat \cup {NoTask}]
  BY DEF Typed, ClientsOK
<1>1. ASSUME UNCHANGED <<step, inHand>>
      PROVE  step[c] = "recording" /\ inHand'[c] = inHand[c]
  BY <1>1
<1>2. ASSUME NEW d \in Clients, \/ RunTask(d) \/ RunTaskWithPayment(d) \/ PaymentOk(d)
                                \/ PaymentFails(d) \/ RequestFails(d)
                                \/ RecordTask(d) \/ ClientRestart(d)
      PROVE  step[c] = "recording" /\ inHand'[c] = inHand[c]
  <2>1. \E await \in {"idle", "paying", "requesting"} : step' = [step EXCEPT ![d] = await]
    BY <1>2 DEF RunTask, RunTaskWithPayment, Start, PaymentOk, PaymentFails,
                AfterFailedPayment, RequestFails, AfterFailedRequest, RecordTask,
                ClientRestart
  <2>2. d # c /\ step[c] = "recording"
    BY <1>0, <2>1
  <2>3. \E value : inHand' = [inHand EXCEPT ![d] = value]
    <3>1. UNCHANGED inHand => inHand' = [inHand EXCEPT ![d] = inHand[d]]
      BY <1>0
    <3>2. QED
      BY <1>2, <3>1
         DEF RunTask, RunTaskWithPayment, PaymentOk, TakeId, PaymentFails,
             AfterFailedPayment, RequestFails, AfterFailedRequest, RecordTask,
             ClientRestart
  <2>4. QED
    BY <1>0, <2>2, <2>3
<1>3. ASSUME NEW d \in Clients, d # c, RequestOk(d)
      PROVE  step[c] = "recording" /\ inHand'[c] = inHand[c]
  BY <1>0, <1>3 DEF RequestOk
<1>4. ASSUME NEW d \in Clients, NEW id \in DOMAIN ledger[d],
             PollTask(d, id) \/ CancelTask(d, id)
      PROVE  UNCHANGED <<step, inHand>>
  BY <1>4 DEF PollTask, CancelTask, client
<1>5. CASE UNCHANGED vars \/ UpdatesLost \/ Serve \/ Serving \/ InboxLost \/ ProviderRestart
  <2>1. UNCHANGED client
    BY <1>5 DEF vars, UpdatesLost, Serve, Serving, InboxLost, ProviderRestart,
                RefundOk, RefundFails, UpdateOk, UpdateFails, Invoke, FinishServing
  <2>2. QED
    BY <1>1, <2>1 DEF client
<1>6. QED
  BY <1>1, <1>2, <1>3, <1>4, <1>5 DEF Next, Asking, Running

LEMMA PublishAsks ==
    ASSUME Typed, NEW c \in Clients, RequestOk(c)
    PROVE  Asked(c, inHand[c])'
<1>1. PublishRequest(c) /\ inHand' = inHand /\ requests \in Seq(Request)
  BY DEF RequestOk, Typed, HistoryOK
<1> DEFINE n == Len(requests) + 1
<1>2. n \in DOMAIN requests' /\ requests'[n].from = c /\ requests'[n].id = inHand[c]
  BY <1>1 DEF PublishRequest
<1>3. QED
  BY <1>1, <1>2 DEF Asked, RequestsOf

LEMMA StepOnlyAsked == Typed /\ Tracked /\ OnlyAsked /\ [Next]_vars => OnlyAsked'
<1> SUFFICES ASSUME Typed, Tracked, OnlyAsked, [Next]_vars, NEW c \in Clients
             PROVE  TracksAsked(c)'
  BY DEF OnlyAsked
<1>1. TracksAsked(c) /\ Tracks(c)
  BY DEF OnlyAsked, Tracked
<1>2. ASSUME NEW id \in DOMAIN ledger'[c]
      PROVE  Asked(c, id)'
  <2>1. \/ id \in DOMAIN ledger[c]
        \/ step[c] = "recording" /\ id = inHand[c]
    <3>1. ASSUME NEW i, NEW state, Writes(c, i, state)
          PROVE  id \in DOMAIN ledger[c] \cup {i}
      BY <3>1 DEF Writes, Put
    <3>2. CASE Rests(c) \/ Takes(c)
      BY <3>2 DEF Rests, Takes
    <3>3. CASE Restarts(c)
      BY <1>1, <3>3 DEF Restarts, Tracks
    <3>4. CASE Records(c)
      BY <3>1, <3>4 DEF Records
    <3>5. CASE Polls(c)
      BY <3>1, <3>5 DEF Polls
    <3>6. QED
      BY <3>2, <3>3, <3>4, <3>5, ClientSteps
  <2>2. Asked(c, id)
    BY <1>1, <2>1 DEF TracksAsked
  <2>3. QED
    BY <2>2, AskedStable
<1>3. ASSUME step'[c] = "recording"
      PROVE  Asked(c, inHand[c])'
  <2>1. CASE step[c] = "recording" /\ inHand'[c] = inHand[c]
    <3>1. PICK id : id = inHand[c]
      OBVIOUS
    <3>2. Asked(c, id)'
      BY <1>1, <2>1, <3>1, AskedStable DEF TracksAsked
    <3>3. QED
      BY <2>1, <3>1, <3>2 DEF Asked
  <2>2. QED
    BY <1>3, <2>1, RecordingSteps, PublishAsks
<1>4. QED
  BY <1>2, <1>3 DEF TracksAsked, Asked

(* Everything the refinement rests on, as one invariant. *)
Kept == Typed /\ Tracked /\ PaidAhead /\ Batch /\ OnceEach /\ Truthful /\ OnlyAsked

LEMMA InitKept == Init => Kept
BY InitTyped, InitTracked, InitPaidAhead, InitBatch, InitOnceEach, InitTruthful,
   InitOnlyAsked DEF Kept

LEMMA StepKept == Kept /\ [Next]_vars => Kept'
BY StepTyped, StepTracked, StepPaidAhead, StepBatch, StepOnceEach, StepTruthful,
   StepOnlyAsked DEF Kept

LEMMA InitPromise == Init => Promise!Init
BY DEF Init, Promise!Init, Empty

(* FiniteSets as TaskPromise extends it is FiniteSets. *)
LEMMA PromiseCardinality ==
    ASSUME NEW S
    PROVE  Promise!Cardinality(S) = Cardinality(S)
BY DEF Promise!Cardinality, Cardinality

LEMMA PromisePay ==
    ASSUME NEW c \in Clients, Pay(c),
           UNCHANGED <<backend, disk, requests, settled>>
    PROVE  Promise!Next
BY DEF Pay, settled, Promise!Next, Promise!Pay

LEMMA PromiseAsk ==
    ASSUME Kept, NEW c \in Clients, step[c] = "requesting", PublishRequest(c),
           UNCHANGED <<backend, disk, paid, settled>>
    PROVE  Promise!Next
<1>1. PICK r \in Request : r.from = c /\ requests' = Append(requests, r)
  BY PublishAppends DEF Kept
<1>2. /\ Len(requests') = Len(requests) + 1
      /\ requests'[Len(requests')] = r
  BY <1>1 DEF Kept, Typed, HistoryOK
<1>3. Cardinality(Promise!AskedBy(c)) < paid[c]
  <2>1. /\ Cardinality(RequestsOf(c)) \in Nat /\ paid[c] \in Nat
        /\ Cardinality(RequestsOf(c)) + 1 <= paid[c]
    BY FS_CardinalityType DEF Kept, PaidAhead, Owed, Typed, HistoryOK
  <2>2. Promise!AskedBy(c) = RequestsOf(c)
    BY DEF Promise!AskedBy, RequestsOf
  <2>3. QED
    BY <2>1, <2>2
<1>4. Promise!Ask
  <2> DEFINE task == requests'[Len(requests')]
  <2>1. task = r /\ task.from = c
    BY <1>1, <1>2
  <2>2. Promise!Cardinality(Promise!AskedBy(task.from)) < paid[task.from]
    BY <1>3, <2>1, PromiseCardinality
  <2>3. UNCHANGED <<paid, invoked, refunded, repeated, disk>>
    BY DEF settled
  <2>4. requests' = Append(requests, task) /\ task.from \in Clients
    BY <1>1, <2>1
  <2>5. QED
    BY <1>2, <2>2, <2>3, <2>4 DEF Promise!Ask
<1>5. QED
  BY <1>4 DEF Promise!Next

(* The provider settles the first request of its batch before its outcome:   *)
(* where messages do not come again, it was not settled before.              *)
LEMMA PromiseSettle ==
    ASSUME Kept, NEW r \in todo, phase \in {"next", "working"}, Settles(r),
           \/ invoked' = invoked \cup {r.no} /\ UNCHANGED refunded
           \/ refunded' = refunded \cup {r.no} /\ UNCHANGED invoked,
           UNCHANGED <<backend, disk, paid, requests>>
    PROVE  Promise!Next
<1>1. r.no \in DOMAIN requests
  BY DEF Kept, Batch, Numbered, Known
<1>2. r.no \in Promise!Settled => backend = "cumulative"
  <2>1. backend \in {"cumulative", "evicting"}
    BY ConstantsAssumption DEF Kept, Typed, TopicsOK, ConstantsAssumption
  <2>2. ~ (backend = "evicting" /\ Settled(r))
    BY DEF Kept, OnceEach, Fresh, Terminal, Outcomes
  <2>3. QED
    BY <2>1, <2>2 DEF Promise!Settled, Settled
<1>3. repeated' = repeated \cup ({r.no} \cap Promise!Settled)
  BY DEF Settles, Promise!Settled
<1>4. Promise!Settle
  BY <1>1, <1>2, <1>3 DEF Promise!Settle
<1>5. QED
  BY <1>4 DEF Promise!Next

(* A write of the file: what it holds after is what the ledger then holds.   *)
LEMMA PromiseKeep ==
    ASSUME Kept, [Next]_vars, NEW c \in Clients, Persist(c),
           UNCHANGED <<backend, history>>
    PROVE  [Promise!Next]_(Promise!tasks)
<1>0. Typed /\ Kept' /\ disk = [d \in Clients |-> disk[d]]
  BY StepKept DEF Kept, Typed, FilesOK
<1>1. UNCHANGED <<paid, requests, invoked, refunded, repeated>>
  BY DEF history, settled
<1>2. CASE UNCHANGED disk
  BY <1>1, <1>2 DEF Promise!tasks
<1>3. CASE disk' = [disk EXCEPT ![c] = [nextTask |-> nextTask'[c], ledger |-> ledger'[c]]]
  <2>1. disk'[c].ledger = ledger'[c] /\ \A d \in Clients : d # c => disk'[d] = disk[d]
    BY <1>0, <1>3
  <2> DEFINE book == [d \in Clients |-> disk[d].ledger]
             book2 == [d \in Clients |-> disk'[d].ledger]
  <2>2. book2 = [book EXCEPT ![c] = book2[c]]
    BY <2>1
  <2>3. DOMAIN book[c] \subseteq DOMAIN book2[c]
    BY FileGrows DEF Kept
  <2>4. ASSUME NEW id \in DOMAIN book2[c]
        PROVE  /\ \E n \in Promise!AskedBy(c) : requests[n].id = id
               /\ Promise!Knows(id, book2[c][id])
    <3>1. Asked(c, id)'
      BY <1>0, <2>1 DEF Kept, OnlyAsked, TracksAsked
    <3>2. \E n \in Promise!AskedBy(c) : requests[n].id = id
      BY <1>1, <3>1 DEF Asked, RequestsOf, Promise!AskedBy
    <3>3. Backed(book2[c][id], id, requests, invoked, refunded)
      BY <1>0, <1>1, <2>1 DEF Kept, Truthful, AllBacked
    <3>4. Promise!Knows(id, book2[c][id])
      <4> HIDE DEF book2
      <4>1. QED
        BY <3>3 DEF Backed, Terminal, Outcomes, Promise!Knows
    <3>5. QED
      BY <3>2, <3>4
  <2>5. Promise!Keep
    <3> HIDE DEF book, book2
    <3>1. /\ book2 = [book EXCEPT ![c] = book2[c]]
          /\ DOMAIN book[c] \subseteq DOMAIN book2[c]
          /\ \A id \in DOMAIN book2[c] : /\ \E n \in Promise!AskedBy(c) : requests[n].id = id
                                         /\ Promise!Knows(id, book2[c][id])
      BY <2>2, <2>3, <2>4
    <3>2. QED
      BY <1>1, <3>1 DEF Promise!Keep, book, book2
  <2>6. QED
    BY <2>5 DEF Promise!Next
<1>4. QED
  BY <1>2, <1>3 DEF Persist

LEMMA PromiseRests ==
    ASSUME UNCHANGED <<backend, disk, history>>
    PROVE  UNCHANGED Promise!tasks
BY DEF history, settled, Promise!tasks

(* Every step of a client or the provider is a step of the promise, or       *)
(* changes nothing of it.                                                    *)
LEMMA StepPromise ==
    ASSUME Kept, [Next]_vars
    PROVE  [Promise!Next]_(Promise!tasks)
<1>1. ASSUME NEW c \in Clients, RunTaskWithPayment(c) \/ PaymentOk(c)
      PROVE  Promise!Next
  BY <1>1, PromisePay DEF RunTaskWithPayment, Start, PaymentOk
<1>2. ASSUME NEW c \in Clients, PaymentFails(c) \/ ClientRestart(c)
      PROVE  [Promise!Next]_(Promise!tasks)
  <2>1. UNCHANGED <<backend, disk, requests, settled>> /\ (UNCHANGED paid \/ Pay(c))
    BY <1>2 DEF PaymentFails, ClientRestart
  <2>2. CASE Pay(c)
    BY <2>1, <2>2, PromisePay
  <2>3. CASE UNCHANGED paid
    BY <2>1, <2>3, PromiseRests DEF history
  <2>4. QED
    BY <2>1, <2>2, <2>3
<1>3. ASSUME NEW c \in Clients, RequestOk(c) \/ RequestFails(c)
      PROVE  [Promise!Next]_(Promise!tasks)
  <2>1. /\ step[c] = "requesting" /\ UNCHANGED <<backend, disk, paid, settled>>
        /\ UNCHANGED requests \/ PublishRequest(c)
    BY <1>3 DEF RequestOk, RequestFails
  <2>2. CASE PublishRequest(c)
    BY <2>1, <2>2, PromiseAsk
  <2>3. CASE UNCHANGED requests
    BY <2>1, <2>3, PromiseRests DEF history
  <2>4. QED
    BY <2>1, <2>2, <2>3
<1>4. ASSUME NEW c \in Clients,
             RecordTask(c) \/ \E id \in DOMAIN ledger[c] : PollTask(c, id)
      PROVE  [Promise!Next]_(Promise!tasks)
  BY <1>4, PromiseKeep DEF RecordTask, PollTask
<1>5. ASSUME NEW r \in todo, \/ RefundOk(r) \/ RefundFails(r)
                             \/ \E outcome \in Outcomes : Invoke(r, outcome)
      PROVE  [Promise!Next]_(Promise!tasks)
  <2>1. UNCHANGED <<backend, disk, paid, requests>> /\ phase \in {"next", "working"}
    BY <1>5 DEF RefundOk, RefundFails, Invoke, client
  <2>2. CASE GiveBack(r) /\ UNCHANGED invoked
    BY <2>1, <2>2, PromiseSettle DEF GiveBack
  <2>3. CASE invoked' = invoked \cup {r.no} /\ Settles(r) /\ UNCHANGED refunded
    BY <2>1, <2>3, PromiseSettle
  <2>4. CASE UNCHANGED settled
    BY <2>1, <2>4, PromiseRests DEF history
  <2>5. QED
    BY <1>5, <2>2, <2>3, <2>4 DEF RefundOk, RefundFails, Invoke, settled
<1>6. ASSUME NEW c \in Clients, RunTask(c) \/ \E id \in DOMAIN ledger[c] : CancelTask(c, id)
      PROVE  UNCHANGED <<backend, disk, history>>
  BY <1>6 DEF RunTask, Start, CancelTask, client, history
<1>7. ASSUME NEW r \in todo, NEW state, UpdateOk(r, state) \/ UpdateFails(r, state)
      PROVE  UNCHANGED <<backend, disk, history>>
  BY <1>7 DEF UpdateOk, UpdateFails, client
<1>8. CASE UNCHANGED vars \/ UpdatesLost \/ Serve \/ InboxLost \/ ProviderRestart
           \/ FinishServing
  BY <1>8, PromiseRests
     DEF vars, UpdatesLost, Serve, InboxLost, ProviderRestart, FinishServing, client
<1>9. QED
  BY <1>1, <1>2, <1>3, <1>4, <1>5, <1>6, <1>7, <1>8, PromiseRests
     DEF Next, Asking, Running, Serving

(* Clients and provider, with their topics, batches, files and failures,     *)
(* implement the promise: no task is asked for before it is paid, none is    *)
(* settled twice unless it came twice, and a client's file holds only tasks  *)
(* it asked for, all it ever held, each as it went (src/a2a.rs:515-642).     *)
THEOREM KeepsTaskPromise == Spec => TaskPromiseKept
<1>1. QED
  BY InitKept, StepKept, InitPromise, StepPromise, PTL
     DEF Spec, TaskPromiseKept, Promise!Spec
=============================================================================
