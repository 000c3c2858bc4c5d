------------------------------ MODULE A2ATasks ------------------------------
(***************************************************************************)
(* Paid tasks between agents (src/a2a.rs): clients that pay, request, poll *)
(* and cancel, and one provider that serves its inbox.                     *)
(*                                                                         *)
(* Requests and cancels go to the provider's inbox topic, updates to its   *)
(* updates topic.  Both are topics of one messaging backend, which either  *)
(* returns a topic whole at every poll (InMemoryMessaging) or evicts what  *)
(* it served (nwaku).  A client is used by one caller at a time, and so is *)
(* the provider; between two of their awaits the others run, a call to the *)
(* wallet or to the backend may fail, and a process may die.               *)
(*                                                                         *)
(* A task id is the number in "task-<n>".  Of the updates topic only what  *)
(* poll_task makes of it is kept: the newest update of each id.  Tasks cost *)
(* something; the verdict of the client's own policy is any (a refused     *)
(* price leaves run_task before it has changed anything).                  *)
(***************************************************************************)
EXTENDS Integers, Sequences, FiniteSets

CONSTANTS
    Clients,     \* the clients of the provider
    Backends,    \* the backends the system may run on
    Faults,      \* the kinds of fault that may happen
    MaxFaults,   \* bound: how many faults happen
    MaxTasks,    \* bound: how many tasks are started
    MaxCancels,  \* bound: how many cancels are published
    NoTask       \* no task in hand

FaultKinds == {"publish_lost", "publish_ambiguous", "poll_lost", "send_error",
               "send_ambiguous", "persist_error", "client_crash", "provider_crash"}

ASSUME ConstantsAssumption ==
    /\ Backends \subseteq {"cumulative", "evicting"}
    /\ Faults \subseteq FaultKinds
    /\ MaxFaults \in Nat /\ MaxTasks \in Nat /\ MaxCancels \in Nat
    /\ NoTask \notin Nat

VARIABLES
    backend,    \* the backend of this behaviour; it never changes
    step,       \* the await each client is suspended at
    inHand,     \* the task id each client's current run_task has taken
    nextTask,   \* A2aClient::next_task
    ledger,     \* A2aClient::tasks: the last known state of each tracked task
    disk,       \* each client's state file: nextTask and ledger last written
    inbox,      \* what the inbox topic still returns to a poll
    updates,    \* the newest unread update of each id on the updates topic
    phase,      \* how far the provider is with the first request of todo
    todo,       \* requests of the current serve_pending not served yet
    cancelled,  \* ids cancelled in the inbox the current serve_pending read
    budget,     \* what is left of the three bounds
    paid,       \* history: payments of each client that reached the chain
    requests,   \* history: every request published
    invoked,    \* history: requests a skill ran for
    refunded,   \* history: requests whose payment went back
    repeated    \* history: requests a skill ran for, or that were refunded, again

client   == <<step, inHand, nextTask, ledger, disk>>
provider == <<phase, todo, cancelled>>
settled  == <<invoked, refunded, repeated>>
history  == <<paid, requests, settled>>
vars == <<backend, client, inbox, updates, provider, budget, history>>

-----------------------------------------------------------------------------
TaskStates == {"submitted", "working", "completed", "failed", "canceled"}
Outcomes   == {"completed", "failed"}
Terminal   == Outcomes \cup {"canceled"}

(* no numbers the requests published; nothing in the code reads it. *)
Request == [kind : {"task_request"}, id : Nat, from : Clients, no : Nat]
Cancel  == [kind : {"task_cancel"}, id : Nat]

Put(f, key, value) == [k \in DOMAIN f \cup {key} |-> IF k = key THEN value ELSE f[k]]
Empty == [k \in {} |-> "submitted"]

Fault(kind) ==
    /\ kind \in Faults
    /\ budget.faults > 0
    /\ budget' = [budget EXCEPT !.faults = @ - 1]

NoFault == UNCHANGED budget

AfterRead_Kept(topic, none) == topic

AfterRead_Evicted(topic, none) == none

AfterRead(topic, none) == IF backend = "evicting" THEN none ELSE topic

-----------------------------------------------------------------------------
Init ==
    /\ backend \in Backends
    /\ step = [c \in Clients |-> "idle"] /\ inHand = [c \in Clients |-> NoTask]
    /\ nextTask = [c \in Clients |-> 0] /\ ledger = [c \in Clients |-> Empty]
    /\ disk = [c \in Clients |-> [nextTask |-> 0, ledger |-> Empty]]
    /\ inbox = {} /\ updates = Empty
    /\ phase = "idle" /\ todo = {} /\ cancelled = {}
    /\ budget = [faults |-> MaxFaults, tasks |-> MaxTasks, cancels |-> MaxCancels]
    /\ paid = [c \in Clients |-> 0] /\ requests = <<>>
    /\ invoked = {} /\ refunded = {} /\ repeated = {}

-----------------------------------------------------------------------------
(* A client. *)

Persist_ForgetsCounter(c) ==
    NoFault /\ disk' = [disk EXCEPT ![c].ledger = ledger'[c]]

(* The file is rewritten whole; a failed write leaves the old one. *)
Persist(c) ==
    \/ NoFault /\ disk' = [disk EXCEPT ![c] = [nextTask |-> nextTask'[c],
                                               ledger |-> ledger'[c]]]
    \/ Fault("persist_error") /\ UNCHANGED disk

Start(c, await) ==
    /\ step[c] = "idle"
    /\ budget.tasks > 0
    /\ budget' = [budget EXCEPT !.tasks = @ - 1]
    /\ step' = [step EXCEPT ![c] = await]
    /\ UNCHANGED <<backend, ledger, disk, inbox, updates, provider, requests,
                   settled>>

Pay(c) == paid' = [paid EXCEPT ![c] = @ + 1]

TakeId(c) ==
    /\ inHand' = [inHand EXCEPT ![c] = nextTask[c]]
    /\ nextTask' = [nextTask EXCEPT ![c] = @ + 1]

(* run_task, its price within the client's policy: the payment comes first. *)
RunTask(c) ==
    /\ Start(c, "paying")
    /\ UNCHANGED <<inHand, nextTask, paid>>

(* run_task_with_payment: an external wallet has settled the payment. *)
RunTaskWithPayment(c) == Start(c, "requesting") /\ Pay(c) /\ TakeId(c)

PaymentOk(c) ==
    /\ step[c] = "paying"
    /\ step' = [step EXCEPT ![c] = "requesting"]
    /\ Pay(c) /\ TakeId(c)
    /\ UNCHANGED <<backend, ledger, disk, inbox, updates, provider, budget,
                   requests, settled>>

AfterFailedPayment_Requests(c) ==
    step' = [step EXCEPT ![c] = "requesting"] /\ TakeId(c)

AfterFailedPayment(c) ==
    step' = [step EXCEPT ![c] = "idle"] /\ UNCHANGED <<inHand, nextTask>>

PaymentFails(c) ==
    /\ step[c] = "paying"
    /\ \/ Fault("send_error") /\ UNCHANGED paid
       \/ Fault("send_ambiguous") /\ Pay(c)
    /\ AfterFailedPayment(c)
    /\ UNCHANGED <<backend, ledger, disk, inbox, updates, provider, requests,
                   settled>>

PublishRequest(c) ==
    LET request == [kind |-> "task_request", id |-> inHand[c], from |-> c,
                    no |-> Len(requests) + 1]
    IN inbox' = inbox \cup {request} /\ requests' = Append(requests, request)

RequestOk(c) ==
    /\ step[c] = "requesting"
    /\ step' = [step EXCEPT ![c] = "recording"]
    /\ PublishRequest(c)
    /\ UNCHANGED <<backend, inHand, nextTask, ledger, disk, updates, provider,
                   budget, paid, settled>>

AfterFailedRequest_Records(c) ==
    step' = [step EXCEPT ![c] = "recording"] /\ UNCHANGED inHand

(* The error leaves run_task with the payment made and the id taken. *)
AfterFailedRequest(c) ==
    step' = [step EXCEPT ![c] = "idle"] /\ inHand' = [inHand EXCEPT ![c] = NoTask]

RequestFails(c) ==
    /\ step[c] = "requesting"
    /\ \/ Fault("publish_lost") /\ UNCHANGED <<inbox, requests>>
       \/ Fault("publish_ambiguous") /\ PublishRequest(c)
    /\ AfterFailedRequest(c)
    /\ UNCHANGED <<backend, nextTask, ledger, disk, updates, provider, paid,
                   settled>>

RecordTask(c) ==
    /\ step[c] = "recording"
    /\ ledger' = [ledger EXCEPT ![c] = Put(@, inHand[c], "submitted")]
    /\ UNCHANGED nextTask
    /\ Persist(c)
    /\ step' = [step EXCEPT ![c] = "idle"]
    /\ inHand' = [inHand EXCEPT ![c] = NoTask]
    /\ UNCHANGED <<backend, inbox, updates, provider, history>>

(* poll_task starts from the copy its caller holds: the one run_task        *)
(* returned or the one in the ledger.  Without an update of this id the copy *)
(* is written back; the updates of other ids are read with it.               *)
PollTask(c, id) ==
    /\ step[c] = "idle"
    /\ id \in DOMAIN ledger[c]
    /\ \E copy \in {"submitted", ledger[c][id]} :
          ledger' = [ledger EXCEPT ![c] =
                        Put(@, id, IF id \in DOMAIN updates THEN updates[id] ELSE copy)]
    /\ UNCHANGED nextTask
    /\ Persist(c)
    /\ updates' = AfterRead(updates, Empty)
    /\ UNCHANGED <<backend, step, inHand, inbox, provider, history>>

CancelTask(c, id) ==
    /\ step[c] = "idle"
    /\ id \in DOMAIN ledger[c]
    /\ budget.cancels > 0
    /\ budget' = [budget EXCEPT !.cancels = @ - 1]
    /\ inbox' = inbox \cup {[kind |-> "task_cancel", id |-> id]}
    /\ UNCHANGED <<backend, client, updates, provider, history>>

(* The node served and evicted the updates, and its answer was lost. *)
UpdatesLost ==
    /\ updates # Empty
    /\ Fault("poll_lost")
    /\ updates' = AfterRead(updates, Empty)
    /\ UNCHANGED <<backend, client, inbox, provider, history>>

Restore_CounterOnly(c) ==
    /\ nextTask' = [nextTask EXCEPT ![c] = disk[c].nextTask]
    /\ ledger' = [ledger EXCEPT ![c] = Empty]

(* A2aClient::with_state. *)
Restore(c) ==
    /\ nextTask' = [nextTask EXCEPT ![c] = disk[c].nextTask]
    /\ ledger' = [ledger EXCEPT ![c] = disk[c].ledger]

(* The payment under way when the process dies may have reached the chain. *)
ClientRestart(c) ==
    /\ Fault("client_crash")
    /\ UNCHANGED paid \/ (step[c] = "paying" /\ Pay(c))
    /\ Restore(c)
    /\ step' = [step EXCEPT ![c] = "idle"]
    /\ inHand' = [inHand EXCEPT ![c] = NoTask]
    /\ UNCHANGED <<backend, disk, inbox, updates, provider, requests, settled>>

-----------------------------------------------------------------------------
(* The provider. *)

IsFirst(r) == r \in todo /\ \A q \in todo : r.no <= q.no

(* serve_pending reads its inbox and splits it. *)
Serve ==
    /\ phase = "idle"
    /\ inbox # {}
    /\ phase' = "next"
    /\ todo' = {m \in inbox : m.kind = "task_request"}
    /\ cancelled' = {m.id : m \in {n \in inbox : n.kind = "task_cancel"}}
    /\ inbox' = AfterRead(inbox, {})
    /\ UNCHANGED <<backend, client, updates, budget, history>>

InboxLost ==
    /\ phase = "idle"
    /\ inbox # {}
    /\ Fault("poll_lost")
    /\ inbox' = AfterRead(inbox, {})
    /\ UNCHANGED <<backend, client, updates, provider, history>>

(* An error, or the end of the process, drops what was not served yet. *)
Abort_KeepsBatch == phase' = "idle" /\ UNCHANGED <<todo, cancelled>>

Abort == phase' = "idle" /\ todo' = {} /\ cancelled' = {}

Settles(r) == repeated' = IF r.no \in invoked \cup refunded
                            THEN repeated \cup {r.no} ELSE repeated

GiveBack(r) == refunded' = refunded \cup {r.no} /\ Settles(r)

(* A request cancelled in the same read is refunded and not served. *)
RefundOk(r) ==
    /\ phase = "next"
    /\ IsFirst(r) /\ r.id \in cancelled
    /\ GiveBack(r)
    /\ phase' = "canceled"
    /\ UNCHANGED <<backend, client, inbox, updates, todo, cancelled, budget,
                   paid, requests, invoked>>

AfterFailedRefund_Acknowledges == phase' = "canceled" /\ UNCHANGED <<todo, cancelled>>

AfterFailedRefund == Abort

RefundFails(r) ==
    /\ phase = "next"
    /\ IsFirst(r) /\ r.id \in cancelled
    /\ \/ Fault("send_error") /\ UNCHANGED <<refunded, repeated>>
       \/ Fault("send_ambiguous") /\ GiveBack(r)
    /\ AfterFailedRefund
    /\ UNCHANGED <<backend, client, inbox, updates, paid, requests, invoked>>

(* The update due for the first request: working before its skill runs, the *)
(* outcome of the skill or of the cancellation after it.                     *)
UpdateDue(r, state) ==
    /\ IsFirst(r)
    /\ \/ phase = "next" /\ r.id \notin cancelled /\ state = "working"
       \/ phase \in Terminal /\ state = phase

PublishUpdate(r, state) == updates' = Put(updates, r.id, state)

UpdateOk(r, state) ==
    /\ UpdateDue(r, state)
    /\ PublishUpdate(r, state)
    /\ IF state = "working"
         THEN phase' = "working" /\ UNCHANGED todo
         ELSE phase' = "next" /\ todo' = todo \ {r}
    /\ UNCHANGED <<backend, client, inbox, cancelled, budget, history>>

UpdateFails(r, state) ==
    /\ UpdateDue(r, state)
    /\ \/ Fault("publish_lost") /\ UNCHANGED updates
       \/ Fault("publish_ambiguous") /\ PublishUpdate(r, state)
    /\ Abort
    /\ UNCHANGED <<backend, client, inbox, history>>

(* dispatch: the skill's result, or its error, decides the outcome. *)
Invoke(r, outcome) ==
    /\ phase = "working"
    /\ IsFirst(r)
    /\ phase' = outcome
    /\ invoked' = invoked \cup {r.no} /\ Settles(r)
    /\ UNCHANGED <<backend, client, inbox, updates, todo, cancelled, budget,
                   paid, requests, refunded>>

FinishServing ==
    /\ phase = "next"
    /\ todo = {}
    /\ Abort
    /\ UNCHANGED <<backend, client, inbox, updates, budget, history>>

(* The provider keeps nothing: a restart is a fresh start. *)
ProviderRestart ==
    /\ phase # "idle"
    /\ Fault("provider_crash")
    /\ Abort
    /\ UNCHANGED <<backend, client, inbox, updates, history>>

-----------------------------------------------------------------------------
Running(c) == PaymentOk(c) \/ PaymentFails(c) \/ RequestOk(c) \/ RequestFails(c)
                  \/ RecordTask(c)

Serving == \/ \E r \in todo :
                \/ RefundOk(r) \/ RefundFails(r)
                \/ \E state \in TaskStates : UpdateOk(r, state) \/ UpdateFails(r, state)
                \/ \E outcome \in Outcomes : Invoke(r, outcome)
           \/ FinishServing

Asking(c) == \/ RunTask(c) \/ RunTaskWithPayment(c)
             \/ \E id \in DOMAIN ledger[c] : PollTask(c, id) \/ CancelTask(c, id)

Next == \/ \E c \in Clients : Asking(c) \/ Running(c) \/ ClientRestart(c)
        \/ UpdatesLost
        \/ Serve \/ Serving \/ InboxLost \/ ProviderRestart

Spec == Init /\ [][Next]_vars

(* The provider keeps serving its inbox and finishes what it reads.  Nothing *)
(* is assumed of the clients.                                                *)
FairSpec == Spec /\ WF_vars(Serve \/ Serving)

-----------------------------------------------------------------------------
(* Properties. *)

(* Every variable keeps its type; between two calls of serve_pending nothing *)
(* is left of a batch (src/a2a.rs:300).                                      *)
TypeOK ==
    /\ backend \in Backends
    /\ step \in [Clients -> {"idle", "paying", "requesting", "recording"}]
    /\ inHand \in [Clients -> Nat \cup {NoTask}]
    /\ \A c \in Clients : step[c] \in {"requesting", "recording"} <=> inHand[c] \in Nat
    /\ nextTask \in [Clients -> Nat]
    /\ \A c \in Clients : /\ DOMAIN ledger[c] \subseteq Nat
                          /\ DOMAIN disk[c].ledger \subseteq Nat
                          /\ disk[c].nextTask \in Nat
    /\ inbox \subseteq Request \cup Cancel
    /\ phase \in {"idle", "next", "working"} \cup Terminal
    /\ todo \subseteq Request /\ cancelled \subseteq Nat
    /\ phase = "idle" => todo = {} /\ cancelled = {}
    /\ phase \in {"working"} \cup Terminal => todo # {}
    /\ budget \in [faults : Nat, tasks : Nat, cancels : Nat]
    /\ paid \in [Clients -> Nat]
    /\ requests \in Seq(Request)
    /\ invoked \cup refunded \cup repeated \subseteq Nat

RequestsOf(c) == {i \in DOMAIN requests : requests[i].from = c}

(* Payment precedes work (docs/A2A_BINDING.md): whatever fails, a client has *)
(* paid at least as often as it has published a request.                     *)
PaidBeforeRequested == \A c \in Clients : Cardinality(RequestsOf(c)) <= paid[c]

(* The id a new task takes is not one the client tracks, restarts included: *)
(* recording it never overwrites another task.                               *)
NewTaskIsNew == \A c \in Clients : inHand[c] \notin DOMAIN ledger[c]

(* On a backend that evicts what it served, a request is served or refunded, *)
(* never both and never again, whatever fails.                               *)
ServedOrRefundedOnce == backend = "evicting" => repeated = {}

(* What the ledger says of a task whose id only one request carries is what *)
(* happened to that request: canceled means refunded, an outcome means that  *)
(* a skill ran.                                                              *)
LedgerTruthful ==
    \A c \in Clients : \A i \in RequestsOf(c) :
        LET id == requests[i].id IN
        /\ id \in DOMAIN ledger[c]
        /\ \A j \in DOMAIN requests : requests[j].id = id => j = i
        => /\ ledger[c][id] = "canceled" => i \in refunded
           /\ ledger[c][id] \in Outcomes => i \in invoked

(* A task the client's file knows stays known: no later write and no restart *)
(* drops it (src/a2a.rs:416).                                                *)
TrackedStaysTracked ==
    [][\A c \in Clients : DOMAIN disk[c].ledger \subseteq DOMAIN disk'[c].ledger]_vars

(* Clients and provider, with their topics, batches, files and failures,     *)
(* implement the promise of TaskPromise: no task is asked for before it is   *)
(* paid, none is settled twice unless it came twice, and a client's file     *)
(* holds only tasks it asked for, all it ever held, each as it went.         *)
Promise == INSTANCE TaskPromise WITH
    retains  <- backend = "cumulative",
    asked    <- requests,
    ran      <- invoked,
    returned <- refunded,
    again    <- repeated,
    book     <- [c \in Clients |-> disk[c].ledger]

TaskPromiseKept == Promise!Spec

(* On a backend that keeps its messages, errors and crashes in the middle of *)
(* serve_pending only delay a request: in the end it is served or refunded   *)
(* and its outcome is on the updates topic.                                  *)
RequestIsSettled ==
    \A i \in 1 .. MaxTasks :
        (backend = "cumulative" /\ i \in DOMAIN requests) ~>
            /\ i \in invoked \cup refunded
            /\ requests[i].id \in DOMAIN updates
            /\ updates[requests[i].id] \in Terminal

(* A restarted client never reuses a task id (src/a2a.rs:418). *)
TaskIdsNeverReused ==
    \A i, j \in DOMAIN requests :
        requests[i].from = requests[j].from /\ requests[i].id = requests[j].id => i = j
=============================================================================
