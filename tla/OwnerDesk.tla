----------------------------- MODULE OwnerDesk -----------------------------
(***************************************************************************)
(* The owner's app (src/app/src/agent_owner_plugin.cpp, over the owner     *)
(* channel of src/ffi.rs) at work with the agent's runtime: module         *)
(* OwnerApproval, whose owner decides any request it ever saw, composed    *)
(* with the app, whose owner decides what is on the screen.                *)
(*                                                                         *)
(* The app reads the agent -> owner topic when the owner polls, merges what *)
(* it read into two lists, the requests by id and the spends by content,   *)
(* and takes a request off the list once it was decided.  Both lists are   *)
(* gone when the app is closed.  The app is single-threaded and blocks on  *)
(* the channel: its handlers do not interleave with each other, the agent  *)
(* goes on meanwhile.                                                      *)
(***************************************************************************)
EXTENDS OwnerApproval

CONSTANTS
    DeskFaults,   \* the kinds of fault the app may meet
    MaxDeskFaults \* bound: how many of them happen

DeskFaultKinds == {"decision_lost", "read_lost", "app_closed"}

ASSUME DeskAssumption ==
    /\ DeskFaults \subseteq DeskFaultKinds
    /\ MaxDeskFaults \in Nat

VARIABLES
    open,        \* whether the owner channel is open
    requests,    \* requestsJson: the requests on the screen
    spentShown,  \* spentJson: the spends on the screen
    read,        \* how much of toOwner the node has served to the app
    deskBudget,  \* what is left of the bound
    broken       \* history: something was lost for good (see Breaks)

screen   == <<requests, spentShown>>
desk     == <<open, screen, read, deskBudget>>
deskVars == <<vars, desk, broken>>

-----------------------------------------------------------------------------
DeskFault(kind) ==
    /\ kind \in DeskFaults
    /\ deskBudget > 0
    /\ deskBudget' = deskBudget - 1

AgentIdle == UNCHANGED vars

(* What a read of the topic returns, the app's node having subscribed to it *)
(* from the start.                                                          *)
Incoming == IF Backend = "evicting" THEN SubSeq(toOwner, read + 1, Len(toOwner))
                                    ELSE toOwner

IsRequest_Any(m) == TRUE

(* A spent notice is not a request; it has no id. *)
IsRequest(m) == m.kind = "request"

IdOf(m) == IF m.kind = "request" THEN m.id ELSE NoId

FirstOfItsId(messages, i) ==
    /\ IsRequest(messages[i])
    /\ \A k \in 1 .. i - 1 :
          IsRequest(messages[k]) => IdOf(messages[k]) # IdOf(messages[i])

(* The first request of an id stays: the ones on the screen, then the ones *)
(* of this read in their order.                                            *)
NewRequests(messages) ==
    {[id |-> IdOf(messages[i]), amount |-> messages[i].amount] :
        i \in {j \in DOMAIN messages :
                  /\ FirstOfItsId(messages, j)
                  /\ \A s \in requests : s.id # IdOf(messages[j])}}

Merged_Replaced(messages) == NewRequests(messages)

Merged(messages) == requests \cup NewRequests(messages)

MergedSpent(messages) ==
    spentShown \cup {m.amount : m \in {n \in Range(messages) : n.kind = "spent"}}

OffScreen(id) == requests' = {s \in requests : s.id # id}

-----------------------------------------------------------------------------
DeskInit ==
    /\ Init
    /\ open = FALSE
    /\ requests = {} /\ spentShown = {}
    /\ read = 0
    /\ deskBudget = MaxDeskFaults
    /\ broken = FALSE

(* ensureOwnerChannel: the environment names the agent and the owner. *)
AppOpens ==
    /\ ~ open
    /\ open' = TRUE
    /\ UNCHANGED <<screen, read, deskBudget, broken>>
    /\ AgentIdle

(* pollRequests. *)
AppPolls ==
    /\ open
    /\ requests' = Merged(Incoming)
    /\ spentShown' = MergedSpent(Incoming)
    /\ read' = Len(toOwner)
    /\ UNCHANGED <<open, deskBudget, broken>>
    /\ AgentIdle

(* An error keeps the lists; the node may have evicted what it served. *)
AppPollFails ==
    /\ open
    /\ DeskFault("read_lost")
    /\ read' = Len(toOwner)
    /\ broken' = TRUE
    /\ UNCHANGED <<open, screen>>
    /\ AgentIdle

(* decide: the request leaves the screen whatever became of the publish.   *)
(* Publishing is the Decide of OwnerApproval, of the request on the screen. *)
AppDecides(s, verdict) ==
    /\ open
    /\ Decide(Request(s), verdict)
    /\ OffScreen(s.id)
    /\ UNCHANGED <<open, spentShown, read, deskBudget, broken>>

AppDecideFails(s) ==
    /\ open
    /\ DeskFault("decision_lost")
    /\ OffScreen(s.id)
    /\ broken' = TRUE
    /\ UNCHANGED <<open, spentShown, read>>
    /\ AgentIdle

(* configureLimit and configurePeriod. *)
AppConfigures(key, value) ==
    /\ open
    /\ ConfigurePolicy(key, value)
    /\ UNCHANGED <<desk, broken>>

AppCloses ==
    /\ DeskFault("app_closed")
    /\ open' = FALSE
    /\ requests' = {} /\ spentShown' = {}
    /\ broken' = TRUE
    /\ UNCHANGED read
    /\ AgentIdle

App ==
    \/ AppOpens \/ AppPolls \/ AppPollFails \/ AppCloses
    \/ \E s \in requests :
          AppDecideFails(s) \/ \E verdict \in {"approve", "deny"} : AppDecides(s, verdict)
    \/ \E key \in PolicyKeys, value \in Limits : AppConfigures(key, value)

(* A decision is lost with a read of the agent, with the rest of a batch a *)
(* failed transfer drops, or with the memory of a process that dies.       *)
Breaks == PollLost \/ TransferFails \/ Restart

AgentActs ==
    /\ Proposing \/ Finishing \/ Poll \/ PollLost \/ Restart
    /\ broken' = (broken \/ Breaks)
    /\ UNCHANGED desk

DeskNext == AgentActs \/ App

DeskSpec == DeskInit /\ [][DeskNext]_deskVars

-----------------------------------------------------------------------------
(* Properties. *)

(* The lists have their types, one request per id, and show nothing the     *)
(* agent did not publish (agent_owner_plugin.cpp:110).                       *)
DeskOK ==
    /\ open \in BOOLEAN
    /\ requests \subseteq Held
    /\ \A s, t \in requests : s.id = t.id => s = t
    /\ \A s \in requests : Announced(s)
    /\ spentShown \subseteq {toOwner[i].amount : i \in DOMAIN toOwner}
    /\ read \in 0 .. Len(toOwner)
    /\ deskBudget \in Nat
    /\ broken \in BOOLEAN

(* The agent at work with the app behaves as module OwnerApproval says, so   *)
(* all that is shown of that module holds of the composition.                *)
OwnerActsByApp == Spec

OnItsWay(id) ==
    \/ \E m \in Range(toAgent) \cup Range(batch) : m.kind \in {"approve", "deny"} /\ m.id = id

Unread(id) == \E i \in read + 1 .. Len(toOwner) :
                 toOwner[i].kind = "request" /\ toOwner[i].id = id

(* Until something is lost for good, a held spend can still be settled: its *)
(* request is on the screen or about to be read, or a decision about it is  *)
(* on its way.  Deciding takes a request off the screen, and a re-poll of an *)
(* evicting backend does not bring it back (agent_owner_plugin.cpp:174).     *)
HeldIsDecidable ==
    ~ broken => \A s \in pending :
        (\E t \in requests : t.id = s.id) \/ Unread(s.id) \/ OnItsWay(s.id)
=============================================================================
