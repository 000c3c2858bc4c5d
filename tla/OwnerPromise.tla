---------------------------- MODULE OwnerPromise ----------------------------
(***************************************************************************)
(* What the owner channel promises, with no topics, no polls, no files and *)
(* no crashes: an agent asks its owner about the spends it may not make,   *)
(* keeps a book of those it still owes an answer, and pays only what the   *)
(* owner approved.  A spend is an [id, amount], a verdict an [id, verdict].*)
(***************************************************************************)

VARIABLES
    shown,     \* the spends the owner was asked about
    verdicts,  \* what the owner decided
    book,      \* the spends that survive a restart
    paid       \* the spends that reached the chain on an approval

asks == <<shown, verdicts, book, paid>>

Answered(s, verdict) == [id |-> s.id, verdict |-> verdict] \in verdicts

Settled(s) == s \in paid \/ Answered(s, "deny")

Init == shown = {} /\ verdicts = {} /\ book = {} /\ paid = {}

(* The owner is asked about more spends, and is never un-asked. *)
Ask ==
    /\ shown \subseteq shown'
    /\ UNCHANGED <<verdicts, book, paid>>

(* The owner answers what it was asked, and does not take an answer back. *)
Answer ==
    /\ verdicts \subseteq verdicts'
    /\ \A v \in verdicts' \ verdicts : \E s \in shown : s.id = v.id
    /\ UNCHANGED <<shown, book, paid>>

(* Paying takes an approval of the id of a spend the owner was asked about. *)
Pay ==
    /\ paid \subseteq paid'
    /\ \A s \in paid' \ paid : s \in shown /\ Answered(s, "approve")
    /\ UNCHANGED <<shown, verdicts, book>>

(* Only what the owner was asked about enters the book, and only what was   *)
(* paid or denied leaves it.                                                *)
Keep ==
    /\ book' \subseteq shown
    /\ \A s \in book \ book' : Settled(s)
    /\ UNCHANGED <<shown, verdicts, paid>>

Next == Ask \/ Answer \/ Pay \/ Keep

Spec == Init /\ [][Next]_asks
=============================================================================
