----------------------------- MODULE TaskPromise -----------------------------
(***************************************************************************)
(* What paid tasks promise, with no topics, no batches, no memory and no   *)
(* crashes: clients pay, ask for what they have paid for, and keep a book  *)
(* of it; the provider runs a skill for a task or gives the money back.    *)
(* Tasks are numbered in the order they were asked for.                    *)
(***************************************************************************)
EXTENDS Integers, Sequences, FiniteSets

CONSTANT Clients

VARIABLES
    retains,   \* whether tasks come to the provider again; it never changes
    paid,      \* how often each client has paid
    asked,     \* the tasks asked for: who asked, under which id
    ran,       \* tasks a skill ran for
    returned,  \* tasks whose payment went back
    again,     \* tasks that were settled once more
    book       \* what each client's book, which survives it, says of its ids

tasks == <<retains, paid, asked, ran, returned, again, book>>

Settled == ran \cup returned

AskedBy(c) == {n \in DOMAIN asked : asked[n].from = c}

(* What a book may say of an id: canceled if a task of this id was given    *)
(* back, completed or failed if a skill ran for one.  The clients count     *)
(* their ids apart, so tasks of two clients may bear one id.                *)
Knows(id, state) ==
    LET Witnesses == {n \in DOMAIN asked : asked[n].id = id} IN
    /\ state = "canceled" => Witnesses \cap returned # {}
    /\ state \in {"completed", "failed"} => Witnesses \cap ran # {}

Init ==
    /\ retains \in BOOLEAN
    /\ paid = [c \in Clients |-> 0] /\ asked = <<>>
    /\ ran = {} /\ returned = {} /\ again = {}
    /\ book = [c \in Clients |-> [id \in {} |-> "submitted"]]

Pay ==
    /\ \E c \in Clients : paid' = [paid EXCEPT ![c] = @ + 1]
    /\ UNCHANGED <<asked, ran, returned, again, book>>

(* One task is asked for, by a client that has paid more often than asked. *)
Ask ==
    /\ Len(asked') = Len(asked) + 1
    /\ LET task == asked'[Len(asked')] IN
         /\ asked' = Append(asked, task)
         /\ task.from \in Clients
         /\ Cardinality(AskedBy(task.from)) < paid[task.from]
    /\ UNCHANGED <<paid, ran, returned, again, book>>

(* A task is settled once, and once more only if it came again. *)
Settle ==
    /\ \E n \in DOMAIN asked :
          /\ n \in Settled => retains
          /\ \/ ran' = ran \cup {n} /\ UNCHANGED returned
             \/ returned' = returned \cup {n} /\ UNCHANGED ran
          /\ again' = again \cup ({n} \cap Settled)
    /\ UNCHANGED <<paid, asked, book>>

(* A client's book holds tasks it asked for, loses none, and says of each    *)
(* what happened.                                                           *)
Keep ==
    /\ \E c \in Clients :
          /\ book' = [book EXCEPT ![c] = book'[c]]
          /\ DOMAIN book[c] \subseteq DOMAIN book'[c]
          /\ \A id \in DOMAIN book'[c] : /\ \E n \in AskedBy(c) : asked[n].id = id
                                         /\ Knows(id, book'[c][id])
    /\ UNCHANGED <<paid, asked, ran, returned, again>>

Next == UNCHANGED retains /\ (Pay \/ Ask \/ Settle \/ Keep)

Spec == Init /\ [][Next]_tasks
=============================================================================
