---------------------------- MODULE MCOwnerDesk ----------------------------
(* Small instances of OwnerDesk for TLC. *)
EXTENDS OwnerDesk

(* The command line lets nothing through, as in MCOwnerApproval. *)
ClosedPolicy == [k \in PolicyKeys |-> 0]
=============================================================================
