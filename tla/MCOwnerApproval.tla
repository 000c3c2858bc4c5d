-------------------------- MODULE MCOwnerApproval --------------------------
(* Small instances of OwnerApproval for TLC. *)
EXTENDS OwnerApproval

(* The command line lets nothing through: every spend needs the owner until *)
(* the owner raises the transaction limit to 1.                             *)
ClosedPolicy == [k \in PolicyKeys |-> 0]
=============================================================================
