-------------------------- MODULE MCSpendingPolicy --------------------------
(* Small instances of SpendingPolicy for TLC. *)
EXTENDS SpendingPolicy

PolicyOf(tx, period, seconds) ==
    [per_tx_limit |-> tx, per_period_limit |-> period, period_seconds |-> seconds]

(* Two units in three seconds, in transfers of one or two. *)
TwoInThreeSeconds == PolicyOf(2, 2, 3)

(* A longer and a shorter period, the period limit off, and no limit at all. *)
OwnersPolicies ==
    {PolicyOf(2, 3, 2), PolicyOf(1, 2, 1), PolicyOf(2, 0, 3), PolicyOf(4, 4, 3)}
=============================================================================
