------------------------- MODULE MCDelegationGroups -------------------------
(* Small groups: two tasks with one job each, or one task that is revised. *)
EXTENDS DelegationGroups, TLC

CONSTANTS t1, t2
TwoTasks == {t1, t2}
OneTask == {t1}
Everything == AllTroubles
Nowhere == {}
=============================================================================
