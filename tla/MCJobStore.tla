----------------------------- MODULE MCJobStore -----------------------------
(* JobStore on two ids, two process lives and the smallest counters that let
   a reclaim follow a retry and a retry follow a reclaim. *)
EXTENDS JobStore

CONSTANTS j1, j2, info1, boot1, boot2

MCJobIds == {j1, j2}
MCInfos == {info1}
MCBoots == {boot1, boot2}
=============================================================================
