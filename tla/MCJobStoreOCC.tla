---------------------------- MODULE MCJobStoreOCC ----------------------------
(* One contended row, three callers and five calls: enough for a claim, a
   reclaim, a second claim and two late writers racing them. *)
EXTENDS JobStoreOCC, TLC

CONSTANTS j1, info1, boot1, boot2, c1, c2, c3

MCJobIds == {j1}
MCInfos == {info1}
MCBoots == {boot1, boot2}
MCCallers == {c1, c2, c3}
CallerSymmetry == Permutations(MCCallers)
=============================================================================
