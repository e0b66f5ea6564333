----------------------- MODULE MCProvisioningTasks ------------------------
(***************************************************************************)
(* Two tasks under two ids, or one after the other under the same one, of  *)
(* at most two devices, the same one twice included.                       *)
(***************************************************************************)
EXTENDS ProvisioningTasks, TLC

Symmetry == Permutations(Ids) \cup Permutations(Devices) \cup Permutations(Executors)
===========================================================================
