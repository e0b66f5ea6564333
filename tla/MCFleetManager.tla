-------------------------- MODULE MCFleetManager --------------------------
(***************************************************************************)
(* Two users, two devices and two hosts; one device may be controlled.     *)
(***************************************************************************)
EXTENDS FleetManager, TLC

CONSTANTS u1, u2, d1, d2, h1, h2

MCAccountDevice ==
    {[device |-> d1, host |-> h1, control |-> FALSE],
     [device |-> d2, host |-> h2, control |-> TRUE]}

Symmetry == Permutations(Users) \cup Permutations(Callers)
===========================================================================
