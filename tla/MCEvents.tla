------------------------------ MODULE MCEvents ------------------------------
(***************************************************************************)
(* The bus by itself, and the bus used through a handler registry, with    *)
(* bounds of their own; a behaviour is in one of them (part).              *)
(***************************************************************************)
EXTENDS HandlerRegistry, TLC

CONSTANTS
    t1, t2, k1, k2,
    BusSubs,        \* bound: subscriptions on the bus by itself
    RegistryPubs    \* bound: publications on the bus used through a registry

VARIABLE part

MCThreads == {t1, t2}
MCKinds == {k1, k2}
MCFilters == {{k1}}
MCSymmetry == Permutations(MCThreads)

MCInit == part \in {"bus", "registry"} /\ RInit

MCNext ==
    \/ part = "bus" /\ Next /\ nextID' <= BusSubs /\ UNCHANGED <<part, regVars>>
    \/ part = "registry" /\ RNext /\ pubs' <= RegistryPubs /\ UNCHANGED part

MCSpec == MCInit /\ [][MCNext]_<<part, rvars>>

\* What the registry promises holds where its clean-up is used; by itself the bus also
\* has subscribers no registry knows of (handler.go:48-52, 237-261).
HandlersTracked == part = "registry" => RegistrySound
=============================================================================
