----------------------------- MODULE MCRollouts -----------------------------
(***************************************************************************)
(* Work over many devices that must end: the staged firmware rollout, and  *)
(* the provisioning of several devices by a pool of workers.  A behaviour  *)
(* is in one of them (part).                                               *)
(***************************************************************************)
EXTENDS MCFirmwareRollout

CONSTANTS w1, w2

VARIABLES part,
    address, credentials, cut, queued, work, outcomes, worker, device,
    Results, SuccessCount, FailureCount, bulk, waived, misses

bulkVars == <<address, credentials, cut, queued, work, outcomes, worker, device,
              Results, SuccessCount, FailureCount, bulk, waived, misses>>

\* A device to join the network and lose its access point, one to lose Bluetooth, and one
\* to be left alone.
MCTargets == << [settings |-> {"wifi", "auth"}, after |-> {"wait", "no ap"}],
                [settings |-> {"name"}, after |-> {"no ble"}],
                [settings |-> {}, after |-> {}] >>

Bulk == INSTANCE DeviceProvisioning
            WITH canceled <- cut, results <- outcomes,
                 Targets <- MCTargets, Addresses <- {<<d1, d2, d3>>}, Workers <- {w1, w2},
                 RetryCount <- 1, MaxFaults <- 1

MCInit ==
    /\ part \in {"rollout", "bulk"}
    /\ Init /\ Bulk!BInit
    /\ part # "bulk" => credentials
    /\ part # "rollout" => percentage = 70

MCNext ==
    \/ part = "rollout" /\ Next /\ UNCHANGED <<part, bulkVars>>
    \/ part = "bulk" /\ Bulk!BNext /\ UNCHANGED <<part, vars>>

MCSpec ==
    /\ MCInit /\ [][MCNext]_<<part, vars, bulkVars>>
    /\ part = "rollout" => \A t \in Starters : WF_vars(Step(t))
    /\ part = "bulk" => Bulk!BFair

\* ProvisionBulk returns, although devices fail for good, are retried or never join and
\* the context may end (provisioning.go:905-994).
BulkEnds == part = "bulk" => Bulk!BulkEnds
=============================================================================
