----------------------------- MODULE MCMigratedPut -----------------------------
(***************************************************************************)
(* Instances of MigratedPut for TLC: one env, in the legacy storage or not.*)
(***************************************************************************)
EXTENDS MigratedPut, TLC

CONSTANTS p1, p2, p3, e1, e1plan

Request(kind, planRun, deleteOnFailure, imports) ==
    [env |-> e1, kind |-> kind, planRun |-> planRun,
     deleteOnFailure |-> deleteOnFailure, imports |-> imports]

OneEnvPlanName == e1 :> e1plan

(* Puts that migrate, plan, run the plan, clean up, import and destroy.    *)
MigrationRequests ==
    {Request("apply", FALSE, FALSE, TRUE), Request("apply", TRUE, TRUE, FALSE),
     Request("plan", FALSE, FALSE, FALSE), Request("destroy", FALSE, FALSE, FALSE)}

(* The next put after one that has failed. *)
NextPutRequests ==
    {Request("apply", FALSE, FALSE, FALSE), Request("destroy", FALSE, FALSE, FALSE)}

(* The two puts are alike: of two assignments of requests that only differ *)
(* in which put has which, one is enough.                                  *)
Rank(r) == (CASE r.kind = "apply" -> 1 [] r.kind = "plan" -> 2 [] r.kind = "destroy" -> 3)
               + (IF r.planRun THEN 3 ELSE 0)
MCInit == MigratedInit /\ Rank(req[p1]) <= Rank(req[p2])
MCFairSpec == MCInit /\ [][MigratedNext]_migratedVars /\ PutsGoOn

PutSymmetry == Permutations(Puts)
=============================================================================
