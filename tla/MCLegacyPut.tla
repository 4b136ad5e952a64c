------------------------------ MODULE MCLegacyPut ------------------------------
(***************************************************************************)
(* Instances of LegacyPut for TLC.                                         *)
(***************************************************************************)
EXTENDS LegacyPut, TLC

CONSTANTS p1, p2

Request(kind, planRun, deleteOnFailure, imports) ==
    [kind |-> kind, planRun |-> planRun,
     deleteOnFailure |-> deleteOnFailure, imports |-> imports]

(* Enough to deploy, plan, run the plan, clean up and destroy. *)
LifecycleRequests ==
    {Request("apply", FALSE, FALSE, TRUE), Request("apply", TRUE, TRUE, FALSE),
     Request("plan", FALSE, FALSE, FALSE), Request("destroy", FALSE, FALSE, FALSE)}

(* The two puts are alike: of two assignments of requests that only differ *)
(* in which put has which, one is enough.  A plan that is there before is  *)
(* for a put that runs it and one that takes it away.                      *)
Rank(r) == (CASE r.kind = "apply" -> 1 [] r.kind = "plan" -> 2 [] r.kind = "destroy" -> 3)
               + (IF r.planRun THEN 3 ELSE 0)
MCInit ==
    /\ Init
    /\ Rank(req[p1]) <= Rank(req[p2])
    /\ plan.stored => req[p1].kind = "destroy" /\ req[p2].planRun
MCFairSpec == MCInit /\ [][Next]_vars /\ PutsGoOn
=============================================================================
