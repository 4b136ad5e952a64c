----------------------------- MODULE MCBackendPut -----------------------------
(***************************************************************************)
(* Instances of BackendPut for TLC.                                        *)
(***************************************************************************)
EXTENDS BackendPut, TLC

CONSTANTS p1, p2, p3, e1, e2, e1plan, e2plan

Request(e, kind, planRun, deleteOnFailure, imports) ==
    [env |-> e, kind |-> kind, planRun |-> planRun,
     deleteOnFailure |-> deleteOnFailure, imports |-> imports]

(* The requests for one env that run different code.  A plan looks at      *)
(* neither plan_run nor delete_on_failure, a destroy only at the imports;  *)
(* a plan with imports and an apply with imports and without a cleanup do  *)
(* nothing that these do not do.                                           *)
EveryRequest(e) ==
    {Request(e, "apply", r, TRUE, i) : r, i \in BOOLEAN} \cup
    {Request(e, k, FALSE, FALSE, FALSE) : k \in {"apply", "plan", "destroy"}} \cup
    {Request(e, "destroy", FALSE, FALSE, TRUE)}

OneEnvPlanName == e1 :> e1plan
OneEnvRequests == EveryRequest(e1)

(* Enough to plan, run the plan, import and destroy, and to do it again    *)
(* over what others have left.                                             *)
ThreePutsRequests ==
    {Request(e1, "plan", FALSE, FALSE, FALSE), Request(e1, "apply", TRUE, FALSE, FALSE),
     Request(e1, "apply", FALSE, FALSE, FALSE), Request(e1, "destroy", FALSE, FALSE, TRUE)}

(* Two envs, one of them in the default workspace, which a destroy keeps.  *)
TwoEnvsPlanName == Default :> e2plan @@ e1 :> e1plan
TwoEnvsRequests ==
    EveryRequest(e1) \cup {Request(Default, "destroy", FALSE, FALSE, TRUE)}

(* An env that is called like the plan workspace of another one. *)
CollidingPlanName == e1 :> e2 @@ e2 :> e2plan
CollidingRequests == {Request(e, "apply", FALSE, FALSE, FALSE) : e \in {e1, e2}}

PutSymmetry == Permutations(Puts)

(* Of the three puts one meets a failure of a command or an aborted build. *)
OneMishap == faults + kills <= 1
=============================================================================
