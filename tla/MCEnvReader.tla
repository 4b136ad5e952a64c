------------------------------ MODULE MCEnvReader ------------------------------
(***************************************************************************)
(* Instances of EnvReader for TLC: puts of one env, and a check or a get.  *)
(***************************************************************************)
EXTENDS EnvReader, TLC

CONSTANTS p1, p2, e1, e1plan, r1

OneEnvPlanName == e1 :> e1plan
OneTime == e1 :> 1

(* Puts that migrate, plan, apply over the plan, and destroy. *)
Request(kind) ==
    [env |-> e1, kind |-> kind, planRun |-> FALSE,
     deleteOnFailure |-> FALSE, imports |-> FALSE]
ReaderRequests == {Request("apply"), Request("plan"), Request("destroy")}

PutSymmetry == Permutations(Puts)
=============================================================================
