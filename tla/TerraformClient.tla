--------------------------- MODULE TerraformClient ---------------------------
(***************************************************************************)
(* terraform/client.go in backend mode: the commands of the terraform CLI  *)
(* that the resource runs, each with the condition under which the CLI     *)
(* accepts it (Can...) and its effect on the backend, on the              *)
(* infrastructure and on the container that runs it.                       *)
(*                                                                         *)
(* A put container is an element p of Puts.  The commands run in the       *)
(* source directory of their container, whose .terraform directory holds   *)
(* the selected workspace sel[p].  Infrastructure is a set of instances:   *)
(* a put that applies creates the instance p, and every env e has one      *)
(* instance e that existed before the resource was used and that can be    *)
(* imported.                                                               *)
(***************************************************************************)
EXTENDS Naturals, FiniteSets

CONSTANTS
    Puts,       \* the put containers
    Envs,       \* the env names the puts are given
    Default,    \* the workspace "default"
    Nobody,     \* no put: a free lock, a lineage or a plan that does not exist
    PlanName    \* the plan workspace of each env, "%s-plan" in the code

ASSUME ClientAssumption ==
    /\ Nobody \notin Puts \cup Envs
    /\ Puts \cap Envs = {}
    /\ \A e \in Envs : PlanName[e] # Default
    /\ \A e, f \in Envs : PlanName[e] = PlanName[f] => e = f

VARIABLES
    spaces,     \* the workspaces that exist in the backend
    res,        \* the instances recorded in the state of each workspace
    version,    \* the lineage and the serial of the state of each workspace
    stored,     \* the plan that the state of each workspace holds as an output
    lock,       \* the put that holds the state lock of each workspace
    infra,      \* the instances that exist
    sel,        \* the workspace selected in the source directory of each put
    planFile    \* the plan file in the container of each put

backend == <<spaces, res, version, stored, lock>>
container == <<sel, planFile>>
clientVars == <<backend, infra, container>>

Names == Envs \cup {Default} \cup {PlanName[e] : e \in Envs}
Instances == Puts \cup Envs

(* A state is identified by its lineage, here the put that created the     *)
(* workspace or the env that was deployed before, and by a serial that     *)
(* every write increases.  A plan is identified by the put that made it,   *)
(* and is only good for the state version it was made from.                *)
Versions == [lineage : Instances \cup {Nobody}, serial : Nat]
NoVersion == [lineage |-> Nobody, serial |-> 0]
Plans == [by : Puts \cup {Nobody}, base : Versions]
NoPlan == [by |-> Nobody, base |-> NoVersion]

ClientTypeOK ==
    /\ spaces \subseteq Names
    /\ res \in [Names -> SUBSET Instances]
    /\ version \in [Names -> Versions]
    /\ stored \in [Names -> Plans]
    /\ lock \in [Names -> Puts \cup {Nobody}]
    /\ infra \subseteq Instances
    /\ sel \in [Puts -> Names]
    /\ planFile \in [Puts -> Plans]

ClientInit ==
    /\ spaces = {Default}
    /\ res = [n \in Names |-> {}]
    /\ version = [n \in Names |-> NoVersion]
    /\ stored = [n \in Names |-> NoPlan]
    /\ lock = [n \in Names |-> Nobody]
    /\ infra = Envs
    /\ sel = [p \in Puts |-> Default]
    /\ planFile = [p \in Puts |-> NoPlan]

-----------------------------------------------------------------------------
(* A command that needs the state of a workspace fails when the workspace  *)
(* is gone; one that writes it fails when somebody holds its lock          *)
(* (-lock-timeout only delays that).                                       *)
Free(n) == n \in spaces /\ lock[n] = Nobody

Written(n) == [version EXCEPT ![n].serial = @ + 1]

(* `init`: InitWithBackend removes .terraform, so default is selected.     *)
InitWithBackend(p) ==
    /\ sel' = [sel EXCEPT ![p] = Default]
    /\ UNCHANGED <<backend, infra, planFile>>

CanWorkspaceSelect(n) == n \in spaces
WorkspaceSelect(p, n) ==
    /\ sel' = [sel EXCEPT ![p] = n]
    /\ UNCHANGED <<backend, infra, planFile>>

(* `workspace new` creates an empty state; s is the selection it leaves.   *)
CanWorkspaceNew(n) == n \notin spaces
WorkspaceNew(p, n, s) ==
    /\ spaces' = spaces \cup {n}
    /\ version' = [version EXCEPT ![n] = [lineage |-> p, serial |-> 0]]
    /\ sel' = [sel EXCEPT ![p] = s]
    /\ UNCHANGED <<res, stored, lock, infra, planFile>>

(* `workspace delete` forgets the state; only -force accepts a state that  *)
(* still records instances.                                                *)
CanWorkspaceDelete(n) == Free(n) /\ res[n] = {}
CanWorkspaceDeleteWithForce(n) == Free(n)
WorkspaceDelete(n) ==
    /\ spaces' = spaces \ {n}
    /\ res' = [res EXCEPT ![n] = {}]
    /\ version' = [version EXCEPT ![n] = NoVersion]
    /\ stored' = [stored EXCEPT ![n] = NoPlan]
    /\ UNCHANGED <<lock, infra, container>>

(* Mutant: the import does not run in the selected workspace. *)
BadImport(p, i) ==
    /\ res' = [res EXCEPT ![Default] = @ \cup {i}]
    /\ version' = Written(Default)
    /\ UNCHANGED <<spaces, stored, lock, infra, container>>

(* `import` records an existing instance in the selected workspace.        *)
CanImport(p, i) == Free(sel[p]) /\ i \in infra /\ i \notin res[sel[p]]
Import(p, i) ==
    /\ res' = [res EXCEPT ![sel[p]] = @ \cup {i}]
    /\ version' = Written(sel[p])
    /\ UNCHANGED <<spaces, stored, lock, infra, container>>

(* `plan` writes a plan file made from the state of the selected           *)
(* workspace.                                                              *)
CanPlan(p) == Free(sel[p])
Plan(p) ==
    /\ planFile' = [planFile EXCEPT ![p] = [by |-> p, base |-> version[sel[p]]]]
    /\ UNCHANGED <<backend, infra, sel>>

(* `apply` and `destroy` take the lock of the selected workspace, change   *)
(* the infrastructure while they hold it, and release it when they write   *)
(* the state.  A saved plan is refused once the state has moved on.        *)
CanApply(p, planRun) ==
    /\ Free(sel[p])
    /\ planRun => planFile[p].base = version[sel[p]]
CanDestroy(p) == Free(sel[p])
TakeLock(p) ==
    /\ lock' = [lock EXCEPT ![sel[p]] = p]
    /\ UNCHANGED <<spaces, res, version, stored, infra, container>>

Provision(p) ==
    /\ p \notin infra
    /\ infra' = infra \cup {p}
    /\ UNCHANGED <<backend, container>>

(* The state written at the end records what was provisioned, also when    *)
(* `apply` fails; without a change nothing is written.                     *)
ApplyEnds(p) ==
    /\ res' = [res EXCEPT ![sel[p]] = @ \cup ({p} \cap infra)]
    /\ version' = IF p \in infra THEN Written(sel[p]) ELSE version
    /\ lock' = [lock EXCEPT ![sel[p]] = Nobody]
    /\ UNCHANGED <<spaces, stored, infra, container>>

(* `destroy` removes the set gone of recorded instances.                   *)
DestroyEnds(p, gone) ==
    /\ infra' = infra \ gone
    /\ res' = [res EXCEPT ![sel[p]] = @ \ gone]
    /\ version' = Written(sel[p])
    /\ lock' = [lock EXCEPT ![sel[p]] = Nobody]
    /\ UNCHANGED <<spaces, stored, container>>

(* Mutant: the JSON form of the plan is taken for the plan. *)
BadGetPlan(p, n) ==
    /\ planFile' = [planFile EXCEPT ![p] = [json |-> stored[n].by]]
    /\ UNCHANGED <<backend, infra, sel>>

(* `output` of the plan workspace, decoded into the plan file.             *)
CanGetPlan(n) == n \in spaces /\ stored[n] # NoPlan
GetPlan(p, n) ==
    /\ planFile' = [planFile EXCEPT ![p] = stored[n]]
    /\ UNCHANGED <<backend, infra, sel>>

(* `apply` of the generated configuration that holds the plan as an        *)
(* output: the state of workspace n then holds the plan and nothing else.  *)
CanSavePlan(n) == Free(n)
SavePlan(p, n) ==
    /\ stored' = [stored EXCEPT ![n] = planFile[p]]
    /\ infra' = infra \ res[n]
    /\ res' = [res EXCEPT ![n] = {}]
    /\ version' = Written(n)
    /\ UNCHANGED <<spaces, lock, container>>
=============================================================================
