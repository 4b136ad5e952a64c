------------------------------ MODULE BackendPut ------------------------------
(***************************************************************************)
(* A put of the resource on a terraform backend: Action.Apply, Destroy and *)
(* Plan of terraform/action.go, as out/out.go runs them (runWithBackend).  *)
(* Several put containers run at once against one backend; the only        *)
(* exclusion between them is the state lock terraform takes.  Each action  *)
(* is one terraform command; the answer of `workspace list` is remembered  *)
(* in pc (select or new, delete or not), so it may be stale when used.     *)
(*                                                                         *)
(* A command can be refused (its condition in TerraformClient is false),   *)
(* can fail before it has had an effect, or can report a failure after     *)
(* it.  A build can be aborted at any moment.                              *)
(***************************************************************************)
EXTENDS TerraformClient

CONSTANTS
    Requests,   \* the put requests: see RequestAssumption
    MaxActive,  \* bound: puts running at the same time
    MaxFaults,  \* bound: commands that fail on their own
    MaxKills    \* bound: aborted builds

ASSUME RequestAssumption ==
    /\ Requests \subseteq [env : Envs, kind : {"apply", "plan", "destroy"},
                           planRun : BOOLEAN, deleteOnFailure : BOOLEAN,
                           imports : BOOLEAN]

VARIABLES
    pc,         \* the command each put runs next
    req,        \* the request of each put
    cause,      \* the command that made each put fail, or "none"
    reply,      \* what the put printed: "none", "version" or "empty"
    faults, kills,
    began,      \* history: what each put found when it started
    seen        \* history: the state versions of its own apply and of its answers

control == <<pc, req, cause, reply, faults, kills>>
history == <<began, seen>>
vars == <<clientVars, control, history>>

Ended == {"done", "killed", "killedApply"}
Labels == {"idle", "setup", "planSelect", "planOutput", "list", "select", "new",
           "importCheck", "import", "apply", "applying", "stateVersion", "output",
           "planList", "planDelete", "plan", "jsonPlan", "saveList", "saveSelect",
           "saveNew", "saveApply", "destroySelect", "destroy", "destroying",
           "wsDelete", "tfVersion"} \cup Ended

Env(p) == req[p].env
PlanOf(p) == PlanName[Env(p)]
Running(p) == pc[p] \notin {"idle"} \cup Ended
CleaningUp(p) == cause[p] # "none"

ControlTypeOK ==
    /\ pc \in [Puts -> Labels]
    /\ req \in [Puts -> Requests]
    /\ cause \in [Puts -> Labels \cup {"none"}]
    /\ reply \in [Puts -> {"none", "version", "empty"}]
    /\ faults \in Nat /\ kills \in Nat
HistoryTypeOK ==
    /\ began \in [Puts -> [res : SUBSET Instances, plan : Plans, ready : BOOLEAN, faults : Nat]]
    /\ seen \in [Puts -> [wrote : Versions, state : Versions, output : Versions]]

(* The type invariant. *)
TypeOK == ClientTypeOK /\ ControlTypeOK /\ HistoryTypeOK

Init ==
    /\ ClientInit
    /\ pc = [p \in Puts |-> "idle"]
    /\ req \in [Puts -> Requests]
    /\ cause = [p \in Puts |-> "none"]
    /\ reply = [p \in Puts |-> "none"]
    /\ faults = 0 /\ kills = 0
    /\ began = [p \in Puts |-> [res |-> {}, plan |-> NoPlan, ready |-> FALSE, faults |-> 0]]
    /\ seen = [p \in Puts |-> [wrote |-> NoVersion, state |-> NoVersion,
                               output |-> NoVersion]]

-----------------------------------------------------------------------------
(* Control flow. *)

Goto(p, label) == pc' = [pc EXCEPT ![p] = label]

Continue(p, label) == Goto(p, label) /\ UNCHANGED <<req, cause, reply, faults, kills>>

(* Mutants: a cleanup that fails is cleaned up; every failed apply is.     *)
BadCleansUp(p) == req[p].kind = "apply" /\ req[p].deleteOnFailure
BadDeleteOnFailure(p) == ~CleaningUp(p) /\ req[p].kind = "apply"

(* An error of attemptApply is followed by attemptDestroy when the put has *)
(* delete_on_failure; any other error ends the put.                        *)
CleansUp(p) == ~CleaningUp(p) /\ req[p].kind = "apply" /\ req[p].deleteOnFailure
Fail(p) ==
    /\ Goto(p, IF CleansUp(p) THEN "destroySelect" ELSE "done")
    /\ cause' = [cause EXCEPT ![p] = IF CleaningUp(p) THEN @ ELSE pc[p]]
    /\ UNCHANGED <<req, reply, kills>>

Refused(p) == Fail(p) /\ UNCHANGED faults
CanFault == faults < MaxFaults
Fault(p) == CanFault /\ faults' = faults + 1 /\ Fail(p)

(* One terraform command: refused, failed without an effect, or effective  *)
(* and then successful or not.                                             *)
Command(p, from, to, can, effect) ==
    /\ pc[p] = from
    /\ \/ can /\ effect /\ (Continue(p, to) \/ Fault(p))
       \/ ~can /\ Refused(p) /\ UNCHANGED <<clientVars, history>>
       \/ Fault(p) /\ UNCHANGED <<clientVars, history>>

(* A command whose answer is not remembered beyond pc. *)
Call(p, from, to, can, effect) == Command(p, from, to, can, effect /\ UNCHANGED history)

(* A command that holds the state lock for several steps. *)
Begin(p, from, to, can) ==
    /\ pc[p] = from
    /\ \/ can /\ TakeLock(p) /\ Continue(p, to)
       \/ ~can /\ Refused(p) /\ UNCHANGED clientVars
       \/ Fault(p) /\ UNCHANGED clientVars
    /\ UNCHANGED history

-----------------------------------------------------------------------------
(* What a put needs to find so that it can succeed. *)
Ready(p) ==
    /\ lock[Env(p)] = Nobody
    /\ req[p].kind = "destroy" => Env(p) \in spaces
    /\ req[p].imports => Env(p) \in infra
    /\ req[p].kind = "apply" /\ req[p].planRun =>
           stored[PlanOf(p)] # NoPlan /\ stored[PlanOf(p)].base = version[Env(p)]

(* A put container starts.  Its request was chosen in Init.  Of a put that *)
(* meets another one, ready says nothing.                                  *)
Others(p) == {q \in Puts \ {p} : Running(q)}
Start(p) ==
    /\ pc[p] = "idle"
    /\ Cardinality(Others(p)) < MaxActive
    /\ began' = [q \in Puts |->
          IF q = p
          THEN [res |-> res[Env(p)], plan |-> stored[PlanOf(p)],
                ready |-> Ready(p) /\ Others(p) = {}, faults |-> faults]
          ELSE IF Running(q) THEN [began[q] EXCEPT !.ready = FALSE] ELSE began[q]]
    /\ Continue(p, "setup")
    /\ UNCHANGED <<clientVars, seen>>

FirstCommand(p) ==
    CASE req[p].kind = "destroy" -> "destroySelect"
      [] req[p].kind = "apply" /\ req[p].planRun -> "planSelect"
      [] OTHER -> "list"

(* Action.setup: an error here ends the put without a cleanup. *)
Setup(p) ==
    /\ pc[p] = "setup"
    /\ InitWithBackend(p)
    /\ \/ Continue(p, FirstCommand(p))
       \/ /\ CanFault /\ faults' = faults + 1
          /\ Goto(p, "done") /\ cause' = [cause EXCEPT ![p] = "setup"]
          /\ UNCHANGED <<req, reply, kills>>
    /\ UNCHANGED history

(* Mutant: with a plan at hand, the workspace is not selected again. *)
BadPlanOutput(p) ==
    Call(p, "planOutput", "apply", CanGetPlan(PlanOf(p)), GetPlan(p, PlanOf(p)))

(* GetPlanFromBackend: it leaves the plan workspace selected. *)
PlanSelect(p) ==
    Call(p, "planSelect", "planOutput", CanWorkspaceSelect(PlanOf(p)),
         WorkspaceSelect(p, PlanOf(p)))
PlanOutput(p) ==
    Call(p, "planOutput", "list", CanGetPlan(PlanOf(p)), GetPlan(p, PlanOf(p)))

(* Mutant: the workspace is created without a look at the list. *)
BadList(p) == Call(p, "list", "new", TRUE, UNCHANGED clientVars)

(* WorkspaceNewIfNotExists. *)
List(p) ==
    Call(p, "list", IF Env(p) \in spaces THEN "select" ELSE "new",
            TRUE, UNCHANGED clientVars)

MainCommand(p) == IF req[p].kind = "destroy" \/ CleaningUp(p) THEN "destroy" ELSE req[p].kind
AfterSelection(p) ==
    IF req[p].imports /\ (req[p].kind = "apply" /\ req[p].planRun => CleaningUp(p))
    THEN "importCheck" ELSE MainCommand(p)

Select(p) ==
    Call(p, "select", AfterSelection(p), CanWorkspaceSelect(Env(p)),
            WorkspaceSelect(p, Env(p)))

New(p) ==
    Call(p, "new", AfterSelection(p), CanWorkspaceNew(Env(p)),
            WorkspaceNew(p, Env(p), Env(p)))

(* Import: resourceExists asks with TF_WORKSPACE set to the env and takes  *)
(* an error for "not there"; `import` runs in the selected workspace.      *)
Recorded(p) == Env(p) \in spaces /\ Env(p) \in res[Env(p)]
ImportCheck(p) ==
    /\ pc[p] = "importCheck"
    /\ \/ Recorded(p) /\ Continue(p, MainCommand(p))
       \/ ~Recorded(p) /\ Continue(p, "import")
       \/ /\ CanFault /\ faults' = faults + 1
          /\ Goto(p, "import") /\ UNCHANGED <<req, cause, reply, kills>>
    /\ UNCHANGED <<clientVars, history>>
ImportResource(p) ==
    Call(p, "import", MainCommand(p), CanImport(p, Env(p)), Import(p, Env(p)))

(* terraform apply, in the steps other containers can interleave with. *)
ApplyStart(p) ==
    Begin(p, "apply", "applying", CanApply(p, req[p].planRun))
ApplyProvision(p) ==
    /\ pc[p] = "applying"
    /\ Provision(p)
    /\ UNCHANGED <<control, history>>
ApplyEnd(p) ==
    /\ pc[p] = "applying"
    /\ ApplyEnds(p)
    /\ \/ Continue(p, "stateVersion")
       \/ Refused(p)
    /\ seen' = [seen EXCEPT ![p].wrote = version'[sel[p]]]
    /\ UNCHANGED began

(* Mutant: the outputs are those that `apply` printed. *)
BadOutput(p) ==
    Command(p, "output", "planList", Env(p) \in spaces,
            /\ seen' = [seen EXCEPT ![p].output = seen[p].wrote]
            /\ UNCHANGED <<clientVars, began>>)

(* CurrentStateVersion, then Output: two separate reads of the env's state. *)
StateVersion(p) ==
    Command(p, "stateVersion", "output", Env(p) \in spaces,
            /\ seen' = [seen EXCEPT ![p].state = version[Env(p)]]
            /\ UNCHANGED <<clientVars, began>>)
Output(p) ==
    Command(p, "output", "planList", Env(p) \in spaces,
            /\ seen' = [seen EXCEPT ![p].output = version[Env(p)]]
            /\ UNCHANGED <<clientVars, began>>)

(* deletePlanWorkspaceIfExists. *)
Finish(p) == IF CleaningUp(p) THEN "done" ELSE "tfVersion"
(* Mutant: the plan is never deleted. *)
BadPlanList(p) == Call(p, "planList", Finish(p), TRUE, UNCHANGED clientVars)
PlanList(p) ==
    Call(p, "planList", IF PlanOf(p) \in spaces THEN "planDelete" ELSE Finish(p),
            TRUE, UNCHANGED clientVars)
PlanDelete(p) ==
    Call(p, "planDelete", Finish(p), CanWorkspaceDeleteWithForce(PlanOf(p)),
            WorkspaceDelete(PlanOf(p)))

(* terraform plan, then `show -json` on the plan file. *)
PlanEnv(p) == Call(p, "plan", "jsonPlan", CanPlan(p), Plan(p))
JSONPlan(p) == Call(p, "jsonPlan", "saveList", TRUE, UNCHANGED clientVars)

(* SavePlanToBackend works in a temporary directory with a selection of    *)
(* its own, so sel[p] stays; SaveList is its init and its workspace list.  *)
SaveList(p) ==
    Call(p, "saveList", IF PlanOf(p) \in spaces THEN "saveSelect" ELSE "saveNew",
         TRUE, UNCHANGED clientVars)
SaveSelect(p) ==
    Call(p, "saveSelect", "saveApply", CanWorkspaceSelect(PlanOf(p)), UNCHANGED clientVars)
SaveNew(p) ==
    Call(p, "saveNew", "saveApply", CanWorkspaceNew(PlanOf(p)),
         WorkspaceNew(p, PlanOf(p), sel[p]))
SaveApply(p) ==
    Call(p, "saveApply", "tfVersion", CanSavePlan(PlanOf(p)), SavePlan(p, PlanOf(p)))

(* Mutants: nothing is imported before a destroy; the workspace of the env *)
(* is deleted with -force.                                                 *)
BadDestroySelect(p) ==
    Call(p, "destroySelect", "destroy", CanWorkspaceSelect(Env(p)), WorkspaceSelect(p, Env(p)))
BadEnvDelete(p) ==
    Call(p, "wsDelete", "planList", CanWorkspaceDeleteWithForce(Env(p)), WorkspaceDelete(Env(p)))

(* attemptDestroy. *)
DestroySelect(p) ==
    Call(p, "destroySelect", IF req[p].imports THEN "importCheck" ELSE "destroy",
         CanWorkspaceSelect(Env(p)), WorkspaceSelect(p, Env(p)))
DestroyStart(p) == Begin(p, "destroy", "destroying", CanDestroy(p))
DestroyEnd(p) ==
    /\ pc[p] = "destroying"
    /\ \/ DestroyEnds(p, res[sel[p]]) /\ Continue(p, "wsDelete")
       \/ \E gone \in SUBSET res[sel[p]] : DestroyEnds(p, gone) /\ Refused(p)
    /\ UNCHANGED history
EnvDelete(p) ==
    IF Env(p) = Default
    THEN pc[p] = "wsDelete" /\ Continue(p, "planList") /\ UNCHANGED <<clientVars, history>>
    ELSE Call(p, "wsDelete", "planList", CanWorkspaceDelete(Env(p)), WorkspaceDelete(Env(p)))

(* buildMetadata asks for the terraform version; when that fails           *)
(* runWithBackend returns an empty response and a nil error.               *)
TfVersion(p) ==
    /\ pc[p] = "tfVersion"
    /\ Goto(p, "done")
    /\ \/ reply' = [reply EXCEPT ![p] = "version"] /\ UNCHANGED faults
       \/ /\ CanFault /\ faults' = faults + 1
          /\ reply' = [reply EXCEPT ![p] = "empty"]
    /\ UNCHANGED <<clientVars, req, cause, kills, history>>

(* The build is aborted: the runner kills terraform and exits.  The lock   *)
(* stays; a destroy under way may have removed some instances, an apply    *)
(* under way has recorded nothing.                                         *)
Kill(p) ==
    /\ Running(p)
    /\ kills < MaxKills
    /\ kills' = kills + 1
    /\ Goto(p, IF pc[p] = "applying" THEN "killedApply" ELSE "killed")
    /\ \E gone \in SUBSET (IF pc[p] = "destroying" THEN res[sel[p]] ELSE {}) :
           infra' = infra \ gone
    /\ UNCHANGED <<backend, container, req, cause, reply, faults, history>>

-----------------------------------------------------------------------------
Step(p) ==
    \/ Setup(p)
    \/ PlanSelect(p) \/ PlanOutput(p)
    \/ List(p) \/ Select(p) \/ New(p)
    \/ ImportCheck(p) \/ ImportResource(p)
    \/ ApplyStart(p) \/ ApplyEnd(p) \/ StateVersion(p) \/ Output(p)
    \/ PlanList(p) \/ PlanDelete(p)
    \/ PlanEnv(p) \/ JSONPlan(p)
    \/ SaveList(p) \/ SaveSelect(p) \/ SaveNew(p) \/ SaveApply(p)
    \/ DestroySelect(p) \/ DestroyStart(p) \/ DestroyEnd(p) \/ EnvDelete(p)
    \/ TfVersion(p)

AllEnded == (\A p \in Puts : pc[p] \in Ended) /\ UNCHANGED vars

Next ==
    \/ \E p \in Puts : Start(p) \/ Step(p) \/ ApplyProvision(p) \/ Kill(p)
    \/ AllEnded

Spec == Init /\ [][Next]_vars

-----------------------------------------------------------------------------
(* Properties. *)

(* No plan workspace has the name of an env.  The code does not see to it: *)
(* the env "a-plan" has the name of the plan workspace of the env "a".     *)
PlanNamesApart == \A e, f \in Envs : PlanName[e] # f

(* Whatever a failed command, GetPlanFromBackend or a cleanup has left     *)
(* selected, the commands that work on the selected workspace (import,     *)
(* plan, apply, destroy) only ever run in the workspace of the put's env.  *)
InSelected == {"importCheck", "import", "plan", "apply", "applying", "destroy", "destroying"}
OwnWorkspace == \A p \in Puts : pc[p] \in InSelected => sel[p] = Env(p)

(* Nothing a put has provisioned is forgotten: it is recorded in the state *)
(* of the put's env, whose workspace exists, whoever fails, cleans up,     *)
(* destroys, deletes workspaces or is aborted meanwhile; only an apply     *)
(* that is under way or was aborted can leave an instance unrecorded.      *)
NoOrphans ==
    \A p \in Puts \cap infra :
        \/ pc[p] \in {"applying", "killedApply"}
        \/ Env(p) \in spaces /\ p \in res[Env(p)]

(* What makes OwnWorkspace and NoOrphans inductive.  While terraform       *)
(* applies or destroys in the workspace of an env it holds the lock, so    *)
(* nobody deletes the workspace; and a plan workspace, which is deleted    *)
(* with -force, never records an instance.                                 *)
LockHeld ==
    \A p \in Puts :
        pc[p] \in {"applying", "destroying"} => Env(p) \in spaces /\ lock[Env(p)] = p
PlansRecordNothing == \A e \in Envs : res[PlanName[e]] = {}

IInv ==
    /\ TypeOK /\ OwnWorkspace /\ LockHeld
    /\ PlanNamesApart => PlansRecordNothing /\ NoOrphans

(* A put that reports a destroy has destroyed everything its env recorded  *)
(* when it started, and the instance it was told to import.                *)
DestroyIsComplete ==
    \A p \in Puts :
        req[p].kind = "destroy" /\ reply[p] = "version" =>
            (began[p].res \cup {i \in {Env(p)} : req[p].imports}) \cap infra = {}

(* After an apply or a destroy has succeeded, the plan that was stored     *)
(* when it started cannot be run any more.                                 *)
StoredPlanConsumed ==
    \A p \in Puts :
        /\ req[p].kind # "plan"
        /\ reply[p] = "version"
        /\ began[p].plan # NoPlan
        => stored[PlanOf(p)].by # began[p].plan.by

(* The version an apply reports is not older than the state it wrote, and  *)
(* the outputs it reports are not older than that version; only a          *)
(* workspace that was deleted and created again starts over.               *)
NotOlder(v, w) == v.lineage = w.lineage => v.serial <= w.serial
ReportsOwnApply ==
    \A p \in Puts :
        req[p].kind = "apply" /\ reply[p] = "version" =>
            /\ NotOlder(seen[p].wrote, seen[p].state)
            /\ NotOlder(seen[p].state, seen[p].output)

(* Whatever earlier puts did, failed at or were aborted at, a put that     *)
(* runs alone and finds what it needs only fails when one of its own       *)
(* commands fails on its own: apply is retried over what a failed apply    *)
(* has left, import is not repeated, destroy works after a failed put.     *)
RetrySucceeds ==
    \A p \in Puts :
        pc[p] = "done" /\ began[p].ready /\ began[p].faults = faults =>
            cause[p] \in {"none", "applying", "destroying"}

(* The workspace of an env and the instances its puts have made are only   *)
(* touched by a put of that env.                                           *)
EnvView(e) == <<e \in spaces, res[e], {p \in Puts \cap infra : Env(p) = e}>>
EnvIsolation ==
    [][\A e \in Envs : EnvView(e)' # EnvView(e) =>
           \E p \in Puts : Env(p) = e /\ (pc'[p] # pc[p] \/ pc[p] = "applying")]_vars

(* The puts implement EnvStore: whatever commands they run and wherever    *)
(* they fail, what an env knows and what exists only ever change as it     *)
(* says, one put at a time, and what a put has made is known from when it  *)
(* returns.                                                                *)
Status(p) ==
    CASE pc[p] = "idle" -> "idle"
      [] pc[p] = "done" -> "returned"
      [] pc[p] \in {"killed", "killedApply"} -> "aborted"
      [] OTHER -> "active"
Store == INSTANCE EnvStore WITH
    Restores <- FALSE,
    live <- infra,
    known <- [e \in Envs |-> res[e]],
    status <- [p \in Puts |-> Status(p)]
ImplementsEnvStore == Store!Spec

(* What the documentation says and the code does not do. *)

(* delete_on_failure runs terraform destroy after an error of terraform    *)
(* apply.                                                                  *)
CleanupFollowsApplyError ==
    \A p \in Puts : CleaningUp(p) /\ pc[p] = "destroying" => cause[p] \in {"apply", "applying"}

(* A put that succeeds gives its env a name in its version.                *)
SuccessNamesEnv == \A p \in Puts : reply[p] # "empty"

(* Every put that has started returns or is aborted, also when its cleanup *)
(* fails or the state is locked for good: a put starts once, so from some  *)
(* time on none is running.                                                *)
EveryPutReturns == <>[](\A p \in Puts : ~Running(p))
=============================================================================
