------------------------------- MODULE LegacyPut -------------------------------
(***************************************************************************)
(* A put on the deprecated legacy storage: LegacyStorageAction of          *)
(* terraform/legacy_storage_action.go with storage.StateFile, PlanFile and *)
(* the S3 driver, as runWithLegacyStorage of out/out.go runs it.           *)
(*                                                                         *)
(* The bucket holds three objects of an env: its state file, the state     *)
(* file of a failed put (".tainted"), and a plan.  A put downloads what it *)
(* finds, works on the local copy and uploads it.  There is no lock: the   *)
(* pipeline has to run the puts of an env one after the other; met says    *)
(* that two of them have met.                                              *)
(***************************************************************************)
EXTENDS Naturals, FiniteSets

CONSTANTS
    Puts,       \* the put containers, all for the same env
    Existing,   \* an instance that exists before, and can be imported
    Nobody,     \* the lineage of a file that does not exist
    Requests,   \* the put requests: see LegacyAssumption
    MaxActive,  \* bound: puts running at the same time
    MaxFaults,  \* bound: storage calls and commands that fail on their own
    MaxKills    \* bound: aborted builds

ASSUME LegacyAssumption ==
    /\ Nobody \notin Puts /\ Existing \notin Puts
    /\ Requests \subseteq [kind : {"apply", "plan", "destroy"}, planRun : BOOLEAN,
                           deleteOnFailure : BOOLEAN, imports : BOOLEAN]

VARIABLES
    state,      \* the state files in the bucket, by key
    plan,       \* the plan in the bucket
    infra,      \* the instances that exist
    pc, req, cause, reply, faults, kills,
    found,      \* the objects each put has found in the bucket
    key,        \* StateFile.RemotePath of each put
    local,      \* the local state file of each put
    planFile,   \* the local plan file of each put
    began,      \* history: the instances in the bucket's state files at the start
    undeleted,  \* history: a tainted state file was uploaded beside its original
    unsaved,    \* history: a tainted state file was not uploaded
    met         \* history: a put was started while another one was running

bucket == <<state, plan>>
files == <<found, key, local, planFile>>
history == <<began, undeleted, unsaved, met>>
vars == <<bucket, infra, pc, req, cause, reply, faults, kills, files, history>>

Instances == Puts \cup {Existing}
StateKeys == {"state", "tainted"}

(* A state file, with the lineage and serial terraform gives it; serial 0  *)
(* is a file that does not exist.  A plan is good for one lineage and      *)
(* serial.                                                                 *)
Files == [recorded : SUBSET Instances, lineage : Puts \cup {Nobody}, serial : Nat]
NoFile == [recorded |-> {}, lineage |-> Nobody, serial |-> 0]
Plans == [stored : BOOLEAN, lineage : Puts \cup {Nobody}, serial : Nat]
NoPlan == [stored |-> FALSE, lineage |-> Nobody, serial |-> 0]
PlanFor(f) == [stored |-> TRUE, lineage |-> f.lineage, serial |-> f.serial]

(* What terraform writes: the next serial, in a new lineage if there was   *)
(* no file.                                                                *)
Rewritten(p, recorded) ==
    [recorded |-> recorded,
     lineage |-> IF local[p] = NoFile THEN p ELSE local[p].lineage,
     serial |-> local[p].serial + 1]

Labels == {"idle", "stateExists", "planExists", "taintedExists", "planDownload",
           "stateDownload", "init", "import", "apply", "applying", "untaint", "upload",
           "planCheck", "planDelete", "output", "destroy", "destroying", "destroyPlan",
           "destroyState", "taintDelete", "taintUpload", "plan", "planUpload",
           "tfVersion", "done", "killed"}

Running(p) == pc[p] \notin {"idle", "done", "killed"}
CleaningUp(p) == cause[p] # "none"

(* The type invariant. *)
LegacyTypeOK ==
    /\ state \in [StateKeys -> Files]
    /\ plan \in Plans
    /\ infra \subseteq Instances
    /\ pc \in [Puts -> Labels]
    /\ req \in [Puts -> Requests]
    /\ cause \in [Puts -> Labels \cup {"none"}]
    /\ reply \in [Puts -> {"none", "version", "empty"}]
    /\ faults \in Nat /\ kills \in Nat
    /\ found \in [Puts -> SUBSET {"state", "tainted", "plan"}]
    /\ key \in [Puts -> StateKeys]
    /\ local \in [Puts -> Files]
    /\ planFile \in [Puts -> Plans]
    /\ began \in [Puts -> SUBSET Instances]
    /\ undeleted \in BOOLEAN /\ unsaved \in BOOLEAN /\ met \in BOOLEAN

(* Earlier puts have left a state file, also with a plan for it, or that   *)
(* of a failure, or nothing.                                               *)
Earlier == [recorded |-> {Existing}, lineage |-> Nobody, serial |-> 1]
Init ==
    /\ \E at \in StateKeys \cup {"none"} :
           state = [k \in StateKeys |-> IF k = at THEN Earlier ELSE NoFile]
    /\ plan = NoPlan \/ (state["state"] = Earlier /\ plan = PlanFor(Earlier))
    /\ infra = {Existing}
    /\ pc = [p \in Puts |-> "idle"]
    /\ req \in [Puts -> Requests]
    /\ cause = [p \in Puts |-> "none"]
    /\ reply = [p \in Puts |-> "none"]
    /\ faults = 0 /\ kills = 0
    /\ found = [p \in Puts |-> {}]
    /\ key = [p \in Puts |-> "state"]
    /\ local = [p \in Puts |-> NoFile]
    /\ planFile = [p \in Puts |-> NoPlan]
    /\ began = [p \in Puts |-> {}]
    /\ undeleted = FALSE /\ unsaved = FALSE /\ met = FALSE

-----------------------------------------------------------------------------
(* Control flow. *)

Goto(p, label) == pc' = [pc EXCEPT ![p] = label]
Continue(p, label) == Goto(p, label) /\ UNCHANGED <<req, cause, reply, faults, kills>>
Faulty(p, label) ==
    /\ faults < MaxFaults
    /\ faults' = faults + 1
    /\ Goto(p, label)
    /\ UNCHANGED <<req, reply, kills>>

(* Where an error leads: one of setup or of a plan ends the put; one of    *)
(* attemptApply with delete_on_failure to attemptDestroy; any other error  *)
(* of attemptApply or attemptDestroy to uploadTaintedStatefile.            *)
InSetup == {"stateExists", "planExists", "taintedExists", "planDownload",
            "stateDownload", "init", "import"}
CleansUp(p) == req[p].kind = "apply" /\ req[p].deleteOnFailure /\ ~CleaningUp(p)
BadAfterError(p) == IF CleaningUp(p) \/ pc[p] \in InSetup THEN "done" ELSE
                    IF CleansUp(p) THEN "destroy" ELSE "taintDelete"
BadRetry(p) == IF pc[p] = "taintUpload" THEN "taintDelete" ELSE
               IF pc[p] \in InSetup \/ req[p].kind = "plan" THEN "done" ELSE
               IF CleansUp(p) THEN "destroy" ELSE "taintDelete"
AfterError(p) ==
    IF pc[p] \in InSetup \cup {"taintUpload"} \/ req[p].kind = "plan" THEN "done" ELSE
    IF CleansUp(p) THEN "destroy" ELSE "taintDelete"
Blame(p) == cause' = [cause EXCEPT ![p] = IF CleaningUp(p) THEN @ ELSE pc[p]]
Refused(p) ==
    /\ Goto(p, AfterError(p)) /\ Blame(p)
    /\ UNCHANGED <<req, reply, faults, kills>>
Fault(p) == Faulty(p, AfterError(p)) /\ Blame(p)

(* A storage call or a command: it can fail before or after its effect.    *)
Call(p, from, to, effect) ==
    /\ pc[p] = from
    /\ \/ effect /\ (Continue(p, to) \/ Fault(p))
       \/ UNCHANGED <<bucket, infra, files>> /\ Fault(p)
    /\ UNCHANGED history

(* S3 drivers: Delete takes an object that is gone for deleted.            *)
Upload(k, file) ==
    /\ state' = [state EXCEPT ![k] = file]
    /\ UNCHANGED <<plan, infra, files>>
Without(k) == [state EXCEPT ![k] = NoFile]
Delete(k) == Upload(k, NoFile)
SetPlan(to) == plan' = to /\ UNCHANGED <<state, infra, files>>
SetLocal(p, file) ==
    /\ local' = [local EXCEPT ![p] = file]
    /\ UNCHANGED <<bucket, infra, found, key, planFile>>
Finds(p, objects) ==
    /\ found' = [found EXCEPT ![p] = @ \cup objects]
    /\ UNCHANGED <<bucket, infra, key, local, planFile>>

-----------------------------------------------------------------------------
Start(p) ==
    /\ pc[p] = "idle"
    /\ Cardinality({q \in Puts : Running(q)}) < MaxActive
    /\ began' = [began EXCEPT ![p] = UNION {state[k].recorded : k \in StateKeys}]
    /\ met' = (met \/ \E q \in Puts : Running(q))
    /\ Continue(p, "stateExists")
    /\ UNCHANGED <<bucket, infra, files, undeleted, unsaved>>

(* setup: what it asks the bucket for, in this order. *)
StateExists(p) ==
    Call(p, "stateExists", "planExists",
         Finds(p, {k \in {"state"} : state[k] # NoFile}))
PlanExists(p) ==
    Call(p, "planExists",
         IF "state" \notin found[p] THEN "taintedExists"
         ELSE IF plan.stored THEN "planDownload" ELSE "stateDownload",
         Finds(p, {k \in {"plan"} : plan.stored}))
BadAfterPlan(p, objects) == IF "state" \in objects THEN "stateDownload" ELSE "init"
AfterPlan(p, objects) == IF objects \cap StateKeys # {} THEN "stateDownload" ELSE "init"
TaintedExists(p) ==
    LET tainted == {k \in {"tainted"} : state[k] # NoFile} IN
    Call(p, "taintedExists",
         IF "plan" \in found[p] THEN "planDownload" ELSE AfterPlan(p, tainted),
         /\ found' = [found EXCEPT ![p] = @ \cup tainted]
         /\ key' = [key EXCEPT ![p] = IF tainted = {} THEN @ ELSE "tainted"]
         /\ UNCHANGED <<bucket, infra, local, planFile>>)
PlanDownload(p) ==
    \/ /\ plan.stored
       /\ Call(p, "planDownload", AfterPlan(p, found[p]),
               /\ planFile' = [planFile EXCEPT ![p] = plan]
               /\ UNCHANGED <<bucket, infra, found, key, local>>)
    \/ /\ pc[p] = "planDownload" /\ ~plan.stored
       /\ Refused(p) /\ UNCHANGED <<bucket, infra, files, history>>
(* `output` on the downloaded file follows.  It changes nothing, and its   *)
(* error ends the put as one after the download does.                      *)
StateDownload(p) ==
    \/ /\ state[key[p]] # NoFile
       /\ Call(p, "stateDownload", "init", SetLocal(p, state[key[p]]))
    \/ /\ pc[p] = "stateDownload" /\ state[key[p]] = NoFile
       /\ Refused(p) /\ UNCHANGED <<bucket, infra, files, history>>

MainCommand(p) == req[p].kind
InitWithoutBackend(p) ==
    Call(p, "init", IF req[p].imports THEN "import" ELSE MainCommand(p),
         UNCHANGED <<bucket, infra, files>>)

(* ImportWithLegacyStorage writes the local file only. *)
Import(p) ==
    \/ /\ Existing \in local[p].recorded
       /\ Call(p, "import", MainCommand(p), UNCHANGED <<bucket, infra, files>>)
    \/ /\ Existing \in infra \ local[p].recorded
       /\ Call(p, "import", MainCommand(p),
               SetLocal(p, Rewritten(p, local[p].recorded \cup {Existing})))
    \/ /\ pc[p] = "import" /\ Existing \notin infra \cup local[p].recorded
       /\ Refused(p) /\ UNCHANGED <<bucket, infra, files, history>>

-----------------------------------------------------------------------------
(* attemptApply. *)
CanApply(p) == req[p].planRun => planFile[p] = PlanFor(local[p])
BadApplyStart(p) ==
    /\ pc[p] = "apply"
    /\ Continue(p, "applying")
    /\ state' = Without("tainted")
    /\ UNCHANGED <<plan, infra, files, history>>
ApplyStart(p) ==
    /\ pc[p] = "apply"
    /\ \/ CanApply(p) /\ Continue(p, "applying")
       \/ ~CanApply(p) /\ Refused(p)
       \/ Fault(p)
    /\ UNCHANGED <<bucket, infra, files, history>>
ApplyProvision(p) ==
    /\ pc[p] = "applying" /\ p \notin infra
    /\ infra' = infra \cup {p}
    /\ UNCHANGED <<bucket, pc, req, cause, reply, faults, kills, files, history>>
ApplyEnd(p) ==
    /\ pc[p] = "applying"
    /\ \/ /\ Continue(p, IF key[p] = "tainted" THEN "untaint" ELSE "upload")
          /\ SetLocal(p, IF p \in infra \/ local[p] = NoFile
                         THEN Rewritten(p, local[p].recorded \cup ({p} \cap infra))
                         ELSE local[p])
       \/ /\ Refused(p)
          /\ SetLocal(p, IF p \in infra
                         THEN Rewritten(p, local[p].recorded \cup {p}) ELSE local[p])
    /\ UNCHANGED history

(* The tainted file is deleted before the state is uploaded. *)
BadUntaint(p) ==
    Call(p, "untaint", "upload",
         /\ key' = [key EXCEPT ![p] = "state"]
         /\ UNCHANGED <<bucket, infra, found, local, planFile>>)
Untaint(p) ==
    /\ pc[p] = "untaint"
    /\ \/ Continue(p, "upload") /\ state' = Without(key[p]) /\ key' = [key EXCEPT ![p] = "state"]
       \/ Fault(p) /\ state' \in {state, Without(key[p])} /\ UNCHANGED key
    /\ UNCHANGED <<plan, infra, found, local, planFile, history>>
UploadState(p) == Call(p, "upload", "planCheck", Upload(key[p], local[p]))
PlanCheck(p) ==
    Call(p, "planCheck", IF plan.stored THEN "planDelete" ELSE "output",
         UNCHANGED <<bucket, infra, files>>)
PlanDelete(p) == Call(p, "planDelete", "output", SetPlan(NoPlan))
Output(p) == Call(p, "output", "tfVersion", UNCHANGED <<bucket, infra, files>>)

(* attemptDestroy. *)
DestroyStart(p) ==
    Call(p, "destroy", "destroying", UNCHANGED <<bucket, infra, files>>)
Destroys(p, gone) ==
    /\ infra' = infra \ gone
    /\ local' = [local EXCEPT ![p] = IF @ = NoFile THEN @
                                     ELSE Rewritten(p, @.recorded \ gone)]
    /\ UNCHANGED <<bucket, found, key, planFile>>
DestroyEnd(p) ==
    /\ pc[p] = "destroying"
    /\ \/ Destroys(p, local[p].recorded) /\ Continue(p, "destroyPlan")
       \/ \E gone \in SUBSET local[p].recorded : Destroys(p, gone) /\ Refused(p)
    /\ UNCHANGED history
DestroyPlan(p) == Call(p, "destroyPlan", "destroyState", SetPlan(NoPlan))
DestroyState(p) ==
    Call(p, "destroyState", IF CleaningUp(p) THEN "done" ELSE "tfVersion", Delete(key[p]))

(* uploadTaintedStatefile: an error of the deletion does not stop it, and  *)
(* a put without a local state file has nothing to upload.                 *)
BadTaintDelete(p) ==
    /\ pc[p] = "taintDelete" /\ Continue(p, "taintUpload")
    /\ state' = Without(key[p])
    /\ key' = [key EXCEPT ![p] = IF @ = "tainted" THEN "taintedTwice" ELSE "tainted"]
    /\ UNCHANGED <<plan, infra, found, local, planFile, history>>
TaintDelete(p) ==
    /\ pc[p] = "taintDelete"
    /\ \/ Continue(p, "taintUpload") /\ state' = Without(key[p])
       \/ /\ Faulty(p, "taintUpload") /\ UNCHANGED cause
          /\ state' \in {state, Without(key[p])}
    /\ key' = [key EXCEPT ![p] = "tainted"]
    /\ undeleted' = (undeleted \/ (key[p] = "state" /\ state'["state"] # NoFile))
    /\ UNCHANGED <<plan, infra, found, local, planFile, began, unsaved, met>>
TaintUpload(p) ==
    /\ pc[p] = "taintUpload"
    /\ \/ /\ local[p] # NoFile /\ Upload(key[p], local[p])
          /\ Continue(p, "done") \/ Fault(p)
       \/ /\ UNCHANGED <<bucket, infra, files>>
          /\ Fault(p) \/ (local[p] = NoFile /\ Refused(p))
    /\ unsaved' = (unsaved \/ state'[key[p]] # local[p])
    /\ UNCHANGED <<began, undeleted, met>>

(* attemptPlan. *)
Plan(p) ==
    Call(p, "plan", "planUpload",
         /\ planFile' = [planFile EXCEPT ![p] = PlanFor(local[p])]
         /\ UNCHANGED <<bucket, infra, found, key, local>>)
PlanUpload(p) == Call(p, "planUpload", "tfVersion", SetPlan(planFile[p]))

(* buildMetadata: an error of terraform -v is reported as a success. *)
TfVersion(p) ==
    /\ pc[p] = "tfVersion"
    /\ \/ Goto(p, "done") /\ reply' = [reply EXCEPT ![p] = "version"] /\ UNCHANGED faults
       \/ /\ faults < MaxFaults /\ faults' = faults + 1
          /\ Goto(p, "done") /\ reply' = [reply EXCEPT ![p] = "empty"]
    /\ UNCHANGED <<bucket, infra, req, cause, kills, files, history>>

(* The build is aborted, and with it the local state file is lost. *)
Kill(p) ==
    /\ Running(p)
    /\ kills < MaxKills
    /\ kills' = kills + 1
    /\ Goto(p, "killed")
    /\ cause' = [cause EXCEPT ![p] = pc[p]]
    /\ \E gone \in SUBSET (IF pc[p] = "destroying" THEN local[p].recorded ELSE {}) :
           infra' = infra \ gone
    /\ UNCHANGED <<bucket, req, reply, faults, files, history>>

-----------------------------------------------------------------------------
Step(p) ==
    \/ StateExists(p) \/ PlanExists(p) \/ TaintedExists(p)
    \/ PlanDownload(p) \/ StateDownload(p) \/ InitWithoutBackend(p) \/ Import(p)
    \/ ApplyStart(p) \/ ApplyEnd(p) \/ Untaint(p) \/ UploadState(p)
    \/ PlanCheck(p) \/ PlanDelete(p) \/ Output(p)
    \/ DestroyStart(p) \/ DestroyEnd(p) \/ DestroyPlan(p) \/ DestroyState(p)
    \/ TaintDelete(p) \/ TaintUpload(p)
    \/ Plan(p) \/ PlanUpload(p) \/ TfVersion(p)

AllEnded == (\A p \in Puts : pc[p] \in {"done", "killed"}) /\ UNCHANGED vars

Next ==
    \/ \E p \in Puts : Start(p) \/ Step(p) \/ ApplyProvision(p) \/ Kill(p)
    \/ AllEnded

Spec == Init /\ [][Next]_vars

(* A container that has been started goes on. *)
PutsGoOn == \A p \in Puts : WF_vars(Step(p))
FairSpec == Spec /\ PutsGoOn
-----------------------------------------------------------------------------
(* Properties.  Those that speak of what the bucket records hold as long   *)
(* as the puts of the env run one after the other.                         *)

(* Where an instance is known: in the bucket, or in the container of a put *)
(* that is not over and can still upload it.                               *)
Recorded(i) ==
    \/ \E k \in StateKeys : i \in state[k].recorded
    \/ \E p \in Puts : Running(p) /\ (i \in local[p].recorded \/ (i = p /\ pc[p] = "applying"))
Forgotten == {i \in Puts \cap infra : ~Recorded(i)}

(* A put that fails uploads the state it has, with whatever an unsuccessful*)
(* apply or destroy has left, so that failures alone make the bucket forget*)
(* an instance only when the upload of a tainted state file fails, or when *)
(* an old state file was left beside a tainted one.                        *)
FailuresForgetNothing ==
    ~met /\ kills = 0 /\ ~undeleted /\ ~unsaved => Forgotten = {}

(* An aborted build loses what its own apply has made.  What earlier puts  *)
(* have made is lost as well in two places only, where their state file is *)
(* deleted before the new one is uploaded: when the put untaints and when  *)
(* it taints the state file.                                               *)
Unsafe(p) == pc[p] = "killed" /\ (\/ cause[p] = "taintUpload"
                                  \/ cause[p] = "upload" /\ "tainted" \in found[p])
AbortsForgetInWindows ==
    ~met /\ faults = 0 =>
        \A i \in Forgotten : pc[i] = "killed" \/ \E p \in Puts : Unsafe(p)

(* The bucket never holds both a state file and a tainted one, whoever     *)
(* fails or is aborted, unless the deletion of an original has failed.     *)
OneStateFile == ~met /\ ~undeleted => \E k \in StateKeys : state[k] = NoFile

(* A put that reports a destroy has destroyed every instance that the      *)
(* bucket recorded when it started, tainted or not.  After the deletion of *)
(* an original has failed it does not: it only takes the older one of the  *)
(* two state files, and leaves what the tainted one records.               *)
DestroysOneStateFile ==
    ~met /\ ~undeleted =>
        \A p \in Puts :
            req[p].kind = "destroy" /\ reply[p] = "version" => began[p] \cap infra = {}

(* Every put that has started returns or is aborted, also when the object  *)
(* it has just found is gone and when its cleanup fails: a put starts      *)
(* once, so from some time on none is running.                             *)
LegacyPutReturns == <>[](\A p \in Puts : ~Running(p))
=============================================================================
