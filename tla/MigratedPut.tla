------------------------------ MODULE MigratedPut ------------------------------
(***************************************************************************)
(* A put with migrated_from_storage: MigratedFromStorageAction of          *)
(* terraform/migrated_from_storage_action.go, as runWithMigratedFromStorage*)
(* of out/out.go runs it.                                                  *)
(*                                                                         *)
(* attemptApply, attemptPlan and attemptDestroy each begin by moving the   *)
(* env's legacy state file, if there is one, into a new workspace; the     *)
(* rest is what BackendPut does.  So pc is at the first command of         *)
(* BackendPut's attempt (Entries) while move says how far the migration    *)
(* is, and an error of the migration leads where an error of that command  *)
(* leads.                                                                  *)
(***************************************************************************)
EXTENDS BackendPut

VARIABLES
    bucket,     \* the state files of each env in the bucket, by key
    key,        \* StateFile.RemotePath of each put
    local,      \* the state file each put has downloaded
    move,       \* the next step of each put's migration
    legacy,     \* history: the envs that were deployed to the legacy storage
    held        \* history: what the bucket recorded of its env when a put started

migration == <<bucket, key, local, move, legacy, held>>
migratedVars == <<vars, migration>>

StateKeys == {"state", "tainted"}
Keys == StateKeys \cup {"migrated"}
Files == [recorded : SUBSET Instances, version : Versions]
NoFile == [recorded |-> {}, version |-> NoVersion]
LegacyFile(e) == [recorded |-> {e}, version |-> [lineage |-> e, serial |-> 1]]

Entries == {"list", "planSelect", "destroySelect"}
MoveSteps == {"exists", "tainted", "download", "new", "push", "keep", "delete", "done"}

(* The type invariant. *)
MigratedTypeOK ==
    /\ TypeOK
    /\ bucket \in [Envs -> [Keys -> Files]]
    /\ key \in [Puts -> StateKeys]
    /\ local \in [Puts -> Files]
    /\ move \in [Puts -> MoveSteps]
    /\ legacy \subseteq Envs
    /\ held \in [Puts -> SUBSET Instances]

(* Of an env that was deployed to the legacy storage the bucket holds the  *)
(* state file of a successful put or of a failed one.                      *)
MigratedInit ==
    /\ Init
    /\ legacy \in SUBSET Envs
    /\ \E at \in [legacy -> StateKeys] :
           bucket = [e \in Envs |-> [k \in Keys |->
                        IF e \in legacy /\ k = at[e] THEN LegacyFile(e) ELSE NoFile]]
    /\ key = [p \in Puts |-> "state"]
    /\ local = [p \in Puts |-> NoFile]
    /\ move = [p \in Puts |-> "exists"]
    /\ held = [p \in Puts |-> {}]

-----------------------------------------------------------------------------
MoveTo(p, step) == move' = [move EXCEPT ![p] = step]

(* A call of the migration, which fails like the command pc is at.  A      *)
(* cleanup begins with a migration of its own.                             *)
Attempt(p, from, can, effect, success) ==
    /\ pc[p] \in Entries /\ move[p] = from
    /\ \/ can /\ effect /\ success
       \/ can /\ effect /\ Fault(p) /\ MoveTo(p, "exists")
       \/ UNCHANGED <<clientVars, bucket, key, local>> /\ MoveTo(p, "exists")
          /\ (Fault(p) \/ (~can /\ Refused(p)))
    /\ UNCHANGED <<history, legacy, held>>
Proceed(p, to) == MoveTo(p, to) /\ UNCHANGED control

Found(p, k) == bucket[Env(p)][k] # NoFile

(* StateFile.Exists, and ExistsAsTainted with ConvertToTainted.            *)
LegacyExists(p) ==
    Attempt(p, "exists", TRUE, UNCHANGED <<clientVars, bucket, key, local>>,
            Proceed(p, IF Found(p, key[p]) THEN "download" ELSE "tainted"))

(* Mutant: the state file of a failed put is not looked for. *)
BadLegacyExistsAsTainted(p) ==
    Attempt(p, "tainted", TRUE, UNCHANGED <<clientVars, bucket, key, local>>,
            Proceed(p, "done"))
LegacyExistsAsTainted(p) ==
    Attempt(p, "tainted", TRUE,
            /\ key' = [key EXCEPT ![p] = IF Found(p, "tainted") THEN "tainted" ELSE @]
            /\ UNCHANGED <<clientVars, bucket, local>>,
            Proceed(p, IF Found(p, "tainted") THEN "download" ELSE "done"))

(* Mutants: the workspace is not made from the state file; the file is     *)
(* deleted as soon as it is downloaded.                                    *)
BadLegacyDownload(p) ==
    Attempt(p, "download", TRUE, UNCHANGED <<clientVars, bucket, key, local>>,
            Proceed(p, "keep"))
BadDownloadAndDelete(p) ==
    Attempt(p, "download", Found(p, key[p]),
            /\ local' = [local EXCEPT ![p] = bucket[Env(p)][key[p]]]
            /\ bucket' = [bucket EXCEPT ![Env(p)][key[p]] = NoFile]
            /\ UNCHANGED <<clientVars, key>>,
            Proceed(p, "new"))
LegacyDownload(p) ==
    Attempt(p, "download", Found(p, key[p]),
            /\ local' = [local EXCEPT ![p] = bucket[Env(p)][key[p]]]
            /\ UNCHANGED <<clientVars, bucket, key>>,
            Proceed(p, "new"))

(* WorkspaceNewFromExistingStateFile: `workspace new -state`, which can    *)
(* fail when the workspace has been created and before its state is        *)
(* written, then `state push`, which refuses a state that has moved on.    *)
NewFromState(p) ==
    \/ Attempt(p, "new", CanWorkspaceNew(Env(p)),
               /\ spaces' = spaces \cup {Env(p)}
               /\ res' = [res EXCEPT ![Env(p)] = local[p].recorded]
               /\ version' = [version EXCEPT ![Env(p)] = local[p].version]
               /\ sel' = [sel EXCEPT ![p] = Env(p)]
               /\ UNCHANGED <<stored, lock, infra, planFile, bucket, key, local>>,
               Proceed(p, "push"))
    \/ /\ pc[p] \in Entries /\ move[p] = "new" /\ CanWorkspaceNew(Env(p))
       /\ WorkspaceNew(p, Env(p), Env(p))
       /\ Fault(p) /\ MoveTo(p, "exists")
       /\ UNCHANGED <<bucket, key, local, history, legacy, held>>
CanStatePush(p) ==
    /\ Free(sel[p])
    /\ version[sel[p]].lineage = local[p].version.lineage
    /\ version[sel[p]].serial <= local[p].version.serial
StatePush(p) ==
    Attempt(p, "push", CanStatePush(p),
            /\ res' = [res EXCEPT ![sel[p]] = local[p].recorded]
            /\ UNCHANGED <<spaces, version, stored, lock, infra, container, bucket, key, local>>,
            Proceed(p, IF pc[p] = "destroySelect" THEN "delete" ELSE "keep"))

(* Mutants: the legacy state file stays; the StateFile that is deleted     *)
(* next is the one that has just been uploaded.                            *)
BadLegacyKeep(p) ==
    Attempt(p, "keep", TRUE,
            /\ bucket' = [bucket EXCEPT ![Env(p)]["migrated"] = local[p]]
            /\ UNCHANGED <<clientVars, key, local>>,
            Proceed(p, "done"))
BadConvertToMigrated(p) ==
    Attempt(p, "keep", TRUE,
            /\ bucket' = [bucket EXCEPT ![Env(p)]["migrated"] = local[p]]
            /\ key' = [key EXCEPT ![p] = "migrated"]
            /\ UNCHANGED <<clientVars, local>>,
            Proceed(p, "delete"))

(* Apply and Plan keep a copy under ConvertToMigrated's key, and all       *)
(* delete the file.                                                        *)
LegacyKeep(p) ==
    Attempt(p, "keep", TRUE,
            /\ bucket' = [bucket EXCEPT ![Env(p)]["migrated"] = local[p]]
            /\ UNCHANGED <<clientVars, key, local>>,
            Proceed(p, "delete"))
AfterWorkspace(p) ==
    IF req[p].kind = "apply" /\ req[p].imports THEN "importCheck" ELSE req[p].kind
(* Mutant: an error of the deletion is dropped. *)
BadLegacyDelete(p) ==
    Attempt(p, "delete", TRUE,
            /\ bucket' \in {bucket, [bucket EXCEPT ![Env(p)][key[p]] = NoFile]}
            /\ UNCHANGED <<clientVars, key, local>>,
            /\ MoveTo(p, "done")
            /\ Continue(p, IF pc[p] = "destroySelect" THEN pc[p] ELSE AfterWorkspace(p)))
LegacyDelete(p) ==
    Attempt(p, "delete", TRUE,
            /\ bucket' = [bucket EXCEPT ![Env(p)][key[p]] = NoFile]
            /\ UNCHANGED <<clientVars, key, local>>,
            /\ MoveTo(p, "done")
            /\ Continue(p, IF pc[p] = "destroySelect" THEN pc[p] ELSE AfterWorkspace(p)))

Migrate(p) ==
    \/ LegacyExists(p) \/ LegacyExistsAsTainted(p) \/ LegacyDownload(p)
    \/ NewFromState(p) \/ StatePush(p) \/ LegacyKeep(p) \/ LegacyDelete(p)

(* The build is aborted in `workspace new -state`, when the workspace has  *)
(* been created and before its state is written.                           *)
KillNewFromState(p) ==
    /\ pc[p] \in Entries /\ move[p] = "new" /\ CanWorkspaceNew(Env(p))
    /\ kills < MaxKills
    /\ kills' = kills + 1
    /\ WorkspaceNew(p, Env(p), Env(p))
    /\ Goto(p, "killed")
    /\ UNCHANGED <<req, cause, reply, faults, history, migration>>

-----------------------------------------------------------------------------
(* WorkspaceNewIfNotExists: an apply imports afterwards, with plan_run as  *)
(* well, and a plan does not.                                              *)
MigratedSelect(p) ==
    Call(p, "select", AfterWorkspace(p), CanWorkspaceSelect(Env(p)), WorkspaceSelect(p, Env(p)))
MigratedNew(p) ==
    Call(p, "new", AfterWorkspace(p), CanWorkspaceNew(Env(p)), WorkspaceNew(p, Env(p), Env(p)))

(* The commands that are those of Action. *)
ActionStep(p) ==
    /\ pc[p] \in Entries => move[p] = "done"
    /\ \/ Setup(p) \/ PlanSelect(p) \/ PlanOutput(p)
       \/ List(p) \/ MigratedSelect(p) \/ MigratedNew(p)
       \/ ImportCheck(p) \/ ImportResource(p)
       \/ ApplyStart(p) \/ ApplyEnd(p) \/ StateVersion(p) \/ Output(p)
       \/ PlanList(p) \/ PlanDelete(p)
       \/ PlanEnv(p) \/ JSONPlan(p)
       \/ SaveList(p) \/ SaveSelect(p) \/ SaveNew(p) \/ SaveApply(p)
       \/ DestroySelect(p) \/ DestroyStart(p) \/ DestroyEnd(p) \/ EnvDelete(p)
       \/ TfVersion(p)
    /\ MoveTo(p, IF pc'[p] = "destroySelect" THEN "exists" ELSE move[p])
    /\ UNCHANGED <<bucket, key, local, legacy, held>>

MigratedStart(p) ==
    /\ Start(p)
    /\ held' = [held EXCEPT ![p] = UNION {bucket[Env(p)][k].recorded : k \in StateKeys}]
    /\ UNCHANGED <<bucket, key, local, move, legacy>>

MigratedNext ==
    \/ \E p \in Puts :
           \/ MigratedStart(p) \/ Migrate(p) \/ ActionStep(p) \/ KillNewFromState(p)
           \/ (ApplyProvision(p) \/ Kill(p)) /\ UNCHANGED migration
    \/ AllEnded /\ UNCHANGED migration

MigratedSpec == MigratedInit /\ [][MigratedNext]_migratedVars

(* A container that has been started goes on: its steps are those of a     *)
(* single Go program and of the calls and commands it waits for.           *)
PutsGoOn == \A p \in Puts : WF_migratedVars(Migrate(p) \/ ActionStep(p))
MigratedFairSpec == MigratedSpec /\ PutsGoOn
-----------------------------------------------------------------------------
(* Properties. *)

(* Whoever fails, is aborted or migrates at the same time, an instance of  *)
(* the legacy env is recorded in the legacy state file or in the env's     *)
(* workspace until it is destroyed, and nothing that a put provisions is   *)
(* forgotten.                                                              *)
MigrationForgetsNothing ==
    /\ \A e \in legacy \cap infra :
           e \in res[e] \/ \E k \in StateKeys : e \in bucket[e][k].recorded
    /\ NoOrphans

(* Terraform changes the infrastructure of an env only when its legacy     *)
(* state file is gone: a state never goes on in two places.                *)
OneHome ==
    \A p \in Puts :
        pc[p] \in {"applying", "destroying"} => \A k \in StateKeys : ~Found(p, k)

(* A put that reports a destroy has destroyed what the env's workspace and *)
(* its legacy state file recorded when it started.                         *)
MigratedDestroyIsComplete ==
    \A p \in Puts :
        req[p].kind = "destroy" /\ reply[p] = "version" =>
            (held[p] \cup began[p].res) \cap infra = {}

(* The puts implement EnvStore, the bucket and the workspace together: the *)
(* migration never changes what an env knows, but when another put has     *)
(* migrated the env meanwhile and destroyed it, the env can know its       *)
(* instance again.                                                         *)
OnRecord(e) == res[e] \cup UNION {bucket[e][k].recorded : k \in StateKeys}
MovedStore == INSTANCE EnvStore WITH
    Restores <- TRUE,
    live <- infra,
    known <- [e \in Envs |-> OnRecord(e)],
    status <- [p \in Puts |-> Status(p)]
ImplementsMovedStore == MovedStore!Spec

(* The same without Restores: of puts that run one after the other no      *)
(* migration has an env know again what is gone.                           *)
SerialStore == INSTANCE EnvStore WITH
    Restores <- FALSE,
    live <- infra,
    known <- [e \in Envs |-> OnRecord(e)],
    status <- [p \in Puts |-> Status(p)]
ImplementsSerialStore == SerialStore!Spec

(* What the documentation says and the code does not do: the next put      *)
(* migrates the env.  A put that runs alone, on an env that is in one of   *)
(* the two places at least, only fails when one of its own commands fails  *)
(* on its own.                                                             *)
NextPutMigrates ==
    \A p \in Puts :
        /\ pc[p] = "done" /\ began[p].faults = faults
        /\ held[p] # {} /\ ~req[p].imports /\ ~req[p].planRun
        => cause[p] \in {"none", "applying", "destroying"}
=============================================================================
