-------------------------- MODULE MigratedPut_proofs --------------------------
(***************************************************************************)
(* Proofs about MigratedPut, for every set of puts, envs and requests and  *)
(* every number of faults and aborted builds.  What the commands do that   *)
(* are those of Action is taken from BackendPut_proofs.                    *)
(***************************************************************************)
EXTENDS MigratedPut, BackendPut_proofs

(* A step of a put that is not of the migration.                           *)
LEMMA ActionCases ==
    ASSUME NEW p \in Puts, ActionStep(p)
    PROVE  /\ Step(p) \/ MigratedSelect(p) \/ MigratedNew(p)
           /\ pc[p] \in Entries => move[p] = "done"
           /\ MoveTo(p, IF pc'[p] = "destroySelect" THEN "exists" ELSE move[p])
           /\ UNCHANGED <<bucket, key, local, legacy, held>>
BY DEF ActionStep, Step

LEMMA WorkspaceLabels ==
    ASSUME TypeOK, NEW p \in Puts
    PROVE  AfterWorkspace(p) \in {"importCheck", "apply", "plan", "destroy"}
BY RequestTypes DEF AfterWorkspace

LEMMA ActionTypes ==
    ASSUME TypeOK, NEW p \in Puts, ActionStep(p)
    PROVE  TypeOK'
<1>1. CASE Step(p)
  BY <1>1, StepTypes
<1>2. CASE MigratedSelect(p) \/ MigratedNew(p)
  <2>1. /\ AfterWorkspace(p) \in Labels /\ Env(p) \in Names
        /\ ClientTypeOK /\ ControlTypeOK /\ HistoryTypeOK
    BY RequestTypes, WorkspaceLabels DEF Labels, TypeOK
  <2>2. ControlTypeOK' /\ HistoryTypeOK'
    BY <1>2, <2>1, ControlTypes
       DEF MigratedSelect, MigratedNew, Call, Command, history, HistoryTypeOK
  <2>3. \/ WorkspaceSelect(p, Env(p)) \/ WorkspaceNew(p, Env(p), Env(p))
        \/ UNCHANGED clientVars
    BY <1>2 DEF MigratedSelect, MigratedNew, Call, Command
  <2>4. ClientTypeOK'
    <3>1. Env(p) \in Instances /\ {} \in SUBSET Instances
      BY RequestTypes DEF Instances
    <3> QED
      BY <2>1, <2>3, <3>1, ClientTypes
  <2> QED
    BY <2>2, <2>4 DEF TypeOK
<1> QED
  BY <1>1, <1>2, ActionCases

-----------------------------------------------------------------------------
(* What a call of the migration does to the control of its put: it fails,  *)
(* it goes on, or it was the last one.                                     *)
FailsOver(p, label, s) ==
    /\ label \in {"destroySelect", "done"} /\ s = "exists" /\ CleaningUp(p)'
    /\ label = "destroySelect" => CleansUp(p)
GoesOn(p, label, s) ==
    /\ cause' = cause
    /\ \/ label = pc[p] /\ s \in MoveSteps \ {"exists"}
       \/ /\ move[p] = "delete" /\ s = "done"
          /\ pc[p] # "destroySelect" /\ label = AfterWorkspace(p)
LEMMA MigrateControl ==
    ASSUME TypeOK, NEW p \in Puts, Migrate(p)
    PROVE  /\ pc[p] \in Entries /\ req' = req /\ reply' = reply
           /\ \A q \in Puts \ {p} : cause'[q] = cause[q]
           /\ ControlTypeOK' /\ HistoryTypeOK'
           /\ UNCHANGED <<stored, lock, infra, planFile, history, legacy, held>>
           /\ \E label \in Labels, s \in MoveSteps :
                 /\ Goto(p, label) /\ MoveTo(p, s)
                 /\ FailsOver(p, label, s) \/ GoesOn(p, label, s)
<1> DEFINE Leading == \E label \in Labels, s \in MoveSteps :
                 /\ Goto(p, label) /\ MoveTo(p, s)
                 /\ FailsOver(p, label, s) \/ GoesOn(p, label, s)
<1> DEFINE Controls == /\ req' = req /\ reply' = reply /\ ControlTypeOK'
                       /\ \A q \in Puts \ {p} : cause'[q] = cause[q]
<1>a. /\ pc \in [Puts -> Labels] /\ pc[p] # "none" /\ ControlTypeOK
      /\ cause \in [Puts -> Labels \cup {"none"}] /\ HistoryTypeOK
      /\ {"destroySelect", "done"} \subseteq Labels
      /\ AfterWorkspace(p) \in Labels
  BY WorkspaceLabels DEF TypeOK, ControlTypeOK, Labels, Ended
<1>b. ASSUME Fault(p) \/ Refused(p), MoveTo(p, "exists")
      PROVE  Leading /\ Controls
  <2>1. PICK label \in {"destroySelect", "done"} :
            Goto(p, label) /\ (label = "destroySelect" => CleansUp(p))
    BY <1>b DEF Fault, Refused, Fail
  <2>2. Controls /\ CleaningUp(p)'
    BY <1>a, <1>b, ControlTypes DEF Fault, Refused, Fail, CleaningUp
  <2>3. "exists" \in MoveSteps /\ FailsOver(p, label, "exists")
    BY <2>1, <2>2 DEF MoveSteps, FailsOver
  <2> QED
    BY <1>a, <1>b, <2>1, <2>2, <2>3
<1>c. ASSUME NEW s \in MoveSteps \ {"exists"}, Proceed(p, s)
      PROVE  Leading /\ Controls
  <2>1. Goto(p, pc[p]) /\ MoveTo(p, s) /\ cause' = cause
    BY <1>a, <1>c DEF Proceed, control, Goto
  <2>2. Controls
    BY <1>a, <1>c DEF Proceed, control, ControlTypeOK
  <2> QED
    BY <1>a, <2>1, <2>2 DEF GoesOn
<1> HIDE DEF Leading, Controls
<1>d. UNCHANGED history => HistoryTypeOK'
  BY <1>a DEF history, HistoryTypeOK
<1>e. {"tainted", "download", "new", "push", "keep", "delete", "done"} \subseteq MoveSteps \ {"exists"}
  BY DEF MoveSteps
<1>1. CASE LegacyExists(p)
  <2>1. (IF Found(p, key[p]) THEN "download" ELSE "tainted") \in MoveSteps \ {"exists"}
    BY DEF MoveSteps
  <2>2. ASSUME Proceed(p, IF Found(p, key[p]) THEN "download" ELSE "tainted")
        PROVE  Leading /\ Controls
    BY <2>1, <2>2, <1>c
  <2> QED
    BY <1>1, <1>b, <1>d, <2>2
       DEF LegacyExists, Attempt, clientVars, backend, container, Leading, Controls
<1>6. CASE LegacyExistsAsTainted(p)
  <2>1. (IF Found(p, "tainted") THEN "download" ELSE "done") \in MoveSteps \ {"exists"}
    BY DEF MoveSteps
  <2>2. ASSUME Proceed(p, IF Found(p, "tainted") THEN "download" ELSE "done")
        PROVE  Leading /\ Controls
    BY <2>1, <2>2, <1>c
  <2> QED
    BY <1>6, <1>b, <1>d, <2>2
       DEF LegacyExistsAsTainted, Attempt, clientVars, backend, container, Leading, Controls
<1>5. CASE LegacyDownload(p)
  BY <1>5, <1>b, <1>c, <1>d, <1>e
     DEF LegacyDownload, Attempt, clientVars, backend, container, Leading, Controls
<1>2. CASE NewFromState(p)
  BY <1>2, <1>b, <1>c, <1>d, <1>e
     DEF NewFromState, WorkspaceNew, Attempt, clientVars, backend, container, Leading, Controls
<1>3. CASE StatePush(p) \/ LegacyKeep(p)
  BY <1>3, <1>b, <1>c, <1>d, <1>e
     DEF StatePush, LegacyKeep, Attempt, clientVars, backend, container, Leading, Controls
<1>4. CASE LegacyDelete(p)
  <2>1. ASSUME MoveTo(p, "done"), move[p] = "delete",
               Continue(p, IF pc[p] = "destroySelect" THEN pc[p] ELSE AfterWorkspace(p))
        PROVE  Leading /\ Controls
    <3>1. PICK label \in {pc[p], AfterWorkspace(p)} :
              /\ Continue(p, label)
              /\ label # pc[p] => pc[p] # "destroySelect" /\ label = AfterWorkspace(p)
      BY <2>1
    <3>2. Goto(p, label) /\ cause' = cause /\ Controls
      BY <1>a, <3>1, ControlTypes DEF Continue, Controls
    <3> QED
      BY <1>a, <1>e, <2>1, <3>1, <3>2 DEF GoesOn, Leading
  <2> QED
    BY <1>4, <2>1, <1>b, <1>d
       DEF LegacyDelete, Attempt, clientVars, backend, container, Leading, Controls
<1> QED
  BY <1>1, <1>2, <1>3, <1>4, <1>5, <1>6 DEF Migrate, Leading, Controls

(* What a call of the migration does to the data, and where it leads.      *)
FromState(p) ==
    /\ CanWorkspaceNew(Env(p))
    /\ spaces' = spaces \cup {Env(p)}
    /\ res' = [res EXCEPT ![Env(p)] = local[p].recorded]
    /\ version' = [version EXCEPT ![Env(p)] = local[p].version]
    /\ sel' = [sel EXCEPT ![p] = Env(p)]
Pushed(p) ==
    /\ CanStatePush(p)
    /\ res' = [res EXCEPT ![sel[p]] = local[p].recorded]
    /\ UNCHANGED <<spaces, version, sel>>
Dropped(p) == bucket' = [bucket EXCEPT ![Env(p)][key[p]] = NoFile]

ClientStep(p) ==
    \/ UNCHANGED clientVars
    \/ move[p] = "new" /\ CanWorkspaceNew(Env(p)) /\ WorkspaceNew(p, Env(p), Env(p))
    \/ move[p] = "new" /\ FromState(p)
    \/ move[p] = "push" /\ Pushed(p)
BucketStep(p) ==
    \/ bucket' = bucket
    \/ move[p] = "keep" /\ bucket' = [bucket EXCEPT ![Env(p)]["migrated"] = local[p]]
    \/ move[p] = "delete" /\ Dropped(p)
FileStep(p) ==
    /\ \/ key' = key
       \/ move[p] = "tainted" /\ Found(p, "tainted") /\ key' = [key EXCEPT ![p] = "tainted"]
    /\ \/ local' = local
       \/ move[p] = "download" /\ local' = [local EXCEPT ![p] = bucket[Env(p)][key[p]]]
NextMove(p, s) ==
    /\ s = "tainted" => move[p] = "exists" /\ ~Found(p, key[p])
    /\ s = "download" =>
           \/ move[p] = "exists" /\ Found(p, key[p])
           \/ move[p] = "tainted" /\ Found(p, "tainted") /\ key' = [key EXCEPT ![p] = "tainted"]
    /\ s = "new" => /\ move[p] = "download" /\ Found(p, key[p])
                    /\ local' = [local EXCEPT ![p] = bucket[Env(p)][key[p]]]
    /\ s = "push" => move[p] = "new" /\ FromState(p)
    /\ s = "keep" => move[p] = "push" /\ Pushed(p)
    /\ s = "delete" => move[p] = "keep" \/ (move[p] = "push" /\ Pushed(p))
    /\ s = "done" => \/ move[p] = "tainted" /\ ~Found(p, "tainted")
                     \/ move[p] = "delete" /\ Dropped(p)

LEMMA MigrateData ==
    ASSUME MigratedTypeOK, NEW p \in Puts, Migrate(p)
    PROVE  ClientStep(p) /\ BucketStep(p) /\ FileStep(p) /\ NextMove(p, move'[p])
<1>a. /\ move \in [Puts -> MoveSteps] /\ key \in [Puts -> StateKeys]
      /\ \A s : MoveTo(p, s) => move'[p] = s
  BY DEF MigratedTypeOK, MoveTo
<1>b. \A s : Proceed(p, s) => move'[p] = s
  BY <1>a DEF Proceed
<1> USE DEF ClientStep, BucketStep, FileStep, NextMove
<1>1. CASE LegacyExists(p)
  BY <1>1, <1>a, <1>b DEF LegacyExists, Attempt
<1>2. CASE LegacyExistsAsTainted(p)
  BY <1>2, <1>a, <1>b DEF LegacyExistsAsTainted, Attempt
<1>3. CASE LegacyDownload(p)
  BY <1>3, <1>a, <1>b DEF LegacyDownload, Attempt
<1>4. CASE NewFromState(p)
  BY <1>4, <1>a, <1>b DEF NewFromState, Attempt, FromState
<1>5. CASE StatePush(p)
  BY <1>5, <1>a, <1>b DEF StatePush, Attempt, Pushed, container, clientVars
<1>6. CASE LegacyKeep(p)
  BY <1>6, <1>a, <1>b DEF LegacyKeep, Attempt
<1>7. CASE LegacyDelete(p)
  BY <1>7, <1>a, <1>b DEF LegacyDelete, Attempt, Dropped
<1> QED
  BY <1>1, <1>2, <1>3, <1>4, <1>5, <1>6, <1>7 DEF Migrate
-----------------------------------------------------------------------------
(* Types. *)
LEMMA LegacyFileType ==
    /\ NoVersion \in Versions /\ NoFile \in Files
    /\ \A e \in Envs : LegacyFile(e) \in Files
BY DEF NoVersion, Versions, NoFile, Files, LegacyFile, Instances

LEMMA MigrateTypes ==
    ASSUME MigratedTypeOK, NEW p \in Puts, Migrate(p)
    PROVE  MigratedTypeOK'
<1>a. /\ Env(p) \in Names /\ Env(p) \in Envs /\ sel[p] \in Names
      /\ local[p].recorded \in SUBSET Instances /\ local[p].version \in Versions
      /\ local \in [Puts -> Files] /\ key \in [Puts -> StateKeys]
      /\ bucket \in [Envs -> [Keys -> Files]] /\ TypeOK
      /\ NoFile \in Files /\ StateKeys \subseteq Keys
  BY RequestTypes, LegacyFileType DEF MigratedTypeOK, TypeOK, ClientTypeOK, Files, Keys
<1>b. /\ ClientStep(p) /\ BucketStep(p) /\ FileStep(p)
      /\ UNCHANGED <<stored, lock, infra, planFile, history, legacy, held>>
      /\ ControlTypeOK' /\ HistoryTypeOK'
      /\ \E s \in MoveSteps : MoveTo(p, s)
  BY <1>a, MigrateData, MigrateControl
<1>1. ClientTypeOK'
  <2>a. ClientTypeOK /\ p \in Instances /\ {} \in SUBSET Instances
    BY <1>a DEF TypeOK, Instances
  <2>1. CASE UNCHANGED clientVars
    BY <1>a, <2>a, <2>1, ClientTypes
  <2>2. CASE WorkspaceNew(p, Env(p), Env(p))
    BY <1>a, <2>a, <2>2, ClientTypes
  <2>3. CASE FromState(p)
    BY <1>a, <1>b, <2>3 DEF FromState, TypeOK, ClientTypeOK
  <2>4. CASE Pushed(p)
    BY <1>a, <1>b, <2>4 DEF Pushed, TypeOK, ClientTypeOK
  <2> QED
    BY <1>b, <2>1, <2>2, <2>3, <2>4 DEF ClientStep
<1>2. bucket' \in [Envs -> [Keys -> Files]]
  <2>1. "migrated" \in Keys /\ key[p] \in Keys /\ local[p] \in Files
    BY <1>a DEF Keys
  <2>2. \A k \in Keys, f \in Files :
            [bucket EXCEPT ![Env(p)][k] = f] \in [Envs -> [Keys -> Files]]
    BY <1>a
  <2>3. CASE bucket' = [bucket EXCEPT ![Env(p)]["migrated"] = local[p]]
    BY <2>1, <2>2, <2>3
  <2>4. CASE Dropped(p)
    BY <1>a, <2>1, <2>2, <2>4 DEF Dropped
  <2> QED
    BY <1>a, <1>b, <2>3, <2>4 DEF BucketStep
<1>3. key' \in [Puts -> StateKeys]
  BY <1>a, <1>b DEF FileStep, StateKeys
<1>4. local' \in [Puts -> Files]
  <2>1. bucket[Env(p)][key[p]] \in Files
    BY <1>a
  <2> QED
    BY <1>a, <1>b, <2>1 DEF FileStep
<1>5. move' \in [Puts -> MoveSteps] /\ legacy' \subseteq Envs
      /\ held' \in [Puts -> SUBSET Instances]
  BY <1>b DEF MoveTo, MigratedTypeOK
<1> QED
  BY <1>1, <1>2, <1>3, <1>4, <1>5, <1>b DEF MigratedTypeOK, TypeOK

(* The commands that are those of Action, seen as BackendPut sees them.    *)
LEMMA ActionMoves ==
    ASSUME TypeOK, OwnWorkspace, NEW p \in Puts, ActionStep(p)
    PROVE  \E label \in Labels : Moves(p, label)
<1>1. CASE Step(p)
  BY <1>1, StepMoves
<1>2. CASE MigratedSelect(p) \/ MigratedNew(p)
  <2>a. /\ AfterWorkspace(p) \in {"importCheck", "apply", "plan", "destroy"}
        /\ {"importCheck", "apply", "plan", "destroy", "destroySelect", "done"} \subseteq Labels
        /\ sel \in [Puts -> Names] /\ pc[p] \in {"select", "new"}
    BY <1>2, WorkspaceLabels
       DEF MigratedSelect, MigratedNew, Call, Command, TypeOK, ClientTypeOK, Labels, Ended
  <2>b. Refused(p) \/ Fault(p) =>
            \E label \in {"destroySelect", "done"} : Goto(p, label) /\ req' = req
    BY DEF Refused, Fault, Fail
  <2>1. CASE MigratedSelect(p)
    BY <2>1, <2>a, <2>b
       DEF MigratedSelect, WorkspaceSelect, Call, Command, Continue, Goto, Moves, Effect, Busy, Making,
           InSelected, Running, Ended, clientVars, backend, container
  <2>2. CASE MigratedNew(p)
    BY <2>2, <2>a, <2>b
       DEF MigratedNew, WorkspaceNew, Call, Command, Continue, Goto, Moves, Effect, Busy, Making,
           InSelected, Running, Ended, clientVars, backend, container
  <2> QED
    BY <1>2, <2>1, <2>2
<1> QED
  BY <1>1, <1>2, ActionCases

(* The first command of a put begins with a migration. *)
LEMMA SetupLeads ==
    ASSUME TypeOK, NEW p \in Puts, ActionStep(p), pc[p] \in {"idle", "setup"} \cup Ended
    PROVE  pc'[p] \in Entries \cup {"done"}
<1>1. Setup(p)
  BY DEF ActionStep, PlanSelect, PlanOutput, List, MigratedSelect, MigratedNew, ImportCheck,
         ImportResource, ApplyStart, ApplyEnd, StateVersion, Output, PlanList, PlanDelete, PlanEnv,
         JSONPlan, SaveList, SaveSelect, SaveNew, SaveApply, DestroySelect, DestroyStart,
         DestroyEnd, EnvDelete, TfVersion, Call, Command, Begin, Ended
<1>2. pc \in [Puts -> Labels]
  BY DEF TypeOK, ControlTypeOK
<1> QED
  BY <1>1, <1>2, RequestTypes DEF Setup, Continue, Goto, FirstCommand, Entries
-----------------------------------------------------------------------------
(* Where the state of an env is.  Puts only take files out of the bucket,  *)
(* so what a put has not found there is not there later either; and a put  *)
(* that goes on to terraform has looked for both files, or has deleted the *)
(* one that was there.                                                     *)
OneFile ==
    \A e \in Envs :
        /\ bucket[e]["state"] = NoFile \/ bucket[e]["tainted"] = NoFile
        /\ \A k \in StateKeys :
               bucket[e][k] = NoFile \/ (e \in legacy /\ bucket[e][k] = LegacyFile(e))
Moving == {"download", "new", "push", "keep", "delete"}
Placed(p) ==
    /\ key[p] = "tainted" \/ move[p] = "tainted" => ~Found(p, "state")
    /\ move[p] \in Moving => \A k \in StateKeys \ {key[p]} : ~Found(p, k)
    /\ move[p] = "done" \/ pc[p] \notin {"idle", "setup"} \cup Entries \cup Ended =>
           \A k \in StateKeys : ~Found(p, k)
    /\ pc[p] \notin Entries \cup Ended => move[p] \in {"exists", "done"}
Home == OneFile /\ \A p \in Puts : Placed(p)

BucketShrinks ==
    /\ \A e \in Envs : \A k \in StateKeys : bucket'[e][k] \in {bucket[e][k], NoFile}
    /\ legacy' = legacy /\ \A p \in Puts : Env(p)' = Env(p)

LEMMA ShrinkKeeps ==
    ASSUME MigratedTypeOK, BucketShrinks
    PROVE  /\ OneFile => OneFile'
           /\ \A p \in Puts, k \in StateKeys : Found(p, k)' => Found(p, k)
           /\ \A p \in Puts : Placed(p) /\ pc'[p] = pc[p] /\ key'[p] = key[p] /\ move'[p] = move[p]
                  => Placed(p)'
<1>1. \A p \in Puts : Env(p) \in Envs
  BY RequestTypes DEF MigratedTypeOK
<1>2. OneFile => OneFile'
  BY DEF BucketShrinks, OneFile, StateKeys
<1>3. \A p \in Puts, k \in StateKeys : Found(p, k)' => Found(p, k)
  BY <1>1 DEF BucketShrinks, Found
<1>4. ASSUME NEW p \in Puts, Placed(p), pc'[p] = pc[p], key'[p] = key[p], move'[p] = move[p]
      PROVE  Placed(p)'
  BY <1>3, <1>4 DEF Placed, StateKeys
<1> QED
  BY <1>2, <1>3, <1>4

LEMMA MigrateShrinks ==
    ASSUME MigratedTypeOK, NEW p \in Puts, Migrate(p)
    PROVE  /\ BucketShrinks
           /\ move[p] = "delete" /\ Dropped(p) => ~Found(p, key[p])' /\ key' = key
           /\ \A q \in Puts \ {p} : pc'[q] = pc[q] /\ key'[q] = key[q] /\ move'[q] = move[q]
                                   /\ local'[q] = local[q] /\ sel'[q] = sel[q]
<1>1. /\ bucket \in [Envs -> [Keys -> Files]] /\ Env(p) \in Envs /\ key[p] \in StateKeys
      /\ "migrated" \in Keys \ StateKeys /\ StateKeys \subseteq Keys
      /\ pc \in [Puts -> Labels] /\ key \in [Puts -> StateKeys] /\ move \in [Puts -> MoveSteps]
      /\ local \in [Puts -> Files] /\ sel \in [Puts -> Names]
  BY RequestTypes DEF MigratedTypeOK, TypeOK, ControlTypeOK, ClientTypeOK, Keys, StateKeys
<1>2. ClientStep(p) /\ BucketStep(p) /\ FileStep(p) /\ req' = req /\ legacy' = legacy
  BY MigrateData, MigrateControl DEF MigratedTypeOK
<1>3. \A q \in Puts : Env(q)' = Env(q)
  BY <1>2 DEF Env
<1>4. \A e \in Envs : \A k \in StateKeys : bucket'[e][k] \in {bucket[e][k], NoFile}
  <2>1. CASE bucket' = [bucket EXCEPT ![Env(p)]["migrated"] = local[p]]
    BY <1>1, <2>1
  <2>2. CASE Dropped(p)
    BY <1>1, <2>2 DEF Dropped
  <2> QED
    BY <1>2, <2>1, <2>2 DEF BucketStep
<1>5. move[p] = "delete" /\ Dropped(p) => ~Found(p, key[p])' /\ key' = key
  <2>1. ASSUME Dropped(p) PROVE bucket'[Env(p)][key[p]] = NoFile
    BY <1>1, <2>1 DEF Dropped
  <2> QED
    BY <2>1, <1>2, <1>3 DEF Found, FileStep
<1>6. \A q \in Puts \ {p} : pc'[q] = pc[q] /\ key'[q] = key[q] /\ move'[q] = move[q]
                               /\ local'[q] = local[q] /\ sel'[q] = sel[q]
  <2>1. PICK label \in Labels, s \in MoveSteps : Goto(p, label) /\ MoveTo(p, s)
    BY MigrateControl DEF MigratedTypeOK
  <2> QED
    BY <1>1, <1>2, <2>1 DEF Goto, MoveTo, FileStep, ClientStep, clientVars, container, WorkspaceNew,
                            FromState, Pushed
<1> QED
  BY <1>2, <1>3, <1>4, <1>5, <1>6 DEF BucketShrinks

LEMMA MigrateHome ==
    ASSUME MigratedTypeOK, Home, NEW p \in Puts, Migrate(p)
    PROVE  Home'
<1>a. /\ key \in [Puts -> StateKeys] /\ move \in [Puts -> MoveSteps] /\ pc \in [Puts -> Labels]
      /\ pc[p] \in Entries /\ Env(p) \in Envs
  BY MigrateControl, RequestTypes DEF MigratedTypeOK, TypeOK, ControlTypeOK
<1>b. /\ FileStep(p) /\ NextMove(p, move'[p])
      /\ OneFile' /\ \A k \in StateKeys : Found(p, k)' => Found(p, k)
      /\ move[p] = "delete" /\ Dropped(p) => ~Found(p, key[p])' /\ key' = key
  BY MigrateData, MigrateShrinks, ShrinkKeeps DEF Home
<1>1. \A q \in Puts \ {p} : Placed(q)'
  BY MigrateShrinks, ShrinkKeeps DEF Home
<1>2. /\ Placed(p)
      /\ Found(p, "state") => ~Found(p, "tainted")
  BY <1>a DEF Home, OneFile, Found
<1>3. PICK label \in Labels, s \in MoveSteps :
          /\ pc'[p] = label /\ move'[p] = s
          /\ FailsOver(p, label, s) \/ GoesOn(p, label, s)
  BY <1>a, MigrateControl DEF Goto, MoveTo, MigratedTypeOK
<1>c. key[p] \in StateKeys /\ (key'[p] = key[p] \/ (move[p] = "tainted" /\ key'[p] = "tainted"))
  BY <1>a, <1>b DEF FileStep
<1>4. key'[p] = "tainted" => ~Found(p, "state")
  BY <1>2, <1>c DEF Placed
<1>5. ASSUME FailsOver(p, label, s) PROVE Placed(p)'
  <2>1. move'[p] = "exists" /\ pc'[p] \in {"destroySelect", "done"}
    BY <1>3, <1>5 DEF FailsOver
  <2>2. \A k \in StateKeys : ~Found(p, k) => ~Found(p, k)'
    BY <1>b
  <2>3. "state" \in StateKeys /\ "exists" \notin Moving
    BY DEF StateKeys, Moving
  <2> QED
    BY <1>4, <2>1, <2>2, <2>3 DEF Placed, Entries, Ended
<1>6. ASSUME GoesOn(p, label, s) PROVE Placed(p)'
  <2>1. pc'[p] \in Entries \/ (pc'[p] \notin {"idle", "setup"} \cup Ended /\ move'[p] = "done")
    BY <1>a, <1>3, <1>6, WorkspaceLabels DEF GoesOn, Ended, MigratedTypeOK
  <2>2. move'[p] = "tainted" => ~Found(p, "state")
    BY <1>b, <1>2, <1>c DEF NextMove, Placed, StateKeys
  <2>3. move'[p] \in Moving => \A k \in StateKeys \ {key'[p]} : ~Found(p, k)
    <3>1. CASE move'[p] = "download"
      BY <1>a, <1>b, <1>2, <1>c, <3>1 DEF NextMove, Placed, StateKeys, FileStep
    <3>2. CASE move'[p] \in Moving \ {"download"}
      <4>1. move[p] \in Moving /\ key'[p] = key[p]
        BY <1>b, <1>c, <3>2 DEF NextMove, Moving
      <4> QED
        BY <1>2, <4>1 DEF Placed
    <3> QED
      BY <3>1, <3>2 DEF Moving
  <2>4. move'[p] = "done" => \A k \in StateKeys : ~Found(p, k)'
    <3>1. CASE move[p] = "tainted" /\ ~Found(p, "tainted")
      BY <1>b, <1>2, <3>1 DEF Placed, StateKeys
    <3>2. CASE move[p] = "delete" /\ Dropped(p)
      BY <1>b, <1>2, <1>c, <3>2 DEF Placed, Moving
    <3> QED
      BY <1>b, <3>1, <3>2 DEF NextMove
  <2> QED
    BY <1>b, <1>4, <2>1, <2>2, <2>3, <2>4 DEF Placed, StateKeys
<1> QED
  BY <1>b, <1>1, <1>3, <1>5, <1>6 DEF Home

(* The steps of the specification that are not of the migration.           *)
LEMMA ActionHome ==
    ASSUME MigratedTypeOK, Home, NEW p \in Puts, ActionStep(p), req' = req,
           \E label \in Labels : Goto(p, label)
    PROVE  Home'
<1>a. /\ move \in [Puts -> MoveSteps] /\ pc \in [Puts -> Labels] /\ TypeOK
      /\ UNCHANGED <<bucket, key, req, legacy>>
      /\ move' = [move EXCEPT ![p] = IF pc'[p] = "destroySelect" THEN "exists" ELSE move[p]]
      /\ pc[p] \in Entries => move[p] = "done"
  BY ActionCases DEF MigratedTypeOK, TypeOK, ControlTypeOK, MoveTo
<1>1. BucketShrinks
  BY <1>a DEF BucketShrinks, Env
<1>2. \A q \in Puts \ {p} : pc'[q] = pc[q] /\ key'[q] = key[q] /\ move'[q] = move[q]
  BY <1>a DEF Goto
<1>3. Placed(p)'
  <2>1. pc[p] \in {"idle", "setup"} \cup Ended => pc'[p] \in Entries \cup {"done"}
    BY <1>a, SetupLeads
  <2>2. /\ \A k \in StateKeys : Found(p, k)' => Found(p, k)
        /\ Placed(p)
    BY <1>1, ShrinkKeeps DEF Home
  <2>3. move'[p] = IF pc'[p] = "destroySelect" THEN "exists" ELSE move[p]
    BY <1>a
  <2>4. CASE pc'[p] = "destroySelect"
    BY <1>a, <2>2, <2>3, <2>4 DEF Placed, Moving, Entries, Ended, StateKeys
  <2>5. CASE pc'[p] # "destroySelect"
    BY <1>a, <2>1, <2>2, <2>3, <2>5 DEF Placed, Moving, Entries, Ended, StateKeys
  <2> QED
    BY <2>4, <2>5
<1> QED
  BY <1>1, <1>2, <1>3, ShrinkKeeps DEF Home

-----------------------------------------------------------------------------
(* What the migration carries.  From the download to the deletion a put    *)
(* has the file that was in the bucket, and from `workspace new` on the    *)
(* env's workspace is selected.  A workspace that still has the version of *)
(* the legacy file records no more than that file, and so does one that    *)
(* does not exist, so that `state push` cannot forget anything; and once   *)
(* it is done, the env's own instance is recorded in the workspace when    *)
(* the file is deleted.                                                    *)
Carried(p) ==
    /\ move[p] \in {"new", "push", "keep", "delete"} =>
           local[p] = LegacyFile(Env(p)) /\ Env(p) \in legacy
    /\ pc[p] \in Entries /\ move[p] \in {"push", "keep", "delete"} =>
           sel[p] = Env(p) /\ Env(p) # Default
AsInFile(e) ==
    /\ e \notin spaces => res[e] \subseteq {e}
    /\ e \in spaces \ {Default} /\ version[e].lineage = e =>
           version[e].serial >= 1 /\ (version[e].serial = 1 => res[e] = {e})
Kept(p) ==
    /\ pc[p] \in Entries /\ move[p] \in {"keep", "delete"}
    /\ Env(p) \in infra \/ \E k \in StateKeys : Found(p, k)
    => Env(p) \in res[Env(p)]
Unforgotten(e) ==
    e \in legacy \cap infra => e \in res[e] \/ \E k \in StateKeys : e \in bucket[e][k].recorded
Retains ==
    /\ \A e \in Envs : AsInFile(e) /\ Unforgotten(e)
    /\ \A p \in Puts : Kept(p)

MInv ==
    /\ MigratedTypeOK /\ IInv /\ Home
    /\ Default \in spaces /\ \A p \in Puts : Carried(p)
    /\ PlanNamesApart => Retains

(* What a call of the migration changes, given what its put carries.       *)
LEMMA MigrateWrites ==
    ASSUME MInv, NEW p \in Puts, Migrate(p)
    PROVE  /\ UNCHANGED <<lock, infra, legacy, req>> /\ spaces \subseteq spaces'
           /\ \A e \in Envs : e # Env(p) =>
                  version'[e] = version[e] /\ (e \in spaces' <=> e \in spaces)
           /\ \A n \in Names : n # Env(p) => res'[n] = res[n]
           /\ \/ UNCHANGED clientVars
              \/ /\ Env(p) \notin spaces /\ sel'[p] = Env(p)
                 /\ \/ version'[Env(p)].lineage = p /\ res' = res
                    \/ version'[Env(p)] = LegacyFile(Env(p)).version /\ res'[Env(p)] = {Env(p)}
              \/ /\ version[Env(p)].lineage = Env(p) /\ version[Env(p)].serial <= 1
                 /\ Env(p) \in spaces \ {Default}
                 /\ res'[Env(p)] = {Env(p)} /\ version' = version /\ sel' = sel
           /\ move'[p] \in {"push", "keep"} => res'[Env(p)] = {Env(p)} /\ sel'[p] = Env(p)
           /\ move'[p] = "push" => Env(p) \notin spaces
           /\ move'[p] = "delete" => \/ move[p] = "keep" /\ UNCHANGED clientVars
                                     \/ res'[Env(p)] = {Env(p)} /\ sel'[p] = Env(p)
<1>a. /\ ClientStep(p) /\ NextMove(p, move'[p])
      /\ UNCHANGED <<lock, infra, legacy, req, stored>>
  BY MigrateData, MigrateControl DEF MInv, MigratedTypeOK
<1>b. /\ Env(p) \in Names /\ Env(p) \in Envs /\ Envs \subseteq Names
      /\ res \in [Names -> SUBSET Instances]
      /\ version \in [Names -> Versions] /\ sel \in [Puts -> Names]
      /\ move \in [Puts -> MoveSteps] /\ pc[p] \in Entries
  BY RequestTypes, MigrateControl DEF MInv, MigratedTypeOK, TypeOK, ClientTypeOK, Names
<1>c. /\ move[p] \in {"new", "push"} => local[p] = LegacyFile(Env(p))
      /\ move[p] = "push" => sel[p] = Env(p) /\ Env(p) # Default
  BY <1>b DEF MInv, Carried
<1>d. /\ LegacyFile(Env(p)).recorded = {Env(p)}
      /\ LegacyFile(Env(p)).version = [lineage |-> Env(p), serial |-> 1]
  BY DEF LegacyFile
<1>e. move[p] = "new" /\ FromState(p) =>
        Env(p) \notin spaces /\ res'[Env(p)] = {Env(p)} /\ sel'[p] = Env(p)
  BY <1>b, <1>c, <1>d DEF FromState, CanWorkspaceNew
<1>f. move[p] = "push" /\ Pushed(p) => res'[Env(p)] = {Env(p)} /\ sel'[p] = Env(p)
  BY <1>b, <1>c, <1>d DEF Pushed
<1>g. /\ move'[p] \in {"push", "keep"} => res'[Env(p)] = {Env(p)} /\ sel'[p] = Env(p)
      /\ move'[p] = "push" => Env(p) \notin spaces
      /\ move'[p] = "delete" => \/ move[p] = "keep" /\ UNCHANGED clientVars
                                \/ res'[Env(p)] = {Env(p)} /\ sel'[p] = Env(p)
  BY <1>a, <1>e, <1>f DEF NextMove, ClientStep
<1> DEFINE Writes ==
        /\ spaces \subseteq spaces'
        /\ \A e \in Envs : e # Env(p) =>
               version'[e] = version[e] /\ (e \in spaces' <=> e \in spaces)
        /\ \A n \in Names : n # Env(p) => res'[n] = res[n]
        /\ \/ UNCHANGED clientVars
           \/ /\ Env(p) \notin spaces /\ sel'[p] = Env(p)
              /\ \/ version'[Env(p)].lineage = p /\ res' = res
                 \/ version'[Env(p)] = LegacyFile(Env(p)).version /\ res'[Env(p)] = {Env(p)}
           \/ /\ version[Env(p)].lineage = Env(p) /\ version[Env(p)].serial <= 1
              /\ Env(p) \in spaces \ {Default}
              /\ res'[Env(p)] = {Env(p)} /\ version' = version /\ sel' = sel
<1>1. CASE UNCHANGED clientVars
  <2>1. Writes
    BY <1>1 DEF clientVars, backend
  <2> QED
    BY <1>a, <1>g, <2>1
<1>2. CASE CanWorkspaceNew(Env(p)) /\ WorkspaceNew(p, Env(p), Env(p))
  <2>1. Writes
    BY <1>b, <1>2 DEF CanWorkspaceNew, WorkspaceNew
  <2> QED
    BY <1>a, <1>g, <2>1
<1>3. CASE move[p] = "new" /\ FromState(p)
  <2>1. Writes
    BY <1>b, <1>c, <1>d, <1>e, <1>3 DEF FromState
  <2> QED
    BY <1>a, <1>g, <2>1
<1>4. CASE move[p] = "push" /\ Pushed(p)
  <2>1. Writes
    BY <1>b, <1>c, <1>d, <1>f, <1>4 DEF Pushed, CanStatePush, Free
  <2> QED
    BY <1>a, <1>g, <2>1
<1> QED
  BY <1>a, <1>1, <1>2, <1>3, <1>4 DEF ClientStep

(* A call of the migration keeps what BackendPut promises. *)
LEMMA MigrateIInv ==
    ASSUME MInv, NEW p \in Puts, Migrate(p)
    PROVE  IInv'
<1>a. /\ MigratedTypeOK /\ TypeOK /\ IInv /\ pc[p] \in Entries
      /\ UNCHANGED <<lock, infra, legacy, req>> /\ spaces \subseteq spaces'
      /\ \A n \in Names : n # Env(p) => res'[n] = res[n]
      /\ \A q \in Puts : Env(q) \in Envs /\ Env(q)' = Env(q)
      /\ \A q \in Puts \ {p} : pc'[q] = pc[q] /\ sel'[q] = sel[q]
  BY MigrateWrites, MigrateShrinks, MigrateControl, RequestTypes
     DEF MInv, MigratedTypeOK, BucketShrinks
<1>b. PICK label \in Labels, s \in MoveSteps :
          /\ pc'[p] = label
          /\ FailsOver(p, label, s) \/ GoesOn(p, label, s)
  BY <1>a, MigrateControl DEF Goto, TypeOK, ControlTypeOK
<1>c. pc'[p] \in InSelected => move[p] = "delete"
  BY <1>a, <1>b DEF FailsOver, GoesOn, InSelected, Entries
<1>d. pc'[p] \notin Busy
  BY <1>a, <1>b, WorkspaceLabels DEF FailsOver, GoesOn, Busy, Entries
<1>1. TypeOK'
  BY <1>a, MigrateTypes DEF MigratedTypeOK
<1>2. OwnWorkspace'
  <2>1. move[p] = "delete" => sel'[p] = Env(p)
    <3>1. ASSUME move[p] = "delete" PROVE sel' = sel /\ sel[p] = Env(p)
      BY <1>a, <3>1, MigrateData DEF ClientStep, clientVars, container, MInv, Carried
    <3> QED
      BY <3>1
  <2> QED
    BY <1>a, <1>c, <2>1 DEF OwnWorkspace, IInv
<1>3. LockHeld'
  BY <1>a, <1>d DEF LockHeld, IInv, Busy
<1>4. PlanNamesApart => PlansRecordNothing'
  <2>1. \A e \in Envs : PlanName[e] \in Names
    BY DEF Names
  <2> QED
    BY <1>a, <2>1 DEF PlansRecordNothing, PlanNamesApart, IInv
<1>5. ASSUME PlanNamesApart, NEW q \in Puts \cap infra', pc'[q] \notin {"applying", "killedApply"}
      PROVE  Env(q)' \in spaces' /\ q \in res'[Env(q)']
  <2>1. Env(q) \in spaces /\ q \in res[Env(q)]
    BY <1>a, <1>5 DEF IInv, NoOrphans, Entries
  <2>2. q \in res'[Env(q)]
    <3>1. CASE Env(q) # Env(p)
      BY <1>a, <2>1, <3>1 DEF Names
    <3>2. CASE Env(q) = Env(p)
      <4>1. AsInFile(Env(p)) /\ version[Env(p)].serial \in Nat
        BY <1>5, <1>a DEF MInv, Retains, TypeOK, ClientTypeOK, Versions, Names
      <4>2. /\ version[Env(p)].lineage = Env(p) /\ version[Env(p)].serial <= 1
            /\ Env(p) \in spaces \ {Default}
            => res[Env(p)] \cap Puts = {}
        BY <1>a, <4>1, ClientAssumption DEF AsInFile
      <4>3. res'[Env(p)] = res[Env(p)]
        BY <2>1, <3>2, <4>2, MigrateWrites DEF clientVars, backend
      <4> QED
        BY <2>1, <3>2, <4>3
    <3> QED
      BY <3>1, <3>2
  <2> QED
    BY <1>a, <2>1, <2>2
<1>6. PlanNamesApart => NoOrphans'
  BY <1>5 DEF NoOrphans
<1> QED
  BY <1>1, <1>2, <1>3, <1>4, <1>6 DEF IInv, PlanNamesApart

LEMMA MigrateInvariant ==
    ASSUME MInv, NEW p \in Puts, Migrate(p)
    PROVE  MInv'
<1>a. /\ MigratedTypeOK /\ TypeOK /\ IInv /\ pc[p] \in Entries
      /\ UNCHANGED <<lock, infra, legacy, req>> /\ spaces \subseteq spaces'
      /\ \A q \in Puts : Env(q) \in Envs /\ Env(q)' = Env(q)
      /\ \A q \in Puts \ {p} : pc'[q] = pc[q] /\ sel'[q] = sel[q] /\ move'[q] = move[q]
                               /\ local'[q] = local[q]
      /\ Envs \subseteq Names
  BY MigrateWrites, MigrateShrinks, MigrateControl, RequestTypes
     DEF MInv, MigratedTypeOK, BucketShrinks, Names
<1>b. ClientStep(p) /\ BucketStep(p) /\ FileStep(p) /\ NextMove(p, move'[p])
  BY <1>a, MigrateData
<1>1. MigratedTypeOK' /\ IInv' /\ Home' /\ Default \in spaces'
  BY <1>a, MigrateTypes, MigrateIInv, MigrateHome DEF MInv
<1>2. \A q \in Puts \ {p} : Carried(q)'
  BY <1>a DEF MInv, Carried
<1>3. Carried(p)'
  <2>1. move'[p] = "new" => local'[p] = LegacyFile(Env(p)) /\ Env(p) \in legacy
    <3>1. /\ bucket[Env(p)][key[p]] # NoFile =>
                 bucket[Env(p)][key[p]] = LegacyFile(Env(p)) /\ Env(p) \in legacy
          /\ local \in [Puts -> Files]
      BY <1>a DEF MInv, Home, OneFile, MigratedTypeOK
    <3> QED
      BY <1>b, <3>1 DEF NextMove, Found
  <2>2. move'[p] \in {"push", "keep", "delete"} =>
            local'[p] = LegacyFile(Env(p)) /\ Env(p) \in legacy
    <3>1. move'[p] \in {"push", "keep", "delete"} => move[p] \in {"new", "push", "keep"}
      BY <1>b DEF NextMove
    <3>2. move[p] \in {"new", "push", "keep"} =>
              local' = local /\ local[p] = LegacyFile(Env(p)) /\ Env(p) \in legacy
      BY <1>b DEF FileStep, MInv, Carried
    <3> QED
      BY <3>1, <3>2
  <2>3. move'[p] \in {"push", "keep", "delete"} => sel'[p] = Env(p) /\ Env(p) # Default
    <3>1. CASE move'[p] = "push"
      BY <1>a, <3>1, MigrateWrites DEF MInv
    <3>2. CASE move'[p] \in {"keep", "delete"}
      <4>1. move[p] \in {"push", "keep"}
        BY <1>b, <3>2 DEF NextMove
      <4>2. sel[p] = Env(p) /\ Env(p) # Default
        BY <1>a, <4>1 DEF MInv, Carried
      <4>3. sel' = sel
        BY <1>b, <4>1 DEF ClientStep, clientVars, container, Pushed
      <4> QED
        BY <4>2, <4>3
    <3> QED
      BY <3>1, <3>2
  <2> QED
    BY <1>a, <2>1, <2>2, <2>3 DEF Carried
<1>4. ASSUME PlanNamesApart PROVE Retains'
  <2>a. Retains /\ infra' = infra /\ legacy' = legacy
    BY <1>4, <1>a DEF MInv
  <2>b. \A e \in Envs : e # Env(p) =>
            /\ version'[e] = version[e] /\ (e \in spaces' <=> e \in spaces) /\ res'[e] = res[e]
    BY <1>a, MigrateWrites
  <2>c. \A e \in Envs : e \in res[e] => e \in res'[e]
    <3>1. res'[Env(p)] \in {res[Env(p)], {Env(p)}}
      BY MigrateWrites DEF clientVars, backend
    <3> QED
      BY <1>a, <2>b, <3>1
  <2>d. \A q \in Puts, k \in StateKeys : Found(q, k)' => Found(q, k)
    BY <1>a, MigrateShrinks, ShrinkKeeps
  <2>1. ASSUME NEW e \in Envs PROVE AsInFile(e)'
    <3>1. CASE e # Env(p)
      BY <2>a, <2>b, <3>1 DEF Retains, AsInFile
    <3>2. CASE e = Env(p)
      <4>1. /\ LegacyFile(e).version.serial = 1 /\ {e} \cap Puts = {} /\ p # e
            /\ version[e].serial \in Nat
        BY <1>a, ClientAssumption
           DEF LegacyFile, TypeOK, ClientTypeOK, Versions, Names
      <4> QED
        BY <2>a, <3>2, <4>1, MigrateWrites DEF Retains, AsInFile, clientVars, backend
    <3> QED
      BY <3>1, <3>2
  <2>2. ASSUME NEW e \in Envs PROVE Unforgotten(e)'
    <3>1. CASE \A k \in StateKeys : bucket'[e][k] = bucket[e][k]
      BY <2>a, <2>c, <3>1 DEF Retains, Unforgotten
    <3>2. CASE \E k \in StateKeys : bucket'[e][k] # bucket[e][k]
      <4>1. e = Env(p) /\ move[p] = "delete"
        BY <1>a, <1>b, <3>2 DEF BucketStep, Dropped, MigratedTypeOK, StateKeys, Keys
      <4>2. Env(p) \in infra => Env(p) \in res[Env(p)]
        BY <1>a, <2>a, <4>1 DEF Retains, Kept
      <4> QED
        BY <2>a, <2>c, <4>1, <4>2 DEF Unforgotten
    <3> QED
      BY <3>1, <3>2
  <2>3. \A q \in Puts \ {p} : Kept(q)'
    BY <1>a, <2>a, <2>c, <2>d DEF Retains, Kept
  <2>4. Kept(p)'
    <3>1. move'[p] = "keep" => Env(p) \in res'[Env(p)]
      BY MigrateWrites
    <3>2. move'[p] = "delete" /\ (Env(p) \in infra \/ \E k \in StateKeys : Found(p, k)) =>
              Env(p) \in res'[Env(p)]
      BY <1>a, <2>a, <2>c, MigrateWrites DEF Retains, Kept
    <3> QED
      BY <1>a, <2>a, <2>d, <3>1, <3>2 DEF Kept
  <2> QED
    BY <2>1, <2>2, <2>3, <2>4 DEF Retains
<1> QED
  BY <1>1, <1>2, <1>3, <1>4 DEF MInv, PlanNamesApart

-----------------------------------------------------------------------------
(* The commands of Action.  Each write of a state increases its serial, so *)
(* that it no longer passes for the legacy file.                           *)
LEMMA MovesDefault ==
    ASSUME Default \in spaces, NEW p \in Puts, NEW label \in Labels, Moves(p, label), TypeOK
    PROVE  Default \in spaces'
<1>1. PlanOf(p) # Default
  BY RequestTypes, ClientAssumption DEF PlanOf
<1> QED
  BY <1>1 DEF Moves, Effect, WorkspaceNew, WorkspaceDelete, Import, SavePlan, TakeLock, ApplyEnds,
              DestroyEnds, backend

LEMMA MovesAsInFile ==
    ASSUME IInv, PlanNamesApart, NEW p \in Puts, NEW label \in Labels, Moves(p, label),
           NEW e \in Envs, AsInFile(e)
    PROVE  AsInFile(e)'
<1>1. /\ Env(p) \in Names /\ PlanOf(p) \in Names /\ PlanOf(p) # e /\ e \in Names
      /\ version \in [Names -> Versions] /\ version[e].serial \in Nat
      /\ res \in [Names -> SUBSET Instances] /\ p # e
  BY RequestTypes, ClientAssumption
     DEF IInv, TypeOK, ClientTypeOK, PlanNamesApart, PlanOf, Names, Versions
<1>2. pc[p] \in Busy => sel[p] = Env(p) /\ Env(p) \in spaces
  BY DEF IInv, OwnWorkspace, LockHeld, Busy, InSelected
<1>3. CASE \/ UNCHANGED <<backend, infra>> \/ TakeLock(p)
           \/ WorkspaceNew(p, Env(p), Env(p)) \/ WorkspaceNew(p, PlanOf(p), sel[p])
  BY <1>1, <1>3 DEF backend, TakeLock, WorkspaceNew, AsInFile
<1>4. CASE \/ WorkspaceDelete(Env(p)) \/ WorkspaceDelete(PlanOf(p)) \/ SavePlan(p, PlanOf(p))
  BY <1>1, <1>4 DEF WorkspaceDelete, SavePlan, Written, AsInFile
<1>5. CASE sel[p] = Env(p) /\ Import(p, Env(p))
  BY <1>1, <1>5 DEF Import, Written, AsInFile
<1>6. CASE pc[p] = "applying" /\ ApplyEnds(p)
  <2>1. CASE p \in infra
    BY <1>1, <1>2, <1>6, <2>1 DEF ApplyEnds, Written, AsInFile, Busy
  <2>2. CASE p \notin infra
    BY <1>1, <1>2, <1>6, <2>2 DEF ApplyEnds, AsInFile, Busy
  <2> QED
    BY <2>1, <2>2
<1>7. CASE pc[p] = "destroying" /\ \E gone \in SUBSET res[sel[p]] : DestroyEnds(p, gone)
  BY <1>1, <1>2, <1>7 DEF DestroyEnds, Written, AsInFile, Busy
<1> QED
  BY <1>3, <1>4, <1>5, <1>6, <1>7 DEF Moves, Effect

(* Only terraform destroy has an env forget its own instance. *)
LEMMA MovesDrop ==
    ASSUME IInv, PlanNamesApart, NEW p \in Puts, NEW label \in Labels, Moves(p, label),
           NEW e \in Envs, ~(res[e] \subseteq res'[e])
    PROVE  pc[p] = "destroying" /\ e = Env(p)
<1>1. /\ Env(p) \in Names /\ PlanOf(p) \in Names /\ PlanOf(p) # e /\ e \in Names
      /\ res \in [Names -> SUBSET Instances]
  BY RequestTypes DEF IInv, TypeOK, ClientTypeOK, PlanNamesApart, PlanOf, Names
<1>2. pc[p] \in Busy => sel[p] = Env(p)
  BY DEF IInv, OwnWorkspace, Busy, InSelected
<1>3. CASE \/ UNCHANGED <<backend, infra>> \/ TakeLock(p)
           \/ WorkspaceNew(p, Env(p), Env(p)) \/ WorkspaceNew(p, PlanOf(p), sel[p])
  BY <1>3 DEF backend, TakeLock, WorkspaceNew
<1>4. CASE \/ CanWorkspaceDelete(Env(p)) /\ WorkspaceDelete(Env(p))
           \/ WorkspaceDelete(PlanOf(p)) \/ SavePlan(p, PlanOf(p))
  BY <1>1, <1>4 DEF CanWorkspaceDelete, WorkspaceDelete, SavePlan
<1>5. CASE sel[p] = Env(p) /\ Import(p, Env(p))
  BY <1>1, <1>5 DEF Import
<1>6. CASE pc[p] = "applying" /\ ApplyEnds(p)
  BY <1>1, <1>2, <1>6 DEF ApplyEnds, Busy
<1>7. CASE pc[p] = "destroying" /\ \E gone \in SUBSET res[sel[p]] : DestroyEnds(p, gone)
  BY <1>1, <1>2, <1>7 DEF DestroyEnds, Busy
<1> QED
  BY <1>3, <1>4, <1>5, <1>6, <1>7 DEF Moves, Effect

LEMMA ActionInvariant ==
    ASSUME MInv, NEW p \in Puts, ActionStep(p)
    PROVE  MInv'
<1>a. /\ MigratedTypeOK /\ TypeOK /\ IInv /\ OwnWorkspace /\ Default \in spaces
  BY DEF MInv, MigratedTypeOK, IInv
<1>b. PICK label \in Labels : Moves(p, label)
  BY <1>a, ActionMoves
<1>c. /\ UNCHANGED <<bucket, key, local, legacy, held, req>>
      /\ move' = [move EXCEPT ![p] = IF pc'[p] = "destroySelect" THEN "exists" ELSE move[p]]
      /\ pc[p] \in Entries => move[p] = "done"
      /\ pc[p] \notin Ended /\ Goto(p, label)
      /\ sel' = [sel EXCEPT ![p] = sel'[p]]
  BY <1>b, ActionCases DEF MoveTo, Moves, Running
<1>d. /\ move \in [Puts -> MoveSteps] /\ sel \in [Puts -> Names] /\ pc \in [Puts -> Labels]
      /\ \A q \in Puts : Env(q) \in Envs /\ Env(q)' = Env(q)
  BY <1>a, <1>c, RequestTypes DEF MigratedTypeOK, TypeOK, ClientTypeOK, ControlTypeOK, Env
<1>e. /\ \A q \in Puts \ {p} : pc'[q] = pc[q] /\ sel'[q] = sel[q] /\ move'[q] = move[q]
      /\ move'[p] \in {"exists", move[p]}
  BY <1>c, <1>d DEF Goto
<1>f. pc'[p] \in Entries => move'[p] \notin {"push", "keep", "delete"}
  <2>1. move[p] \in {"exists", "done"}
    BY <1>c DEF MInv, Home, Placed
  <2> QED
    BY <1>e, <2>1
<1>1. MigratedTypeOK'
  <2>1. TypeOK'
    BY <1>a, ActionTypes
  <2>2. move' \in [Puts -> MoveSteps]
    BY <1>c, <1>d DEF MoveSteps
  <2> QED
    BY <1>a, <1>c, <2>1, <2>2 DEF MigratedTypeOK
<1>2. IInv'
  <2>1. OwnWorkspace' /\ LockHeld'
    BY <1>a, <1>b, MovesOwnWorkspace, MovesLockHeld DEF IInv
  <2>2. PlanNamesApart => PlansRecordNothing' /\ NoOrphans'
    BY <1>a, <1>b, MovesPlansRecordNothing, MovesNoOrphans DEF IInv
  <2> QED
    BY <1>1, <2>1, <2>2 DEF IInv, PlanNamesApart, MigratedTypeOK
<1>3. Home'
  BY <1>a, <1>c, ActionHome DEF MInv
<1>4. Default \in spaces'
  BY <1>a, <1>b, MovesDefault
<1>5. \A q \in Puts : Carried(q)'
  BY <1>c, <1>d, <1>e, <1>f DEF MInv, Carried
<1>6. ASSUME PlanNamesApart PROVE Retains'
  <2>1. Retains
    BY <1>6 DEF MInv
  <2>2. \A e \in Envs : AsInFile(e)'
    BY <1>6, <1>a, <1>b, <2>1, MovesAsInFile DEF Retains
  <2>3. \A e \in Envs : infra' \subseteq infra /\ res[e] \cap infra' \subseteq res'[e]
    BY <1>6, <1>a, <1>b, MovesKeepRecorded
  <2>4. \A e \in Envs : Unforgotten(e)'
    BY <1>c, <2>1, <2>3 DEF Retains, Unforgotten
  <2>5. ASSUME NEW q \in Puts PROVE Kept(q)'
    <3>1. \A k \in StateKeys : Found(q, k)' = Found(q, k)
      BY <1>c, <1>d DEF Found
    <3>2. q # p => pc'[q] = pc[q] /\ move'[q] = move[q]
      BY <1>e
    <3>3. ASSUME NEW k \in StateKeys, Found(q, k) PROVE res[Env(q)] \subseteq res'[Env(q)]
      <4>1. pc[p] = "destroying" => ~(Env(q) = Env(p))
        BY <1>a, <3>3 DEF MInv, Home, Placed, Found, Entries, Ended
      <4> QED
        BY <1>6, <1>a, <1>b, <1>d, <4>1, MovesDrop
    <3> QED
      BY <1>d, <1>f, <2>1, <2>3, <3>1, <3>2, <3>3 DEF Retains, Kept
  <2> QED
    BY <2>2, <2>4, <2>5 DEF Retains
<1> QED
  BY <1>1, <1>2, <1>3, <1>4, <1>5, <1>6 DEF MInv, PlanNamesApart

(* The steps that are not of a put's container, or are no commands. *)
LEMMA OtherInvariant ==
    ASSUME MInv, NEW p \in Puts,
           \/ MigratedStart(p)
           \/ (ApplyProvision(p) \/ Kill(p)) /\ UNCHANGED migration
    PROVE  MInv'
<1>a. MigratedTypeOK /\ IInv /\ \A q \in Puts : Env(q) \in Envs
  BY RequestTypes DEF MInv, MigratedTypeOK
<1>1. IInv'
  BY <1>a, StartInvariant, ProvisionInvariant, KillInvariant DEF MigratedStart
<1>2. /\ UNCHANGED <<bucket, key, local, move, legacy, req, spaces, res, version, sel>>
      /\ infra' \subseteq infra \cup {p}
      /\ \A q \in Puts : Env(q)' = Env(q)
      /\ \A q \in Puts : pc'[q] = pc[q] \/ (pc[q] = "idle" /\ pc'[q] = "setup") \/ pc'[q] \in Ended
  <2>1. pc \in [Puts -> Labels]
    BY <1>a DEF MigratedTypeOK, TypeOK, ControlTypeOK
  <2>2. CASE MigratedStart(p)
    BY <2>1, <2>2 DEF MigratedStart, Start, Continue, Goto, clientVars, backend, container, Env
  <2>3. CASE ApplyProvision(p) /\ UNCHANGED migration
    BY <2>3 DEF ApplyProvision, Provision, control, backend, container, migration, Env
  <2>4. CASE Kill(p) /\ UNCHANGED migration
    BY <2>1, <2>4 DEF Kill, Goto, backend, container, migration, Ended, Env
  <2> QED
    BY <2>2, <2>3, <2>4
<1>3. MigratedTypeOK'
  <2>1. held' \in [Puts -> SUBSET Instances]
    <3>1. UNION {bucket[Env(p)][k].recorded : k \in StateKeys} \in SUBSET Instances
      BY <1>a DEF MigratedTypeOK, Keys, Files
    <3> QED
      BY <1>a, <3>1 DEF MigratedTypeOK, MigratedStart, migration
  <2> QED
    BY <1>1, <1>2, <1>a, <2>1 DEF MigratedTypeOK, IInv
<1>4. Home'
  BY <1>2 DEF MInv, Home, OneFile, Placed, Found, Entries, Ended
<1>5. Default \in spaces' /\ \A q \in Puts : Carried(q)'
  BY <1>2 DEF MInv, Carried, Entries, Ended
<1>6. ASSUME PlanNamesApart PROVE Retains'
  <2>1. Retains /\ p \notin Envs
    BY <1>6, ClientAssumption DEF MInv
  <2>2. \A q \in Puts, k \in StateKeys : Found(q, k)' = Found(q, k)
    BY <1>2 DEF Found
  <2> QED
    BY <1>2, <1>a, <2>1, <2>2 DEF Retains, AsInFile, Unforgotten, Kept, Entries, Ended
<1> QED
  BY <1>1, <1>3, <1>4, <1>5, <1>6 DEF MInv, PlanNamesApart

(* An abort in `workspace new -state` leaves a workspace that records      *)
(* nothing, and the legacy state file.                                     *)
KilledNew(p) ==
    /\ pc[p] \in Entries /\ move[p] = "new" /\ Env(p) \notin spaces
    /\ spaces' = spaces \cup {Env(p)}
    /\ version' = [version EXCEPT ![Env(p)] = [lineage |-> p, serial |-> 0]]
    /\ sel' = [sel EXCEPT ![p] = Env(p)]
    /\ pc' = [pc EXCEPT ![p] = "killed"]
    /\ UNCHANGED <<res, stored, lock, infra, planFile, req, cause, reply, faults, history>>
    /\ UNCHANGED migration

LEMMA KillNewCases ==
    ASSUME NEW p \in Puts, KillNewFromState(p)
    PROVE  KilledNew(p) /\ kills < MaxKills /\ kills' = kills + 1
BY DEF KillNewFromState, KilledNew, CanWorkspaceNew, WorkspaceNew, Goto

LEMMA KillNewInvariant ==
    ASSUME MInv, NEW p \in Puts, KillNewFromState(p)
    PROVE  MInv'
<1>a. /\ MigratedTypeOK /\ TypeOK /\ IInv
      /\ pc \in [Puts -> Labels] /\ sel \in [Puts -> Names] /\ version \in [Names -> Versions]
      /\ KilledNew(p) /\ kills' = kills + 1
      /\ Env(p) \in Names /\ \A q \in Puts : Env(q) \in Envs /\ Env(q)' = Env(q)
      /\ Envs \subseteq Names /\ p \notin Envs
  BY RequestTypes, KillNewCases, ClientAssumption
     DEF MInv, MigratedTypeOK, IInv, TypeOK, ClientTypeOK, ControlTypeOK, KilledNew, Env, Names
<1>b. /\ pc'[p] = "killed"
      /\ \A q \in Puts \ {p} : pc'[q] = pc[q] /\ sel'[q] = sel[q]
      /\ \A n \in Names : n # Env(p) => version'[n] = version[n]
      /\ version'[Env(p)].lineage = p
      /\ UNCHANGED <<bucket, key, local, move, legacy, held>>
  BY <1>a DEF KilledNew, migration
<1>1. TypeOK'
  <2>1. ClientTypeOK'
    BY <1>a DEF KilledNew, TypeOK, ClientTypeOK, Versions, Instances
  <2>2. ControlTypeOK' /\ HistoryTypeOK'
    BY <1>a DEF KilledNew, TypeOK, ControlTypeOK, HistoryTypeOK, history, Labels, Ended
  <2> QED
    BY <2>1, <2>2 DEF TypeOK
<1>2. IInv'
  <2>1. OwnWorkspace' /\ LockHeld'
    BY <1>a, <1>b DEF KilledNew, IInv, OwnWorkspace, LockHeld, InSelected
  <2>2. PlanNamesApart => PlansRecordNothing' /\ NoOrphans'
    BY <1>a, <1>b DEF KilledNew, IInv, PlansRecordNothing, NoOrphans, Entries
  <2> QED
    BY <1>1, <2>1, <2>2 DEF IInv, PlanNamesApart
<1>3. MigratedTypeOK'
  BY <1>1, <1>a, <1>b DEF MigratedTypeOK
<1>4. Home'
  BY <1>a, <1>b DEF MInv, Home, OneFile, Placed, Found, Entries, Ended
<1>5. Default \in spaces' /\ \A q \in Puts : Carried(q)'
  BY <1>a, <1>b DEF KilledNew, MInv, Carried, Entries
<1>6. ASSUME PlanNamesApart PROVE Retains'
  <2>1. Retains /\ UNCHANGED <<res, infra>>
    BY <1>6, <1>a DEF KilledNew, MInv
  <2>2. \A e \in Envs : AsInFile(e)'
    <3>1. ASSUME NEW e \in Envs, e # Env(p) PROVE AsInFile(e)'
      <4>1. AsInFile(e) /\ version'[e] = version[e] /\ (e \in spaces' <=> e \in spaces)
        BY <1>a, <1>b, <2>1, <3>1 DEF KilledNew, Retains
      <4> QED
        BY <2>1, <4>1 DEF AsInFile
    <3>2. AsInFile(Env(p))'
      <4>1. Env(p)' \in spaces' /\ version'[Env(p)'].lineage # Env(p)'
        BY <1>a, <1>b DEF KilledNew
      <4> QED
        BY <4>1 DEF AsInFile
    <3> QED
      BY <1>a, <3>1, <3>2
  <2>3. \A e \in Envs : Unforgotten(e)'
    BY <1>b, <2>1 DEF Retains, Unforgotten
  <2>4. \A q \in Puts : Kept(q)'
    BY <1>a, <1>b, <2>1 DEF Retains, Kept, Found, Entries
  <2> QED
    BY <2>2, <2>3, <2>4 DEF Retains
<1> QED
  BY <1>2, <1>3, <1>4, <1>5, <1>6 DEF MInv, PlanNamesApart

-----------------------------------------------------------------------------
(* The invariant holds when the bucket has at most one state file of each  *)
(* env and nothing but the default workspace exists.                       *)
LEMMA InitBucket ==
    ASSUME MigratedInit
    PROVE  /\ bucket \in [Envs -> [Keys -> Files]] /\ OneFile
           /\ \A e \in Envs : Unforgotten(e)
<1>1. PICK at \in [legacy -> StateKeys] :
          bucket = [e \in Envs |-> [k \in Keys |->
                       IF e \in legacy /\ k = at[e] THEN LegacyFile(e) ELSE NoFile]]
  BY DEF MigratedInit
<1>2. StateKeys \subseteq Keys /\ \A e \in Envs : e \in LegacyFile(e).recorded
  BY DEF Keys, LegacyFile
<1>3. bucket \in [Envs -> [Keys -> Files]]
  BY <1>1, LegacyFileType
<1>4. \A e \in Envs : \A k \in StateKeys :
          bucket[e][k] = IF e \in legacy /\ k = at[e] THEN LegacyFile(e) ELSE NoFile
  BY <1>1, <1>2
<1>5. OneFile
  BY <1>4 DEF OneFile, StateKeys
<1>6. \A e \in Envs : Unforgotten(e)
  BY <1>2, <1>4 DEF Unforgotten
<1> QED
  BY <1>3, <1>5, <1>6

LEMMA MigratedInitInvariant == MigratedInit => MInv
<1> SUFFICES ASSUME MigratedInit PROVE MInv
  OBVIOUS
<1>a. /\ Init /\ IInv /\ legacy \subseteq Envs
      /\ key = [p \in Puts |-> "state"] /\ local = [p \in Puts |-> NoFile]
      /\ move = [p \in Puts |-> "exists"] /\ held = [p \in Puts |-> {}]
      /\ \A p \in Puts : Env(p) \in Envs
  BY InitInvariant, RequestTypes DEF MigratedInit, IInv
<1>b. /\ pc = [p \in Puts |-> "idle"] /\ spaces = {Default} /\ StateKeys \subseteq Keys
      /\ \A e \in Envs : res[e] = {}
  BY <1>a DEF Init, ClientInit, Keys, Names
<1>1. MigratedTypeOK
  <2>1. bucket \in [Envs -> [Keys -> Files]]
    BY InitBucket
  <2> QED
    BY <1>a, <2>1, LegacyFileType DEF MigratedTypeOK, IInv, StateKeys, MoveSteps
<1>2. Home
  <2>1. OneFile
    BY InitBucket
  <2>2. \A p \in Puts : Placed(p)
    BY <1>a, <1>b DEF Placed, Moving, Entries, Ended
  <2> QED
    BY <2>1, <2>2 DEF Home
<1>3. Default \in spaces /\ \A p \in Puts : Carried(p)
  BY <1>a, <1>b DEF Carried
<1>4. Retains
  <2>1. \A e \in Envs : Unforgotten(e)
    BY InitBucket
  <2>2. (\A e \in Envs : AsInFile(e)) /\ \A p \in Puts : Kept(p)
    BY <1>a, <1>b DEF AsInFile, Kept
  <2> QED
    BY <2>1, <2>2 DEF Retains
<1> QED
  BY <1>a, <1>1, <1>2, <1>3, <1>4 DEF MInv

LEMMA MigratedNextInvariant == MInv /\ [MigratedNext]_migratedVars => MInv'
<1> SUFFICES ASSUME MInv, [MigratedNext]_migratedVars PROVE MInv'
  OBVIOUS
<1>1. ASSUME NEW p \in Puts, Migrate(p) PROVE MInv'
  BY <1>1, MigrateInvariant
<1>2. ASSUME NEW p \in Puts, ActionStep(p) PROVE MInv'
  BY <1>2, ActionInvariant
<1>3. ASSUME NEW p \in Puts,
             \/ MigratedStart(p)
             \/ (ApplyProvision(p) \/ Kill(p)) /\ UNCHANGED migration
      PROVE  MInv'
  BY <1>3, OtherInvariant
<1>4. CASE UNCHANGED <<vars, migration>>
  <2>1. IInv'
    BY <1>4, NextInvariant DEF MInv
  <2>2. UNCHANGED <<spaces, res, version, infra, sel, pc, req, bucket, key, local, move, legacy, held>>
    BY <1>4 DEF vars, clientVars, backend, container, control, migration
  <2> QED
    BY <2>1, <2>2 DEF MInv, IInv, MigratedTypeOK, Home, OneFile, Placed, Found, Carried, Retains,
                      AsInFile, Unforgotten, Kept, Env
<1>5. ASSUME NEW p \in Puts, KillNewFromState(p) PROVE MInv'
  BY <1>5, KillNewInvariant
<1> QED
  BY <1>1, <1>2, <1>3, <1>4, <1>5 DEF MigratedNext, AllEnded, migratedVars

THEOREM MigratedInvariant == MigratedSpec => []MInv
BY MigratedInitInvariant, MigratedNextInvariant, PTL DEF MigratedSpec

(* Every state of puts that migrate is well typed.                         *)
THEOREM MigratedTypeCorrect == MigratedSpec => []MigratedTypeOK
<1>1. MInv => MigratedTypeOK
  BY DEF MInv
<1> QED
  BY <1>1, MigratedInvariant, PTL

(* Terraform changes an env only when its legacy state file is gone, for   *)
(* any number of puts, failures and aborted builds.                        *)
THEOREM KeepsOneHome == MigratedSpec => []OneHome
<1>1. MInv => OneHome
  BY DEF MInv, Home, Placed, OneHome, Entries, Ended
<1> QED
  BY <1>1, MigratedInvariant, PTL

(* The instance of a legacy env is recorded in the bucket or in the env's  *)
(* workspace until it is destroyed, and nothing that a put provisions is   *)
(* forgotten, as long as no env is called like a plan workspace.           *)
THEOREM MigrationForgets ==
    ASSUME PlanNamesApart
    PROVE  MigratedSpec => []MigrationForgetsNothing
<1>1. MInv => MigrationForgetsNothing
  BY DEF MInv, MigratedTypeOK, Retains, Unforgotten, IInv, MigrationForgetsNothing
<1> QED
  BY <1>1, MigratedInvariant, PTL
-----------------------------------------------------------------------------
(* Complete destroys.  A call of the migration leads a put and keeps what  *)
(* its env records as a command of Action does, so Covering is kept; and   *)
(* what the bucket recorded when a put started is recorded in the env's    *)
(* workspace when the put comes to terraform destroy.                      *)
LEMMA MigrateLeads ==
    ASSUME TypeOK, NEW p \in Puts, Migrate(p), Covers(p)
    PROVE  Leads(p)
<1>a. /\ pc[p] \in Entries /\ pc \in [Puts -> Labels]
      /\ UNCHANGED <<history, req, reply>>
      /\ \A q \in Puts \ {p} : cause'[q] = cause[q]
  BY MigrateControl DEF TypeOK, ControlTypeOK
<1>b. PICK label \in Labels, s \in MoveSteps :
          pc'[p] = label /\ (FailsOver(p, label, s) \/ GoesOn(p, label, s))
  BY <1>a, MigrateControl DEF Goto
<1>1. CASE FailsOver(p, label, s)
  BY <1>a, <1>b, <1>1
     DEF FailsOver, Leads, Past, AfterApply, AfterDestroy, CleanupPath, DestroyPath, Ended, Entries,
         history
<1>2. CASE GoesOn(p, label, s)
  <2>1. /\ CleaningUp(p)' = CleaningUp(p)
        /\ pc'[p] = pc[p] \/ (~CleaningUp(p) /\ req[p].kind # "destroy"
                               /\ pc'[p] \in {"importCheck", "apply", "plan", "destroy"})
    BY <1>a, <1>b, <1>2, WorkspaceLabels
       DEF GoesOn, CleaningUp, Covers, CleanupPath, DestroyPath, AfterDestroy, Ended, Entries
  <2> QED
    BY <1>a, <2>1
       DEF Covers, Leads, Past, AfterApply, AfterDestroy, CleanupPath, DestroyPath, Ended, Entries,
           history
<1> QED
  BY <1>b, <1>1, <1>2

LEMMA MigrateKeepsRecorded ==
    ASSUME MInv, PlanNamesApart, NEW p \in Puts, Migrate(p)
    PROVE  KeepsRecorded(p)
<1>a. /\ Env(p) \in Envs /\ Env(p) \in Names /\ p \notin Envs /\ infra' = infra
      /\ AsInFile(Env(p)) /\ version[Env(p)].serial \in Nat
      /\ \A e \in Envs : e # Env(p) => res'[e] = res[e]
  BY RequestTypes, ClientAssumption, MigrateWrites
     DEF MInv, MigratedTypeOK, TypeOK, ClientTypeOK, Versions, Names, Retains
<1>1. \/ res'[Env(p)] = res[Env(p)]
      \/ res[Env(p)] \subseteq {Env(p)} /\ res'[Env(p)] = {Env(p)}
  BY <1>a, MigrateWrites DEF AsInFile, clientVars, backend
<1> QED
  BY <1>a, <1>1 DEF KeepsRecorded

LEMMA ActionLeads ==
    ASSUME TypeOK, OwnWorkspace, NEW p \in Puts, ActionStep(p), Covers(p)
    PROVE  Leads(p)
<1>1. CASE Step(p)
  BY <1>1, StepLeads DEF Covers
<1>2. CASE MigratedSelect(p) \/ MigratedNew(p)
  <2>a. /\ pc[p] \in {"select", "new"} /\ UNCHANGED history
        /\ Continue(p, AfterWorkspace(p)) \/ Refused(p) \/ Fault(p)
    BY <1>2 DEF MigratedSelect, MigratedNew, Call, Command
  <2>b. ~CleaningUp(p) /\ req[p].kind # "destroy"
    BY <2>a DEF Covers, CleanupPath, DestroyPath, AfterDestroy, Ended
  <2>c. /\ pc \in [Puts -> Labels] /\ cause \in [Puts -> Labels \cup {"none"}]
        /\ AfterWorkspace(p) \in {"importCheck", "apply", "plan", "destroy"}
    BY WorkspaceLabels DEF TypeOK, ControlTypeOK
  <2>1. CASE Continue(p, AfterWorkspace(p))
    BY <2>a, <2>b, <2>c, <2>1
       DEF Continue, Goto, Leads, Past, AfterApply, Ended, CleaningUp, history
  <2>2. CASE Refused(p) \/ Fault(p)
    BY <2>a, <2>b, <2>c, <2>2
       DEF Refused, Fault, Fail, Goto, Leads, Past, AfterApply, AfterDestroy, CleanupPath,
           DestroyPath, Ended, CleaningUp, history
  <2> QED
    BY <2>a, <2>1, <2>2
<1> QED
  BY <1>1, <1>2, ActionCases

(* The file a put has found when it started is of its own env, and gone    *)
(* with what it recorded when the put has destroyed.                       *)
HeldGone(p) ==
    /\ held[p] \subseteq {Env(p)} \cap legacy
    /\ req[p].kind = "destroy" /\ (pc[p] \in AfterDestroy \/ reply[p] = "version") =>
           held[p] \cap infra = {}
Gone == Covering /\ \A p \in Puts : HeldGone(p)

LEMMA LeadsGone ==
    ASSUME MInv, PlanNamesApart, Gone, NEW p \in Puts, Leads(p), KeepsRecorded(p),
           UNCHANGED <<req, legacy, held>>, \A q \in Puts \ {p} : pc'[q] = pc[q]
    PROVE  Gone'
<1>a. /\ TypeOK /\ Home /\ Env(p) \in Envs /\ (\A e \in Envs : Unforgotten(e))
      /\ \A q \in Puts : Env(q)' = Env(q)
  BY RequestTypes DEF MInv, MigratedTypeOK, Retains, Env
<1>b. pc[p] = "destroying" => sel[p] = Env(p)
  BY DEF MInv, IInv, OwnWorkspace, InSelected
<1>c. infra' \subseteq infra
  BY <1>a DEF KeepsRecorded
<1>1. Covering'
  BY <1>a, <1>b, LeadsCovering DEF Gone
<1>2. \A q \in Puts \ {p} : HeldGone(q)'
  BY <1>a, <1>c DEF Gone, HeldGone, Leads
<1>3. ASSUME req[p].kind = "destroy", pc'[p] \in AfterDestroy \/ reply'[p] = "version"
      PROVE  held[p] \cap infra' = {}
  <2>1. CASE pc[p] \in AfterDestroy \/ reply[p] = "version"
    BY <1>3, <1>c, <2>1 DEF Gone, HeldGone
  <2>2. CASE pc[p] = "destroying" /\ infra' = infra \ res[sel[p]]
    <3>1. \A k \in StateKeys : bucket[Env(p)][k] = NoFile
      BY <1>a, <2>2 DEF Home, Placed, Found, Entries, Ended
    <3>2. Env(p) \in legacy \cap infra => Env(p) \in res[Env(p)]
      BY <1>a, <3>1 DEF Unforgotten, NoFile
    <3> QED
      BY <1>b, <2>2, <3>2 DEF Gone, HeldGone
  <2>3. \/ pc[p] \in AfterDestroy \/ reply[p] = "version"
        \/ pc[p] = "destroying" /\ infra' = infra \ res[sel[p]]
    BY <1>3 DEF Leads, AfterDestroy
  <2> QED
    BY <2>1, <2>2, <2>3
<1>4. HeldGone(p)'
  BY <1>a, <1>3 DEF Gone, HeldGone
<1> QED
  BY <1>1, <1>2, <1>4 DEF Gone

LEMMA MigratedStartGone ==
    ASSUME MInv, PlanNamesApart, Gone, NEW p \in Puts, MigratedStart(p)
    PROVE  Gone'
<1>a. /\ pc \in [Puts -> Labels] /\ IInv /\ Env(p) \in Envs /\ held \in [Puts -> SUBSET Instances]
      /\ pc[p] = "idle" /\ reply[p] = "none"
      /\ pc' = [pc EXCEPT ![p] = "setup"] /\ UNCHANGED <<req, reply, infra, legacy>>
      /\ held' = [held EXCEPT ![p] = UNION {bucket[Env(p)][k].recorded : k \in StateKeys}]
  BY RequestTypes
     DEF MInv, MigratedTypeOK, TypeOK, ControlTypeOK, Gone, Covering, Covers, MigratedStart, Start,
         Continue, Goto, clientVars, backend
<1>1. Covering'
  BY <1>a, NextCovering DEF Gone, Next, MigratedStart
<1>2. \A q \in Puts : Env(q)' = Env(q)
  BY <1>a DEF Env
<1>3. \A k \in StateKeys : bucket[Env(p)][k].recorded \subseteq {Env(p)} \cap legacy
  <2>1. NoFile.recorded = {} /\ LegacyFile(Env(p)).recorded = {Env(p)}
    BY DEF NoFile, LegacyFile
  <2> QED
    BY <1>a, <2>1 DEF MInv, Home, OneFile
<1>4. HeldGone(p)'
  <2>1. held'[p] \subseteq {Env(p)} \cap legacy
    BY <1>a, <1>3
  <2>2. pc'[p] \notin AfterDestroy /\ reply'[p] # "version"
    BY <1>a DEF AfterDestroy
  <2> QED
    BY <1>a, <1>2, <2>1, <2>2 DEF HeldGone
<1>5. \A q \in Puts \ {p} : HeldGone(q)'
  BY <1>a, <1>2 DEF Gone, HeldGone
<1> QED
  BY <1>1, <1>4, <1>5 DEF Gone

LEMMA KillNewGone ==
    ASSUME MInv, Gone, NEW p \in Puts, KillNewFromState(p)
    PROVE  Gone'
<1>a. pc \in [Puts -> Labels] /\ Covering /\ \A q \in Puts : Covers(q) /\ HeldGone(q)
  BY DEF MInv, MigratedTypeOK, TypeOK, ControlTypeOK, Gone, Covering
<1>b. /\ pc'[p] = "killed" /\ \A q \in Puts \ {p} : pc'[q] = pc[q]
      /\ UNCHANGED <<infra, req, cause, reply, began, res, legacy, held>>
      /\ \A q \in Puts : CleaningUp(q)' = CleaningUp(q)
  BY <1>a, KillNewCases DEF KilledNew, history, migration, CleaningUp
<1>c. \A q \in Puts : Env(q)' = Env(q) /\ Targets(q)' = Targets(q) /\ (Past(q) => Past(q)')
  BY <1>b DEF Env, Targets, Past, CleaningUp, AfterApply, Ended
<1>1. ASSUME NEW q \in Puts PROVE Covers(q)'
  <2>1. CASE q = p
    BY <1>a, <1>b, <1>c, <2>1 DEF Covers, Ended, DestroyPath, AfterDestroy, CleanupPath
  <2>2. CASE q # p
    BY <1>a, <1>b, <1>c, <2>2 DEF Covers
  <2> QED
    BY <2>1, <2>2
<1>2. Covering'
  BY <1>a, <1>b, <1>c, <1>1 DEF Covering
<1>3. \A q \in Puts : HeldGone(q)'
  BY <1>a, <1>b, <1>c DEF HeldGone, AfterDestroy
<1> QED
  BY <1>2, <1>3 DEF Gone

LEMMA MigratedNextGone ==
    ASSUME MInv, PlanNamesApart, Gone, [MigratedNext]_migratedVars
    PROVE  Gone'
<1>a. /\ MigratedTypeOK /\ TypeOK /\ IInv /\ OwnWorkspace /\ pc \in [Puts -> Labels]
      /\ \A p \in Puts : Covers(p) /\ Env(p) \in Envs /\ p \notin Envs
  BY RequestTypes, ClientAssumption
     DEF MInv, MigratedTypeOK, TypeOK, ControlTypeOK, IInv, Gone, Covering
<1>1. ASSUME NEW p \in Puts, Migrate(p) PROVE Gone'
  <2>1. Leads(p) /\ KeepsRecorded(p)
    BY <1>a, <1>1, MigrateLeads, MigrateKeepsRecorded
  <2>2. UNCHANGED <<req, legacy, held>> /\ \A q \in Puts \ {p} : pc'[q] = pc[q]
    BY <1>a, <1>1, MigrateControl DEF Goto
  <2> QED
    BY <2>1, <2>2, LeadsGone
<1>2. ASSUME NEW p \in Puts, ActionStep(p) PROVE Gone'
  <2>1. PICK label \in Labels : Moves(p, label)
    BY <1>a, <1>2, ActionMoves
  <2>2. Leads(p) /\ KeepsRecorded(p)
    BY <1>a, <1>2, <2>1, ActionLeads, MovesKeepRecorded DEF KeepsRecorded
  <2>3. UNCHANGED <<req, legacy, held>> /\ \A q \in Puts \ {p} : pc'[q] = pc[q]
    BY <1>a, <1>2, <2>1, ActionCases DEF Moves, Goto
  <2> QED
    BY <2>2, <2>3, LeadsGone
<1>3. ASSUME NEW p \in Puts, MigratedStart(p) PROVE Gone'
  BY <1>3, MigratedStartGone
<1>4. ASSUME NEW p \in Puts, ApplyProvision(p) \/ Kill(p), UNCHANGED migration PROVE Gone'
  <2>1. Covering'
    BY <1>a, <1>4, NextCovering DEF Gone, Next
  <2>2. /\ UNCHANGED <<req, reply, legacy, held>> /\ infra' \subseteq infra \cup {p}
        /\ \A q \in Puts : pc'[q] = pc[q] \/ pc'[q] \in Ended
    BY <1>a, <1>4 DEF ApplyProvision, Provision, Kill, Goto, control, backend, migration, Ended
  <2>3. \A q \in Puts : Env(q)' = Env(q) /\ (pc'[q] \in AfterDestroy => pc[q] \in AfterDestroy)
    BY <2>2 DEF Env, AfterDestroy, Ended
  <2> QED
    BY <1>a, <2>1, <2>2, <2>3 DEF Gone, HeldGone
<1>5. CASE UNCHANGED <<vars, migration>>
  <2>1. Covering'
    BY <1>a, <1>5, NextCovering DEF Gone
  <2>2. UNCHANGED <<req, pc, reply, infra, legacy, held>>
    BY <1>5 DEF vars, clientVars, backend, control, migration
  <2> QED
    BY <2>1, <2>2 DEF Gone, HeldGone, Env
<1>6. ASSUME NEW p \in Puts, KillNewFromState(p) PROVE Gone'
  BY <1>6, KillNewGone
<1> QED
  BY <1>1, <1>2, <1>3, <1>4, <1>5, <1>6 DEF MigratedNext, AllEnded, migratedVars

(* A put that reports a destroy has destroyed what the env's workspace and *)
(* its legacy state file recorded when it started, whoever migrates, fails *)
(* or is aborted meanwhile.                                                *)
THEOREM MigratedDestroys ==
    ASSUME PlanNamesApart
    PROVE  MigratedSpec => []MigratedDestroyIsComplete
<1>1. MigratedInit => Gone
  <2>1. Init => Covering
    BY ClientAssumption
       DEF Init, ClientInit, Covering, Covers, Names, CleaningUp, DestroyPath, AfterDestroy, Ended
  <2>2. MigratedInit => \A p \in Puts : HeldGone(p)
    BY DEF MigratedInit, HeldGone
  <2> QED
    BY <2>1, <2>2 DEF MigratedInit, Gone
<1>2. MInv /\ Gone /\ [MigratedNext]_migratedVars => Gone'
  BY MigratedNextGone
<1>3. Gone => MigratedDestroyIsComplete
  BY DEF Gone, HeldGone, Covering, Covers, Targets, MigratedDestroyIsComplete
<1> QED
  BY <1>1, <1>2, <1>3, MigratedInvariant, PTL DEF MigratedSpec

-----------------------------------------------------------------------------
(* The refinement.  What an env has on record only changes by a call of    *)
(* the migration when the env's instance is already gone.                  *)
LEMMA OnRecordIs ==
    ASSUME NEW e
    PROVE  /\ OnRecord(e) = res[e] \cup bucket[e]["state"].recorded \cup bucket[e]["tainted"].recorded
           /\ OnRecord(e)' = res'[e] \cup bucket'[e]["state"].recorded
                                    \cup bucket'[e]["tainted"].recorded
<1>2. OnRecord(e) = res[e] \cup bucket[e]["state"].recorded \cup bucket[e]["tainted"].recorded
  BY DEF OnRecord, StateKeys
<1>3. OnRecord(e)' = res'[e] \cup bucket'[e]["state"].recorded
                           \cup bucket'[e]["tainted"].recorded
  BY DEF OnRecord, StateKeys
<1> QED
  BY <1>2, <1>3

LEMMA AddToRecord ==
    ASSUME NEW p \in Puts, Env(p) \in Envs, NEW S, bucket' = bucket,
           res'[Env(p)] = res[Env(p)] \cup S, \A e \in Envs \ {Env(p)} : res'[e] = res[e]
    PROVE  [e \in Envs |-> OnRecord(e)]' =
               [[e \in Envs |-> OnRecord(e)] EXCEPT ![Env(p)] = @ \cup S]
<1>1. ASSUME NEW e \in Envs, e = Env(p) PROVE OnRecord(e)' = OnRecord(e) \cup S
  <2>1. res'[e] = res[e] \cup S /\ bucket'[e] = bucket[e]
    BY <1>1
  <2> QED
    BY <2>1, OnRecordIs
<1>2. ASSUME NEW e \in Envs \ {Env(p)} PROVE OnRecord(e)' = OnRecord(e)
  <2>1. res'[e] = res[e] /\ bucket'[e] = bucket[e]
    BY <1>2
  <2> QED
    BY <2>1, OnRecordIs
<1> QED
  BY <1>1, <1>2

LEMMA InFiles ==
    ASSUME MInv, NEW e \in Envs
    PROVE  /\ \A k \in StateKeys : bucket[e][k].recorded \subseteq {e}
           /\ \A k \in StateKeys : bucket[e][k] = NoFile => bucket[e][k].recorded = {}
           /\ OnRecord(e) \subseteq res[e] \cup {e}
<1>1. \A k \in StateKeys : bucket[e][k] = NoFile \/ bucket[e][k] = LegacyFile(e)
  BY DEF MInv, Home, OneFile
<1>2. NoFile.recorded = {} /\ LegacyFile(e).recorded = {e}
  BY DEF NoFile, LegacyFile
<1> QED
  BY <1>1, <1>2 DEF OnRecord

LEMMA MigrateRecords ==
    ASSUME MInv, PlanNamesApart, NEW p \in Puts, Migrate(p)
    PROVE  \/ MovedStore!Nothing
           \/ /\ move[p] = "new" /\ \A k \in StateKeys : ~Found(p, k)
              /\ MovedStore!Restore(p)
<1>a. /\ Env(p) \in Envs /\ Env(p) \in Names /\ infra' = infra /\ MovedStore!Env(p) = Env(p)
      /\ pc[p] \in Entries /\ key[p] \in StateKeys /\ Retains
      /\ bucket \in [Envs -> [Keys -> Files]] /\ res \in [Names -> SUBSET Instances]
      /\ version[Env(p)].serial \in Nat
      /\ \A e \in Envs \ {Env(p)} : res'[e] = res[e]
  BY RequestTypes, MigrateWrites, MigrateControl
     DEF MInv, MigratedTypeOK, TypeOK, ClientTypeOK, Versions, Names, MovedStore!Env, Env
<1>b. ClientStep(p) /\ BucketStep(p)
  BY MigrateData DEF MInv
<1>c. (\A e \in Envs : OnRecord(e)' = OnRecord(e)) => MovedStore!Nothing
  BY <1>a DEF MovedStore!Nothing
<1>d. LegacyFile(Env(p)).recorded = {Env(p)} /\
      LegacyFile(Env(p)).version = [lineage |-> Env(p), serial |-> 1]
  BY DEF LegacyFile
<1>e. /\ move[p] \in {"new", "push"} => local[p] = LegacyFile(Env(p)) /\ Env(p) \in legacy
      /\ move[p] = "push" => sel[p] = Env(p) /\ Env(p) # Default
  BY <1>a DEF MInv, Carried
<1>1. CASE bucket' = bucket /\ res' = res
  BY <1>1, <1>c DEF OnRecord
<1>2. CASE bucket' = bucket /\ move[p] = "push" /\ Pushed(p)
  <2>1. /\ local[p].version = [lineage |-> Env(p), serial |-> 1] /\ local[p].recorded = {Env(p)}
        /\ sel[p] = Env(p) /\ Env(p) # Default
    BY <1>2, <1>d, <1>e
  <2>2. res[Env(p)] = {Env(p)}
    BY <1>a, <1>2, <2>1 DEF Pushed, CanStatePush, Free, Retains, AsInFile
  <2>3. res' = res
    BY <1>a, <1>2, <2>1, <2>2 DEF Pushed
  <2> QED
    BY <1>1, <1>2, <2>3
<1>3. CASE bucket' = bucket /\ move[p] = "new" /\ FromState(p)
  <2>1. /\ local[p].recorded = {Env(p)} /\ Env(p) \in legacy
        /\ res[Env(p)] \subseteq {Env(p)}
    BY <1>a, <1>3, <1>d, <1>e DEF FromState, CanWorkspaceNew, Retains, AsInFile
  <2>2. res'[Env(p)] = {Env(p)}
    BY <1>a, <1>3, <2>1 DEF FromState
  <2>3. res'[Env(p)] = res[Env(p)] \cup {Env(p)}
    BY <2>1, <2>2
  <2>4. [e \in Envs |-> OnRecord(e)]' =
            [[e \in Envs |-> OnRecord(e)] EXCEPT ![Env(p)] = @ \cup {Env(p)}]
    BY <1>3, <1>a, <2>3, AddToRecord
  <2>5. CASE Env(p) \notin infra /\ \A k \in StateKeys : ~Found(p, k)
    BY <1>a, <1>3, <2>4, <2>5 DEF MovedStore!Restore
  <2>6. CASE Env(p) \in infra \/ \E k \in StateKeys : Found(p, k)
    <3>1. Env(p) \in OnRecord(Env(p))
      <4>1. CASE Env(p) \in infra
        BY <1>a, <2>1, <4>1 DEF Retains, Unforgotten, OnRecord
      <4>2. CASE \E k \in StateKeys : Found(p, k)
        <5>1. PICK k \in StateKeys : bucket[Env(p)][k] = LegacyFile(Env(p))
          BY <1>a, <4>2 DEF MInv, Home, OneFile, Found
        <5> QED
          BY <1>d, <5>1 DEF OnRecord
      <4> QED
        BY <2>6, <4>1, <4>2
    <3>2. ASSUME NEW e \in Envs PROVE OnRecord(e)' = OnRecord(e)
      <4>1. OnRecord(e)' = IF e = Env(p) THEN OnRecord(e) \cup {e} ELSE OnRecord(e)
        BY <1>a, <2>4
      <4>2. e = Env(p) => e \in OnRecord(e)
        BY <3>1
      <4> QED
        BY <4>1, <4>2
    <3> QED
      BY <1>c, <3>2
  <2> QED
    BY <2>5, <2>6
<1>4. CASE res' = res /\ bucket' = [bucket EXCEPT ![Env(p)]["migrated"] = local[p]]
  <2>1. \A e \in Envs : \A k \in StateKeys : bucket'[e][k] = bucket[e][k]
    BY <1>a, <1>4 DEF StateKeys, Keys
  <2> QED
    BY <1>4, <1>c, <2>1 DEF OnRecord
<1>5. CASE res' = res /\ move[p] = "delete" /\ Dropped(p)
  <2>1. CASE Found(p, key[p])
    <3>1. Env(p) \in res[Env(p)]
      BY <1>a, <1>5, <2>1 DEF Retains, Kept
    <3>2. ASSUME NEW k \in StateKeys
          PROVE  /\ bucket[Env(p)][k].recorded \subseteq {Env(p)}
                 /\ bucket'[Env(p)][k].recorded \subseteq {Env(p)}
      <4>1. NoFile.recorded = {}
        BY DEF NoFile
      <4>2. bucket'[Env(p)][k] \in {bucket[Env(p)][k], NoFile}
        BY <1>a, <1>5 DEF Dropped, StateKeys, Keys
      <4> QED
        BY <1>a, <4>1, <4>2, InFiles
    <3>3. ASSUME NEW e \in Envs, e = Env(p) PROVE OnRecord(e)' = OnRecord(e)
      <4>1. res'[e] = res[e] /\ e \in res[e]
        BY <1>5, <3>1, <3>3
      <4>2. /\ bucket[e]["state"].recorded \subseteq res[e]
            /\ bucket[e]["tainted"].recorded \subseteq res[e]
        BY <3>2, <3>3, <4>1 DEF StateKeys
      <4>3. /\ bucket'[e]["state"].recorded \subseteq res'[e]
            /\ bucket'[e]["tainted"].recorded \subseteq res'[e]
        BY <3>2, <3>3, <4>1 DEF StateKeys
      <4>4. OnRecord(e) = res[e]
        BY <4>2, OnRecordIs
      <4>5. OnRecord(e)' = res'[e]
        BY <4>3, OnRecordIs
      <4> QED
        BY <4>1, <4>4, <4>5
    <3>4. \A e \in Envs \ {Env(p)} : bucket'[e] = bucket[e]
      BY <1>a, <1>5 DEF Dropped
    <3>5. \A e \in Envs \ {Env(p)} : OnRecord(e)' = OnRecord(e)
      BY <1>5, <3>4, OnRecordIs
    <3> QED
      BY <1>c, <3>3, <3>5
  <2>2. CASE ~Found(p, key[p])
    <3>1. \A e \in Envs : \A k \in StateKeys : bucket'[e][k] = bucket[e][k]
      BY <1>a, <1>5, <2>2 DEF Dropped, Found, StateKeys, Keys
    <3> QED
      BY <1>5, <1>c, <3>1 DEF OnRecord
  <2> QED
    BY <2>1, <2>2
<1> QED
  BY <1>b, <1>1, <1>2, <1>3, <1>4, <1>5
     DEF ClientStep, BucketStep, clientVars, backend, WorkspaceNew

(* A command of Action changes what is on record as it changes the env's   *)
(* workspace, for a put only destroys when its bucket is empty.            *)
LEMMA ActionRecords ==
    ASSUME MInv, OnRequest, PlanNamesApart, NEW p \in Puts, NEW label \in Labels,
           Moves(p, label), bucket' = bucket
    PROVE  MovedStore!Nothing \/ MovedStore!Keep(p) \/ MovedStore!Adopt(p) \/ MovedStore!Remove(p)
<1>a. /\ IInv /\ Env(p) \in Envs /\ MovedStore!Env(p) = Env(p) /\ Store!Env(p) = Env(p)
  BY RequestTypes DEF MInv, MigratedTypeOK, MovedStore!Env, Store!Env, Env
<1>1. CASE Store!Nothing
  <2>1. infra' = infra /\ \A e \in Envs : res'[e] = res[e]
    BY <1>1 DEF Store!Nothing
  <2>2. \A e \in Envs : OnRecord(e)' = OnRecord(e)
    BY <2>1 DEF OnRecord
  <2> QED
    BY <2>1, <2>2 DEF MovedStore!Nothing
<1>2. CASE Store!Keep(p)
  <2>1. /\ res'[Env(p)] = res[Env(p)] \cup ({p} \cap infra)
        /\ \A e \in Envs \ {Env(p)} : res'[e] = res[e]
    BY <1>a, <1>2 DEF Store!Keep
  <2>2. [e \in Envs |-> OnRecord(e)]' =
            [[e \in Envs |-> OnRecord(e)] EXCEPT ![Env(p)] = @ \cup ({p} \cap infra)]
    BY <1>a, <2>1, AddToRecord
  <2> QED
    BY <1>a, <1>2, <2>2 DEF Store!Keep, MovedStore!Keep
<1>3. CASE Store!Adopt(p)
  <2>1. /\ res'[Env(p)] = res[Env(p)] \cup {Env(p)}
        /\ \A e \in Envs \ {Env(p)} : res'[e] = res[e]
    BY <1>a, <1>3 DEF Store!Adopt
  <2>2. [e \in Envs |-> OnRecord(e)]' =
            [[e \in Envs |-> OnRecord(e)] EXCEPT ![Env(p)] = @ \cup {Env(p)}]
    BY <1>a, <2>1, AddToRecord
  <2> QED
    BY <1>a, <1>3, <2>2 DEF Store!Adopt, MovedStore!Adopt
<1>4. CASE pc[p] = "destroying" /\ Store!Remove(p)
  <2>1. PICK gone \in SUBSET res[Env(p)] :
            /\ infra' = infra \ gone /\ res'[Env(p)] = res[Env(p)] \ gone
            /\ \A e \in Envs \ {Env(p)} : res'[e] = res[e]
    BY <1>a, <1>4 DEF Store!Remove
  <2>2. \A k \in StateKeys : bucket[Env(p)][k].recorded = {}
    <3>1. \A k \in StateKeys : bucket[Env(p)][k] = NoFile
      BY <1>4 DEF MInv, Home, Placed, Found, Entries, Ended
    <3> QED
      BY <1>a, <3>1, InFiles
  <2>3. ASSUME NEW e \in Envs, e = Env(p) PROVE OnRecord(e) = res[e] /\ OnRecord(e)' = res'[e]
    <3>1. bucket[e]["state"].recorded = {} /\ bucket[e]["tainted"].recorded = {}
      BY <2>2, <2>3 DEF StateKeys
    <3>2. OnRecord(e) = res[e] \cup bucket[e]["state"].recorded \cup bucket[e]["tainted"].recorded
      BY OnRecordIs
    <3>3. OnRecord(e)' = res'[e] \cup bucket'[e]["state"].recorded
                                \cup bucket'[e]["tainted"].recorded
      BY OnRecordIs
    <3>4. bucket'[e] = bucket[e]
      BY <1>4
    <3> QED
      BY <3>1, <3>2, <3>3, <3>4
  <2>4. \A e \in Envs \ {Env(p)} : OnRecord(e)' = OnRecord(e)
    BY <2>1 DEF OnRecord
  <2>5. [e \in Envs |-> OnRecord(e)]' =
            [[e \in Envs |-> OnRecord(e)] EXCEPT ![Env(p)] = @ \ gone]
    BY <1>a, <2>1, <2>3, <2>4
  <2>6. gone \in SUBSET ([e \in Envs |-> OnRecord(e)])[Env(p)]
    BY <1>a, <2>1, <2>3
  <2>7. MovedStore!Destroys(p)
    BY <1>4 DEF Store!Remove, Store!Destroys, MovedStore!Destroys
  <2> QED
    BY <1>a, <2>1, <2>5, <2>6, <2>7 DEF MovedStore!Remove
<1> QED
  BY <1>a, <1>1, <1>2, <1>3, <1>4, MovesStore

(* A put only comes to the commands that its request asks for.             *)
LEMMA MigratedOnRequest ==
    ASSUME MInv, OnRequest, [MigratedNext]_migratedVars
    PROVE  OnRequest'
<1>a. /\ TypeOK /\ IInv /\ pc \in [Puts -> Labels] /\ cause \in [Puts -> Labels \cup {"none"}]
      /\ \A p \in Puts : MayRun(p, pc[p], cause[p])
  BY DEF MInv, IInv, TypeOK, ControlTypeOK, OnRequest
<1>b. ASSUME NEW p \in Puts, NEW label \in Labels, Goto(p, label), req' = req,
             \A q \in Puts \ {p} : cause'[q] = cause[q],
             MayRun(p, label, cause'[p])
      PROVE  OnRequest'
  <2>1. pc'[p] = label /\ \A q \in Puts \ {p} : pc'[q] = pc[q]
    BY <1>a, <1>b DEF Goto
  <2> QED
    BY <1>a, <1>b, <2>1 DEF OnRequest, MayRun, MayDestroy
<1>c. ASSUME NEW p \in Puts, pc[p] \notin Ended, cause'[p] = cause[p]
      PROVE  MayRun(p, AfterWorkspace(p), cause'[p])
  BY <1>a, <1>c, RequestTypes DEF AfterWorkspace, MayRun, MayDestroy
<1>1. ASSUME NEW p \in Puts, Migrate(p) PROVE OnRequest'
  <2>1. PICK label \in Labels, s \in MoveSteps :
            Goto(p, label) /\ (FailsOver(p, label, s) \/ GoesOn(p, label, s))
    BY <1>a, <1>1, MigrateControl
  <2>2. req' = req /\ pc[p] \in Entries /\ \A q \in Puts \ {p} : cause'[q] = cause[q]
    BY <1>a, <1>1, MigrateControl
  <2>3. CASE FailsOver(p, label, s)
    <3>1. MayRun(p, label, cause'[p])
      BY <2>3 DEF FailsOver, CleansUp, MayRun, MayDestroy, Ended
    <3> QED
      BY <1>b, <2>1, <2>2, <3>1
  <2>4. CASE GoesOn(p, label, s)
    <3>1. MayRun(p, label, cause'[p])
      BY <1>a, <1>c, <2>2, <2>4 DEF GoesOn, Entries, Ended
    <3> QED
      BY <1>b, <2>1, <2>2, <3>1
  <2> QED
    BY <2>1, <2>3, <2>4
<1>2. ASSUME NEW p \in Puts, ActionStep(p) PROVE OnRequest'
  <2>1. CASE Step(p)
    BY <1>a, <2>1, OnRequestInvariant DEF Next
  <2>2. CASE MigratedSelect(p) \/ MigratedNew(p)
    <3>1. /\ pc[p] \notin Ended
          /\ Continue(p, AfterWorkspace(p)) \/ Refused(p) \/ Fault(p)
      BY <2>2 DEF MigratedSelect, MigratedNew, Call, Command, Ended
    <3>2. CASE Continue(p, AfterWorkspace(p))
      <4>1. AfterWorkspace(p) \in Labels
        BY <1>a, WorkspaceLabels DEF Labels
      <4>2. Goto(p, AfterWorkspace(p)) /\ UNCHANGED <<req, cause>>
        BY <3>2 DEF Continue
      <4>3. MayRun(p, AfterWorkspace(p), cause'[p])
        BY <1>c, <3>1, <4>2
      <4> QED
        BY <1>b, <4>1, <4>2, <4>3
    <3>3. CASE Refused(p) \/ Fault(p)
      <4> DEFINE to == IF CleansUp(p) THEN "destroySelect" ELSE "done"
      <4>1. Goto(p, to) /\ req' = req /\ to \in Labels
        BY <3>3 DEF Refused, Fault, Fail, Labels, Ended
      <4>2. \A q \in Puts \ {p} : cause'[q] = cause[q]
        BY <1>a, <3>3 DEF Refused, Fault, Fail
      <4>3. MayRun(p, to, cause'[p])
        BY DEF CleansUp, MayRun, MayDestroy, Ended
      <4> QED
        BY <1>b, <4>1, <4>2, <4>3
    <3> QED
      BY <3>1, <3>2, <3>3
  <2> QED
    BY <1>2, <2>1, <2>2, ActionCases
<1>3. ASSUME NEW p \in Puts, Start(p) \/ ApplyProvision(p) \/ Kill(p) PROVE OnRequest'
  BY <1>a, <1>3, OnRequestInvariant DEF Next
<1>4. CASE UNCHANGED vars
  BY <1>a, <1>4, OnRequestInvariant
<1>5. ASSUME NEW p \in Puts, KillNewFromState(p) PROVE OnRequest'
  <2>1. Goto(p, "killed") /\ "killed" \in Labels /\ UNCHANGED <<req, cause>>
    BY <1>5 DEF KillNewFromState, Labels, Ended
  <2>2. MayRun(p, "killed", cause'[p])
    BY DEF MayRun, MayDestroy, Ended
  <2> QED
    BY <1>b, <2>1, <2>2
<1> QED
  BY <1>1, <1>2, <1>3, <1>4, <1>5 DEF MigratedNext, MigratedStart, AllEnded, migratedVars

(* A put that goes on or returns is one of the store that does so.         *)
LEMMA ProceedsMoved ==
    ASSUME TypeOK, IInv', PlanNamesApart, NEW p \in Puts,
           NEW label \in Labels \ {"idle", "killed", "killedApply"}, Goto(p, label),
           Running(p), req' = req,
           MovedStore!Nothing \/ MovedStore!Keep(p) \/ MovedStore!Adopt(p) \/ MovedStore!Remove(p)
               \/ MovedStore!Restore(p)
    PROVE  MovedStore!Proceed(p)
<1>1. pc'[p] = label /\ Status(p) = "active" /\ Env(p) \in Envs
  BY RequestTypes DEF TypeOK, ControlTypeOK, Goto, Status, Running, Ended
<1>2. CASE label = "done"
  <2>1. Status(p)' = "returned"
    BY <1>1, <1>2 DEF Status
  <2>2. p \in infra' => p \in res'[Env(p)]
    BY <1>1, <1>2 DEF IInv, NoOrphans, PlanNamesApart, Env
  <2>3. \A e \in Envs : res'[e] \subseteq OnRecord(e)'
    BY OnRecordIs
  <2>4. p \in infra' => p \in ([e \in Envs |-> OnRecord(e)]')[Env(p)]
    BY <1>1, <2>2, <2>3
  <2>5. MovedStore!Return(p)
    BY <2>1, <2>4, GotoStatus DEF MovedStore!Return, MovedStore!Env, Env
  <2> QED
    BY <1>1, <2>5 DEF MovedStore!Proceed
<1>3. CASE label # "done"
  <2>1. Status(p)' = "active"
    BY <1>1, <1>3 DEF Status
  <2>2. [q \in Puts |-> Status(q)]' = [q \in Puts |-> Status(q)]
    BY <1>1, <2>1, GotoStatus
  <2> QED
    BY <1>1, <2>2 DEF MovedStore!Proceed
<1> QED
  BY <1>2, <1>3

(* Every step of MigratedPut is one of the store, or changes nothing there. *)
LEMMA RefinesMovedNext ==
    ASSUME MInv, MInv', OnRequest, PlanNamesApart, [MigratedNext]_migratedVars
    PROVE  [MovedStore!Next]_(MovedStore!vars)
<1>a. /\ pc \in [Puts -> Labels] /\ TypeOK /\ IInv /\ IInv' /\ OwnWorkspace
      /\ \A p \in Puts : Env(p) \in Envs /\ MovedStore!Env(p) = Env(p)
  BY RequestTypes DEF MInv, IInv, TypeOK, ControlTypeOK, MovedStore!Env, Env
<1>b. UNCHANGED <<res, bucket>> => [e \in Envs |-> OnRecord(e)]' = [e \in Envs |-> OnRecord(e)]
  BY DEF OnRecord
<1>1. ASSUME NEW p \in Puts, Migrate(p) PROVE MovedStore!Proceed(p)
  <2>1. PICK label \in Labels, s \in MoveSteps :
            Goto(p, label) /\ (FailsOver(p, label, s) \/ GoesOn(p, label, s))
    BY <1>a, <1>1, MigrateControl
  <2>2. req' = req /\ pc[p] \in Entries
    BY <1>a, <1>1, MigrateControl
  <2>3. Running(p) /\ label \notin {"idle", "killed", "killedApply"}
    BY <1>a, <2>1, <2>2, WorkspaceLabels DEF Running, Ended, Entries, FailsOver, GoesOn
  <2> QED
    BY <1>a, <1>1, <2>1, <2>2, <2>3, MigrateRecords, ProceedsMoved
<1>2. ASSUME NEW p \in Puts, ActionStep(p) PROVE MovedStore!Proceed(p)
  <2>1. PICK label \in Labels : Moves(p, label)
    BY <1>a, <1>2, ActionMoves
  <2>2. Goto(p, label) /\ req' = req /\ Running(p) /\ label \notin {"idle", "killed", "killedApply"}
    BY <2>1 DEF Moves
  <2>3. bucket' = bucket
    BY <1>2, ActionCases
  <2> QED
    BY <1>a, <2>1, <2>2, <2>3, ActionRecords, ProceedsMoved
<1>3. ASSUME NEW p \in Puts, MigratedStart(p) PROVE MovedStore!Begin(p)
  <2>1. /\ Goto(p, "setup") /\ "setup" \in Labels /\ pc[p] = "idle"
        /\ UNCHANGED <<req, res, infra, bucket>>
    BY <1>3 DEF MigratedStart, Start, Continue, Labels, clientVars, backend
  <2>2. Status(p) = "idle" /\ Status(p)' = "active"
    BY <1>a, <2>1 DEF Goto, Status
  <2> QED
    BY <1>a, <1>b, <2>1, <2>2, GotoStatus DEF MovedStore!Begin
<1>4. ASSUME NEW p \in Puts, ApplyProvision(p), UNCHANGED migration PROVE MovedStore!Make(p)
  <2>1. /\ pc[p] = "applying" /\ p \notin infra /\ infra' = infra \cup {p}
        /\ UNCHANGED <<pc, req, res, bucket>>
    BY <1>4 DEF ApplyProvision, Provision, control, backend, migration
  <2>2. req[p].kind = "apply"
    BY <2>1 DEF OnRequest, MayRun
  <2>3. Status(p) = "active" /\ \A q \in Puts : Status(q)' = Status(q)
    BY <2>1 DEF Status
  <2> QED
    BY <1>b, <2>1, <2>2, <2>3 DEF MovedStore!Make
<1>5. ASSUME NEW p \in Puts, Kill(p), UNCHANGED migration PROVE MovedStore!Abort(p)
  <2>1. PICK label \in {"killed", "killedApply"} : Goto(p, label)
    BY <1>5 DEF Kill
  <2>2. Running(p) /\ UNCHANGED <<req, res, bucket>>
    BY <1>5 DEF Kill, backend, migration
  <2>3. Status(p) = "active" /\ Status(p)' = "aborted"
    BY <1>a, <2>1, <2>2 DEF Goto, Status, Running, Ended
  <2>4. PICK gone \in SUBSET (IF pc[p] = "destroying" THEN res[sel[p]] ELSE {}) :
            infra' = infra \ gone
    BY <1>5 DEF Kill
  <2>5. gone \subseteq res[Env(p)] /\ (gone # {} => MayDestroy(p))
    BY <1>a, <2>4 DEF OwnWorkspace, InSelected, OnRequest, MayRun
  <2>6. res[Env(p)] \subseteq OnRecord(Env(p))
    BY OnRecordIs
  <2>7. gone \in SUBSET ([e \in Envs |-> OnRecord(e)])[Env(p)]
    BY <1>a, <2>5, <2>6
  <2>8. label \in Labels
    BY <2>1 DEF Labels, Ended
  <2>9. gone # {} => MovedStore!Destroys(p)
    BY <2>5 DEF MovedStore!Destroys, MayDestroy
  <2> QED
    BY <1>a, <1>b, <2>1, <2>2, <2>3, <2>4, <2>7, <2>8, <2>9, GotoStatus DEF MovedStore!Abort
<1>6. CASE UNCHANGED <<vars, migration>>
  <2>1. UNCHANGED <<pc, req, res, infra, bucket>>
    BY <1>6 DEF vars, clientVars, backend, control, migration
  <2>2. \A q \in Puts : Status(q)' = Status(q)
    BY <2>1 DEF Status
  <2> QED
    BY <1>b, <2>1, <2>2 DEF MovedStore!vars
<1>7. ASSUME NEW p \in Puts, KillNewFromState(p) PROVE MovedStore!Abort(p)
  <2>1. Goto(p, "killed") /\ "killed" \in Labels /\ UNCHANGED <<req, res, infra, bucket>>
    BY <1>7, KillNewCases DEF KillNewFromState, KilledNew, Labels, Ended, migration
  <2>2. Status(p) = "active" /\ Status(p)' = "aborted"
    BY <1>a, <1>7, <2>1 DEF KillNewFromState, Goto, Status, Entries, Ended
  <2>3. {} \in SUBSET ([e \in Envs |-> OnRecord(e)])[Env(p)] /\ infra' = infra \ {}
    BY <2>1
  <2> QED
    BY <1>a, <1>b, <2>1, <2>2, <2>3, GotoStatus DEF MovedStore!Abort
<1> QED
  BY <1>1, <1>2, <1>3, <1>4, <1>5, <1>6, <1>7
     DEF MigratedNext, AllEnded, migratedVars, MovedStore!Next

(* At the beginning the envs that were deployed to the legacy storage know *)
(* their instance.                                                         *)
LEMMA RefinesMovedInit == MigratedInit => MovedStore!Init /\ OnRequest
<1> SUFFICES ASSUME MigratedInit PROVE MovedStore!Init /\ OnRequest
  OBVIOUS
<1>1. OnRequest /\ Init
  BY DEF MigratedInit, Init, OnRequest, MayRun
<1>2. \A e \in Envs : res[e] = {}
  BY <1>1 DEF Init, ClientInit, Names
<1>3. PICK at \in [legacy -> StateKeys] :
          bucket = [e \in Envs |-> [k \in Keys |->
                       IF e \in legacy /\ k = at[e] THEN LegacyFile(e) ELSE NoFile]]
  BY DEF MigratedInit
<1>4. legacy \in SUBSET Envs
  BY DEF MigratedInit
<1>5. ASSUME NEW e \in Envs PROVE OnRecord(e) = {e} \cap legacy
  <2>1. \A k \in StateKeys :
            bucket[e][k] = IF e \in legacy /\ k = at[e] THEN LegacyFile(e) ELSE NoFile
    BY <1>3 DEF Keys
  <2>2. NoFile.recorded = {} /\ LegacyFile(e).recorded = {e}
    BY DEF NoFile, LegacyFile
  <2>3. \A k \in StateKeys :
            bucket[e][k].recorded = IF e \in legacy /\ k = at[e] THEN {e} ELSE {}
    BY <2>1, <2>2
  <2>4. CASE e \in legacy
    BY <1>2, <2>3, <2>4, OnRecordIs DEF StateKeys
  <2>5. CASE e \notin legacy
    BY <1>2, <2>3, <2>5, OnRecordIs DEF StateKeys
  <2> QED
    BY <2>4, <2>5
<1>6. [e \in Envs |-> OnRecord(e)] = [e \in Envs |-> {e} \cap legacy]
  BY <1>5
<1> QED
  BY <1>1, <1>4, <1>6 DEF Init, ClientInit, Status, MovedStore!Init

(* Puts that migrate implement the abstract store, the bucket and the      *)
(* workspaces together: for any number of puts, envs, failures and aborted *)
(* builds, as long as no env is called like a plan workspace.              *)
THEOREM RefinesMovedStore ==
    ASSUME PlanNamesApart
    PROVE  MigratedSpec => ImplementsMovedStore
<1>1. MInv /\ OnRequest /\ [MigratedNext]_migratedVars => OnRequest'
  BY MigratedOnRequest
<1>2. MInv /\ MInv' /\ OnRequest /\ [MigratedNext]_migratedVars
          => [MovedStore!Next]_(MovedStore!vars)
  BY RefinesMovedNext
<1> QED
  BY <1>1, <1>2, RefinesMovedInit, MigratedInvariant, PTL
     DEF MigratedSpec, ImplementsMovedStore, MovedStore!Spec
=============================================================================
