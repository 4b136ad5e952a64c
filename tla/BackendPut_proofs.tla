--------------------------- MODULE BackendPut_proofs ---------------------------
(***************************************************************************)
(* Proofs about BackendPut, for every set of puts, envs and requests and   *)
(* every number of faults and aborted builds.                              *)
(***************************************************************************)
EXTENDS BackendPut, TLAPS

(* The workspaces a put names and the parts of its request have their      *)
(* types.                                                                  *)
LEMMA RequestTypes ==
    ASSUME TypeOK, NEW p \in Puts
    PROVE  /\ Env(p) \in Envs /\ Env(p) \in Names
           /\ PlanOf(p) \in Names
           /\ Default \in Names
           /\ req[p].kind \in {"apply", "plan", "destroy"}
           /\ MainCommand(p) \in {"apply", "plan", "destroy"}
           /\ AfterSelection(p) \in {"importCheck", "apply", "plan", "destroy"}
           /\ Finish(p) \in {"done", "tfVersion"}
           /\ FirstCommand(p) \in {"destroySelect", "planSelect", "list"}
<1>1. req[p] \in [env : Envs, kind : {"apply", "plan", "destroy"}, planRun : BOOLEAN,
                  deleteOnFailure : BOOLEAN, imports : BOOLEAN]
  BY RequestAssumption DEF TypeOK, ControlTypeOK
<1>2. Env(p) \in Envs /\ req[p].kind \in {"apply", "plan", "destroy"}
  BY <1>1 DEF Env
<1> QED
  BY <1>2 DEF PlanOf, Names, MainCommand, AfterSelection, Finish, FirstCommand

(* The initial states are well typed. *)
LEMMA InitTypes == Init => TypeOK
<1> SUFFICES ASSUME Init PROVE TypeOK
  OBVIOUS
<1>1. NoVersion \in Versions /\ NoPlan \in Plans
  BY DEF NoVersion, Versions, NoPlan, Plans
<1>2. ClientTypeOK
  BY <1>1 DEF Init, ClientInit, ClientTypeOK, Names, Instances
<1>3. ControlTypeOK
  BY DEF Init, ControlTypeOK, Labels, Ended
<1>4. HistoryTypeOK
  BY <1>1 DEF Init, HistoryTypeOK, Instances
<1> QED
  BY <1>2, <1>3, <1>4 DEF TypeOK

(* Each terraform command leaves the backend and the container well typed. *)
(* A write of the state gives it a version. *)
LEMMA WrittenType ==
    ASSUME ClientTypeOK, NEW n \in Names
    PROVE  Written(n) \in [Names -> Versions]
BY DEF Written, ClientTypeOK, Versions

LEMMA ClientTypes ==
    ASSUME ClientTypeOK, NEW p \in Puts, NEW n \in Names, NEW s \in Names,
           NEW i \in Instances, NEW gone \in SUBSET Instances
    PROVE  /\ InitWithBackend(p) => ClientTypeOK'
           /\ WorkspaceSelect(p, n) => ClientTypeOK'
           /\ WorkspaceNew(p, n, s) => ClientTypeOK'
           /\ WorkspaceDelete(n) => ClientTypeOK'
           /\ Import(p, i) => ClientTypeOK'
           /\ Plan(p) => ClientTypeOK'
           /\ TakeLock(p) => ClientTypeOK'
           /\ Provision(p) => ClientTypeOK'
           /\ ApplyEnds(p) => ClientTypeOK'
           /\ DestroyEnds(p, gone) => ClientTypeOK'
           /\ GetPlan(p, n) => ClientTypeOK'
           /\ SavePlan(p, n) => ClientTypeOK'
           /\ UNCHANGED clientVars => ClientTypeOK'
<1> USE DEF ClientTypeOK, backend, container
<1>0. sel[p] \in Names /\ planFile[p] \in Plans /\ stored[n] \in Plans /\ Default \in Names
  BY DEF Names
<1>1. InitWithBackend(p) => ClientTypeOK'
  BY <1>0 DEF InitWithBackend
<1>2. WorkspaceSelect(p, n) => ClientTypeOK'
  BY DEF WorkspaceSelect
<1>3. WorkspaceNew(p, n, s) => ClientTypeOK'
  BY DEF WorkspaceNew, Versions, Instances
<1>4. WorkspaceDelete(n) => ClientTypeOK'
  BY DEF WorkspaceDelete, NoVersion, Versions, NoPlan, Plans
<1>5. Import(p, i) => ClientTypeOK'
  BY <1>0, WrittenType DEF Import
<1>6. Plan(p) => ClientTypeOK'
  BY <1>0 DEF Plan, Plans
<1>7. TakeLock(p) => ClientTypeOK'
  BY <1>0 DEF TakeLock
<1>8. Provision(p) => ClientTypeOK'
  BY DEF Provision, Instances
<1>9. ApplyEnds(p) => ClientTypeOK'
  BY <1>0, WrittenType DEF ApplyEnds, Instances
<1>10. DestroyEnds(p, gone) => ClientTypeOK'
  BY <1>0, WrittenType DEF DestroyEnds
<1>11. GetPlan(p, n) => ClientTypeOK'
  BY <1>0 DEF GetPlan
<1>12. SavePlan(p, n) => ClientTypeOK'
  BY <1>0, WrittenType DEF SavePlan
<1>13. UNCHANGED clientVars => ClientTypeOK'
  BY DEF clientVars
<1> QED
  BY <1>1, <1>2, <1>3, <1>4, <1>5, <1>6, <1>7, <1>8, <1>9, <1>10, <1>11, <1>12, <1>13

(* The ways a put goes on leave its control state well typed.              *)
LEMMA ControlTypes ==
    ASSUME ControlTypeOK, NEW p \in Puts, NEW label \in Labels
    PROVE  /\ Continue(p, label) => ControlTypeOK'
           /\ Refused(p) => ControlTypeOK'
           /\ Fault(p) => ControlTypeOK'
<1>1. Continue(p, label) => ControlTypeOK'
  BY DEF Continue, Goto, ControlTypeOK
<1>2. Fail(p) /\ faults' \in Nat => ControlTypeOK'
  BY DEF Fail, Goto, ControlTypeOK, Labels, Ended
<1>3. Refused(p) => ControlTypeOK'
  BY <1>2 DEF Refused, ControlTypeOK
<1>4. Fault(p) => ControlTypeOK'
  BY <1>2 DEF Fault, ControlTypeOK
<1> QED
  BY <1>1, <1>3, <1>4
(* Every step of a put leaves the state well typed. *)
LEMMA StepTypes ==
    ASSUME TypeOK, NEW p \in Puts, Step(p)
    PROVE  TypeOK'
<1> USE DEF TypeOK
<1>a. /\ Env(p) \in Names /\ Env(p) \in Instances /\ PlanOf(p) \in Names /\ sel[p] \in Names
      /\ res[sel[p]] \subseteq Instances
  BY RequestTypes DEF ClientTypeOK, Instances
<1>b. /\ InitWithBackend(p) => ClientTypeOK'
      /\ Plan(p) => ClientTypeOK'
      /\ TakeLock(p) => ClientTypeOK'
      /\ ApplyEnds(p) => ClientTypeOK'
      /\ UNCHANGED clientVars => ClientTypeOK'
      /\ Import(p, Env(p)) => ClientTypeOK'
      /\ \A gone \in SUBSET res[sel[p]] : DestroyEnds(p, gone) => ClientTypeOK'
  BY <1>a, ClientTypes
<1>c. /\ WorkspaceSelect(p, PlanOf(p)) => ClientTypeOK'
      /\ WorkspaceNew(p, PlanOf(p), sel[p]) => ClientTypeOK'
      /\ WorkspaceDelete(PlanOf(p)) => ClientTypeOK'
      /\ GetPlan(p, PlanOf(p)) => ClientTypeOK'
      /\ SavePlan(p, PlanOf(p)) => ClientTypeOK'
  BY <1>a, ClientTypes
<1>d. /\ WorkspaceSelect(p, Env(p)) => ClientTypeOK'
      /\ WorkspaceNew(p, Env(p), Env(p)) => ClientTypeOK'
      /\ WorkspaceDelete(Env(p)) => ClientTypeOK'
  BY <1>a, ClientTypes
<1>e. /\ \A label \in Labels : Continue(p, label) => ControlTypeOK'
      /\ Refused(p) => ControlTypeOK'
      /\ Fault(p) => ControlTypeOK'
  <2>1. "idle" \in Labels
    BY DEF Labels
  <2> QED
    BY <2>1, ControlTypes
<1>f. /\ MainCommand(p) \in Labels /\ AfterSelection(p) \in Labels
      /\ Finish(p) \in Labels /\ FirstCommand(p) \in Labels
  BY RequestTypes DEF Labels, Ended
<1>g. UNCHANGED history => HistoryTypeOK'
  BY DEF history, HistoryTypeOK
<1>h. {"planOutput", "list", "select", "new", "import", "importCheck", "apply", "applying",
       "stateVersion", "output", "planList", "planDelete", "plan", "jsonPlan", "saveList",
       "saveSelect", "saveNew", "saveApply", "destroy", "destroying", "wsDelete",
       "tfVersion", "done", "setup"} \subseteq Labels
  BY DEF Labels, Ended
<1>1. CASE Setup(p)
  <2>1. Goto(p, "done") /\ cause' = [cause EXCEPT ![p] = "setup"] /\ faults' = faults + 1
          /\ UNCHANGED <<req, reply, kills>> => ControlTypeOK'
    BY <1>h DEF Goto, ControlTypeOK
  <2> QED
    BY <1>1, <2>1, <1>b, <1>e, <1>f, <1>g DEF Setup
<1>2. CASE PlanSelect(p)
  BY <1>2, <1>b, <1>c, <1>e, <1>g, <1>h
     DEF PlanSelect, Call, Command, clientVars, history
<1>3. CASE PlanOutput(p)
  BY <1>3, <1>b, <1>c, <1>e, <1>g, <1>h
     DEF PlanOutput, Call, Command, clientVars, history
<1>4. CASE List(p)
  BY <1>4, <1>b, <1>e, <1>g, <1>h
     DEF List, Call, Command, clientVars, history
<1>5. CASE Select(p)
  BY <1>5, <1>b, <1>d, <1>e, <1>f, <1>g, <1>h
     DEF Select, Call, Command, clientVars, history
<1>6. CASE New(p)
  BY <1>6, <1>b, <1>d, <1>e, <1>f, <1>g, <1>h
     DEF New, Call, Command, clientVars, history
<1>7. CASE ImportCheck(p)
  <2>1. Goto(p, "import") /\ faults' = faults + 1
          /\ UNCHANGED <<req, cause, reply, kills>> => ControlTypeOK'
    BY <1>h DEF Goto, ControlTypeOK
  <2>2. UNCHANGED clientVars /\ UNCHANGED history
    BY <1>7 DEF ImportCheck, clientVars, history
  <2> QED
    BY <1>7, <2>1, <2>2, <1>b, <1>e, <1>f, <1>g, <1>h DEF ImportCheck
<1>8. CASE ImportResource(p)
  BY <1>8, <1>b, <1>e, <1>f, <1>g, <1>h
     DEF ImportResource, Call, Command, clientVars, history
<1>9. CASE ApplyStart(p)
  BY <1>9, <1>b, <1>e, <1>g, <1>h
     DEF ApplyStart, Begin, clientVars, history
<1>10. CASE ApplyEnd(p)
  <2>1. ClientTypeOK' /\ ControlTypeOK'
    BY <1>10, <1>b, <1>e, <1>h DEF ApplyEnd
  <2>2. version'[sel[p]] \in Versions
    BY <2>1, <1>a DEF ClientTypeOK
  <2>3. HistoryTypeOK'
    BY <1>10, <2>2 DEF ApplyEnd, HistoryTypeOK
  <2> QED
    BY <2>1, <2>3
<1>11. CASE StateVersion(p)
  <2>1. version[Env(p)] \in Versions
    BY <1>a DEF ClientTypeOK
  <2>2. seen' = [seen EXCEPT ![p].state = version[Env(p)]] /\ UNCHANGED began => HistoryTypeOK'
    BY <2>1 DEF HistoryTypeOK
  <2> QED
    BY <1>11, <2>2, <1>b, <1>e, <1>g, <1>h DEF StateVersion, Command, clientVars, history
<1>12. CASE Output(p)
  <2>1. version[Env(p)] \in Versions
    BY <1>a DEF ClientTypeOK
  <2>2. seen' = [seen EXCEPT ![p].output = version[Env(p)]] /\ UNCHANGED began => HistoryTypeOK'
    BY <2>1 DEF HistoryTypeOK
  <2> QED
    BY <1>12, <2>2, <1>b, <1>e, <1>g, <1>h DEF Output, Command, clientVars, history
<1>13. CASE PlanList(p)
  BY <1>13, <1>b, <1>e, <1>f, <1>g, <1>h
     DEF PlanList, Call, Command, clientVars, history
<1>14. CASE PlanDelete(p)
  BY <1>14, <1>b, <1>c, <1>e, <1>f, <1>g, <1>h
     DEF PlanDelete, Call, Command, clientVars, history
<1>15. CASE PlanEnv(p)
  BY <1>15, <1>b, <1>e, <1>g, <1>h
     DEF PlanEnv, Call, Command, clientVars, history
<1>16. CASE JSONPlan(p)
  BY <1>16, <1>b, <1>e, <1>g, <1>h
     DEF JSONPlan, Call, Command, clientVars, history
<1>17. CASE SaveList(p)
  BY <1>17, <1>b, <1>e, <1>g, <1>h
     DEF SaveList, Call, Command, clientVars, history
<1>18. CASE SaveSelect(p)
  BY <1>18, <1>b, <1>e, <1>g, <1>h
     DEF SaveSelect, Call, Command, clientVars, history
<1>19. CASE SaveNew(p)
  BY <1>19, <1>b, <1>c, <1>e, <1>g, <1>h
     DEF SaveNew, Call, Command, clientVars, history
<1>20. CASE SaveApply(p)
  BY <1>20, <1>b, <1>c, <1>e, <1>g, <1>h
     DEF SaveApply, Call, Command, clientVars, history
<1>21. CASE DestroySelect(p)
  BY <1>21, <1>b, <1>d, <1>e, <1>g, <1>h
     DEF DestroySelect, Call, Command, clientVars, history
<1>22. CASE DestroyStart(p)
  BY <1>22, <1>b, <1>e, <1>g, <1>h
     DEF DestroyStart, Begin, clientVars, history
<1>23. CASE DestroyEnd(p)
  BY <1>23, <1>b, <1>e, <1>g, <1>h DEF DestroyEnd
<1>24. CASE EnvDelete(p)
  BY <1>24, <1>b, <1>d, <1>e, <1>g, <1>h DEF EnvDelete, Call, Command, clientVars, history
<1>25. CASE TfVersion(p)
  <2>1. ControlTypeOK'
    BY <1>25, <1>h DEF TfVersion, Goto, ControlTypeOK
  <2> QED
    BY <1>25, <2>1, <1>b, <1>g DEF TfVersion, clientVars, history
<1> QED
  BY <1>1, <1>2, <1>3, <1>4, <1>5, <1>6, <1>7, <1>8, <1>9, <1>10, <1>11, <1>12, <1>13, <1>14,
     <1>15, <1>16, <1>17, <1>18, <1>19, <1>20, <1>21, <1>22, <1>23, <1>24, <1>25 DEF Step

-----------------------------------------------------------------------------
(* What a step of a put does, seen from the other puts: the label it goes  *)
(* to and the one command it may have run with an effect.                  *)

Busy == {"applying", "destroying"}

Effect(p, label) ==
    \/ /\ pc[p] \notin Busy /\ label \notin Busy
       /\ \/ UNCHANGED <<backend, infra>>
          \/ pc[p] = "new" /\ CanWorkspaceNew(Env(p)) /\ WorkspaceNew(p, Env(p), Env(p))
          \/ CanWorkspaceNew(PlanOf(p)) /\ WorkspaceNew(p, PlanOf(p), sel[p])
          \/ pc[p] = "import" /\ sel[p] = Env(p) /\ CanImport(p, Env(p)) /\ Import(p, Env(p))
          \/ /\ pc[p] = "wsDelete" /\ Env(p) # Default
             /\ CanWorkspaceDelete(Env(p)) /\ WorkspaceDelete(Env(p))
          \/ CanWorkspaceDeleteWithForce(PlanOf(p)) /\ WorkspaceDelete(PlanOf(p))
          \/ pc[p] = "saveApply" /\ CanSavePlan(PlanOf(p)) /\ SavePlan(p, PlanOf(p))
    \/ pc[p] \notin Busy /\ label \in Busy /\ Free(sel[p]) /\ TakeLock(p)
    \/ pc[p] = "applying" /\ label \notin Busy /\ ApplyEnds(p)
    \/ /\ pc[p] = "destroying" /\ label \notin Busy
       /\ \E gone \in SUBSET res[sel[p]] : DestroyEnds(p, gone)

(* Before the workspace of its env exists or is found. *)
Making == {"idle", "setup", "planSelect", "planOutput", "list", "new"}

Moves(p, label) ==
    /\ Goto(p, label) /\ req' = req
    /\ label \in Making => pc[p] \in Making \ {"new"}
    /\ sel' = [sel EXCEPT ![p] = sel'[p]]
    /\ label \in InSelected => sel'[p] = Env(p)
    /\ Running(p) /\ label \notin {"idle", "killed", "killedApply"}
    /\ Effect(p, label)

(* What a step of a put can do to the workspaces, the instances and the    *)
(* locks: one of few moves, whichever command it is.                       *)
LEMMA StepMoves ==
    ASSUME TypeOK, OwnWorkspace, NEW p \in Puts, Step(p)
    PROVE  \E label \in Labels : Moves(p, label)
<1>a. /\ Env(p) \in Names /\ PlanOf(p) \in Names /\ sel[p] \in Names
      /\ MainCommand(p) \in {"apply", "plan", "destroy"}
      /\ AfterSelection(p) \in {"importCheck", "apply", "plan", "destroy"}
      /\ Finish(p) \in {"done", "tfVersion"}
      /\ FirstCommand(p) \in {"destroySelect", "planSelect", "list"}
  BY RequestTypes DEF TypeOK, ClientTypeOK
<1>b. sel \in [Puts -> Names]
  BY DEF TypeOK, ClientTypeOK
<1>c. pc[p] \in InSelected => sel[p] = Env(p)
  BY DEF OwnWorkspace
<1>d. Refused(p) \/ Fault(p) =>
        \E label \in {"destroySelect", "done"} : Goto(p, label) /\ req' = req
  BY DEF Refused, Fault, Fail
<1>1. CASE Setup(p)
  BY <1>1, <1>a, <1>b, <1>c, <1>d
     DEF Setup, InitWithBackend, Continue, Call, Command, Continue, Goto, Moves, Effect,
         Busy, InSelected, Making, Labels, Ended, Running, clientVars, backend, container
<1>2. CASE PlanSelect(p)
  BY <1>2, <1>a, <1>b, <1>c, <1>d
     DEF PlanSelect, WorkspaceSelect, Call, Command, Continue, Goto, Moves, Effect,
         Busy, InSelected, Making, Labels, Ended, Running, clientVars, backend, container
<1>3. CASE PlanOutput(p)
  BY <1>3, <1>a, <1>b, <1>c, <1>d
     DEF PlanOutput, GetPlan, Call, Command, Continue, Goto, Moves, Effect,
         Busy, InSelected, Making, Labels, Ended, Running, clientVars, backend, container
<1>4. CASE List(p)
  BY <1>4, <1>a, <1>b, <1>c, <1>d
     DEF List, Call, Command, Continue, Goto, Moves, Effect,
         Busy, InSelected, Making, Labels, Ended, Running, clientVars, backend, container
<1>5. CASE Select(p)
  BY <1>5, <1>a, <1>b, <1>c, <1>d
     DEF Select, WorkspaceSelect, Call, Command, Continue, Goto, Moves, Effect,
         Busy, InSelected, Making, Labels, Ended, Running, clientVars, backend, container
<1>6. CASE New(p)
  BY <1>6, <1>a, <1>b, <1>c, <1>d
     DEF New, WorkspaceNew, Call, Command, Continue, Goto, Moves, Effect,
         Busy, InSelected, Making, Labels, Ended, Running, clientVars, backend, container
<1>7. CASE ImportCheck(p)
  BY <1>7, <1>a, <1>b, <1>c, <1>d
     DEF ImportCheck, Continue, Call, Command, Continue, Goto, Moves, Effect,
         Busy, InSelected, Making, Labels, Ended, Running, clientVars, backend, container
<1>8. CASE ImportResource(p)
  BY <1>8, <1>a, <1>b, <1>c, <1>d
     DEF ImportResource, Import, Call, Command, Continue, Goto, Moves, Effect,
         Busy, InSelected, Making, Labels, Ended, Running, clientVars, backend, container
<1>9. CASE ApplyStart(p)
  BY <1>9, <1>a, <1>b, <1>c, <1>d
     DEF ApplyStart, Begin, CanApply, TakeLock, Call, Command, Continue, Goto, Moves, Effect,
         Busy, InSelected, Making, Labels, Ended, Running, clientVars, backend, container
<1>10. CASE ApplyEnd(p)
  BY <1>10, <1>a, <1>b, <1>c, <1>d
     DEF ApplyEnd, ApplyEnds, Call, Command, Continue, Goto, Moves, Effect,
         Busy, InSelected, Making, Labels, Ended, Running, clientVars, backend, container
<1>11. CASE StateVersion(p)
  BY <1>11, <1>a, <1>b, <1>c, <1>d
     DEF StateVersion, Call, Command, Continue, Goto, Moves, Effect,
         Busy, InSelected, Making, Labels, Ended, Running, clientVars, backend, container
<1>12. CASE Output(p)
  BY <1>12, <1>a, <1>b, <1>c, <1>d
     DEF Output, Call, Command, Continue, Goto, Moves, Effect,
         Busy, InSelected, Making, Labels, Ended, Running, clientVars, backend, container
<1>13. CASE PlanList(p)
  BY <1>13, <1>a, <1>b, <1>c, <1>d
     DEF PlanList, Call, Command, Continue, Goto, Moves, Effect,
         Busy, InSelected, Making, Labels, Ended, Running, clientVars, backend, container
<1>14. CASE PlanDelete(p)
  BY <1>14, <1>a, <1>b, <1>c, <1>d
     DEF PlanDelete, WorkspaceDelete, Call, Command, Continue, Goto, Moves, Effect,
         Busy, InSelected, Making, Labels, Ended, Running, clientVars, backend, container
<1>15. CASE PlanEnv(p)
  BY <1>15, <1>a, <1>b, <1>c, <1>d
     DEF PlanEnv, Plan, Call, Command, Continue, Goto, Moves, Effect,
         Busy, InSelected, Making, Labels, Ended, Running, clientVars, backend, container
<1>16. CASE JSONPlan(p)
  BY <1>16, <1>a, <1>b, <1>c, <1>d
     DEF JSONPlan, Call, Command, Continue, Goto, Moves, Effect,
         Busy, InSelected, Making, Labels, Ended, Running, clientVars, backend, container
<1>17. CASE SaveList(p)
  BY <1>17, <1>a, <1>b, <1>c, <1>d
     DEF SaveList, Call, Command, Continue, Goto, Moves, Effect,
         Busy, InSelected, Making, Labels, Ended, Running, clientVars, backend, container
<1>18. CASE SaveSelect(p)
  BY <1>18, <1>a, <1>b, <1>c, <1>d
     DEF SaveSelect, Call, Command, Continue, Goto, Moves, Effect,
         Busy, InSelected, Making, Labels, Ended, Running, clientVars, backend, container
<1>19. CASE SaveNew(p)
  BY <1>19, <1>a, <1>b, <1>c, <1>d
     DEF SaveNew, WorkspaceNew, Call, Command, Continue, Goto, Moves, Effect,
         Busy, InSelected, Making, Labels, Ended, Running, clientVars, backend, container
<1>20. CASE SaveApply(p)
  BY <1>20, <1>a, <1>b, <1>c, <1>d
     DEF SaveApply, SavePlan, Call, Command, Continue, Goto, Moves, Effect,
         Busy, InSelected, Making, Labels, Ended, Running, clientVars, backend, container
<1>21. CASE DestroySelect(p)
  BY <1>21, <1>a, <1>b, <1>c, <1>d
     DEF DestroySelect, WorkspaceSelect, Call, Command, Continue, Goto, Moves, Effect,
         Busy, InSelected, Making, Labels, Ended, Running, clientVars, backend, container
<1>22. CASE DestroyStart(p)
  BY <1>22, <1>a, <1>b, <1>c, <1>d
     DEF DestroyStart, Begin, CanDestroy, TakeLock, Call, Command, Continue, Goto, Moves, Effect,
         Busy, InSelected, Making, Labels, Ended, Running, clientVars, backend, container
<1>23. CASE DestroyEnd(p)
  BY <1>23, <1>a, <1>b, <1>c, <1>d
     DEF DestroyEnd, DestroyEnds, Call, Command, Continue, Goto, Moves, Effect,
         Busy, InSelected, Making, Labels, Ended, Running, clientVars, backend, container
<1>24. CASE EnvDelete(p)
  BY <1>24, <1>a, <1>b, <1>c, <1>d
     DEF EnvDelete, WorkspaceDelete, Call, Command, Continue, Goto, Moves, Effect,
         Busy, InSelected, Making, Labels, Ended, Running, clientVars, backend, container
<1>25. CASE TfVersion(p)
  BY <1>25, <1>a, <1>b, <1>c, <1>d
     DEF TfVersion, Call, Command, Continue, Goto, Moves, Effect,
         Busy, InSelected, Making, Labels, Ended, Running, clientVars, backend, container
<1> QED
  BY <1>1, <1>2, <1>3, <1>4, <1>5, <1>6, <1>7, <1>8, <1>9, <1>10, <1>11, <1>12, <1>13, <1>14,
     <1>15, <1>16, <1>17, <1>18, <1>19, <1>20, <1>21, <1>22, <1>23, <1>24, <1>25 DEF Step

(* Every command that works on the selected workspace comes after a        *)
(* selection of the workspace of the put's own env.                        *)
LEMMA MovesOwnWorkspace ==
    ASSUME TypeOK, OwnWorkspace, NEW p \in Puts, NEW label \in Labels, Moves(p, label)
    PROVE  OwnWorkspace'
BY DEF TypeOK, ClientTypeOK, ControlTypeOK, OwnWorkspace, Moves, Goto, Env

(* The workspaces that exist and their locks only change under the rules   *)
(* of the lock.                                                            *)
LEMMA MovesLockHeld ==
    ASSUME TypeOK, OwnWorkspace, LockHeld, NEW p \in Puts, NEW label \in Labels,
           Moves(p, label)
    PROVE  LockHeld'
<1> SUFFICES ASSUME NEW q \in Puts, pc'[q] \in Busy
             PROVE  Env(q)' \in spaces' /\ lock'[Env(q)'] = q
  BY DEF LockHeld, Busy
<1>1. /\ Env(q)' = Env(q) /\ Env(q) \in Names /\ Env(p) \in Names /\ PlanOf(p) \in Names
      /\ pc'[p] = label /\ (q # p => pc'[q] = pc[q])
      /\ lock \in [Names -> Puts \cup {Nobody}] /\ Nobody \notin Puts
      /\ sel[p] \in Names
  BY RequestTypes, ClientAssumption DEF Moves, Goto, Env, TypeOK, ClientTypeOK, ControlTypeOK
<1>2. pc[q] \in Busy => Env(q) \in spaces /\ lock[Env(q)] = q /\ sel[q] = Env(q)
  BY DEF LockHeld, OwnWorkspace, Busy, InSelected
<1>3. CASE pc[p] \notin Busy /\ label \notin Busy
  <2>1. pc[q] \in Busy
    BY <1>1, <1>3
  <2>2. Env(q) \in spaces /\ lock[Env(q)] # Nobody
    BY <1>1, <1>2, <2>1
  <2>3. Env(q) \in spaces' /\ lock' = lock
    <3>1. CASE WorkspaceDelete(Env(p)) /\ CanWorkspaceDelete(Env(p))
      BY <2>2, <3>1 DEF WorkspaceDelete, CanWorkspaceDelete, Free
    <3>2. CASE WorkspaceDelete(PlanOf(p)) /\ CanWorkspaceDeleteWithForce(PlanOf(p))
      BY <2>2, <3>2 DEF WorkspaceDelete, CanWorkspaceDeleteWithForce, Free
    <3>3. CASE WorkspaceNew(p, Env(p), Env(p)) \/ WorkspaceNew(p, PlanOf(p), sel[p])
      BY <2>2, <3>3 DEF WorkspaceNew
    <3>4. CASE \/ UNCHANGED <<backend, infra>>
               \/ Import(p, Env(p)) \/ SavePlan(p, PlanOf(p))
      BY <2>2, <3>4 DEF Import, SavePlan, backend
    <3>5. Effect(p, label)
      BY DEF Moves
    <3> QED
      BY ONLY <1>3, <3>1, <3>2, <3>3, <3>4, <3>5 DEF Effect, Busy
  <2> QED
    BY <1>1, <1>2, <2>1, <2>3
<1>4. CASE pc[p] \notin Busy /\ label \in Busy /\ Free(sel[p]) /\ TakeLock(p)
  <2>1. sel[p] = Env(p)
    BY <1>4 DEF Moves, TakeLock, Busy, InSelected, container
  <2> QED
    BY <1>1, <1>2, <1>4, <2>1 DEF TakeLock, Free
<1>5. CASE pc[p] \in Busy /\ label \notin Busy
  <2>1. sel[p] = Env(p) /\ lock[Env(p)] = p
    BY <1>5 DEF LockHeld, OwnWorkspace, Busy, InSelected
  <2>2. q # p /\ Env(q) # Env(p)
    BY <1>1, <1>2, <1>5, <2>1
  <2> QED
    BY <1>1, <1>2, <1>5, <2>1, <2>2 DEF Moves, Effect, ApplyEnds, DestroyEnds, Busy
<1> QED
  BY <1>3, <1>4, <1>5 DEF Moves, Effect, Busy

(* No command writes an instance into the state of a plan workspace: only  *)
(* apply and import record instances, and they run in the env's.           *)
LEMMA MovesPlansRecordNothing ==
    ASSUME TypeOK, OwnWorkspace, PlansRecordNothing, PlanNamesApart,
           NEW p \in Puts, NEW label \in Labels, Moves(p, label)
    PROVE  PlansRecordNothing'
<1> SUFFICES ASSUME NEW e \in Envs
             PROVE  res'[PlanName[e]] = {}
  BY DEF PlansRecordNothing
<1>1. /\ PlanName[e] \in Names /\ PlanName[e] # Env(p) /\ res[PlanName[e]] = {}
      /\ res \in [Names -> SUBSET Instances]
      /\ Env(p) \in Names /\ PlanOf(p) \in Names
  BY RequestTypes DEF PlansRecordNothing, PlanNamesApart, Names, TypeOK, ClientTypeOK
<1>2. pc[p] \in Busy => sel[p] = Env(p)
  BY DEF OwnWorkspace, Busy, InSelected
<1> QED
  BY <1>1, <1>2 DEF Moves, Effect, WorkspaceNew, Import, WorkspaceDelete, SavePlan,
     TakeLock, ApplyEnds, DestroyEnds, Busy, backend

(* An instance stays recorded unless terraform removes it.                 *)
LEMMA MovesNoOrphans ==
    ASSUME IInv, PlanNamesApart, NEW p \in Puts, NEW label \in Labels, Moves(p, label)
    PROVE  NoOrphans'
<1> SUFFICES ASSUME NEW q \in Puts, q \in infra',
                    pc'[q] \notin {"applying", "killedApply"}
             PROVE  Env(q)' \in spaces' /\ q \in res'[Env(q)']
  BY DEF NoOrphans
<1>1. /\ Env(q)' = Env(q) /\ Env(q) \in Names /\ Env(p) \in Names /\ PlanOf(p) \in Names
      /\ pc'[p] = label /\ (q # p => pc'[q] = pc[q])
      /\ res \in [Names -> SUBSET Instances]
      /\ sel[p] \in Names
  BY RequestTypes DEF Moves, Goto, Env, IInv, TypeOK, ClientTypeOK, ControlTypeOK
<1>2. infra' \subseteq infra
  BY DEF Moves, Effect, WorkspaceNew, Import, WorkspaceDelete, SavePlan, TakeLock,
     ApplyEnds, DestroyEnds, backend
<1>3. pc[p] \in Busy => sel[p] = Env(p) /\ Env(p) \in spaces
  BY DEF IInv, OwnWorkspace, LockHeld, Busy, InSelected
<1>4. PlanOf(p) # Env(q) /\ res[PlanOf(p)] = {}
  BY RequestTypes DEF IInv, PlanNamesApart, PlansRecordNothing, PlanOf
<1>5. CASE q = p /\ pc[p] = "applying"
  <2>1. ApplyEnds(p)
    BY <1>1, <1>5 DEF Moves, Effect, Busy
  <2> QED
    BY <1>1, <1>2, <1>3, <1>5, <2>1 DEF ApplyEnds, Busy
<1>6. CASE ~(q = p /\ pc[p] = "applying")
  <2>1. Env(q) \in spaces /\ q \in res[Env(q)]
    BY <1>1, <1>2, <1>6 DEF IInv, NoOrphans, Moves, Running, Ended
  <2>2. CASE pc[p] \notin Busy /\ label \notin Busy
    <3>1. CASE WorkspaceDelete(Env(p)) /\ CanWorkspaceDelete(Env(p))
      BY <1>1, <2>1, <3>1 DEF WorkspaceDelete, CanWorkspaceDelete
    <3>2. CASE WorkspaceDelete(PlanOf(p)) \/ SavePlan(p, PlanOf(p))
      BY <1>1, <1>4, <2>1, <3>2 DEF WorkspaceDelete, SavePlan
    <3>3. CASE WorkspaceNew(p, Env(p), Env(p)) \/ WorkspaceNew(p, PlanOf(p), sel[p])
      BY <1>1, <2>1, <3>3 DEF WorkspaceNew
    <3>4. CASE UNCHANGED <<backend, infra>> \/ (sel[p] = Env(p) /\ Import(p, Env(p)))
      BY <1>1, <2>1, <3>4 DEF Import, backend
    <3>5. Effect(p, label)
      BY DEF Moves
    <3> QED
      BY ONLY <2>2, <3>1, <3>2, <3>3, <3>4, <3>5 DEF Effect, Busy
  <2>3. CASE TakeLock(p) \/ ApplyEnds(p)
    BY <1>1, <2>1, <2>3 DEF TakeLock, ApplyEnds
  <2>4. CASE \E gone \in SUBSET res[sel[p]] : DestroyEnds(p, gone)
    BY <1>1, <2>1, <2>4 DEF DestroyEnds
  <2> QED
    BY <2>2, <2>3, <2>4 DEF Moves, Effect, Busy
<1> QED
  BY <1>5, <1>6

(* What a step of a put does to the version of the state of an env: none,  *)
(* or that of its own env, which only the workspace's life starts over.    *)
VersionStep(p, e) ==
    \/ version'[e] = version[e] /\ (e \in spaces' <=> e \in spaces)
    \/ /\ e = Env(p) /\ e \in spaces \cap spaces' /\ pc[p] \in InSelected
       /\ version'[e].lineage = version[e].lineage /\ version'[e].serial = version[e].serial + 1
    \/ /\ e = Env(p) /\ e \in spaces' \ spaces /\ pc[p] = "new"
       /\ version'[e] = [lineage |-> p, serial |-> 0]
    \/ /\ e = Env(p) /\ e \in spaces \ spaces' /\ pc[p] = "wsDelete" /\ e # Default
       /\ version'[e] = NoVersion

LEMMA MovesVersions ==
    ASSUME IInv, PlanNamesApart, NEW p \in Puts, NEW label \in Labels, Moves(p, label),
           NEW e \in Envs
    PROVE  VersionStep(p, e)
<1>1. /\ Env(p) \in Names /\ PlanOf(p) \in Names /\ PlanOf(p) # e /\ e \in Names
      /\ version \in [Names -> Versions] /\ version[e].serial \in Nat
  BY RequestTypes DEF IInv, TypeOK, ClientTypeOK, PlanNamesApart, PlanOf, Names, Versions
<1>2. /\ pc[p] \in Busy => sel[p] = Env(p) /\ Env(p) \in spaces
      /\ pc[p] \in Busy \cup {"import"} => pc[p] \in InSelected
  BY DEF IInv, OwnWorkspace, LockHeld, Busy, InSelected
<1>3. CASE \/ UNCHANGED <<backend, infra>> \/ TakeLock(p)
           \/ WorkspaceNew(p, PlanOf(p), sel[p]) \/ WorkspaceDelete(PlanOf(p))
           \/ SavePlan(p, PlanOf(p))
  BY <1>1, <1>3 DEF backend, TakeLock, WorkspaceNew, WorkspaceDelete, SavePlan, Written, VersionStep
<1>4. CASE pc[p] = "new" /\ CanWorkspaceNew(Env(p)) /\ WorkspaceNew(p, Env(p), Env(p))
  BY <1>1, <1>4 DEF CanWorkspaceNew, WorkspaceNew, VersionStep
<1>5. CASE /\ pc[p] = "wsDelete" /\ Env(p) # Default
           /\ CanWorkspaceDelete(Env(p)) /\ WorkspaceDelete(Env(p))
  BY <1>1, <1>5 DEF CanWorkspaceDelete, Free, WorkspaceDelete, VersionStep
<1>6. CASE pc[p] = "import" /\ sel[p] = Env(p) /\ CanImport(p, Env(p)) /\ Import(p, Env(p))
  BY <1>1, <1>2, <1>6 DEF CanImport, Free, Import, Written, VersionStep
<1>7. CASE pc[p] = "applying" /\ ApplyEnds(p)
  <2>1. CASE p \in infra
    BY <1>1, <1>2, <1>7, <2>1 DEF ApplyEnds, Written, VersionStep, Busy
  <2>2. CASE p \notin infra
    BY <1>7, <2>2 DEF ApplyEnds, VersionStep
  <2> QED
    BY <2>1, <2>2
<1>8. CASE pc[p] = "destroying" /\ \E gone \in SUBSET res[sel[p]] : DestroyEnds(p, gone)
  BY <1>1, <1>2, <1>8 DEF DestroyEnds, Written, VersionStep, Busy
<1> QED
  BY <1>3, <1>4, <1>5, <1>6, <1>7, <1>8 DEF Moves, Effect

-----------------------------------------------------------------------------
(* The steps that are not commands of a put. *)
LEMMA StartInvariant ==
    ASSUME IInv, NEW p \in Puts, Start(p)
    PROVE  IInv'
<1>1. TypeOK'
  <2>1. ClientTypeOK'
    BY DEF Start, IInv, TypeOK, ClientTypeOK, clientVars, backend, container
  <2>2. ControlTypeOK'
    BY ControlTypes DEF Start, IInv, TypeOK, Labels
  <2>3. /\ Ready(p) \in BOOLEAN /\ faults \in Nat
        /\ res[Env(p)] \in SUBSET Instances /\ stored[PlanOf(p)] \in Plans
    BY RequestTypes DEF IInv, TypeOK, ClientTypeOK, ControlTypeOK, Ready
  <2>4. HistoryTypeOK'
    <3> DEFINE Found == [res : SUBSET Instances, plan : Plans, ready : BOOLEAN, faults : Nat]
    <3>1. began \in [Puts -> Found] /\ seen' = seen
      BY DEF Start, IInv, TypeOK, HistoryTypeOK
    <3>2. /\ [res |-> res[Env(p)], plan |-> stored[PlanOf(p)],
              ready |-> Ready(p) /\ Others(p) = {}, faults |-> faults] \in Found
          /\ \A q \in Puts : began[q] \in Found /\ [began[q] EXCEPT !.ready = FALSE] \in Found
      BY <2>3, <3>1
    <3>3. began' \in [Puts -> Found]
      BY <3>2 DEF Start
    <3> QED
      BY <3>1, <3>3 DEF IInv, TypeOK, HistoryTypeOK
  <2> QED
    BY <2>1, <2>2, <2>4 DEF TypeOK
<1>2. /\ \A q \in Puts : pc'[q] = pc[q] \/ (pc'[q] = "setup" /\ pc[q] = "idle")
      /\ UNCHANGED <<req, spaces, res, lock, infra, sel>>
  <2>1. pc \in [Puts -> Labels] /\ pc' = [pc EXCEPT ![p] = "setup"] /\ pc[p] = "idle"
    BY DEF Start, Continue, Goto, IInv, TypeOK, ControlTypeOK
  <2>2. \A q \in Puts : pc'[q] = pc[q] \/ (pc'[q] = "setup" /\ pc[q] = "idle")
    BY <2>1
  <2> QED
    BY <2>2 DEF Start, Continue, clientVars, backend, container
<1> QED
  BY <1>1, <1>2 DEF IInv, OwnWorkspace, InSelected, LockHeld, PlansRecordNothing, NoOrphans, Env

(* A resource is created in an apply that is under way. *)
LEMMA ProvisionInvariant ==
    ASSUME IInv, NEW p \in Puts, ApplyProvision(p)
    PROVE  IInv'
<1>1. TypeOK'
  <2>1. ClientTypeOK'
    BY DEF ApplyProvision, Provision, IInv, TypeOK, ClientTypeOK, Instances, backend, container
  <2> QED
    BY <2>1 DEF ApplyProvision, IInv, TypeOK, ControlTypeOK, HistoryTypeOK, control, history
<1>2. /\ UNCHANGED <<pc, req, spaces, res, lock, sel>>
      /\ infra' = infra \cup {p} /\ pc[p] = "applying"
  BY DEF ApplyProvision, Provision, control, backend, container
<1> QED
  BY <1>1, <1>2 DEF IInv, OwnWorkspace, InSelected, LockHeld, PlansRecordNothing, NoOrphans, Env

(* An abort can leave resources unrecorded, but only of the apply it aborts. *)
LEMMA KillInvariant ==
    ASSUME IInv, NEW p \in Puts, Kill(p)
    PROVE  IInv'
<1>1. /\ UNCHANGED <<req, spaces, res, version, stored, lock, sel, planFile, cause, reply,
                     faults, history>>
      /\ kills' = kills + 1
      /\ infra' \subseteq infra
  BY DEF Kill, backend, container
<1>2. /\ pc' \in [Puts -> Labels]
      /\ \A q \in Puts : pc'[q] = pc[q] \/ pc'[q] \in {"killed", "killedApply"}
      /\ \A q \in Puts : pc[q] \in {"applying", "killedApply"} =>
                             pc'[q] \in {"applying", "killedApply"}
  BY DEF Kill, Goto, Running, Ended, Labels, IInv, TypeOK, ControlTypeOK
<1>3. TypeOK'
  BY <1>1, <1>2 DEF IInv, TypeOK, ClientTypeOK, ControlTypeOK, HistoryTypeOK, history
<1> QED
  BY <1>1, <1>2, <1>3
     DEF IInv, OwnWorkspace, InSelected, LockHeld, PlansRecordNothing, NoOrphans, Env

-----------------------------------------------------------------------------
(* The invariant holds initially, when nothing but the default workspace   *)
(* exists.                                                                 *)
LEMMA InitInvariant == Init => IInv
<1> SUFFICES ASSUME Init PROVE IInv
  OBVIOUS
<1>1. Puts \cap infra = {}
  BY ClientAssumption DEF Init, ClientInit
<1> QED
  BY <1>1, InitTypes DEF Init, ClientInit, IInv, OwnWorkspace, InSelected, LockHeld,
     PlansRecordNothing, NoOrphans, Names

(* Every step preserves the invariant. *)
LEMMA NextInvariant == IInv /\ [Next]_vars => IInv'
<1> SUFFICES ASSUME IInv, [Next]_vars PROVE IInv'
  OBVIOUS
<1>1. ASSUME NEW p \in Puts, Step(p) PROVE IInv'
  <2>1. TypeOK'
    BY <1>1, StepTypes DEF IInv
  <2>2. PICK label \in Labels : Moves(p, label)
    BY <1>1, StepMoves DEF IInv
  <2>3. OwnWorkspace' /\ LockHeld'
    BY <2>2, MovesOwnWorkspace, MovesLockHeld DEF IInv
  <2>4. PlanNamesApart => PlansRecordNothing' /\ NoOrphans'
    BY <2>2, MovesPlansRecordNothing, MovesNoOrphans DEF IInv
  <2> QED
    BY <2>1, <2>3, <2>4 DEF IInv, PlanNamesApart
<1>2. ASSUME NEW p \in Puts, Start(p) \/ ApplyProvision(p) \/ Kill(p) PROVE IInv'
  BY <1>2, StartInvariant, ProvisionInvariant, KillInvariant
<1>3. CASE UNCHANGED vars
  BY <1>3 DEF vars, clientVars, backend, container, control, history, IInv, TypeOK,
     ClientTypeOK, ControlTypeOK, HistoryTypeOK, OwnWorkspace, LockHeld,
     PlanNamesApart, PlansRecordNothing, NoOrphans, Env
<1> QED
  BY <1>1, <1>2, <1>3 DEF Next, AllEnded

(* The inductive invariant holds in every state a run of puts can reach. *)
THEOREM Invariant == Spec => []IInv
BY InitInvariant, NextInvariant, PTL DEF Spec

(* Every state of the specification is well typed. *)
THEOREM TypeCorrect == Spec => []TypeOK
<1>1. IInv => TypeOK
  BY DEF IInv
<1> QED
  BY <1>1, Invariant, PTL

(* Import, plan, apply and destroy run in the workspace of the put's env,  *)
(* for any number of puts, failures and aborted builds.                    *)
THEOREM SelectsOwnWorkspace == Spec => []OwnWorkspace
<1>1. IInv => OwnWorkspace
  BY DEF IInv
<1> QED
  BY <1>1, Invariant, PTL

(* No instance is ever forgotten, as long as no env is called like the     *)
(* plan workspace of another one, which the code does not check.           *)
THEOREM ForgetsNothing ==
    ASSUME PlanNamesApart
    PROVE  Spec => []NoOrphans
<1>1. IInv => NoOrphans
  BY DEF IInv
<1> QED
  BY <1>1, Invariant, PTL

-----------------------------------------------------------------------------
(* The refinement.  It needs, beyond IInv, that a put only comes to the    *)
(* commands that its request asks for.                                     *)
MayDestroy(p) == req[p].kind = "destroy" \/ (req[p].kind = "apply" /\ req[p].deleteOnFailure)
MayRun(p, label, c) ==
    /\ label \in {"apply", "applying"} => req[p].kind = "apply"
    /\ label \in {"destroySelect", "destroy", "destroying"} => MayDestroy(p)
    /\ label \in {"importCheck", "import"} => req[p].imports
    /\ label \notin Ended /\ c # "none" => MayDestroy(p)
OnRequest == \A p \in Puts : MayRun(p, pc[p], cause[p])

(* The labels a step can lead to. *)
LEMMA StepMayRun ==
    ASSUME TypeOK, NEW p \in Puts, MayRun(p, pc[p], cause[p]), Step(p)
    PROVE  \E label \in Labels, c \in Labels \cup {"none"} :
              /\ Goto(p, label) /\ cause' = [cause EXCEPT ![p] = c] /\ req' = req
              /\ MayRun(p, label, c)
<1> DEFINE Leads == \E label \in Labels, c \in Labels \cup {"none"} :
              /\ Goto(p, label) /\ cause' = [cause EXCEPT ![p] = c] /\ req' = req
              /\ MayRun(p, label, c)
<1> SUFFICES Leads
  OBVIOUS
<1>a. /\ cause \in [Puts -> Labels \cup {"none"}] /\ pc[p] \in Labels
      /\ "destroySelect" \in Labels /\ "done" \in Labels /\ "done" \in Ended
      /\ "none" \notin Labels
  BY DEF TypeOK, ControlTypeOK, Labels, Ended
<1>b. \A label \in Labels : Continue(p, label) /\ MayRun(p, label, cause[p]) => Leads
  BY <1>a DEF Continue
<1>c. ASSUME Fail(p)
      PROVE  Leads
  <2>1. CASE CleansUp(p)
    <3>1. MayRun(p, "destroySelect", pc[p])
      BY <2>1 DEF CleansUp, MayRun, MayDestroy
    <3> QED
      BY <1>a, <1>c, <2>1, <3>1 DEF Fail, CleansUp
  <2>2. CASE ~CleansUp(p)
    <3>1. \A c : MayRun(p, "done", c)
      BY DEF MayRun, Ended
    <3>2. CASE CleaningUp(p)
      BY <1>a, <1>c, <2>2, <3>1, <3>2 DEF Fail
    <3>3. CASE ~CleaningUp(p)
      BY <1>a, <1>c, <2>2, <3>1, <3>3 DEF Fail
    <3> QED
      BY <3>2, <3>3
  <2> QED
    BY <2>1, <2>2
<1>d. Refused(p) \/ Fault(p) => Leads
  BY <1>c DEF Refused, Fault
<1> DEFINE Plain == {"setup", "planSelect", "planOutput", "list", "select", "new", "stateVersion",
                     "output", "planList", "planDelete", "plan", "jsonPlan", "saveList",
                     "saveSelect", "saveNew", "saveApply", "wsDelete", "tfVersion", "done"}
<1>e. pc[p] \notin Ended => \A label \in Plain : Continue(p, label) => Leads
  <2> HIDE DEF Leads
  <2>1. \A label \in Plain : label \in Labels
    BY DEF Labels, Ended
  <2>2. ASSUME pc[p] \notin Ended, NEW label \in Plain PROVE MayRun(p, label, cause[p])
    BY <2>2 DEF MayRun
  <2> QED
    BY <1>b, <2>1, <2>2
<1>f. /\ MainCommand(p) \in {"apply", "plan", "destroy"}
      /\ AfterSelection(p) \in {MainCommand(p), "importCheck"}
      /\ AfterSelection(p) = "importCheck" => req[p].imports
      /\ Finish(p) \in {"done", "tfVersion"}
      /\ FirstCommand(p) \in {"destroySelect", "planSelect", "list"}
      /\ FirstCommand(p) = "destroySelect" => req[p].kind = "destroy"
  BY RequestTypes DEF AfterSelection, FirstCommand
<1>g. pc[p] \notin Ended =>
        MayRun(p, MainCommand(p), cause[p]) /\ MayRun(p, AfterSelection(p), cause[p])
  BY <1>f DEF MayRun, MainCommand, CleaningUp, MayDestroy
<1>h. pc[p] \notin Ended =>
        /\ Continue(p, MainCommand(p)) => Leads
        /\ Continue(p, AfterSelection(p)) => Leads
        /\ Continue(p, FirstCommand(p)) => Leads
        /\ Continue(p, Finish(p)) => Leads
  <2>1. MayRun(p, "destroySelect", cause[p]) \/ FirstCommand(p) # "destroySelect" \/ pc[p] \in Ended
    BY <1>f DEF MayRun, MayDestroy
  <2>2. MainCommand(p) \in Labels /\ AfterSelection(p) \in Labels
    BY <1>f DEF Labels
  <2> QED
    BY <1>a, <1>b, <1>e, <1>f, <1>g, <2>1, <2>2
<1> HIDE DEF Leads, Plain
<1>i. {"planOutput", "list", "select", "new", "stateVersion", "output", "planList", "planDelete",
       "jsonPlan", "saveList", "saveSelect", "saveNew", "saveApply", "wsDelete", "tfVersion",
       "done"} \subseteq Plain
  BY DEF Plain
<1>1. CASE Setup(p)
  <2>1. Goto(p, "done") /\ cause' = [cause EXCEPT ![p] = "setup"] /\ req' = req => Leads
    <3>1. "setup" \in Labels /\ MayRun(p, "done", "setup")
      BY DEF Labels, MayRun, Ended
    <3> QED
      BY <1>a, <3>1 DEF Leads
  <2> QED
    BY <1>1, <2>1, <1>h DEF Setup, Ended
<1>2. CASE PlanSelect(p)
  BY <1>2, <1>d, <1>e, <1>h, <1>i DEF PlanSelect, Call, Command, Ended
<1>3. CASE PlanOutput(p)
  BY <1>3, <1>d, <1>e, <1>h, <1>i DEF PlanOutput, Call, Command, Ended
<1>4. CASE List(p)
  BY <1>4, <1>d, <1>e, <1>h, <1>i DEF List, Call, Command, Ended
<1>5. CASE Select(p)
  BY <1>5, <1>d, <1>e, <1>h, <1>i DEF Select, Call, Command, Ended
<1>6. CASE New(p)
  BY <1>6, <1>d, <1>e, <1>h, <1>i DEF New, Call, Command, Ended
<1>7. CASE ImportCheck(p)
  <2>1. Continue(p, "import") => Leads
    <3>1. "import" \in Labels /\ MayRun(p, "import", cause[p])
      BY <1>7 DEF ImportCheck, MayRun, Labels, Ended
    <3> QED
      BY <1>b, <3>1
  <2>2. Goto(p, "import") /\ UNCHANGED <<req, cause>> => Leads
    <3>1. "import" \in Labels /\ MayRun(p, "import", cause[p])
      BY <1>7 DEF ImportCheck, MayRun, Labels, Ended
    <3>2. cause' = cause => cause' = [cause EXCEPT ![p] = cause[p]]
      BY <1>a
    <3> QED
      BY <1>a, <3>1, <3>2 DEF Leads
  <2> QED
    BY <1>7, <2>1, <2>2, <1>h DEF ImportCheck, Ended
<1>8. CASE ImportResource(p)
  BY <1>8, <1>d, <1>e, <1>h, <1>i DEF ImportResource, Call, Command, Ended
<1>9. CASE ApplyStart(p)
  <2>1. Continue(p, "applying") => Leads
    <3>1. "applying" \in Labels /\ MayRun(p, "applying", cause[p])
      BY <1>9 DEF ApplyStart, Begin, MayRun, Labels, Ended
    <3> QED
      BY <1>b, <3>1
  <2> QED
    BY <1>9, <2>1, <1>d DEF ApplyStart, Begin
<1>10. CASE ApplyEnd(p)
  BY <1>10, <1>d, <1>e, <1>h, <1>i DEF ApplyEnd, Ended
<1>11. CASE StateVersion(p)
  BY <1>11, <1>d, <1>e, <1>h, <1>i DEF StateVersion, Command, Ended
<1>12. CASE Output(p)
  BY <1>12, <1>d, <1>e, <1>h, <1>i DEF Output, Command, Ended
<1>13. CASE PlanList(p)
  BY <1>13, <1>d, <1>e, <1>h, <1>i DEF PlanList, Call, Command, Ended
<1>14. CASE PlanDelete(p)
  BY <1>14, <1>d, <1>e, <1>h, <1>i DEF PlanDelete, Call, Command, Ended
<1>15. CASE PlanEnv(p)
  BY <1>15, <1>d, <1>e, <1>h, <1>i DEF PlanEnv, Call, Command, Ended
<1>16. CASE JSONPlan(p)
  BY <1>16, <1>d, <1>e, <1>h, <1>i DEF JSONPlan, Call, Command, Ended
<1>17. CASE SaveList(p)
  BY <1>17, <1>d, <1>e, <1>h, <1>i DEF SaveList, Call, Command, Ended
<1>18. CASE SaveSelect(p)
  BY <1>18, <1>d, <1>e, <1>h, <1>i DEF SaveSelect, Call, Command, Ended
<1>19. CASE SaveNew(p)
  BY <1>19, <1>d, <1>e, <1>h, <1>i DEF SaveNew, Call, Command, Ended
<1>20. CASE SaveApply(p)
  BY <1>20, <1>d, <1>e, <1>h, <1>i DEF SaveApply, Call, Command, Ended
<1>21. CASE DestroySelect(p)
  <2>1. Continue(p, IF req[p].imports THEN "importCheck" ELSE "destroy") => Leads
    <3> DEFINE label == IF req[p].imports THEN "importCheck" ELSE "destroy"
    <3>1. label \in Labels /\ MayRun(p, label, cause[p])
      BY <1>21 DEF DestroySelect, Call, Command, MayRun, Labels, Ended
    <3> QED
      BY <1>b, <3>1
  <2> QED
    BY <1>21, <2>1, <1>d DEF DestroySelect, Call, Command
<1>22. CASE DestroyStart(p)
  <2>1. Continue(p, "destroying") => Leads
    <3>1. "destroying" \in Labels /\ MayRun(p, "destroying", cause[p])
      BY <1>22 DEF DestroyStart, Begin, MayRun, Labels, Ended
    <3> QED
      BY <1>b, <3>1
  <2> QED
    BY <1>22, <2>1, <1>d DEF DestroyStart, Begin
<1>23. CASE DestroyEnd(p)
  BY <1>23, <1>d, <1>e, <1>h, <1>i DEF DestroyEnd, Ended
<1>24. CASE EnvDelete(p)
  BY <1>24, <1>d, <1>e, <1>h, <1>i DEF EnvDelete, Call, Command, Ended
<1>25. CASE TfVersion(p)
  <2>1. MayRun(p, "done", cause[p]) /\ cause' = cause => cause' = [cause EXCEPT ![p] = cause[p]]
    BY <1>a
  <2>2. MayRun(p, "done", cause[p])
    BY DEF MayRun, Ended
  <2> QED
    BY <1>25, <1>a, <2>1, <2>2 DEF TfVersion, Leads
<1> QED
  BY <1>1, <1>2, <1>3, <1>4, <1>5, <1>6, <1>7, <1>8, <1>9, <1>10, <1>11, <1>12, <1>13, <1>14,
     <1>15, <1>16, <1>17, <1>18, <1>19, <1>20, <1>21, <1>22, <1>23, <1>24, <1>25 DEF Step

(* A put only comes to the commands that its request asks for.             *)
LEMMA OnRequestInvariant ==
    ASSUME IInv, OnRequest, [Next]_vars
    PROVE  OnRequest'
<1>a. pc \in [Puts -> Labels] /\ cause \in [Puts -> Labels \cup {"none"}]
  BY DEF IInv, TypeOK, ControlTypeOK
<1>1. ASSUME NEW p \in Puts, Step(p) PROVE OnRequest'
  <2>1. PICK label \in Labels, c \in Labels \cup {"none"} :
           /\ Goto(p, label) /\ cause' = [cause EXCEPT ![p] = c] /\ req' = req
           /\ MayRun(p, label, c)
    BY <1>1, StepMayRun DEF IInv, OnRequest
  <2> QED
    BY <1>a, <2>1 DEF OnRequest, MayRun, MayDestroy, Goto
<1>2. ASSUME NEW p \in Puts, Start(p) PROVE OnRequest'
  BY <1>a, <1>2 DEF Start, Continue, Goto, OnRequest, MayRun, MayDestroy, Ended
<1>3. ASSUME NEW p \in Puts, Kill(p) PROVE OnRequest'
  BY <1>a, <1>3 DEF Kill, Goto, OnRequest, MayRun, MayDestroy, Ended
<1>4. ASSUME UNCHANGED control PROVE OnRequest'
  BY <1>4 DEF control, OnRequest, MayRun, MayDestroy
<1> QED
  BY <1>1, <1>2, <1>3, <1>4 DEF Next, AllEnded, ApplyProvision, vars

(* What a put's step does to the instances, as the abstract store has it.  *)
LEMMA MovesStore ==
    ASSUME IInv, OnRequest, PlanNamesApart, NEW p \in Puts, NEW label \in Labels, Moves(p, label)
    PROVE  \/ Store!Nothing \/ Store!Keep(p) \/ Store!Adopt(p)
           \/ pc[p] = "destroying" /\ Store!Remove(p)
<1>1. /\ Env(p) \in Envs /\ Env(p) \in Names /\ PlanOf(p) \in Names /\ PlanOf(p) \notin Envs
      /\ Envs \subseteq Names
      /\ res \in [Names -> SUBSET Instances]
      /\ res[PlanOf(p)] = {}
  BY RequestTypes DEF IInv, TypeOK, ClientTypeOK, PlanNamesApart, PlansRecordNothing, PlanOf, Names
<1>2. pc[p] \in Busy \cup {"import"} => sel[p] = Env(p)
  BY DEF IInv, OwnWorkspace, Busy, InSelected
<1>3. Store!Env(p) = Env(p)
  BY DEF Store!Env, Env
<1>4. CASE infra' = infra /\ \A e \in Envs : res'[e] = res[e]
  BY <1>4 DEF Store!Nothing
<1>5. CASE pc[p] = "import" /\ CanImport(p, Env(p)) /\ Import(p, Env(p))
  <2>1. req[p].imports
    BY <1>5 DEF OnRequest, MayRun
  <2>2. /\ infra' = infra /\ Env(p) \in infra
        /\ res' = [res EXCEPT ![Env(p)] = @ \cup {Env(p)}]
    BY <1>2, <1>5 DEF CanImport, Import
  <2>3. [e \in Envs |-> res'[e]] = [[e \in Envs |-> res[e]] EXCEPT ![Env(p)] = @ \cup {Env(p)}]
    BY <1>1, <2>2
  <2> QED
    BY <1>3, <2>1, <2>2, <2>3 DEF Store!Adopt
<1>6. CASE pc[p] = "applying" /\ ApplyEnds(p)
  <2>1. req[p].kind = "apply"
    BY <1>6 DEF OnRequest, MayRun
  <2>2. infra' = infra /\ res' = [res EXCEPT ![Env(p)] = @ \cup ({p} \cap infra)]
    BY <1>2, <1>6 DEF ApplyEnds, Busy
  <2>3. [e \in Envs |-> res'[e]] =
            [[e \in Envs |-> res[e]] EXCEPT ![Env(p)] = @ \cup ({p} \cap infra)]
    BY <1>1, <2>2
  <2> QED
    BY <1>3, <2>1, <2>2, <2>3 DEF Store!Keep
<1>7. CASE pc[p] = "destroying" /\ \E gone \in SUBSET res[sel[p]] : DestroyEnds(p, gone)
  <2>1. MayDestroy(p)
    BY <1>7 DEF OnRequest, MayRun
  <2>2. PICK gone \in SUBSET res[Env(p)] :
            infra' = infra \ gone /\ res' = [res EXCEPT ![Env(p)] = @ \ gone]
    BY <1>2, <1>7 DEF DestroyEnds, Busy
  <2>3. [e \in Envs |-> res'[e]] = [[e \in Envs |-> res[e]] EXCEPT ![Env(p)] = @ \ gone]
    BY <1>1, <2>2
  <2>4. gone \in SUBSET ([e \in Envs |-> res[e]])[Env(p)]
    BY <1>1
  <2> QED
    BY <1>3, <1>7, <2>1, <2>2, <2>3, <2>4 DEF Store!Remove, Store!Destroys, MayDestroy
<1>8. CASE \/ UNCHANGED <<backend, infra>> \/ TakeLock(p)
           \/ WorkspaceNew(p, Env(p), Env(p)) \/ WorkspaceNew(p, PlanOf(p), sel[p])
  BY <1>4, <1>8 DEF backend, TakeLock, WorkspaceNew
<1>9. CASE \/ CanWorkspaceDelete(Env(p)) /\ WorkspaceDelete(Env(p))
           \/ WorkspaceDelete(PlanOf(p)) \/ SavePlan(p, PlanOf(p))
  BY <1>1, <1>4, <1>9 DEF CanWorkspaceDelete, WorkspaceDelete, SavePlan
<1> QED
  BY <1>5, <1>6, <1>7, <1>8, <1>9 DEF Moves, Effect

(* The state of a put in the store changes with its label, and no other    *)
(* put's does.                                                             *)
LEMMA GotoStatus ==
    ASSUME TypeOK, NEW p \in Puts, NEW label \in Labels, Goto(p, label)
    PROVE  \A s : Status(p)' = s =>
               [q \in Puts |-> Status(q)]' = [[q \in Puts |-> Status(q)] EXCEPT ![p] = s]
<1>1. pc \in [Puts -> Labels] /\ \A q \in Puts \ {p} : pc'[q] = pc[q]
  BY DEF TypeOK, ControlTypeOK, Goto
<1>2. \A q \in Puts \ {p} : Status(q)' = Status(q)
  BY <1>1 DEF Status
<1> QED
  BY <1>2

(* Every step of BackendPut is one of the store, or changes nothing there. *)
LEMMA RefinesNext ==
    ASSUME IInv, IInv', OnRequest, PlanNamesApart, [Next]_vars
    PROVE  [Store!Next]_(Store!vars)
<1>a. pc \in [Puts -> Labels]
  BY DEF IInv, TypeOK, ControlTypeOK
<1>1. ASSUME NEW p \in Puts, Step(p) PROVE Store!Proceed(p)
  <2>1. PICK label \in Labels : Moves(p, label)
    BY <1>1, StepMoves DEF IInv
  <2>2. /\ pc'[p] = label /\ Goto(p, label) /\ req' = req
        /\ Running(p) /\ label \notin {"idle", "killed", "killedApply"}
    BY <1>a, <2>1 DEF Moves, Goto
  <2>3. Status(p) = "active"
    BY <2>2 DEF Status, Running, Ended
  <2>4. CASE label = "done"
    <3>1. Status(p)' = "returned"
      BY <2>2, <2>4 DEF Status
    <3>2. p \in infra' => p \in res'[Env(p)]
      BY <2>2, <2>4 DEF IInv, NoOrphans, PlanNamesApart, Env
    <3>3. Env(p) \in Envs
      BY RequestTypes DEF IInv
    <3>4. Store!Return(p)
      BY <2>2, <3>1, <3>2, <3>3, GotoStatus DEF Store!Return, Store!Env, Env, IInv
    <3> QED
      BY <2>1, <2>2, <2>3, <3>4, MovesStore DEF Store!Proceed
  <2>5. CASE label # "done"
    <3>1. Status(p)' = "active"
      BY <2>2, <2>5 DEF Status
    <3>2. [q \in Puts |-> Status(q)]' = [q \in Puts |-> Status(q)]
      BY <2>2, <2>3, <3>1, GotoStatus DEF IInv
    <3> QED
      BY <2>1, <2>2, <2>3, <3>2, MovesStore DEF Store!Proceed
  <2> QED
    BY <2>4, <2>5
<1>2. ASSUME NEW p \in Puts, Start(p) PROVE Store!Begin(p)
  <2>1. Goto(p, "setup") /\ "setup" \in Labels /\ pc[p] = "idle" /\ UNCHANGED <<req, res, infra>>
    BY <1>2 DEF Start, Continue, Labels, clientVars, backend
  <2>2. Status(p) = "idle" /\ Status(p)' = "active"
    BY <1>a, <2>1 DEF Goto, Status
  <2> QED
    BY <2>1, <2>2, GotoStatus DEF Store!Begin, IInv
<1>3. ASSUME NEW p \in Puts, ApplyProvision(p) PROVE Store!Make(p)
  <2>1. /\ pc[p] = "applying" /\ p \notin infra /\ infra' = infra \cup {p}
        /\ UNCHANGED <<pc, req, res>>
    BY <1>3 DEF ApplyProvision, Provision, control, backend
  <2>2. req[p].kind = "apply"
    BY <2>1 DEF OnRequest, MayRun
  <2>3. Status(p) = "active" /\ \A q \in Puts : Status(q)' = Status(q)
    BY <2>1 DEF Status
  <2> QED
    BY <2>1, <2>2, <2>3 DEF Store!Make
<1>4. ASSUME NEW p \in Puts, Kill(p) PROVE Store!Abort(p)
  <2>1. PICK label \in {"killed", "killedApply"} : Goto(p, label)
    BY <1>4 DEF Kill
  <2>2. Running(p) /\ UNCHANGED <<req, res>>
    BY <1>4 DEF Kill, backend
  <2>3. Status(p) = "active" /\ Status(p)' = "aborted"
    BY <1>a, <2>1, <2>2 DEF Goto, Status, Running, Ended
  <2>4. PICK gone \in SUBSET (IF pc[p] = "destroying" THEN res[sel[p]] ELSE {}) :
            infra' = infra \ gone
    BY <1>4 DEF Kill
  <2>5. Env(p) \in Envs /\ Store!Env(p) = Env(p)
    BY RequestTypes DEF IInv, Store!Env, Env
  <2>6. gone \subseteq res[Env(p)] /\ (gone # {} => MayDestroy(p))
    BY <2>4 DEF IInv, OwnWorkspace, InSelected, OnRequest, MayRun
  <2>7. gone \in SUBSET ([e \in Envs |-> res[e]])[Env(p)]
    BY <2>5, <2>6
  <2>8. label \in Labels
    BY <2>1 DEF Labels, Ended
  <2> QED
    BY <2>1, <2>2, <2>3, <2>4, <2>5, <2>6, <2>7, <2>8, GotoStatus
       DEF Store!Abort, Store!Destroys, MayDestroy, IInv
<1>5. CASE UNCHANGED vars
  <2>1. \A q \in Puts : Status(q)' = Status(q)
    BY <1>5 DEF vars, control, Status
  <2> QED
    BY <1>5, <2>1 DEF vars, clientVars, backend, control, Store!vars
<1> QED
  BY <1>1, <1>2, <1>3, <1>4, <1>5 DEF Next, AllEnded, Store!Next

(* The initial states are initial states of the store.                     *)
LEMMA RefinesInit == Init => Store!Init /\ OnRequest
<1> SUFFICES ASSUME Init PROVE Store!Init /\ OnRequest
  OBVIOUS
<1>1. OnRequest
  BY DEF Init, OnRequest, MayRun
<1>2. Envs \subseteq Names
  BY DEF Names
<1>3. [e \in Envs |-> res[e]] = [e \in Envs |-> {e} \cap {}]
  BY <1>2 DEF Init, ClientInit
<1> QED
  BY <1>1, <1>2, <1>3 DEF Init, ClientInit, Status, Store!Init

(* Puts implement the abstract store: for any number of puts, envs,        *)
(* failures and aborted builds, as long as no env is called like a plan    *)
(* workspace.                                                              *)
THEOREM RefinesEnvStore ==
    ASSUME PlanNamesApart
    PROVE  Spec => ImplementsEnvStore
<1>1. IInv /\ OnRequest /\ [Next]_vars => OnRequest'
  BY OnRequestInvariant
<1>2. IInv /\ IInv' /\ OnRequest /\ [Next]_vars => [Store!Next]_(Store!vars)
  BY RefinesNext
<1> QED
  BY <1>1, <1>2, RefinesInit, Invariant, PTL DEF Spec, ImplementsEnvStore, Store!Spec
-----------------------------------------------------------------------------
(* Isolation.  A step that changes a workspace or an instance takes the    *)
(* put to another command; an env records instances of its own puts only.  *)
RecordsOwn == \A e \in Envs : \A q \in res[e] \cap Puts : Env(q) = e

LEMMA StepGoesOn ==
    ASSUME TypeOK, NEW p \in Puts, Step(p)
    PROVE  pc'[p] # pc[p] \/ UNCHANGED <<spaces, res, infra>>
<1>a. pc \in [Puts -> Labels]
  BY DEF TypeOK, ControlTypeOK
<1>b. \A label : Goto(p, label) => pc'[p] = label
  BY <1>a DEF Goto
<1>c. /\ Refused(p) \/ Fault(p) => pc'[p] \in {"destroySelect", "done"}
      /\ \A label : Continue(p, label) => pc'[p] = label
  BY <1>b DEF Refused, Fault, Fail, Continue
<1>1. CASE Setup(p)
  BY <1>1 DEF Setup, InitWithBackend, backend
<1>2. CASE PlanSelect(p) \/ PlanOutput(p) \/ List(p) \/ Select(p)
  BY <1>2 DEF PlanSelect, PlanOutput, List, Select, Call, Command, WorkspaceSelect, GetPlan,
              clientVars, backend
<1>3. CASE New(p)
  <2>1. AfterSelection(p) # "new"
    BY RequestTypes DEF AfterSelection, MainCommand
  <2> QED
    BY <1>3, <1>c, <2>1 DEF New, Call, Command
<1>4. CASE ImportCheck(p) \/ StateVersion(p) \/ Output(p) \/ PlanList(p) \/ PlanEnv(p)
           \/ JSONPlan(p) \/ SaveList(p) \/ SaveSelect(p) \/ DestroySelect(p) \/ TfVersion(p)
  BY <1>4 DEF ImportCheck, StateVersion, Output, PlanList, PlanEnv, JSONPlan, SaveList, SaveSelect,
              DestroySelect, TfVersion, Call, Command, Plan, WorkspaceSelect, clientVars, backend
<1>5. CASE ImportResource(p)
  <2>1. MainCommand(p) # "import"
    BY RequestTypes DEF MainCommand
  <2> QED
    BY <1>5, <1>c, <2>1 DEF ImportResource, Call, Command
<1>6. CASE ApplyStart(p) \/ DestroyStart(p)
  BY <1>6 DEF ApplyStart, DestroyStart, Begin, TakeLock, clientVars, backend
<1>7. CASE ApplyEnd(p) \/ DestroyEnd(p)
  BY <1>7, <1>c DEF ApplyEnd, DestroyEnd
<1>8. CASE PlanDelete(p) \/ SaveNew(p) \/ SaveApply(p)
  BY <1>8, <1>c DEF PlanDelete, SaveNew, SaveApply, Call, Command, Finish
<1>9. CASE EnvDelete(p)
  BY <1>9, <1>c DEF EnvDelete, Call, Command
<1> QED
  BY <1>1, <1>2, <1>3, <1>4, <1>5, <1>6, <1>7, <1>8, <1>9 DEF Step

(* What a step of a put leaves alone: the envs of other puts.              *)
LEMMA MovesIsolated ==
    ASSUME IInv, PlanNamesApart, RecordsOwn, NEW p \in Puts, NEW label \in Labels, Moves(p, label)
    PROVE  /\ \A e \in Envs \ {Env(p)} : EnvView(e)' = EnvView(e)
           /\ RecordsOwn'
<1>1. /\ Env(p) \in Envs /\ Env(p) \in Names /\ PlanOf(p) \in Names /\ PlanOf(p) \notin Envs
      /\ Envs \subseteq Names
      /\ res \in [Names -> SUBSET Instances]
      /\ res[PlanOf(p)] = {}
  BY RequestTypes DEF IInv, TypeOK, ClientTypeOK, PlanNamesApart, PlansRecordNothing, PlanOf, Names
<1>2. pc[p] \in Busy \cup {"import"} => sel[p] = Env(p)
  BY DEF IInv, OwnWorkspace, Busy, InSelected
<1>3. req' = req /\ \A q \in Puts : Env(q)' = Env(q)
  BY DEF Moves, Env
<1>4. /\ \A e \in Envs \ {Env(p)} : (e \in spaces' <=> e \in spaces) /\ res'[e] = res[e]
      /\ res'[Env(p)] \subseteq res[Env(p)] \cup {p, Env(p)}
      /\ infra' \subseteq infra /\ infra \ infra' \subseteq res[Env(p)]
  <2>1. CASE \/ UNCHANGED <<backend, infra>> \/ TakeLock(p)
             \/ WorkspaceNew(p, Env(p), Env(p)) \/ WorkspaceNew(p, PlanOf(p), sel[p])
    BY <1>1, <2>1 DEF backend, TakeLock, WorkspaceNew
  <2>2. CASE \/ CanWorkspaceDelete(Env(p)) /\ WorkspaceDelete(Env(p))
             \/ WorkspaceDelete(PlanOf(p)) \/ SavePlan(p, PlanOf(p))
    BY <1>1, <2>2 DEF WorkspaceDelete, SavePlan
  <2>3. CASE pc[p] = "import" /\ Import(p, Env(p))
    BY <1>1, <1>2, <2>3 DEF Import
  <2>4. CASE pc[p] = "applying" /\ ApplyEnds(p)
    BY <1>1, <1>2, <2>4 DEF ApplyEnds, Busy
  <2>5. CASE pc[p] = "destroying" /\ \E gone \in SUBSET res[sel[p]] : DestroyEnds(p, gone)
    BY <1>1, <1>2, <2>5 DEF DestroyEnds, Busy
  <2> QED
    BY <2>1, <2>2, <2>3, <2>4, <2>5 DEF Moves, Effect
<1>5. RecordsOwn'
  BY <1>1, <1>3, <1>4, ClientAssumption DEF RecordsOwn
<1>6. ASSUME NEW e \in Envs \ {Env(p)} PROVE EnvView(e)' = EnvView(e)
  <2>1. {q \in Puts \cap infra' : Env(q)' = e} = {q \in Puts \cap infra : Env(q) = e}
    BY <1>1, <1>3, <1>4, <1>6 DEF RecordsOwn
  <2> QED
    BY <1>4, <1>6, <2>1 DEF EnvView
<1> QED
  BY <1>5, <1>6

(* One step of the specification, whoever takes it.                        *)
Isolated ==
    \A e \in Envs : EnvView(e)' # EnvView(e) =>
        \E p \in Puts : Env(p) = e /\ (pc'[p] # pc[p] \/ pc[p] = "applying")
LEMMA NextIsolated ==
    ASSUME IInv, PlanNamesApart, RecordsOwn, [Next]_vars
    PROVE  Isolated /\ RecordsOwn'
<1>a. \A p \in Puts : Env(p) \in Envs
  BY RequestTypes DEF IInv
<1>1. ASSUME NEW p \in Puts, Step(p) PROVE Isolated /\ RecordsOwn'
  <2>1. PICK label \in Labels : Moves(p, label)
    BY <1>1, StepMoves DEF IInv
  <2>2. RecordsOwn' /\ \A e \in Envs \ {Env(p)} : EnvView(e)' = EnvView(e)
    BY <2>1, MovesIsolated
  <2>3. CASE pc'[p] # pc[p]
    BY <1>a, <2>2, <2>3 DEF Isolated
  <2>4. CASE UNCHANGED <<spaces, res, infra>>
    BY <2>1, <2>2, <2>4 DEF Isolated, EnvView, Moves, Env
  <2> QED
    BY <1>1, <2>3, <2>4, StepGoesOn DEF IInv
<1>2. ASSUME NEW p \in Puts, Start(p) PROVE Isolated /\ RecordsOwn'
  BY <1>2 DEF Start, Continue, clientVars, backend, Isolated, EnvView, Env, RecordsOwn
<1>3. ASSUME NEW p \in Puts, ApplyProvision(p) PROVE Isolated /\ RecordsOwn'
  <2>1. /\ pc[p] = "applying" /\ infra' = infra \cup {p}
        /\ UNCHANGED <<spaces, res, req>>
    BY <1>3 DEF ApplyProvision, Provision, control, backend
  <2>2. \A e \in Envs : e # Env(p) =>
            {q \in Puts \cap infra' : Env(q)' = e} = {q \in Puts \cap infra : Env(q) = e}
    BY <2>1 DEF Env
  <2>3. \A e \in Envs : e # Env(p) => EnvView(e)' = EnvView(e)
    BY <2>1, <2>2 DEF EnvView
  <2> QED
    BY <2>1, <2>3 DEF Isolated, RecordsOwn, Env
<1>4. ASSUME NEW p \in Puts, Kill(p) PROVE Isolated /\ RecordsOwn'
  <2>1. /\ UNCHANGED <<spaces, res, req>>
        /\ Running(p) /\ pc'[p] \in {"killed", "killedApply"}
    BY <1>4 DEF Kill, backend, Goto, IInv, TypeOK, ControlTypeOK
  <2>2. PICK gone \in SUBSET (IF pc[p] = "destroying" THEN res[sel[p]] ELSE {}) :
            infra' = infra \ gone
    BY <1>4 DEF Kill
  <2>3. gone \subseteq res[Env(p)]
    BY <2>2 DEF IInv, OwnWorkspace, InSelected
  <2>4. \A e \in Envs : e # Env(p) =>
            {q \in Puts \cap infra' : Env(q)' = e} = {q \in Puts \cap infra : Env(q) = e}
    BY <1>a, <2>1, <2>2, <2>3 DEF Env, RecordsOwn
  <2>5. \A e \in Envs : e # Env(p) => EnvView(e)' = EnvView(e)
    BY <2>1, <2>4 DEF EnvView
  <2>6. pc'[p] # pc[p]
    BY <2>1 DEF Running, Ended
  <2> QED
    BY <2>1, <2>5, <2>6 DEF Isolated, RecordsOwn, Env
<1>5. CASE UNCHANGED vars
  BY <1>5 DEF vars, clientVars, backend, control, Isolated, EnvView, Env, RecordsOwn
<1> QED
  BY <1>1, <1>2, <1>3, <1>4, <1>5 DEF Next, AllEnded

(* No step touches the workspace of an env, what it records or what its    *)
(* puts have made, but that of a put of this env: for any number of puts   *)
(* and envs, as long as no env is called like a plan workspace.            *)
THEOREM IsolatesEnvs ==
    ASSUME PlanNamesApart
    PROVE  Spec => EnvIsolation
<1>1. Init => RecordsOwn
  BY DEF Init, ClientInit, RecordsOwn, Names
<1>2. IInv /\ RecordsOwn /\ [Next]_vars => RecordsOwn' /\ Isolated
  BY NextIsolated
<1>3. Isolated => [Isolated]_vars
  OBVIOUS
<1> QED
  BY <1>1, <1>2, Invariant, PTL DEF Spec, EnvIsolation, Isolated
-----------------------------------------------------------------------------
(* Complete destroys.  What an env recorded when a put started is recorded *)
(* as long as it exists, because only an end of destroy drops an instance  *)
(* from a state, and because nothing is provisioned twice: a put that is   *)
(* past its apply does not come back to it.                                *)
AfterApply == {"stateVersion", "output", "planList", "planDelete", "tfVersion"} \cup Ended
Past(p) ==
    \/ pc[p] \in AfterApply
    \/ CleaningUp(p) /\ pc[p] \notin {"apply", "applying"}
AfterDestroy == {"wsDelete", "planList", "planDelete", "tfVersion"}
DestroyPath ==
    {"idle", "setup", "destroySelect", "importCheck", "import", "destroy", "destroying"}
        \cup AfterDestroy \cup Ended
CleanupPath == DestroyPath \ {"idle", "setup"}
Targets(p) == began[p].res \cup {i \in {Env(p)} : req[p].imports}
Covers(p) ==
    /\ pc[p] = "idle" => reply[p] = "none"
    /\ CleaningUp(p) => pc[p] \in CleanupPath
    /\ \A i \in began[p].res : (i \in Puts => Past(i)) /\ (i \in infra => i \in res[Env(p)])
    /\ req[p].kind = "destroy" =>
           /\ pc[p] \in DestroyPath
           /\ pc[p] \in {"destroy", "destroying"} /\ req[p].imports /\ Env(p) \in infra =>
                  Env(p) \in res[Env(p)]
           /\ pc[p] \in AfterDestroy \/ reply[p] = "version" => Targets(p) \cap infra = {}
Covering ==
    /\ \A p \in Puts : Covers(p)
    /\ \A e \in Envs : \A q \in res[e] \cap Puts : Past(q)

(* Where a step leads a put, as far as Covers tells labels apart.          *)
Leads(p) ==
    /\ began' = began
    /\ \A q \in Puts \ {p} : reply'[q] = reply[q] /\ cause'[q] = cause[q]
    /\ pc'[p] # "idle" /\ (CleaningUp(p)' => pc'[p] \in CleanupPath)
    /\ CleaningUp(p) => CleaningUp(p)'
    /\ Past(p) \/ pc[p] = "applying" => Past(p)'
    /\ reply'[p] # reply[p] => pc[p] = "tfVersion"
    /\ req[p].kind = "destroy" =>
          /\ pc'[p] \in DestroyPath
          /\ pc'[p] \in {"destroy", "destroying"} /\ req[p].imports =>
                 pc[p] = "destroy" \/ Env(p) \in res'[Env(p)]
          /\ pc'[p] \in AfterDestroy =>
                 \/ pc[p] \in AfterDestroy
                 \/ pc[p] = "destroying" /\ infra' = infra \ res[sel[p]]
LEMMA StepLeads ==
    ASSUME TypeOK, OwnWorkspace, NEW p \in Puts, Step(p),
           CleaningUp(p) => pc[p] \in CleanupPath,
           req[p].kind = "destroy" => pc[p] \in DestroyPath
    PROVE  Leads(p)
<1>a. /\ pc \in [Puts -> Labels] /\ cause \in [Puts -> Labels \cup {"none"}] /\ pc[p] # "none"
      /\ reply \in [Puts -> {"none", "version", "empty"}]
      /\ req[p].kind \in {"apply", "plan", "destroy"}
  BY RequestTypes DEF TypeOK, ControlTypeOK, Labels, Ended
<1>b. Refused(p) \/ Fault(p) =>
        /\ reply' = reply /\ CleaningUp(p)' /\ \A q \in Puts \ {p} : cause'[q] = cause[q]
        /\ pc'[p] \in {"destroySelect", "done"}
        /\ req[p].kind = "destroy" => pc'[p] = "done"
  BY <1>a DEF Refused, Fault, Fail, Goto, CleaningUp, CleansUp
<1>c. (Refused(p) \/ Fault(p)) /\ began' = began => Leads(p)
  BY <1>b DEF Leads, Past, AfterApply, AfterDestroy, DestroyPath, CleanupPath, Ended
<1>d. \A label : Continue(p, label) =>
          pc'[p] = label /\ reply' = reply /\ cause' = cause /\ CleaningUp(p)' = CleaningUp(p)
  BY <1>a DEF Continue, Goto, CleaningUp
<1>e. /\ MainCommand(p) = (IF req[p].kind = "destroy" \/ CleaningUp(p) THEN "destroy"
                           ELSE req[p].kind)
      /\ AfterSelection(p) \in {MainCommand(p), "importCheck"}
      /\ Finish(p) \in {"done", "tfVersion"}
      /\ FirstCommand(p) \in {"destroySelect", "planSelect", "list"}
      /\ req[p].kind = "destroy" => FirstCommand(p) = "destroySelect"
  BY RequestTypes DEF MainCommand, AfterSelection, FirstCommand
<1> USE DEF Leads, Past, AfterApply, AfterDestroy, DestroyPath, CleanupPath, Ended
<1>1. CASE Setup(p)
  <2>1. CASE Continue(p, FirstCommand(p))
    BY <1>1, <2>1, <1>a, <1>d, <1>e DEF Setup, history
  <2>2. CASE Goto(p, "done") /\ cause' = [cause EXCEPT ![p] = "setup"] /\ UNCHANGED reply
    BY <1>1, <2>2, <1>a DEF Setup, history, Goto
  <2> QED
    BY <1>1, <2>1, <2>2 DEF Setup
<1>2. CASE PlanSelect(p)
  BY <1>2, <1>a, <1>c, <1>d, <1>e DEF PlanSelect, Call, Command, history
<1>3. CASE PlanOutput(p)
  BY <1>3, <1>a, <1>c, <1>d, <1>e DEF PlanOutput, Call, Command, history
<1>4. CASE List(p)
  BY <1>4, <1>a, <1>c, <1>d, <1>e DEF List, Call, Command, history
<1>5. CASE Select(p)
  BY <1>5, <1>a, <1>c, <1>d, <1>e DEF Select, Call, Command, history
<1>6. CASE New(p)
  BY <1>6, <1>a, <1>c, <1>d, <1>e DEF New, Call, Command, history
<1>7. CASE ImportCheck(p)
  <2>1. CASE Recorded(p) /\ Continue(p, MainCommand(p))
    <3>1. Env(p) \in res'[Env(p)]
      BY <1>7, <2>1 DEF ImportCheck, Recorded, clientVars, backend
    <3> QED
      BY <1>7, <2>1, <3>1, <1>a, <1>d, <1>e DEF ImportCheck, history
  <2>2. CASE Continue(p, "import")
    BY <1>7, <2>2, <1>a, <1>d DEF ImportCheck, history
  <2>3. CASE Goto(p, "import") /\ UNCHANGED <<cause, reply>>
    BY <1>7, <2>3, <1>a DEF ImportCheck, history, Goto, CleaningUp
  <2> QED
    BY <1>7, <2>1, <2>2, <2>3 DEF ImportCheck
<1>8. CASE ImportResource(p)
  <2>1. CASE Import(p, Env(p)) /\ Continue(p, MainCommand(p))
    <3>1. Env(p) \in res'[Env(p)]
      <4>1. sel[p] = Env(p) /\ Env(p) \in Names /\ res \in [Names -> SUBSET Instances]
        BY <1>8, RequestTypes
           DEF ImportResource, Call, Command, OwnWorkspace, InSelected, TypeOK, ClientTypeOK
      <4> QED
        BY <2>1, <4>1 DEF Import
    <3> QED
      BY <1>8, <2>1, <3>1, <1>a, <1>d, <1>e DEF ImportResource, Call, Command, history
  <2> QED
    BY <1>8, <2>1, <1>c DEF ImportResource, Call, Command, history
<1>9. CASE ApplyStart(p)
  BY <1>9, <1>a, <1>c, <1>d, <1>e DEF ApplyStart, Begin, history
<1>10. CASE ApplyEnd(p)
  BY <1>10, <1>a, <1>c, <1>d, <1>e DEF ApplyEnd
<1>11. CASE StateVersion(p)
  BY <1>11, <1>a, <1>c, <1>d, <1>e DEF StateVersion, Call, Command, history
<1>12. CASE Output(p)
  BY <1>12, <1>a, <1>c, <1>d, <1>e DEF Output, Call, Command, history
<1>13. CASE PlanList(p)
  BY <1>13, <1>a, <1>c, <1>d, <1>e DEF PlanList, Call, Command, history
<1>14. CASE PlanDelete(p)
  BY <1>14, <1>a, <1>c, <1>d, <1>e DEF PlanDelete, Call, Command, history
<1>15. CASE PlanEnv(p)
  BY <1>15, <1>a, <1>c, <1>d, <1>e DEF PlanEnv, Call, Command, history
<1>16. CASE JSONPlan(p)
  BY <1>16, <1>a, <1>c, <1>d, <1>e DEF JSONPlan, Call, Command, history
<1>17. CASE SaveList(p)
  BY <1>17, <1>a, <1>c, <1>d, <1>e DEF SaveList, Call, Command, history
<1>18. CASE SaveSelect(p)
  BY <1>18, <1>a, <1>c, <1>d, <1>e DEF SaveSelect, Call, Command, history
<1>19. CASE SaveNew(p)
  BY <1>19, <1>a, <1>c, <1>d, <1>e DEF SaveNew, Call, Command, history
<1>20. CASE SaveApply(p)
  BY <1>20, <1>a, <1>c, <1>d, <1>e DEF SaveApply, Call, Command, history
<1>21. CASE DestroySelect(p)
  <2>1. CASE Continue(p, IF req[p].imports THEN "importCheck" ELSE "destroy")
    BY <1>21, <2>1, <1>a, <1>d DEF DestroySelect, Call, Command, history
  <2> QED
    BY <1>21, <2>1, <1>c DEF DestroySelect, Call, Command, history
<1>22. CASE DestroyStart(p)
  BY <1>22, <1>a, <1>c, <1>d, <1>e DEF DestroyStart, Begin, history
<1>23. CASE DestroyEnd(p)
  BY <1>23, <1>a, <1>c, <1>d DEF DestroyEnd, DestroyEnds, history
<1>24. CASE EnvDelete(p)
  BY <1>24, <1>a, <1>c, <1>d, <1>e DEF EnvDelete, Call, Command, history
<1>25. CASE TfVersion(p)
  BY <1>25, <1>a DEF TfVersion, Goto, history, CleaningUp
<1> QED
  BY <1>1, <1>2, <1>3, <1>4, <1>5, <1>6, <1>7, <1>8, <1>9, <1>10, <1>11, <1>12, <1>13, <1>14,
     <1>15, <1>16, <1>17, <1>18, <1>19, <1>20, <1>21, <1>22, <1>23, <1>24, <1>25 DEF Step

(* While an instance exists no state that records it loses it.             *)
LEMMA MovesKeepRecorded ==
    ASSUME IInv, PlanNamesApart, NEW p \in Puts, NEW label \in Labels, Moves(p, label),
           NEW e \in Envs
    PROVE  /\ res[e] \cap infra' \subseteq res'[e]
           /\ res'[e] \subseteq res[e] \cup {p} \cup Envs
           /\ p \in res'[e] => p \in res[e] \/ pc[p] = "applying"
           /\ infra' \subseteq infra
<1>1. /\ Env(p) \in Envs /\ Env(p) \in Names /\ PlanOf(p) \in Names /\ PlanOf(p) \notin Envs
      /\ e \in Names
      /\ res \in [Names -> SUBSET Instances]
  BY RequestTypes DEF IInv, TypeOK, ClientTypeOK, PlanNamesApart, PlanOf, Names
<1>2. pc[p] \in Busy \cup {"import"} => sel[p] = Env(p)
  BY DEF IInv, OwnWorkspace, Busy, InSelected
<1>3. CASE \/ UNCHANGED <<backend, infra>> \/ TakeLock(p)
           \/ WorkspaceNew(p, Env(p), Env(p)) \/ WorkspaceNew(p, PlanOf(p), sel[p])
  BY <1>3 DEF backend, TakeLock, WorkspaceNew
<1>4. CASE \/ CanWorkspaceDelete(Env(p)) /\ WorkspaceDelete(Env(p))
           \/ WorkspaceDelete(PlanOf(p)) \/ SavePlan(p, PlanOf(p))
  BY <1>1, <1>4 DEF CanWorkspaceDelete, WorkspaceDelete, SavePlan
<1>5. CASE pc[p] = "import" /\ Import(p, Env(p))
  BY <1>1, <1>2, <1>5, ClientAssumption DEF Import
<1>6. CASE pc[p] = "applying" /\ ApplyEnds(p)
  BY <1>1, <1>2, <1>6 DEF ApplyEnds, Busy
<1>7. CASE pc[p] = "destroying" /\ \E gone \in SUBSET res[sel[p]] : DestroyEnds(p, gone)
  BY <1>1, <1>2, <1>7 DEF DestroyEnds, Busy
<1> QED
  BY <1>3, <1>4, <1>5, <1>6, <1>7 DEF Moves, Effect

(* A step of a put that leads it so and loses no record of what exists.    *)
KeepsRecorded(p) ==
    \A e \in Envs :
        /\ res[e] \cap infra' \subseteq res'[e]
        /\ res'[e] \subseteq res[e] \cup {p} \cup Envs
        /\ p \in res'[e] => p \in res[e] \/ pc[p] = "applying"
        /\ infra' \subseteq infra
LEMMA LeadsCovering ==
    ASSUME TypeOK, Covering, NEW p \in Puts, Leads(p), KeepsRecorded(p), req' = req,
           pc[p] = "destroying" => sel[p] = Env(p),
           \A q \in Puts \ {p} : pc'[q] = pc[q]
    PROVE  Covering'
<1>a. /\ pc \in [Puts -> Labels] /\ reply \in [Puts -> {"none", "version", "empty"}]
      /\ \A q \in Puts : Env(q) \in Envs
  BY RequestTypes DEF TypeOK, ControlTypeOK
<1>3. /\ began' = began /\ pc'[p] # "idle" /\ infra' \subseteq infra
      /\ \A q \in Puts \ {p} : reply'[q] = reply[q] /\ CleaningUp(q)' = CleaningUp(q)
      /\ \A q \in Puts : Env(q)' = Env(q) /\ Targets(q)' = Targets(q)
  BY <1>a DEF Leads, KeepsRecorded, Env, Targets, CleaningUp
<1>4. \A q \in Puts : Past(q) => Past(q)'
  BY <1>3 DEF Leads, Past
<1>5. \A e \in Envs : \A q \in res'[e] \cap Puts : Past(q)'
  BY <1>4, ClientAssumption DEF Covering, Leads, KeepsRecorded
<1>6. \A q \in Puts : \A i \in began[q].res :
          (i \in Puts => Past(i)') /\ (i \in infra' => i \in res'[Env(q)])
  BY <1>a, <1>4 DEF Covering, Covers, KeepsRecorded
<1>7. ASSUME NEW q \in Puts \ {p} PROVE Covers(q)'
  BY <1>a, <1>3, <1>6, <1>7 DEF Covering, Covers, KeepsRecorded
<1>8. Covers(p)'
  <2>1. ASSUME req[p].kind = "destroy", pc'[p] \in {"destroy", "destroying"}, req[p].imports,
               Env(p) \in infra'
        PROVE  Env(p) \in res'[Env(p)]
    BY <1>a, <2>1 DEF Covering, Covers, Leads, KeepsRecorded
  <2>2. ASSUME req[p].kind = "destroy", pc[p] = "destroying", infra' = infra \ res[sel[p]]
        PROVE  Targets(p) \cap infra' = {}
    BY <2>2 DEF Covering, Covers, Targets
  <2>3. ASSUME req[p].kind = "destroy", pc'[p] \in AfterDestroy \/ reply'[p] = "version"
        PROVE  Targets(p) \cap infra' = {}
    <3>1. \/ pc[p] \in AfterDestroy \/ reply[p] = "version"
          \/ pc[p] = "destroying" /\ infra' = infra \ res[sel[p]]
      BY <2>3 DEF Leads, AfterDestroy
    <3> QED
      BY <1>3, <2>2, <2>3, <3>1 DEF Covering, Covers
  <2> QED
    BY <1>3, <1>6, <2>1, <2>3 DEF Covers, Leads
<1> QED
  BY <1>5, <1>7, <1>8 DEF Covering

LEMMA StepCovering ==
    ASSUME IInv, PlanNamesApart, Covering, NEW p \in Puts, Step(p)
    PROVE  Covering'
<1>1. PICK label \in Labels : Moves(p, label)
  BY StepMoves DEF IInv
<1>2. Leads(p)
  BY StepLeads DEF IInv, Covering, Covers
<1>3. KeepsRecorded(p)
  BY <1>1, MovesKeepRecorded DEF KeepsRecorded
<1>4. req' = req /\ \A q \in Puts \ {p} : pc'[q] = pc[q]
  BY <1>1 DEF Moves, Goto, IInv, TypeOK, ControlTypeOK
<1>5. pc[p] = "destroying" => sel[p] = Env(p)
  BY DEF IInv, OwnWorkspace, InSelected
<1> QED
  BY <1>2, <1>3, <1>4, <1>5, LeadsCovering DEF IInv

LEMMA NextCovering ==
    ASSUME IInv, PlanNamesApart, Covering, [Next]_vars
    PROVE  Covering'
<1>a. /\ pc \in [Puts -> Labels] /\ reply \in [Puts -> {"none", "version", "empty"}]
      /\ \A q \in Puts : Env(q) \in Envs /\ res[Env(q)] \subseteq Instances
      /\ DOMAIN began = Puts
  BY RequestTypes DEF IInv, TypeOK, ControlTypeOK, HistoryTypeOK, ClientTypeOK
<1>1. ASSUME NEW p \in Puts, Start(p) PROVE Covering'
  <2>1. /\ pc[p] = "idle" /\ pc' = [pc EXCEPT ![p] = "setup"]
        /\ UNCHANGED <<req, cause, reply, res, infra>>
        /\ began'[p].res = res[Env(p)]
        /\ \A q \in Puts \ {p} : began'[q].res = began[q].res
    BY <1>a, <1>1 DEF Start, Continue, Goto, clientVars, backend
  <2>2. \A q \in Puts : Env(q)' = Env(q) /\ CleaningUp(q)' = CleaningUp(q) /\ (Past(q) => Past(q)')
    BY <1>a, <2>1 DEF Env, Past, CleaningUp, AfterApply, Ended
  <2>3. ASSUME NEW q \in Puts \ {p} PROVE Covers(q)'
    <3>1. pc'[q] = pc[q] /\ Targets(q)' = Targets(q)
      BY <1>a, <2>1, <2>2 DEF Targets
    <3> QED
      BY <2>1, <2>2, <3>1 DEF Covering, Covers
  <2>4. Covers(p)'
    <3>1. pc'[p] = "setup" /\ reply'[p] = "none" /\ ~CleaningUp(p)'
      BY <1>a, <2>1, <2>2 DEF Covering, Covers, CleanupPath, DestroyPath, AfterDestroy, Ended
    <3>2. \A i \in began'[p].res : (i \in Puts => Past(i)') /\ i \in res'[Env(p)']
      BY <1>a, <2>1, <2>2 DEF Covering
    <3> QED
      BY <2>2, <3>1, <3>2 DEF Covers, DestroyPath, AfterDestroy
  <2> QED
    BY <2>1, <2>2, <2>3, <2>4 DEF Covering
<1>2. ASSUME NEW p \in Puts, ApplyProvision(p) PROVE Covering'
  <2>1. /\ pc[p] = "applying" /\ infra' = infra \cup {p}
        /\ UNCHANGED <<pc, req, cause, reply, began, res>>
    BY <1>2 DEF ApplyProvision, Provision, control, history, backend
  <2>2. ~Past(p)
    BY <2>1 DEF Past, AfterApply, Ended
  <2>3. \A q \in Puts : p \notin Targets(q) /\ p # Env(q)
    BY <1>a, <2>2, ClientAssumption DEF Covering, Covers, Targets
  <2>4. ASSUME NEW q \in Puts PROVE Covers(q)'
    <3>1. Env(q)' = Env(q) /\ Targets(q)' = Targets(q) /\ \A i \in Puts : Past(i)' = Past(i)
      BY <2>1 DEF Env, Targets, Past, CleaningUp
    <3>3. CleaningUp(q)' = CleaningUp(q)
      BY <2>1 DEF CleaningUp
    <3>2. p \notin began[q].res
      BY <2>3 DEF Targets
    <3> QED
      BY <2>1, <2>3, <3>1, <3>2, <3>3 DEF Covering, Covers
  <2> QED
    BY <2>1, <2>4 DEF Covering, Past, CleaningUp
<1>3. ASSUME NEW p \in Puts, Kill(p) PROVE Covering'
  <2>1. /\ pc'[p] \in Ended \ {"done"} /\ \A q \in Puts \ {p} : pc'[q] = pc[q]
        /\ infra' \subseteq infra
        /\ UNCHANGED <<req, cause, reply, began, res>>
        /\ \A q \in Puts : CleaningUp(q)' = CleaningUp(q)
    BY <1>a, <1>3 DEF Kill, Goto, backend, history, Ended, CleaningUp
  <2>2. \A q \in Puts : Env(q)' = Env(q) /\ Targets(q)' = Targets(q) /\ (Past(q) => Past(q)')
    BY <2>1 DEF Env, Targets, Past, CleaningUp, AfterApply
  <2>3. ASSUME NEW q \in Puts PROVE Covers(q)'
    <3>1. CASE q = p
      BY <2>1, <2>2, <3>1 DEF Covering, Covers, Ended, DestroyPath, AfterDestroy, CleanupPath
    <3>2. CASE q # p
      BY <2>1, <2>2, <3>2 DEF Covering, Covers
    <3> QED
      BY <3>1, <3>2
  <2> QED
    BY <2>1, <2>2, <2>3 DEF Covering
<1>4. CASE UNCHANGED vars
  BY <1>4 DEF vars, clientVars, backend, control, history, Covering, Covers, Env, Targets, Past,
              CleaningUp
<1> QED
  BY <1>1, <1>2, <1>3, <1>4, StepCovering DEF Next, AllEnded

(* A put that reports a destroy has destroyed all that its env recorded    *)
(* when it started, and what it imports, whoever puts meanwhile: for any   *)
(* number of puts, failures and aborted builds.                            *)
THEOREM DestroysCompletely ==
    ASSUME PlanNamesApart
    PROVE  Spec => []DestroyIsComplete
<1>1. Init => Covering
  BY ClientAssumption
     DEF Init, ClientInit, Covering, Covers, Names, CleaningUp, DestroyPath, AfterDestroy, Ended
<1>2. IInv /\ Covering /\ [Next]_vars => Covering'
  BY NextCovering
<1>3. Covering => DestroyIsComplete
  BY DEF Covering, Covers, Targets, DestroyIsComplete
<1> QED
  BY <1>1, <1>2, <1>3, Invariant, PTL DEF Spec
=============================================================================
