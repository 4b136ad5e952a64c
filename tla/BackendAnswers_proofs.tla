------------------------- MODULE BackendAnswers_proofs -------------------------
(***************************************************************************)
(* Proofs of what a put of BackendPut answers: the version and the outputs *)
(* it reports, the stored plan it uses up, and that it succeeds when       *)
(* nothing stands in its way.                                              *)
(***************************************************************************)
EXTENDS BackendPut_proofs

(* The labels of an apply that is not cleaning up, and those after its     *)
(* answers have been read.                                                 *)
Reported == {"planList", "planDelete", "tfVersion"}
ApplyPath ==
    {"idle", "setup", "planSelect", "planOutput", "list", "select", "new", "importCheck",
     "import", "apply", "applying", "stateVersion", "output"} \cup Reported \cup Ended

Saving == {"jsonPlan", "saveList", "saveSelect", "saveNew", "saveApply"}

(* What an apply has read is in order: each read is not older than the     *)
(* write or the read before.                                               *)
Ordered(p) ==
    /\ reply[p] # "none" => pc[p] = "done"
    /\ pc[p] \in {"plan"} \cup Saving => req[p].kind = "plan"
    /\ req[p].kind = "apply" =>
        /\ ~CleaningUp(p) => pc[p] \in ApplyPath
        /\ pc[p] = "output" => NotOlder(seen[p].wrote, seen[p].state)
        /\ \/ pc[p] \in Reported /\ ~CleaningUp(p)
           \/ pc[p] = "tfVersion"
           \/ reply[p] = "version"
           => /\ NotOlder(seen[p].wrote, seen[p].state)
              /\ NotOlder(seen[p].state, seen[p].output)

(* A version that a state of env e had is not newer than the state is, and *)
(* the put that has made its lineage will not create a workspace again.    *)
Made(q) == pc[q] \notin Making
Settled(e, v) ==
    /\ e \in spaces => NotOlder(v, version[e])
    /\ v.lineage \in Puts => Made(v.lineage)
Answering ==
    /\ \A p \in Puts : Ordered(p) /\ Settled(Env(p), seen[p].wrote) /\ Settled(Env(p), seen[p].state)
    /\ \A e \in Envs : version[e].lineage \in Puts => Made(version[e].lineage)

(* What a step of a put does to what it has seen. *)
Sees(p) ==
    /\ Ordered(p)'
    /\ \A q \in Puts \ {p} :
           seen'[q] = seen[q] /\ reply'[q] = reply[q] /\ CleaningUp(q)' = CleaningUp(q)
    /\ \/ seen'[p].wrote = seen[p].wrote
       \/ pc[p] = "applying" /\ seen'[p].wrote = version'[sel[p]]
    /\ \/ seen'[p].state = seen[p].state
       \/ seen'[p].state = version[Env(p)] /\ version' = version
LEMMA StepSees ==
    ASSUME TypeOK, NEW p \in Puts, Step(p), Ordered(p),
           Settled(Env(p), seen[p].wrote), Settled(Env(p), seen[p].state)
    PROVE  Sees(p)
<1>a. /\ pc \in [Puts -> Labels] /\ cause \in [Puts -> Labels \cup {"none"}] /\ pc[p] # "none"
      /\ reply \in [Puts -> {"none", "version", "empty"}]
      /\ req[p].kind \in {"apply", "plan", "destroy"}
      /\ seen \in [Puts -> [wrote : Versions, state : Versions, output : Versions]]
  BY RequestTypes DEF TypeOK, ControlTypeOK, HistoryTypeOK, Labels, Ended
<1>b. pc[p] \notin Ended
  BY DEF Step, Setup, PlanSelect, PlanOutput, List, Select, New, ImportCheck, ImportResource,
         ApplyStart, ApplyEnd, StateVersion, Output, PlanList, PlanDelete, PlanEnv, JSONPlan,
         SaveList, SaveSelect, SaveNew, SaveApply, DestroySelect, DestroyStart, DestroyEnd,
         EnvDelete, TfVersion, Call, Command, Begin, Ended
<1>c. reply[p] = "none"
  BY <1>b DEF Ordered, Ended
<1> DEFINE Alike == \A q \in Puts \ {p} : reply'[q] = reply[q] /\ CleaningUp(q)' = CleaningUp(q)
<1>d. Refused(p) \/ Fault(p) =>
        /\ Alike /\ reply'[p] = "none" /\ req' = req
        /\ CleaningUp(p)' /\ pc'[p] \in {"destroySelect", "done"}
  BY <1>a, <1>c DEF Refused, Fault, Fail, Goto, CleaningUp
<1>e. Refused(p) \/ Fault(p) => Alike /\ Ordered(p)'
  BY <1>d DEF Ordered, ApplyPath, Reported, Saving, Ended
<1>f. \A label : Continue(p, label) =>
        /\ Alike /\ reply'[p] = "none" /\ req' = req
        /\ pc'[p] = label /\ CleaningUp(p)' = CleaningUp(p)
  BY <1>a, <1>c DEF Continue, Goto, CleaningUp
<1>g. \A label : Continue(p, label) /\ label \notin {"output"} \cup Reported
                     /\ (label \in {"plan"} \cup Saving => req[p].kind = "plan")
                     /\ (req[p].kind = "apply" /\ ~CleaningUp(p) => label \in ApplyPath)
                 => Alike /\ Ordered(p)'
  BY <1>f DEF Ordered, Reported, Saving
<1>h. /\ MainCommand(p) = (IF req[p].kind = "destroy" \/ CleaningUp(p) THEN "destroy"
                           ELSE req[p].kind)
      /\ req[p].kind \in {"apply", "plan", "destroy"}
      /\ AfterSelection(p) \in {MainCommand(p), "importCheck"}
      /\ Finish(p) = (IF CleaningUp(p) THEN "done" ELSE "tfVersion")
      /\ FirstCommand(p) \in {"destroySelect", "planSelect", "list"}
      /\ req[p].kind = "apply" => FirstCommand(p) # "destroySelect"
  BY RequestTypes DEF MainCommand, AfterSelection, FirstCommand, Finish
<1>i. history' = history => seen' = seen
  BY DEF history
<1> DEFINE Quiet == seen' = seen /\ Ordered(p)' /\ Alike
<1>j. Quiet => Sees(p)
  BY DEF Sees
<1>k. /\ req[p].kind = "apply" /\ ~CleaningUp(p) => pc[p] \in ApplyPath
      /\ pc[p] \in {"plan"} \cup Saving => req[p].kind = "plan"
  BY DEF Ordered
<1> HIDE DEF Alike
<1>1. CASE Setup(p)
  <2>1. CASE Continue(p, FirstCommand(p))
    BY <1>1, <2>1, <1>g, <1>h, <1>i, <1>j DEF Setup, ApplyPath, Reported, Saving, Ended
  <2>2. CASE Goto(p, "done") /\ cause' = [cause EXCEPT ![p] = "setup"] /\ UNCHANGED <<req, reply>>
    <3>1. Alike /\ Ordered(p)'
      BY <2>2, <1>a, <1>c DEF Alike, Goto, CleaningUp, Ordered, ApplyPath, Reported, Saving, Ended
    <3> QED
      BY <1>1, <3>1, <1>i, <1>j DEF Setup
  <2> QED
    BY <1>1, <2>1, <2>2 DEF Setup
<1>2. CASE PlanSelect(p) \/ PlanOutput(p) \/ List(p)
  BY <1>2, <1>e, <1>g, <1>i, <1>j
     DEF PlanSelect, PlanOutput, List, Call, Command, ApplyPath, Reported, Saving, Ended
<1>3. CASE Select(p) \/ New(p) \/ ImportResource(p)
  BY <1>3, <1>e, <1>g, <1>h, <1>i, <1>j
     DEF Select, New, ImportResource, Call, Command, ApplyPath, Reported, Saving, Ended
<1>4. CASE ImportCheck(p)
  <2>1. CASE Goto(p, "import") /\ UNCHANGED <<req, cause, reply>>
    <3>1. Alike /\ Ordered(p)'
      BY <2>1, <1>a, <1>c DEF Alike, Goto, CleaningUp, Ordered, ApplyPath, Reported, Saving
    <3> QED
      BY <1>4, <3>1, <1>i, <1>j DEF ImportCheck
  <2> QED
    BY <1>4, <2>1, <1>g, <1>h, <1>i, <1>j DEF ImportCheck, ApplyPath, Reported, Saving
<1>5. CASE ApplyStart(p) \/ DestroyStart(p)
  BY <1>5, <1>e, <1>g, <1>i, <1>j, <1>k
     DEF ApplyStart, DestroyStart, Begin, ApplyPath, Reported, Saving, Ended
<1>6. CASE ApplyEnd(p)
  <2>1. Alike /\ Ordered(p)'
    BY <1>6, <1>e, <1>g DEF ApplyEnd, ApplyPath, Reported, Saving
  <2> QED
    BY <1>6, <2>1, <1>a DEF ApplyEnd, Sees, Alike
<1>7. CASE StateVersion(p)
  <2>1. CASE UNCHANGED history /\ (Refused(p) \/ Fault(p))
    BY <2>1, <1>e, <1>i, <1>j
  <2>2. CASE /\ Env(p) \in spaces /\ seen' = [seen EXCEPT ![p].state = version[Env(p)]]
             /\ UNCHANGED clientVars /\ (Continue(p, "output") \/ Fault(p))
    <3>1. /\ seen'[p].wrote = seen[p].wrote /\ seen'[p].state = version[Env(p)]
          /\ \A q \in Puts \ {p} : seen'[q] = seen[q]
      BY <1>a, <2>2
    <3>2. NotOlder(seen'[p].wrote, seen'[p].state)
      BY <2>2, <3>1 DEF Settled
    <3>3. Continue(p, "output") => Ordered(p)'
      BY <3>2, <1>f DEF Ordered, ApplyPath, Reported, Saving
    <3>4. Alike /\ Ordered(p)'
      BY <2>2, <3>3, <1>e, <1>f
    <3> QED
      BY <2>2, <3>1, <3>4 DEF Sees, Alike, clientVars, backend
  <2> QED
    BY <1>7, <2>1, <2>2 DEF StateVersion, Command, clientVars, history
<1>8. CASE Output(p)
  <2>1. CASE UNCHANGED history /\ (Refused(p) \/ Fault(p))
    BY <2>1, <1>e, <1>i, <1>j
  <2>2. CASE /\ Env(p) \in spaces /\ seen' = [seen EXCEPT ![p].output = version[Env(p)]]
             /\ UNCHANGED clientVars /\ (Continue(p, "planList") \/ Fault(p))
    <3>1. /\ seen'[p].wrote = seen[p].wrote /\ seen'[p].state = seen[p].state
          /\ seen'[p].output = version[Env(p)]
          /\ \A q \in Puts \ {p} : seen'[q] = seen[q]
      BY <1>a, <2>2
    <3>2. /\ req[p].kind = "apply" => NotOlder(seen'[p].wrote, seen'[p].state)
          /\ NotOlder(seen'[p].state, seen'[p].output)
      BY <1>8, <2>2, <3>1 DEF Settled, Ordered, Output, Command
    <3>3. Continue(p, "planList") => Ordered(p)'
      BY <3>2, <1>f DEF Ordered, ApplyPath, Reported, Saving
    <3>4. Alike /\ Ordered(p)'
      BY <2>2, <3>3, <1>e, <1>f
    <3> QED
      BY <3>1, <3>4 DEF Sees, Alike
  <2> QED
    BY <1>8, <2>1, <2>2 DEF Output, Command, clientVars, history
<1>9. ASSUME seen' = seen, NEW label \in Reported, Continue(p, label),
             req[p].kind = "apply" /\ (~CleaningUp(p) \/ label = "tfVersion") =>
                 pc[p] \in Reported /\ ~CleaningUp(p)
      PROVE  Quiet
  BY <1>9, <1>f DEF Ordered, ApplyPath, Reported, Saving
<1>10. CASE PlanList(p) \/ PlanDelete(p)
  <2>1. Continue(p, "done") => Alike /\ Ordered(p)'
    BY <1>g DEF Reported, ApplyPath, Saving, Ended
  <2> QED
    BY <1>10, <2>1, <1>e, <1>h, <1>i, <1>j, <1>9
       DEF PlanList, PlanDelete, Call, Command, Reported
<1>11. CASE PlanEnv(p) \/ JSONPlan(p) \/ SaveList(p) \/ SaveSelect(p) \/ SaveNew(p)
             \/ DestroySelect(p)
  BY <1>11, <1>e, <1>g, <1>i, <1>j, <1>k
     DEF PlanEnv, JSONPlan, SaveList, SaveSelect, SaveNew, DestroySelect, Call, Command,
         ApplyPath, Reported, Saving, Ended
<1>12. CASE SaveApply(p)
  <2>1. req[p].kind = "plan" /\ pc[p] = "saveApply"
    BY <1>12, <1>k DEF SaveApply, Call, Command, Saving
  <2> QED
    BY <1>12, <2>1, <1>e, <1>i, <1>j, <1>9 DEF SaveApply, Call, Command, Reported
<1>13. CASE DestroyEnd(p)
  BY <1>13, <1>e, <1>g, <1>i, <1>j, <1>k DEF DestroyEnd, ApplyPath, Reported, Saving, Ended
<1>14. CASE EnvDelete(p)
  <2>1. pc[p] = "wsDelete" /\ (req[p].kind = "apply" => CleaningUp(p))
    BY <1>14, <1>k DEF EnvDelete, Call, Command, ApplyPath, Reported, Saving, Ended
  <2> QED
    BY <1>14, <2>1, <1>e, <1>i, <1>j, <1>9 DEF EnvDelete, Call, Command, Reported
<1>15. CASE TfVersion(p)
  <2>1. /\ seen' = seen /\ req' = req /\ cause' = cause /\ pc'[p] = "done" /\ pc[p] = "tfVersion"
        /\ \A q \in Puts \ {p} : reply'[q] = reply[q]
    BY <1>15, <1>a DEF TfVersion, Goto, history
  <2> QED
    BY <2>1 DEF Sees, Ordered, CleaningUp, ApplyPath, Saving, Ended
<1> QED
  BY <1>1, <1>2, <1>3, <1>4, <1>5, <1>6, <1>7, <1>8, <1>10, <1>11, <1>12, <1>13, <1>14, <1>15
     DEF Step

(* A version stays settled whatever a put does: a state only gets newer,   *)
(* and a workspace that is created has a lineage of its own.               *)
LEMMA MovesSettled ==
    ASSUME IInv, PlanNamesApart, NEW p \in Puts, NEW label \in Labels, Moves(p, label),
           NEW e \in Envs, NEW v \in Versions, Settled(e, v)
    PROVE  /\ e \in spaces' => NotOlder(v, version'[e])
           /\ v.lineage \in Puts => pc'[v.lineage] \notin Making
<1>1. /\ pc'[p] = label /\ \A q \in Puts \ {p} : pc'[q] = pc[q]
      /\ label \in Making => pc[p] \in Making \ {"new"}
      /\ e \in Names /\ version[e] \in Versions
  BY ClientAssumption DEF Moves, Goto, IInv, TypeOK, ControlTypeOK, ClientTypeOK, Names
<1>2. v.lineage \in Puts => pc'[v.lineage] \notin Making
  <2>1. ASSUME NEW q \in Puts, Made(q) PROVE pc'[q] \notin Making
    BY <1>1, <2>1 DEF Made
  <2> QED
    BY <2>1 DEF Settled
<1>3. VersionStep(p, e)
  BY MovesVersions
<1>4. pc[p] = "new" => v.lineage # p
  BY DEF Settled, Made, Making
<1>5. v.serial \in Nat /\ version[e].serial \in Nat
  BY <1>1 DEF Versions
<1>6. ASSUME e \in spaces' PROVE NotOlder(v, version'[e])
  BY <1>3, <1>4, <1>5, <1>6 DEF VersionStep, Settled, NotOlder
<1> QED
  BY <1>2, <1>6

LEMMA StepAnswering ==
    ASSUME IInv, PlanNamesApart, Answering, NEW p \in Puts, Step(p)
    PROVE  Answering'
<1>1. PICK label \in Labels : Moves(p, label)
  BY StepMoves DEF IInv
<1>2. /\ \A q \in Puts : Env(q)' = Env(q) /\ Env(q) \in Envs /\ Env(q) \in Names
      /\ req' = req /\ \A q \in Puts \ {p} : pc'[q] = pc[q]
      /\ label \in Making => pc[p] \in Making \ {"new"}
      /\ pc'[p] = label
      /\ pc[p] = "applying" => sel[p] = Env(p)
      /\ \A q \in Puts : seen[q].wrote \in Versions /\ seen[q].state \in Versions
  BY <1>1, RequestTypes
     DEF Moves, Goto, Env, IInv, TypeOK, ControlTypeOK, HistoryTypeOK, OwnWorkspace, InSelected
<1>a. \A q \in Puts : Made(q) => Made(q)'
  BY <1>2 DEF Made
<1>b. version' \in [Names -> Versions] /\ Envs \subseteq Names
  BY StepTypes DEF IInv, TypeOK, ClientTypeOK, Names
<1>3. ASSUME NEW e \in Envs, version'[e].lineage \in Puts
      PROVE  pc'[version'[e].lineage] \notin Making
  <2>1. VersionStep(p, e)
    BY <1>1, MovesVersions
  <2>2. CASE version'[e].lineage = version[e].lineage
    <3>1. Made(version[e].lineage)
      BY <1>3, <2>2 DEF Answering
    <3> QED
      BY <1>3, <1>a, <2>2, <3>1 DEF Made
  <2>3. CASE version'[e].lineage = p /\ pc[p] = "new"
    BY <1>2, <2>3
  <2> QED
    BY <1>3, <2>1, <2>2, <2>3, ClientAssumption DEF VersionStep, NoVersion
<1>4. Sees(p)
  BY StepSees DEF Answering, IInv
<1>5. ASSUME NEW q \in Puts \ {p} PROVE Ordered(q)'
  BY <1>2, <1>4, <1>5 DEF Answering, Sees, Ordered
<1>6. ASSUME NEW q \in Puts PROVE Settled(Env(q), seen[q].wrote)'
  <2>1. CASE seen'[q].wrote = seen[q].wrote
    BY <1>1, <1>2, <2>1, MovesSettled DEF Answering, Settled, Made
  <2>2. CASE q = p /\ pc[p] = "applying" /\ seen'[p].wrote = version'[sel[p]]
    BY <1>2, <1>3, <1>b, <2>2 DEF Settled, NotOlder, Made, Versions
  <2> QED
    BY <1>4, <2>1, <2>2 DEF Sees
<1>7. ASSUME NEW q \in Puts PROVE Settled(Env(q), seen[q].state)'
  <2>1. CASE seen'[q].state = seen[q].state
    BY <1>1, <1>2, <2>1, MovesSettled DEF Answering, Settled, Made
  <2>2. CASE q = p /\ seen'[p].state = version[Env(p)] /\ version' = version
    BY <1>2, <1>3, <1>b, <2>2 DEF Settled, NotOlder, Made, Versions
  <2> QED
    BY <1>4, <2>1, <2>2 DEF Sees
<1> QED
  BY <1>3, <1>4, <1>5, <1>6, <1>7 DEF Answering, Sees, Made

LEMMA NextAnswering ==
    ASSUME IInv, PlanNamesApart, Answering, [Next]_vars
    PROVE  Answering'
<1>a. pc \in [Puts -> Labels]
  BY DEF IInv, TypeOK, ControlTypeOK
<1>1. ASSUME UNCHANGED <<spaces, version, req, cause, reply, seen>>, NEW p \in Puts,
             \A q \in Puts \ {p} : pc'[q] = pc[q],
             \/ pc'[p] = pc[p]
             \/ pc[p] = "idle" /\ pc'[p] = "setup"
             \/ Running(p) /\ pc'[p] \in {"killed", "killedApply"}
      PROVE  Answering'
  <2>1. \A q \in Puts : Made(q) => Made(q)'
    BY <1>1 DEF Made, Making
  <2>2. \A q \in Puts : Ordered(q)'
    BY <1>1
       DEF Answering, Ordered, ApplyPath, Reported, Saving, CleaningUp, Running, Ended
  <2>3. \A q \in Puts : Env(q)' = Env(q)
    BY <1>1 DEF Env
  <2> QED
    BY <1>1, <2>1, <2>2, <2>3 DEF Answering, Settled
<1>2. ASSUME NEW p \in Puts, Start(p) PROVE Answering'
  BY <1>a, <1>1, <1>2 DEF Start, Continue, Goto, clientVars, backend
<1>3. ASSUME NEW p \in Puts, Kill(p) PROVE Answering'
  BY <1>a, <1>1, <1>3 DEF Kill, Goto, backend, history
<1>4. ASSUME NEW p \in Puts, ApplyProvision(p) PROVE Answering'
  BY <1>1, <1>4 DEF ApplyProvision, Provision, control, history, backend
<1>5. CASE UNCHANGED vars
  BY <1>5 DEF vars, clientVars, backend, control, history, Answering, Settled, Ordered, Env,
              Made, CleaningUp
<1> QED
  BY <1>2, <1>3, <1>4, <1>5, StepAnswering DEF Next, AllEnded

(* The version an apply reports is not older than the state it has         *)
(* written, and its outputs are not older than that version, whoever       *)
(* applies, destroys or creates the workspace again meanwhile: for any     *)
(* number of puts, envs, failures and aborted builds.                      *)
THEOREM ReportsNothingStale ==
    ASSUME PlanNamesApart
    PROVE  Spec => []ReportsOwnApply
<1>1. Init => Answering
  BY ClientAssumption
     DEF Init, ClientInit, Answering, Ordered, Settled, NotOlder, NoVersion, CleaningUp, Names,
         ApplyPath, Reported, Saving
<1>2. IInv /\ Answering /\ [Next]_vars => Answering'
  BY NextAnswering
<1>3. Answering => ReportsOwnApply
  BY DEF Answering, Ordered, ReportsOwnApply
<1> QED
  BY <1>1, <1>2, <1>3, Invariant, PTL DEF Spec

-----------------------------------------------------------------------------
(* Stored plans.  A plan that is stored was made by a put that is past     *)
(* storing it, so that no plan that was found once comes back after its    *)
(* workspace has been deleted.                                             *)
Stored(q) == pc[q] \in {"tfVersion"} \cup Ended
Whole(plan) == plan = NoPlan \/ (plan.by \in Puts /\ Stored(plan.by))
Uses(p) ==
    /\ reply[p] # "none" => pc[p] = "done"
    /\ pc[p] \in {"plan"} \cup Saving => req[p].kind = "plan"
    /\ pc[p] \in Saving => planFile[p].by = p
    /\ Whole(began[p].plan)
    /\ /\ pc[p] = "tfVersion" \/ reply[p] = "version"
       /\ req[p].kind # "plan" /\ began[p].plan # NoPlan
       => stored[PlanOf(p)].by # began[p].plan.by
Using ==
    /\ \A p \in Puts : Uses(p)
    /\ \A n \in Names : Whole(stored[n]) /\ (n \notin spaces => stored[n] = NoPlan)

(* What a step of a put does to the stored plans: it stores its own, or    *)
(* deletes one with its workspace.                                         *)
StoredStep(p) ==
    /\ \A n \in Names : n \notin spaces' => stored'[n] = NoPlan
    /\ \A n \in Names :
           \/ stored'[n] \in {stored[n], NoPlan}
           \/ pc[p] = "saveApply" /\ n = PlanOf(p) /\ stored'[n] = planFile[p]
LEMMA MovesStored ==
    ASSUME TypeOK, Using, NEW p \in Puts, NEW label \in Labels, Moves(p, label)
    PROVE  StoredStep(p)
<1>1. /\ Env(p) \in Names /\ PlanOf(p) \in Names /\ stored \in [Names -> Plans]
      /\ \A n \in Names \ spaces : stored[n] = NoPlan
  BY RequestTypes DEF TypeOK, ClientTypeOK, Using
<1>2. CASE stored' = stored /\ spaces \subseteq spaces'
  BY <1>1, <1>2 DEF StoredStep
<1>3. CASE \E n \in Names : WorkspaceDelete(n)
  BY <1>1, <1>3 DEF StoredStep, WorkspaceDelete
<1>4. CASE pc[p] = "saveApply" /\ CanSavePlan(PlanOf(p)) /\ SavePlan(p, PlanOf(p))
  BY <1>1, <1>4 DEF StoredStep, CanSavePlan, Free, SavePlan
<1> QED
  BY <1>1, <1>2, <1>3, <1>4
     DEF Moves, Effect, WorkspaceNew, Import, TakeLock, ApplyEnds, DestroyEnds, backend

(* What a step of a put does to its plan and its answer. *)
PlanStep(p) ==
    /\ began' = began
    /\ \A q \in Puts \ {p} : planFile'[q] = planFile[q] /\ reply'[q] = reply[q]
    /\ reply'[p] # "none" => pc'[p] = "done"
    /\ reply'[p] = "version" => pc[p] = "tfVersion"
    /\ pc'[p] \in {"plan"} \cup Saving => req[p].kind = "plan"
    /\ pc'[p] \in Saving => \/ pc[p] \in Saving /\ planFile'[p] = planFile[p]
                            \/ /\ pc[p] = "plan" /\ sel[p] \in spaces
                               /\ planFile'[p] = [by |-> p, base |-> version[sel[p]]]
    /\ pc[p] \in {"tfVersion", "saveApply"} => Stored(p)'
    /\ pc'[p] = "tfVersion" /\ req[p].kind # "plan" => stored'[PlanOf(p)] = NoPlan
LEMMA StepPlans ==
    ASSUME TypeOK, Using, NEW p \in Puts, Step(p)
    PROVE  PlanStep(p)
<1>a. /\ pc \in [Puts -> Labels]
      /\ reply \in [Puts -> {"none", "version", "empty"}]
      /\ planFile \in [Puts -> Plans] /\ stored \in [Names -> Plans]
      /\ PlanOf(p) \in Names
  BY RequestTypes DEF TypeOK, ControlTypeOK, ClientTypeOK
<1>b. pc[p] \notin Ended
  BY DEF Step, Setup, PlanSelect, PlanOutput, List, Select, New, ImportCheck, ImportResource,
         ApplyStart, ApplyEnd, StateVersion, Output, PlanList, PlanDelete, PlanEnv, JSONPlan,
         SaveList, SaveSelect, SaveNew, SaveApply, DestroySelect, DestroyStart, DestroyEnd,
         EnvDelete, TfVersion, Call, Command, Begin, Ended
<1>c. /\ reply[p] = "none"
      /\ pc[p] \in {"plan"} \cup Saving => req[p].kind = "plan"
      /\ pc[p] \in Saving => planFile[p].by = p
      /\ PlanOf(p) \notin spaces => stored[PlanOf(p)] = NoPlan
  BY <1>a, <1>b DEF Using, Uses, Ended
<1> DEFINE Quiet == began' = began /\ \A q \in Puts \ {p} : planFile'[q] = planFile[q]
<1> DEFINE Carries == \/ pc[p] \in Saving /\ planFile'[p] = planFile[p]
                      \/ /\ pc[p] = "plan" /\ sel[p] \in spaces
                         /\ planFile'[p] = [by |-> p, base |-> version[sel[p]]]
<1>d. (Refused(p) \/ Fault(p)) /\ Quiet /\ pc[p] # "tfVersion" => PlanStep(p)
  <2>1. Refused(p) \/ Fault(p) =>
          /\ reply' = reply /\ pc'[p] \in {"destroySelect", "done"}
          /\ pc[p] = "saveApply" => pc'[p] = "done"
    BY <1>a, <1>c DEF Refused, Fault, Fail, Goto, CleansUp, Saving
  <2> QED
    BY <1>c, <2>1 DEF PlanStep, Stored, Saving, Ended
<1>e. \A label : Continue(p, label) => pc'[p] = label /\ reply' = reply
  BY <1>a DEF Continue, Goto
<1>f. \A label : Continue(p, label) /\ Quiet /\ label \notin Saving \cup {"tfVersion"}
                    /\ (label = "plan" => req[p].kind = "plan")
                    /\ pc[p] \notin {"saveApply", "tfVersion"}
                 => PlanStep(p)
  BY <1>c, <1>e DEF PlanStep, Saving
<1>g. \A label : Continue(p, label) /\ Quiet /\ label \in Saving /\ Carries
                    /\ req[p].kind = "plan" /\ pc[p] \notin {"saveApply", "tfVersion"}
                 => PlanStep(p)
  BY <1>c, <1>e DEF PlanStep, Saving
<1>h. /\ MainCommand(p) \in {"apply", "plan", "destroy"}
      /\ MainCommand(p) = "plan" => req[p].kind = "plan"
      /\ AfterSelection(p) \in {MainCommand(p), "importCheck"}
      /\ Finish(p) \in {"done", "tfVersion"}
      /\ FirstCommand(p) \in {"destroySelect", "planSelect", "list"}
  BY RequestTypes DEF MainCommand, AfterSelection, FirstCommand
<1>i. /\ UNCHANGED clientVars => planFile' = planFile /\ stored' = stored
      /\ history' = history => began' = began
  BY DEF clientVars, container, history, backend
<1>j. began' = began /\ (planFile' = planFile \/ \E plan : planFile' = [planFile EXCEPT ![p] = plan])
        => Quiet
  BY <1>a
<1>k. ASSUME Continue(p, Finish(p)), Quiet, pc[p] \notin {"saveApply", "tfVersion"},
             stored'[PlanOf(p)] = NoPlan
      PROVE  PlanStep(p)
  BY <1>c, <1>e, <1>h, <1>k DEF PlanStep, Saving
<1> HIDE DEF Quiet
<1>1. CASE Setup(p)
  <2>1. CASE Continue(p, FirstCommand(p))
    BY <1>1, <2>1, <1>f, <1>h, <1>i, <1>j DEF Setup, InitWithBackend, Saving
  <2>2. CASE Goto(p, "done") /\ UNCHANGED <<req, reply>>
    BY <1>1, <2>2, <1>a, <1>c, <1>i, <1>j
       DEF Setup, InitWithBackend, Goto, PlanStep, Saving, Quiet
  <2> QED
    BY <1>1, <2>1, <2>2 DEF Setup
<1>2. CASE PlanSelect(p) \/ PlanOutput(p) \/ List(p) \/ DestroySelect(p)
  BY <1>2, <1>d, <1>f, <1>i, <1>j
     DEF PlanSelect, PlanOutput, List, DestroySelect, Call, Command, WorkspaceSelect, GetPlan,
         Saving
<1>3. CASE Select(p) \/ New(p) \/ ImportResource(p)
  BY <1>3, <1>d, <1>f, <1>h, <1>i, <1>j
     DEF Select, New, ImportResource, Call, Command, WorkspaceSelect, WorkspaceNew, Import,
         Saving, clientVars, container
<1>4. CASE ImportCheck(p)
  <2>1. CASE Goto(p, "import") /\ UNCHANGED <<req, cause, reply>>
    BY <1>4, <2>1, <1>a, <1>c, <1>i, <1>j DEF ImportCheck, Goto, PlanStep, Saving, Quiet
  <2> QED
    BY <1>4, <2>1, <1>f, <1>h, <1>i, <1>j DEF ImportCheck, Saving
<1>5. CASE ApplyStart(p) \/ DestroyStart(p)
  BY <1>5, <1>d, <1>f, <1>i, <1>j
     DEF ApplyStart, DestroyStart, Begin, TakeLock, container, clientVars, Saving
<1>6. CASE ApplyEnd(p) \/ DestroyEnd(p)
  BY <1>6, <1>d, <1>f, <1>i, <1>j
     DEF ApplyEnd, DestroyEnd, ApplyEnds, DestroyEnds, container, Saving
<1>7. CASE StateVersion(p) \/ Output(p)
  BY <1>7, <1>d, <1>f, <1>i, <1>j DEF StateVersion, Output, Command, Saving
<1>8. CASE PlanList(p)
  BY <1>8, <1>c, <1>d, <1>f, <1>i, <1>j, <1>k DEF PlanList, Call, Command, Saving
<1>9. CASE PlanDelete(p)
  <2>1. WorkspaceDelete(PlanOf(p)) => stored'[PlanOf(p)] = NoPlan /\ planFile' = planFile
    BY <1>a DEF WorkspaceDelete, container
  <2> QED
    BY <1>9, <2>1, <1>d, <1>i, <1>j, <1>k DEF PlanDelete, Call, Command
<1>10. CASE PlanEnv(p)
  <2>1. Plan(p) => planFile'[p] = [by |-> p, base |-> version[sel[p]]]
    BY <1>a DEF Plan
  <2> QED
    BY <1>10, <2>1, <1>c, <1>d, <1>g, <1>i, <1>j
       DEF PlanEnv, Call, Command, CanPlan, Free, Plan, Saving
<1>11. CASE JSONPlan(p) \/ SaveList(p) \/ SaveSelect(p) \/ SaveNew(p)
  BY <1>11, <1>c, <1>d, <1>g, <1>i, <1>j
     DEF JSONPlan, SaveList, SaveSelect, SaveNew, Call, Command, WorkspaceNew, Saving
<1>12. CASE SaveApply(p)
  <2>1. CASE Continue(p, "tfVersion")
    BY <1>12, <2>1, <1>c, <1>e, <1>i, <1>j
       DEF SaveApply, Call, Command, SavePlan, container, clientVars, PlanStep, Stored, Saving,
           Quiet
  <2> QED
    BY <1>12, <2>1, <1>d, <1>i, <1>j
       DEF SaveApply, Call, Command, SavePlan, container, clientVars
<1>13. CASE EnvDelete(p)
  BY <1>13, <1>d, <1>f, <1>i, <1>j
     DEF EnvDelete, Call, Command, WorkspaceDelete, container, clientVars, Saving
<1>14. CASE TfVersion(p)
  BY <1>14, <1>a, <1>c, <1>i, <1>j DEF TfVersion, Goto, PlanStep, Stored, Saving, Ended, Quiet
<1> QED
  BY <1>1, <1>2, <1>3, <1>4, <1>5, <1>6, <1>7, <1>8, <1>9, <1>10, <1>11, <1>12, <1>13, <1>14
     DEF Step

LEMMA StepUsing ==
    ASSUME TypeOK, OwnWorkspace, Using, NEW p \in Puts, Step(p)
    PROVE  Using'
<1>1. PICK label \in Labels : Moves(p, label)
  BY StepMoves
<1>2. StoredStep(p) /\ PlanStep(p)
  BY <1>1, MovesStored, StepPlans
<1>3. /\ \A q \in Puts : PlanOf(q)' = PlanOf(q) /\ PlanOf(q) \in Names
      /\ req' = req /\ \A q \in Puts \ {p} : pc'[q] = pc[q]
      /\ Running(p)
  BY <1>1, RequestTypes DEF Moves, Goto, PlanOf, Env, TypeOK, ControlTypeOK
<1>4. \A q \in Puts : Stored(q) => Stored(q)'
  BY <1>2, <1>3 DEF PlanStep, Stored, Running
<1>5. \A plan : Whole(plan) => plan = NoPlan \/ (plan.by \in Puts /\ Stored(plan.by)')
  BY <1>4 DEF Whole
<1>6. ASSUME NEW n \in Names PROVE Whole(stored[n])' /\ (n \notin spaces' => stored'[n] = NoPlan)
  <2>1. CASE stored'[n] \in {stored[n], NoPlan}
    BY <1>2, <1>4, <2>1 DEF StoredStep, Using, Whole
  <2>2. CASE pc[p] = "saveApply" /\ stored'[n] = planFile[p]
    <3>1. planFile[p].by = p /\ Stored(p)'
      BY <1>2, <2>2 DEF PlanStep, Using, Uses, Saving
    <3> QED
      BY <1>2, <2>2, <3>1 DEF StoredStep, Whole
  <2> QED
    BY <1>2, <2>1, <2>2 DEF StoredStep
<1>7. ASSUME NEW q \in Puts PROVE Uses(q)'
  <2>1. began'[q] = began[q] /\ Whole(began[q].plan)
    BY <1>2 DEF PlanStep, Using, Uses
  <2>2. Whole(began[q].plan)'
    BY <1>4, <2>1 DEF Whole
  <2>3. /\ reply'[q] # "none" => pc'[q] = "done"
        /\ pc'[q] \in {"plan"} \cup Saving => req'[q].kind = "plan"
        /\ pc'[q] \in Saving => planFile'[q].by = q
    BY <1>2, <1>3 DEF PlanStep, Using, Uses, Saving
  <2>4. ASSUME pc'[q] = "tfVersion" \/ reply'[q] = "version",
               req[q].kind # "plan", began[q].plan # NoPlan
        PROVE  stored'[PlanOf(q)].by # began[q].plan.by
    <3>1. began[q].plan.by \in Puts /\ Stored(began[q].plan.by)
      BY <2>1, <2>4 DEF Whole
    <3>2. CASE stored'[PlanOf(q)] = NoPlan
      BY <3>1, <3>2, ClientAssumption DEF NoPlan
    <3>3. CASE pc[q] = "tfVersion" \/ reply[q] = "version"
      <4>1. stored[PlanOf(q)].by # began[q].plan.by
        BY <2>4, <3>3 DEF Using, Uses
      <4>2. pc[p] = "saveApply" => p # began[q].plan.by /\ planFile[p].by = p
        BY <3>1 DEF Stored, Ended, Using, Uses, Saving
      <4> QED
        BY <1>2, <1>3, <3>2, <4>1, <4>2 DEF StoredStep
    <3>4. CASE q = p /\ pc'[p] = "tfVersion"
      BY <1>2, <2>4, <3>2, <3>4 DEF PlanStep
    <3> QED
      BY <1>2, <1>3, <2>4, <3>3, <3>4 DEF PlanStep
  <2> QED
    BY <1>3, <2>1, <2>2, <2>3, <2>4 DEF Uses
<1> QED
  BY <1>6, <1>7 DEF Using

LEMMA NextUsing ==
    ASSUME IInv, Using, [Next]_vars
    PROVE  Using'
<1>a. /\ pc \in [Puts -> Labels] /\ DOMAIN began = Puts
      /\ \A q \in Puts : PlanOf(q) \in Names
  BY RequestTypes DEF IInv, TypeOK, ControlTypeOK, HistoryTypeOK
<1>1. ASSUME UNCHANGED <<spaces, stored, planFile, req, reply>>, NEW p \in Puts,
             \A q \in Puts \ {p} : pc'[q] = pc[q],
             \/ pc'[p] = pc[p]
             \/ pc[p] = "idle" /\ pc'[p] = "setup"
             \/ Running(p) /\ pc'[p] \in {"killed", "killedApply"},
             \A q \in Puts :
                 \/ began'[q].plan = began[q].plan
                 \/ q = p /\ pc[p] = "idle" /\ began'[q].plan = stored[PlanOf(p)]
      PROVE  Using'
  <2>1. \A q \in Puts : Stored(q) => Stored(q)'
    BY <1>1 DEF Stored, Running, Ended
  <2>2. \A n \in Names : Whole(stored[n])'
    BY <1>1, <2>1 DEF Using, Whole
  <2>3. ASSUME NEW q \in Puts PROVE Uses(q)'
    <3>1. PlanOf(q)' = PlanOf(q)
      BY <1>1 DEF PlanOf, Env
    <3>2. Whole(began[q].plan)'
      BY <1>a, <1>1, <2>1 DEF Using, Uses, Whole
    <3> QED
      BY <1>1, <3>1, <3>2 DEF Using, Uses, Saving, Running, Ended
  <2> QED
    BY <1>1, <2>2, <2>3 DEF Using
<1>2. ASSUME NEW p \in Puts, Start(p) PROVE Using'
  <2>1. \A q \in Puts :
            \/ began'[q].plan = began[q].plan
            \/ q = p /\ pc[p] = "idle" /\ began'[q].plan = stored[PlanOf(p)]
    BY <1>a, <1>2 DEF Start
  <2> QED
    BY <1>a, <1>1, <1>2, <2>1 DEF Start, Continue, Goto, clientVars, backend, container
<1>3. ASSUME NEW p \in Puts, Kill(p) PROVE Using'
  BY <1>a, <1>1, <1>3 DEF Kill, Goto, backend, container, history
<1>4. ASSUME NEW p \in Puts, ApplyProvision(p) PROVE Using'
  BY <1>1, <1>4 DEF ApplyProvision, Provision, control, history, backend, container
<1>5. CASE UNCHANGED vars
  BY <1>5 DEF vars, clientVars, backend, container, control, history, Using, Uses, Whole, Stored,
              PlanOf, Env
<1>6. ASSUME NEW p \in Puts, Step(p) PROVE Using'
  BY <1>6, StepUsing DEF IInv
<1> QED
  BY <1>2, <1>3, <1>4, <1>5, <1>6 DEF Next, AllEnded

(* An apply or a destroy that succeeds has used up the plan that was       *)
(* stored when it started: nobody can run it any more, whatever other puts *)
(* plan, store and delete meanwhile and however envs are named.            *)
THEOREM UsesUpStoredPlan == Spec => []StoredPlanConsumed
<1>1. Init => Using
  BY DEF Init, ClientInit, Using, Uses, Whole, Saving, Stored
<1>2. IInv /\ Using /\ [Next]_vars => Using'
  BY NextUsing
<1>3. Using => StoredPlanConsumed
  BY DEF Using, Uses, StoredPlanConsumed
<1> QED
  BY <1>1, <1>2, <1>3, Invariant, PTL DEF Spec

-----------------------------------------------------------------------------
(* Retries.  What is true of the backend whoever has run: nobody locks a   *)
(* plan workspace, a workspace that is gone has no version, and a plan was *)
(* made from a state that the env's workspace had.                         *)
OfPut(plan) == plan.base.lineage \in Puts
Based ==
    /\ Default \in spaces
    /\ \A e \in Envs : lock[PlanName[e]] = Nobody /\ (e \notin spaces => version[e] = NoVersion)
    /\ \A e \in Envs \ {Default} :
        /\ e \in spaces => version[e].lineage \in Puts
        /\ stored[PlanName[e]] # NoPlan => OfPut(stored[PlanName[e]])
    /\ \A p \in Puts : pc[p] \in Saving /\ Env(p) # Default => OfPut(planFile[p])

(* What the next command of a put needs when the put runs alone, none of   *)
(* its commands has failed on its own and it was ready.                    *)
Selected ==
    {"select", "importCheck", "import", "plan", "apply", "applying", "stateVersion", "output",
     "destroySelect", "destroy", "destroying", "wsDelete"} \cup Saving
ToImport ==
    {"setup", "planSelect", "planOutput", "list", "select", "new", "destroySelect", "importCheck",
     "import", "apply", "applying"}
RunsPlan(p) == req[p].kind = "apply" /\ req[p].planRun
FitsSelection(p) ==
    /\ pc[p] \in Selected => Env(p) \in spaces
    /\ pc[p] = "setup" /\ req[p].kind = "destroy" => Env(p) \in spaces
    /\ pc[p] = "new" => Env(p) \notin spaces
    /\ pc[p] \in {"planDelete", "saveSelect", "saveApply"} => PlanOf(p) \in spaces
    /\ pc[p] = "saveNew" => PlanOf(p) \notin spaces
FitsPlan(p) ==
    /\ pc[p] \in {"planSelect", "planOutput"} => RunsPlan(p)
    /\ pc[p] \in {"importCheck", "import"} => ~RunsPlan(p) \/ CleaningUp(p)
    /\ pc[p] = "apply" => req[p].kind = "apply"
    /\ RunsPlan(p) =>
        /\ pc[p] \in {"setup", "planSelect", "planOutput"} =>
              /\ stored[PlanOf(p)] # NoPlan /\ stored[PlanOf(p)].base = version[Env(p)]
              /\ PlanOf(p) \in spaces /\ Env(p) \in spaces
        /\ pc[p] \in {"list", "select", "new", "apply"} =>
              planFile[p].base = version[Env(p)] /\ Env(p) \in spaces
FitsImport(p) ==
    /\ pc[p] \in {"importCheck", "import"} => req[p].imports
    /\ pc[p] \in ToImport /\ req[p].imports => Env(p) \in infra
    /\ pc[p] = "import" => Env(p) \notin res[Env(p)]
    /\ pc[p] = "wsDelete" => res[Env(p)] = {}
    /\ pc[p] \in {"destroySelect", "destroy", "destroying"} =>
           req[p].kind # "apply" \/ CleaningUp(p)
Fits(p) ==
    /\ pc[p] \notin Busy => lock[Env(p)] = Nobody
    /\ FitsSelection(p) /\ FitsPlan(p) /\ FitsImport(p)

Excused(c) == c \in {"none", "applying", "destroying"}
Alone(p) == began[p].ready /\ began[p].faults = faults
Needs(p) ==
    /\ began[p].faults <= faults
    /\ pc[p] = "idle" => cause[p] = "none"
    /\ pc[p] # "idle" /\ Alone(p) => Excused(cause[p])
    /\ Running(p) /\ began[p].ready => Others(p) = {}
    /\ Running(p) /\ Alone(p) => Fits(p)
Supplied == Based /\ \A p \in Puts : Needs(p)

(* Only the workspace of an env is ever locked. *)
LEMMA MovesLock ==
    ASSUME IInv, PlanNamesApart, NEW p \in Puts, NEW label \in Labels, Moves(p, label),
           NEW n \in Names \ {Env(p)}
    PROVE  lock'[n] = lock[n]
<1>1. /\ lock \in [Names -> Puts \cup {Nobody}]
      /\ pc[p] \in Busy => sel[p] = Env(p)
      /\ label \in Busy => sel'[p] = Env(p)
  BY DEF Moves, IInv, TypeOK, ClientTypeOK, OwnWorkspace, InSelected, Busy
<1>2. CASE lock' = lock
  BY <1>2
<1>3. CASE label \in Busy /\ TakeLock(p)
  BY <1>1, <1>3 DEF TakeLock, container
<1>4. CASE pc[p] \in Busy /\ (ApplyEnds(p) \/ \E gone : DestroyEnds(p, gone))
  BY <1>1, <1>4 DEF ApplyEnds, DestroyEnds
<1> QED
  BY <1>2, <1>3, <1>4
     DEF Moves, Effect, WorkspaceNew, WorkspaceDelete, Import, SavePlan, backend, Busy

LEMMA StepBased ==
    ASSUME IInv, PlanNamesApart, Using, Based, NEW p \in Puts, Step(p)
    PROVE  Based'
<1>1. PICK label \in Labels : Moves(p, label)
  BY StepMoves DEF IInv
<1>2. StoredStep(p) /\ PlanStep(p)
  BY <1>1, MovesStored, StepPlans DEF IInv
<1>3. /\ \A q \in Puts : Env(q)' = Env(q) /\ Env(q) \in Envs
      /\ \A q \in Puts \ {p} : pc'[q] = pc[q]
      /\ \A e \in Envs : PlanName[e] \in Names \ {Env(p)}
      /\ Envs \subseteq Names
      /\ pc[p] = "plan" => sel[p] = Env(p)
      /\ PlanOf(p) = PlanName[Env(p)]
  BY <1>1, RequestTypes
     DEF Moves, Goto, Env, PlanOf, IInv, TypeOK, ControlTypeOK, PlanNamesApart, Names,
         OwnWorkspace, InSelected
<1>4. \A e \in Envs : VersionStep(p, e)
  BY <1>1, MovesVersions
<1>5. Default \in spaces'
  <2>1. PlanOf(p) # Default
    BY <1>3, ClientAssumption
  <2> QED
    BY <1>1, <2>1
       DEF Based, Moves, Effect, WorkspaceNew, WorkspaceDelete, Import, SavePlan, TakeLock,
           ApplyEnds, DestroyEnds, backend
<1>6. \A e \in Envs : lock'[PlanName[e]] = Nobody
  BY <1>1, <1>3, MovesLock DEF Based
<1>7. \A e \in Envs : e \notin spaces' => version'[e] = NoVersion
  BY <1>4 DEF VersionStep, Based
<1>8. \A e \in Envs \ {Default} : e \in spaces' => version'[e].lineage \in Puts
  BY <1>4 DEF VersionStep, Based
<1>9. ASSUME NEW e \in Envs \ {Default}, stored'[PlanName[e]] # NoPlan
      PROVE  OfPut(stored'[PlanName[e]])
  <2>1. CASE stored'[PlanName[e]] = stored[PlanName[e]]
    BY <1>9, <2>1 DEF Based
  <2>2. CASE pc[p] = "saveApply" /\ PlanName[e] = PlanOf(p) /\ stored'[PlanName[e]] = planFile[p]
    <3>1. e = Env(p)
      BY <1>3, <2>2, ClientAssumption
    <3> QED
      BY <2>2, <3>1 DEF Based, Saving
  <2> QED
    BY <1>2, <1>3, <1>9, <2>1, <2>2 DEF StoredStep
<1>10. ASSUME NEW q \in Puts, pc'[q] \in Saving, Env(q) # Default
       PROVE  OfPut(planFile'[q])
  <2>1. CASE pc[q] \in Saving /\ planFile'[q] = planFile[q]
    BY <1>10, <2>1 DEF Based
  <2>2. CASE /\ pc[q] = "plan" /\ q = p /\ sel[p] \in spaces
             /\ planFile'[q] = [by |-> p, base |-> version[sel[p]]]
    BY <1>3, <1>10, <2>2 DEF Based, OfPut
  <2> QED
    BY <1>2, <1>3, <1>10, <2>1, <2>2 DEF PlanStep
<1> QED
  BY <1>3, <1>5, <1>6, <1>7, <1>8, <1>9, <1>10 DEF Based, OfPut

(* A put that has what its next command needs only fails in apply or       *)
(* destroy, and has what the command after it needs.                       *)
LEMMA StepFits ==
    ASSUME IInv, Based, NEW p \in Puts, Step(p), Fits(p), Excused(cause[p]), faults' = faults
    PROVE  Excused(cause'[p]) /\ (Running(p)' => Fits(p)')
<1>a. /\ pc \in [Puts -> Labels] /\ cause \in [Puts -> Labels \cup {"none"}]
      /\ pc[p] # "none" /\ faults \in Nat
      /\ spaces \subseteq Names /\ res \in [Names -> SUBSET Instances]
      /\ version \in [Names -> Versions] /\ lock \in [Names -> Puts \cup {Nobody}]
      /\ sel \in [Puts -> Names] /\ planFile \in [Puts -> Plans]
      /\ Env(p) \in Envs \cap Names /\ PlanOf(p) \in Names
      /\ req[p].kind \in {"apply", "plan", "destroy"}
      /\ lock[PlanOf(p)] = Nobody
  BY RequestTypes
     DEF IInv, TypeOK, ClientTypeOK, ControlTypeOK, Labels, Ended, Names, Based, PlanOf
<1>b. pc[p] \in InSelected => sel[p] = Env(p)
  BY DEF IInv, OwnWorkspace
<1>c. ~Fault(p)
  BY <1>a DEF Fault
<1> DEFINE Same == req' = req /\ Env(p)' = Env(p) /\ PlanOf(p)' = PlanOf(p)
                   /\ RunsPlan(p)' = RunsPlan(p)
<1>d. \A label : Continue(p, label) =>
        Same /\ pc'[p] = label /\ CleaningUp(p)' = CleaningUp(p) /\ Excused(cause'[p])
  BY <1>a DEF Continue, Goto, CleaningUp, Env, PlanOf, RunsPlan
<1>e. Refused(p) /\ pc[p] \in Busy =>
        /\ Same /\ CleaningUp(p)' /\ Excused(cause'[p])
        /\ pc'[p] = IF CleansUp(p) THEN "destroySelect" ELSE "done"
  BY <1>a DEF Refused, Fail, Goto, CleaningUp, Env, PlanOf, RunsPlan, Excused, Busy
<1>f. /\ MainCommand(p) = (IF req[p].kind = "destroy" \/ CleaningUp(p) THEN "destroy"
                           ELSE req[p].kind)
      /\ AfterSelection(p) = (IF req[p].imports /\ (RunsPlan(p) => CleaningUp(p))
                              THEN "importCheck" ELSE MainCommand(p))
      /\ Finish(p) = (IF CleaningUp(p) THEN "done" ELSE "tfVersion")
      /\ RunsPlan(p) => req[p].kind = "apply"
  BY DEF MainCommand, AfterSelection, Finish, RunsPlan
<1> HIDE DEF Same
<1>1. CASE Setup(p)
  BY <1>1, <1>a, <1>b, <1>c, <1>d, <1>f
     DEF Setup, InitWithBackend, FirstCommand, RunsPlan, Fits, FitsSelection, FitsPlan,
         FitsImport, Same, Busy, Selected, Saving, ToImport, Running, Ended, clientVars,
         backend, container
<1>2. CASE PlanSelect(p)
  <2>1. pc[p] = "planSelect"
    BY <1>2 DEF PlanSelect, Call, Command
  <2>2. CanWorkspaceSelect(PlanOf(p))
    BY <2>1, <1>a, <1>b
       DEF CanWorkspaceSelect, Free, Fits, FitsSelection, FitsPlan, FitsImport, Selected,
           Saving, ToImport, InSelected, Busy
  <2>3. Continue(p, "planOutput") /\ WorkspaceSelect(p, PlanOf(p))
    BY <1>2, <2>2, <1>c DEF PlanSelect, Call, Command
  <2>4. /\ Same /\ CleaningUp(p)' = CleaningUp(p) /\ Excused(cause'[p])
        /\ pc'[p] = "planOutput"
        /\ UNCHANGED <<backend, infra>>
    BY <2>3, <1>d DEF WorkspaceSelect
  <2>5. FitsSelection(p)'
    BY <2>1, <2>4
       DEF Fits, FitsSelection, FitsPlan, FitsImport, Same, Busy, Selected, Saving,
           ToImport, Running, Ended, backend
  <2>6. FitsPlan(p)'
    BY <2>1, <2>3, <2>4, <1>a, <1>f
       DEF Fits, FitsSelection, FitsPlan, FitsImport, Same, Busy, Selected, Saving,
           ToImport, Running, Ended, WorkspaceSelect, backend
  <2>7. FitsImport(p)'
    BY <2>1, <2>4
       DEF Fits, FitsSelection, FitsPlan, FitsImport, Same, Busy, Selected, Saving,
           ToImport, Running, Ended, backend
  <2> QED
    BY <2>1, <2>4, <2>5, <2>6, <2>7 DEF Fits, Same, Busy, backend
<1>3. CASE PlanOutput(p)
  <2>1. pc[p] = "planOutput"
    BY <1>3 DEF PlanOutput, Call, Command
  <2>2. CanGetPlan(PlanOf(p))
    BY <2>1, <1>a, <1>b
       DEF CanGetPlan, Free, Fits, FitsSelection, FitsPlan, FitsImport, Selected, Saving,
           ToImport, InSelected, Busy
  <2>3. Continue(p, "list") /\ GetPlan(p, PlanOf(p))
    BY <1>3, <2>2, <1>c DEF PlanOutput, Call, Command
  <2>4. /\ Same /\ CleaningUp(p)' = CleaningUp(p) /\ Excused(cause'[p])
        /\ pc'[p] = "list"
        /\ UNCHANGED <<backend, infra>>
    BY <2>3, <1>d DEF GetPlan
  <2>5. FitsSelection(p)'
    BY <2>1, <2>4
       DEF Fits, FitsSelection, FitsPlan, FitsImport, Same, Busy, Selected, Saving,
           ToImport, Running, Ended, backend
  <2>6. FitsPlan(p)'
    BY <2>1, <2>3, <2>4, <1>a, <1>f
       DEF Fits, FitsSelection, FitsPlan, FitsImport, Same, Busy, Selected, Saving,
           ToImport, Running, Ended, GetPlan, backend
  <2>7. FitsImport(p)'
    BY <2>1, <2>4
       DEF Fits, FitsSelection, FitsPlan, FitsImport, Same, Busy, Selected, Saving,
           ToImport, Running, Ended, backend
  <2> QED
    BY <2>1, <2>4, <2>5, <2>6, <2>7 DEF Fits, Same, Busy, backend
<1>4. CASE List(p)
  BY <1>4, <1>a, <1>b, <1>c, <1>d, <1>f
     DEF List, Call, Command, Fits, FitsSelection, FitsPlan, FitsImport, Same, Busy,
         Selected, Saving, ToImport, Running, Ended, clientVars, backend, container
<1>5. CASE Select(p)
  <2>1. pc[p] = "select"
    BY <1>5 DEF Select, Call, Command
  <2>2. CanWorkspaceSelect(Env(p))
    BY <2>1, <1>a, <1>b
       DEF CanWorkspaceSelect, Free, Fits, FitsSelection, FitsPlan, FitsImport, Selected,
           Saving, ToImport, InSelected, Busy
  <2> QED
    BY <1>5, <2>1, <2>2, <1>a, <1>b, <1>c, <1>d, <1>f
       DEF Select, Call, Command, WorkspaceSelect, Fits, FitsSelection, FitsPlan,
           FitsImport, Same, Busy, Selected, Saving, ToImport, Running, Ended,
           clientVars, backend, container
<1>6. CASE New(p)
  <2>1. pc[p] = "new"
    BY <1>6 DEF New, Call, Command
  <2>2. CanWorkspaceNew(Env(p))
    BY <2>1, <1>a, <1>b
       DEF CanWorkspaceNew, Free, Fits, FitsSelection, FitsPlan, FitsImport, Selected,
           Saving, ToImport, InSelected, Busy
  <2> QED
    BY <1>6, <2>1, <2>2, <1>a, <1>b, <1>c, <1>d, <1>f
       DEF New, Call, Command, WorkspaceNew, Fits, FitsSelection, FitsPlan, FitsImport,
           Same, Busy, Selected, Saving, ToImport, Running, Ended, clientVars, backend,
           container
<1>7. CASE ImportCheck(p)
  BY <1>7, <1>a, <1>b, <1>c, <1>d, <1>f
     DEF ImportCheck, Recorded, Fits, FitsSelection, FitsPlan, FitsImport, Same, Busy,
         Selected, Saving, ToImport, Running, Ended, clientVars, backend, container
<1>8. CASE ImportResource(p)
  <2>1. pc[p] = "import"
    BY <1>8 DEF ImportResource, Call, Command
  <2>2. CanImport(p, Env(p))
    BY <2>1, <1>a, <1>b
       DEF CanImport, Free, Fits, FitsSelection, FitsPlan, FitsImport, Selected, Saving,
           ToImport, InSelected, Busy
  <2> QED
    BY <1>8, <2>1, <2>2, <1>a, <1>b, <1>c, <1>d, <1>f
       DEF ImportResource, Call, Command, Import, Fits, FitsSelection, FitsPlan,
           FitsImport, Same, Busy, Selected, Saving, ToImport, Running, Ended,
           clientVars, backend, container
<1>9. CASE ApplyStart(p)
  <2>1. pc[p] = "apply"
    BY <1>9 DEF ApplyStart, Begin
  <2>2. CanApply(p, req[p].planRun)
    BY <2>1, <1>a, <1>b
       DEF CanApply, RunsPlan, Free, Fits, FitsSelection, FitsPlan, FitsImport, Selected,
           Saving, ToImport, InSelected, Busy
  <2> QED
    BY <1>9, <2>1, <2>2, <1>a, <1>b, <1>c, <1>d, <1>f
       DEF ApplyStart, Begin, TakeLock, RunsPlan, Fits, FitsSelection, FitsPlan,
           FitsImport, Same, Busy, Selected, Saving, ToImport, Running, Ended,
           clientVars, backend, container
<1>10. CASE ApplyEnd(p)
  BY <1>10, <1>a, <1>b, <1>d, <1>e
     DEF ApplyEnd, ApplyEnds, InSelected, Fits, FitsSelection, FitsPlan, FitsImport, Same,
         Busy, Selected, Saving, ToImport, Running, Ended, container
<1>11. CASE StateVersion(p)
  <2>1. pc[p] = "stateVersion"
    BY <1>11 DEF StateVersion, Command
  <2>2. Env(p) \in spaces
    BY <2>1, <1>a, <1>b
       DEF Free, Fits, FitsSelection, FitsPlan, FitsImport, Selected, Saving, ToImport,
           InSelected, Busy
  <2> QED
    BY <1>11, <2>1, <2>2, <1>a, <1>b, <1>c, <1>d, <1>f
       DEF StateVersion, Command, Fits, FitsSelection, FitsPlan, FitsImport, Same, Busy,
           Selected, Saving, ToImport, Running, Ended, clientVars, backend, container
<1>12. CASE Output(p)
  <2>1. pc[p] = "output"
    BY <1>12 DEF Output, Command
  <2>2. Env(p) \in spaces
    BY <2>1, <1>a, <1>b
       DEF Free, Fits, FitsSelection, FitsPlan, FitsImport, Selected, Saving, ToImport,
           InSelected, Busy
  <2> QED
    BY <1>12, <2>1, <2>2, <1>a, <1>b, <1>c, <1>d, <1>f
       DEF Output, Command, Fits, FitsSelection, FitsPlan, FitsImport, Same, Busy,
           Selected, Saving, ToImport, Running, Ended, clientVars, backend, container
<1>13. CASE PlanList(p)
  BY <1>13, <1>a, <1>b, <1>c, <1>d, <1>f
     DEF PlanList, Call, Command, Fits, FitsSelection, FitsPlan, FitsImport, Same, Busy,
         Selected, Saving, ToImport, Running, Ended, clientVars, backend, container
<1>14. CASE PlanDelete(p)
  <2>1. pc[p] = "planDelete"
    BY <1>14 DEF PlanDelete, Call, Command
  <2>2. CanWorkspaceDeleteWithForce(PlanOf(p))
    BY <2>1, <1>a, <1>b
       DEF CanWorkspaceDeleteWithForce, Free, Fits, FitsSelection, FitsPlan, FitsImport,
           Selected, Saving, ToImport, InSelected, Busy
  <2> QED
    BY <1>14, <2>1, <2>2, <1>a, <1>b, <1>c, <1>d, <1>f
       DEF PlanDelete, Call, Command, WorkspaceDelete, Fits, FitsSelection, FitsPlan,
           FitsImport, Same, Busy, Selected, Saving, ToImport, Running, Ended,
           clientVars, backend, container
<1>15. CASE PlanEnv(p)
  <2>1. pc[p] = "plan"
    BY <1>15 DEF PlanEnv, Call, Command
  <2>2. CanPlan(p)
    BY <2>1, <1>a, <1>b
       DEF CanPlan, Free, Fits, FitsSelection, FitsPlan, FitsImport, Selected, Saving,
           ToImport, InSelected, Busy
  <2> QED
    BY <1>15, <2>1, <2>2, <1>a, <1>b, <1>c, <1>d, <1>f
       DEF PlanEnv, Call, Command, Plan, Fits, FitsSelection, FitsPlan, FitsImport, Same,
           Busy, Selected, Saving, ToImport, Running, Ended, clientVars, backend,
           container
<1>16. CASE JSONPlan(p)
  BY <1>16, <1>a, <1>b, <1>c, <1>d, <1>f
     DEF JSONPlan, Call, Command, Fits, FitsSelection, FitsPlan, FitsImport, Same, Busy,
         Selected, Saving, ToImport, Running, Ended, clientVars, backend, container
<1>17. CASE SaveList(p)
  BY <1>17, <1>a, <1>b, <1>c, <1>d, <1>f
     DEF SaveList, Call, Command, Fits, FitsSelection, FitsPlan, FitsImport, Same, Busy,
         Selected, Saving, ToImport, Running, Ended, clientVars, backend, container
<1>18. CASE SaveSelect(p)
  <2>1. pc[p] = "saveSelect"
    BY <1>18 DEF SaveSelect, Call, Command
  <2>2. CanWorkspaceSelect(PlanOf(p))
    BY <2>1, <1>a, <1>b
       DEF CanWorkspaceSelect, Free, Fits, FitsSelection, FitsPlan, FitsImport, Selected,
           Saving, ToImport, InSelected, Busy
  <2> QED
    BY <1>18, <2>1, <2>2, <1>a, <1>b, <1>c, <1>d, <1>f
       DEF SaveSelect, Call, Command, Fits, FitsSelection, FitsPlan, FitsImport, Same,
           Busy, Selected, Saving, ToImport, Running, Ended, clientVars, backend,
           container
<1>19. CASE SaveNew(p)
  <2>1. pc[p] = "saveNew"
    BY <1>19 DEF SaveNew, Call, Command
  <2>2. CanWorkspaceNew(PlanOf(p))
    BY <2>1, <1>a, <1>b
       DEF CanWorkspaceNew, Free, Fits, FitsSelection, FitsPlan, FitsImport, Selected,
           Saving, ToImport, InSelected, Busy
  <2> QED
    BY <1>19, <2>1, <2>2, <1>a, <1>b, <1>c, <1>d, <1>f
       DEF SaveNew, Call, Command, WorkspaceNew, Fits, FitsSelection, FitsPlan,
           FitsImport, Same, Busy, Selected, Saving, ToImport, Running, Ended,
           clientVars, backend, container
<1>20. CASE SaveApply(p)
  <2>1. pc[p] = "saveApply"
    BY <1>20 DEF SaveApply, Call, Command
  <2>2. CanSavePlan(PlanOf(p))
    BY <2>1, <1>a, <1>b
       DEF CanSavePlan, Free, Fits, FitsSelection, FitsPlan, FitsImport, Selected,
           Saving, ToImport, InSelected, Busy
  <2> QED
    BY <1>20, <2>1, <2>2, <1>a, <1>b, <1>c, <1>d, <1>f
       DEF SaveApply, Call, Command, SavePlan, Fits, FitsSelection, FitsPlan, FitsImport,
           Same, Busy, Selected, Saving, ToImport, Running, Ended, clientVars, backend,
           container
<1>21. CASE DestroySelect(p)
  <2>1. pc[p] = "destroySelect"
    BY <1>21 DEF DestroySelect, Call, Command
  <2>2. CanWorkspaceSelect(Env(p))
    BY <2>1, <1>a, <1>b
       DEF CanWorkspaceSelect, Free, Fits, FitsSelection, FitsPlan, FitsImport, Selected,
           Saving, ToImport, InSelected, Busy
  <2>3. Continue(p, IF req[p].imports THEN "importCheck" ELSE "destroy") /\ WorkspaceSelect(p, Env(p))
    BY <1>21, <2>2, <1>c DEF DestroySelect, Call, Command
  <2>4. /\ Same /\ CleaningUp(p)' = CleaningUp(p) /\ Excused(cause'[p])
        /\ pc'[p] = IF req[p].imports THEN "importCheck" ELSE "destroy"
        /\ UNCHANGED <<backend, infra>>
    BY <2>3, <1>d DEF WorkspaceSelect
  <2>5. FitsSelection(p)'
    BY <2>1, <2>4
       DEF Fits, FitsSelection, FitsPlan, FitsImport, Same, Busy, Selected, Saving,
           ToImport, Running, Ended, backend
  <2>6. FitsPlan(p)'
    BY <2>1, <2>3, <2>4, <1>a, <1>f
       DEF Fits, FitsSelection, FitsPlan, FitsImport, Same, Busy, Selected, Saving,
           ToImport, Running, Ended, WorkspaceSelect, backend
  <2>7. FitsImport(p)'
    BY <2>1, <2>4
       DEF Fits, FitsSelection, FitsPlan, FitsImport, Same, Busy, Selected, Saving,
           ToImport, Running, Ended, backend
  <2> QED
    BY <2>1, <2>4, <2>5, <2>6, <2>7 DEF Fits, Same, Busy, backend
<1>22. CASE DestroyStart(p)
  <2>1. pc[p] = "destroy"
    BY <1>22 DEF DestroyStart, Begin
  <2>2. CanDestroy(p)
    BY <2>1, <1>a, <1>b
       DEF CanDestroy, Free, Fits, FitsSelection, FitsPlan, FitsImport, Selected, Saving,
           ToImport, InSelected, Busy
  <2> QED
    BY <1>22, <2>1, <2>2, <1>a, <1>b, <1>c, <1>d, <1>f
       DEF DestroyStart, Begin, TakeLock, Fits, FitsSelection, FitsPlan, FitsImport,
           Same, Busy, Selected, Saving, ToImport, Running, Ended, clientVars, backend,
           container
<1>23. CASE DestroyEnd(p)
  <2>1. ~CleansUp(p)
    BY <1>23 DEF DestroyEnd, Fits, FitsImport, CleansUp
  <2> QED
    BY <1>23, <2>1, <1>a, <1>b, <1>d, <1>e
       DEF DestroyEnd, DestroyEnds, InSelected, Fits, FitsSelection, FitsPlan,
           FitsImport, Same, Busy, Selected, Saving, ToImport, Running, Ended, container
<1>24. CASE EnvDelete(p)
  <2>1. CanWorkspaceDelete(Env(p))
    BY <1>24, <1>a, <1>b
       DEF EnvDelete, Call, Command, CanWorkspaceDelete, Fits, FitsSelection, FitsPlan,
           FitsImport, Selected, Busy, Free
  <2> QED
    BY <1>24, <2>1, <1>a, <1>b, <1>c, <1>d, <1>f
       DEF EnvDelete, Call, Command, CanWorkspaceDelete, WorkspaceDelete, Fits,
           FitsSelection, FitsPlan, FitsImport, Same, Busy, Selected, Saving, ToImport,
           Running, Ended, clientVars,
           backend, container
<1>25. CASE TfVersion(p)
  BY <1>25, <1>a DEF TfVersion, Goto, Running, Ended
<1> QED
  BY <1>1, <1>2, <1>3, <1>4, <1>5, <1>6, <1>7, <1>8, <1>9, <1>10, <1>11, <1>12, <1>13, <1>14,
      <1>15, <1>16, <1>17, <1>18, <1>19, <1>20, <1>21, <1>22, <1>23, <1>24, <1>25
     DEF Step

LEMMA StepFaults ==
    ASSUME NEW p \in Puts, Step(p)
    PROVE  faults' \in {faults, faults + 1}
<1>1. \A label : Continue(p, label) => faults' = faults
  BY DEF Continue
<1>2. Refused(p) \/ Fault(p) => faults' \in {faults, faults + 1}
  BY DEF Refused, Fault
<1> QED
  BY <1>1, <1>2
     DEF Step, Setup, PlanSelect, PlanOutput, List, Select, New, ImportCheck, ImportResource,
         ApplyStart, ApplyEnd, StateVersion, Output, PlanList, PlanDelete, PlanEnv, JSONPlan,
         SaveList, SaveSelect, SaveNew, SaveApply, DestroySelect, DestroyStart, DestroyEnd,
         EnvDelete, TfVersion, Call, Command, Begin

(* A put that was ready runs alone, so no step is one of another put.      *)
LEMMA StepSupplied ==
    ASSUME IInv, PlanNamesApart, OnRequest, Using, Supplied, NEW p \in Puts, Step(p)
    PROVE  Supplied'
<1>1. Based'
  BY StepBased DEF Supplied
<1>2. \E label \in Labels, c \in Labels \cup {"none"} :
          Goto(p, label) /\ cause' = [cause EXCEPT ![p] = c] /\ req' = req
  BY StepMayRun DEF IInv, OnRequest
<1>3. PICK label \in Labels : Moves(p, label)
  BY StepMoves DEF IInv
<1>4. /\ Running(p) /\ pc'[p] # "idle" /\ faults \in Nat
      /\ \A q \in Puts \ {p} : pc'[q] = pc[q] /\ cause'[q] = cause[q]
      /\ \A q \in Puts : began[q].faults \in Nat
  BY <1>2, <1>3 DEF Moves, Goto, IInv, TypeOK, ControlTypeOK, HistoryTypeOK
<1>5. \A q \in Puts : began'[q] = began[q]
  BY StepPlans DEF PlanStep, IInv
<1>6. faults' \in {faults, faults + 1}
  BY StepFaults
<1>7. \A q \in Puts : began[q].faults <= faults' /\ (Alone(q)' => Alone(q) /\ faults' = faults)
  BY <1>4, <1>5, <1>6 DEF Alone, Supplied, Needs
<1>8. Needs(p)'
  <2>1. Running(p) /\ began[p].ready => Others(p)' = {}
    BY <1>4 DEF Supplied, Needs, Others, Running
  <2>2. Alone(p)' => Excused(cause'[p]) /\ (Running(p)' => Fits(p)')
    BY <1>4, <1>7, StepFits DEF Supplied, Needs, Running
  <2> QED
    BY <1>4, <1>5, <1>7, <2>1, <2>2 DEF Needs
<1>9. ASSUME NEW q \in Puts \ {p} PROVE Needs(q)'
  <2>1. p \in Others(q)
    BY <1>4 DEF Others
  <2>2. ~(Running(q)' /\ began[q].ready)
    BY <1>4, <2>1 DEF Supplied, Needs, Running
  <2> QED
    BY <1>4, <1>5, <1>7, <2>2 DEF Supplied, Needs, Alone
<1> QED
  BY <1>1, <1>8, <1>9 DEF Supplied

(* A put that starts and is ready finds what its first command needs.      *)
LEMMA StartFits ==
    ASSUME IInv, Using, Based, NEW p \in Puts, Ready(p), pc'[p] = "setup",
           UNCHANGED <<spaces, version, stored, lock, infra, req>>
    PROVE  Fits(p)'
<1>a. Env(p) \in Envs /\ PlanOf(p) \in Names /\ PlanOf(p) = PlanName[Env(p)]
  BY RequestTypes DEF PlanOf, IInv, TypeOK
<1>1. RunsPlan(p) => PlanOf(p) \in spaces
  BY <1>a DEF RunsPlan, Ready, Using
<1>2. RunsPlan(p) => Env(p) \in spaces
  BY <1>a, ClientAssumption DEF RunsPlan, Ready, Based, OfPut, NoVersion
<1> QED
  BY <1>1, <1>2
     DEF Ready, Fits, FitsSelection, FitsPlan, FitsImport, RunsPlan, Selected, Saving, Busy, Env,
         PlanOf

LEMMA StartSupplied ==
    ASSUME IInv, Using, Supplied, NEW p \in Puts, Start(p)
    PROVE  Supplied'
<1>1. /\ pc[p] = "idle" /\ pc'[p] = "setup" /\ \A q \in Puts \ {p} : pc'[q] = pc[q]
      /\ UNCHANGED <<spaces, res, version, stored, lock, infra, sel, planFile, req, cause, faults>>
      /\ faults \in Nat
  BY DEF Start, Continue, Goto, clientVars, backend, container, IInv, TypeOK, ControlTypeOK
<1>2. /\ began'[p].ready => Ready(p) /\ Others(p) = {}
      /\ began'[p].faults = faults
      /\ \A q \in Puts \ {p} :
             began'[q].faults = began[q].faults /\ (began'[q].ready => began[q].ready /\ ~Running(q))
  BY DEF Start, IInv, TypeOK, HistoryTypeOK
<1>3. Based'
  BY <1>1 DEF Supplied, Based, Saving, OfPut, Env
<1>4. Needs(p)'
  <2>1. Others(p)' = Others(p)
    BY <1>1 DEF Others, Running
  <2>2. Ready(p) => Fits(p)'
    BY <1>1, StartFits DEF Supplied
  <2>3. cause'[p] = "none"
    BY <1>1 DEF Supplied, Needs
  <2> QED
    BY <1>1, <1>2, <2>1, <2>2, <2>3 DEF Needs, Alone, Excused
<1>5. ASSUME NEW q \in Puts \ {p} PROVE Needs(q)'
  BY <1>1, <1>2 DEF Supplied, Needs, Alone, Running
<1> QED
  BY <1>3, <1>4, <1>5 DEF Supplied

LEMMA KillSupplied ==
    ASSUME IInv, Supplied, NEW p \in Puts, Kill(p)
    PROVE  Supplied'
<1>1. /\ Running(p) /\ pc'[p] \in {"killed", "killedApply"}
      /\ \A q \in Puts \ {p} : pc'[q] = pc[q]
      /\ UNCHANGED <<spaces, version, stored, lock, planFile, req, cause, faults, began>>
  BY DEF Kill, Goto, backend, container, history, IInv, TypeOK, ControlTypeOK
<1>2. Based'
  BY <1>1 DEF Supplied, Based, Saving, OfPut, Env
<1>3. Needs(p)'
  BY <1>1 DEF Supplied, Needs, Alone, Running, Ended
<1>4. ASSUME NEW q \in Puts \ {p} PROVE Needs(q)'
  <2>1. p \in Others(q)
    BY <1>1 DEF Others
  <2>2. ~(Running(q)' /\ began[q].ready)
    BY <1>1, <2>1 DEF Supplied, Needs, Running
  <2> QED
    BY <1>1, <2>2 DEF Supplied, Needs, Alone
<1> QED
  BY <1>2, <1>3, <1>4 DEF Supplied

LEMMA ProvisionSupplied ==
    ASSUME Supplied, NEW p \in Puts, ApplyProvision(p)
    PROVE  Supplied'
<1>1. /\ UNCHANGED <<spaces, res, version, stored, lock, sel, planFile, pc, req, cause, faults,
                     began>>
      /\ infra' = infra \cup {p}
  BY DEF ApplyProvision, Provision, backend, container, control, history
<1>2. Based'
  BY <1>1 DEF Supplied, Based, Saving, OfPut, Env
<1>3. ASSUME NEW q \in Puts PROVE Needs(q)'
  <2>1. Fits(q) => Fits(q)'
    BY <1>1
       DEF Fits, FitsSelection, FitsPlan, FitsImport, RunsPlan, CleaningUp, Env, PlanOf
  <2>2. Others(q)' = Others(q)
    BY <1>1 DEF Others, Running
  <2> QED
    BY <1>1, <2>1, <2>2 DEF Supplied, Needs, Alone, Running
<1> QED
  BY <1>2, <1>3 DEF Supplied

LEMMA NextSupplied ==
    ASSUME IInv, PlanNamesApart, OnRequest, Using, Supplied, [Next]_vars
    PROVE  Supplied'
<1>1. CASE UNCHANGED vars
  <2>1. UNCHANGED <<spaces, res, version, stored, lock, infra, sel, planFile, pc, req, cause,
                    faults, began>>
    BY <1>1 DEF vars, clientVars, backend, container, control, history
  <2>2. Based'
    BY <2>1 DEF Supplied, Based, Saving, OfPut, Env
  <2>3. ASSUME NEW q \in Puts PROVE Needs(q)'
    <3>1. Fits(q) => Fits(q)'
      BY <2>1
         DEF Fits, FitsSelection, FitsPlan, FitsImport, RunsPlan, CleaningUp, Env, PlanOf
    <3>2. Others(q)' = Others(q)
      BY <2>1 DEF Others, Running
    <3> QED
      BY <2>1, <3>1, <3>2 DEF Supplied, Needs, Alone, Running
  <2> QED
    BY <2>2, <2>3 DEF Supplied
<1> QED
  BY <1>1, StepSupplied, StartSupplied, KillSupplied, ProvisionSupplied DEF Next, AllEnded

LEMMA InitSupplied == Init => Supplied
<1> SUFFICES ASSUME Init PROVE Supplied
  OBVIOUS
<1>1. \A e \in Envs : PlanName[e] \in Names /\ e \in Names
  BY DEF Names
<1>2. Based
  BY <1>1 DEF Init, ClientInit, Based, Saving
<1>3. \A p \in Puts : Needs(p)
  BY DEF Init, Needs, Running
<1> QED
  BY <1>2, <1>3 DEF Supplied

(* Whatever the puts before it have done, failed at or been aborted at, a  *)
(* put that runs alone and finds what it needs fails in apply and destroy  *)
(* only, unless one of its own commands fails on its own: no refusal of    *)
(* terraform is a consequence of what an earlier put has left behind.      *)
THEOREM RetriesSucceed ==
    ASSUME PlanNamesApart
    PROVE  Spec => []RetrySucceeds
<1>1. IInv /\ OnRequest /\ Using /\ Supplied /\ [Next]_vars => Supplied'
  BY NextSupplied
<1>2. Supplied => RetrySucceeds
  BY DEF Supplied, Needs, Alone, Excused, RetrySucceeds
<1>3. IInv /\ Using /\ [Next]_vars => Using'
  BY NextUsing
<1>4. Init => Using
  BY DEF Init, ClientInit, Using, Uses, Whole, Saving, Stored
<1>5. IInv /\ OnRequest /\ [Next]_vars => OnRequest'
  BY OnRequestInvariant DEF IInv
<1>6. Init => OnRequest
  BY RefinesInit
<1> QED
  BY <1>1, <1>2, <1>3, <1>4, <1>5, <1>6, InitSupplied, Invariant, PTL DEF Spec
=============================================================================
