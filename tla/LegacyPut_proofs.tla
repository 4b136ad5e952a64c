--------------------------- MODULE LegacyPut_proofs ---------------------------
(***************************************************************************)
(* Proofs about LegacyPut, for every set of puts and requests and every    *)
(* number of faults and aborted builds.                                    *)
(***************************************************************************)
EXTENDS LegacyPut, TLAPS

(* The parts of the type invariant: what control, storage and containers   *)
(* keep.                                                                   *)
ControlTypes ==
    /\ pc \in [Puts -> Labels]
    /\ req \in [Puts -> Requests]
    /\ cause \in [Puts -> Labels \cup {"none"}]
    /\ reply \in [Puts -> {"none", "version", "empty"}]
    /\ faults \in Nat /\ kills \in Nat
DataTypes ==
    /\ state \in [StateKeys -> Files]
    /\ plan \in Plans
    /\ infra \subseteq Instances
    /\ found \in [Puts -> SUBSET {"state", "tainted", "plan"}]
    /\ key \in [Puts -> StateKeys]
    /\ local \in [Puts -> Files]
    /\ planFile \in [Puts -> Plans]
HistoryTypes ==
    /\ began \in [Puts -> SUBSET Instances]
    /\ undeleted \in BOOLEAN /\ unsaved \in BOOLEAN /\ met \in BOOLEAN

(* Together they are the type invariant. *)
LEMMA TypeParts ==
    /\ LegacyTypeOK <=> ControlTypes /\ DataTypes /\ HistoryTypes
    /\ LegacyTypeOK' <=> ControlTypes' /\ DataTypes' /\ HistoryTypes'
BY DEF LegacyTypeOK, ControlTypes, DataTypes, HistoryTypes

(* Files that do not exist, written files and their plans are typed.       *)
LEMMA FileTypes ==
    ASSUME DataTypes, NEW p \in Puts
    PROVE  /\ NoFile \in Files /\ NoPlan \in Plans
           /\ \A f \in Files : PlanFor(f) \in Plans
           /\ \A r \in SUBSET Instances : Rewritten(p, r) \in Files
           /\ local[p] \in Files /\ local[p].recorded \subseteq Instances
           /\ state[key[p]] \in Files /\ key[p] \in StateKeys
           /\ p \in Instances /\ Existing \in Instances
<1>1. local[p] \in Files
  BY DEF DataTypes
<1>2. local[p].recorded \subseteq Instances /\ local[p].lineage \in Puts \cup {Nobody}
        /\ local[p].serial \in Nat
  BY <1>1 DEF Files
<1>3. \A r \in SUBSET Instances : Rewritten(p, r) \in Files
  BY <1>2 DEF Rewritten, Files
<1>4. key[p] \in StateKeys /\ state[key[p]] \in Files
  BY DEF DataTypes
<1>5. NoFile \in Files /\ NoPlan \in Plans
  BY DEF NoFile, Files, NoPlan, Plans
<1>6. \A f \in Files : PlanFor(f) \in Plans
  BY DEF PlanFor, Files, Plans
<1> QED
  BY <1>1, <1>2, <1>3, <1>4, <1>5, <1>6 DEF Instances

(* The ways a put goes on leave its control state well typed.              *)
LEMMA ControlKept ==
    ASSUME ControlTypes, NEW p \in Puts
    PROVE  /\ \A label \in Labels : Continue(p, label) => ControlTypes'
           /\ Refused(p) => ControlTypes'
           /\ Fault(p) => ControlTypes'
<1> USE DEF ControlTypes
<1>1. AfterError(p) \in Labels
  BY DEF AfterError, Labels
<1>2. Blame(p) => cause' \in [Puts -> Labels \cup {"none"}]
  BY DEF Blame
<1>3. \A label \in Labels : Continue(p, label) => ControlTypes'
  BY DEF Continue, Goto
<1>4. Refused(p) => ControlTypes'
  BY <1>1, <1>2 DEF Refused, Goto
<1>5. Fault(p) => ControlTypes'
  BY <1>1, <1>2 DEF Fault, Faulty, Goto
<1> QED
  BY <1>3, <1>4, <1>5

(* What calls do to the bucket and to the files of a container leaves them *)
(* well typed.                                                             *)
LEMMA DataKept ==
    ASSUME DataTypes, NEW p \in Puts
    PROVE  /\ UNCHANGED <<bucket, infra, files>> => DataTypes'
           /\ \A k \in StateKeys, f \in Files : Upload(k, f) => DataTypes'
           /\ \A k \in StateKeys : Without(k) \in [StateKeys -> Files]
           /\ \A t \in Plans : SetPlan(t) => DataTypes'
           /\ \A f \in Files : SetLocal(p, f) => DataTypes'
           /\ \A o \in SUBSET {"state", "tainted", "plan"} : Finds(p, o) => DataTypes'
           /\ \A g \in SUBSET Instances : Destroys(p, g) => DataTypes'
<1> USE DEF DataTypes, bucket, files
<1>1. UNCHANGED <<bucket, infra, files>> => DataTypes'
  OBVIOUS
<1>2. \A k \in StateKeys, f \in Files : Upload(k, f) => DataTypes'
  BY DEF Upload
<1>3. \A k \in StateKeys : Without(k) \in [StateKeys -> Files]
  BY FileTypes DEF Without
<1>4. \A t \in Plans : SetPlan(t) => DataTypes'
  BY DEF SetPlan
<1>5. \A f \in Files : SetLocal(p, f) => DataTypes'
  BY DEF SetLocal
<1>6. \A o \in SUBSET {"state", "tainted", "plan"} : Finds(p, o) => DataTypes'
  BY DEF Finds
<1>7. ASSUME NEW g \in SUBSET Instances, Destroys(p, g) PROVE DataTypes'
  <2>1. Rewritten(p, local[p].recorded \ g) \in Files /\ infra' \subseteq Instances
    BY <1>7, FileTypes DEF Destroys
  <2>2. local' \in [Puts -> Files]
    BY <1>7, <2>1, FileTypes DEF Destroys
  <2> QED
    BY <1>7, <2>1, <2>2 DEF Destroys
<1> QED
  BY <1>1, <1>2, <1>3, <1>4, <1>5, <1>6, <1>7

(* The initial states are well typed.                                      *)
LEMMA InitTypes == Init => LegacyTypeOK
<1>1. /\ NoFile \in Files /\ Earlier \in Files
      /\ NoPlan \in Plans /\ PlanFor(Earlier) \in Plans
  BY DEF NoFile, Earlier, Files, NoPlan, PlanFor, Plans, Instances
<1> SUFFICES ASSUME Init PROVE ControlTypes /\ DataTypes /\ HistoryTypes
  BY TypeParts
<1>2. ControlTypes
  BY DEF Init, ControlTypes, Labels
<1>3. DataTypes
  BY <1>1 DEF Init, DataTypes, Instances, StateKeys
<1>4. HistoryTypes
  BY DEF Init, HistoryTypes
<1> QED
  BY <1>2, <1>3, <1>4

(* Every step of a put leaves the state well typed.                        *)
LEMMA StepTypes ==
    ASSUME LegacyTypeOK, NEW p \in Puts, Step(p)
    PROVE  LegacyTypeOK'
<1>a. ControlTypes /\ DataTypes /\ HistoryTypes
  BY TypeParts
<1>b. /\ \A label \in Labels : Continue(p, label) => ControlTypes'
      /\ Refused(p) => ControlTypes'
      /\ Fault(p) => ControlTypes'
  BY <1>a, ControlKept
<1>c. UNCHANGED history => HistoryTypes'
  BY <1>a DEF HistoryTypes, history
<1>d. /\ NoFile \in Files /\ NoPlan \in Plans
      /\ \A f \in Files : PlanFor(f) \in Plans
      /\ \A r \in SUBSET Instances : Rewritten(p, r) \in Files
      /\ local[p] \in Files /\ local[p].recorded \subseteq Instances
      /\ state[key[p]] \in Files /\ key[p] \in StateKeys
      /\ p \in Instances /\ Existing \in Instances
  BY <1>a, FileTypes
<1>e. /\ UNCHANGED <<bucket, infra, files>> => DataTypes'
      /\ \A k \in StateKeys, f \in Files : Upload(k, f) => DataTypes'
      /\ \A k \in StateKeys : Without(k) \in [StateKeys -> Files]
      /\ \A t \in Plans : SetPlan(t) => DataTypes'
      /\ \A f \in Files : SetLocal(p, f) => DataTypes'
      /\ \A o \in SUBSET {"state", "tainted", "plan"} : Finds(p, o) => DataTypes'
      /\ \A g \in SUBSET Instances : Destroys(p, g) => DataTypes'
  BY <1>a, DataKept
<1>f. MainCommand(p) \in Labels
  <2>1. req[p].kind \in {"apply", "plan", "destroy"}
    BY <1>a, LegacyAssumption DEF ControlTypes
  <2> QED
    BY <2>1 DEF MainCommand, Labels
<1>g. Labels \ {"idle"} # {} /\ {"planExists", "taintedExists", "planDownload",
       "stateDownload", "init", "import", "applying", "untaint", "upload",
       "planCheck", "planDelete", "output", "destroying", "destroyPlan",
       "destroyState", "taintUpload", "planUpload", "tfVersion", "done"} \subseteq Labels
  BY DEF Labels
<1>h. \A o : AfterPlan(p, o) \in Labels
  BY DEF AfterPlan, Labels
<1> USE TypeParts
<1>1. CASE StateExists(p) \/ PlanExists(p)
  BY <1>1, <1>b, <1>c, <1>e, <1>g DEF StateExists, PlanExists, Call
<1>2. CASE TaintedExists(p)
  <2> DEFINE tainted == {k \in {"tainted"} : state[k] # NoFile}
  <2>1. found' = [found EXCEPT ![p] = @ \cup tainted]
          /\ key' = [key EXCEPT ![p] = IF tainted = {} THEN @ ELSE "tainted"]
          /\ UNCHANGED <<bucket, infra, local, planFile>> => DataTypes'
    BY <1>a DEF DataTypes, bucket, StateKeys
  <2> QED
    BY <1>2, <2>1, <1>b, <1>c, <1>e, <1>g, <1>h DEF TaintedExists, Call
<1>3. CASE PlanDownload(p)
  <2>1. planFile' = [planFile EXCEPT ![p] = plan]
          /\ UNCHANGED <<bucket, infra, found, key, local>> => DataTypes'
    BY <1>a DEF DataTypes, bucket
  <2>2. UNCHANGED <<bucket, infra, files, history>> =>
          UNCHANGED <<bucket, infra, files>> /\ UNCHANGED history
    OBVIOUS
  <2> QED
    BY <1>3, <2>1, <2>2, <1>b, <1>c, <1>e, <1>h DEF PlanDownload, Call
<1>4. CASE StateDownload(p)
  BY <1>4, <1>b, <1>c, <1>d, <1>e, <1>g DEF StateDownload, Call
<1>5. CASE InitWithoutBackend(p)
  BY <1>5, <1>b, <1>c, <1>e, <1>f, <1>g DEF InitWithoutBackend, Call
<1>6. CASE Import(p)
  <2>1. Rewritten(p, local[p].recorded \cup {Existing}) \in Files
    BY <1>d
  <2> QED
    BY <1>6, <2>1, <1>b, <1>c, <1>e, <1>f DEF Import, Call
<1>7. CASE ApplyStart(p)
  BY <1>7, <1>b, <1>c, <1>e, <1>g DEF ApplyStart
<1>8. CASE ApplyEnd(p)
  <2>1. /\ Rewritten(p, local[p].recorded \cup ({p} \cap infra)) \in Files
        /\ Rewritten(p, local[p].recorded \cup {p}) \in Files
        /\ local[p] \in Files
    <3>1. local[p].recorded \cup ({p} \cap infra) \in SUBSET Instances
            /\ local[p].recorded \cup {p} \in SUBSET Instances
      BY <1>d
    <3> QED
      BY <3>1, <1>d
  <2>2. ControlTypes' /\ HistoryTypes'
    BY <1>8, <1>b, <1>c, <1>g DEF ApplyEnd
  <2>3. DataTypes'
    BY <1>8, <2>1, <1>e DEF ApplyEnd
  <2> QED
    BY <2>2, <2>3
<1>9. CASE Untaint(p)
  <2>1. ControlTypes' /\ HistoryTypes'
    BY <1>9, <1>b, <1>c, <1>g DEF Untaint, history
  <2>2. state' \in [StateKeys -> Files] /\ key' \in [Puts -> StateKeys]
    BY <1>9, <1>a, <1>d, <1>e DEF Untaint, DataTypes, StateKeys
  <2>3. DataTypes'
    BY <1>9, <1>a, <2>2 DEF Untaint, DataTypes
  <2> QED
    BY <2>1, <2>3
<1>10. CASE UploadState(p)
  BY <1>10, <1>b, <1>c, <1>d, <1>e, <1>g DEF UploadState, Call
<1>11. CASE PlanCheck(p) \/ PlanDelete(p) \/ Output(p)
  BY <1>11, <1>b, <1>c, <1>d, <1>e, <1>g DEF PlanCheck, PlanDelete, Output, Call
<1>12. CASE DestroyStart(p)
  BY <1>12, <1>b, <1>c, <1>e, <1>g DEF DestroyStart, Call
<1>13. CASE DestroyEnd(p)
  BY <1>13, <1>b, <1>c, <1>d, <1>e, <1>g DEF DestroyEnd
<1>14. CASE DestroyPlan(p) \/ DestroyState(p)
  BY <1>14, <1>b, <1>c, <1>d, <1>e, <1>g DEF DestroyPlan, DestroyState, Delete, Call
<1>15. CASE TaintDelete(p)
  <2>1. Faulty(p, "taintUpload") /\ UNCHANGED cause => ControlTypes'
    BY <1>a, <1>g DEF Faulty, Goto, ControlTypes
  <2>2. ControlTypes'
    BY <1>15, <2>1, <1>b, <1>g DEF TaintDelete
  <2>3. state' \in [StateKeys -> Files] /\ key' \in [Puts -> StateKeys]
    BY <1>15, <1>a, <1>d, <1>e DEF TaintDelete, DataTypes, StateKeys
  <2>4. DataTypes' /\ HistoryTypes'
    BY <1>15, <1>a, <2>3 DEF TaintDelete, DataTypes, HistoryTypes
  <2> QED
    BY <2>2, <2>4
<1>16. CASE TaintUpload(p)
  <2>1. HistoryTypes'
    BY <1>16, <1>a DEF TaintUpload, HistoryTypes
  <2> QED
    BY <1>16, <2>1, <1>b, <1>d, <1>e, <1>g DEF TaintUpload
<1>17. CASE Plan(p)
  <2>1. planFile' = [planFile EXCEPT ![p] = PlanFor(local[p])]
          /\ UNCHANGED <<bucket, infra, found, key, local>> => DataTypes'
    BY <1>a, <1>d DEF DataTypes, bucket
  <2> QED
    BY <1>17, <2>1, <1>b, <1>c, <1>e, <1>g DEF Plan, Call
<1>18. CASE PlanUpload(p)
  <2>1. planFile[p] \in Plans
    BY <1>a DEF DataTypes
  <2> QED
    BY <1>18, <2>1, <1>b, <1>c, <1>e, <1>g DEF PlanUpload, Call
<1>19. CASE TfVersion(p)
  <2>1. ControlTypes'
    BY <1>19, <1>a, <1>g DEF TfVersion, Goto, ControlTypes
  <2> QED
    BY <1>19, <2>1, <1>c, <1>e DEF TfVersion
<1> QED
  BY <1>1, <1>2, <1>3, <1>4, <1>5, <1>6, <1>7, <1>8, <1>9, <1>10, <1>11, <1>12,
     <1>13, <1>14, <1>15, <1>16, <1>17, <1>18, <1>19 DEF Step

(* So do the other steps.                                                  *)
LEMMA NextTypes == LegacyTypeOK /\ [Next]_vars => LegacyTypeOK'
<1> SUFFICES ASSUME LegacyTypeOK, [Next]_vars PROVE LegacyTypeOK'
  OBVIOUS
<1>a. ControlTypes /\ DataTypes /\ HistoryTypes
  BY TypeParts
<1>1. ASSUME NEW p \in Puts, Start(p) PROVE LegacyTypeOK'
  <2>1. "stateExists" \in Labels
    BY DEF Labels
  <2>2. ControlTypes'
    BY <1>1, <1>a, <2>1, ControlKept DEF Start
  <2>3. DataTypes'
    BY <1>1, <1>a DEF Start, DataTypes, bucket, files
  <2>4. \A k \in StateKeys : state[k].recorded \subseteq Instances
    BY <1>a DEF DataTypes, Files
  <2>5. UNION {state[k].recorded : k \in StateKeys} \subseteq Instances
    BY <2>4
  <2>6. HistoryTypes'
    BY <1>1, <1>a, <2>5 DEF Start, HistoryTypes
  <2> QED
    BY <2>2, <2>3, <2>6, TypeParts
<1>2. ASSUME NEW p \in Puts, ApplyProvision(p) PROVE LegacyTypeOK'
  BY <1>2 DEF ApplyProvision, LegacyTypeOK, Instances, bucket, files, history
<1>3. ASSUME NEW p \in Puts, Kill(p) PROVE LegacyTypeOK'
  <2>1. "killed" \in Labels
    BY DEF Labels
  <2>2. ControlTypes'
    BY <1>3, <1>a, <2>1 DEF Kill, Goto, ControlTypes
  <2>3. infra' \subseteq Instances
    BY <1>3, <1>a DEF Kill, DataTypes
  <2>4. DataTypes' /\ HistoryTypes'
    BY <1>3, <1>a, <2>3 DEF Kill, DataTypes, HistoryTypes, bucket, files, history
  <2> QED
    BY <2>2, <2>4, TypeParts
<1>4. CASE UNCHANGED vars
  BY <1>4 DEF vars, bucket, files, history, LegacyTypeOK
<1> QED
  BY <1>1, <1>2, <1>3, <1>4, StepTypes DEF Next, AllEnded

(* Types: the state of the puts and of the bucket is always well typed.    *)
THEOREM LegacyTypeCorrect == Spec => []LegacyTypeOK
BY InitTypes, NextTypes, PTL DEF Spec

-----------------------------------------------------------------------------
(* One state file.  The proof is about puts that run one after the other,  *)
(* as the pipeline has to arrange it: once two of them have met, nothing   *)
(* is claimed any more.                                                    *)
Alone == \A p, q \in Puts : Running(p) /\ Running(q) => p = q

(* A put that has not asked the bucket knows nothing.                      *)
Fresh(p) ==
    /\ pc[p] \in {"idle", "stateExists"} => found[p] = {}
    /\ pc[p] \in {"idle", "stateExists", "planExists", "taintedExists"} => key[p] = "state"

(* What a put has found in the bucket is still so: its key is the only one *)
(* with a state file, unless a deletion has failed.                        *)
Asking == {"stateExists", "planExists", "taintedExists"}
KnowsBucket(p) ==
    /\ pc[p] = "untaint" => key[p] = "tainted"
    /\ Running(p) /\ ~undeleted =>
        /\ key[p] = "tainted" => state["state"] = NoFile
        /\ key[p] = "state" /\ pc[p] \notin Asking => state["tainted"] = NoFile
        /\ pc[p] = "planExists" => ("state" \in found[p] <=> state["state"] # NoFile)
        /\ pc[p] = "taintedExists" => state["state"] = NoFile

OneFile == ~undeleted => \E k \in StateKeys : state[k] = NoFile
Sequential ==
    /\ LegacyTypeOK
    /\ Alone
    /\ \A p \in Puts : Fresh(p) /\ KnowsBucket(p)
    /\ OneFile

(* The inductive invariant. *)
IInv == LegacyTypeOK /\ (~met => Sequential)

(* Puts that have met will always have met, and a put starts while another *)
(* one runs only if they meet.                                             *)
LEMMA Meeting ==
    ASSUME [Next]_vars
    PROVE  /\ met => met'
           /\ \A p \in Puts : Start(p) /\ ~met' => \A q \in Puts : ~Running(q)
<1>1. ASSUME NEW p \in Puts, Start(p) PROVE met => met'
  BY <1>1 DEF Start
<1>2. ASSUME NEW p \in Puts, Step(p) PROVE met => met'
  <2> USE DEF Call, history
  <2>1. CASE TaintDelete(p) \/ TaintUpload(p)
    BY <2>1 DEF TaintDelete, TaintUpload
  <2>2. CASE StateExists(p) \/ PlanExists(p) \/ TaintedExists(p) \/ PlanDownload(p)
             \/ StateDownload(p) \/ InitWithoutBackend(p) \/ Import(p)
    BY <2>2 DEF StateExists, PlanExists, TaintedExists, PlanDownload, StateDownload,
       InitWithoutBackend, Import
  <2>3. CASE ApplyStart(p) \/ ApplyEnd(p) \/ Untaint(p) \/ UploadState(p)
             \/ PlanCheck(p) \/ PlanDelete(p) \/ Output(p)
    BY <2>3 DEF ApplyStart, ApplyEnd, Untaint, UploadState, PlanCheck, PlanDelete, Output
  <2>4. CASE DestroyStart(p) \/ DestroyEnd(p) \/ DestroyPlan(p) \/ DestroyState(p)
             \/ Plan(p) \/ PlanUpload(p) \/ TfVersion(p)
    BY <2>4 DEF DestroyStart, DestroyEnd, DestroyPlan, DestroyState, Plan, PlanUpload,
       TfVersion
  <2> QED
    BY <1>2, <2>1, <2>2, <2>3, <2>4 DEF Step
<1>3. ASSUME NEW p \in Puts, ApplyProvision(p) \/ Kill(p) PROVE met => met'
  BY <1>3 DEF ApplyProvision, Kill, history
<1>4. CASE UNCHANGED vars
  BY <1>4 DEF vars, history, Start
<1>5. met => met'
  BY <1>1, <1>2, <1>3, <1>4 DEF Next, AllEnded
<1> QED
  BY <1>5 DEF Start

(* A step of a put is one of a running put, and leaves what the others     *)
(* have alone.                                                             *)
LEMMA OwnStep ==
    ASSUME LegacyTypeOK, NEW p \in Puts, Step(p)
    PROVE  /\ Running(p)
           /\ \A q \in Puts \ {p} :
                  pc'[q] = pc[q] /\ found'[q] = found[q] /\ key'[q] = key[q]
           /\ pc'[p] # "idle"
<1> USE DEF LegacyTypeOK, Running, Call, Continue, Refused, Fault, Faulty, Goto, files
<1>a. AfterError(p) # "idle" /\ MainCommand(p) # "idle" /\ \A o : AfterPlan(p, o) # "idle"
  <2>1. req[p].kind # "idle"
    BY LegacyAssumption
  <2> QED
    BY <2>1 DEF AfterError, MainCommand, AfterPlan
<1>1. CASE StateExists(p) \/ PlanExists(p)
  BY <1>1, <1>a DEF StateExists, PlanExists, Finds
<1>2. CASE TaintedExists(p)
  BY <1>2, <1>a DEF TaintedExists
<1>3. CASE PlanDownload(p) \/ StateDownload(p)
  BY <1>3, <1>a DEF PlanDownload, StateDownload, SetLocal
<1>4. CASE InitWithoutBackend(p) \/ Import(p)
  BY <1>4, <1>a DEF InitWithoutBackend, Import, SetLocal
<1>5. CASE ApplyStart(p) \/ ApplyEnd(p)
  BY <1>5, <1>a DEF ApplyStart, ApplyEnd, SetLocal
<1>6. CASE Untaint(p) \/ UploadState(p)
  BY <1>6, <1>a DEF Untaint, UploadState, Upload
<1>7. CASE PlanCheck(p) \/ PlanDelete(p) \/ Output(p)
  BY <1>7, <1>a DEF PlanCheck, PlanDelete, Output, SetPlan
<1>8. CASE DestroyStart(p) \/ DestroyEnd(p)
  BY <1>8, <1>a DEF DestroyStart, DestroyEnd, Destroys
<1>9. CASE DestroyPlan(p) \/ DestroyState(p)
  BY <1>9, <1>a DEF DestroyPlan, DestroyState, SetPlan, Delete, Upload
<1>10. CASE TaintDelete(p) \/ TaintUpload(p)
  BY <1>10, <1>a DEF TaintDelete, TaintUpload, Upload
<1>11. CASE Plan(p) \/ PlanUpload(p) \/ TfVersion(p)
  BY <1>11, <1>a DEF Plan, PlanUpload, SetPlan, TfVersion
<1> QED
  BY <1>1, <1>2, <1>3, <1>4, <1>5, <1>6, <1>7, <1>8, <1>9, <1>10, <1>11 DEF Step

(* A step that leaves the state files and the key alone, and is past the   *)
(* questions to the bucket, keeps what the put knows.                      *)
LEMMA QuietStep ==
    ASSUME LegacyTypeOK, NEW p \in Puts, Fresh(p), KnowsBucket(p), OneFile,
           Running(p), pc[p] \notin Asking,
           UNCHANGED <<state, key, undeleted>>,
           pc'[p] \notin Asking \cup {"idle", "untaint"}
    PROVE  Fresh(p)' /\ KnowsBucket(p)' /\ OneFile'
BY DEF Fresh, KnowsBucket, OneFile, Asking, Running

(* Where the calls lead that do so.                                        *)
LEMMA QuietSteps ==
    ASSUME LegacyTypeOK, NEW p \in Puts,
           \/ PlanDownload(p) \/ StateDownload(p) \/ InitWithoutBackend(p) \/ Import(p)
           \/ ApplyStart(p) \/ PlanCheck(p) \/ PlanDelete(p) \/ Output(p)
           \/ DestroyStart(p) \/ DestroyEnd(p) \/ DestroyPlan(p)
           \/ Plan(p) \/ PlanUpload(p) \/ TfVersion(p)
    PROVE  /\ pc[p] \notin Asking
           /\ UNCHANGED <<state, key, undeleted>>
           /\ pc'[p] \notin Asking \cup {"idle", "untaint"}
<1> USE DEF LegacyTypeOK, Asking, Call, Continue, Refused, Fault, Faulty, Goto, bucket,
            files, history
<1>a. AfterError(p) \in {"done", "destroy", "taintDelete"}
  BY DEF AfterError
<1>b. MainCommand(p) \in {"apply", "plan", "destroy"}
  BY LegacyAssumption DEF MainCommand
<1>c. AfterPlan(p, found[p]) \in {"stateDownload", "init"}
  BY DEF AfterPlan
<1>1. CASE PlanDownload(p) \/ StateDownload(p)
  BY <1>1, <1>a, <1>c DEF PlanDownload, StateDownload, SetLocal
<1>2. CASE InitWithoutBackend(p) \/ Import(p)
  BY <1>2, <1>a, <1>b DEF InitWithoutBackend, Import, SetLocal
<1>3. CASE ApplyStart(p) \/ PlanCheck(p)
  BY <1>3, <1>a DEF ApplyStart, PlanCheck
<1>4. CASE PlanDelete(p) \/ Output(p)
  BY <1>4, <1>a DEF PlanDelete, Output, SetPlan
<1>5. CASE DestroyStart(p) \/ DestroyEnd(p) \/ DestroyPlan(p)
  BY <1>5, <1>a DEF DestroyStart, DestroyEnd, DestroyPlan, Destroys, SetPlan
<1>6. CASE Plan(p) \/ PlanUpload(p) \/ TfVersion(p)
  BY <1>6, <1>a DEF Plan, PlanUpload, SetPlan, TfVersion
<1> QED
  BY <1>1, <1>2, <1>3, <1>4, <1>5, <1>6

(* The put that runs keeps what it knows, and the bucket one state file.   *)
LEMMA StepKnows ==
    ASSUME LegacyTypeOK, NEW p \in Puts, Fresh(p), KnowsBucket(p), OneFile, Step(p)
    PROVE  Fresh(p)' /\ KnowsBucket(p)' /\ OneFile'
<1> USE DEF Fresh, KnowsBucket, OneFile, Asking, StateKeys
<1>a. Running(p)
  BY OwnStep
<1>b. AfterError(p) \in {"done", "destroy", "taintDelete"}
        /\ (pc[p] \in InSetup => AfterError(p) = "done")
  BY DEF AfterError
<1>t. /\ pc[p] \in Labels /\ key[p] \in {"state", "tainted"}
      /\ pc \in [Puts -> Labels] /\ state \in [{"state", "tainted"} -> Files]
      /\ key \in [Puts -> {"state", "tainted"}] /\ undeleted \in BOOLEAN
      /\ found \in [Puts -> SUBSET {"state", "tainted", "plan"}]
  BY DEF LegacyTypeOK
<1> USE <1>t DEF Running, Continue, Refused, Fault, Faulty, Goto
<1>1. CASE \/ PlanDownload(p) \/ StateDownload(p) \/ InitWithoutBackend(p) \/ Import(p)
           \/ ApplyStart(p) \/ PlanCheck(p) \/ PlanDelete(p) \/ Output(p)
           \/ DestroyStart(p) \/ DestroyEnd(p) \/ DestroyPlan(p)
           \/ Plan(p) \/ PlanUpload(p) \/ TfVersion(p)
  BY <1>1, <1>a, QuietSteps, QuietStep
<1>2. CASE StateExists(p)
  <2>1. /\ UNCHANGED <<state, key, undeleted>> /\ pc[p] = "stateExists"
        /\ pc'[p] \in {"planExists", "done"}
        /\ pc'[p] = "planExists" =>
               found'[p] = found[p] \cup {k \in {"state"} : state[k] # NoFile}
    BY <1>2, <1>b DEF StateExists, Call, Finds, bucket, files, history, InSetup
  <2> QED
    BY <2>1
<1>3. CASE PlanExists(p)
  <2>1. /\ UNCHANGED <<state, key, undeleted>> /\ pc[p] = "planExists"
        /\ \/ pc'[p] = "done"
           \/ "state" \notin found[p] /\ pc'[p] = "taintedExists"
           \/ "state" \in found[p] /\ pc'[p] \in {"planDownload", "stateDownload"}
    BY <1>3, <1>b DEF PlanExists, Call, Finds, bucket, files, history, InSetup
  <2> QED
    BY <2>1
<1>4. CASE TaintedExists(p)
  <2>1. \A o : AfterPlan(p, o) \in {"stateDownload", "init"}
    BY DEF AfterPlan
  <2>2. /\ UNCHANGED <<state, undeleted>> /\ pc[p] = "taintedExists"
        /\ \/ pc'[p] = "done"
           \/ /\ pc'[p] \in {"planDownload", "stateDownload", "init"}
              /\ key'[p] = IF state["tainted"] = NoFile THEN key[p] ELSE "tainted"
    BY <1>4, <1>b, <2>1 DEF TaintedExists, Call, bucket, files, history, InSetup
  <2> QED
    BY <2>2
<1>5. CASE ApplyEnd(p)
  <2>1. /\ UNCHANGED <<state, key, undeleted>> /\ pc[p] = "applying"
        /\ \/ pc'[p] \in {"done", "destroy", "taintDelete"}
           \/ pc'[p] = IF key[p] = "tainted" THEN "untaint" ELSE "upload"
    BY <1>5, <1>b DEF ApplyEnd, SetLocal, bucket, files, history
  <2> QED
    BY <2>1
<1>6. CASE Untaint(p)
  <2>1. /\ UNCHANGED undeleted /\ pc[p] = "untaint" /\ key[p] = "tainted"
        /\ state' \in {state, [state EXCEPT !["tainted"] = NoFile]}
        /\ \/ /\ pc'[p] = "upload" /\ key'[p] = "state"
              /\ state' = [state EXCEPT !["tainted"] = NoFile]
           \/ pc'[p] \in {"done", "destroy", "taintDelete"} /\ key' = key
    BY <1>6, <1>b DEF Untaint, Without, history
  <2> QED
    BY <2>1
<1>7. CASE UploadState(p)
  <2>1. /\ UNCHANGED <<undeleted, key>> /\ pc[p] = "upload"
        /\ pc'[p] \in {"planCheck", "done", "destroy", "taintDelete"}
        /\ state' \in {state, [state EXCEPT ![key[p]] = local[p]]}
    BY <1>7, <1>b DEF UploadState, Call, Upload, bucket, files, history
  <2> QED
    BY <2>1
<1>8. CASE DestroyState(p)
  <2>1. /\ UNCHANGED <<undeleted, key>> /\ pc[p] = "destroyState"
        /\ pc'[p] \in {"tfVersion", "done", "destroy", "taintDelete"}
        /\ state' \in {state, [state EXCEPT ![key[p]] = NoFile]}
    BY <1>8, <1>b DEF DestroyState, Call, Delete, Upload, bucket, files, history
  <2> QED
    BY <2>1
<1>9. CASE TaintDelete(p)
  <2>1. /\ pc[p] = "taintDelete" /\ pc'[p] = "taintUpload" /\ key'[p] = "tainted"
        /\ undeleted' = (undeleted \/ (key[p] = "state" /\ state'["state"] # NoFile))
        /\ state' \in {state, [state EXCEPT ![key[p]] = NoFile]}
    BY <1>9 DEF TaintDelete, Without
  <2>2. ~undeleted' => ~undeleted /\ state'["state"] = NoFile
    BY <2>1, <1>a
  <2> QED
    BY <2>1, <2>2
<1>10. CASE TaintUpload(p)
  <2>1. /\ UNCHANGED <<undeleted, key>> /\ pc[p] = "taintUpload"
        /\ pc'[p] \in {"done", "destroy", "taintDelete"}
        /\ state' \in {state, [state EXCEPT ![key[p]] = local[p]]}
    BY <1>10, <1>b DEF TaintUpload, Upload, bucket, files
  <2> QED
    BY <2>1
<1> QED
  BY <1>1, <1>2, <1>3, <1>4, <1>5, <1>6, <1>7, <1>8, <1>9, <1>10 DEF Step

(* The others know nothing that can become wrong, as they do not run.      *)
LEMMA StepInvariant ==
    ASSUME Sequential, NEW p \in Puts, Step(p)
    PROVE  Sequential'
<1>1. LegacyTypeOK' /\ Fresh(p)' /\ KnowsBucket(p)' /\ OneFile'
  BY StepTypes, StepKnows DEF Sequential
<1>2. /\ Running(p)
      /\ \A q \in Puts \ {p} :
             pc'[q] = pc[q] /\ found'[q] = found[q] /\ key'[q] = key[q]
  BY OwnStep DEF Sequential
<1>3. \A q \in Puts \ {p} : ~Running(q) /\ ~Running(q)'
  BY <1>2 DEF Sequential, Alone, Running
<1>4. \A q \in Puts \ {p} : Fresh(q)' /\ KnowsBucket(q)'
  BY <1>2, <1>3 DEF Sequential, Fresh, KnowsBucket, Running
<1>5. Alone'
  BY <1>3 DEF Alone
<1> QED
  BY <1>1, <1>4, <1>5 DEF Sequential

(* A put only starts when no other runs.                                   *)
LEMMA StartInvariant ==
    ASSUME Sequential, NEW p \in Puts, Start(p), ~met'
    PROVE  Sequential'
<1>1. LegacyTypeOK'
  BY NextTypes DEF Sequential, Next
<1>2. \A q \in Puts : ~Running(q)
  BY DEF Start
<1>3. /\ pc[p] = "idle" /\ pc' = [pc EXCEPT ![p] = "stateExists"]
      /\ UNCHANGED <<state, key, found, undeleted>>
  BY DEF Start, Continue, Goto, bucket, files
<1>4. \A q \in Puts \ {p} : ~Running(q)' /\ pc'[q] = pc[q]
  BY <1>2, <1>3 DEF Running, Sequential, LegacyTypeOK
<1>5. Alone' /\ OneFile'
  BY <1>3, <1>4 DEF Alone, OneFile, Sequential
<1>6. pc'[p] = "stateExists"
  BY <1>3 DEF Sequential, LegacyTypeOK
<1>7. Fresh(p)' /\ KnowsBucket(p)'
  BY <1>3, <1>6 DEF Sequential, Fresh, KnowsBucket, Asking
<1>8. \A q \in Puts \ {p} : Fresh(q)' /\ KnowsBucket(q)'
  BY <1>3, <1>4 DEF Sequential, Fresh, KnowsBucket
<1> QED
  BY <1>1, <1>5, <1>7, <1>8 DEF Sequential

(* Provisioning changes no file, and a put that is aborted is over.        *)
LEMMA OtherInvariant ==
    ASSUME Sequential, NEW p \in Puts, ApplyProvision(p) \/ Kill(p)
    PROVE  Sequential'
<1>1. LegacyTypeOK'
  BY NextTypes DEF Sequential, Next
<1>2. UNCHANGED <<state, key, found, undeleted>>
  BY DEF ApplyProvision, Kill, bucket, files, history
<1>3. \A q \in Puts : pc'[q] = pc[q] \/ pc'[q] = "killed"
  BY DEF ApplyProvision, Kill, Goto, Sequential, LegacyTypeOK
<1>4. \A q \in Puts : Fresh(q)' /\ KnowsBucket(q)'
  BY <1>2, <1>3 DEF Sequential, Fresh, KnowsBucket, Running
<1>5. Alone' /\ OneFile'
  BY <1>2, <1>3 DEF Sequential, Alone, Running, OneFile
<1> QED
  BY <1>1, <1>4, <1>5 DEF Sequential

(* Every step keeps the invariant.                                         *)
LEMMA SequentialSteps ==
    ASSUME Sequential, [Next]_vars, ~met'
    PROVE  Sequential'
<1>1. CASE UNCHANGED vars
  BY <1>1 DEF vars, bucket, files, history, Sequential, LegacyTypeOK, Alone, Fresh, KnowsBucket,
     OneFile, Running
<1> QED
  BY <1>1, StepInvariant, StartInvariant, OtherInvariant DEF Next, AllEnded

LEMMA NextInvariant == IInv /\ [Next]_vars => IInv'
BY SequentialSteps, Meeting, NextTypes DEF IInv

(* At first no put runs and at most one state file exists.                 *)
LEMMA InitInvariant == Init => Sequential
<1> SUFFICES ASSUME Init PROVE Sequential
  OBVIOUS
<1>1. \A p \in Puts : pc[p] = "idle" /\ found[p] = {} /\ key[p] = "state" /\ ~Running(p)
  BY DEF Init, Running
<1>2. \A p \in Puts : Fresh(p) /\ KnowsBucket(p)
  BY <1>1 DEF Fresh, KnowsBucket
<1>3. Alone /\ OneFile
  BY <1>1 DEF Init, Alone, OneFile, StateKeys
<1> QED
  BY <1>2, <1>3, InitTypes DEF Sequential

(* The bucket never holds both a state file and a tainted one while the    *)
(* puts of the env run one after the other, whatever fails or is aborted,  *)
(* unless the deletion of an original has failed.                          *)
THEOREM KeepsOneStateFile == Spec => []OneStateFile
<1>1. IInv => OneStateFile
  BY DEF IInv, Sequential, OneFile, OneStateFile
<1>2. Init => IInv
  BY InitInvariant DEF IInv, Sequential
<1> QED
  BY <1>1, <1>2, NextInvariant, PTL DEF Spec

-----------------------------------------------------------------------------
(* Failures forget nothing.  As long as no put is aborted and no deletion  *)
(* of an original nor an upload of a tainted file has failed, the bucket   *)
(* records every instance a put has made where a put may end, and the local*)
(* file of a running put does where it does not.                           *)
Made == Puts \cap infra
Bucket == state["state"].recorded \cup state["tainted"].recorded
MayEnd == InSetup \cup {"plan", "planUpload", "planCheck", "planDelete", "output", "tfVersion"}
Works == {"init", "import", "apply", "plan", "planUpload", "untaint", "upload", "planCheck",
          "planDelete", "output", "destroy", "destroying", "destroyPlan", "destroyState",
          "taintDelete", "taintUpload"}
Harmless == kills = 0 /\ ~undeleted /\ ~unsaved

(* A plan does not change resources, so it ends with what it has found.    *)
PlansOnly(p) ==
    /\ Running(p) /\ req[p].kind = "plan" =>
           pc[p] \in InSetup \cup {"plan", "planUpload", "tfVersion"}
    /\ pc[p] = "planDownload" /\ found[p] \cap StateKeys = {} =>
           key[p] = "state" /\ (~undeleted => state["state"] = NoFile)

(* Of some of the instances that exist, S.                                 *)
KeepsOf(p, S) ==
    /\ pc[p] \in MayEnd => S \subseteq Bucket
    /\ pc[p] \in Works => S \subseteq local[p].recorded
    /\ pc[p] = "applying" => S \ {p} \subseteq local[p].recorded
    /\ pc[p] \in {"destroyPlan", "destroyState"} => S = {}
Keeps(p) == KeepsOf(p, Made)

Remembers ==
    Harmless =>
        /\ (\A p \in Puts : ~Running(p)) => Made \subseteq Bucket
        /\ \A p \in Puts : Keeps(p)

Remembering == Sequential /\ (\A p \in Puts : PlansOnly(p)) /\ Remembers

(* The inductive invariant.                                                *)
KInv == IInv /\ (~met => Remembering)

(* What an error does: it ends a put only in setup, in a plan or in the    *)
(* upload of a tainted file.                                               *)
LEMMA Errors ==
    ASSUME NEW p \in Puts
    PROVE  /\ AfterError(p) \in {"done", "destroy", "taintDelete"}
           /\ pc[p] \in InSetup \/ req[p].kind = "plan" \/ pc[p] = "taintUpload" =>
                  AfterError(p) = "done"
           /\ AfterError(p) = "done" =>
                  pc[p] \in InSetup \/ req[p].kind = "plan" \/ pc[p] = "taintUpload"
BY DEF AfterError

(* Steps that go no further than what the put knows or the bucket records. *)
LEMMA QuietKeeps ==
    ASSUME LegacyTypeOK, NEW p \in Puts, NEW S, KeepsOf(p, S), UNCHANGED state,
           local[p].recorded \subseteq local'[p].recorded,
           pc'[p] \in MayEnd \cup {"done"} => pc[p] \in MayEnd,
           pc'[p] \in Works => pc[p] \in Works,
           pc'[p] = "applying" => pc[p] = "apply",
           pc'[p] \in {"destroyPlan", "destroyState"} => pc[p] = "destroyPlan",
           pc'[p] \notin {"idle", "killed"}
    PROVE  KeepsOf(p, S)' /\ (~Running(p)' => S \subseteq Bucket')
<1>1. Bucket' = Bucket
  BY DEF Bucket
<1>2. pc[p] \in MayEnd => S \subseteq Bucket
  BY DEF KeepsOf
<1>3. pc[p] \in Works => S \subseteq local'[p].recorded
  BY DEF KeepsOf
<1>4. pc'[p] = "applying" => S \subseteq local'[p].recorded
  BY <1>3 DEF Works
<1>5. pc[p] = "destroyPlan" => S = {}
  BY DEF KeepsOf
<1> QED
  BY <1>1, <1>2, <1>3, <1>4, <1>5 DEF KeepsOf, Running

(* The calls that are such steps.                                          *)
LEMMA QuietKeepsSteps ==
    ASSUME LegacyTypeOK, NEW p \in Puts, PlansOnly(p),
           \/ StateExists(p) \/ PlanExists(p) \/ InitWithoutBackend(p) \/ Import(p)
           \/ ApplyStart(p) \/ PlanCheck(p) \/ PlanDelete(p) \/ Output(p)
           \/ DestroyStart(p) \/ DestroyPlan(p) \/ Plan(p) \/ PlanUpload(p) \/ TfVersion(p)
    PROVE  /\ UNCHANGED <<state, infra>>
           /\ local[p].recorded \subseteq local'[p].recorded
           /\ pc'[p] \in MayEnd \cup {"done"} => pc[p] \in MayEnd
           /\ pc'[p] \in Works => pc[p] \in Works
           /\ pc'[p] = "applying" => pc[p] = "apply"
           /\ pc'[p] \in {"destroyPlan", "destroyState"} => pc[p] = "destroyPlan"
           /\ pc'[p] \notin {"idle", "killed"}
<1> USE Errors DEF LegacyTypeOK, Call, Continue, Refused, Fault, Faulty, Goto, bucket,
                   files, MayEnd, InSetup, Works
<1>a. MainCommand(p) \in {"apply", "plan", "destroy"}
  BY LegacyAssumption DEF MainCommand
<1>b. pc[p] \in {"apply", "destroy", "destroyPlan"} => req[p].kind # "plan"
  BY DEF PlansOnly, Running
<1>1. CASE StateExists(p) \/ PlanExists(p)
  BY <1>1 DEF StateExists, PlanExists, Finds
<1>2. CASE InitWithoutBackend(p)
  BY <1>2, <1>a DEF InitWithoutBackend
<1>3. CASE Import(p)
  <2>1. UNCHANGED <<state, infra>> /\ pc[p] = "import"
          /\ pc'[p] \in {"apply", "plan", "destroy", "done"}
    BY <1>3, <1>a DEF Import, SetLocal
  <2>2. local[p].recorded \subseteq local'[p].recorded
    BY <1>3 DEF Import, SetLocal, Rewritten
  <2> QED
    BY <2>1, <2>2
<1>4. CASE ApplyStart(p)
  BY <1>4, <1>b DEF ApplyStart
<1>5. CASE PlanCheck(p) \/ PlanDelete(p) \/ Output(p)
  BY <1>5 DEF PlanCheck, PlanDelete, Output, SetPlan
<1>6. CASE DestroyStart(p) \/ DestroyPlan(p)
  BY <1>6, <1>b DEF DestroyStart, DestroyPlan, SetPlan
<1>7. CASE Plan(p) \/ PlanUpload(p) \/ TfVersion(p)
  BY <1>7 DEF Plan, PlanUpload, SetPlan, TfVersion
<1> QED
  BY <1>1, <1>2, <1>3, <1>4, <1>5, <1>6, <1>7

(* A plan only ever asks, plans and uploads.                               *)
LEMMA StepPlansOnly ==
    ASSUME LegacyTypeOK, NEW p \in Puts, Fresh(p), KnowsBucket(p), PlansOnly(p), Step(p)
    PROVE  PlansOnly(p)'
<1> USE Errors DEF LegacyTypeOK, Call, Continue, Refused, Fault, Faulty, Goto, bucket, files,
                   history, InSetup, PlansOnly, Running, StateKeys
<1>a. MainCommand(p) = req[p].kind /\ \A o : AfterPlan(p, o) \in {"stateDownload", "init"}
  BY DEF MainCommand, AfterPlan
<1>b. MainCommand(p) \in {"apply", "plan", "destroy"}
  BY LegacyAssumption DEF MainCommand
<1>1. CASE StateExists(p)
  BY <1>1 DEF StateExists, Finds
<1>2. CASE PlanExists(p)
  BY <1>2 DEF PlanExists, Finds
<1>3. CASE TaintedExists(p)
  <2>1. pc[p] = "taintedExists" /\ pc'[p] \in {"planDownload", "stateDownload", "init", "done"}
          /\ UNCHANGED <<state, undeleted, req>>
    BY <1>3, <1>a DEF TaintedExists
  <2>2. pc'[p] = "planDownload" /\ found'[p] \cap StateKeys = {} => key'[p] = key[p]
    BY <1>3, <1>a DEF TaintedExists
  <2> QED
    BY <2>1, <2>2 DEF KnowsBucket, Fresh
<1>4. CASE PlanDownload(p) \/ StateDownload(p)
  <2>1. pc'[p] \in {"stateDownload", "init", "done"} /\ UNCHANGED req
    BY <1>4, <1>a DEF PlanDownload, StateDownload, SetLocal
  <2> QED
    BY <2>1
<1>5. CASE InitWithoutBackend(p) \/ Import(p)
  <2>1. pc'[p] \in {"import", MainCommand(p), "done"} /\ UNCHANGED req
    BY <1>5 DEF InitWithoutBackend, Import, SetLocal
  <2> QED
    BY <2>1, <1>a, <1>b
<1>6. CASE \/ ApplyStart(p) \/ ApplyEnd(p) \/ Untaint(p) \/ UploadState(p)
           \/ PlanCheck(p) \/ PlanDelete(p) \/ Output(p)
  <2>1. /\ pc[p] \in {"apply", "applying", "untaint", "upload", "planCheck", "planDelete", "output"}
        /\ UNCHANGED req /\ pc'[p] # "planDownload"
    BY <1>6 DEF ApplyStart, ApplyEnd, Untaint, UploadState, PlanCheck, PlanDelete, Output
  <2> QED
    BY <2>1
<1>7. CASE DestroyStart(p) \/ DestroyEnd(p) \/ DestroyPlan(p) \/ DestroyState(p)
           \/ TaintDelete(p) \/ TaintUpload(p)
  <2>1. /\ pc[p] \in {"destroy", "destroying", "destroyPlan", "destroyState",
                      "taintDelete", "taintUpload"}
        /\ UNCHANGED req /\ pc'[p] # "planDownload"
    BY <1>7 DEF DestroyStart, DestroyEnd, DestroyPlan, DestroyState, TaintDelete, TaintUpload
  <2> QED
    BY <2>1
<1>8. CASE Plan(p) \/ PlanUpload(p) \/ TfVersion(p)
  BY <1>8 DEF Plan, PlanUpload, TfVersion
<1> QED
  BY <1>1, <1>2, <1>3, <1>4, <1>5, <1>6, <1>7, <1>8 DEF Step

(* Every step of a put keeps the instances in its file or in the bucket.   *)
LEMMA StepKeeps ==
    ASSUME LegacyTypeOK, NEW p \in Puts, KnowsBucket(p), OneFile, PlansOnly(p), ~undeleted,
           NEW S, S \subseteq infra, KeepsOf(p, S), Step(p), NEW T, T = S \cap infra'
    PROVE  /\ KeepsOf(p, T)'
           /\ pc[p] # "taintUpload" /\ ~Running(p)' => T \subseteq Bucket'
           /\ pc[p] = "taintUpload" /\ state'[key[p]] = local[p] => T \subseteq Bucket'
           /\ pc[p] = "taintUpload" /\ local[p] = NoFile => T = {}
<1> USE Errors DEF LegacyTypeOK, StateKeys, Continue, Refused, Fault, Faulty, Goto
<1>b. NoFile.recorded = {}
  BY DEF NoFile
<1>c. p \in Instances /\ Puts \subseteq Instances
  BY DEF Instances
<1>d. \A r : Rewritten(p, r).recorded = r
  BY DEF Rewritten
<1>e. \A o : AfterPlan(p, o) \in {"stateDownload", "init"}
             /\ (AfterPlan(p, o) = "init" => o \cap StateKeys = {})
  BY DEF AfterPlan
<1>1. CASE \/ StateExists(p) \/ PlanExists(p) \/ InitWithoutBackend(p) \/ Import(p)
           \/ ApplyStart(p) \/ PlanCheck(p) \/ PlanDelete(p) \/ Output(p)
           \/ DestroyStart(p) \/ DestroyPlan(p) \/ Plan(p) \/ PlanUpload(p) \/ TfVersion(p)
  <2>1. UNCHANGED <<state, infra>> /\ KeepsOf(p, S)' /\ (~Running(p)' => S \subseteq Bucket')
    BY <1>1, QuietKeeps, QuietKeepsSteps
  <2>2. pc[p] # "taintUpload" /\ T = S
    BY <1>1, <2>1 DEF StateExists, PlanExists, InitWithoutBackend, Import, ApplyStart, PlanCheck,
       PlanDelete, Output, DestroyStart, DestroyPlan, Plan, PlanUpload, TfVersion, Call
  <2> QED
    BY <2>1, <2>2
<1>2. CASE TaintedExists(p)
  <2> DEFINE tainted == {k \in {"tainted"} : state[k] # NoFile}
  <2>0. /\ AfterPlan(p, tainted) \in {"stateDownload", "init"}
        /\ AfterPlan(p, tainted) = "init" => state["tainted"] = NoFile
    <3>1. state["tainted"] # NoFile => "tainted" \in tainted \cap StateKeys
      OBVIOUS
    <3> QED
      BY <3>1, <1>e
  <2>1. /\ UNCHANGED <<state, infra, local>> /\ pc[p] = "taintedExists"
        /\ pc'[p] \in {"planDownload", "stateDownload", "init", "done"}
        /\ pc'[p] = "init" => state["tainted"] = NoFile
    <3>1. Call(p, "taintedExists",
               IF "plan" \in found[p] THEN "planDownload" ELSE AfterPlan(p, tainted),
               UNCHANGED <<bucket, infra, local, planFile>>)
      BY <1>2 DEF TaintedExists, Call, files
    <3> HIDE DEF tainted
    <3> QED
      BY <3>1, <2>0 DEF Call, bucket, files, InSetup
  <2>2. S \subseteq Bucket /\ T = S /\ Bucket' = Bucket
    BY <2>1 DEF KeepsOf, MayEnd, InSetup, Bucket
  <2>3. pc'[p] = "init" => S = {}
    BY <2>1, <2>2, <1>b DEF KnowsBucket, Running, Bucket
  <2> QED
    BY <2>1, <2>2, <2>3 DEF KeepsOf, MayEnd, InSetup, Works, Running
<1>3. CASE PlanDownload(p)
  <2>1. /\ UNCHANGED <<state, infra, local>> /\ pc[p] = "planDownload"
        /\ pc'[p] \in {"stateDownload", "init", "done"}
        /\ pc'[p] = "init" => found[p] \cap StateKeys = {}
    BY <1>3, <1>e DEF PlanDownload, Call, bucket, files, InSetup
  <2>2. S \subseteq Bucket /\ T = S /\ Bucket' = Bucket
    BY <2>1 DEF KeepsOf, MayEnd, InSetup, Bucket
  <2>3. pc'[p] = "init" => S = {}
    <3>1. ASSUME pc'[p] = "init"
          PROVE  state["state"] = NoFile
      BY <3>1, <2>1 DEF PlansOnly
    <3>2. ASSUME pc'[p] = "init"
          PROVE  state["tainted"] = NoFile
      BY <3>2, <2>1 DEF PlansOnly, KnowsBucket, Running, Asking
    <3> QED
      BY <3>1, <3>2, <2>2, <1>b DEF Bucket
  <2> QED
    BY <2>1, <2>2, <2>3 DEF KeepsOf, MayEnd, InSetup, Works, Running
<1>4. CASE StateDownload(p)
  <2>1. /\ UNCHANGED <<state, infra>> /\ pc[p] = "stateDownload"
        /\ \/ pc'[p] = "done"
           \/ pc'[p] = "init" /\ local'[p] = state[key[p]]
    BY <1>4 DEF StateDownload, Call, SetLocal, bucket, files, InSetup
  <2>2. S \subseteq Bucket /\ T = S /\ Bucket' = Bucket
    BY <2>1 DEF KeepsOf, MayEnd, InSetup, Bucket
  <2>3. Bucket \subseteq state[key[p]].recorded
    BY <2>1, <1>b DEF KnowsBucket, Running, Asking, Bucket
  <2> QED
    BY <2>1, <2>2, <2>3 DEF KeepsOf, MayEnd, InSetup, Works, Running
<1>5. CASE ApplyEnd(p)
  <2>1. /\ UNCHANGED infra /\ pc[p] = "applying"
        /\ pc'[p] \in {"untaint", "upload", "destroy", "taintDelete"}
        /\ S \ {p} \subseteq local[p].recorded
    BY <1>5 DEF ApplyEnd, SetLocal, KeepsOf, PlansOnly, Running, InSetup
  <2>2. \/ local'[p] = Rewritten(p, local[p].recorded \cup ({p} \cap infra))
        \/ p \in infra /\ local'[p] = Rewritten(p, local[p].recorded \cup {p})
        \/ p \notin infra /\ local'[p] = local[p]
    BY <1>5 DEF ApplyEnd, SetLocal
  <2>3. T = S /\ S \subseteq local'[p].recorded
    BY <2>1, <2>2, <1>d
  <2> QED
    BY <2>1, <2>3 DEF KeepsOf, MayEnd, InSetup, Works, Running
<1>6. CASE Untaint(p)
  <2>1. /\ UNCHANGED <<infra, local>> /\ pc[p] = "untaint"
        /\ pc'[p] \in {"upload", "destroy", "taintDelete"}
    BY <1>6 DEF Untaint, PlansOnly, Running, InSetup
  <2>2. T = S /\ S \subseteq local[p].recorded
    BY <2>1 DEF KeepsOf, Works
  <2> QED
    BY <2>1, <2>2 DEF KeepsOf, MayEnd, InSetup, Works, Running
<1>7. CASE UploadState(p)
  <2>1. /\ UNCHANGED <<infra, local>> /\ pc[p] = "upload"
        /\ \/ pc'[p] \in {"destroy", "taintDelete"}
           \/ pc'[p] = "planCheck" /\ state' = [state EXCEPT ![key[p]] = local[p]]
    BY <1>7 DEF UploadState, Call, Upload, bucket, files, PlansOnly, Running, InSetup
  <2>2. T = S /\ S \subseteq local[p].recorded
    BY <2>1 DEF KeepsOf, Works
  <2>3. pc'[p] = "planCheck" => S \subseteq Bucket'
    BY <2>1, <2>2 DEF Bucket
  <2> QED
    BY <2>1, <2>2, <2>3 DEF KeepsOf, MayEnd, InSetup, Works, Running
<1>8. CASE DestroyEnd(p)
  <2>1. PICK gone \in SUBSET local[p].recorded :
            /\ Destroys(p, gone)
            /\ \/ pc'[p] = "destroyPlan" /\ gone = local[p].recorded
               \/ pc'[p] \in {"destroy", "taintDelete"}
    BY <1>8 DEF DestroyEnd, PlansOnly, Running, InSetup
  <2>2. pc[p] = "destroying" /\ S \subseteq local[p].recorded
    BY <1>8 DEF DestroyEnd, KeepsOf, Works
  <2>3. T = S \ gone
    BY <2>1 DEF Destroys
  <2>4. local'[p].recorded = local[p].recorded \ gone
    BY <2>1, <1>b, <1>d DEF Destroys
  <2>5. T \subseteq local'[p].recorded /\ (pc'[p] = "destroyPlan" => T = {})
    BY <2>1, <2>2, <2>3, <2>4
  <2> QED
    BY <2>1, <2>2, <2>5 DEF KeepsOf, MayEnd, InSetup, Works, Running
<1>9. CASE DestroyState(p)
  <2>1. /\ UNCHANGED infra /\ pc[p] = "destroyState"
        /\ pc'[p] \notin {"destroyPlan", "destroyState", "idle", "killed"}
    BY <1>9 DEF DestroyState, Call, Delete, Upload
  <2>2. S = {} /\ T = {}
    BY <2>1 DEF KeepsOf
  <2> QED
    BY <2>1, <2>2 DEF KeepsOf
<1>10. CASE TaintDelete(p)
  <2>1. UNCHANGED <<infra, local>> /\ pc[p] = "taintDelete" /\ pc'[p] = "taintUpload"
    BY <1>10 DEF TaintDelete
  <2>2. T = S /\ S \subseteq local[p].recorded
    BY <2>1 DEF KeepsOf, Works
  <2> QED
    BY <2>1, <2>2 DEF KeepsOf, MayEnd, InSetup, Works, Running
<1>11. CASE TaintUpload(p)
  <2>1. UNCHANGED <<infra, local, key>> /\ pc[p] = "taintUpload" /\ pc'[p] = "done"
    BY <1>11 DEF TaintUpload, Upload, files
  <2>2. T = S /\ S \subseteq local[p].recorded
    BY <2>1 DEF KeepsOf, Works
  <2>3. state'[key[p]] = local[p] => T \subseteq Bucket'
    BY <2>2 DEF Bucket
  <2>4. local[p] = NoFile => T = {}
    BY <2>2, <1>b
  <2> QED
    BY <2>1, <2>3, <2>4 DEF KeepsOf, MayEnd, InSetup, Works, Running
<1> QED
  BY <1>1, <1>2, <1>3, <1>4, <1>5, <1>6, <1>7, <1>8, <1>9, <1>10, <1>11 DEF Step

(* A step of a put aborts none, and what has failed has failed.            *)
LEMMA StepHarms ==
    ASSUME LegacyTypeOK, NEW p \in Puts, Step(p)
    PROVE  kills' = kills /\ (undeleted => undeleted') /\ (unsaved => unsaved')
<1> USE DEF LegacyTypeOK, Call, Continue, Refused, Fault, Faulty, history
<1>1. CASE TaintDelete(p) \/ TaintUpload(p)
  BY <1>1 DEF TaintDelete, TaintUpload
<1>2. CASE StateExists(p) \/ PlanExists(p) \/ TaintedExists(p) \/ PlanDownload(p)
           \/ StateDownload(p) \/ InitWithoutBackend(p) \/ Import(p)
  BY <1>2 DEF StateExists, PlanExists, TaintedExists, PlanDownload, StateDownload,
     InitWithoutBackend, Import
<1>3. CASE ApplyStart(p) \/ ApplyEnd(p) \/ Untaint(p) \/ UploadState(p)
           \/ PlanCheck(p) \/ PlanDelete(p) \/ Output(p)
  BY <1>3 DEF ApplyStart, ApplyEnd, Untaint, UploadState, PlanCheck, PlanDelete, Output
<1>4. CASE DestroyStart(p) \/ DestroyEnd(p) \/ DestroyPlan(p) \/ DestroyState(p)
           \/ Plan(p) \/ PlanUpload(p) \/ TfVersion(p)
  BY <1>4 DEF DestroyStart, DestroyEnd, DestroyPlan, DestroyState, Plan, PlanUpload, TfVersion
<1> QED
  BY <1>1, <1>2, <1>3, <1>4 DEF Step

(* It provisions nothing.                                                  *)
LEMMA StepShrinks ==
    ASSUME NEW p \in Puts, Step(p)
    PROVE  /\ infra' \subseteq infra /\ met' = met
           /\ TaintUpload(p) <=> pc[p] = "taintUpload"
<1> USE DEF Call, bucket, files, history
<1>1. CASE TaintDelete(p)
  BY <1>1 DEF TaintDelete, TaintUpload
<1>5. CASE TaintUpload(p)
  BY <1>5 DEF TaintUpload, Upload
<1>2. CASE StateExists(p) \/ PlanExists(p) \/ TaintedExists(p) \/ PlanDownload(p)
           \/ StateDownload(p) \/ InitWithoutBackend(p) \/ Import(p)
  BY <1>2 DEF StateExists, PlanExists, TaintedExists, PlanDownload, StateDownload,
     InitWithoutBackend, Import, SetLocal, Finds, TaintUpload
<1>3. CASE ApplyStart(p) \/ ApplyEnd(p) \/ Untaint(p) \/ UploadState(p)
           \/ PlanCheck(p) \/ PlanDelete(p) \/ Output(p)
  BY <1>3 DEF ApplyStart, ApplyEnd, Untaint, UploadState, PlanCheck, PlanDelete, Output,
     SetLocal, Upload, SetPlan, TaintUpload
<1>4. CASE DestroyStart(p) \/ DestroyPlan(p) \/ DestroyState(p)
           \/ Plan(p) \/ PlanUpload(p) \/ TfVersion(p)
  BY <1>4 DEF DestroyStart, DestroyPlan, DestroyState, Plan, PlanUpload,
     TfVersion, Delete, Upload, SetPlan, TaintUpload
<1>6. CASE DestroyEnd(p)
  <2>1. UNCHANGED history /\ infra' \subseteq infra /\ pc[p] = "destroying"
    BY <1>6 DEF DestroyEnd, Destroys
  <2> QED
    BY <2>1 DEF TaintUpload
<1> QED
  BY <1>1, <1>2, <1>3, <1>4, <1>5, <1>6 DEF Step

(* The invariant is kept by the puts' steps.  The other puts do not run.   *)
LEMMA StepRemembers ==
    ASSUME Remembering, Sequential', NEW p \in Puts, Step(p)
    PROVE  Remembering'
<1>1. LegacyTypeOK /\ Fresh(p) /\ KnowsBucket(p) /\ OneFile /\ PlansOnly(p)
  BY DEF Remembering, Sequential
<1>2. Running(p) /\ \A q \in Puts \ {p} : pc'[q] = pc[q] /\ ~Running(q)
  BY <1>1, OwnStep DEF Remembering, Sequential, Alone
<1>3. \A q \in Puts \ {p} : ~Running(q)' /\ pc'[q] \in {"idle", "done", "killed"}
  BY <1>2 DEF Running
<1>4. PlansOnly(p)'
  BY <1>1, StepPlansOnly
<1>5. \A q \in Puts \ {p} : PlansOnly(q)' /\ Keeps(q)'
  BY <1>3 DEF PlansOnly, Keeps, KeepsOf, MayEnd, InSetup, Works
<1>6. ASSUME Harmless' PROVE Keeps(p) /\ ~undeleted
  <2>1. Harmless
    BY <1>1, <1>6, StepHarms DEF Harmless
  <2> QED
    BY <2>1 DEF Remembering, Remembers, Harmless
<1>7. ASSUME Harmless' PROVE Keeps(p)' /\ (~Running(p)' => Made' \subseteq Bucket')
  <2>1. PICK S, T : S = Made /\ T = Made'
    OBVIOUS
  <2>2. infra' \subseteq infra /\ (TaintUpload(p) <=> pc[p] = "taintUpload")
    BY StepShrinks
  <2>3. T = S \cap infra' /\ S \subseteq infra
    BY <2>1, <2>2 DEF Made
  <2>4. /\ KeepsOf(p, T)'
        /\ pc[p] # "taintUpload" /\ ~Running(p)' => T \subseteq Bucket'
        /\ pc[p] = "taintUpload" /\ state'[key[p]] = local[p] => T \subseteq Bucket'
    BY <1>1, <1>6, <1>7, <2>1, <2>3, StepKeeps DEF Keeps
  <2>5. TaintUpload(p) => state'[key[p]] = local[p]
    BY <1>7 DEF TaintUpload, Harmless
  <2> QED
    BY <2>1, <2>2, <2>4, <2>5 DEF Keeps, KeepsOf
<1>8. Remembers'
  BY <1>3, <1>5, <1>7 DEF Remembers
<1> QED
  BY <1>4, <1>5, <1>8 DEF Remembering

(* A put that starts finds a bucket that records everything, an apply only *)
(* adds its own instance, and nothing is said of puts that are aborted.    *)
LEMMA OtherRemembers ==
    ASSUME Remembering, Sequential', NEW p \in Puts,
           Start(p) \/ ApplyProvision(p) \/ Kill(p)
    PROVE  Remembering'
<1> USE DEF Remembering, Sequential, LegacyTypeOK
<1>1. CASE Start(p)
  <2>1. /\ pc[p] = "idle" /\ pc' = [pc EXCEPT ![p] = "stateExists"]
        /\ UNCHANGED <<state, infra, local, key, found, req, kills, undeleted, unsaved>>
    BY <1>1 DEF Start, Continue, Goto, bucket, files
  <2>2. Running(p)' /\ \A q \in Puts \ {p} : ~Running(q)' /\ ~Running(q)
    BY <2>1 DEF Running, Alone
  <2>3. ~Running(p)
    BY <2>1 DEF Running
  <2>4. Harmless' => Made' \subseteq Bucket'
    BY <2>1, <2>2, <2>3 DEF Remembers, Harmless, Made, Bucket
  <2>5. \A q \in Puts : pc'[q] \in {"stateExists", "idle", "done", "killed"}
    BY <2>1, <2>2 DEF Running
  <2>6. \A q \in Puts : PlansOnly(q)'
    BY <2>5 DEF PlansOnly, Running, InSetup
  <2>7. Remembers'
    BY <2>4, <2>5 DEF Remembers, Keeps, KeepsOf, MayEnd, InSetup, Works
  <2> QED
    BY <2>6, <2>7
<1>2. CASE ApplyProvision(p)
  <2>1. /\ pc[p] = "applying" /\ infra' = infra \cup {p}
        /\ UNCHANGED <<pc, state, local, key, found, req, kills, undeleted, unsaved>>
    BY <1>2 DEF ApplyProvision, bucket, files, history
  <2>2. \A q \in Puts \ {p} : ~Running(q)
    BY <2>1 DEF Alone, Running
  <2>3. \A q \in Puts : PlansOnly(q)'
    BY <2>1 DEF PlansOnly, Running
  <2>4. Harmless' => Keeps(p)'
    BY <2>1 DEF Remembers, Harmless, Keeps, KeepsOf, Made, MayEnd, InSetup, Works
  <2>5. \A q \in Puts \ {p} : Keeps(q)'
    BY <2>1, <2>2 DEF Keeps, KeepsOf, Running, MayEnd, InSetup, Works
  <2>6. Running(p)'
    BY <2>1 DEF Running
  <2> QED
    BY <2>3, <2>4, <2>5, <2>6 DEF Remembers
<1>3. CASE Kill(p)
  <2>1. /\ kills' = kills + 1 /\ pc' = [pc EXCEPT ![p] = "killed"]
        /\ UNCHANGED <<state, key, found, req, undeleted>>
    BY <1>3 DEF Kill, Goto, bucket, files, history
  <2>2. ~Harmless'
    BY <2>1 DEF Harmless
  <2>3. \A q \in Puts : PlansOnly(q)'
    BY <2>1 DEF PlansOnly, Running
  <2> QED
    BY <2>2, <2>3 DEF Remembers
<1> QED
  BY <1>1, <1>2, <1>3

(* Every step keeps what is remembered.                                    *)
LEMMA RememberingSteps ==
    ASSUME Remembering, [Next]_vars, ~met'
    PROVE  Remembering'
<1>1. Sequential'
  BY SequentialSteps DEF Remembering
<1>2. CASE UNCHANGED vars
  BY <1>1, <1>2 DEF vars, bucket, files, history, Remembering, PlansOnly, Remembers, Harmless,
     Keeps, KeepsOf, Made, Bucket, Running
<1> QED
  BY <1>1, <1>2, StepRemembers, OtherRemembers DEF Next, AllEnded

LEMMA NextRemembers == KInv /\ [Next]_vars => KInv'
BY NextInvariant, RememberingSteps, Meeting DEF KInv

(* At first there is nothing to remember.                                  *)
LEMMA InitRemembers == Init => Remembering
<1> SUFFICES ASSUME Init PROVE Remembering
  OBVIOUS
<1>1. \A p \in Puts : pc[p] = "idle"
  BY DEF Init
<1>2. Made = {}
  BY LegacyAssumption DEF Init, Made
<1>3. \A p \in Puts : PlansOnly(p) /\ Keeps(p)
  BY <1>1 DEF PlansOnly, Keeps, KeepsOf, Running, MayEnd, InSetup, Works
<1> QED
  BY <1>2, <1>3, InitInvariant DEF Remembering, Remembers

(* What is remembered is recorded.                                         *)
LEMMA RememberedIsRecorded == KInv => FailuresForgetNothing
<1> SUFFICES ASSUME Remembering, Harmless, NEW i \in Made PROVE Recorded(i)
  BY DEF KInv, FailuresForgetNothing, Harmless, Forgotten, Made
<1> USE DEF Recorded, StateKeys
<1>1. CASE i \in Bucket
  BY <1>1 DEF Bucket
<1>2. CASE i \notin Bucket
  <2>1. PICK p \in Puts : Running(p)
    BY <1>2 DEF Remembering, Remembers
  <2>2. Keeps(p) /\ pc[p] \in Labels
    BY DEF Remembering, Sequential, LegacyTypeOK, Remembers
  <2>3. pc[p] \in Works \cup {"applying"}
    BY <1>2, <2>1, <2>2 DEF Keeps, KeepsOf, Labels, Running, MayEnd, InSetup, Works
  <2> QED
    BY <2>1, <2>2, <2>3 DEF Keeps, KeepsOf
<1> QED
  BY <1>1, <1>2

(* When the puts of the env run one after the other, a failure makes the   *)
(* bucket forget an instance only where the upload of a tainted state file *)
(* fails or a deletion has left an old state file: whatever else fails, at *)
(* whichever call, the bucket records what was made.                       *)
THEOREM FailuresForget == Spec => []FailuresForgetNothing
<1>1. Init => KInv
  BY InitRemembers DEF KInv, Remembering, IInv, Sequential
<1> QED
  BY <1>1, NextRemembers, RememberedIsRecorded, PTL DEF Spec
=============================================================================
