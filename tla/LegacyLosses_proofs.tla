-------------------------- MODULE LegacyLosses_proofs --------------------------
(***************************************************************************)
(* Proofs about LegacyPut: what a destroy leaves, and what an aborted put  *)
(* loses, for every set of puts and requests and every number of faults    *)
(* and aborted builds.                                                     *)
(*                                                                         *)
(* Both rest on KeepsOf of LegacyPut_proofs, of a set of instances: a put  *)
(* that runs has them in its local state file, or the bucket has them.     *)
(***************************************************************************)
EXTENDS LegacyPut_proofs

(* What a step of a put does to the control state, and what it leaves.     *)
LEMMA StepControl ==
    ASSUME LegacyTypeOK, NEW p \in Puts, Step(p)
    PROVE  /\ req' = req /\ began' = began /\ pc'[p] # "killed"
           /\ faults' \in {faults, faults + 1}
           /\ \A q \in Puts \ {p} :
                  cause'[q] = cause[q] /\ reply'[q] = reply[q] /\ local'[q] = local[q]
           /\ reply'[p] = reply[p] \/ (pc[p] = "tfVersion" /\ pc'[p] = "done")
<1> USE DEF LegacyTypeOK, Call, Continue, Refused, Fault, Faulty, Goto, Blame, files, history
<1>a. AfterError(p) # "killed" /\ MainCommand(p) # "killed" /\ \A o : AfterPlan(p, o) # "killed"
  <2>1. req[p].kind # "killed"
    BY LegacyAssumption
  <2> QED
    BY <2>1 DEF AfterError, MainCommand, AfterPlan
<1>1. CASE StateExists(p) \/ PlanExists(p)
  BY <1>1, <1>a DEF StateExists, PlanExists, Finds
<1>2. CASE TaintedExists(p)
  BY <1>2, <1>a DEF TaintedExists
<1>3. CASE PlanDownload(p) \/ StateDownload(p)
  BY <1>3, <1>a DEF PlanDownload, StateDownload, SetLocal
<1>4. CASE InitWithoutBackend(p) \/ Import(p)
  BY <1>4, <1>a DEF InitWithoutBackend, Import, SetLocal
<1>5. CASE ApplyStart(p) \/ ApplyEnd(p)
  BY <1>5, <1>a DEF ApplyStart, ApplyEnd, SetLocal
<1>6. CASE Untaint(p) \/ UploadState(p)
  BY <1>6, <1>a DEF Untaint, UploadState, Upload
<1>7. CASE PlanCheck(p) \/ PlanDelete(p) \/ Output(p)
  BY <1>7, <1>a DEF PlanCheck, PlanDelete, Output, SetPlan
<1>8. CASE DestroyStart(p) \/ DestroyEnd(p)
  BY <1>8, <1>a DEF DestroyStart, DestroyEnd, Destroys
<1>9. CASE DestroyPlan(p) \/ DestroyState(p)
  BY <1>9, <1>a DEF DestroyPlan, DestroyState, SetPlan, Delete, Upload
<1>10. CASE TaintDelete(p)
  BY <1>10, <1>a DEF TaintDelete
<1>11. CASE TaintUpload(p)
  BY <1>11, <1>a DEF TaintUpload, Upload
<1>12. CASE Plan(p) \/ PlanUpload(p)
  BY <1>12, <1>a DEF Plan, PlanUpload, SetPlan
<1>13. CASE TfVersion(p)
  BY <1>13 DEF TfVersion
<1> QED
  BY <1>1, <1>2, <1>3, <1>4, <1>5, <1>6, <1>7, <1>8, <1>9, <1>10, <1>11, <1>12, <1>13 DEF Step

-----------------------------------------------------------------------------
(* Destroys.  The instance of a put that has not started is recorded       *)
(* nowhere, so no put that has been over by then has found it at its start.*)
Unknown(q) ==
    /\ \A k \in StateKeys : q \notin state[k].recorded
    /\ \A p \in Puts : q \notin local[p].recorded
Unmade == \A q \in Puts : pc[q] = "idle" => Unknown(q)
NotBefore == \A q \in Puts : pc[q] = "idle" \/ Running(q) => \A p \in Puts : q \notin began[p]

(* A put that destroys does nothing else.                                  *)
DestroysOnly(p) ==
    /\ req[p].kind = "destroy" =>
           pc[p] \in {"idle", "done", "killed", "destroy", "destroying", "destroyPlan",
                      "destroyState", "taintDelete", "taintUpload", "tfVersion"} \cup InSetup
    /\ reply[p] = "version" => pc[p] = "done"

(* What was recorded at the start is in the local state file or in the     *)
(* bucket until it is destroyed.                                           *)
Left(p) == began[p] \cap infra
Destroyed(p) ==
    req[p].kind = "destroy" =>
        /\ Running(p) => KeepsOf(p, Left(p))
        /\ pc[p] = "tfVersion" \/ reply[p] = "version" => Left(p) = {}

(* The inductive invariant. *)
Destroying ==
    /\ NotBefore
    /\ ~undeleted => \A p \in Puts : Destroyed(p)
DInv == KInv /\ Unmade /\ (\A p \in Puts : DestroysOnly(p)) /\ (~met => Destroying)

(* A put only ever records its own instance, and the one it imports.       *)
LEMMA StepUnknown ==
    ASSUME LegacyTypeOK, NEW p \in Puts, Step(p), NEW q \in Puts \ {p}, Unknown(q)
    PROVE  Unknown(q)'
<1> USE DEF LegacyTypeOK, Unknown, StateKeys
<1>a. /\ q \notin NoFile.recorded /\ q # Existing
      /\ \A r : Rewritten(p, r).recorded = r
  BY LegacyAssumption DEF NoFile, Rewritten
<1>b. key[p] \in {"state", "tainted"}
  OBVIOUS
<1>1. CASE \/ StateExists(p) \/ PlanExists(p) \/ TaintedExists(p) \/ PlanDownload(p)
           \/ InitWithoutBackend(p) \/ ApplyStart(p) \/ PlanCheck(p) \/ PlanDelete(p) \/ Output(p)
           \/ DestroyStart(p) \/ DestroyPlan(p) \/ Plan(p) \/ PlanUpload(p) \/ TfVersion(p)
  <2>1. UNCHANGED <<state, local>>
    BY <1>1
       DEF StateExists, PlanExists, TaintedExists, PlanDownload, InitWithoutBackend, ApplyStart,
           PlanCheck, PlanDelete, Output, DestroyStart, DestroyPlan, Plan, PlanUpload, TfVersion,
           Call, Finds, SetPlan, bucket, files
  <2> QED
    BY <2>1
<1>2. CASE StateDownload(p)
  <2>1. UNCHANGED state /\ (local' = local \/ local' = [local EXCEPT ![p] = state[key[p]]])
    BY <1>2 DEF StateDownload, Call, SetLocal, bucket, files
  <2> QED
    BY <1>b, <2>1
<1>3. CASE Import(p) \/ ApplyEnd(p)
  <2>1. /\ UNCHANGED state
        /\ \/ local' = local
           \/ \E r : /\ r \subseteq local[p].recorded \cup {p, Existing}
                     /\ local' = [local EXCEPT ![p] = Rewritten(p, r)]
    BY <1>3 DEF Import, ApplyEnd, Call, SetLocal, bucket, files
  <2> QED
    BY <1>a, <2>1
<1>4. CASE DestroyEnd(p)
  <2>1. PICK gone \in SUBSET local[p].recorded : Destroys(p, gone)
    BY <1>4 DEF DestroyEnd
  <2> QED
    BY <1>a, <2>1 DEF Destroys, bucket
<1>5. CASE Untaint(p) \/ DestroyState(p) \/ TaintDelete(p)
  <2>1. UNCHANGED local /\ state' \in {state, [state EXCEPT ![key[p]] = NoFile]}
    BY <1>5 DEF Untaint, DestroyState, TaintDelete, Call, Delete, Upload, Without, bucket, files
  <2> QED
    BY <1>a, <2>1
<1>6. CASE UploadState(p) \/ TaintUpload(p)
  <2>1. UNCHANGED local /\ state' \in {state, [state EXCEPT ![key[p]] = local[p]]}
    BY <1>6 DEF UploadState, TaintUpload, Call, Upload, bucket, files
  <2> QED
    BY <2>1
<1> QED
  BY <1>1, <1>2, <1>3, <1>4, <1>5, <1>6 DEF Step

(* Where the steps of a put lead that destroys.                            *)
LEMMA StepDestroysOnly ==
    ASSUME LegacyTypeOK, NEW p \in Puts, DestroysOnly(p), Step(p)
    PROVE  DestroysOnly(p)'
<1>a. /\ req' = req /\ (reply'[p] = reply[p] \/ (pc[p] = "tfVersion" /\ pc'[p] = "done"))
      /\ Running(p)
  BY StepControl, OwnStep
<1>b. reply'[p] = "version" => pc'[p] = "done"
  BY <1>a DEF DestroysOnly, Running
<1> SUFFICES ASSUME req[p].kind = "destroy"
             PROVE  pc'[p] \in {"done", "destroy", "destroying", "destroyPlan", "destroyState",
                                "taintDelete", "taintUpload", "tfVersion"} \cup InSetup
  BY <1>a, <1>b DEF DestroysOnly
<1> USE Errors DEF LegacyTypeOK, Call, Continue, Refused, Fault, Faulty, Goto, InSetup
<1>c. MainCommand(p) = "destroy" /\ \A o : AfterPlan(p, o) \in {"stateDownload", "init"}
  BY DEF MainCommand, AfterPlan
<1>d. pc[p] \in {"destroy", "destroying", "destroyPlan", "destroyState", "taintDelete",
                 "taintUpload", "tfVersion"} \cup InSetup
  BY <1>a DEF DestroysOnly, Running
<1>1. CASE StateExists(p) \/ PlanExists(p)
  BY <1>1 DEF StateExists, PlanExists
<1>2. CASE TaintedExists(p) \/ PlanDownload(p) \/ StateDownload(p)
  BY <1>2, <1>c DEF TaintedExists, PlanDownload, StateDownload
<1>3. CASE InitWithoutBackend(p) \/ Import(p)
  BY <1>3, <1>c DEF InitWithoutBackend, Import
<1>4. CASE DestroyStart(p) \/ DestroyEnd(p) \/ DestroyPlan(p)
  BY <1>4 DEF DestroyStart, DestroyEnd, DestroyPlan
<1>5. CASE DestroyState(p)
  BY <1>5 DEF DestroyState
<1>6. CASE TaintDelete(p) \/ TaintUpload(p)
  BY <1>6 DEF TaintDelete, TaintUpload
<1>7. CASE TfVersion(p)
  BY <1>7 DEF TfVersion
<1>8. CASE \/ ApplyStart(p) \/ ApplyEnd(p) \/ Untaint(p) \/ UploadState(p)
           \/ PlanCheck(p) \/ PlanDelete(p) \/ Output(p) \/ Plan(p) \/ PlanUpload(p)
  BY <1>8, <1>d DEF ApplyStart, ApplyEnd, Untaint, UploadState, PlanCheck, PlanDelete, Output,
     Plan, PlanUpload
<1> QED
  BY <1>1, <1>2, <1>3, <1>4, <1>5, <1>6, <1>7, <1>8 DEF Step

(* A put comes to its version through tfVersion, and a destroy to that     *)
(* through destroyState.                                                   *)
LEMMA ToVersion ==
    ASSUME LegacyTypeOK, NEW p \in Puts, DestroysOnly(p), Step(p), req[p].kind = "destroy",
           pc'[p] = "tfVersion"
    PROVE  pc[p] = "destroyState"
<1>a. pc[p] \in {"destroy", "destroying", "destroyPlan", "destroyState", "taintDelete",
                 "taintUpload", "tfVersion"} \cup InSetup
  BY OwnStep DEF DestroysOnly, Running
<1> USE Errors DEF LegacyTypeOK, Call, Continue, Refused, Fault, Faulty, Goto, InSetup
<1>c. MainCommand(p) = "destroy" /\ \A o : AfterPlan(p, o) \in {"stateDownload", "init"}
  BY DEF MainCommand, AfterPlan
<1>1. CASE StateExists(p) \/ PlanExists(p)
  BY <1>1 DEF StateExists, PlanExists
<1>2. CASE TaintedExists(p) \/ PlanDownload(p) \/ StateDownload(p)
  BY <1>2, <1>c DEF TaintedExists, PlanDownload, StateDownload
<1>3. CASE InitWithoutBackend(p) \/ Import(p)
  BY <1>3, <1>c DEF InitWithoutBackend, Import
<1>4. CASE DestroyStart(p) \/ DestroyEnd(p) \/ DestroyPlan(p)
  BY <1>4 DEF DestroyStart, DestroyEnd, DestroyPlan
<1>5. CASE DestroyState(p)
  BY <1>5 DEF DestroyState
<1>6. CASE TaintDelete(p) \/ TaintUpload(p)
  BY <1>6 DEF TaintDelete, TaintUpload
<1>7. CASE TfVersion(p)
  BY <1>7 DEF TfVersion
<1>8. CASE \/ ApplyStart(p) \/ ApplyEnd(p) \/ Untaint(p) \/ UploadState(p)
           \/ PlanCheck(p) \/ PlanDelete(p) \/ Output(p) \/ Plan(p) \/ PlanUpload(p)
  BY <1>8, <1>a DEF ApplyStart, ApplyEnd, Untaint, UploadState, PlanCheck, PlanDelete, Output,
     Plan, PlanUpload
<1> QED
  BY <1>1, <1>2, <1>3, <1>4, <1>5, <1>6, <1>7, <1>8 DEF Step

(* The step of a put, and what it does to those that are over.             *)
LEMMA StepDestroying ==
    ASSUME Remembering, Destroying, NEW p \in Puts, Step(p), \A q \in Puts : DestroysOnly(q)
    PROVE  Destroying'
<1>a. /\ LegacyTypeOK /\ KnowsBucket(p) /\ OneFile /\ PlansOnly(p) /\ DestroysOnly(p)
      /\ Running(p) /\ \A q \in Puts \ {p} : ~Running(q)
  BY OwnStep DEF Remembering, Sequential, Alone
<1>b. /\ req' = req /\ began' = began /\ infra' \subseteq infra
      /\ \A q \in Puts \ {p} : pc'[q] = pc[q] /\ reply'[q] = reply[q]
      /\ reply'[p] = reply[p] \/ (pc[p] = "tfVersion" /\ pc'[p] = "done")
      /\ pc'[p] # "idle" /\ (undeleted => undeleted')
      /\ TaintUpload(p) <=> pc[p] = "taintUpload"
  BY <1>a, StepControl, StepShrinks, StepHarms, OwnStep
<1>1. NotBefore'
  BY <1>a, <1>b DEF Destroying, NotBefore, Running
<1>2. ASSUME ~undeleted', NEW q \in Puts \ {p} PROVE Destroyed(q)'
  <2>1. Destroyed(q) /\ ~Running(q)' /\ pc'[q] # "tfVersion"
    BY <1>a, <1>b, <1>2 DEF Destroying, Running
  <2>2. Left(q)' \subseteq Left(q)
    BY <1>b DEF Left
  <2> QED
    BY <1>b, <2>1, <2>2 DEF Destroyed
<1>3. ASSUME ~undeleted', req[p].kind = "destroy" PROVE Destroyed(p)'
  <2>1. PICK S, T : S = Left(p) /\ T = Left(p)'
    OBVIOUS
  <2>2. T = S \cap infra' /\ S \subseteq infra /\ KeepsOf(p, S) /\ ~undeleted
    BY <1>a, <1>b, <1>3, <2>1 DEF Left, Destroying, Destroyed
  <2>3. KeepsOf(p, T)'
    BY <1>a, <2>2, StepKeeps
  <2>4. reply[p] # "version"
    BY <1>a DEF DestroysOnly, Running
  <2>5. pc'[p] = "tfVersion" => T = {}
    BY <1>a, <1>3, <2>2, ToVersion DEF KeepsOf
  <2>6. pc[p] = "tfVersion" => T = {}
    BY <1>3, <1>b, <2>1, <2>2 DEF Destroying, Destroyed
  <2> QED
    BY <1>b, <2>1, <2>3, <2>4, <2>5, <2>6 DEF Destroyed, KeepsOf
<1> QED
  BY <1>b, <1>1, <1>2, <1>3 DEF Destroying, Destroyed

(* The other steps. *)
LEMMA OtherDestroying ==
    ASSUME Remembering, Unmade, Destroying, NEW p \in Puts, \A q \in Puts : DestroysOnly(q),
           Start(p) \/ ApplyProvision(p) \/ Kill(p), ~met'
    PROVE  Destroying'
<1> USE DEF Remembering, Sequential, LegacyTypeOK
<1>1. CASE Start(p)
  <2>1. /\ pc[p] = "idle" /\ pc' = [pc EXCEPT ![p] = "stateExists"]
        /\ UNCHANGED <<state, infra, local, req, reply, undeleted>>
        /\ \A q \in Puts : ~Running(q)
        /\ began' = [began EXCEPT ![p] = UNION {state[k].recorded : k \in StateKeys}]
    BY <1>1 DEF Start, Continue, Goto, bucket, files
  <2>2. \A q \in Puts \ {p} : pc'[q] = pc[q] /\ began'[q] = began[q]
    BY <2>1
  <2>3. began'[p] = Bucket
    BY <2>1 DEF Bucket, StateKeys
  <2>4. \A q \in Puts : pc[q] = "idle" => q \notin Bucket
    BY DEF Unmade, Unknown, Bucket, StateKeys
  <2>5. NotBefore'
    BY <2>1, <2>2, <2>3, <2>4 DEF Destroying, NotBefore, Running
  <2>6. ASSUME ~undeleted' PROVE \A q \in Puts : Destroyed(q)'
    <3>1. Destroyed(p)'
      <4>1. pc'[p] = "stateExists" /\ Bucket' = Bucket /\ reply'[p] # "version"
        BY <2>1 DEF Bucket, DestroysOnly
      <4>2. Left(p)' \subseteq Bucket'
        BY <2>3, <4>1 DEF Left
      <4> QED
        BY <4>1, <4>2 DEF Destroyed, KeepsOf, Works
    <3>2. ASSUME NEW q \in Puts \ {p} PROVE Destroyed(q)'
      BY <2>1, <2>2, <2>6 DEF Destroying, Destroyed, Left, Running
    <3> QED
      BY <3>1, <3>2
  <2> QED
    BY <2>5, <2>6 DEF Destroying
<1>2. CASE ApplyProvision(p)
  <2>1. /\ pc[p] = "applying" /\ infra' = infra \cup {p}
        /\ UNCHANGED <<pc, state, local, req, reply, undeleted, began>>
        /\ Running(p)
    BY <1>2 DEF ApplyProvision, bucket, files, history, Running
  <2>2. NotBefore'
    BY <2>1 DEF Destroying, NotBefore, Running
  <2>3. req[p].kind # "destroy"
    BY <2>1 DEF DestroysOnly, InSetup
  <2>4. \A q \in Puts : Left(q)' = Left(q)
    BY <2>1 DEF Left, Destroying, NotBefore
  <2>5. \A q \in Puts \ {p} : ~Running(q) /\ ~Running(q)'
    BY <2>1 DEF Alone, Running
  <2>6. ASSUME ~undeleted', NEW q \in Puts PROVE Destroyed(q)'
    BY <2>1, <2>3, <2>4, <2>5, <2>6 DEF Destroying, Destroyed
  <2> QED
    BY <2>2, <2>6 DEF Destroying
<1>3. CASE Kill(p)
  <2>1. /\ pc' = [pc EXCEPT ![p] = "killed"] /\ infra' \subseteq infra /\ Running(p)
        /\ UNCHANGED <<state, local, req, reply, undeleted, began>>
    BY <1>3 DEF Kill, Goto, bucket, files, history
  <2>2. /\ pc'[p] = "killed" /\ \A q \in Puts \ {p} : pc'[q] = pc[q]
        /\ \A q \in Puts : ~Running(q)'
    BY <2>1 DEF Alone, Running
  <2>3. NotBefore'
    BY <2>1, <2>2 DEF Destroying, NotBefore
  <2>4. \A q \in Puts : Left(q)' \subseteq Left(q)
    BY <2>1 DEF Left
  <2>5. ASSUME ~undeleted', NEW q \in Puts PROVE Destroyed(q)'
    BY <2>1, <2>2, <2>4, <2>5 DEF Destroying, Destroyed, Running
  <2> QED
    BY <2>3, <2>5 DEF Destroying
<1> QED
  BY <1>1, <1>2, <1>3

LEMMA NextUnmade ==
    ASSUME LegacyTypeOK, [Next]_vars, Unmade
    PROVE  Unmade'
<1>1. ASSUME NEW p \in Puts, Step(p) PROVE Unmade'
  <2>1. \A q \in Puts \ {p} : pc'[q] = pc[q]
    BY <1>1, OwnStep
  <2> QED
    BY <1>1, <2>1, OwnStep, StepUnknown DEF Unmade
<1>2. ASSUME NEW p \in Puts, Start(p) \/ ApplyProvision(p) \/ Kill(p) PROVE Unmade'
  <2>1. UNCHANGED <<state, local>> /\ \A q \in Puts : pc'[q] = "idle" => pc[q] = "idle"
    BY <1>2
       DEF LegacyTypeOK, Start, ApplyProvision, Kill, Continue, Goto, bucket, files
  <2> QED
    BY <2>1 DEF Unmade, Unknown
<1>3. CASE UNCHANGED vars
  BY <1>3 DEF vars, bucket, files, Unmade, Unknown
<1> QED
  BY <1>1, <1>2, <1>3 DEF Next, AllEnded

LEMMA NextDestroysOnly ==
    ASSUME LegacyTypeOK, [Next]_vars, \A p \in Puts : DestroysOnly(p)
    PROVE  \A p \in Puts : DestroysOnly(p)'
<1>1. ASSUME NEW p \in Puts, Step(p), NEW q \in Puts PROVE DestroysOnly(q)'
  <2>1. q # p => pc'[q] = pc[q] /\ reply'[q] = reply[q] /\ req' = req
    BY <1>1, OwnStep, StepControl
  <2> QED
    BY <1>1, <2>1, StepDestroysOnly DEF DestroysOnly
<1>2. ASSUME NEW p \in Puts, Start(p) \/ ApplyProvision(p) \/ Kill(p), NEW q \in Puts
      PROVE  DestroysOnly(q)'
  <2>1. /\ UNCHANGED <<req, reply>>
        /\ \/ pc'[q] = pc[q]
           \/ pc[q] # "done" /\ pc'[q] \in {"stateExists", "killed"}
    BY <1>2 DEF LegacyTypeOK, Start, ApplyProvision, Kill, Continue, Goto, Running
  <2> QED
    BY <2>1 DEF DestroysOnly, InSetup
<1>3. CASE UNCHANGED vars
  BY <1>3 DEF vars, DestroysOnly
<1> QED
  BY <1>1, <1>2, <1>3 DEF Next, AllEnded

LEMMA NextDestroying == DInv /\ [Next]_vars => DInv'
<1> SUFFICES ASSUME DInv, [Next]_vars PROVE DInv'
  OBVIOUS
<1>1. KInv' /\ LegacyTypeOK
  BY NextRemembers DEF DInv, KInv, IInv
<1>2. Unmade' /\ \A p \in Puts : DestroysOnly(p)'
  BY <1>1, NextUnmade, NextDestroysOnly DEF DInv
<1>3. ASSUME ~met' PROVE Destroying'
  <2>1. Remembering /\ Destroying
    BY <1>3, Meeting DEF DInv, KInv
  <2>2. CASE UNCHANGED vars
    BY <2>1, <2>2
       DEF vars, bucket, files, history, Destroying, NotBefore, Destroyed, Left, KeepsOf, Bucket,
           Running
  <2> QED
    BY <1>3, <2>1, <2>2, StepDestroying, OtherDestroying DEF DInv, Next, AllEnded
<1> QED
  BY <1>1, <1>2, <1>3 DEF DInv

LEMMA InitDestroying == Init => DInv
<1> SUFFICES ASSUME Init PROVE DInv
  OBVIOUS
<1>1. KInv
  BY InitRemembers DEF KInv, Remembering, IInv, Sequential
<1>2. /\ \A p \in Puts : pc[p] = "idle" /\ local[p] = NoFile /\ began[p] = {} /\ reply[p] = "none"
      /\ \A k \in StateKeys : state[k] \in {NoFile, Earlier}
  BY DEF Init
<1>3. Unmade
  BY <1>2, LegacyAssumption DEF Unmade, Unknown, NoFile, Earlier
<1>4. Destroying /\ \A p \in Puts : DestroysOnly(p)
  BY <1>2 DEF Destroying, NotBefore, Destroyed, Left, Running, DestroysOnly
<1> QED
  BY <1>1, <1>3, <1>4 DEF DInv

(* When the puts of the env run one after the other, a put that reports a  *)
(* destroy has destroyed what the bucket recorded when it started, unless  *)
(* the deletion of an original has failed, whatever was aborted or could   *)
(* not be uploaded before.                                                 *)
THEOREM DestroysWhatIsRecorded == Spec => []DestroysOneStateFile
<1>1. DInv => DestroysOneStateFile
  BY DEF DInv, Destroying, Destroyed, Left, DestroysOneStateFile
<1> QED
  BY <1>1, InitDestroying, NextDestroying, PTL DEF Spec

-----------------------------------------------------------------------------
(* Aborted puts.  An aborted put may lose its own instance.  Those of the  *)
(* others are in the bucket all the time, but for the two windows in which *)
(* a state file is deleted before the new one is uploaded.                 *)
Surviving == {i \in Puts \cap infra : pc[i] # "killed"}
Window(p) == pc[p] = "taintUpload" \/ (pc[p] = "upload" /\ "tainted" \in found[p])
KnowsTaint(p) == Running(p) /\ key[p] = "tainted" /\ pc[p] # "taintUpload" => "tainted" \in found[p]

Stays(p, S) == Running(p) /\ ~Window(p) => S \ {p} \subseteq Bucket
Survives ==
    /\ ~undeleted
    /\ (\A p \in Puts : ~Running(p)) => Surviving \subseteq Bucket
    /\ \A p \in Puts : KeepsOf(p, Surviving) /\ Stays(p, Surviving)

(* The inductive invariant. *)
Aborting == faults = 0 /\ (\A p \in Puts : ~Unsafe(p)) => Survives
AInv == KInv /\ (~met => (\A p \in Puts : KnowsTaint(p)) /\ Aborting)

(* A put that works on a tainted state file has found it.                  *)
LEMMA StepKnowsTaint ==
    ASSUME LegacyTypeOK, NEW p \in Puts, KnowsTaint(p), Step(p)
    PROVE  KnowsTaint(p)' /\ found[p] \subseteq found'[p]
<1>a. Running(p)
  BY OwnStep
<1> USE DEF LegacyTypeOK, Call, Continue, Refused, Fault, Faulty, Goto, files, KnowsTaint
<1>1. CASE TaintedExists(p)
  <2> DEFINE tainted == {k \in {"tainted"} : state[k] # NoFile}
  <2>1. \/ found'[p] = found[p] \cup tainted /\ key'[p] = IF tainted = {} THEN key[p] ELSE "tainted"
        \/ found'[p] = found[p] /\ key'[p] = key[p]
    BY <1>1 DEF TaintedExists
  <2>2. tainted # {} => "tainted" \in tainted
    OBVIOUS
  <2>3. pc[p] = "taintedExists"
    BY <1>1 DEF TaintedExists
  <2> HIDE DEF tainted
  <2> QED
    BY <1>a, <2>1, <2>2, <2>3
<1>2. CASE StateExists(p) \/ PlanExists(p)
  <2>1. key'[p] = key[p] /\ found[p] \subseteq found'[p] /\ pc[p] # "taintUpload"
    BY <1>2 DEF StateExists, PlanExists, Finds
  <2> QED
    BY <1>a, <2>1
<1>3. CASE TaintDelete(p)
  BY <1>3 DEF TaintDelete
<1>4. CASE TaintUpload(p)
  <2>1. found'[p] = found[p] /\ pc'[p] = "done"
    BY <1>4, Errors DEF TaintUpload, Upload
  <2> QED
    BY <2>1 DEF Running
<1>5. CASE Untaint(p)
  <2>1. found'[p] = found[p] /\ key'[p] \in {key[p], "state"} /\ pc[p] = "untaint"
    BY <1>5 DEF Untaint
  <2> QED
    BY <1>a, <2>1
<1>6. CASE \/ PlanDownload(p) \/ StateDownload(p) \/ InitWithoutBackend(p) \/ Import(p)
           \/ ApplyStart(p) \/ PlanCheck(p) \/ PlanDelete(p) \/ Output(p)
           \/ DestroyStart(p) \/ DestroyEnd(p) \/ DestroyPlan(p)
           \/ Plan(p) \/ PlanUpload(p) \/ TfVersion(p)
  <2>1. found' = found /\ pc[p] # "taintUpload"
    BY <1>6 DEF PlanDownload, StateDownload, InitWithoutBackend, Import, ApplyStart, PlanCheck,
       PlanDelete, Output, DestroyStart, DestroyEnd, DestroyPlan, Plan, PlanUpload, TfVersion,
       SetLocal, SetPlan, Destroys
  <2> QED
    BY <1>6, <1>a, <2>1, QuietSteps
<1>7. CASE ApplyEnd(p) \/ UploadState(p) \/ DestroyState(p)
  <2>1. found' = found /\ key' = key /\ pc[p] # "taintUpload"
    BY <1>7 DEF ApplyEnd, UploadState, DestroyState, SetLocal, Upload, Delete
  <2> QED
    BY <1>a, <2>1
<1> QED
  BY <1>1, <1>2, <1>3, <1>4, <1>5, <1>6, <1>7 DEF Step

(* Which steps change the bucket when nothing fails, and where they lead.  *)
LEMMA StepBucket ==
    ASSUME LegacyTypeOK, NEW p \in Puts, KnowsBucket(p), KnowsTaint(p), Step(p),
           faults = 0, faults' = 0
    PROVE  \/ state' = state /\ ~Window(p)
           \/ Window(p)'
           \/ pc'[p] \in MayEnd \cup {"done"}
<1>a. Running(p) /\ found[p] \subseteq found'[p]
  BY OwnStep, StepKnowsTaint
<1> USE DEF LegacyTypeOK, Call, Continue, Refused, Fault, Faulty, Goto, bucket, files, Window,
            MayEnd, InSetup
<1>1. CASE \/ PlanDownload(p) \/ StateDownload(p) \/ InitWithoutBackend(p) \/ Import(p)
           \/ ApplyStart(p) \/ PlanCheck(p) \/ PlanDelete(p) \/ Output(p)
           \/ DestroyStart(p) \/ DestroyEnd(p) \/ DestroyPlan(p)
           \/ Plan(p) \/ PlanUpload(p) \/ TfVersion(p)
  <2>1. pc[p] \notin {"taintUpload", "upload"}
    BY <1>1 DEF PlanDownload, StateDownload, InitWithoutBackend, Import, ApplyStart, PlanCheck,
       PlanDelete, Output, DestroyStart, DestroyEnd, DestroyPlan, Plan, PlanUpload, TfVersion
  <2> QED
    BY <1>1, <2>1, QuietSteps
<1>2. CASE StateExists(p) \/ PlanExists(p)
  BY <1>2 DEF StateExists, PlanExists, Finds
<1>3. CASE TaintedExists(p) \/ ApplyEnd(p)
  BY <1>3 DEF TaintedExists, ApplyEnd, SetLocal
<1>4. CASE Untaint(p)
  <2>1. pc[p] = "untaint" /\ pc'[p] = "upload" /\ "tainted" \in found[p]
    BY <1>4, <1>a DEF Untaint, KnowsBucket, KnowsTaint
  <2> QED
    BY <1>a, <2>1
<1>5. CASE UploadState(p) \/ DestroyState(p)
  BY <1>5 DEF UploadState, DestroyState
<1>6. CASE TaintDelete(p)
  BY <1>6 DEF TaintDelete
<1>7. CASE TaintUpload(p)
  BY <1>7, Errors DEF TaintUpload
<1> QED
  BY <1>1, <1>2, <1>3, <1>4, <1>5, <1>6, <1>7 DEF Step

(* Nothing is left beside a tainted state file, and what is not uploaded   *)
(* is nothing, when no call fails.                                         *)
LEMMA StepUndeleted ==
    ASSUME LegacyTypeOK, NEW p \in Puts, Step(p), faults = 0, faults' = 0
    PROVE  /\ undeleted' => undeleted
           /\ pc[p] = "taintUpload" => state'[key[p]] = local[p] \/ local[p] = NoFile
<1> USE DEF LegacyTypeOK, Call, Continue, Refused, Fault, Faulty, history
<1>1. CASE TaintDelete(p)
  BY <1>1 DEF TaintDelete, Without, StateKeys
<1>2. CASE TaintUpload(p)
  BY <1>2 DEF TaintUpload, Upload
<1>3. CASE ~TaintDelete(p) /\ ~TaintUpload(p)
  <2>1. pc[p] # "taintUpload"
    BY <1>3, StepShrinks
  <2>2. undeleted' = undeleted
    BY <1>3
       DEF Step, StateExists, PlanExists, TaintedExists, PlanDownload, StateDownload,
           InitWithoutBackend, Import, ApplyStart, ApplyEnd, Untaint, UploadState, PlanCheck,
           PlanDelete, Output, DestroyStart, DestroyEnd, DestroyPlan, DestroyState, Plan,
           PlanUpload, TfVersion
  <2> QED
    BY <2>1, <2>2
<1> QED
  BY <1>1, <1>2, <1>3

LEMMA StepAborting ==
    ASSUME Remembering, Aborting, NEW p \in Puts, KnowsTaint(p), Step(p),
           faults' = 0, \A q \in Puts : ~Unsafe(q)'
    PROVE  Survives'
<1>a. /\ LegacyTypeOK /\ KnowsBucket(p) /\ OneFile /\ PlansOnly(p)
      /\ Running(p) /\ \A q \in Puts \ {p} : ~Running(q)
  BY OwnStep DEF Remembering, Sequential, Alone
<1>b. /\ infra' \subseteq infra /\ faults = 0
      /\ \A q \in Puts \ {p} : pc'[q] = pc[q] /\ cause'[q] = cause[q] /\ found'[q] = found[q]
      /\ pc[p] # "killed" /\ pc'[p] \notin {"idle", "killed"}
  BY <1>a, StepControl, StepShrinks, OwnStep DEF LegacyTypeOK, Running
<1>c. Survives
  BY <1>b DEF Aborting, Unsafe
<1>1. PICK S, T : S = Surviving /\ T = Surviving'
  OBVIOUS
<1>2. T = S \cap infra' /\ S \subseteq infra /\ KeepsOf(p, S) /\ Stays(p, S) /\ ~undeleted
  BY <1>b, <1>c, <1>1 DEF Surviving, Survives
<1>3. /\ KeepsOf(p, T)' /\ (~Running(p)' => T \subseteq Bucket')
      /\ ~undeleted'
  BY <1>a, <1>b, <1>2, StepKeeps, StepUndeleted
<1>4. Stays(p, T)'
  <2>1. CASE state' = state /\ ~Window(p)
    BY <1>a, <1>2, <2>1 DEF Stays, Bucket
  <2>2. CASE Window(p)'
    BY <2>2 DEF Stays
  <2>3. CASE pc'[p] \in MayEnd \cup {"done"}
    BY <1>3, <2>3 DEF Stays, KeepsOf, Running
  <2> QED
    BY <1>a, <1>b, <2>1, <2>2, <2>3, StepBucket
<1>5. ASSUME NEW q \in Puts \ {p} PROVE (KeepsOf(q, Surviving) /\ Stays(q, Surviving))'
  <2>1. pc'[q] \in {"idle", "done", "killed"} /\ ~Running(q)'
    BY <1>a, <1>b DEF Running
  <2> QED
    BY <2>1 DEF KeepsOf, Stays, MayEnd, InSetup, Works
<1>6. (KeepsOf(p, Surviving) /\ Stays(p, Surviving))'
  BY <1>1, <1>3, <1>4 DEF KeepsOf, Stays
<1> QED
  BY <1>1, <1>3, <1>5, <1>6 DEF Survives

LEMMA OtherAborting ==
    ASSUME Remembering, Aborting, NEW p \in Puts, Start(p) \/ ApplyProvision(p) \/ Kill(p), ~met',
           faults' = 0, \A q \in Puts : ~Unsafe(q)'
    PROVE  Survives'
<1> USE DEF Remembering, Sequential, LegacyTypeOK
<1>1. CASE Start(p)
  <2>1. /\ pc[p] = "idle" /\ pc' = [pc EXCEPT ![p] = "stateExists"]
        /\ UNCHANGED <<state, infra, local, cause, found, faults, undeleted>>
        /\ \A q \in Puts : ~Running(q)
    BY <1>1 DEF Start, Continue, Goto, bucket, files
  <2>2. pc'[p] = "stateExists" /\ \A q \in Puts \ {p} : pc'[q] = pc[q] /\ ~Running(q)'
    BY <2>1 DEF Running
  <2>3. Survives
    BY <2>1, <2>2 DEF Aborting, Unsafe
  <2>4. Surviving' = Surviving /\ Bucket' = Bucket
    BY <2>1, <2>2 DEF Surviving, Bucket
  <2>5. Surviving \subseteq Bucket
    BY <2>1, <2>3 DEF Survives
  <2>6. \A q \in Puts \ {p} : pc'[q] \in {"idle", "done", "killed"}
    BY <2>1, <2>2 DEF Running
  <2> QED
    BY <2>1, <2>2, <2>3, <2>4, <2>5, <2>6
       DEF Survives, KeepsOf, Stays, MayEnd, InSetup, Works, Running
<1>2. CASE ApplyProvision(p)
  <2>1. /\ pc[p] = "applying" /\ infra' = infra \cup {p}
        /\ UNCHANGED <<pc, state, local, cause, found, faults, undeleted>>
    BY <1>2 DEF ApplyProvision, bucket, files, history
  <2>2. Running(p) /\ ~Window(p) /\ ~Window(p)' /\ \A q \in Puts \ {p} : ~Running(q)
    BY <2>1 DEF Alone, Running, Window
  <2>3. Survives
    BY <2>1 DEF Aborting, Unsafe
  <2>4. Surviving' = Surviving \cup {p} /\ Bucket' = Bucket
    BY <2>1 DEF Surviving, Bucket
  <2>5. KeepsOf(p, Surviving) /\ Stays(p, Surviving)
    BY <2>3 DEF Survives
  <2>6. \A q \in Puts \ {p} : pc'[q] \in {"idle", "done", "killed"}
    BY <2>1, <2>2 DEF Running
  <2> QED
    BY <2>1, <2>2, <2>3, <2>4, <2>5, <2>6
       DEF Survives, KeepsOf, Stays, MayEnd, InSetup, Works, Running
<1>3. CASE Kill(p)
  <2>1. /\ pc' = [pc EXCEPT ![p] = "killed"] /\ infra' \subseteq infra /\ Running(p)
        /\ cause' = [cause EXCEPT ![p] = pc[p]]
        /\ UNCHANGED <<state, local, found, faults, undeleted>>
    BY <1>3 DEF Kill, Goto, bucket, files, history
  <2>2. /\ pc'[p] = "killed" /\ \A q \in Puts \ {p} : pc'[q] = pc[q] /\ cause'[q] = cause[q]
        /\ \A q \in Puts : ~Running(q)' /\ cause'[p] = pc[p]
    BY <2>1 DEF Alone, Running
  <2>3. Survives
    BY <2>1, <2>2 DEF Aborting, Unsafe, Running
  <2>4. Surviving' \subseteq Surviving \ {p} /\ Bucket' = Bucket
    BY <2>1, <2>2 DEF Surviving, Bucket
  <2>5. ~Window(p)
    BY <2>1, <2>2 DEF Unsafe, Window
  <2>6. Surviving \ {p} \subseteq Bucket
    BY <2>1, <2>3, <2>5 DEF Survives, Stays
  <2>7. \A q \in Puts : pc'[q] \in {"idle", "done", "killed"}
    BY <2>2 DEF Running
  <2> QED
    BY <2>1, <2>2, <2>3, <2>4, <2>6, <2>7 DEF Survives, KeepsOf, Stays, MayEnd, InSetup, Works
<1> QED
  BY <1>1, <1>2, <1>3

LEMMA NextKnowsTaint ==
    ASSUME Remembering, [Next]_vars, \A p \in Puts : KnowsTaint(p)
    PROVE  \A p \in Puts : KnowsTaint(p)'
<1> USE DEF Remembering, Sequential
<1>1. ASSUME NEW p \in Puts, Step(p), NEW q \in Puts PROVE KnowsTaint(q)'
  <2>1. q # p => pc'[q] = pc[q] /\ key'[q] = key[q] /\ found'[q] = found[q]
    BY <1>1, OwnStep
  <2> QED
    BY <1>1, <2>1, StepKnowsTaint DEF KnowsTaint, Running
<1>2. ASSUME NEW p \in Puts, Start(p) \/ ApplyProvision(p) \/ Kill(p), NEW q \in Puts
      PROVE  KnowsTaint(q)'
  <2>1. /\ UNCHANGED <<key, found>>
        /\ pc'[q] = pc[q] \/ pc'[q] = "killed" \/ (pc[q] = "idle" /\ pc'[q] = "stateExists")
    BY <1>2 DEF LegacyTypeOK, Start, ApplyProvision, Kill, Continue, Goto, files
  <2>2. pc[q] = "idle" => key[q] = "state"
    BY DEF Fresh
  <2> QED
    BY <2>1, <2>2 DEF KnowsTaint, Running
<1>3. CASE UNCHANGED vars
  BY <1>3 DEF vars, files, KnowsTaint, Running
<1> QED
  BY <1>1, <1>2, <1>3 DEF Next, AllEnded

LEMMA NextAborting == AInv /\ [Next]_vars => AInv'
<1> SUFFICES ASSUME AInv, [Next]_vars PROVE AInv'
  OBVIOUS
<1>1. KInv'
  BY NextRemembers DEF AInv
<1>2. ASSUME ~met' PROVE (\A p \in Puts : KnowsTaint(p)') /\ Aborting'
  <2>1. Remembering /\ Aborting /\ \A p \in Puts : KnowsTaint(p)
    BY <1>2, Meeting DEF AInv, KInv
  <2>2. \A p \in Puts : KnowsTaint(p)'
    BY <2>1, NextKnowsTaint
  <2>3. CASE UNCHANGED vars
    <3>1. /\ UNCHANGED <<state, infra, pc, local, found, cause, faults, undeleted>>
          /\ Surviving' = Surviving /\ Bucket' = Bucket
      BY <2>3 DEF vars, bucket, files, history, Surviving, Bucket
    <3>2. (\A p \in Puts : ~Unsafe(p)') <=> (\A p \in Puts : ~Unsafe(p))
      BY <3>1 DEF Unsafe
    <3>3. ASSUME Survives PROVE Survives'
      BY <3>1, <3>3 DEF Survives, Stays, Window, KeepsOf, Running
    <3> QED
      BY <2>1, <2>2, <3>1, <3>2, <3>3 DEF Aborting
  <2>4. ASSUME faults' = 0, \A p \in Puts : ~Unsafe(p)', ~UNCHANGED vars PROVE Survives'
    BY <1>2, <2>1, <2>4, StepAborting, OtherAborting DEF Next, AllEnded
  <2> QED
    BY <2>2, <2>3, <2>4 DEF Aborting
<1> QED
  BY <1>1, <1>2 DEF AInv

LEMMA InitAborting == Init => AInv
<1> SUFFICES ASSUME Init PROVE AInv
  OBVIOUS
<1>1. KInv
  BY InitRemembers DEF KInv, Remembering, IInv, Sequential
<1>2. ~undeleted /\ \A p \in Puts : pc[p] = "idle"
  BY DEF Init
<1>3. Surviving = {}
  BY LegacyAssumption DEF Init, Surviving
<1> QED
  BY <1>1, <1>2, <1>3
     DEF AInv, KnowsTaint, Aborting, Survives, KeepsOf, Stays, MayEnd, InSetup, Works, Running

(* What survives is recorded.                                              *)
LEMMA SurvivingIsRecorded == AInv => AbortsForgetInWindows
<1> SUFFICES ASSUME AInv, ~met, faults = 0, \A p \in Puts : ~Unsafe(p), NEW i \in Surviving
             PROVE  Recorded(i)
  BY DEF AbortsForgetInWindows, Forgotten, Surviving
<1>1. Survives /\ LegacyTypeOK
  BY DEF AInv, Aborting, KInv, IInv
<1> USE DEF Recorded, StateKeys
<1>2. CASE i \in Bucket
  BY <1>2 DEF Bucket
<1>3. CASE i \notin Bucket
  <2>1. PICK p \in Puts : Running(p)
    BY <1>1, <1>3 DEF Survives
  <2>2. KeepsOf(p, Surviving) /\ pc[p] \in Labels
    BY <1>1 DEF Survives, LegacyTypeOK
  <2>3. pc[p] \in Works \cup {"applying"}
    BY <1>3, <2>1, <2>2 DEF KeepsOf, Labels, Running, MayEnd, InSetup, Works
  <2> QED
    BY <2>1, <2>2, <2>3 DEF KeepsOf
<1> QED
  BY <1>2, <1>3

(* When the puts of the env run one after the other and no call fails, an  *)
(* aborted put makes the bucket forget what an earlier one has made only   *)
(* where the earlier state file is deleted before the new one is uploaded, *)
(* whichever puts are aborted and wherever else.                           *)
THEOREM AbortsLoseInWindows == Spec => []AbortsForgetInWindows
BY InitAborting, NextAborting, SurvivingIsRecorded, PTL DEF Spec
=============================================================================
