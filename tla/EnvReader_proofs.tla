---------------------------- MODULE EnvReader_proofs ----------------------------
(***************************************************************************)
(* Proofs about get and check beside the puts, for every set of puts,      *)
(* envs, readers and requests and every number of faults.                  *)
(*                                                                         *)
(* What a reader has read of an env is compared with what the env's state  *)
(* is later.  So the proofs rest on what a put can do to a state: write it *)
(* once more, create it under a lineage that nobody has seen, or delete    *)
(* it.  The lineage of a state file from the bucket is the exception: the  *)
(* workspace made from the file has the file's version again.  A put that  *)
(* holds a copy of the file while another put migrates the env and         *)
(* destroys it would bring that version back, which is what CopiesFresh    *)
(* excludes.                                                               *)
(***************************************************************************)
EXTENDS EnvReader, MigratedPut_proofs, FiniteSetTheorems

Held(e) == \E k \in StateKeys : Holds(e, k)

(* The put that creates the workspace of an env from the state file it has *)
(* downloaded finds the file in the bucket still.                          *)
CopiesFresh == \A p \in Puts : pc[p] \in Entries /\ move[p] = "new" => Held(Env(p))

(* A put that will create no workspace any more: it has created or found   *)
(* the one of its env, or it destroys, and then there is nothing to move.  *)
Made(p) ==
    /\ pc[p] \notin Making
    /\ pc[p] = "destroySelect" => ~Held(Env(p)) \/ Env(p) \in spaces

(* A version that has been read of env e: the state of e is not older, and *)
(* nobody will start its lineage over.                                     *)
Settled(e, v) ==
    /\ e \in spaces => NotOlder(v, version[e])
    /\ v.lineage = e /\ Held(e) => v.serial <= 1 /\ e \in spaces
    /\ v.lineage \in Puts => Made(v.lineage)

(* The lineage belongs to e: that of a put of e or of its state file, or   *)
(* of the default workspace, which nobody has created.                     *)
OfEnv(e, v) ==
    /\ v.lineage \in Puts => Env(v.lineage) = e
    /\ v.lineage \in Envs => v.lineage = e
    /\ v.lineage = Nobody => v.serial = 0 \/ e = Default
Of(e, v) == Settled(e, v) /\ OfEnv(e, v)
Current(e) ==
    IF e \in spaces THEN Of(e, version[e]) /\ (version[e].lineage = Nobody => e = Default)
    ELSE version[e] = NoVersion
Versioned == (\A e \in Envs : Current(e)) /\ \A p \in Puts : Of(Env(p), seen[p].state)

-----------------------------------------------------------------------------
(* What a step of the specification can do to the state of an env.         *)
Creates(p, e) ==
    /\ e = Env(p) /\ e \notin spaces /\ e \in spaces'
    /\ \/ /\ pc[p] = "new" \/ (pc[p] \in Entries /\ move[p] = "new")
          /\ version'[e] = [lineage |-> p, serial |-> 0]
          /\ pc'[p] \notin Making
       \/ /\ pc[p] \in Entries /\ move[p] = "new"
          /\ version'[e] = [lineage |-> e, serial |-> 1]
StateStep(p, e) ==
    \/ version'[e] = version[e] /\ (e \in spaces' <=> e \in spaces)
    \/ /\ e = Env(p) /\ e \in spaces \cap spaces' /\ ~Held(e)
       /\ version'[e].lineage = version[e].lineage /\ version'[e].serial = version[e].serial + 1
    \/ Creates(p, e)
    \/ e = Env(p) /\ e \in spaces \ spaces' /\ version'[e] = NoVersion /\ ~Held(e)

(* A put never goes back to where it would create a workspace, and the     *)
(* bucket never gets a state file.                                         *)
PutStep(p) ==
    /\ \A e \in Envs : StateStep(p, e) /\ (Held(e)' => Held(e))
    /\ req' = req /\ \A q \in Puts : Env(q)' = Env(q) /\ (q # p => pc'[q] = pc[q])
    /\ pc[p] \notin Making => pc'[p] \notin Making
    /\ pc[p] \notin Making \cup {"destroySelect"} /\ pc'[p] = "destroySelect" => ~Held(Env(p))

LEMMA HeldShrinks ==
    ASSUME BucketShrinks, NEW e \in Envs, Held(e)'
    PROVE  Held(e)
BY DEF BucketShrinks, Held, Holds

LEMMA PlacedHeld ==
    ASSUME MInv, NEW p \in Puts,
           \/ move[p] = "done"
           \/ pc[p] \notin {"idle", "setup"} \cup Entries \cup Ended
    PROVE  ~Held(Env(p))
BY DEF MInv, Home, Placed, Held, Holds, Found

LEMMA ActionPutStep ==
    ASSUME MInv, PlanNamesApart, NEW p \in Puts, ActionStep(p)
    PROVE  PutStep(p)
<1>a. /\ IInv /\ TypeOK /\ OwnWorkspace
  BY DEF MInv, IInv
<1>1. PICK label \in Labels : Moves(p, label)
  BY <1>a, ActionMoves
<1>2. /\ req' = req /\ \A q \in Puts : Env(q)' = Env(q) /\ (q # p => pc'[q] = pc[q])
      /\ pc'[p] = label /\ (label \in Making => pc[p] \in Making)
      /\ Running(p) /\ \A e \in Envs : Held(e)' = Held(e)
  BY <1>a, <1>1, ActionCases
     DEF Moves, Goto, Env, TypeOK, ControlTypeOK, Held, Holds
<1>3. pc[p] \notin {"idle", "setup"} => ~Held(Env(p))
  BY <1>2, ActionCases, PlacedHeld DEF Running
<1>4. ASSUME NEW e \in Envs PROVE StateStep(p, e)
  <2>1. VersionStep(p, e)
    BY <1>a, <1>1, MovesVersions
  <2>2. pc[p] = "new" => label \notin Making
    BY <1>1 DEF Moves
  <2> QED
    BY <1>2, <1>3, <2>1, <2>2 DEF VersionStep, StateStep, Creates, InSelected
<1> QED
  BY <1>2, <1>3, <1>4 DEF PutStep, Making

LEMMA MigratePutStep ==
    ASSUME MInv, NEW p \in Puts, Migrate(p)
    PROVE  PutStep(p)
<1>a. /\ MigratedTypeOK /\ TypeOK /\ pc[p] \in Entries /\ Env(p) \in Envs \cap Names
      /\ version \in [Names -> Versions] /\ pc \in [Puts -> Labels]
      /\ BucketShrinks /\ move \in [Puts -> MoveSteps]
  BY MigrateShrinks, MigrateControl, RequestTypes
     DEF MInv, MigratedTypeOK, TypeOK, ClientTypeOK, ControlTypeOK, Names
<1>b. move[p] = "new" => local[p].version = [lineage |-> Env(p), serial |-> 1]
  <2>1. move[p] = "new" => local[p] = LegacyFile(Env(p))
    BY DEF MInv, Carried
  <2> QED
    BY <2>1 DEF LegacyFile
<1>1. /\ req' = req /\ \A q \in Puts : Env(q)' = Env(q) /\ (q # p => pc'[q] = pc[q])
      /\ pc[p] \notin Making => pc'[p] \notin Making
      /\ pc'[p] \in {"destroySelect", "done", pc[p]} \/ pc'[p] \notin Making \cup {"destroySelect"}
  BY <1>a, MigrateControl, WorkspaceLabels
     DEF FailsOver, GoesOn, Goto, Making, Entries, Env
<1>2. \A e \in Envs : Held(e)' => Held(e)
  BY <1>a, HeldShrinks
<1>3. \A e \in Envs : e # Env(p) => version'[e] = version[e] /\ (e \in spaces' <=> e \in spaces)
  BY MigrateWrites
<1>4. StateStep(p, Env(p))
  <2>1. CASE UNCHANGED clientVars
    BY <2>1 DEF StateStep, clientVars, backend
  <2>2. CASE move[p] = "push" /\ Pushed(p)
    BY <2>2 DEF StateStep, Pushed
  <2>3. CASE move[p] = "new" /\ FromState(p)
    BY <1>a, <1>b, <2>3 DEF FromState, CanWorkspaceNew, StateStep, Creates
  <2>4. CASE move[p] = "new" /\ CanWorkspaceNew(Env(p)) /\ WorkspaceNew(p, Env(p), Env(p))
    <3>1. NewFromState(p)
      BY <2>4 DEF Migrate, LegacyExists, LegacyExistsAsTainted, LegacyDownload, StatePush,
                  LegacyKeep, LegacyDelete, Attempt
    <3>2. version'[Env(p)] = [lineage |-> p, serial |-> 0]
      BY <1>a, <2>4 DEF WorkspaceNew
    <3>3. p # Env(p)
      BY <1>a, ClientAssumption
    <3>4. Fault(p)
      BY <1>a, <1>b, <2>4, <3>1, <3>2, <3>3
         DEF NewFromState, Attempt, CanWorkspaceNew, clientVars, backend
    <3>5. pc'[p] \notin Making
      BY <1>a, <3>4 DEF Fault, Fail, Goto, Making
    <3> QED
      BY <1>a, <2>4, <3>2, <3>5 DEF CanWorkspaceNew, WorkspaceNew, StateStep, Creates
  <2> QED
    BY <1>a, <2>1, <2>2, <2>3, <2>4, MigrateData DEF ClientStep
<1>5. \A e \in Envs : StateStep(p, e)
  BY <1>3, <1>4 DEF StateStep
<1>6. pc[p] \notin Making \cup {"destroySelect"} => FALSE
  BY <1>a DEF Entries, Making
<1> QED
  BY <1>1, <1>2, <1>5, <1>6 DEF PutStep

LEMMA OtherPutStep ==
    ASSUME MInv, NEW p \in Puts,
           \/ MigratedStart(p)
           \/ (ApplyProvision(p) \/ Kill(p)) /\ UNCHANGED migration
    PROVE  PutStep(p)
<1>a. pc \in [Puts -> Labels]
  BY DEF MInv, MigratedTypeOK, TypeOK, ControlTypeOK
<1>1. /\ UNCHANGED <<bucket, spaces, version, req>>
      /\ \A q \in Puts : Env(q)' = Env(q) /\ (q # p => pc'[q] = pc[q])
      /\ pc'[p] = pc[p] \/ (pc[p] = "idle" /\ pc'[p] = "setup") \/ pc'[p] \in {"killed", "killedApply"}
  BY <1>a DEF MigratedStart, Start, Continue, ApplyProvision, Provision, Kill, Goto, Env, migration,
              control, clientVars, backend
<1> QED
  BY <1>1 DEF PutStep, StateStep, Held, Holds, Making

LEMMA KillNewPutStep ==
    ASSUME MInv, NEW p \in Puts, KillNewFromState(p)
    PROVE  PutStep(p)
<1>1. /\ KilledNew(p) /\ pc \in [Puts -> Labels] /\ version \in [Names -> Versions]
      /\ Env(p) \in Envs \cap Names /\ Envs \subseteq Names
  BY RequestTypes, KillNewCases
     DEF MInv, MigratedTypeOK, TypeOK, ClientTypeOK, ControlTypeOK, Names
<1>2. /\ UNCHANGED <<bucket, req>>
      /\ \A q \in Puts : Env(q)' = Env(q) /\ (q # p => pc'[q] = pc[q])
      /\ pc'[p] = "killed" /\ spaces' = spaces \cup {Env(p)}
      /\ version'[Env(p)] = [lineage |-> p, serial |-> 0]
      /\ \A e \in Envs : e # Env(p) => version'[e] = version[e]
  BY <1>1 DEF KilledNew, migration, Env
<1>3. \A e \in Envs : Held(e)' = Held(e)
  BY <1>2 DEF Held, Holds
<1>4. \A e \in Envs : StateStep(p, e)
  <2>1. Creates(p, Env(p))
    BY <1>1, <1>2 DEF KilledNew, Creates, Making
  <2>2. \A e \in Envs : e # Env(p) => version'[e] = version[e] /\ (e \in spaces' <=> e \in spaces)
    BY <1>2
  <2> QED
    BY <2>1, <2>2 DEF StateStep
<1> QED
  BY <1>2, <1>3, <1>4 DEF PutStep, Making

LEMMA NextPutStep ==
    ASSUME MInv, PlanNamesApart, [MigratedNext]_migratedVars
    PROVE  UNCHANGED migratedVars \/ \E p \in Puts : PutStep(p)
<1>1. CASE AllEnded /\ UNCHANGED migration
  BY <1>1 DEF AllEnded, migratedVars
<1> QED
  BY <1>1, ActionPutStep, MigratePutStep, OtherPutStep, KillNewPutStep DEF MigratedNext

-----------------------------------------------------------------------------
(* A version stays settled. *)
HeldNext(e) == \E k \in StateKeys : bucket'[e][k] # NoFile
MadeNext(p) ==
    /\ pc'[p] \notin Making
    /\ pc'[p] = "destroySelect" => ~HeldNext(Env(p)) \/ Env(p) \in spaces'
SettledNext(e, v) ==
    /\ e \in spaces' => NotOlder(v, version'[e])
    /\ v.lineage = e /\ HeldNext(e) => v.serial <= 1 /\ e \in spaces'
    /\ v.lineage \in Puts => MadeNext(v.lineage)

LEMMA PutTypes ==
    ASSUME MInv, NEW p \in Puts, PutStep(p)
    PROVE  /\ \A q \in Puts : Env(q) \in Envs
           /\ \A e \in Envs : StateStep(p, e) /\ (HeldNext(e) => Held(e))
           /\ version \in [Names -> Versions] /\ Envs \subseteq Names
           /\ \A v \in Versions : v.serial \in Nat
BY RequestTypes
   DEF MInv, MigratedTypeOK, TypeOK, ClientTypeOK, Names, PutStep, Versions, HeldNext, Held, Holds

LEMMA PutMade ==
    ASSUME MInv, NEW p \in Puts, PutStep(p), NEW q \in Puts, Made(q)
    PROVE  MadeNext(q)
<1>1. Env(q) \in Envs /\ StateStep(p, Env(q)) /\ (HeldNext(Env(q)) => Held(Env(q)))
  BY PutTypes
<1>2. pc'[q] \notin Making
  BY DEF PutStep, Made
<1>3. CASE pc[q] = "destroySelect"
  BY <1>1, <1>2, <1>3 DEF Made, MadeNext, StateStep, Creates
<1>4. CASE pc[q] # "destroySelect"
  BY <1>1, <1>2, <1>4 DEF PutStep, Made, MadeNext
<1> QED
  BY <1>3, <1>4

(* Nobody has seen the lineage of a workspace that is created. *)
LEMMA CreatedUnseen ==
    ASSUME MInv, CopiesFresh, NEW p \in Puts, NEW e \in Envs, Creates(p, e),
           NEW v, Settled(e, v)
    PROVE  v.lineage # version'[e].lineage
<1>1. CASE version'[e] = [lineage |-> p, serial |-> 0] /\ pc[p] = "new"
  BY <1>1 DEF Settled, Made, Making
<1>2. CASE pc[p] \in Entries /\ move[p] = "new"
  <2>1. Held(e)
    BY <1>2 DEF CopiesFresh, Creates
  <2>2. v.lineage = p => FALSE
    BY <1>2, <2>1 DEF Settled, Made, Making, Entries, Creates
  <2>3. v.lineage = e => FALSE
    BY <2>1 DEF Settled, Creates
  <2> QED
    BY <2>2, <2>3 DEF Creates
<1> QED
  BY <1>1, <1>2 DEF Creates

LEMMA PutSettled ==
    ASSUME MInv, CopiesFresh, NEW p \in Puts, PutStep(p), NEW e \in Envs, NEW v \in Versions,
           Settled(e, v)
    PROVE  /\ SettledNext(e, v)
           /\ Creates(p, e) => v.lineage # version'[e].lineage
<1>1. /\ StateStep(p, e) /\ (HeldNext(e) => Held(e))
      /\ version[e].serial \in Nat /\ v.serial \in Nat
  BY PutTypes
<1>2. v.lineage \in Puts => MadeNext(v.lineage)
  BY PutMade DEF Settled
<1>3. v.lineage = e /\ HeldNext(e) => v.serial <= 1 /\ e \in spaces'
  BY <1>1 DEF StateStep, Creates, Settled
<1>4. Creates(p, e) => v.lineage # version'[e].lineage
  BY CreatedUnseen
<1>5. e \in spaces' => NotOlder(v, version'[e])
  BY <1>1, <1>4 DEF StateStep, Settled, NotOlder
<1> QED
  BY <1>2, <1>3, <1>4, <1>5 DEF SettledNext

(* What is read of an env's state is settled. *)
LEMMA ReadSettled ==
    ASSUME MInv, NEW e \in Envs, Current(e), e \in spaces
    PROVE  Settled(e, version[e]) /\ version[e] \in Versions
BY DEF Current, Of, MInv, MigratedTypeOK, TypeOK, ClientTypeOK, Names

LEMMA PutCurrent ==
    ASSUME MInv, MInv', CopiesFresh, NEW p \in Puts, PutStep(p), NEW e \in Envs, Current(e)
    PROVE  Current(e)'
<1>a. /\ StateStep(p, e) /\ (HeldNext(e) => Held(e))
      /\ version[e].serial \in Nat /\ version'[e].serial \in Nat
      /\ Nobody \notin Puts /\ Nobody \notin Envs /\ e \notin Puts
      /\ \A q \in Puts : Env(q)' = Env(q) /\ q \notin Envs
      /\ Env(p) \in Envs
  <2>1. version'[e] \in Versions
    BY DEF MInv, MigratedTypeOK, TypeOK, ClientTypeOK, Names
  <2> QED
    BY <2>1, PutTypes, ClientAssumption DEF Versions, PutStep
<1> DEFINE After ==
        /\ e \in spaces'
        /\ version'[e].lineage = e /\ HeldNext(e) => version'[e].serial <= 1
        /\ version'[e].lineage \in Puts => MadeNext(version'[e].lineage)
        /\ version'[e].lineage \in Puts => Env(version'[e].lineage) = e
        /\ version'[e].lineage \in Envs => version'[e].lineage = e
        /\ version'[e].lineage = Nobody => e = Default
<1>b. HeldNext(e) = Held(e)'
  BY DEF HeldNext, Held, Holds
<1>c. \A q \in Puts : MadeNext(q) => Made(q)'
  BY <1>a DEF MadeNext, Made, HeldNext, Held, Holds
<1>1. After => Current(e)'
  BY <1>a, <1>b, <1>c DEF Current, Of, Settled, OfEnv, NotOlder
<1>2. CASE e \in spaces /\ e \in spaces' /\ version'[e].lineage = version[e].lineage
           /\ (version'[e] = version[e] \/ ~Held(e))
  <2>1. SettledNext(e, version[e])
    BY <1>2, ReadSettled, PutSettled
  <2>2. After
    BY <1>a, <1>2, <2>1 DEF Current, Of, OfEnv, SettledNext
  <2> QED
    BY <1>1, <2>2
<1>3. CASE Creates(p, e)
  <2>1. CASE version'[e].lineage = p /\ pc'[p] \notin Making
    <3>1. MadeNext(p)
      BY <1>3, <2>1 DEF MadeNext, Creates
    <3> QED
      BY <1>a, <1>1, <1>3, <2>1, <3>1 DEF Creates
  <2>2. CASE version'[e].lineage = e /\ version'[e].serial = 1
    BY <1>a, <1>1, <1>3, <2>2 DEF Creates
  <2> QED
    BY <1>3, <2>1, <2>2 DEF Creates
<1>4. CASE e \notin spaces'
  <2>1. version'[e] = NoVersion
    BY <1>a, <1>4 DEF StateStep, Current, Creates
  <2> QED
    BY <1>4, <2>1 DEF Current, NoVersion
<1> QED
  BY <1>a, <1>2, <1>3, <1>4 DEF StateStep

(* What a put has read last of its env's state. *)
LEMMA ActionSees ==
    ASSUME TypeOK, NEW p \in Puts, ActionStep(p), NEW q \in Puts
    PROVE  \/ seen'[q].state = seen[q].state
           \/ Env(q) \in spaces /\ seen'[q].state = version[Env(q)]
<1>a. seen \in [Puts -> [wrote : Versions, state : Versions, output : Versions]]
  BY DEF TypeOK, HistoryTypeOK
<1>1. CASE ApplyEnd(p) \/ StateVersion(p) \/ Output(p)
  BY <1>a, <1>1 DEF ApplyEnd, StateVersion, Output, Command, history
<1>2. CASE ~(ApplyEnd(p) \/ StateVersion(p) \/ Output(p))
  <2>1. history' = history
    BY <1>2 DEF ActionStep, Setup, PlanSelect, PlanOutput, List, MigratedSelect, MigratedNew,
         ImportCheck, ImportResource, ApplyStart, PlanList, PlanDelete, PlanEnv, JSONPlan,
         SaveList, SaveSelect, SaveNew, SaveApply, DestroySelect, DestroyStart, DestroyEnd,
         EnvDelete, TfVersion, Call, Command, Begin
  <2> QED
    BY <2>1 DEF history
<1> QED
  BY <1>1, <1>2

LEMMA NextSees ==
    ASSUME MInv, [MigratedNext]_migratedVars, NEW q \in Puts
    PROVE  \/ seen'[q].state = seen[q].state
           \/ Env(q) \in spaces /\ seen'[q].state = version[Env(q)]
<1>1. ASSUME NEW p \in Puts, Migrate(p) PROVE seen' = seen
  BY <1>1, MigrateControl DEF MInv, MigratedTypeOK, history
<1>2. CASE \/ \E p \in Puts : \/ MigratedStart(p)
                              \/ ApplyProvision(p) /\ UNCHANGED migration
                              \/ Kill(p) /\ UNCHANGED migration
                              \/ KillNewFromState(p)
           \/ AllEnded \/ UNCHANGED migratedVars
  BY <1>2
     DEF MigratedStart, Start, ApplyProvision, Kill, KillNewFromState, AllEnded, migratedVars, vars,
         history
<1>3. ASSUME NEW p \in Puts, ActionStep(p)
      PROVE  \/ seen'[q].state = seen[q].state
             \/ Env(q) \in spaces /\ seen'[q].state = version[Env(q)]
  BY <1>3, ActionSees DEF MInv, MigratedTypeOK
<1> QED
  BY <1>1, <1>2, <1>3 DEF MigratedNext

LEMMA PutVersioned ==
    ASSUME MInv, MInv', CopiesFresh, Versioned, [MigratedNext]_migratedVars,
           NEW p \in Puts, PutStep(p)
    PROVE  Versioned'
<1>1. \A e \in Envs : Current(e)'
  BY PutCurrent DEF Versioned
<1>2. ASSUME NEW q \in Puts PROVE Of(Env(q), seen[q].state)'
  <2>a. /\ Env(q)' = Env(q) /\ Env(q) \in Envs
        /\ seen[q].state \in Versions
        /\ \A r \in Puts : Env(r)' = Env(r)
    BY PutTypes DEF PutStep, MInv, MigratedTypeOK, TypeOK, HistoryTypeOK
  <2>1. PICK v \in Versions : seen'[q].state = v /\ Of(Env(q), v)
    <3>1. CASE seen'[q].state = seen[q].state
      BY <2>a, <3>1 DEF Versioned
    <3>2. CASE Env(q) \in spaces /\ seen'[q].state = version[Env(q)]
      BY <2>a, <3>2, ReadSettled DEF Versioned, Current
    <3> QED
      BY <3>1, <3>2, NextSees
  <2>2. SettledNext(Env(q), v)
    BY <2>a, <2>1, PutSettled DEF Of
  <2> QED
    BY <2>a, <2>1, <2>2
       DEF Of, OfEnv, Settled, SettledNext, Made, MadeNext, Held, HeldNext, Holds
<1> QED
  BY <1>1, <1>2 DEF Versioned

(* A state in which nothing has changed but the faults. *)
LEMMA StillVersioned ==
    ASSUME UNCHANGED <<spaces, version, bucket, pc, req, seen>>
    PROVE  /\ Versioned => Versioned'
           /\ \A e \in Envs : Held(e)' = Held(e)
<1>1. \A e \in Envs : Held(e)' = Held(e)
  BY DEF Held, Holds
<1>2. \A p \in Puts : Env(p)' = Env(p)
  BY DEF Env
<1>3. \A e : Held(e)' = Held(e)
  BY DEF Held, Holds
<1>4. \A p : Made(p)' = Made(p)
  BY <1>3 DEF Made, Env
<1>5. Versioned => Versioned'
  BY <1>2, <1>3, <1>4 DEF Versioned, Current, Of, OfEnv, Settled
<1> QED
  BY <1>1, <1>5

-----------------------------------------------------------------------------
(* Types of the readers, and what a step of a reader leaves alone. *)
Asked == Offers \cup {NoOffer}
Answers == Offers \cup {NoOffer, AnError}
Volumes == [metadata : Versions, state : Versions, plan : Plans]
Arounds == [before : Versions, after : Versions]
ReadersOK ==
    /\ step \in [Readers -> Calls] /\ asked \in [Readers -> Asked]
    /\ answer \in [Readers -> Answers] /\ volume \in [Readers -> Volumes]
    /\ around \in [Readers -> Arounds]
ReaderStep(r) == CheckStep(r) \/ GetStep(r)
Beside(r) ==
    \A q \in Readers \ {r} :
        /\ step'[q] = step[q] /\ asked'[q] = asked[q] /\ answer'[q] = answer[q]
        /\ volume'[q] = volume[q] /\ around'[q] = around[q]

LEMMA OfferTypes ==
    /\ NoOffer \in Asked /\ Asked \subseteq Answers /\ AnError \in Answers
    /\ \A o \in Answers : o.env \in Envs /\ o.at \in Versions
    /\ \A e \in Envs, v \in Versions : Offer(e, "state", v) \in Offers
    /\ \A e \in Envs, kind \in {"plan", "destroyed", "legacy"} : Offer(e, kind, NoVersion) \in Offers
    /\ NoVersion \in Versions /\ NoPlan \in Plans
BY ReaderAssumption
   DEF Asked, Answers, Offers, Offer, NoOffer, AnError, NoVersion, Versions, NoPlan, Plans

LEMMA KnownTypes ==
    ASSUME MInv, ReadersOK
    PROVE  Known \subseteq Asked
<1>1. \A e \in legacy : Offer(e, "legacy", NoVersion) \in Asked
  BY OfferTypes DEF MInv, MigratedTypeOK, Asked
<1>2. ASSUME NEW p \in Puts PROVE PutVersion(p) \in Asked
  <2>1. Env(p) \in Envs /\ seen[p].state \in Versions
    BY RequestTypes DEF MInv, MigratedTypeOK, TypeOK, HistoryTypeOK
  <2> QED
    BY <2>1, OfferTypes DEF PutVersion, Asked
<1>3. \A r \in Readers : answer[r] \in Asked \cup {AnError}
  BY DEF ReadersOK, Asked, Answers
<1> QED
  BY <1>1, <1>2, <1>3 DEF Known

LEMMA ReaderTypes ==
    ASSUME MInv, ReadersOK, NEW r \in Readers, ReaderStep(r)
    PROVE  /\ ReadersOK' /\ Beside(r) /\ faults' \in {faults, faults + 1}
           /\ UNCHANGED <<clientVars, pc, req, cause, reply, kills, history, migration>>
<1> DEFINE Typed ==
        /\ step' \in [Readers -> Calls] /\ answer' \in [Readers -> Answers]
        /\ around' \in [Readers -> Arounds]
        /\ \A q \in Readers \ {r} :
               step'[q] = step[q] /\ answer'[q] = answer[q] /\ around'[q] = around[q]
<1> DEFINE Wrote ==
        volume' \in [Readers -> Volumes] /\ \A q \in Readers \ {r} : volume'[q] = volume[q]
<1> DEFINE Chosen ==
        asked' \in [Readers -> Asked] /\ \A q \in Readers \ {r} : asked'[q] = asked[q]
<1> DEFINE Done == Typed /\ Wrote /\ Chosen
<1> DEFINE Frame == faults' \in {faults, faults + 1}
                    /\ UNCHANGED <<clientVars, pc, req, cause, reply, kills, history, migration>>
<1>a. /\ AskedEnv(r) \in Envs /\ CheckedEnv \in Envs
      /\ asked[r] \in Answers /\ answer[r] \in Answers
  BY OfferTypes, ReaderAssumption DEF ReadersOK, AskedEnv
<1>b. /\ \A e \in Envs : version[e] \in Versions /\ stored[PlanName[e]] \in Plans
      /\ \A e \in Envs : \A k \in StateKeys : bucket[e][k].version \in Versions
  <2>1. \A e \in Envs : e \in Names /\ PlanName[e] \in Names
    BY DEF Names
  <2> QED
    BY <2>1 DEF MInv, MigratedTypeOK, TypeOK, ClientTypeOK, Keys, Files
<1>c. /\ \A c \in Calls : GoOn(r, c) => Typed
      /\ \A c \in Calls, v \in Answers : Before(r, c, v) => Typed
      /\ \A v \in Answers : CheckReturns(r, v) => Typed
  <2>1. \A c \in Calls : GoOn(r, c) => Typed
    BY DEF ReadersOK, GoOn
  <2>2. \A c \in Calls, v \in Answers : Before(r, c, v) => Typed
    BY DEF ReadersOK, Before
  <2>3. ASSUME NEW v \in Answers, CheckReturns(r, v) PROVE Typed
    <3>1. "checked" \in Calls /\ version[CheckedEnv] \in Versions
      BY <1>a, <1>b DEF Calls
    <3>2. around' \in [Readers -> Arounds] /\ \A q \in Readers \ {r} : around'[q] = around[q]
      BY <2>3, <3>1 DEF ReadersOK, CheckReturns, Arounds
    <3> QED
      BY <2>3, <3>1, <3>2 DEF ReadersOK, CheckReturns
  <2> QED
    BY <2>1, <2>2, <2>3
<1>d. (\A v \in Answers : Return(r, v) => Typed) /\ (BackendFails(r) => Typed)
  BY <1>a, <1>c DEF Return, BackendFails, Calls
<1>e. /\ volume' = volume => Wrote
      /\ \A v \in Versions : Write(r, "metadata", v) \/ Write(r, "state", v) => Wrote
      /\ \A v \in Plans : Write(r, "plan", v) => Wrote
      /\ \A v \in Versions : volume' = [volume EXCEPT ![r].metadata = v, ![r].state = v] => Wrote
  <2>a. volume \in [Readers -> Volumes]
    BY DEF ReadersOK
  <2>1. volume' = volume => Wrote
    BY <2>a
  <2>2. ASSUME NEW v \in Versions, Write(r, "metadata", v) PROVE Wrote
    BY <2>a, <2>2 DEF Write, Volumes
  <2>3. ASSUME NEW v \in Versions, Write(r, "state", v) PROVE Wrote
    BY <2>a, <2>3 DEF Write, Volumes
  <2>4. ASSUME NEW v \in Plans, Write(r, "plan", v) PROVE Wrote
    BY <2>a, <2>4 DEF Write, Volumes
  <2>5. ASSUME NEW v \in Versions, volume' = [volume EXCEPT ![r].metadata = v, ![r].state = v]
        PROVE  Wrote
    BY <2>a, <2>5 DEF Volumes
  <2> QED
    BY <2>1, <2>2, <2>3, <2>4, <2>5
<1>f. /\ asked' = asked => Chosen
      /\ \A v \in Asked : asked' = [asked EXCEPT ![r] = v] => Chosen
  BY DEF ReadersOK
<1>g. Done => ReadersOK' /\ Beside(r)
  BY DEF ReadersOK, Beside
<1>h. UNCHANGED migratedVars => Frame
  BY DEF migratedVars, vars, control
<1>i. \A e \in Envs : Offer(e, "state", version[e]) \in Answers /\ Offer(e, "legacy", NoVersion) \in Answers
  BY <1>b, OfferTypes DEF Answers
<1>j. NoOffer \in Answers /\ AnError \in Answers
  BY OfferTypes
<1>k. {"checkList", "checkVersion", "checkLegacy", "getPlan", "getList", "getOutput", "getState",
       "getVersion", "legacyTainted", "legacyState", "legacyTaintedState", "legacyDownload",
       "legacyTaintedDownload", "tfVersion"} \subseteq Calls
  BY DEF Calls
<1> HIDE DEF Typed, Wrote, Chosen
<1>1. CASE CheckStart(r)
  <2>1. Typed
    BY <1>1, <1>a, <1>b, <1>k DEF CheckStart, Typed, ReadersOK, Arounds
  <2>2. Chosen
    BY <1>1, <1>f, KnownTypes, OfferTypes DEF CheckStart
  <2> QED
    BY <1>1, <1>e, <1>g, <1>h, <2>1, <2>2 DEF CheckStart
<1>2. CASE CheckList(r)
  <2>1. Done /\ Frame
    BY <1>2, <1>c, <1>e, <1>f, <1>j, <1>k DEF CheckList, Read
  <2> QED
    BY <1>g, <2>1
<1>3. CASE CheckVersion(r)
  <2>1. Done /\ Frame
    BY <1>3, <1>a, <1>c, <1>e, <1>f, <1>i, <1>j, <1>k DEF CheckVersion, Read
  <2> QED
    BY <1>g, <2>1
<1>4. CASE CheckLegacy(r)
  <2>1. Done /\ Frame
    BY <1>4, <1>a, <1>c, <1>e, <1>f, <1>i, <1>j, <1>k DEF CheckLegacy, Read
  <2> QED
    BY <1>g, <2>1
<1>5. CASE GetStart(r)
  <2>1. PICK v \in Known :
            /\ asked' = [asked EXCEPT ![r] = v]
            /\ \/ v.kind = "destroyed" /\ Return(r, v)
               \/ GoOn(r, IF v.kind = "plan" THEN "getPlan" ELSE "getList")
    BY <1>5 DEF GetStart
  <2>2. v \in Asked /\ v \in Answers
    BY KnownTypes, OfferTypes
  <2>3. Typed /\ Chosen
    BY <2>1, <2>2, <1>c, <1>d, <1>f, <1>k
  <2> QED
    BY <1>5, <1>e, <1>g, <1>h, <2>3 DEF GetStart
<1>6. CASE GetPlanFile(r) \/ GetList(r) \/ GetOutput(r) \/ GetState(r)
  <2>1. Done /\ Frame
    BY <1>6, <1>a, <1>b, <1>c, <1>d, <1>e, <1>f, <1>k
       DEF GetPlanFile, GetList, GetOutput, GetState, Read
  <2> QED
    BY <1>g, <2>1
<1>7. CASE GetVersion(r) \/ GetTfVersion(r)
  <2>1. Done /\ Frame
    BY <1>7, <1>a, <1>b, <1>c, <1>d, <1>e, <1>f, <1>i, <1>j, <1>k
       DEF GetVersion, GetTfVersion, Read
  <2> QED
    BY <1>g, <2>1
<1>8. CASE LegacyTainted(r)
  <2>1. Done /\ Frame
    BY <1>8, <1>c, <1>d, <1>e, <1>f, <1>j, <1>k DEF LegacyTainted, Read
  <2> QED
    BY <1>g, <2>1
<1>9. CASE \/ LegacyState(r, "state", "legacyState", "legacyDownload")
           \/ LegacyState(r, "tainted", "legacyTaintedState", "legacyTaintedDownload")
  <2>1. Done /\ Frame
    BY <1>9, <1>c, <1>d, <1>e, <1>f, <1>j, <1>k DEF LegacyState, Read
  <2> QED
    BY <1>g, <2>1
<1>10. CASE LegacyRead(r, "state", "legacyDownload") \/ LegacyRead(r, "tainted", "legacyTaintedDownload")
  <2>1. Done /\ Frame
    BY <1>10, <1>a, <1>b, <1>c, <1>d, <1>e, <1>f, <1>i, <1>j, <1>k
       DEF LegacyRead, Read, NewVersionFromLegacyStorage, StateKeys
  <2> QED
    BY <1>g, <2>1
<1> QED
  BY <1>1, <1>2, <1>3, <1>4, <1>5, <1>6, <1>7, <1>8, <1>9, <1>10 DEF ReaderStep, CheckStep, GetStep

(* A reader changes nothing that a put depends on. *)
LEMMA ReaderKeeps ==
    ASSUME MInv, UNCHANGED <<clientVars, pc, req, cause, reply, kills, history, migration>>,
           faults' \in {faults, faults + 1}
    PROVE  MInv'
<1>1. UNCHANGED <<spaces, res, version, stored, lock, infra, sel, planFile, began, seen,
                  bucket, key, local, move, legacy, held>>
  BY DEF clientVars, backend, container, history, migration
<1>2. MigratedTypeOK'
  BY <1>1 DEF MInv, MigratedTypeOK, TypeOK, ClientTypeOK, ControlTypeOK, HistoryTypeOK
<1>3. IInv'
  BY <1>1, <1>2
     DEF MInv, IInv, MigratedTypeOK, OwnWorkspace, LockHeld, PlansRecordNothing, NoOrphans, Env,
         PlanNamesApart
<1> QED
  BY <1>1, <1>2, <1>3
     DEF MInv, Home, OneFile, Placed, Found, Carried, Retains, AsInFile, Unforgotten, Kept, Env,
         PlanNamesApart

LEMMA ReaderNextTypes ==
    ASSUME MInv, ReadersOK, [ReaderNext]_readerVars
    PROVE  MInv' /\ ReadersOK'
<1>1. CASE [MigratedNext]_migratedVars /\ UNCHANGED readers
  BY <1>1, MigratedNextInvariant DEF readers, ReadersOK
<1>2. ASSUME NEW r \in Readers, ReaderStep(r) PROVE MInv' /\ ReadersOK'
  BY <1>2, ReaderTypes, ReaderKeeps
<1> QED
  BY <1>1, <1>2 DEF ReaderNext, readerVars, ReaderStep

LEMMA ReaderInitTypes == ReaderInit => MInv /\ ReadersOK
<1>1. "idle" \in Calls
  BY DEF Calls
<1> QED
  BY <1>1, MigratedInitInvariant, OfferTypes DEF ReaderInit, ReadersOK, Volumes, Arounds

(* Every state of puts, gets and checks is well typed. *)
THEOREM ReaderTyping == ReaderSpec => []ReaderTypeOK
<1>1. MInv /\ ReadersOK => ReaderTypeOK
  BY DEF MInv, ReadersOK, ReaderTypeOK, Asked, Answers, Volumes, Arounds
<1>2. MInv /\ ReadersOK /\ [ReaderNext]_readerVars => MInv' /\ ReadersOK'
  BY ReaderNextTypes
<1> QED
  BY <1>1, <1>2, ReaderInitTypes, PTL DEF ReaderSpec

-----------------------------------------------------------------------------
(* What a reader has read.  A version it was asked for, or has returned,   *)
(* was read of the env it names.  What a get has read last is settled as   *)
(* long as the get may read again, and each of its reads is not older than *)
(* the one before.  A check that turns to the legacy storage has seen that *)
(* the state it started with is gone.                                      *)
OfferOK(o) == IF o.kind = "state" THEN Of(o.env, o.at) ELSE o.at = NoVersion
Passed(e, v) == Settled(e, v) /\ (e \in spaces => version[e].lineage # v.lineage)

NotBeforeAsked(r) ==
    /\ step[r] = "idle" => volume[r].metadata = NoVersion
    /\ asked[r].kind = "state" /\ volume[r].metadata # NoVersion =>
           NotOlder(asked[r].at, volume[r].metadata)
FilesInOrder(r) ==
    /\ step[r] = "getState" => Settled(asked[r].env, volume[r].metadata)
    /\ step[r] = "getVersion" => /\ Settled(asked[r].env, volume[r].state)
                                 /\ NotOlder(volume[r].metadata, volume[r].state)
    /\ step[r] \in {"tfVersion", "got"} /\ answer[r].kind = "state" =>
           /\ NotOlder(volume[r].metadata, volume[r].state)
           /\ NotOlder(volume[r].state, answer[r].at)
StillThere(r) == Offer(CheckedEnv, "state", around[r].before)
CheckGoesOn(r) ==
    /\ around[r].before # NoVersion =>
           /\ step[r] = "checkList" => Settled(CheckedEnv, around[r].before)
           /\ step[r] = "checkLegacy" => Passed(CheckedEnv, around[r].before)
    /\ Checked(r) /\ around[r].before = around[r].after /\ around[r].before # NoVersion =>
           answer[r] = StillThere(r)
Reading(r) ==
    /\ OfferOK(asked[r]) /\ (step[r] = "checked" => OfferOK(answer[r]))
    /\ NotBeforeAsked(r) /\ FilesInOrder(r) /\ CheckGoesOn(r)
ReadersInOrder == Versioned /\ \A r \in Readers : Reading(r)

(* Puts take nothing away from what a reader has read. *)
LEMMA PutReading ==
    ASSUME MInv, CopiesFresh, NEW p \in Puts, PutStep(p), ReadersOK, UNCHANGED readers,
           NEW r \in Readers, Reading(r)
    PROVE  Reading(r)'
<1>a. /\ UNCHANGED <<step, asked, answer, volume, around>>
      /\ asked[r].env \in Envs /\ asked[r].at \in Versions
      /\ answer[r].env \in Envs /\ answer[r].at \in Versions
      /\ CheckedEnv \in Envs /\ around[r].before \in Versions
      /\ volume[r].metadata \in Versions /\ volume[r].state \in Versions
      /\ \A q \in Puts : Env(q)' = Env(q)
  BY OfferTypes, ReaderAssumption
     DEF readers, ReadersOK, Arounds, Volumes, PutStep
<1>b. \A e \in Envs, v \in Versions : Settled(e, v) =>
          SettledNext(e, v) /\ (Creates(p, e) => v.lineage # version'[e].lineage)
  BY PutSettled
<1> USE DEF Settled, SettledNext, Made, MadeNext, Held, HeldNext, Holds
<1>1. SettledNext(asked[r].env, asked[r].at) => Settled(asked[r].env, asked[r].at)'
  BY <1>a
<1>2. SettledNext(answer[r].env, answer[r].at) => Settled(answer[r].env, answer[r].at)'
  BY <1>a
<1>3. SettledNext(asked[r].env, volume[r].metadata) => Settled(asked[r].env, volume[r].metadata)'
  BY <1>a
<1>4. SettledNext(asked[r].env, volume[r].state) => Settled(asked[r].env, volume[r].state)'
  BY <1>a
<1>5. SettledNext(CheckedEnv, around[r].before) => Settled(CheckedEnv, around[r].before)'
  BY <1>a
<1> HIDE DEF Settled, SettledNext, Made, MadeNext, Held, HeldNext, Holds
<1>6. /\ OfEnv(asked[r].env, asked[r].at) => OfEnv(asked[r].env, asked[r].at)'
      /\ OfEnv(answer[r].env, answer[r].at) => OfEnv(answer[r].env, answer[r].at)'
  BY <1>a DEF OfEnv
<1>7. OfferOK(asked[r]) => OfferOK(asked[r])'
  BY <1>a, <1>b, <1>1, <1>6 DEF OfferOK, Of
<1>8. OfferOK(answer[r]) => OfferOK(answer[r])'
  BY <1>a, <1>b, <1>2, <1>6 DEF OfferOK, Of
<1>9. NotBeforeAsked(r)'
  BY <1>a DEF Reading, NotBeforeAsked, NotOlder
<1>10. FilesInOrder(r)'
  BY <1>a, <1>b, <1>3, <1>4 DEF Reading, FilesInOrder, NotOlder
<1>11. Passed(CheckedEnv, around[r].before) => Passed(CheckedEnv, around[r].before)'
  <2>1. StateStep(p, CheckedEnv)
    BY <1>a, PutTypes
  <2> QED
    BY <1>a, <1>b, <1>5, <2>1 DEF Passed, StateStep
<1>12. CheckGoesOn(r)'
  BY <1>a, <1>b, <1>5, <1>11 DEF Reading, CheckGoesOn, Checked, StillThere
<1> QED
  BY <1>a, <1>7, <1>8, <1>9, <1>10, <1>12 DEF Reading

(* A reader changes no state that it reads: what it has read after a step  *)
(* is compared with the same states as before.                             *)
FilesNext(r) ==
    /\ step'[r] = "getState" => Settled(asked'[r].env, volume'[r].metadata)
    /\ step'[r] = "getVersion" => /\ Settled(asked'[r].env, volume'[r].state)
                                  /\ NotOlder(volume'[r].metadata, volume'[r].state)
    /\ step'[r] \in {"tfVersion", "got"} /\ answer'[r].kind = "state" =>
           /\ NotOlder(volume'[r].metadata, volume'[r].state)
           /\ NotOlder(volume'[r].state, answer'[r].at)
CheckNext(r) ==
    /\ around'[r].before # NoVersion =>
           /\ step'[r] = "checkList" => Settled(CheckedEnv, around'[r].before)
           /\ step'[r] = "checkLegacy" => Passed(CheckedEnv, around'[r].before)
    /\ /\ step'[r] = "checked" /\ answer'[r].kind # "error"
       /\ around'[r].before = around'[r].after /\ around'[r].before # NoVersion
       => answer'[r] = Offer(CheckedEnv, "state", around'[r].before)
NotBeforeNext(r) ==
    /\ step'[r] = "idle" => volume'[r].metadata = NoVersion
    /\ asked'[r].kind = "state" /\ volume'[r].metadata # NoVersion =>
           NotOlder(asked'[r].at, volume'[r].metadata)
ReadingNext(r) ==
    /\ OfferOK(asked'[r]) /\ (step'[r] = "checked" => OfferOK(answer'[r]))
    /\ NotBeforeNext(r) /\ FilesNext(r) /\ CheckNext(r)

LEMMA StillReading ==
    ASSUME UNCHANGED <<spaces, version, bucket, pc, req>>, NEW r \in Readers, ReadingNext(r)
    PROVE  Reading(r)'
<1> USE DEF Settled, Made, Held, Holds, Env
<1>1. Settled(asked'[r].env, asked'[r].at) => Settled(asked[r].env, asked[r].at)'
  OBVIOUS
<1>2. Settled(answer'[r].env, answer'[r].at) => Settled(answer[r].env, answer[r].at)'
  OBVIOUS
<1>3. Settled(asked'[r].env, volume'[r].metadata) => Settled(asked[r].env, volume[r].metadata)'
  OBVIOUS
<1>4. Settled(asked'[r].env, volume'[r].state) => Settled(asked[r].env, volume[r].state)'
  OBVIOUS
<1>5. Settled(CheckedEnv, around'[r].before) => Settled(CheckedEnv, around[r].before)'
  OBVIOUS
<1>6. /\ OfEnv(asked'[r].env, asked'[r].at) => OfEnv(asked[r].env, asked[r].at)'
      /\ OfEnv(answer'[r].env, answer'[r].at) => OfEnv(answer[r].env, answer[r].at)'
  BY DEF OfEnv
<1> HIDE DEF Settled, Made, Held, Holds, Env
<1>7. OfferOK(asked'[r]) => OfferOK(asked[r])'
  BY <1>1, <1>6 DEF OfferOK, Of
<1>8. OfferOK(answer'[r]) => OfferOK(answer[r])'
  BY <1>2, <1>6 DEF OfferOK, Of
<1>9. NotBeforeNext(r) => NotBeforeAsked(r)'
  BY DEF NotBeforeNext, NotBeforeAsked, NotOlder
<1>10. FilesNext(r) => FilesInOrder(r)'
  BY <1>3, <1>4 DEF FilesNext, FilesInOrder, NotOlder
<1>11. CheckNext(r) => CheckGoesOn(r)'
  BY <1>5 DEF CheckNext, CheckGoesOn, Passed, Checked, StillThere
<1> QED
  BY <1>7, <1>8, <1>9, <1>10, <1>11 DEF ReadingNext, Reading

LEMMA KnownOK ==
    ASSUME MInv, ReadersInOrder, NEW v \in Known \cup {NoOffer}
    PROVE  OfferOK(v)
<1>1. \A e \in Envs : \A kind \in {"legacy", "plan", "destroyed"} : OfferOK(Offer(e, kind, NoVersion))
  BY DEF OfferOK, Offer
<1>2. legacy \subseteq Envs /\ \A p \in Puts : Env(p) \in Envs
  BY RequestTypes DEF MInv, MigratedTypeOK
<1>3. \A p \in Puts : OfferOK(Offer(Env(p), "state", seen[p].state))
  BY DEF ReadersInOrder, Versioned, OfferOK, Offer
<1>4. OfferOK(NoOffer)
  BY DEF NoOffer, OfferOK
<1>5. \A p \in Puts : OfferOK(PutVersion(p))
  BY <1>1, <1>2, <1>3 DEF PutVersion
<1>6. \A r \in Readers : step[r] = "checked" => OfferOK(answer[r])
  BY DEF ReadersInOrder, Reading
<1> QED
  BY <1>1, <1>2, <1>4, <1>5, <1>6 DEF Known

(* What a call of a reader reads now. *)
LEMMA ReadsNow ==
    ASSUME MInv, Versioned, NEW e \in Envs, e \in spaces
    PROVE  /\ Settled(e, version[e]) /\ Of(e, version[e]) /\ version[e] \in Versions
           /\ \A v : Settled(e, v) => NotOlder(v, version[e])
<1>1. Current(e)
  BY DEF Versioned
<1> QED
  BY <1>1, ReadSettled DEF Current, Settled

LEMMA CheckReading ==
    ASSUME MInv, ReadersOK, ReadersInOrder, NEW r \in Readers, CheckStep(r)
    PROVE  ReadingNext(r)
<1>a. /\ Versioned /\ Reading(r) /\ CheckedEnv \in Envs
      /\ CheckedEnv \notin spaces => version[CheckedEnv] = NoVersion
      /\ version[CheckedEnv] \in Versions
  <2>1. Current(CheckedEnv) /\ CheckedEnv \in Names
    BY ReaderAssumption DEF ReadersInOrder, Versioned, Names
  <2> QED
    BY <2>1, ReaderAssumption
       DEF ReadersInOrder, Current, MInv, MigratedTypeOK, TypeOK, ClientTypeOK
<1>b. /\ DOMAIN step = Readers /\ DOMAIN asked = Readers /\ DOMAIN answer = Readers
      /\ around \in [Readers -> Arounds] /\ asked[r].env \in Envs /\ asked[r].at \in Versions
  BY OfferTypes DEF ReadersOK
<1>c. OfferOK(AnError) /\ AnError.kind = "error" /\ OfferOK(NoOffer)
      /\ \A e \in Envs : OfferOK(Offer(e, "legacy", NoVersion))
  BY DEF OfferOK, AnError, NoOffer, Offer
<1>d. ASSUME asked' = asked, volume' = volume, step'[r] \notin {"idle"}
      PROVE  OfferOK(asked'[r]) /\ NotBeforeNext(r)
  BY <1>a, <1>d DEF Reading, NotBeforeAsked, NotBeforeNext, NotOlder
<1>e. step'[r] \notin {"getState", "getVersion", "tfVersion", "got"} => FilesNext(r)
  BY DEF FilesNext
<1>f. \A v : CheckReturns(r, v) =>
          /\ step'[r] = "checked" /\ answer'[r] = v
          /\ around'[r].before = around[r].before /\ around'[r].after = version[CheckedEnv]
  BY <1>b DEF CheckReturns, Arounds
<1>g. \A call : GoOn(r, call) => step'[r] = call /\ around' = around /\ answer' = answer
  BY <1>b DEF GoOn
<1>h. CheckReturns(r, AnError) /\ asked' = asked /\ volume' = volume => ReadingNext(r)
  BY <1>c, <1>d, <1>e, <1>f DEF ReadingNext, CheckNext
<1>1. CASE CheckStart(r)
  <2>1. PICK v \in Known \cup {NoOffer} : asked' = [asked EXCEPT ![r] = v]
    BY <1>1 DEF CheckStart
  <2>2. /\ step[r] = "idle" /\ step'[r] = "checkList" /\ volume' = volume
        /\ around'[r].before = version[CheckedEnv]
    BY <1>1, <1>b DEF CheckStart, Arounds
  <2>3. asked'[r] = v /\ OfferOK(v)
    BY <1>b, <2>1, KnownOK
  <2>4. NotBeforeNext(r)
    BY <1>a, <2>2 DEF Reading, NotBeforeAsked, NotBeforeNext
  <2>5. CheckNext(r)
    BY <1>a, <2>2, ReadsNow DEF CheckNext
  <2> QED
    BY <1>e, <2>2, <2>3, <2>4, <2>5 DEF ReadingNext
<1>2. CASE CheckList(r)
  <2>1. CASE /\ GoOn(r, IF CheckedEnv \in spaces THEN "checkVersion" ELSE "checkLegacy")
             /\ asked' = asked /\ volume' = volume
    <3>1. step[r] = "checkList"
      BY <1>2 DEF CheckList, Read
    <3>2. CheckNext(r)
      BY <1>a, <1>g, <2>1, <3>1 DEF CheckNext, Reading, CheckGoesOn, Passed
    <3> QED
      BY <1>d, <1>e, <1>g, <2>1, <3>2 DEF ReadingNext
  <2> QED
    BY <1>2, <1>h, <2>1 DEF CheckList, Read
<1>3. CASE CheckVersion(r)
  <2>1. CASE CanPull(CheckedEnv) /\ asked' = asked /\ volume' = volume
             /\ CheckReturns(r, Offer(CheckedEnv, "state", version[CheckedEnv]))
    <3>1. OfferOK(Offer(CheckedEnv, "state", version[CheckedEnv]))
      BY <1>a, <2>1, ReadsNow DEF CanPull, OfferOK, Offer
    <3>2. CheckNext(r)
      BY <1>f, <2>1 DEF CheckNext
    <3> QED
      BY <1>d, <1>e, <1>f, <2>1, <3>1, <3>2 DEF ReadingNext
  <2>2. ASSUME CanPull(CheckedEnv), ~IsNew(r, version[CheckedEnv])
        PROVE  FALSE
    <3>1. /\ version[CheckedEnv].lineage = asked[r].at.lineage
          /\ version[CheckedEnv].serial < asked[r].at.serial
          /\ version[CheckedEnv].serial \in Nat /\ asked[r].at.serial \in Nat
      BY <1>a, <1>b, <2>2 DEF IsNew, Versions
    <3>2. Of(asked[r].env, asked[r].at)
      BY <1>a, <3>1 DEF Reading, OfferOK, NoVersion
    <3>3. /\ Of(CheckedEnv, version[CheckedEnv]) /\ CheckedEnv \in spaces
          /\ version[CheckedEnv].lineage = Nobody => CheckedEnv = Default
      BY <1>a, <2>2 DEF CanPull, Versioned, Current
    <3>4. asked[r].env # CheckedEnv
      BY <3>1, <3>2, <3>3 DEF Of, Settled, NotOlder
    <3>5. version[CheckedEnv].lineage \in Puts \cup Envs \cup {Nobody}
      BY <1>a DEF Versions, Instances
    <3> QED
      BY <3>1, <3>2, <3>3, <3>4, <3>5 DEF Of, OfEnv
  <2> QED
    BY <1>3, <1>h, <2>1, <2>2 DEF CheckVersion, Read
<1>4. CASE CheckLegacy(r)
  <2>1. ASSUME NEW v, v.kind # "state", OfferOK(v), CheckReturns(r, v),
               asked' = asked, volume' = volume
        PROVE  ReadingNext(r)
    <3>1. step[r] = "checkLegacy"
      BY <1>4 DEF CheckLegacy, Read
    <3>2. CASE around[r].before = version[CheckedEnv] /\ around[r].before # NoVersion
      BY <1>a, <3>1, <3>2 DEF Reading, CheckGoesOn, Passed
    <3>3. CASE ~(around[r].before = version[CheckedEnv] /\ around[r].before # NoVersion)
      <4>1. CheckNext(r)
        BY <1>f, <2>1, <3>3 DEF CheckNext
      <4> QED
        BY <1>d, <1>e, <1>f, <2>1, <4>1 DEF ReadingNext
    <3> QED
      BY <3>2, <3>3
  <2>2. NoOffer.kind # "state" /\ \A e \in Envs : Offer(e, "legacy", NoVersion).kind # "state"
    BY DEF NoOffer, Offer
  <2> QED
    BY <1>4, <1>c, <1>h, <2>1, <2>2 DEF CheckLegacy, Read
<1> QED
  BY <1>1, <1>2, <1>3, <1>4 DEF CheckStep

LEMMA GetReading ==
    ASSUME MInv, ReadersOK, ReadersInOrder, NEW r \in Readers, GetStep(r)
    PROVE  ReadingNext(r)
<1>a. /\ Versioned /\ Reading(r) /\ asked[r].env \in Envs /\ asked[r].at \in Versions
      /\ DOMAIN step = Readers /\ DOMAIN asked = Readers /\ DOMAIN answer = Readers
      /\ volume \in [Readers -> Volumes]
  BY OfferTypes DEF ReadersInOrder, ReadersOK
<1>b. asked[r].kind = "state" => Settled(asked[r].env, asked[r].at)
  BY <1>a DEF Reading, OfferOK, Of
<1>c. /\ \A call : GoOn(r, call) => step'[r] = call /\ around' = around /\ answer' = answer
      /\ \A call, v : Before(r, call, v) =>
             step'[r] = call /\ around' = around /\ answer'[r] = v
      /\ \A v : Return(r, v) => step'[r] = "got" /\ around' = around /\ answer'[r] = v
  BY <1>a DEF GoOn, Before, Return
<1>d. step'[r] \notin {"checkList", "checkLegacy", "checked"} => CheckNext(r)
  BY DEF CheckNext
<1>e. asked' = asked => OfferOK(asked'[r])
  BY <1>a DEF Reading
<1>f. asked' = asked /\ volume'[r].metadata = volume[r].metadata /\ step'[r] # "idle" =>
          NotBeforeNext(r)
  BY <1>a DEF Reading, NotBeforeAsked, NotBeforeNext, NotOlder
<1> DEFINE Onward == {"getPlan", "getList", "getOutput", "legacyTainted", "legacyState",
                      "legacyTaintedState", "legacyDownload", "legacyTaintedDownload"}
<1>g. ASSUME asked' = asked, volume'[r].metadata = volume[r].metadata,
             step'[r] \in Onward \/ (step'[r] = "got" /\ answer'[r].kind # "state")
      PROVE  ReadingNext(r)
  <2>1. FilesNext(r)
    BY <1>g DEF FilesNext
  <2> QED
    BY <1>d, <1>e, <1>f, <1>g, <2>1 DEF ReadingNext
<1>h. Return(r, AnError) /\ asked' = asked /\ volume' = volume => ReadingNext(r)
  BY <1>c, <1>g DEF AnError
<1>i. BackendFails(r) /\ asked' = asked /\ volume' = volume => ReadingNext(r)
  BY <1>c, <1>g DEF BackendFails
<1> HIDE DEF Onward
<1>1. CASE GetStart(r)
  <2>1. PICK v \in Known :
            /\ asked' = [asked EXCEPT ![r] = v]
            /\ \/ v.kind = "destroyed" /\ Return(r, v)
               \/ GoOn(r, IF v.kind = "plan" THEN "getPlan" ELSE "getList")
    BY <1>1 DEF GetStart
  <2>2. asked'[r] = v /\ OfferOK(v) /\ step[r] = "idle" /\ volume' = volume
    BY <1>1, <1>a, <2>1, KnownOK DEF GetStart
  <2>3. NotBeforeNext(r)
    BY <1>a, <2>2 DEF Reading, NotBeforeAsked, NotBeforeNext
  <2>4. FilesNext(r) /\ CheckNext(r) /\ step'[r] # "checked"
    BY <1>c, <1>d, <2>1 DEF FilesNext
  <2> QED
    BY <2>2, <2>3, <2>4 DEF ReadingNext
<1>2. CASE GetPlanFile(r)
  <2>1. \A plan : Write(r, "plan", plan) => volume'[r].metadata = volume[r].metadata
    BY <1>a DEF Write, Volumes
  <2> QED
    BY <1>2, <1>c, <1>g, <1>i, <2>1 DEF GetPlanFile, Read, Onward
<1>3. CASE GetList(r)
  BY <1>3, <1>c, <1>g, <1>i DEF GetList, Read, Onward
<1>4. CASE GetOutput(r)
  <2>1. CASE /\ AskedEnv(r) \in spaces /\ asked' = asked
             /\ GoOn(r, "getState") /\ Write(r, "metadata", version[AskedEnv(r)])
    <3>1. volume'[r].metadata = version[asked[r].env]
      BY <1>a, <2>1 DEF Write, Volumes, AskedEnv
    <3>2. /\ Settled(asked[r].env, version[asked[r].env])
          /\ asked[r].kind = "state" => NotOlder(asked[r].at, version[asked[r].env])
      BY <1>a, <1>b, <2>1, ReadsNow DEF AskedEnv
    <3>3. FilesNext(r) /\ NotBeforeNext(r)
      BY <1>c, <2>1, <3>1, <3>2 DEF FilesNext, NotBeforeNext
    <3> QED
      BY <1>c, <1>d, <1>e, <2>1, <3>3 DEF ReadingNext
  <2> QED
    BY <1>4, <1>i, <2>1 DEF GetOutput, Read
<1>5. CASE GetState(r)
  <2>1. CASE /\ AskedEnv(r) \in spaces /\ asked' = asked
             /\ GoOn(r, "getVersion") /\ Write(r, "state", version[AskedEnv(r)])
    <3>1. /\ volume'[r].state = version[asked[r].env]
          /\ volume'[r].metadata = volume[r].metadata /\ step[r] = "getState"
      BY <1>a, <1>5, <2>1 DEF Write, Volumes, AskedEnv, GetState, Read
    <3>2. /\ Settled(asked[r].env, version[asked[r].env])
          /\ NotOlder(volume[r].metadata, version[asked[r].env])
      BY <1>a, <2>1, <3>1, ReadsNow DEF AskedEnv, Reading, FilesInOrder
    <3>3. FilesNext(r)
      BY <1>c, <2>1, <3>1, <3>2 DEF FilesNext
    <3> QED
      BY <1>c, <1>d, <1>e, <1>f, <2>1, <3>1, <3>3 DEF ReadingNext
  <2> QED
    BY <1>5, <1>i, <2>1 DEF GetState, Read
<1>6. CASE GetVersion(r)
  <2>1. CASE /\ CanPull(AskedEnv(r)) /\ asked' = asked /\ volume' = volume
             /\ Before(r, "tfVersion", Offer(AskedEnv(r), "state", version[AskedEnv(r)]))
    <3>1. answer'[r].at = version[asked[r].env] /\ step'[r] = "tfVersion" /\ step[r] = "getVersion"
      BY <1>c, <1>6, <2>1 DEF Offer, AskedEnv, GetVersion, Read
    <3>2. /\ NotOlder(volume[r].metadata, volume[r].state)
          /\ NotOlder(volume[r].state, version[asked[r].env])
      BY <1>a, <2>1, <3>1, ReadsNow DEF CanPull, AskedEnv, Reading, FilesInOrder
    <3>3. FilesNext(r)
      BY <2>1, <3>1, <3>2 DEF FilesNext
    <3> QED
      BY <1>d, <1>e, <1>f, <2>1, <3>1, <3>3 DEF ReadingNext
  <2> QED
    BY <1>6, <1>i, <2>1 DEF GetVersion, Read
<1>7. CASE LegacyTainted(r)
  BY <1>7, <1>c, <1>g, <1>h DEF LegacyTainted, Read, Onward
<1>8. CASE \/ LegacyState(r, "state", "legacyState", "legacyDownload")
           \/ LegacyState(r, "tainted", "legacyTaintedState", "legacyTaintedDownload")
  BY <1>8, <1>c, <1>g, <1>h DEF LegacyState, Read, Onward
<1>9. ASSUME NEW k \in StateKeys, NEW call, LegacyRead(r, k, call)
      PROVE  ReadingNext(r)
  <2>1. CASE /\ Holds(asked[r].env, k) /\ asked' = asked
             /\ volume' = [volume EXCEPT ![r].metadata = bucket[asked[r].env][k].version,
                                         ![r].state = bucket[asked[r].env][k].version]
             /\ Before(r, "tfVersion", Offer(asked[r].env, "legacy", NoVersion))
    <3>1. bucket[asked[r].env][k] = LegacyFile(asked[r].env)
      BY <1>a, <2>1 DEF MInv, Home, OneFile, Holds
    <3>2. volume'[r].metadata = [lineage |-> asked[r].env, serial |-> 1]
      BY <1>a, <2>1, <3>1 DEF Volumes, LegacyFile
    <3>3. asked[r].kind = "state" => NotOlder(asked[r].at, volume'[r].metadata)
      <4>1. Held(asked[r].env)
        BY <2>1 DEF Held
      <4>2. asked[r].kind = "state" /\ asked[r].at.lineage = asked[r].env => asked[r].at.serial <= 1
        BY <1>b, <4>1 DEF Settled
      <4> QED
        BY <3>2, <4>2 DEF NotOlder
    <3>4. step'[r] = "tfVersion" /\ answer'[r].kind = "legacy"
      BY <1>c, <2>1 DEF Offer
    <3>5. FilesNext(r) /\ NotBeforeNext(r)
      BY <2>1, <3>3, <3>4 DEF FilesNext, NotBeforeNext
    <3> QED
      BY <1>d, <1>e, <2>1, <3>4, <3>5 DEF ReadingNext
  <2> QED
    BY <1>9, <1>h, <2>1 DEF LegacyRead, Read, AskedEnv, NewVersionFromLegacyStorage
<1>10. CASE GetTfVersion(r)
  <2>1. CASE asked' = asked /\ volume' = volume /\ asked[r].kind = "plan" /\ Return(r, asked[r])
    BY <1>c, <1>g, <2>1
  <2>2. CASE asked' = asked /\ volume' = volume /\ Return(r, answer[r])
    <3>1. step[r] = "tfVersion"
      BY <1>10 DEF GetTfVersion, Read
    <3>2. FilesNext(r)
      BY <1>a, <1>c, <2>2, <3>1 DEF FilesNext, Reading, FilesInOrder
    <3> QED
      BY <1>c, <1>d, <1>e, <1>f, <2>2, <3>2 DEF ReadingNext
  <2> QED
    BY <1>10, <1>h, <1>i, <2>1, <2>2 DEF GetTfVersion, Read
<1> QED
  BY <1>1, <1>2, <1>3, <1>4, <1>5, <1>6, <1>7, <1>8, <1>9, <1>10 DEF GetStep, StateKeys

LEMMA NextInOrder ==
    ASSUME MInv, MInv', PlanNamesApart, CopiesFresh, ReadersOK, ReadersInOrder,
           [ReaderNext]_readerVars
    PROVE  ReadersInOrder'
<1>1. ASSUME UNCHANGED <<spaces, version, bucket, pc, req, seen>>,
             \A r \in Readers : ReadingNext(r)
      PROVE  ReadersInOrder'
  <2>1. \A r \in Readers : Reading(r)'
    BY <1>1, StillReading
  <2> QED
    BY <1>1, <2>1, StillVersioned DEF ReadersInOrder
<1>2. ASSUME NEW q \in Readers, step'[q] = step[q], asked'[q] = asked[q], answer'[q] = answer[q],
             volume'[q] = volume[q], around'[q] = around[q]
      PROVE  ReadingNext(q)
  BY <1>2
     DEF ReadersInOrder, Reading, ReadingNext, NotBeforeAsked, NotBeforeNext, FilesInOrder,
         FilesNext, CheckGoesOn, CheckNext, Checked, StillThere, NotOlder
<1>3. ASSUME NEW r \in Readers, ReaderStep(r) PROVE ReadersInOrder'
  <2>1. ReadingNext(r)
    BY <1>3, CheckReading, GetReading DEF ReaderStep
  <2>2. Beside(r) /\ UNCHANGED <<clientVars, pc, req, cause, reply, kills, history, migration>>
    BY <1>3, ReaderTypes
  <2>3. \A q \in Readers : ReadingNext(q)
    BY <1>2, <2>1, <2>2 DEF Beside
  <2> QED
    BY <1>1, <2>2, <2>3 DEF clientVars, backend, history, migration
<1>4. CASE UNCHANGED migratedVars /\ UNCHANGED readers
  BY <1>1, <1>2, <1>4
     DEF migratedVars, vars, clientVars, backend, control, history, migration, readers
<1>5. ASSUME NEW p \in Puts, PutStep(p), [MigratedNext]_migratedVars, UNCHANGED readers
      PROVE  ReadersInOrder'
  BY <1>5, PutReading, PutVersioned DEF ReadersInOrder
<1> QED
  BY <1>3, <1>4, <1>5, NextPutStep DEF ReaderNext, readerVars, ReaderStep

LEMMA InitInOrder == ReaderInit => ReadersInOrder
<1> SUFFICES ASSUME ReaderInit PROVE ReadersInOrder
  OBVIOUS
<1>1. /\ MigratedInit /\ Init /\ ClientInit /\ MInv
      /\ \A p \in Puts : Env(p) \in Envs /\ seen[p].state = NoVersion
  BY MigratedInitInvariant, RequestTypes
     DEF ReaderInit, MigratedInit, Init, MInv, MigratedTypeOK
<1>2. /\ \A e \in Envs : version[e] = NoVersion /\ (e \in spaces => e = Default)
      /\ NoVersion.lineage = Nobody /\ NoVersion.serial = 0
      /\ Nobody \notin Puts /\ Nobody \notin Envs
  BY <1>1, ClientAssumption DEF ClientInit, Names, NoVersion
<1>3. \A e \in Envs : Of(e, NoVersion)
  BY <1>2 DEF Of, OfEnv, Settled, NotOlder
<1>4. Versioned
  BY <1>1, <1>2, <1>3 DEF Versioned, Current
<1>5. \A r \in Readers : Reading(r)
  BY DEF ReaderInit, Reading, OfferOK, NoOffer, NotBeforeAsked, FilesInOrder, CheckGoesOn, Checked
<1> QED
  BY <1>4, <1>5 DEF ReadersInOrder

-----------------------------------------------------------------------------
(* The invariant of puts, gets and checks, while copies are fresh. *)
LEMMA ReadersStayInOrder ==
    ASSUME PlanNamesApart
    PROVE  ReaderSpec /\ []CopiesFresh => []ReadersInOrder
<1>1. MInv /\ ReadersOK /\ [ReaderNext]_readerVars => MInv' /\ ReadersOK'
  BY ReaderNextTypes
<1>2. /\ MInv /\ MInv' /\ CopiesFresh /\ ReadersOK /\ ReadersInOrder /\ [ReaderNext]_readerVars
      => ReadersInOrder'
  BY NextInOrder
<1> QED
  BY <1>1, <1>2, ReaderInitTypes, InitInOrder, PTL DEF ReaderSpec

(* The version a get returns is not older than the files it has written,   *)
(* as long as no put makes a workspace from a state file that has left the *)
(* bucket.                                                                 *)
THEOREM VersionsCoverFiles ==
    ASSUME PlanNamesApart
    PROVE  ReaderSpec /\ []CopiesFresh => []VersionCoversFiles
<1>1. ReadersInOrder => VersionCoversFiles
  BY DEF ReadersInOrder, Reading, FilesInOrder, VersionCoversFiles, Got
<1> QED
  BY <1>1, ReadersStayInOrder, PTL

(* A get that succeeds has not written outputs that are older than the     *)
(* version it was asked for, wherever it has found them, under the same    *)
(* condition.                                                              *)
THEOREM GetsAreNeverStale ==
    ASSUME PlanNamesApart
    PROVE  ReaderSpec /\ []CopiesFresh => []GetNeverStale
<1>1. ReadersInOrder => GetNeverStale
  BY DEF ReadersInOrder, Reading, NotBeforeAsked, GetNeverStale
<1> QED
  BY <1>1, ReadersStayInOrder, PTL

(* A check during which the env's state does not change returns its        *)
(* version, whatever version of the env, of another one, of a plan or of   *)
(* the legacy storage it was asked with, under the same condition: without *)
(* it the serial of a lineage that a check has seen may go back.           *)
THEOREM ChecksMissNothing ==
    ASSUME PlanNamesApart
    PROVE  ReaderSpec /\ []CopiesFresh => []CheckMissesNothing
<1>1. ReadersInOrder => CheckMissesNothing
  BY DEF ReadersInOrder, Reading, CheckGoesOn, StillThere, CheckMissesNothing
<1> QED
  BY <1>1, ReadersStayInOrder, PTL

-----------------------------------------------------------------------------
(* Copies are fresh while no two puts of an env run at the same time: only *)
(* the put that migrates an env takes its state file out of the bucket.    *)
OnePutPerEnv ==
    \A p, q \in Puts : Running(p) /\ Running(q) /\ Env(p) = Env(q) => p = q

LEMMA MigrateFresh ==
    ASSUME MInv, OnePutPerEnv, CopiesFresh, NEW p \in Puts, Migrate(p)
    PROVE  CopiesFresh'
<1>a. /\ BucketStep(p) /\ NextMove(p, move'[p]) /\ pc[p] \in Entries
      /\ \A q \in Puts : Env(q)' = Env(q) /\ Env(q) \in Envs
      /\ \A q \in Puts \ {p} : pc'[q] = pc[q] /\ move'[q] = move[q]
      /\ key[p] \in StateKeys
      /\ bucket \in [Envs -> [Keys -> Files]] /\ move \in [Puts -> MoveSteps]
  BY MigrateData, MigrateControl, RequestTypes
     DEF MInv, MigratedTypeOK, TypeOK, ControlTypeOK, Goto, MoveTo, Env
<1>1. ASSUME move'[p] = "new" PROVE Held(Env(p))'
  <2>1. bucket' = bucket /\ Found(p, key[p])
    BY <1>a, <1>1 DEF BucketStep, NextMove
  <2> QED
    BY <1>a, <2>1 DEF Held, Holds, Found
<1>2. ASSUME NEW q \in Puts \ {p}, pc'[q] \in Entries, move'[q] = "new"
      PROVE  Held(Env(q))'
  <2>1. Held(Env(q)) /\ Running(q) /\ Running(p)
    BY <1>a, <1>2 DEF CopiesFresh, Running, Entries, Ended
  <2>2. Env(q) # Env(p)
    BY <2>1 DEF OnePutPerEnv
  <2>3. bucket'[Env(q)] = bucket[Env(q)]
    BY <1>a, <2>2 DEF BucketStep, Dropped
  <2> QED
    BY <1>a, <2>1, <2>3 DEF Held, Holds
<1> QED
  BY <1>1, <1>2 DEF CopiesFresh

LEMMA ActionFresh ==
    ASSUME MInv, CopiesFresh, NEW p \in Puts, ActionStep(p)
    PROVE  CopiesFresh'
<1>a. /\ IInv /\ TypeOK /\ OwnWorkspace /\ pc \in [Puts -> Labels] /\ move \in [Puts -> MoveSteps]
  BY DEF MInv, IInv, MigratedTypeOK, TypeOK, ControlTypeOK
<1>1. PICK label \in Labels : Moves(p, label)
  BY <1>a, ActionMoves
<1>2. /\ Running(p) /\ \A q \in Puts : Env(q)' = Env(q) /\ (q # p => pc'[q] = pc[q])
      /\ pc[p] \in Entries => move[p] = "done"
      /\ MoveTo(p, IF pc'[p] = "destroySelect" THEN "exists" ELSE move[p])
      /\ \A e : Held(e)' = Held(e)
  BY <1>a, <1>1, ActionCases DEF Moves, Goto, Env, Held, Holds
<1>3. move'[p] # "new" /\ \A q \in Puts \ {p} : move'[q] = move[q]
  <2>1. move[p] # "new"
    BY <1>2 DEF MInv, Home, Placed, Running
  <2> QED
    BY <1>a, <1>2, <2>1 DEF MoveTo
<1> QED
  BY <1>2, <1>3 DEF CopiesFresh

LEMMA ReaderLeaves ==
    ASSUME NEW r \in Readers, ReaderStep(r)
    PROVE  UNCHANGED <<pc, req, cause, move, bucket, res, infra>>
<1>1. CASE CheckStart(r) \/ GetStart(r)
  BY <1>1 DEF CheckStart, GetStart, migratedVars, vars, control, migration, clientVars, backend
<1>2. CASE ~(CheckStart(r) \/ GetStart(r))
  BY <1>2
     DEF ReaderStep, CheckStep, GetStep, CheckList, CheckVersion, CheckLegacy, GetPlanFile, GetList,
         GetOutput, GetState, GetVersion, LegacyTainted, LegacyState, LegacyRead, GetTfVersion,
         Read, migration, clientVars, backend
<1> QED
  BY <1>1, <1>2

LEMMA NextFresh ==
    ASSUME MInv, OnePutPerEnv, CopiesFresh, [ReaderNext]_readerVars
    PROVE  CopiesFresh'
<1>1. CASE UNCHANGED <<pc, req, move, bucket>>
  BY <1>1 DEF CopiesFresh, Held, Holds, Env
<1>2. ASSUME NEW p \in Puts,
             \/ MigratedStart(p)
             \/ (ApplyProvision(p) \/ Kill(p)) /\ UNCHANGED migration
             \/ KillNewFromState(p)
      PROVE  CopiesFresh'
  <2>1. /\ UNCHANGED <<req, move, bucket>>
        /\ \A q \in Puts : pc'[q] = pc[q] \/ pc'[q] \in {"setup", "killed", "killedApply"}
    BY <1>2 DEF MInv, MigratedTypeOK, TypeOK, ControlTypeOK, MigratedStart, Start, Continue,
                ApplyProvision, Kill, KillNewFromState, Goto, migration, control
  <2> QED
    BY <2>1 DEF CopiesFresh, Held, Holds, Env, Entries
<1>3. ASSUME NEW r \in Readers, ReaderStep(r) PROVE UNCHANGED <<pc, req, move, bucket>>
  BY <1>3, ReaderLeaves
<1>4. CASE UNCHANGED migratedVars
  BY <1>1, <1>4 DEF migratedVars, vars, control, migration
<1>5. CASE AllEnded /\ UNCHANGED migration
  BY <1>1, <1>5 DEF AllEnded, vars, control, migration
<1>6. CASE MigratedNext
  <2>1. ASSUME NEW p \in Puts, Migrate(p) PROVE CopiesFresh'
    BY <2>1, MigrateFresh
  <2>2. ASSUME NEW p \in Puts, ActionStep(p) PROVE CopiesFresh'
    BY <2>2, ActionFresh
  <2> QED
    BY <1>2, <1>5, <1>6, <2>1, <2>2 DEF MigratedNext
<1>7. ASSUME NEW r \in Readers, ReaderStep(r) PROVE CopiesFresh'
  BY <1>1, <1>3, <1>7
<1>8. UNCHANGED readerVars => UNCHANGED migratedVars
  BY DEF readerVars
<1> QED
  BY <1>4, <1>6, <1>7, <1>8 DEF ReaderNext, ReaderStep

LEMMA InitFresh == ReaderInit => CopiesFresh
BY DEF ReaderInit, MigratedInit, CopiesFresh

(* A put that makes the workspace of an env from its legacy state file     *)
(* finds the file in the bucket still, when the puts of the env are one at *)
(* a time.                                                                 *)
THEOREM CopiesStayFresh == ReaderSpec /\ []OnePutPerEnv => []CopiesFresh
<1>1. MInv /\ ReadersOK /\ [ReaderNext]_readerVars => MInv' /\ ReadersOK'
  BY ReaderNextTypes
<1>2. MInv /\ OnePutPerEnv /\ CopiesFresh /\ [ReaderNext]_readerVars => CopiesFresh'
  BY NextFresh
<1> QED
  BY <1>1, <1>2, ReaderInitTypes, InitFresh, PTL DEF ReaderSpec

OneRunning == \A p, q \in Puts : Running(p) /\ Running(q) => p = q

LEMMA NextRunning ==
    ASSUME MInv, MaxActive = 1, IsFiniteSet(Puts), OneRunning, [ReaderNext]_readerVars
    PROVE  OneRunning'
<1>a. pc \in [Puts -> Labels]
  BY DEF MInv, MigratedTypeOK, TypeOK, ControlTypeOK
<1>1. CASE pc' = pc
  BY <1>1 DEF OneRunning, Running
<1>2. ASSUME NEW p \in Puts, Running(p), \A q \in Puts \ {p} : pc'[q] = pc[q]
      PROVE  OneRunning'
  BY <1>2 DEF OneRunning, Running
<1>3. ASSUME NEW p \in Puts, MigratedStart(p) PROVE OneRunning'
  <2>1. Others(p) = {}
    <3>1. IsFiniteSet(Others(p))
      BY FS_Subset DEF Others
    <3>2. Cardinality(Others(p)) = 0
      BY <1>3, <3>1, FS_CardinalityType DEF MigratedStart, Start
    <3> QED
      BY <3>1, <3>2, FS_EmptySet
  <2>2. \A q \in Puts \ {p} : pc'[q] = pc[q]
    BY <1>a, <1>3 DEF MigratedStart, Start, Continue, Goto
  <2> QED
    BY <2>1, <2>2 DEF OneRunning, Running, Others
<1>4. ASSUME NEW p \in Puts, ActionStep(p) PROVE OneRunning'
  <2>1. PICK label \in Labels : Moves(p, label)
    BY <1>4, ActionMoves DEF MInv, IInv
  <2> QED
    BY <1>a, <1>2, <2>1 DEF Moves, Goto
<1>5. ASSUME NEW p \in Puts, Migrate(p) PROVE OneRunning'
  BY <1>a, <1>2, <1>5, MigrateControl DEF MInv, MigratedTypeOK, Goto, Running, Entries, Ended
<1>6. ASSUME NEW p \in Puts, ApplyProvision(p) \/ Kill(p) \/ KillNewFromState(p) PROVE OneRunning'
  BY <1>a, <1>1, <1>2, <1>6
     DEF ApplyProvision, Kill, KillNewFromState, Goto, control, Running, Entries, Ended
<1>7. CASE AllEnded \/ UNCHANGED migratedVars
  BY <1>1, <1>7 DEF AllEnded, migratedVars, vars, control
<1>8. ASSUME NEW r \in Readers, ReaderStep(r) PROVE pc' = pc
  BY <1>8, ReaderLeaves
<1> QED
  BY <1>1, <1>3, <1>4, <1>5, <1>6, <1>7, <1>8 DEF ReaderNext, ReaderStep, MigratedNext, readerVars

(* MaxActive bounds the puts that run at the same time, whatever the gets  *)
(* and the checks do.                                                      *)
THEOREM OnePutAtATime ==
    ASSUME MaxActive = 1, IsFiniteSet(Puts)
    PROVE  ReaderSpec => []OnePutPerEnv
<1>1. ReaderInit => OneRunning
  BY DEF ReaderInit, MigratedInit, Init, OneRunning, Running
<1>2. MInv /\ ReadersOK /\ [ReaderNext]_readerVars => MInv' /\ ReadersOK'
  BY ReaderNextTypes
<1>3. MInv /\ OneRunning /\ [ReaderNext]_readerVars => OneRunning'
  BY NextRunning
<1>4. OneRunning => OnePutPerEnv
  BY DEF OneRunning, OnePutPerEnv
<1> QED
  BY <1>1, <1>2, <1>3, <1>4, ReaderInitTypes, PTL DEF ReaderSpec

(* What gets and checks promise when the puts are one at a time, as a      *)
(* serial job runs them; nothing is assumed of the states that are reached.*)
THEOREM SerialPutsKeepReaders ==
    ASSUME PlanNamesApart, MaxActive = 1, IsFiniteSet(Puts)
    PROVE  ReaderSpec => [](VersionCoversFiles /\ GetNeverStale /\ CheckMissesNothing)
BY OnePutAtATime, CopiesStayFresh, VersionsCoverFiles, GetsAreNeverStale, ChecksMissNothing, PTL

-----------------------------------------------------------------------------
(* The refinement.  Of the puts of EnvReader no step is a Restore, when    *)
(* the file a put has downloaded is in the bucket still.                   *)
LEMMA RecordsLive ==
    ASSUME MInv, OnRequest, PlanNamesApart, CopiesFresh, [MigratedNext]_migratedVars,
           NEW e \in Envs, e \in OnRecord(e)', e \notin OnRecord(e)
    PROVE  e \in infra
<1>a. /\ IInv /\ TypeOK /\ OwnWorkspace
      /\ \A p \in Puts : Env(p) \in Envs /\ MovedStore!Env(p) = Env(p)
  BY RequestTypes DEF MInv, MigratedTypeOK, IInv, MovedStore!Env, Env
<1>b. ~MovedStore!Nothing
  BY DEF MovedStore!Nothing
<1>1. ASSUME NEW p \in Puts, Migrate(p) PROVE FALSE
  <2>1. move[p] = "new" /\ \A k \in StateKeys : ~Found(p, k)
    BY <1>b, <1>1, MigrateRecords
  <2>2. Held(Env(p))
    BY <1>a, <1>1, <2>1, MigrateControl DEF CopiesFresh
  <2> QED
    BY <2>1, <2>2 DEF Held, Holds, Found
<1>2. ASSUME NEW p \in Puts, ActionStep(p) PROVE e \in infra
  <2>1. PICK label \in Labels : Moves(p, label)
    BY <1>a, <1>2, ActionMoves
  <2>2. MovedStore!Keep(p) \/ MovedStore!Adopt(p) \/ MovedStore!Remove(p)
    BY <1>b, <1>2, <2>1, ActionCases, ActionRecords
  <2>3. CASE MovedStore!Keep(p)
    <3>1. OnRecord(e)' \subseteq OnRecord(e) \cup ({p} \cap infra)
      BY <1>a, <2>3 DEF MovedStore!Keep
    <3> QED
      BY <3>1
  <2>4. CASE MovedStore!Adopt(p)
    <3>1. /\ [f \in Envs |-> OnRecord(f)]' =
                 [[f \in Envs |-> OnRecord(f)] EXCEPT ![Env(p)] = @ \cup {Env(p)}]
          /\ Env(p) \in infra
      BY <1>a, <2>4 DEF MovedStore!Adopt
    <3>2. OnRecord(e)' \subseteq OnRecord(e) \cup {Env(p)}
      BY <1>a, <3>1
    <3> QED
      BY <3>1, <3>2
  <2>5. CASE MovedStore!Remove(p)
    <3>1. OnRecord(e)' \subseteq OnRecord(e)
      BY <1>a, <2>5 DEF MovedStore!Remove
    <3> QED
      BY <3>1
  <2> QED
    BY <2>2, <2>3, <2>4, <2>5
<1>3. UNCHANGED <<res, bucket>> => FALSE
  BY OnRecordIs
<1>4. ASSUME NEW p \in Puts,
             \/ MigratedStart(p)
             \/ (ApplyProvision(p) \/ Kill(p)) /\ UNCHANGED migration
             \/ KillNewFromState(p)
      PROVE  FALSE
  BY <1>3, <1>4, KillNewCases
     DEF KilledNew, MigratedStart, Start, ApplyProvision, Provision, Kill, migration, clientVars, backend
<1>5. UNCHANGED <<vars, migration>> => FALSE
  BY <1>3 DEF vars, clientVars, backend, migration
<1> QED
  BY <1>1, <1>2, <1>4, <1>5 DEF MigratedNext, AllEnded, migratedVars

LEMMA RefinesSerialNext ==
    ASSUME MInv, MInv', OnRequest, PlanNamesApart, CopiesFresh, [ReaderNext]_readerVars
    PROVE  [SerialStore!Next]_(SerialStore!vars)
<1>1. CASE UNCHANGED <<pc, req, res, infra, bucket>>
  <2>1. \A e \in Envs : OnRecord(e)' = OnRecord(e)
    BY <1>1, OnRecordIs
  <2>2. \A p \in Puts : Status(p)' = Status(p)
    BY <1>1 DEF Status
  <2> QED
    BY <1>1, <2>1, <2>2 DEF SerialStore!vars
<1>2. ASSUME NEW r \in Readers, ReaderStep(r) PROVE UNCHANGED <<pc, req, res, infra, bucket>>
  BY <1>2, ReaderLeaves
<1>3. CASE [MigratedNext]_migratedVars
  <2>1. [MovedStore!Next]_(MovedStore!vars)
    BY <1>3, RefinesMovedNext
  <2>2. ASSUME NEW p \in Puts, MovedStore!Restore(p) PROVE SerialStore!Nothing
    <3>1. Env(p) \in Envs /\ MovedStore!Env(p) = Env(p)
      BY RequestTypes DEF MInv, MigratedTypeOK, MovedStore!Env, Env
    <3>2. ASSUME NEW e \in Envs PROVE OnRecord(e)' = OnRecord(e)
      <4>1. OnRecord(e)' = IF e = Env(p) THEN OnRecord(e) \cup {e} ELSE OnRecord(e)
        BY <2>2, <3>1 DEF MovedStore!Restore
      <4>2. e = Env(p) => e \in OnRecord(e)
        BY <1>3, <2>2, <3>1, <4>1, RecordsLive DEF MovedStore!Restore
      <4> QED
        BY <4>1, <4>2
    <3> QED
      BY <2>2, <3>2 DEF MovedStore!Restore, SerialStore!Nothing
  <2>3. ASSUME NEW p \in Puts, MovedStore!Proceed(p) PROVE SerialStore!Proceed(p)
    <3>1. \/ SerialStore!Nothing \/ SerialStore!Keep(p) \/ SerialStore!Adopt(p)
          \/ SerialStore!Remove(p)
      BY <2>2, <2>3
         DEF MovedStore!Proceed, MovedStore!Nothing, SerialStore!Nothing, MovedStore!Keep,
             SerialStore!Keep, MovedStore!Adopt, SerialStore!Adopt, MovedStore!Remove,
             SerialStore!Remove, MovedStore!Destroys, SerialStore!Destroys, MovedStore!Env,
             SerialStore!Env
    <3> QED
      BY <2>3, <3>1
         DEF MovedStore!Proceed, SerialStore!Proceed, MovedStore!Return, SerialStore!Return,
             MovedStore!Env, SerialStore!Env
  <2>4. ASSUME NEW p \in Puts, MovedStore!Begin(p) \/ MovedStore!Make(p) \/ MovedStore!Abort(p)
        PROVE  SerialStore!Begin(p) \/ SerialStore!Make(p) \/ SerialStore!Abort(p)
    BY <2>4
       DEF MovedStore!Begin, SerialStore!Begin, MovedStore!Make, SerialStore!Make,
           MovedStore!Abort, SerialStore!Abort, MovedStore!Destroys, SerialStore!Destroys,
           MovedStore!Env, SerialStore!Env
  <2>5. UNCHANGED MovedStore!vars => UNCHANGED SerialStore!vars
    BY DEF MovedStore!vars, SerialStore!vars
  <2> QED
    BY <2>1, <2>3, <2>4, <2>5 DEF MovedStore!Next, SerialStore!Next
<1> QED
  BY <1>1, <1>2, <1>3 DEF ReaderNext, ReaderStep, readerVars

LEMMA ReaderOnRequest ==
    ASSUME MInv, OnRequest, [ReaderNext]_readerVars
    PROVE  OnRequest'
<1>1. CASE UNCHANGED <<pc, req, cause>>
  BY <1>1 DEF OnRequest, MayRun, MayDestroy
<1>2. ASSUME NEW r \in Readers, ReaderStep(r) PROVE UNCHANGED <<pc, req, cause>>
  BY <1>2, ReaderLeaves
<1>3. CASE [MigratedNext]_migratedVars
  BY <1>3, MigratedOnRequest
<1> QED
  BY <1>1, <1>2, <1>3 DEF ReaderNext, ReaderStep, readerVars

(* Puts that migrate and run one after the other implement the abstract    *)
(* store in which nothing that is gone comes to be known again.            *)
THEOREM RefinesSerialStore ==
    ASSUME PlanNamesApart, MaxActive = 1, IsFiniteSet(Puts)
    PROVE  ReaderSpec => ImplementsSerialStore
<1>1. ReaderInit => SerialStore!Init /\ OnRequest
  <2>1. ReaderInit => MovedStore!Init /\ OnRequest
    BY RefinesMovedInit DEF ReaderInit
  <2> QED
    BY <2>1 DEF MovedStore!Init, SerialStore!Init
<1>2. MInv /\ ReadersOK /\ [ReaderNext]_readerVars => MInv' /\ ReadersOK'
  BY ReaderNextTypes
<1>3. MInv /\ OnRequest /\ [ReaderNext]_readerVars => OnRequest'
  BY ReaderOnRequest
<1>4. MInv /\ MInv' /\ OnRequest /\ CopiesFresh /\ [ReaderNext]_readerVars
          => [SerialStore!Next]_(SerialStore!vars)
  BY RefinesSerialNext
<1> QED
  BY <1>1, <1>2, <1>3, <1>4, ReaderInitTypes, OnePutAtATime, CopiesStayFresh, PTL
     DEF ReaderSpec, ImplementsSerialStore, SerialStore!Spec
=============================================================================
