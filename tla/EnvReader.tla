------------------------------- MODULE EnvReader -------------------------------
(***************************************************************************)
(* get and check beside the puts of a source that is migrated_from_storage:*)
(* Runner.Run of in/in.go and of check/check.go.  Both read an env in      *)
(* several commands while puts go on, and both turn to the legacy storage  *)
(* when the backend does not have what they look for.  A get here writes   *)
(* the state file and the plan (output_statefile, output_planfile) too.    *)
(***************************************************************************)
EXTENDS MigratedPut

CONSTANTS
    Readers,        \* the containers that check or get
    CheckedEnv,     \* source.env_name
    LastModified    \* the time at which the legacy state of each env was written

ASSUME ReaderAssumption ==
    /\ CheckedEnv \in Envs
    /\ LastModified \in [Envs -> Nat \ {0}]

VARIABLES
    step,       \* the next call of each reader
    asked,      \* the version in the request of each reader
    answer,     \* the version each reader has returned
    volume,     \* the state versions and the plan that each get has written
    around      \* history: the version of the checked env's state, at a check's ends

readers == <<step, asked, answer, volume, around>>
readerVars == <<migratedVars, readers>>

(* A version names an env.  The version of a state has its lineage and     *)
(* serial, that of a legacy state file its time, and those that a plan or  *)
(* a destroy puts out have neither.                                        *)
Offer(e, kind, v) == [env |-> e, kind |-> kind, at |-> v]
Offers == [env : Envs, kind : {"state", "plan", "destroyed", "legacy"}, at : Versions]
NoOffer == [env |-> CheckedEnv, kind |-> "none", at |-> NoVersion]
AnError == [env |-> CheckedEnv, kind |-> "error", at |-> NoVersion]

Calls == {"idle", "checkList", "checkVersion", "checkLegacy",
          "getPlan", "getList", "getOutput", "getState", "getVersion",
          "legacyTainted", "legacyState", "legacyTaintedState",
          "legacyDownload", "legacyTaintedDownload", "tfVersion", "checked", "got"}

(* The type invariant. *)
ReaderTypeOK ==
    /\ MigratedTypeOK
    /\ step \in [Readers -> Calls]
    /\ asked \in [Readers -> Offers \cup {NoOffer}]
    /\ answer \in [Readers -> Offers \cup {NoOffer, AnError}]
    /\ volume \in [Readers -> [metadata : Versions, state : Versions, plan : Plans]]
    /\ around \in [Readers -> [before : Versions, after : Versions]]

ReaderInit ==
    /\ MigratedInit
    /\ step = [r \in Readers |-> "idle"]
    /\ asked = [r \in Readers |-> NoOffer]
    /\ answer = [r \in Readers |-> NoOffer]
    /\ volume = [r \in Readers |-> [metadata |-> NoVersion, state |-> NoVersion,
                                    plan |-> NoPlan]]
    /\ around = [r \in Readers |-> [before |-> NoVersion, after |-> NoVersion]]

(* The versions that Concourse knows of: what puts and checks have         *)
(* returned, before the source was migrated as well.                       *)
PutVersion(p) ==
    CASE req[p].kind = "apply" -> Offer(Env(p), "state", seen[p].state)
      [] req[p].kind = "plan" -> Offer(Env(p), "plan", NoVersion)
      [] OTHER -> Offer(Env(p), "destroyed", NoVersion)
Known ==
    {Offer(e, "legacy", NoVersion) : e \in legacy} \cup
    {PutVersion(p) : p \in {q \in Puts : reply[q] = "version"}} \cup
    ({answer[c] : c \in {r \in Readers : step[r] = "checked"}} \ {NoOffer, AnError})

Holds(e, k) == bucket[e][k] # NoFile

-----------------------------------------------------------------------------
(* One call of a reader: it succeeds, or it fails because what it reads is *)
(* not there or on its own.                                                *)
Read(r, from, can, success, failure) ==
    /\ step[r] = from
    /\ \/ can /\ success /\ UNCHANGED faults
       \/ ~can /\ failure /\ UNCHANGED <<faults, volume>>
       \/ CanFault /\ faults' = faults + 1 /\ failure /\ UNCHANGED volume
    /\ UNCHANGED <<clientVars, pc, req, cause, reply, kills, history, migration, asked>>

GoOn(r, call) == step' = [step EXCEPT ![r] = call] /\ UNCHANGED <<answer, around>>
Before(r, call, v) ==
    /\ step' = [step EXCEPT ![r] = call]
    /\ answer' = [answer EXCEPT ![r] = v]
    /\ UNCHANGED around

(* `state pull`, as CurrentStateVersion parses it: of a workspace without  *)
(* a state it prints nothing.                                              *)
CanPull(e) == e \in spaces /\ version[e] # NoVersion

-----------------------------------------------------------------------------
(* check. *)
CheckReturns(c, v) ==
    /\ step' = [step EXCEPT ![c] = "checked"]
    /\ answer' = [answer EXCEPT ![c] = v]
    /\ around' = [around EXCEPT ![c].after = version[CheckedEnv]]

CheckStart(c) ==
    /\ step[c] = "idle"
    /\ \E v \in Known \cup {NoOffer} : asked' = [asked EXCEPT ![c] = v]
    /\ step' = [step EXCEPT ![c] = "checkList"]
    /\ around' = [around EXCEPT ![c].before = version[CheckedEnv]]
    /\ UNCHANGED <<migratedVars, answer, volume>>

(* LatestVersionForEnv. *)
CheckList(c) ==
    Read(c, "checkList", TRUE,
         GoOn(c, IF CheckedEnv \in spaces THEN "checkVersion" ELSE "checkLegacy")
            /\ UNCHANGED volume,
         CheckReturns(c, AnError))

(* Mutant: the version that Concourse has is not returned again. *)
BadIsNew(c, v) == v.serial > asked[c].at.serial \/ v.lineage # asked[c].at.lineage
IsNew(c, v) == v.serial >= asked[c].at.serial \/ v.lineage # asked[c].at.lineage
CheckVersion(c) ==
    Read(c, "checkVersion", CanPull(CheckedEnv),
         /\ IF IsNew(c, version[CheckedEnv])
            THEN CheckReturns(c, Offer(CheckedEnv, "state", version[CheckedEnv]))
            ELSE GoOn(c, "checkLegacy")
         /\ UNCHANGED volume,
         CheckReturns(c, AnError))

(* runWithLegacyStorage takes the newest state file of the bucket; those   *)
(* that are tainted or migrated have other endings.                        *)
Latest(e) == Holds(e, "state") /\ \A f \in Envs : Holds(f, "state") => LastModified[f] <= LastModified[e]
AskedTime(c) == IF asked[c].kind = "legacy" THEN LastModified[asked[c].env] ELSE 0
CheckLegacy(c) ==
    Read(c, "checkLegacy", TRUE,
         /\ \/ \E e \in Envs : Latest(e) /\ LastModified[e] >= AskedTime(c)
                                 /\ CheckReturns(c, Offer(e, "legacy", NoVersion))
            \/ (\A e \in Envs : Latest(e) => LastModified[e] < AskedTime(c)) /\ CheckReturns(c, NoOffer)
         /\ UNCHANGED volume,
         CheckReturns(c, AnError))

-----------------------------------------------------------------------------
(* get. *)
Return(g, v) == Before(g, "got", v)
AskedEnv(g) == asked[g].env
Write(g, file, content) == volume' = [volume EXCEPT ![g][file] = content]

(* With get_params.action destroy nothing is read. *)
GetStart(g) ==
    /\ step[g] = "idle"
    /\ \E v \in Known :
           /\ asked' = [asked EXCEPT ![g] = v]
           /\ \/ v.kind = "destroyed" /\ Return(g, v)
              \/ GoOn(g, IF v.kind = "plan" THEN "getPlan" ELSE "getList")
    /\ UNCHANGED <<migratedVars, volume>>

(* inWithMigratedFromStorage turns to the legacy storage after any error:  *)
(* every error is an EnvNotFoundError.  For the version of a plan there is *)
(* nothing to read there, and errors of writeBackendOutputs are ignored.   *)
BackendFails(g) ==
    IF asked[g].kind = "plan" THEN Return(g, asked[g]) ELSE GoOn(g, "legacyTainted")

GetPlanFile(g) ==
    Read(g, "getPlan", CanGetPlan(PlanName[AskedEnv(g)]),
         GoOn(g, "getList") /\ Write(g, "plan", stored[PlanName[AskedEnv(g)]]),
         BackendFails(g))
GetList(g) ==
    Read(g, "getList", AskedEnv(g) \in spaces,
         GoOn(g, "getOutput") /\ UNCHANGED volume,
         BackendFails(g))
GetOutput(g) ==
    Read(g, "getOutput", AskedEnv(g) \in spaces,
         GoOn(g, "getState") /\ Write(g, "metadata", version[AskedEnv(g)]),
         BackendFails(g))
GetState(g) ==
    Read(g, "getState", AskedEnv(g) \in spaces,
         GoOn(g, "getVersion") /\ Write(g, "state", version[AskedEnv(g)]),
         BackendFails(g))

(* The version is returned when the last call has succeeded. *)
(* Mutant: the version of the request is returned. *)
BadGetVersion(g) ==
    Read(g, "getVersion", CanPull(AskedEnv(g)),
         Before(g, "tfVersion", Offer(AskedEnv(g), "state", asked[g].at)) /\ UNCHANGED volume,
         BackendFails(g))
GetVersion(g) ==
    Read(g, "getVersion", CanPull(AskedEnv(g)),
         /\ Before(g, "tfVersion", Offer(AskedEnv(g), "state", version[AskedEnv(g)]))
         /\ UNCHANGED volume,
         BackendFails(g))

(* stateFileFromLegacyStorage looks for a tainted state file first.        *)
LegacyTainted(g) ==
    Read(g, "legacyTainted", TRUE,
         GoOn(g, IF Holds(AskedEnv(g), "tainted") THEN "legacyTaintedState" ELSE "legacyState")
            /\ UNCHANGED volume,
         Return(g, AnError))
LegacyState(g, k, from, to) ==
    Read(g, from, Holds(AskedEnv(g), k), GoOn(g, to) /\ UNCHANGED volume, Return(g, AnError))

(* Mutant: the ending of a tainted state file stays in the env's name.     *)
BadNewVersionFromLegacyStorage(e, k) ==
    Offer(IF k = "tainted" THEN <<e, k>> ELSE e, "legacy", NoVersion)
NewVersionFromLegacyStorage(e, k) == Offer(e, "legacy", NoVersion)
LegacyRead(g, k, from) ==
    Read(g, from, Holds(AskedEnv(g), k),
         /\ LET file == bucket[AskedEnv(g)][k]
            IN volume' = [volume EXCEPT ![g].metadata = file.version, ![g].state = file.version]
         /\ Before(g, "tfVersion", NewVersionFromLegacyStorage(AskedEnv(g), k)),
         Return(g, AnError))

GetTfVersion(g) ==
    Read(g, "tfVersion", TRUE,
         /\ Return(g, IF asked[g].kind = "plan" THEN asked[g] ELSE answer[g])
         /\ UNCHANGED volume,
         IF answer[g].kind = "legacy" THEN Return(g, AnError) ELSE BackendFails(g))

-----------------------------------------------------------------------------
CheckStep(c) == CheckStart(c) \/ CheckList(c) \/ CheckVersion(c) \/ CheckLegacy(c)
GetStep(g) ==
    \/ GetStart(g) \/ GetPlanFile(g) \/ GetList(g) \/ GetOutput(g) \/ GetState(g)
    \/ GetVersion(g) \/ LegacyTainted(g)
    \/ LegacyState(g, "state", "legacyState", "legacyDownload")
    \/ LegacyState(g, "tainted", "legacyTaintedState", "legacyTaintedDownload")
    \/ LegacyRead(g, "state", "legacyDownload")
    \/ LegacyRead(g, "tainted", "legacyTaintedDownload")
    \/ GetTfVersion(g)

ReaderNext ==
    \/ MigratedNext /\ UNCHANGED readers
    \/ \E r \in Readers : CheckStep(r) \/ GetStep(r)

ReaderSpec == ReaderInit /\ [][ReaderNext]_readerVars
-----------------------------------------------------------------------------
(* Properties. *)

Checked(r) == step[r] = "checked" /\ answer[r].kind # "error"
Got(r) == step[r] = "got" /\ answer[r].kind # "error"

(* The version a get returns covers the files it has written before: puts  *)
(* that go on meanwhile make the version newer than the files, never the   *)
(* files newer than the version.                                           *)
VersionCoversFiles ==
    \A g \in Readers :
        Got(g) /\ answer[g].kind = "state" =>
            /\ NotOlder(volume[g].metadata, volume[g].state)
            /\ NotOlder(volume[g].state, answer[g].at)

(* A get never writes outputs that are older than the version it was asked *)
(* for, also when a command fails and it turns to the legacy storage while *)
(* the env is being migrated.                                              *)
GetNeverStale ==
    \A g \in Readers :
        /\ Got(g) /\ asked[g].kind = "state"
        /\ volume[g].metadata # NoVersion
        => NotOlder(asked[g].at, volume[g].metadata)

(* Whatever version Concourse has, of a lineage or of an env that is gone, *)
(* of a plan or of the legacy storage, a check during which the env's      *)
(* state does not change returns the version of that state.  This is about *)
(* puts that run one after the other: two that migrate the env at the same *)
(* time can bring a version back that has been destroyed.                  *)
CheckMissesNothing ==
    \A c \in Readers :
        Checked(c) /\ around[c].before = around[c].after /\ around[c].before # NoVersion
        => answer[c] = Offer(CheckedEnv, "state", around[c].before)

(* What the documentation says and the code does not do: a get of a plan   *)
(* that succeeds has written plan.json.                                    *)
PlanIsWritten ==
    \A g \in Readers : Got(g) /\ asked[g].kind = "plan" => volume[g].plan # NoPlan
=============================================================================
