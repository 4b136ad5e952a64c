------------------------------ MODULE OutProcess ------------------------------
(***************************************************************************)
(* The process of a put, out/out.go: Run reads the request, starts the ssh *)
(* agent, finds the name of the env and runs an action, one command after  *)
(* the other, each in a Runner.  Several processes put at once, any of     *)
(* them can be told to stop at any moment.                                 *)
(*                                                                         *)
(* The actions themselves are BackendPut, LegacyPut and MigratedPut.  Here *)
(* one is two commands, "open", which comes to have a workspace (and moves *)
(* the state file when it migrates), and "act", everything after it.       *)
(***************************************************************************)
EXTENDS OutModel, SignalRunner

CONSTANTS
    Requests,       \* the requests of puts: see OutModel
    Names,          \* the names of envs
    RandomNames,    \* those that RandomName can make
    Workspaces, StateFiles, TaintedFiles,
                    \* the envs there are before, by where their state is
    BadKey,         \* a private key that cannot be parsed
    MaxFaults       \* bound: calls and commands that fail on their own

ASSUME NamesAssumption ==
    /\ {""} \cup RandomNames \cup Workspaces \cup StateFiles \cup TaintedFiles \subseteq Names
    /\ \A r \in Requests, kind \in Kinds :
           Text(r, kind) \in {None, ""} \/ Clean(Text(r, kind)) \in Names
ASSUME ModelsAssumption ==
    \A m \in UNION {{r.source, r.params} : r \in Requests} :
        /\ {"vars", "varFiles"} \subseteq DOMAIN m
        /\ Files(m.varFiles) \in Seq(Range(Files(m.varFiles)))

VARIABLES
    pc, req,
    exited,     \* whether a signal has ended the process of each put
    opts,       \* the merged model of each put
    envName,    \* the name of the env of each put
    listed,     \* the workspaces each put has listed for a random name
    holds,      \* what each put has started or created in its container
    deferred,   \* the calls that it has deferred, the last one first
    spaces, files, tainted,     \* the envs, by where their state is
    faults,
    opened,     \* history: whether the env of each put was "new", "found"
                \* or "tainted"
    met         \* history: whether each put has met another one

backend == <<spaces, files, tainted>>
container == <<opts, envName, listed, holds, deferred>>
vars == <<runnerVars, pc, req, exited, container, backend, faults, opened, met>>

Naming == {"nameInit", "nameList"}
Commands == Naming \cup {"open", "act", "cleanUp", "tfVersion"}
Alive == {"validate", "build", "agent", "addKey", "dispatch", "name", "pick", "return"} \cup Commands
Running(p) == pc[p] \in Alive /\ ~exited[p]

Models == {Merge(r.source, r.params) : r \in Requests}
Kind(p) == StorageKind(req[p], opts[p])
Random(p) == Place(req[p], Kind(p)) = "random"
Resources == {"modelDir", "agent", "actionDir"}

(* The type invariant. *)
OutTypeOK ==
    /\ RunnerTypeOK
    /\ pc \in [Puts -> Alive \cup {"idle", "done"}]
    /\ exited \in [Puts -> BOOLEAN]
    /\ req \in [Puts -> Requests]
    /\ opts \in [Puts -> Models \cup {None}]
    /\ envName \in [Puts -> Names]
    /\ listed \in [Puts -> SUBSET Names]
    /\ holds \in [Puts -> SUBSET Resources]
    /\ deferred \in [Puts -> Seq(Resources)]
    /\ spaces \subseteq Names /\ files \subseteq Names /\ tainted \subseteq Names
    /\ faults \in Nat
    /\ opened \in [Puts -> {"no", "new", "found", "tainted"}]
    /\ met \in [Puts -> BOOLEAN]

Init ==
    /\ RunnerInit
    /\ pc = [p \in Puts |-> "idle"]
    /\ req \in [Puts -> Requests]
    /\ exited = [p \in Puts |-> FALSE]
    /\ opts = [p \in Puts |-> None]
    /\ envName = [p \in Puts |-> ""]
    /\ listed = [p \in Puts |-> {}]
    /\ holds = [p \in Puts |-> {}]
    /\ deferred = [p \in Puts |-> <<>>]
    /\ spaces = Workspaces /\ files = StateFiles /\ tainted = TaintedFiles
    /\ faults = 0
    /\ opened = [p \in Puts |-> "no"]
    /\ met = [p \in Puts |-> FALSE]

-----------------------------------------------------------------------------
Goto(p, label) == pc' = [pc EXCEPT ![p] = label]
Fault == faults < MaxFaults /\ faults' = faults + 1

(* A step of the put that is not a command: it goes on or returns.         *)
At(p, label) ==
    /\ pc[p] = label /\ ~exited[p]
    /\ UNCHANGED <<runnerVars, req, exited, backend, opened, met>>
Continue(p, label) == Goto(p, label) /\ UNCHANGED faults
Refused(p) == Continue(p, "return") /\ UNCHANGED container
Fails(p) == Fault /\ Goto(p, "return") /\ UNCHANGED container

Set(var, p, value) == [var EXCEPT ![p] = value]
Acquire(p, r) == holds' = [holds EXCEPT ![p] = @ \cup {r}]
Defer(p, r) == deferred' = [deferred EXCEPT ![p] = <<r>> \o @]

(* A put that has exited can still have a command that works.              *)
Active(p) == Running(p) \/ Child(p)
Start(p) ==
    /\ pc[p] = "idle"
    /\ Goto(p, "validate")
    /\ LET others == {q \in Puts \ {p} : Active(q)}
       IN  met' = [q \in Puts |-> met[q] \/ q \in others \/ (q = p /\ others # {})]
    /\ UNCHANGED <<runnerVars, req, exited, container, backend, faults, opened>>

(* Validate, then the directory for the files of the model. *)
Validate(p) ==
    /\ At(p, "validate")
    /\ \/ /\ Valid(req[p])
          /\ Continue(p, "build")
          /\ Acquire(p, "modelDir") /\ Defer(p, "modelDir")
          /\ UNCHANGED <<opts, envName, listed>>
       \/ ~Valid(req[p]) /\ Refused(p)
       \/ Fails(p)

(* Merge, buildTerraformModel and the look for the directory.              *)
Build(p) ==
    LET m == Merge(req[p].source, req[p].params)
    IN  /\ At(p, "build")
        /\ \/ /\ m.dir # None /\ Readable(m)
              /\ Continue(p, IF m.privateKey = None THEN "dispatch" ELSE "agent")
              /\ opts' = Set(opts, p, m)
              /\ UNCHANGED <<envName, listed, holds, deferred>>
           \/ ~(m.dir # None /\ Readable(m)) /\ Refused(p)
           \/ Fails(p)

(* Mutants: Shutdown is only deferred when the key is good; Shutdown is    *)
(* deferred by a function that starts the agent and returns.               *)
BadSpawnAgent(p) ==
    /\ At(p, "agent")
    /\ \/ Continue(p, "addKey") /\ Acquire(p, "agent") /\ UNCHANGED <<opts, envName, listed, deferred>>
       \/ Fails(p)
BadAddKey(p) ==
    /\ At(p, "addKey")
    /\ Continue(p, IF opts[p].privateKey = BadKey THEN "return" ELSE "dispatch")
    /\ holds' = [holds EXCEPT ![p] = @ \ {"agent"}]
    /\ UNCHANGED <<opts, envName, listed, deferred>>

(* SpawnAgent and AddKey. *)
SpawnAgent(p) ==
    /\ At(p, "agent")
    /\ \/ /\ Continue(p, "addKey")
          /\ Acquire(p, "agent") /\ Defer(p, "agent")
          /\ UNCHANGED <<opts, envName, listed>>
       \/ Fails(p)
AddKey(p) ==
    /\ At(p, "addKey")
    /\ Continue(p, IF opts[p].privateKey = BadKey THEN "return" ELSE "dispatch")
    /\ UNCHANGED container

(* The choice of the storage, and the directory of the action. *)
Dispatch(p) ==
    /\ At(p, "dispatch")
    /\ \/ /\ Kind(p) # "local"
          /\ Continue(p, "name")
          /\ Acquire(p, "actionDir") /\ Defer(p, "actionDir")
          /\ UNCHANGED <<opts, envName, listed>>
       \/ Kind(p) = "local" /\ Refused(p)
       \/ Kind(p) # "local" /\ Fails(p)

-----------------------------------------------------------------------------
(* EnvName.  The text that is given must not be empty, the name that is    *)
(* made of it may be.                                                      *)
FirstCommand(p) == IF Kind(p) = "legacy" THEN "act" ELSE "open"
Named(p, name) ==
    /\ Continue(p, FirstCommand(p))
    /\ envName' = Set(envName, p, name)
    /\ listed' = Set(listed, p, {})
    /\ UNCHANGED <<opts, holds, deferred>>
Unstored(p) == Kind(p) = "legacy" /\ ~req[p].storage
(* Mutant: the text of a name file is the name. *)
BadGivenName(p) == Text(req[p], Kind(p))
GivenName(p) == Clean(Text(req[p], Kind(p)))
Name(p) ==
    LET text == Text(req[p], Kind(p))
    IN  /\ At(p, "name")
        /\ \/ Unstored(p) /\ Refused(p)
           \/ /\ ~Unstored(p) /\ Random(p)
              /\ Continue(p, IF Kind(p) = "legacy" THEN "pick" ELSE "nameInit")
              /\ UNCHANGED container
           \/ ~Unstored(p) /\ ~Random(p) /\ text \notin {None, ""} /\ Named(p, GivenName(p))
           \/ ~Unstored(p) /\ ~Random(p) /\ text \in {None, ""} /\ Refused(p)

(* Mutant: the migrated namer does not look into the bucket. *)
BadClashes(p) == IF Kind(p) = "legacy" THEN files ELSE listed[p]

(* generateRandomName: a name that is not in the list, which may be old,   *)
(* and has no state file, if the kind of storage has any.  The name of an  *)
(* env whose state file is tainted is taken for free.  Ten random names    *)
(* that clash are an error.                                                *)
Clashes(p) ==
    CASE Kind(p) = "backend" -> listed[p]
      [] Kind(p) = "migrated" -> listed[p] \cup files
      [] Kind(p) = "legacy" -> files
      [] OTHER -> {}
Pick(p) ==
    /\ At(p, "pick")
    /\ \/ \E name \in RandomNames \ Clashes(p) : Named(p, name)
       \/ Clashes(p) \cap RandomNames # {} /\ Refused(p)
       \/ Kind(p) # "backend" /\ Fails(p)

-----------------------------------------------------------------------------
(* A command of the put in its Runner.  What it does is done when it ends, *)
(* by an orphan as well; a command that fails may have done it.            *)
InRunner == <<pc, req, exited, container, backend, faults, opened, met>>
RunnerNew(p) == Running(p) /\ pc[p] \in Commands /\ New(p) /\ UNCHANGED InRunner
RunnerForks(p) == Running(p) /\ Fork(p) /\ UNCHANGED InRunner
RunnerSets(p) == Running(p) /\ SetProcess(p) /\ UNCHANGED InRunner

Homes(p) ==
    CASE Kind(p) = "backend" -> spaces
      [] Kind(p) = "migrated" -> spaces \cup files
      [] Kind(p) = "legacy" -> files
      [] OTHER -> {}
Opening(p) ==
    CASE envName[p] \in Homes(p) -> "found"
      [] envName[p] \in tainted \ Homes(p) /\ Kind(p) # "backend" -> "tainted"
      [] OTHER -> "new"
Open(p) == opened' = Set(opened, p, Opening(p))
Without(set, p) == IF Kind(p) = "backend" THEN set ELSE set \ {envName[p]}

(* WorkspaceList; the workspace of the action, with the migration; what an *)
(* action of the legacy storage leaves in the bucket; the cleanup.         *)
Lists(p) ==
    /\ listed' = Set(listed, p, spaces)
    /\ UNCHANGED <<opts, envName, holds, deferred, backend, opened>>
Opens(p) ==
    /\ Open(p)
    /\ spaces' = spaces \cup {envName[p]}
    /\ files' = Without(files, p) /\ tainted' = Without(tainted, p)
    /\ UNCHANGED container
Uploads(p, fails) ==
    /\ Open(p)
    /\ files' = IF fails THEN files \ {envName[p]} ELSE files \cup {envName[p]}
    /\ tainted' = IF fails THEN tainted \cup {envName[p]} ELSE tainted \ {envName[p]}
    /\ UNCHANGED <<container, spaces>>
Destroys(p) ==
    /\ spaces' = IF Kind(p) = "legacy" THEN spaces ELSE spaces \ {envName[p]}
    /\ files' = Without(files, p) /\ tainted' = Without(tainted, p)
    /\ UNCHANGED <<container, opened>>
NothingDone == UNCHANGED <<container, backend, opened>>

Effect(p, fails) ==
    CASE pc[p] = "nameList" -> Lists(p)
      [] pc[p] = "open" -> Opens(p)
      [] pc[p] = "act" /\ Kind(p) = "legacy" -> Uploads(p, fails)
      [] pc[p] = "cleanUp" -> Destroys(p)
      [] OTHER -> NothingDone
CommandEnds(p) ==
    /\ \/ Finishes(p, "ended") /\ Effect(p, FALSE) /\ UNCHANGED faults
       \/ Finishes(p, "failed") /\ Fault /\ (Effect(p, TRUE) \/ NothingDone)
    /\ UNCHANGED <<pc, req, exited, met>>

(* The put goes on after the command, or handles the error. *)
AfterCommand(p) ==
    CASE pc[p] = "nameInit" -> "nameList"
      [] pc[p] = "nameList" -> "pick"
      [] pc[p] = "open" -> "act"
      [] pc[p] = "act" -> "tfVersion"
      [] OTHER -> "return"
AfterError(p) ==
    IF pc[p] \in {"open", "act"} /\ opts[p].deleteOnFailure THEN "cleanUp" ELSE "return"
CommandReturns(p) ==
    /\ Running(p)
    /\ StopSignalHandler(p)
    /\ Goto(p, IF cmd[p] = "ended" THEN AfterCommand(p) ELSE AfterError(p))
    /\ UNCHANGED <<req, exited, container, backend, faults, opened, met>>

(* A return of Run and of the run for a kind of storage: what is deferred. *)
Return(p) ==
    /\ At(p, "return")
    /\ UNCHANGED <<opts, envName, listed, faults>>
    /\ \/ /\ deferred[p] # <<>>
          /\ holds' = [holds EXCEPT ![p] = @ \ {Head(deferred[p])}]
          /\ deferred' = [deferred EXCEPT ![p] = Tail(@)]
          /\ UNCHANGED pc
       \/ deferred[p] = <<>> /\ Goto(p, "done") /\ UNCHANGED <<holds, deferred>>

-----------------------------------------------------------------------------
(* Signals.  A process that is told to stop while no Runner is there ends  *)
(* at once; so does one whose handler calls os.Exit.  Nothing deferred is  *)
(* done.                                                                   *)
Exits(p) ==
    /\ exited' = Set(exited, p, TRUE)
    /\ UNCHANGED <<pc, req, container, backend, faults, opened, met>>
SignalCaught(p) == Running(p) /\ Catch(p) /\ UNCHANGED InRunner
SignalEnds(p) == Running(p) /\ Die(p) /\ Exits(p)
HandlerKills(p) == Running(p) /\ Terminate(p) /\ UNCHANGED InRunner
HandlerExits(p) == Running(p) /\ Exit(p) /\ Exits(p)

Step(p) ==
    \/ Validate(p) \/ Build(p) \/ SpawnAgent(p) \/ AddKey(p) \/ Dispatch(p)
    \/ Name(p) \/ Pick(p)
    \/ RunnerNew(p) \/ RunnerForks(p) \/ RunnerSets(p) \/ CommandEnds(p) \/ CommandReturns(p)
    \/ Return(p)
    \/ SignalCaught(p) \/ SignalEnds(p) \/ HandlerKills(p) \/ HandlerExits(p)

AllOver == (\A p \in Puts : pc[p] # "idle" /\ ~Active(p)) /\ UNCHANGED vars

Next ==
    \/ \E p \in Puts : Start(p) \/ Step(p)
    \/ AllOver

Spec == Init /\ [][Next]_vars

-----------------------------------------------------------------------------
(* Properties. *)

(* A put that is told to stop does not leave a command behind that goes on *)
(* changing infrastructure, unless its handler could not know of it: the   *)
(* signal was handled before Process was set, or the put has gone on to    *)
(* another command before the handler exits.  In particular nobody is ever *)
(* told to stop while a command runs and no handler is there.              *)
NoChildOutlives == \A p \in Puts : exited[p] /\ Child(p) => blind[p]

(* Every command of a put with a private key finds the ssh agent.          *)
AgentServesCommands ==
    \A p \in Puts :
        Child(p) /\ ~exited[p] /\ opts[p].privateKey # None => "agent" \in holds[p]

(* A put that returns, successfully or not, has stopped its agent and has  *)
(* removed its directories, in which there are variables and plans.        *)
NothingLeft == \A p \in Puts : pc[p] = "done" => holds[p] = {}

(* A put with generate_random_name never goes on with an env that some     *)
(* other put has made, unless one has run at the same time (the name is    *)
(* picked before the workspace is there) or its state file is tainted (the *)
(* namers do not look for that one).                                       *)
RandomNameIsNew ==
    \A p \in Puts : opened[p] = "found" /\ Random(p) => met[p]

(* Variables have the precedence that src/README.md gives them: var_files, *)
(* a later one before an earlier one, then params.vars, then source.vars.  *)
Asked(r, k) ==
    LET file == Files(Given(r.source.varFiles, r.params.varFiles))
        has == {i \in DOMAIN file : k \in DOMAIN file[i]}
    IN  CASE has # {} -> file[CHOOSE i \in has : \A j \in has : j <= i][k]
          [] has = {} /\ k \in DOMAIN r.params.vars -> r.params.vars[k]
          [] OTHER -> r.source.vars[k]
AllKeys(r) ==
    DOMAIN r.source.vars \cup DOMAIN r.params.vars \cup
    UNION {DOMAIN file : file \in Range(Files(Given(r.source.varFiles, r.params.varFiles)))}
VariablePrecedence ==
    \A p \in Puts :
        pc[p] = "act" => /\ DOMAIN Variables(opts[p]) = AllKeys(req[p])
                         /\ \A k \in AllKeys(req[p]) : Variables(opts[p])[k] = Asked(req[p], k)

(* What the documentation says and the code does not do: the put parameter *)
(* lock_timeout is given to terraform.                                     *)
LockTimeoutGiven ==
    \A p \in Puts :
        pc[p] = "act" /\ Child(p) /\ req[p].params.lockTimeout # None =>
            opts[p].lockTimeout = req[p].params.lockTimeout
=============================================================================
