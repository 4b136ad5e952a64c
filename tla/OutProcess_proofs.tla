--------------------------- MODULE OutProcess_proofs ---------------------------
(***************************************************************************)
(* Proofs about OutProcess, for every set of puts, requests and names and  *)
(* every number of faults and signals.                                     *)
(***************************************************************************)
EXTENDS OutProcess, TLAPS

(* The parts of the type invariant that the runner does not keep.          *)
ControlTypes ==
    /\ pc \in [Puts -> Alive \cup {"idle", "done"}]
    /\ req \in [Puts -> Requests]
    /\ exited \in [Puts -> BOOLEAN]
    /\ faults \in Nat
    /\ met \in [Puts -> BOOLEAN]
ContainerTypes ==
    /\ opts \in [Puts -> Models \cup {None}]
    /\ envName \in [Puts -> Names]
    /\ listed \in [Puts -> SUBSET Names]
    /\ holds \in [Puts -> SUBSET Resources]
    /\ deferred \in [Puts -> Seq(Resources)]
BackendTypes ==
    /\ spaces \subseteq Names /\ files \subseteq Names /\ tainted \subseteq Names
    /\ opened \in [Puts -> {"no", "new", "found", "tainted"}]

(* Together with that of the runner they are the type invariant.           *)
LEMMA TypeParts ==
    /\ OutTypeOK <=> RunnerTypeOK /\ ControlTypes /\ ContainerTypes /\ BackendTypes
    /\ OutTypeOK' <=> RunnerTypeOK' /\ ControlTypes' /\ ContainerTypes' /\ BackendTypes'
BY DEF OutTypeOK, ControlTypes, ContainerTypes, BackendTypes

(* What every operation of a Runner keeps.                                 *)
RunnerStep(p) ==
    \/ New(p) \/ Fork(p) \/ SetProcess(p)
    \/ \E state \in {"ended", "failed"} : Finishes(p, state)
    \/ StopSignalHandler(p) \/ Catch(p) \/ Die(p) \/ Terminate(p) \/ Exit(p)
LEMMA RunnerKeepsTypes ==
    ASSUME RunnerTypeOK, NEW p \in Puts, RunnerStep(p)
    PROVE  RunnerTypeOK'
<1> USE DEF RunnerTypeOK, Becomes, CmdStates
<1>1. New(p) => RunnerTypeOK'
  BY DEF New
<1>2. Fork(p) \/ SetProcess(p) => RunnerTypeOK'
  BY DEF Fork, SetProcess
<1>3. \A state \in {"ended", "failed"} : Finishes(p, state) => RunnerTypeOK'
  BY DEF Finishes
<1>4. StopSignalHandler(p) => RunnerTypeOK'
  BY DEF StopSignalHandler
<1>5. Catch(p) \/ Die(p) => RunnerTypeOK'
  <2>1. Signalled => signals' \in Nat
    BY DEF Signalled
  <2>2. Catch(p) => RunnerTypeOK'
    BY <2>1, Zenon DEF Catch
  <2>3. Die(p) => RunnerTypeOK'
    BY <2>1 DEF Die
  <2> QED
    BY <2>2, <2>3
<1>6. Terminate(p) => RunnerTypeOK'
  BY DEF Terminate
<1>7. Exit(p) => RunnerTypeOK'
  BY DEF Exit, runnerVars
<1> QED
  BY <1>1, <1>2, <1>3, <1>4, <1>5, <1>6, <1>7 DEF RunnerStep

(* Every step either is one of a Runner or leaves all of them alone.       *)
Quiet(p) ==
    \/ Validate(p) \/ Build(p) \/ SpawnAgent(p) \/ AddKey(p) \/ Dispatch(p)
    \/ Name(p) \/ Pick(p) \/ Return(p)
Runs(p) ==
    \/ RunnerNew(p) \/ RunnerForks(p) \/ RunnerSets(p) \/ CommandEnds(p) \/ CommandReturns(p)
    \/ SignalCaught(p) \/ SignalEnds(p) \/ HandlerKills(p) \/ HandlerExits(p)
LEMMA StepCases ==
    ASSUME NEW p \in Puts
    PROVE  /\ Step(p) <=> Quiet(p) \/ Runs(p)
           /\ Quiet(p) => /\ UNCHANGED runnerVars
                          /\ ~exited[p]
                          /\ UNCHANGED <<req, exited, backend, opened, met>>
           /\ Runs(p) => RunnerStep(p)
<1>1. Step(p) <=> Quiet(p) \/ Runs(p)
  BY DEF Step, Quiet, Runs
<1>2. \A label : At(p, label) => /\ UNCHANGED runnerVars
                                 /\ ~exited[p]
                                 /\ UNCHANGED <<req, exited, backend, opened, met>>
  BY DEF At
<1>3. Quiet(p) => \E label : At(p, label)
  BY DEF Quiet, Validate, Build, SpawnAgent, AddKey, Dispatch, Name, Pick, Return
<1>4. Runs(p) => RunnerStep(p)
  BY DEF Runs, RunnerStep, RunnerNew, RunnerForks, RunnerSets, CommandEnds, CommandReturns,
         SignalCaught, SignalEnds, HandlerKills, HandlerExits
<1> QED
  BY <1>1, <1>2, <1>3, <1>4

-----------------------------------------------------------------------------
(* The type invariant. *)

(* What has been acquired is deferred, and one less once that is done.     *)
LEMMA ContainerKept ==
    ASSUME ContainerTypes, NEW p \in Puts
    PROVE  /\ \A r \in Resources : Acquire(p, r) /\ Defer(p, r) =>
                  /\ holds' \in [Puts -> SUBSET Resources]
                  /\ deferred' \in [Puts -> Seq(Resources)]
           /\ deferred[p] # <<>> => /\ Head(deferred[p]) \in Resources
                                    /\ Tail(deferred[p]) \in Seq(Resources)
<1> USE DEF ContainerTypes
<1>1. ASSUME NEW r \in Resources, Acquire(p, r), Defer(p, r)
      PROVE  /\ holds' \in [Puts -> SUBSET Resources]
             /\ deferred' \in [Puts -> Seq(Resources)]
  <2>1. <<r>> \o deferred[p] \in Seq(Resources)
    OBVIOUS
  <2> QED
    BY <1>1, <2>1 DEF Acquire, Defer
<1>2. deferred[p] # <<>> => /\ Head(deferred[p]) \in Resources
                            /\ Tail(deferred[p]) \in Seq(Resources)
  OBVIOUS
<1> QED
  BY <1>1, <1>2

(* Where a put can go, and what it can count.                              *)
LEMMA ControlKept ==
    ASSUME ControlTypes, NEW p \in Puts
    PROVE  /\ \A label \in Alive \cup {"done"} :
                  Goto(p, label) => pc' \in [Puts -> Alive \cup {"idle", "done"}]
           /\ Fault => faults' \in Nat
BY DEF ControlTypes, Goto, Fault

(* The names that a put can get. *)
LEMMA NameTypes ==
    ASSUME ControlTypes, ContainerTypes, NEW p \in Puts
    PROVE  /\ Kind(p) \in Kinds
           /\ \A name \in Names : Named(p, name) => ContainerTypes'
           /\ Text(req[p], Kind(p)) \in {None, ""} \/ Clean(Text(req[p], Kind(p))) \in Names
           /\ FirstCommand(p) \in Alive
<1>1. Kind(p) \in Kinds
  BY DEF Kind, StorageKind, Kinds
<1>2. \A name \in Names : Named(p, name) => ContainerTypes'
  BY DEF Named, Set, ContainerTypes
<1>3. FirstCommand(p) \in Alive
  BY DEF FirstCommand, Alive, Commands
<1>4. req[p] \in Requests
  BY DEF ControlTypes
<1> QED
  BY <1>1, <1>2, <1>3, <1>4, NamesAssumption

LEMMA QuietTypes ==
    ASSUME OutTypeOK, NEW p \in Puts, Quiet(p)
    PROVE  OutTypeOK'
<1>1. RunnerTypeOK /\ ControlTypes /\ ContainerTypes /\ BackendTypes
  BY TypeParts
<1>2. UNCHANGED runnerVars /\ UNCHANGED <<req, exited, backend, opened, met>>
  BY StepCases
<1>3. RunnerTypeOK'
  BY <1>1, <1>2 DEF RunnerTypeOK, runnerVars
<1>4. BackendTypes'
  BY <1>1, <1>2 DEF BackendTypes, backend
<1>5. SUFFICES /\ pc' \in [Puts -> Alive \cup {"idle", "done"}]
               /\ faults' \in Nat
               /\ ContainerTypes'
  BY <1>1, <1>2, <1>3, <1>4, TypeParts DEF ControlTypes
<1>6. /\ \A label \in Alive \cup {"done"} :
             Continue(p, label) => /\ pc' \in [Puts -> Alive \cup {"idle", "done"}]
                                   /\ faults' \in Nat
      /\ UNCHANGED container => ContainerTypes'
  BY <1>1, ControlKept DEF Continue, ControlTypes, container, ContainerTypes
<1>7. Refused(p) \/ Fails(p) => /\ pc' \in [Puts -> Alive \cup {"idle", "done"}]
                                /\ faults' \in Nat
                                /\ ContainerTypes'
  BY <1>1, <1>6, ControlKept DEF Refused, Fails, Alive
<1>8. \A r \in Resources :
         Acquire(p, r) /\ Defer(p, r) /\ UNCHANGED <<opts, envName, listed>> => ContainerTypes'
  BY <1>1, ContainerKept DEF ContainerTypes
<1>9. CASE Validate(p)
  BY <1>6, <1>7, <1>8, <1>9 DEF Validate, Alive, Resources
<1>10. CASE Build(p)
  <2>1. req[p] \in Requests
    BY <1>1 DEF ControlTypes
  <2>2. Merge(req[p].source, req[p].params) \in Models
    BY <2>1 DEF Models
  <2> DEFINE m == Merge(req[p].source, req[p].params)
  <2> HIDE DEF m
  <2>3. opts' = Set(opts, p, m) /\ UNCHANGED <<envName, listed, holds, deferred>> => ContainerTypes'
    BY <1>1, <2>2 DEF ContainerTypes, Set, m
  <2>4. IF m.privateKey = None THEN "dispatch" \in Alive ELSE "agent" \in Alive
    BY DEF Alive
  <2> QED
    BY <1>6, <1>7, <1>10, <2>3 DEF Build, Alive, m
<1>11. CASE SpawnAgent(p)
  BY <1>6, <1>7, <1>8, <1>11 DEF SpawnAgent, Alive, Resources
<1>12. CASE AddKey(p)
  BY <1>6, <1>12 DEF AddKey, Alive
<1>13. CASE Dispatch(p)
  BY <1>6, <1>7, <1>8, <1>13 DEF Dispatch, Alive, Resources
<1>14. \A name \in Names : Named(p, name) => /\ pc' \in [Puts -> Alive \cup {"idle", "done"}]
                                             /\ faults' \in Nat
                                             /\ ContainerTypes'
  BY <1>1, <1>6, NameTypes DEF Named
<1>15. CASE Name(p)
  BY <1>1, <1>6, <1>7, <1>14, <1>15, NameTypes DEF Name, GivenName, Alive, Commands, Naming
<1>16. CASE Pick(p)
  BY <1>7, <1>14, <1>16, NamesAssumption DEF Pick
<1>17. CASE Return(p)
  <2>1. UNCHANGED <<opts, envName, listed, faults>>
    BY <1>17 DEF Return
  <2>2. CASE /\ deferred[p] # <<>>
             /\ holds' = [holds EXCEPT ![p] = @ \ {Head(deferred[p])}]
             /\ deferred' = [deferred EXCEPT ![p] = Tail(@)]
             /\ UNCHANGED pc
    BY <1>1, <2>1, <2>2, ContainerKept DEF ContainerTypes, ControlTypes
  <2>3. CASE Goto(p, "done") /\ UNCHANGED <<holds, deferred>>
    BY <1>1, <2>1, <2>3, ControlKept DEF ContainerTypes, ControlTypes
  <2> QED
    BY <1>17, <2>2, <2>3 DEF Return
<1> QED
  BY <1>9, <1>10, <1>11, <1>12, <1>13, <1>15, <1>16, <1>17 DEF Quiet

LEMMA EffectTypes ==
    ASSUME ControlTypes, ContainerTypes, BackendTypes, NEW p \in Puts, NEW fails \in BOOLEAN,
           Effect(p, fails) \/ NothingDone
    PROVE  ContainerTypes' /\ BackendTypes'
<1> USE DEF ContainerTypes, BackendTypes
<1>1. envName[p] \in Names
  OBVIOUS
<1>2. NothingDone => ContainerTypes' /\ BackendTypes'
  BY DEF NothingDone, container, backend
<1>3. Lists(p) => ContainerTypes' /\ BackendTypes'
  BY DEF Lists, Set, backend
<1>4. Open(p) => opened' \in [Puts -> {"no", "new", "found", "tainted"}]
  BY DEF Open, Opening, Set
<1>5. \A set \in SUBSET Names : Without(set, p) \in SUBSET Names
  BY DEF Without
<1>6. Opens(p) => ContainerTypes' /\ BackendTypes'
  BY <1>1, <1>4, <1>5 DEF Opens, container
<1>7. Uploads(p, fails) => ContainerTypes' /\ BackendTypes'
  BY <1>1, <1>4 DEF Uploads, container
<1>8. Destroys(p) => ContainerTypes' /\ BackendTypes'
  BY <1>1, <1>5 DEF Destroys, container
<1> QED
  BY <1>2, <1>3, <1>6, <1>7, <1>8 DEF Effect

LEMMA RunsTypes ==
    ASSUME OutTypeOK, NEW p \in Puts, Runs(p)
    PROVE  OutTypeOK'
<1>1. RunnerTypeOK /\ ControlTypes /\ ContainerTypes /\ BackendTypes
  BY TypeParts
<1>2. RunnerTypeOK'
  BY <1>1, StepCases, RunnerKeepsTypes
<1>3. SUFFICES ControlTypes' /\ ContainerTypes' /\ BackendTypes'
  BY <1>2, TypeParts
<1>4. UNCHANGED <<container, backend, opened>> => ContainerTypes' /\ BackendTypes'
  BY <1>1 DEF ContainerTypes, BackendTypes, container, backend
<1>5. UNCHANGED InRunner => ControlTypes' /\ ContainerTypes' /\ BackendTypes'
  BY <1>1, <1>4 DEF InRunner, ControlTypes
<1>6. CASE RunnerNew(p) \/ RunnerForks(p) \/ RunnerSets(p) \/ SignalCaught(p) \/ HandlerKills(p)
  BY <1>5, <1>6 DEF RunnerNew, RunnerForks, RunnerSets, SignalCaught, HandlerKills
<1>7. Exits(p) => ControlTypes' /\ ContainerTypes' /\ BackendTypes'
  BY <1>1, <1>4 DEF Exits, Set, ControlTypes
<1>8. CASE SignalEnds(p) \/ HandlerExits(p)
  BY <1>7, <1>8 DEF SignalEnds, HandlerExits
<1>9. CASE CommandReturns(p)
  <2>1. AfterCommand(p) \in Alive /\ AfterError(p) \in Alive
    BY DEF AfterCommand, AfterError, Alive, Commands, Naming
  <2>2. ControlTypes'
    BY <1>1, <1>9, <2>1, ControlKept DEF CommandReturns, ControlTypes
  <2> QED
    BY <1>4, <1>9, <2>2 DEF CommandReturns
<1>10. CASE CommandEnds(p)
  <2>1. ControlTypes'
    BY <1>1, <1>10, ControlKept DEF CommandEnds, ControlTypes
  <2>2. Effect(p, FALSE) \/ Effect(p, TRUE) \/ NothingDone
    BY <1>10 DEF CommandEnds
  <2> QED
    BY <1>1, <2>1, <2>2, EffectTypes
<1> QED
  BY <1>6, <1>8, <1>9, <1>10 DEF Runs

LEMMA StartTypes ==
    ASSUME OutTypeOK, NEW p \in Puts, Start(p)
    PROVE  OutTypeOK'
<1>1. RunnerTypeOK /\ ControlTypes /\ ContainerTypes /\ BackendTypes
  BY TypeParts
<1>2. RunnerTypeOK'
  BY <1>1 DEF Start, RunnerTypeOK, runnerVars
<1>3. ContainerTypes' /\ BackendTypes'
  BY <1>1 DEF Start, ContainerTypes, BackendTypes, container, backend
<1>4. met' \in [Puts -> BOOLEAN]
  <2> DEFINE others == {q \in Puts \ {p} : Active(q)}
  <2>1. met' = [q \in Puts |-> met[q] \/ q \in others \/ (q = p /\ others # {})]
    BY DEF Start
  <2>2. \A q \in Puts : met[q] \in BOOLEAN
    BY <1>1 DEF ControlTypes
  <2> HIDE DEF others
  <2> QED
    BY <2>1, <2>2
<1>5. pc' \in [Puts -> Alive \cup {"idle", "done"}]
  BY <1>1, ControlKept DEF Start, Alive
<1>6. ControlTypes'
  BY <1>1, <1>4, <1>5 DEF Start, ControlTypes
<1> QED
  BY <1>2, <1>3, <1>6, TypeParts

LEMMA InitTypes == ASSUME Init PROVE OutTypeOK
<1>1. RunnerTypeOK
  BY DEF Init, RunnerInit, RunnerTypeOK, CmdStates
<1>2. ControlTypes /\ BackendTypes
  BY NamesAssumption DEF Init, ControlTypes, BackendTypes
<1>3. <<>> \in Seq(Resources)
  OBVIOUS
<1>4. ContainerTypes
  BY <1>3, NamesAssumption DEF Init, ContainerTypes
<1> QED
  BY <1>1, <1>2, <1>4, TypeParts

(* Of every step one put at most is the actor. *)
LEMMA NextCases ==
    ASSUME [Next]_vars
    PROVE  (\E p \in Puts : Start(p) \/ Quiet(p) \/ Runs(p)) \/ UNCHANGED vars
BY StepCases DEF Next, AllOver

(* The type invariant holds, for any number of puts, names and requests.   *)
THEOREM OutTyping == Spec => []OutTypeOK
<1>1. Init => OutTypeOK
  BY InitTypes
<1>2. OutTypeOK /\ [Next]_vars => OutTypeOK'
  <2> SUFFICES ASSUME OutTypeOK, [Next]_vars PROVE OutTypeOK'
    OBVIOUS
  <2>1. CASE UNCHANGED vars
    BY <2>1 DEF OutTypeOK, RunnerTypeOK, vars, runnerVars, container, backend
  <2> QED
    BY <2>1, NextCases, QuietTypes, RunsTypes, StartTypes
<1> QED
  BY <1>1, <1>2, PTL DEF Spec

-----------------------------------------------------------------------------
(* Commands and signals. *)

(* While a put has a Runner its signals go to a handler, and a handler     *)
(* that can kill nothing any more has missed the command there is: so the  *)
(* process can only end with no command, or with one that was missed.      *)
HandlerKnows(p) ==
    /\ ~exited[p] /\ cmd[p] # "none" => notified[p]
    /\ exiting[p] /\ cmd[p] \in {"made", "forked", "started"} => blind[p]
    /\ exited[p] /\ Child(p) => blind[p]
Watched == OutTypeOK /\ \A p \in Puts : HandlerKnows(p)

(* A step of one put leaves the processes of the others alone.             *)
LEMMA OthersRunnersKept ==
    ASSUME RunnerTypeOK, NEW p \in Puts, RunnerStep(p), NEW q \in Puts \ {p}
    PROVE  /\ cmd'[q] = cmd[q] /\ notified'[q] = notified[q] /\ exiting'[q] = exiting[q]
           /\ blind'[q] = blind[q]
BY DEF RunnerStep, RunnerTypeOK, New, Fork, SetProcess, Finishes, StopSignalHandler, Catch, Die,
       Terminate, Exit, runnerVars, Becomes

(* Only a signal or a handler ends a process. *)
LEMMA WhoExits ==
    ASSUME OutTypeOK, NEW p \in Puts, Runs(p)
    PROVE  /\ \A q \in Puts \ {p} : exited'[q] = exited[q]
           /\ \/ exited'[p] = exited[p]
              \/ exited'[p] /\ ~exited[p] /\ Die(p)
              \/ exited'[p] /\ ~exited[p] /\ Exit(p)
           /\ exited[p] => \E state \in {"ended", "failed"} : Finishes(p, state)
<1>1. exited \in [Puts -> BOOLEAN]
  BY DEF OutTypeOK
<1>2. CASE RunnerNew(p) \/ RunnerForks(p) \/ RunnerSets(p) \/ SignalCaught(p) \/ HandlerKills(p)
  BY <1>2 DEF RunnerNew, RunnerForks, RunnerSets, SignalCaught, HandlerKills, InRunner, Running
<1>3. CASE CommandEnds(p)
  BY <1>3 DEF CommandEnds
<1>4. CASE CommandReturns(p)
  BY <1>4 DEF CommandReturns, Running
<1>5. CASE SignalEnds(p)
  BY <1>1, <1>5 DEF SignalEnds, Exits, Set, Running
<1>6. CASE HandlerExits(p)
  BY <1>1, <1>6 DEF HandlerExits, Exits, Set, Running
<1> QED
  BY <1>2, <1>3, <1>4, <1>5, <1>6 DEF Runs

LEMMA RunsWatched ==
    ASSUME Watched, NEW p \in Puts, Runs(p)
    PROVE  \A q \in Puts : HandlerKnows(q)'
<1>1. OutTypeOK /\ RunnerTypeOK /\ RunnerStep(p)
  BY StepCases, TypeParts DEF Watched
<1>2. ASSUME NEW q \in Puts \ {p} PROVE HandlerKnows(q)'
  <2>1. HandlerKnows(q)
    BY DEF Watched
  <2> QED
    BY <1>1, <2>1, OthersRunnersKept, WhoExits DEF HandlerKnows, Child
<1>3. HandlerKnows(p)'
  <2>1. HandlerKnows(p)
    BY DEF Watched
  <2>2. \/ exited'[p] = exited[p]
        \/ exited'[p] /\ ~exited[p] /\ Die(p)
        \/ exited'[p] /\ ~exited[p] /\ Exit(p)
    BY <1>1, WhoExits
  <2>3. ASSUME exited[p] PROVE HandlerKnows(p)'
    <3>1. PICK state \in {"ended", "failed"} : Finishes(p, state)
      BY <1>1, <2>3, WhoExits
    <3> QED
      BY <1>1, <2>1, <2>2, <2>3, <3>1 DEF Finishes, HandlerKnows, Child, RunnerTypeOK, Becomes
  <2>4. ASSUME exited'[p] = exited[p], ~exited[p] PROVE HandlerKnows(p)'
    <3> USE <1>1, <2>1, <2>4 DEF HandlerKnows, Child, RunnerTypeOK, Becomes
    <3>1. CASE New(p)
      BY <3>1 DEF New
    <3>2. CASE Fork(p)
      BY <3>2 DEF Fork
    <3>3. CASE SetProcess(p)
      BY <3>3 DEF SetProcess
    <3>4. CASE \E state \in {"ended", "failed"} : Finishes(p, state)
      BY <3>4 DEF Finishes
    <3>5. CASE StopSignalHandler(p)
      BY <3>5 DEF StopSignalHandler
    <3>6. CASE Catch(p) \/ Die(p)
      BY <3>6 DEF Catch, Die
    <3>7. CASE Terminate(p)
      BY <3>7 DEF Terminate
    <3>8. CASE Exit(p)
      BY <3>8 DEF Exit, runnerVars
    <3> QED
      BY <3>1, <3>2, <3>3, <3>4, <3>5, <3>6, <3>7, <3>8 DEF RunnerStep
  <2>5. ASSUME exited'[p], ~exited[p], Die(p) PROVE HandlerKnows(p)'
    BY <1>1, <2>1, <2>5 DEF Die, HandlerKnows, Child
  <2>6. ASSUME exited'[p], ~exited[p], Exit(p) PROVE HandlerKnows(p)'
    BY <1>1, <2>1, <2>6 DEF Exit, runnerVars, HandlerKnows, Child
  <2> QED
    BY <2>2, <2>3, <2>4, <2>5, <2>6
<1> QED
  BY <1>2, <1>3

(* A process that ends before its command does has missed that command:    *)
(* for any number of puts and signals.                                     *)
THEOREM KillsItsCommand == Spec => []NoChildOutlives
<1>1. Init => Watched
  <2> SUFFICES ASSUME Init PROVE Watched
    OBVIOUS
  <2>1. \A p \in Puts : HandlerKnows(p)
    BY DEF Init, RunnerInit, HandlerKnows, Child
  <2> QED
    BY <2>1, InitTypes DEF Watched
<1>2. Watched /\ [Next]_vars => Watched'
  <2> SUFFICES ASSUME Watched, [Next]_vars PROVE Watched'
    OBVIOUS
  <2>1. OutTypeOK
    BY DEF Watched
  <2>2. ASSUME UNCHANGED <<cmd, notified, exiting, blind, exited>>
        PROVE  \A q \in Puts : HandlerKnows(q)'
    BY <2>2 DEF Watched, HandlerKnows, Child
  <2>3. CASE UNCHANGED vars
    BY <2>1, <2>2, <2>3 DEF Watched, OutTypeOK, RunnerTypeOK, vars, runnerVars, container, backend
  <2>4. ASSUME NEW p \in Puts, Start(p) \/ Quiet(p) PROVE Watched'
    <3>1. UNCHANGED runnerVars /\ UNCHANGED exited
      BY <2>4, StepCases DEF Start
    <3>2. OutTypeOK'
      BY <2>1, <2>4, QuietTypes, StartTypes
    <3> QED
      BY <2>2, <3>1, <3>2 DEF Watched, runnerVars
  <2>5. ASSUME NEW p \in Puts, Runs(p) PROVE Watched'
    BY <2>1, <2>5, RunsTypes, RunsWatched DEF Watched
  <2> QED
    BY <2>3, <2>4, <2>5, NextCases
<1>3. Watched => NoChildOutlives
  BY DEF Watched, HandlerKnows, NoChildOutlives
<1> QED
  BY <1>1, <1>2, <1>3, PTL DEF Spec

-----------------------------------------------------------------------------
(* What a put holds. *)

(* Where a put that is at a step that is not a command can go, and what    *)
(* happens to its container.                                               *)
LEMMA QuietMoves ==
    ASSUME OutTypeOK, NEW p \in Puts, Quiet(p)
    PROVE  /\ pc[p] \notin Commands \cup {"done"}
           /\ \/ /\ UNCHANGED <<holds, deferred>>
                 /\ pc'[p] \in {"agent", "dispatch", "return", "nameInit", "pick", "open", "act"}
                 /\ pc'[p] = "dispatch" => \/ pc[p] = "addKey" /\ UNCHANGED opts
                                           \/ pc[p] = "build" /\ opts'[p].privateKey = None
                 /\ pc'[p] \in Commands \cup {"pick"} =>
                        UNCHANGED opts /\ pc[p] \in {"name", "pick"}
              \/ \E r \in Resources :
                     /\ Acquire(p, r) /\ Defer(p, r) /\ UNCHANGED opts
                     /\ \/ pc'[p] = "build"
                        \/ pc'[p] = "addKey" /\ r = "agent"
                        \/ pc'[p] = "name" /\ pc[p] = "dispatch"
              \/ /\ pc[p] = "return" /\ deferred[p] # <<>> /\ pc' = pc
                 /\ holds' = [holds EXCEPT ![p] = @ \ {Head(deferred[p])}]
                 /\ deferred' = [deferred EXCEPT ![p] = Tail(@)]
              \/ /\ pc[p] = "return" /\ deferred[p] = <<>> /\ pc'[p] = "done"
                 /\ UNCHANGED <<holds, deferred>>
<1>1. pc \in [Puts -> Alive \cup {"idle", "done"}] /\ opts \in [Puts -> Models \cup {None}]
  BY DEF OutTypeOK
<1>2. \A label : Goto(p, label) => pc'[p] = label
  BY <1>1 DEF Goto
<1> USE <1>1, <1>2 DEF At, Continue, Refused, Fails, Commands, Naming, container, Set
<1>3. CASE Validate(p)
  BY <1>3 DEF Validate, Resources
<1>4. CASE Build(p)
  <2> DEFINE m == Merge(req[p].source, req[p].params)
  <2>1. Build(p) => \/ opts' = [opts EXCEPT ![p] = m]
                    \/ Continue(p, "return")
                    \/ Fails(p)
    BY DEF Build
  <2> HIDE DEF m
  <2> QED
    BY <1>4, <2>1 DEF Build, m
<1>5. CASE SpawnAgent(p)
  BY <1>5 DEF SpawnAgent, Resources
<1>6. CASE AddKey(p)
  BY <1>6 DEF AddKey
<1>7. CASE Dispatch(p)
  BY <1>7 DEF Dispatch, Resources
<1>8. CASE Name(p)
  BY <1>8 DEF Name, Named, FirstCommand
<1>9. CASE Pick(p)
  BY <1>9 DEF Pick, Named, FirstCommand
<1>10. CASE Return(p)
  BY <1>10 DEF Return
<1> QED
  BY <1>3, <1>4, <1>5, <1>6, <1>7, <1>8, <1>9, <1>10 DEF Quiet

(* So for a command. *)
LEMMA RunsMoves ==
    ASSUME OutTypeOK, NEW p \in Puts, Runs(p)
    PROVE  /\ UNCHANGED <<opts, envName, holds, deferred, req, met>>
           /\ \/ pc' = pc /\ (cmd[p] # "none" \/ cmd'[p] = "none" \/ pc[p] \in Commands)
              \/ /\ cmd'[p] = "none" /\ ~exited[p] /\ CommandReturns(p)
                 /\ cmd[p] \in {"ended", "failed"}
                 /\ pc'[p] \in Commands \cup {"pick", "return"}
<1>1. pc \in [Puts -> Alive \cup {"idle", "done"}] /\ cmd \in [Puts -> CmdStates]
  BY DEF OutTypeOK, RunnerTypeOK
<1>2. CASE RunnerNew(p) \/ RunnerForks(p) \/ RunnerSets(p) \/ SignalCaught(p) \/ HandlerKills(p)
  BY <1>1, <1>2 DEF RunnerNew, RunnerForks, RunnerSets, SignalCaught, HandlerKills, InRunner,
     container, Fork, SetProcess, Catch, Terminate, Running
<1>3. CASE CommandEnds(p)
  <2>1. pc' = pc /\ UNCHANGED <<req, met>> /\ cmd[p] # "none"
    BY <1>3 DEF CommandEnds, Finishes, Child
  <2>2. Effect(p, FALSE) \/ Effect(p, TRUE) \/ NothingDone
    BY <1>3 DEF CommandEnds
  <2>3. UNCHANGED <<opts, envName, holds, deferred>>
    BY <2>2 DEF Effect, NothingDone, Lists, Opens, Uploads, Destroys, container
  <2> QED
    BY <2>1, <2>3
<1>4. CASE CommandReturns(p)
  <2>1. AfterCommand(p) \in Commands \cup {"pick", "return"}
    BY DEF AfterCommand, Commands, Naming
  <2>2. AfterError(p) \in Commands \cup {"pick", "return"}
    BY DEF AfterError, Commands, Naming
  <2> QED
    BY <1>1, <1>4, <2>1, <2>2
       DEF CommandReturns, container, Goto, StopSignalHandler, Becomes, Running
<1>5. CASE SignalEnds(p) \/ HandlerExits(p)
  BY <1>5 DEF SignalEnds, HandlerExits, Exits, container, Die, Exit, runnerVars
<1> QED
  BY <1>2, <1>3, <1>4, <1>5 DEF Runs

(* A step of one put leaves the containers of the others alone.            *)
LEMMA OthersKept ==
    ASSUME OutTypeOK, NEW p \in Puts, Quiet(p) \/ Runs(p), NEW q \in Puts \ {p}
    PROVE  /\ pc'[q] = pc[q] /\ cmd'[q] = cmd[q] /\ exited'[q] = exited[q]
           /\ opts'[q] = opts[q] /\ envName'[q] = envName[q] /\ listed'[q] = listed[q]
           /\ holds'[q] = holds[q] /\ deferred'[q] = deferred[q]
           /\ req'[q] = req[q] /\ opened'[q] = opened[q] /\ met'[q] = met[q]
<1> USE DEF Set
<1>1. /\ pc \in [Puts -> Alive \cup {"idle", "done"}] /\ opts \in [Puts -> Models \cup {None}]
      /\ envName \in [Puts -> Names] /\ listed \in [Puts -> SUBSET Names]
      /\ holds \in [Puts -> SUBSET Resources] /\ deferred \in [Puts -> Seq(Resources)]
      /\ opened \in [Puts -> {"no", "new", "found", "tainted"}]
      /\ RunnerTypeOK
  BY DEF OutTypeOK
<1>2. ASSUME Runs(p) PROVE cmd'[q] = cmd[q] /\ exited'[q] = exited[q]
  BY <1>1, <1>2, StepCases, OthersRunnersKept, WhoExits
<1>3. ASSUME Quiet(p)
      PROVE  /\ cmd'[q] = cmd[q] /\ exited'[q] = exited[q]
             /\ req'[q] = req[q] /\ opened'[q] = opened[q] /\ met'[q] = met[q]
  BY <1>3, StepCases DEF runnerVars
<1>4. ASSUME Quiet(p)
      PROVE  /\ pc'[q] = pc[q] /\ opts'[q] = opts[q]
             /\ envName'[q] = envName[q] /\ listed'[q] = listed[q]
             /\ holds'[q] = holds[q] /\ deferred'[q] = deferred[q]
  <2> USE <1>1 DEF Continue, Refused, Fails, Goto, Acquire, Defer, container
  <2>1. CASE Validate(p) \/ SpawnAgent(p) \/ AddKey(p) \/ Dispatch(p)
    BY <2>1 DEF Validate, SpawnAgent, AddKey, Dispatch
  <2>2. CASE Build(p)
    <3> DEFINE m == Merge(req[p].source, req[p].params)
    <3>1. \/ /\ opts' = [opts EXCEPT ![p] = m] /\ UNCHANGED <<envName, listed, holds, deferred>>
             /\ \E label : Goto(p, label)
          \/ Refused(p)
          \/ Fails(p)
      BY <2>2 DEF Build
    <3> HIDE DEF m
    <3> QED
      BY <3>1
  <2>3. CASE Name(p) \/ Pick(p)
    BY <2>3 DEF Name, Pick, Named
  <2>4. CASE Return(p)
    BY <2>4 DEF Return
  <2> QED
    BY <1>4, <2>1, <2>2, <2>3, <2>4 DEF Quiet
<1>5. ASSUME Runs(p)
      PROVE  /\ pc'[q] = pc[q] /\ opts'[q] = opts[q] /\ envName'[q] = envName[q]
             /\ holds'[q] = holds[q] /\ deferred'[q] = deferred[q]
             /\ req'[q] = req[q] /\ met'[q] = met[q]
  <2>1. UNCHANGED <<opts, envName, holds, deferred, req, met>>
    BY <1>5, RunsMoves
  <2>2. pc' = pc \/ CommandReturns(p)
    BY <1>5, RunsMoves
  <2> QED
    BY <1>1, <2>1, <2>2 DEF CommandReturns, Goto
<1>6. ASSUME Runs(p) PROVE listed'[q] = listed[q] /\ opened'[q] = opened[q]
  <2>1. CASE CommandEnds(p)
    <3>1. Effect(p, FALSE) \/ Effect(p, TRUE) \/ NothingDone
      BY <2>1 DEF CommandEnds
    <3>2. NothingDone => listed'[q] = listed[q] /\ opened'[q] = opened[q]
      BY DEF NothingDone, container
    <3>3. Open(p) => opened'[q] = opened[q]
      BY <1>1 DEF Open
    <3>4. Lists(p) \/ Opens(p) \/ Destroys(p) => listed'[q] = listed[q] /\ opened'[q] = opened[q]
      BY <1>1, <3>3 DEF Lists, Opens, Destroys, container
    <3>5. \A fails \in BOOLEAN :
             Uploads(p, fails) => listed'[q] = listed[q] /\ opened'[q] = opened[q]
      BY <3>3 DEF Uploads, container
    <3> QED
      BY <3>1, <3>2, <3>4, <3>5 DEF Effect
  <2>2. CASE ~CommandEnds(p)
    BY <1>6, <2>2 DEF Runs, RunnerNew, RunnerForks, RunnerSets, CommandReturns, SignalCaught,
       SignalEnds, HandlerKills, HandlerExits, Exits, InRunner, container
  <2> QED
    BY <2>1, <2>2
<1> QED
  BY <1>2, <1>3, <1>4, <1>5, <1>6

(* Everything a put holds is deferred, and the agent is there from AddKey  *)
(* on until the put returns, if it has a key; a put with a Runner that has *)
(* not exited is at a command.                                             *)
Promised(p) == \A r \in holds[p] : \E i \in 1..Len(deferred[p]) : deferred[p][i] = r
Equipped(p) ==
    /\ Promised(p)
    /\ pc[p] = "done" => deferred[p] = <<>>
    /\ pc[p] = "addKey" => "agent" \in holds[p]
    /\ pc[p] \in {"dispatch", "name", "pick"} \cup Commands =>
           opts[p].privateKey = None \/ "agent" \in holds[p]
    /\ cmd[p] # "none" /\ ~exited[p] => pc[p] \in Commands
Prepared == OutTypeOK /\ \A p \in Puts : Equipped(p)

(* What is acquired and deferred is promised, and so is what is left after *)
(* the last thing that was deferred is done.                               *)
LEMMA PromisesKept ==
    ASSUME OutTypeOK, NEW p \in Puts, Promised(p)
    PROVE  /\ \A r \in Resources : Acquire(p, r) /\ Defer(p, r) => Promised(p)'
           /\ deferred[p] # <<>>
              /\ holds' = [holds EXCEPT ![p] = @ \ {Head(deferred[p])}]
              /\ deferred' = [deferred EXCEPT ![p] = Tail(@)] => Promised(p)'
<1>1. /\ holds \in [Puts -> SUBSET Resources] /\ deferred \in [Puts -> Seq(Resources)]
      /\ deferred[p] \in Seq(Resources)
  BY DEF OutTypeOK
<1>2. ASSUME NEW r \in Resources, Acquire(p, r), Defer(p, r) PROVE Promised(p)'
  <2>1. holds'[p] = holds[p] \cup {r} /\ deferred'[p] = <<r>> \o deferred[p]
    BY <1>1, <1>2 DEF Acquire, Defer
  <2>2. deferred'[p][1] = r /\ 1 \in 1..Len(deferred'[p])
    BY <1>1, <2>1
  <2>3. \A i \in 1..Len(deferred[p]) :
            i + 1 \in 1..Len(deferred'[p]) /\ deferred'[p][i + 1] = deferred[p][i]
    BY <1>1, <2>1
  <2> QED
    BY <2>1, <2>2, <2>3 DEF Promised
<1>3. ASSUME deferred[p] # <<>>,
             holds' = [holds EXCEPT ![p] = @ \ {Head(deferred[p])}],
             deferred' = [deferred EXCEPT ![p] = Tail(@)]
      PROVE  Promised(p)'
  <2>1. holds'[p] = holds[p] \ {deferred[p][1]} /\ deferred'[p] = Tail(deferred[p])
    BY <1>1, <1>3
  <2>2. \A i \in 1..Len(deferred[p]) :
            i # 1 => i - 1 \in 1..Len(deferred'[p]) /\ deferred'[p][i - 1] = deferred[p][i]
    BY <1>1, <1>3, <2>1
  <2> QED
    BY <2>1, <2>2 DEF Promised
<1> QED
  BY <1>2, <1>3

LEMMA QuietEquipped ==
    ASSUME Prepared, NEW p \in Puts, Quiet(p)
    PROVE  Equipped(p)'
<1>1. OutTypeOK /\ Equipped(p) /\ Promised(p)
  BY DEF Prepared, Equipped
<1>2. /\ holds \in [Puts -> SUBSET Resources] /\ deferred \in [Puts -> Seq(Resources)]
      /\ pc \in [Puts -> Alive \cup {"idle", "done"}]
  BY <1>1 DEF OutTypeOK
<1>3. UNCHANGED <<cmd, exited>> /\ pc[p] \notin Commands
  BY <1>1, StepCases, QuietMoves DEF runnerVars
<1>4. cmd'[p] = "none" \/ exited'[p]
  BY <1>1, <1>3, StepCases DEF Equipped
<1>5. CASE /\ UNCHANGED <<holds, deferred>>
           /\ pc'[p] \in {"agent", "dispatch", "return", "nameInit", "pick", "open", "act"}
           /\ pc'[p] = "dispatch" => \/ pc[p] = "addKey" /\ UNCHANGED opts
                                     \/ pc[p] = "build" /\ opts'[p].privateKey = None
           /\ pc'[p] \in Commands \cup {"pick"} => UNCHANGED opts /\ pc[p] \in {"name", "pick"}
  BY <1>1, <1>4, <1>5 DEF Equipped, Promised, Commands, Naming
<1>6. ASSUME NEW r \in Resources,
             Acquire(p, r), Defer(p, r), UNCHANGED opts,
             \/ pc'[p] = "build"
             \/ pc'[p] = "addKey" /\ r = "agent"
             \/ pc'[p] = "name" /\ pc[p] = "dispatch"
      PROVE  Equipped(p)'
  <2>1. Promised(p)' /\ holds'[p] = holds[p] \cup {r}
    BY <1>1, <1>2, <1>6, PromisesKept DEF Acquire
  <2> QED
    BY <1>1, <1>4, <1>6, <2>1 DEF Equipped, Commands, Naming
<1>7. CASE /\ pc[p] = "return" /\ deferred[p] # <<>> /\ pc' = pc
           /\ holds' = [holds EXCEPT ![p] = @ \ {Head(deferred[p])}]
           /\ deferred' = [deferred EXCEPT ![p] = Tail(@)]
  <2>1. Promised(p)'
    BY <1>1, <1>7, PromisesKept
  <2> QED
    BY <1>4, <1>7, <2>1 DEF Equipped, Commands, Naming
<1>8. CASE /\ pc[p] = "return" /\ deferred[p] = <<>> /\ pc'[p] = "done"
           /\ UNCHANGED <<holds, deferred>>
  BY <1>1, <1>4, <1>8 DEF Equipped, Promised, Commands, Naming
<1> QED
  BY <1>1, <1>5, <1>6, <1>7, <1>8, QuietMoves

LEMMA RunsEquipped ==
    ASSUME Prepared, NEW p \in Puts, Runs(p)
    PROVE  Equipped(p)'
<1>1. OutTypeOK /\ Equipped(p)
  BY DEF Prepared
<1>2. UNCHANGED <<opts, holds, deferred>>
  BY <1>1, RunsMoves
<1>3. exited[p] => exited'[p]
  BY <1>1, WhoExits
<1>4. CASE pc' = pc /\ (cmd[p] # "none" \/ cmd'[p] = "none" \/ pc[p] \in Commands)
  BY <1>1, <1>2, <1>3, <1>4 DEF Equipped, Promised
<1>5. CASE /\ cmd'[p] = "none" /\ ~exited[p] /\ cmd[p] \in {"ended", "failed"}
           /\ pc'[p] \in Commands \cup {"pick", "return"}
  BY <1>1, <1>2, <1>5 DEF Equipped, Promised, Commands, Naming
<1> QED
  BY <1>1, <1>4, <1>5, RunsMoves

LEMMA StartEquipped ==
    ASSUME Prepared, NEW p \in Puts, Start(p)
    PROVE  \A q \in Puts : Equipped(q)'
<1>1. pc' = [pc EXCEPT ![p] = "validate"] /\ pc[p] = "idle" /\ UNCHANGED <<runnerVars, exited, container>>
  BY DEF Start, Goto
<1>2. pc \in [Puts -> Alive \cup {"idle", "done"}] /\ \A q \in Puts : Equipped(q)
  BY DEF Prepared, OutTypeOK
<1> QED
  BY <1>1, <1>2 DEF Equipped, Promised, runnerVars, container, Commands, Naming

LEMMA PreparedInvariant == Spec => []Prepared
<1>1. Init => Prepared
  <2> SUFFICES ASSUME Init PROVE Prepared
    OBVIOUS
  <2>1. \A p \in Puts : Equipped(p)
    BY DEF Init, RunnerInit, Equipped, Promised, Commands, Naming
  <2> QED
    BY <2>1, InitTypes DEF Prepared
<1>2. Prepared /\ [Next]_vars => Prepared'
  <2> SUFFICES ASSUME Prepared, [Next]_vars PROVE Prepared'
    OBVIOUS
  <2>1. OutTypeOK /\ \A p \in Puts : Equipped(p)
    BY DEF Prepared
  <2>2. CASE UNCHANGED vars
    BY <2>1, <2>2 DEF Prepared, Equipped, Promised, OutTypeOK, RunnerTypeOK, vars, runnerVars,
       container, backend
  <2>3. ASSUME NEW p \in Puts, Start(p) PROVE Prepared'
    BY <2>1, <2>3, StartTypes, StartEquipped DEF Prepared
  <2>4. ASSUME NEW p \in Puts, Quiet(p) \/ Runs(p) PROVE Prepared'
    <3>1. OutTypeOK' /\ Equipped(p)'
      BY <2>1, <2>4, QuietTypes, RunsTypes, QuietEquipped, RunsEquipped
    <3>2. \A q \in Puts \ {p} : Equipped(q)'
      BY <2>1, <2>4, OthersKept DEF Equipped, Promised
    <3> QED
      BY <3>1, <3>2 DEF Prepared
  <2> QED
    BY <2>2, <2>3, <2>4, NextCases
<1> QED
  BY <1>1, <1>2, PTL DEF Spec

(* Every command finds the agent its put has started, for any requests.    *)
THEOREM AgentServes == Spec => []AgentServesCommands
<1>1. Prepared => AgentServesCommands
  BY DEF Prepared, Equipped, AgentServesCommands, Child
<1> QED
  BY <1>1, PreparedInvariant, PTL

(* A put that returns has nothing left, for any requests and faults.       *)
THEOREM CleansUpAfterItself == Spec => []NothingLeft
<1>1. Prepared => NothingLeft
  BY DEF Prepared, Equipped, Promised, NothingLeft
<1> QED
  BY <1>1, PreparedInvariant, PTL

-----------------------------------------------------------------------------
(* Random names. *)

(* A put that has met no other one and is active is the only one; the list *)
(* it has is then the list there is, and the name it has picked is free    *)
(* until its env is opened.                                                *)
Alone == \A p \in Puts : ~met[p] /\ Active(p) => \A q \in Puts \ {p} : ~Active(q)
HasList(p) == pc[p] = "pick" \/ (pc[p] = "nameList" /\ cmd[p] = "ended")
Unopened(p) ==
    /\ cmd[p] \notin {"ended", "failed"}
    /\ pc[p] = "open" \/ (pc[p] = "act" /\ Kind(p) = "legacy")
Informed(p) ==
    /\ pc[p] \in {"idle", "validate", "build"} => opened[p] = "no"
    /\ pc[p] \in {"nameInit", "nameList", "open"} => Kind(p) # "legacy"
    /\ ~met[p] /\ Active(p) /\ HasList(p) /\ Kind(p) # "legacy" => listed[p] = spaces
    /\ ~met[p] /\ Active(p) /\ Random(p) /\ Unopened(p) => envName[p] \notin Homes(p)
    /\ opened[p] = "found" /\ Random(p) => met[p]
Original == OutTypeOK /\ Alone /\ \A p \in Puts : Informed(p)

(* Only an active put acts, and none becomes active by that.               *)
LEMMA WhoActs ==
    ASSUME OutTypeOK, NEW p \in Puts, Quiet(p) \/ Runs(p)
    PROVE  Active(p) /\ \A q \in Puts : Active(q)' => Active(q)
<1>1. Active(p)
  <2>1. ASSUME Quiet(p) PROVE Running(p)
    BY <2>1 DEF Quiet, Validate, Build, SpawnAgent, AddKey, Dispatch, Name, Pick, Return, At,
       Running, Alive
  <2>2. ASSUME Runs(p) PROVE Active(p)
    BY <2>2 DEF Runs, RunnerNew, RunnerForks, RunnerSets, CommandEnds, CommandReturns,
       SignalCaught, SignalEnds, HandlerKills, HandlerExits, Finishes, Active
  <2> QED
    BY <2>1, <2>2 DEF Active
<1>2. ASSUME NEW q \in Puts \ {p}, Active(q)' PROVE Active(q)
  BY <1>2, OthersKept DEF Active, Running, Child
<1> QED
  BY <1>1, <1>2

LEMMA AloneKept ==
    ASSUME OutTypeOK, Alone, NEW p \in Puts, Start(p) \/ Quiet(p) \/ Runs(p)
    PROVE  Alone'
<1>1. CASE Quiet(p) \/ Runs(p)
  <2>1. \A q \in Puts : met'[q] = met[q]
    BY <1>1, StepCases, RunsMoves
  <2> QED
    BY <1>1, <2>1, WhoActs DEF Alone
<1>2. CASE Start(p)
  <2> DEFINE others == {q \in Puts \ {p} : Active(q)}
  <2>1. met' = [q \in Puts |-> met[q] \/ q \in others \/ (q = p /\ others # {})]
    BY <1>2 DEF Start
  <2>2. pc' = [pc EXCEPT ![p] = "validate"] /\ UNCHANGED <<runnerVars, exited>>
    BY <1>2 DEF Start, Goto
  <2>3. \A q \in Puts \ {p} : Active(q)' <=> Active(q)
    BY <2>2 DEF OutTypeOK, Active, Running, Child, runnerVars
  <2>4. ASSUME NEW q \in Puts, ~met'[q], Active(q)', NEW r \in Puts \ {q} PROVE ~Active(r)'
    <3>1. CASE q = p
      BY <2>1, <2>3, <2>4, <3>1
    <3>2. CASE q # p
      BY <2>1, <2>3, <2>4, <3>2
    <3> QED
      BY <3>1, <3>2
  <2> QED
    BY <2>4 DEF Alone
<1> QED
  BY <1>1, <1>2

(* How a put that is not at a command comes to a command or to a name.     *)
LEMMA QuietNames ==
    ASSUME OutTypeOK, NEW p \in Puts, Quiet(p)
    PROVE  \/ pc[p] = "build" /\ pc'[p] \in {"agent", "dispatch", "return"}
           \/ /\ opts'[p] = opts[p] /\ req'[p] = req[p]
              /\ pc'[p] \notin {"idle", "validate", "nameList"}
              /\ pc'[p] = "build" => pc[p] = "validate"
              /\ pc'[p] = "pick" => Kind(p) = "legacy"
              /\ pc'[p] = "nameInit" => Kind(p) # "legacy"
              /\ pc'[p] \in {"open", "act"} =>
                     /\ pc'[p] = FirstCommand(p)
                     /\ \/ ~Random(p)
                        \/ pc[p] = "pick" /\ envName'[p] \notin Clashes(p)
<1>1. /\ pc \in [Puts -> Alive \cup {"idle", "done"}] /\ opts \in [Puts -> Models \cup {None}]
      /\ envName \in [Puts -> Names]
  BY DEF OutTypeOK
<1>2. \A label : Goto(p, label) => pc'[p] = label
  BY <1>1 DEF Goto
<1>3. req'[p] = req[p]
  BY StepCases
<1>4. FirstCommand(p) \in {"open", "act"}
  BY DEF FirstCommand
<1> USE <1>2, <1>3 DEF At, Continue, Refused, Fails, container
<1>5. CASE Validate(p)
  BY <1>5 DEF Validate
<1>6. CASE Build(p)
  <2>1. /\ pc[p] = "build"
        /\ \/ Refused(p) \/ Fails(p)
           \/ Continue(p, "dispatch") \/ Continue(p, "agent")
    BY <1>6 DEF Build
  <2> QED
    BY <2>1
<1>7. CASE SpawnAgent(p) \/ AddKey(p) \/ Dispatch(p)
  BY <1>7 DEF SpawnAgent, AddKey, Dispatch
<1>8. CASE Name(p)
  BY <1>4, <1>8 DEF Name, Named
<1>9. CASE Pick(p)
  <2>1. ASSUME NEW name \in RandomNames \ Clashes(p), Named(p, name)
        PROVE  envName'[p] \notin Clashes(p) /\ pc'[p] = FirstCommand(p) /\ opts'[p] = opts[p]
    BY <1>1, <2>1 DEF Named, Set
  <2> QED
    BY <1>4, <1>9, <2>1 DEF Pick
<1>10. CASE Return(p)
  BY <1>10 DEF Return
<1> QED
  BY <1>5, <1>6, <1>7, <1>8, <1>9, <1>10 DEF Quiet

(* The kind of storage and the place of the name only depend on the        *)
(* request and on the merged model.                                        *)
LEMMA KindKept ==
    ASSUME NEW p \in Puts, opts'[p] = opts[p], req'[p] = req[p]
    PROVE  Kind(p)' = Kind(p) /\ (Random(p)' <=> Random(p)) /\ FirstCommand(p)' = FirstCommand(p)
BY DEF Kind, Random, FirstCommand

(* A name that does not clash with what a put knows is free, if that is    *)
(* what there is.                                                          *)
LEMMA ClashesAreHomes ==
    ASSUME NEW p \in Puts, Kind(p) # "legacy" => listed[p] = spaces
    PROVE  Homes(p) = Clashes(p)
BY DEF Homes, Clashes

(* A step of a put keeps what the others know: the put is alone, or the    *)
(* others have met one.                                                    *)
LEMMA OthersInformed ==
    ASSUME Original, NEW p \in Puts, Quiet(p) \/ Runs(p), NEW q \in Puts \ {p}
    PROVE  Informed(q)'
<1>1. OutTypeOK /\ Alone /\ Informed(q)
  BY DEF Original
<1>2. /\ pc'[q] = pc[q] /\ cmd'[q] = cmd[q] /\ opts'[q] = opts[q] /\ req'[q] = req[q]
      /\ opened'[q] = opened[q] /\ met'[q] = met[q]
  BY <1>1, OthersKept
<1>3. Kind(q)' = Kind(q) /\ (Random(q)' <=> Random(q))
  BY <1>2, KindKept
<1>4. ~(~met'[q] /\ Active(q)')
  BY <1>1, <1>2, WhoActs DEF Alone
<1> QED
  BY <1>1, <1>2, <1>3, <1>4 DEF Informed

LEMMA QuietInformed ==
    ASSUME Original, NEW p \in Puts, Quiet(p)
    PROVE  Informed(p)'
<1>1. OutTypeOK /\ Informed(p)
  BY DEF Original
<1>2. UNCHANGED <<cmd, spaces, files, opened, met>> /\ pc[p] \notin Commands
  BY <1>1, StepCases, QuietMoves DEF runnerVars, backend
<1>3. Active(p)
  BY <1>1, WhoActs
<1>4. CASE pc[p] = "build" /\ pc'[p] \in {"agent", "dispatch", "return"}
  BY <1>1, <1>2, <1>4 DEF Informed, HasList, Unopened
<1>5. CASE /\ opts'[p] = opts[p] /\ req'[p] = req[p]
           /\ pc'[p] \notin {"idle", "validate", "nameList"}
           /\ pc'[p] = "build" => pc[p] = "validate"
           /\ pc'[p] = "pick" => Kind(p) = "legacy"
           /\ pc'[p] = "nameInit" => Kind(p) # "legacy"
           /\ pc'[p] \in {"open", "act"} =>
                  /\ pc'[p] = FirstCommand(p)
                  /\ \/ ~Random(p)
                     \/ pc[p] = "pick" /\ envName'[p] \notin Clashes(p)
  <2>1. Kind(p)' = Kind(p) /\ (Random(p)' <=> Random(p))
    BY <1>5, KindKept
  <2>2. pc'[p] = "open" => Kind(p) # "legacy"
    BY <1>5 DEF FirstCommand
  <2>3. ASSUME ~met[p], pc[p] = "pick" PROVE Homes(p)' = Clashes(p)
    <3>1. Kind(p) # "legacy" => listed[p] = spaces
      BY <1>1, <1>3, <2>3, Zenon DEF Informed, HasList
    <3>3. Homes(p) = Clashes(p)
      BY <3>1, ClashesAreHomes
    <3>2. Homes(p)' = Homes(p)
      BY <1>2, <2>1 DEF Homes
    <3> QED
      BY <3>2, <3>3
  <2>4. ASSUME ~met'[p], Random(p)', Unopened(p)' PROVE envName'[p] \notin Homes(p)'
    BY <1>2, <1>5, <2>1, <2>3, <2>4 DEF Unopened
  <2>5. HasList(p)' => Kind(p)' = "legacy"
    BY <1>2, <1>5, <2>1 DEF HasList
  <2>6. pc'[p] = "build" => opened'[p] = "no"
    BY <1>1, <1>2, <1>5 DEF Informed
  <2>7. opened'[p] = "found" /\ Random(p)' => met'[p]
    BY <1>1, <1>2, <2>1 DEF Informed
  <2> QED
    BY <1>5, <2>1, <2>2, <2>4, <2>5, <2>6, <2>7 DEF Informed
<1> QED
  BY <1>1, <1>4, <1>5, QuietNames

(* What the end of a command does to the env of the put.                   *)
LEMMA EffectInformed ==
    ASSUME Original, NEW p \in Puts, CommandEnds(p)
    PROVE  Informed(p)'
<1>1. OutTypeOK /\ Informed(p)
  BY DEF Original
<1>2. /\ opts'[p] = opts[p] /\ req'[p] = req[p] /\ UNCHANGED <<envName, met>> /\ pc' = pc
  BY <1>1, RunsMoves DEF CommandEnds, Runs
<1>3. Kind(p)' = Kind(p) /\ (Random(p)' <=> Random(p))
  BY <1>2, KindKept
<1>4. /\ Child(p) /\ Active(p) /\ cmd'[p] \in {"ended", "failed"}
      /\ cmd'[p] = "ended" => Effect(p, FALSE)
      /\ Effect(p, FALSE) \/ Effect(p, TRUE) \/ NothingDone
  <2>1. cmd \in [Puts -> CmdStates]
    BY <1>1 DEF OutTypeOK, RunnerTypeOK
  <2> QED
    BY <2>1 DEF CommandEnds, Finishes, Becomes, Active
<1>5. ~Unopened(p)'
  BY <1>4 DEF Unopened
<1>6. ASSUME ~met[p], HasList(p)', Kind(p)' # "legacy" PROVE listed'[p] = spaces'
  <2>1. CASE pc[p] = "nameList" /\ cmd'[p] = "ended"
    <3>1. Lists(p)
      BY <1>4, <2>1 DEF Effect
    <3> QED
      BY <1>1, <3>1 DEF Lists, Set, OutTypeOK, backend
  <2>2. CASE pc[p] = "pick"
    <3>1. NothingDone
      BY <1>4, <2>2 DEF Effect
    <3>2. listed' = listed /\ spaces' = spaces
      BY <3>1 DEF NothingDone, container, backend
    <3> QED
      BY <1>1, <1>3, <1>4, <1>6, <2>2, <3>2, Zenon DEF Informed, HasList
  <2> QED
    BY <1>2, <1>6, <2>1, <2>2 DEF HasList
<1>7. opened \in [Puts -> {"no", "new", "found", "tainted"}]
  BY <1>1 DEF OutTypeOK
<1>8. opened'[p] = "found" /\ Random(p)' => met'[p]
  <2>1. CASE pc[p] = "open" \/ (pc[p] = "act" /\ Kind(p) = "legacy")
    <3>1. ASSUME Random(p), ~met[p] PROVE envName[p] \notin Homes(p)
      <4>1. Unopened(p) /\ Active(p)
        BY <1>4, <2>1 DEF Unopened, Child
      <4> QED
        BY <1>1, <3>1, <4>1, Zenon DEF Informed
    <3>2. ASSUME Random(p), ~met[p], Open(p) PROVE opened'[p] # "found"
      BY <1>7, <3>1, <3>2 DEF Open, Opening, Set
    <3>3. Open(p) \/ opened' = opened
      BY <1>4, <2>1 DEF Effect, NothingDone, Opens, Uploads
    <3> QED
      BY <1>1, <1>2, <1>3, <3>2, <3>3 DEF Informed
  <2>2. CASE ~(pc[p] = "open" \/ (pc[p] = "act" /\ Kind(p) = "legacy"))
    <3>1. opened' = opened
      BY <1>4, <2>2 DEF Effect, NothingDone, Lists, Destroys
    <3> QED
      BY <1>1, <1>2, <1>3, <3>1 DEF Informed
  <2> QED
    BY <2>1, <2>2
<1>9. pc'[p] \in {"idle", "validate", "build"} => opened'[p] = "no"
  <2>1. pc[p] \in {"idle", "validate", "build"} => opened' = opened
    BY <1>4 DEF Effect, NothingDone
  <2> QED
    BY <1>1, <1>2, <2>1 DEF Informed
<1>10. pc'[p] \in {"nameInit", "nameList", "open"} => Kind(p)' # "legacy"
  BY <1>1, <1>2, <1>3 DEF Informed
<1> QED
  BY <1>2, <1>5, <1>6, <1>8, <1>9, <1>10 DEF Informed

LEMMA RunsInformed ==
    ASSUME Original, NEW p \in Puts, Runs(p)
    PROVE  Informed(p)'
<1>1. OutTypeOK /\ Informed(p) /\ Active(p)
  BY WhoActs DEF Original
<1>2. /\ opts'[p] = opts[p] /\ req'[p] = req[p] /\ UNCHANGED <<envName, met>>
  BY <1>1, RunsMoves
<1>3. /\ Kind(p)' = Kind(p) /\ (Random(p)' <=> Random(p))
      /\ UNCHANGED <<spaces, files>> => Homes(p)' = Homes(p)
  BY <1>2, KindKept DEF Homes
<1>4. pc \in [Puts -> Alive \cup {"idle", "done"}] /\ cmd \in [Puts -> CmdStates]
  BY <1>1 DEF OutTypeOK, RunnerTypeOK
<1>5. ASSUME UNCHANGED <<pc, opened, listed, spaces, files>>,
             cmd'[p] \in {"ended", "failed"} => cmd'[p] = cmd[p] \/ cmd'[p] = "failed",
             cmd[p] \in {"ended", "failed"} => cmd'[p] = cmd[p]
      PROVE  Informed(p)'
  BY <1>1, <1>2, <1>3, <1>5 DEF Informed, HasList, Unopened
<1>6. CASE RunnerNew(p) \/ RunnerForks(p) \/ RunnerSets(p) \/ SignalCaught(p) \/ HandlerKills(p)
  <2>1. UNCHANGED <<pc, opened, listed, spaces, files>>
    BY <1>6 DEF RunnerNew, RunnerForks, RunnerSets, SignalCaught, HandlerKills, InRunner,
       container, backend
  <2>2. /\ cmd'[p] \in {"ended", "failed"} => cmd'[p] = cmd[p] \/ cmd'[p] = "failed"
        /\ cmd[p] \in {"ended", "failed"} => cmd'[p] = cmd[p]
    BY <1>4, <1>6 DEF RunnerNew, RunnerForks, RunnerSets, SignalCaught, HandlerKills, New, Fork,
       SetProcess, Catch, Terminate, Becomes
  <2> QED
    BY <1>5, <2>1, <2>2
<1>7. CASE SignalEnds(p) \/ HandlerExits(p)
  BY <1>5, <1>7 DEF SignalEnds, HandlerExits, Exits, container, backend, Die, Exit, runnerVars
<1>8. CASE CommandReturns(p)
  <2>1. /\ UNCHANGED <<opened, listed, spaces, files>> /\ cmd'[p] = "none"
        /\ pc'[p] = IF cmd[p] = "ended" THEN AfterCommand(p) ELSE AfterError(p)
        /\ cmd[p] \in {"ended", "failed"}
    BY <1>4, <1>8 DEF CommandReturns, container, backend, Goto, StopSignalHandler, Becomes
  <2>2. AfterError(p) \in {"cleanUp", "return"}
    BY DEF AfterError
  <2>3. CASE AfterError(p) = pc'[p]
    BY <1>1, <1>2, <1>3, <2>1, <2>2, <2>3 DEF Informed, HasList, Unopened
  <2>4. CASE cmd[p] = "ended"
    BY <1>1, <1>2, <1>3, <2>1, <2>4 DEF AfterCommand, Informed, HasList, Unopened
  <2> QED
    BY <2>1, <2>3, <2>4
<1>9. CASE CommandEnds(p)
  BY <1>9, EffectInformed
<1> QED
  BY <1>6, <1>7, <1>8, <1>9 DEF Runs

LEMMA StartInformed ==
    ASSUME Original, NEW p \in Puts, Start(p), NEW q \in Puts
    PROVE  Informed(q)'
<1>1. OutTypeOK /\ Informed(q) /\ (~met[q] /\ Active(q) => \A r \in Puts \ {q} : ~Active(r))
  BY DEF Original, Alone
<1>2. /\ pc[p] = "idle" /\ pc' = [pc EXCEPT ![p] = "validate"]
      /\ UNCHANGED <<cmd, exited, opts, req, envName, listed, opened, spaces, files>>
  BY DEF Start, Goto, runnerVars, container, backend
<1>3. Kind(q)' = Kind(q) /\ (Random(q)' <=> Random(q)) /\ Homes(q)' = Homes(q)
  BY <1>2, KindKept DEF Homes
<1>4. met[q] => met'[q]
  BY DEF Start
<1>5. CASE q = p
  BY <1>1, <1>2, <1>3, <1>4, <1>5 DEF OutTypeOK, Informed, HasList, Unopened
<1>6. CASE q # p
  <2>1. pc'[q] = pc[q] /\ (Active(q)' <=> Active(q))
    BY <1>2, <1>6 DEF OutTypeOK, Active, Running, Child
  <2> QED
    BY <1>1, <1>2, <1>3, <1>4, <2>1 DEF Informed, HasList, Unopened
<1> QED
  BY <1>5, <1>6

(* A put with a random name that finds an env of this name has met another *)
(* put: for any number of puts and whatever envs there are before.         *)
THEOREM RandomNamesAreNew == Spec => []RandomNameIsNew
<1>1. Init => Original
  <2> SUFFICES ASSUME Init PROVE Original
    OBVIOUS
  <2>1. \A p \in Puts : ~Active(p) /\ opened[p] = "no" /\ pc[p] = "idle"
    BY DEF Init, RunnerInit, Active, Running, Child, Alive, Commands, Naming
  <2>2. Alone /\ \A p \in Puts : Informed(p)
    BY <2>1 DEF Alone, Informed, HasList, Unopened
  <2> QED
    BY <2>2, InitTypes DEF Original
<1>2. Original /\ [Next]_vars => Original'
  <2> SUFFICES ASSUME Original, [Next]_vars PROVE Original'
    OBVIOUS
  <2>1. OutTypeOK /\ Alone /\ \A p \in Puts : Informed(p)
    BY DEF Original
  <2>2. CASE UNCHANGED vars
    <3>1. OutTypeOK' /\ Alone'
      BY <2>1, <2>2 DEF OutTypeOK, RunnerTypeOK, vars, runnerVars, container, backend, Alone,
         Active, Running, Child
    <3>2. \A p \in Puts : Kind(p)' = Kind(p) /\ (Random(p)' <=> Random(p)) /\ Homes(p)' = Homes(p)
      BY <2>2, KindKept DEF vars, container, backend, Homes
    <3>3. \A p \in Puts : Informed(p)'
      BY <2>1, <2>2, <3>2 DEF Informed, HasList, Unopened, Active, Running, Child, vars,
         runnerVars, container, backend
    <3> QED
      BY <3>1, <3>3 DEF Original
  <2>3. ASSUME NEW p \in Puts, Start(p) PROVE Original'
    BY <2>1, <2>3, StartTypes, AloneKept, StartInformed DEF Original
  <2>4. ASSUME NEW p \in Puts, Quiet(p) \/ Runs(p) PROVE Original'
    <3>1. OutTypeOK' /\ Alone'
      BY <2>1, <2>4, QuietTypes, RunsTypes, AloneKept
    <3>2. Informed(p)'
      BY <2>4, QuietInformed, RunsInformed
    <3>3. \A q \in Puts \ {p} : Informed(q)'
      BY <2>4, OthersInformed
    <3> QED
      BY <3>1, <3>2, <3>3 DEF Original
  <2> QED
    BY <2>2, <2>3, <2>4, NextCases
<1>3. Original => RandomNameIsNew
  BY DEF Original, Informed, RandomNameIsNew
<1> QED
  BY <1>1, <1>2, <1>3, PTL DEF Spec
=============================================================================
