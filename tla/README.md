# A TLA+ development of the Concourse terraform resource

This directory models the program under `src/src/terraform-resource`: a Concourse
resource whose `check`, `get` and `put` steps run the `terraform` command line tool
on the environments ("envs") of a pipeline. Paths below are relative to that
directory, unless they start with `src/README.md`.

The interesting part of the program is small and hard to test. A `put` is a
sequence of some ten terraform commands or storage calls, each in a process of its
own, each of which can fail before or after its effect, with several error paths
that start further sequences (`delete_on_failure`, the tainted state file), on a
backend or a bucket that other puts use at the same time, and in a container that
Concourse may abort anywhere. What may go wrong is that infrastructure is created
and then forgotten, destroyed by mistake, or that a put reports something that is
not so. The acceptance tests run the commands against AWS in the one order that
works; they neither interleave two puts nor fail at a command.

## Inventory

| Component | State | Operations | Hard behaviour | What makes it correct |
|---|---|---|---|---|
| Terraform client (`terraform/client.go`) | the selected workspace, `.terraform`, the local plan file; the backend behind it | one method per command: init, workspace list/select/new/delete, import, plan, apply, destroy, output, state pull | a command works on the selected workspace, whatever selected it; check-then-act in `WorkspaceNewIfNotExists` | commands only run in the workspace that is meant |
| Backend action (`terraform/action.go`) | the workspaces of the backend, one for each env and one, `<env>-plan`, for its stored plan | Apply, Destroy, Plan | concurrent puts of one env, failing commands, cleanup after failure, plans that are stored, run and deleted without a lock | nothing provisioned is forgotten; envs are isolated; a destroy is complete; a stored plan is consumed; a put can be retried |
| Legacy storage action (`terraform/legacy_storage_action.go`) | a state file, a tainted state file and a plan in a bucket; local copies | Apply, Destroy, Plan, uploadTaintedStatefile | no lock; state is deleted before it is uploaded under its other key | one state file at a time; failures lose nothing |
| Migrated-from-storage action (`terraform/migrated_from_storage_action.go`) | both of the above | Apply, Destroy, Plan | the move of a state file into a workspace is four calls | the state is in exactly one place; a failed move can be repeated |
| Out runner (`out/out.go`) | none of its own | chooses and runs an action, builds the version and the metadata | errors that are dropped | a success names its env |
| Env namers (`out/env_namer.go`) | none | name from a parameter, a file, or at random, in another order on each storage | check-then-act on random names | a random name is new |
| In runner (`in/in.go`) | the files of the volume | writes name, metadata, state file, plan | reads an env in several commands | what it writes is what its version says |
| Check runner (`check/check.go`, `workspaces/`) | the last version, from Concourse | latest version of an env | lineages and serials start over | never misses a newer state |
| Models (`models/`) | none | validation, `Merge`, variable files, versions | every field by hand; the order of files | params override source, field by field; variables have the documented precedence |
| Storage (`storage/`) | objects of a bucket | Exists, Download, Upload, Delete, Version, LatestVersion | calls that fail after their effect | idempotent deletion |
| Command runner (`runner/runner.go`) | a child process, a channel of signals and a goroutine that reads it | run, kill on a signal | the handler races with the start and the end of a command | no child outlives the put |
| SSH agent (`ssh/`) | a process, a key | start, add a key, stop | must be there for every command and stop on every return | commands find it; nothing is left |
| Logger, encoder, `cmd/*` | - | formatting, stdin and stdout | - | - |

The runner of `out` builds a client and hands it to one of the three actions;
`get_params` and versions pass from put to get and from check to get through
Concourse; everything else that one step leaves to another is in the backend or in
the bucket. `PROJECT.json` lists under `hazards` what is hard to test in this code,
line by line, with the properties that cover it.

## Plan

1. **TerraformClient, BackendPut** (done): the commands on a backend, and the puts
   that interleave them. Theorems: types and all of its safety properties.
2. **LegacyPut** (done): the bucket and the tainted state file. Theorems: types and its four
   safety properties.
3. **MigratedPut** (done): the migration in front of the commands of `BackendPut`.
   Is the state ever in no place, or used in two; can a failed move be repeated.
   Theorems: types, its three safety properties and the refinement of item 5.
4. **EnvReader** (done): `check` and `get` beside puts on a backend and on the
   bucket: versions and files that belong together, versions that check misses, the
   fallback of `inWithMigratedFromStorage`. Theorems: types, its three promises, and the
   refinement of item 5 for the puts of a serial job.
5. **EnvStore** (done): an abstract specification of what a put promises (an env is
   a set of instances that grows by applies and is emptied by destroys), with
   `BackendPut` and `MigratedPut` shown to implement it, by TLC and by proof.
6. **OutModel** (done): validation, `Merge`, the variable files and the namers as
   operators.
7. **SignalRunner** (done): the signal handler, the start and the end of a command.
8. **OutProcess** (done): the process of a put, which composes the two; random names
   of concurrent puts, the ssh agent, what is cleaned up. Theorems: types and its
   five properties.
9. Open: a `check` and a `get` of a legacy source alone, whose objects puts replace.

## Modules

**TerraformClient** has the state that commands share: `spaces`, the workspaces
that exist; `res`, the instances that each state records; `version`, its lineage
(named for the put that created the state, or for the env that was deployed before)
and serial; `stored`, the plan kept in it; `lock`, the holder of its lock; `infra`,
the instances that really exist; and of each container, `sel`, the selected
workspace, and `planFile`, the local plan. There is a pair of operators for each
command that changes something: `CanX`, when terraform accepts it, and `X`, what it
does. What `client.go` gives terraform is translated from it; what terraform does
is modelled from how `client.go` and `action.go` rely on it, and marked external in
the map:

 - a command on a workspace that does not exist is an error, and so is `workspace
   new` of one that exists and the deletion of one that does not, of one that
   records resources without `-force`, or of the selected one;
 - `apply` and `destroy` hold the state's lock from their start to their end, the
   other commands that write take it within one step; a lock that somebody holds is
   an error, and an aborted apply or destroy leaves it behind;
 - an apply adds instances and records them when it ends, also when it fails; a
   destroy removes all recorded instances, or some when it fails;
 - a plan is accepted as long as the state has the lineage and the serial it had.

An instance is named for the put whose apply makes it, and the one that an import
brings in for its env. A put imports at most one.

**BackendPut** extends it with the puts: `pc`, where each is in `Action.Apply`,
`Destroy` or `Plan`; `req`, its request; `cause`, the first error, which makes the
cleanup of `delete_on_failure`; `reply`, what `out` returns; and histories (`began`,
`seen`) that properties look at. Every command is an action named for the method
of the client: `List`, `Select` and `New` are the three calls of
`WorkspaceNewIfNotExists`, `PlanSelect` and `PlanOutput` those of
`GetPlanFromBackend`, `SaveList`, `SaveSelect`, `SaveNew` and `SaveApply` those of
`SavePlanToBackend`. `Call(p, from, to, can, effect)` is what all of them have in
common: the command succeeds, terraform refuses it, or it fails on its own before
or after its effect; `Fail` says where an error leads. `terraform apply` and
`destroy` take three actions, start, provision and end, because other puts act
meanwhile. `Kill` is the abort of a build: `runner.terminate` kills the command and
exits.

**EnvStore** is what `BackendPut` promises, without workspaces, locks, plans or
commands: `live`, the instances that exist, and `known`, those each env knows. A put
begins, makes an instance, goes on or returns, or is aborted; while it goes on its
env may `Keep` what it made, `Adopt` what it imports, or `Remove` what it knows, each
only if the request says so, and when it returns nothing it has made is unknown.
`BackendPut!ImplementsEnvStore` is the refinement: `live` is `infra`, `known` is `res`
of the env's workspace, and `status` sums up `pc`. A workspace that is deleted and
created again, a plan that is stored and a cleanup that fails are stutters. The constant
`Restores` adds the one step that a backend does not have: an env can come to know its
own instance again after that has been destroyed (`Restore`).

**LegacyPut** is the put on the bucket: `state`, the state files by key (`state` and
`tainted`), `plan`, and for each container its copies `local` and `planFile`, the
objects it has `found`, and `key`, the RemotePath of its `StateFile`, which
`ConvertToTainted` and `ConvertFromTainted` change. `AfterError` says where an error
leads: out of `setup` to the end, out of `attemptApply` to `attemptDestroy` or to
`uploadTaintedStatefile`, out of `attemptDestroy` to `uploadTaintedStatefile`. The
histories `undeleted` and `unsaved` remember the two ways in which that function can
go wrong, and `met` that two puts have run at the same time: nothing locks a bucket,
and the safety properties say nothing after that. Before the first put the bucket has
the state file of an earlier one, with a plan for it or without, its tainted one, or
none. A local state file is
lost with its container.

**MigratedPut** extends `BackendPut` with the bucket and with `move`, the step of the
migration that `attemptApply`, `attemptPlan` or `attemptDestroy` begins with: while
it is under way, `pc` stays at the first command of the attempt, so an error of the
migration leads where `Fail` says. `Attempt` is what its calls have in common;
`NewFromState` and `StatePush` are the two commands of
`WorkspaceNewFromExistingStateFile`, `LegacyKeep` and `LegacyDelete` what the resource
calls a rename. `workspace new -state` can fail, or be aborted (`KillNewFromState`), when
it has created the workspace and not yet written its state. `ActionStep` is every command that is that of `Action`; only where the
import comes differs (`AfterWorkspace`). `legacy` and `held` are histories. `ImplementsMovedStore` is its
refinement of `EnvStore`: `known` is what the bucket and the workspace of the env record
together (`OnRecord`), so the calls of the migration are stutters. The exception is a
`workspace new -state` from a file that has been downloaded and that another put has
migrated and destroyed since; that is a `Restore`. `ImplementsSerialStore` is the same
without it.

**EnvReader** extends `MigratedPut` with `Readers`, containers that check or get an
env of a source that is `migrated_from_storage`. `step` is the next call of a
reader, `asked` the version in its request, taken from what Concourse can know by
then (`Known`: what puts and checks have returned, and legacy versions from before
the migration), `volume` what a get has written so far, `answer` the version it
returns; `around` is a history. Files stand for the version of the state they were
read from. `Read` is what all calls have in common: it succeeds, what it reads is
not there, or it fails on its own. `BackendFails` is the fallback of
`inWithMigratedFromStorage`, which any error takes: `EnvNotFoundError` is declared
as an interface (`in/in.go:27`), which every error has. `check` is `CheckList`, `CheckVersion` and
`CheckLegacy`, `get` the calls from `GetPlanFile` to `GetTfVersion`. `LastModified`
is the time of each legacy state file: after the migration nothing writes one again.

**OutModel** is how a put reads its request: `Valid` is `Source.Validate`, `Merge` and
`ConvertVarFiles` are the functions of this name with the fields that the process
depends on (`lockTimeout` is there because `Merge` does not name it), and `Place` and
`Text` are where each of the three namers takes the name from. Trimming and the
replacement of blanks are the constant `Cleaned`, the name that is made of a text.

**SignalRunner** is `runner.go`: `New` is the notification and the goroutine, `Fork`
and `SetProcess` the two halves of the start of a command that the handler can fall
between, `StopSignalHandler` what is deferred, `Terminate` the handler up to
`os.Exit` and `Exit` that. A signal that nobody is notified of ends the process
(`Die`). `blind` is a history: a handler has run that could not kill the command.

**OutProcess** composes the two into `OutRunner.Run`, for several processes:
`Validate`, `Build`, `SpawnAgent`, `AddKey`, `Dispatch`, `Name` and `Pick` are its steps
up to the action, `holds` what it has started or created, `deferred` its defers, which
`Return` works off, on whatever path it returns. The actions are the other modules'
subject; here one is two commands, `open`, which comes to have a workspace, and `act`,
everything after it, and the cleanup. Commands have the effects on `spaces`, `files` and
`tainted`, the names of the envs by where their state is, that the namers can see.
`opened` and `met` are histories. An orphan's effect still happens.

**MCBackendPut**, **MCLegacyPut**, **MCMigratedPut**, **MCEnvReader** and
**MCOutProcess** give the requests for TLC; **BackendPut_proofs**, **BackendAnswers_proofs**,
**MigratedPut_proofs**, **EnvReader_proofs**, **LegacyPut_proofs**, **LegacyLosses_proofs**,
**OutProcess_proofs** and **OutVariables_proofs** have the theorems.
Definitions named `Bad...`, each before the definition it stands for, are versions of
it with a bug somebody could write; no specification uses them. With one of them in
place of the original the property it is listed with in `PROJECT.json` (`mutants`) is violated: the property depends on that code.

## Runs

Bounds: `MaxActive` puts at a time, `MaxFaults` commands or calls that fail on their
own in a behaviour, `MaxKills` aborted builds. Errors of terraform apply and destroy
themselves (a provider that refuses) are not counted, they can always happen. The
puts' requests are chosen in the initial state, all combinations of the given set.
Instances and serials are bounded by the number of puts. Two active puts show every
race between a check and an act of this code, as no code path looks at more than
one other writer's traces; the third put of `three_puts` is the one that comes after
what the two others have left, of which at most one fails at a command or is aborted (the
constraint `OneMishap`), and `legacy_puts` begins with what an earlier put has
left instead. One failure is enough to start each error path, the second one in the
legacy run makes the cleanup fail as well. Where puts are alike, the runs leave out
assignments of requests that only differ in who has which, by symmetry or, beside a
liveness property, by an order on the requests.

| Run | Question | Bounds |
|---|---|---|
| `pair` | any two puts, on one env or on two, one of them in the default workspace: types, own workspace, nothing forgotten, complete destroys, versions and outputs that cover the put's own apply, isolation, and that they implement `EnvStore` | 2 puts, 9 requests, 1 fault, 1 kill |
| `three_puts` | is a stored plan consumed by the apply or destroy that succeeds; does a put that has what it needs succeed, whatever earlier puts failed at or were aborted in | 3 puts, 2 at a time, 4 requests (plan, apply with and without `plan_run`, destroy), 1 fault or 1 kill (`OneMishap`) |
| `legacy_puts` | what failures and aborts make the bucket forget; one state file; complete destroys; objects that disappear under a put; does every started put return | 2 puts, one after the other or together, over a state file, with a plan or without, a tainted one or none, 4 requests, 2 faults, 1 kill |
| `migrated` | the move of a legacy state file into a workspace: nothing forgotten, one home, complete destroys; that they implement `EnvStore` with `Restores`; does every started put return | 2 puts at a time, an env in the bucket, tainted or not, or new, 1 fault, 1 kill |
| `readers` | a check or a get beside puts that migrate, plan, apply and destroy: versions that cover the files, files that are not stale, no missed version; that puts one after the other implement `EnvStore` without `Restores` | 2 puts, 1 at a time, 1 reader, 1 fault |
| `out_process` | the processes of two puts on every kind of storage: commands that outlive their put, the agent, what is left behind, random names, the precedence of variables | 2 puts, 4 requests for both, or 8 that are refused or have an odd name beside one with variables, 1 signal, 1 fault |

Six runs show where the code does not do what its documentation says; `findings`
of `PROJECT.json` quotes the lines.

 - `cleanup`: `delete_on_failure` destroys the env after any error of
   `attemptApply`, although terraform apply was never run, or has succeeded.
 - `empty_version`: a put whose last command fails succeeds with an empty version.
 - `plan_name`: the env `a-plan` and the plan of env `a` share a workspace.
 - `next_put`: a migration that fails once the workspace exists cannot be repeated;
   no put of the env succeeds any more until somebody deletes the workspace or the
   legacy file by hand.
 - `plan_file`: a get of a plan whose workspace is gone, or whose reading fails,
   succeeds without the plan, because the legacy storage it turns to has none.
 - `lock_timeout`: the `lock_timeout` of a put's params is dropped by `Merge`.

What holds is as instructive. `NoOrphans` holds with concurrent puts although
nothing in `action.go` locks, because terraform refuses to delete a workspace that
records resources, and only the plan workspaces are deleted with `-force`. In
`legacy_puts` the bucket forgets an instance only (`FailuresForgetNothing`,
`AbortsForgetInWindows`) when the upload of a tainted state file fails after the
original was deleted, when an older state file was left beside it, when the put
that made the instance is aborted, or when a put is aborted between the deletion
and the upload in `attemptApply` or `uploadTaintedStatefile`: uploading first would
close these windows.

The migration is safe where it is not repeatable: in `migrated` the legacy file is
only deleted when the workspace records what it did, and terraform only changes an
env whose legacy file is gone. A second put that migrates at the same time is refused
by `workspace new`. Only when that put has destroyed the env before the second comes to
`workspace new` is there a workspace again, which records an instance that is gone:
`ImplementsMovedStore` needs `Restores` for this, and nothing else. In `readers`, where
puts run one after the other, `EnvStore` is implemented without.

In `legacy_puts` a deletion that fails leaves two state files; `OneStateFile`
says that nothing else does. A destroy then takes the untainted one, which is the
older, and leaves what the tainted one records, so `DestroysOneStateFile` is about
buckets with one state file.

`NoChildOutlives` says what `runner.go` achieves and no more: a command goes on after
its put has exited in two windows, which `blind` records. The handler runs between
the fork and the assignment of `cmd.Process`, so that it has nothing to kill; or the
signal is in the channel when its command ends, the next command has been started by
the time the handler runs, and it kills a group that is gone and exits. One signal
shows both, since the handler exits after the first.
`RandomNameIsNew` has two exceptions of the same kind: two puts that run at the same time,
because the name is compared long before its workspace exists (`met`), and a name
whose state file is tainted, which `env_namer.go:192` does not look for.

One reader is enough in `readers`, as readers change nothing that others read but
the versions Concourse knows. The two puts run one after the other, and the reader
beside both: a version that the first returns can be asked for while the second
changes the env. With two puts at a time `CheckMissesNothing` does not hold: a put that
has downloaded the legacy state file when another one migrates the env and destroys it
makes the workspace again from its copy, with the lineage and serial of the file. A
check that has found no workspace just before misses it, although its version is that of
the beginning, and a check that is asked with a later version of this lineage does not
take it for new. The proofs name the condition (`CopiesFresh`), and show that one put of an
env at a time is enough for it.

`RetrySucceeds` is about puts that run alone (`Start` clears `ready` of puts that
meet) and find what they need (`Ready`): a put with
`plan_run` a stored plan that is good, an import an instance that exists, a destroy
a workspace, and nobody holding the lock. A destroy that failed after it has deleted
the workspace is not ready for a repetition: the next one cannot select it. That is
what the code does (`action.go:160`), and nothing in it says otherwise.

### Fairness

Safety is checked without fairness, and holds with it. The two liveness properties,
`EveryPutReturns` of the run `migrated` and `LegacyPutReturns` of `legacy_puts`, assume weak
fairness of each put's `Step`: a put is one Go routine that runs commands and waits
for them, so a started put always goes on, and terraform commands end because
`-input=false` keeps them from waiting for a user and the lock is not waited for
(`lock_timeout` defaults to none). No fairness is assumed of starting a put, of
failures or of aborts, and none between puts: no step of a put waits for another
put. The step `AllEnded` stutters when all puts are over, so that TLC reports any
other deadlock.

## Proofs

`BackendPut_proofs` proves, for any set of puts, envs and requests and any bounds:

 - `TypeCorrect`: `Spec => []TypeOK`;
 - `SelectsOwnWorkspace`: `Spec => []OwnWorkspace`, that import, plan, apply and
   destroy only run in the workspace of the put's env;
 - `ForgetsNothing`: `PlanNamesApart => (Spec => []NoOrphans)`, that no instance a
   put has provisioned is dropped from the state of its env;
 - `RefinesEnvStore`: `PlanNamesApart => (Spec => ImplementsEnvStore)`, that the puts
   implement `EnvStore`;
 - `IsolatesEnvs`: `PlanNamesApart => (Spec => EnvIsolation)`, that only the puts of an
   env change its workspace, what it records and what its puts have made;
 - `DestroysCompletely`: `PlanNamesApart => (Spec => []DestroyIsComplete)`, that a put
   which reports a destroy has destroyed what its env recorded when it started.

`BackendAnswers_proofs` proves on top of it:

 - `ReportsNothingStale`: `PlanNamesApart => (Spec => []ReportsOwnApply)`, that the
   version an apply reports is not older than what it wrote, nor its outputs older than
   the version;
 - `UsesUpStoredPlan`: `Spec => []StoredPlanConsumed`;
 - `RetriesSucceed`: `PlanNamesApart => (Spec => []RetrySucceeds)`, that a put which
   runs alone and has what it needs is refused nowhere.

The assumption on the constants is `ClientAssumption` of `TerraformClient` (names
are distinct from the markers, every env has a plan workspace of its own, since the
code appends `-plan` to the name, requests are records), which TLC evaluates in every run, as it does `ReaderAssumption` of
`EnvReader` in its runs; `PlanNamesApart` says that no env has the name of a plan
workspace. `ForgetsNothing` is false without it, for the reason the run `plan_name`
shows.

The inductive invariant `IInv` has four parts. `TypeOK` and `OwnWorkspace` are
inductive together: every path to a command that works on the selected workspace
goes through a selection of the put's own. `NoOrphans` is not inductive. An apply
that ends records its instances in the selected workspace, which must still exist:
it does, because the put holds its lock from start to end and deletions need the
lock (`LockHeld`). And a plan workspace that is deleted with `-force`, or
overwritten by the apply of `SavePlanToBackend`, must not record an instance
(`PlansRecordNothing`). The proof that a step keeps `IInv` goes by classes of steps:
`StepMoves` shows that a step of a put other than those of apply leaves the
instances alone and changes the workspaces in one of few ways; the lemmas
`Moves...` show that each way keeps each part; `StartInvariant`,
`ProvisionInvariant` and `KillInvariant` treat the rest. `IInv` was model-checked
before it was proved.

The refinement rests on `IInv` and on `OnRequest`: a put only comes to a command that
its request or its cleanup has (`MayRun`), so that it applies, imports and destroys
as `EnvStore` allows it. `MovesStore` shows for each class of steps that it is one of
`EnvStore` or a stutter; `NoOrphans` gives what `Return` asks for.

`IsolatesEnvs` needs besides that an env records instances of its own puts only
(`RecordsOwn`): `MovesIsolated` shows what each class of steps leaves alone, and
`StepGoesOn` that a step which changes a workspace takes its put to another command.
`DestroysCompletely` rests on `Covering`. What an env recorded when a put started is
recorded as long as it exists, since only an end of destroy drops an instance from a
state (`MovesKeepRecorded`); and it does not come back, since a put whose instance is
in a state is past its apply (`Past`), from where no step leads to an apply again
(`StepLeads`). So the end of the put's own destroy, which empties the state, leaves
nothing of it, and nothing that follows provisions it.

`Answering` is the invariant for `ReportsOwnApply`: what a put has seen of its env's
state is not newer than the state is (`Settled`), and stays so when the workspace is
deleted and created again, because the new state has the lineage of the put that makes
it, and this put has not been seen before and will not make a second one (`Made`).
`MovesVersions` of `BackendPut_proofs` says what a class of steps does to the versions.
`Using` is the one for `StoredPlanConsumed`: a plan that is stored was made by a put that
is past storing it (`Whole`), so no plan that a put has found at its start comes back
after its workspace has been deleted. `RetrySucceeds` has the longest argument, since it is about every
command of a put at once. `Supplied` is its invariant: a put that was ready, runs alone and has had no failure of
its own (`Needs`) finds what the commands still to come need (`Fits`). Nobody holds the lock, the
workspaces are or are not there (`FitsSelection`), its plan was made from the state the
env has (`FitsPlan`), and what it imports exists and is not recorded (`FitsImport`);
`Based` says what is true of the backend whoever has run before. `StepFits` has one case
per command.

`MigratedPut_proofs` proves, for the same constants and whichever envs were deployed to
the legacy storage:

 - `MigratedTypeCorrect`: `MigratedSpec => []MigratedTypeOK`;
 - `KeepsOneHome`: `MigratedSpec => []OneHome`;
 - `MigrationForgets`: `PlanNamesApart => (MigratedSpec => []MigrationForgetsNothing)`;
 - `MigratedDestroys`: `PlanNamesApart => (MigratedSpec => []MigratedDestroyIsComplete)`;
 - `RefinesMovedStore`: `PlanNamesApart => (MigratedSpec => ImplementsMovedStore)`, that the
   puts implement `EnvStore`, with `Restores`.

The commands of Action are the steps of `BackendPut`, so its lemmas about classes of
steps (`Moves...`) serve again; `MigrateControl` and `MigrateData` say what a call of the
migration does. `MInv` adds to `IInv` three things. `Home`: puts only take state files
out of the bucket, so what a put has not found stays away, and a put that comes to
terraform has looked for both files or has deleted the one there was (`Placed`).
`Carried`: from the download to the deletion a put has the file that was in the bucket,
and from `workspace new` on its own workspace selected. `Retains`: a workspace that
still has the version of the legacy file records no more than the file (`AsInFile`), so
`state push`, which refuses a state that has moved on, forgets nothing, also when
another put has worked in the workspace meanwhile; and the instance is in the workspace
before the file is deleted (`Kept`, `Unforgotten`). For `MigratedDestroys`, a call of the
migration leads its put (`MigrateLeads`) and keeps records (`MigrateKeepsRecorded`) as the
commands of Action do, which gives `Covering` again; and what the bucket held when the
put started is in the workspace when terraform destroys (`Gone`).

The refinement goes over the same classes of steps as that of `BackendPut`.
`MigrateRecords` says that a call of the migration leaves what an env has on record, or is
a `Restore`: `workspace new` makes a workspace that records what the file does, and as long
as the file is in the bucket the env has that on record already; the deletion takes what
the workspace records by then (`Kept`). To see that a `Restore` brings back an instance
that is gone, it uses `MigrationForgetsNothing`: one that exists would be on record.
`ActionRecords` takes over what `MovesStore` says of the workspace alone. For the end of a
destroy it needs that the bucket is empty by then (`Home`), or the env would know what
has been destroyed. That a put applies, imports and destroys only on
request is `OnRequest` again, for the commands of Action; a call of the migration leads to
the first command of its attempt, which the put had come to before (`MigratedOnRequest`).
An abort in `workspace new -state` leaves a workspace that records nothing, in a lineage
of the put's own; the lemmas `KillNew...` show that it keeps every part of the invariants.

`EnvReader_proofs` proves, for any set of readers besides:

 - `ReaderTyping`: `ReaderSpec => []ReaderTypeOK`;
 - `VersionsCoverFiles`, `GetsAreNeverStale`, `ChecksMissNothing`: `PlanNamesApart =>
   (ReaderSpec /\ []CopiesFresh => []P)` for `VersionCoversFiles`, `GetNeverStale` and
   `CheckMissesNothing`;
 - `CopiesStayFresh`: `ReaderSpec /\ []OnePutPerEnv => []CopiesFresh`;
 - `OnePutAtATime`: with `MaxActive = 1` and finitely many puts, `ReaderSpec =>
   []OnePutPerEnv`;
 - `SerialPutsKeepReaders`: all three promises hold of `ReaderSpec` when `MaxActive = 1`,
   which is what the run `readers` checks, for any number of puts, envs, readers and
   failures;
 - `RefinesSerialStore`: with the same hypotheses, `ReaderSpec => ImplementsSerialStore`:
   the puts implement `EnvStore` without `Restores`.

A reader compares what it has read with what it reads later, so the proofs are about
what a put can do to the state of an env (`StateStep`): write it once more, create it in
a lineage of its own, create it from the legacy file, or delete it. `Versioned` says of
every version that is known, of the env's state or of what a put has seen, that it
belongs to the env (`OfEnv`) and that the state is not older and its lineage will not
start over (`Settled`). The lineage of a legacy file does start over when a put makes the
workspace from a copy, which is why `CopiesFresh` is needed: the put finds the file in
the bucket still. `Reading` says, step by step of a get and a check, that what has been
read is not older than what was asked for (`NotBeforeAsked`), that the files are in order
(`FilesInOrder`), and that a check which still finds the state of its beginning will
return it (`CheckGoesOn`). `PutReading` shows that puts preserve this, `CheckReading`
and `GetReading` that the readers' own calls do.

For `RefinesSerialStore`, `CopiesFresh` is all that is needed besides the refinement of
`MigratedPut`: a `Restore` comes of a file that is not in the bucket any more
(`MigrateRecords`), so with it no step brings back an instance that is gone
(`RecordsLive`). Readers leave all that the store sees alone.

`LegacyPut_proofs` proves, for any set of puts and requests and any bounds on
failures and aborts:

 - `LegacyTypeCorrect`: `Spec => []LegacyTypeOK`;
 - `KeepsOneStateFile`: `Spec => []OneStateFile`;
 - `FailuresForget`: `Spec => []FailuresForgetNothing`, that failures make the bucket
   forget an instance only in the two ways that the histories `undeleted` and `unsaved`
   name.

It assumes `LegacyAssumption` (the markers are not puts, requests are records). The last
two are about the time until two puts have met, and are false after it: two puts
overwrite each other's files. `OneStateFile` rests on what a put has found in the
bucket being still so (`KnowsBucket`: the object that its `key` does not name does
not exist), on a put that has not asked yet starting with the untainted key (`Fresh`),
and on no other put running while none has met another (`Alone`).
`FailuresForgetNothing` needs more (`KInv`):
at every call at which an error ends the put (`MayEnd`) the bucket records
everything, at every other one (`Works`) the local file does, and a put that only
plans never comes to a call of the second kind that would end it. `StepKeeps` has a
case for each call that moves an instance between the two; `QuietKeeps` treats the
others. Both invariants were model-checked before they were proved.

`LegacyLosses_proofs` proves on top of it:

 - `DestroysWhatIsRecorded`: `Spec => []DestroysOneStateFile`, that a put which reports
   a destroy has destroyed what the bucket recorded when it started;
 - `AbortsLoseInWindows`: `Spec => []AbortsForgetInWindows`, that an abort costs the
   instances of another put only between a deletion and the upload that follows it.

What `StepKeeps` says of all instances holds of any set of them (`KeepsOf`): what a put
found when it started is in its local file or in the bucket, for the first theorem, and
what was made by puts that have not been aborted, for the second. `DInv` adds that an
instance whose put has not started is recorded nowhere (`Unmade`), so that it cannot be
provisioned after somebody has found it, and that a put that destroys does nothing else
(`DestroysOnly`). Its hypothesis is weaker than that of `FailuresForgetNothing`: aborted
puts and failed uploads of a tainted file lose an instance to every later destroy, but
not to the one that has found it. `AInv` has the windows: outside of them (`Window`) the
bucket records what the put that works has not made itself (`Stays`), and a put that
works on a tainted file has found it (`KnowsTaint`), which is how a put that uploads
knows whether it has deleted one. Both invariants were model-checked on the
instance of `legacy_puts`.

`OutProcess_proofs` proves, for any set of puts, requests and names, and any number of
signals and faults:

 - `OutTyping`: `Spec => []OutTypeOK`;
 - `KillsItsCommand`: `Spec => []NoChildOutlives`;
 - `AgentServes`: `Spec => []AgentServesCommands`, that a command of a put with a key
   finds the agent;
 - `CleansUpAfterItself`: `Spec => []NothingLeft`;
 - `RandomNamesAreNew`: `Spec => []RandomNameIsNew`.

It assumes `NamesAssumption`: what is named in the requests and there before are names.
Steps are those of the put itself (`Quiet`) and those of its Runner (`Runs`), which
`StepCases` tells apart. `NoChildOutlives` is the last part of `HandlerKnows`: a put with
a Runner is notified, and a handler that will exit has missed the command that is
running. For the agent and the directories, `Equipped` says at which steps a put has
its agent and that a defer is promised for everything it holds (`Promised`), in the
order in which `Return` works them off. A random name is new because the list is exact
while nobody else runs: `Alone` says that a put that has met nobody is the only one
with a command, and `Informed` that its list, its name and the envs agree from the
list to `open`.

`OutVariables_proofs` proves one more theorem about it:

 - `VariablesHavePrecedence`: `Spec => []VariablePrecedence`, for any number of files of
   variables.

It also assumes `ModelsAssumption`: a model has the fields of variables, and a list of files
is a sequence. That the put runs on the merged model once it has read its request
(`Reads`) is the inductive part. What `Combined` makes of n files is an induction on n:
`LastFileWins` says that the result has the keys of all files and of each key the value of
the last file that has it. The induction theorem of the library takes an operator, which the
provers cannot instantiate; `ByInduction` states induction for a set of numbers instead
and follows from the least element of a set (`Least`), which comes from the library's
`WFMin`. In the same way `FoldExists` shows that the recursive function in `Combined`
is there at all. `MergeVars` and `Combined` are written without `@@` and `FoldLeft`, which
the provers cannot expand.

Only model-checked: the liveness properties `EveryPutReturns` and `LegacyPutReturns`,
which are out of the prover's reach.

## Not modelled

 - What terraform does when it cannot write its state at the end of an apply
   (`errored.tfstate`), partial reads of providers, and resources that are replaced.
 - `plan_only` together with `plan_run` in one put, and more than one import: each
   import is the same pair of commands again.
 - A command that takes and releases the lock within a step and is aborted in it, but
   for `workspace new -state` of the migration.
 - `terraform output` of a legacy env before a put (`terraform/legacy_storage_action.go:253`)
   as a step of its own: it changes nothing, and its error ends the put as one after the
   download does (`StateDownload`).
 - A bucket that holds two state files of an env when it is migrated, and a put of
   the old resource on the same bucket.
 - `check` and `get` of a source that is not migrated: on a backend they are the
   first half of what `EnvReader` models; on a legacy storage, where puts replace the
   objects, they are left out, as is a check without `env_name`.
 - Contents: the values of variables (`OutModel` has where they come from), outputs,
   metadata, the JSON plan and its encoding.
 - In `OutProcess`, what an action does between its commands: its errors are those of
   the command it is at.
 - The components that the inventory of `PROJECT.json` lists as `not_modelled`, with
   the reason.

Some things the code does differently from what a reader expects are in the models
and have no property, because what should happen instead is not written down, or
because nothing comes of it: a plan that another put stores between the end of an apply
and `deletePlanWorkspaceIfExists` is deleted without being run (`PlanList`, `PlanDelete`);
two puts that run at the same time on a legacy storage overwrite each other's state file
(`UploadState`; the safety properties of `LegacyPut` stop where two puts have met); a
legacy source that relies on `source.env_name`
(`src/README.md:20`) is refused, as the namer takes the wrong field (`Text`,
`out/env_namer.go:179`); a name file with blanks only gives an empty name (`Clean`,
`out/env_namer.go:45`); the source is validated before the params are merged into it,
so that a `backend_type` of the params beside a `storage` goes unnoticed (`Valid`,
`StorageKind`, `out/out.go:26`).
