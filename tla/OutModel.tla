------------------------------- MODULE OutModel -------------------------------
(***************************************************************************)
(* How a put reads its request: Source.Validate, Merge and ConvertVarFiles *)
(* of models/, and the place that the name of the env comes from           *)
(* (out/env_namer.go).  A request r is a record:                           *)
(*                                                                         *)
(*   source, params      the two models.Terraform in it, see Merge         *)
(*   storage, migrated   whether the source has storage and                *)
(*                       migrated_from_storage                             *)
(*   sourceEnvName, envName, envNameFile, random                           *)
(*                       what it says of the name of the env               *)
(*                                                                         *)
(* A field that is not given, "" or nil in the code, is None.  Variables   *)
(* are a function from keys to values, and so is a file of them; a file    *)
(* that cannot be read is None.                                            *)
(***************************************************************************)
EXTENDS Naturals, SequencesExt

CONSTANTS
    None,       \* a field that is not given; a file that is not there
    Cleaned     \* the name that trimming and replacing blanks makes of a text

Given(ours, theirs) == IF theirs = None THEN ours ELSE theirs

(* Maps merged by key: what is theirs replaces what is ours.               *)
MergeVars(ours, theirs) ==
    [k \in DOMAIN ours \cup DOMAIN theirs |-> IF k \in DOMAIN theirs THEN theirs[k] ELSE ours[k]]

(* Mutant: the variables of the source win. *)
BadMerge(m, other) ==
    [m EXCEPT !.vars = MergeVars(other.vars, @),
              !.varFiles = Given(@, other.varFiles),
              !.importFiles = Given(@, other.importFiles),
              !.dir = Given(@, other.dir),
              !.privateKey = Given(@, other.privateKey),
              !.backendType = Given(@, other.backendType),
              !.deleteOnFailure = @ \/ other.deleteOnFailure]

(* Terraform.Merge: everything but variables that is given replaces.  What *)
(* it does not name, like lockTimeout, stays.                              *)
Merge(m, other) ==
    [m EXCEPT !.vars = MergeVars(@, other.vars),
              !.varFiles = Given(@, other.varFiles),
              !.importFiles = Given(@, other.importFiles),
              !.dir = Given(@, other.dir),
              !.privateKey = Given(@, other.privateKey),
              !.backendType = Given(@, other.backendType),
              !.deleteOnFailure = @ \/ other.deleteOnFailure]

(* Source.Validate, which does not see the params.                         *)
Valid(r) ==
    /\ ~(r.storage /\ r.source.backendType # None)
    /\ ~(r.migrated /\ r.storage)
    /\ r.migrated => r.source.backendType # None

(* The storage that Run chooses for the merged model m.                    *)
Kinds == {"local", "legacy", "migrated", "backend"}
StorageKind(r, m) ==
    CASE m.backendType = "local" -> "local"
      [] m.backendType = None -> "legacy"
      [] m.backendType \notin {"local", None} /\ r.migrated -> "migrated"
      [] OTHER -> "backend"

Files(field) == IF field = None THEN <<>> ELSE field
Readable(m) == None \notin Range(Files(m.varFiles)) \cup Range(Files(m.importFiles))

(* ConvertVarFiles: the files given to terraform, in this order; of a key  *)
(* in several files terraform takes the last.                              *)
ConvertVarFiles(m) == <<m.vars>> \o Files(m.varFiles)
Combined(files) ==
    LET upTo[n \in 0..Len(files)] == IF n = 0 THEN <<>> ELSE MergeVars(upTo[n - 1], files[n])
    IN  upTo[Len(files)]
Variables(m) == Combined(ConvertVarFiles(m))

(* The places an EnvName looks at, in its order, and the text that is      *)
(* there.  The namer of the legacy storage takes the wrong field when only *)
(* the source has a name.                                                  *)
Places(kind) ==
    CASE kind = "backend" -> <<"file", "random", "params", "source">>
      [] kind = "migrated" -> <<"random", "file", "params", "source">>
      [] kind = "legacy" -> <<"file", "params", "random", "source">>
      [] OTHER -> <<>>
IsGiven(r, place) ==
    CASE place = "file" -> r.envNameFile # None
      [] place = "random" -> r.random
      [] place = "params" -> r.envName # None
      [] place = "source" -> r.sourceEnvName # None
Place(r, kind) ==
    LET given == SelectSeq(Places(kind), LAMBDA place : IsGiven(r, place))
    IN  IF given = <<>> THEN "none" ELSE given[1]
Text(r, kind) ==
    CASE Place(r, kind) = "file" -> r.envNameFile
      [] Place(r, kind) = "params" -> r.envName
      [] Place(r, kind) = "source" -> IF kind = "legacy" THEN r.envName ELSE r.sourceEnvName
      [] OTHER -> None

(* TrimSpace and Replace. *)
Clean(text) == Cleaned[text]
=============================================================================
