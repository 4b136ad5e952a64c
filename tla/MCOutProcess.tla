----------------------------- MODULE MCOutProcess -----------------------------
(***************************************************************************)
(* Instances of OutProcess for TLC.                                        *)
(***************************************************************************)
EXTENDS OutProcess

CONSTANTS p1, p2, none

(* What a request says when it says nothing. *)
NoModel ==
    [dir |-> none, vars |-> <<>>, varFiles |-> none, importFiles |-> none,
     privateKey |-> none, backendType |-> none, lockTimeout |-> none,
     deleteOnFailure |-> FALSE]
NoRequest ==
    [source |-> NoModel, params |-> [NoModel EXCEPT !.dir = "terraform"],
     storage |-> FALSE, migrated |-> FALSE,
     sourceEnvName |-> none, envName |-> none, envNameFile |-> none, random |-> FALSE]

OnBackend == [NoRequest EXCEPT !.source.backendType = "s3"]
OnStorage == [NoRequest EXCEPT !.storage = TRUE]
Migrated == [OnBackend EXCEPT !.migrated = TRUE]

(* The variables a, b, c and d of four places. *)
In(keys, place) == [k \in keys |-> place]
WithVariables ==
    [OnBackend EXCEPT !.envName = "n1",
                      !.source.vars = In({"a", "b", "c", "d"}, "source"),
                      !.params.vars = In({"b", "c", "d"}, "params"),
                      !.params.varFiles = <<In({"c", "d"}, "one"), In({"d"}, "two")>>,
                      !.source.varFiles = <<none>>]

MCCleaned == "n1" :> "n1" @@ "n1\n" :> "n1" @@ "n2" :> "n2" @@ "\n" :> ""

(* Random names on each kind of storage, with an ssh agent, a cleanup or   *)
(* neither; a name of a file; and requests that are refused, each at       *)
(* another step, or have a name that surprises.                            *)
ManyRequests ==
    {[OnBackend EXCEPT !.random = TRUE, !.params.deleteOnFailure = TRUE],
     [Migrated EXCEPT !.random = TRUE, !.source.privateKey = "key"],
     [OnStorage EXCEPT !.random = TRUE],
     [OnStorage EXCEPT !.envNameFile = "n1\n", !.source.deleteOnFailure = TRUE]}
OtherRequests ==
    {[OnBackend EXCEPT !.storage = TRUE],
     [OnBackend EXCEPT !.params.varFiles = <<none>>],
     [OnBackend EXCEPT !.params.backendType = "local", !.params.privateKey = "key"],
     [OnBackend EXCEPT !.params.privateKey = "bad key"],
     NoRequest,
     [OnStorage EXCEPT !.sourceEnvName = "n1"],
     [OnBackend EXCEPT !.sourceEnvName = "n2"],
     [Migrated EXCEPT !.envNameFile = "\n"]}
EveryRequest == ManyRequests \cup OtherRequests \cup {WithVariables}

(* Two of the first, or one of the others and the one with variables.  The *)
(* puts are alike.                                                         *)
MCInit ==
    /\ Init
    /\ \/ \A p \in Puts : req[p] \in ManyRequests
       \/ \E p \in Puts : /\ req[p] = WithVariables
                         /\ \A q \in Puts \ {p} : req[q] \in OtherRequests
MCSpec == MCInit /\ [][Next]_vars
Symmetric == Permutations(Puts)

LockTimeoutRequests ==
    {[OnBackend EXCEPT !.envName = "n1", !.params.lockTimeout = "5m"]}
=============================================================================
