------------------------------- MODULE EnvStore -------------------------------
(***************************************************************************)
(* What puts on a terraform backend promise, without workspaces, locks,    *)
(* plans or commands: an env is the set of the instances its state knows.  *)
(* An apply makes an instance and has it known when it returns, also when  *)
(* it fails; an import adopts the instance of its env; a destroy, or the   *)
(* cleanup of delete_on_failure, takes instances away that the env knows,  *)
(* and then the env does not know them any more.  Nothing else changes,    *)
(* except that a put that moves an env from an old place (Restores) can    *)
(* have it know its instance again after that has been destroyed.          *)
(*                                                                         *)
(* When no env is called like a plan workspace BackendPut implements this  *)
(* without Restores and MigratedPut with it.                               *)
(***************************************************************************)
CONSTANTS
    Puts,       \* the put containers; the instance a put makes has its name
    Envs,       \* the env names; each names the instance that can be imported
    Requests,   \* the put requests, as in BackendPut
    Restores    \* whether an env may come to know again what is gone

VARIABLES
    req,        \* the request of each put
    live,       \* the instances that exist
    known,      \* the instances each env knows
    status      \* of each put: "idle", "active", "returned" or "aborted"

vars == <<req, live, known, status>>

Env(p) == req[p].env
Destroys(p) ==
    \/ req[p].kind = "destroy"
    \/ req[p].kind = "apply" /\ req[p].deleteOnFailure

(* Some envs may know the instance they are named for.                     *)
Init ==
    /\ req \in [Puts -> Requests]
    /\ live = Envs
    /\ \E deployed \in SUBSET Envs : known = [e \in Envs |-> {e} \cap deployed]
    /\ status = [p \in Puts |-> "idle"]

-----------------------------------------------------------------------------
Begin(p) ==
    /\ status[p] = "idle"
    /\ status' = [status EXCEPT ![p] = "active"]
    /\ UNCHANGED <<req, live, known>>

(* Until the put has returned, only it knows of the instance it makes. *)
Make(p) ==
    /\ status[p] = "active"
    /\ req[p].kind = "apply"
    /\ p \notin live
    /\ live' = live \cup {p}
    /\ UNCHANGED <<req, known, status>>

(* What an env can have changed by one step of a put.                      *)
Nothing == UNCHANGED <<live, known>>
Keep(p) ==
    /\ req[p].kind = "apply"
    /\ known' = [known EXCEPT ![Env(p)] = @ \cup ({p} \cap live)]
    /\ UNCHANGED live
Adopt(p) ==
    /\ req[p].imports
    /\ Env(p) \in live
    /\ known' = [known EXCEPT ![Env(p)] = @ \cup {Env(p)}]
    /\ UNCHANGED live
Remove(p) ==
    /\ Destroys(p)
    /\ \E gone \in SUBSET known[Env(p)] :
          /\ live' = live \ gone
          /\ known' = [known EXCEPT ![Env(p)] = @ \ gone]
Restore(p) ==
    /\ Restores
    /\ Env(p) \notin live
    /\ known' = [known EXCEPT ![Env(p)] = @ \cup {Env(p)}]
    /\ UNCHANGED live

(* A put goes on or returns, and then nothing it has made is unknown.      *)
Return(p) ==
    /\ status' = [status EXCEPT ![p] = "returned"]
    /\ p \in live' => p \in known'[Env(p)]
Proceed(p) ==
    /\ status[p] = "active"
    /\ Nothing \/ Keep(p) \/ Adopt(p) \/ Remove(p) \/ Restore(p)
    /\ UNCHANGED status \/ Return(p)
    /\ UNCHANGED req

(* An aborted build: what terraform was removing may be gone, although it  *)
(* is still known, and what it was making may never be known.              *)
Abort(p) ==
    /\ status[p] = "active"
    /\ status' = [status EXCEPT ![p] = "aborted"]
    /\ \E gone \in SUBSET known[Env(p)] :
          /\ gone # {} => Destroys(p)
          /\ live' = live \ gone
    /\ UNCHANGED <<req, known>>

Next == \E p \in Puts : Begin(p) \/ Make(p) \/ Proceed(p) \/ Abort(p)

Spec == Init /\ [][Next]_vars
=============================================================================
