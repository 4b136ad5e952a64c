----------------------------- MODULE SignalRunner -----------------------------
(***************************************************************************)
(* runner/runner.go: the process of a put runs a command in a process      *)
(* group of its own and has a handler, a goroutine, that kills this group  *)
(* and exits when the process is told to stop.                             *)
(*                                                                         *)
(* exec.Cmd.Run forks the command and only then sets Process, which the    *)
(* handler reads.  stopSignalHandler ends the notification, but a signal   *)
(* that is already in the channel is still handled, whatever the put does  *)
(* by then; what it would kill is over.                                    *)
(***************************************************************************)
EXTENDS Naturals

CONSTANTS
    Puts,       \* the processes that put
    MaxSignals  \* bound: signals

VARIABLES
    cmd,        \* how far the command of the last Runner of each put is
    notified,   \* whether signals go to the channel of that Runner
    caught,     \* whether there is one in it
    exiting,    \* whether a handler that can kill nothing any more will exit
    signals,
    blind       \* history: whether a handler missed a command of the put

runnerVars == <<cmd, notified, caught, exiting, signals, blind>>

(* "none" there is no Runner, "made" it has not forked, "forked" Process   *)
(* is not set yet, "started" it is, "ended" and "failed" the command is    *)
(* over.                                                                   *)
CmdStates == {"none", "made", "forked", "started", "ended", "failed"}
Child(p) == cmd[p] \in {"forked", "started"}

RunnerTypeOK ==
    /\ cmd \in [Puts -> CmdStates]
    /\ notified \in [Puts -> BOOLEAN]
    /\ caught \in [Puts -> BOOLEAN]
    /\ exiting \in [Puts -> BOOLEAN]
    /\ signals \in Nat
    /\ blind \in [Puts -> BOOLEAN]

RunnerInit ==
    /\ cmd = [p \in Puts |-> "none"]
    /\ notified = [p \in Puts |-> FALSE]
    /\ caught = [p \in Puts |-> FALSE]
    /\ exiting = [p \in Puts |-> FALSE]
    /\ signals = 0
    /\ blind = [p \in Puts |-> FALSE]

-----------------------------------------------------------------------------
Becomes(p, state) == cmd' = [cmd EXCEPT ![p] = state]

(* Mutant: nobody is notified. *)
BadNew(p) ==
    /\ cmd[p] = "none"
    /\ Becomes(p, "made")
    /\ blind' = [blind EXCEPT ![p] = @ \/ exiting[p]]
    /\ UNCHANGED <<notified, caught, exiting, signals>>

(* New: signal.Notify and the goroutine. *)
New(p) ==
    /\ cmd[p] = "none"
    /\ Becomes(p, "made")
    /\ notified' = [notified EXCEPT ![p] = TRUE]
    /\ blind' = [blind EXCEPT ![p] = @ \/ exiting[p]]
    /\ UNCHANGED <<caught, exiting, signals>>

(* cmd.Run: the fork, which may fail; Process; the end of the command,     *)
(* successful or not, which may be earlier than Process.                   *)
Fork(p) ==
    /\ cmd[p] = "made"
    /\ Becomes(p, "forked") \/ Becomes(p, "failed")
    /\ UNCHANGED <<notified, caught, exiting, signals, blind>>
SetProcess(p) ==
    /\ cmd[p] = "forked"
    /\ Becomes(p, "started")
    /\ UNCHANGED <<notified, caught, exiting, signals, blind>>
Finishes(p, state) ==
    /\ Child(p)
    /\ Becomes(p, state)
    /\ UNCHANGED <<notified, caught, exiting, signals, blind>>

(* stopSignalHandler. *)
StopSignalHandler(p) ==
    /\ cmd[p] \in {"ended", "failed"}
    /\ Becomes(p, "none")
    /\ notified' = [notified EXCEPT ![p] = FALSE]
    /\ exiting' = [exiting EXCEPT ![p] = @ \/ caught[p]]
    /\ caught' = [caught EXCEPT ![p] = FALSE]
    /\ UNCHANGED <<signals, blind>>

(* SIGINT or SIGTERM: to the channel, which holds one and drops the rest,  *)
(* or, when nobody is notified, the end of the process, without defers.    *)
Signalled == signals < MaxSignals /\ signals' = signals + 1
Catch(p) ==
    /\ notified[p]
    /\ Signalled
    /\ caught' = [caught EXCEPT ![p] = TRUE]
    /\ UNCHANGED <<cmd, notified, exiting, blind>>
Die(p) ==
    /\ ~notified[p]
    /\ Signalled
    /\ UNCHANGED <<cmd, notified, caught, exiting, blind>>

(* terminate, up to os.Exit: SIGKILL to the process group, if there is a   *)
(* Process.                                                                *)
Terminate(p) ==
    /\ caught[p]
    /\ caught' = [caught EXCEPT ![p] = FALSE]
    /\ exiting' = [exiting EXCEPT ![p] = TRUE]
    /\ cmd' = [cmd EXCEPT ![p] = IF @ = "started" THEN "failed" ELSE @]
    /\ blind' = [blind EXCEPT ![p] = @ \/ cmd[p] \in {"made", "forked"}]
    /\ UNCHANGED <<notified, signals>>

(* terminate, os.Exit. *)
Exit(p) ==
    /\ exiting[p]
    /\ UNCHANGED runnerVars
=============================================================================
