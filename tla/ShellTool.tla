----------------------------- MODULE ShellTool ------------------------------
(***************************************************************************)
(* The exec tool (agent_runtime/tools/shell.py): a command is guarded,     *)
(* spawned, waited for up to its time limit, and killed at the limit or    *)
(* when the call is cancelled.  Only bash itself is killed: what it        *)
(* started may go on.                                                      *)
(***************************************************************************)
EXTENDS Naturals

CONSTANTS Commands,     \* commands that may be called, one call each
          Denied,       \* those a deny pattern or the allow list stops
          Outside       \* those that run or reach outside of the workspace

ASSUME ShellAssumption == Denied \subseteq Commands /\ Outside \subseteq Commands

VARIABLES exec,         \* [Commands -> where the call is]
          process,      \* [Commands -> "none", "running", "killed", "exited"]
          children      \* [Commands -> does anything bash started still run?]

shellVars == <<exec, process, children>>

\* restrict_to_workspace; the application does not set it.
CONSTANT Restricted

ExecEnded == {"refused", "failed", "done", "timedOut", "cancelled"}

ShellTypeOK ==
    /\ exec \in [Commands -> {"new", "spawn", "wait", "kill", "cancel"} \cup ExecEnded]
    /\ process \in [Commands -> {"none", "running", "killed", "exited"}]
    /\ children \in [Commands -> BOOLEAN]

ShellInit ==
    /\ exec = [c \in Commands |-> "new"]
    /\ process = [c \in Commands |-> "none"]
    /\ children = [c \in Commands |-> FALSE]

ExecTo(c, at) == exec' = [exec EXCEPT ![c] = at]

\* The working directory and the command are looked at before anything runs.
Guarded(c) == c \in Denied \/ (Restricted /\ c \in Outside)

ExecStarts(c) ==
    /\ exec[c] = "new"
    /\ ExecTo(c, IF Guarded(c) THEN "refused" ELSE "spawn")
    /\ UNCHANGED <<process, children>>

\* _spawn: bash starts, or cannot be.
Spawns(c) ==
    /\ exec[c] = "spawn"
    /\ \/ ExecTo(c, "failed") /\ UNCHANGED process
       \/ ExecTo(c, "wait") /\ process' = [process EXCEPT ![c] = "running"]
    /\ UNCHANGED children

\* bash starts a child, exits, or the child ends.
Forks(c) ==
    /\ process[c] = "running" /\ ~ children[c]
    /\ children' = [children EXCEPT ![c] = TRUE]
    /\ UNCHANGED <<exec, process>>

ProcessExits(c) ==
    /\ process[c] = "running"
    /\ process' = [process EXCEPT ![c] = "exited"]
    /\ UNCHANGED <<exec, children>>

ChildExits(c) ==
    /\ children[c]
    /\ children' = [children EXCEPT ![c] = FALSE]
    /\ UNCHANGED <<exec, process>>

\* communicate ends when the output is closed and bash has exited: a child
\* that keeps the output open is waited for, or has closed it.
Completes(c) ==
    /\ exec[c] = "wait" /\ process[c] = "exited"
    /\ ExecTo(c, "done")
    /\ UNCHANGED <<process, children>>

KillProcess(c) ==
    process' = [process EXCEPT ![c] = IF @ = "running" THEN "killed" ELSE @]

\* The time limit: bash is killed and waited for, 5 s at most.
TimesOut(c) ==
    /\ exec[c] = "wait"
    /\ ExecTo(c, "kill")
    /\ KillProcess(c)
    /\ UNCHANGED children

\* A mistake: a cancelled call leaves its command running.
InterruptedOnly(c) ==
    /\ exec[c] = "wait"
    /\ ExecTo(c, "cancel")
    /\ UNCHANGED <<process, children>>

\* The call is cancelled (its tool time limit, or the run it belongs to).
Interrupted(c) ==
    /\ exec[c] = "wait"
    /\ ExecTo(c, "cancel")
    /\ KillProcess(c)
    /\ UNCHANGED children

Killed(c) ==
    /\ exec[c] \in {"kill", "cancel"}
    /\ ExecTo(c, IF exec[c] = "kill" THEN "timedOut" ELSE "cancelled")
    /\ UNCHANGED <<process, children>>

\* Cancelled where nothing runs yet, or while the killed bash is waited for.
InterruptedEarly(c) ==
    /\ exec[c] \in {"spawn", "kill", "cancel"}
    /\ ExecTo(c, "cancelled")
    /\ UNCHANGED <<process, children>>

ShellNext ==
    \E c \in Commands :
        \/ Spawns(c) \/ Forks(c) \/ ProcessExits(c) \/ ChildExits(c)
        \/ Completes(c) \/ TimesOut(c) \/ Interrupted(c) \/ Killed(c) \/ InterruptedEarly(c)

(* When a call of the exec tool has ended, however it did, the bash it       *)
(* started does not run any more (shell.py:164-169).  What bash started     *)
(* itself may: only bash is killed.                                        *)
ProcessGone ==
    \A c \in Commands : exec[c] \in ExecEnded => process[c] # "running"

=============================================================================
