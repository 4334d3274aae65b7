--------------------------- MODULE CommandRunner ---------------------------
(***************************************************************************)
(* pki.CommandRunner.Run: one external command under a context that ends   *)
(* when its deadline passes or the caller's own context is cancelled.      *)
(* exec.Cmd kills the process when that context ends, and Run returns only *)
(* after the process is gone.  What it returns is decided afterwards, from *)
(* the two contexts first and from the exit status last.                   *)
(***************************************************************************)

CONSTANT Callers    \* the goroutines that may be inside Run

VARIABLES
    process,   \* the command of each caller: ProcessStates
    expired,   \* whether its deadline has passed
    gone       \* whether the caller's own context is cancelled

runner == <<process, expired, gone>>

ProcessStates == {"none", "running", "succeeded", "failed"}

\* A context that is already cancelled starts no process.
Start(c) ==
    /\ process[c] = "none"
    /\ process' = [process EXCEPT ![c] = IF gone[c] THEN "failed" ELSE "running"]
    /\ expired' = [expired EXCEPT ![c] = FALSE]
    /\ UNCHANGED gone

\* The command ends by itself; nothing says that it ever does.
Exit(c) ==
    /\ process[c] = "running"
    /\ \E status \in {"succeeded", "failed"} :
          process' = [process EXCEPT ![c] = status]
    /\ UNCHANGED <<expired, gone>>

\* The deadline may also pass after the command ended and before Run looks.
ExpireNever(c) == FALSE /\ UNCHANGED <<process, expired, gone>>
Expire(c) ==
    /\ process[c] # "none"
    /\ ~expired[c]
    /\ expired' = [expired EXCEPT ![c] = TRUE]
    /\ UNCHANGED <<process, gone>>

Cancel(c) ==
    /\ ~gone[c]
    /\ gone' = [gone EXCEPT ![c] = TRUE]
    /\ UNCHANGED <<process, expired>>

Kill(c) ==
    /\ process[c] = "running"
    /\ expired[c] \/ gone[c]
    /\ process' = [process EXCEPT ![c] = "failed"]
    /\ UNCHANGED <<expired, gone>>

\* What Run returns.  A command that succeeded just before its deadline or its
\* caller's cancellation was noticed counts as timed out or cancelled.
Result(c) ==
    IF expired[c] /\ ~gone[c] THEN "timeout"
    ELSE IF gone[c] THEN "canceled"
    ELSE IF process[c] = "failed" THEN "failed"
    ELSE "ok"

\* Run may return: cmd.Run waits for the end of the process.
EndedAtDeadline(c) == process[c] \in {"succeeded", "failed"} \/ expired[c]
Ended(c) == process[c] \in {"succeeded", "failed"}

Reap(c) ==
    /\ process' = [process EXCEPT ![c] = IF @ = "running" THEN @ ELSE "none"]
    /\ expired' = [expired EXCEPT ![c] = FALSE]
    /\ UNCHANGED gone

RunnerInit ==
    /\ process = [c \in Callers |-> "none"]
    /\ expired = [c \in Callers |-> FALSE]
    /\ gone = [c \in Callers |-> FALSE]

\* The process dies and systemd ends every command with it.
RunnerCrash ==
    /\ process' = [c \in Callers |-> "none"]
    /\ expired' = [c \in Callers |-> FALSE]
    /\ UNCHANGED gone
=============================================================================
