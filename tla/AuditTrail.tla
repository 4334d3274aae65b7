----------------------------- MODULE AuditTrail -----------------------------
(***************************************************************************)
(* The path of an audited request: the audit middleware                    *)
(* webapp.auditRequests, the handler it wraps, the commands that handler   *)
(* runs (CommandRunner) and audit.Log.  Every audited request first finds  *)
(* out whether the log can be opened, then runs with its response held     *)
(* back, then appends its record, and only then is answered.               *)
(*                                                                         *)
(* All requests ask for the same bundle: some are the first attempt, the   *)
(* others retries of a client whose answer was lost.  The handler is kept  *)
(* to what decides its outcome: the name, one command (or chain of them)   *)
(* before the bundle is published and one after; CertLifecycle has the     *)
(* files.                                                                  *)
(*                                                                         *)
(* The log file is a sequence of chunks: write(2) may take the head of a   *)
(* record and need a second call for the rest, which ends in the newline.  *)
(***************************************************************************)
EXTENDS Naturals, Sequences, FiniteSets, CommandRunner

CONSTANTS
    Nobody,     \* the holder of a free mutex
    Settings    \* the sets of conditions the service may run under

Requests == Callers    \* the audited requests, each sent once

\* The destination cannot be opened for a while; a write takes only part of a
\* record; the rest of it does not fit either; fsync fails; the process dies;
\* a client hangs up; an answer is not written within WriteTimeout.
Conditions == {"unavailable", "short", "full", "sync", "crash", "hangup", "late"}

ASSUME AuditAssumption ==
    /\ Nobody \notin Requests
    /\ Settings \subseteq SUBSET Conditions

VARIABLES
    file,        \* audit.jsonl: a sequence of chunks
    available,   \* whether Log.open succeeds
    mu,          \* Log.mu ("log") and PKIService.mu ("service")
    pc,          \* what each handler does next
    captured,    \* the status in a handler's bufferedResponse
    told,        \* what each client was answered
    applied,     \* requests whose handler published the bundle
    setting      \* what may happen in this behavior; never changes

log == <<file, available>>
vars == <<log, mu, pc, captured, told, applied, setting, runner>>

\* auditRequests: every status below 400 is a success.
Outcome(status) ==
    IF status \in {"created", "redirect"} THEN "success" ELSE "failure"

Chunk(r, part) == [of |-> r, outcome |-> Outcome(captured[r]), part |-> part]
Record(r) == <<Chunk(r, "head"), Chunk(r, "rest")>>

Goto(r, label) == pc' = [pc EXCEPT ![r] = label]

Acquire(r, lock, from, to) ==
    /\ pc[r] = from
    /\ mu[lock] = Nobody
    /\ mu' = [mu EXCEPT ![lock] = r]
    /\ Goto(r, to)
    /\ UNCHANGED <<log, captured, told, applied, setting, runner>>

-----------------------------------------------------------------------------
(* auditRequests *)

\* Log.Ready holds the mutex only within this step.
Ready(r) ==
    /\ pc[r] = "new"
    /\ mu["log"] = Nobody
    /\ available
    /\ Goto(r, "handle")
    /\ UNCHANGED <<log, mu, captured, told, applied, setting, runner>>

\* A client that hung up is told nothing.
Answer(r, reply) ==
    /\ Goto(r, "done")
    /\ told' = [told EXCEPT ![r] = IF gone[r] THEN "none" ELSE reply]

NotReady(r) ==
    /\ pc[r] = "new"
    /\ mu["log"] = Nobody
    /\ ~available
    /\ Answer(r, "audit_failure")
    /\ UNCHANGED <<log, mu, captured, applied, setting, runner>>

\* Append succeeded: the held back response goes out.
Respond(r) ==
    /\ pc[r] = "respond"
    /\ Answer(r, captured[r])
    /\ UNCHANGED <<log, mu, captured, applied, setting, runner>>

\* WriteTimeout has passed since the request was read: nothing goes out.
RespondLate(r) ==
    /\ "late" \in setting
    /\ pc[r] = "respond"
    /\ Goto(r, "done")
    /\ UNCHANGED <<log, mu, captured, told, applied, setting, runner>>

-----------------------------------------------------------------------------
(* The wrapped handler *)

\* The handler returns with this status; its deferred unlocks run.
HandledSkippingGone(r, status) ==
    /\ captured' = [captured EXCEPT ![r] = status]
    /\ mu' = [mu EXCEPT !["service"] = IF @ = r THEN Nobody ELSE @]
    /\ Goto(r, IF gone[r] THEN "respond" ELSE "append")
    /\ UNCHANGED <<log, told, setting>>
Handled(r, status) ==
    /\ captured' = [captured EXCEPT ![r] = status]
    /\ mu' = [mu EXCEPT !["service"] = IF @ = r THEN Nobody ELSE @]
    /\ Goto(r, "append")
    /\ UNCHANGED <<log, told, setting>>

\* ServeMux redirects a path that is not clean; decodeMutation, the key
\* confirmation and ValidateRequest refuse what they do not like.
Refuse(r) ==
    /\ pc[r] = "handle"
    /\ \E status \in {"redirect", "bad_request"} : Handled(r, status)
    /\ UNCHANGED <<applied, runner>>

LockService(r) == Acquire(r, "service", "handle", "name")

NameTaken == applied # {}

Conflict(r) ==
    /\ pc[r] = "name"
    /\ NameTaken
    /\ Handled(r, "conflict")
    /\ UNCHANGED <<applied, runner>>

\* The commands before the bundle is published, and the ones of the refresh.
RunCommand(r, label) ==
    /\ Start(r)
    /\ Goto(r, label)
    /\ UNCHANGED <<log, mu, captured, told, applied, setting>>

SignCommand(r) == pc[r] = "name" /\ ~NameTaken /\ RunCommand(r, "sign")
RefreshCommand(r) == pc[r] = "published" /\ RunCommand(r, "refresh")

\* mapPKIError and writeServiceError: 504 or 502.
Status(result) == IF result = "timeout" THEN "timeout" ELSE "crypto"

CommandFails(r) ==
    /\ pc[r] \in {"sign", "refresh"}
    /\ Ended(r)
    /\ Result(r) # "ok"
    /\ Handled(r, Status(Result(r)))
    /\ Reap(r)
    /\ UNCHANGED applied

Publish(r) ==
    /\ pc[r] = "sign"
    /\ Ended(r)
    /\ Result(r) = "ok"
    /\ applied' = applied \cup {r}
    /\ Reap(r)
    /\ Goto(r, "published")
    /\ UNCHANGED <<log, mu, captured, told, setting>>

Created(r) ==
    /\ pc[r] = "refresh"
    /\ Ended(r)
    /\ Result(r) = "ok"
    /\ Handled(r, "created")
    /\ Reap(r)
    /\ UNCHANGED applied

-----------------------------------------------------------------------------
(* Log.Append *)

LockLogShared(r) ==
    /\ pc[r] = "append"
    /\ mu' = [mu EXCEPT !["log"] = r]
    /\ Goto(r, "open")
    /\ UNCHANGED <<log, captured, told, applied, setting, runner>>
LockLog(r) == Acquire(r, "log", "append", "open")

Open(r) ==
    /\ pc[r] = "open"
    /\ available
    /\ Goto(r, "write")
    /\ UNCHANGED <<log, mu, captured, told, applied, setting, runner>>

\* An error of Append: the client learns of it instead of the outcome.
AppendFailsOpen(r) ==
    /\ Answer(r, captured[r])
    /\ mu' = [mu EXCEPT !["log"] = Nobody]
    /\ UNCHANGED <<log, captured, applied, setting, runner>>
AppendFailsKeepsLock(r) ==
    /\ Answer(r, "audit_failure")
    /\ UNCHANGED <<log, mu, captured, applied, setting, runner>>
AppendFails(r) ==
    /\ Answer(r, "audit_failure")
    /\ mu' = [mu EXCEPT !["log"] = Nobody]
    /\ UNCHANGED <<log, captured, applied, setting, runner>>

OpenFails(r) ==
    /\ pc[r] = "open"
    /\ ~available
    /\ AppendFails(r)

\* The file is opened with O_APPEND: every chunk goes to its end.
Put(r, chunks, label) ==
    /\ file' = file \o chunks
    /\ Goto(r, label)
    /\ UNCHANGED <<available, mu, captured, told, applied, setting, runner>>

Write(r) == pc[r] = "write" /\ Put(r, Record(r), "sync")
WriteShort(r) ==
    /\ "short" \in setting
    /\ pc[r] = "write"
    /\ Put(r, <<Chunk(r, "head")>>, "rest")
WriteRest(r) == pc[r] = "rest" /\ Put(r, <<Chunk(r, "rest")>>, "sync")

\* What was written stays in the file.
WriteFails(r) ==
    /\ "full" \in setting
    /\ pc[r] \in {"write", "rest"}
    /\ AppendFails(r)

Sync(r) ==
    /\ pc[r] = "sync"
    /\ mu' = [mu EXCEPT !["log"] = Nobody]
    /\ Goto(r, "respond")
    /\ UNCHANGED <<log, captured, told, applied, setting, runner>>

SyncFails(r) ==
    /\ "sync" \in setting
    /\ pc[r] = "sync"
    /\ AppendFails(r)

-----------------------------------------------------------------------------
(* Environment and specification *)

\* The directory loses or regains its permissions, the file is replaced.
Toggle ==
    /\ "unavailable" \in setting
    /\ available' = ~available
    /\ UNCHANGED <<file, mu, pc, captured, told, applied, setting, runner>>

\* The server cancels the context of a request whose client hung up.
Hangup(r) ==
    /\ "hangup" \in setting
    /\ pc[r] \notin {"new", "done"}
    /\ Cancel(r)
    /\ UNCHANGED <<log, mu, pc, captured, told, applied, setting>>

\* What a running command does, and what becomes of it.
OutsideRunner == <<log, mu, pc, captured, told, applied, setting>>
CommandExits(r) == Exit(r) /\ UNCHANGED OutsideRunner
DeadlinePasses(r) == Expire(r) /\ UNCHANGED OutsideRunner
CommandKilled(r) == Kill(r) /\ UNCHANGED OutsideRunner

\* The requests in flight are never answered; the file stays as it is.
Crash ==
    /\ "crash" \in setting
    /\ \E r \in Requests : pc[r] \notin {"new", "done"}
    /\ mu' = [l \in DOMAIN mu |-> Nobody]
    /\ pc' = [r \in Requests |-> IF pc[r] = "new" THEN "new" ELSE "done"]
    /\ RunnerCrash
    /\ UNCHANGED <<log, captured, told, applied, setting>>

Init ==
    /\ setting \in Settings
    /\ file = <<>>
    /\ available \in IF "unavailable" \in setting THEN BOOLEAN ELSE {TRUE}
    /\ mu = [l \in {"log", "service"} |-> Nobody]
    /\ pc = [r \in Requests |-> "new"]
    /\ captured = [r \in Requests |-> "none"]
    /\ told = [r \in Requests |-> "none"]
    /\ applied = {}
    /\ RunnerInit

Lock(r) == LockService(r) \/ LockLog(r)

Step(r) ==
    \/ Ready(r) \/ NotReady(r) \/ Respond(r) \/ RespondLate(r)
    \/ Refuse(r) \/ Conflict(r) \/ SignCommand(r) \/ RefreshCommand(r)
    \/ CommandFails(r) \/ Publish(r) \/ Created(r)
    \/ Open(r) \/ OpenFails(r)
    \/ Write(r) \/ WriteShort(r) \/ WriteRest(r) \/ WriteFails(r)
    \/ Sync(r) \/ SyncFails(r)

Next ==
    \/ \E r \in Requests :
          \/ Lock(r) \/ Step(r) \/ Hangup(r)
          \/ CommandExits(r) \/ DeadlinePasses(r) \/ CommandKilled(r)
    \/ Toggle
    \/ Crash

Spec == Init /\ [][Next]_vars

\* The handler goroutines run, sync.Mutex does not starve a waiter, a timer
\* fires and a kill takes effect.  Nothing is assumed of the commands.
Fairness == \A r \in Requests :
    /\ SF_vars(Ready(r) \/ NotReady(r))
    /\ SF_vars(Lock(r))
    /\ WF_vars(Step(r))
    /\ WF_vars(DeadlinePasses(r))
    /\ WF_vars(CommandKilled(r))

FairSpec == Spec /\ Fairness

-----------------------------------------------------------------------------
(* Properties.  LockLogShared, AppendFailsOpen, AppendFailsKeepsLock,       *)
(* HandledSkippingGone, and ExpireNever and EndedAtDeadline of CommandRunner *)
(* are broken variants the properties are tried against; the specification *)
(* does not use them.                                                       *)

\* A record is at positions i and i + 1, on a line of its own.
IsRecord(i) ==
    /\ i + 1 \in DOMAIN file
    /\ file[i].part = "head"
    /\ file[i + 1] = [file[i] EXCEPT !.part = "rest"]
    /\ i > 1 => file[i - 1].part = "rest"

Records == {i \in DOMAIN file : IsRecord(i)}

\* No write can be cut short for good.
Untorn == ~({"short", "full"} \subseteq setting \/ {"short", "crash"} \subseteq setting)

\* SPEC-v0.1-release: concurrent requests produce complete, independently
\* parseable records.  Whenever nobody holds the log, the file is made of
\* whole records, at most one for each request.
RecordsParse ==
    Untorn /\ mu["log"] = Nobody =>
        /\ \A j \in DOMAIN file : j \in Records \/ j - 1 \in Records
        /\ \A i, j \in Records : file[i].of = file[j].of => i = j

\* SPEC-v0.1-release: every attempt appends its record.  A client that was told
\* an outcome, in this or in an earlier life of the process, is in the log with
\* that outcome; and what is recorded as a success published the bundle, or was
\* answered with a redirect.
AcknowledgedIsRecorded ==
    Untorn =>
        /\ \A r \in Requests : told[r] \notin {"none", "audit_failure"} =>
              \E i \in Records : file[i].of = r /\ file[i].outcome = Outcome(told[r])
        /\ \A i \in Records : file[i].outcome = "success" =>
              file[i].of \in applied \/ captured[file[i].of] = "redirect"

\* SPEC-v0.1-release: every issue attempt appends its record, also that of a
\* client that hung up meanwhile or whose answer came too late.  What a handler
\* has carried out is recorded by the time it is done, unless the log itself
\* failed or the process died.
CarriedOutIsRecorded ==
    setting \cap {"unavailable", "full", "sync", "crash"} = {} =>
        \A r \in applied : pc[r] = "done" => \E i \in Records : file[i].of = r

\* A command runs only while its handler waits for it inside the service
\* mutex: none outlives its deadline, its client or its handler's cleanup.
NoOrphans ==
    \A r \in Requests : process[r] = "running" =>
        pc[r] \in {"sign", "refresh"} /\ mu["service"] = r

\* What a request waits for, when it waits.
WaitsFor(r, lock) ==
    \/ lock = "log" /\ pc[r] \in {"new", "append"}
    \/ lock = "service" /\ pc[r] = "handle"

\* Append and Ready give the log back on every path, the handler the service:
\* no request is left that waits for a mutex of one that is done, and of those
\* under way one does not wait, or for a free mutex.
SomebodyProceeds ==
    (\E r \in Requests : pc[r] # "done") =>
        \E r \in Requests :
            /\ pc[r] # "done"
            /\ \A l \in {"log", "service"} : WaitsFor(r, l) => mu[l] = Nobody

\* Every audited request is answered or given up, however the destination
\* behaves and even if its commands never end by themselves: both mutexes are
\* released on every path, and no request waits for one forever.
RequestsAnswered == \A r \in Requests : <>(pc[r] = "done")

\* SPEC-v0.1-release: failure to write a required record fails the mutation
\* closed.  A request answered with audit_failure was not carried out.
FailsClosed ==
    \A r \in Requests : told[r] = "audit_failure" => r \notin applied
=============================================================================
