-------------------------- MODULE AuditTrailProofs --------------------------
(***************************************************************************)
(* Proofs about AuditTrail, for any number of requests and any conditions. *)
(***************************************************************************)
EXTENDS AuditTrail, TLAPS

-----------------------------------------------------------------------------
(* Type correctness *)

Labels == {"new", "handle", "name", "sign", "published", "refresh", "append",
           "open", "write", "rest", "sync", "respond", "done"}

Statuses == {"none", "created", "redirect", "bad_request", "conflict",
             "timeout", "crypto"}

Chunks == [of : Requests, outcome : {"success", "failure"},
           part : {"head", "rest"}]

\* The log, the handlers and their commands keep their shape.
TypeOK ==
    /\ file \in Seq(Chunks)
    /\ mu \in [{"log", "service"} -> Requests \cup {Nobody}]
    /\ pc \in [Requests -> Labels]
    /\ captured \in [Requests -> Statuses]
    /\ told \in [Requests -> Statuses \cup {"audit_failure"}]
    /\ applied \subseteq Requests
    /\ process \in [Requests -> ProcessStates]

-----------------------------------------------------------------------------
(* Mutexes and commands *)

\* A handler between Lock and Unlock is the holder, and a command runs only
\* where its handler waits for it.
HolderOK(r) ==
    /\ pc[r] \in {"name", "sign", "published", "refresh"} => mu["service"] = r
    /\ pc[r] \in {"open", "write", "rest", "sync"} => mu["log"] = r
    /\ process[r] # "none" => pc[r] \in {"sign", "refresh"}

\* What has been carried out is known by the label, and an answer is given
\* last: it is the status that was recorded.
OutcomeOK(r) ==
    /\ pc[r] \in {"published", "refresh"} => r \in applied
    /\ captured[r] = "created" => r \in applied
    /\ r \in applied => pc[r] \notin {"new", "handle", "name", "sign"}
    /\ told[r] \notin {"none", "audit_failure"} =>
          pc[r] = "done" /\ told[r] = captured[r]

HandlersOK == \A r \in Requests : HolderOK(r) /\ OutcomeOK(r)

-----------------------------------------------------------------------------
(* The log file *)

\* The writer that is owed the rest of its record.
Owed(r, j) == j = Len(file) /\ pc[r] = "rest" /\ file[j] = Chunk(r, "head")

\* Every chunk is followed or preceded by the other half of its record.
ChunkOK(j) ==
    /\ file[j].part = "head" =>
          \/ /\ j + 1 \in DOMAIN file
             /\ file[j + 1] = [file[j] EXCEPT !.part = "rest"]
          \/ \E r \in Requests : Owed(r, j)
    /\ file[j].part = "rest" =>
          j > 1 /\ file[j - 1] = [file[j] EXCEPT !.part = "head"]

Recorded(r) == \E i \in Records : file[i].of = r

\* Chunks belong to requests that have come as far as writing them, and carry
\* their outcome.
AuthorsOK ==
    /\ \A j \in DOMAIN file :
          /\ pc[file[j].of] \in {"rest", "sync", "respond", "done"}
          /\ file[j].outcome = Outcome(captured[file[j].of])
    /\ \A r \in Requests : pc[r] = "rest" => "short" \in setting

\* What the file looks like as long as no write can be cut short for good.
WholeOK ==
    /\ \A j \in DOMAIN file : ChunkOK(j)
    /\ \A i, j \in DOMAIN file :
          file[i].part = "head" /\ file[j].part = "head"
             /\ file[i].of = file[j].of => i = j
    /\ \A r \in Requests : pc[r] = "rest" => \E j \in DOMAIN file : Owed(r, j)
    /\ \A r \in Requests :
          pc[r] \in {"sync", "respond"} \/ told[r] \notin {"none", "audit_failure"}
             => Recorded(r)

\* As long as nothing can keep a record out of the log.
Dependable == setting \cap {"unavailable", "full", "sync", "crash"} = {}

KeptOK ==
    /\ available
    /\ \A r \in applied : pc[r] = "done" => Recorded(r)

LogOK ==
    /\ AuthorsOK
    /\ Untorn => WholeOK
    /\ Dependable => KeptOK

-----------------------------------------------------------------------------
(* Sequences of chunks *)

\* What one or two chunks at the end of a file leave as it was.
LEMMA OneChunk ==
    ASSUME NEW f \in Seq(Chunks), NEW a \in Chunks
    PROVE  LET g == f \o <<a>>
           IN  /\ g \in Seq(Chunks)
               /\ Len(g) = Len(f) + 1
               /\ \A j \in 1 .. Len(f) : g[j] = f[j]
               /\ g[Len(f) + 1] = a
OBVIOUS

LEMMA TwoChunks ==
    ASSUME NEW f \in Seq(Chunks), NEW a \in Chunks, NEW b \in Chunks
    PROVE  LET g == f \o <<a, b>>
           IN  /\ g \in Seq(Chunks)
               /\ Len(g) = Len(f) + 2
               /\ \A j \in 1 .. Len(f) : g[j] = f[j]
               /\ g[Len(f) + 1] = a
               /\ g[Len(f) + 2] = b
OBVIOUS

LEMMA FileType ==
    ASSUME TypeOK
    PROVE  /\ Len(file) \in Nat
           /\ DOMAIN file = 1 .. Len(file)
           /\ \A j \in DOMAIN file : file[j] \in Chunks /\ file[j].of \in Requests
<1>1. \A j \in DOMAIN file : file[j] \in Chunks
  BY DEF TypeOK
<1>2. QED BY <1>1 DEF TypeOK, Chunks

LEMMA ChunkType ==
    ASSUME NEW r \in Requests, NEW part \in {"head", "rest"}
    PROVE  /\ Chunk(r, part) \in Chunks
           /\ Chunk(r, part).of = r
           /\ Chunk(r, part).part = part
           /\ Chunk(r, part).outcome = Outcome(captured[r])
BY DEF Chunk, Chunks, Outcome

\* The three ways to write to the file.
LEMMA WriteEffect ==
    ASSUME TypeOK, NEW r \in Requests
    PROVE  /\ Write(r) =>
                 /\ file' \in Seq(Chunks)
                 /\ Len(file') = Len(file) + 2
                 /\ \A j \in 1 .. Len(file) : file'[j] = file[j]
                 /\ file'[Len(file) + 1] = Chunk(r, "head")
                 /\ file'[Len(file) + 2] = Chunk(r, "rest")
           /\ WriteShort(r) =>
                 /\ file' \in Seq(Chunks)
                 /\ Len(file') = Len(file) + 1
                 /\ \A j \in 1 .. Len(file) : file'[j] = file[j]
                 /\ file'[Len(file) + 1] = Chunk(r, "head")
           /\ WriteRest(r) =>
                 /\ file' \in Seq(Chunks)
                 /\ Len(file') = Len(file) + 1
                 /\ \A j \in 1 .. Len(file) : file'[j] = file[j]
                 /\ file'[Len(file) + 1] = Chunk(r, "rest")
<1> DEFINE head == Chunk(r, "head")
           rest == Chunk(r, "rest")
<1>1. file \in Seq(Chunks) /\ head \in Chunks /\ rest \in Chunks
  BY ChunkType DEF TypeOK
<1> HIDE DEF head, rest
<1>2. ASSUME file' = file \o <<head, rest>>
      PROVE  /\ file' \in Seq(Chunks)
             /\ Len(file') = Len(file) + 2
             /\ \A j \in 1 .. Len(file) : file'[j] = file[j]
             /\ file'[Len(file) + 1] = head
             /\ file'[Len(file) + 2] = rest
  BY <1>1, <1>2, TwoChunks
<1>3. ASSUME NEW chunk \in Chunks, file' = file \o <<chunk>>
      PROVE  /\ file' \in Seq(Chunks)
             /\ Len(file') = Len(file) + 1
             /\ \A j \in 1 .. Len(file) : file'[j] = file[j]
             /\ file'[Len(file) + 1] = chunk
  BY <1>1, <1>3, OneChunk
<1>4. /\ Write(r) => file' = file \o <<head, rest>>
      /\ WriteShort(r) => file' = file \o <<head>>
      /\ WriteRest(r) => file' = file \o <<rest>>
  BY DEF Write, WriteShort, WriteRest, Put, Record, head, rest
<1>5. /\ WriteShort(r) =>
            /\ file' \in Seq(Chunks)
            /\ Len(file') = Len(file) + 1
            /\ \A j \in 1 .. Len(file) : file'[j] = file[j]
            /\ file'[Len(file) + 1] = head
      /\ WriteRest(r) =>
            /\ file' \in Seq(Chunks)
            /\ Len(file') = Len(file) + 1
            /\ \A j \in 1 .. Len(file) : file'[j] = file[j]
            /\ file'[Len(file) + 1] = rest
  BY <1>1, <1>3, <1>4
<1>6. QED BY <1>2, <1>4, <1>5 DEF head, rest

-----------------------------------------------------------------------------
(* Types, mutexes and commands *)

LEMMA TypeInit == Init => TypeOK
BY DEF Init, TypeOK, Labels, Statuses, ProcessStates, RunnerInit, Requests

\* A handler that returns keeps the shape of the state.
LEMMA HandledType ==
    ASSUME TypeOK, NEW r \in Requests, NEW status \in Statuses,
           Handled(r, status), process' = process \/ Reap(r), applied' = applied
    PROVE  TypeOK'
<1>1. process' \in [Requests -> ProcessStates]
  BY DEF TypeOK, Reap, ProcessStates
<1>2. QED BY <1>1 DEF TypeOK, Handled, Goto, Labels, log

LEMMA AnswerType ==
    ASSUME TypeOK, NEW r \in Requests, NEW reply \in Statuses \cup {"audit_failure"},
           Answer(r, reply)
    PROVE  /\ pc' \in [Requests -> Labels]
           /\ told' \in [Requests -> Statuses \cup {"audit_failure"}]
BY DEF TypeOK, Answer, Goto, Labels, Statuses

LEMMA TypeStep ==
    ASSUME TypeOK, [Next]_vars
    PROVE  TypeOK'
<1> USE DEF TypeOK
<1>1. ASSUME NEW r \in Requests, Lock(r) PROVE TypeOK'
  BY <1>1 DEF Lock, LockService, LockLog, Acquire, Goto, Labels, log, runner
<1>2. ASSUME NEW r \in Requests, Refuse(r) \/ Conflict(r) \/ CommandFails(r) \/ Created(r)
      PROVE  TypeOK'
  <2>1. {"redirect", "bad_request", "conflict", "timeout", "crypto", "created"}
           \subseteq Statuses
    BY DEF Statuses
  <2>2. Status(Result(r)) \in Statuses
    BY DEF Status, Statuses
  <2>3. QED
    BY <1>2, <2>1, <2>2, HandledType
    DEF Refuse, Conflict, CommandFails, Created, runner
<1>3. ASSUME NEW r \in Requests,
             NotReady(r) \/ Respond(r) \/ OpenFails(r) \/ WriteFails(r) \/ SyncFails(r)
      PROVE  TypeOK'
  <2>1. captured[r] \in Statuses
    OBVIOUS
  <2>2. mu' \in [{"log", "service"} -> Requests \cup {Nobody}]
    BY <1>3 DEF NotReady, Respond, OpenFails, WriteFails, SyncFails, AppendFails
  <2>3. /\ UNCHANGED <<file, captured, applied, process>>
        /\ \E reply \in Statuses \cup {"audit_failure"} : Answer(r, reply)
    BY <1>3, <2>1 DEF NotReady, Respond, OpenFails, WriteFails, SyncFails,
       AppendFails, log, runner
  <2>4. QED BY <2>2, <2>3, AnswerType
<1>4. ASSUME NEW r \in Requests, Write(r) \/ WriteShort(r) \/ WriteRest(r)
      PROVE  TypeOK'
  <2>1. file' \in Seq(Chunks)
    BY <1>4, WriteEffect
  <2>2. QED
    BY <1>4, <2>1 DEF Write, WriteShort, WriteRest, Put, Goto, Labels, runner
<1>5. ASSUME NEW r \in Requests,
             Ready(r) \/ RespondLate(r) \/ Publish(r) \/ Open(r) \/ Sync(r)
                \/ SignCommand(r) \/ RefreshCommand(r)
      PROVE  TypeOK'
  BY <1>5 DEF Ready, RespondLate, Publish, Open, Sync, SignCommand,
     RefreshCommand, RunCommand, Start, Reap, Goto, Labels, ProcessStates, log,
     runner
<1>6. ASSUME NEW r \in Requests,
             Hangup(r) \/ CommandExits(r) \/ DeadlinePasses(r) \/ CommandKilled(r)
      PROVE  TypeOK'
  BY <1>6 DEF Hangup, Cancel, CommandExits, Exit, DeadlinePasses, Expire,
     CommandKilled, Kill, OutsideRunner, ProcessStates, log
<1>7. CASE Toggle
  BY <1>7 DEF Toggle, runner
<1>8. CASE Crash
  BY <1>8 DEF Crash, RunnerCrash, log, Labels, ProcessStates, Requests
<1>9. CASE UNCHANGED vars
  BY <1>9 DEF vars, log, runner
<1>10. QED
  BY <1>1, <1>2, <1>3, <1>4, <1>5, <1>6, <1>7, <1>8, <1>9 DEF Next, Step

LEMMA HandlersInit == Init => HandlersOK
BY DEF Init, HandlersOK, HolderOK, OutcomeOK, RunnerInit, Requests

LEMMA HandlersStep ==
    ASSUME TypeOK, HandlersOK, [Next]_vars
    PROVE  HandlersOK'
<1> USE DEF TypeOK, HandlersOK, HolderOK, OutcomeOK
<1>1. ASSUME NEW r \in Requests, Lock(r) PROVE HandlersOK'
  BY <1>1, AuditAssumption DEF Lock, LockService, LockLog, Acquire, Goto, log,
     runner
<1>2. ASSUME NEW r \in Requests, NEW status \in Statuses, Handled(r, status),
             pc[r] \in {"handle", "name", "sign", "refresh"},
             IF pc[r] \in {"handle", "name"} THEN process' = process
                                            ELSE Ended(r) /\ Reap(r),
             applied' = applied,
             status = "created" => pc[r] = "refresh"
      PROVE  HandlersOK'
  <2>1. process'[r] = "none" /\ \A u \in Requests : u # r => process'[u] = process[u]
    BY <1>2 DEF Reap, Ended
  <2>2. QED BY <1>2, <2>1, AuditAssumption DEF Handled, Goto, log
<1>3. ASSUME NEW r \in Requests, Refuse(r) \/ Conflict(r) \/ CommandFails(r) \/ Created(r)
      PROVE  HandlersOK'
  <2>1. {"redirect", "bad_request", "conflict", "timeout", "crypto", "created"}
           \subseteq Statuses
    BY DEF Statuses
  <2>2. Status(Result(r)) \in {"timeout", "crypto"}
    BY DEF Status
  <2>3. QED
    BY <1>2, <1>3, <2>1, <2>2 DEF Refuse, Conflict, CommandFails, Created, runner
<1>4. ASSUME NEW r \in Requests,
             NotReady(r) \/ Respond(r) \/ OpenFails(r) \/ WriteFails(r) \/ SyncFails(r)
      PROVE  HandlersOK'
  <2>1. /\ UNCHANGED <<captured, applied, process>>
        /\ \E reply \in {captured[r], "audit_failure"} : Answer(r, reply)
        /\ mu' = mu \/ (pc[r] \in {"open", "write", "rest", "sync"}
                          /\ mu' = [mu EXCEPT !["log"] = Nobody])
        /\ pc[r] \in {"new", "respond", "open", "write", "rest", "sync"}
        /\ pc[r] = "new" => Answer(r, "audit_failure")
    BY <1>4 DEF NotReady, Respond, OpenFails, WriteFails, SyncFails,
       AppendFails, log, runner
  <2>2. QED BY <2>1, AuditAssumption DEF Answer, Goto
<1>5. ASSUME NEW r \in Requests,
             Ready(r) \/ RespondLate(r) \/ Open(r) \/ Sync(r) \/ Write(r)
                \/ WriteShort(r) \/ WriteRest(r)
      PROVE  HandlersOK'
  BY <1>5 DEF Ready, RespondLate, Open, Sync, Write, WriteShort, WriteRest, Put,
     Goto, log, runner
<1>6. ASSUME NEW r \in Requests, Publish(r) \/ SignCommand(r) \/ RefreshCommand(r)
      PROVE  HandlersOK'
  BY <1>6 DEF Publish, SignCommand, RefreshCommand, RunCommand, Start, Reap,
     Ended, Goto, log, NameTaken
<1>7. ASSUME NEW r \in Requests,
             Hangup(r) \/ CommandExits(r) \/ DeadlinePasses(r) \/ CommandKilled(r)
      PROVE  HandlersOK'
  BY <1>7 DEF Hangup, Cancel, CommandExits, Exit, DeadlinePasses, Expire,
     CommandKilled, Kill, OutsideRunner
<1>8. CASE Toggle
  BY <1>8 DEF Toggle, runner
<1>9. CASE Crash
  BY <1>9 DEF Crash, RunnerCrash, Requests
<1>10. CASE UNCHANGED vars
  BY <1>10 DEF vars, log, runner
<1>11. QED
  BY <1>1, <1>3, <1>4, <1>5, <1>6, <1>7, <1>8, <1>9, <1>10 DEF Next, Step

\* In every reachable state log, handlers and commands have their shape, and
\* what a client was told is the status its handler ended with.
THEOREM TypeCorrect == Spec => [](TypeOK /\ HandlersOK)
BY TypeInit, TypeStep, HandlersInit, HandlersStep, PTL DEF Spec

\* CommandRunner.Run returns only after its process has ended, on every path of
\* the handler, so a command runs only inside the service mutex of its caller.
THEOREM CommandsAreOwned == Spec => []NoOrphans
<1>1. HandlersOK => NoOrphans
  BY DEF HandlersOK, HolderOK, NoOrphans
<1>2. QED BY <1>1, TypeCorrect, PTL

\* A mutex that is not free is held by a handler inside it.
HoldersInside ==
    \A r \in Requests :
        /\ mu["service"] = r => pc[r] \in {"name", "sign", "published", "refresh"}
        /\ mu["log"] = r => pc[r] \in {"open", "write", "rest", "sync"}

LEMMA HoldersStep ==
    ASSUME TypeOK, HandlersOK, HoldersInside, [Next]_vars
    PROVE  HoldersInside'
<1> USE AuditAssumption DEF TypeOK, HoldersInside, Goto
<1>1. ASSUME NEW r \in Requests, NEW status \in Statuses, Handled(r, status),
             pc[r] \in {"handle", "name", "sign", "refresh"}
      PROVE  HoldersInside'
  BY <1>1 DEF Handled
<1>2. ASSUME NEW r \in Requests, Lock(r) PROVE HoldersInside'
  BY <1>2 DEF Lock, LockService, LockLog, Acquire
<1>3. ASSUME NEW r \in Requests, Refuse(r) \/ Conflict(r) \/ CommandFails(r) \/ Created(r)
      PROVE  HoldersInside'
  <2>1. {"redirect", "bad_request", "conflict", "timeout", "crypto", "created"}
           \subseteq Statuses
    BY DEF Statuses
  <2>2. Status(Result(r)) \in Statuses
    BY <2>1 DEF Status
  <2>3. QED
    BY <1>1, <1>3, <2>1, <2>2 DEF Refuse, Conflict, CommandFails, Created
<1>4. ASSUME NEW r \in Requests, NotReady(r) \/ Respond(r) \/ RespondLate(r) \/ Ready(r)
      PROVE  HoldersInside'
  BY <1>4 DEF NotReady, Respond, RespondLate, Ready, Answer
<1>5. ASSUME NEW r \in Requests, OpenFails(r) \/ WriteFails(r) \/ SyncFails(r) \/ Sync(r)
      PROVE  HoldersInside'
  BY <1>5 DEF OpenFails, WriteFails, SyncFails, Sync, AppendFails, Answer
<1>6. ASSUME NEW r \in Requests, Open(r) \/ Write(r) \/ WriteShort(r) \/ WriteRest(r)
      PROVE  HoldersInside'
  BY <1>6 DEF Open, Write, WriteShort, WriteRest, Put
<1>7. ASSUME NEW r \in Requests, Publish(r) \/ SignCommand(r) \/ RefreshCommand(r)
      PROVE  HoldersInside'
  BY <1>7 DEF Publish, SignCommand, RefreshCommand, RunCommand
<1>8. ASSUME NEW r \in Requests,
             Hangup(r) \/ CommandExits(r) \/ DeadlinePasses(r) \/ CommandKilled(r)
      PROVE  HoldersInside'
  BY <1>8 DEF Hangup, CommandExits, DeadlinePasses, CommandKilled, OutsideRunner
<1>9. CASE Toggle \/ UNCHANGED vars
  BY <1>9 DEF Toggle, vars
<1>10. CASE Crash
  BY <1>10 DEF Crash
<1>11. QED
  BY <1>2, <1>3, <1>4, <1>5, <1>6, <1>7, <1>8, <1>9, <1>10 DEF Next, Step

\* Every path of Append gives the log back and every path of the handler the
\* service, so for any number of requests one that is not done can go on.
THEOREM NoDeadlock == Spec => []SomebodyProceeds
<1>1. ASSUME TypeOK, HoldersInside PROVE SomebodyProceeds
  <2> SUFFICES ASSUME NEW r \in Requests, pc[r] # "done"
               PROVE  \E u \in Requests :
                         /\ pc[u] # "done"
                         /\ \A l \in {"log", "service"} :
                               WaitsFor(u, l) => mu[l] = Nobody
    BY DEF SomebodyProceeds
  <2>1. CASE mu["log"] \in Requests
    BY <1>1, <2>1 DEF HoldersInside, WaitsFor
  <2>2. CASE mu["service"] \in Requests
    BY <1>1, <2>2 DEF HoldersInside, WaitsFor
  <2>3. CASE mu["log"] = Nobody /\ mu["service"] = Nobody
    BY <2>3
  <2>4. QED BY <1>1, <2>1, <2>2, <2>3 DEF TypeOK
<1>2. Init => HoldersInside
  BY AuditAssumption DEF Init, HoldersInside
<1>3. QED BY <1>1, <1>2, HoldersStep, TypeCorrect, PTL DEF Spec

-----------------------------------------------------------------------------
(* The log file *)

\* What was recorded stays recorded while the file grows at its end.
LEMMA RecordedKept ==
    ASSUME TypeOK, file' \in Seq(Chunks), Len(file') >= Len(file),
           \A j \in 1 .. Len(file) : file'[j] = file[j],
           NEW r \in Requests, Recorded(r)
    PROVE  Recorded(r)'
<1>1. PICK i \in DOMAIN file : IsRecord(i) /\ file[i].of = r
  BY DEF Recorded, Records
<1>2. i \in 1 .. Len(file) /\ i + 1 \in 1 .. Len(file) /\ Len(file) \in Nat
  BY <1>1 DEF IsRecord, TypeOK
<1>3. i \in DOMAIN file' /\ i + 1 \in DOMAIN file'
  <2>1. DOMAIN file' = 1 .. Len(file') /\ Len(file') \in Nat
    OBVIOUS
  <2>2. QED BY <1>2, <2>1
<1>4. file'[i] = file[i] /\ file'[i + 1] = file[i + 1]
  BY <1>2
<1>5. i > 1 => file'[i - 1] = file[i - 1]
  <2>1. i > 1 => i - 1 \in 1 .. Len(file)
    BY <1>2
  <2>2. QED BY <2>1
<1>6. IsRecord(i)' /\ file'[i].of = r
  BY <1>1, <1>3, <1>4, <1>5 DEF IsRecord
<1>7. QED BY <1>3, <1>6 DEF Recorded, Records

\* The steps of a handler that neither write a chunk nor decide a status.
Moves(r) ==
    \/ Lock(r) \/ Ready(r) \/ NotReady(r) \/ Respond(r) \/ RespondLate(r)
    \/ SignCommand(r) \/ RefreshCommand(r) \/ Publish(r) \/ Open(r)
    \/ OpenFails(r) \/ WriteFails(r) \/ Sync(r) \/ SyncFails(r)

\* A label is left for "rest" by no such step, and left from "rest", or for
\* the end of the request, only as the code of Append and the middleware says.
LEMMA MovesEffect ==
    ASSUME TypeOK, NEW r \in Requests, Moves(r)
    PROVE  /\ UNCHANGED <<file, available, captured, setting>>
           /\ \A u \in Requests : u # r => pc'[u] = pc[u] /\ told'[u] = told[u]
           /\ pc'[r] # "rest"
           /\ pc[r] = "rest" => "full" \in setting
           /\ pc[r] \in {"sync", "respond", "done", "rest"} =>
                 pc'[r] \in {"respond", "done"}
           /\ pc'[r] = "respond" => pc[r] = "sync"
           /\ pc'[r] # "sync"
           /\ told'[r] \in {told[r], "none", "audit_failure"} \/ pc[r] = "respond"
           /\ pc'[r] = "done" =>
                 \/ pc[r] = "respond"
                 \/ ~available
                 \/ {"full", "sync"} \cap setting # {}
           /\ applied' \subseteq applied \cup {r}
           /\ applied' # applied => pc'[r] = "published"
<1> USE DEF TypeOK
<1>1. CASE Lock(r)
  BY <1>1 DEF Lock, LockService, LockLog, Acquire, Goto, log
<1>2. CASE Ready(r) \/ NotReady(r)
  BY <1>2 DEF Ready, NotReady, Answer, Goto, log
<1>3. CASE Respond(r) \/ RespondLate(r)
  BY <1>3 DEF Respond, RespondLate, Answer, Goto, log
<1>4. CASE SignCommand(r) \/ RefreshCommand(r) \/ Publish(r)
  BY <1>4 DEF SignCommand, RefreshCommand, RunCommand, Publish, Goto, log
<1>5. CASE Open(r) \/ Sync(r)
  BY <1>5 DEF Open, Sync, Goto, log
<1>6. CASE OpenFails(r) \/ WriteFails(r) \/ SyncFails(r)
  BY <1>6 DEF OpenFails, WriteFails, SyncFails, AppendFails, Answer, Goto, log
<1>7. QED BY <1>1, <1>2, <1>3, <1>4, <1>5, <1>6 DEF Moves

\* The step by which a handler returns a status, before anything is written.
LEMMA HandledEffect ==
    ASSUME TypeOK, NEW r \in Requests,
           Refuse(r) \/ Conflict(r) \/ CommandFails(r) \/ Created(r)
    PROVE  /\ UNCHANGED <<file, available, told, applied, setting>>
           /\ \A u \in Requests : u # r =>
                 pc'[u] = pc[u] /\ captured'[u] = captured[u]
           /\ pc[r] \in {"handle", "name", "sign", "refresh"}
           /\ pc'[r] = "append"
BY DEF TypeOK, Refuse, Conflict, CommandFails, Created, Handled, Goto, log

LEMMA WritesEffect ==
    ASSUME TypeOK, NEW r \in Requests, Write(r) \/ WriteShort(r) \/ WriteRest(r)
    PROVE  /\ UNCHANGED <<available, captured, told, applied, setting>>
           /\ \A u \in Requests : u # r => pc'[u] = pc[u]
           /\ Write(r) => pc[r] = "write" /\ pc'[r] = "sync"
           /\ WriteShort(r) =>
                 pc[r] = "write" /\ pc'[r] = "rest" /\ "short" \in setting
           /\ WriteRest(r) => pc[r] = "rest" /\ pc'[r] = "sync"
BY DEF TypeOK, Write, WriteShort, WriteRest, Put, Goto

\* What else happens leaves requests and log as they are.
LEMMA BesidesEffect ==
    ASSUME \/ \E r \in Requests : Hangup(r) \/ CommandExits(r)
                                     \/ DeadlinePasses(r) \/ CommandKilled(r)
           \/ Toggle \/ UNCHANGED vars
    PROVE  /\ UNCHANGED <<file, pc, captured, told, applied, setting>>
           /\ available' = available \/ "unavailable" \in setting
BY DEF Hangup, CommandExits, DeadlinePasses, CommandKilled, OutsideRunner,
   Toggle, vars, log

LEMMA StepSplit ==
    ASSUME NEW r \in Requests, Lock(r) \/ Step(r)
    PROVE  \/ Moves(r)
           \/ Refuse(r) \/ Conflict(r) \/ CommandFails(r) \/ Created(r)
           \/ Write(r) \/ WriteShort(r) \/ WriteRest(r)
BY DEF Step, Moves

LEMMA CrashEffect ==
    ASSUME TypeOK, Crash
    PROVE  /\ UNCHANGED <<file, available, captured, told, applied, setting>>
           /\ "crash" \in setting
           /\ \A r \in Requests :
                 pc'[r] = IF pc[r] = "new" THEN "new" ELSE "done"
BY DEF Crash, log

LEMMA AuthorsStep ==
    ASSUME TypeOK, AuthorsOK, [Next]_vars
    PROVE  AuthorsOK'
<1> USE DEF AuthorsOK
<1>0. \A j \in DOMAIN file : file[j] \in Chunks /\ file[j].of \in Requests
  BY FileType
<1>1. ASSUME NEW r \in Requests, Moves(r) PROVE AuthorsOK'
  BY <1>0, <1>1, MovesEffect
<1>2. ASSUME NEW r \in Requests,
             Refuse(r) \/ Conflict(r) \/ CommandFails(r) \/ Created(r)
      PROVE  AuthorsOK'
  BY <1>0, <1>2, HandledEffect
<1>3. ASSUME NEW r \in Requests, Write(r) \/ WriteShort(r) \/ WriteRest(r)
      PROVE  AuthorsOK'
  <2>1. \A j \in DOMAIN file' :
           \/ j \in DOMAIN file /\ file'[j] = file[j]
           \/ file'[j] = Chunk(r, "head") \/ file'[j] = Chunk(r, "rest")
    <3>1. /\ file' \in Seq(Chunks)
          /\ \A j \in 1 .. Len(file) : file'[j] = file[j]
          /\ \A j \in 1 .. Len(file') : j > Len(file) =>
                file'[j] \in {Chunk(r, "head"), Chunk(r, "rest")}
      <4>0. Len(file) \in Nat
        BY DEF TypeOK
      <4>1. CASE Write(r) BY <4>0, <4>1, WriteEffect
      <4>2. CASE WriteShort(r) BY <4>0, <4>2, WriteEffect
      <4>3. CASE WriteRest(r) BY <4>0, <4>3, WriteEffect
      <4>4. QED BY <1>3, <4>1, <4>2, <4>3
    <3>2. QED BY <3>1 DEF TypeOK
  <2>2. \A part \in {"head", "rest"} :
           Chunk(r, part).of = r /\ Chunk(r, part).outcome = Outcome(captured[r])
    BY ChunkType
  <2>3. pc'[r] \in {"rest", "sync"} /\ captured' = captured
    BY <1>3, WritesEffect
  <2>4. \A j \in DOMAIN file' :
           /\ pc'[file'[j].of] \in {"rest", "sync", "respond", "done"}
           /\ file'[j].outcome = Outcome(captured[file'[j].of])
    BY <1>0, <1>3, <2>1, <2>2, <2>3, WritesEffect
  <2>5. \A u \in Requests : pc'[u] = "rest" => "short" \in setting'
    BY <1>3, WritesEffect
  <2>6. QED BY <2>3, <2>4, <2>5 DEF Outcome
<1>4. CASE Crash
  BY <1>0, <1>4, CrashEffect
<1>5. QED
  BY <1>1, <1>2, <1>3, <1>4, StepSplit, BesidesEffect DEF Next

\* Only one request holds the log, so only one can be owed the rest of a record.
LEMMA OneWriter ==
    ASSUME HandlersOK, NEW r \in Requests, pc[r] \in {"write", "rest"},
           NEW u \in Requests, pc[u] = "rest"
    PROVE  u = r
BY DEF HandlersOK, HolderOK

\* A step that writes nothing leaves whole what is whole.
LEMMA WholeKept ==
    ASSUME TypeOK, WholeOK, file' = file,
           \A u \in Requests : pc'[u] = "rest" <=> pc[u] = "rest",
           \A u \in Requests : pc[u] = "rest" => captured'[u] = captured[u],
           \A u \in Requests :
              pc'[u] \in {"sync", "respond"} \/ told'[u] \notin {"none", "audit_failure"}
                 => \/ pc[u] \in {"sync", "respond"}
                    \/ told[u] \notin {"none", "audit_failure"}
    PROVE  WholeOK'
<1>1. \A u \in Requests, j \in DOMAIN file : Owed(u, j)' <=> Owed(u, j)
  BY DEF Owed, Chunk, Outcome
<1>2. \A u \in Requests : Recorded(u)' <=> Recorded(u)
  BY DEF Recorded, Records, IsRecord
<1>3. \A j \in DOMAIN file : ChunkOK(j)'
  BY <1>1 DEF WholeOK, ChunkOK
<1>4. QED BY <1>1, <1>2, <1>3 DEF WholeOK

\* What a writer finds: no head at the end of the file unless it is its own.
LEMMA NoOpenHead ==
    ASSUME TypeOK, WholeOK, NEW j \in DOMAIN file, file[j].part = "head",
           \A u \in Requests : ~Owed(u, j)
    PROVE  j + 1 \in DOMAIN file /\ file[j + 1] = [file[j] EXCEPT !.part = "rest"]
BY DEF WholeOK, ChunkOK

\* A chunk that has its other half keeps it while the file grows.
LEMMA ChunkKept ==
    ASSUME TypeOK, file' \in Seq(Chunks), Len(file') >= Len(file),
           \A i \in 1 .. Len(file) : file'[i] = file[i],
           NEW j \in DOMAIN file, ChunkOK(j), \A u \in Requests : ~Owed(u, j)
    PROVE  ChunkOK(j)'
<1>1. /\ Len(file) \in Nat /\ DOMAIN file = 1 .. Len(file)
      /\ Len(file') \in Nat /\ DOMAIN file' = 1 .. Len(file')
  BY FileType
<1>2. file'[j] = file[j]
  BY <1>1
<1>3. j + 1 \in DOMAIN file => j + 1 \in DOMAIN file' /\ file'[j + 1] = file[j + 1]
  BY <1>1
<1>4. j > 1 => file'[j - 1] = file[j - 1]
  BY <1>1
<1>5. QED BY <1>2, <1>3, <1>4 DEF ChunkOK

LEMMA WholeStep ==
    ASSUME TypeOK, HandlersOK, AuthorsOK, WholeOK, Untorn, [Next]_vars
    PROVE  WholeOK'
<1>1. ASSUME NEW r \in Requests, Moves(r) PROVE WholeOK'
  <2>1. pc[r] # "rest"
    BY <1>1, MovesEffect DEF AuthorsOK, Untorn
  <2>2. QED BY <1>1, <2>1, MovesEffect, WholeKept
<1>2. ASSUME NEW r \in Requests,
             Refuse(r) \/ Conflict(r) \/ CommandFails(r) \/ Created(r)
      PROVE  WholeOK'
  BY <1>2, HandledEffect, WholeKept
<1>3. ASSUME NEW r \in Requests, Write(r) PROVE WholeOK'
  <2>0. PICK n \in Nat : n = Len(file)
    BY FileType
  <2>1. /\ file' \in Seq(Chunks) /\ Len(file') = n + 2
        /\ \A j \in 1 .. n : file'[j] = file[j]
        /\ file'[n + 1] = Chunk(r, "head") /\ file'[n + 2] = Chunk(r, "rest")
    BY <1>3, <2>0, WriteEffect
  <2>2. /\ n \in Nat /\ DOMAIN file = 1 .. n /\ DOMAIN file' = 1 .. n + 2
    BY <2>0, <2>1, FileType
  <2>3. /\ UNCHANGED <<captured, told>>
        /\ pc[r] = "write" /\ pc'[r] = "sync"
        /\ \A u \in Requests : u # r => pc'[u] = pc[u]
    BY <1>3, WritesEffect
  <2>4. \A u \in Requests : pc[u] # "rest" /\ pc'[u] # "rest"
    BY <2>3, OneWriter
  <2>5. \A u \in Requests, j \in DOMAIN file : ~Owed(u, j)
    BY <2>4 DEF Owed
  <2>6. file'[n + 2] = [file'[n + 1] EXCEPT !.part = "rest"]
        /\ file'[n + 1] = [file'[n + 2] EXCEPT !.part = "head"]
        /\ file'[n + 1].part = "head" /\ file'[n + 2].part = "rest"
        /\ file'[n + 1].of = r
    BY <2>1 DEF Chunk
  <2>7. \A j \in DOMAIN file' : ChunkOK(j)'
    <3>1. \A j \in DOMAIN file : ChunkOK(j)'
      BY <2>0, <2>1, <2>2, <2>5, ChunkKept DEF WholeOK
    <3>2. ChunkOK(n + 1)' /\ ChunkOK(n + 2)'
      <4>1. /\ (n + 1) + 1 = n + 2 /\ (n + 2) - 1 = n + 1 /\ n + 2 > 1
            /\ n + 2 \in DOMAIN file'
        BY <2>2
      <4>2. ChunkOK(n + 1)'
        BY <2>6, <4>1 DEF ChunkOK
      <4>3. ChunkOK(n + 2)'
        BY <2>6, <4>1 DEF ChunkOK
      <4>4. QED BY <4>2, <4>3
    <3>3. QED BY <2>2, <3>1, <3>2
  <2>8. \A j \in DOMAIN file : file[j].of # r
    BY <2>3 DEF AuthorsOK
  <2>9. \A i, j \in DOMAIN file' :
           file'[i].part = "head" /\ file'[j].part = "head"
              /\ file'[i].of = file'[j].of => i = j
    <3>1. \A i \in DOMAIN file' :
             file'[i].part = "head" =>
                i = n + 1 \/ (i \in DOMAIN file /\ file'[i] = file[i])
      BY <2>1, <2>2, <2>6
    <3>2. QED BY <2>6, <2>8, <3>1 DEF WholeOK
  <2>10. Recorded(r)'
    <3>1. n + 1 > 1 => file'[n].part = "rest"
      <4>1. SUFFICES ASSUME n >= 1 PROVE file[n].part = "rest"
        BY <2>1, <2>2
      <4>2. file[n].part # "head"
        <5>1. n \in DOMAIN file /\ n + 1 \notin DOMAIN file
          BY <2>2, <4>1
        <5>2. QED BY <2>5, <5>1, NoOpenHead
      <4>3. QED BY <2>2, <4>1, <4>2, FileType DEF Chunks
    <3>2. IsRecord(n + 1)'
      BY <2>2, <2>6, <3>1 DEF IsRecord
    <3>3. QED BY <2>2, <2>6, <3>2 DEF Recorded, Records
  <2>11. \A u \in Requests :
            pc'[u] \in {"sync", "respond"} \/ told'[u] \notin {"none", "audit_failure"}
               => Recorded(u)'
    <3>1. \A u \in Requests : Recorded(u) => Recorded(u)'
      BY <2>0, <2>1, <2>2, RecordedKept
    <3>2. QED BY <2>3, <2>10, <3>1 DEF WholeOK
  <2>12. QED BY <2>4, <2>7, <2>9, <2>11 DEF WholeOK
<1>4. ASSUME NEW r \in Requests, WriteShort(r) PROVE WholeOK'
  <2>0. PICK n \in Nat : n = Len(file)
    BY FileType
  <2>1. /\ file' \in Seq(Chunks) /\ Len(file') = n + 1
        /\ \A j \in 1 .. n : file'[j] = file[j]
        /\ file'[n + 1] = Chunk(r, "head")
    BY <1>4, <2>0, WriteEffect
  <2>2. /\ n \in Nat /\ DOMAIN file = 1 .. n /\ DOMAIN file' = 1 .. n + 1
    BY <2>0, <2>1, FileType
  <2>3. /\ UNCHANGED <<captured, told>>
        /\ pc[r] = "write" /\ pc'[r] = "rest"
        /\ \A u \in Requests : u # r => pc'[u] = pc[u]
    BY <1>4, WritesEffect
  <2>4. \A u \in Requests : pc[u] # "rest" /\ (u # r => pc'[u] # "rest")
    BY <2>3, OneWriter
  <2>5. \A u \in Requests, j \in DOMAIN file : ~Owed(u, j)
    BY <2>4 DEF Owed
  <2>6. Owed(r, n + 1)' /\ n + 1 \in DOMAIN file'
        /\ file'[n + 1].part = "head" /\ file'[n + 1].of = r
    BY <2>0, <2>1, <2>2, <2>3 DEF Owed, Chunk
  <2>7. \A j \in DOMAIN file' : ChunkOK(j)'
    <3>1. \A j \in DOMAIN file : ChunkOK(j)'
      BY <2>0, <2>1, <2>2, <2>5, ChunkKept DEF WholeOK
    <3>2. ChunkOK(n + 1)'
      BY <2>6 DEF ChunkOK
    <3>3. QED BY <2>2, <3>1, <3>2
  <2>8. \A j \in DOMAIN file : file[j].of # r
    BY <2>3 DEF AuthorsOK
  <2>9. \A i, j \in DOMAIN file' :
           file'[i].part = "head" /\ file'[j].part = "head"
              /\ file'[i].of = file'[j].of => i = j
    <3>1. \A i \in DOMAIN file' :
             i = n + 1 \/ (i \in DOMAIN file /\ file'[i] = file[i])
      BY <2>1, <2>2
    <3>2. QED BY <2>6, <2>8, <3>1 DEF WholeOK
  <2>10. \A u \in Requests : pc'[u] = "rest" => \E j \in DOMAIN file' : Owed(u, j)'
    BY <2>4, <2>6
  <2>11. \A u \in Requests :
            pc'[u] \in {"sync", "respond"} \/ told'[u] \notin {"none", "audit_failure"}
               => Recorded(u)'
    <3>1. \A u \in Requests : Recorded(u) => Recorded(u)'
      BY <2>0, <2>1, <2>2, RecordedKept
    <3>2. QED BY <2>3, <3>1 DEF WholeOK
  <2>12. QED BY <2>7, <2>9, <2>10, <2>11 DEF WholeOK
<1>5. ASSUME NEW r \in Requests, WriteRest(r) PROVE WholeOK'
  <2>0. PICK n \in Nat : n = Len(file)
    BY FileType
  <2>1. /\ file' \in Seq(Chunks) /\ Len(file') = n + 1
        /\ \A j \in 1 .. n : file'[j] = file[j]
        /\ file'[n + 1] = Chunk(r, "rest")
    BY <1>5, <2>0, WriteEffect
  <2>2. /\ n \in Nat /\ DOMAIN file = 1 .. n /\ DOMAIN file' = 1 .. n + 1
    BY <2>0, <2>1, FileType
  <2>3. /\ UNCHANGED <<captured, told>>
        /\ pc[r] = "rest" /\ pc'[r] = "sync"
        /\ \A u \in Requests : u # r => pc'[u] = pc[u]
    BY <1>5, WritesEffect
  <2>4. \A u \in Requests : (u # r => pc[u] # "rest") /\ pc'[u] # "rest"
    BY <2>3, OneWriter
  <2>5. n \in DOMAIN file /\ file[n] = Chunk(r, "head")
    BY <2>0, <2>3 DEF WholeOK, Owed
  <2>6. /\ file'[n] = file[n]
        /\ file'[n + 1] = [file'[n] EXCEPT !.part = "rest"]
        /\ file'[n] = [file'[n + 1] EXCEPT !.part = "head"]
        /\ file'[n].part = "head" /\ file'[n + 1].part = "rest"
        /\ file'[n].of = r
    BY <2>1, <2>2, <2>5 DEF Chunk
  <2>7. \A j \in DOMAIN file : j # n => \A u \in Requests : ~Owed(u, j)
    BY <2>0 DEF Owed
  <2>8. \A j \in DOMAIN file' : ChunkOK(j)'
    <3>1. \A j \in DOMAIN file : j # n => ChunkOK(j)'
      BY <2>0, <2>1, <2>2, <2>7, ChunkKept DEF WholeOK
    <3>2. ChunkOK(n)' /\ ChunkOK(n + 1)'
      BY <2>2, <2>5, <2>6 DEF ChunkOK
    <3>3. QED BY <2>2, <3>1, <3>2
  <2>9. \A i, j \in DOMAIN file' :
           file'[i].part = "head" /\ file'[j].part = "head"
              /\ file'[i].of = file'[j].of => i = j
    <3>1. \A i \in DOMAIN file' :
             file'[i].part = "head" => i \in DOMAIN file /\ file'[i] = file[i]
      BY <2>1, <2>2, <2>6
    <3>2. QED BY <3>1 DEF WholeOK
  <2>10. Recorded(r)'
    <3>1. n > 1 => file'[n - 1].part = "rest"
      <4>1. SUFFICES ASSUME n > 1 PROVE file[n - 1].part = "rest"
        BY <2>1, <2>2
      <4>2. n - 1 \in DOMAIN file /\ n - 1 # n /\ (n - 1) + 1 = n
        BY <2>2, <4>1
      <4>3. file[n].part = "head"
        BY <2>6
      <4>4. [file[n - 1] EXCEPT !.part = "rest"].part = "rest"
        BY <4>2, FileType DEF Chunks
      <4>5. file[n - 1].part # "head"
        BY <2>7, <4>2, <4>3, <4>4, NoOpenHead
      <4>6. QED BY <4>2, <4>5, FileType DEF Chunks
    <3>2. n \in DOMAIN file' /\ n + 1 \in DOMAIN file'
      BY <2>2, <2>5
    <3>3. IsRecord(n)'
      BY <2>6, <3>1, <3>2 DEF IsRecord
    <3>4. QED BY <2>6, <3>2, <3>3 DEF Recorded, Records
  <2>11. \A u \in Requests :
            pc'[u] \in {"sync", "respond"} \/ told'[u] \notin {"none", "audit_failure"}
               => Recorded(u)'
    <3>1. \A u \in Requests : Recorded(u) => Recorded(u)'
      BY <2>0, <2>1, <2>2, RecordedKept
    <3>2. QED BY <2>3, <2>10, <3>1 DEF WholeOK
  <2>12. QED BY <2>4, <2>8, <2>9, <2>11 DEF WholeOK
<1>6. CASE Crash
  <2>1. \A u \in Requests : pc[u] # "rest" /\ pc'[u] \in {"new", "done"}
    BY <1>6, CrashEffect DEF AuthorsOK, Untorn
  <2>2. QED BY <1>6, <2>1, CrashEffect, WholeKept
<1>7. CASE \/ \E r \in Requests : Hangup(r) \/ CommandExits(r)
                                     \/ DeadlinePasses(r) \/ CommandKilled(r)
           \/ Toggle \/ UNCHANGED vars
  BY <1>7, BesidesEffect, WholeKept
<1>8. QED
  BY <1>1, <1>2, <1>3, <1>4, <1>5, <1>6, <1>7, StepSplit DEF Next

LEMMA KeptStep ==
    ASSUME TypeOK, WholeOK, KeptOK, Dependable, [Next]_vars
    PROVE  KeptOK'
<1> USE DEF KeptOK
<1>1. ASSUME NEW r \in Requests, Moves(r) PROVE KeptOK'
  <2>0. {"unavailable", "full", "sync", "crash"} \cap setting = {}
    BY DEF Dependable
  <2>1. /\ UNCHANGED <<file, available>>
        /\ \A u \in Requests : u # r => pc'[u] = pc[u]
        /\ pc'[r] = "done" => pc[r] = "respond"
        /\ applied' \subseteq applied \cup {r}
        /\ applied' # applied => pc'[r] = "published"
    BY <1>1, <2>0, MovesEffect
  <2>2. \A u \in Requests : Recorded(u)' <=> Recorded(u)
    BY <2>1 DEF Recorded, Records, IsRecord
  <2>3. pc'[r] = "done" => Recorded(r)
    BY <2>1 DEF WholeOK
  <2>4. \A u \in applied' : pc'[u] = "done" => Recorded(u)
    <3>1. \A u \in applied' : pc'[u] = "done" => u = r \/ u \in applied
      BY <2>1
    <3>2. QED BY <2>1, <2>3, <3>1 DEF TypeOK
  <2>5. applied' \subseteq Requests
    BY <2>1 DEF TypeOK
  <2>6. QED BY <2>1, <2>2, <2>4, <2>5
<1>2. ASSUME NEW r \in Requests,
             Refuse(r) \/ Conflict(r) \/ CommandFails(r) \/ Created(r)
      PROVE  KeptOK'
  <2>1. /\ UNCHANGED <<file, available, applied>>
        /\ \A u \in Requests : pc'[u] = "done" => pc[u] = "done"
    BY <1>2, HandledEffect
  <2>2. \A u \in Requests : Recorded(u)' <=> Recorded(u)
    BY <2>1 DEF Recorded, Records, IsRecord
  <2>3. QED BY <2>1, <2>2 DEF TypeOK
<1>3. ASSUME NEW r \in Requests, Write(r) \/ WriteShort(r) \/ WriteRest(r)
      PROVE  KeptOK'
  <2>1. /\ file' \in Seq(Chunks) /\ Len(file') >= Len(file)
        /\ \A j \in 1 .. Len(file) : file'[j] = file[j]
    BY <1>3, WriteEffect, FileType
  <2>2. \A u \in Requests : Recorded(u) => Recorded(u)'
    BY <2>1, RecordedKept
  <2>3. QED BY <1>3, <2>2, WritesEffect DEF TypeOK
<1>4. CASE Crash
  BY <1>4, CrashEffect DEF Dependable
<1>5. CASE \/ \E r \in Requests : Hangup(r) \/ CommandExits(r)
                                     \/ DeadlinePasses(r) \/ CommandKilled(r)
           \/ Toggle \/ UNCHANGED vars
  <2>1. UNCHANGED <<file, pc, applied, available>>
    BY <1>5, BesidesEffect DEF Dependable
  <2>2. \A u \in Requests : Recorded(u)' <=> Recorded(u)
    BY <2>1 DEF Recorded, Records, IsRecord
  <2>3. QED BY <2>1, <2>2 DEF TypeOK
<1>6. QED
  BY <1>1, <1>2, <1>3, <1>4, <1>5, StepSplit DEF Next

\* What may happen in a behavior is decided once.
LEMMA SettingFixed ==
    ASSUME TypeOK, [Next]_vars
    PROVE  setting' = setting
BY StepSplit, MovesEffect, HandledEffect, WritesEffect, CrashEffect,
   BesidesEffect DEF Next

LEMMA LogInit == Init => LogOK
<1> SUFFICES ASSUME Init PROVE LogOK
  OBVIOUS
<1>1. /\ file = <<>> /\ applied = {}
      /\ \A r \in Requests : pc[r] = "new" /\ told[r] = "none"
      /\ "unavailable" \notin setting => available
      /\ DOMAIN file = {}
  <2>1. /\ file = <<>> /\ applied = {}
        /\ \A r \in Requests : pc[r] = "new" /\ told[r] = "none"
    BY DEF Init
  <2>2. "unavailable" \notin setting => available
    BY DEF Init
  <2>3. QED BY <2>1, <2>2
<1>2. AuthorsOK
  BY <1>1 DEF AuthorsOK
<1>3. WholeOK
  BY <1>1 DEF WholeOK
<1>4. Dependable => KeptOK
  BY <1>1 DEF Dependable, KeptOK
<1>5. QED BY <1>2, <1>3, <1>4 DEF LogOK

LEMMA LogStep ==
    ASSUME TypeOK, HandlersOK, LogOK, [Next]_vars
    PROVE  LogOK'
<1>1. AuthorsOK'
  BY AuthorsStep DEF LogOK
<1>2. setting' = setting
  BY SettingFixed
<1>3. Untorn' => WholeOK'
  BY <1>2, WholeStep DEF LogOK, Untorn
<1>4. Dependable' => KeptOK'
  BY <1>2, KeptStep DEF LogOK, Dependable, Untorn
<1>5. QED BY <1>1, <1>3, <1>4 DEF LogOK

LEMMA LogCorrect == Spec => [](TypeOK /\ HandlersOK /\ LogOK)
BY TypeInit, TypeStep, HandlersInit, HandlersStep, LogInit, LogStep, PTL DEF Spec

\* Append holds Log.mu from the open to the sync, so the records of concurrent
\* requests do not mix, and a request appends only one.
THEOREM LogParses == Spec => []RecordsParse
<1>1. ASSUME TypeOK, HandlersOK, LogOK PROVE RecordsParse
  <2> SUFFICES ASSUME Untorn, mu["log"] = Nobody
               PROVE  /\ \A j \in DOMAIN file : j \in Records \/ j - 1 \in Records
                      /\ \A i, j \in Records : file[i].of = file[j].of => i = j
    BY DEF RecordsParse
  <2>1. WholeOK
    BY <1>1 DEF LogOK
  <2>2. \A r \in Requests : pc[r] # "rest"
    BY <1>1, AuditAssumption DEF HandlersOK, HolderOK
  <2>3. \A r \in Requests, j \in DOMAIN file : ~Owed(r, j)
    BY <2>2 DEF Owed
  <2>4. \A j \in DOMAIN file : file[j].part = "head" => j \in Records
    <3> SUFFICES ASSUME NEW j \in DOMAIN file, file[j].part = "head"
                 PROVE  IsRecord(j)
      BY DEF Records
    <3>1. j + 1 \in DOMAIN file /\ file[j + 1] = [file[j] EXCEPT !.part = "rest"]
      BY <1>1, <2>1, <2>3, NoOpenHead
    <3>2. ASSUME j > 1 PROVE file[j - 1].part = "rest"
      <4>1. j - 1 \in DOMAIN file /\ (j - 1) + 1 = j
        BY <1>1, <3>2, FileType
      <4>2. [file[j - 1] EXCEPT !.part = "rest"].part = "rest"
        BY <1>1, <4>1, FileType DEF Chunks
      <4>3. file[j - 1].part # "head"
        BY <1>1, <2>1, <2>3, <4>1, <4>2, NoOpenHead
      <4>4. QED BY <1>1, <4>1, <4>3, FileType DEF Chunks
    <3>3. QED BY <3>1, <3>2 DEF IsRecord
  <2>5. ASSUME NEW j \in DOMAIN file, file[j].part = "rest"
        PROVE  j - 1 \in Records
    <3>1. j > 1 /\ file[j - 1] = [file[j] EXCEPT !.part = "head"]
      BY <2>1, <2>5 DEF WholeOK, ChunkOK
    <3>2. j - 1 \in DOMAIN file /\ file[j - 1].part = "head"
      BY <1>1, <3>1, FileType DEF Chunks
    <3>3. QED BY <2>4, <3>2
  <2>6. \A j \in DOMAIN file : file[j].part \in {"head", "rest"}
    BY <1>1, FileType DEF Chunks
  <2>7. QED BY <2>1, <2>4, <2>5, <2>6 DEF WholeOK, Records, IsRecord
<1>2. QED BY <1>1, LogCorrect, PTL

\* auditRequests sends the response only after Append has returned, and Append
\* records the status the response has.
THEOREM AnswersAreRecorded == Spec => []AcknowledgedIsRecorded
<1>1. ASSUME TypeOK, HandlersOK, LogOK PROVE AcknowledgedIsRecorded
  <2> SUFFICES ASSUME Untorn
               PROVE  /\ \A r \in Requests : told[r] \notin {"none", "audit_failure"} =>
                            \E i \in Records :
                               file[i].of = r /\ file[i].outcome = Outcome(told[r])
                      /\ \A i \in Records : file[i].outcome = "success" =>
                            file[i].of \in applied \/ captured[file[i].of] = "redirect"
    BY DEF AcknowledgedIsRecorded
  <2>1. \A i \in Records : i \in DOMAIN file /\ file[i].of \in Requests
                             /\ file[i].outcome = Outcome(captured[file[i].of])
    BY <1>1, FileType DEF Records, LogOK, AuthorsOK
  <2>2. ASSUME NEW r \in Requests, told[r] \notin {"none", "audit_failure"}
        PROVE  \E i \in Records :
                  file[i].of = r /\ file[i].outcome = Outcome(told[r])
    <3>1. PICK i \in Records : file[i].of = r
      BY <1>1, <2>2 DEF LogOK, WholeOK, Recorded
    <3>2. told[r] = captured[r]
      BY <1>1, <2>2 DEF HandlersOK, OutcomeOK
    <3>3. QED BY <2>1, <3>1, <3>2
  <2>3. ASSUME NEW i \in Records, file[i].outcome = "success"
        PROVE  file[i].of \in applied \/ captured[file[i].of] = "redirect"
    <3>1. captured[file[i].of] \in {"created", "redirect"}
      BY <2>1, <2>3 DEF Outcome
    <3>2. QED BY <1>1, <2>1, <3>1 DEF HandlersOK, OutcomeOK
  <2>4. QED BY <2>2, <2>3
<1>2. QED BY <1>1, LogCorrect, PTL

\* Nothing a handler carried out stays out of the log because its client hung
\* up or its answer came too late: Append runs before either matters.
THEOREM IssuesAreRecorded == Spec => []CarriedOutIsRecorded
<1>1. LogOK => CarriedOutIsRecorded
  BY DEF LogOK, KeptOK, Dependable, CarriedOutIsRecorded, Recorded
<1>2. QED BY <1>1, LogCorrect, PTL

=============================================================================
