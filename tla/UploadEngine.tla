---------------------------- MODULE UploadEngine ----------------------------
(***************************************************************************)
(* api/upload.c: the event loop that carries a run's files through         *)
(*                                                                         *)
(*     init -> chunk* -> complete            or one sharex request,        *)
(*                                                                         *)
(* at most `Concurrency` requests in flight, with retries, reconciliation  *)
(* after a 409, resumption from sessions.json, Ctrl+C and process crashes. *)
(* The module composes the engine with the server (UploadServer), a        *)
(* network that may lose a request, lose an answer or deliver a request    *)
(* after the client has given up on it, and the two files the engine       *)
(* leaves behind: sessions.json and shelf.json.                            *)
(*                                                                         *)
(* The client is one thread: a request handler is one action.  The only    *)
(* handler split in two is a successful upload, because it writes two      *)
(* files and a crash may fall between the writes: Succeed drops the        *)
(* session, RecordResult (the on_complete callback) writes the shelf.      *)
(***************************************************************************)
EXTENDS UploadServer, FiniteSets

CONSTANTS
    Job,          \* positions in the engine's queue, one per file argument
    File,         \* source paths
    source,       \* source[j] is the path queued as job j
    SingleShot,   \* jobs small enough for the single-request path
    NoSession,    \* absence of a session record
    Concurrency,  \* requests in flight at once
    MaxRetries,   \* ZB_CHUNK_MAX_RETRIES
    MaxReconcile, \* ZB_MAX_RECONCILE_ROUNDS
    MaxRuns,      \* bound: runs of the program
    Faults,       \* what may go wrong, a subset of FaultKind
    ServerErrors, \* error answers a server may give instead of serving
    BadBodies     \* requests whose 2xx answer may have an unusable body

FaultKind == {"network", "interrupt", "crash", "disk", "start", "loop",
              "loss", "expire", "edit", "age"}

RequestKind == {"init", "status", "chunk", "complete", "verify", "sharex"}

\* 503 carries a Retry-After the client waits out, 503long one it will not.
ErrorAnswer == {"503", "503long", "5xx", "4xx"}

ASSUME JobAssumption == IsFiniteSet(Job) /\ Job # {}
ASSUME SourceAssumption == source \in [Job -> File]
ASSUME SingleShotAssumption == SingleShot \subseteq Job
ASSUME ConcurrencyAssumption == Concurrency \in Nat \ {0}
ASSUME LimitsAssumption == MaxRetries \in Nat /\ MaxReconcile \in Nat
ASSUME MaxRunsAssumption == MaxRuns \in Nat
ASSUME FaultsAssumption == /\ Faults \subseteq FaultKind
                           /\ ServerErrors \subseteq ErrorAnswer
                           /\ BadBodies \subseteq RequestKind

VARIABLES
    jobs,         \* zb_upload_engine.jobs
    inFlight,     \* zb_upload_engine.in_flight
    mem,          \* zb_upload_engine.sessions
    recording,    \* the shelf row on_complete is about to write
    running,      \* the program is running
    interrupted,  \* zb_interrupted
    req,          \* the request each job's easy handle carries
    late,         \* requests the client gave up on, still under way
    disk,         \* sessions.json
    shelf,        \* rows of shelf.json
    printed,      \* delete tokens printed because the shelf was unwritable
    version,      \* present version of each source file
    runs,         \* runs started
    made,         \* server tokens created for each job
    acked,        \* tokens whose upload a job counted as succeeded
    known         \* tokens whose delete token the client was ever told

engineVars == <<jobs, inFlight, mem, recording, running, interrupted>>
netVars == <<req, late>>
fileVars == <<disk, shelf, printed>>
ghostVars == <<made, acked, known>>
vars == <<serverVars, engineVars, netVars, fileVars, version, runs, ghostVars>>

Store == INSTANCE SessionStore

-----------------------------------------------------------------------------
(***************************************************************************)
(* The values.                                                             *)
(***************************************************************************)
JobState == RequestKind \cup
            {"start", "initBackoff", "chunkBackoff", "controlBackoff",
             "done", "failed"}

JobRecord ==
    [state : JobState, token : Token \cup {NoToken}, dtok : BOOLEAN,
     stamp : Version, sent : SUBSET Chunk, chunk : Chunk,
     attempt : 0 .. MaxRetries, initRetries : 0 .. 1,
     reconcile : 0 .. MaxReconcile, completes : 0 .. 2,
     retry : RequestKind, resume : BOOLEAN]

Answer == {"none", "ok", "bad", "404", "409"} \cup ErrorAnswer

Request ==
    [kind : RequestKind \cup {"none"}, job : Job, tok : Token \cup {NoToken},
     chunk : Chunk, version : Version, answer : Answer, got : SUBSET Chunk]

Session ==
    [file : File, stamp : Version, sent : SUBSET Chunk, dtok : BOOLEAN,
     old : BOOLEAN]

Table == [Token -> Session \cup {NoSession}]

NoRow == [tok |-> NoToken, dtok |-> FALSE]

Row == [tok : Token, dtok : BOOLEAN] \cup {NoRow}

ASSUME NoSessionAssumption == NoSession \notin Session

TypeOK ==
    /\ ServerTypeOK
    /\ jobs \in [Job -> JobRecord]
    /\ inFlight \in Nat
    /\ mem \in Table
    /\ recording \in Row
    /\ running \in BOOLEAN /\ interrupted \in BOOLEAN
    /\ req \in [Job -> Request]
    /\ late \subseteq Request
    /\ disk \in Table
    /\ shelf \in [Token -> {"absent", "bare", "keyed"}]
    /\ printed \subseteq Token
    /\ version \in [File -> Version]
    /\ runs \in 0 .. MaxRuns
    /\ made \in [Job -> Nat]
    /\ acked \subseteq Token /\ known \subseteq Token

NoRequest(j) ==
    [kind |-> "none", job |-> j, tok |-> NoToken, chunk |-> 0,
     version |-> 1, answer |-> "none", got |-> {}]

\* zb_upload_engine_add: a queued job remembers the file's size and mtime.
QueuedJob(j, state, resume) ==
    [state |-> state, token |-> NoToken, dtok |-> FALSE,
     stamp |-> version[source[j]], sent |-> {}, chunk |-> 0, attempt |-> 0,
     initRetries |-> 0, reconcile |-> 0, completes |-> 0, retry |-> "status",
     resume |-> resume]

Init ==
    /\ ServerInit
    /\ version = [f \in File |-> 1]
    /\ jobs = [j \in Job |-> QueuedJob(j, "failed", FALSE)]
    /\ inFlight = 0
    /\ mem = Store!NoSessions
    /\ recording = NoRow
    /\ running = FALSE /\ interrupted = FALSE
    /\ req = [j \in Job |-> NoRequest(j)]
    /\ late = {}
    /\ disk = Store!NoSessions
    /\ shelf = [t \in Token |-> "absent"]
    /\ printed = {}
    /\ runs = 0
    /\ made = [j \in Job |-> 0]
    /\ acked = {} /\ known = {}

-----------------------------------------------------------------------------
(***************************************************************************)
(* Helpers.                                                                *)
(***************************************************************************)
Active(job) == job.state \notin {"done", "failed"}

Busy(j) == req[j].kind # "none"

\* The loop body runs between callbacks, in a live process.
LoopReady == running /\ recording = NoRow

\* job_next_missing: the lowest chunk not confirmed, if any.
NextMissing(sent) ==
    {c \in Chunk : c \notin sent /\ \A d \in 0 .. c - 1 : d \in sent}

\* job_release_transfer: the in-flight count after j's handle is let go.
Released(j) == IF Busy(j) /\ inFlight > 0 THEN inFlight - 1 ELSE inFlight

\* zb_sessions_save: an atomic rewrite whose failure is ignored.
SaveSessions ==
    \/ disk' = mem'
    \/ "disk" \in Faults /\ disk' = disk

\* Mutant: the file is stat-ed again when the session is written.
PersistRestat(j, job) ==
    /\ mem' = Store!Put(mem, job.token,
                        Store!SessionOf(source[j], version[source[j]],
                                        job.sent, job.dtok))
    /\ SaveSessions

\* engine_persist_session
PersistSession(j, job) ==
    /\ mem' = Store!Put(mem, job.token,
                        Store!SessionOf(source[j], job.stamp, job.sent,
                                        job.dtok))
    /\ SaveSessions

\* engine_drop_session
DropSession(t) ==
    IF t # NoToken /\ mem[t] # NoSession
    THEN mem' = Store!Remove(mem, t) /\ SaveSessions
    ELSE UNCHANGED <<mem, disk>>

KeepSessions == UNCHANGED <<mem, disk>>

\* The job rests in its state without a transfer.
Settle(j, job) ==
    /\ jobs' = [jobs EXCEPT ![j] = job]
    /\ req' = [req EXCEPT ![j] = NoRequest(j)]
    /\ inFlight' = Released(j)

\* job_fail
Fail(j, job) == Settle(j, [job EXCEPT !.state = "failed"])

\* job_start_* over job_begin_request: the handle joins the multi handle.  A
\* request that cannot be built or scheduled fails the job instead.
Start(j, job, kind) ==
    \/ /\ jobs' = [jobs EXCEPT ![j] = [job EXCEPT !.state = kind]]
       /\ req' = [req EXCEPT ![j] =
              [NoRequest(j) EXCEPT
                  !.kind = kind, !.tok = job.token,
                  !.chunk = IF kind = "chunk" THEN job.chunk ELSE 0,
                  !.version = IF kind \in {"chunk", "sharex"}
                              THEN version[source[j]] ELSE 1]]
       /\ inFlight' = Released(j) + 1
    \/ "start" \in Faults /\ Fail(j, job)

\* Mutant: the attempt is not counted.
StartUncounted(j, job) == Start(j, job, "complete")

\* job_start_complete also counts the attempt (2 stands for "more than one").
StartComplete(j, job) ==
    Start(j, [job EXCEPT !.completes = IF @ < 2 THEN @ + 1 ELSE 2],
          "complete")

\* Mutant: a chunk is marked when it is sent, not when it is confirmed.
NextMarked(j, job) ==
    \/ \E c \in NextMissing(job.sent) :
          Start(j, [job EXCEPT !.chunk = c, !.sent = @ \cup {c}], "chunk")
    \/ NextMissing(job.sent) = {} /\ StartComplete(j, job)

\* The tail of job_advance: the next gap, or completion.
NextRequest(j, job) ==
    \/ \E c \in NextMissing(job.sent) :
          Start(j, [job EXCEPT !.chunk = c], "chunk")
    \/ NextMissing(job.sent) = {} /\ StartComplete(j, job)

\* What a step of the event loop leaves to others.
LoopFrame ==
    UNCHANGED <<serverVars, running, interrupted, shelf, printed, version,
                runs, made>>

-----------------------------------------------------------------------------
(***************************************************************************)
(* The life of a process.                                                  *)
(***************************************************************************)

\* A run begins: sessions.json is read and pruned, every file is queued, and
\* each file with an unfinished session is settled to resume or start over
\* (--resume, --no-resume or the answer to the prompt).
StartRun ==
    /\ ~running /\ runs < MaxRuns
    /\ mem' = Store!PruneStale(disk)
    /\ SaveSessions
    /\ \E resume \in [Job -> BOOLEAN] :
          /\ \A j \in Job : resume[j] =>
                Store!FindSource(mem', source[j], version[source[j]]) # {}
          /\ jobs' = [j \in Job |-> QueuedJob(j, "start", resume[j])]
    /\ running' = TRUE /\ interrupted' = FALSE /\ runs' = runs + 1
    /\ UNCHANGED <<serverVars, netVars, inFlight, recording, shelf, printed,
                   version, ghostVars>>

\* zb_upload_engine_run returns once no job is active.
Exit ==
    /\ LoopReady
    /\ \A j \in Job : ~Active(jobs[j])
    /\ running' = FALSE /\ mem' = Store!NoSessions
    /\ UNCHANGED <<serverVars, jobs, inFlight, recording, interrupted, netVars,
                   fileVars, version, runs, ghostVars>>

\* SIGINT or SIGTERM only raises the flag.
Interrupt ==
    /\ "interrupt" \in Faults
    /\ running /\ ~interrupted
    /\ interrupted' = TRUE
    /\ UNCHANGED <<serverVars, jobs, inFlight, mem, recording, running,
                   netVars, fileVars, version, runs, ghostVars>>

\* A request abandoned before the server saw it may still arrive; the ones
\* that change nothing on the server are not worth following.
Abandoned(js) ==
    {req[j] : j \in {i \in js : /\ req[i].answer = "none"
                                /\ req[i].kind \notin
                                       {"none", "status", "verify"}}}

\* engine_abort, at the top of the loop after a signal or when libcurl gives
\* up: everything active is released and counted as cancelled, and the run
\* is over.
Abort ==
    /\ LoopReady
    /\ interrupted \/ "loop" \in Faults
    /\ LET active == {j \in Job : Active(jobs[j])} IN
       /\ jobs' = [j \in Job |-> IF j \in active
                                 THEN [jobs[j] EXCEPT !.state = "failed"]
                                 ELSE jobs[j]]
       /\ req' = [j \in Job |-> IF j \in active THEN NoRequest(j) ELSE req[j]]
       /\ inFlight' = inFlight - Cardinality({j \in active : Busy(j)})
       /\ late' = late \cup Abandoned(active)
    /\ running' = FALSE /\ mem' = Store!NoSessions
    /\ UNCHANGED <<serverVars, recording, interrupted, fileVars, version, runs,
                   ghostVars>>

\* The process dies between any two writes: only the files survive.
Crash ==
    /\ "crash" \in Faults
    /\ running
    /\ jobs' = [j \in Job |-> QueuedJob(j, "failed", FALSE)]
    /\ req' = [j \in Job |-> NoRequest(j)]
    /\ late' = late \cup Abandoned(Job)
    /\ inFlight' = 0 /\ recording' = NoRow
    /\ running' = FALSE /\ mem' = Store!NoSessions
    /\ UNCHANGED <<serverVars, interrupted, fileVars, version, runs,
                   ghostVars>>

-----------------------------------------------------------------------------
(***************************************************************************)
(* Starting requests: zb_upload_engine_run's scan and job_kick_off.        *)
(***************************************************************************)
\* Mutant: one request too many.
MayStartOneMore(j) == LoopReady /\ ~Busy(j) /\ inFlight <= Concurrency

MayStart(j) == LoopReady /\ ~Busy(j) /\ inFlight < Concurrency

Resumable(j) == IF jobs[j].resume
                THEN Store!FindSource(mem, source[j], jobs[j].stamp)
                ELSE {}

KickOff(j) ==
    /\ MayStart(j) /\ jobs[j].state = "start"
    /\ \/ \E t \in Resumable(j) :
             Start(j, [jobs[j] EXCEPT !.token = t, !.dtok = mem[t].dtok,
                                      !.sent = mem[t].sent], "status")
       \/ /\ Resumable(j) = {}
          /\ Start(j, jobs[j], IF j \in SingleShot THEN "sharex" ELSE "init")
    /\ KeepSessions
    /\ LoopFrame /\ UNCHANGED <<late, recording, acked, known>>

\* Mutant: every wake-up is granted a fresh retry budget.
WakeUpAfresh(j) ==
    /\ MayStart(j)
    /\ LET job == [jobs[j] EXCEPT !.attempt = 0] IN
       \/ job.state = "initBackoff" /\ Start(j, job, "init")
       \/ job.state = "chunkBackoff" /\ Start(j, job, "chunk")
       \/ /\ job.state = "controlBackoff"
          /\ IF job.retry \in {"status", "verify"}
             THEN Start(j, job, job.retry)
             ELSE StartComplete(j, job)
    /\ KeepSessions
    /\ LoopFrame /\ UNCHANGED <<late, recording, acked, known>>

\* The timer of a backoff ran out.
WakeUp(j) ==
    /\ MayStart(j)
    /\ \/ jobs[j].state = "initBackoff" /\ Start(j, jobs[j], "init")
       \/ jobs[j].state = "chunkBackoff" /\ Start(j, jobs[j], "chunk")
       \/ /\ jobs[j].state = "controlBackoff"
          /\ IF jobs[j].retry \in {"status", "verify"}
             THEN Start(j, jobs[j], jobs[j].retry)
             ELSE StartComplete(j, jobs[j])
    /\ KeepSessions
    /\ LoopFrame /\ UNCHANGED <<late, recording, acked, known>>

-----------------------------------------------------------------------------
(***************************************************************************)
(* job_advance: a transfer of job j ended.                                 *)
(***************************************************************************)

\* libcurl delivers j's answer while j waits in state `kind`.
Answered(j, kind, answers) ==
    /\ LoopReady
    /\ jobs[j].state = kind /\ req[j].kind = kind
    /\ req[j].answer \in answers

\* The requests that are safe to repeat after a network error.
Repeatable == {"chunk", "status", "complete", "verify"}

\* Mutant: the retry budget is off by one.
NetworkErrorOneMore(j) ==
    /\ "network" \in Faults
    /\ LoopReady /\ Busy(j)
    /\ LET job == jobs[j] IN
       IF job.state \in Repeatable /\ job.attempt <= MaxRetries
       THEN Settle(j, [job EXCEPT
                !.attempt = @ + 1, !.retry = job.state,
                !.state = IF job.state = "chunk" THEN "chunkBackoff"
                          ELSE "controlBackoff"])
       ELSE Fail(j, job)
    /\ late' = late \cup Abandoned({j})
    /\ KeepSessions
    /\ LoopFrame /\ UNCHANGED <<recording, acked, known>>

\* Mutant: an init whose answer was lost is sent again.
NetworkErrorReinit(j) ==
    /\ "network" \in Faults
    /\ LoopReady /\ Busy(j)
    /\ LET job == jobs[j] IN
       IF job.state \in Repeatable \cup {"init"} /\ job.attempt < MaxRetries
       THEN Settle(j, [job EXCEPT
                !.attempt = @ + 1,
                !.retry = job.state,
                !.state = CASE job.state = "chunk" -> "chunkBackoff"
                            [] job.state = "init" -> "initBackoff"
                            [] OTHER -> "controlBackoff"])
       ELSE Fail(j, job)
    /\ late' = late \cup Abandoned({j})
    /\ KeepSessions
    /\ LoopFrame /\ UNCHANGED <<recording, acked, known>>

\* The transfer failed: the client does not learn whether the server saw it.
NetworkError(j) ==
    /\ "network" \in Faults
    /\ LoopReady /\ Busy(j)
    /\ LET job == jobs[j] IN
       IF job.state \in Repeatable /\ job.attempt < MaxRetries
       THEN Settle(j, [job EXCEPT
                !.attempt = @ + 1, !.retry = job.state,
                !.state = IF job.state = "chunk" THEN "chunkBackoff"
                          ELSE "controlBackoff"])
       ELSE Fail(j, job)
    /\ late' = late \cup Abandoned({j})
    /\ KeepSessions
    /\ LoopFrame /\ UNCHANGED <<recording, acked, known>>

\* The progress callback aborts a transfer once the signal flag is up.
CancelTransfer(j) ==
    /\ LoopReady /\ interrupted /\ Busy(j)
    /\ Fail(j, jobs[j])
    /\ late' = late \cup Abandoned({j})
    /\ KeepSessions
    /\ LoopFrame /\ UNCHANGED <<recording, acked, known>>

\* init or sharex was refused: one 503 is waited out, anything else is final.
\* After the wait the job goes through init, even if it was a sharex.
CapacityRefused(j) ==
    /\ \E kind \in {"init", "sharex"} : Answered(j, kind, ErrorAnswer)
    /\ IF req[j].answer = "503" /\ jobs[j].initRetries = 0
       THEN Settle(j, [jobs[j] EXCEPT !.state = "initBackoff",
                                      !.initRetries = 1])
       ELSE Fail(j, jobs[j])
    /\ KeepSessions
    /\ LoopFrame /\ UNCHANGED <<late, recording, acked, known>>

\* handle_init_response: a session exists; it is saved before any chunk.
InitReply(j) ==
    /\ \/ /\ Answered(j, "init", {"ok"})
          /\ LET job == [jobs[j] EXCEPT !.token = req[j].tok, !.dtok = TRUE,
                                        !.sent = {}] IN
             PersistSession(j, job) /\ NextRequest(j, job)
          /\ known' = known \cup {req[j].tok}
       \/ /\ Answered(j, "init", {"bad"})
          /\ Fail(j, jobs[j]) /\ KeepSessions /\ UNCHANGED known
    /\ LoopFrame /\ UNCHANGED <<late, recording, acked>>

\* handle_status_response: the server's list replaces the local one.
StatusReply(j) ==
    /\ \/ /\ Answered(j, "status", {"ok"})
          /\ LET job == [jobs[j] EXCEPT !.sent = req[j].got] IN
             PersistSession(j, job) /\ NextRequest(j, job)
       \/ /\ Answered(j, "status", {"404"})
          /\ DropSession(jobs[j].token) /\ Fail(j, jobs[j])
       \/ /\ Answered(j, "status", {"bad"} \cup ErrorAnswer)
          /\ Fail(j, jobs[j]) /\ KeepSessions
    /\ LoopFrame /\ UNCHANGED <<late, recording, acked, known>>

\* Mutant: the session is written before the chunk is marked.
ChunkReplyUnmarked(j) ==
    /\ Answered(j, "chunk", {"ok", "bad"})
    /\ PersistSession(j, jobs[j])
    /\ NextRequest(j, [jobs[j] EXCEPT !.sent = @ \cup {jobs[j].chunk},
                                      !.attempt = 0])
    /\ LoopFrame /\ UNCHANGED <<late, recording, acked, known>>

\* Mutant: every refusal is taken for an expired session.
ChunkReplyDrops(j) ==
    /\ Answered(j, "chunk", {"404"} \cup ErrorAnswer)
    /\ DropSession(jobs[j].token) /\ Fail(j, jobs[j])
    /\ LoopFrame /\ UNCHANGED <<late, recording, acked, known>>

\* One chunk was stored, or refused; only a 5xx is worth another try.
ChunkReply(j) ==
    /\ \/ /\ Answered(j, "chunk", {"ok", "bad"})
          /\ LET job == [jobs[j] EXCEPT !.sent = @ \cup {jobs[j].chunk},
                                        !.attempt = 0] IN
             PersistSession(j, job) /\ NextRequest(j, job)
       \/ /\ Answered(j, "chunk", {"404"})
          /\ DropSession(jobs[j].token) /\ Fail(j, jobs[j])
       \/ /\ Answered(j, "chunk", ErrorAnswer)
          /\ IF req[j].answer # "4xx" /\ jobs[j].attempt < MaxRetries
             THEN Settle(j, [jobs[j] EXCEPT !.attempt = @ + 1,
                                            !.state = "chunkBackoff"])
             ELSE Fail(j, jobs[j])
          /\ KeepSessions
    /\ LoopFrame /\ UNCHANGED <<late, recording, acked, known>>

\* job_succeed up to the callback: the session goes first.  A result without
\* a token (an unusable body) leaves the callback nothing to record.
Succeed(j, dtok) ==
    /\ Settle(j, [jobs[j] EXCEPT !.state = "done"])
    /\ DropSession(jobs[j].token)
    /\ recording' = IF req[j].answer = "ok"
                    THEN [tok |-> req[j].tok, dtok |-> dtok] ELSE NoRow
    /\ acked' = acked \cup {req[j].tok}
    /\ known' = IF req[j].answer = "ok" THEN known \cup {req[j].tok} ELSE known

\* sharex and complete answer with the whole result, delete token included.
SharexReply(j) ==
    /\ Answered(j, "sharex", {"ok", "bad"})
    /\ Succeed(j, TRUE)
    /\ LoopFrame /\ UNCHANGED late

CompleteReply(j) ==
    /\ \/ Answered(j, "complete", {"ok", "bad"}) /\ Succeed(j, TRUE)
       \/ /\ Answered(j, "complete", {"409"})
          /\ jobs[j].reconcile < MaxReconcile
          /\ Start(j, [jobs[j] EXCEPT !.reconcile = @ + 1], "status")
          /\ KeepSessions /\ UNCHANGED <<recording, acked, known>>
       \/ /\ Answered(j, "complete", {"404"}) /\ jobs[j].completes > 1
          /\ Start(j, jobs[j], "verify")
          /\ KeepSessions /\ UNCHANGED <<recording, acked, known>>
       \/ /\ Answered(j, "complete", {"404"}) /\ jobs[j].completes <= 1
          /\ DropSession(jobs[j].token) /\ Fail(j, jobs[j])
          /\ UNCHANGED <<recording, acked, known>>
       \/ /\ \/ Answered(j, "complete", ErrorAnswer)
             \/ /\ Answered(j, "complete", {"409"})
                /\ jobs[j].reconcile >= MaxReconcile
          /\ Fail(j, jobs[j])
          /\ KeepSessions /\ UNCHANGED <<recording, acked, known>>
    /\ LoopFrame /\ UNCHANGED late

\* Mutant: the metadata is recorded as it came.
MetadataOnly(job) == FALSE

\* The metadata has no delete token, so the one from init is filled in.
FilledDeleteToken(job) == job.dtok

VerifyReply(j) ==
    /\ \/ /\ Answered(j, "verify", {"ok", "bad"})
          /\ Succeed(j, FilledDeleteToken(jobs[j]))
       \/ /\ Answered(j, "verify", {"404"} \cup ErrorAnswer)
          /\ DropSession(jobs[j].token) /\ Fail(j, jobs[j])
          /\ UNCHANGED <<recording, acked, known>>
    /\ LoopFrame /\ UNCHANGED late

\* on_complete, record_result, zb_shelf_record: load, upsert, save.  If the
\* shelf cannot be written the delete token is printed instead.
RecordResult ==
    /\ running /\ recording # NoRow
    /\ \/ /\ shelf' = [shelf EXCEPT ![recording.tok] =
                          IF recording.dtok THEN "keyed" ELSE "bare"]
          /\ UNCHANGED printed
       \/ /\ "disk" \in Faults
          /\ printed' = IF recording.dtok THEN printed \cup {recording.tok}
                        ELSE printed
          /\ UNCHANGED shelf
    /\ recording' = NoRow
    /\ UNCHANGED <<serverVars, jobs, inFlight, mem, running, interrupted,
                   netVars, disk, version, runs, ghostVars>>

-----------------------------------------------------------------------------
(***************************************************************************)
(* Server, network, clock and user.                                        *)
(***************************************************************************)
Count(r) == IF r.kind \in {"init", "sharex"}
            THEN made' = [made EXCEPT ![r.job] = @ + 1]
            ELSE UNCHANGED made

\* The server takes j's request, or answers with an error of its own.
ServeRequest(j) ==
    /\ Busy(j) /\ req[j].answer = "none"
    /\ \/ \E t \in Token, answer \in Answer :
             /\ Serve(req[j], t, answer)
             /\ \E seen \in {answer} \cup
                   (IF answer = "ok" /\ req[j].kind \in BadBodies
                    THEN {"bad"} ELSE {}) :
                   req' = [req EXCEPT ![j] =
                       [@ EXCEPT !.tok = t, !.answer = seen,
                                 !.got = IF req[j].kind = "status"
                                         THEN Received(t) ELSE {}]]
             /\ Count(req[j])
       \/ \E answer \in ServerErrors :
             /\ req' = [req EXCEPT ![j] = [@ EXCEPT !.answer = answer]]
             /\ UNCHANGED <<serverVars, made>>
    /\ UNCHANGED <<engineVars, late, fileVars, version, runs, acked, known>>

\* A request the client gave up on reaches the server after all.
ServeLate ==
    /\ \E r \in late, t \in Token, answer \in Answer :
          /\ Serve(r, t, answer)
          /\ late' = late \ {r}
          /\ Count(r)
    /\ UNCHANGED <<engineVars, req, fileVars, version, runs, acked, known>>

ServerForgets ==
    /\ \E t \in Token :
          \/ "expire" \in Faults /\ ExpireSession(t)
          \/ "loss" \in Faults /\ \E c \in Chunk : LoseChunk(t, c)
    /\ UNCHANGED <<engineVars, netVars, fileVars, version, runs, ghostVars>>

\* The source file is edited in place: its size or mtime changes.
EditFile(f) ==
    /\ "edit" \in Faults
    /\ version[f] < MaxVersion
    /\ version' = [version EXCEPT ![f] = @ + 1]
    /\ UNCHANGED <<serverVars, engineVars, netVars, fileVars, runs, ghostVars>>

\* More than the session TTL passes between two runs.
TimePasses ==
    /\ "age" \in Faults
    /\ ~running /\ disk # Store!Age(disk)
    /\ disk' = Store!Age(disk)
    /\ UNCHANGED <<serverVars, engineVars, netVars, shelf, printed, version,
                   runs, ghostVars>>

-----------------------------------------------------------------------------
\* One transfer of j ended and job_advance handles it.
Advance(j) ==
    \/ InitReply(j) \/ StatusReply(j) \/ ChunkReply(j) \/ CompleteReply(j)
    \/ VerifyReply(j) \/ SharexReply(j) \/ CapacityRefused(j)

Environment ==
    \/ ServeLate \/ ServerForgets \/ TimePasses
    \/ \E f \in File : EditFile(f)

Next ==
    \/ StartRun \/ Exit \/ Interrupt \/ Abort \/ Crash \/ RecordResult
    \/ \E j \in Job :
          \/ KickOff(j) \/ WakeUp(j) \/ Advance(j)
          \/ NetworkError(j) \/ CancelTransfer(j) \/ ServeRequest(j)
    \/ Environment

Spec == Init /\ [][Next]_vars

(***************************************************************************)
(* The event loop keeps turning, its timers run out, and every transfer    *)
(* ends: libcurl aborts a connect after 15 s and a stalled transfer after  *)
(* 60 s.  Nothing forces a fault, a signal or a new run.                   *)
(***************************************************************************)
Fairness ==
    /\ WF_vars(Exit) /\ WF_vars(RecordResult)
    /\ WF_vars(interrupted /\ Abort)
    /\ \A j \in Job :
          /\ WF_vars(KickOff(j)) /\ WF_vars(WakeUp(j)) /\ WF_vars(Advance(j))
          /\ WF_vars(ServeRequest(j) \/ NetworkError(j))

FairSpec == Spec /\ Fairness

-----------------------------------------------------------------------------
(***************************************************************************)
(* Properties.                                                             *)
(***************************************************************************)

\* The in_flight counter, incremented in job_begin_request and decremented in
\* job_release_transfer and engine_abort, is the number of easy handles out,
\* on every error, retry and abort path, and never exceeds the concurrency.
InFlightExact ==
    /\ inFlight = Cardinality({j \in Job : Busy(j)})
    /\ inFlight <= Concurrency

\* A chunk the client believes sent, in a job's bitmap or in sessions.json,
\* really was written to the server under that token: no lost, repeated or
\* late answer confirms a chunk that was never stored.
ConfirmedHeld ==
    /\ \A j \in Job : jobs[j].token # NoToken =>
          jobs[j].sent \subseteq Stored(jobs[j].token)
    /\ \A t \in Token : disk[t] # NoSession =>
          disk[t].sent \subseteq Stored(t)

\* A session that a new run would resume holds only bytes of the present
\* version of the file: an edit between or during runs never leads to a
\* resumed upload that mixes two versions.
ResumeUnmixed ==
    \A f \in File : \A t \in Store!FindSource(disk, f, version[f]) :
        \A c \in Stored(t) : held[t][c] = version[f]

\* While a job with a server session is under way and sessions.json can be
\* written, the file on disk records exactly the chunks confirmed so far, so
\* that a crash at any moment costs at most the chunk in flight.
ProgressSaved ==
    "disk" \notin Faults =>
        \A j \in Job : Active(jobs[j]) /\ jobs[j].token # NoToken =>
            /\ disk[jobs[j].token] # NoSession
            /\ disk[jobs[j].token].sent = jobs[j].sent

\* Within a run a session is dropped from sessions.json only when the server
\* will never take another chunk for it: no retry, error or abort path throws
\* away progress that could still be resumed.
OpenSessionKept ==
    [][\A t \in Token :
          running /\ disk[t] # NoSession /\ disk'[t] = NoSession
              => srv[t] # "open"]_vars

\* init and sharex are never repeated after a network error: whatever is
\* lost or delayed, a file costs at most one server upload per run.
NoDoubleUpload == \A j \in Job : made[j] <= runs

\* An upload the engine counted as succeeded has its delete token on the
\* shelf, or printed if the shelf could not be written, or the callback is
\* about to do so - verified uploads, whose metadata has no delete token,
\* included.
SuccessRecorded ==
    \A t \in acked :
        \/ shelf[t] = "keyed" \/ t \in printed
        \/ recording = [tok |-> t, dtok |-> TRUE]

\* The delete token of t, once the client was told it, is still somewhere:
\* on the shelf, printed, in sessions.json, or with a job at work on it.
DeleteTokenAtHand(t) ==
    \/ shelf[t] = "keyed" \/ t \in printed
    \/ recording = [tok |-> t, dtok |-> TRUE]
    \/ disk[t] # NoSession
    \/ running /\ \E j \in Job : Active(jobs[j]) /\ jobs[j].token = t

\* The delete token of a published file is never lost once it was received.
DeleteTokenKept ==
    \A t \in Token : srv[t] = "file" /\ t \in known => DeleteTokenAtHand(t)

-----------------------------------------------------------------------------
(***************************************************************************)
(* What the documentation says of the upload, as stated there.  The code   *)
(* does not keep these (README.md, findings).                              *)
(***************************************************************************)

\* api/upload.h:30-32: the callback runs the moment `complete` succeeds, so
\* that "a crash a second later must not lose the delete token": once the
\* program is gone, a counted upload is on the shelf or still a session.
CrashKeepsDeleteToken ==
    ~running => \A t \in acked :
        shelf[t] = "keyed" \/ t \in printed \/ disk[t] # NoSession

\* api/upload.c:560-562: the engine asks "for the file's metadata before
\* declaring the session expired": a session given up as expired (dropped,
\* with the job failed) is never that of an upload that went through.
ExpiredMeansUnpublished ==
    \A j \in Job :
        LET t == jobs[j].token IN
        /\ jobs[j].state = "failed" /\ t # NoToken
        /\ disk[t] = NoSession
        => srv[t] # "file"

\* README.md:138-139: "Ctrl+C during a 20 GB upload costs you the current
\* chunk and nothing more": as long as the server keeps its sessions, a
\* resumed upload is never told to start over.
InterruptKeepsProgress ==
    \A j \in Job :
        /\ jobs[j].resume /\ jobs[j].token # NoToken
        /\ jobs[j].state = "failed"
        => disk[jobs[j].token] # NoSession

\* store/sessions.h:60-61: the tokens pruned at start-up "are already gone
\* server-side".
PrunedMeansGone ==
    [][\A t \in Token :
          ~running /\ disk[t] # NoSession /\ disk'[t] = NoSession
              => srv[t] # "file"]_vars

-----------------------------------------------------------------------------
(***************************************************************************)
(* Liveness.                                                               *)
(***************************************************************************)

\* Every run comes to an end, whatever the network and the server do: the
\* retry, reconcile and capacity budgets bound each other.
Terminates == running ~> ~running
=============================================================================
