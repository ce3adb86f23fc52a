------------------------- MODULE UploadEngineProofs -------------------------
(***************************************************************************)
(* Theorems about UploadEngine, for every value of its constants.  In this *)
(* order: types and slot count (LoopInv); the truth of every bitmap        *)
(* (HeldInv); no file is uploaded twice in a run (OnceInv); what one step  *)
(* of the loop does, summed up (Effect); a resumed session is of one       *)
(* version (SessionInv); an open one is never thrown away (OpenInv); a     *)
(* success leaves its delete token (KeyInv); what was confirmed is on disk *)
(* (SavedInv); and in an undisturbed run no published file's delete token  *)
(* is lost (TokenInv).                                                     *)
(***************************************************************************)
EXTENDS UploadEngine, TLAPS, FiniteSetTheorems, NaturalsInduction, WellFoundedInduction

(***************************************************************************)
(* TypeOK and InFlightExact are proved together, for engine_abort only     *)
(* keeps in_flight a natural number because it counts the handles out.     *)
(* What makes them inductive: an answer that carries a token carries a     *)
(* real one, a job with a handle out is in the state of that request, and  *)
(* no handle outlives the process.                                         *)
(***************************************************************************)
ReplyNamed ==
    \A j \in Job : req[j].answer \in {"ok", "bad"} => req[j].tok \in Token

BusyKind == \A j \in Job : Busy(j) => req[j].kind = jobs[j].state

IdleQuiet == ~running => \A j \in Job : ~Busy(j)

LoopInv == TypeOK /\ ReplyNamed /\ BusyKind /\ IdleQuiet /\ InFlightExact

BusyJobs == {j \in Job : Busy(j)}

-----------------------------------------------------------------------------
(***************************************************************************)
(* The values the helpers build.                                           *)
(***************************************************************************)
LEMMA Bounds == 0 \in Chunk /\ 1 \in Version /\ NoToken \notin Token
  BY NumChunksAssumption, MaxVersionAssumption, NoTokenAssumption
     DEF Chunk, Version

\* An idle handle is a well-formed request.
LEMMA NoRequestType == \A j \in Job : NoRequest(j) \in Request
  BY Bounds DEF NoRequest, Request, Answer

\* zb_upload_engine_add and Crash build well-formed jobs.
LEMMA QueuedJobType ==
  ASSUME version \in [File -> Version],
         NEW j \in Job, NEW state \in JobState, NEW resume \in BOOLEAN
  PROVE  QueuedJob(j, state, resume) \in JobRecord
  <1>1. version[source[j]] \in Version
    BY SourceAssumption
  <1> QED
    BY <1>1, Bounds, LimitsAssumption
       DEF QueuedJob, JobRecord, RequestKind

\* The state of a request is a state of a job.
LEMMA KindIsState == RequestKind \subseteq JobState /\ "none" \notin RequestKind
  BY DEF JobState, RequestKind

\* There are finitely many handles to count.
LEMMA BusyJobsFinite == IsFiniteSet(BusyJobs)
  BY JobAssumption, FS_Subset DEF BusyJobs

-----------------------------------------------------------------------------
(***************************************************************************)
(* Lemmas on the two ways a loop step leaves a job: with a request out     *)
(* (Start) or at rest (Settle).                                            *)
(***************************************************************************)
JobsTyped ==
    jobs \in [Job -> JobRecord] /\ req \in [Job -> Request] /\ inFlight \in Nat

TransfersInv == JobsTyped /\ ReplyNamed /\ BusyKind /\ InFlightExact

\* job_release_transfer: the count without j's handle.
LEMMA ReleasedExact ==
  ASSUME TransfersInv, NEW j \in Job
  PROVE  /\ Released(j) = Cardinality(BusyJobs \ {j})
         /\ Released(j) \in Nat /\ Released(j) <= Concurrency
         /\ Busy(j) => Released(j) + 1 <= Concurrency
  <1>1. IsFiniteSet(BusyJobs) /\ inFlight = Cardinality(BusyJobs)
    BY BusyJobsFinite DEF TransfersInv, InFlightExact, BusyJobs
  <1>2. CASE Busy(j)
    <2>1. j \in BusyJobs
      BY <1>2 DEF BusyJobs
    <2>2. Cardinality(BusyJobs \ {j}) = Cardinality(BusyJobs) - 1
      BY <1>1, <2>1, FS_RemoveElement
    <2>3. Cardinality(BusyJobs \ {j}) \in Nat
      BY <1>1, FS_CardinalityType, FS_Difference
    <2> QED
      BY <1>1, <1>2, <2>2, <2>3, ConcurrencyAssumption
         DEF Released, TransfersInv, InFlightExact, JobsTyped
  <1>3. CASE ~Busy(j)
    <2>1. BusyJobs \ {j} = BusyJobs
      BY <1>3 DEF BusyJobs
    <2> QED
      BY <1>1, <1>3, <2>1 DEF Released, TransfersInv, InFlightExact, JobsTyped
  <1> QED
    BY <1>2, <1>3

\* A job put to rest gives its slot back and the count stays exact.
LEMMA SettleKeeps ==
  ASSUME TransfersInv, NEW j \in Job, NEW job \in JobRecord, Settle(j, job)
  PROVE  TransfersInv'
  <1>1. JobsTyped'
    BY NoRequestType, ReleasedExact DEF Settle, JobsTyped, TransfersInv
  <1>2. ReplyNamed'
    BY DEF Settle, ReplyNamed, TransfersInv, JobsTyped, NoRequest
  <1>3. BusyKind'
    BY DEF Settle, BusyKind, Busy, TransfersInv, JobsTyped, NoRequest
  <1>4. InFlightExact'
    <2>1. {i \in Job : Busy(i)}' = BusyJobs \ {j}
      BY DEF Settle, BusyJobs, Busy, TransfersInv, JobsTyped, NoRequest
    <2> QED
      BY <2>1, ReleasedExact DEF Settle, InFlightExact
  <1> QED
    BY <1>1, <1>2, <1>3, <1>4 DEF TransfersInv

\* job_fail is a job put to rest.
LEMMA FailKeeps ==
  ASSUME TransfersInv, NEW j \in Job, NEW job \in JobRecord, Fail(j, job)
  PROVE  TransfersInv'
  <1>1. [job EXCEPT !.state = "failed"] \in JobRecord
    BY DEF JobRecord, JobState
  <1> QED
    BY <1>1, SettleKeeps DEF Fail

\* A request may be started by a job that holds a slot or while one is free.
LEMMA StartKeeps ==
  ASSUME TransfersInv, NEW j \in Job, NEW job \in JobRecord,
         NEW kind \in RequestKind, version \in [File -> Version],
         Busy(j) \/ inFlight < Concurrency, Start(j, job, kind)
  PROVE  TransfersInv'
  <1>1. CASE "start" \in Faults /\ Fail(j, job)
    BY <1>1, FailKeeps
  <1>2. CASE ~("start" \in Faults /\ Fail(j, job))
    <2> DEFINE started == [job EXCEPT !.state = kind]
               sent == [NoRequest(j) EXCEPT
                           !.kind = kind, !.tok = job.token,
                           !.chunk = IF kind = "chunk" THEN job.chunk ELSE 0,
                           !.version = IF kind \in {"chunk", "sharex"}
                                       THEN version[source[j]] ELSE 1]
    <2>1. /\ jobs' = [jobs EXCEPT ![j] = started]
          /\ req' = [req EXCEPT ![j] = sent]
          /\ inFlight' = Released(j) + 1
      BY <1>2 DEF Start
    <2>2. started \in JobRecord /\ started.state = kind
      BY KindIsState DEF JobRecord
    <2>3. version[source[j]] \in Version
      BY SourceAssumption
    <2>4. sent \in Request /\ sent.kind = kind /\ sent.answer = "none"
      BY <2>3, Bounds DEF JobRecord, NoRequest, Request, Answer
    <2> HIDE DEF started, sent
    <2>5. JobsTyped'
      <3>1. Released(j) \in Nat
        BY ReleasedExact
      <3>2. Released(j) + 1 \in Nat
        BY <3>1
      <3> QED
        BY <2>1, <2>2, <2>4, <3>2 DEF JobsTyped, TransfersInv
    <2>6. ReplyNamed'
      BY <2>1, <2>4 DEF ReplyNamed, TransfersInv, JobsTyped
    <2>7. BusyKind'
      BY <2>1, <2>2, <2>4 DEF BusyKind, Busy, TransfersInv, JobsTyped
    <2>8. InFlightExact'
      <3>1. {i \in Job : Busy(i)}' = (BusyJobs \ {j}) \cup {j}
        BY <2>1, <2>4, KindIsState
           DEF BusyJobs, Busy, TransfersInv, JobsTyped
      <3>2. IsFiniteSet(BusyJobs \ {j})
        BY BusyJobsFinite, FS_Difference
      <3>3. Cardinality((BusyJobs \ {j}) \cup {j})
              = Cardinality(BusyJobs \ {j}) + 1
        BY <3>2, FS_AddElement
      <3>4. Released(j) + 1 <= Concurrency
        <4>1. CASE Busy(j)
          BY <4>1, ReleasedExact
        <4>2. CASE ~Busy(j) /\ inFlight < Concurrency
          BY <4>2, ConcurrencyAssumption
             DEF Released, TransfersInv, JobsTyped
        <4> QED
          BY <4>1, <4>2
      <3> QED
        BY <2>1, <3>1, <3>3, <3>4, ReleasedExact DEF InFlightExact
    <2> QED
      BY <2>5, <2>6, <2>7, <2>8 DEF TransfersInv
  <1> QED
    BY <1>1, <1>2

\* job_start_complete counts the attempt and starts a request.
LEMMA StartCompleteKeeps ==
  ASSUME TransfersInv, NEW j \in Job, NEW job \in JobRecord,
         version \in [File -> Version],
         Busy(j) \/ inFlight < Concurrency, StartComplete(j, job)
  PROVE  TransfersInv'
  <1>1. [job EXCEPT !.completes = IF @ < 2 THEN @ + 1 ELSE 2] \in JobRecord
    BY DEF JobRecord
  <1>2. "complete" \in RequestKind
    BY DEF RequestKind
  <1> QED
    BY <1>1, <1>2, StartKeeps DEF StartComplete

\* The tail of job_advance starts at most one request.
LEMMA NextRequestKeeps ==
  ASSUME TransfersInv, NEW j \in Job, NEW job \in JobRecord,
         version \in [File -> Version], Busy(j), NextRequest(j, job)
  PROVE  TransfersInv'
  <1>1. CASE StartComplete(j, job)
    BY <1>1, StartCompleteKeeps
  <1>2. ASSUME NEW c \in NextMissing(job.sent),
               Start(j, [job EXCEPT !.chunk = c], "chunk")
        PROVE  TransfersInv'
    <2>1. [job EXCEPT !.chunk = c] \in JobRecord
      BY DEF JobRecord, NextMissing
    <2>2. "chunk" \in RequestKind
      BY DEF RequestKind
    <2> QED
      BY <1>2, <2>1, <2>2, StartKeeps
  <1> QED
    BY <1>1, <1>2 DEF NextRequest

-----------------------------------------------------------------------------
(***************************************************************************)
(* The rest of the state, and what the engine does to sessions.json.       *)
(***************************************************************************)
FilesTyped == mem \in Table /\ disk \in Table

RestTyped ==
    /\ ServerTypeOK /\ FilesTyped
    /\ recording \in Row
    /\ running \in BOOLEAN /\ interrupted \in BOOLEAN
    /\ late \subseteq Request
    /\ shelf \in [Token -> {"absent", "bare", "keyed"}]
    /\ printed \subseteq Token
    /\ version \in [File -> Version]
    /\ runs \in 0 .. MaxRuns
    /\ made \in [Job -> Nat]
    /\ acked \subseteq Token /\ known \subseteq Token

\* LoopInv splits into what transfers touch and the rest.
LEMMA LoopInvParts == LoopInv <=> TransfersInv /\ RestTyped /\ IdleQuiet
  BY DEF LoopInv, TypeOK, TransfersInv, JobsTyped, RestTyped, FilesTyped

\* The same decomposition, one step later.
LEMMA LoopInvNext == TransfersInv' /\ RestTyped' /\ IdleQuiet' => LoopInv'
  BY DEF LoopInv, TypeOK, TransfersInv, JobsTyped, RestTyped, FilesTyped

\* engine_persist_session leaves well-formed tables.
LEMMA PersistTyped ==
  ASSUME FilesTyped, NEW j \in Job, NEW job \in JobRecord,
         PersistSession(j, job)
  PROVE  FilesTyped'
  <1> DEFINE session == Store!SessionOf(source[j], job.stamp, job.sent, job.dtok)
  <1>1. session \in Session
    BY SourceAssumption DEF Store!SessionOf, Session, JobRecord
  <1> HIDE DEF session
  <1>2. mem' = [mem EXCEPT ![job.token] = session]
    BY DEF PersistSession, Store!Put, session
  <1>3. mem' \in Table
    BY <1>1, <1>2 DEF FilesTyped, Table
  <1> QED
    BY <1>3 DEF PersistSession, SaveSessions, FilesTyped

\* engine_drop_session leaves well-formed tables.
LEMMA DropTyped ==
  ASSUME FilesTyped, NEW t, DropSession(t)
  PROVE  FilesTyped'
  BY DEF DropSession, SaveSessions, FilesTyped, Table, Store!Remove

\* A step that saves nothing leaves the tables as they are.
LEMMA KeepTyped ==
  ASSUME FilesTyped, KeepSessions
  PROVE  FilesTyped'
  BY DEF KeepSessions, FilesTyped

\* A loop step leaves the server and the shelf well typed.
LEMMA FrameTyped ==
  ASSUME RestTyped, LoopFrame, FilesTyped', late' \subseteq Request,
         recording' \in Row, acked' \subseteq Token, known' \subseteq Token
  PROVE  RestTyped'
  BY DEF RestTyped, LoopFrame, ServerTypeOK, serverVars

\* A loop step does not end the process.
LEMMA FrameIdle ==
  ASSUME running, LoopFrame
  PROVE  IdleQuiet'
  BY DEF LoopFrame, IdleQuiet

\* What is left to arrive late are requests once made.
LEMMA AbandonedTyped ==
  ASSUME TransfersInv, NEW js \in SUBSET Job
  PROVE  Abandoned(js) \subseteq Request
  BY DEF Abandoned, TransfersInv, JobsTyped

-----------------------------------------------------------------------------
(***************************************************************************)
(* Every action keeps LoopInv.                                             *)
(***************************************************************************)
LEMMA KickOffKeeps ==
  ASSUME LoopInv, NEW j \in Job, KickOff(j)
  PROVE  LoopInv'
  <1>1. TransfersInv /\ RestTyped /\ version \in [File -> Version]
    BY LoopInvParts DEF RestTyped
  <1>2. inFlight < Concurrency /\ running
    BY DEF KickOff, MayStart, LoopReady
  <1>3. TransfersInv'
    <2>1. ASSUME NEW t \in Resumable(j),
                 Start(j, [jobs[j] EXCEPT !.token = t, !.dtok = mem[t].dtok,
                                          !.sent = mem[t].sent], "status")
          PROVE  TransfersInv'
      <3>1. t \in Token /\ mem[t] \in Session
        BY <1>1 DEF Resumable, Store!FindSource, Store!SessionTokens,
                    RestTyped, FilesTyped, Table
      <3>2. [jobs[j] EXCEPT !.token = t, !.dtok = mem[t].dtok,
                            !.sent = mem[t].sent] \in JobRecord
        <4>1. jobs[j] \in JobRecord
          BY <1>1 DEF TransfersInv, JobsTyped
        <4>2. mem[t].dtok \in BOOLEAN /\ mem[t].sent \in SUBSET Chunk
          BY <3>1 DEF Session
        <4> QED
          BY <3>1, <4>1, <4>2 DEF JobRecord
      <3>3. "status" \in RequestKind
        BY DEF RequestKind
      <3> QED
        BY <1>1, <1>2, <2>1, <3>2, <3>3, StartKeeps
    <2>2. ASSUME Start(j, jobs[j], IF j \in SingleShot THEN "sharex" ELSE "init")
          PROVE  TransfersInv'
      <3>1. jobs[j] \in JobRecord
        BY <1>1 DEF TransfersInv, JobsTyped
      <3>2. (IF j \in SingleShot THEN "sharex" ELSE "init") \in RequestKind
        BY DEF RequestKind
      <3> QED
        BY <1>1, <1>2, <2>2, <3>1, <3>2, StartKeeps
    <2> QED
      BY <2>1, <2>2 DEF KickOff
  <1>4. FilesTyped'
    BY <1>1, KeepTyped DEF KickOff, RestTyped
  <1>5. RestTyped'
    BY <1>1, <1>4, FrameTyped DEF KickOff, RestTyped
  <1>6. IdleQuiet'
    BY <1>2, FrameIdle DEF KickOff
  <1> QED
    BY <1>3, <1>5, <1>6, LoopInvNext

\* A backoff that ran out restarts its request in a free slot.
LEMMA WakeUpKeeps ==
  ASSUME LoopInv, NEW j \in Job, WakeUp(j)
  PROVE  LoopInv'
  <1>1. TransfersInv /\ RestTyped /\ version \in [File -> Version]
    BY LoopInvParts DEF RestTyped
  <1>2. inFlight < Concurrency /\ running
    BY DEF WakeUp, MayStart, LoopReady
  <1>3. TransfersInv'
    <2>1. jobs[j] \in JobRecord /\ jobs[j].retry \in RequestKind
      BY <1>1 DEF TransfersInv, JobsTyped, JobRecord
    <2>2. \/ StartComplete(j, jobs[j])
          \/ \E kind \in RequestKind : Start(j, jobs[j], kind)
      BY <2>1 DEF WakeUp, RequestKind
    <2> QED
      BY <1>1, <1>2, <2>1, <2>2, StartKeeps, StartCompleteKeeps
  <1>4. FilesTyped'
    BY <1>1, KeepTyped DEF WakeUp, RestTyped
  <1>5. RestTyped'
    BY <1>1, <1>4, FrameTyped DEF WakeUp, RestTyped
  <1>6. IdleQuiet'
    BY <1>2, FrameIdle DEF WakeUp
  <1> QED
    BY <1>3, <1>5, <1>6, LoopInvNext

\* A failed transfer frees its slot, whether retried or not.
LEMMA NetworkErrorKeeps ==
  ASSUME LoopInv, NEW j \in Job, NetworkError(j)
  PROVE  LoopInv'
  <1>1. TransfersInv /\ RestTyped /\ jobs[j] \in JobRecord /\ running
    BY LoopInvParts DEF TransfersInv, JobsTyped, NetworkError, LoopReady
  <1>2. TransfersInv'
    <2>1. CASE jobs[j].state \in Repeatable /\ jobs[j].attempt < MaxRetries
      <3> DEFINE job == [jobs[j] EXCEPT
                !.attempt = @ + 1, !.retry = jobs[j].state,
                !.state = IF jobs[j].state = "chunk" THEN "chunkBackoff"
                          ELSE "controlBackoff"]
      <3>1. jobs[j].attempt + 1 \in 0 .. MaxRetries
        BY <1>1, <2>1, LimitsAssumption DEF JobRecord
      <3>2. /\ jobs[j].state \in RequestKind
            /\ {"chunkBackoff", "controlBackoff"} \subseteq JobState
        BY <2>1 DEF Repeatable, RequestKind, JobState
      <3>3. job \in JobRecord
        BY <1>1, <3>1, <3>2 DEF JobRecord
      <3>4. Settle(j, job)
        BY <2>1 DEF NetworkError
      <3> HIDE DEF job
      <3> QED
        BY <1>1, <3>3, <3>4, SettleKeeps
    <2>2. CASE ~(jobs[j].state \in Repeatable /\ jobs[j].attempt < MaxRetries)
      BY <1>1, <2>2, FailKeeps DEF NetworkError
    <2> QED
      BY <2>1, <2>2
  <1>3. FilesTyped'
    BY <1>1, KeepTyped DEF NetworkError, RestTyped
  <1>4. late' \subseteq Request
    BY <1>1, AbandonedTyped DEF NetworkError, RestTyped
  <1>5. RestTyped'
    BY <1>1, <1>3, <1>4, FrameTyped DEF NetworkError, RestTyped
  <1>6. IdleQuiet'
    BY <1>1, FrameIdle DEF NetworkError
  <1> QED
    BY <1>2, <1>5, <1>6, LoopInvNext

\* A transfer cancelled by the progress callback frees its slot.
LEMMA CancelTransferKeeps ==
  ASSUME LoopInv, NEW j \in Job, CancelTransfer(j)
  PROVE  LoopInv'
  <1>1. TransfersInv /\ RestTyped /\ jobs[j] \in JobRecord /\ running
    BY LoopInvParts DEF TransfersInv, JobsTyped, CancelTransfer, LoopReady
  <1>2. TransfersInv'
    BY <1>1, FailKeeps DEF CancelTransfer
  <1>3. FilesTyped'
    BY <1>1, KeepTyped DEF CancelTransfer, RestTyped
  <1>4. late' \subseteq Request
    BY <1>1, AbandonedTyped DEF CancelTransfer, RestTyped
  <1>5. RestTyped'
    BY <1>1, <1>3, <1>4, FrameTyped DEF CancelTransfer, RestTyped
  <1>6. IdleQuiet'
    BY <1>1, FrameIdle DEF CancelTransfer
  <1> QED
    BY <1>2, <1>5, <1>6, LoopInvNext

\* What a reply handler finds: j's handle is out, with an answer.
LEMMA AnsweredFacts ==
  ASSUME LoopInv, NEW j \in Job, NEW kind \in RequestKind, NEW answers,
         Answered(j, kind, answers)
  PROVE  /\ TransfersInv /\ RestTyped /\ FilesTyped /\ running
         /\ version \in [File -> Version]
         /\ jobs[j] \in JobRecord /\ req[j] \in Request
         /\ Busy(j) /\ recording = NoRow /\ recording \in Row
         /\ req[j].kind = kind /\ req[j].answer \in answers
         /\ late \subseteq Request /\ acked \subseteq Token
         /\ known \subseteq Token
         /\ req[j].answer \in {"ok", "bad"} => req[j].tok \in Token
  <1>1. TransfersInv /\ RestTyped
    BY LoopInvParts
  <1>2. Busy(j)
    BY KindIsState DEF Answered, Busy
  <1> QED
    BY <1>1, <1>2
       DEF Answered, LoopReady, TransfersInv, JobsTyped, RestTyped, ReplyNamed

\* A refused init or sharex frees its slot, even while waiting.
LEMMA CapacityRefusedKeeps ==
  ASSUME LoopInv, NEW j \in Job, CapacityRefused(j)
  PROVE  LoopInv'
  <1>1. PICK kind \in {"init", "sharex"} : Answered(j, kind, ErrorAnswer)
    BY DEF CapacityRefused
  <1>2. kind \in RequestKind
    BY DEF RequestKind
  <1>3. TransfersInv'
    <2>1. CASE req[j].answer = "503" /\ jobs[j].initRetries = 0
      <3>1. jobs[j] \in JobRecord
        BY <1>1, <1>2, AnsweredFacts
      <3>2. "initBackoff" \in JobState /\ 1 \in 0 .. 1
        BY DEF JobState
      <3>3. [jobs[j] EXCEPT !.state = "initBackoff", !.initRetries = 1]
              \in JobRecord
        BY <3>1, <3>2 DEF JobRecord
      <3> QED
        BY <1>1, <1>2, <2>1, <3>3, AnsweredFacts, SettleKeeps
           DEF CapacityRefused
    <2>2. CASE ~(req[j].answer = "503" /\ jobs[j].initRetries = 0)
      BY <1>1, <1>2, <2>2, AnsweredFacts, FailKeeps DEF CapacityRefused
    <2> QED
      BY <2>1, <2>2
  <1>4. FilesTyped'
    BY <1>1, <1>2, AnsweredFacts, KeepTyped DEF CapacityRefused
  <1>5. RestTyped'
    BY <1>1, <1>2, <1>4, AnsweredFacts, FrameTyped DEF CapacityRefused
  <1>6. IdleQuiet'
    BY <1>1, <1>2, AnsweredFacts, FrameIdle DEF CapacityRefused
  <1> QED
    BY <1>3, <1>5, <1>6, LoopInvNext

\* handle_init_response hands the slot on to the first chunk.
LEMMA InitReplyKeeps ==
  ASSUME LoopInv, NEW j \in Job, InitReply(j)
  PROVE  LoopInv'
  <1>1. Answered(j, "init", {"ok", "bad"})
    BY DEF InitReply, Answered
  <1>2. "init" \in RequestKind
    BY DEF RequestKind
  <1>3. TransfersInv' /\ FilesTyped' /\ known' \subseteq Token
    <2>1. CASE Answered(j, "init", {"ok"}) /\ req[j].answer = "ok"
      <3> DEFINE job == [jobs[j] EXCEPT !.token = req[j].tok, !.dtok = TRUE,
                                        !.sent = {}]
      <3>1. job \in JobRecord
        <4>1. jobs[j] \in JobRecord /\ req[j].tok \in Token
          BY <1>1, <1>2, <2>1, AnsweredFacts
        <4> QED
          BY <4>1 DEF JobRecord
      <3>2. /\ PersistSession(j, job) /\ NextRequest(j, job)
            /\ known' = known \cup {req[j].tok}
        BY <2>1 DEF InitReply, Answered
      <3> HIDE DEF job
      <3>3. TransfersInv'
        BY <1>1, <1>2, <3>1, <3>2, AnsweredFacts, NextRequestKeeps
      <3>4. FilesTyped'
        BY <1>1, <1>2, <3>1, <3>2, AnsweredFacts, PersistTyped
      <3>5. known' \subseteq Token
        BY <1>1, <1>2, <3>2, AnsweredFacts
      <3> QED
        BY <3>3, <3>4, <3>5
    <2>2. CASE Fail(j, jobs[j]) /\ KeepSessions /\ UNCHANGED known
      BY <1>1, <1>2, <2>2, AnsweredFacts, FailKeeps, KeepTyped
    <2> QED
      BY <2>1, <2>2 DEF InitReply, Answered
  <1>4. RestTyped'
    BY <1>1, <1>2, <1>3, AnsweredFacts, FrameTyped DEF InitReply
  <1>5. IdleQuiet'
    BY <1>1, <1>2, AnsweredFacts, FrameIdle DEF InitReply
  <1> QED
    BY <1>3, <1>4, <1>5, LoopInvNext

\* handle_status_response hands the slot on or frees it.
LEMMA StatusReplyKeeps ==
  ASSUME LoopInv, NEW j \in Job, StatusReply(j)
  PROVE  LoopInv'
  <1>1. Answered(j, "status", Answer)
    BY DEF StatusReply, Answered, Answer
  <1>2. "status" \in RequestKind
    BY DEF RequestKind
  <1>3. TransfersInv' /\ FilesTyped'
    <2> DEFINE job == [jobs[j] EXCEPT !.sent = req[j].got]
    <2>1. CASE PersistSession(j, job) /\ NextRequest(j, job)
      <3>1. jobs[j] \in JobRecord /\ req[j] \in Request
        BY <1>1, <1>2, AnsweredFacts
      <3>2. req[j].got \in SUBSET Chunk
        BY <3>1 DEF Request
      <3>3. job \in JobRecord
        BY <3>1, <3>2 DEF JobRecord
      <3> HIDE DEF job
      <3>4. TransfersInv'
        BY <1>1, <1>2, <2>1, <3>3, AnsweredFacts, NextRequestKeeps
      <3>5. FilesTyped'
        BY <1>1, <1>2, <2>1, <3>3, AnsweredFacts, PersistTyped
      <3> QED
        BY <3>4, <3>5
    <2>2. CASE DropSession(jobs[j].token) /\ Fail(j, jobs[j])
      BY <1>1, <1>2, <2>2, AnsweredFacts, FailKeeps, DropTyped
    <2>3. CASE Fail(j, jobs[j]) /\ KeepSessions
      BY <1>1, <1>2, <2>3, AnsweredFacts, FailKeeps, KeepTyped
    <2> QED
      BY <2>1, <2>2, <2>3 DEF StatusReply
  <1>4. RestTyped'
    BY <1>1, <1>2, <1>3, AnsweredFacts, FrameTyped DEF StatusReply
  <1>5. IdleQuiet'
    BY <1>1, <1>2, AnsweredFacts, FrameIdle DEF StatusReply
  <1> QED
    BY <1>3, <1>4, <1>5, LoopInvNext

\* A chunk's answer hands the slot on, or frees it for a backoff.
LEMMA ChunkReplyKeeps ==
  ASSUME LoopInv, NEW j \in Job, ChunkReply(j)
  PROVE  LoopInv'
  <1>1. Answered(j, "chunk", Answer)
    BY DEF ChunkReply, Answered, Answer
  <1>2. "chunk" \in RequestKind
    BY DEF RequestKind
  <1>3. TransfersInv' /\ FilesTyped'
    <2> DEFINE job == [jobs[j] EXCEPT !.sent = @ \cup {jobs[j].chunk},
                                      !.attempt = 0]
               again == [jobs[j] EXCEPT !.attempt = @ + 1,
                                        !.state = "chunkBackoff"]
    <2>1. CASE PersistSession(j, job) /\ NextRequest(j, job)
      <3>1. jobs[j] \in JobRecord /\ 0 \in 0 .. MaxRetries
        BY <1>1, <1>2, AnsweredFacts, LimitsAssumption
      <3>2. jobs[j].sent \cup {jobs[j].chunk} \in SUBSET Chunk
        BY <3>1 DEF JobRecord
      <3>3. job \in JobRecord
        BY <3>1, <3>2 DEF JobRecord
      <3> HIDE DEF job
      <3>4. TransfersInv'
        BY <1>1, <1>2, <2>1, <3>3, AnsweredFacts, NextRequestKeeps
      <3>5. FilesTyped'
        BY <1>1, <1>2, <2>1, <3>3, AnsweredFacts, PersistTyped
      <3> QED
        BY <3>4, <3>5
    <2>2. CASE DropSession(jobs[j].token) /\ Fail(j, jobs[j])
      BY <1>1, <1>2, <2>2, AnsweredFacts, FailKeeps, DropTyped
    <2>3. CASE /\ jobs[j].attempt < MaxRetries /\ Settle(j, again)
               /\ KeepSessions
      <3>1. jobs[j].attempt + 1 \in 0 .. MaxRetries
        BY <1>1, <1>2, <2>3, AnsweredFacts, LimitsAssumption DEF JobRecord
      <3>2. jobs[j] \in JobRecord /\ "chunkBackoff" \in JobState
        BY <1>1, <1>2, AnsweredFacts DEF JobState
      <3>3. again \in JobRecord
        BY <3>1, <3>2 DEF JobRecord
      <3> HIDE DEF again
      <3> QED
        BY <1>1, <1>2, <2>3, <3>3, AnsweredFacts, SettleKeeps, KeepTyped
    <2>4. CASE Fail(j, jobs[j]) /\ KeepSessions
      BY <1>1, <1>2, <2>4, AnsweredFacts, FailKeeps, KeepTyped
    <2> QED
      BY <2>1, <2>2, <2>3, <2>4 DEF ChunkReply
  <1>4. RestTyped'
    BY <1>1, <1>2, <1>3, AnsweredFacts, FrameTyped DEF ChunkReply
  <1>5. IdleQuiet'
    BY <1>1, <1>2, AnsweredFacts, FrameIdle DEF ChunkReply
  <1> QED
    BY <1>3, <1>4, <1>5, LoopInvNext

\* job_succeed frees the slot and leaves the callback a row.
LEMMA SucceedKeeps ==
  ASSUME TransfersInv, FilesTyped, recording \in Row, acked \subseteq Token,
         known \subseteq Token, NEW j \in Job, NEW dtok \in BOOLEAN,
         jobs[j] \in JobRecord, req[j].tok \in Token, Succeed(j, dtok)
  PROVE  /\ TransfersInv' /\ FilesTyped' /\ recording' \in Row
         /\ acked' \subseteq Token /\ known' \subseteq Token
  <1>1. [jobs[j] EXCEPT !.state = "done"] \in JobRecord
    BY DEF JobRecord, JobState
  <1>2. TransfersInv'
    BY <1>1, SettleKeeps DEF Succeed
  <1>3. FilesTyped'
    BY DropTyped DEF Succeed
  <1>4. recording' \in Row
    BY DEF Succeed, Row, NoRow
  <1> QED
    BY <1>2, <1>3, <1>4 DEF Succeed

\* The answer to a single-request upload ends the job.
LEMMA SharexReplyKeeps ==
  ASSUME LoopInv, NEW j \in Job, SharexReply(j)
  PROVE  LoopInv'
  <1>1. Answered(j, "sharex", {"ok", "bad"}) /\ Succeed(j, TRUE)
    BY DEF SharexReply
  <1>2. "sharex" \in RequestKind
    BY DEF RequestKind
  <1>3. req[j].tok \in Token
    BY <1>1, <1>2, AnsweredFacts
  <1>4. /\ TransfersInv' /\ FilesTyped' /\ recording' \in Row
        /\ acked' \subseteq Token /\ known' \subseteq Token
    BY <1>1, <1>2, <1>3, AnsweredFacts, SucceedKeeps
  <1>5. RestTyped'
    BY <1>1, <1>2, <1>4, AnsweredFacts, FrameTyped DEF SharexReply
  <1>6. IdleQuiet'
    BY <1>1, <1>2, AnsweredFacts, FrameIdle DEF SharexReply
  <1> QED
    BY <1>4, <1>5, <1>6, LoopInvNext

\* The answer to complete ends the job, or moves it to /status or verify.
LEMMA CompleteReplyKeeps ==
  ASSUME LoopInv, NEW j \in Job, CompleteReply(j)
  PROVE  LoopInv'
  <1>1. Answered(j, "complete", Answer)
    BY DEF CompleteReply, Answered, Answer
  <1>2. {"complete", "status", "verify"} \subseteq RequestKind
    BY DEF RequestKind
  <1>3. /\ TransfersInv /\ FilesTyped /\ recording \in Row /\ Busy(j)
        /\ acked \subseteq Token /\ known \subseteq Token
        /\ jobs[j] \in JobRecord /\ version \in [File -> Version]
    BY <1>1, <1>2, AnsweredFacts
  <1>4. /\ TransfersInv' /\ FilesTyped' /\ recording' \in Row
        /\ acked' \subseteq Token /\ known' \subseteq Token
    <2> DEFINE unchanged == UNCHANGED <<recording, acked, known>>
               round == [jobs[j] EXCEPT !.reconcile = @ + 1]
    <2>1. CASE Answered(j, "complete", {"ok", "bad"}) /\ Succeed(j, TRUE)
      <3>1. req[j].tok \in Token
        BY <1>2, <2>1, AnsweredFacts
      <3> QED
        BY <1>3, <2>1, <3>1, SucceedKeeps
    <2>2. CASE /\ jobs[j].reconcile < MaxReconcile /\ Start(j, round, "status")
               /\ KeepSessions /\ unchanged
      <3>1. jobs[j].reconcile + 1 \in 0 .. MaxReconcile
        BY <1>3, <2>2, LimitsAssumption DEF JobRecord
      <3>2. round \in JobRecord
        BY <1>3, <3>1 DEF JobRecord
      <3> HIDE DEF round
      <3> QED
        BY <1>2, <1>3, <2>2, <3>2, StartKeeps, KeepTyped
    <2>3. CASE Start(j, jobs[j], "verify") /\ KeepSessions /\ unchanged
      BY <1>2, <1>3, <2>3, StartKeeps, KeepTyped
    <2>4. CASE DropSession(jobs[j].token) /\ Fail(j, jobs[j]) /\ unchanged
      BY <1>3, <2>4, FailKeeps, DropTyped
    <2>5. CASE Fail(j, jobs[j]) /\ KeepSessions /\ unchanged
      BY <1>3, <2>5, FailKeeps, KeepTyped
    <2> QED
      BY <2>1, <2>2, <2>3, <2>4, <2>5 DEF CompleteReply
  <1>5. RestTyped'
    BY <1>1, <1>2, <1>4, AnsweredFacts, FrameTyped DEF CompleteReply
  <1>6. IdleQuiet'
    BY <1>1, <1>2, AnsweredFacts, FrameIdle DEF CompleteReply
  <1> QED
    BY <1>4, <1>5, <1>6, LoopInvNext

\* The answer to the metadata request ends the job.
LEMMA VerifyReplyKeeps ==
  ASSUME LoopInv, NEW j \in Job, VerifyReply(j)
  PROVE  LoopInv'
  <1>1. Answered(j, "verify", Answer)
    BY DEF VerifyReply, Answered, Answer
  <1>2. "verify" \in RequestKind
    BY DEF RequestKind
  <1>3. /\ TransfersInv /\ FilesTyped /\ recording \in Row
        /\ acked \subseteq Token /\ known \subseteq Token
        /\ jobs[j] \in JobRecord
    BY <1>1, <1>2, AnsweredFacts
  <1>4. /\ TransfersInv' /\ FilesTyped' /\ recording' \in Row
        /\ acked' \subseteq Token /\ known' \subseteq Token
    <2>1. CASE /\ Answered(j, "verify", {"ok", "bad"})
               /\ Succeed(j, FilledDeleteToken(jobs[j]))
      <3>1. req[j].tok \in Token
        BY <1>2, <2>1, AnsweredFacts
      <3>2. FilledDeleteToken(jobs[j]) \in BOOLEAN
        BY <1>3 DEF FilledDeleteToken, JobRecord
      <3> QED
        BY <1>3, <2>1, <3>1, <3>2, SucceedKeeps
    <2>2. CASE /\ DropSession(jobs[j].token) /\ Fail(j, jobs[j])
               /\ UNCHANGED <<recording, acked, known>>
      BY <1>3, <2>2, FailKeeps, DropTyped
    <2> QED
      BY <2>1, <2>2 DEF VerifyReply
  <1>5. RestTyped'
    BY <1>1, <1>2, <1>4, AnsweredFacts, FrameTyped DEF VerifyReply
  <1>6. IdleQuiet'
    BY <1>1, <1>2, AnsweredFacts, FrameIdle DEF VerifyReply
  <1> QED
    BY <1>4, <1>5, <1>6, LoopInvNext

\* job_advance keeps LoopInv, whatever the answer.
LEMMA AdvanceKeeps ==
  ASSUME LoopInv, NEW j \in Job, Advance(j)
  PROVE  LoopInv'
  BY InitReplyKeeps, StatusReplyKeeps, ChunkReplyKeeps, CompleteReplyKeeps,
     VerifyReplyKeeps, SharexReplyKeeps, CapacityRefusedKeeps DEF Advance

-----------------------------------------------------------------------------
\* Serving a request keeps the server's state well formed.
LEMMA ServeTyped ==
  ASSUME ServerTypeOK, NEW r \in Request, NEW t \in Token, NEW answer,
         Serve(r, t, answer)
  PROVE  ServerTypeOK'
  <1>1. r.version \in 0 .. MaxVersion /\ r.chunk \in Chunk
    BY MaxVersionAssumption DEF Request, Version
  <1>2. CASE UploadInit(t, answer)
    BY <1>2 DEF UploadInit, ServerTypeOK
  <1>3. CASE ShareX(t, r.version, answer)
    BY <1>1, <1>3 DEF ShareX, ServerTypeOK
  <1>4. CASE PutChunk(t, r.chunk, r.version, answer)
    <2>1. CASE UNCHANGED serverVars
      BY <2>1 DEF ServerTypeOK, serverVars
    <2>2. CASE /\ held' = [held EXCEPT ![t][r.chunk] = r.version]
               /\ lost' = [lost EXCEPT ![t] = @ \ {r.chunk}]
               /\ UNCHANGED srv
      <3>1. [held[t] EXCEPT ![r.chunk] = r.version]
              \in [Chunk -> 0 .. MaxVersion]
        BY <1>1 DEF ServerTypeOK
      <3> QED
        BY <2>2, <3>1 DEF ServerTypeOK
    <2> QED
      BY <1>4, <2>1, <2>2 DEF PutChunk
  <1>5. CASE UploadStatus(t, answer)
    BY <1>5 DEF UploadStatus, ServerTypeOK, serverVars
  <1>6. CASE UploadComplete(t, answer)
    BY <1>6 DEF UploadComplete, ServerTypeOK, serverVars
  <1>7. CASE ServeMetadata(t, answer)
    BY <1>7 DEF ServeMetadata, ServerTypeOK, serverVars
  <1> QED
    BY <1>2, <1>3, <1>4, <1>5, <1>6, <1>7 DEF Serve

\* The count of server uploads stays a natural number.
LEMMA CountTyped ==
  ASSUME made \in [Job -> Nat], NEW r \in Request, Count(r)
  PROVE  made' \in [Job -> Nat]
  BY DEF Count, Request

\* j's request is answered with a well-formed answer.
AnswerPlaced(j) ==
    /\ ServerTypeOK' /\ made' \in [Job -> Nat]
    /\ \E r \in Request : /\ req' = [req EXCEPT ![j] = r]
                          /\ r.kind = req[j].kind
                          /\ r.answer \in {"ok", "bad"} => r.tok \in Token

\* An answer given by the server leaves every handle out.
LEMMA ServeRequestKeeps ==
  ASSUME LoopInv, NEW j \in Job, ServeRequest(j)
  PROVE  LoopInv'
  <1>1. TransfersInv /\ RestTyped /\ req[j] \in Request
    BY LoopInvParts DEF TransfersInv, JobsTyped
  <1>2. AnswerPlaced(j)
    <2>1. ASSUME NEW t \in Token, NEW answer \in Answer,
                 NEW seen \in {answer} \cup
                     (IF answer = "ok" /\ req[j].kind \in BadBodies
                      THEN {"bad"} ELSE {}),
                 Serve(req[j], t, answer), Count(req[j]),
                 req' = [req EXCEPT ![j] =
                            [@ EXCEPT !.tok = t, !.answer = seen,
                                      !.got = IF req[j].kind = "status"
                                              THEN Received(t) ELSE {}]]
          PROVE  AnswerPlaced(j)
      <3> DEFINE r == [req[j] EXCEPT !.tok = t, !.answer = seen,
                                     !.got = IF req[j].kind = "status"
                                             THEN Received(t) ELSE {}]
      <3>1. seen \in Answer /\ Received(t) \in SUBSET Chunk
        BY DEF Answer, Received, Stored
      <3>2. r \in Request /\ r.kind = req[j].kind /\ r.tok \in Token
        BY <1>1, <3>1 DEF Request
      <3>3. req' = [req EXCEPT ![j] = r]
        BY <1>1, <2>1 DEF TransfersInv, JobsTyped
      <3> HIDE DEF r
      <3>4. ServerTypeOK' /\ made' \in [Job -> Nat]
        BY <1>1, <2>1, ServeTyped, CountTyped DEF RestTyped
      <3> QED
        BY <3>2, <3>3, <3>4 DEF AnswerPlaced
    <2>2. ASSUME NEW answer \in ServerErrors,
                 req' = [req EXCEPT ![j] = [@ EXCEPT !.answer = answer]],
                 UNCHANGED <<serverVars, made>>
          PROVE  AnswerPlaced(j)
      <3> DEFINE r == [req[j] EXCEPT !.answer = answer]
      <3>1. answer \in Answer /\ answer \notin {"ok", "bad"}
        BY FaultsAssumption DEF Answer, ErrorAnswer
      <3>2. /\ r \in Request /\ r.kind = req[j].kind
            /\ r.answer \notin {"ok", "bad"}
        BY <1>1, <3>1 DEF Request
      <3>3. req' = [req EXCEPT ![j] = r]
        BY <1>1, <2>2 DEF TransfersInv, JobsTyped
      <3> HIDE DEF r
      <3>4. ServerTypeOK' /\ made' \in [Job -> Nat]
        BY <1>1, <2>2 DEF RestTyped, ServerTypeOK, serverVars
      <3> QED
        BY <3>2, <3>3, <3>4 DEF AnswerPlaced
    <2> QED
      BY <2>1, <2>2 DEF ServeRequest
  <1>3. PICK r \in Request :
            /\ req' = [req EXCEPT ![j] = r] /\ r.kind = req[j].kind
            /\ r.answer \in {"ok", "bad"} => r.tok \in Token
    BY <1>2 DEF AnswerPlaced
  <1>4. UNCHANGED <<engineVars, late, fileVars, version, runs, acked, known>>
    BY DEF ServeRequest
  <1>5. \A i \in Job : Busy(i)' = Busy(i)
    BY <1>1, <1>3 DEF Busy, TransfersInv, JobsTyped
  <1>6. JobsTyped' /\ ReplyNamed'
    BY <1>1, <1>3, <1>4 DEF JobsTyped, TransfersInv, ReplyNamed, engineVars
  <1>7. BusyKind' /\ InFlightExact'
    <2>1. BusyKind'
      BY <1>1, <1>3, <1>4 DEF BusyKind, Busy, TransfersInv, JobsTyped,
                              engineVars
    <2>2. {i \in Job : Busy(i)}' = {i \in Job : Busy(i)}
      BY <1>5
    <2> QED
      BY <1>1, <1>4, <2>1, <2>2 DEF InFlightExact, TransfersInv, engineVars
  <1>8. RestTyped'
    BY <1>1, <1>2, <1>4
       DEF AnswerPlaced, RestTyped, FilesTyped, engineVars, fileVars
  <1>9. IdleQuiet'
    BY <1>4, <1>5 DEF LoopInv, IdleQuiet, engineVars
  <1> QED
    BY <1>6, <1>7, <1>8, <1>9, LoopInvNext DEF TransfersInv

\* LoopInv holds before the first run.
LEMMA InitLoopInv == Init => LoopInv
  <1> SUFFICES ASSUME Init PROVE LoopInv
    OBVIOUS
  <1>1. version \in [File -> Version]
    BY Bounds DEF Init
  <1>2. \A j \in Job : QueuedJob(j, "failed", FALSE) \in JobRecord
    BY <1>1, QueuedJobType DEF JobState
  <1>3. JobsTyped
    BY <1>2, NoRequestType DEF Init, JobsTyped
  <1>4. \A j \in Job : ~Busy(j) /\ req[j].answer = "none"
    BY DEF Init, Busy, NoRequest
  <1>5. InFlightExact
    <2>1. {j \in Job : Busy(j)} = {}
      BY <1>4
    <2> QED
      BY <2>1, FS_EmptySet, ConcurrencyAssumption DEF Init, InFlightExact
  <1>6. RestTyped
    <2>1. ServerTypeOK
      BY MaxVersionAssumption DEF Init, ServerInit, ServerTypeOK
    <2>2. FilesTyped
      BY DEF Init, FilesTyped, Table, Store!NoSessions
    <2>3. runs \in 0 .. MaxRuns /\ recording \in Row
      BY MaxRunsAssumption DEF Init, Row
    <2> QED
      BY <1>1, <2>1, <2>2, <2>3 DEF Init, RestTyped
  <1> QED
    BY <1>3, <1>4, <1>5, <1>6, LoopInvParts
       DEF TransfersInv, ReplyNamed, BusyKind, IdleQuiet

\* A new run starts with every handle idle.
LEMMA StartRunKeeps ==
  ASSUME LoopInv, StartRun
  PROVE  LoopInv'
  <1>1. TransfersInv /\ RestTyped /\ (\A j \in Job : ~Busy(j))
    BY LoopInvParts DEF LoopInv, IdleQuiet, StartRun
  <1>2. UNCHANGED <<req, inFlight>>
    BY DEF StartRun, netVars
  <1>3. jobs' \in [Job -> JobRecord]
    <2>1. PICK resume \in [Job -> BOOLEAN] :
              jobs' = [j \in Job |-> QueuedJob(j, "start", resume[j])]
      BY DEF StartRun
    <2>2. \A j \in Job : QueuedJob(j, "start", resume[j]) \in JobRecord
      BY <1>1, QueuedJobType DEF JobState, RestTyped
    <2> QED
      BY <2>1, <2>2
  <1>4. \A j \in Job : ~Busy(j)'
    BY <1>1, <1>2 DEF Busy
  <1>5. TransfersInv'
    <2>1. {j \in Job : Busy(j)}' = {j \in Job : Busy(j)}
      BY <1>1, <1>4
    <2> QED
      BY <1>1, <1>2, <1>3, <1>4, <2>1
         DEF TransfersInv, JobsTyped, ReplyNamed, BusyKind, InFlightExact
  <1>6. FilesTyped'
    BY <1>1 DEF StartRun, SaveSessions, RestTyped, FilesTyped, Table,
                Store!PruneStale
  <1>7. runs' \in 0 .. MaxRuns
    BY <1>1, MaxRunsAssumption DEF StartRun, RestTyped
  <1>8. RestTyped'
    BY <1>1, <1>6, <1>7 DEF StartRun, RestTyped, ServerTypeOK, serverVars,
                            netVars, ghostVars
  <1> QED
    BY <1>4, <1>5, <1>8, LoopInvNext DEF IdleQuiet

\* engine_abort: every handle out belongs to an active job.
LEMMA AbortKeeps ==
  ASSUME LoopInv, Abort
  PROVE  LoopInv'
  <1> DEFINE active == {j \in Job : Active(jobs[j])}
  <1>1. TransfersInv /\ RestTyped
    BY LoopInvParts
  <1>2. /\ jobs' = [j \in Job |-> IF j \in active
                                  THEN [jobs[j] EXCEPT !.state = "failed"]
                                  ELSE jobs[j]]
        /\ req' = [j \in Job |-> IF j \in active THEN NoRequest(j) ELSE req[j]]
        /\ inFlight' = inFlight - Cardinality({j \in active : Busy(j)})
        /\ late' = late \cup Abandoned(active)
    BY DEF Abort
  <1>3. \A j \in Job : Busy(j) => j \in active
    BY <1>1 DEF TransfersInv, JobsTyped, BusyKind, Active, Request, Busy,
                RequestKind
  <1>4. {j \in active : Busy(j)} = {j \in Job : Busy(j)}
    BY <1>3
  <1>5. inFlight' = 0
    <2>1. inFlight = Cardinality({j \in Job : Busy(j)}) /\ inFlight \in Nat
      BY <1>1 DEF TransfersInv, JobsTyped, InFlightExact
    <2>2. inFlight' = inFlight - Cardinality({j \in Job : Busy(j)})
      BY <1>2, <1>4
    <2> QED
      BY <2>1, <2>2
  <1>6. \A j \in Job : ~Busy(j)'
    BY <1>2, <1>3 DEF Busy, NoRequest
  <1>7. jobs' \in [Job -> JobRecord]
    BY <1>1, <1>2 DEF TransfersInv, JobsTyped, JobRecord, JobState
  <1>8. JobsTyped' /\ ReplyNamed'
    BY <1>1, <1>2, <1>5, <1>7, NoRequestType
       DEF TransfersInv, JobsTyped, ReplyNamed, NoRequest
  <1>9. InFlightExact'
    <2>1. {j \in Job : Busy(j)}' = {}
      BY <1>6
    <2> QED
      BY <1>5, <2>1, FS_EmptySet, ConcurrencyAssumption DEF InFlightExact
  <1>10. late' \subseteq Request
    BY <1>1, <1>2, AbandonedTyped DEF RestTyped
  <1>11. RestTyped'
    BY <1>1, <1>10 DEF Abort, RestTyped, FilesTyped, Table, Store!NoSessions,
                       ServerTypeOK, serverVars, fileVars, ghostVars
  <1> QED
    BY <1>6, <1>8, <1>9, <1>11, LoopInvNext
       DEF TransfersInv, BusyKind, IdleQuiet

\* A crash leaves no handle behind.
LEMMA CrashKeeps ==
  ASSUME LoopInv, Crash
  PROVE  LoopInv'
  <1>1. TransfersInv /\ RestTyped
    BY LoopInvParts
  <1>2. jobs' \in [Job -> JobRecord]
    BY <1>1, QueuedJobType DEF Crash, RestTyped, JobState
  <1>3. \A j \in Job : ~Busy(j)' /\ (req[j].answer)' = "none"
    BY DEF Crash, Busy, NoRequest
  <1>4. JobsTyped'
    BY <1>2, NoRequestType DEF Crash, JobsTyped
  <1>5. InFlightExact'
    <2>1. {j \in Job : Busy(j)}' = {}
      BY <1>3
    <2> QED
      BY <2>1, FS_EmptySet, ConcurrencyAssumption DEF Crash, InFlightExact
  <1>6. late' \subseteq Request
    BY <1>1, AbandonedTyped DEF Crash, RestTyped
  <1>7. RestTyped'
    BY <1>1, <1>6 DEF Crash, RestTyped, FilesTyped, Table, Store!NoSessions,
                      ServerTypeOK, serverVars, fileVars, ghostVars, NoRow, Row
  <1> QED
    BY <1>3, <1>4, <1>5, <1>7, LoopInvNext
       DEF TransfersInv, ReplyNamed, BusyKind, IdleQuiet

\* Steps that leave every job and every handle alone.
LEMMA QuietKeeps ==
  ASSUME LoopInv, UNCHANGED <<jobs, req, inFlight, running>>, RestTyped'
  PROVE  LoopInv'
  <1>1. TransfersInv'
    BY LoopInvParts DEF TransfersInv, JobsTyped, ReplyNamed, BusyKind, Busy,
                        InFlightExact
  <1>2. IdleQuiet'
    BY DEF LoopInv, IdleQuiet, Busy
  <1> QED
    BY <1>1, <1>2, LoopInvNext

\* The loop returns only when no handle is out.
LEMMA ExitKeeps ==
  ASSUME LoopInv, Exit
  PROVE  LoopInv'
  <1>1. TransfersInv /\ RestTyped
    BY LoopInvParts
  <1>2. \A j \in Job : ~Busy(j)
    BY <1>1 DEF Exit, TransfersInv, JobsTyped, BusyKind, Active, Request, Busy,
                RequestKind
  <1>3. TransfersInv'
    BY <1>1 DEF Exit, netVars, TransfersInv, JobsTyped, ReplyNamed, BusyKind,
                Busy, InFlightExact
  <1>4. RestTyped'
    BY <1>1 DEF Exit, RestTyped, FilesTyped, Table, Store!NoSessions,
                ServerTypeOK, serverVars, netVars, fileVars, ghostVars
  <1>5. IdleQuiet'
    BY <1>2 DEF Exit, netVars, IdleQuiet, Busy
  <1> QED
    BY <1>3, <1>4, <1>5, LoopInvNext

\* A signal raises a flag and touches nothing else.
LEMMA InterruptKeeps ==
  ASSUME LoopInv, Interrupt
  PROVE  LoopInv'
  <1>1. RestTyped'
    BY LoopInvParts DEF Interrupt, RestTyped, FilesTyped, ServerTypeOK,
                        serverVars, netVars, fileVars, ghostVars
  <1> QED
    BY <1>1, QuietKeeps DEF Interrupt, netVars

\* The on_complete callback writes the shelf, or prints the token.
LEMMA RecordResultKeeps ==
  ASSUME LoopInv, RecordResult
  PROVE  LoopInv'
  <1>1. RestTyped
    BY LoopInvParts
  <1>2. printed' \subseteq Token
    BY <1>1 DEF RecordResult, RestTyped, Row, NoRow
  <1>3. shelf' \in [Token -> {"absent", "bare", "keyed"}]
    BY <1>1 DEF RecordResult, RestTyped
  <1>4. RestTyped'
    BY <1>1, <1>2, <1>3
       DEF RecordResult, RestTyped, FilesTyped, ServerTypeOK, serverVars,
           netVars, ghostVars, NoRow, Row
  <1> QED
    BY <1>4, QuietKeeps DEF RecordResult, netVars

\* Server, clock and user never touch the engine's handles.
LEMMA EnvironmentKeeps ==
  ASSUME LoopInv, Environment
  PROVE  LoopInv'
  <1>1. RestTyped /\ ServerTypeOK
    BY LoopInvParts DEF RestTyped
  <1>2. CASE ServeLate
    <2>1. PICK r \in late, t \in Token, answer \in Answer :
              Serve(r, t, answer) /\ late' = late \ {r} /\ Count(r)
      BY <1>2 DEF ServeLate
    <2>2. r \in Request
      BY <1>1 DEF RestTyped
    <2>3. ServerTypeOK' /\ made' \in [Job -> Nat] /\ late' \subseteq Request
      BY <1>1, <2>1, <2>2, ServeTyped, CountTyped DEF RestTyped
    <2>4. RestTyped'
      BY <1>1, <1>2, <2>3 DEF ServeLate, RestTyped, FilesTyped, engineVars,
                              fileVars
    <2> QED
      BY <1>2, <2>4, QuietKeeps DEF ServeLate, engineVars
  <1>3. CASE ServerForgets
    <2>1. ServerTypeOK'
      <3>1. ASSUME NEW t \in Token, ExpireSession(t) PROVE ServerTypeOK'
        BY <1>1, <3>1 DEF ExpireSession, ServerTypeOK
      <3>2. ASSUME NEW t \in Token, NEW c \in Chunk, LoseChunk(t, c)
            PROVE  ServerTypeOK'
        BY <1>1, <3>2 DEF LoseChunk, ServerTypeOK
      <3> QED
        BY <1>3, <3>1, <3>2 DEF ServerForgets
    <2>2. RestTyped'
      BY <1>1, <1>3, <2>1 DEF ServerForgets, RestTyped, FilesTyped, engineVars,
                              netVars, fileVars, ghostVars
    <2> QED
      BY <1>3, <2>2, QuietKeeps DEF ServerForgets, engineVars, netVars
  <1>4. CASE TimePasses
    <2>1. disk' \in Table
      BY <1>1, <1>4 DEF TimePasses, Store!Age, RestTyped, FilesTyped, Table,
                        Session
    <2>2. RestTyped'
      BY <1>1, <1>4, <2>1 DEF TimePasses, RestTyped, FilesTyped, ServerTypeOK,
                              serverVars, engineVars, netVars, ghostVars
    <2> QED
      BY <1>4, <2>2, QuietKeeps DEF TimePasses, engineVars, netVars
  <1>5. ASSUME NEW f \in File, EditFile(f) PROVE LoopInv'
    <2>1. version' \in [File -> Version]
      BY <1>1, <1>5, MaxVersionAssumption DEF EditFile, RestTyped, Version
    <2>2. RestTyped'
      BY <1>1, <1>5, <2>1 DEF EditFile, RestTyped, FilesTyped, ServerTypeOK,
                              serverVars, engineVars, netVars, fileVars,
                              ghostVars
    <2> QED
      BY <1>5, <2>2, QuietKeeps DEF EditFile, engineVars, netVars
  <1> QED
    BY <1>2, <1>3, <1>4, <1>5 DEF Environment

\* A step that changes no variable keeps LoopInv.
LEMMA StutterKeeps ==
  ASSUME LoopInv, UNCHANGED vars
  PROVE  LoopInv'
  <1>1. RestTyped'
    BY LoopInvParts DEF vars, serverVars, engineVars, netVars, fileVars,
                        ghostVars, RestTyped, FilesTyped, ServerTypeOK
  <1> QED
    BY <1>1, QuietKeeps DEF vars, engineVars, netVars

\* LoopInv is inductive.
LEMMA NextLoopInv == LoopInv /\ [Next]_vars => LoopInv'
  BY StartRunKeeps, ExitKeeps, InterruptKeeps, AbortKeeps, CrashKeeps,
     RecordResultKeeps, KickOffKeeps, WakeUpKeeps, AdvanceKeeps,
     NetworkErrorKeeps, CancelTransferKeeps, ServeRequestKeeps,
     EnvironmentKeeps, StutterKeeps DEF Next

\* LoopInv holds in every reachable state.
LEMMA LoopInvHolds == Spec => []LoopInv
  BY InitLoopInv, NextLoopInv, PTL DEF Spec

\* Every variable keeps its type: the engine's retry, reconcile and attempt
\* counters never leave their budgets, in_flight never goes below zero.
THEOREM TypeCorrect == Spec => []TypeOK
  <1>1. LoopInv => TypeOK
    BY DEF LoopInv
  <1> QED
    BY <1>1, LoopInvHolds, PTL

\* job_begin_request, job_release_transfer and engine_abort between them keep
\* in_flight equal to the number of easy handles out, and within the
\* concurrency budget, on every path.
THEOREM SlotsExact == Spec => []InFlightExact
  <1>1. LoopInv => InFlightExact
    BY DEF LoopInv
  <1> QED
    BY <1>1, LoopInvHolds, PTL

-----------------------------------------------------------------------------
(***************************************************************************)
(* ConfirmedHeld.  A bitmap is only as true as what feeds it, so besides   *)
(* the bitmaps of jobs and of both copies of sessions.json the invariant   *)
(* covers requests in flight: they concern the job's own session and       *)
(* chunk, and a good answer tells what the server really stored.           *)
(***************************************************************************)
JobHeld(job) == job.token # NoToken => job.sent \subseteq Stored(job.token)

JobsHeld == \A j \in Job : JobHeld(jobs[j])

TableHeld(table) ==
    \A t \in Token : table[t] # NoSession => table[t].sent \subseteq Stored(t)

RequestBound ==
    \A j \in Job : req[j].kind \in {"chunk", "status"} =>
        /\ req[j].tok = jobs[j].token
        /\ req[j].kind = "chunk" => req[j].chunk = jobs[j].chunk

AnswerTrue(r) ==
    /\ r.kind = "chunk" /\ r.answer \in {"ok", "bad"} =>
           r.chunk \in Stored(r.tok)
    /\ r.kind = "status" /\ r.answer = "ok" => r.got \subseteq Stored(r.tok)

TransfersHeld ==
    JobsHeld /\ RequestBound /\ \A j \in Job : AnswerTrue(req[j])

FilesHeld == TableHeld(mem) /\ TableHeld(disk)

HeldInv == TransfersHeld /\ FilesHeld

-----------------------------------------------------------------------------
\* A job put to rest with a truthful bitmap.
LEMMA SettleHeld ==
  ASSUME TransfersInv, TransfersHeld, NEW j \in Job, NEW job \in JobRecord,
         JobHeld(job), Settle(j, job), UNCHANGED held
  PROVE  TransfersHeld'
  <1>1. JobsHeld'
    BY DEF Settle, JobsHeld, JobHeld, Stored, TransfersHeld, TransfersInv,
           JobsTyped
  <1>2. RequestBound' /\ (\A i \in Job : AnswerTrue(req[i])')
    BY DEF Settle, RequestBound, AnswerTrue, Stored, TransfersHeld,
           TransfersInv, JobsTyped, NoRequest
  <1> QED
    BY <1>1, <1>2 DEF TransfersHeld

\* A failed job keeps its bitmap.
LEMMA FailHeld ==
  ASSUME TransfersInv, TransfersHeld, NEW j \in Job, NEW job \in JobRecord,
         JobHeld(job), Fail(j, job), UNCHANGED held
  PROVE  TransfersHeld'
  <1>1. /\ [job EXCEPT !.state = "failed"] \in JobRecord
        /\ JobHeld([job EXCEPT !.state = "failed"])
    BY DEF JobRecord, JobState, JobHeld
  <1> QED
    BY <1>1, SettleHeld DEF Fail

\* A request is started for the job's own session and chunk.
LEMMA StartHeld ==
  ASSUME TransfersInv, TransfersHeld, NEW j \in Job, NEW job \in JobRecord,
         NEW kind \in RequestKind, JobHeld(job), Start(j, job, kind),
         UNCHANGED held
  PROVE  TransfersHeld'
  <1>1. CASE "start" \in Faults /\ Fail(j, job)
    BY <1>1, FailHeld
  <1>2. CASE ~("start" \in Faults /\ Fail(j, job))
    <2> DEFINE started == [job EXCEPT !.state = kind]
    <2>1. /\ jobs' = [jobs EXCEPT ![j] = started]
          /\ started.token = job.token /\ started.sent = job.sent
          /\ started.chunk = job.chunk
      BY <1>2 DEF Start, JobRecord
    <2> HIDE DEF started
    <2>2. /\ (req[j].kind)' = kind /\ (req[j].tok)' = job.token
          /\ (req[j].answer)' = "none"
          /\ kind = "chunk" => (req[j].chunk)' = job.chunk
          /\ \A i \in Job \ {j} : req'[i] = req[i]
      <3> DEFINE sent == [NoRequest(j) EXCEPT
                            !.kind = kind, !.tok = job.token,
                            !.chunk = IF kind = "chunk" THEN job.chunk ELSE 0,
                            !.version = IF kind \in {"chunk", "sharex"}
                                        THEN version[source[j]] ELSE 1]
      <3>1. req' = [req EXCEPT ![j] = sent]
        BY <1>2 DEF Start
      <3>2. /\ sent.kind = kind /\ sent.tok = job.token /\ sent.answer = "none"
            /\ kind = "chunk" => sent.chunk = job.chunk
        BY DEF NoRequest
      <3> HIDE DEF sent
      <3>3. req'[j] = sent /\ \A i \in Job \ {j} : req'[i] = req[i]
        BY <3>1 DEF TransfersInv, JobsTyped
      <3> QED
        BY <3>2, <3>3
    <2>3. JobsHeld'
      BY <2>1 DEF JobsHeld, JobHeld, Stored, TransfersHeld, TransfersInv,
                  JobsTyped
    <2>4. RequestBound'
      BY <2>1, <2>2 DEF RequestBound, TransfersHeld, TransfersInv, JobsTyped
    <2>5. \A i \in Job : AnswerTrue(req[i])'
      BY <2>2 DEF AnswerTrue, Stored, TransfersHeld, TransfersInv, JobsTyped
    <2> QED
      BY <2>3, <2>4, <2>5 DEF TransfersHeld
  <1> QED
    BY <1>1, <1>2

\* complete carries no bitmap.
LEMMA StartCompleteHeld ==
  ASSUME TransfersInv, TransfersHeld, NEW j \in Job, NEW job \in JobRecord,
         JobHeld(job), StartComplete(j, job), UNCHANGED held
  PROVE  TransfersHeld'
  <1> DEFINE counted ==
        [job EXCEPT !.completes = IF @ < 2 THEN @ + 1 ELSE 2]
  <1>1. counted \in JobRecord /\ JobHeld(counted)
    BY DEF JobRecord, JobHeld
  <1>2. "complete" \in RequestKind
    BY DEF RequestKind
  <1> QED
    BY <1>1, <1>2, StartHeld DEF StartComplete

\* The next gap is asked for without being marked.
LEMMA NextRequestHeld ==
  ASSUME TransfersInv, TransfersHeld, NEW j \in Job, NEW job \in JobRecord,
         JobHeld(job), NextRequest(j, job), UNCHANGED held
  PROVE  TransfersHeld'
  <1>1. CASE StartComplete(j, job)
    BY <1>1, StartCompleteHeld
  <1>2. ASSUME NEW c \in NextMissing(job.sent),
               Start(j, [job EXCEPT !.chunk = c], "chunk")
        PROVE  TransfersHeld'
    <2>1. /\ [job EXCEPT !.chunk = c] \in JobRecord
          /\ JobHeld([job EXCEPT !.chunk = c])
      BY DEF JobRecord, NextMissing, JobHeld
    <2>2. "chunk" \in RequestKind
      BY DEF RequestKind
    <2> QED
      BY <1>2, <2>1, <2>2, StartHeld
  <1> QED
    BY <1>1, <1>2 DEF NextRequest

\* engine_persist_session saves the job's truthful bitmap.
LEMMA PersistHeld ==
  ASSUME FilesTyped, FilesHeld, NEW j \in Job, NEW job \in JobRecord,
         JobHeld(job), PersistSession(j, job), UNCHANGED held
  PROVE  FilesHeld'
  <1>1. TableHeld(mem)'
    BY NoTokenAssumption
       DEF PersistSession, Store!Put, Store!SessionOf, TableHeld, Stored,
           FilesHeld, FilesTyped, Table, JobHeld
  <1>2. TableHeld(disk)'
    BY <1>1 DEF PersistSession, SaveSessions, TableHeld, Stored, FilesHeld
  <1> QED
    BY <1>1, <1>2 DEF FilesHeld

\* Dropping a session adds no claim.
LEMMA DropHeld ==
  ASSUME FilesTyped, FilesHeld, NEW t, DropSession(t), UNCHANGED held
  PROVE  FilesHeld'
  BY DEF DropSession, SaveSessions, Store!Remove, TableHeld, Stored, FilesHeld,
         FilesTyped, Table

\* A step that saves nothing adds no claim.
LEMMA KeepHeld ==
  ASSUME FilesHeld, KeepSessions, UNCHANGED held
  PROVE  FilesHeld'
  BY DEF KeepSessions, TableHeld, Stored, FilesHeld

-----------------------------------------------------------------------------
(***************************************************************************)
(* The loop's steps leave `held` alone.                                    *)
(***************************************************************************)
\* No step of the loop changes what the server holds.
LEMMA LoopFrameHeld == ASSUME LoopFrame PROVE UNCHANGED held
  BY DEF LoopFrame, serverVars

\* What the handlers of j start from.
LEMMA HandlerFacts ==
  ASSUME LoopInv, HeldInv, NEW j \in Job
  PROVE  /\ TransfersInv /\ FilesTyped /\ TransfersHeld /\ FilesHeld
         /\ jobs[j] \in JobRecord /\ JobHeld(jobs[j]) /\ req[j] \in Request
  BY LoopInvParts
     DEF HeldInv, TransfersHeld, JobsHeld, TransfersInv, JobsTyped, RestTyped

\* A resumed job starts from the bitmap of sessions.json.
LEMMA KickOffHeld ==
  ASSUME LoopInv, HeldInv, NEW j \in Job, KickOff(j)
  PROVE  HeldInv'
  <1>1. UNCHANGED held
    BY LoopFrameHeld DEF KickOff
  <1>2. TransfersHeld'
    <2>1. ASSUME NEW t \in Resumable(j),
                 Start(j, [jobs[j] EXCEPT !.token = t, !.dtok = mem[t].dtok,
                                          !.sent = mem[t].sent], "status")
          PROVE  TransfersHeld'
      <3> DEFINE job == [jobs[j] EXCEPT !.token = t, !.dtok = mem[t].dtok,
                                        !.sent = mem[t].sent]
      <3>1. t \in Token /\ mem[t] # NoSession /\ mem[t] \in Session
        BY HandlerFacts DEF Resumable, Store!FindSource, Store!SessionTokens,
                            FilesTyped, Table
      <3>2. mem[t].sent \subseteq Stored(t)
        BY <3>1 DEF HeldInv, FilesHeld, TableHeld
      <3>3. job \in JobRecord
        BY <3>1, HandlerFacts DEF JobRecord, Session
      <3>4. JobHeld(job)
        BY <3>2, HandlerFacts DEF JobHeld, JobRecord
      <3>5. "status" \in RequestKind
        BY DEF RequestKind
      <3> HIDE DEF job
      <3> QED
        BY <1>1, <2>1, <3>3, <3>4, <3>5, HandlerFacts, StartHeld DEF job
    <2>2. ASSUME Start(j, jobs[j], IF j \in SingleShot THEN "sharex" ELSE "init")
          PROVE  TransfersHeld'
      <3>1. (IF j \in SingleShot THEN "sharex" ELSE "init") \in RequestKind
        BY DEF RequestKind
      <3> QED
        BY <1>1, <2>2, <3>1, HandlerFacts, StartHeld
    <2> QED
      BY <2>1, <2>2 DEF KickOff
  <1>3. FilesHeld'
    BY <1>1, HandlerFacts, KeepHeld DEF KickOff
  <1> QED
    BY <1>2, <1>3 DEF HeldInv

\* A retry repeats the request with the same bitmap.
LEMMA WakeUpHeld ==
  ASSUME LoopInv, HeldInv, NEW j \in Job, WakeUp(j)
  PROVE  HeldInv'
  <1>1. UNCHANGED held
    BY LoopFrameHeld DEF WakeUp
  <1>2. TransfersHeld'
    <2>1. jobs[j].retry \in RequestKind
      BY HandlerFacts DEF JobRecord
    <2>2. \/ StartComplete(j, jobs[j])
          \/ \E kind \in RequestKind : Start(j, jobs[j], kind)
      BY <2>1 DEF WakeUp, RequestKind
    <2> QED
      BY <1>1, <2>2, HandlerFacts, StartHeld, StartCompleteHeld
  <1>3. FilesHeld'
    BY <1>1, HandlerFacts, KeepHeld DEF WakeUp
  <1> QED
    BY <1>2, <1>3 DEF HeldInv

\* A step that only changes how a job waits keeps its bitmap.
LEMMA RestingHeld ==
  ASSUME LoopInv, HeldInv, NEW j \in Job, NEW job \in JobRecord,
         job.token = jobs[j].token, job.sent = jobs[j].sent,
         Settle(j, job) \/ Fail(j, job), KeepSessions, LoopFrame
  PROVE  HeldInv'
  <1>1. UNCHANGED held
    BY LoopFrameHeld
  <1>2. JobHeld(job)
    BY HandlerFacts DEF JobHeld
  <1>3. TransfersHeld'
    BY <1>1, <1>2, HandlerFacts, SettleHeld, FailHeld
  <1>4. FilesHeld'
    BY <1>1, HandlerFacts, KeepHeld
  <1> QED
    BY <1>3, <1>4 DEF HeldInv

\* A lost answer confirms nothing.
LEMMA NetworkErrorHeld ==
  ASSUME LoopInv, HeldInv, NEW j \in Job, NetworkError(j)
  PROVE  HeldInv'
  <1>1. jobs[j] \in JobRecord
    BY HandlerFacts
  <1>2. CASE jobs[j].state \in Repeatable /\ jobs[j].attempt < MaxRetries
    <2> DEFINE job == [jobs[j] EXCEPT
              !.attempt = @ + 1, !.retry = jobs[j].state,
              !.state = IF jobs[j].state = "chunk" THEN "chunkBackoff"
                        ELSE "controlBackoff"]
    <2>1. jobs[j].attempt + 1 \in 0 .. MaxRetries
      BY <1>1, <1>2, LimitsAssumption DEF JobRecord
    <2>2. /\ jobs[j].state \in RequestKind
          /\ {"chunkBackoff", "controlBackoff"} \subseteq JobState
      BY <1>2 DEF Repeatable, RequestKind, JobState
    <2>3. /\ job \in JobRecord
          /\ job.token = jobs[j].token /\ job.sent = jobs[j].sent
      BY <1>1, <2>1, <2>2 DEF JobRecord
    <2>4. Settle(j, job)
      BY <1>2 DEF NetworkError
    <2> HIDE DEF job
    <2> QED
      BY <2>3, <2>4, RestingHeld DEF NetworkError
  <1>3. CASE ~(jobs[j].state \in Repeatable /\ jobs[j].attempt < MaxRetries)
    BY <1>1, <1>3, RestingHeld DEF NetworkError
  <1> QED
    BY <1>2, <1>3

\* A cancelled transfer confirms nothing.
LEMMA CancelTransferHeld ==
  ASSUME LoopInv, HeldInv, NEW j \in Job, CancelTransfer(j)
  PROVE  HeldInv'
  BY HandlerFacts, RestingHeld DEF CancelTransfer

\* A refused init or sharex confirms nothing.
LEMMA CapacityRefusedHeld ==
  ASSUME LoopInv, HeldInv, NEW j \in Job, CapacityRefused(j)
  PROVE  HeldInv'
  <1> DEFINE job == [jobs[j] EXCEPT !.state = "initBackoff", !.initRetries = 1]
  <1>1. jobs[j] \in JobRecord
    BY HandlerFacts
  <1>2. "initBackoff" \in JobState /\ 1 \in 0 .. 1
    BY DEF JobState
  <1>3. /\ job \in JobRecord
        /\ job.token = jobs[j].token /\ job.sent = jobs[j].sent
    BY <1>1, <1>2 DEF JobRecord
  <1>4. Settle(j, job) \/ Fail(j, jobs[j])
    BY DEF CapacityRefused
  <1> HIDE DEF job
  <1> QED
    BY <1>1, <1>3, <1>4, RestingHeld DEF CapacityRefused

\* A fresh session starts with an empty bitmap.
LEMMA InitReplyHeld ==
  ASSUME LoopInv, HeldInv, NEW j \in Job, InitReply(j)
  PROVE  HeldInv'
  <1>1. UNCHANGED held
    BY LoopFrameHeld DEF InitReply
  <1>2. CASE Answered(j, "init", {"ok"})
    <2> DEFINE job == [jobs[j] EXCEPT !.token = req[j].tok, !.dtok = TRUE,
                                      !.sent = {}]
    <2>1. "init" \in RequestKind /\ req[j].answer # "bad"
      BY <1>2 DEF Answered, RequestKind
    <2>2. job \in JobRecord /\ JobHeld(job)
      <3>1. req[j].answer \in {"ok"} /\ jobs[j] \in JobRecord
        BY <1>2, HandlerFacts DEF Answered
      <3>2. req[j].tok \in Token
        BY <1>2, <2>1, <3>1, AnsweredFacts
      <3> QED
        BY <3>1, <3>2 DEF JobRecord, JobHeld
    <2>3. PersistSession(j, job) /\ NextRequest(j, job)
      BY <2>1 DEF InitReply, Answered
    <2> HIDE DEF job
    <2>4. TransfersHeld'
      BY <1>1, <2>2, <2>3, HandlerFacts, NextRequestHeld
    <2>5. FilesHeld'
      BY <1>1, <2>2, <2>3, HandlerFacts, PersistHeld
    <2> QED
      BY <2>4, <2>5 DEF HeldInv
  <1>3. CASE Fail(j, jobs[j]) /\ KeepSessions
    BY <1>3, HandlerFacts, RestingHeld DEF InitReply
  <1> QED
    BY <1>2, <1>3 DEF InitReply

\* The server's own list replaces the bitmap.
LEMMA StatusReplyHeld ==
  ASSUME LoopInv, HeldInv, NEW j \in Job, StatusReply(j)
  PROVE  HeldInv'
  <1>1. UNCHANGED held
    BY LoopFrameHeld DEF StatusReply
  <1> DEFINE job == [jobs[j] EXCEPT !.sent = req[j].got]
  <1>2. CASE /\ Answered(j, "status", {"ok"})
             /\ PersistSession(j, job) /\ NextRequest(j, job)
    <2>1. req[j].kind = "status" /\ req[j].answer = "ok"
      BY <1>2 DEF Answered
    <2>2. req[j].got \subseteq Stored(jobs[j].token)
      BY <2>1 DEF HeldInv, TransfersHeld, AnswerTrue, RequestBound
    <2>3. jobs[j] \in JobRecord /\ req[j].got \in SUBSET Chunk
      BY HandlerFacts DEF Request
    <2>4. job \in JobRecord /\ JobHeld(job)
      BY <2>2, <2>3 DEF JobRecord, JobHeld
    <2> HIDE DEF job
    <2>5. TransfersHeld'
      BY <1>1, <1>2, <2>4, HandlerFacts, NextRequestHeld
    <2>6. FilesHeld'
      BY <1>1, <1>2, <2>4, HandlerFacts, PersistHeld
    <2> QED
      BY <2>5, <2>6 DEF HeldInv
  <1>3. CASE DropSession(jobs[j].token) /\ Fail(j, jobs[j])
    BY <1>1, <1>3, HandlerFacts, FailHeld, DropHeld DEF HeldInv
  <1>4. CASE Fail(j, jobs[j]) /\ KeepSessions
    BY <1>4, HandlerFacts, RestingHeld DEF StatusReply
  <1> QED
    BY <1>2, <1>3, <1>4 DEF StatusReply

\* Only a good answer marks a chunk, and it is the job's chunk.
LEMMA ChunkReplyHeld ==
  ASSUME LoopInv, HeldInv, NEW j \in Job, ChunkReply(j)
  PROVE  HeldInv'
  <1>1. UNCHANGED held
    BY LoopFrameHeld DEF ChunkReply
  <1>2. jobs[j] \in JobRecord /\ JobHeld(jobs[j])
    BY HandlerFacts
  <1> DEFINE job == [jobs[j] EXCEPT !.sent = @ \cup {jobs[j].chunk},
                                    !.attempt = 0]
             again == [jobs[j] EXCEPT !.attempt = @ + 1,
                                      !.state = "chunkBackoff"]
  <1>3. CASE /\ Answered(j, "chunk", {"ok", "bad"})
             /\ PersistSession(j, job) /\ NextRequest(j, job)
    <2>1. req[j].kind = "chunk" /\ req[j].answer \in {"ok", "bad"}
      BY <1>3 DEF Answered
    <2>2. jobs[j].chunk \in Stored(jobs[j].token)
      BY <2>1 DEF HeldInv, TransfersHeld, AnswerTrue, RequestBound
    <2>3. /\ jobs[j].sent \cup {jobs[j].chunk} \in SUBSET Chunk
          /\ 0 \in 0 .. MaxRetries
      BY <1>2, LimitsAssumption DEF JobRecord
    <2>4. job \in JobRecord
      BY <1>2, <2>3 DEF JobRecord
    <2>5. JobHeld(job)
      BY <1>2, <2>2 DEF JobHeld, JobRecord
    <2> HIDE DEF job
    <2>6. TransfersHeld'
      BY <1>1, <1>3, <2>4, <2>5, HandlerFacts, NextRequestHeld
    <2>7. FilesHeld'
      BY <1>1, <1>3, <2>4, <2>5, HandlerFacts, PersistHeld
    <2> QED
      BY <2>6, <2>7 DEF HeldInv
  <1>4. CASE DropSession(jobs[j].token) /\ Fail(j, jobs[j])
    BY <1>1, <1>4, HandlerFacts, FailHeld, DropHeld DEF HeldInv
  <1>5. CASE /\ jobs[j].attempt < MaxRetries /\ Settle(j, again)
             /\ KeepSessions
    <2>1. jobs[j].attempt + 1 \in 0 .. MaxRetries
      BY <1>2, <1>5, LimitsAssumption DEF JobRecord
    <2>2. /\ again \in JobRecord
          /\ again.token = jobs[j].token /\ again.sent = jobs[j].sent
      BY <1>2, <2>1 DEF JobRecord, JobState
    <2> HIDE DEF again
    <2> QED
      BY <1>5, <2>2, RestingHeld DEF ChunkReply
  <1>6. CASE Fail(j, jobs[j]) /\ KeepSessions
    BY <1>2, <1>6, RestingHeld DEF ChunkReply
  <1> QED
    BY <1>3, <1>4, <1>5, <1>6 DEF ChunkReply

\* A finished job claims nothing new.
LEMMA SucceedHeld ==
  ASSUME LoopInv, HeldInv, NEW j \in Job, NEW dtok, Succeed(j, dtok),
         UNCHANGED held
  PROVE  HeldInv'
  <1>1. /\ [jobs[j] EXCEPT !.state = "done"] \in JobRecord
        /\ JobHeld([jobs[j] EXCEPT !.state = "done"])
    BY HandlerFacts DEF JobRecord, JobState, JobHeld
  <1>2. TransfersHeld'
    BY <1>1, HandlerFacts, SettleHeld DEF Succeed
  <1>3. FilesHeld'
    BY HandlerFacts, DropHeld DEF Succeed
  <1> QED
    BY <1>2, <1>3 DEF HeldInv

\* A single-request upload has no bitmap to falsify.
LEMMA SharexReplyHeld ==
  ASSUME LoopInv, HeldInv, NEW j \in Job, SharexReply(j)
  PROVE  HeldInv'
  BY LoopFrameHeld, SucceedHeld DEF SharexReply

\* No answer to complete adds a chunk to a bitmap.
LEMMA CompleteReplyHeld ==
  ASSUME LoopInv, HeldInv, NEW j \in Job, CompleteReply(j)
  PROVE  HeldInv'
  <1>1. UNCHANGED held
    BY LoopFrameHeld DEF CompleteReply
  <1>2. jobs[j] \in JobRecord /\ JobHeld(jobs[j])
    BY HandlerFacts
  <1>3. {"status", "verify"} \subseteq RequestKind
    BY DEF RequestKind
  <1> DEFINE round == [jobs[j] EXCEPT !.reconcile = @ + 1]
  <1>4. CASE Succeed(j, TRUE)
    BY <1>1, <1>4, SucceedHeld
  <1>5. CASE /\ jobs[j].reconcile < MaxReconcile /\ Start(j, round, "status")
             /\ KeepSessions
    <2>1. jobs[j].reconcile + 1 \in 0 .. MaxReconcile
      BY <1>2, <1>5, LimitsAssumption DEF JobRecord
    <2>2. round \in JobRecord /\ JobHeld(round)
      BY <1>2, <2>1 DEF JobRecord, JobHeld
    <2> HIDE DEF round
    <2> QED
      BY <1>1, <1>3, <1>5, <2>2, HandlerFacts, StartHeld, KeepHeld DEF HeldInv
  <1>6. CASE Start(j, jobs[j], "verify") /\ KeepSessions
    BY <1>1, <1>3, <1>6, HandlerFacts, StartHeld, KeepHeld DEF HeldInv
  <1>7. CASE DropSession(jobs[j].token) /\ Fail(j, jobs[j])
    BY <1>1, <1>7, HandlerFacts, FailHeld, DropHeld DEF HeldInv
  <1>8. CASE Fail(j, jobs[j]) /\ KeepSessions
    BY <1>2, <1>8, RestingHeld DEF CompleteReply
  <1> QED
    BY <1>4, <1>5, <1>6, <1>7, <1>8 DEF CompleteReply

\* No answer to the metadata request adds a chunk to a bitmap.
LEMMA VerifyReplyHeld ==
  ASSUME LoopInv, HeldInv, NEW j \in Job, VerifyReply(j)
  PROVE  HeldInv'
  <1>1. UNCHANGED held
    BY LoopFrameHeld DEF VerifyReply
  <1>2. CASE Succeed(j, FilledDeleteToken(jobs[j]))
    BY <1>1, <1>2, SucceedHeld
  <1>3. CASE DropSession(jobs[j].token) /\ Fail(j, jobs[j])
    BY <1>1, <1>3, HandlerFacts, FailHeld, DropHeld DEF HeldInv
  <1> QED
    BY <1>2, <1>3 DEF VerifyReply

-----------------------------------------------------------------------------
\* The server never forgets that a chunk was written, and says so truthfully.
LEMMA ServeHeld ==
  ASSUME ServerTypeOK, NEW r \in Request, NEW t \in Token, NEW answer,
         Serve(r, t, answer)
  PROVE  /\ \A u \in Token : Stored(u) \subseteq Stored(u)'
         /\ answer \in {"ok", "404", "409"}
         /\ r.kind \in {"chunk", "status"} => t = r.tok
         /\ r.kind = "chunk" /\ answer = "ok" => r.chunk \in Stored(t)'
  <1>1. r.version \in Nat \ {0} /\ r.chunk \in Chunk
    BY DEF Request, Version
  <1>2. CASE r.kind = "init" /\ UploadInit(t, answer)
    BY <1>2 DEF UploadInit, Stored
  <1>3. CASE r.kind = "sharex" /\ ShareX(t, r.version, answer)
    BY <1>1, <1>3 DEF ShareX, Stored, ServerTypeOK
  <1>4. CASE r.kind = "chunk" /\ t = r.tok
             /\ PutChunk(t, r.chunk, r.version, answer)
    <2>1. CASE UNCHANGED serverVars /\ answer = "404"
      BY <1>4, <2>1 DEF Stored, serverVars
    <2>2. CASE held' = [held EXCEPT ![t][r.chunk] = r.version] /\ answer = "ok"
      BY <1>1, <1>4, <2>2 DEF Stored, ServerTypeOK
    <2> QED
      BY <1>4, <2>1, <2>2 DEF PutChunk
  <1>5. CASE r.kind = "status" /\ t = r.tok /\ UploadStatus(t, answer)
    BY <1>5 DEF UploadStatus, Stored, serverVars
  <1>6. CASE r.kind = "complete" /\ UploadComplete(t, answer)
    BY <1>6 DEF UploadComplete, Stored, serverVars
  <1>7. CASE r.kind = "verify" /\ ServeMetadata(t, answer)
    BY <1>7 DEF ServeMetadata, Stored, serverVars
  <1> QED
    BY <1>2, <1>3, <1>4, <1>5, <1>6, <1>7 DEF Serve

\* Bitmaps stay true while the server only learns more.
LEMMA GrowingHeld ==
  ASSUME LoopInv, HeldInv, UNCHANGED <<jobs, mem, disk>>,
         \A u \in Token : Stored(u) \subseteq Stored(u)'
  PROVE  JobsHeld' /\ FilesHeld'
  <1>1. JobsHeld'
    BY HandlerFacts
       DEF JobsHeld, JobHeld, HeldInv, TransfersHeld, JobRecord
  <1>2. FilesHeld'
    BY DEF FilesHeld, TableHeld, HeldInv
  <1> QED
    BY <1>1, <1>2

\* The server answers a chunk after storing it, a status by its store.
LEMMA ServeRequestHeld ==
  ASSUME LoopInv, HeldInv, NEW j \in Job, ServeRequest(j)
  PROVE  HeldInv'
  <1>1. /\ TransfersInv /\ RestTyped /\ ServerTypeOK /\ req[j] \in Request
        /\ UNCHANGED <<jobs, mem, disk>>
    BY LoopInvParts
       DEF TransfersInv, JobsTyped, RestTyped, ServeRequest, engineVars,
           fileVars
  <1>2. ASSUME NEW t \in Token, NEW answer \in Answer,
               NEW seen \in {answer} \cup
                   (IF answer = "ok" /\ req[j].kind \in BadBodies
                    THEN {"bad"} ELSE {}),
               Serve(req[j], t, answer),
               req' = [req EXCEPT ![j] =
                          [@ EXCEPT !.tok = t, !.answer = seen,
                                    !.got = IF req[j].kind = "status"
                                            THEN Received(t) ELSE {}]]
        PROVE  HeldInv'
    <2>1. /\ \A u \in Token : Stored(u) \subseteq Stored(u)'
          /\ answer \in {"ok", "404", "409"}
          /\ req[j].kind \in {"chunk", "status"} => t = req[j].tok
          /\ req[j].kind = "chunk" /\ answer = "ok" =>
                 req[j].chunk \in Stored(t)'
      BY <1>1, <1>2, ServeHeld
    <2>2. JobsHeld' /\ FilesHeld'
      BY <1>1, <2>1, GrowingHeld
    <2>3. /\ (req[j].kind)' = req[j].kind /\ (req[j].tok)' = t
          /\ (req[j].chunk)' = req[j].chunk /\ (req[j].answer)' = seen
          /\ req[j].kind = "status" => (req[j].got)' = Received(t)
          /\ \A i \in Job \ {j} : req'[i] = req[i]
      BY <1>1, <1>2 DEF TransfersInv, JobsTyped, Request
    <2>4. RequestBound'
      BY <1>1, <2>1, <2>3 DEF RequestBound, HeldInv, TransfersHeld
    <2>5. AnswerTrue(req[j])'
      <3>1. Received(t) \subseteq Stored(t)'
        BY <2>1 DEF Received
      <3>2. seen \in {"ok", "bad"} => answer = "ok"
        BY <2>1
      <3> QED
        BY <2>1, <2>3, <3>1, <3>2 DEF AnswerTrue
    <2>6. \A i \in Job \ {j} : AnswerTrue(req[i])'
      <3> SUFFICES ASSUME NEW i \in Job \ {j} PROVE AnswerTrue(req[i])'
        OBVIOUS
      <3>1. AnswerTrue(req[i]) /\ req'[i] = req[i] /\ req[i] \in Request
        BY <1>1, <2>3 DEF HeldInv, TransfersHeld, TransfersInv, JobsTyped
      <3>2. req[i].answer \in {"ok", "bad"} => req[i].tok \in Token
        BY <1>1 DEF TransfersInv, ReplyNamed
      <3> QED
        BY <2>1, <3>1, <3>2 DEF AnswerTrue
    <2> QED
      BY <2>2, <2>4, <2>5, <2>6 DEF HeldInv, TransfersHeld
  <1>3. ASSUME NEW answer \in ServerErrors,
               req' = [req EXCEPT ![j] = [@ EXCEPT !.answer = answer]],
               UNCHANGED serverVars
        PROVE  HeldInv'
    <2>1. answer \notin {"ok", "bad"}
      BY FaultsAssumption DEF ErrorAnswer
    <2>2. JobsHeld' /\ FilesHeld'
      BY <1>1, <1>3, GrowingHeld DEF Stored, serverVars
    <2>3. /\ (req[j].kind)' = req[j].kind /\ (req[j].tok)' = req[j].tok
          /\ (req[j].chunk)' = req[j].chunk /\ (req[j].answer)' = answer
          /\ \A i \in Job \ {j} : req'[i] = req[i]
      BY <1>1, <1>3 DEF TransfersInv, JobsTyped, Request
    <2>4. RequestBound'
      BY <1>1, <2>3 DEF RequestBound, HeldInv, TransfersHeld
    <2>5. \A i \in Job : AnswerTrue(req[i])'
      BY <1>3, <2>1, <2>3
         DEF AnswerTrue, HeldInv, TransfersHeld, Stored, serverVars
    <2> QED
      BY <2>2, <2>4, <2>5 DEF HeldInv, TransfersHeld
  <1> QED
    BY <1>2, <1>3 DEF ServeRequest

-----------------------------------------------------------------------------
\* With no handle out and every bitmap empty or unchanged, files decide.
LEMMA StartRunHeld ==
  ASSUME LoopInv, HeldInv, StartRun
  PROVE  HeldInv'
  <1>1. /\ UNCHANGED <<held, req>> /\ (\A j \in Job : ~Busy(j))
        /\ disk \in Table
    BY LoopInvParts DEF LoopInv, IdleQuiet, StartRun, serverVars, netVars,
                        RestTyped, FilesTyped
  <1>2. \A j \in Job : (jobs[j].token)' = NoToken
    BY DEF StartRun, QueuedJob
  <1>3. FilesHeld'
    BY <1>1 DEF StartRun, SaveSessions, Store!PruneStale, HeldInv, FilesHeld,
                TableHeld, Stored, Table
  <1>4. JobsHeld' /\ RequestBound'
    BY <1>1, <1>2 DEF JobsHeld, JobHeld, RequestBound, Busy, HeldInv,
                      TransfersHeld
  <1>5. \A j \in Job : AnswerTrue(req[j])'
    BY <1>1 DEF AnswerTrue, Stored, HeldInv, TransfersHeld
  <1> QED
    BY <1>3, <1>4, <1>5 DEF HeldInv, TransfersHeld

\* A process that ends loses its copy of the sessions and its handles.
LEMMA EndedHeld ==
  ASSUME LoopInv, HeldInv, UNCHANGED <<held, disk>>, mem' = Store!NoSessions,
         \A j \in Job : ~Busy(j)', JobsHeld'
  PROVE  HeldInv'
  <1>1. FilesHeld'
    BY DEF Store!NoSessions, HeldInv, FilesHeld, TableHeld, Stored
  <1>2. RequestBound' /\ (\A j \in Job : AnswerTrue(req[j])')
    BY DEF RequestBound, AnswerTrue, Busy
  <1> QED
    BY <1>1, <1>2 DEF HeldInv, TransfersHeld

\* The end of a run leaves sessions.json as it is.
LEMMA ExitHeld ==
  ASSUME LoopInv, HeldInv, Exit
  PROVE  HeldInv'
  <1>1. TransfersInv
    BY LoopInvParts
  <1>2. \A j \in Job : ~Busy(j)
    BY <1>1 DEF Exit, TransfersInv, JobsTyped, BusyKind, Active, Request, Busy,
                RequestKind
  <1>3. \A j \in Job : ~Busy(j)'
    BY <1>2 DEF Exit, Busy, netVars
  <1>4. JobsHeld'
    BY DEF Exit, JobsHeld, JobHeld, Stored, serverVars, HeldInv, TransfersHeld
  <1> QED
    BY <1>3, <1>4, EndedHeld DEF Exit, serverVars, fileVars

\* engine_abort writes nothing.
LEMMA AbortHeld ==
  ASSUME LoopInv, HeldInv, Abort
  PROVE  HeldInv'
  <1>1. TransfersInv
    BY LoopInvParts
  <1>2. \A j \in Job : Busy(j) => Active(jobs[j])
    BY <1>1 DEF TransfersInv, JobsTyped, BusyKind, Active, Request, Busy,
                RequestKind
  <1>3. \A j \in Job : ~Busy(j)'
    BY <1>2 DEF Abort, Busy, NoRequest
  <1>4. \A j \in Job : /\ (jobs[j].token)' = jobs[j].token
                       /\ (jobs[j].sent)' = jobs[j].sent
    BY <1>1 DEF Abort, TransfersInv, JobsTyped, JobRecord
  <1>5. JobsHeld'
    BY <1>4 DEF Abort, JobsHeld, JobHeld, Stored, serverVars, HeldInv,
                TransfersHeld
  <1> QED
    BY <1>3, <1>5, EndedHeld DEF Abort, serverVars, fileVars

\* After a crash only sessions.json is left, and it was truthful.
LEMMA CrashHeld ==
  ASSUME LoopInv, HeldInv, Crash
  PROVE  HeldInv'
  <1>1. \A j \in Job : ~Busy(j)'
    BY DEF Crash, Busy, NoRequest
  <1>2. JobsHeld'
    BY DEF Crash, JobsHeld, JobHeld, QueuedJob
  <1> QED
    BY <1>1, <1>2, EndedHeld DEF Crash, serverVars, fileVars

\* Steps that touch neither the jobs nor the handles nor the files' bitmaps.
LEMMA QuietHeld ==
  ASSUME LoopInv, HeldInv, UNCHANGED <<jobs, req, mem>>, TableHeld(disk)',
         \A t \in Token : Stored(t) \subseteq Stored(t)'
  PROVE  HeldInv'
  <1>1. TransfersInv
    BY LoopInvParts
  <1>2. JobsHeld'
    BY HandlerFacts DEF JobsHeld, JobHeld, HeldInv, TransfersHeld, JobRecord
  <1>3. TableHeld(mem)'
    BY DEF TableHeld, HeldInv, FilesHeld
  <1>4. RequestBound'
    BY DEF RequestBound, HeldInv, TransfersHeld
  <1>5. \A j \in Job : AnswerTrue(req[j])'
    BY <1>1 DEF AnswerTrue, HeldInv, TransfersHeld, TransfersInv, ReplyNamed
  <1> QED
    BY <1>2, <1>3, <1>4, <1>5 DEF HeldInv, TransfersHeld, FilesHeld

\* Late requests, expiry and loss never unwrite a chunk.
LEMMA EnvironmentHeld ==
  ASSUME LoopInv, HeldInv, Environment
  PROVE  HeldInv'
  <1>1. ServerTypeOK /\ late \subseteq Request /\ TableHeld(disk)
    BY LoopInvParts DEF RestTyped, HeldInv, FilesHeld
  <1>2. CASE ServeLate
    <2>1. PICK r \in late, t \in Token, answer \in Answer : Serve(r, t, answer)
      BY <1>2 DEF ServeLate
    <2>2. \A u \in Token : Stored(u) \subseteq Stored(u)'
      BY <1>1, <2>1, ServeHeld
    <2>3. UNCHANGED <<jobs, req, mem, disk>>
      BY <1>2 DEF ServeLate, engineVars, fileVars
    <2> QED
      BY <1>1, <2>2, <2>3, QuietHeld DEF TableHeld
  <1>3. CASE ServerForgets
    BY <1>1, <1>3, QuietHeld DEF ServerForgets, ExpireSession, LoseChunk,
       engineVars, netVars, fileVars, Stored, TableHeld
  <1>4. CASE TimePasses
    <2>1. disk \in Table
      BY LoopInvParts DEF RestTyped, FilesTyped
    <2>2. TableHeld(disk)'
      BY <1>1, <1>4, <2>1 DEF TimePasses, Store!Age, TableHeld, Stored,
                              serverVars, Table, Session
    <2> QED
      BY <1>4, <2>2, QuietHeld DEF TimePasses, serverVars, engineVars, netVars,
                                   Stored
  <1>5. ASSUME NEW f \in File, EditFile(f) PROVE HeldInv'
    BY <1>1, <1>5, QuietHeld DEF EditFile, serverVars, engineVars, netVars,
                                 fileVars, Stored, TableHeld
  <1> QED
    BY <1>2, <1>3, <1>4, <1>5 DEF Environment

\* Steps that touch no bitmap, request or table.
LEMMA OtherHeld ==
  ASSUME LoopInv, HeldInv, Interrupt \/ RecordResult \/ UNCHANGED vars
  PROVE  HeldInv'
  <1>1. UNCHANGED <<jobs, req, mem, disk, held>>
    BY DEF Interrupt, RecordResult, vars, serverVars, engineVars, netVars,
           fileVars
  <1>2. TableHeld(disk)' /\ \A t \in Token : Stored(t) \subseteq Stored(t)'
    BY <1>1 DEF HeldInv, FilesHeld, TableHeld, Stored
  <1> QED
    BY <1>1, <1>2, QuietHeld

\* Nothing is claimed before the first run.
LEMMA InitHeldInv == Init => HeldInv
  BY DEF Init, HeldInv, TransfersHeld, FilesHeld, JobsHeld, JobHeld, TableHeld,
         RequestBound, AnswerTrue, QueuedJob, NoRequest, Store!NoSessions

\* job_advance keeps every bitmap truthful.
LEMMA AdvanceHeld ==
  ASSUME LoopInv, HeldInv, NEW j \in Job, Advance(j)
  PROVE  HeldInv'
  BY InitReplyHeld, StatusReplyHeld, ChunkReplyHeld, CompleteReplyHeld,
     VerifyReplyHeld, SharexReplyHeld, CapacityRefusedHeld DEF Advance

\* HeldInv is inductive, given LoopInv.
LEMMA NextHeldInv == LoopInv /\ HeldInv /\ [Next]_vars => HeldInv'
  BY StartRunHeld, ExitHeld, AbortHeld, CrashHeld, OtherHeld, KickOffHeld,
     WakeUpHeld, AdvanceHeld, NetworkErrorHeld, CancelTransferHeld,
     ServeRequestHeld, EnvironmentHeld DEF Next

\* No lost, repeated or late answer, retry, reconcile round, resume or crash
\* makes a bitmap - in memory or in sessions.json - claim a chunk that was
\* never written to the server under that token.
THEOREM ConfirmedChunksHeld == Spec => []ConfirmedHeld
  <1>1. HeldInv => ConfirmedHeld
    BY DEF HeldInv, TransfersHeld, JobsHeld, JobHeld, FilesHeld, TableHeld,
           ConfirmedHeld
  <1> QED
    BY <1>1, InitHeldInv, NextHeldInv, LoopInvHolds, PTL DEF Spec

-----------------------------------------------------------------------------
(***************************************************************************)
(* NoDoubleUpload.  A job has at most one upload to come per run: the one  *)
(* it is waiting to ask for, has asked for without being served, or has    *)
(* given up on while the request is still under way.  Together with those  *)
(* that were made they are never more than the runs.                       *)
(***************************************************************************)
Creating == {"init", "sharex"}

\* Requests for an upload that nobody waits for any more.
LateOf(j) == {r \in late : r.kind \in Creating /\ r.job = j}

Waiting(j) == running /\ jobs[j].state \in {"start", "initBackoff"}

\* No upload was made of the request: it is under way, or was refused.
Unserved(j) == req[j].kind \in Creating /\ req[j].answer \in {"none"} \cup ErrorAnswer

Pending(j) == IF Waiting(j) \/ Unserved(j) THEN 1 ELSE 0

Once(j) ==
    /\ req[j].job = j
    /\ IsFiniteSet(LateOf(j))
    /\ made[j] + Cardinality(LateOf(j)) + Pending(j) <= runs

OnceInv == \A j \in Job : Once(j)

-----------------------------------------------------------------------------
(* Counting                                                                 *)

\* The parts of the sum are numbers.
LEMMA Numbers ==
    ASSUME LoopInv, NEW j \in Job, IsFiniteSet(LateOf(j))
    PROVE  made[j] \in Nat /\ runs \in Nat /\ Cardinality(LateOf(j)) \in Nat
           /\ Pending(j) \in {0, 1}
  <1>1. made[j] \in Nat /\ runs \in Nat
        BY MaxRunsAssumption DEF LoopInv, TypeOK
  <1> QED BY <1>1, FS_CardinalityType DEF Pending

\* A step after which job j has no more to come than before.
LEMMA NoMoreToCome ==
    ASSUME LoopInv, NEW j \in Job, Once(j),
           req'[j].job = j, LateOf(j)' = LateOf(j), made'[j] = made[j], runs' = runs,
           (Waiting(j) \/ Unserved(j))' => Waiting(j) \/ Unserved(j)
    PROVE  Once(j)'
  <1>1. Pending(j)' <= Pending(j) /\ Pending(j)' \in {0, 1}
        BY DEF Pending
  <1>2. made[j] \in Nat /\ runs \in Nat /\ Cardinality(LateOf(j)) \in Nat /\ Pending(j) \in {0, 1}
        BY Numbers DEF Once
  <1>3. Cardinality(LateOf(j))' = Cardinality(LateOf(j)) /\ IsFiniteSet(LateOf(j))'
        BY DEF Once
  <1> HIDE DEF Pending
  <1>4. made'[j] + Cardinality(LateOf(j))' + Pending(j)' <= runs'
        BY <1>1, <1>2, <1>3 DEF Once
  <1> QED BY <1>3, <1>4 DEF Once

\* A step that gives up job j's request: if it was not served yet, it may
\* still come late.
LEMMA GivenUp ==
    ASSUME LoopInv, NEW j \in Job, Once(j),
           req'[j].job = j, ~Waiting(j)', ~Unserved(j)', made'[j] = made[j], runs' = runs,
           LateOf(j)' \subseteq LateOf(j) \cup (IF Unserved(j) THEN {req[j]} ELSE {})
    PROVE  Once(j)'
  <1> DEFINE more == IF Unserved(j) THEN {req[j]} ELSE {}
  <1>1. made[j] \in Nat /\ runs \in Nat /\ Cardinality(LateOf(j)) \in Nat /\ Pending(j) \in {0, 1}
        BY Numbers DEF Once
  <1>2. IsFiniteSet(LateOf(j) \cup more)
        /\ Cardinality(LateOf(j) \cup more) <= Cardinality(LateOf(j)) + Pending(j)
    <2>1. CASE Unserved(j)
      <3>1. Pending(j) = 1 /\ more = {req[j]}
            BY <2>1 DEF Pending
      <3>2. IsFiniteSet(LateOf(j))
            BY DEF Once
      <3>3. /\ IsFiniteSet(LateOf(j) \cup {req[j]})
            /\ \/ Cardinality(LateOf(j) \cup {req[j]}) = Cardinality(LateOf(j))
               \/ Cardinality(LateOf(j) \cup {req[j]}) = Cardinality(LateOf(j)) + 1
            BY <3>2, FS_AddElement, Zenon
      <3> HIDE DEF more
      <3> QED BY <1>1, <3>1, <3>3
    <2>2. CASE ~Unserved(j)
      <3>1. LateOf(j) \cup more = LateOf(j)
            BY <2>2
      <3>2. IsFiniteSet(LateOf(j))
            BY DEF Once
      <3> HIDE DEF more
      <3> QED BY <1>1, <3>1, <3>2
    <2> QED BY <2>1, <2>2
  <1>3. LateOf(j)' \in SUBSET (LateOf(j) \cup more)
        OBVIOUS
  <1> HIDE DEF more
  <1>4. IsFiniteSet(LateOf(j)') /\ Cardinality(LateOf(j)') <= Cardinality(LateOf(j) \cup more)
        BY <1>2, <1>3, FS_Subset
  <1>5. Cardinality(LateOf(j)') \in Nat /\ Cardinality(LateOf(j) \cup more) \in Nat
        BY <1>2, <1>4, FS_CardinalityType
  <1>6. Pending(j)' = 0
        BY DEF Pending
  <1>7. made[j] + Cardinality(LateOf(j)) + Pending(j) <= runs
        BY DEF Once
  <1>8. made'[j] + Cardinality(LateOf(j)') + 0 <= runs'
        BY <1>1, <1>2, <1>4, <1>5, <1>7
  <1> QED BY <1>4, <1>6, <1>8 DEF Once

-----------------------------------------------------------------------------
(* The steps of the loop                                                    *)

\* The other jobs keep their states and their handles.
Others(j) == \A i \in Job \ {j} : jobs'[i] = jobs[i] /\ req'[i] = req[i]

\* Nothing more is to come of job j.
Over(j) == ~Waiting(j) /\ ~Unserved(j)

\* Setting a job record's state sets it.
LEMMA StateSet ==
    ASSUME NEW job, NEW state, [job EXCEPT !.state = state] \in JobRecord
    PROVE  [job EXCEPT !.state = state].state = state
  <1>1. "state" \in DOMAIN [job EXCEPT !.state = state]
        BY DEF JobRecord
  <1>2. DOMAIN [job EXCEPT !.state = state] = DOMAIN job
        OBVIOUS
  <1> QED BY <1>1, <1>2

\* job_fail: the job is over.
LEMMA FailOver ==
    ASSUME LoopInv, LoopInv', NEW j \in Job, NEW job, Fail(j, job)
    PROVE  Others(j) /\ req'[j].job = j /\ Over(j)'
  <1> DEFINE failed == [job EXCEPT !.state = "failed"]
  <1>1. jobs' = [jobs EXCEPT ![j] = failed] /\ req' = [req EXCEPT ![j] = NoRequest(j)]
        BY DEF Fail, Settle
  <1>2. jobs \in [Job -> JobRecord] /\ jobs' \in [Job -> JobRecord] /\ req \in [Job -> Request]
        BY DEF LoopInv, TypeOK
  <1> HIDE DEF failed
  <1>3. jobs'[j] = failed /\ jobs'[j] \in JobRecord
        BY <1>1, <1>2
  <1>4. jobs'[j].state = "failed"
        BY <1>3, StateSet DEF failed
  <1>5. req'[j] = NoRequest(j)
        BY <1>1, <1>2
  <1>6. Others(j)
        BY <1>1, <1>2 DEF Others
  <1> QED BY <1>4, <1>5, <1>6 DEF Over, Waiting, Unserved, NoRequest, Creating

\* A job that sends anything but init or sharex has no upload to come.
LEMMA StartOver ==
    ASSUME LoopInv, LoopInv', NEW j \in Job, NEW job, NEW kind \in RequestKind,
           Start(j, job, kind)
    PROVE  Others(j) /\ req'[j].job = j /\ (kind \notin Creating => Over(j)')
  <1>1. CASE Fail(j, job)
        BY <1>1, FailOver
  <1>2. CASE ~Fail(j, job)
    <2> DEFINE sent == [NoRequest(j) EXCEPT
                           !.kind = kind, !.tok = job.token,
                           !.chunk = IF kind = "chunk" THEN job.chunk ELSE 0,
                           !.version = IF kind \in {"chunk", "sharex"}
                                       THEN version[source[j]] ELSE 1]
               started == [job EXCEPT !.state = kind]
    <2>1. jobs' = [jobs EXCEPT ![j] = started] /\ req' = [req EXCEPT ![j] = sent]
          BY <1>2 DEF Start
    <2>2. sent.kind = kind /\ sent.job = j
          BY DEF NoRequest
    <2> HIDE DEF sent, started
    <2>3. jobs \in [Job -> JobRecord] /\ req \in [Job -> Request]
          BY DEF LoopInv, TypeOK
    <2>4. req'[j] = sent /\ Others(j)
          BY <2>1, <2>3 DEF Others
    <2>5. jobs'[j].state = kind
          BY <2>2, <2>4, KindIsState DEF LoopInv, BusyKind, Busy
    <2>6. kind \notin {"start", "initBackoff"}
          BY DEF RequestKind
    <2> QED BY <2>2, <2>4, <2>5, <2>6 DEF Over, Waiting, Unserved
  <1> QED BY <1>1, <1>2

\* A settled job keeps no request.
LEMMA SettleOver ==
    ASSUME LoopInv, LoopInv', NEW j \in Job, NEW job, Settle(j, job)
    PROVE  Others(j) /\ req'[j].job = j /\ ~Unserved(j)' /\ jobs'[j] = job /\ job \in JobRecord
  <1>1. jobs' = [jobs EXCEPT ![j] = job] /\ req' = [req EXCEPT ![j] = NoRequest(j)]
        BY DEF Settle
  <1>2. jobs \in [Job -> JobRecord] /\ jobs' \in [Job -> JobRecord] /\ req \in [Job -> Request]
        BY DEF LoopInv, TypeOK
  <1>3. req'[j] = NoRequest(j) /\ jobs'[j] = job /\ jobs'[j] \in JobRecord
        BY <1>1, <1>2
  <1>4. Others(j)
        BY <1>1, <1>2 DEF Others
  <1> QED BY <1>3, <1>4 DEF Unserved, NoRequest, Creating

\* A job that asks for completion has no upload to come.
LEMMA StartCompleteOver ==
    ASSUME LoopInv, LoopInv', NEW j \in Job, NEW job, StartComplete(j, job)
    PROVE  Others(j) /\ req'[j].job = j /\ Over(j)'
  <1>1. "complete" \in RequestKind /\ "complete" \notin Creating
        BY DEF RequestKind, Creating
  <1> QED BY <1>1, StartOver DEF StartComplete

\* A job that goes on with its chunks has no upload to come.
LEMMA NextRequestOver ==
    ASSUME LoopInv, LoopInv', NEW j \in Job, NEW job, NextRequest(j, job)
    PROVE  Others(j) /\ req'[j].job = j /\ Over(j)'
  <1>1. "chunk" \in RequestKind /\ "chunk" \notin Creating
        BY DEF RequestKind, Creating
  <1>2. CASE StartComplete(j, job)
        BY <1>2, StartCompleteOver
  <1>3. ASSUME NEW c \in NextMissing(job.sent), Start(j, [job EXCEPT !.chunk = c], "chunk")
        PROVE  Others(j) /\ req'[j].job = j /\ Over(j)'
        BY <1>1, <1>3, StartOver
  <1> QED BY <1>2, <1>3 DEF NextRequest

\* job_succeed ends the job.
LEMMA SucceedOver ==
    ASSUME LoopInv, LoopInv', NEW j \in Job, NEW dtok, Succeed(j, dtok)
    PROVE  Others(j) /\ req'[j].job = j /\ Over(j)'
  <1> DEFINE job == [jobs[j] EXCEPT !.state = "done"]
  <1>1. Settle(j, job)
        BY DEF Succeed
  <1> HIDE DEF job
  <1>2. Others(j) /\ req'[j].job = j /\ ~Unserved(j)' /\ jobs'[j] = job /\ job \in JobRecord
        BY <1>1, SettleOver
  <1>3. job.state = "done"
        BY <1>2, StateSet DEF job
  <1> QED BY <1>2, <1>3 DEF Over, Waiting

\* A step of job j's that takes nothing from late: j has no more to come than
\* before, and the other jobs are as they were.
LEMMA LoopStep ==
    ASSUME LoopInv, OnceInv, NEW j \in Job, LoopFrame, UNCHANGED late,
           Others(j), req'[j].job = j,
           (Waiting(j) \/ Unserved(j))' => Waiting(j) \/ Unserved(j)
    PROVE  OnceInv'
  <1> SUFFICES ASSUME NEW i \in Job PROVE Once(i)'
      BY DEF OnceInv
  <1>1. made'[i] = made[i] /\ runs' = runs /\ running' = running
        BY DEF LoopFrame
  <1>2. LateOf(i)' = LateOf(i)
        BY DEF LateOf
  <1>3. Once(i)
        BY DEF OnceInv
  <1>4. CASE i = j
        BY <1>1, <1>2, <1>3, <1>4, NoMoreToCome
  <1>5. CASE i # j
    <2>1. jobs'[i] = jobs[i] /\ req'[i] = req[i]
          BY <1>5 DEF Others
    <2>2. req'[i].job = i
          BY <1>3, <2>1 DEF Once
    <2>3. (Waiting(i) \/ Unserved(i))' => Waiting(i) \/ Unserved(i)
          BY <1>1, <2>1 DEF Waiting, Unserved
    <2> QED BY <1>1, <1>2, <1>3, <2>2, <2>3, NoMoreToCome
  <1> QED BY <1>4, <1>5

\* The same for a step after which nothing is to come of j.
LEMMA OverStep ==
    ASSUME LoopInv, OnceInv, NEW j \in Job, LoopFrame, UNCHANGED late,
           Others(j), req'[j].job = j, Over(j)'
    PROVE  OnceInv'
  BY LoopStep DEF Over

\* A job kicked off was waiting to ask for its upload.
LEMMA KickOffOnce ==
    ASSUME LoopInv, LoopInv', OnceInv, NEW j \in Job, KickOff(j)
    PROVE  OnceInv'
  <1>1. Waiting(j)
        BY DEF KickOff, MayStart, LoopReady, Waiting
  <1>2. ASSUME NEW job, Start(j, job, "status")
        PROVE  Others(j) /\ req'[j].job = j
        BY <1>2, StartOver DEF RequestKind
  <1>3. ASSUME Start(j, jobs[j], IF j \in SingleShot THEN "sharex" ELSE "init")
        PROVE  Others(j) /\ req'[j].job = j
        BY <1>3, StartOver DEF RequestKind
  <1>4. Others(j) /\ req'[j].job = j
        BY <1>2, <1>3 DEF KickOff
  <1> QED BY <1>1, <1>4, LoopStep DEF KickOff

\* The one wait that leads back to init is that after a refusal.
LEMMA WakeUpOnce ==
    ASSUME LoopInv, LoopInv', OnceInv, NEW j \in Job, WakeUp(j)
    PROVE  OnceInv'
  <1>1. LoopFrame /\ UNCHANGED late
        BY DEF WakeUp
  <1>2. CASE jobs[j].state = "initBackoff" /\ Start(j, jobs[j], "init")
    <2>1. Waiting(j)
          BY <1>2 DEF WakeUp, MayStart, LoopReady, Waiting
    <2>2. Others(j) /\ req'[j].job = j
          BY <1>2, StartOver DEF RequestKind
    <2> QED BY <1>1, <2>1, <2>2, LoopStep
  <1>3. ASSUME NEW kind \in {"chunk", "status", "verify"}, Start(j, jobs[j], kind)
        PROVE  OnceInv'
    <2>1. kind \in RequestKind /\ kind \notin Creating
          BY DEF RequestKind, Creating
    <2> QED BY <1>1, <1>3, <2>1, StartOver, OverStep
  <1>4. CASE StartComplete(j, jobs[j])
        BY <1>1, <1>4, StartCompleteOver, OverStep
  <1> QED BY <1>2, <1>3, <1>4 DEF WakeUp

\* A refused init or sharex made nothing and may be sent again.
LEMMA CapacityRefusedOnce ==
    ASSUME LoopInv, LoopInv', OnceInv, NEW j \in Job, CapacityRefused(j)
    PROVE  OnceInv'
  <1>1. Unserved(j)
        BY DEF CapacityRefused, Answered, Unserved, Creating
  <1>2. Others(j) /\ req'[j].job = j
        BY SettleOver, FailOver DEF CapacityRefused
  <1> QED BY <1>1, <1>2, LoopStep DEF CapacityRefused

\* The answer to init: chunks from now on, or failure.
LEMMA InitReplyOnce ==
    ASSUME LoopInv, LoopInv', OnceInv, NEW j \in Job, InitReply(j)
    PROVE  OnceInv'
  <1>1. PICK job : NextRequest(j, job) \/ Fail(j, job)
        BY DEF InitReply
  <1>2. Others(j) /\ req'[j].job = j /\ Over(j)'
        BY <1>1, NextRequestOver, FailOver
  <1> QED BY <1>2, OverStep DEF InitReply

\* The answer to status: chunks from now on, or failure.
LEMMA StatusReplyOnce ==
    ASSUME LoopInv, LoopInv', OnceInv, NEW j \in Job, StatusReply(j)
    PROVE  OnceInv'
  <1>1. PICK job : NextRequest(j, job) \/ Fail(j, job)
        BY DEF StatusReply
  <1>2. Others(j) /\ req'[j].job = j /\ Over(j)'
        BY <1>1, NextRequestOver, FailOver
  <1> QED BY <1>2, OverStep DEF StatusReply

\* The answer to a chunk: the next one, a retry of it, or failure.
LEMMA ChunkReplyOnce ==
    ASSUME LoopInv, LoopInv', OnceInv, NEW j \in Job, ChunkReply(j)
    PROVE  OnceInv'
  <1>1. LoopFrame /\ UNCHANGED late
        BY DEF ChunkReply
  <1>2. ASSUME NEW job, NextRequest(j, job) \/ Fail(j, job)
        PROVE  OnceInv'
        BY <1>1, <1>2, NextRequestOver, FailOver, OverStep
  <1>3. CASE Settle(j, [jobs[j] EXCEPT !.attempt = @ + 1, !.state = "chunkBackoff"])
    <2> DEFINE job == [jobs[j] EXCEPT !.attempt = @ + 1, !.state = "chunkBackoff"]
    <2>1. jobs[j] \in JobRecord
          BY DEF LoopInv, TypeOK
    <2>2. job.state = "chunkBackoff"
          BY <2>1 DEF JobRecord
    <2> HIDE DEF job
    <2>3. Others(j) /\ req'[j].job = j /\ ~Unserved(j)' /\ jobs'[j] = job
          BY <1>3, SettleOver DEF job
    <2>4. Over(j)'
          BY <2>2, <2>3 DEF Over, Waiting
    <2> QED BY <1>1, <2>3, <2>4, OverStep
  <1> QED BY <1>2, <1>3 DEF ChunkReply

\* The answer to sharex ends the job.
LEMMA SharexReplyOnce ==
    ASSUME LoopInv, LoopInv', OnceInv, NEW j \in Job, SharexReply(j)
    PROVE  OnceInv'
  BY SucceedOver, OverStep DEF SharexReply

\* The answer to complete never leads back to init.
LEMMA CompleteReplyOnce ==
    ASSUME LoopInv, LoopInv', OnceInv, NEW j \in Job, CompleteReply(j)
    PROVE  OnceInv'
  <1>1. LoopFrame /\ UNCHANGED late
        BY DEF CompleteReply
  <1>2. CASE Succeed(j, TRUE)
        BY <1>1, <1>2, SucceedOver, OverStep
  <1>3. ASSUME NEW job, NEW kind \in {"status", "verify"}, Start(j, job, kind)
        PROVE  OnceInv'
    <2>1. kind \in RequestKind /\ kind \notin Creating
          BY DEF RequestKind, Creating
    <2> QED BY <1>1, <1>3, <2>1, StartOver, OverStep
  <1>4. CASE Fail(j, jobs[j])
        BY <1>1, <1>4, FailOver, OverStep
  <1> QED BY <1>2, <1>3, <1>4 DEF CompleteReply

\* The answer to verify ends the job.
LEMMA VerifyReplyOnce ==
    ASSUME LoopInv, LoopInv', OnceInv, NEW j \in Job, VerifyReply(j)
    PROVE  OnceInv'
  <1>1. LoopFrame /\ UNCHANGED late
        BY DEF VerifyReply
  <1>2. CASE Succeed(j, FilledDeleteToken(jobs[j]))
        BY <1>1, <1>2, SucceedOver, OverStep
  <1>3. CASE Fail(j, jobs[j])
        BY <1>1, <1>3, FailOver, OverStep
  <1> QED BY <1>2, <1>3 DEF VerifyReply

\* The client gives up on j's request and has nothing more to ask for: init
\* and sharex are not repeated.
LEMMA GiveUpStep ==
    ASSUME LoopInv, OnceInv, NEW j \in Job, LoopFrame,
           late' = late \cup Abandoned({j}),
           Others(j), req'[j].job = j, Over(j)'
    PROVE  OnceInv'
  <1> SUFFICES ASSUME NEW i \in Job PROVE Once(i)'
      BY DEF OnceInv
  <1>1. made'[i] = made[i] /\ runs' = runs /\ running' = running
        BY DEF LoopFrame
  <1>2. Once(i) /\ Once(j)
        BY DEF OnceInv
  <1>3. \A r \in late' \ late : r = req[j] /\ req[j].answer = "none"
        BY DEF Abandoned
  <1>4. CASE i = j
    <2>1. LateOf(j)' \subseteq LateOf(j) \cup (IF Unserved(j) THEN {req[j]} ELSE {})
          BY <1>3 DEF LateOf, Unserved
    <2> QED BY <1>1, <1>2, <1>4, <2>1, GivenUp DEF Over
  <1>5. CASE i # j
    <2>1. jobs'[i] = jobs[i] /\ req'[i] = req[i]
          BY <1>5 DEF Others
    <2>2. LateOf(i)' = LateOf(i)
          BY <1>2, <1>3, <1>5 DEF LateOf, Once
    <2>3. req'[i].job = i
          BY <1>2, <2>1 DEF Once
    <2>4. (Waiting(i) \/ Unserved(i))' => Waiting(i) \/ Unserved(i)
          BY <1>1, <2>1 DEF Waiting, Unserved
    <2> QED BY <1>1, <1>2, <2>2, <2>3, <2>4, NoMoreToCome
  <1> QED BY <1>4, <1>5

\* A network error under init or sharex fails the job; the rest retry.
LEMMA NetworkErrorOnce ==
    ASSUME LoopInv, LoopInv', OnceInv, NEW j \in Job, NetworkError(j)
    PROVE  OnceInv'
  <1>1. LoopFrame /\ late' = late \cup Abandoned({j})
        BY DEF NetworkError
  <1>2. CASE Fail(j, jobs[j])
        BY <1>1, <1>2, FailOver, GiveUpStep
  <1>3. CASE Settle(j, [jobs[j] EXCEPT
                !.attempt = @ + 1, !.retry = jobs[j].state,
                !.state = IF jobs[j].state = "chunk" THEN "chunkBackoff"
                          ELSE "controlBackoff"])
    <2> DEFINE job == [jobs[j] EXCEPT
                !.attempt = @ + 1, !.retry = jobs[j].state,
                !.state = IF jobs[j].state = "chunk" THEN "chunkBackoff"
                          ELSE "controlBackoff"]
    <2>1. jobs[j] \in JobRecord
          BY DEF LoopInv, TypeOK
    <2>2. job.state \in {"chunkBackoff", "controlBackoff"}
          BY <2>1 DEF JobRecord
    <2> HIDE DEF job
    <2>3. Others(j) /\ req'[j].job = j /\ ~Unserved(j)' /\ jobs'[j] = job
          BY <1>3, SettleOver DEF job
    <2>4. Over(j)'
          BY <2>2, <2>3 DEF Over, Waiting
    <2> QED BY <1>1, <2>3, <2>4, GiveUpStep
  <1> QED BY <1>2, <1>3 DEF NetworkError

\* A cancelled transfer fails the job.
LEMMA CancelTransferOnce ==
    ASSUME LoopInv, LoopInv', OnceInv, NEW j \in Job, CancelTransfer(j)
    PROVE  OnceInv'
  BY FailOver, GiveUpStep DEF CancelTransfer

\* job_advance keeps the count.
LEMMA AdvanceOnce ==
    ASSUME LoopInv, LoopInv', OnceInv, NEW j \in Job, Advance(j)
    PROVE  OnceInv'
  BY InitReplyOnce, StatusReplyOnce, ChunkReplyOnce, CompleteReplyOnce,
     VerifyReplyOnce, SharexReplyOnce, CapacityRefusedOnce DEF Advance

-----------------------------------------------------------------------------
(* Server and environment                                                   *)

\* Steps that touch neither the jobs nor the requests.
LEMMA QuietOnce ==
    ASSUME LoopInv, OnceInv, UNCHANGED <<jobs, running, req, late, made, runs>>
    PROVE  OnceInv'
  <1> SUFFICES ASSUME NEW i \in Job PROVE Once(i)'
      BY DEF OnceInv
  <1>1. Once(i) /\ LateOf(i)' = LateOf(i)
        BY DEF OnceInv, LateOf
  <1>2. (Waiting(i) \/ Unserved(i))' => Waiting(i) \/ Unserved(i)
        BY DEF Waiting, Unserved
  <1> QED BY <1>1, <1>2, NoMoreToCome DEF Once

\* A request the server serves is unserved no longer, whatever body the
\* answer carries; one it refuses makes no upload.
LEMMA ServeRequestOnce ==
    ASSUME LoopInv, LoopInv', OnceInv, NEW j \in Job, ServeRequest(j)
    PROVE  OnceInv'
  <1> SUFFICES ASSUME NEW i \in Job PROVE Once(i)'
      BY DEF OnceInv
  <1>1. UNCHANGED <<jobs, running, late, runs>>
        BY DEF ServeRequest, engineVars
  <1>2. Once(i) /\ Once(j) /\ LateOf(i)' = LateOf(i)
        BY <1>1 DEF OnceInv, LateOf
  <1>3. req \in [Job -> Request] /\ made \in [Job -> Nat]
        BY DEF LoopInv, TypeOK
  <1>4. req[j].job = j /\ req[j] \in Request /\ Busy(j) /\ req[j].answer = "none"
        BY <1>2, <1>3 DEF Once, ServeRequest
  <1>5. made'[j] \in {made[j], made[j] + 1} /\ (i # j => made'[i] = made[i])
    <2>1. Count(req[j]) \/ made' = made
          BY DEF ServeRequest
    <2>2. CASE Count(req[j])
          BY <1>3, <1>4, <2>2 DEF Count
    <2> QED BY <2>1, <2>2
  <1>6. CASE i # j
    <2>1. req'[i] = req[i]
          BY <1>3, <1>6 DEF ServeRequest
    <2>2. (Waiting(i) \/ Unserved(i))' => Waiting(i) \/ Unserved(i)
          BY <1>1, <2>1 DEF Waiting, Unserved
    <2> QED BY <1>1, <1>2, <1>5, <1>6, <2>1, <2>2, NoMoreToCome DEF Once
  <1>7. CASE i = j
    <2>1. req'[j].kind = req[j].kind /\ req'[j].job = j
      <3>1. ASSUME NEW t \in Token, NEW answer \in Answer,
                   NEW seen \in {answer} \cup
                       (IF answer = "ok" /\ req[j].kind \in BadBodies
                        THEN {"bad"} ELSE {}),
                   req' = [req EXCEPT ![j] =
                              [@ EXCEPT !.tok = t, !.answer = seen,
                                        !.got = IF req[j].kind = "status"
                                                THEN Received(t) ELSE {}]]
            PROVE  req'[j].kind = req[j].kind /\ req'[j].job = j
            BY <1>3, <1>4, <3>1 DEF Request
      <3>2. ASSUME NEW answer \in ServerErrors,
                   req' = [req EXCEPT ![j] = [@ EXCEPT !.answer = answer]]
            PROVE  req'[j].kind = req[j].kind /\ req'[j].job = j
            BY <1>3, <1>4, <3>2 DEF Request
      <3> QED BY <3>1, <3>2 DEF ServeRequest
    <2>2. CASE made'[j] = made[j]
      <3>1. Unserved(j)' => Unserved(j)
            BY <1>4, <2>1 DEF Unserved
      <3>2. Waiting(j)' => Waiting(j)
            BY <1>1 DEF Waiting
      <3> QED BY <1>1, <1>2, <1>7, <2>1, <2>2, <3>1, <3>2, NoMoreToCome
    <2>3. CASE made'[j] = made[j] + 1 /\ made'[j] # made[j]
      <3>1. req[j].kind \in Creating /\ Unserved(j)
            BY <1>3, <1>4, <2>3 DEF ServeRequest, Count, Unserved, Creating
      <3>2. PICK answer \in Answer : /\ answer = "ok"
                                     /\ req'[j].answer \in {"ok", "bad"}
        <4>1. PICK t \in Token, answer \in Answer :
                 /\ Serve(req[j], t, answer)
                 /\ \E seen \in {answer} \cup
                       (IF answer = "ok" /\ req[j].kind \in BadBodies
                        THEN {"bad"} ELSE {}) :
                       req' = [req EXCEPT ![j] =
                           [@ EXCEPT !.tok = t, !.answer = seen,
                                     !.got = IF req[j].kind = "status"
                                             THEN Received(t) ELSE {}]]
              BY <1>3, <2>3 DEF ServeRequest
        <4>2. answer = "ok"
              BY <3>1, <4>1 DEF Serve, UploadInit, ShareX, Creating
        <4>3. req'[j].answer \in {"ok", "bad"}
              BY <1>3, <1>4, <4>1, <4>2 DEF Request
        <4> QED BY <4>2, <4>3
      <3>3. ~Unserved(j)'
            BY <3>2 DEF Unserved, ErrorAnswer
      <3>4. jobs[j].state \in Creating
            BY <1>4, <3>1 DEF LoopInv, BusyKind
      <3>5. ~Waiting(j)'
            BY <1>1, <3>4 DEF Waiting, Creating
      <3>6. Pending(j) = 1 /\ Pending(j)' = 0
            BY <3>1, <3>3, <3>5 DEF Pending
      <3>7. made[j] \in Nat /\ runs \in Nat /\ Cardinality(LateOf(j)) \in Nat
            BY <1>2, Numbers DEF Once
      <3>8. Cardinality(LateOf(j))' = Cardinality(LateOf(j)) /\ IsFiniteSet(LateOf(j))'
            BY <1>2, <1>7 DEF Once
      <3>9. made[j] + Cardinality(LateOf(j)) + Pending(j) <= runs
            BY <1>2 DEF Once
      <3> HIDE DEF Pending
      <3>10. made'[j] + Cardinality(LateOf(j))' + Pending(j)' <= runs'
            BY <1>1, <2>3, <3>6, <3>7, <3>8, <3>9
      <3> QED BY <1>7, <2>1, <3>8, <3>10 DEF Once
    <2> QED BY <1>3, <1>5, <2>2, <2>3
  <1> QED BY <1>6, <1>7

\* A request that comes late is made once, and is then under way no more.
LEMMA ServeLateOnce ==
    ASSUME LoopInv, LoopInv', OnceInv, ServeLate
    PROVE  OnceInv'
  <1> SUFFICES ASSUME NEW i \in Job PROVE Once(i)'
      BY DEF OnceInv
  <1>1. UNCHANGED <<jobs, running, req, runs>>
        BY DEF ServeLate, engineVars
  <1>2. PICK r \in late : late' = late \ {r} /\ Count(r)
        BY DEF ServeLate
  <1>3. Once(i) /\ made \in [Job -> Nat] /\ r \in Request
        BY DEF OnceInv, LoopInv, TypeOK
  <1>4. Pending(i)' = Pending(i) /\ req'[i].job = i
        BY <1>1, <1>3 DEF Pending, Waiting, Unserved, Once
  <1>5. Pending(i) \in {0, 1} /\ made[i] \in Nat /\ runs \in Nat
        /\ Cardinality(LateOf(i)) \in Nat /\ IsFiniteSet(LateOf(i))
        BY <1>3, Numbers DEF Once
  <1>6. made[i] + Cardinality(LateOf(i)) + Pending(i) <= runs
        BY <1>3 DEF Once
  <1>7. LateOf(i)' = LateOf(i) \ {r}
        BY <1>2 DEF LateOf
  <1>8. CASE r \in LateOf(i)
    <2>1. made'[i] = made[i] + 1
          BY <1>2, <1>3, <1>8 DEF LateOf, Count, Creating
    <2>2. IsFiniteSet(LateOf(i) \ {r})
          /\ Cardinality(LateOf(i) \ {r}) = Cardinality(LateOf(i)) - 1
          BY <1>5, <1>8, FS_RemoveElement
    <2> HIDE DEF Pending
    <2>3. made'[i] + Cardinality(LateOf(i)') + Pending(i)' <= runs'
          BY <1>1, <1>4, <1>5, <1>6, <1>7, <2>1, <2>2
    <2> QED BY <1>4, <1>7, <2>2, <2>3 DEF Once
  <1>9. CASE r \notin LateOf(i)
    <2>1. made'[i] = made[i]
          BY <1>2, <1>3, <1>9 DEF LateOf, Count, Creating, Request
    <2>2. LateOf(i)' = LateOf(i)
          BY <1>7, <1>9
    <2>3. (Waiting(i) \/ Unserved(i))' => Waiting(i) \/ Unserved(i)
          BY <1>1 DEF Waiting, Unserved
    <2> QED BY <1>1, <1>3, <1>4, <2>1, <2>2, <2>3, NoMoreToCome
  <1> QED BY <1>8, <1>9

-----------------------------------------------------------------------------
(* The life of a process                                                    *)

\* When nothing runs, no request is unserved.
LEMMA IdleServed ==
    ASSUME LoopInv, NEW j \in Job, ~Busy(j)
    PROVE  ~Unserved(j)
  BY DEF Busy, Unserved, Creating

\* A new run may upload every file once more.
LEMMA StartRunOnce ==
    ASSUME LoopInv, OnceInv, StartRun
    PROVE  OnceInv'
  <1> SUFFICES ASSUME NEW i \in Job PROVE Once(i)'
      BY DEF OnceInv
  <1>1. ~running /\ ~Busy(i) /\ runs' = runs + 1 /\ UNCHANGED <<req, late, made>>
        BY DEF StartRun, netVars, ghostVars, LoopInv, IdleQuiet
  <1>2. Once(i) /\ LateOf(i)' = LateOf(i)
        BY <1>1 DEF OnceInv, LateOf
  <1>3. Pending(i) = 0 /\ Pending(i)' \in {0, 1}
        BY <1>1, IdleServed DEF Pending, Waiting
  <1>4. made[i] \in Nat /\ runs \in Nat /\ Cardinality(LateOf(i)) \in Nat
        BY <1>2, Numbers DEF Once
  <1>5. req'[i].job = i /\ IsFiniteSet(LateOf(i))'
        /\ Cardinality(LateOf(i))' = Cardinality(LateOf(i))
        BY <1>1, <1>2 DEF Once
  <1>6. made[i] + Cardinality(LateOf(i)) + Pending(i) <= runs
        BY <1>2 DEF Once
  <1> HIDE DEF Pending
  <1>7. made'[i] + Cardinality(LateOf(i))' + Pending(i)' <= runs'
        BY <1>1, <1>3, <1>4, <1>5, <1>6
  <1> QED BY <1>5, <1>7 DEF Once

\* The run is over: what was not served may still come late.
LEMMA RunOver ==
    ASSUME LoopInv, OnceInv, running' = FALSE, made' = made, runs' = runs,
           \A i \in Job : req'[i].job = i /\ ~Unserved(i)',
           late' \subseteq late \cup Abandoned(Job)
    PROVE  OnceInv'
  <1> SUFFICES ASSUME NEW i \in Job PROVE Once(i)'
      BY DEF OnceInv
  <1>1. Once(i)
        BY DEF OnceInv
  <1>2. \A r \in late' \ late : \E k \in Job : r = req[k] /\ req[k].answer = "none"
        BY DEF Abandoned
  <1>3. \A k \in Job : req[k].job = k
        BY DEF OnceInv, Once
  <1>4. LateOf(i)' \subseteq LateOf(i) \cup (IF Unserved(i) THEN {req[i]} ELSE {})
        BY <1>2, <1>3 DEF LateOf, Unserved
  <1>5. ~Waiting(i)'
        BY DEF Waiting
  <1> QED BY <1>1, <1>4, <1>5, GivenUp

\* A job at rest has no transfer.
LEMMA RestingIdle ==
    ASSUME LoopInv, NEW j \in Job, ~Active(jobs[j])
    PROVE  ~Unserved(j)
  BY DEF LoopInv, BusyKind, Busy, Active, Unserved, Creating

\* A run ends when every job rests.
LEMMA ExitOnce ==
    ASSUME LoopInv, OnceInv, Exit
    PROVE  OnceInv'
  <1>1. UNCHANGED <<req, late, made, runs>> /\ running' = FALSE
        BY DEF Exit, netVars, ghostVars
  <1>2. \A i \in Job : ~Unserved(i)
        BY RestingIdle DEF Exit
  <1>3. \A i \in Job : req'[i].job = i /\ ~Unserved(i)'
        BY <1>1, <1>2 DEF OnceInv, Once, Unserved
  <1> QED BY <1>1, <1>3, RunOver

\* engine_abort gives up every request in flight.
LEMMA AbortOnce ==
    ASSUME LoopInv, OnceInv, Abort
    PROVE  OnceInv'
  <1>1. running' = FALSE /\ made' = made /\ runs' = runs
        BY DEF Abort, ghostVars
  <1>2. late' \subseteq late \cup Abandoned(Job)
        BY DEF Abort, Abandoned
  <1>3. ASSUME NEW i \in Job PROVE req'[i].job = i /\ ~Unserved(i)'
    <2>1. req'[i] = IF Active(jobs[i]) THEN NoRequest(i) ELSE req[i]
          BY DEF Abort
    <2>2. CASE Active(jobs[i])
          BY <2>1, <2>2 DEF NoRequest, Unserved, Creating
    <2>3. CASE ~Active(jobs[i])
          BY <2>1, <2>3, RestingIdle DEF OnceInv, Once, Unserved
    <2> QED BY <2>2, <2>3
  <1> QED BY <1>1, <1>2, <1>3, RunOver

\* A crash gives up every request in flight.
LEMMA CrashOnce ==
    ASSUME LoopInv, OnceInv, Crash
    PROVE  OnceInv'
  <1>1. running' = FALSE /\ made' = made /\ runs' = runs
        BY DEF Crash, ghostVars
  <1>2. \A i \in Job : req'[i].job = i /\ ~Unserved(i)'
        BY DEF Crash, NoRequest, Unserved, Creating
  <1> QED BY <1>1, <1>2, RunOver DEF Crash

-----------------------------------------------------------------------------
(* The invariant                                                            *)

\* Nothing was uploaded before the first run.
LEMMA InitOnce == Init => OnceInv
  <1> SUFFICES ASSUME Init, NEW i \in Job PROVE Once(i)
      BY DEF OnceInv
  <1>1. LateOf(i) = {}
        BY DEF Init, LateOf
  <1>2. IsFiniteSet(LateOf(i)) /\ Cardinality(LateOf(i)) = 0
        BY <1>1, FS_EmptySet
  <1>3. req[i].job = i /\ Pending(i) = 0 /\ made[i] = 0 /\ runs = 0
        BY DEF Init, NoRequest, Pending, Waiting, Unserved, Creating
  <1> QED BY <1>2, <1>3 DEF Once

\* OnceInv is inductive, given LoopInv.
LEMMA NextOnce == LoopInv /\ LoopInv' /\ OnceInv /\ [Next]_vars => OnceInv'
  <1> SUFFICES ASSUME LoopInv, LoopInv', OnceInv, [Next]_vars PROVE OnceInv'
      OBVIOUS
  <1>1. CASE Interrupt \/ RecordResult \/ ServerForgets \/ TimePasses
             \/ (\E f \in File : EditFile(f)) \/ UNCHANGED vars
    <2>1. UNCHANGED <<jobs, running, req, late, made, runs>>
          BY <1>1 DEF Interrupt, RecordResult, ServerForgets, TimePasses, EditFile,
                      vars, engineVars, netVars, ghostVars
    <2> QED BY <2>1, QuietOnce
  <1>2. ASSUME NEW j \in Job,
               KickOff(j) \/ WakeUp(j) \/ Advance(j) \/ NetworkError(j)
               \/ CancelTransfer(j) \/ ServeRequest(j)
        PROVE  OnceInv'
        BY <1>2, KickOffOnce, WakeUpOnce, AdvanceOnce, NetworkErrorOnce,
           CancelTransferOnce, ServeRequestOnce
  <1> QED BY <1>1, <1>2, StartRunOnce, ExitOnce, AbortOnce, CrashOnce, ServeLateOnce
          DEF Next, Environment

\* init and sharex are sent once per run and never repeated after a network
\* error, so that however answers are lost, requests delayed, runs aborted,
\* crashed and begun again, no file argument is uploaded more often than the
\* program was run.
THEOREM UploadedOnce == Spec => []NoDoubleUpload
  <1>1. LoopInv /\ OnceInv => NoDoubleUpload
    <2> SUFFICES ASSUME LoopInv, OnceInv, NEW j \in Job PROVE made[j] <= runs
        BY DEF NoDoubleUpload
    <2>1. Once(j)
          BY DEF OnceInv
    <2>2. made[j] \in Nat /\ runs \in Nat /\ Cardinality(LateOf(j)) \in Nat
          /\ Pending(j) \in {0, 1}
          BY <2>1, Numbers DEF Once
    <2>3. made[j] + Cardinality(LateOf(j)) + Pending(j) <= runs
          BY <2>1 DEF Once
    <2> HIDE DEF Pending
    <2> QED BY <2>2, <2>3
  <1> QED BY <1>1, InitOnce, NextOnce, LoopInvHolds, PTL DEF Spec

-----------------------------------------------------------------------------
(***************************************************************************)
(* What one step of the event loop does to its job, its handle and the     *)
(* sessions, summed up once for all handlers (Effect).                     *)
(***************************************************************************)

\* A request goes out under the job's token, and a chunk is read from the
\* file as it is now; an idle handle has no token.
Sends(j) ==
    /\ req'[j].answer = "none"
    /\ req'[j].tok = IF req'[j].kind = "none" THEN NoToken ELSE jobs'[j].token
    /\ req'[j].kind = "chunk" => req'[j].version = version[source[j]]

\* Job j is left as `job`, in one of `states`, with or without a request out.
Leaves(j, job, states) ==
    /\ Others(j) /\ Sends(j)
    /\ jobs'[j].state \in states
    /\ jobs'[j].token = job.token /\ jobs'[j].dtok = job.dtok
    /\ jobs'[j].stamp = job.stamp /\ jobs'[j].sent = job.sent
    /\ jobs'[j].retry = job.retry

\* A settled job stays as it was put.
LEMMA SettleLeaves ==
    ASSUME LoopInv, NEW j \in Job, NEW job, Settle(j, job)
    PROVE  Leaves(j, job, {job.state})
  <1>1. jobs' = [jobs EXCEPT ![j] = job] /\ req' = [req EXCEPT ![j] = NoRequest(j)]
        BY DEF Settle
  <1>2. jobs \in [Job -> JobRecord] /\ req \in [Job -> Request]
        BY DEF LoopInv, TypeOK
  <1>3. jobs'[j] = job /\ req'[j] = NoRequest(j) /\ Others(j)
        BY <1>1, <1>2 DEF Others
  <1>4. Sends(j)
        BY <1>3 DEF Sends, NoRequest
  <1> QED BY <1>3, <1>4 DEF Leaves

\* Setting the state of a job leaves the rest of it.
LEMMA StateFields ==
    ASSUME NEW job \in JobRecord, NEW state
    PROVE  LET set == [job EXCEPT !.state = state] IN
           /\ set.state = state /\ set.token = job.token /\ set.dtok = job.dtok
           /\ set.stamp = job.stamp /\ set.sent = job.sent /\ set.retry = job.retry
  BY DEF JobRecord

\* A failed job keeps everything but its state.
LEMMA FailLeaves ==
    ASSUME LoopInv, NEW j \in Job, NEW job \in JobRecord, Fail(j, job)
    PROVE  Leaves(j, job, {"failed"})
  <1> DEFINE failed == [job EXCEPT !.state = "failed"]
  <1>1. Leaves(j, failed, {failed.state})
        BY SettleLeaves DEF Fail
  <1>2. /\ failed.state = "failed" /\ failed.token = job.token /\ failed.dtok = job.dtok
        /\ failed.stamp = job.stamp /\ failed.sent = job.sent /\ failed.retry = job.retry
        BY StateFields
  <1> HIDE DEF failed
  <1> QED BY <1>1, <1>2 DEF Leaves

\* A job that starts a request is left in the state of that request, or fails.
LEMMA StartLeaves ==
    ASSUME LoopInv, NEW j \in Job, NEW job \in JobRecord, NEW kind \in RequestKind,
           Start(j, job, kind)
    PROVE  Leaves(j, job, {kind, "failed"})
  <1>1. CASE Fail(j, job)
        BY <1>1, FailLeaves DEF Leaves
  <1>2. CASE ~Fail(j, job)
    <2> DEFINE sent == [NoRequest(j) EXCEPT
                           !.kind = kind, !.tok = job.token,
                           !.chunk = IF kind = "chunk" THEN job.chunk ELSE 0,
                           !.version = IF kind \in {"chunk", "sharex"}
                                       THEN version[source[j]] ELSE 1]
               started == [job EXCEPT !.state = kind]
    <2>1. jobs' = [jobs EXCEPT ![j] = started] /\ req' = [req EXCEPT ![j] = sent]
          BY <1>2 DEF Start
    <2>2. /\ sent.answer = "none" /\ sent.tok = job.token
          /\ sent.kind = kind /\ (kind = "chunk" => sent.version = version[source[j]])
          BY DEF NoRequest
    <2>3. /\ started.state = kind /\ started.token = job.token /\ started.dtok = job.dtok
          /\ started.stamp = job.stamp /\ started.sent = job.sent /\ started.retry = job.retry
          BY StateFields
    <2> HIDE DEF sent, started
    <2>4. jobs \in [Job -> JobRecord] /\ req \in [Job -> Request]
          BY DEF LoopInv, TypeOK
    <2>5. jobs'[j] = started /\ req'[j] = sent /\ Others(j)
          BY <2>1, <2>4 DEF Others
    <2>6. Sends(j)
          BY <2>2, <2>3, <2>5, KindIsState DEF Sends
    <2> QED BY <2>3, <2>5, <2>6 DEF Leaves
  <1> QED BY <1>1, <1>2

\* job_start_complete only counts the attempt.
LEMMA StartCompleteLeaves ==
    ASSUME LoopInv, NEW j \in Job, NEW job \in JobRecord, StartComplete(j, job)
    PROVE  Leaves(j, job, {"complete", "failed"})
  <1> DEFINE counted == [job EXCEPT !.completes = IF @ < 2 THEN @ + 1 ELSE 2]
  <1>1. counted \in JobRecord
        BY DEF JobRecord
  <1>2. /\ counted.token = job.token /\ counted.dtok = job.dtok /\ counted.stamp = job.stamp
        /\ counted.sent = job.sent /\ counted.retry = job.retry
        BY DEF JobRecord
  <1>3. Start(j, counted, "complete")
        BY DEF StartComplete
  <1> HIDE DEF counted
  <1>4. Leaves(j, counted, {"complete", "failed"})
        BY <1>1, <1>3, StartLeaves DEF RequestKind
  <1> QED BY <1>2, <1>4 DEF Leaves

\* The tail of job_advance leaves the bitmap and the session as they are.
LEMMA NextRequestLeaves ==
    ASSUME LoopInv, NEW j \in Job, NEW job \in JobRecord, NextRequest(j, job)
    PROVE  Leaves(j, job, {"chunk", "complete", "failed"})
  <1>1. CASE StartComplete(j, job)
        BY <1>1, StartCompleteLeaves DEF Leaves
  <1>2. ASSUME NEW c \in NextMissing(job.sent), Start(j, [job EXCEPT !.chunk = c], "chunk")
        PROVE  Leaves(j, job, {"chunk", "complete", "failed"})
    <2> DEFINE aimed == [job EXCEPT !.chunk = c]
    <2>1. c \in Chunk
          BY DEF NextMissing
    <2>2. aimed \in JobRecord
          BY <2>1 DEF JobRecord
    <2>3. /\ aimed.token = job.token /\ aimed.dtok = job.dtok /\ aimed.stamp = job.stamp
          /\ aimed.sent = job.sent /\ aimed.retry = job.retry
          BY DEF JobRecord
    <2>4. Start(j, aimed, "chunk")
          BY <1>2
    <2> HIDE DEF aimed
    <2>5. Leaves(j, aimed, {"chunk", "failed"})
          BY <2>2, <2>4, StartLeaves DEF RequestKind
    <2> QED BY <2>3, <2>5 DEF Leaves
  <1> QED BY <1>1, <1>2 DEF NextRequest

-----------------------------------------------------------------------------
(* The states of a job that has no session yet.                             *)
Early == {"start", "init", "initBackoff", "sharex"}

\* The job asks for the metadata of what it uploaded, or waits to.
Verifying(job) ==
    \/ job.state = "verify"
    \/ job.state = "controlBackoff" /\ job.retry = "verify"

SameSession(j) ==
    /\ jobs'[j].token = jobs[j].token /\ jobs'[j].dtok = jobs[j].dtok
    /\ jobs'[j].sent = jobs[j].sent

\* The answer to init that opens a session.
Created(j) == req[j].kind = "init" /\ req[j].answer = "ok"

\* The job goes on, or fails, with the session it had.
Continues(j) ==
    /\ KeepSessions /\ SameSession(j)
    /\ UNCHANGED <<recording, acked, known>>
    /\ jobs'[j].state # "done"
    /\ jobs'[j].state \in Early => jobs[j].state \in Early
    /\ Verifying(jobs'[j]) =>
           \/ Verifying(jobs[j])
           \/ req[j].kind = "complete" /\ req[j].answer = "404"

\* The job takes up a session of sessions.json.
Resumes(j) ==
    /\ jobs[j].resume
    /\ KeepSessions
    /\ UNCHANGED <<recording, acked, known>>
    /\ jobs'[j].state \in {"status", "failed"}
    /\ \E t \in Store!FindSource(mem, source[j], jobs[j].stamp) :
          /\ jobs'[j].token = t
          /\ jobs'[j].dtok = mem[t].dtok /\ jobs'[j].sent = mem[t].sent

\* The job's session, the one it had or the one just opened, is written.
Records(j) ==
    /\ mem' = Store!Put(mem, jobs'[j].token,
                        Store!SessionOf(source[j], jobs[j].stamp,
                                        jobs'[j].sent, jobs'[j].dtok))
    /\ SaveSessions
    /\ UNCHANGED <<recording, acked>>
    /\ jobs'[j].state \in {"chunk", "complete", "failed"}
    /\ \/ /\ Created(j)
          /\ jobs'[j].token = req[j].tok /\ jobs'[j].dtok = TRUE
          /\ known' = known \cup {req[j].tok}
       \/ /\ req[j].kind \in {"status", "chunk"}
          /\ jobs'[j].token = jobs[j].token /\ jobs'[j].dtok = jobs[j].dtok
          /\ UNCHANGED known

\* The session is given up: the server denies it, or has no metadata of it.
GivesUp(j) ==
    /\ SameSession(j) /\ DropSession(jobs[j].token)
    /\ UNCHANGED <<recording, acked, known>>
    /\ jobs'[j].state = "failed"
    /\ \/ /\ req[j].kind \in {"status", "chunk", "complete"} /\ req[j].answer = "404"
          /\ req[j].kind = "complete" => jobs[j].completes <= 1
       \/ /\ req[j].kind = "verify" /\ jobs[j].state = "verify"
          /\ req[j].answer \in {"404"} \cup ErrorAnswer

\* The upload is published and its session goes.
Succeeds(j) ==
    /\ SameSession(j) /\ DropSession(jobs[j].token)
    /\ jobs'[j].state = "done"
    /\ req[j].kind \in {"sharex", "complete", "verify"} /\ req[j].kind = jobs[j].state
    /\ req[j].answer \in {"ok", "bad"}
    /\ acked' = acked \cup {req[j].tok}
    /\ recording' = IF req[j].answer = "ok"
                    THEN [tok |-> req[j].tok,
                          dtok |-> IF req[j].kind = "verify" THEN jobs[j].dtok ELSE TRUE]
                    ELSE NoRow
    /\ known' = IF req[j].answer = "ok" THEN known \cup {req[j].tok} ELSE known

Effect(j) ==
    /\ LoopReady /\ LoopFrame /\ Others(j) /\ Sends(j)
    /\ Active(jobs[j])
    /\ jobs'[j].stamp = jobs[j].stamp
    /\ late' \subseteq late \cup {req[j]}
    /\ Continues(j) \/ Resumes(j) \/ Records(j) \/ GivesUp(j) \/ Succeeds(j)

\* A job left with its session and nothing written goes on with it.
LEMMA ContinuesEffect ==
    ASSUME LoopInv, NEW j \in Job, NEW states, Leaves(j, jobs[j], states),
           LoopReady, LoopFrame, KeepSessions, UNCHANGED <<recording, acked, known>>,
           late' \subseteq late \cup {req[j]}, Active(jobs[j]), "done" \notin states,
           jobs'[j].state \in Early => jobs[j].state \in Early,
           Verifying(jobs'[j]) =>
               \/ Verifying(jobs[j])
               \/ req[j].kind = "complete" /\ req[j].answer = "404"
    PROVE  Effect(j)
  <1>1. SameSession(j) /\ jobs'[j].state # "done"
        BY DEF Leaves, SameSession
  <1>2. Continues(j)
        BY <1>1 DEF Continues
  <1> QED BY <1>2 DEF Effect, Leaves

\* A failed job has nothing more to verify.
LEMMA FailEffect ==
    ASSUME LoopInv, NEW j \in Job, Fail(j, jobs[j]),
           LoopReady, LoopFrame, KeepSessions, UNCHANGED <<recording, acked, known>>,
           late' \subseteq late \cup {req[j]}, Active(jobs[j])
    PROVE  Effect(j)
  <1>1. jobs[j] \in JobRecord
        BY DEF LoopInv, TypeOK
  <1>2. Leaves(j, jobs[j], {"failed"})
        BY <1>1, FailLeaves
  <1>3. jobs'[j].state = "failed"
        BY <1>2 DEF Leaves
  <1> QED BY <1>2, <1>3, ContinuesEffect DEF Early, Verifying

\* What job_start_* leaves of a job that goes on.
LEMMA StartEffect ==
    ASSUME LoopInv, NEW j \in Job, NEW kind \in RequestKind, Start(j, jobs[j], kind),
           LoopReady, LoopFrame, KeepSessions, UNCHANGED <<late, recording, acked, known>>,
           Active(jobs[j]), kind \in {"init", "sharex"} => jobs[j].state \in Early,
           kind = "verify" => \/ Verifying(jobs[j])
                              \/ req[j].kind = "complete" /\ req[j].answer = "404"
    PROVE  Effect(j)
  <1>1. jobs[j] \in JobRecord
        BY DEF LoopInv, TypeOK
  <1>2. Leaves(j, jobs[j], {kind, "failed"})
        BY <1>1, StartLeaves
  <1>3. jobs'[j].state \in {kind, "failed"}
        BY <1>2 DEF Leaves
  <1>4. kind \notin {"start", "initBackoff", "controlBackoff", "done"}
        BY DEF RequestKind
  <1>5. jobs'[j].state \in Early => jobs[j].state \in Early
        BY <1>3, <1>4 DEF Early
  <1>6. Verifying(jobs'[j]) => kind = "verify"
        BY <1>3, <1>4 DEF Verifying
  <1>7. "done" \notin {kind, "failed"}
        BY <1>4
  <1> QED BY <1>2, <1>5, <1>6, <1>7, ContinuesEffect

\* The same for job_start_complete.
LEMMA StartCompleteEffect ==
    ASSUME LoopInv, NEW j \in Job, StartComplete(j, jobs[j]),
           LoopReady, LoopFrame, KeepSessions, UNCHANGED <<late, recording, acked, known>>,
           Active(jobs[j])
    PROVE  Effect(j)
  <1>1. jobs[j] \in JobRecord
        BY DEF LoopInv, TypeOK
  <1>2. Leaves(j, jobs[j], {"complete", "failed"})
        BY <1>1, StartCompleteLeaves
  <1>3. jobs'[j].state \in {"complete", "failed"}
        BY <1>2 DEF Leaves
  <1> QED BY <1>2, <1>3, ContinuesEffect DEF Early, Verifying

\* job_kick_off
LEMMA KickOffEffect ==
    ASSUME LoopInv, NEW j \in Job, KickOff(j)
    PROVE  Effect(j)
  <1>1. /\ LoopReady /\ LoopFrame /\ KeepSessions
        /\ UNCHANGED <<late, recording, acked, known>> /\ jobs[j].state = "start"
        BY DEF KickOff, MayStart
  <1>2. Active(jobs[j]) /\ jobs[j].state \in Early
        BY <1>1 DEF Active, Early
  <1>3. jobs[j] \in JobRecord /\ mem \in Table
        BY DEF LoopInv, TypeOK
  <1>4. CASE Start(j, jobs[j], IF j \in SingleShot THEN "sharex" ELSE "init")
        BY <1>1, <1>2, <1>4, StartEffect DEF RequestKind
  <1>5. ASSUME NEW t \in Resumable(j),
               Start(j, [jobs[j] EXCEPT !.token = t, !.dtok = mem[t].dtok,
                                        !.sent = mem[t].sent], "status")
        PROVE  Effect(j)
    <2> DEFINE job == [jobs[j] EXCEPT !.token = t, !.dtok = mem[t].dtok, !.sent = mem[t].sent]
    <2>1. t \in Store!FindSource(mem, source[j], jobs[j].stamp) /\ jobs[j].resume
          BY DEF Resumable
    <2>2. t \in Token /\ mem[t] # NoSession
          BY <2>1 DEF Store!FindSource, Store!SessionTokens
    <2>3. mem[t] \in Session
          BY <1>3, <2>2 DEF Table
    <2>4. mem[t].dtok \in BOOLEAN /\ mem[t].sent \in SUBSET Chunk
          BY <2>3 DEF Session
    <2>5. job \in JobRecord
          BY <1>3, <2>2, <2>4 DEF JobRecord
    <2>6. /\ job.token = t /\ job.dtok = mem[t].dtok /\ job.sent = mem[t].sent
          /\ job.stamp = jobs[j].stamp
          BY <1>3 DEF JobRecord
    <2>7. Start(j, job, "status")
          BY <1>5
    <2> HIDE DEF job
    <2>8. Leaves(j, job, {"status", "failed"})
          BY <2>5, <2>7, StartLeaves DEF RequestKind
    <2>9. Resumes(j)
          BY <1>1, <2>1, <2>6, <2>8 DEF Resumes, Leaves
    <2> QED BY <1>1, <1>2, <2>6, <2>8, <2>9 DEF Effect, Leaves
  <1> QED BY <1>4, <1>5 DEF KickOff

\* A timer that ran out
LEMMA WakeUpEffect ==
    ASSUME LoopInv, NEW j \in Job, WakeUp(j)
    PROVE  Effect(j)
  <1>1. /\ LoopReady /\ LoopFrame /\ KeepSessions
        /\ UNCHANGED <<late, recording, acked, known>>
        BY DEF WakeUp, MayStart
  <1>2. Active(jobs[j])
        BY DEF WakeUp, Active
  <1>3. CASE jobs[j].state = "initBackoff" /\ Start(j, jobs[j], "init")
        BY <1>1, <1>2, <1>3, StartEffect DEF RequestKind, Early
  <1>4. CASE Start(j, jobs[j], "chunk")
        BY <1>1, <1>2, <1>4, StartEffect DEF RequestKind
  <1>5. CASE /\ jobs[j].state = "controlBackoff" /\ jobs[j].retry \in {"status", "verify"}
             /\ Start(j, jobs[j], jobs[j].retry)
    <2>1. jobs[j].retry = "verify" => Verifying(jobs[j])
          BY <1>5 DEF Verifying
    <2>2. jobs[j].retry \in RequestKind /\ jobs[j].retry \notin {"init", "sharex"}
          BY <1>5 DEF RequestKind
    <2> QED BY <1>1, <1>2, <1>5, <2>1, <2>2, StartEffect
  <1>6. CASE StartComplete(j, jobs[j])
        BY <1>1, <1>2, <1>6, StartCompleteEffect
  <1> QED BY <1>3, <1>4, <1>5, <1>6 DEF WakeUp

\* What a request given up may leave behind is that request.
LEMMA AbandonedOne ==
    ASSUME NEW j \in Job, late' = late \cup Abandoned({j})
    PROVE  late' \subseteq late \cup {req[j]}
  BY DEF Abandoned

\* A transfer that failed
LEMMA NetworkErrorEffect ==
    ASSUME LoopInv, NEW j \in Job, NetworkError(j)
    PROVE  Effect(j)
  <1>1. /\ LoopReady /\ LoopFrame /\ KeepSessions /\ Busy(j)
        /\ UNCHANGED <<recording, acked, known>> /\ late' \subseteq late \cup {req[j]}
        BY AbandonedOne DEF NetworkError
  <1>2. jobs[j] \in JobRecord /\ jobs[j].state = req[j].kind /\ req[j] \in Request
        BY <1>1 DEF LoopInv, TypeOK, BusyKind
  <1>3. Active(jobs[j])
        BY <1>1, <1>2 DEF Active, Busy, Request, RequestKind
  <1>4. CASE Fail(j, jobs[j])
        BY <1>1, <1>3, <1>4, FailEffect
  <1>5. CASE ~Fail(j, jobs[j])
    <2> DEFINE job == [jobs[j] EXCEPT
                !.attempt = @ + 1, !.retry = jobs[j].state,
                !.state = IF jobs[j].state = "chunk" THEN "chunkBackoff"
                          ELSE "controlBackoff"]
    <2>1. Settle(j, job)
          BY <1>5 DEF NetworkError
    <2>2. /\ job.token = jobs[j].token /\ job.dtok = jobs[j].dtok /\ job.sent = jobs[j].sent
          /\ job.stamp = jobs[j].stamp /\ job.retry = jobs[j].state
          /\ job.state \in {"chunkBackoff", "controlBackoff"}
          BY <1>2 DEF JobRecord
    <2> HIDE DEF job
    <2>3. Leaves(j, job, {job.state})
          BY <2>1, SettleLeaves
    <2>4. Continues(j)
      <3>1. SameSession(j)
            BY <2>2, <2>3 DEF SameSession, Leaves
      <3>2. jobs'[j].state \in {"chunkBackoff", "controlBackoff"}
            BY <2>2, <2>3 DEF Leaves
      <3>3. jobs'[j].state # "done" /\ jobs'[j].state \notin Early
            BY <3>2 DEF Early
      <3>4. Verifying(jobs'[j]) => Verifying(jobs[j])
            BY <2>2, <2>3, <3>2 DEF Leaves, Verifying
      <3> QED BY <1>1, <3>1, <3>3, <3>4 DEF Continues
    <2> QED BY <1>1, <1>3, <2>2, <2>3, <2>4 DEF Effect, Leaves
  <1> QED BY <1>4, <1>5

\* A transfer the signal flag cut off
LEMMA CancelTransferEffect ==
    ASSUME LoopInv, NEW j \in Job, CancelTransfer(j)
    PROVE  Effect(j)
  <1>1. /\ LoopReady /\ LoopFrame /\ KeepSessions /\ Busy(j) /\ Fail(j, jobs[j])
        /\ UNCHANGED <<recording, acked, known>> /\ late' \subseteq late \cup {req[j]}
        BY AbandonedOne DEF CancelTransfer
  <1>2. jobs[j].state = req[j].kind /\ req[j] \in Request
        BY <1>1 DEF LoopInv, TypeOK, BusyKind
  <1>3. Active(jobs[j])
        BY <1>1, <1>2 DEF Active, Busy, Request, RequestKind
  <1> QED BY <1>1, <1>3, FailEffect

\* An answer is handled by a live loop, for a job at work on it.
LEMMA AnsweredActive ==
    ASSUME LoopInv, NEW j \in Job, NEW kind \in RequestKind, NEW answers,
           Answered(j, kind, answers)
    PROVE  /\ LoopReady /\ jobs[j] \in JobRecord /\ Active(jobs[j])
           /\ jobs[j].state = kind /\ req[j].kind = kind
           /\ req[j].answer \in answers
  <1>1. kind \notin {"done", "failed"}
        BY DEF RequestKind
  <1> QED BY <1>1 DEF LoopInv, TypeOK, Answered, Active

\* init or sharex refused
LEMMA CapacityRefusedEffect ==
    ASSUME LoopInv, NEW j \in Job, CapacityRefused(j)
    PROVE  Effect(j)
  <1>1. PICK kind \in {"init", "sharex"} : Answered(j, kind, ErrorAnswer)
        BY DEF CapacityRefused
  <1>2. kind \in RequestKind /\ kind \in Early
        BY DEF RequestKind, Early
  <1>3. LoopReady /\ jobs[j] \in JobRecord /\ Active(jobs[j]) /\ jobs[j].state \in Early
        BY <1>1, <1>2, AnsweredActive
  <1>4. LoopFrame /\ KeepSessions /\ UNCHANGED <<late, recording, acked, known>>
        BY DEF CapacityRefused
  <1>5. CASE Fail(j, jobs[j])
        BY <1>3, <1>4, <1>5, FailEffect
  <1>6. CASE ~Fail(j, jobs[j])
    <2> DEFINE job == [jobs[j] EXCEPT !.state = "initBackoff", !.initRetries = 1]
    <2>1. Settle(j, job)
          BY <1>6 DEF CapacityRefused
    <2>2. /\ job.token = jobs[j].token /\ job.dtok = jobs[j].dtok /\ job.sent = jobs[j].sent
          /\ job.stamp = jobs[j].stamp /\ job.state = "initBackoff"
          BY <1>3 DEF JobRecord
    <2> HIDE DEF job
    <2>3. Leaves(j, job, {job.state})
          BY <2>1, SettleLeaves
    <2>4. SameSession(j) /\ jobs'[j].state = "initBackoff"
          BY <2>2, <2>3 DEF SameSession, Leaves
    <2>5. Continues(j)
          BY <1>3, <1>4, <2>4 DEF Continues, Verifying
    <2> QED BY <1>3, <1>4, <2>2, <2>3, <2>5 DEF Effect, Leaves
  <1> QED BY <1>5, <1>6

\* A session written before the next request goes out.
LEMMA RecordsEffect ==
    ASSUME LoopInv, NEW j \in Job, NEW job \in JobRecord,
           PersistSession(j, job), NextRequest(j, job), job.stamp = jobs[j].stamp,
           LoopReady, LoopFrame, UNCHANGED <<late, recording, acked>>, Active(jobs[j]),
           \/ /\ Created(j)
              /\ job.token = req[j].tok /\ job.dtok = TRUE
              /\ known' = known \cup {req[j].tok}
           \/ /\ req[j].kind \in {"status", "chunk"}
              /\ job.token = jobs[j].token /\ job.dtok = jobs[j].dtok
              /\ UNCHANGED known
    PROVE  Effect(j)
  <1>1. Leaves(j, job, {"chunk", "complete", "failed"})
        BY NextRequestLeaves
  <1>2. /\ mem' = Store!Put(mem, jobs'[j].token,
                            Store!SessionOf(source[j], jobs[j].stamp,
                                            jobs'[j].sent, jobs'[j].dtok))
        /\ SaveSessions
        BY <1>1 DEF PersistSession, Leaves
  <1>3. Records(j)
        BY <1>1, <1>2 DEF Records, Leaves
  <1> QED BY <1>1, <1>3 DEF Effect, Leaves

\* A session given up with its job.
LEMMA GivesUpEffect ==
    ASSUME LoopInv, NEW j \in Job, DropSession(jobs[j].token), Fail(j, jobs[j]),
           LoopReady, LoopFrame, UNCHANGED <<late, recording, acked, known>>, Active(jobs[j]),
           \/ /\ req[j].kind \in {"status", "chunk", "complete"} /\ req[j].answer = "404"
              /\ req[j].kind = "complete" => jobs[j].completes <= 1
           \/ /\ req[j].kind = "verify" /\ jobs[j].state = "verify"
              /\ req[j].answer \in {"404"} \cup ErrorAnswer
    PROVE  Effect(j)
  <1>1. jobs[j] \in JobRecord
        BY DEF LoopInv, TypeOK
  <1>2. Leaves(j, jobs[j], {"failed"})
        BY <1>1, FailLeaves
  <1>3. SameSession(j) /\ jobs'[j].state = "failed"
        BY <1>2 DEF SameSession, Leaves
  <1>4. GivesUp(j)
        BY <1>3 DEF GivesUp
  <1> QED BY <1>2, <1>4 DEF Effect, Leaves

\* The answer to init
LEMMA InitReplyEffect ==
    ASSUME LoopInv, NEW j \in Job, InitReply(j)
    PROVE  Effect(j)
  <1>1. LoopFrame /\ UNCHANGED <<late, recording, acked>>
        BY DEF InitReply
  <1>2. CASE Answered(j, "init", {"ok"})
    <2> DEFINE job == [jobs[j] EXCEPT !.token = req[j].tok, !.dtok = TRUE, !.sent = {}]
    <2>1. /\ LoopReady /\ jobs[j] \in JobRecord /\ Active(jobs[j])
          /\ req[j].kind = "init" /\ req[j].answer = "ok"
          BY <1>2, AnsweredActive DEF RequestKind
    <2>2. req[j].tok \in Token
          BY <2>1 DEF LoopInv, ReplyNamed
    <2>3. job \in JobRecord
          BY <2>1, <2>2 DEF JobRecord
    <2>4. job.token = req[j].tok /\ job.dtok = TRUE /\ job.stamp = jobs[j].stamp
          BY <2>1 DEF JobRecord
    <2>5. PersistSession(j, job) /\ NextRequest(j, job) /\ known' = known \cup {req[j].tok}
          BY <2>1 DEF InitReply, Answered
    <2>6. Created(j)
          BY <2>1 DEF Created
    <2> HIDE DEF job
    <2> QED BY <1>1, <2>1, <2>3, <2>4, <2>5, <2>6, RecordsEffect
  <1>3. CASE Answered(j, "init", {"bad"}) /\ Fail(j, jobs[j]) /\ KeepSessions /\ UNCHANGED known
    <2>1. LoopReady /\ Active(jobs[j])
          BY <1>3, AnsweredActive DEF RequestKind
    <2> QED BY <1>1, <1>3, <2>1, FailEffect
  <1> QED BY <1>2, <1>3 DEF InitReply

\* The answer to status
LEMMA StatusReplyEffect ==
    ASSUME LoopInv, NEW j \in Job, StatusReply(j)
    PROVE  Effect(j)
  <1>1. LoopFrame /\ UNCHANGED <<late, recording, acked, known>>
        BY DEF StatusReply
  <1> DEFINE job == [jobs[j] EXCEPT !.sent = req[j].got]
  <1>2. CASE /\ Answered(j, "status", {"ok"}) /\ PersistSession(j, job) /\ NextRequest(j, job)
    <2>1. LoopReady /\ jobs[j] \in JobRecord /\ Active(jobs[j]) /\ req[j].kind = "status"
          BY <1>2, AnsweredActive DEF RequestKind
    <2>2. req[j].got \in SUBSET Chunk
          BY DEF LoopInv, TypeOK, Request
    <2>3. job \in JobRecord
          BY <2>1, <2>2 DEF JobRecord
    <2>4. job.token = jobs[j].token /\ job.dtok = jobs[j].dtok /\ job.stamp = jobs[j].stamp
          BY <2>1 DEF JobRecord
    <2> HIDE DEF job
    <2> QED BY <1>1, <1>2, <2>1, <2>3, <2>4, RecordsEffect
  <1>3. CASE Answered(j, "status", {"404"}) /\ DropSession(jobs[j].token) /\ Fail(j, jobs[j])
    <2>1. LoopReady /\ Active(jobs[j]) /\ req[j].kind = "status" /\ req[j].answer = "404"
          BY <1>3, AnsweredActive DEF RequestKind
    <2> QED BY <1>1, <1>3, <2>1, GivesUpEffect
  <1>4. CASE /\ Answered(j, "status", {"bad"} \cup ErrorAnswer)
             /\ Fail(j, jobs[j]) /\ KeepSessions
    <2>1. LoopReady /\ Active(jobs[j])
          BY <1>4, AnsweredActive DEF RequestKind
    <2> QED BY <1>1, <1>4, <2>1, FailEffect
  <1> QED BY <1>2, <1>3, <1>4 DEF StatusReply

\* The answer to a chunk
LEMMA ChunkReplyEffect ==
    ASSUME LoopInv, NEW j \in Job, ChunkReply(j)
    PROVE  Effect(j)
  <1>1. LoopFrame /\ UNCHANGED <<late, recording, acked, known>>
        BY DEF ChunkReply
  <1> DEFINE job == [jobs[j] EXCEPT !.sent = @ \cup {jobs[j].chunk}, !.attempt = 0]
             again == [jobs[j] EXCEPT !.attempt = @ + 1, !.state = "chunkBackoff"]
  <1>2. CASE /\ Answered(j, "chunk", {"ok", "bad"}) /\ PersistSession(j, job)
             /\ NextRequest(j, job)
    <2>1. LoopReady /\ jobs[j] \in JobRecord /\ Active(jobs[j]) /\ req[j].kind = "chunk"
          BY <1>2, AnsweredActive DEF RequestKind
    <2>2. 0 \in 0 .. MaxRetries
          BY LimitsAssumption
    <2>3. job \in JobRecord
          BY <2>1, <2>2 DEF JobRecord
    <2>4. job.token = jobs[j].token /\ job.dtok = jobs[j].dtok /\ job.stamp = jobs[j].stamp
          BY <2>1 DEF JobRecord
    <2> HIDE DEF job
    <2> QED BY <1>1, <1>2, <2>1, <2>3, <2>4, RecordsEffect
  <1>3. CASE Answered(j, "chunk", {"404"}) /\ DropSession(jobs[j].token) /\ Fail(j, jobs[j])
    <2>1. LoopReady /\ Active(jobs[j]) /\ req[j].kind = "chunk" /\ req[j].answer = "404"
          BY <1>3, AnsweredActive DEF RequestKind
    <2> QED BY <1>1, <1>3, <2>1, GivesUpEffect
  <1>4. CASE Answered(j, "chunk", ErrorAnswer) /\ Fail(j, jobs[j]) /\ KeepSessions
    <2>1. LoopReady /\ Active(jobs[j])
          BY <1>4, AnsweredActive DEF RequestKind
    <2> QED BY <1>1, <1>4, <2>1, FailEffect
  <1>5. CASE Answered(j, "chunk", ErrorAnswer) /\ Settle(j, again) /\ KeepSessions
    <2>1. LoopReady /\ jobs[j] \in JobRecord /\ Active(jobs[j])
          BY <1>5, AnsweredActive DEF RequestKind
    <2>2. /\ again.token = jobs[j].token /\ again.dtok = jobs[j].dtok
          /\ again.sent = jobs[j].sent
          /\ again.stamp = jobs[j].stamp /\ again.state = "chunkBackoff"
          BY <2>1 DEF JobRecord
    <2> HIDE DEF again
    <2>3. Leaves(j, again, {again.state})
          BY <1>5, SettleLeaves
    <2>4. SameSession(j) /\ jobs'[j].state = "chunkBackoff"
          BY <2>2, <2>3 DEF SameSession, Leaves
    <2>5. Continues(j)
          BY <1>1, <1>5, <2>4 DEF Continues, Verifying, Early
    <2> QED BY <1>1, <2>1, <2>2, <2>3, <2>5 DEF Effect, Leaves
  <1> QED BY <1>2, <1>3, <1>4, <1>5 DEF ChunkReply

\* job_succeed
LEMMA SucceedEffect ==
    ASSUME LoopInv, NEW j \in Job, NEW kind \in {"sharex", "complete", "verify"},
           Answered(j, kind, {"ok", "bad"}),
           Succeed(j, IF kind = "verify" THEN jobs[j].dtok ELSE TRUE),
           LoopFrame, UNCHANGED late
    PROVE  Effect(j)
  <1>1. kind \in RequestKind
        BY DEF RequestKind
  <1>2. /\ LoopReady /\ jobs[j] \in JobRecord /\ Active(jobs[j])
        /\ jobs[j].state = kind /\ req[j].kind = kind
        /\ req[j].answer \in {"ok", "bad"}
        BY <1>1, AnsweredActive
  <1> DEFINE done == [jobs[j] EXCEPT !.state = "done"]
  <1>3. /\ done.state = "done" /\ done.token = jobs[j].token /\ done.dtok = jobs[j].dtok
        /\ done.stamp = jobs[j].stamp /\ done.sent = jobs[j].sent
        BY <1>2, StateFields
  <1>4. Settle(j, done)
        BY DEF Succeed
  <1> HIDE DEF done
  <1>5. Leaves(j, done, {done.state})
        BY <1>4, SettleLeaves
  <1>6. SameSession(j) /\ jobs'[j].state = "done"
        BY <1>3, <1>5 DEF SameSession, Leaves
  <1>7. Succeeds(j)
        BY <1>2, <1>6 DEF Succeeds, Succeed
  <1> QED BY <1>2, <1>3, <1>5, <1>7 DEF Effect, Leaves

\* The answer to sharex
LEMMA SharexReplyEffect ==
    ASSUME LoopInv, NEW j \in Job, SharexReply(j)
    PROVE  Effect(j)
  BY SucceedEffect DEF SharexReply

\* The answer to complete
LEMMA CompleteReplyEffect ==
    ASSUME LoopInv, NEW j \in Job, CompleteReply(j)
    PROVE  Effect(j)
  <1>1. LoopFrame /\ UNCHANGED late
        BY DEF CompleteReply
  <1>2. /\ LoopReady /\ jobs[j] \in JobRecord /\ Active(jobs[j])
        /\ jobs[j].state = "complete" /\ req[j].kind = "complete"
        BY AnsweredActive DEF CompleteReply, RequestKind
  <1>3. CASE Answered(j, "complete", {"ok", "bad"}) /\ Succeed(j, TRUE)
        BY <1>1, <1>3, SucceedEffect
  <1>4. CASE /\ jobs[j].reconcile < MaxReconcile
             /\ Start(j, [jobs[j] EXCEPT !.reconcile = @ + 1], "status")
             /\ KeepSessions /\ UNCHANGED <<recording, acked, known>>
    <2> DEFINE round == [jobs[j] EXCEPT !.reconcile = @ + 1]
    <2>1. jobs[j].reconcile + 1 \in 0 .. MaxReconcile
          BY <1>2, <1>4, LimitsAssumption DEF JobRecord
    <2>2. round \in JobRecord
          BY <1>2, <2>1 DEF JobRecord
    <2>3. /\ round.token = jobs[j].token /\ round.dtok = jobs[j].dtok
          /\ round.sent = jobs[j].sent /\ round.stamp = jobs[j].stamp
          BY <1>2 DEF JobRecord
    <2> HIDE DEF round
    <2>4. Leaves(j, round, {"status", "failed"})
          BY <1>4, <2>2, StartLeaves DEF RequestKind, round
    <2>5. SameSession(j) /\ jobs'[j].state \in {"status", "failed"}
          BY <2>3, <2>4 DEF SameSession, Leaves
    <2>6. Continues(j)
          BY <1>4, <2>5 DEF Continues, Verifying, Early
    <2> QED BY <1>1, <1>2, <2>3, <2>4, <2>6 DEF Effect, Leaves
  <1>5. CASE /\ Answered(j, "complete", {"404"}) /\ Start(j, jobs[j], "verify")
             /\ KeepSessions /\ UNCHANGED <<recording, acked, known>>
    <2>1. req[j].answer = "404"
          BY <1>5 DEF Answered
    <2> QED BY <1>1, <1>2, <1>5, <2>1, StartEffect DEF RequestKind
  <1>6. CASE /\ Answered(j, "complete", {"404"}) /\ jobs[j].completes <= 1
             /\ DropSession(jobs[j].token) /\ Fail(j, jobs[j]) /\ UNCHANGED <<recording, acked, known>>
    <2>1. req[j].answer = "404"
          BY <1>6 DEF Answered
    <2> QED BY <1>1, <1>2, <1>6, <2>1, GivesUpEffect
  <1>7. CASE Fail(j, jobs[j]) /\ KeepSessions /\ UNCHANGED <<recording, acked, known>>
        BY <1>1, <1>2, <1>7, FailEffect
  <1> QED BY <1>3, <1>4, <1>5, <1>6, <1>7 DEF CompleteReply

\* The answer to verify
LEMMA VerifyReplyEffect ==
    ASSUME LoopInv, NEW j \in Job, VerifyReply(j)
    PROVE  Effect(j)
  <1>1. LoopFrame /\ UNCHANGED late
        BY DEF VerifyReply
  <1>2. CASE Answered(j, "verify", {"ok", "bad"}) /\ Succeed(j, FilledDeleteToken(jobs[j]))
        BY <1>1, <1>2, SucceedEffect DEF FilledDeleteToken
  <1>3. CASE /\ Answered(j, "verify", {"404"} \cup ErrorAnswer)
             /\ DropSession(jobs[j].token) /\ Fail(j, jobs[j])
             /\ UNCHANGED <<recording, acked, known>>
    <2>1. /\ LoopReady /\ Active(jobs[j])
          /\ jobs[j].state = "verify" /\ req[j].kind = "verify"
          /\ req[j].answer \in {"404"} \cup ErrorAnswer
          BY <1>3, AnsweredActive DEF RequestKind
    <2> QED BY <1>1, <1>3, <2>1, GivesUpEffect
  <1> QED BY <1>2, <1>3 DEF VerifyReply

LoopAction(j) ==
    KickOff(j) \/ WakeUp(j) \/ Advance(j) \/ NetworkError(j) \/ CancelTransfer(j)

\* Every step of the event loop has such an effect.
LEMMA LoopEffect ==
    ASSUME LoopInv, NEW j \in Job, LoopAction(j)
    PROVE  Effect(j)
  BY KickOffEffect, WakeUpEffect, NetworkErrorEffect, CancelTransferEffect,
     InitReplyEffect, StatusReplyEffect, ChunkReplyEffect, CompleteReplyEffect,
     VerifyReplyEffect, SharexReplyEffect, CapacityRefusedEffect DEF LoopAction, Advance

-----------------------------------------------------------------------------
(***************************************************************************)
(* ResumeUnmixed.  A session is a token together with the source path and  *)
(* the stamp that sessions.json or a job keeps with it (Owns).  As long as *)
(* the file still has that stamp, the server holds bytes of that version   *)
(* only and no request under way, late ones included, carries others       *)
(* (Clean).  A token the server has not handed out yet, or has just handed *)
(* out, is nobody's and holds nothing (Fresh).                             *)
(***************************************************************************)
Owns(t, f, s) ==
    \/ mem[t] # NoSession /\ mem[t].file = f /\ mem[t].stamp = s
    \/ disk[t] # NoSession /\ disk[t].file = f /\ disk[t].stamp = s
    \/ \E j \in Job : jobs[j].token = t /\ source[j] = f /\ jobs[j].stamp = s

Fresh(t) ==
    /\ \A f \in File, s \in Version : ~Owns(t, f, s)
    /\ \A r \in late : r.tok # t
    /\ \A c \in Chunk : held[t][c] = 0

FreshInv ==
    /\ \A t \in Token : srv[t] = "unused" =>
          Fresh(t) /\ \A j \in Job : req[j].tok # t
    /\ \A j \in Job : Created(j) =>
          /\ Fresh(req[j].tok)
          /\ \A k \in Job \ {j} : req[k].tok # req[j].tok

Carries(r, t, s) == r.kind = "chunk" /\ r.tok = t => r.version = s

Clean(t, f, s) ==
    /\ s <= version[f]
    /\ s = version[f] =>
          /\ \A c \in Chunk : held[t][c] \in {0, s}
          /\ \A j \in Job : Carries(req[j], t, s)
          /\ \A r \in late : Carries(r, t, s)

OwnedClean ==
    \A t \in Token, f \in File, s \in Version : Owns(t, f, s) => Clean(t, f, s)

OneSource ==
    \A t \in Token, f, g \in File, s, u \in Version :
        Owns(t, f, s) /\ Owns(t, g, u) => f = g

Stamped == \A j \in Job : jobs[j].stamp <= version[source[j]]

SessionInv == FreshInv /\ OwnedClean /\ OneSource /\ Stamped

\* The types the proofs of this part need.
LEMMA SessionTypes ==
    ASSUME LoopInv
    PROVE  /\ mem \in Table /\ disk \in Table /\ version \in [File -> Version]
           /\ \A j \in Job : /\ jobs[j].token \in Token \cup {NoToken}
                             /\ jobs[j].stamp \in Version /\ source[j] \in File
           /\ \A j \in Job : Created(j) => req[j].tok \in Token
           /\ held \in [Token -> [Chunk -> 0 .. MaxVersion]]
           /\ srv \in [Token -> {"unused", "open", "file", "gone"}]
  <1>1. /\ mem \in Table /\ disk \in Table /\ version \in [File -> Version]
        /\ jobs \in [Job -> JobRecord] /\ ServerTypeOK
        BY DEF LoopInv, TypeOK
  <1>2. \A j \in Job : jobs[j] \in JobRecord
        BY <1>1
  <1>3. \A j \in Job : jobs[j].token \in Token \cup {NoToken} /\ jobs[j].stamp \in Version
        BY <1>2 DEF JobRecord
  <1>4. \A j \in Job : Created(j) => req[j].tok \in Token
        BY DEF LoopInv, ReplyNamed, Created
  <1> QED BY <1>1, <1>3, <1>4, SourceAssumption DEF ServerTypeOK

\* A session put into the table is the session of its token and of no other.
LEMMA PutRow ==
    ASSUME mem \in Table, NEW u, NEW session, mem' = Store!Put(mem, u, session)
    PROVE  \A t \in Token : mem'[t] = IF t = u THEN session ELSE mem[t]
  BY DEF Table, Store!Put

\* A session dropped leaves the others.
LEMMA DropRow ==
    ASSUME mem \in Table, NEW u, DropSession(u)
    PROVE  /\ \A t \in Token : mem'[t] \in {mem[t], NoSession} /\ (t # u => mem'[t] = mem[t])
           /\ disk' = mem' \/ disk' = disk
  BY DEF Table, DropSession, SaveSessions, Store!Remove

\* What a step of the loop makes of the owners of a session: one new owner at
\* most, of the token just created.
NewOwner(j, t, f, s) ==
    Created(j) /\ t = req[j].tok /\ f = source[j] /\ s = jobs[j].stamp

\* The step leaves the tables' sessions where they were.
LEMMA OwnersKept ==
    ASSUME LoopInv, NEW j \in Job, Others(j), jobs'[j].stamp = jobs[j].stamp,
           NEW t \in Token, NEW f \in File, NEW s \in Version,
           mem'[t] \in {mem[t], NoSession}, disk'[t] \in {mem'[t], disk[t]},
           jobs'[j].token = jobs[j].token, Owns(t, f, s)'
    PROVE  Owns(t, f, s)
  <1>1. CASE mem'[t] # NoSession /\ mem'[t].file = f /\ mem'[t].stamp = s
        BY <1>1 DEF Owns
  <1>2. CASE disk'[t] # NoSession /\ disk'[t].file = f /\ disk'[t].stamp = s
        BY <1>2 DEF Owns
  <1>3. ASSUME NEW k \in Job, jobs'[k].token = t, source[k] = f, jobs'[k].stamp = s
        PROVE  Owns(t, f, s)
    <2>1. jobs'[k].token = jobs[k].token /\ jobs'[k].stamp = jobs[k].stamp
          BY DEF Others
    <2> QED BY <1>3, <2>1 DEF Owns
  <1> QED BY <1>1, <1>2, <1>3 DEF Owns

\* A job that takes up a session becomes one more owner of what was owned.
LEMMA OwnersResumed ==
    ASSUME LoopInv, NEW j \in Job, Others(j), jobs'[j].stamp = jobs[j].stamp, Resumes(j),
           NEW t \in Token, NEW f \in File, NEW s \in Version, Owns(t, f, s)'
    PROVE  Owns(t, f, s)
  <1>1. mem' = mem /\ disk' = disk
        BY DEF Resumes, KeepSessions
  <1>2. CASE mem'[t] # NoSession /\ mem'[t].file = f /\ mem'[t].stamp = s
        BY <1>1, <1>2 DEF Owns
  <1>3. CASE disk'[t] # NoSession /\ disk'[t].file = f /\ disk'[t].stamp = s
        BY <1>1, <1>3 DEF Owns
  <1>4. ASSUME NEW k \in Job, jobs'[k].token = t, source[k] = f, jobs'[k].stamp = s
        PROVE  Owns(t, f, s)
    <2>1. CASE k # j
      <3>1. jobs'[k] = jobs[k]
            BY <2>1 DEF Others
      <3> QED BY <1>4, <3>1 DEF Owns
    <2>2. CASE k = j
      <3>1. t \in Store!FindSource(mem, source[j], jobs[j].stamp)
            BY <1>4, <2>2 DEF Resumes
      <3>2. mem[t] # NoSession /\ mem[t].file = source[j] /\ mem[t].stamp = jobs[j].stamp
            BY <3>1 DEF Store!FindSource, Store!SessionTokens
      <3> QED BY <1>4, <2>2, <3>2 DEF Owns
    <2> QED BY <2>1, <2>2
  <1> QED BY <1>2, <1>3, <1>4 DEF Owns

\* A session written is the job's own.
LEMMA OwnersRecorded ==
    ASSUME LoopInv, NEW j \in Job, Others(j), jobs'[j].stamp = jobs[j].stamp, Records(j),
           NEW t \in Token, NEW f \in File, NEW s \in Version, Owns(t, f, s)'
    PROVE  Owns(t, f, s) \/ NewOwner(j, t, f, s)
  <1> DEFINE session == Store!SessionOf(source[j], jobs[j].stamp, jobs'[j].sent, jobs'[j].dtok)
  <1>1. session.file = source[j] /\ session.stamp = jobs[j].stamp
        BY DEF Store!SessionOf
  <1>2. mem \in Table /\ mem' = Store!Put(mem, jobs'[j].token, session)
        BY SessionTypes DEF Records
  <1> HIDE DEF session
  <1>3. mem'[t] = IF t = jobs'[j].token THEN session ELSE mem[t]
        BY <1>2, PutRow
  <1>4. disk'[t] \in {mem'[t], disk[t]}
        BY DEF Records, SaveSessions
  <1>5. t = jobs'[j].token => \/ t = jobs[j].token
                              \/ Created(j) /\ t = req[j].tok
        BY DEF Records
  <1>6. CASE t # jobs'[j].token
    <2>1. mem'[t] = mem[t]
          BY <1>3, <1>6
    <2>2. ASSUME NEW k \in Job, jobs'[k].token = t, source[k] = f, jobs'[k].stamp = s
          PROVE  Owns(t, f, s)
      <3>1. jobs'[k] = jobs[k]
            BY <1>6, <2>2 DEF Others
      <3> QED BY <2>2, <3>1 DEF Owns
    <2> QED BY <1>4, <2>1, <2>2 DEF Owns
  <1>7. CASE t = jobs'[j].token
    <2>1. Owns(t, f, s) \/ (f = source[j] /\ s = jobs[j].stamp)
      <3>1. mem'[t].file = source[j] /\ mem'[t].stamp = jobs[j].stamp
            BY <1>1, <1>3, <1>7
      <3>2. ASSUME NEW k \in Job, jobs'[k].token = t, source[k] = f, jobs'[k].stamp = s
            PROVE  Owns(t, f, s) \/ (f = source[j] /\ s = jobs[j].stamp)
        <4>1. CASE k # j
          <5>1. jobs'[k] = jobs[k]
                BY <4>1 DEF Others
          <5> QED BY <3>2, <5>1 DEF Owns
        <4>2. CASE k = j
              BY <3>2, <4>2
        <4> QED BY <4>1, <4>2
      <3> QED BY <1>4, <3>1, <3>2 DEF Owns
    <2>2. t = jobs[j].token /\ f = source[j] /\ s = jobs[j].stamp => Owns(t, f, s)
          BY DEF Owns
    <2> QED BY <1>5, <1>7, <2>1, <2>2 DEF NewOwner
  <1> QED BY <1>6, <1>7

\* Together: a step of the loop makes at most one new owner.
LEMMA OwnersStep ==
    ASSUME LoopInv, NEW j \in Job, Effect(j),
           NEW t \in Token, NEW f \in File, NEW s \in Version, Owns(t, f, s)'
    PROVE  Owns(t, f, s) \/ NewOwner(j, t, f, s)
  <1>1. Others(j) /\ jobs'[j].stamp = jobs[j].stamp
        BY DEF Effect
  <1>2. CASE Continues(j)
    <2>1. mem'[t] = mem[t] /\ disk'[t] = disk[t] /\ jobs'[j].token = jobs[j].token
          BY <1>2 DEF Continues, KeepSessions, SameSession
    <2> QED BY <1>1, <2>1, OwnersKept
  <1>3. CASE Resumes(j)
        BY <1>1, <1>3, OwnersResumed
  <1>4. CASE Records(j)
        BY <1>1, <1>4, OwnersRecorded
  <1>5. CASE GivesUp(j) \/ Succeeds(j)
    <2>1. DropSession(jobs[j].token) /\ jobs'[j].token = jobs[j].token
          BY <1>5 DEF GivesUp, Succeeds, SameSession
    <2>2. mem \in Table
          BY SessionTypes
    <2>3. mem'[t] \in {mem[t], NoSession} /\ (disk' = mem' \/ disk' = disk)
          BY <2>1, <2>2, DropRow
    <2>4. disk'[t] \in {mem'[t], disk[t]}
          BY <2>3
    <2> QED BY <1>1, <2>1, <2>3, <2>4, OwnersKept
  <1> QED BY <1>2, <1>3, <1>4, <1>5 DEF Effect

\* The steps of the loop leave a fresh token alone.
LEMMA FreshKept ==
    ASSUME LoopInv, NEW j \in Job, Effect(j),
           NEW t \in Token, Fresh(t), req[j].tok # t
    PROVE  Fresh(t)' /\ req'[j].tok # t
  <1>1. \A f \in File, s \in Version : ~Owns(t, f, s)'
        BY OwnersStep DEF Fresh, NewOwner
  <1>2. late' \subseteq late \cup {req[j]} /\ held' = held
        BY DEF Effect, LoopFrame, serverVars
  <1>3. Fresh(t)'
        BY <1>1, <1>2 DEF Fresh
  <1>4. source[j] \in File /\ jobs'[j].stamp \in Version
        BY SessionTypes DEF Effect
  <1>5. jobs'[j].token # t
        BY <1>1, <1>4 DEF Owns
  <1>6. t # NoToken
        BY Bounds
  <1>7. req'[j].tok # t
        BY <1>5, <1>6 DEF Effect, Sends
  <1> QED BY <1>3, <1>7

\* FreshInv over a step of the loop.
LEMMA EffectFresh ==
    ASSUME LoopInv, SessionInv, NEW j \in Job, Effect(j)
    PROVE  FreshInv'
  <1>1. srv' = srv /\ (\A k \in Job \ {j} : req'[k] = req[k]) /\ req'[j].answer = "none"
        BY DEF Effect, LoopFrame, serverVars, Others, Sends
  <1>2. ASSUME NEW t \in Token, srv'[t] = "unused"
        PROVE  Fresh(t)' /\ \A k \in Job : req'[k].tok # t
    <2>1. Fresh(t) /\ \A k \in Job : req[k].tok # t
          BY <1>1, <1>2 DEF SessionInv, FreshInv
    <2>2. Fresh(t)' /\ req'[j].tok # t
          BY <2>1, FreshKept
    <2> QED BY <1>1, <2>1, <2>2
  <1>3. ASSUME NEW k \in Job, Created(k)'
        PROVE  Fresh(req[k].tok)' /\ \A i \in Job \ {k} : req'[i].tok # req'[k].tok
    <2>1. k # j
          BY <1>1, <1>3 DEF Created
    <2>2. req'[k] = req[k] /\ Created(k)
          BY <1>1, <1>3, <2>1 DEF Created
    <2>3. PICK t \in Token : t = req[k].tok
          BY <2>2, SessionTypes
    <2>4. Fresh(t) /\ \A i \in Job \ {k} : req[i].tok # t
          BY <2>2, <2>3 DEF SessionInv, FreshInv
    <2>5. Fresh(t)' /\ req'[j].tok # t
          BY <2>1, <2>4, FreshKept
    <2>6. \A i \in Job \ {k} : req'[i].tok # t
          BY <1>1, <2>4, <2>5
    <2>7. req'[k].tok = t
          BY <2>2, <2>3
    <2> QED BY <2>5, <2>6, <2>7 DEF Fresh, Owns
  <1> QED BY <1>2, <1>3 DEF FreshInv

\* A session already owned stays clean: what its job sends is the file's
\* present version.
LEMMA EffectCleanOld ==
    ASSUME LoopInv, SessionInv, NEW j \in Job, Effect(j),
           NEW t \in Token, NEW f \in File, NEW s \in Version, Owns(t, f, s),
           jobs'[j].token = t => source[j] = f
    PROVE  Clean(t, f, s)'
  <1>1. Clean(t, f, s)
        BY DEF SessionInv, OwnedClean
  <1>2. /\ version' = version /\ held' = held /\ late' \subseteq late \cup {req[j]}
        /\ \A k \in Job \ {j} : req'[k] = req[k]
        BY DEF Effect, LoopFrame, serverVars, Others
  <1>3. ASSUME s = version[f] PROVE Carries(req[j], t, s)'
    <2>1. t # NoToken
          BY Bounds
    <2>2. req'[j].tok = t => source[j] = f
          BY <2>1 DEF Effect, Sends
    <2>3. req'[j].kind = "chunk" => req'[j].version = version[source[j]]
          BY DEF Effect, Sends
    <2> QED BY <1>3, <2>2, <2>3 DEF Carries
  <1>4. ASSUME s = version[f], NEW k \in Job PROVE Carries(req[k], t, s)'
        BY <1>1, <1>2, <1>3, <1>4 DEF Clean, Carries
  <1>5. ASSUME s = version[f], NEW r \in late' PROVE Carries(r, t, s)
        BY <1>1, <1>2, <1>5 DEF Clean
  <1>6. ASSUME s = version[f], NEW c \in Chunk PROVE held'[t][c] \in {0, s}
        BY <1>1, <1>2, <1>6 DEF Clean
  <1>7. s <= version'[f]
        BY <1>1, <1>2 DEF Clean
  <1> QED BY <1>2, <1>4, <1>5, <1>6, <1>7 DEF Clean, Carries

\* The session just opened is clean.
LEMMA EffectCleanNew ==
    ASSUME LoopInv, SessionInv, NEW j \in Job, Effect(j), Created(j),
           NEW t, t = req[j].tok, NEW s, s = jobs[j].stamp
    PROVE  Clean(t, source[j], s)'
  <1>1. Fresh(t) /\ \A k \in Job \ {j} : req[k].tok # t
        BY DEF SessionInv, FreshInv
  <1>2. /\ version' = version /\ held' = held /\ late' \subseteq late \cup {req[j]}
        /\ \A k \in Job \ {j} : req'[k] = req[k]
        BY DEF Effect, LoopFrame, serverVars, Others
  <1>3. s <= version[source[j]]
        BY DEF SessionInv, Stamped
  <1>4. req'[j].kind = "chunk" => req'[j].version = version[source[j]]
        BY DEF Effect, Sends
  <1>5. jobs'[j].stamp = s
        BY DEF Effect
  <1>6. req[j].kind = "init"
        BY DEF Created
  <1>7. ASSUME s = version[source[j]], NEW k \in Job
        PROVE  req'[k].kind = "chunk" /\ req'[k].tok = t => req'[k].version = s
        BY <1>1, <1>2, <1>4, <1>7
  <1>8. ASSUME s = version[source[j]], NEW r \in late'
        PROVE  r.kind = "chunk" /\ r.tok = t => r.version = s
        BY <1>1, <1>2, <1>6, <1>8 DEF Fresh
  <1>9. \A c \in Chunk : held'[t][c] = 0
        BY <1>1, <1>2 DEF Fresh
  <1>10. /\ s <= version'[source[j]]
         /\ s = version'[source[j]] =>
               /\ \A c \in Chunk : held'[t][c] \in {0, s}
               /\ \A k \in Job : req'[k].kind = "chunk" /\ req'[k].tok = t => req'[k].version = s
               /\ \A r \in late' : r.kind = "chunk" /\ r.tok = t => r.version = s
        BY <1>2, <1>3, <1>7, <1>8, <1>9
  <1> QED BY <1>10 DEF Clean, Carries

\* Every session is clean after a step of the loop.
LEMMA EffectClean ==
    ASSUME LoopInv, SessionInv, NEW j \in Job, Effect(j)
    PROVE  OwnedClean' /\ OneSource' /\ Stamped'
  <1>1. ASSUME NEW t \in Token, NEW f \in File, NEW s \in Version, Owns(t, f, s)'
        PROVE  Owns(t, f, s) \/ NewOwner(j, t, f, s)
        BY <1>1, OwnersStep
  <1>2. ASSUME NEW t \in Token, NEW f \in File, NEW s \in Version, NewOwner(j, t, f, s)
        PROVE  \A g \in File, u \in Version : ~Owns(t, g, u)
        BY <1>2 DEF NewOwner, SessionInv, FreshInv, Fresh
  <1>3. OneSource'
    <2> SUFFICES ASSUME NEW t \in Token, NEW f \in File, NEW g \in File,
                        NEW s \in Version, NEW u \in Version,
                        Owns(t, f, s)', Owns(t, g, u)'
                 PROVE  f = g
        BY DEF OneSource
    <2>1. /\ Owns(t, f, s) \/ NewOwner(j, t, f, s)
          /\ Owns(t, g, u) \/ NewOwner(j, t, g, u)
          BY <1>1
    <2>2. CASE Owns(t, f, s) /\ Owns(t, g, u)
          BY <2>2 DEF SessionInv, OneSource
    <2>3. CASE NewOwner(j, t, f, s) /\ NewOwner(j, t, g, u)
          BY <2>3 DEF NewOwner
    <2> QED BY <1>2, <2>1, <2>2, <2>3
  <1>4. ASSUME NEW t \in Token, NEW f \in File, NEW s \in Version, Owns(t, f, s)'
        PROVE  Clean(t, f, s)'
    <2>1. jobs'[j].token = t => source[j] = f
      <3>1. SUFFICES ASSUME jobs'[j].token = t PROVE source[j] = f
            OBVIOUS
      <3>2. source[j] \in File
            BY SessionTypes
      <3>3. PICK u \in Version : u = jobs'[j].stamp
            BY SessionTypes DEF Effect
      <3>4. Owns(t, source[j], u)'
            BY <3>1, <3>3 DEF Owns
      <3> QED BY <1>3, <1>4, <3>2, <3>4 DEF OneSource
    <2>2. CASE Owns(t, f, s)
          BY <2>1, <2>2, EffectCleanOld
    <2>3. CASE NewOwner(j, t, f, s)
          BY <2>3, EffectCleanNew DEF NewOwner
    <2> QED BY <1>1, <1>4, <2>2, <2>3
  <1>5. Stamped'
    <2>1. version' = version /\ \A k \in Job : jobs'[k].stamp = jobs[k].stamp
          BY DEF Effect, LoopFrame, Others
    <2> QED BY <2>1 DEF Stamped, SessionInv
  <1> QED BY <1>3, <1>4, <1>5 DEF OwnedClean

\* SessionInv over a step of the loop.
LEMMA EffectSession ==
    ASSUME LoopInv, SessionInv, NEW j \in Job, Effect(j)
    PROVE  SessionInv'
  BY EffectFresh, EffectClean DEF SessionInv

-----------------------------------------------------------------------------
(* Server, environment and the life of a process.                           *)

\* The server answers j's request with an error and does nothing else.
Refused(j) ==
    /\ req'[j].kind = req[j].kind /\ req'[j].tok = req[j].tok
    /\ req'[j].version = req[j].version /\ req'[j].answer \in ErrorAnswer

\* Steps that make no owner, send nothing and write no chunk: a request stays
\* as it was, is refused or let go, and what was under way may come late.
Recedes ==
    /\ held' = held
    /\ \A t \in Token : srv'[t] = "unused" <=> srv[t] = "unused"
    /\ \A f \in File : version'[f] \in Version /\ version[f] <= version'[f]
    /\ \A t \in Token, f \in File, s \in Version : Owns(t, f, s)' => Owns(t, f, s)
    /\ \A j \in Job : \/ req'[j] = req[j]
                      \/ req'[j] = NoRequest(j)
                      \/ Refused(j)
    /\ \A r \in late' : \/ r \in late
                        \/ \E k \in Job : r = req[k] /\ req[k].answer = "none"
    /\ Stamped'

\* A fresh token stays fresh.
LEMMA RecedesFresh ==
    ASSUME LoopInv, SessionInv, Recedes
    PROVE  FreshInv'
  <1>1. ASSUME NEW t \in Token, Fresh(t),
               \A k \in Job : req[k].answer = "none" => req[k].tok # t
        PROVE  Fresh(t)'
    <2>1. \A f \in File, s \in Version : ~Owns(t, f, s)'
          BY <1>1 DEF Recedes, Fresh
    <2>2. \A r \in late' : r.tok # t
          BY <1>1 DEF Recedes, Fresh
    <2>3. \A c \in Chunk : held'[t][c] = 0
          BY <1>1 DEF Recedes, Fresh
    <2> QED BY <2>1, <2>2, <2>3 DEF Fresh
  <1>2. ASSUME NEW t \in Token, NEW k \in Job, req[k].tok # t PROVE req'[k].tok # t
    <2>1. NoRequest(k).tok = NoToken /\ t # NoToken
          BY Bounds DEF NoRequest
    <2> QED BY <1>2, <2>1 DEF Recedes, Refused
  <1>3. ASSUME NEW t \in Token, srv'[t] = "unused"
        PROVE  Fresh(t)' /\ \A k \in Job : req'[k].tok # t
    <2>1. Fresh(t) /\ \A k \in Job : req[k].tok # t
          BY <1>3 DEF Recedes, SessionInv, FreshInv
    <2> QED BY <1>1, <1>2, <2>1
  <1>4. ASSUME NEW k \in Job, Created(k)'
        PROVE  Fresh(req[k].tok)' /\ \A i \in Job \ {k} : req'[i].tok # req'[k].tok
    <2>1. req'[k] = req[k] \/ req'[k] = NoRequest(k) \/ Refused(k)
          BY DEF Recedes
    <2>2. /\ req'[k].kind = "init" /\ NoRequest(k).kind = "none"
          /\ req'[k].answer \notin ErrorAnswer
          BY <1>4 DEF Created, NoRequest, ErrorAnswer
    <2>3. req'[k] = req[k] /\ Created(k)
          BY <1>4, <2>1, <2>2 DEF Created, Refused
    <2>4. PICK t \in Token : t = req[k].tok
          BY <2>3, SessionTypes
    <2>5. Fresh(t) /\ \A i \in Job \ {k} : req[i].tok # t
          BY <2>3, <2>4 DEF SessionInv, FreshInv
    <2>6. \A i \in Job : req[i].answer = "none" => req[i].tok # t
          BY <2>3, <2>5 DEF Created
    <2>7. Fresh(t)'
          BY <1>1, <2>5, <2>6
    <2>8. \A i \in Job \ {k} : req'[i].tok # t
          BY <1>2, <2>5
    <2>9. req'[k].tok = t
          BY <2>3, <2>4
    <2> QED BY <2>7, <2>8, <2>9 DEF Fresh, Owns
  <1> QED BY <1>3, <1>4 DEF FreshInv

\* A clean session stays clean: an edit only makes its stamp an old one.
LEMMA RecedesSession ==
    ASSUME LoopInv, SessionInv, Recedes
    PROVE  SessionInv'
  <1>1. OneSource'
        BY DEF Recedes, SessionInv, OneSource
  <1>2. ASSUME NEW t \in Token, NEW f \in File, NEW s \in Version, Owns(t, f, s)'
        PROVE  Clean(t, f, s)'
    <2>1. Clean(t, f, s)
          BY <1>2 DEF Recedes, SessionInv, OwnedClean
    <2>2. /\ version[f] \in Nat /\ version'[f] \in Nat /\ s \in Nat
          /\ version[f] <= version'[f]
          BY SessionTypes DEF Recedes, Version
    <2>3. s <= version[f]
          BY <2>1 DEF Clean
    <2>4. s <= version'[f] /\ (s = version'[f] => s = version[f])
          BY <2>2, <2>3
    <2>5. ASSUME s = version[f], NEW k \in Job PROVE Carries(req[k], t, s)'
      <3>1. NoRequest(k).kind # "chunk"
            BY DEF NoRequest
      <3>2. Carries(req[k], t, s)
            BY <2>1, <2>5 DEF Clean
      <3>3. req'[k] = req[k] \/ req'[k] = NoRequest(k) \/ Refused(k)
            BY DEF Recedes
      <3> QED BY <3>1, <3>2, <3>3 DEF Carries, Refused
    <2>6. ASSUME s = version[f], NEW r \in late' PROVE Carries(r, t, s)
          BY <2>1, <2>6 DEF Recedes, Clean
    <2>7. ASSUME s = version[f], NEW c \in Chunk PROVE held'[t][c] \in {0, s}
          BY <2>1, <2>7 DEF Recedes, Clean
    <2> QED BY <2>4, <2>5, <2>6, <2>7 DEF Clean, Carries
  <1> QED BY <1>1, <1>2, RecedesFresh DEF SessionInv, OwnedClean, Recedes

\* What the server makes of the tokens when it takes request r as token t: a
\* chunk goes to the token it names, an upload to one nobody knows.
Taken(r, t) ==
    /\ \A u \in Token : /\ srv'[u] = "unused" => srv[u] = "unused"
                        /\ srv[u] \in {"file", "gone"} => srv'[u] = srv[u]
    /\ r.kind = "init" => held' = held
    /\ r.kind \in Creating => srv[t] = "unused" /\ srv'[t] # "unused"
    /\ r.kind \notin Creating => t = r.tok
    /\ \A u \in Token : u # t => held'[u] = held[u]
    /\ r.kind # "sharex" => \A c \in Chunk :
           \/ held'[t][c] = held[t][c]
           \/ r.kind = "chunk" /\ held'[t][c] = r.version

\* UploadServer's routes, summed up.
LEMMA ServeTakes ==
    ASSUME ServerTypeOK, NEW r \in Request, NEW t \in Token, NEW answer, Serve(r, t, answer)
    PROVE  Taken(r, t)
  <1>1. /\ srv \in [Token -> {"unused", "open", "file", "gone"}]
        /\ held \in [Token -> [Chunk -> 0 .. MaxVersion]]
        BY DEF ServerTypeOK
  <1>2. CASE r.kind = "init" /\ UploadInit(t, answer)
        BY <1>1, <1>2 DEF UploadInit, Taken, Creating
  <1>3. CASE r.kind = "sharex" /\ ShareX(t, r.version, answer)
        BY <1>1, <1>3 DEF ShareX, Taken, Creating
  <1>4. CASE r.kind = "chunk" /\ t = r.tok /\ PutChunk(t, r.chunk, r.version, answer)
    <2>1. CASE UNCHANGED serverVars
          BY <1>4, <2>1 DEF Taken, Creating, serverVars
    <2>2. CASE held' = [held EXCEPT ![t][r.chunk] = r.version] /\ UNCHANGED srv
      <3>1. \A u \in Token : u # t => held'[u] = held[u]
            BY <1>1, <2>2
      <3>2. \A c \in Chunk : held'[t][c] = held[t][c] \/ held'[t][c] = r.version
            BY <1>1, <2>2
      <3> QED BY <1>4, <2>2, <3>1, <3>2 DEF Taken, Creating
    <2> QED BY <1>4, <2>1, <2>2 DEF PutChunk
  <1>5. CASE r.kind = "status" /\ t = r.tok /\ UploadStatus(t, answer)
        BY <1>5 DEF UploadStatus, Taken, Creating, serverVars
  <1>6. CASE r.kind = "complete" /\ t = r.tok /\ UploadComplete(t, answer)
        BY <1>1, <1>6 DEF UploadComplete, Taken, Creating, serverVars
  <1>7. CASE r.kind = "verify" /\ t = r.tok /\ ServeMetadata(t, answer)
        BY <1>7 DEF ServeMetadata, Taken, Creating, serverVars
  <1> QED BY <1>2, <1>3, <1>4, <1>5, <1>6, <1>7 DEF Serve

\* A token nobody asks for is left as it was.
LEMMA TakenElsewhere ==
    ASSUME LoopInv, NEW r, NEW t \in Token, Taken(r, t), UNCHANGED <<mem, disk, jobs>>,
           late' \subseteq late, NEW u \in Token, u # t, Fresh(u)
    PROVE  Fresh(u)'
  <1>1. held'[u] = held[u]
        BY DEF Taken
  <1>2. \A f \in File, s \in Version : Owns(u, f, s)' <=> Owns(u, f, s)
        BY DEF Owns
  <1> QED BY <1>1, <1>2 DEF Fresh

\* The sessions after a step in which the server takes a request.
LEMMA TakenClean ==
    ASSUME LoopInv, SessionInv, NEW r, NEW t \in Token, Taken(r, t),
           r \in late \/ \E j \in Job : r = req[j],
           UNCHANGED <<mem, disk, jobs, version>>, late' \subseteq late,
           \A k \in Job :
               /\ req'[k].kind = req[k].kind /\ req'[k].version = req[k].version
               /\ req[k].kind = "chunk" => req'[k].tok = req[k].tok
    PROVE  OwnedClean' /\ OneSource' /\ Stamped'
  <1>1. ASSUME NEW u \in Token, NEW f \in File, NEW s \in Version
        PROVE  Owns(u, f, s)' <=> Owns(u, f, s)
        BY DEF Owns
  <1>2. OneSource'
        BY <1>1 DEF OneSource, SessionInv
  <1>3. Stamped'
        BY DEF Stamped, SessionInv
  <1>4. ASSUME NEW u \in Token, NEW f \in File, NEW s \in Version, Owns(u, f, s)
        PROVE  Clean(u, f, s)'
    <2>1. Clean(u, f, s)
          BY <1>4 DEF SessionInv, OwnedClean
    <2>2. ASSUME s = version[f], NEW k \in Job PROVE Carries(req[k], u, s)'
      <3>1. Carries(req[k], u, s)
            BY <2>1, <2>2 DEF Clean
      <3> QED BY <3>1 DEF Carries
    <2>3. ASSUME s = version[f], NEW x \in late' PROVE Carries(x, u, s)
          BY <2>1, <2>3 DEF Clean
    <2>4. ASSUME s = version[f], NEW c \in Chunk PROVE held'[u][c] \in {0, s}
      <3>1. held[u][c] \in {0, s} /\ Carries(r, u, s)
            BY <2>1, <2>4 DEF Clean
      <3>2. CASE u # t
            BY <3>1, <3>2 DEF Taken
      <3>3. CASE u = t
        <4>1. srv[t] # "unused"
              BY <1>4, <3>3 DEF SessionInv, FreshInv, Fresh
        <4>2. r.kind \notin Creating /\ t = r.tok
              BY <4>1 DEF Taken
        <4>3. held'[t][c] = held[t][c] \/ (r.kind = "chunk" /\ held'[t][c] = r.version)
              BY <4>2 DEF Taken, Creating
        <4> QED BY <3>1, <3>3, <4>2, <4>3 DEF Carries
      <3> QED BY <3>2, <3>3
    <2>5. s <= version'[f]
          BY <2>1 DEF Clean
    <2> QED BY <2>2, <2>3, <2>4, <2>5 DEF Clean, Carries
  <1>5. OwnedClean'
        BY <1>1, <1>4 DEF OwnedClean
  <1> QED BY <1>2, <1>3, <1>5

\* A request answered by the route it names
LEMMA ServedSession ==
    ASSUME LoopInv, SessionInv, NEW j \in Job, NEW t \in Token, Taken(req[j], t),
           UNCHANGED <<mem, disk, jobs, version, late>>,
           \A k \in Job \ {j} : req'[k] = req[k],
           req'[j].kind = req[j].kind, req'[j].version = req[j].version, req'[j].tok = t
    PROVE  SessionInv'
  <1>1. OwnedClean' /\ OneSource' /\ Stamped'
    <2>1. req[j].kind = "chunk" => t = req[j].tok
          BY DEF Taken, Creating
    <2> QED BY <2>1, TakenClean
  <1>2. ASSUME NEW u \in Token, Fresh(u), u # t PROVE Fresh(u)'
        BY <1>2, TakenElsewhere
  <1>3. ASSUME NEW u \in Token, srv'[u] = "unused"
        PROVE  Fresh(u)' /\ \A k \in Job : req'[k].tok # u
    <2>1. srv[u] = "unused"
          BY <1>3 DEF Taken
    <2>2. Fresh(u) /\ \A k \in Job : req[k].tok # u
          BY <2>1 DEF SessionInv, FreshInv
    <2>3. u # t
          BY <1>3, <2>2 DEF Taken
    <2> QED BY <1>2, <2>2, <2>3
  <1>4. ASSUME NEW k \in Job, Created(k)'
        PROVE  Fresh(req[k].tok)' /\ \A i \in Job \ {k} : req'[i].tok # req'[k].tok
    <2>1. CASE k = j
      <3>1. req[j].kind = "init"
            BY <1>4, <2>1 DEF Created
      <3>2. srv[t] = "unused" /\ held' = held
            BY <3>1 DEF Taken, Creating
      <3>3. Fresh(t) /\ \A i \in Job : req[i].tok # t
            BY <3>2 DEF SessionInv, FreshInv
      <3>4. \A f \in File, s \in Version : Owns(t, f, s)' <=> Owns(t, f, s)
            BY DEF Owns
      <3>5. Fresh(t)'
            BY <3>2, <3>3, <3>4 DEF Fresh
      <3> QED BY <2>1, <3>3, <3>5 DEF Fresh, Owns
    <2>2. CASE k # j
      <3>1. req'[k] = req[k] /\ Created(k)
            BY <1>4, <2>2 DEF Created
      <3>2. PICK u \in Token : u = req[k].tok
            BY <3>1, SessionTypes
      <3>3. Fresh(u) /\ \A i \in Job \ {k} : req[i].tok # u
            BY <3>1, <3>2 DEF SessionInv, FreshInv
      <3>4. u # t
        <4>1. CASE req[j].kind \in Creating
          <5>1. srv[t] = "unused"
                BY <4>1 DEF Taken
          <5> QED BY <3>2, <5>1 DEF SessionInv, FreshInv
        <4>2. CASE req[j].kind \notin Creating
              BY <2>2, <3>3, <4>2 DEF Taken
        <4> QED BY <4>1, <4>2
      <3>5. Fresh(u)'
            BY <1>2, <3>3, <3>4
      <3>6. \A i \in Job \ {k} : req'[i].tok # u
            BY <3>3, <3>4
      <3> QED BY <3>1, <3>2, <3>5, <3>6 DEF Fresh, Owns
    <2> QED BY <2>1, <2>2
  <1> QED BY <1>1, <1>3, <1>4 DEF SessionInv, FreshInv

\* The server takes j's request, or answers with an error of its own.
LEMMA ServeRequestSession ==
    ASSUME LoopInv, SessionInv, NEW j \in Job, ServeRequest(j)
    PROVE  SessionInv'
  <1>1. UNCHANGED <<mem, disk, jobs, version, late>>
        BY DEF ServeRequest, engineVars, fileVars
  <1>2. req \in [Job -> Request] /\ req[j] \in Request /\ ServerTypeOK
        BY DEF LoopInv, TypeOK
  <1>3. ASSUME NEW t \in Token, NEW answer \in Answer, NEW seen,
               Serve(req[j], t, answer),
               req' = [req EXCEPT ![j] =
                          [@ EXCEPT !.tok = t, !.answer = seen,
                                    !.got = IF req[j].kind = "status"
                                            THEN Received(t) ELSE {}]]
        PROVE  SessionInv'
    <2>1. Taken(req[j], t)
          BY <1>2, <1>3, ServeTakes
    <2>2. \A k \in Job \ {j} : req'[k] = req[k]
          BY <1>2, <1>3
    <2>3. req'[j].kind = req[j].kind /\ req'[j].version = req[j].version /\ req'[j].tok = t
          BY <1>2, <1>3 DEF Request
    <2> QED BY <1>1, <2>1, <2>2, <2>3, ServedSession
  <1>4. ASSUME NEW answer \in ServerErrors, UNCHANGED serverVars,
               req' = [req EXCEPT ![j] = [@ EXCEPT !.answer = answer]]
        PROVE  SessionInv'
    <2>1. \A k \in Job \ {j} : req'[k] = req[k]
          BY <1>2, <1>4
    <2>2. answer \in ErrorAnswer
          BY FaultsAssumption
    <2>3. /\ req'[j].kind = req[j].kind /\ req'[j].version = req[j].version
          /\ req'[j].tok = req[j].tok /\ req'[j].answer = answer
          BY <1>2, <1>4 DEF Request
    <2>4. Refused(j)
          BY <2>2, <2>3 DEF Refused
    <2>5. held' = held /\ srv' = srv
          BY <1>4 DEF serverVars
    <2>6. \A t \in Token, f \in File, s \in Version : Owns(t, f, s)' => Owns(t, f, s)
          BY <1>1 DEF Owns
    <2>7. Stamped'
          BY <1>1 DEF SessionInv, Stamped
    <2>8. \A f \in File : version'[f] \in Version /\ version[f] <= version'[f]
          BY <1>1, SessionTypes DEF Version
    <2>9. Recedes
          BY <1>1, <2>1, <2>4, <2>5, <2>6, <2>7, <2>8 DEF Recedes
    <2> QED BY <2>9, RecedesSession
  <1> QED BY <1>3, <1>4 DEF ServeRequest

\* A request that comes late is taken like any other.
LEMMA ServeLateSession ==
    ASSUME LoopInv, SessionInv, ServeLate
    PROVE  SessionInv'
  <1>1. PICK r \in late, t \in Token, answer \in Answer :
           Serve(r, t, answer) /\ late' = late \ {r}
        BY DEF ServeLate
  <1>2. UNCHANGED <<mem, disk, jobs, version, req>>
        BY DEF ServeLate, engineVars, fileVars
  <1>3. r \in Request /\ ServerTypeOK
        BY DEF LoopInv, TypeOK
  <1>4. Taken(r, t)
        BY <1>1, <1>3, ServeTakes
  <1>5. late' \subseteq late
        BY <1>1
  <1>6. OwnedClean' /\ OneSource' /\ Stamped'
        BY <1>2, <1>4, <1>5, TakenClean
  <1>7. ASSUME NEW u \in Token, Fresh(u), srv[t] = "unused" => u # t PROVE Fresh(u)'
    <2>1. u # t
          BY <1>4, <1>7 DEF Taken, Fresh
    <2> QED BY <1>2, <1>4, <1>5, <1>7, <2>1, TakenElsewhere
  <1>8. ASSUME NEW u \in Token, srv'[u] = "unused"
        PROVE  Fresh(u)' /\ \A k \in Job : req'[k].tok # u
    <2>1. srv[u] = "unused"
          BY <1>4, <1>8 DEF Taken
    <2>2. Fresh(u) /\ \A k \in Job : req[k].tok # u
          BY <2>1 DEF SessionInv, FreshInv
    <2>3. u # t
          BY <1>4, <1>8, <2>2 DEF Taken, Fresh
    <2> QED BY <1>2, <1>7, <2>2, <2>3
  <1>9. ASSUME NEW k \in Job, Created(k)'
        PROVE  Fresh(req[k].tok)' /\ \A i \in Job \ {k} : req'[i].tok # req'[k].tok
    <2>1. Created(k)
          BY <1>2, <1>9 DEF Created
    <2>2. PICK u \in Token : u = req[k].tok
          BY <2>1, SessionTypes
    <2>3. Fresh(u) /\ \A i \in Job \ {k} : req[i].tok # u
          BY <2>1, <2>2 DEF SessionInv, FreshInv
    <2>4. srv[t] = "unused" => u # t
          BY <2>2 DEF SessionInv, FreshInv
    <2>5. Fresh(u)'
          BY <1>7, <2>3, <2>4
    <2> QED BY <1>2, <2>2, <2>3, <2>5 DEF Fresh, Owns
  <1> QED BY <1>6, <1>8, <1>9 DEF SessionInv, FreshInv

\* The steps that let go of jobs, sessions and requests and take up nothing.
LEMMA LetGo ==
    ASSUME LoopInv, SessionInv, held' = held,
           \A t \in Token : srv'[t] = "unused" <=> srv[t] = "unused",
           \A f \in File : version'[f] \in Version /\ version[f] <= version'[f],
           \A t \in Token : /\ mem'[t] \in {mem[t], disk[t], NoSession}
                            /\ \/ disk'[t] \in {disk[t], NoSession}
                               \/ /\ disk[t] # NoSession
                                  /\ disk'[t].file = disk[t].file
                                  /\ disk'[t].stamp = disk[t].stamp,
           \A k \in Job : \/ /\ jobs'[k].token = jobs[k].token
                             /\ jobs'[k].stamp = jobs[k].stamp
                          \/ /\ jobs'[k].token = NoToken
                             /\ jobs'[k].stamp = version'[source[k]],
           \A k \in Job : req'[k] = req[k] \/ req'[k] = NoRequest(k),
           \A r \in late' : \/ r \in late
                            \/ \E k \in Job : r = req[k] /\ req[k].answer = "none"
    PROVE  SessionInv'
  <1>1. ASSUME NEW t \in Token, NEW f \in File, NEW s \in Version, Owns(t, f, s)'
        PROVE  Owns(t, f, s)
    <2>1. CASE mem'[t] # NoSession /\ mem'[t].file = f /\ mem'[t].stamp = s
      <3>1. mem'[t] = mem[t] \/ mem'[t] = disk[t]
            BY <2>1
      <3> QED BY <2>1, <3>1 DEF Owns
    <2>2. CASE disk'[t] # NoSession /\ disk'[t].file = f /\ disk'[t].stamp = s
      <3>1. disk[t] # NoSession /\ disk[t].file = f /\ disk[t].stamp = s
            BY <2>2
      <3> QED BY <3>1 DEF Owns
    <2>3. ASSUME NEW k \in Job, jobs'[k].token = t, source[k] = f, jobs'[k].stamp = s
          PROVE  Owns(t, f, s)
      <3>1. t # NoToken
            BY Bounds
      <3>2. jobs[k].token = t /\ jobs[k].stamp = s
            BY <2>3, <3>1
      <3> QED BY <2>3, <3>2 DEF Owns
    <2> QED BY <1>1, <2>1, <2>2, <2>3 DEF Owns
  <1>2. ASSUME NEW k \in Job PROVE jobs'[k].stamp <= version'[source[k]]
    <2>1. /\ source[k] \in File /\ jobs[k].stamp \in Nat
          /\ version[source[k]] \in Nat /\ version'[source[k]] \in Nat
          BY SessionTypes DEF Version
    <2>2. jobs[k].stamp <= version[source[k]]
          BY DEF SessionInv, Stamped
    <2>3. version[source[k]] <= version'[source[k]]
          BY <2>1
    <2>4. jobs'[k].stamp = jobs[k].stamp \/ jobs'[k].stamp = version'[source[k]]
          OBVIOUS
    <2> QED BY <2>1, <2>2, <2>3, <2>4
  <1>3. Recedes
        BY <1>1, <1>2 DEF Recedes, Stamped
  <1> QED BY <1>3, RecedesSession

\* A run begins with what sessions.json has.
LEMMA StartRunSession ==
    ASSUME LoopInv, SessionInv, StartRun
    PROVE  SessionInv'
  <1>1. held' = held /\ srv' = srv /\ req' = req /\ late' = late /\ version' = version
        BY DEF StartRun, serverVars, netVars
  <1>2. ASSUME NEW t \in Token
        PROVE  mem'[t] \in {disk[t], NoSession} /\ disk'[t] \in {disk[t], NoSession}
    <2>1. mem'[t] \in {disk[t], NoSession}
          BY DEF StartRun, Store!PruneStale
    <2>2. disk' = mem' \/ disk' = disk
          BY DEF StartRun, SaveSessions
    <2> QED BY <2>1, <2>2
  <1>3. ASSUME NEW k \in Job
        PROVE  jobs'[k].token = NoToken /\ jobs'[k].stamp = version'[source[k]]
    <2>1. \E resume : jobs'[k] = QueuedJob(k, "start", resume)
          BY DEF StartRun
    <2> QED BY <1>1, <2>1 DEF QueuedJob
  <1>4. \A f \in File : version'[f] \in Version /\ version[f] <= version'[f]
        BY <1>1, SessionTypes DEF Version
  <1> QED BY <1>1, <1>2, <1>3, <1>4, LetGo

\* A run ends: nothing is written any more.
LEMMA EndSession ==
    ASSUME LoopInv, SessionInv, UNCHANGED <<serverVars, disk, version>>,
           mem' = Store!NoSessions,
           \A k \in Job : \/ /\ jobs'[k].token = jobs[k].token
                             /\ jobs'[k].stamp = jobs[k].stamp
                          \/ /\ jobs'[k].token = NoToken
                             /\ jobs'[k].stamp = version[source[k]],
           \A k \in Job : req'[k] = req[k] \/ req'[k] = NoRequest(k),
           late' \subseteq late \cup Abandoned(Job)
    PROVE  SessionInv'
  <1>1. \A t \in Token : mem'[t] = NoSession
        BY DEF Store!NoSessions
  <1>2. \A f \in File : version'[f] \in Version /\ version[f] <= version'[f]
        BY SessionTypes DEF Version
  <1>3. \A r \in late' : \/ r \in late
                         \/ \E k \in Job : r = req[k] /\ req[k].answer = "none"
        BY DEF Abandoned
  <1>4. held' = held /\ srv' = srv
        BY DEF serverVars
  <1> QED BY <1>1, <1>2, <1>3, <1>4, LetGo

\* zb_upload_engine_run returns.
LEMMA ExitSession ==
    ASSUME LoopInv, SessionInv, Exit
    PROVE  SessionInv'
  <1>1. UNCHANGED <<serverVars, disk, version, jobs, req, late>> /\ mem' = Store!NoSessions
        BY DEF Exit, netVars, fileVars
  <1> QED BY <1>1, EndSession

\* engine_abort
LEMMA AbortSession ==
    ASSUME LoopInv, SessionInv, Abort
    PROVE  SessionInv'
  <1>1. UNCHANGED <<serverVars, disk, version>> /\ mem' = Store!NoSessions
        BY DEF Abort, fileVars
  <1>2. late' \subseteq late \cup Abandoned(Job)
        BY DEF Abort, Abandoned
  <1>3. ASSUME NEW k \in Job
        PROVE  jobs'[k].token = jobs[k].token /\ jobs'[k].stamp = jobs[k].stamp
    <2>1. jobs[k] \in JobRecord
          BY DEF LoopInv, TypeOK
    <2>2. jobs'[k] = jobs[k] \/ jobs'[k] = [jobs[k] EXCEPT !.state = "failed"]
          BY DEF Abort
    <2>3. LET failed == [jobs[k] EXCEPT !.state = "failed"]
          IN  failed.token = jobs[k].token /\ failed.stamp = jobs[k].stamp
          BY <2>1 DEF JobRecord
    <2> QED BY <2>2, <2>3
  <1>4. \A k \in Job : req'[k] = req[k] \/ req'[k] = NoRequest(k)
        BY DEF Abort
  <1> QED BY <1>1, <1>2, <1>3, <1>4, EndSession

\* The process dies.
LEMMA CrashSession ==
    ASSUME LoopInv, SessionInv, Crash
    PROVE  SessionInv'
  <1>1. UNCHANGED <<serverVars, disk, version>> /\ mem' = Store!NoSessions
        BY DEF Crash, fileVars
  <1>2. late' \subseteq late \cup Abandoned(Job)
        BY DEF Crash
  <1>3. ASSUME NEW k \in Job
        PROVE  jobs'[k].token = NoToken /\ jobs'[k].stamp = version[source[k]]
        BY DEF Crash, QueuedJob
  <1>4. \A k \in Job : req'[k] = NoRequest(k)
        BY DEF Crash
  <1> QED BY <1>1, <1>2, <1>3, <1>4, EndSession

\* Steps that touch neither jobs nor sessions nor requests.
LEMMA QuietSession ==
    ASSUME LoopInv, SessionInv, UNCHANGED <<held, mem, jobs, req, late>>,
           \A t \in Token : srv'[t] = "unused" <=> srv[t] = "unused",
           \A f \in File : version'[f] \in Version /\ version[f] <= version'[f],
           \A t \in Token : \/ disk'[t] = disk[t]
                            \/ /\ disk[t] # NoSession
                               /\ disk'[t].file = disk[t].file
                               /\ disk'[t].stamp = disk[t].stamp
    PROVE  SessionInv'
  BY LetGo

\* The server forgets chunks and whole sessions, but no token.
LEMMA ServerForgetsSession ==
    ASSUME LoopInv, SessionInv, ServerForgets
    PROVE  SessionInv'
  <1>1. UNCHANGED <<held, mem, jobs, req, late, version, disk>>
        BY DEF ServerForgets, ExpireSession, LoseChunk, engineVars, netVars, fileVars
  <1>2. \A t \in Token : srv'[t] = "unused" <=> srv[t] = "unused"
        BY SessionTypes DEF ServerForgets, ExpireSession, LoseChunk
  <1>3. \A f \in File : version'[f] \in Version /\ version[f] <= version'[f]
        BY <1>1, SessionTypes DEF Version
  <1> QED BY <1>1, <1>2, <1>3, QuietSession

\* An edit makes every stamp of the file an old one.
LEMMA EditFileSession ==
    ASSUME LoopInv, LoopInv', SessionInv, NEW f \in File, EditFile(f)
    PROVE  SessionInv'
  <1>1. UNCHANGED <<held, srv, mem, jobs, req, late, disk>>
        BY DEF EditFile, serverVars, engineVars, netVars, fileVars
  <1>2. version \in [File -> Version] /\ version' \in [File -> Version]
        BY DEF LoopInv, TypeOK
  <1>3. ASSUME NEW g \in File PROVE version'[g] \in Version /\ version[g] <= version'[g]
    <2>1. version'[g] = version[g] \/ version'[g] = version[g] + 1
          BY <1>2 DEF EditFile
    <2> QED BY <1>2, <2>1 DEF Version
  <1> QED BY <1>1, <1>3, QuietSession

\* A record that ages is still the record of the same session.
LEMMA TimePassesSession ==
    ASSUME LoopInv, SessionInv, TimePasses
    PROVE  SessionInv'
  <1>1. UNCHANGED <<held, srv, mem, jobs, req, late, version>>
        BY DEF TimePasses, serverVars, engineVars, netVars
  <1>2. \A f \in File : version'[f] \in Version /\ version[f] <= version'[f]
        BY <1>1, SessionTypes DEF Version
  <1>3. ASSUME NEW t \in Token
        PROVE  \/ disk'[t] = disk[t]
               \/ /\ disk[t] # NoSession
                  /\ disk'[t].file = disk[t].file /\ disk'[t].stamp = disk[t].stamp
    <2>1. disk'[t] = IF disk[t] # NoSession THEN [disk[t] EXCEPT !.old = TRUE] ELSE NoSession
          BY DEF TimePasses, Store!Age
    <2>2. disk[t] # NoSession => disk[t] \in Session
          BY SessionTypes DEF Table
    <2> QED BY <2>1, <2>2 DEF Session
  <1> QED BY <1>1, <1>2, <1>3, QuietSession

\* No session, no owner.
LEMMA InitSession == Init => SessionInv
  <1> SUFFICES ASSUME Init PROVE SessionInv
      OBVIOUS
  <1>1. \A t \in Token : t # NoToken
        BY Bounds
  <1>2. /\ \A t \in Token : mem[t] = NoSession /\ disk[t] = NoSession
        /\ late = {} /\ \A t \in Token, c \in Chunk : held[t][c] = 0
        BY DEF Init, ServerInit, Store!NoSessions
  <1>3. ASSUME NEW j \in Job
        PROVE  /\ jobs[j].token = NoToken /\ jobs[j].stamp = version[source[j]]
               /\ req[j].tok = NoToken /\ ~Created(j)
        BY DEF Init, QueuedJob, NoRequest, Created
  <1>4. \A t \in Token, f \in File, s \in Version : ~Owns(t, f, s)
        BY <1>1, <1>2, <1>3 DEF Owns
  <1>5. FreshInv
        BY <1>1, <1>2, <1>3, <1>4 DEF FreshInv, Fresh
  <1>6. \A j \in Job : version[source[j]] = 1
        BY SourceAssumption DEF Init
  <1> QED BY <1>3, <1>4, <1>5, <1>6 DEF SessionInv, OwnedClean, OneSource, Stamped

\* SessionInv is inductive, given LoopInv.
LEMMA NextSession == LoopInv /\ LoopInv' /\ SessionInv /\ [Next]_vars => SessionInv'
  <1> SUFFICES ASSUME LoopInv, LoopInv', SessionInv, [Next]_vars PROVE SessionInv'
      OBVIOUS
  <1>1. CASE Interrupt \/ RecordResult \/ UNCHANGED vars
    <2>1. UNCHANGED <<held, srv, mem, jobs, req, late, version, disk>>
          BY <1>1 DEF Interrupt, RecordResult, vars, serverVars, engineVars, netVars, fileVars
    <2>2. \A f \in File : version'[f] \in Version /\ version[f] <= version'[f]
          BY <2>1, SessionTypes DEF Version
    <2> QED BY <2>1, <2>2, QuietSession
  <1>2. ASSUME NEW j \in Job, LoopAction(j) PROVE SessionInv'
        BY <1>2, LoopEffect, EffectSession
  <1>3. ASSUME NEW j \in Job, ServeRequest(j) PROVE SessionInv'
        BY <1>3, ServeRequestSession
  <1>4. CASE Environment
        BY <1>4, ServeLateSession, ServerForgetsSession, TimePassesSession, EditFileSession
           DEF Environment
  <1> QED BY <1>1, <1>2, <1>3, <1>4, StartRunSession, ExitSession, AbortSession, CrashSession
          DEF Next, LoopAction

\* However a file is edited between and during runs, however its uploads are
\* interrupted, resumed, queued twice or served late: the session a new run
\* would resume for it holds bytes of its present version only.
THEOREM ResumesUnmixed == Spec => []ResumeUnmixed
  <1>1. LoopInv /\ SessionInv => ResumeUnmixed
    <2> SUFFICES ASSUME LoopInv, SessionInv, NEW f \in File,
                        NEW t \in Store!FindSource(disk, f, version[f]),
                        NEW c \in Stored(t)
                 PROVE  held[t][c] = version[f]
        BY DEF ResumeUnmixed
    <2>1. t \in Token /\ version[f] \in Version
          BY SessionTypes DEF Store!FindSource, Store!SessionTokens
    <2>2. Owns(t, f, version[f])
          BY DEF Owns, Store!FindSource, Store!SessionTokens
    <2>3. Clean(t, f, version[f])
          BY <2>1, <2>2 DEF SessionInv, OwnedClean
    <2> QED BY <2>3 DEF Clean, Stored
  <1> QED BY <1>1, InitSession, NextSession, LoopInvHolds, PTL DEF Spec

-----------------------------------------------------------------------------
(***************************************************************************)
(* OpenSessionKept.  A token the server no longer takes chunks for stays   *)
(* so (Closed).  A 404 and the answer to a completed upload are about the  *)
(* token the job holds, which is Closed from then on (Denials, Verified);  *)
(* a job without a session has none to drop (EarlyBare); and the loaded    *)
(* table lacks only Closed sessions of the file (Shared) - unless          *)
(* the start of the run pruned an old record and could not write the file. *)
(***************************************************************************)
\* A hypothesis on the start of a run: a stale record is really pruned from
\* the file, or none gets stale.
PruneSaved == "disk" \notin Faults \/ "age" \notin Faults

Closed(t) == t \in Token => srv[t] \in {"file", "gone"}

Denials ==
    \A j \in Job :
        \/ req[j].answer = "404"
        \/ req[j].answer \in {"ok", "bad"} /\ req[j].kind \in {"complete", "verify"}
        => Closed(req[j].tok)

Verified == \A j \in Job : Verifying(jobs[j]) => Closed(jobs[j].token)

EarlyBare == \A j \in Job : jobs[j].state \in Early => jobs[j].token = NoToken

OwnRequest ==
    \A j \in Job : req[j].kind \in Repeatable => req[j].tok = jobs[j].token

Unaged ==
    "age" \notin Faults =>
        \A t \in Token : /\ mem[t] # NoSession => ~mem[t].old
                         /\ disk[t] # NoSession => ~disk[t].old

Shared ==
    PruneSaved /\ running =>
        \A t \in Token : disk[t] # NoSession /\ mem[t] = NoSession => Closed(t)

OpenInv == Denials /\ Verified /\ EarlyBare /\ OwnRequest /\ Unaged /\ Shared

\* No step takes a token back from the closed ones.
ClosedStay == \A t \in Token : Closed(t) => Closed(t)'

\* A session is given up, or done with, only when it is closed.
LEMMA DroppedClosed ==
    ASSUME LoopInv, OpenInv, NEW j \in Job, GivesUp(j) \/ Succeeds(j)
    PROVE  Closed(jobs[j].token)
  <1>1. CASE GivesUp(j) /\ req[j].kind # "verify"
    <2>1. req[j].kind \in Repeatable /\ req[j].answer = "404"
          BY <1>1 DEF GivesUp, Repeatable
    <2> QED BY <2>1 DEF OpenInv, Denials, OwnRequest
  <1>2. CASE GivesUp(j) /\ req[j].kind = "verify"
    <2>1. Verifying(jobs[j])
          BY <1>2 DEF GivesUp, Verifying
    <2> QED BY <2>1 DEF OpenInv, Verified
  <1>3. CASE Succeeds(j) /\ req[j].kind = "sharex"
    <2>1. jobs[j].state \in Early
          BY <1>3 DEF Succeeds, Early
    <2> QED BY <2>1, Bounds DEF OpenInv, EarlyBare, Closed
  <1>4. CASE Succeeds(j) /\ req[j].kind # "sharex"
    <2>1. /\ req[j].kind \in Repeatable /\ req[j].kind \in {"complete", "verify"}
          /\ req[j].answer \in {"ok", "bad"}
          BY <1>4 DEF Succeeds, Repeatable
    <2> QED BY <2>1 DEF OpenInv, Denials, OwnRequest
  <1> QED BY <1>1, <1>2, <1>3, <1>4

\* What is written is a session.
LEMMA WrittenSession ==
    ASSUME LoopInv, LoopInv', NEW j \in Job
    PROVE  LET session == Store!SessionOf(source[j], jobs[j].stamp, jobs'[j].sent, jobs'[j].dtok)
           IN  session \in Session /\ session # NoSession /\ ~session.old
  <1>1. jobs[j] \in JobRecord /\ jobs'[j] \in JobRecord /\ source[j] \in File
        BY SourceAssumption DEF LoopInv, TypeOK
  <1>2. /\ jobs[j].stamp \in Version /\ jobs'[j].sent \in SUBSET Chunk
        /\ jobs'[j].dtok \in BOOLEAN
        BY <1>1 DEF JobRecord
  <1>3. LET session == Store!SessionOf(source[j], jobs[j].stamp, jobs'[j].sent, jobs'[j].dtok)
        IN  session \in Session /\ ~session.old
        BY <1>1, <1>2 DEF Store!SessionOf, Session
  <1> QED BY <1>3, NoSessionAssumption

\* What a loop step takes out of the table of sessions is closed.
LEMMA EffectTable ==
    ASSUME LoopInv, LoopInv', OpenInv, NEW j \in Job, Effect(j), NEW t \in Token,
           mem[t] # NoSession, mem'[t] = NoSession
    PROVE  Closed(t)
  <1>1. mem \in Table
        BY SessionTypes
  <1>2. CASE Continues(j) \/ Resumes(j)
        BY <1>2 DEF Continues, Resumes, KeepSessions
  <1>3. CASE Records(j)
    <2> DEFINE session == Store!SessionOf(source[j], jobs[j].stamp, jobs'[j].sent, jobs'[j].dtok)
    <2>1. mem' = Store!Put(mem, jobs'[j].token, session)
          BY <1>3 DEF Records
    <2>2. session # NoSession
          BY WrittenSession
    <2> HIDE DEF session
    <2>3. mem'[t] = IF t = jobs'[j].token THEN session ELSE mem[t]
          BY <1>1, <2>1, PutRow
    <2> QED BY <2>2, <2>3
  <1>4. CASE GivesUp(j) \/ Succeeds(j)
    <2>1. DropSession(jobs[j].token) /\ Closed(jobs[j].token)
          BY <1>4, DroppedClosed DEF GivesUp, Succeeds
    <2>2. t = jobs[j].token
          BY <1>1, <2>1, DropRow
    <2> QED BY <2>1, <2>2
  <1> QED BY <1>2, <1>3, <1>4 DEF Effect

\* A loop step leaves the file as it is or makes it the table.
LEMMA EffectFile ==
    ASSUME LoopInv, NEW j \in Job, Effect(j)
    PROVE  disk' = disk \/ disk' = mem'
  BY DEF Effect, Continues, Resumes, Records, GivesUp, Succeeds, KeepSessions, SaveSessions,
         DropSession

\* What a loop step writes is not old.
LEMMA EffectUnaged ==
    ASSUME LoopInv, LoopInv', OpenInv, NEW j \in Job, Effect(j)
    PROVE  Unaged'
  <1> SUFFICES ASSUME "age" \notin Faults, NEW t \in Token
               PROVE  /\ mem'[t] # NoSession => ~mem'[t].old
                      /\ disk'[t] # NoSession => ~disk'[t].old
      BY DEF Unaged
  <1>1. /\ mem[t] # NoSession => ~mem[t].old
        /\ disk[t] # NoSession => ~disk[t].old
        BY DEF OpenInv, Unaged
  <1>2. mem \in Table
        BY SessionTypes
  <1>3. mem'[t] # NoSession => ~mem'[t].old
    <2>1. CASE Continues(j) \/ Resumes(j)
          BY <1>1, <2>1 DEF Continues, Resumes, KeepSessions
    <2>2. CASE Records(j)
      <3> DEFINE session == Store!SessionOf(source[j], jobs[j].stamp, jobs'[j].sent,
                                            jobs'[j].dtok)
      <3>1. mem' = Store!Put(mem, jobs'[j].token, session)
            BY <2>2 DEF Records
      <3>2. ~session.old
            BY WrittenSession
      <3> HIDE DEF session
      <3>3. mem'[t] = IF t = jobs'[j].token THEN session ELSE mem[t]
            BY <1>2, <3>1, PutRow
      <3> QED BY <1>1, <3>2, <3>3
    <2>3. CASE GivesUp(j) \/ Succeeds(j)
      <3>1. DropSession(jobs[j].token)
            BY <2>3 DEF GivesUp, Succeeds
      <3>2. mem'[t] \in {mem[t], NoSession}
            BY <1>2, <3>1, DropRow
      <3> QED BY <1>1, <3>2
    <2> QED BY <2>1, <2>2, <2>3 DEF Effect
  <1>4. disk'[t] = disk[t] \/ disk'[t] = mem'[t]
        BY EffectFile
  <1> QED BY <1>1, <1>3, <1>4

\* What a loop step makes of its job.
LEMMA EffectJob ==
    ASSUME LoopInv, OpenInv, NEW j \in Job, Effect(j)
    PROVE  /\ Verifying(jobs'[j]) => Closed(jobs'[j].token)
           /\ jobs'[j].state \in Early => jobs'[j].token = NoToken
  <1>1. CASE Continues(j)
    <2>1. jobs'[j].token = jobs[j].token
          BY <1>1 DEF Continues, SameSession
    <2>2. jobs'[j].state \in Early => jobs'[j].token = NoToken
          BY <1>1, <2>1 DEF Continues, OpenInv, EarlyBare
    <2>3. req[j].kind = "complete" /\ req[j].answer = "404" => Closed(jobs[j].token)
          BY DEF OpenInv, Denials, OwnRequest, Repeatable
    <2>4. Verifying(jobs[j]) => Closed(jobs[j].token)
          BY DEF OpenInv, Verified
    <2>5. Verifying(jobs'[j]) => \/ Verifying(jobs[j])
                                 \/ req[j].kind = "complete" /\ req[j].answer = "404"
          BY <1>1 DEF Continues
    <2> QED BY <2>1, <2>2, <2>3, <2>4, <2>5
  <1>2. CASE ~Continues(j)
    <2>1. jobs'[j].state \in {"status", "chunk", "complete", "failed", "done"}
          BY <1>2 DEF Effect, Resumes, Records, GivesUp, Succeeds
    <2> QED BY <2>1 DEF Verifying, Early
  <1> QED BY <1>1, <1>2

\* OpenInv over a step of the loop.
LEMMA EffectOpen ==
    ASSUME LoopInv, LoopInv', OpenInv, NEW j \in Job, Effect(j)
    PROVE  OpenInv'
  <1>1. srv' = srv /\ running' = running /\ running
        BY DEF Effect, LoopReady, LoopFrame, serverVars
  <1>2. ASSUME NEW k \in Job, k # j PROVE jobs'[k] = jobs[k] /\ req'[k] = req[k]
        BY <1>2 DEF Effect, Others
  <1>3. /\ req'[j].answer = "none"
        /\ req'[j].tok = IF req'[j].kind = "none" THEN NoToken ELSE jobs'[j].token
        BY DEF Effect, Sends
  <1>4. Denials'
        BY <1>1, <1>2, <1>3 DEF OpenInv, Denials, Closed
  <1>5. Verified' /\ EarlyBare'
    <2>1. \A k \in Job : /\ Verifying(jobs'[k]) => Closed(jobs'[k].token)
                         /\ jobs'[k].state \in Early => jobs'[k].token = NoToken
          BY <1>2, EffectJob DEF OpenInv, Verified, EarlyBare
    <2> QED BY <1>1, <2>1 DEF Verified, EarlyBare, Closed, Verifying
  <1>6. OwnRequest'
        BY <1>2, <1>3 DEF OpenInv, OwnRequest, Repeatable
  <1>7. Shared'
    <2> SUFFICES ASSUME PruneSaved, NEW t \in Token,
                        disk'[t] # NoSession, mem'[t] = NoSession
                 PROVE  Closed(t)
        BY <1>1 DEF Shared, Closed
    <2>1. disk' = disk
          BY EffectFile
    <2>2. CASE mem[t] = NoSession
          BY <1>1, <2>1, <2>2 DEF OpenInv, Shared
    <2>3. CASE mem[t] # NoSession
          BY <2>3, EffectTable
    <2> QED BY <2>2, <2>3
  <1> QED BY <1>4, <1>5, <1>6, <1>7, EffectUnaged DEF OpenInv

\* The server never takes a token back from the closed ones.
LEMMA TakenClosed ==
    ASSUME NEW r, NEW t, Taken(r, t)
    PROVE  ClosedStay
  BY DEF Taken, ClosedStay, Closed

\* When nothing happens to jobs, requests and tables.
LEMMA QuietOpen ==
    ASSUME LoopInv, OpenInv, UNCHANGED <<jobs, req, mem, disk, running>>, ClosedStay
    PROVE  OpenInv'
  <1>1. \A t : Closed(t) => Closed(t)'
        BY DEF ClosedStay, Closed
  <1>2. Denials' /\ Verified'
        BY <1>1 DEF OpenInv, Denials, Verified
  <1>3. EarlyBare' /\ OwnRequest' /\ Unaged'
        BY DEF OpenInv, EarlyBare, OwnRequest, Unaged
  <1>4. Shared'
        BY <1>1 DEF OpenInv, Shared
  <1> QED BY <1>2, <1>3, <1>4 DEF OpenInv

\* What the server's answers say of the token.
LEMMA ServeAnswers ==
    ASSUME ServerTypeOK, NEW r, NEW t \in Token, NEW answer, Serve(r, t, answer)
    PROVE  /\ answer \in {"ok", "404", "409"}
           /\ answer = "404" => /\ srv' = srv /\ t = r.tok
                                /\ srv[t] # "open" \/ r.kind = "verify"
           /\ answer = "ok" /\ r.kind \in {"complete", "verify"} => srv'[t] = "file"
  <1>1. srv \in [Token -> {"unused", "open", "file", "gone"}]
        BY DEF ServerTypeOK
  <1>2. CASE (r.kind = "init" /\ UploadInit(t, answer))
             \/ (r.kind = "sharex" /\ ShareX(t, r.version, answer))
        BY <1>2 DEF UploadInit, ShareX
  <1>3. CASE r.kind = "chunk" /\ t = r.tok /\ PutChunk(t, r.chunk, r.version, answer)
        BY <1>3 DEF PutChunk, serverVars
  <1>4. CASE r.kind = "status" /\ t = r.tok /\ UploadStatus(t, answer)
        BY <1>4 DEF UploadStatus, serverVars
  <1>5. CASE r.kind = "complete" /\ t = r.tok /\ UploadComplete(t, answer)
        BY <1>1, <1>5 DEF UploadComplete, serverVars
  <1>6. CASE r.kind = "verify" /\ t = r.tok /\ ServeMetadata(t, answer)
        BY <1>6 DEF ServeMetadata, serverVars
  <1> QED BY <1>2, <1>3, <1>4, <1>5, <1>6 DEF Serve

\* The answer the server gives now.
LEMMA ServeRequestOpen ==
    ASSUME LoopInv, SessionInv, OpenInv, NEW j \in Job, ServeRequest(j)
    PROVE  OpenInv'
  <1>1. UNCHANGED <<jobs, mem, disk, running>>
        BY DEF ServeRequest, engineVars, fileVars
  <1>2. req \in [Job -> Request] /\ req[j] \in Request /\ ServerTypeOK
        BY DEF LoopInv, TypeOK
  <1>3. ASSUME ClosedStay, NEW k \in Job, k # j, req'[k] = req[k]
        PROVE  /\ \/ req'[k].answer = "404"
                  \/ req'[k].answer \in {"ok", "bad"} /\ req'[k].kind \in {"complete", "verify"}
                  => Closed(req[k].tok)'
               /\ req'[k].kind \in Repeatable => req'[k].tok = jobs'[k].token
    <2>1. PICK u : u = req[k].tok
          OBVIOUS
    <2>2. Closed(u) => Closed(u)'
          BY <1>3 DEF ClosedStay, Closed
    <2> QED BY <1>1, <1>3, <2>1, <2>2 DEF OpenInv, Denials, OwnRequest, Closed
  <1>4. ASSUME ClosedStay, Denials', OwnRequest' PROVE OpenInv'
    <2>1. \A t : Closed(t) => Closed(t)'
          BY <1>4 DEF ClosedStay, Closed
    <2>2. Verified' /\ Shared'
          BY <1>1, <2>1 DEF OpenInv, Verified, Shared
    <2>3. EarlyBare' /\ Unaged'
          BY <1>1 DEF OpenInv, EarlyBare, Unaged
    <2> QED BY <1>4, <2>2, <2>3 DEF OpenInv
  <1>5. ASSUME NEW t \in Token, NEW answer \in Answer,
               NEW seen \in {answer} \cup
                   (IF answer = "ok" /\ req[j].kind \in BadBodies THEN {"bad"} ELSE {}),
               Serve(req[j], t, answer),
               req' = [req EXCEPT ![j] =
                          [@ EXCEPT !.tok = t, !.answer = seen,
                                    !.got = IF req[j].kind = "status"
                                            THEN Received(t) ELSE {}]]
        PROVE  OpenInv'
    <2>1. Taken(req[j], t)
          BY <1>2, <1>5, ServeTakes
    <2>2. ClosedStay
          BY <2>1, TakenClosed
    <2>3. req'[j].kind = req[j].kind /\ req'[j].tok = t /\ req'[j].answer = seen
          BY <1>2, <1>5 DEF Request
    <2>4. \A k \in Job \ {j} : req'[k] = req[k]
          BY <1>2, <1>5
    <2>5. /\ answer \in {"ok", "404", "409"}
          /\ answer = "404" => /\ srv' = srv /\ t = req[j].tok
                               /\ srv[t] # "open" \/ req[j].kind = "verify"
          /\ answer = "ok" /\ req[j].kind \in {"complete", "verify"} => srv'[t] = "file"
          BY <1>2, <1>5, ServeAnswers
    <2>6. srv[t] \in {"unused", "open", "file", "gone"}
          BY SessionTypes
    <2>7. answer = "404" => srv'[t] \in {"file", "gone"}
      <3>1. req[j].kind = "verify" => Closed(req[j].tok)
        <4>1. req[j].kind = "verify" => jobs[j].state = "verify"
              BY DEF LoopInv, BusyKind, Busy
        <4>2. req[j].kind = "verify" => req[j].tok = jobs[j].token
              BY DEF OpenInv, OwnRequest, Repeatable
        <4> QED BY <4>1, <4>2 DEF OpenInv, Verified, Verifying
      <3>2. t = req[j].tok => srv[t] # "unused"
            BY DEF SessionInv, FreshInv
      <3> QED BY <2>5, <2>6, <3>1, <3>2 DEF Closed
    <2>8. seen \in {"ok", "bad"} => answer = "ok"
          BY <2>5
    <2>9. seen = "404" => answer = "404"
          OBVIOUS
    <2>10. /\ \/ seen = "404"
              \/ seen \in {"ok", "bad"} /\ req[j].kind \in {"complete", "verify"}
              => srv'[t] \in {"file", "gone"}
           BY <2>5, <2>7, <2>8, <2>9
    <2>11. req[j].kind \in Repeatable => t = jobs[j].token
      <3>1. req[j].kind \in Repeatable => t = req[j].tok
            BY <2>1 DEF Taken, Creating, Repeatable
      <3> QED BY <3>1 DEF OpenInv, OwnRequest
    <2>12. Denials'
      <3>1. \/ req'[j].answer = "404"
            \/ req'[j].answer \in {"ok", "bad"} /\ req'[j].kind \in {"complete", "verify"}
            => Closed(req[j].tok)'
            BY <2>3, <2>10 DEF Closed
      <3> QED BY <1>3, <2>2, <2>4, <3>1 DEF Denials
    <2>13. OwnRequest'
          BY <1>1, <1>3, <2>2, <2>3, <2>4, <2>11 DEF OwnRequest
    <2> QED BY <1>4, <2>2, <2>12, <2>13
  <1>6. ASSUME NEW answer \in ServerErrors, UNCHANGED serverVars,
               req' = [req EXCEPT ![j] = [@ EXCEPT !.answer = answer]]
        PROVE  OpenInv'
    <2>1. answer \notin {"404", "ok", "bad"}
          BY FaultsAssumption DEF ErrorAnswer
    <2>2. req'[j].kind = req[j].kind /\ req'[j].tok = req[j].tok /\ req'[j].answer = answer
          BY <1>2, <1>6 DEF Request
    <2>3. \A k \in Job \ {j} : req'[k] = req[k]
          BY <1>2, <1>6
    <2>4. ClosedStay
          BY <1>6 DEF ClosedStay, Closed, serverVars
    <2>5. Denials'
          BY <1>3, <2>1, <2>2, <2>3, <2>4 DEF Denials
    <2>6. OwnRequest'
          BY <1>1, <2>2, <2>3 DEF OpenInv, OwnRequest
    <2> QED BY <1>4, <2>4, <2>5, <2>6
  <1> QED BY <1>5, <1>6 DEF ServeRequest

\* A run that ends takes its jobs along.
LEMMA EndOpen ==
    ASSUME LoopInv, OpenInv, UNCHANGED <<serverVars, disk>>,
           running' = FALSE, mem' = Store!NoSessions,
           \A k \in Job : \/ jobs'[k] = jobs[k]
                          \/ jobs'[k].state = "failed",
           \A k \in Job : \/ req'[k] = req[k] /\ jobs'[k].token = jobs[k].token
                          \/ req'[k] = NoRequest(k)
    PROVE  OpenInv'
  <1>1. srv' = srv
        BY DEF serverVars
  <1>2. ASSUME NEW k \in Job
        PROVE  /\ NoRequest(k).answer = "none" /\ NoRequest(k).kind \notin Repeatable
        BY DEF NoRequest, Repeatable
  <1>3. Denials'
        BY <1>1, <1>2 DEF OpenInv, Denials, Closed
  <1>4. Verified' /\ EarlyBare'
        BY <1>1 DEF OpenInv, Verified, EarlyBare, Verifying, Early, Closed
  <1>5. OwnRequest'
        BY <1>2 DEF OpenInv, OwnRequest
  <1>6. Unaged' /\ Shared'
        BY DEF OpenInv, Unaged, Shared, Store!NoSessions
  <1> QED BY <1>3, <1>4, <1>5, <1>6 DEF OpenInv

\* Exit, engine_abort and a crash end a run so.
LEMMA LifeOpen ==
    ASSUME LoopInv, OpenInv, Exit \/ Abort \/ Crash
    PROVE  OpenInv'
  <1>1. UNCHANGED <<serverVars, disk>> /\ running' = FALSE /\ mem' = Store!NoSessions
        BY DEF Exit, Abort, Crash, fileVars
  <1>2. CASE Exit
        BY <1>1, <1>2, EndOpen DEF Exit, netVars
  <1>3. CASE Abort
    <2>1. ASSUME NEW k \in Job
          PROVE  /\ jobs'[k] = jobs[k] \/ jobs'[k].state = "failed"
                 /\ jobs'[k].token = jobs[k].token
                 /\ req'[k] = req[k] \/ req'[k] = NoRequest(k)
      <3>1. jobs[k] \in JobRecord
            BY DEF LoopInv, TypeOK
      <3>2. jobs'[k] = jobs[k] \/ jobs'[k] = [jobs[k] EXCEPT !.state = "failed"]
            BY <1>3 DEF Abort
      <3>3. LET failed == [jobs[k] EXCEPT !.state = "failed"]
            IN  failed.token = jobs[k].token /\ failed.state = "failed"
            BY <3>1 DEF JobRecord
      <3>4. req'[k] = req[k] \/ req'[k] = NoRequest(k)
            BY <1>3 DEF Abort
      <3> QED BY <3>2, <3>3, <3>4
    <2> QED BY <1>1, <2>1, EndOpen
  <1>4. CASE Crash
    <2>1. \A k \in Job : jobs'[k].state = "failed" /\ req'[k] = NoRequest(k)
          BY <1>4 DEF Crash, QueuedJob
    <2> QED BY <1>1, <2>1, EndOpen
  <1> QED BY <1>2, <1>3, <1>4

\* A run starts with the file and the table agreed.
LEMMA StartRunOpen ==
    ASSUME LoopInv, OpenInv, StartRun
    PROVE  OpenInv'
  <1>1. /\ srv' = srv /\ req' = req /\ ~running /\ mem' = Store!PruneStale(disk)
        /\ disk' = mem' \/ ("disk" \in Faults /\ disk' = disk)
        BY DEF StartRun, serverVars, netVars, SaveSessions
  <1>2. ASSUME NEW k \in Job
        PROVE  jobs'[k].state = "start" /\ jobs'[k].token = NoToken
    <2>1. \E resume : jobs'[k] = QueuedJob(k, "start", resume)
          BY DEF StartRun
    <2> QED BY <2>1 DEF QueuedJob
  <1>3. ASSUME NEW k \in Job PROVE req[k].kind \notin Repeatable
        BY <1>1, <1>3 DEF LoopInv, IdleQuiet, Busy, Repeatable
  <1>4. ASSUME NEW t \in Token
        PROVE  /\ mem'[t] \in {disk[t], NoSession}
               /\ disk[t] # NoSession /\ ~disk[t].old => mem'[t] = disk[t]
        BY <1>1 DEF Store!PruneStale
  <1>5. Denials'
        BY <1>1 DEF OpenInv, Denials, Closed
  <1>6. Verified' /\ EarlyBare'
        BY <1>2 DEF Verified, Verifying, EarlyBare
  <1>7. OwnRequest'
        BY <1>1, <1>3 DEF OwnRequest
  <1>8. Unaged'
    <2> SUFFICES ASSUME "age" \notin Faults, NEW t \in Token
                 PROVE  /\ mem'[t] # NoSession => ~mem'[t].old
                        /\ disk'[t] # NoSession => ~disk'[t].old
        BY DEF Unaged
    <2>1. disk[t] # NoSession => ~disk[t].old
          BY DEF OpenInv, Unaged
    <2>2. disk' = mem' \/ disk' = disk
          BY <1>1
    <2> QED BY <1>4, <2>1, <2>2
  <1>9. Shared'
    <2> SUFFICES ASSUME PruneSaved, NEW t \in Token, disk'[t] # NoSession, mem'[t] = NoSession
                 PROVE  FALSE
        BY DEF Shared
    <2>1. disk' = disk /\ "age" \notin Faults
          BY <1>1 DEF PruneSaved
    <2>2. disk[t] # NoSession => ~disk[t].old
          BY <2>1 DEF OpenInv, Unaged
    <2> QED BY <1>4, <2>1, <2>2
  <1> QED BY <1>5, <1>6, <1>7, <1>8, <1>9 DEF OpenInv

\* Records age between runs only.
LEMMA TimePassesOpen ==
    ASSUME LoopInv, OpenInv, TimePasses
    PROVE  OpenInv'
  <1>1. /\ UNCHANGED <<srv, jobs, req, running>> /\ ~running /\ "age" \in Faults
        BY DEF TimePasses, serverVars, engineVars, netVars
  <1>2. Denials' /\ Verified'
        BY <1>1 DEF OpenInv, Denials, Verified, Closed
  <1>3. EarlyBare' /\ OwnRequest' /\ Unaged' /\ Shared'
        BY <1>1 DEF OpenInv, EarlyBare, OwnRequest, Unaged, Shared
  <1> QED BY <1>2, <1>3 DEF OpenInv

\* Nothing is asked or saved before the first run.
LEMMA InitOpen == Init => OpenInv
  BY DEF Init, OpenInv, Denials, Verified, EarlyBare, OwnRequest, Unaged, Shared, QueuedJob,
         NoRequest, Verifying, Early, Repeatable, Store!NoSessions

\* OpenInv is inductive, given the others.
LEMMA NextOpen ==
    LoopInv /\ LoopInv' /\ SessionInv /\ OpenInv /\ [Next]_vars => OpenInv'
  <1> SUFFICES ASSUME LoopInv, LoopInv', SessionInv, OpenInv, [Next]_vars
               PROVE  OpenInv'
      OBVIOUS
  <1>1. CASE Interrupt \/ RecordResult \/ (\E f \in File : EditFile(f)) \/ UNCHANGED vars
    <2>1. UNCHANGED <<jobs, req, mem, disk, running, srv>>
          BY <1>1 DEF Interrupt, RecordResult, EditFile, vars, serverVars, engineVars,
                      netVars, fileVars
    <2> QED BY <2>1, QuietOpen DEF ClosedStay, Closed
  <1>2. CASE ServerForgets
    <2>1. UNCHANGED <<jobs, req, mem, disk, running>>
          BY <1>2 DEF ServerForgets, engineVars, netVars, fileVars
    <2>2. ClosedStay
          BY <1>2, SessionTypes DEF ServerForgets, ExpireSession, LoseChunk, ClosedStay, Closed
    <2> QED BY <2>1, <2>2, QuietOpen
  <1>3. CASE ServeLate
    <2>1. UNCHANGED <<jobs, req, mem, disk, running>>
          BY <1>3 DEF ServeLate, engineVars, fileVars
    <2>2. PICK r \in late, t \in Token, answer \in Answer : Serve(r, t, answer)
          BY <1>3 DEF ServeLate
    <2>3. r \in Request /\ ServerTypeOK
          BY DEF LoopInv, TypeOK
    <2>4. ClosedStay
          BY <2>2, <2>3, ServeTakes, TakenClosed
    <2> QED BY <2>1, <2>4, QuietOpen
  <1>4. ASSUME NEW j \in Job, LoopAction(j) PROVE OpenInv'
        BY <1>4, LoopEffect, EffectOpen
  <1>5. ASSUME NEW j \in Job, ServeRequest(j) PROVE OpenInv'
        BY <1>5, ServeRequestOpen
  <1> QED BY <1>1, <1>2, <1>3, <1>4, <1>5, StartRunOpen, LifeOpen, TimePassesOpen
          DEF Next, LoopAction, Environment

\* The step of the property.
OpenKeptStep ==
    \A t \in Token :
        running /\ disk[t] # NoSession /\ disk'[t] = NoSession => srv[t] # "open"

LEMMA OpenStep ==
    ASSUME PruneSaved, LoopInv, LoopInv', OpenInv, [Next]_vars
    PROVE  OpenKeptStep
  <1> SUFFICES ASSUME NEW t \in Token, running, disk[t] # NoSession, disk'[t] = NoSession
               PROVE  Closed(t)
      BY DEF OpenKeptStep, Closed
  <1>1. PICK j \in Job : LoopAction(j)
    <2>1. ~StartRun /\ ~TimePasses
          BY DEF StartRun, TimePasses
    <2>2. CASE \/ Interrupt \/ RecordResult \/ Exit \/ Abort \/ Crash \/ ServerForgets \/ ServeLate
               \/ (\E f \in File : EditFile(f)) \/ (\E j \in Job : ServeRequest(j))
               \/ UNCHANGED vars
      <3>1. disk' = disk
            BY <2>2 DEF Interrupt, RecordResult, Exit, Abort, Crash, ServerForgets, ServeLate,
                        EditFile, ServeRequest, vars, fileVars
      <3> QED BY <3>1
    <2> QED BY <2>1, <2>2 DEF Next, Environment, LoopAction
  <1>2. Effect(j)
        BY <1>1, LoopEffect
  <1>3. disk' = mem'
        BY <1>2, EffectFile
  <1>4. CASE mem[t] = NoSession
        BY <1>4 DEF OpenInv, Shared
  <1>5. CASE mem[t] # NoSession
        BY <1>2, <1>3, <1>5, EffectTable
  <1> QED BY <1>4, <1>5

\* Unless a run begins by pruning a stale record it cannot remove from the
\* file, no retry, error, abort or failed write throws away a session the
\* server would still continue, for any number of jobs, paths and runs.
THEOREM OpenSessionsKept == PruneSaved => (Spec => OpenSessionKept)
  <1> SUFFICES ASSUME PruneSaved PROVE Spec => OpenSessionKept
      OBVIOUS
  <1>1. LoopInv /\ LoopInv' /\ OpenInv /\ [Next]_vars => OpenKeptStep
        BY OpenStep
  <1>2. LoopInv /\ LoopInv' /\ SessionInv /\ OpenInv /\ [Next]_vars => OpenInv'
        BY NextOpen
  <1>3. OpenKeptStep => [\A t \in Token :
            running /\ disk[t] # NoSession /\ disk'[t] = NoSession => srv[t] # "open"]_vars
        BY DEF OpenKeptStep
  <1> QED BY <1>1, <1>2, <1>3, InitSession, NextSession, InitOpen, LoopInvHolds, PTL
          DEF Spec, OpenSessionKept

-----------------------------------------------------------------------------
(***************************************************************************)
(* SuccessRecorded.  Whoever knows a token knows its delete token: a job   *)
(* with a session, a record of one, and so the row the callback is about   *)
(* to write (KeyInv).  Needed besides: the process lives to write that     *)
(* row, and the answer that publishes a file can be read.                  *)
(***************************************************************************)
Lived == "crash" \notin Faults /\ BadBodies \cap {"complete", "sharex", "verify"} = {}

KeyedJobs == \A j \in Job : jobs[j].token # NoToken => jobs[j].dtok

KeyedTables ==
    \A t \in Token : /\ mem[t] # NoSession => mem[t].dtok
                     /\ disk[t] # NoSession => disk[t].dtok

KeyedRow == recording # NoRow => recording.tok \in Token /\ recording.dtok

UnreadableAnswers == \A j \in Job : req[j].answer = "bad" => req[j].kind \in BadBodies

Recorded == Lived => SuccessRecorded

KeyInv == KeyedJobs /\ KeyedTables /\ KeyedRow /\ UnreadableAnswers /\ Recorded

\* What a job that goes on or succeeds has had its delete token from.
LEMMA EffectKeyed ==
    ASSUME LoopInv, LoopInv', OpenInv, KeyInv, NEW j \in Job, Effect(j)
    PROVE  KeyedJobs' /\ KeyedTables'
  <1>1. ASSUME NEW t \in Token
        PROVE  /\ mem[t] # NoSession => mem[t].dtok
               /\ disk[t] # NoSession => disk[t].dtok
        BY DEF KeyInv, KeyedTables
  <1>2. jobs[j].token # NoToken => jobs[j].dtok
        BY DEF KeyInv, KeyedJobs
  <1>3. mem \in Table
        BY SessionTypes
  <1>4. jobs'[j].token # NoToken => jobs'[j].dtok
    <2>1. CASE SameSession(j)
          BY <1>2, <2>1 DEF SameSession
    <2>2. CASE Resumes(j)
      <3>1. PICK t \in Store!FindSource(mem, source[j], jobs[j].stamp) :
              jobs'[j].dtok = mem[t].dtok
            BY <2>2 DEF Resumes
      <3>2. t \in Token /\ mem[t] # NoSession
            BY DEF Store!FindSource, Store!SessionTokens
      <3> QED BY <1>1, <3>1, <3>2
    <2>3. CASE Records(j)
          BY <1>2, <2>3 DEF Records
    <2> QED BY <2>1, <2>2, <2>3 DEF Effect, Continues, GivesUp, Succeeds
  <1>5. ASSUME NEW t \in Token, mem'[t] # NoSession PROVE mem'[t].dtok
    <2>1. CASE mem'[t] \in {mem[t], NoSession}
          BY <1>1, <1>5, <2>1
    <2>2. CASE Records(j)
      <3> DEFINE session == Store!SessionOf(source[j], jobs[j].stamp, jobs'[j].sent,
                                            jobs'[j].dtok)
      <3>1. mem' = Store!Put(mem, jobs'[j].token, session)
            BY <2>2 DEF Records
      <3>2. session.dtok = jobs'[j].dtok
            BY DEF Store!SessionOf
      <3> HIDE DEF session
      <3>3. mem'[t] = IF t = jobs'[j].token THEN session ELSE mem[t]
            BY <1>3, <3>1, PutRow
      <3>4. t = jobs'[j].token => jobs'[j].dtok
            BY <1>4, Bounds
      <3> QED BY <1>1, <1>5, <3>2, <3>3, <3>4
    <2>3. CASE DropSession(jobs[j].token)
          BY <1>3, <2>1, <2>3, DropRow
    <2>4. CASE KeepSessions
          BY <2>1, <2>4 DEF KeepSessions
    <2> QED BY <2>2, <2>3, <2>4 DEF Effect, Continues, Resumes, GivesUp, Succeeds
  <1>6. KeyedTables'
    <2>1. disk' = disk \/ disk' = mem'
          BY EffectFile
    <2> QED BY <1>1, <1>5, <2>1 DEF KeyedTables
  <1>7. KeyedJobs'
        BY <1>4 DEF Effect, Others, KeyInv, KeyedJobs
  <1> QED BY <1>6, <1>7

\* A success is about to be recorded, with the delete token.
LEMMA EffectRecorded ==
    ASSUME LoopInv, OpenInv, KeyInv, NEW j \in Job, Effect(j)
    PROVE  KeyedRow' /\ Recorded'
  <1>1. recording = NoRow /\ shelf' = shelf /\ printed' = printed
        BY DEF Effect, LoopReady, LoopFrame
  <1>2. ASSUME Lived, NEW t \in acked PROVE shelf[t] = "keyed" \/ t \in printed
        BY <1>1, <1>2, Bounds DEF KeyInv, Recorded, SuccessRecorded, NoRow
  <1>3. CASE ~Succeeds(j)
    <2>1. recording' = recording /\ acked' = acked
          BY <1>3 DEF Effect, Continues, Resumes, Records, GivesUp
    <2> QED BY <1>1, <1>2, <2>1 DEF KeyedRow, Recorded, SuccessRecorded
  <1>4. CASE Succeeds(j)
    <2>1. req[j].tok \in Token
          BY <1>4 DEF Succeeds, LoopInv, ReplyNamed
    <2>2. req[j].kind = "verify" => jobs[j].dtok
      <3>1. req[j].kind = "verify" => req[j].tok = jobs[j].token
            BY DEF OpenInv, OwnRequest, Repeatable
      <3> QED BY <2>1, <3>1, Bounds DEF KeyInv, KeyedJobs
    <2>3. recording' = IF req[j].answer = "ok" THEN [tok |-> req[j].tok, dtok |-> TRUE]
                       ELSE NoRow
          BY <1>4, <2>2 DEF Succeeds
    <2>4. KeyedRow'
          BY <2>1, <2>3 DEF KeyedRow
    <2>5. Lived => req[j].answer = "ok"
          BY <1>4 DEF Succeeds, KeyInv, UnreadableAnswers, Lived
    <2>6. acked' = acked \cup {req[j].tok}
          BY <1>4 DEF Succeeds
    <2> QED BY <1>1, <1>2, <2>3, <2>4, <2>5, <2>6 DEF Recorded, SuccessRecorded
  <1> QED BY <1>3, <1>4

\* The callback writes the row, or prints the delete token.
LEMMA RecordResultKeyed ==
    ASSUME LoopInv, KeyInv, RecordResult
    PROVE  KeyInv'
  <1>1. /\ UNCHANGED <<jobs, req, mem, disk, acked>>
        /\ recording # NoRow /\ recording' = NoRow
        BY DEF RecordResult, netVars, ghostVars
  <1>2. recording.tok \in Token /\ recording.dtok
        BY <1>1 DEF KeyInv, KeyedRow
  <1>3. shelf \in [Token -> {"absent", "bare", "keyed"}] /\ acked \subseteq Token
        BY DEF LoopInv, TypeOK
  <1>4. ASSUME NEW t \in Token, \/ shelf[t] = "keyed" \/ t \in printed
                                \/ recording = [tok |-> t, dtok |-> TRUE]
        PROVE  shelf'[t] = "keyed" \/ t \in printed'
    <2>1. CASE shelf' = [shelf EXCEPT ![recording.tok] = "keyed"] /\ printed' = printed
          BY <1>2, <1>3, <1>4, <2>1
    <2>2. CASE printed' = printed \cup {recording.tok} /\ shelf' = shelf
          BY <1>4, <2>2
    <2> QED BY <1>2, <2>1, <2>2 DEF RecordResult
  <1>5. Recorded'
        BY <1>1, <1>3, <1>4 DEF KeyInv, Recorded, SuccessRecorded
  <1> QED BY <1>1, <1>5 DEF KeyInv, KeyedJobs, KeyedTables, KeyedRow, UnreadableAnswers

\* A server's answer cannot be read only where such answers are assumed.
LEMMA ServeRequestKeyed ==
    ASSUME LoopInv, KeyInv, NEW j \in Job, ServeRequest(j)
    PROVE  KeyInv'
  <1>1. UNCHANGED <<jobs, mem, disk, recording, shelf, printed, acked>>
        BY DEF ServeRequest, engineVars, fileVars
  <1>2. req \in [Job -> Request] /\ req[j] \in Request /\ ServerTypeOK
        BY DEF LoopInv, TypeOK
  <1>3. UnreadableAnswers'
    <2>1. ASSUME NEW t \in Token, NEW answer \in Answer, Serve(req[j], t, answer),
                 NEW seen \in {answer} \cup
                     (IF answer = "ok" /\ req[j].kind \in BadBodies THEN {"bad"} ELSE {}),
                 req' = [req EXCEPT ![j] =
                            [@ EXCEPT !.tok = t, !.answer = seen,
                                      !.got = IF req[j].kind = "status"
                                              THEN Received(t) ELSE {}]]
          PROVE  UnreadableAnswers'
      <3>1. answer \in {"ok", "404", "409"}
            BY <1>2, <2>1, ServeAnswers
      <3>2. req'[j].kind = req[j].kind /\ req'[j].answer = seen
            BY <1>2, <2>1 DEF Request
      <3>3. \A k \in Job \ {j} : req'[k] = req[k]
            BY <1>2, <2>1
      <3>4. seen = "bad" => req[j].kind \in BadBodies
            BY <3>1
      <3> QED BY <3>2, <3>3, <3>4 DEF KeyInv, UnreadableAnswers
    <2>2. ASSUME NEW answer \in ServerErrors,
                 req' = [req EXCEPT ![j] = [@ EXCEPT !.answer = answer]]
          PROVE  UnreadableAnswers'
      <3>1. answer # "bad"
            BY FaultsAssumption DEF ErrorAnswer
      <3>2. req'[j].answer = answer
            BY <1>2, <2>2 DEF Request
      <3>3. \A k \in Job \ {j} : req'[k] = req[k]
            BY <1>2, <2>2
      <3> QED BY <3>1, <3>2, <3>3 DEF KeyInv, UnreadableAnswers
    <2> QED BY <2>1, <2>2 DEF ServeRequest
  <1> QED BY <1>1, <1>3 DEF KeyInv, KeyedJobs, KeyedTables, KeyedRow, Recorded, SuccessRecorded

\* Steps between runs and at their ends: jobs keep their session or lose it,
\* records are taken as they are, and no row waits that is not written.
LEMMA QuietKeyed ==
    ASSUME LoopInv, KeyInv, UNCHANGED <<shelf, printed, acked>>,
           recording' = recording \/ ("crash" \in Faults /\ recording' = NoRow),
           \A k \in Job : \/ jobs'[k].token = jobs[k].token /\ jobs'[k].dtok = jobs[k].dtok
                          \/ jobs'[k].token = NoToken,
           \A k \in Job : req'[k] = req[k] \/ req'[k] = NoRequest(k),
           \A t \in Token : /\ mem'[t] # NoSession => mem'[t].dtok
                            /\ disk'[t] # NoSession => disk'[t].dtok
    PROVE  KeyInv'
  <1>1. KeyedJobs' /\ KeyedTables'
        BY DEF KeyInv, KeyedJobs, KeyedTables
  <1>2. KeyedRow' /\ Recorded'
        BY DEF KeyInv, KeyedRow, Recorded, SuccessRecorded, Lived
  <1>3. ASSUME NEW k \in Job PROVE NoRequest(k).answer # "bad"
        BY DEF NoRequest
  <1>4. UnreadableAnswers'
        BY <1>3 DEF KeyInv, UnreadableAnswers
  <1> QED BY <1>1, <1>2, <1>4 DEF KeyInv

\* The life of a process.
LEMMA LifeKeyed ==
    ASSUME LoopInv, KeyInv, StartRun \/ Exit \/ Abort \/ Crash
    PROVE  KeyInv'
  <1>1. ASSUME NEW t \in Token, disk[t] # NoSession PROVE disk[t].dtok
        BY <1>1 DEF KeyInv, KeyedTables
  <1>2. /\ UNCHANGED <<shelf, printed, acked>>
        /\ recording' = recording \/ ("crash" \in Faults /\ recording' = NoRow)
        BY DEF StartRun, Exit, Abort, Crash, fileVars, ghostVars
  <1>3. ASSUME NEW t \in Token
        PROVE  mem'[t] \in {disk[t], NoSession} /\ disk'[t] \in {disk[t], NoSession}
    <2>1. CASE StartRun
      <3>1. mem'[t] \in {disk[t], NoSession}
            BY <2>1 DEF StartRun, Store!PruneStale
      <3>2. disk' = mem' \/ disk' = disk
            BY <2>1 DEF StartRun, SaveSessions
      <3> QED BY <3>1, <3>2
    <2>2. CASE Exit \/ Abort \/ Crash
          BY <2>2 DEF Exit, Abort, Crash, fileVars, Store!NoSessions
    <2> QED BY <2>1, <2>2
  <1>4. ASSUME NEW k \in Job
        PROVE  /\ \/ jobs'[k].token = jobs[k].token /\ jobs'[k].dtok = jobs[k].dtok
                  \/ jobs'[k].token = NoToken
               /\ req'[k] = req[k] \/ req'[k] = NoRequest(k)
    <2>1. CASE StartRun
      <3>1. \E resume : jobs'[k] = QueuedJob(k, "start", resume)
            BY <2>1 DEF StartRun
      <3>2. req' = req
            BY <2>1 DEF StartRun, netVars
      <3> QED BY <3>1, <3>2 DEF QueuedJob
    <2>2. CASE Exit
          BY <2>2 DEF Exit, netVars
    <2>3. CASE Abort
      <3>1. jobs[k] \in JobRecord
            BY DEF LoopInv, TypeOK
      <3>2. jobs'[k] = jobs[k] \/ jobs'[k] = [jobs[k] EXCEPT !.state = "failed"]
            BY <2>3 DEF Abort
      <3>3. LET failed == [jobs[k] EXCEPT !.state = "failed"]
            IN  failed.token = jobs[k].token /\ failed.dtok = jobs[k].dtok
            BY <3>1 DEF JobRecord
      <3>4. req'[k] = req[k] \/ req'[k] = NoRequest(k)
            BY <2>3 DEF Abort
      <3> QED BY <3>2, <3>3, <3>4
    <2>4. CASE Crash
          BY <2>4 DEF Crash, QueuedJob
    <2> QED BY <2>1, <2>2, <2>3, <2>4
  <1>5. \A t \in Token : /\ mem'[t] # NoSession => mem'[t].dtok
                         /\ disk'[t] # NoSession => disk'[t].dtok
        BY <1>1, <1>3
  <1> QED BY <1>2, <1>4, <1>5, QuietKeyed

\* Records age with their delete tokens.
LEMMA TimePassesKeyed ==
    ASSUME LoopInv, KeyInv, TimePasses
    PROVE  KeyInv'
  <1>1. UNCHANGED <<jobs, req, mem, recording, shelf, printed, acked>>
        BY DEF TimePasses, engineVars, netVars, ghostVars
  <1>2. ASSUME NEW t \in Token, disk'[t] # NoSession PROVE disk'[t].dtok
    <2>1. disk'[t] = IF disk[t] # NoSession THEN [disk[t] EXCEPT !.old = TRUE] ELSE NoSession
          BY DEF TimePasses, Store!Age
    <2>2. disk[t] # NoSession => disk[t] \in Session /\ disk[t].dtok
          BY SessionTypes DEF Table, KeyInv, KeyedTables
    <2> QED BY <1>2, <2>1, <2>2 DEF Session
  <1>3. \A t \in Token : mem'[t] # NoSession => mem'[t].dtok
        BY <1>1 DEF KeyInv, KeyedTables
  <1> QED BY <1>1, <1>2, <1>3, QuietKeyed

\* Nothing is known, nothing is recorded.
LEMMA InitKeyed == Init => KeyInv
  BY DEF Init, KeyInv, KeyedJobs, KeyedTables, KeyedRow, UnreadableAnswers, Recorded,
         SuccessRecorded, QueuedJob, NoRequest, Store!NoSessions

\* KeyInv is inductive, given the others.
LEMMA NextKeyed == LoopInv /\ LoopInv' /\ OpenInv /\ KeyInv /\ [Next]_vars => KeyInv'
  <1> SUFFICES ASSUME LoopInv, LoopInv', OpenInv, KeyInv, [Next]_vars
               PROVE  KeyInv'
      OBVIOUS
  <1>1. CASE \/ Interrupt \/ ServerForgets \/ ServeLate \/ (\E f \in File : EditFile(f))
             \/ UNCHANGED vars
    <2>1. UNCHANGED <<jobs, req, mem, disk, recording, shelf, printed, acked>>
          BY <1>1 DEF Interrupt, ServerForgets, ServeLate, EditFile, vars, engineVars,
                      netVars, fileVars, ghostVars
    <2>2. \A t \in Token : /\ mem'[t] # NoSession => mem'[t].dtok
                           /\ disk'[t] # NoSession => disk'[t].dtok
          BY <2>1 DEF KeyInv, KeyedTables
    <2> QED BY <2>1, <2>2, QuietKeyed
  <1>2. ASSUME NEW j \in Job, LoopAction(j) PROVE KeyInv'
    <2>1. Effect(j)
          BY <1>2, LoopEffect
    <2>2. UnreadableAnswers'
          BY <2>1 DEF Effect, Others, Sends, KeyInv, UnreadableAnswers
    <2> QED BY <2>1, <2>2, EffectKeyed, EffectRecorded DEF KeyInv
  <1>3. ASSUME NEW j \in Job, ServeRequest(j) PROVE KeyInv'
        BY <1>3, ServeRequestKeyed
  <1> QED BY <1>1, <1>2, <1>3, LifeKeyed, TimePassesKeyed, RecordResultKeyed
          DEF Next, LoopAction, Environment

\* In a process that is not killed, and with answers to the last request that
\* can be read, an upload counted as succeeded has its delete token on the
\* shelf, on the screen or in the callback's hands, whatever else fails.
THEOREM SuccessesRecorded == Lived => (Spec => []SuccessRecorded)
  <1> SUFFICES ASSUME Lived PROVE Spec => []SuccessRecorded
      OBVIOUS
  <1>1. KeyInv => SuccessRecorded
        BY DEF KeyInv, Recorded
  <1> QED BY <1>1, InitSession, NextSession, InitOpen, NextOpen, InitKeyed, NextKeyed,
             LoopInvHolds, PTL DEF Spec

-----------------------------------------------------------------------------
(***************************************************************************)
(* ProgressSaved.  A live job has its session, with its bitmap and its     *)
(* source, in the loaded table (Written), and the file is that table       *)
(* (Synced).  Two jobs of different sources never share a token, so no     *)
(* job writes another's record: with one path queued twice they do, and    *)
(* the property fails.                                                     *)
(***************************************************************************)
PathsApart == \A i, j \in Job : source[i] = source[j] => i = j

WrittenJob(j) ==
    Active(jobs[j]) /\ jobs[j].token # NoToken =>
        /\ mem[jobs[j].token] # NoSession
        /\ mem[jobs[j].token].file = source[j]
        /\ mem[jobs[j].token].sent = jobs[j].sent

Written == PathsApart => \A j \in Job : WrittenJob(j)

Synced == running /\ "disk" \notin Faults => disk = mem

Stopped == ~running => \A j \in Job : ~Active(jobs[j])

SavedInv == Written /\ Synced /\ Stopped

\* The record of a job's own token is its own.
LEMMA OwnRecord ==
    ASSUME LoopInv, LoopInv', SessionInv, SavedInv, PathsApart, NEW j \in Job, Effect(j)
    PROVE  WrittenJob(j)'
  <1>1. mem \in Table
        BY SessionTypes
  <1>2. jobs[j].token # NoToken => jobs[j].token \in Token
        BY SessionTypes
  <1>3. PICK u : u = jobs'[j].token
        OBVIOUS
  <1>4. PICK sent : sent = jobs'[j].sent
        OBVIOUS
  <1>5. SUFFICES ASSUME Active(jobs'[j]), u # NoToken
                 PROVE  mem'[u] # NoSession /\ mem'[u].file = source[j] /\ mem'[u].sent = sent
        BY <1>3, <1>4 DEF WrittenJob, Active
  <1>6. u \in Token
    <2>1. jobs'[j] \in JobRecord
          BY DEF LoopInv, TypeOK
    <2> QED BY <1>3, <1>5, <2>1 DEF JobRecord
  <1>7. CASE Continues(j)
    <2>1. u = jobs[j].token /\ sent = jobs[j].sent /\ mem' = mem
          BY <1>3, <1>4, <1>7 DEF Continues, SameSession, KeepSessions
    <2>2. Active(jobs[j])
          BY DEF Effect
    <2>3. WrittenJob(j)
          BY DEF SavedInv, Written
    <2> QED BY <1>5, <2>1, <2>2, <2>3 DEF WrittenJob
  <1>8. CASE Resumes(j)
    <2>1. u \in Store!FindSource(mem, source[j], jobs[j].stamp) /\ sent = mem[u].sent
          BY <1>3, <1>4, <1>8 DEF Resumes
    <2>2. mem' = mem
          BY <1>8 DEF Resumes, KeepSessions
    <2> QED BY <2>1, <2>2 DEF Store!FindSource, Store!SessionTokens
  <1>9. CASE Records(j)
    <2> DEFINE session == Store!SessionOf(source[j], jobs[j].stamp, jobs'[j].sent, jobs'[j].dtok)
    <2>1. mem' = Store!Put(mem, u, session)
          BY <1>3, <1>9 DEF Records
    <2>2. session # NoSession
          BY WrittenSession
    <2>3. session.file = source[j] /\ session.sent = sent
          BY <1>4 DEF Store!SessionOf
    <2> HIDE DEF session
    <2>4. mem'[u] = session
          BY <1>1, <1>6, <2>1, PutRow
    <2> QED BY <2>2, <2>3, <2>4
  <1>10. CASE GivesUp(j) \/ Succeeds(j)
         BY <1>5, <1>10 DEF GivesUp, Succeeds, Active
  <1> QED BY <1>7, <1>8, <1>9, <1>10 DEF Effect

\* A step of job j leaves the records of other files' jobs alone.
LEMMA OtherRecord ==
    ASSUME LoopInv, LoopInv', SessionInv, SavedInv, PathsApart, NEW j \in Job, Effect(j),
           NEW k \in Job, k # j
    PROVE  WrittenJob(k)'
  <1>1. mem \in Table
        BY SessionTypes
  <1>2. jobs'[k] = jobs[k]
        BY DEF Effect, Others
  <1>3. PICK t : t = jobs[k].token
        OBVIOUS
  <1>4. SUFFICES ASSUME Active(jobs[k]), t # NoToken PROVE mem'[t] = mem[t]
    <2>1. WrittenJob(k)
          BY DEF SavedInv, Written
    <2> QED BY <1>2, <1>3, <1>4, <2>1 DEF WrittenJob, Active
  <1>5. t \in Token
        BY <1>3, <1>4, SessionTypes
  <1>6. mem[t] # NoSession /\ mem[t].file = source[k]
        BY <1>3, <1>4 DEF SavedInv, Written, WrittenJob
  <1>7. t # jobs[j].token
    <2>1. jobs[j].token = t => mem[t].file = source[j]
          BY <1>4 DEF Effect, SavedInv, Written, WrittenJob
    <2> QED BY <1>6, <2>1 DEF PathsApart
  <1>8. Created(j) => t # req[j].tok
    <2>1. PICK s : s = mem[t].stamp
          OBVIOUS
    <2>2. mem[t] \in Session
          BY <1>1, <1>5, <1>6 DEF Table
    <2>3. mem[t].file \in File /\ s \in Version
          BY <2>1, <2>2 DEF Session
    <2>4. Owns(t, mem[t].file, s)
          BY <1>6, <2>1 DEF Owns
    <2> QED BY <2>3, <2>4 DEF SessionInv, FreshInv, Fresh
  <1>9. CASE Continues(j) \/ Resumes(j)
        BY <1>9 DEF Continues, Resumes, KeepSessions
  <1>10. CASE Records(j)
    <2> DEFINE session == Store!SessionOf(source[j], jobs[j].stamp, jobs'[j].sent, jobs'[j].dtok)
    <2>1. mem' = Store!Put(mem, jobs'[j].token, session)
          BY <1>10 DEF Records
    <2> HIDE DEF session
    <2>2. t # jobs'[j].token
          BY <1>7, <1>8, <1>10 DEF Records
    <2> QED BY <1>1, <1>5, <2>1, <2>2, PutRow
  <1>11. CASE GivesUp(j) \/ Succeeds(j)
    <2>1. DropSession(jobs[j].token)
          BY <1>11 DEF GivesUp, Succeeds
    <2> QED BY <1>1, <1>5, <1>7, <2>1, DropRow
  <1> QED BY <1>9, <1>10, <1>11 DEF Effect

\* The file follows the table at every write.
LEMMA EffectSynced ==
    ASSUME LoopInv, SavedInv, NEW j \in Job, Effect(j)
    PROVE  Synced'
  <1> SUFFICES ASSUME "disk" \notin Faults PROVE disk' = mem'
      BY DEF Synced
  <1>1. disk = mem
        BY DEF Effect, LoopReady, SavedInv, Synced
  <1>2. KeepSessions \/ SaveSessions
        BY DEF Effect, Continues, Resumes, Records, GivesUp, Succeeds, KeepSessions,
               DropSession
  <1> QED BY <1>1, <1>2 DEF KeepSessions, SaveSessions

\* The start of a run writes what it loaded; its end leaves no job.
LEMMA LifeSaved ==
    ASSUME LoopInv, SavedInv, StartRun \/ Exit \/ Abort \/ Crash
    PROVE  SavedInv'
  <1>1. CASE StartRun
    <2>1. ASSUME NEW k \in Job PROVE jobs'[k].token = NoToken
      <3>1. \E resume : jobs'[k] = QueuedJob(k, "start", resume)
            BY <1>1 DEF StartRun
      <3> QED BY <3>1 DEF QueuedJob
    <2>2. Written'
          BY <2>1 DEF Written, WrittenJob
    <2>3. Synced' /\ Stopped'
          BY <1>1 DEF StartRun, SaveSessions, Synced, Stopped
    <2> QED BY <2>2, <2>3 DEF SavedInv
  <1>2. CASE Exit \/ Abort \/ Crash
    <2>1. ~running'
          BY <1>2 DEF Exit, Abort, Crash
    <2>2. ASSUME NEW k \in Job PROVE ~Active(jobs'[k])
      <3>1. CASE Exit
            BY <3>1 DEF Exit
      <3>2. CASE Abort
        <4>1. jobs[k] \in JobRecord
              BY DEF LoopInv, TypeOK
        <4>2. jobs'[k] = IF Active(jobs[k]) THEN [jobs[k] EXCEPT !.state = "failed"]
                         ELSE jobs[k]
              BY <3>2 DEF Abort
        <4>3. LET failed == [jobs[k] EXCEPT !.state = "failed"] IN failed.state = "failed"
              BY <4>1 DEF JobRecord
        <4> QED BY <4>2, <4>3 DEF Active
      <3>3. CASE Crash
            BY <3>3 DEF Crash, QueuedJob, Active
      <3> QED BY <1>2, <3>1, <3>2, <3>3
    <2>3. Written' /\ Synced' /\ Stopped'
          BY <2>1, <2>2 DEF Written, WrittenJob, Synced, Stopped, Active
    <2> QED BY <2>3 DEF SavedInv
  <1> QED BY <1>1, <1>2

\* SavedInv is inductive, given the others.
LEMMA NextSaved == LoopInv /\ LoopInv' /\ SessionInv /\ SavedInv /\ [Next]_vars => SavedInv'
  <1> SUFFICES ASSUME LoopInv, LoopInv', SessionInv, SavedInv, [Next]_vars
               PROVE  SavedInv'
      OBVIOUS
  <1>1. CASE \/ Interrupt \/ RecordResult \/ ServerForgets \/ ServeLate
             \/ (\E f \in File : EditFile(f)) \/ (\E j \in Job : ServeRequest(j))
             \/ UNCHANGED vars
    <2>1. UNCHANGED <<jobs, mem, disk, running>>
          BY <1>1 DEF Interrupt, RecordResult, ServerForgets, ServeLate, EditFile, ServeRequest,
                      vars, engineVars, fileVars
    <2>2. Written'
          BY <2>1 DEF SavedInv, Written, WrittenJob
    <2>3. Synced' /\ Stopped'
          BY <2>1 DEF SavedInv, Synced, Stopped
    <2> QED BY <2>2, <2>3 DEF SavedInv
  <1>2. CASE TimePasses
    <2>1. UNCHANGED <<jobs, mem, running>> /\ ~running
          BY <1>2 DEF TimePasses, engineVars
    <2>2. Written'
          BY <2>1 DEF SavedInv, Written, WrittenJob
    <2>3. Synced' /\ Stopped'
          BY <2>1 DEF SavedInv, Synced, Stopped
    <2> QED BY <2>2, <2>3 DEF SavedInv
  <1>3. ASSUME NEW j \in Job, LoopAction(j) PROVE SavedInv'
    <2>1. Effect(j)
          BY <1>3, LoopEffect
    <2>2. PathsApart => \A k \in Job : WrittenJob(k)'
          BY <2>1, OwnRecord, OtherRecord
    <2>3. Written'
          BY <2>2 DEF Written, WrittenJob
    <2>4. Stopped'
          BY <2>1 DEF Effect, LoopReady, LoopFrame, Stopped
    <2> QED BY <2>1, <2>3, <2>4, EffectSynced DEF SavedInv
  <1> QED BY <1>1, <1>2, <1>3, LifeSaved DEF Next, LoopAction, Environment

\* Whatever stops or hinders the jobs, of any number of files: sessions.json
\* has the chunks each live job knows to be confirmed, no fewer and no others.
THEOREM ProgressIsSaved == PathsApart => (Spec => []ProgressSaved)
  <1> SUFFICES ASSUME PathsApart PROVE Spec => []ProgressSaved
      OBVIOUS
  <1>1. SavedInv => ProgressSaved
    <2> SUFFICES ASSUME SavedInv, "disk" \notin Faults, NEW j \in Job,
                        Active(jobs[j]), jobs[j].token # NoToken
                 PROVE  /\ disk[jobs[j].token] # NoSession
                        /\ disk[jobs[j].token].sent = jobs[j].sent
        BY DEF ProgressSaved
    <2>1. disk = mem
          BY DEF SavedInv, Stopped, Synced
    <2> QED BY <2>1 DEF SavedInv, Written, WrittenJob
  <1>2. Init => SavedInv
        BY DEF Init, SavedInv, Written, WrittenJob, Synced, Stopped, QueuedJob, Active
  <1> QED BY <1>1, <1>2, NextSaved, InitSession, NextSession, LoopInvHolds, PTL DEF Spec

-----------------------------------------------------------------------------
(***************************************************************************)
(* DeleteTokenKept.  A session is dropped when the server denies it; the   *)
(* delete token goes with it, so the denial must mean that no file was     *)
(* published.  It does as long as nobody but the job itself, in the answer *)
(* it is reading, can have completed the upload (Unpublished): the first   *)
(* `complete` is the first, and none is under way late.  A denied repeat   *)
(* is settled by the metadata, which is then missing for good              *)
(* (MetadataGone).  The job's own record is enough to know which of the    *)
(* two it is in (Stage).                                                   *)
(***************************************************************************)
\* The run the property is about: the program's first, to its end or to
\* Ctrl+C, with a network that may do anything, sessions that may expire, but
\* files that can be written, and a server that answers, readably, what it
\* has.
Undisturbed ==
    /\ MaxRuns <= 1
    /\ ServerErrors = {} /\ BadBodies \cap {"complete", "verify"} = {}
    /\ Faults \cap {"crash", "disk", "loss"} = {}

\* The job asks for completion, or waits to.
Completing(job) ==
    \/ job.state = "complete"
    \/ job.state = "controlBackoff" /\ job.retry = "complete"

Stage(job) ==
    /\ ~job.resume /\ job.state # "status"
    /\ job.state = "controlBackoff" => job.retry \in {"complete", "verify"}
    /\ job.state \in Early \cup {"chunk", "chunkBackoff"} => job.completes = 0
    /\ Completing(job) => job.completes \in {1, 2} /\ job.sent = Chunk

Staged == \A j \in Job : Stage(jobs[j])

\* The job has a session and never gave up a request to complete it.
Sending(job) == job.state \in {"chunk", "chunkBackoff"}

FirstTry(job) ==
    \/ Sending(job)
    \/ job.state = "complete" /\ job.completes <= 1

Unasked(t) == \A r \in late : r.tok = t => r.kind # "complete"

Unpublished(j) ==
    LET t == jobs[j].token IN
    FirstTry(jobs[j]) =>
        /\ t \in Token /\ Unasked(t)
        /\ srv[t] = "file" => jobs[j].state = "complete" /\ req[j].answer = "ok"

NewUnpublished ==
    \A j \in Job : Created(j) => srv[req[j].tok] # "file"

MetadataGone ==
    \A j \in Job : req[j].kind = "verify" /\ req[j].answer = "404" =>
        req[j].tok \in Token /\ srv[req[j].tok] = "gone"

Apart ==
    \A i, j \in Job : jobs[i].token = jobs[j].token => i = j \/ jobs[i].token = NoToken

\* The server serves whatever it is asked, and has what it was sent.
Served ==
    /\ \A j \in Job : req[j].answer \in {"none", "ok", "bad", "404"}
    /\ \A t \in Token : lost[t] = {}

FirstRun == runs = 0 => ~running /\ \A t \in Token : disk[t] = NoSession

\* The delete token of t is somewhere, or of no use.
AtHand(t) ==
    \/ srv[t] = "gone" \/ disk[t] # NoSession
    \/ shelf[t] = "keyed" \/ t \in printed \/ recording = [tok |-> t, dtok |-> TRUE]

Kept == \A t \in known : AtHand(t)

TokenInv ==
    /\ Staged /\ (\A j \in Job : Unpublished(j)) /\ NewUnpublished /\ MetadataGone
    /\ Apart /\ Served /\ FirstRun /\ Kept

-----------------------------------------------------------------------------
(* What a step of the loop makes of the job's record                        *)

LEMMA LeastNumber ==
    ASSUME NEW T, T \subseteq Nat, T # {}
    PROVE  \E x \in T : \A y \in T : x <= y
  <1> DEFINE R == OpToRel(<, Nat)
  <1>1. \A x, y \in Nat : x < y => <<x, y>> \in R
        BY DEF OpToRel
  <1>2. IsWellFoundedOn(R, Nat)
        BY NatLessThanWellFounded
  <1> HIDE DEF R
  <1>3. PICK x \in T : \A y \in T : ~(<<y, x>> \in R)
        BY <1>2, WFMin
  <1>4. ASSUME NEW y \in T PROVE x <= y
    <2>1. x \in Nat /\ y \in Nat
          OBVIOUS
    <2>2. ~(y < x)
          BY <1>1, <1>3, <2>1
    <2> QED BY <2>1, <2>2
  <1> QED BY <1>4

\* job_next_missing finds a chunk as long as one is not confirmed.
LEMMA NoneMissing ==
    ASSUME NEW sent \in SUBSET Chunk, NextMissing(sent) = {}
    PROVE  sent = Chunk
  <1> SUFFICES ASSUME sent # Chunk PROVE FALSE
      OBVIOUS
  <1> DEFINE T == Chunk \ sent
  <1>1. Chunk \subseteq Nat
        BY NumChunksAssumption DEF Chunk
  <1>2. T \subseteq Nat /\ T # {}
        BY <1>1
  <1> HIDE DEF T
  <1>3. PICK c \in T : \A d \in T : c <= d
        BY <1>2, LeastNumber
  <1>4. c \in Chunk /\ c \in Nat /\ c \notin sent
        BY <1>2 DEF T
  <1>5. ASSUME NEW d \in 0 .. c - 1 PROVE d \in sent
    <2>1. d \in Chunk
          BY <1>4, NumChunksAssumption DEF Chunk
    <2>2. ~(c <= d)
          BY <1>4
    <2> QED BY <1>3, <2>1, <2>2 DEF T
  <1> QED BY <1>4, <1>5 DEF NextMissing

\* The job is left as `job` but for its state.
Becomes(j, job, states) ==
    /\ jobs'[j].state \in states
    /\ jobs'[j].token = job.token /\ jobs'[j].sent = job.sent
    /\ jobs'[j].resume = job.resume /\ jobs'[j].completes = job.completes
    /\ jobs'[j].retry = job.retry

LEMMA FailBecomes ==
    ASSUME LoopInv, NEW j \in Job, NEW job \in JobRecord, Fail(j, job)
    PROVE  Becomes(j, job, {"failed"})
  <1>1. jobs' = [jobs EXCEPT ![j] = [job EXCEPT !.state = "failed"]]
        BY DEF Fail, Settle
  <1>2. jobs'[j] = [job EXCEPT !.state = "failed"]
        BY <1>1 DEF LoopInv, TypeOK
  <1> QED BY <1>2 DEF Becomes, JobRecord

LEMMA StartBecomes ==
    ASSUME LoopInv, NEW j \in Job, NEW job \in JobRecord, NEW kind \in RequestKind,
           Start(j, job, kind)
    PROVE  Becomes(j, job, {kind, "failed"})
  <1>1. CASE Fail(j, job)
        BY <1>1, FailBecomes DEF Becomes
  <1>2. CASE ~Fail(j, job)
    <2>1. jobs' = [jobs EXCEPT ![j] = [job EXCEPT !.state = kind]]
          BY <1>2 DEF Start
    <2>2. jobs'[j] = [job EXCEPT !.state = kind]
          BY <2>1 DEF LoopInv, TypeOK
    <2> QED BY <2>2 DEF Becomes, JobRecord
  <1> QED BY <1>1, <1>2

\* The step that the proofs below need to know of a job's record.
Steps(j) ==
    /\ Stage(jobs'[j])
    /\ FirstTry(jobs'[j]) =>
           \/ Sending(jobs[j]) /\ jobs'[j].token = jobs[j].token
           \/ Created(j) /\ jobs'[j].token = req[j].tok

\* A job at its end.
LEMMA OverSteps ==
    ASSUME NEW j \in Job, Staged, jobs'[j].state \in {"done", "failed"},
           jobs'[j].resume = jobs[j].resume
    PROVE  Steps(j)
  BY DEF Staged, Stage, Steps, FirstTry, Sending, Completing, Early

\* job_fail
LEMMA FailSteps ==
    ASSUME LoopInv, Staged, NEW j \in Job, Fail(j, jobs[j])
    PROVE  Steps(j)
  <1>1. jobs[j] \in JobRecord
        BY DEF LoopInv, TypeOK
  <1>2. Becomes(j, jobs[j], {"failed"})
        BY <1>1, FailBecomes
  <1> QED BY <1>2, OverSteps DEF Becomes

\* job_start_complete, with nothing missing.
LEMMA StartCompleteSteps ==
    ASSUME LoopInv, NEW j \in Job, NEW job \in JobRecord, StartComplete(j, job),
           ~job.resume, job.sent = Chunk,
           job.completes = 0 =>
               \/ Sending(jobs[j]) /\ job.token = jobs[j].token
               \/ Created(j) /\ job.token = req[j].tok
    PROVE  Steps(j)
  <1> DEFINE counted == [job EXCEPT !.completes = IF @ < 2 THEN @ + 1 ELSE 2]
  <1>1. counted \in JobRecord
        BY DEF JobRecord
  <1>2. /\ counted.token = job.token /\ counted.sent = job.sent
        /\ counted.resume = job.resume
        /\ counted.completes \in {1, 2}
        /\ counted.completes <= 1 => job.completes = 0
        BY DEF JobRecord
  <1>3. Start(j, counted, "complete")
        BY DEF StartComplete
  <1> HIDE DEF counted
  <1>4. Becomes(j, counted, {"complete", "failed"})
        BY <1>1, <1>3, StartBecomes DEF RequestKind
  <1> QED BY <1>2, <1>4 DEF Becomes, Steps, Stage, FirstTry, Sending, Completing, Early

\* The tail of job_advance
LEMMA NextRequestSteps ==
    ASSUME LoopInv, NEW j \in Job, NEW job \in JobRecord, NextRequest(j, job),
           ~job.resume, job.completes = 0,
           \/ Sending(jobs[j]) /\ job.token = jobs[j].token
           \/ Created(j) /\ job.token = req[j].tok
    PROVE  Steps(j)
  <1>1. CASE NextMissing(job.sent) = {} /\ StartComplete(j, job)
    <2>1. job.sent \in SUBSET Chunk
          BY DEF JobRecord
    <2>2. job.sent = Chunk
          BY <1>1, <2>1, NoneMissing
    <2> QED BY <1>1, <2>2, StartCompleteSteps
  <1>2. ASSUME NEW c \in NextMissing(job.sent), Start(j, [job EXCEPT !.chunk = c], "chunk")
        PROVE  Steps(j)
    <2> DEFINE aimed == [job EXCEPT !.chunk = c]
    <2>1. c \in Chunk
          BY DEF NextMissing
    <2>2. aimed \in JobRecord
          BY <2>1 DEF JobRecord
    <2>3. aimed.token = job.token /\ aimed.resume = job.resume
          /\ aimed.completes = job.completes
          BY DEF JobRecord
    <2>4. Start(j, aimed, "chunk")
          BY <1>2
    <2> HIDE DEF aimed
    <2>5. Becomes(j, aimed, {"chunk", "failed"})
          BY <2>2, <2>4, StartBecomes DEF RequestKind
    <2> QED BY <2>3, <2>5 DEF Becomes, Steps, Stage, FirstTry, Sending, Completing, Early
  <1> QED BY <1>1, <1>2 DEF NextRequest

\* A request other than complete goes out again, or for the first time.
LEMMA StartSteps ==
    ASSUME LoopInv, Staged, NEW j \in Job,
           NEW kind \in {"init", "sharex", "chunk", "verify"}, Start(j, jobs[j], kind),
           kind \in {"init", "sharex"} => jobs[j].state \in Early,
           kind = "chunk" => Sending(jobs[j])
    PROVE  Steps(j)
  <1>1. jobs[j] \in JobRecord /\ kind \in RequestKind
        BY DEF LoopInv, TypeOK, RequestKind
  <1>2. Becomes(j, jobs[j], {kind, "failed"})
        BY <1>1, StartBecomes
  <1>3. Stage(jobs[j])
        BY DEF Staged
  <1> QED BY <1>2, <1>3 DEF Becomes, Steps, Stage, FirstTry, Sending, Completing, Early

LEMMA KickOffSteps ==
    ASSUME LoopInv, Staged, NEW j \in Job, KickOff(j)
    PROVE  Steps(j)
  <1>1. Resumable(j) = {}
        BY DEF Staged, Stage, Resumable
  <1>2. jobs[j].state \in Early
        BY DEF KickOff, Early
  <1> QED BY <1>1, <1>2, StartSteps DEF KickOff

LEMMA WakeUpSteps ==
    ASSUME LoopInv, Staged, NEW j \in Job, WakeUp(j)
    PROVE  Steps(j)
  <1>1. CASE jobs[j].state = "initBackoff" /\ Start(j, jobs[j], "init")
        BY <1>1, StartSteps DEF Early
  <1>2. CASE jobs[j].state = "chunkBackoff" /\ Start(j, jobs[j], "chunk")
        BY <1>2, StartSteps DEF Sending
  <1>3. CASE jobs[j].state = "controlBackoff" /\ jobs[j].retry \in {"status", "verify"}
             /\ Start(j, jobs[j], jobs[j].retry)
    <2>1. jobs[j].retry = "verify"
          BY <1>3 DEF Staged, Stage
    <2> QED BY <1>3, <2>1, StartSteps
  <1>4. CASE jobs[j].state = "controlBackoff" /\ jobs[j].retry \notin {"status", "verify"}
             /\ StartComplete(j, jobs[j])
    <2>1. jobs[j] \in JobRecord
          BY DEF LoopInv, TypeOK
    <2>2. ~jobs[j].resume /\ jobs[j].sent = Chunk /\ jobs[j].completes \in {1, 2}
          BY <1>4 DEF Staged, Stage, Completing
    <2> QED BY <1>4, <2>1, <2>2, StartCompleteSteps
  <1> QED BY <1>1, <1>2, <1>3, <1>4 DEF WakeUp

LEMMA NetworkErrorSteps ==
    ASSUME LoopInv, Staged, NEW j \in Job, NetworkError(j)
    PROVE  Steps(j)
  <1>1. CASE Fail(j, jobs[j])
        BY <1>1, FailSteps
  <1>2. CASE ~Fail(j, jobs[j])
    <2> DEFINE job == [jobs[j] EXCEPT
                !.attempt = @ + 1, !.retry = jobs[j].state,
                !.state = IF jobs[j].state = "chunk" THEN "chunkBackoff"
                          ELSE "controlBackoff"]
    <2>1. Settle(j, job) /\ jobs[j].state \in Repeatable
          BY <1>2 DEF NetworkError
    <2>2. jobs'[j] = job
          BY <2>1 DEF Settle, LoopInv, TypeOK
    <2>3. jobs[j] \in JobRecord
          BY DEF LoopInv, TypeOK
    <2>4. /\ job.token = jobs[j].token /\ job.sent = jobs[j].sent
          /\ job.resume = jobs[j].resume /\ job.completes = jobs[j].completes
          /\ job.retry = jobs[j].state
          /\ job.state = IF jobs[j].state = "chunk" THEN "chunkBackoff" ELSE "controlBackoff"
          BY <2>3 DEF JobRecord
    <2> HIDE DEF job
    <2>5. Stage(jobs[j])
          BY DEF Staged
    <2> QED BY <2>1, <2>2, <2>4, <2>5
            DEF Steps, Stage, FirstTry, Sending, Completing, Early, Repeatable
  <1> QED BY <1>1, <1>2

LEMMA InitReplySteps ==
    ASSUME LoopInv, Staged, NEW j \in Job, InitReply(j)
    PROVE  Steps(j)
  <1>1. CASE Fail(j, jobs[j])
        BY <1>1, FailSteps
  <1>2. CASE Answered(j, "init", {"ok"})
    <2> DEFINE job == [jobs[j] EXCEPT !.token = req[j].tok, !.dtok = TRUE, !.sent = {}]
    <2>1. /\ jobs[j] \in JobRecord
          /\ jobs[j].state = "init" /\ req[j].kind = "init" /\ req[j].answer = "ok"
          BY <1>2, AnsweredActive DEF RequestKind
    <2>2. req[j].tok \in Token
          BY <2>1 DEF LoopInv, ReplyNamed
    <2>3. job \in JobRecord
          BY <2>1, <2>2 DEF JobRecord
    <2>4. job.token = req[j].tok /\ job.resume = jobs[j].resume
          /\ job.completes = jobs[j].completes
          BY <2>1 DEF JobRecord
    <2>5. NextRequest(j, job)
          BY <2>1 DEF InitReply, Answered
    <2>6. Created(j)
          BY <2>1 DEF Created
    <2>7. ~jobs[j].resume /\ jobs[j].completes = 0
          BY <2>1 DEF Staged, Stage, Early
    <2> HIDE DEF job
    <2> QED BY <2>3, <2>4, <2>5, <2>6, <2>7, NextRequestSteps
  <1> QED BY <1>1, <1>2 DEF InitReply

LEMMA ChunkReplySteps ==
    ASSUME LoopInv, Staged, Served, NEW j \in Job, ChunkReply(j)
    PROVE  Steps(j)
  <1>1. CASE Fail(j, jobs[j])
        BY <1>1, FailSteps
  <1>2. CASE Answered(j, "chunk", ErrorAnswer)
        BY <1>2 DEF Answered, Served, ErrorAnswer
  <1>3. CASE Answered(j, "chunk", {"ok", "bad"})
    <2> DEFINE job == [jobs[j] EXCEPT !.sent = @ \cup {jobs[j].chunk}, !.attempt = 0]
    <2>1. /\ jobs[j] \in JobRecord /\ jobs[j].state = "chunk"
          /\ req[j].answer \in {"ok", "bad"}
          BY <1>3, AnsweredActive DEF RequestKind
    <2>2. 0 \in 0 .. MaxRetries
          BY LimitsAssumption
    <2>3. job \in JobRecord
          BY <2>1, <2>2 DEF JobRecord
    <2>4. job.token = jobs[j].token /\ job.resume = jobs[j].resume
          /\ job.completes = jobs[j].completes
          BY <2>1 DEF JobRecord
    <2>5. NextRequest(j, job)
          BY <2>1 DEF ChunkReply, Answered, ErrorAnswer
    <2>6. ~jobs[j].resume /\ jobs[j].completes = 0 /\ Sending(jobs[j])
          BY <2>1 DEF Staged, Stage, Sending
    <2> HIDE DEF job
    <2> QED BY <2>3, <2>4, <2>5, <2>6, NextRequestSteps
  <1> QED BY <1>1, <1>2, <1>3 DEF ChunkReply

\* job_succeed
LEMMA SucceedSteps ==
    ASSUME LoopInv, Staged, NEW j \in Job, NEW dtok, Succeed(j, dtok)
    PROVE  Steps(j)
  <1>1. jobs'[j] = [jobs[j] EXCEPT !.state = "done"] /\ jobs[j] \in JobRecord
        BY DEF Succeed, Settle, LoopInv, TypeOK
  <1>2. jobs'[j].state = "done" /\ jobs'[j].resume = jobs[j].resume
        BY <1>1 DEF JobRecord
  <1> QED BY <1>2, OverSteps

LEMMA CompleteReplySteps ==
    ASSUME LoopInv, Staged, Served, NEW j \in Job, CompleteReply(j)
    PROVE  Steps(j)
  <1>1. CASE Fail(j, jobs[j]) \/ Succeed(j, TRUE)
        BY <1>1, FailSteps, SucceedSteps
  <1>2. CASE Answered(j, "complete", {"409"})
        BY <1>2 DEF Answered, Served
  <1>3. CASE Answered(j, "complete", {"404"}) /\ Start(j, jobs[j], "verify")
        BY <1>3, StartSteps
  <1> QED BY <1>1, <1>2, <1>3 DEF CompleteReply

\* Every step of the event loop keeps the job's record in its stage.
LEMMA LoopSteps ==
    ASSUME LoopInv, Staged, Served, NEW j \in Job, LoopAction(j)
    PROVE  Steps(j)
  <1>1. CASE CancelTransfer(j)
        BY <1>1, FailSteps DEF CancelTransfer
  <1>2. CASE CapacityRefused(j)
        BY <1>2 DEF CapacityRefused, Answered, Served, ErrorAnswer
  <1>3. CASE StatusReply(j)
        BY <1>3 DEF StatusReply, Answered, Staged, Stage
  <1>4. CASE SharexReply(j)
        BY <1>4, SucceedSteps DEF SharexReply
  <1>5. CASE VerifyReply(j)
        BY <1>5, SucceedSteps, FailSteps DEF VerifyReply
  <1> QED BY <1>1, <1>2, <1>3, <1>4, <1>5, KickOffSteps, WakeUpSteps, NetworkErrorSteps,
             InitReplySteps, ChunkReplySteps, CompleteReplySteps DEF LoopAction, Advance
-----------------------------------------------------------------------------
(* Who may publish a token                                                  *)

\* Only a job with a token of its own shares it with nobody.
LEMMA OwnToken ==
    ASSUME LoopInv, SessionInv, NEW j \in Job, NEW t \in Token, jobs[j].token = t
    PROVE  ~Fresh(t)
  <1>1. jobs[j] \in JobRecord /\ source[j] \in File
        BY SourceAssumption DEF LoopInv, TypeOK
  <1>2. jobs[j].stamp \in Version
        BY <1>1 DEF JobRecord
  <1>3. Owns(t, source[j], jobs[j].stamp)
        BY DEF Owns
  <1> QED BY <1>1, <1>2, <1>3 DEF Fresh

\* A token becomes a file when it is handed out by sharex, or completed.
LEMMA Publishes ==
    ASSUME ServerTypeOK, NEW r, NEW t \in Token, NEW answer, Serve(r, t, answer),
           NEW u \in Token, srv[u] # "file", srv'[u] = "file"
    PROVE  /\ u = t
           /\ \/ srv[u] = "unused"
              \/ r.kind = "complete" /\ r.tok = u /\ answer = "ok"
  BY DEF ServerTypeOK, Serve, UploadInit, ShareX, PutChunk, UploadStatus, UploadComplete,
         ServeMetadata, serverVars

\* What is gone stays gone; nothing served mislays a chunk.
LEMMA ServeKeeps ==
    ASSUME ServerTypeOK, NEW r, NEW t \in Token, NEW answer, Serve(r, t, answer),
           NEW u \in Token
    PROVE  /\ srv[u] = "gone" => srv'[u] = "gone"
           /\ lost[u] = {} => lost'[u] = {}
  <1>1. CASE lost' = [lost EXCEPT ![t] = @ \ {r.chunk}] /\ srv' = srv
        BY <1>1 DEF ServerTypeOK
  <1>2. CASE lost' = lost
        BY <1>2 DEF ServerTypeOK, Serve, UploadInit, ShareX, PutChunk, UploadStatus,
                    UploadComplete, ServeMetadata, serverVars
  <1> QED BY <1>1, <1>2 DEF Serve, UploadInit, ShareX, PutChunk, UploadStatus,
             UploadComplete, ServeMetadata, serverVars

-----------------------------------------------------------------------------
(* The steps of the loop                                                    *)

\* A job's token is the one it had, or one nobody else had.
LEMMA EffectToken ==
    ASSUME LoopInv, SessionInv, OpenInv, TokenInv, NEW j \in Job, Effect(j)
    PROVE  \/ jobs'[j].token = jobs[j].token
           \/ /\ Created(j) /\ jobs'[j].token = req[j].tok /\ req[j].tok \in Token
              /\ Fresh(req[j].tok)
  <1>1. ~Resumes(j)
        BY DEF Resumes, TokenInv, Staged, Stage
  <1>2. Created(j) => req[j].tok \in Token /\ Fresh(req[j].tok)
        BY DEF Created, LoopInv, ReplyNamed, SessionInv, FreshInv
  <1> QED BY <1>1, <1>2 DEF Effect, Continues, Records, GivesUp, Succeeds, SameSession

LEMMA EffectApart ==
    ASSUME LoopInv, SessionInv, OpenInv, TokenInv, NEW j \in Job, Effect(j)
    PROVE  Apart'
  <1> SUFFICES ASSUME NEW i \in Job, i # j, jobs'[i].token = jobs'[j].token,
                      jobs'[j].token # NoToken
               PROVE  FALSE
    <2>1. \A i, k \in Job : i # j /\ k # j /\ jobs'[i].token = jobs'[k].token =>
              i = k \/ jobs'[i].token = NoToken
          BY DEF Effect, Others, TokenInv, Apart
    <2> QED BY <2>1 DEF Apart
  <1>1. jobs'[i] = jobs[i]
        BY DEF Effect, Others
  <1>2. CASE jobs'[j].token = jobs[j].token
        BY <1>1, <1>2 DEF TokenInv, Apart
  <1>3. CASE jobs'[j].token = req[j].tok /\ req[j].tok \in Token /\ Fresh(req[j].tok)
        BY <1>1, <1>3, OwnToken
  <1> QED BY <1>2, <1>3, EffectToken

\* What the loop gives up is asked for late at most by the job itself.
LEMMA EffectUnpublished ==
    ASSUME LoopInv, SessionInv, OpenInv, TokenInv, NEW j \in Job, Effect(j), Steps(j),
           NEW i \in Job
    PROVE  Unpublished(i)'
  <1>1. srv' = srv /\ late' \subseteq late \cup {req[j]}
        BY DEF Effect, LoopFrame, serverVars
  <1>2. req[j].kind = "complete" => req[j].tok = jobs[j].token /\ jobs[j].state = "complete"
        BY DEF OpenInv, OwnRequest, Repeatable, LoopInv, BusyKind, Busy
  <1>3. Unpublished(i)
        BY DEF TokenInv
  <1>4. CASE i # j
    <2>1. jobs'[i] = jobs[i] /\ req'[i] = req[i]
          BY <1>4 DEF Effect, Others
    <2>2. PICK t : t = jobs[i].token
          OBVIOUS
    <2>3. FirstTry(jobs[i]) => t # jobs[j].token
          BY <1>3, <1>4, <2>2, Bounds DEF TokenInv, Apart, Unpublished
    <2>4. FirstTry(jobs[i]) => Unasked(t)'
          BY <1>1, <1>2, <1>3, <2>2, <2>3 DEF Unpublished, Unasked
    <2> QED BY <1>1, <1>3, <2>1, <2>2, <2>4 DEF Unpublished
  <1>5. CASE i = j
    <2> SUFFICES ASSUME FirstTry(jobs'[j])
                 PROVE  Unpublished(j)'
        BY <1>5 DEF Unpublished
    <2>1. PICK t : t = jobs'[j].token
          OBVIOUS
    <2>2. CASE Sending(jobs[j]) /\ t = jobs[j].token
      <3>1. req[j].kind # "complete" /\ FirstTry(jobs[j]) /\ jobs[j].state # "complete"
            BY <1>2, <2>2 DEF Sending, FirstTry
      <3>2. t \in Token /\ Unasked(t) /\ srv[t] # "file"
            BY <1>3, <1>5, <2>2, <3>1 DEF Unpublished
      <3>3. Unasked(t)'
            BY <1>1, <3>1, <3>2 DEF Unasked
      <3> QED BY <1>1, <2>1, <3>2, <3>3 DEF Unpublished
    <2>3. CASE Created(j) /\ t = req[j].tok
      <3>1. t \in Token /\ Fresh(t) /\ srv[t] # "file"
            BY <2>3 DEF Created, LoopInv, ReplyNamed, SessionInv, FreshInv, TokenInv,
                        NewUnpublished
      <3>2. req[j].kind # "complete"
            BY <2>3 DEF Created
      <3>3. Unasked(t)'
            BY <1>1, <3>1, <3>2 DEF Unasked, Fresh
      <3> QED BY <1>1, <2>1, <3>1, <3>3 DEF Unpublished
    <2> QED BY <2>1, <2>2, <2>3 DEF Steps
  <1> QED BY <1>4, <1>5

\* A session given up had no file, and will have none.
LEMMA GivenUpGone ==
    ASSUME LoopInv, OpenInv, TokenInv, NEW j \in Job, GivesUp(j), jobs[j].token \in Token
    PROVE  srv[jobs[j].token] = "gone"
  <1>1. srv[jobs[j].token] \in {"file", "gone"}
        BY DroppedClosed DEF Closed
  <1>2. req[j].kind # "none" => req[j].kind = jobs[j].state
        BY DEF LoopInv, BusyKind, Busy
  <1>3. CASE req[j].kind = "status"
        BY <1>2, <1>3 DEF TokenInv, Staged, Stage
  <1>4. CASE req[j].kind \in {"chunk", "complete"} /\ req[j].answer = "404"
             /\ (req[j].kind = "complete" => jobs[j].completes <= 1)
    <2>1. FirstTry(jobs[j])
          BY <1>2, <1>4 DEF FirstTry, Sending
    <2>2. Unpublished(j)
          BY DEF TokenInv
    <2> QED BY <1>1, <1>4, <2>1, <2>2 DEF Unpublished
  <1>5. CASE req[j].kind = "verify" /\ req[j].answer \in {"404"} \cup ErrorAnswer
    <2>1. req[j].answer = "404"
          BY <1>5 DEF TokenInv, Served, ErrorAnswer
    <2>2. req[j].tok = jobs[j].token
          BY <1>5 DEF OpenInv, OwnRequest, Repeatable
    <2> QED BY <1>5, <2>1, <2>2 DEF TokenInv, MetadataGone
  <1> QED BY <1>3, <1>4, <1>5 DEF GivesUp

\* Whatever the loop takes out of the file has its delete token elsewhere.
LEMMA EffectKept ==
    ASSUME Undisturbed, LoopInv, LoopInv', SessionInv, OpenInv, KeyInv, KeyInv', SavedInv,
           TokenInv, NEW j \in Job, Effect(j)
    PROVE  Kept'
  <1>1. /\ srv' = srv /\ shelf' = shelf /\ printed' = printed
        /\ recording = NoRow /\ mem \in Table /\ disk = mem
        BY SessionTypes DEF Effect, LoopFrame, LoopReady, serverVars, SavedInv, Synced,
                            Undisturbed
  <1>2. known \subseteq Token
        BY DEF LoopInv, TypeOK
  <1>3. ASSUME NEW t \in known
        PROVE  srv[t] = "gone" \/ disk[t] # NoSession \/ shelf[t] = "keyed" \/ t \in printed
    <2>1. recording # [tok |-> t, dtok |-> TRUE]
          BY <1>1, <1>2, Bounds DEF NoRow
    <2> QED BY <2>1 DEF TokenInv, Kept, AtHand
  <1>4. CASE Continues(j) \/ Resumes(j)
    <2>1. UNCHANGED <<disk, known>>
          BY <1>4 DEF Continues, Resumes, KeepSessions
    <2> QED BY <1>1, <1>3, <2>1 DEF Kept, AtHand
  <1>5. CASE Records(j)
    <2> DEFINE session == Store!SessionOf(source[j], jobs[j].stamp, jobs'[j].sent, jobs'[j].dtok)
    <2>1. mem' = Store!Put(mem, jobs'[j].token, session)
          BY <1>5 DEF Records
    <2>2. session # NoSession
          BY WrittenSession
    <2> HIDE DEF session
    <2>3. disk' = mem'
          BY <1>5 DEF Records, SaveSessions, Undisturbed
    <2>4. \A t \in Token : mem'[t] = IF t = jobs'[j].token THEN session ELSE mem[t]
          BY <1>1, <2>1, PutRow
    <2>5. known' \subseteq known \cup {jobs'[j].token} /\ known' \subseteq Token
          BY <1>5 DEF Records, LoopInv, TypeOK
    <2> QED BY <1>1, <1>3, <2>2, <2>3, <2>4, <2>5 DEF Kept, AtHand
  <1>6. ASSUME GivesUp(j) \/ Succeeds(j), NEW t \in Token, t # jobs[j].token
        PROVE  disk'[t] = disk[t]
    <2>1. DropSession(jobs[j].token)
          BY <1>6 DEF GivesUp, Succeeds
    <2>2. mem'[t] = mem[t]
          BY <1>1, <1>6, <2>1, DropRow
    <2>3. disk' = disk \/ disk' = mem'
          BY EffectFile
    <2> QED BY <1>1, <2>2, <2>3
  <1>7. CASE GivesUp(j)
    <2>1. known' = known
          BY <1>7 DEF GivesUp
    <2>2. ASSUME NEW t \in known, t = jobs[j].token PROVE srv[t] = "gone"
          BY <1>2, <1>7, <2>2, GivenUpGone
    <2> QED BY <1>1, <1>2, <1>3, <1>6, <1>7, <2>1, <2>2 DEF Kept, AtHand
  <1>8. CASE Succeeds(j)
    <2>1. CASE req[j].answer = "ok"
      <3>1. recording' = [tok |-> req[j].tok,
                          dtok |-> IF req[j].kind = "verify" THEN jobs[j].dtok ELSE TRUE]
            /\ known' = known \cup {req[j].tok} /\ req[j].tok \in Token
            BY <1>8, <2>1 DEF Succeeds, LoopInv, ReplyNamed
      <3>2. recording'.dtok
            BY <3>1, Bounds DEF KeyInv, KeyedRow, NoRow
      <3>3. recording' = [tok |-> req[j].tok, dtok |-> TRUE]
        <4>1. req[j].kind = "verify" => jobs[j].dtok
              BY <3>1, <3>2
        <4>2. jobs[j] \in JobRecord
              BY DEF LoopInv, TypeOK
        <4>3. jobs[j].dtok \in BOOLEAN
              BY <4>2 DEF JobRecord
        <4> QED BY <3>1, <4>1, <4>3
      <3>4. jobs[j].token \in Token => jobs[j].token = req[j].tok
        <4>1. CASE req[j].kind = "sharex"
          <5>1. jobs[j].token = NoToken
                BY <1>8, <4>1 DEF Succeeds, OpenInv, EarlyBare, Early
          <5> QED BY <5>1, Bounds
        <4>2. CASE req[j].kind # "sharex"
              BY <1>8, <4>2 DEF Succeeds, OpenInv, OwnRequest, Repeatable
        <4> QED BY <4>1, <4>2
      <3>5. ASSUME NEW t \in known' PROVE AtHand(t)'
        <4>1. CASE t = req[j].tok
              BY <3>3, <4>1 DEF AtHand
        <4>2. CASE t # req[j].tok
          <5>1. t \in known /\ t \in Token /\ t # jobs[j].token
                BY <1>2, <3>1, <3>4, <4>2
          <5>2. disk'[t] = disk[t]
                BY <1>6, <1>8, <5>1
          <5> QED BY <1>1, <1>3, <5>1, <5>2 DEF AtHand
        <4> QED BY <4>1, <4>2
      <3> QED BY <3>5 DEF Kept
    <2>2. CASE req[j].answer # "ok"
      <3>1. req[j].answer = "bad" /\ req[j].kind \in BadBodies
            BY <1>8, <2>2 DEF Succeeds, KeyInv, UnreadableAnswers
      <3>2. req[j].kind = "sharex" /\ jobs[j].state = "sharex"
            BY <1>8, <3>1 DEF Succeeds, Undisturbed
      <3>3. jobs[j].token \notin Token
            BY <3>2, Bounds DEF OpenInv, EarlyBare, Early
      <3>4. known' = known
            BY <1>8, <2>2 DEF Succeeds
      <3> QED BY <1>1, <1>2, <1>3, <1>6, <1>8, <3>3, <3>4 DEF Kept, AtHand
    <2> QED BY <2>1, <2>2
  <1> QED BY <1>4, <1>5, <1>7, <1>8 DEF Effect

LEMMA EffectTokens ==
    ASSUME Undisturbed, LoopInv, LoopInv', SessionInv, OpenInv, KeyInv, KeyInv', SavedInv,
           TokenInv, NEW j \in Job, Effect(j), Steps(j)
    PROVE  TokenInv'
  <1>1. /\ UNCHANGED <<serverVars, running, runs>> /\ running
        /\ \A i \in Job \ {j} : jobs'[i] = jobs[i] /\ req'[i] = req[i]
        /\ req'[j].answer = "none"
        BY DEF Effect, LoopFrame, LoopReady, Others, Sends
  <1>2. srv' = srv /\ lost' = lost
        BY <1>1 DEF serverVars
  <1>3. Staged'
        BY <1>1 DEF TokenInv, Staged, Steps
  <1>4. NewUnpublished' /\ MetadataGone'
    <2>1. ASSUME NEW i \in Job
          PROVE  req'[i].answer = "none" \/ req'[i] = req[i]
          BY <1>1
    <2> QED BY <1>2, <2>1 DEF TokenInv, NewUnpublished, MetadataGone, Created
  <1>5. Served' /\ FirstRun'
        BY <1>1, <1>2 DEF TokenInv, Served, FirstRun
  <1> QED BY <1>3, <1>4, <1>5, EffectApart, EffectUnpublished, EffectKept DEF TokenInv

-----------------------------------------------------------------------------
(* Server, network, clock and user                                          *)

\* Nobody publishes a token under a job's first try at it but by completing it.
LEMMA PublishesJobs ==
    ASSUME LoopInv, SessionInv, NEW r, NEW t \in Token, NEW answer, Serve(r, t, answer),
           NEW i \in Job, NEW u \in Token, jobs[i].token = u,
           srv[u] # "file", srv'[u] = "file"
    PROVE  u = t /\ r.kind = "complete" /\ r.tok = u /\ answer = "ok"
  <1>1. ServerTypeOK
        BY DEF LoopInv, TypeOK
  <1>2. srv[u] # "unused"
        BY OwnToken DEF SessionInv, FreshInv
  <1> QED BY <1>1, <1>2, Publishes

\* A token just handed out is published by nobody.
LEMMA PublishesNew ==
    ASSUME LoopInv, SessionInv, TokenInv, NEW r, NEW t \in Token, NEW answer,
           Serve(r, t, answer), NEW i \in Job, Created(i),
           r \in late \/ (\E k \in Job \ {i} : r = req[k])
    PROVE  srv'[req[i].tok] # "file"
  <1>1. ServerTypeOK
        BY DEF LoopInv, TypeOK
  <1>2. PICK u \in Token : u = req[i].tok
        BY DEF Created, LoopInv, ReplyNamed
  <1>3. srv[u] # "file" /\ srv[u] # "unused" /\ r.tok # u
        BY <1>2 DEF TokenInv, NewUnpublished, SessionInv, FreshInv, Fresh
  <1> QED BY <1>1, <1>2, <1>3, Publishes

\* When the jobs rest, and nothing is published or forgotten out of turn.
LEMMA RestTokens ==
    ASSUME LoopInv, TokenInv, UNCHANGED <<jobs, req, runs, known>>,
           \A i \in Job : Unpublished(i)', NewUnpublished', running' => running,
           \A t \in Token : /\ srv[t] = "gone" => srv'[t] = "gone"
                            /\ lost[t] = {} => lost'[t] = {}
                            /\ disk[t] = NoSession <=> disk'[t] = NoSession,
           \A t \in known : \/ UNCHANGED <<shelf[t], printed, recording>>
                            \/ shelf'[t] = "keyed"
    PROVE  TokenInv'
  <1>1. known \subseteq Token
        BY DEF LoopInv, TypeOK
  <1>2. Staged' /\ Apart'
        BY DEF TokenInv, Staged, Apart
  <1>3. MetadataGone'
        BY DEF TokenInv, MetadataGone
  <1>4. Served' /\ FirstRun'
        BY DEF TokenInv, Served, FirstRun
  <1>5. Kept'
        BY <1>1 DEF TokenInv, Kept, AtHand
  <1> QED BY <1>2, <1>3, <1>4, <1>5 DEF TokenInv

\* When nothing is published.
LEMMA QuietTokens ==
    ASSUME LoopInv, TokenInv, UNCHANGED <<jobs, req, late, runs, known>>, running' => running,
           \A t \in Token : /\ srv[t] = "gone" => srv'[t] = "gone"
                            /\ srv'[t] = "file" => srv[t] = "file"
                            /\ lost'[t] = lost[t]
                            /\ disk[t] = NoSession <=> disk'[t] = NoSession,
           \A t \in known : \/ UNCHANGED <<shelf[t], printed, recording>>
                            \/ shelf'[t] = "keyed"
    PROVE  TokenInv'
  <1>1. ASSUME NEW i \in Job PROVE Unpublished(i)'
        BY DEF TokenInv, Unpublished, Unasked
  <1>2. NewUnpublished'
        BY DEF TokenInv, NewUnpublished, Created, LoopInv, ReplyNamed
  <1> QED BY <1>1, <1>2, RestTokens

\* A late request completes no upload that is still at its first try.
LEMMA ServeLateTokens ==
    ASSUME LoopInv, SessionInv, TokenInv, ServeLate
    PROVE  TokenInv'
  <1>1. UNCHANGED <<jobs, req, runs, known, running, shelf, printed, recording, disk>>
        BY DEF ServeLate, engineVars, fileVars
  <1>2. PICK r \in late, t \in Token, answer \in Answer :
           Serve(r, t, answer) /\ late' = late \ {r}
        BY DEF ServeLate
  <1>3. ServerTypeOK
        BY DEF LoopInv, TypeOK
  <1>4. ASSUME NEW i \in Job PROVE Unpublished(i)'
    <2>1. Unpublished(i)
          BY DEF TokenInv
    <2>2. PICK u : u = jobs[i].token
          OBVIOUS
    <2>3. ASSUME FirstTry(jobs[i]) PROVE srv'[u] = "file" => srv[u] = "file"
          BY <1>2, <2>1, <2>2, <2>3, PublishesJobs DEF Unpublished, Unasked
    <2>4. Unasked(u) => Unasked(u)'
          BY <1>2 DEF Unasked
    <2> QED BY <1>1, <2>1, <2>2, <2>3, <2>4 DEF Unpublished
  <1>5. NewUnpublished'
    <2>1. ASSUME NEW i \in Job, Created(i)' PROVE srv'[req'[i].tok] # "file"
      <3>1. Created(i)
            BY <1>1, <2>1 DEF Created
      <3>2. srv'[req[i].tok] # "file"
            BY <1>2, <3>1, PublishesNew
      <3> QED BY <1>1, <3>2
    <2> QED BY <2>1 DEF NewUnpublished
  <1>6. \A u \in Token : /\ srv[u] = "gone" => srv'[u] = "gone"
                         /\ lost[u] = {} => lost'[u] = {}
        BY <1>2, <1>3, ServeKeeps
  <1> QED BY <1>1, <1>4, <1>5, <1>6, RestTokens

\* A complete request goes out with all chunks sent, so the server has them.
LEMMA NeverConflicts ==
    ASSUME LoopInv, HeldInv, OpenInv, TokenInv, NEW j \in Job, NEW t \in Token,
           Serve(req[j], t, "409")
    PROVE  FALSE
  <1>1. /\ req[j].kind = "complete" /\ t = req[j].tok
        /\ Received(t) # Chunk
        BY DEF Serve, UploadInit, ShareX, PutChunk, UploadStatus, UploadComplete, ServeMetadata
  <1>2. jobs[j].state = "complete" /\ t = jobs[j].token
        BY <1>1 DEF LoopInv, BusyKind, Busy, OpenInv, OwnRequest, Repeatable
  <1>3. jobs[j].sent = Chunk
        BY <1>2 DEF TokenInv, Staged, Stage, Completing
  <1>4. Chunk \subseteq Stored(t)
        BY <1>2, <1>3, Bounds DEF HeldInv, TransfersHeld, JobsHeld, JobHeld
  <1>5. lost[t] = {}
        BY DEF TokenInv, Served
  <1> QED BY <1>1, <1>4, <1>5 DEF Received, Stored

\* The server takes a request and answers it.
LEMMA ServeRequestTokens ==
    ASSUME Undisturbed, LoopInv, HeldInv, SessionInv, OpenInv, TokenInv,
           NEW j \in Job, ServeRequest(j)
    PROVE  TokenInv'
  <1>1. UNCHANGED <<jobs, late, runs, known, running, shelf, printed, recording, disk>>
        BY DEF ServeRequest, engineVars, fileVars
  <1>2. PICK t \in Token, answer \in Answer :
           /\ Serve(req[j], t, answer)
           /\ \E seen \in {answer} \cup
                 (IF answer = "ok" /\ req[j].kind \in BadBodies
                  THEN {"bad"} ELSE {}) :
                 req' = [req EXCEPT ![j] =
                     [@ EXCEPT !.tok = t, !.answer = seen,
                               !.got = IF req[j].kind = "status"
                                       THEN Received(t) ELSE {}]]
        BY DEF ServeRequest, Undisturbed
  <1>3. PICK seen \in {answer} \cup
                 (IF answer = "ok" /\ req[j].kind \in BadBodies
                  THEN {"bad"} ELSE {}) :
           req' = [req EXCEPT ![j] =
                     [@ EXCEPT !.tok = t, !.answer = seen,
                               !.got = IF req[j].kind = "status"
                                       THEN Received(t) ELSE {}]]
        BY <1>2
  <1>4. ServerTypeOK /\ req \in [Job -> Request] /\ req[j].answer = "none"
        BY DEF LoopInv, TypeOK, ServeRequest
  <1>5. req'[j].kind = req[j].kind /\ req'[j].tok = t /\ req'[j].answer = seen
        BY <1>3, <1>4 DEF Request
  <1>6. \A i \in Job \ {j} : req'[i] = req[i]
        BY <1>3, <1>4
  <1>7. answer \in {"ok", "404", "409"} /\ answer # "409"
        BY <1>2, <1>4, ServeAnswers, NeverConflicts
  <1>8. \A u \in Token : /\ srv[u] = "gone" => srv'[u] = "gone"
                         /\ lost[u] = {} => lost'[u] = {}
        BY <1>2, <1>4, ServeKeeps
  <1>9. ASSUME NEW i \in Job PROVE Unpublished(i)'
    <2>1. Unpublished(i)
          BY DEF TokenInv
    <2>2. PICK u : u = jobs[i].token
          OBVIOUS
    <2>3. Unasked(u) => Unasked(u)'
          BY <1>1 DEF Unasked
    <2>4. ASSUME FirstTry(jobs[i]), srv'[u] = "file"
          PROVE  jobs[i].state = "complete" /\ req'[i].answer = "ok"
      <3>1. u \in Token
            BY <2>1, <2>2, <2>4 DEF Unpublished
      <3>2. CASE srv[u] = "file"
            BY <1>4, <1>6, <2>1, <2>2, <2>4, <3>2 DEF Unpublished
      <3>3. CASE srv[u] # "file"
        <4>1. req[j].kind = "complete" /\ req[j].tok = u /\ answer = "ok"
              BY <1>2, <2>2, <2>4, <3>1, <3>3, PublishesJobs
        <4>2. jobs[j].state = "complete" /\ jobs[j].token = u
              BY <4>1 DEF LoopInv, BusyKind, Busy, OpenInv, OwnRequest, Repeatable
        <4>3. i = j
              BY <2>2, <3>1, <4>2, Bounds DEF TokenInv, Apart
        <4>4. seen = "ok"
              BY <4>1 DEF Undisturbed
        <4> QED BY <1>5, <4>2, <4>3, <4>4
      <3> QED BY <3>2, <3>3
    <2> QED BY <1>1, <2>1, <2>2, <2>3, <2>4 DEF Unpublished
  <1>10. NewUnpublished'
    <2>1. ASSUME NEW i \in Job, i # j, Created(i)' PROVE srv'[req'[i].tok] # "file"
      <3>1. Created(i) /\ req'[i] = req[i]
            BY <1>6, <2>1 DEF Created
      <3>2. \E k \in Job \ {i} : req[j] = req[k]
            BY <2>1
      <3>3. Created(i)
            BY <3>1
      <3>4. srv'[req[i].tok] # "file"
            BY <1>2, <3>2, <3>3, PublishesNew
      <3> QED BY <3>1, <3>4
    <2>2. ASSUME Created(j)' PROVE srv'[t] # "file"
      <3>1. req[j].kind = "init"
            BY <1>5, <2>2 DEF Created
      <3> QED BY <1>2, <1>4, <3>1 DEF Serve, UploadInit, ServerTypeOK
    <2> QED BY <1>5, <2>1, <2>2 DEF NewUnpublished
  <1>11. MetadataGone'
    <2>1. ASSUME NEW i \in Job, i # j, req'[i].kind = "verify", req'[i].answer = "404"
          PROVE  req'[i].tok \in Token /\ srv'[req'[i].tok] = "gone"
      <3>1. req'[i] = req[i]
            BY <1>6, <2>1
      <3>2. req[i].tok \in Token /\ srv[req[i].tok] = "gone"
            BY <2>1, <3>1 DEF TokenInv, MetadataGone
      <3> QED BY <1>8, <3>1, <3>2
    <2>2. ASSUME req[j].kind = "verify", seen = "404"
          PROVE  srv'[t] = "gone"
      <3>1. ServeMetadata(t, "404") /\ t = req[j].tok
            BY <1>2, <2>2 DEF Serve
      <3>2. srv[t] # "file" /\ srv' = srv
            BY <3>1 DEF ServeMetadata, serverVars
      <3>3. Verifying(jobs[j]) /\ t = jobs[j].token
            BY <2>2, <3>1 DEF LoopInv, BusyKind, Busy, Verifying, OpenInv, OwnRequest, Repeatable
      <3>4. Closed(t)
            BY <3>3 DEF OpenInv, Verified
      <3> QED BY <3>2, <3>4 DEF Closed
    <2> QED BY <1>5, <2>1, <2>2 DEF MetadataGone
  <1>12. Staged' /\ Apart'
         BY <1>1 DEF TokenInv, Staged, Apart
  <1>13. Served'
    <2>1. seen \in {"ok", "bad", "404"}
          BY <1>7
    <2>2. \A i \in Job : req'[i].answer \in {"none", "ok", "bad", "404"}
          BY <1>5, <1>6, <2>1 DEF TokenInv, Served
    <2> QED BY <1>8, <2>2 DEF TokenInv, Served
  <1>14. FirstRun'
         BY <1>1 DEF TokenInv, FirstRun
  <1>15. Kept'
    <2>1. known \subseteq Token
          BY DEF LoopInv, TypeOK
    <2> QED BY <1>1, <1>8, <2>1 DEF TokenInv, Kept, AtHand
  <1> QED BY <1>9, <1>10, <1>11, <1>12, <1>13, <1>14, <1>15 DEF TokenInv

\* The one run starts with nothing to resume.
LEMMA StartRunTokens ==
    ASSUME Undisturbed, LoopInv, TokenInv, StartRun
    PROVE  TokenInv'
  <1>1. UNCHANGED <<serverVars, req, known, recording, shelf, printed>>
        /\ runs < MaxRuns /\ runs' = runs + 1
        /\ mem' = Store!PruneStale(disk) /\ disk' = mem'
        BY DEF StartRun, netVars, ghostVars, SaveSessions, Undisturbed
  <1>2. runs = 0 /\ runs' # 0
        BY <1>1, MaxRunsAssumption DEF Undisturbed, LoopInv, TypeOK
  <1>3. \A t \in Token : disk[t] = NoSession
        BY <1>2 DEF TokenInv, FirstRun
  <1>4. \A t \in Token : mem'[t] = NoSession /\ disk'[t] = NoSession
        BY <1>1, <1>3 DEF Store!PruneStale
  <1>5. ASSUME NEW j \in Job PROVE jobs'[j] = QueuedJob(j, "start", FALSE)
    <2>1. PICK resume \in [Job -> BOOLEAN] :
             /\ resume[j] => Store!FindSource(mem', source[j], version[source[j]]) # {}
             /\ jobs'[j] = QueuedJob(j, "start", resume[j])
          BY DEF StartRun
    <2>2. Store!FindSource(mem', source[j], version[source[j]]) = {}
          BY <1>4 DEF Store!FindSource, Store!SessionTokens
    <2> QED BY <2>1, <2>2
  <1>6. ASSUME NEW j \in Job
        PROVE  /\ jobs'[j].state = "start" /\ jobs'[j].token = NoToken
               /\ ~jobs'[j].resume /\ jobs'[j].completes = 0
    <2>1. jobs'[j] = QueuedJob(j, "start", FALSE)
          BY <1>5
    <2> QED BY <2>1 DEF QueuedJob
  <1>7. Staged' /\ Apart' /\ \A j \in Job : Unpublished(j)'
        BY <1>6 DEF Staged, Stage, Completing, Apart, Unpublished, FirstTry, Sending
  <1>8. NewUnpublished' /\ MetadataGone' /\ Served'
        BY <1>1 DEF serverVars, TokenInv, NewUnpublished, Created, MetadataGone, Served
  <1>9. FirstRun'
        BY <1>2 DEF FirstRun
  <1>10. Kept'
    <2>1. known \subseteq Token
          BY DEF LoopInv, TypeOK
    <2> QED BY <1>1, <1>3, <2>1 DEF serverVars, TokenInv, Kept, AtHand
  <1> QED BY <1>7, <1>8, <1>9, <1>10 DEF TokenInv

\* engine_abort leaves every job at rest.
LEMMA AbortTokens ==
    ASSUME LoopInv, TokenInv, Abort
    PROVE  TokenInv'
  <1>1. /\ UNCHANGED <<serverVars, recording, shelf, printed, disk, runs, known>>
        /\ running' = FALSE /\ running
        BY DEF Abort, fileVars, ghostVars, LoopReady
  <1>2. srv' = srv /\ lost' = lost
        BY <1>1 DEF serverVars
  <1>3. ASSUME NEW k \in Job
        PROVE  /\ jobs'[k].state \in {"done", "failed"}
               /\ jobs'[k].token = jobs[k].token /\ jobs'[k].resume = jobs[k].resume
               /\ req'[k] = req[k] \/ req'[k] = NoRequest(k)
    <2>1. jobs[k] \in JobRecord
          BY DEF LoopInv, TypeOK
    <2>2. jobs'[k] = IF Active(jobs[k]) THEN [jobs[k] EXCEPT !.state = "failed"] ELSE jobs[k]
          BY DEF Abort
    <2>3. LET failed == [jobs[k] EXCEPT !.state = "failed"]
          IN  /\ failed.state = "failed" /\ failed.token = jobs[k].token
              /\ failed.resume = jobs[k].resume
          BY <2>1 DEF JobRecord
    <2>4. req'[k] = req[k] \/ req'[k] = NoRequest(k)
          BY DEF Abort
    <2> QED BY <2>2, <2>3, <2>4 DEF Active
  <1>4. \A k \in Job : NoRequest(k).answer = "none"
        BY DEF NoRequest
  <1>5. Staged' /\ Apart' /\ \A k \in Job : Unpublished(k)'
        BY <1>3 DEF TokenInv, Staged, Stage, Completing, Early, Apart, Unpublished, FirstTry,
                    Sending
  <1>6. NewUnpublished' /\ MetadataGone' /\ Served'
        BY <1>2, <1>3, <1>4 DEF TokenInv, NewUnpublished, Created, MetadataGone, Served
  <1>7. FirstRun' /\ Kept'
        BY <1>1, <1>2 DEF TokenInv, FirstRun, Kept, AtHand
  <1> QED BY <1>5, <1>6, <1>7 DEF TokenInv

\* The callback writes the shelf, and the files can be written.
LEMMA RecordResultTokens ==
    ASSUME Undisturbed, LoopInv, KeyInv, TokenInv, RecordResult
    PROVE  TokenInv'
  <1>1. /\ UNCHANGED <<serverVars, jobs, req, late, runs, known, running, printed, disk>>
        /\ recording # NoRow
        BY DEF RecordResult, netVars, ghostVars, Undisturbed
  <1>2. recording.tok \in Token /\ recording.dtok
        BY <1>1 DEF KeyInv, KeyedRow
  <1>3. /\ shelf \in [Token -> {"absent", "bare", "keyed"}] /\ known \subseteq Token
        BY DEF LoopInv, TypeOK
  <1>4. shelf' = [shelf EXCEPT ![recording.tok] = "keyed"]
        BY <1>2 DEF RecordResult, Undisturbed
  <1>5. srv' = srv /\ lost' = lost
        BY <1>1 DEF serverVars
  <1>6. Kept'
    <2>1. ASSUME NEW t \in known PROVE AtHand(t)'
      <3>1. AtHand(t) /\ t \in Token
            BY <1>3 DEF TokenInv, Kept
      <3>2. CASE t = recording.tok
            BY <1>3, <1>4, <3>1, <3>2 DEF AtHand
      <3>3. CASE t # recording.tok
            BY <1>1, <1>3, <1>4, <1>5, <3>1, <3>3 DEF AtHand
      <3> QED BY <3>2, <3>3
    <2> QED BY <1>1, <2>1 DEF Kept
  <1>7. Staged' /\ Apart' /\ \A k \in Job : Unpublished(k)'
        BY <1>1, <1>5 DEF TokenInv, Staged, Apart, Unpublished, Unasked
  <1>8. NewUnpublished' /\ MetadataGone' /\ Served' /\ FirstRun'
        BY <1>1, <1>5 DEF TokenInv, NewUnpublished, Created, MetadataGone, Served, FirstRun
  <1> QED BY <1>6, <1>7, <1>8 DEF TokenInv

\* Time, expiry, edits, signals and the end of the run.
LEMMA OtherTokens ==
    ASSUME Undisturbed, LoopInv, TokenInv,
           \/ Exit \/ Interrupt \/ ServerForgets \/ TimePasses
           \/ (\E f \in File : EditFile(f)) \/ UNCHANGED vars
    PROVE  TokenInv'
  <1>1. UNCHANGED <<jobs, req, late, runs, known, shelf, printed, recording>>
        /\ (running' => running)
        BY DEF Exit, Interrupt, ServerForgets, TimePasses, EditFile, vars, engineVars, netVars,
               fileVars, ghostVars
  <1>2. ASSUME NEW t \in Token
        PROVE  /\ srv[t] = "gone" => srv'[t] = "gone"
               /\ srv'[t] = "file" => srv[t] = "file"
               /\ lost'[t] = lost[t]
    <2>1. CASE ServerForgets
          BY <2>1, SessionTypes DEF ServerForgets, ExpireSession, Undisturbed
    <2>2. CASE ~ServerForgets
          BY <2>2 DEF Exit, Interrupt, TimePasses, EditFile, vars, serverVars
    <2> QED BY <2>1, <2>2
  <1>3. ASSUME NEW t \in Token PROVE disk[t] = NoSession <=> disk'[t] = NoSession
    <2>1. CASE TimePasses
      <3>1. disk'[t] = IF disk[t] # NoSession THEN [disk[t] EXCEPT !.old = TRUE] ELSE NoSession
            BY <2>1 DEF TimePasses, Store!Age
      <3>2. disk[t] # NoSession => disk[t] \in Session
            BY SessionTypes DEF Table
      <3>3. disk[t] # NoSession => [disk[t] EXCEPT !.old = TRUE] \in Session
            BY <3>2 DEF Session
      <3> QED BY <3>1, <3>3, NoSessionAssumption
    <2>2. CASE ~TimePasses
          BY <2>2 DEF Exit, Interrupt, ServerForgets, EditFile, vars, fileVars
    <2> QED BY <2>1, <2>2
  <1>4. \A t \in known : UNCHANGED <<shelf[t], printed, recording>>
        BY <1>1
  <1> QED BY <1>1, <1>2, <1>3, <1>4, QuietTokens

LEMMA InitTokens == Init => TokenInv
  BY DEF Init, ServerInit, TokenInv, Staged, Stage, Completing, Early, Unpublished, FirstTry,
         Sending, NewUnpublished, Created, MetadataGone, Apart, Served, FirstRun, Kept,
         QueuedJob, NoRequest, Store!NoSessions

\* TokenInv is inductive in an undisturbed run, given the others.
LEMMA NextTokens ==
    ASSUME Undisturbed
    PROVE  /\ LoopInv /\ LoopInv' /\ HeldInv /\ SessionInv /\ OpenInv /\ KeyInv /\ KeyInv'
           /\ SavedInv /\ TokenInv /\ [Next]_vars
           => TokenInv'
  <1> SUFFICES ASSUME LoopInv, LoopInv', HeldInv, SessionInv, OpenInv, KeyInv, KeyInv',
                      SavedInv, TokenInv, [Next]_vars
               PROVE  TokenInv'
      OBVIOUS
  <1>1. ASSUME NEW j \in Job, LoopAction(j) PROVE TokenInv'
    <2>1. Effect(j) /\ Steps(j)
          BY <1>1, LoopEffect, LoopSteps DEF TokenInv
    <2> QED BY <2>1, EffectTokens
  <1>2. ASSUME NEW j \in Job, ServeRequest(j) PROVE TokenInv'
        BY <1>2, ServeRequestTokens
  <1>3. ~Crash
        BY DEF Crash, Undisturbed
  <1> QED BY <1>1, <1>2, <1>3, StartRunTokens, AbortTokens, RecordResultTokens,
             ServeLateTokens, OtherTokens DEF Next, LoopAction, Environment

\* In one run against a server that answers what it has, over a network that
\* may lose or delay anything, with Ctrl+C at any moment and sessions that
\* expire: the delete token of a published file is never lost once the client
\* was told it.
THEOREM DeleteTokensKept == Undisturbed => (Spec => []DeleteTokenKept)
  <1> SUFFICES ASSUME Undisturbed PROVE Spec => []DeleteTokenKept
      OBVIOUS
  <1>1. TokenInv => DeleteTokenKept
        BY DEF TokenInv, Kept, AtHand, DeleteTokenKept, DeleteTokenAtHand
  <1>2. Init => SavedInv
        BY DEF Init, SavedInv, Written, WrittenJob, Synced, Stopped, QueuedJob, Active
  <1>3. /\ LoopInv /\ LoopInv' /\ HeldInv /\ SessionInv /\ OpenInv /\ KeyInv /\ KeyInv'
        /\ SavedInv /\ TokenInv /\ [Next]_vars
        => TokenInv'
        BY NextTokens
  <1> QED BY <1>1, <1>2, <1>3, InitTokens, InitHeldInv, NextHeldInv, InitSession, NextSession,
             InitOpen, NextOpen, InitKeyed, NextKeyed, NextSaved, LoopInvHolds, PTL DEF Spec
=============================================================================
