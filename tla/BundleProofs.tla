----------------------------- MODULE BundleProofs -----------------------------
(***************************************************************************)
(* What a run of `upload` promises, for any number of files, runs, uploads *)
(* and collections and every fault.                                        *)
(*                                                                         *)
(* MembersClaimable: the delete token of a collection is on record before  *)
(* the first request that names the collection, and is never given up, so  *)
(* whatever an upload belongs to is on record, published or not.           *)
(*                                                                         *)
(* WholeBundle, SeparateClaimable and TypeOK: every job works on an upload *)
(* of its own file, and a job that is done has it published and on record  *)
(* (BundleInv).                                                            *)
(*                                                                         *)
(* TempGone: while the copy of stdin is there, exactly one of spool_stdin, *)
(* the command and a job is going to remove it (TempInv).                  *)
(***************************************************************************)
EXTENDS Bundle, TLAPS, WellFoundedInduction

OnRecord(c) == row[c].dtok \/ <<"collection", c>> \in printed

\* Whatever was ever opened in a collection.
UploadsOnRecord ==
    \A t \in Tok : up[t].state # "unused" /\ up[t].coll # NoColl =>
        up[t].coll \in Coll /\ OnRecord(up[t].coll)

\* Where a command works on its files, behind RecordOpen.
Later == {"queue", "spooling", "spooled", "run", "seal", "sealed"}

RunOnRecord == run.bundle /\ run.pc \in Later => run.coll \in Coll /\ OnRecord(run.coll)

RunShape ==
    run = [pc |-> run.pc, bundle |-> run.bundle, mode |-> run.mode, args |-> run.args,
           coll |-> run.coll, jobs |-> run.jobs, spooled |-> run.spooled, owns |-> run.owns,
           looped |-> run.looped]

UploadShape ==
    /\ DOMAIN up = Tok
    /\ \A t \in Tok : up[t] = [state |-> up[t].state, path |-> up[t].path, coll |-> up[t].coll]

Rows == [Coll -> [state : {"absent", "open", "sealed"}, dtok : BOOLEAN]]

RecordTyped ==
    /\ RunShape
    /\ row \in Rows
    /\ UploadShape
    /\ run.pc = "record" => run.coll \in Coll

OnRecordInv == RecordTyped /\ UploadsOnRecord /\ RunOnRecord

-----------------------------------------------------------------------------

LEMMA InitOnRecord == Init => OnRecordInv
  BY DEF Init, NoRun, OnRecordInv, RecordTyped, RunShape, UploadShape,
         Rows, UploadsOnRecord, RunOnRecord, Later

\* A step that gives up no record and leaves uploads in their collections.
LEMMA Preserved ==
    ASSUME OnRecordInv, RunShape', row' \in Rows, UploadShape',
           \A c \in Coll : OnRecord(c) => OnRecord(c)',
           \A t \in Tok : up'[t].coll = up[t].coll
                          /\ (up'[t].state # "unused" => up[t].state # "unused"),
           \/ run'.pc = "idle"
           \/ /\ run.pc \in Later /\ run'.pc \in Later
              /\ run'.bundle = run.bundle /\ run'.coll = run.coll
    PROVE  OnRecordInv'
  <1>1. RecordTyped'
        BY DEF OnRecordInv, RecordTyped, Later
  <1>2. UploadsOnRecord'
        BY DEF OnRecordInv, UploadsOnRecord
  <1>3. RunOnRecord'
        BY DEF OnRecordInv, RunOnRecord, Later
  <1> QED BY <1>1, <1>2, <1>3 DEF OnRecordInv

\* A step of the client or the server that touches neither rows nor uploads.
LEMMA PreservedQuietly ==
    ASSUME OnRecordInv, RunShape', UNCHANGED <<row, up>>, printed \subseteq printed',
           \/ run'.pc = "idle"
           \/ /\ run.pc \in Later /\ run'.pc \in Later
              /\ run'.bundle = run.bundle /\ run'.coll = run.coll
    PROVE  OnRecordInv'
  <1>1. \A c \in Coll : OnRecord(c) => OnRecord(c)'
        BY DEF OnRecord
  <1>2. row' \in Rows /\ UploadShape'
        BY DEF OnRecordInv, RecordTyped, UploadShape
  <1> QED BY <1>1, <1>2, Preserved

\* record_result puts the token on the shelf or on the terminal.
LEMMA Recorded ==
    ASSUME row \in Rows, NEW c \in Coll, NEW s \in {"open", "sealed"},
           RecordRow(c, [state |-> s, dtok |-> TRUE])
    PROVE  row' \in Rows /\ OnRecord(c)' /\ \A d \in Coll : OnRecord(d) => OnRecord(d)'
  <1>1. CASE row' = [row EXCEPT ![c] = [state |-> s, dtok |-> TRUE]] /\ printed' = printed
        BY <1>1 DEF Rows, OnRecord
  <1>2. CASE printed' = printed \cup {<<"collection", c>>} /\ row' = row
        BY <1>2 DEF OnRecord
  <1> QED BY <1>1, <1>2 DEF RecordRow

-----------------------------------------------------------------------------

LEMMA EndingSteps ==
    ASSUME OnRecordInv,
           \/ OpenFails \/ AddFails \/ SpoolFails \/ SpoolInterrupted \/ Interrupted
           \/ EndSeparate \/ EndEmpty \/ SealFails \/ Crash
    PROVE  OnRecordInv'
  <1>1. run' = NoRun /\ UNCHANGED <<row, up, printed>>
        BY DEF OpenFails, AddFails, SpoolFails, SpoolInterrupted, Interrupted, EndSeparate,
               EndEmpty, SealFails, Crash, RequestFails, Quit, Cleanup, EndWith,
               ServerUnchanged, LocalUnchanged
  <1>2. RunShape' /\ run'.pc = "idle"
        BY <1>1 DEF NoRun, RunShape
  <1> QED BY <1>1, <1>2, PreservedQuietly

LEMMA WorkingSteps ==
    ASSUME OnRecordInv,
           \/ Spool \/ SpoolDone \/ Add \/ ResolveResume \/ LoopFails \/ EndBundle \/ Seal
           \/ \E i \in DOMAIN run.jobs : KickOff(i) \/ StatusServed(i) \/ JobDone(i) \/ JobFails(i)
    PROVE  OnRecordInv'
  <1>1. RunShape
        BY DEF OnRecordInv, RecordTyped
  <1>2. /\ \/ run' = NoRun
           \/ /\ run.pc \in Later /\ run'.pc \in Later
              /\ run'.bundle = run.bundle /\ run'.coll = run.coll /\ RunShape'
        /\ UNCHANGED <<row, up>> /\ printed \subseteq printed'
    <2>1. CASE Spool \/ SpoolDone
          BY <1>1, <2>1 DEF RunShape, Spool, SpoolDone, At, Later, ServerUnchanged, LocalUnchanged
    <2>2. CASE Add
          BY <1>1, <2>2 DEF RunShape, Add, At, Later, ServerUnchanged, LocalUnchanged
    <2>3. CASE ResolveResume
          BY <1>1, <2>3 DEF RunShape, ResolveResume, At, Later, ServerUnchanged, LocalUnchanged
    <2>4. CASE LoopFails
          BY <1>1, <2>4 DEF RunShape, LoopFails, At, Later, ServerUnchanged, LocalUnchanged
    <2>5. CASE EndBundle
          BY <1>1, <2>5 DEF RunShape, EndBundle, At, Later, ServerUnchanged, LocalUnchanged
    <2>6. CASE Seal
          BY <1>1, <2>6 DEF RunShape, Seal, At, Later, LocalUnchanged, RequestFails, Quit, Cleanup,
                            EndWith
    <2>7. CASE \E i \in DOMAIN run.jobs : KickOff(i) \/ StatusServed(i) \/ JobFails(i)
          BY <1>1, <2>7 DEF RunShape, KickOff, StatusServed, JobFails, Working, JobBecomes, At,
                            Later, ServerUnchanged, LocalUnchanged
    <2>8. CASE \E i \in DOMAIN run.jobs : JobDone(i)
          BY <1>1, <2>8 DEF RunShape, JobDone, Working, JobBecomes, At, Later
    <2> QED BY <2>1, <2>2, <2>3, <2>4, <2>5, <2>6, <2>7, <2>8
  <1>3. run' = NoRun => RunShape' /\ run'.pc = "idle"
        BY DEF NoRun, RunShape
  <1> QED BY <1>2, <1>3, PreservedQuietly

\* A command starts without a collection, or opens one first.
LEMMA StartStep ==
    ASSUME OnRecordInv, NEW bundle, NEW mode, NEW args, Start(bundle, mode, args)
    PROVE  OnRecordInv'
  <1>1. /\ UNCHANGED <<row, up, printed>> /\ RunShape'
        /\ run'.pc \in {"open", "queue"} /\ run'.bundle = bundle
        /\ bundle => run'.pc = "open"
        BY DEF Start, NoRun, RunShape, ServerUnchanged, LocalUnchanged
  <1>2. RecordTyped' /\ UploadsOnRecord'
        BY <1>1 DEF OnRecordInv, RecordTyped, UploadShape, UploadsOnRecord, OnRecord
  <1>3. RunOnRecord'
        BY <1>1 DEF RunOnRecord, Later
  <1> QED BY <1>2, <1>3 DEF OnRecordInv

LEMMA OpenStep ==
    ASSUME OnRecordInv, NEW c \in Coll, OpenCollection(c)
    PROVE  OnRecordInv'
  <1>1. /\ UNCHANGED <<row, up, printed>> /\ RunShape'
        /\ run'.pc = "record" /\ run'.coll = c
        BY DEF OnRecordInv, RecordTyped, OpenCollection, RunShape, LocalUnchanged
  <1>2. RecordTyped' /\ UploadsOnRecord'
        BY <1>1 DEF OnRecordInv, RecordTyped, UploadShape, UploadsOnRecord, OnRecord
  <1>3. RunOnRecord'
        BY <1>1 DEF RunOnRecord, Later
  <1> QED BY <1>2, <1>3 DEF OnRecordInv

LEMMA RecordSteps ==
    ASSUME OnRecordInv, RecordOpen \/ RecordSealed
    PROVE  OnRecordInv'
  <1>1. CASE RecordOpen
    <2>1. /\ run.pc = "record" /\ run.coll \in Coll /\ up' = up /\ row \in Rows
          /\ run' = [run EXCEPT !.pc = "queue"] /\ RunShape
          /\ RecordRow(run.coll, [state |-> "open", dtok |-> TRUE])
          BY <1>1 DEF RecordOpen, At, OnRecordInv, RecordTyped, ServerUnchanged
    <2>2. row' \in Rows /\ OnRecord(run.coll)' /\ \A d \in Coll : OnRecord(d) => OnRecord(d)'
      <3> DEFINE c == run.coll
      <3>1. \A d \in Coll : RecordRow(d, [state |-> "open", dtok |-> TRUE]) =>
                row' \in Rows /\ (row'[d].dtok \/ <<"collection", d>> \in printed')
                /\ \A e \in Coll : OnRecord(e) => OnRecord(e)'
            BY <2>1, Recorded DEF OnRecord
      <3>2. row' \in Rows /\ (row'[c].dtok \/ <<"collection", c>> \in printed')
            /\ \A e \in Coll : OnRecord(e) => OnRecord(e)'
            BY <2>1, <3>1
      <3>3. run'.coll = c
            BY <2>1 DEF RunShape
      <3> QED BY <3>2, <3>3 DEF OnRecord
    <2>3. RunShape' /\ run'.pc = "queue" /\ run'.coll = run.coll
          BY <2>1 DEF RunShape
    <2>4. RecordTyped' /\ UploadsOnRecord'
          BY <2>1, <2>2, <2>3 DEF OnRecordInv, RecordTyped, UploadShape, UploadsOnRecord
    <2>5. RunOnRecord'
          BY <2>1, <2>2, <2>3 DEF RunOnRecord, OnRecord
    <2> QED BY <2>4, <2>5 DEF OnRecordInv
  <1>2. CASE RecordSealed
    <2>1. /\ up' = up /\ run' = NoRun
          /\ RecordRow(run.coll, [state |-> "sealed", dtok |-> TRUE])
          BY <1>2 DEF RecordSealed, Quit, Cleanup, EndWith, ServerUnchanged
    <2>2. row' \in Rows /\ \A d \in Coll : OnRecord(d) => OnRecord(d)'
      <3>1. row \in Rows
            BY DEF OnRecordInv, RecordTyped
      <3>2. CASE printed \subseteq printed' /\ row' = row
            BY <3>1, <3>2 DEF OnRecord
      <3>3. CASE row' = [row EXCEPT ![run.coll] = [state |-> "sealed", dtok |-> TRUE]]
                 /\ printed' = printed
        <4>1. row' \in Rows
              BY <3>1, <3>3 DEF Rows
        <4>2. ASSUME NEW d \in Coll PROVE row'[d] = row[d] \/ row'[d].dtok
              BY <3>1, <3>3 DEF Rows
        <4> QED BY <3>3, <4>1, <4>2 DEF OnRecord
      <3> QED BY <2>1, <3>2, <3>3 DEF RecordRow
    <2>3. RunShape' /\ run'.pc = "idle"
          BY <2>1 DEF NoRun, RunShape
    <2> QED BY <2>1, <2>2, <2>3, Preserved DEF OnRecordInv, RecordTyped, UploadShape
  <1> QED BY <1>1, <1>2

\* A session is opened in the command's own collection.
LEMMA InitServedStep ==
    ASSUME OnRecordInv, NEW i, InitServed(i)
    PROVE  OnRecordInv'
  <1>1. PICK t, p, c :
            /\ up' = [up EXCEPT ![t] = [state |-> "open", path |-> p, coll |-> c]]
            /\ c = IF run.bundle THEN run.coll ELSE NoColl
        BY DEF InitServed
  <1>2. /\ UNCHANGED <<row, printed>> /\ run.pc = "run" /\ RunShape'
        /\ run'.pc = run.pc /\ run'.bundle = run.bundle /\ run'.coll = run.coll
        BY DEF InitServed, Working, JobBecomes, At, OnRecordInv, RecordTyped, RunShape
  <1>2a. UploadShape'
        BY <1>1 DEF OnRecordInv, RecordTyped, UploadShape
  <1>3. RecordTyped' /\ RunOnRecord'
        BY <1>2, <1>2a DEF OnRecordInv, RecordTyped, RunOnRecord, Later, OnRecord
  <1>4. run.bundle => run.coll \in Coll /\ OnRecord(run.coll)
        BY <1>2 DEF OnRecordInv, RunOnRecord, Later
  <1>5. UploadsOnRecord'
    <2>1. SUFFICES ASSUME NEW u \in Tok, up'[u].state # "unused", up'[u].coll # NoColl
                   PROVE  up'[u].coll \in Coll /\ OnRecord(up'[u].coll)
          BY <1>2 DEF UploadsOnRecord, OnRecord
    <2>2. CASE u = t
          BY <1>1, <1>2, <1>4, <2>1, <2>2 DEF OnRecord, OnRecordInv, RecordTyped, UploadShape
    <2>3. CASE u # t
      <3>1. up'[u] = up[u]
            BY <1>1, <2>3 DEF OnRecordInv, RecordTyped, UploadShape
      <3> QED BY <1>2, <2>1, <3>1 DEF OnRecordInv, UploadsOnRecord, OnRecord
    <2> QED BY <2>2, <2>3
  <1> QED BY <1>3, <1>5 DEF OnRecordInv

\* What the server does to an upload, it does to one that was opened, and it
\* never moves it to another collection.
LEMMA ServerSteps ==
    ASSUME OnRecordInv,
           \/ \E i \in DOMAIN run.jobs : AskComplete(i)
           \/ \E t \in Tok : Publish(t) \/ SessionExpires(t)
           \/ \E c \in Coll : CollectionExpires(c)
    PROVE  OnRecordInv'
  <1>1. RunShape /\ UploadShape /\ row \in Rows
        BY DEF OnRecordInv, RecordTyped
  <1>2. UNCHANGED <<row, printed>>
        BY DEF AskComplete, Publish, SessionExpires, CollectionExpires, LocalUnchanged
  <1>3. /\ RunShape' /\ run'.pc = run.pc
        /\ run'.bundle = run.bundle /\ run'.coll = run.coll
        BY <1>1 DEF RunShape, AskComplete, Publish, SessionExpires, CollectionExpires, JobBecomes
  <1>4. /\ UploadShape'
        /\ \A t \in Tok : up'[t].coll = up[t].coll
                          /\ (up'[t].state # "unused" => up[t].state # "unused")
    <2>1. CASE \E i \in DOMAIN run.jobs : AskComplete(i)
          BY <1>1, <2>1 DEF UploadShape, AskComplete, Open
    <2>2. CASE \E t \in Tok : Publish(t) \/ SessionExpires(t)
          BY <1>1, <2>2 DEF UploadShape, Publish, SessionExpires, Open
    <2>3. CASE \E c \in Coll : CollectionExpires(c)
          BY <1>1, <2>3 DEF UploadShape, CollectionExpires, Members
    <2> QED BY <2>1, <2>2, <2>3
  <1>5. RecordTyped'
        BY <1>1, <1>2, <1>3, <1>4 DEF OnRecordInv, RecordTyped
  <1>6. UploadsOnRecord' /\ RunOnRecord'
        BY <1>2, <1>3, <1>4 DEF OnRecordInv, UploadsOnRecord, RunOnRecord, OnRecord
  <1> QED BY <1>5, <1>6 DEF OnRecordInv

LEMMA NextOnRecord == OnRecordInv /\ [Next]_vars => OnRecordInv'
  <1>1. SUFFICES ASSUME OnRecordInv, [Next]_vars PROVE OnRecordInv'
        OBVIOUS
  <1>2. CASE UNCHANGED vars
        BY <1>1, <1>2 DEF vars, OnRecordInv, RecordTyped, RunShape, UploadShape,
                          UploadsOnRecord, RunOnRecord, OnRecord
  <1>3. CASE Next
        BY <1>1, <1>3, EndingSteps, WorkingSteps, StartStep, OpenStep, RecordSteps,
           InitServedStep, ServerSteps DEF Next
  <1> QED BY <1>1, <1>2, <1>3

\* However many bundles are started, continued, interrupted or killed, and
\* whatever cannot be written: the delete token of a collection with a
\* published member is on the shelf or was printed (run_upload).
THEOREM BundlesCanBeDeleted == Spec => []MembersClaimable
  <1>1. OnRecordInv => MembersClaimable
        BY DEF OnRecordInv, UploadsOnRecord, OnRecord, MembersClaimable
  <1> QED BY <1>1, InitOnRecord, NextOnRecord, PTL DEF Spec

-----------------------------------------------------------------------------
(***************************************************************************)
(* TypeOK, and what success means.  A job past its first answer has an     *)
(* upload of its own source (Good): the one it opened, in the run's        *)
(* collection, or the one it resumed, which sessions.json records under    *)
(* that source (SavedInv).  A job that is done has it published, and its   *)
(* delete token on record if no collection stands for it.                  *)
(***************************************************************************)
Source == Path \cup {Stdin}

Uploads == [state : {"unused", "open", "asked", "published", "gone", "expired"},
            path : Source, coll : Coll \cup {NoColl}]

Jobs == [path : Source, tok : Tok \cup {NoTok}, allowed : BOOLEAN, deletes : BOOLEAN,
         state : {"queued", "status", "init", "sending", "completing", "done", "failed"}]

Good(j) ==
    /\ j.state \in {"status", "sending", "completing", "done"} =>
         j.tok \in Tok /\ up[j.tok].path = j.path /\ up[j.tok].state # "unused"
    /\ j.state = "status" => j.allowed
    /\ j.state \in {"sending", "completing", "done"} /\ run.bundle /\ ~j.allowed =>
         up[j.tok].coll = run.coll
    /\ j.state = "done" =>
         /\ up[j.tok].state \in {"published", "expired"}
         /\ run.bundle \/ j.tok \in claimed \/ <<"upload", j.tok>> \in printed

ServerTyped ==
    /\ coll \in [Coll -> {"unused", "open", "sealed", "gone"}]
    /\ up \in [Tok -> Uploads]

SavedInv ==
    /\ saved \in [Source -> SUBSET Tok]
    /\ \A p \in Source : \A t \in saved[p] : up[t].path = p /\ up[t].state # "unused"

JobsInv ==
    /\ run.args \in Seq(Source) /\ run.jobs \in Seq(Jobs)
    /\ Len(run.jobs) <= Len(run.args)
    /\ \A i \in DOMAIN run.jobs : Job(i).path = run.args[i] /\ Good(Job(i))

\* Behind the queue every file has a job, behind the engine every job ended,
\* and a collection is sealed before its row says so.
StageInv ==
    /\ run.pc \in {"open", "record", "queue", "spooling", "spooled"} =>
         \A i \in DOMAIN run.jobs : Job(i).state = "queued"
    /\ run.pc \in {"run", "seal", "sealed"} => Len(run.jobs) = Len(run.args)
    /\ run.pc \in {"seal", "sealed"} => run.bundle /\ Finished
    /\ run.pc = "sealed" => coll[run.coll] \in {"sealed", "gone"}
    /\ run.bundle => run.pc \in Later \cup {"open", "record"}

BundleInv == ServerTyped /\ SavedInv /\ JobsInv /\ StageInv

-----------------------------------------------------------------------------

\* A set of numbers has a least one.
LEMMA LeastNumber ==
    ASSUME NEW S, S \subseteq Nat, S # {}
    PROVE  Lowest(S) \in S
  <1> DEFINE R == OpToRel(<, Nat)
  <1>1. \A x, y \in Nat : x < y => <<x, y>> \in R
        BY DEF OpToRel
  <1>2. IsWellFoundedOn(R, Nat)
        BY NatLessThanWellFounded
  <1> HIDE DEF R
  <1>3. PICK x \in S : \A y \in S : ~(<<y, x>> \in R)
        BY <1>2, WFMin
  <1>4. ASSUME NEW y \in S PROVE x <= y
    <2>1. x \in Nat /\ y \in Nat
          OBVIOUS
    <2>2. ~(y < x)
          BY <1>1, <1>3, <2>1
    <2> QED BY <2>1, <2>2
  <1> QED BY <1>4 DEF Lowest

\* What the server does to an upload that was opened.
UploadsMove ==
    \A t \in Tok :
        /\ up'[t].path = up[t].path /\ up'[t].coll = up[t].coll
        /\ up[t].state # "unused" => up'[t].state # "unused"
        /\ up[t].state \in {"published", "expired"} => up'[t].state \in {"published", "expired"}

\* A job stays good in the same run, whatever the server does.
LEMMA GoodStays ==
    ASSUME NEW j, Good(j), \A t \in Tok : up[t].state # "unused" =>
               /\ up'[t].path = up[t].path /\ up'[t].coll = up[t].coll /\ up'[t].state # "unused"
               /\ up[t].state \in {"published", "expired"} =>
                      up'[t].state \in {"published", "expired"},
           run'.bundle = run.bundle, run'.coll = run.coll,
           claimed \subseteq claimed', printed \subseteq printed'
    PROVE  Good(j)'
  <1>1. CASE j.state \in {"status", "sending", "completing", "done"}
    <2>1. j.tok \in Tok /\ up[j.tok].path = j.path /\ up[j.tok].state # "unused"
          BY <1>1 DEF Good
    <2>2. /\ up'[j.tok].path = j.path /\ up'[j.tok].coll = up[j.tok].coll
          /\ up'[j.tok].state # "unused"
          /\ up[j.tok].state \in {"published", "expired"} =>
                 up'[j.tok].state \in {"published", "expired"}
          BY <2>1
    <2> QED BY <1>1, <2>1, <2>2 DEF Good
  <1>2. CASE j.state \notin {"status", "sending", "completing", "done"}
        BY <1>2 DEF Good
  <1> QED BY <1>1, <1>2

\* A run without jobs: at the start and at the end.
LEMMA NoJobs ==
    ASSUME BundleInv, UNCHANGED <<up, saved>>, ServerTyped', run'.jobs = <<>>,
           run'.args \in Seq(Source), run'.pc \in {"idle", "open", "queue"},
           run'.bundle => run'.pc \in {"open", "queue"}
    PROVE  BundleInv'
  <1>1. SavedInv'
        BY DEF BundleInv, SavedInv
  <1>2. JobsInv'
        BY DEF JobsInv
  <1>3. StageInv'
        BY DEF StageInv, Later
  <1> QED BY <1>1, <1>2, <1>3 DEF BundleInv

\* The end of a command.
LEMMA EndBundleInv ==
    ASSUME BundleInv, UNCHANGED <<up, saved>>, ServerTyped', run' = NoRun
    PROVE  BundleInv'
  <1>1. run'.jobs = <<>> /\ run'.args = <<>> /\ run'.pc = "idle" /\ ~run'.bundle
        BY DEF NoRun
  <1> QED BY <1>1, NoJobs

LEMMA EndingInv ==
    ASSUME BundleInv,
           \/ OpenFails \/ AddFails \/ SpoolFails \/ SpoolInterrupted \/ Interrupted
           \/ EndSeparate \/ EndEmpty \/ SealFails \/ Crash
    PROVE  BundleInv'
  <1>1. run' = NoRun
        BY DEF OpenFails, AddFails, SpoolFails, SpoolInterrupted, Interrupted, EndSeparate,
               EndEmpty, SealFails, Crash, RequestFails, Quit, Cleanup, EndWith
  <1>2. UNCHANGED <<up, saved>>
        BY DEF OpenFails, AddFails, SpoolFails, SpoolInterrupted, Interrupted, EndSeparate,
               EndEmpty, SealFails, Crash, ServerUnchanged, LocalUnchanged
  <1>3. coll' = coll \/ \E c \in Coll : coll' = [coll EXCEPT ![c] = "open"]
        BY DEF OpenFails, AddFails, SpoolFails, SpoolInterrupted, Interrupted, EndSeparate,
               EndEmpty, SealFails, Crash, ServerUnchanged
  <1>4. ServerTyped'
        BY <1>2, <1>3 DEF BundleInv, ServerTyped
  <1> QED BY <1>1, <1>2, <1>4, EndBundleInv

\* A command starts.
LEMMA StartInv ==
    ASSUME BundleInv, NEW bundle, NEW mode, NEW args \in Args, Start(bundle, mode, args)
    PROVE  BundleInv'
  <1>1. /\ run'.jobs = <<>> /\ run'.args = args /\ run'.pc \in {"open", "queue"}
        BY DEF Start, NoRun
  <1>2. UNCHANGED <<coll, up, saved>>
        BY DEF Start, ServerUnchanged, LocalUnchanged
  <1>3. args \in Seq(Source)
        BY ArgsAssumption DEF Source
  <1>4. ServerTyped'
        BY <1>2 DEF BundleInv, ServerTyped
  <1> QED BY <1>1, <1>2, <1>3, <1>4, NoJobs

\* A step that leaves the jobs, while nothing is published or forgotten.
LEMMA SameJobs ==
    ASSUME BundleInv, ServerTyped', SavedInv', UploadsMove, StageInv',
           run'.jobs = run.jobs, run'.args = run.args, run'.bundle = run.bundle,
           run'.coll = run.coll, claimed \subseteq claimed', printed \subseteq printed'
    PROVE  BundleInv'
  <1>1. ASSUME NEW i \in DOMAIN run.jobs PROVE Good(Job(i))'
    <2>1. PICK j : j = Job(i)
          OBVIOUS
    <2>2. Good(j)
          BY <2>1 DEF BundleInv, JobsInv
    <2>3. Good(j)'
          BY <2>2, GoodStays DEF UploadsMove
    <2>4. Job(i)' = j
          BY <2>1 DEF Job
    <2> QED BY <2>3, <2>4 DEF Good
  <1>2. JobsInv'
        BY <1>1 DEF BundleInv, JobsInv, Job
  <1> QED BY <1>2 DEF BundleInv

\* A step of job i, which becomes j.
LEMMA JobStep ==
    ASSUME OnRecordInv, BundleInv, run.pc = "run", NEW i \in DOMAIN run.jobs, NEW j \in Jobs,
           JobBecomes(i, j), j.path = Job(i).path, Good(j)', ServerTyped', SavedInv',
           \A t \in Tok : up[t].state # "unused" =>
               /\ up'[t].path = up[t].path /\ up'[t].coll = up[t].coll /\ up'[t].state # "unused"
               /\ up[t].state \in {"published", "expired"} =>
                      up'[t].state \in {"published", "expired"},
           claimed \subseteq claimed', printed \subseteq printed'
    PROVE  BundleInv'
  <1>1. /\ run.jobs \in Seq(Jobs) /\ run.args \in Seq(Source) /\ Len(run.jobs) <= Len(run.args)
        /\ \A k \in DOMAIN run.jobs : Job(k).path = run.args[k] /\ Good(Job(k))
        BY DEF BundleInv, JobsInv
  <1>2. /\ run'.jobs = [run.jobs EXCEPT ![i] = j] /\ run'.pc = "run"
        /\ run'.args = run.args /\ run'.bundle = run.bundle /\ run'.coll = run.coll
        BY DEF JobBecomes, OnRecordInv, RecordTyped, RunShape
  <1>3. /\ run'.jobs \in Seq(Jobs) /\ Len(run'.jobs) = Len(run.jobs)
        /\ DOMAIN run'.jobs = DOMAIN run.jobs /\ run'.jobs[i] = j
        /\ \A k \in DOMAIN run.jobs : k # i => run'.jobs[k] = run.jobs[k]
        BY <1>1, <1>2
  <1>4. ASSUME NEW k \in DOMAIN run.jobs, k # i PROVE Good(Job(k))'
    <2>1. PICK g : g = Job(k)
          OBVIOUS
    <2>2. Good(g)'
          BY <1>1, <1>2, <2>1, GoodStays
    <2>3. run'.jobs[k] = g
          BY <1>3, <1>4, <2>1 DEF Job
    <2> QED BY <2>2, <2>3 DEF Good, Job
  <1>5. Good(Job(i))'
        BY <1>3 DEF Good, Job
  <1>6. JobsInv'
    <2>1. \A k \in DOMAIN run'.jobs : Job(k)'.path = run'.args[k]
          BY <1>1, <1>2, <1>3 DEF Job
    <2>2. \A k \in DOMAIN run'.jobs : Good(Job(k))'
          BY <1>3, <1>4, <1>5
    <2> QED BY <1>1, <1>2, <1>3, <2>1, <2>2 DEF JobsInv, Job
  <1>7. StageInv'
    <2>1. Len(run.jobs) = Len(run.args)
          BY DEF BundleInv, StageInv
    <2> QED BY <1>2, <1>3, <2>1 DEF StageInv, Later
  <1> QED BY <1>6, <1>7 DEF BundleInv

\* The job the steps below are about.
LEMMA JobTyped ==
    ASSUME BundleInv, NEW i \in DOMAIN run.jobs
    PROVE  /\ Job(i) \in Jobs /\ Good(Job(i))
           /\ Job(i).path \in Source /\ Job(i).tok \in Tok \cup {NoTok}
  <1>1. run.jobs \in Seq(Jobs) /\ Good(Job(i))
        BY DEF BundleInv, JobsInv
  <1>2. Job(i) \in Jobs
        BY <1>1 DEF Job
  <1> QED BY <1>1, <1>2 DEF Jobs

\* A session of sessions.json is an upload of its source.
LEMMA SavedUpload ==
    ASSUME BundleInv, NEW p \in Source, FindSource(p) # NoTok
    PROVE  LET t == FindSource(p) IN t \in Tok /\ up[t].path = p /\ up[t].state # "unused"
  <1>1. saved \in [Source -> SUBSET Tok] /\ saved[p] # {} /\ FindSource(p) = Lowest(saved[p])
        BY DEF FindSource, BundleInv, SavedInv
  <1>2. saved[p] \subseteq Nat
        BY <1>1, TokAssumption
  <1>3. FindSource(p) \in saved[p]
        BY <1>1, <1>2, LeastNumber
  <1> QED BY <1>1, <1>3 DEF BundleInv, SavedInv

\* job_kick_off
LEMMA KickOffInv ==
    ASSUME OnRecordInv, BundleInv, NEW i \in DOMAIN run.jobs, KickOff(i)
    PROVE  BundleInv'
  <1>1. /\ run.pc = "run" /\ UNCHANGED <<coll, up, saved, claimed, printed>>
        BY DEF KickOff, Working, At, ServerUnchanged, LocalUnchanged
  <1>2. ServerTyped' /\ SavedInv'
        BY <1>1 DEF BundleInv, ServerTyped, SavedInv
  <1>3. Job(i) \in Jobs /\ Job(i).path \in Source
        BY JobTyped
  <1>4. PICK t : t = FindSource(Job(i).path)
        OBVIOUS
  <1>5. CASE Job(i).allowed /\ t # NoTok
    <2>1. t \in Tok /\ up[t].path = Job(i).path /\ up[t].state # "unused"
          BY <1>3, <1>4, <1>5, SavedUpload
    <2>2. PICK j : j = [Job(i) EXCEPT !.state = "status", !.tok = t]
          OBVIOUS
    <2>3. j \in Jobs /\ j.state = "status" /\ j.tok = t /\ j.path = Job(i).path /\ j.allowed
          BY <1>3, <1>5, <2>1, <2>2 DEF Jobs
    <2>4. Good(j)'
          BY <1>1, <2>1, <2>3 DEF Good
    <2>5. JobBecomes(i, j)
          BY <1>4, <1>5, <2>2 DEF KickOff
    <2> QED BY <1>1, <1>2, <2>3, <2>4, <2>5, JobStep
  <1>6. CASE ~(Job(i).allowed /\ t # NoTok)
    <2>1. PICK j : j = [Job(i) EXCEPT !.state = "init"]
          OBVIOUS
    <2>2. j \in Jobs /\ j.state = "init" /\ j.path = Job(i).path
          BY <1>3, <2>1 DEF Jobs
    <2>3. Good(j)'
          BY <2>2 DEF Good
    <2>4. JobBecomes(i, j)
          BY <1>4, <1>6, <2>1 DEF KickOff
    <2> QED BY <1>1, <1>2, <2>2, <2>3, <2>4, JobStep
  <1> QED BY <1>5, <1>6

\* The server opens a session, and its answer arrives or not.
LEMMA InitServedInv ==
    ASSUME OnRecordInv, BundleInv, NEW i \in DOMAIN run.jobs, InitServed(i)
    PROVE  BundleInv'
  <1>1. PICK t : t = Lowest(Unused)
        OBVIOUS
  <1>2. PICK p : p = Job(i).path
        OBVIOUS
  <1>3. PICK c : c = IF run.bundle THEN run.coll ELSE NoColl
        OBVIOUS
  <1>4. /\ run.pc = "run" /\ UNCHANGED <<coll, claimed, printed>>
        /\ up' = [up EXCEPT ![t] = [state |-> "open", path |-> p, coll |-> c]]
        BY <1>1, <1>2, <1>3 DEF InitServed, Working, At
  <1>5. t \in Tok /\ up[t].state = "unused"
    <2>1. Unused \subseteq Nat /\ Unused # {}
          BY TokAssumption DEF Unused, InitServed
    <2>2. t \in Unused
          BY <1>1, <2>1, LeastNumber
    <2> QED BY <2>2 DEF Unused
  <1>6. p \in Source /\ Job(i) \in Jobs
        BY <1>2, JobTyped
  <1>7. c \in Coll \cup {NoColl}
        BY <1>3, <1>4 DEF OnRecordInv, RunOnRecord, Later
  <1>8. up \in [Tok -> Uploads] /\ coll \in [Coll -> {"unused", "open", "sealed", "gone"}]
        BY DEF BundleInv, ServerTyped
  <1>9. /\ up'[t] = [state |-> "open", path |-> p, coll |-> c]
        /\ \A u \in Tok : u # t => up'[u] = up[u]
        BY <1>4, <1>5, <1>8
  <1>10. up' \in [Tok -> Uploads]
         BY <1>4, <1>5, <1>6, <1>7, <1>8 DEF Uploads
  <1>11. ServerTyped'
         BY <1>4, <1>8, <1>10 DEF ServerTyped
  <1>12. \A u \in Tok : up[u].state # "unused" => up'[u] = up[u]
         BY <1>5, <1>9
  <1>13. /\ saved \in [Source -> SUBSET Tok]
         /\ \A q \in Source : \A u \in saved[q] : up[u].path = q /\ up[u].state # "unused"
         BY DEF BundleInv, SavedInv
  <1>14. CASE UNCHANGED saved /\ JobBecomes(i, [Job(i) EXCEPT !.state = "failed"])
    <2>1. SavedInv'
          BY <1>12, <1>13, <1>14 DEF SavedInv
    <2>2. PICK j : j = [Job(i) EXCEPT !.state = "failed"]
          OBVIOUS
    <2>3. j \in Jobs /\ j.path = Job(i).path /\ j.state = "failed"
          BY <1>6, <2>2 DEF Jobs
    <2>4. Good(j)'
          BY <2>3 DEF Good
    <2> QED BY <1>4, <1>11, <1>12, <1>14, <2>1, <2>2, <2>3, <2>4, JobStep
  <1>15. CASE /\ saved' = [saved EXCEPT ![p] = @ \cup {t}]
              /\ JobBecomes(i, [Job(i) EXCEPT !.state = "sending", !.tok = t])
    <2>1. /\ saved'[p] = saved[p] \cup {t}
          /\ \A q \in Source : q # p => saved'[q] = saved[q]
          /\ saved' \in [Source -> SUBSET Tok]
          BY <1>5, <1>6, <1>13, <1>15
    <2>2. up'[t].path = p /\ up'[t].state = "open" /\ up'[t].coll = c
          BY <1>9
    <2>3. \A q \in Source : \A u \in saved'[q] : (u = t /\ q = p) \/ u \in saved[q]
          BY <2>1
    <2>4. SavedInv'
          BY <1>12, <1>13, <2>1, <2>2, <2>3 DEF SavedInv
    <2>5. PICK j : j = [Job(i) EXCEPT !.state = "sending", !.tok = t]
          OBVIOUS
    <2>6. j \in Jobs /\ j.path = p /\ j.state = "sending" /\ j.tok = t
          BY <1>2, <1>5, <1>6, <2>5 DEF Jobs
    <2>7. run'.bundle = run.bundle /\ run'.coll = run.coll
          BY <1>15 DEF JobBecomes, OnRecordInv, RecordTyped, RunShape
    <2>8. Good(j)'
          BY <1>3, <1>5, <2>2, <2>6, <2>7 DEF Good
    <2> QED BY <1>2, <1>4, <1>11, <1>12, <1>15, <2>4, <2>5, <2>6, <2>8, JobStep
  <1>16. \/ UNCHANGED saved /\ JobBecomes(i, [Job(i) EXCEPT !.state = "failed"])
         \/ /\ saved' = [saved EXCEPT ![p] = @ \cup {t}]
            /\ JobBecomes(i, [Job(i) EXCEPT !.state = "sending", !.tok = t])
         BY <1>1, <1>2 DEF InitServed
  <1> QED BY <1>14, <1>15, <1>16

\* An upload moves on: whoever has it keeps it.
LEMMA MovedUpload ==
    ASSUME BundleInv, NEW t \in Tok, up[t].state # "unused",
           NEW state \in {"open", "asked", "published", "gone", "expired"},
           up[t].state \in {"published", "expired"} => state \in {"published", "expired"},
           up' = [up EXCEPT ![t].state = state]
    PROVE  /\ up' \in [Tok -> Uploads] /\ up'[t].state = state
           /\ UploadsMove
           /\ saved' = saved => SavedInv'
  <1>1. up \in [Tok -> Uploads]
        BY DEF BundleInv, ServerTyped
  <1>2. /\ up'[t] = [up[t] EXCEPT !.state = state] /\ up[t] \in Uploads
        /\ \A u \in Tok : u # t => up'[u] = up[u]
        /\ DOMAIN up' = Tok
        BY <1>1
  <1>3. /\ up'[t] \in Uploads /\ up'[t].state = state
        /\ up'[t].path = up[t].path /\ up'[t].coll = up[t].coll
        BY <1>2 DEF Uploads
  <1>4. UploadsMove
        BY <1>2, <1>3 DEF UploadsMove
  <1>5. up' \in [Tok -> Uploads]
        BY <1>1, <1>2, <1>3
  <1>6. ASSUME saved' = saved PROVE SavedInv'
        BY <1>4, <1>6 DEF UploadsMove, BundleInv, SavedInv
  <1> QED BY <1>3, <1>4, <1>5, <1>6

\* The job goes on with the upload it has.
LEMMA SameUploadInv ==
    ASSUME OnRecordInv, BundleInv, NEW i \in DOMAIN run.jobs, StatusServed(i) \/ AskComplete(i)
    PROVE  BundleInv'
  <1>1. PICK t : t = Job(i).tok
        OBVIOUS
  <1>2. Job(i) \in Jobs /\ Good(Job(i))
        BY JobTyped
  <1>3. /\ run.pc = "run" /\ UNCHANGED <<coll, saved, claimed, printed>>
        /\ Job(i).state \in {"status", "sending"} /\ up[t].state # "unused"
        /\ up[t].state \notin {"published", "expired"}
        BY <1>1 DEF StatusServed, AskComplete, Open, Working, At, ServerUnchanged, LocalUnchanged
  <1>4. t \in Tok /\ up[t].path = Job(i).path
        BY <1>1, <1>2, <1>3 DEF Good
  <1>5. PICK s : s = IF Job(i).state = "status" THEN "sending" ELSE "completing"
        OBVIOUS
  <1>6. PICK j : j = [Job(i) EXCEPT !.state = s]
        OBVIOUS
  <1>7. /\ j \in Jobs /\ j.state = s /\ j.tok = t /\ j.path = Job(i).path
        /\ j.allowed = Job(i).allowed
        BY <1>1, <1>2, <1>5, <1>6 DEF Jobs
  <1>8. JobBecomes(i, j)
        BY <1>5, <1>6 DEF StatusServed, AskComplete
  <1>9. UNCHANGED up \/ up' = [up EXCEPT ![t].state = "asked"]
        BY <1>1 DEF StatusServed, AskComplete, ServerUnchanged
  <1>10. up' \in [Tok -> Uploads] /\ UploadsMove /\ SavedInv'
    <2>1. CASE UNCHANGED up
          BY <1>3, <2>1 DEF BundleInv, ServerTyped, SavedInv, UploadsMove
    <2>2. CASE up' = [up EXCEPT ![t].state = "asked"]
          BY <1>3, <1>4, <2>2, MovedUpload
    <2> QED BY <1>9, <2>1, <2>2
  <1>11. ServerTyped'
         BY <1>3, <1>10 DEF BundleInv, ServerTyped
  <1>12. run'.bundle = run.bundle /\ run'.coll = run.coll
         BY <1>8 DEF JobBecomes, OnRecordInv, RecordTyped, RunShape
  <1>13. run.bundle /\ ~Job(i).allowed => up[t].coll = run.coll
         BY <1>1, <1>2, <1>3 DEF Good
  <1>14. up'[t].path = Job(i).path /\ up'[t].coll = up[t].coll /\ up'[t].state # "unused"
         BY <1>3, <1>4, <1>10 DEF UploadsMove
  <1>15. Good(j)'
         BY <1>4, <1>5, <1>7, <1>12, <1>13, <1>14 DEF Good
  <1> QED BY <1>3, <1>7, <1>8, <1>10, <1>11, <1>15, JobStep DEF UploadsMove

\* What is left of sessions.json without one session.
LEMMA WithoutSession ==
    ASSUME BundleInv, NEW t, up' = up, saved' = saved \/ saved' = Without(t)
    PROVE  SavedInv'
  BY DEF BundleInv, SavedInv, Without

\* job_succeed
LEMMA JobDoneInv ==
    ASSUME OnRecordInv, BundleInv, NEW i \in DOMAIN run.jobs, JobDone(i)
    PROVE  BundleInv'
  <1>1. PICK t : t = Job(i).tok
        OBVIOUS
  <1>2. Job(i) \in Jobs /\ Good(Job(i))
        BY JobTyped
  <1>3. /\ run.pc = "run" /\ UNCHANGED <<coll, up>> /\ saved' = Without(t)
        /\ Job(i).state = "completing" /\ up[t].state = "published"
        BY <1>1 DEF JobDone, Working, At
  <1>4. /\ claimed \subseteq claimed' /\ printed \subseteq printed'
        /\ run.bundle \/ t \in claimed' \/ <<"upload", t>> \in printed'
        BY <1>1 DEF JobDone
  <1>5. PICK j : j = [Job(i) EXCEPT !.state = "done"]
        OBVIOUS
  <1>6. /\ j \in Jobs /\ j.state = "done" /\ j.tok = t /\ j.path = Job(i).path
        /\ j.allowed = Job(i).allowed
        BY <1>1, <1>2, <1>5 DEF Jobs
  <1>7. JobBecomes(i, j)
        BY <1>5 DEF JobDone
  <1>8. ServerTyped' /\ SavedInv'
        BY <1>3, WithoutSession DEF BundleInv, ServerTyped
  <1>9. run'.bundle = run.bundle /\ run'.coll = run.coll
        BY <1>7 DEF JobBecomes, OnRecordInv, RecordTyped, RunShape
  <1>10. /\ t \in Tok /\ up[t].path = Job(i).path
         /\ run.bundle /\ ~Job(i).allowed => up[t].coll = run.coll
         BY <1>1, <1>2, <1>3 DEF Good
  <1>11. Good(j)'
         BY <1>3, <1>4, <1>6, <1>9, <1>10 DEF Good
  <1> QED BY <1>3, <1>4, <1>6, <1>7, <1>8, <1>11, JobStep

\* job_fail
LEMMA JobFailsInv ==
    ASSUME OnRecordInv, BundleInv, NEW i \in DOMAIN run.jobs, JobFails(i)
    PROVE  BundleInv'
  <1>1. Job(i) \in Jobs
        BY JobTyped
  <1>2. /\ run.pc = "run" /\ UNCHANGED <<coll, up, claimed, printed>>
        /\ saved' = saved \/ saved' = Without(Job(i).tok)
        BY DEF JobFails, Working, At, ServerUnchanged
  <1>3. PICK j : j = [Job(i) EXCEPT !.state = "failed"]
        OBVIOUS
  <1>4. j \in Jobs /\ j.state = "failed" /\ j.path = Job(i).path
        BY <1>1, <1>3 DEF Jobs
  <1>5. JobBecomes(i, j)
        BY <1>3 DEF JobFails
  <1>6. ServerTyped' /\ SavedInv'
        BY <1>2, WithoutSession DEF BundleInv, ServerTyped
  <1>7. Good(j)'
        BY <1>4 DEF Good
  <1> QED BY <1>2, <1>4, <1>5, <1>6, <1>7, JobStep

\* Every job becomes another of its source, in the same run.
LEMMA JobsBecome ==
    ASSUME BundleInv, UNCHANGED <<coll, up, saved, claimed, printed>>,
           NEW f \in [DOMAIN run.jobs -> Jobs],
           \A i \in DOMAIN run.jobs : f[i].path = Job(i).path /\ Good(f[i])',
           run'.jobs = f, run'.args = run.args, StageInv'
    PROVE  BundleInv'
  <1>1. /\ run.jobs \in Seq(Jobs) /\ run.args \in Seq(Source) /\ Len(run.jobs) <= Len(run.args)
        /\ \A i \in DOMAIN run.jobs : Job(i).path = run.args[i]
        BY DEF BundleInv, JobsInv
  <1>2. CASE f \in Seq(Jobs) /\ Len(f) = Len(run.jobs)
    <2>1. \A i \in DOMAIN run'.jobs : Job(i)'.path = run'.args[i]
          BY <1>1, <1>2 DEF Job
    <2>2. \A i \in DOMAIN run'.jobs : Good(Job(i))'
          BY <1>2 DEF Good, Job
    <2>3. JobsInv'
          BY <1>1, <1>2, <2>1, <2>2 DEF JobsInv, Job
    <2>4. ServerTyped' /\ SavedInv'
          BY DEF BundleInv, ServerTyped, SavedInv
    <2> QED BY <2>3, <2>4 DEF BundleInv
  <1>3. f \in Seq(Jobs) /\ Len(f) = Len(run.jobs)
    <2>1. PICK n \in Nat : n = Len(run.jobs) /\ DOMAIN run.jobs = 1..n
          BY <1>1
    <2>2. f \in [1..n -> Jobs]
          BY <2>1
    <2> QED BY <2>1, <2>2
  <1> QED BY <1>2, <1>3

\* engine_abort
LEMMA LoopFailsInv ==
    ASSUME OnRecordInv, BundleInv, LoopFails
    PROVE  BundleInv'
  <1>1. PICK f : f = [i \in DOMAIN run.jobs |->
                        IF Working(i) THEN [Job(i) EXCEPT !.state = "failed"] ELSE Job(i)]
        OBVIOUS
  <1>2. /\ run.pc = "run" /\ UNCHANGED <<coll, up, saved, claimed, printed>>
        /\ run' = [run EXCEPT !.looped = FALSE, !.jobs = f]
        BY <1>1 DEF LoopFails, At, ServerUnchanged, LocalUnchanged
  <1>3. /\ run'.pc = "run" /\ run'.args = run.args /\ run'.jobs = f
        /\ run'.bundle = run.bundle /\ run'.coll = run.coll
        BY <1>2 DEF OnRecordInv, RecordTyped, RunShape
  <1>4. ASSUME NEW i \in DOMAIN run.jobs
        PROVE  f[i] \in Jobs /\ f[i].path = Job(i).path /\ Good(f[i])'
    <2>1. Job(i) \in Jobs /\ Good(Job(i))
          BY JobTyped
    <2>2. CASE Working(i)
      <3>1. f[i] = [Job(i) EXCEPT !.state = "failed"]
            BY <1>1, <2>2
      <3>2. PICK j : j = f[i]
            OBVIOUS
      <3>3. j \in Jobs /\ j.state = "failed" /\ j.path = Job(i).path
            BY <2>1, <3>1, <3>2 DEF Jobs
      <3>4. Good(j)'
            BY <3>3 DEF Good
      <3> QED BY <3>2, <3>3, <3>4
    <2>3. CASE ~Working(i)
      <3>1. f[i] = Job(i)
            BY <1>1, <2>3
      <3>2. PICK j : j = f[i]
            OBVIOUS
      <3>3. Good(j)'
            BY <1>2, <1>3, <2>1, <3>1, <3>2, GoodStays
      <3> QED BY <2>1, <3>1, <3>2, <3>3
    <2> QED BY <2>2, <2>3
  <1>5. f \in [DOMAIN run.jobs -> Jobs]
        BY <1>1, <1>4
  <1>6. StageInv'
    <2>1. run.jobs \in Seq(Jobs) /\ Len(run.jobs) = Len(run.args)
          BY <1>2 DEF BundleInv, StageInv, JobsInv
    <2>2. Len(f) = Len(run.jobs)
          BY <1>5, <2>1
    <2> QED BY <1>3, <2>1, <2>2 DEF StageInv, Later
  <1> QED BY <1>2, <1>3, <1>4, <1>5, <1>6, JobsBecome

\* zb_upload_engine_resolve_resume
LEMMA ResolveResumeInv ==
    ASSUME OnRecordInv, BundleInv, ResolveResume
    PROVE  BundleInv'
  <1>1. PICK f : \E answers \in SUBSET DOMAIN run.jobs :
           /\ f = [i \in DOMAIN run.jobs |->
                     [run.jobs[i] EXCEPT !.allowed =
                         i \in answers /\ FindSource(run.jobs[i].path) # NoTok]]
           /\ run' = [run EXCEPT !.pc = "run", !.jobs = f]
        BY DEF ResolveResume
  <1>2. /\ run.pc = "queue" /\ UNCHANGED <<coll, up, saved, claimed, printed>>
        /\ ~ArgsLeft
        BY DEF ResolveResume, At, ServerUnchanged, LocalUnchanged
  <1>3. /\ run'.pc = "run" /\ run'.args = run.args /\ run'.jobs = f
        /\ run'.bundle = run.bundle
        BY <1>1 DEF OnRecordInv, RecordTyped, RunShape
  <1>4. ASSUME NEW i \in DOMAIN run.jobs
        PROVE  f[i] \in Jobs /\ f[i].path = Job(i).path /\ Good(f[i])'
    <2>1. Job(i) \in Jobs /\ Job(i).state = "queued"
          BY <1>2, JobTyped DEF BundleInv, StageInv
    <2>2. PICK b \in BOOLEAN : f[i] = [Job(i) EXCEPT !.allowed = b]
          BY <1>1 DEF Job
    <2>3. PICK j : j = f[i]
          OBVIOUS
    <2>4. j \in Jobs /\ j.state = "queued" /\ j.path = Job(i).path
          BY <2>1, <2>2, <2>3 DEF Jobs
    <2>5. Good(j)'
          BY <2>4 DEF Good
    <2> QED BY <2>3, <2>4, <2>5
  <1>5. f \in [DOMAIN run.jobs -> Jobs]
        BY <1>1, <1>4
  <1>6. StageInv'
    <2>1. run.jobs \in Seq(Jobs) /\ run.args \in Seq(Source) /\ Len(run.jobs) <= Len(run.args)
          BY DEF BundleInv, JobsInv
    <2>2. Len(run.jobs) = Len(run.args)
          BY <1>2, <2>1 DEF ArgsLeft
    <2>3. Len(f) = Len(run.jobs)
          BY <1>5, <2>1
    <2>4. run.bundle => run.pc \in Later
          BY <1>2 DEF Later
    <2> QED BY <1>3, <2>2, <2>3, <2>4 DEF StageInv, Later
  <1> QED BY <1>2, <1>3, <1>4, <1>5, <1>6, JobsBecome

\* zb_upload_engine_add
LEMMA AddInv ==
    ASSUME OnRecordInv, BundleInv, Add
    PROVE  BundleInv'
  <1>1. /\ run.pc \in {"queue", "spooled"} /\ ArgsLeft
        /\ UNCHANGED <<coll, up, saved, claimed, printed>>
        /\ \E b \in BOOLEAN : \E o :
             run' = [run EXCEPT !.pc = "queue",
                        !.jobs = Append(run.jobs, Queued(NextArg, b)), !.owns = o]
        BY DEF Add, At, ServerUnchanged, LocalUnchanged
  <1>2. PICK b \in BOOLEAN :
        /\ run'.pc = "queue" /\ run'.args = run.args
        /\ run'.jobs = Append(run.jobs, Queued(NextArg, b))
        /\ run'.bundle = run.bundle /\ run'.coll = run.coll
        BY <1>1 DEF OnRecordInv, RecordTyped, RunShape
  <1>3. /\ run.jobs \in Seq(Jobs) /\ run.args \in Seq(Source) /\ Len(run.jobs) <= Len(run.args)
        /\ \A i \in DOMAIN run.jobs : Job(i).path = run.args[i] /\ Good(Job(i))
        BY DEF BundleInv, JobsInv
  <1>4. PICK n \in Nat : n = Len(run.jobs) /\ n < Len(run.args)
        BY <1>1, <1>3 DEF ArgsLeft
  <1>5. PICK q : q = Queued(NextArg, b)
        OBVIOUS
  <1>6. q \in Jobs /\ q.path = run.args[n + 1] /\ q.state = "queued"
    <2>1. NextArg = run.args[n + 1] /\ NextArg \in Source
          BY <1>3, <1>4 DEF NextArg
    <2> QED BY <1>5, <2>1 DEF Queued, Jobs
  <1>7. /\ run'.jobs \in Seq(Jobs) /\ Len(run'.jobs) = n + 1 /\ run'.jobs[n + 1] = q
        /\ \A i \in 1..n : run'.jobs[i] = run.jobs[i]
        /\ DOMAIN run'.jobs = 1..(n + 1) /\ DOMAIN run.jobs = 1..n
        BY <1>2, <1>3, <1>4, <1>5, <1>6
  <1>8. ASSUME NEW i \in 1..(n + 1)
        PROVE  Job(i)'.path = run.args[i] /\ Good(Job(i))'
    <2>1. CASE i = n + 1
      <3>1. Good(q)'
            BY <1>6 DEF Good
      <3> QED BY <1>6, <1>7, <2>1, <3>1 DEF Job, Good
    <2>2. CASE i \in 1..n
      <3>1. PICK j : j = Job(i)
            OBVIOUS
      <3>2. Good(j)'
            BY <1>1, <1>2, <1>3, <1>7, <2>2, <3>1, GoodStays
      <3>3. run'.jobs[i] = j
            BY <1>7, <2>2, <3>1 DEF Job
      <3> QED BY <1>3, <1>7, <2>2, <3>1, <3>2, <3>3 DEF Job, Good
    <2>3. i = n + 1 \/ i \in 1..n
          OBVIOUS
    <2> QED BY <2>1, <2>2, <2>3
  <1>9. JobsInv'
        BY <1>2, <1>3, <1>4, <1>7, <1>8 DEF JobsInv
  <1>10. StageInv'
    <2>1. \A i \in 1..n : run.jobs[i].state = "queued"
          BY <1>1, <1>7 DEF BundleInv, StageInv, Job
    <2>2. \A i \in 1..(n + 1) : run'.jobs[i].state = "queued"
          BY <1>6, <1>7, <2>1
    <2> QED BY <1>2, <1>7, <2>2 DEF StageInv, Job, Later
  <1>11. ServerTyped' /\ SavedInv'
         BY <1>1 DEF BundleInv, ServerTyped, SavedInv
  <1> QED BY <1>9, <1>10, <1>11 DEF BundleInv

\* The steps of a run around its jobs.
LEMMA AroundInv ==
    ASSUME OnRecordInv, BundleInv, Spool \/ SpoolDone \/ RecordOpen \/ EndBundle \/ RecordSealed
    PROVE  BundleInv'
  <1>1. UNCHANGED <<coll, up, saved>> /\ claimed \subseteq claimed' /\ printed \subseteq printed'
        BY DEF Spool, SpoolDone, RecordOpen, EndBundle, RecordSealed, RecordRow,
               ServerUnchanged, LocalUnchanged
  <1>2. ServerTyped' /\ SavedInv' /\ UploadsMove
        BY <1>1 DEF BundleInv, ServerTyped, SavedInv, UploadsMove
  <1>3. CASE RecordSealed
        BY <1>1, <1>2, <1>3, EndBundleInv DEF RecordSealed, Quit, Cleanup, EndWith
  <1>4. CASE Spool \/ SpoolDone \/ RecordOpen \/ EndBundle
    <2>1. /\ run'.jobs = run.jobs /\ run'.args = run.args
          /\ run'.bundle = run.bundle /\ run'.coll = run.coll
          BY <1>4 DEF Spool, SpoolDone, RecordOpen, EndBundle, OnRecordInv, RecordTyped,
                      RunShape
    <2>2. \/ run.pc = "queue" /\ run'.pc = "spooling"
          \/ run.pc = "spooling" /\ run'.pc = "spooled"
          \/ run.pc = "record" /\ run'.pc = "queue"
          \/ run.pc = "run" /\ run'.pc = "seal" /\ run.bundle /\ Finished
          BY <1>4 DEF Spool, SpoolDone, RecordOpen, EndBundle, OnRecordInv, RecordTyped,
                      RunShape, At
    <2>3. StageInv'
      <3>1. CASE \/ run.pc = "queue" /\ run'.pc = "spooling"
                 \/ run.pc = "spooling" /\ run'.pc = "spooled"
            BY <2>1, <3>1 DEF BundleInv, StageInv, Job, Later
      <3>2. CASE run.pc = "record" /\ run'.pc = "queue"
            BY <2>1, <3>2 DEF BundleInv, StageInv, Job, Later
      <3>3. CASE run.pc = "run" /\ run'.pc = "seal" /\ run.bundle /\ Finished
            BY <2>1, <3>3 DEF BundleInv, StageInv, Job, Later, Finished
      <3> QED BY <2>2, <3>1, <3>2, <3>3
    <2> QED BY <1>1, <1>2, <2>1, <2>3, SameJobs
  <1> QED BY <1>3, <1>4

\* zb_collection_init, answered.
LEMMA OpenInvStep ==
    ASSUME OnRecordInv, BundleInv, NEW c \in Coll, OpenCollection(c)
    PROVE  BundleInv'
  <1>1. /\ UNCHANGED <<up, saved, claimed, printed>> /\ run.pc = "open"
        /\ coll' = [coll EXCEPT ![c] = "open"]
        BY DEF OpenCollection, At, LocalUnchanged
  <1>2. /\ run'.jobs = run.jobs /\ run'.args = run.args /\ run'.bundle = run.bundle
        /\ run'.pc = "record" /\ run'.coll = c
        BY DEF OpenCollection, OnRecordInv, RecordTyped, RunShape
  <1>3. ServerTyped' /\ SavedInv'
        BY <1>1 DEF BundleInv, ServerTyped, SavedInv
  <1>4. \A i \in DOMAIN run.jobs : Job(i).state = "queued"
        BY <1>1 DEF BundleInv, StageInv
  <1>5. StageInv'
        BY <1>2, <1>4 DEF StageInv, Job, Later
  <1>6. ASSUME NEW i \in DOMAIN run.jobs PROVE Good(Job(i))'
        BY <1>2, <1>4 DEF Good, Job
  <1>7. JobsInv'
        BY <1>2, <1>6 DEF BundleInv, JobsInv, Job
  <1> QED BY <1>3, <1>5, <1>7 DEF BundleInv

\* collection_complete
LEMMA SealInv ==
    ASSUME OnRecordInv, BundleInv, Seal
    PROVE  BundleInv'
  <1>1. /\ UNCHANGED <<up, saved, claimed, printed>> /\ run.pc = "seal"
        /\ coll' = [coll EXCEPT ![run.coll] = "sealed"]
        /\ run' = [run EXCEPT !.pc = "sealed"] \/ run' = NoRun
        BY DEF Seal, At, LocalUnchanged, RequestFails, Quit, Cleanup, EndWith
  <1>2. ServerTyped' /\ SavedInv' /\ UploadsMove
        BY <1>1 DEF BundleInv, ServerTyped, SavedInv, UploadsMove
  <1>3. CASE run' = NoRun
        BY <1>1, <1>2, <1>3, EndBundleInv
  <1>4. CASE run' = [run EXCEPT !.pc = "sealed"]
    <2>1. /\ run'.jobs = run.jobs /\ run'.args = run.args /\ run'.bundle = run.bundle
          /\ run'.pc = "sealed" /\ run'.coll = run.coll
          BY <1>4 DEF OnRecordInv, RecordTyped, RunShape
    <2>2. run.bundle /\ Finished /\ Len(run.jobs) = Len(run.args)
          BY <1>1 DEF BundleInv, StageInv
    <2>3. run.coll \in Coll
          BY <1>1, <2>2 DEF OnRecordInv, RunOnRecord, Later
    <2>4. coll'[run.coll] = "sealed"
          BY <1>1, <2>3 DEF BundleInv, ServerTyped
    <2>5. StageInv'
          BY <2>1, <2>2, <2>4 DEF StageInv, Finished, Job, Later
    <2> QED BY <1>1, <1>2, <2>1, <2>5, SameJobs
  <1> QED BY <1>1, <1>3, <1>4

\* The server publishes, forgets or expires on its own.
LEMMA ServerInv ==
    ASSUME OnRecordInv, BundleInv,
           \/ \E t \in Tok : Publish(t) \/ SessionExpires(t)
           \/ \E c \in Coll : CollectionExpires(c)
    PROVE  BundleInv'
  <1>1. UNCHANGED <<run, saved, claimed, printed>>
        BY DEF Publish, SessionExpires, CollectionExpires, LocalUnchanged
  <1>2. coll \in [Coll -> {"unused", "open", "sealed", "gone"}] /\ up \in [Tok -> Uploads]
        BY DEF BundleInv, ServerTyped
  <1>3. up' \in [Tok -> Uploads] /\ UploadsMove /\ SavedInv'
    <2>1. ASSUME NEW t \in Tok, Publish(t) \/ SessionExpires(t)
          PROVE  up' \in [Tok -> Uploads] /\ UploadsMove /\ SavedInv'
      <3>1. \/ up[t].state = "asked" /\ up' = [up EXCEPT ![t].state = "published"]
            \/ /\ up[t].state \in {"open", "asked"}
               /\ up' = [up EXCEPT ![t].state = "gone"]
            BY <2>1 DEF Publish, SessionExpires, Open
      <3> QED BY <1>1, <3>1, MovedUpload
    <2>2. ASSUME NEW c \in Coll, CollectionExpires(c)
          PROVE  up' \in [Tok -> Uploads] /\ UploadsMove /\ SavedInv'
      <3>1. /\ DOMAIN up' = Tok
            /\ up' = [t \in Tok |-> IF t \in Members(c) THEN [up[t] EXCEPT !.state = "expired"]
                                    ELSE up[t]]
            BY <2>2 DEF CollectionExpires
      <3>2. ASSUME NEW t \in Tok
            PROVE  /\ up'[t] \in Uploads
                   /\ up'[t].path = up[t].path /\ up'[t].coll = up[t].coll
                   /\ \/ up'[t].state = up[t].state
                      \/ /\ up[t].state = "published"
                         /\ up'[t].state = "expired"
        <4>1. up[t] \in Uploads
              BY <1>2
        <4>2. \/ up'[t] = up[t]
              \/ up[t].state = "published" /\ up'[t] = [up[t] EXCEPT !.state = "expired"]
              BY <3>1 DEF Members
        <4>3. PICK u : u = up[t]
              OBVIOUS
        <4>4. u \in Uploads
              BY <4>1, <4>3
        <4>5. CASE u.state = "published" /\ up'[t] = [u EXCEPT !.state = "expired"]
              BY <4>3, <4>4, <4>5 DEF Uploads
        <4>6. CASE up'[t] = up[t]
              BY <4>1, <4>6
        <4> QED BY <4>2, <4>3, <4>5, <4>6
      <3>3. UploadsMove
            BY <3>2 DEF UploadsMove
      <3>4. up' \in [Tok -> Uploads]
            BY <3>1, <3>2
      <3>5. SavedInv'
            BY <1>1, <3>3 DEF UploadsMove, BundleInv, SavedInv
      <3> QED BY <3>3, <3>4, <3>5
    <2> QED BY <2>1, <2>2
  <1>4. coll' = coll \/ \E c \in Coll : coll' = [coll EXCEPT ![c] = "gone"]
        BY DEF Publish, SessionExpires, CollectionExpires
  <1>5. /\ ServerTyped'
        /\ \A c : coll[c] \in {"sealed", "gone"} /\ c \in Coll => coll'[c] \in {"sealed", "gone"}
        BY <1>2, <1>3, <1>4 DEF ServerTyped
  <1>6. StageInv'
    <2>1. run.pc = "sealed" => run.coll \in Coll
          BY DEF BundleInv, StageInv, OnRecordInv, RunOnRecord, Later
    <2>2. PICK c : c = run.coll
          OBVIOUS
    <2>3. run.pc = "sealed" => coll'[c] \in {"sealed", "gone"}
          BY <1>5, <2>1, <2>2 DEF BundleInv, StageInv
    <2>4. Finished => Finished'
          BY <1>1 DEF Finished, Job
    <2> QED BY <1>1, <2>2, <2>3, <2>4 DEF BundleInv, StageInv, Job, Later
  <1> QED BY <1>1, <1>3, <1>5, <1>6, SameJobs

\* BundleInv is inductive, given OnRecordInv.
LEMMA NextBundle == OnRecordInv /\ BundleInv /\ [Next]_vars => BundleInv'
  <1> SUFFICES ASSUME OnRecordInv, BundleInv, [Next]_vars PROVE BundleInv'
      OBVIOUS
  <1>1. CASE UNCHANGED vars
    <2>1. UNCHANGED <<coll, up, saved, claimed, printed, run>>
          BY <1>1 DEF vars
    <2>2. ServerTyped' /\ SavedInv' /\ UploadsMove
          BY <2>1 DEF BundleInv, ServerTyped, SavedInv, UploadsMove
    <2>3. StageInv'
          BY <2>1 DEF BundleInv, StageInv, Finished, Job, Later
    <2> QED BY <2>1, <2>2, <2>3, SameJobs
  <1>2. ASSUME NEW i \in DOMAIN run.jobs,
               \/ KickOff(i) \/ InitServed(i) \/ StatusServed(i) \/ AskComplete(i)
               \/ JobDone(i) \/ JobFails(i)
        PROVE  BundleInv'
        BY <1>2, KickOffInv, InitServedInv, SameUploadInv, JobDoneInv, JobFailsInv
  <1>3. CASE \/ OpenFails \/ AddFails \/ SpoolFails \/ SpoolInterrupted \/ Interrupted
             \/ EndSeparate \/ EndEmpty \/ SealFails \/ Crash
        BY <1>3, EndingInv
  <1>4. CASE \/ \E t \in Tok : Publish(t) \/ SessionExpires(t)
             \/ \E c \in Coll : CollectionExpires(c)
        BY <1>4, ServerInv
  <1>5. CASE \E bundle \in Bundles, mode \in Modes, args \in Args : Start(bundle, mode, args)
        BY <1>5, StartInv
  <1>6. CASE \/ Spool \/ SpoolDone \/ RecordOpen \/ EndBundle \/ RecordSealed \/ Add \/ ResolveResume
             \/ LoopFails \/ Seal \/ (\E c \in Coll : OpenCollection(c))
        BY <1>6, OpenInvStep, AroundInv, AddInv, ResolveResumeInv, LoopFailsInv, SealInv
  <1> QED BY <1>1, <1>2, <1>3, <1>4, <1>5, <1>6 DEF Next

LEMMA InitBundle == Init => BundleInv
  <1> SUFFICES ASSUME Init PROVE BundleInv
      OBVIOUS
  <1>1. ServerTyped /\ SavedInv
        BY DEF Init, ServerTyped, SavedInv, Uploads, Source
  <1>2. run.jobs = <<>> /\ run.args = <<>> /\ run.pc = "idle" /\ ~run.bundle
        BY DEF Init, NoRun
  <1> QED BY <1>1, <1>2 DEF BundleInv, JobsInv, StageInv

\* The values of every state are well formed: a job that was answered works
\* on an upload of its own file, and a bundle past its first request has a
\* collection.
THEOREM BundleTyped == Spec => []TypeOK
  <1>1. OnRecordInv /\ BundleInv => TypeOK
    <2> SUFFICES ASSUME OnRecordInv, BundleInv PROVE TypeOK
        OBVIOUS
    <2>1. /\ coll \in [Coll -> {"unused", "open", "sealed", "gone"}]
          /\ \A t \in Tok : up[t].state # "unused" => up[t].coll \in Coll \cup {NoColl}
          /\ row \in Rows
          BY DEF BundleInv, ServerTyped, Uploads, OnRecordInv, RecordTyped
    <2>2. /\ Len(run.jobs) <= Len(run.args)
          /\ \A i \in DOMAIN run.jobs :
               Job(i).state \in {"sending", "completing", "done"} =>
                   Job(i).tok # NoTok /\ up[Job(i).tok].path = Job(i).path
          BY TokAssumption DEF BundleInv, JobsInv, Good, NoTok
    <2>3. run.bundle /\ ~At("open") => run.coll # NoColl
          BY CollAssumption DEF OnRecordInv, RecordTyped, RunOnRecord, BundleInv, StageInv, At, NoColl
    <2> QED BY <2>1, <2>2, <2>3 DEF TypeOK, Rows
  <1> QED BY <1>1, InitOnRecord, NextOnRecord, InitBundle, NextBundle, PTL DEF Spec

-----------------------------------------------------------------------------
(***************************************************************************)
(* The copy of stdin.  While it is there, somebody is going to remove it:  *)
(* spool_stdin, the command that spooled it and has not handed it over, or *)
(* the job that took it.  No two of them do, so that it is never removed   *)
(* twice at the end of a run.                                              *)
(***************************************************************************)
EngineDeletes == \E i \in DOMAIN run.jobs : run.jobs[i].deletes

TempInv ==
    /\ run.pc = "idle" => temp # "there"
    /\ run.pc # "idle" => temp \in {"none", "there"}
    /\ temp = "there" => run.pc = "spooling" \/ EngineDeletes \/ (run.spooled /\ ~run.owns)
    /\ EngineDeletes => run.owns
    /\ run.owns => run.spooled
    /\ run.pc = "spooling" => ~run.spooled
    /\ run.pc = "spooled" => run.spooled

\* What a step may do to the copy.
TempStep == TempInv' /\ (temp' = "twice" => temp = "twice" \/ run.pc = "spooled")

LEMMA InitTemp == Init => TempInv
  BY DEF Init, NoRun, TempInv, EngineDeletes

\* The copy and its owners are left alone.
LEMMA TempStays ==
    ASSUME TempInv, temp' = temp, EngineDeletes' <=> EngineDeletes,
           run'.spooled = run.spooled, run'.owns = run.owns,
           \/ run'.pc = run.pc
           \/ {run.pc, run'.pc} \cap {"idle", "spooling", "spooled"} = {}
    PROVE  TempStep
  BY DEF TempInv, TempStep

\* The cleanup at the end of a command removes the copy, and only once.
LEMMA CleanupRemoves ==
    ASSUME TempInv, run.pc \notin {"idle", "spooling"}, Cleanup
    PROVE  TempStep
  <1>1. run'.pc = "idle" /\ ~EngineDeletes' /\ ~run'.spooled /\ ~run'.owns
        BY DEF Cleanup, EndWith, NoRun, EngineDeletes
  <1>2. temp' = CommandRemoves(EngineRemoves(temp)) /\ temp \in {"none", "there"}
        BY DEF Cleanup, EndWith, TempInv
  <1>3. temp' \in {"none", "gone"}
    <2>1. CASE temp = "none"
          BY <1>2, <2>1 DEF CommandRemoves, EngineRemoves, Removed
    <2>2. CASE temp = "there" /\ EngineDeletes
      <3>1. EngineRemoves(temp) = "gone" /\ run.owns
            BY <2>2 DEF EngineRemoves, EngineDeletes, Removed, TempInv
      <3> QED BY <1>2, <3>1 DEF CommandRemoves
    <2>3. CASE temp = "there" /\ ~EngineDeletes
      <3>1. EngineRemoves(temp) = "there" /\ run.spooled /\ ~run.owns
            BY <2>3 DEF EngineRemoves, EngineDeletes, TempInv
      <3> QED BY <1>2, <3>1 DEF CommandRemoves, Removed
    <2> QED BY <1>2, <2>1, <2>2, <2>3
  <1> QED BY <1>1, <1>3 DEF TempStep, TempInv

\* A copy that fails, or that the engine refuses, is removed at once.
LEMMA RefusalRemoves ==
    ASSUME TempInv, run.pc \in {"spooling", "spooled"}, EndWith(Removed(temp))
    PROVE  TempStep
  <1>1. run'.pc = "idle" /\ ~EngineDeletes' /\ ~run'.spooled /\ ~run'.owns
        BY DEF EndWith, NoRun, EngineDeletes
  <1>2. temp' = CommandRemoves(EngineRemoves(Removed(temp))) /\ temp \in {"none", "there"}
        BY DEF EndWith, TempInv
  <1>3. Removed(temp) \in {"none", "gone"}
        BY <1>2 DEF Removed
  <1>4. EngineRemoves(Removed(temp)) \in {"none", "gone", "twice"}
        BY <1>3 DEF EngineRemoves, Removed
  <1>5. temp' # "there"
        BY <1>2, <1>4 DEF CommandRemoves, Removed
  <1>6. CASE run.pc = "spooling"
    <2>1. ~EngineDeletes /\ ~run.spooled
          BY <1>6 DEF TempInv
    <2>2. temp' = Removed(temp)
          BY <1>2, <2>1 DEF CommandRemoves, EngineRemoves, EngineDeletes
    <2> QED BY <1>1, <1>3, <1>5, <2>2 DEF TempStep, TempInv
  <1> QED BY <1>1, <1>5, <1>6 DEF TempStep, TempInv

\* A command ends.
LEMMA EndingTemp ==
    ASSUME TempInv,
           \/ OpenFails \/ AddFails \/ SpoolFails \/ SpoolInterrupted \/ Interrupted
           \/ EndSeparate \/ EndEmpty \/ SealFails \/ RecordSealed \/ Crash
    PROVE  TempStep
  <1>1. \/ Cleanup /\ run.pc \notin {"idle", "spooling"}
        \/ EndWith(Removed(temp)) /\ run.pc \in {"spooling", "spooled"}
        \/ Crash
        BY DEF OpenFails, AddFails, SpoolFails, SpoolInterrupted, Interrupted, EndSeparate,
               EndEmpty, SealFails, RecordSealed, RequestFails, Quit, At
  <1>2. CASE Crash
    <2>1. run'.pc = "idle" /\ ~EngineDeletes' /\ ~run'.spooled /\ ~run'.owns
          BY <1>2 DEF Crash, NoRun, EngineDeletes
    <2>2. temp' \notin {"there", "twice"}
          BY <1>2 DEF Crash, TempInv, At
    <2> QED BY <2>1, <2>2 DEF TempStep, TempInv
  <1> QED BY <1>1, <1>2, CleanupRemoves, RefusalRemoves

\* A command starts, spools stdin and hands the copy to a job.
LEMMA SpoolTemp ==
    ASSUME OnRecordInv, BundleInv, TempInv,
           \/ \E bundle \in Bundles, mode \in Modes, args \in Args : Start(bundle, mode, args)
           \/ Spool \/ SpoolDone \/ Add
    PROVE  TempStep
  <1>1. RunShape /\ run.jobs \in Seq(Jobs)
        BY DEF OnRecordInv, RecordTyped, BundleInv, JobsInv
  <1>2. CASE \E bundle \in Bundles, mode \in Modes, args \in Args : Start(bundle, mode, args)
    <2>1. /\ run'.pc \in {"open", "queue"} /\ run'.jobs = <<>> /\ temp' = "none"
          /\ ~run'.spooled /\ ~run'.owns
          BY <1>2 DEF Start, NoRun
    <2> QED BY <2>1 DEF TempStep, TempInv, EngineDeletes
  <1>3. CASE Spool
    <2>1. /\ run.pc = "queue" /\ run'.pc = "spooling" /\ temp' = "there" /\ ~run.spooled
          /\ run'.jobs = run.jobs /\ run'.spooled = run.spooled /\ run'.owns = run.owns
          BY <1>1, <1>3 DEF Spool, At, RunShape
    <2> QED BY <2>1 DEF TempStep, TempInv, EngineDeletes
  <1>4. CASE SpoolDone
    <2>1. /\ run.pc = "spooling" /\ run'.pc = "spooled" /\ temp' = temp /\ run'.spooled
          /\ run'.jobs = run.jobs /\ run'.owns = run.owns
          BY <1>1, <1>4 DEF SpoolDone, At, RunShape, StillRunning
    <2> QED BY <2>1 DEF TempStep, TempInv, EngineDeletes
  <1>5. CASE Add
    <2>1. PICK j : j = Queued(NextArg, run.pc = "spooled")
          OBVIOUS
    <2>2. /\ run.pc \in {"queue", "spooled"} /\ run'.pc = "queue" /\ temp' = temp
          /\ run'.jobs = Append(run.jobs, j) /\ run'.spooled = run.spooled
          /\ run'.owns = (run.owns \/ run.pc = "spooled")
          BY <1>1, <1>5, <2>1 DEF Add, At, RunShape, StillRunning
    <2>3. j.deletes = (run.pc = "spooled")
          BY <2>1 DEF Queued
    <2>4. EngineDeletes' <=> EngineDeletes \/ j.deletes
      <3>1. PICK n \in Nat : n = Len(run.jobs) /\ DOMAIN run.jobs = 1..n
            BY <1>1
      <3>2. /\ DOMAIN run'.jobs = 1..(n + 1) /\ run'.jobs[n + 1] = j
            /\ \A i \in 1..n : run'.jobs[i] = run.jobs[i]
            BY <1>1, <2>2, <3>1
      <3>3. \A i \in 1..(n + 1) : i = n + 1 \/ i \in 1..n
            OBVIOUS
      <3> QED BY <3>1, <3>2, <3>3 DEF EngineDeletes
    <2>5. CASE run.pc = "queue"
      <3>1. ~j.deletes /\ (run'.owns <=> run.owns)
            BY <2>2, <2>3, <2>5
      <3> QED BY <2>2, <2>4, <2>5, <3>1 DEF TempStep, TempInv
    <2>6. CASE run.pc = "spooled"
          BY <2>2, <2>3, <2>4, <2>6 DEF TempStep, TempInv
    <2> QED BY <2>2, <2>5, <2>6
  <1> QED BY <1>2, <1>3, <1>4, <1>5

\* The jobs keep what they were handed.
LEMMA JobsTemp ==
    ASSUME OnRecordInv, BundleInv, TempInv,
           \/ ResolveResume \/ LoopFails
           \/ \E i \in DOMAIN run.jobs :
                \/ KickOff(i) \/ InitServed(i) \/ StatusServed(i) \/ AskComplete(i)
                \/ JobDone(i) \/ JobFails(i)
    PROVE  TempStep
  <1>1. RunShape /\ run.jobs \in Seq(Jobs)
        BY DEF OnRecordInv, RecordTyped, BundleInv, JobsInv
  <1>2. \A i \in DOMAIN run.jobs : Job(i) \in Jobs
        BY JobTyped
  <1>3. /\ temp' = temp /\ run'.spooled = run.spooled /\ run'.owns = run.owns
        /\ run.pc \in {"queue", "run"} /\ run'.pc = "run"
    <2>1. CASE ResolveResume
          BY <1>1, <2>1 DEF ResolveResume, At, RunShape, StillRunning
    <2>2. CASE LoopFails
          BY <1>1, <2>2 DEF LoopFails, At, RunShape, StillRunning
    <2>3. CASE \E i \in DOMAIN run.jobs :
                 \/ KickOff(i) \/ InitServed(i) \/ StatusServed(i) \/ AskComplete(i)
                 \/ JobDone(i) \/ JobFails(i)
          BY <1>1, <2>3 DEF KickOff, InitServed, StatusServed, AskComplete, JobDone, JobFails,
                            JobBecomes, Working, At, RunShape, StillRunning
    <2> QED BY <2>1, <2>2, <2>3
  <1>4. /\ DOMAIN run'.jobs = DOMAIN run.jobs
        /\ \A k \in DOMAIN run.jobs : run'.jobs[k].deletes = run.jobs[k].deletes
    <2>1. CASE ResolveResume
      <3>1. PICK answers \in SUBSET DOMAIN run.jobs :
              run'.jobs = [i \in DOMAIN run.jobs |->
                 [run.jobs[i] EXCEPT !.allowed =
                     i \in answers /\ FindSource(run.jobs[i].path) # NoTok]]
            BY <1>1, <2>1 DEF ResolveResume, RunShape
      <3>2. ASSUME NEW k \in DOMAIN run.jobs
            PROVE  run'.jobs[k].deletes = run.jobs[k].deletes
        <4>1. PICK b : run'.jobs[k] = [run.jobs[k] EXCEPT !.allowed = b]
              BY <3>1
        <4>2. run.jobs[k] \in Jobs
              BY <1>2 DEF Job
        <4> QED BY <4>1, <4>2 DEF Jobs
      <3> QED BY <3>1, <3>2
    <2>2. CASE LoopFails
      <3>1. run'.jobs = [i \in DOMAIN run.jobs |->
               IF Working(i) THEN [Job(i) EXCEPT !.state = "failed"] ELSE Job(i)]
            BY <1>1, <2>2 DEF LoopFails, RunShape
      <3>2. ASSUME NEW k \in DOMAIN run.jobs
            PROVE  run'.jobs[k].deletes = run.jobs[k].deletes
        <4>1. \/ run'.jobs[k] = [Job(k) EXCEPT !.state = "failed"]
              \/ run'.jobs[k] = Job(k)
              BY <3>1
        <4>2. Job(k) \in Jobs /\ Job(k) = run.jobs[k]
              BY <1>2 DEF Job
        <4> QED BY <4>1, <4>2 DEF Jobs
      <3> QED BY <3>1, <3>2
    <2>3. ASSUME NEW i \in DOMAIN run.jobs,
                 \/ KickOff(i) \/ InitServed(i) \/ StatusServed(i) \/ AskComplete(i)
                 \/ JobDone(i) \/ JobFails(i)
          PROVE  /\ DOMAIN run'.jobs = DOMAIN run.jobs
                 /\ \A k \in DOMAIN run.jobs : run'.jobs[k].deletes = run.jobs[k].deletes
      <3>1. PICK j : JobBecomes(i, j) /\ j.deletes = Job(i).deletes
        <4>1. PICK s, t : \/ JobBecomes(i, [Job(i) EXCEPT !.state = s])
                          \/ JobBecomes(i, [Job(i) EXCEPT !.state = s, !.tok = t])
              BY <2>3 DEF KickOff, InitServed, StatusServed, AskComplete, JobDone, JobFails
        <4>2. /\ [Job(i) EXCEPT !.state = s].deletes = Job(i).deletes
              /\ [Job(i) EXCEPT !.state = s, !.tok = t].deletes = Job(i).deletes
              BY <1>2 DEF Jobs
        <4> QED BY <4>1, <4>2
      <3>2. run'.jobs = [run.jobs EXCEPT ![i] = j]
            BY <1>1, <3>1 DEF JobBecomes, RunShape
      <3> QED BY <3>1, <3>2 DEF Job
    <2> QED BY <2>1, <2>2, <2>3
  <1>5. EngineDeletes' <=> EngineDeletes
        BY <1>4 DEF EngineDeletes
  <1>6. run'.pc = run.pc \/ {run.pc, run'.pc} \cap {"idle", "spooling", "spooled"} = {}
        BY <1>3
  <1> QED BY <1>3, <1>5, <1>6, TempStays

\* The collection and the server have nothing to do with the copy.
LEMMA OtherTemp ==
    ASSUME OnRecordInv, TempInv,
           \/ \E c \in Coll : OpenCollection(c) \/ CollectionExpires(c)
           \/ RecordOpen \/ EndBundle \/ Seal
           \/ \E t \in Tok : Publish(t) \/ SessionExpires(t)
    PROVE  TempStep
  <1>1. RunShape
        BY DEF OnRecordInv, RecordTyped
  <1>2. CASE Seal /\ RequestFails
        BY <1>2, CleanupRemoves DEF Seal, At, RequestFails, Quit
  <1>3. CASE \/ \E c \in Coll : OpenCollection(c) \/ CollectionExpires(c)
             \/ RecordOpen \/ EndBundle \/ (Seal /\ ~RequestFails)
             \/ \E t \in Tok : Publish(t) \/ SessionExpires(t)
    <2>1. /\ temp' = temp /\ run'.jobs = run.jobs
          /\ run'.spooled = run.spooled /\ run'.owns = run.owns
          /\ \/ run'.pc = run.pc
             \/ {run.pc, run'.pc} \cap {"idle", "spooling", "spooled"} = {}
          BY <1>1, <1>3 DEF OpenCollection, CollectionExpires, RecordOpen, EndBundle, Seal,
                            Publish, SessionExpires, At, RunShape, StillRunning
    <2>2. EngineDeletes' <=> EngineDeletes
          BY <2>1 DEF EngineDeletes
    <2> QED BY <2>1, <2>2, TempStays
  <1> QED BY <1>2, <1>3

LEMMA NextTemp == OnRecordInv /\ BundleInv /\ TempInv /\ [Next]_vars => TempStep
  <1> SUFFICES ASSUME OnRecordInv, BundleInv, TempInv, [Next]_vars PROVE TempStep
      OBVIOUS
  <1>1. CASE UNCHANGED vars
        BY <1>1 DEF vars, TempStep, TempInv, EngineDeletes
  <1>2. CASE Next
        BY <1>2, EndingTemp, SpoolTemp, JobsTemp, OtherTemp DEF Next
  <1> QED BY <1>1, <1>2

\* However a command ends, short of being killed, whoever owns the copy of
\* stdin by then removes it (spool_stdin, run_upload, job_free), and no two
\* owners do, unless the engine refused it after it had made a job of it.
THEOREM SpoolRemovedOnce == Spec => TempGone
  <1> DEFINE Step == /\ run'.pc = "idle" => temp' # "there"
                     /\ temp' = "twice" => temp = "twice" \/ run.pc = "spooled"
  <1>1. TempStep => Step /\ TempInv'
        BY DEF TempStep, TempInv
  <1>2. Step => [Step]_vars
        OBVIOUS
  <1> HIDE DEF Step
  <1>3. [][Step]_vars => TempGone
        BY DEF Step, TempGone, At
  <1> QED BY <1>1, <1>2, <1>3, InitOnRecord, NextOnRecord, InitBundle, NextBundle, InitTemp,
             NextTemp, PTL DEF Spec

-----------------------------------------------------------------------------
\* Where a command ends in success.
LEMMA SuccessIsDone ==
    ASSUME OnRecordInv, BundleInv, [Next]_vars, Ends(0)
    PROVE  /\ UNCHANGED <<coll, up, claimed>> /\ printed \subseteq printed'
           /\ IF run.bundle THEN run.pc = "sealed" ELSE run.pc = "run"
           /\ \A i \in DOMAIN run.args :
                i \in DOMAIN run.jobs /\ Job(i).state = "done" /\ Job(i).path = run.args[i]
                /\ Good(Job(i))
  <1>1. \/ EndSeparate \/ RecordSealed
    <2>1. ~(UNCHANGED vars)
          BY DEF Ends, At, vars
    <2>2. ~(OpenFails \/ AddFails \/ SpoolFails \/ SpoolInterrupted \/ Interrupted
            \/ EndEmpty \/ SealFails \/ Crash)
          BY DEF Ends, OpenFails, AddFails, SpoolFails, SpoolInterrupted, Interrupted, EndEmpty,
                 SealFails, Crash, RequestFails, Quit, Ended
    <2>3. ASSUME run'.pc = run.pc PROVE FALSE
          BY <2>3 DEF Ends, At
    <2>4. ~(Spool \/ SpoolDone \/ RecordOpen \/ EndBundle \/ Add \/ ResolveResume
            \/ LoopFails \/ \E c \in Coll : OpenCollection(c))
          BY DEF Spool, SpoolDone, RecordOpen, EndBundle, Add, ResolveResume, LoopFails, OpenCollection,
                 Ends, At, OnRecordInv, RecordTyped, RunShape
    <2>5. ~(\E i \in DOMAIN run.jobs :
              \/ KickOff(i) \/ InitServed(i) \/ StatusServed(i) \/ AskComplete(i)
              \/ JobDone(i) \/ JobFails(i))
          BY <2>3 DEF KickOff, InitServed, StatusServed, AskComplete, JobDone, JobFails,
                      JobBecomes, OnRecordInv, RecordTyped, RunShape
    <2>6. ~(\/ \E t \in Tok : Publish(t) \/ SessionExpires(t)
            \/ \E c \in Coll : CollectionExpires(c))
          BY <2>3 DEF Publish, SessionExpires, CollectionExpires
    <2>7. ~Seal
          BY DEF Seal, Ends, RequestFails, Quit, Ended, OnRecordInv, RecordTyped, RunShape
    <2>8. ~(\E bundle \in Bundles, mode \in Modes, args \in Args : Start(bundle, mode, args))
          BY DEF Start, Ends, At
    <2> QED BY <2>1, <2>2, <2>4, <2>5, <2>6, <2>7, <2>8 DEF Next
  <1>2. /\ Code = 0 /\ Finished /\ Len(run.jobs) = Len(run.args)
        /\ IF run.bundle THEN run.pc = "sealed" ELSE run.pc = "run"
        /\ UNCHANGED <<coll, up, claimed>> /\ printed \subseteq printed'
    <2>1. CASE EndSeparate
          BY <2>1 DEF EndSeparate, Ends, Quit, Ended, At, BundleInv, StageInv, ServerUnchanged,
                      LocalUnchanged
    <2>2. CASE RecordSealed
          BY <2>2 DEF RecordSealed, RecordRow, Ends, Quit, Ended, At, BundleInv, StageInv,
                      ServerUnchanged
    <2> QED BY <1>1, <2>1, <2>2
  <1>3. ~AnyFailed
        BY <1>2 DEF Code
  <1>4. run.jobs \in Seq(Jobs) /\ run.args \in Seq(Source)
        BY DEF BundleInv, JobsInv
  <1>5. DOMAIN run.args = DOMAIN run.jobs
        BY <1>2, <1>4
  <1>6. ASSUME NEW i \in DOMAIN run.jobs
        PROVE  Job(i).state = "done" /\ Job(i).path = run.args[i] /\ Good(Job(i))
        BY <1>2, <1>3 DEF Finished, AnyFailed, BundleInv, JobsInv
  <1> QED BY <1>2, <1>5, <1>6

\* Every file that separate uploads report as uploaded is on the server, and
\* its delete token on the shelf or on the terminal, whatever failed before.
THEOREM SeparatesCanBeDeleted == Spec => SeparateClaimable
  <1> DEFINE Step == Ends(0) /\ ~run.bundle =>
                \A i \in DOMAIN run.args : i \in DOMAIN run.jobs /\
                    LET t == Job(i).tok
                    IN  /\ t \in Tok
                        /\ up[t].path = run.args[i] /\ up[t].state \in {"published", "expired"}
                        /\ t \in claimed \/ <<"upload", t>> \in printed
  <1>1. OnRecordInv /\ BundleInv /\ [Next]_vars => Step
    <2> SUFFICES ASSUME OnRecordInv, BundleInv, [Next]_vars, Ends(0), ~run.bundle,
                        NEW i \in DOMAIN run.args
                 PROVE  i \in DOMAIN run.jobs /\
                    LET t == Job(i).tok
                    IN  /\ t \in Tok
                        /\ up[t].path = run.args[i] /\ up[t].state \in {"published", "expired"}
                        /\ t \in claimed \/ <<"upload", t>> \in printed
        OBVIOUS
    <2>1. i \in DOMAIN run.jobs /\ Job(i).state = "done" /\ Job(i).path = run.args[i] /\ Good(Job(i))
          BY SuccessIsDone
    <2> QED BY <2>1 DEF Good
  <1>2. Step => [Step]_vars
        OBVIOUS
  <1> HIDE DEF Step
  <1>3. [][Step]_vars => SeparateClaimable
        BY DEF Step, SeparateClaimable
  <1> QED BY <1>1, <1>2, <1>3, InitOnRecord, NextOnRecord, InitBundle, NextBundle, PTL DEF Spec

\* A bundle that reports success is sealed, or was and has expired since, and
\* each of its files is in it, or where its resumed session had been started.
THEOREM BundlesAreWhole == Spec => WholeBundle
  <1> DEFINE Step == Ends(0) /\ run.bundle =>
                /\ coll'[run.coll] \in {"sealed", "gone"}
                /\ \A i \in DOMAIN run.args :
                     \/ Landed(run.args[i], run.coll)
                     \/ Job(i).allowed /\ Elsewhere(run.args[i], run.coll)
  <1>1. OnRecordInv /\ BundleInv /\ [Next]_vars => Step
    <2> SUFFICES ASSUME OnRecordInv, BundleInv, [Next]_vars, Ends(0), run.bundle
                 PROVE  /\ coll'[run.coll] \in {"sealed", "gone"}
                        /\ \A i \in DOMAIN run.args :
                             \/ Landed(run.args[i], run.coll)
                             \/ Job(i).allowed /\ Elsewhere(run.args[i], run.coll)
        OBVIOUS
    <2>1. UNCHANGED <<coll, up>> /\ run.pc = "sealed"
          BY SuccessIsDone
    <2>2. coll'[run.coll] \in {"sealed", "gone"}
          BY <2>1 DEF BundleInv, StageInv
    <2>3. ASSUME NEW i \in DOMAIN run.args
          PROVE  \/ Landed(run.args[i], run.coll)
                 \/ Job(i).allowed /\ Elsewhere(run.args[i], run.coll)
      <3>1. Job(i).state = "done" /\ Job(i).path = run.args[i] /\ Good(Job(i))
            BY SuccessIsDone
      <3>2. PICK t \in Tok : t = Job(i).tok
            BY <3>1 DEF Good
      <3>3. /\ up'[t].path = run.args[i] /\ up'[t].state \in {"published", "expired"}
            /\ ~Job(i).allowed => up'[t].coll = run.coll
            BY <2>1, <3>1, <3>2 DEF Good
      <3>4. up'[t].coll \in Coll \cup {NoColl}
            BY <2>1 DEF BundleInv, ServerTyped, Uploads
      <3> QED BY <3>2, <3>3, <3>4 DEF Landed, Elsewhere
    <2> QED BY <2>2, <2>3
  <1>2. Step => [Step]_vars
        OBVIOUS
  <1> HIDE DEF Step
  <1>3. [][Step]_vars => WholeBundle
        BY DEF Step, WholeBundle
  <1> QED BY <1>1, <1>2, <1>3, InitOnRecord, NextOnRecord, InitBundle, NextBundle, PTL DEF Spec
=============================================================================
