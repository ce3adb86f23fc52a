------------------------------- MODULE Bundle --------------------------------
(***************************************************************************)
(* `upload` as a whole (commands/upload.c, api/collection.c): a run opens a *)
(* collection when --bundle asks for one, puts it on the shelf, buffers    *)
(* stdin, queues its files, uploads them, and seals the collection.        *)
(*                                                                         *)
(* UploadEngine models how one file travels; here a job only opens or      *)
(* resumes a session, asks the server to publish, and succeeds or fails.   *)
(* Runs follow each other and may be interrupted or die at any step; the   *)
(* server may serve a request whose answer nobody waits for any more.      *)
(***************************************************************************)
EXTENDS Integers, Sequences

CONSTANTS
    Path,       \* source files
    Stdin,      \* the argument "-"
    Args,       \* argument lists: set of sequences over Path and Stdin
    Modes,      \* subset of {"always", "never", "ask"}
    Bundles,    \* subset of BOOLEAN: whether --bundle is given
    Coll,       \* collection tokens, 1..n
    Tok,        \* upload tokens, 1..n
    MaxRuns,    \* bound on the runs
    Faults      \* subset of {"crash", "interrupt", "unwritable", "expiry"}

ASSUME StdinAssumption == Stdin \notin Path
ASSUME ArgsAssumption == Args \subseteq Seq(Path \cup {Stdin})
ASSUME CollAssumption == Coll \subseteq Nat \ {0}
ASSUME TokAssumption == Tok \subseteq Nat \ {0}

NoColl == 0
NoTok == 0

VARIABLES
    coll,       \* Coll -> state of the collection on the server
    up,         \* Tok -> upload on the server: state, source, collection
    saved,      \* sessions.json: the tokens of each source
    row,        \* shelf.json: row of each collection, and if it can delete
    claimed,    \* uploads whose own row is on the shelf
    printed,    \* collections and uploads whose delete token was printed
    temp,       \* the copy of stdin, of this run or the last
    run,        \* the running command
    last,       \* how the last command ended
    runs        \* commands started

vars == <<coll, up, saved, row, claimed, printed, temp, run, last, runs>>

\* spooled: spooled_path is set; owns: spooled_engine_owns_file
NoRun == [pc |-> "idle", bundle |-> FALSE, mode |-> "never", args |-> <<>>, coll |-> NoColl,
          jobs |-> <<>>, spooled |-> FALSE, owns |-> FALSE, looped |-> TRUE]

Init ==
    /\ coll = [c \in Coll |-> "unused"]
    /\ up = [t \in Tok |-> [state |-> "unused", path |-> Stdin, coll |-> NoColl]]
    /\ saved = [p \in Path \cup {Stdin} |-> {}]
    /\ row = [c \in Coll |-> [state |-> "absent", dtok |-> FALSE]]
    /\ claimed = {} /\ printed = {}
    /\ temp = "none" /\ run = NoRun
    /\ last = [rc |-> -1, interrupted |-> FALSE]
    /\ runs = 0

At(pc) == run.pc = pc
ServerUnchanged == UNCHANGED <<coll, up>>
LocalUnchanged == UNCHANGED <<saved, row, claimed, printed>>
StillRunning == UNCHANGED <<temp, last, runs>>

Unused == {t \in Tok : up[t].state = "unused"}
Lowest(S) == CHOOSE x \in S : \A y \in S : x <= y

-----------------------------------------------------------------------------
(* The end of a run                                                         *)

Ended(rc, interrupted) ==
    /\ last' = [rc |-> rc, interrupted |-> interrupted]
    /\ UNCHANGED runs

\* zb_remove, whose result nobody looks at: the second call finds no file.
Removed(t) == CASE t = "there" -> "gone" [] t = "gone" -> "twice" [] OTHER -> t

\* zb_upload_engine_free and job_free: a job with delete_source removes it.
EngineRemoves(t) == IF \E i \in DOMAIN run.jobs : run.jobs[i].deletes THEN Removed(t) ELSE t

\* "If the engine never took the file on, it is still ours to unlink"
CommandRemoves(t) == IF run.spooled /\ ~run.owns THEN Removed(t) ELSE t

\* The cleanup of run_upload, with the copy of stdin in state t.
EndWith(t) == run' = NoRun /\ temp' = CommandRemoves(EngineRemoves(t))
Cleanup == EndWith(temp)

Quit(rc) == Cleanup /\ Ended(rc, FALSE)

\* A request fails, or Ctrl+C aborts it: 130 (zb_report_error).
RequestFails ==
    \/ Quit(1)
    \/ "interrupt" \in Faults /\ Cleanup /\ Ended(130, TRUE)

-----------------------------------------------------------------------------
(* Before the upload                                                        *)

Start(bundle, mode, args) ==
    /\ At("idle") /\ runs < MaxRuns
    /\ run' = [NoRun EXCEPT !.pc = IF bundle THEN "open" ELSE "queue", !.bundle = bundle,
                            !.mode = mode, !.args = args]
    /\ runs' = runs + 1
    /\ temp' = "none"
    /\ UNCHANGED last /\ ServerUnchanged /\ LocalUnchanged

\* zb_collection_init: refused, lost on the way, or without a token (the
\* collection may exist all the same).
OpenFails ==
    /\ At("open")
    /\ \/ UNCHANGED coll
       \/ \E c \in Coll : coll[c] = "unused" /\ coll' = [coll EXCEPT ![c] = "open"]
    /\ RequestFails
    /\ UNCHANGED up /\ LocalUnchanged

\* Mutant: the row waits until the collection is sealed.
OpenUnrecorded(c) ==
    /\ At("open") /\ coll[c] = "unused"
    /\ coll' = [coll EXCEPT ![c] = "open"]
    /\ run' = [run EXCEPT !.pc = "queue", !.coll = c]
    /\ UNCHANGED up /\ LocalUnchanged /\ StillRunning

OpenCollection(c) ==
    /\ At("open") /\ coll[c] = "unused"
    /\ coll' = [coll EXCEPT ![c] = "open"]
    /\ run' = [run EXCEPT !.pc = "record", !.coll = c]
    /\ UNCHANGED up /\ LocalUnchanged /\ StillRunning

\* record_result: the row replaces an older one, delete token included; if
\* it cannot be saved, the delete token goes to the terminal.
RecordRow(c, r) ==
    \/ row' = [row EXCEPT ![c] = r] /\ UNCHANGED printed
    \/ /\ "unwritable" \in Faults
       /\ printed' = printed \cup (IF r.dtok THEN {<<"collection", c>>} ELSE {})
       /\ UNCHANGED row

RecordOpen ==
    /\ At("record")
    /\ RecordRow(run.coll, [state |-> "open", dtok |-> TRUE])
    /\ run' = [run EXCEPT !.pc = "queue"]
    /\ UNCHANGED <<saved, claimed>> /\ ServerUnchanged /\ StillRunning

Queued(p, temporary) ==
    [path |-> p, state |-> "queued", tok |-> NoTok, allowed |-> FALSE, deletes |-> temporary]
NextArg == run.args[Len(run.jobs) + 1]
ArgsLeft == Len(run.jobs) < Len(run.args)

\* spool_stdin creates a private temporary file and copies stdin into it; the
\* command knows the file once the copy is whole.
Spool ==
    /\ At("queue") /\ ArgsLeft /\ NextArg = Stdin /\ ~run.spooled
    /\ temp' = "there"
    /\ run' = [run EXCEPT !.pc = "spooling"]
    /\ ServerUnchanged /\ LocalUnchanged /\ UNCHANGED <<last, runs>>

SpoolDone ==
    /\ At("spooling")
    /\ run' = [run EXCEPT !.pc = "spooled", !.spooled = TRUE]
    /\ ServerUnchanged /\ LocalUnchanged /\ StillRunning

\* stdin cannot be read, or the copy written; spool_stdin removes it.
SpoolFails ==
    /\ At("spooling")
    /\ EndWith(Removed(temp)) /\ Ended(1, FALSE)
    /\ ServerUnchanged /\ LocalUnchanged

\* Ctrl+C while stdin is copied: 130 if the read returned something, and
\* "cannot read stdin" if it was interrupted (EINTR) before that.
SpoolInterrupted ==
    /\ "interrupt" \in Faults /\ At("spooling")
    /\ \E rc \in {1, 130} : EndWith(Removed(temp)) /\ Ended(rc, TRUE)
    /\ ServerUnchanged /\ LocalUnchanged

\* Mutant: the engine is not told that the file is temporary.
AddUntold ==
    /\ ArgsLeft
    /\ (At("queue") /\ NextArg # Stdin) \/ At("spooled")
    /\ run' = [run EXCEPT !.pc = "queue", !.jobs = Append(@, Queued(NextArg, FALSE)),
                          !.owns = @ \/ At("spooled")]
    /\ ServerUnchanged /\ LocalUnchanged /\ StillRunning

\* zb_upload_engine_add: the job owns the copy of stdin from here on.
Add ==
    /\ ArgsLeft
    /\ (At("queue") /\ NextArg # Stdin) \/ At("spooled")
    /\ run' = [run EXCEPT !.pc = "queue", !.jobs = Append(@, Queued(NextArg, At("spooled"))),
                          !.owns = @ \/ At("spooled")]
    /\ ServerUnchanged /\ LocalUnchanged /\ StillRunning

\* A file cannot be read or is a directory, no temporary file can be made,
\* stdin is empty or named twice.  zb_upload_engine_add may have freed its
\* job, and removed the copy, before it gives up.
AddFails ==
    /\ ArgsLeft
    /\ \/ (At("queue") \/ At("spooled")) /\ \E rc \in {1, 2} : Quit(rc)
       \/ At("spooled") /\ EndWith(Removed(temp)) /\ Ended(1, FALSE)
    /\ ServerUnchanged /\ LocalUnchanged

\* Mutant: the source is not compared.
FindSourceAny(p) ==
    IF \A q \in Path : saved[q] = {} THEN NoTok
    ELSE Lowest(saved[CHOOSE q \in Path : saved[q] # {}])

\* zb_sessions_find_source: the first session of the source, which is the
\* oldest: sessions are appended, and tokens are numbered as they are handed
\* out. A buffered stdin has a new name in every run, so it never has one.
FindSource(p) == IF p = Stdin \/ saved[p] = {} THEN NoTok ELSE Lowest(saved[p])

\* zb_upload_engine_resolve_resume
ResolveResume ==
    /\ At("queue") /\ ~ArgsLeft
    /\ \E answers \in SUBSET DOMAIN run.jobs :
        /\ run.mode = "always" => answers = DOMAIN run.jobs
        /\ run.mode = "never" => answers = {}
        /\ run' = [run EXCEPT !.pc = "run",
                     !.jobs = [i \in DOMAIN run.jobs |->
                        [run.jobs[i] EXCEPT !.allowed =
                            i \in answers /\ FindSource(run.jobs[i].path) # NoTok]]]
    /\ ServerUnchanged /\ LocalUnchanged /\ StillRunning

-----------------------------------------------------------------------------
(* The jobs                                                                 *)

Job(i) == run.jobs[i]
JobBecomes(i, j) == run' = [run EXCEPT !.jobs[i] = j]
Working(i) == At("run") /\ Job(i).state \in {"queued", "status", "init", "sending", "completing"}
Finished == \A i \in DOMAIN run.jobs : Job(i).state \in {"done", "failed"}

Without(t) == [p \in DOMAIN saved |-> saved[p] \ {t}]

KickOff(i) ==
    /\ Working(i) /\ Job(i).state = "queued"
    /\ LET t == FindSource(Job(i).path)
       IN  JobBecomes(i, IF Job(i).allowed /\ t # NoTok
                         THEN [Job(i) EXCEPT !.state = "status", !.tok = t]
                         ELSE [Job(i) EXCEPT !.state = "init"])
    /\ ServerUnchanged /\ LocalUnchanged /\ StillRunning

\* upload_init: the collection has to be open. The session is saved before
\* the first chunk; without an answer the job fails and the session stays
\* behind.
InitServed(i) ==
    /\ Working(i) /\ Job(i).state = "init" /\ Unused # {}
    /\ run.bundle => coll[run.coll] = "open"
    /\ LET t == Lowest(Unused)
           p == Job(i).path
       IN  /\ up' = [up EXCEPT ![t] = [state |-> "open", path |-> p,
                                       coll |-> IF run.bundle THEN run.coll ELSE NoColl]]
           /\ \/ /\ saved' = [saved EXCEPT ![p] = @ \cup {t}]
                 /\ JobBecomes(i, [Job(i) EXCEPT !.state = "sending", !.tok = t])
              \/ /\ UNCHANGED saved
                 /\ JobBecomes(i, [Job(i) EXCEPT !.state = "failed"])
    /\ UNCHANGED <<coll, row, claimed, printed>> /\ StillRunning

\* The server still knows the session, and its collection: it says which
\* chunks it has. The client never compares the collection with its own. A
\* complete request that an earlier run sent ("asked") may be lost, or served
\* any time.
Open(t) == up[t].state \in {"open", "asked"}

StatusServed(i) ==
    /\ Working(i) /\ Job(i).state = "status" /\ Open(Job(i).tok)
    /\ JobBecomes(i, [Job(i) EXCEPT !.state = "sending"])
    /\ ServerUnchanged /\ LocalUnchanged /\ StillRunning

AskComplete(i) ==
    /\ Working(i) /\ Job(i).state = "sending" /\ Open(Job(i).tok)
    /\ up' = [up EXCEPT ![Job(i).tok].state = "asked"]
    /\ JobBecomes(i, [Job(i) EXCEPT !.state = "completing"])
    /\ UNCHANGED coll /\ LocalUnchanged /\ StillRunning

\* upload_complete: a sealed collection takes the file as well.
Publish(t) ==
    /\ up[t].state = "asked"
    /\ up' = [up EXCEPT ![t].state = "published"]
    /\ UNCHANGED <<coll, run>> /\ LocalUnchanged /\ StillRunning

\* Mutant: the uploads of a bundle and of single files are recorded alike,
\* neither of them.
JobDoneUnrecorded(i) ==
    /\ Working(i) /\ Job(i).state = "completing" /\ up[Job(i).tok].state = "published"
    /\ JobBecomes(i, [Job(i) EXCEPT !.state = "done"])
    /\ saved' = Without(Job(i).tok)
    /\ UNCHANGED <<coll, up, row, claimed, printed>> /\ StillRunning

\* job_succeed drops the session; on_upload_complete records the upload on
\* the shelf unless the collection stands for it.
JobDone(i) ==
    LET t == Job(i).tok
    IN  /\ Working(i) /\ Job(i).state = "completing" /\ up[t].state = "published"
        /\ JobBecomes(i, [Job(i) EXCEPT !.state = "done"])
        /\ saved' = Without(t)
        /\ \/ run.bundle /\ UNCHANGED <<claimed, printed>>
           \/ ~run.bundle /\ claimed' = claimed \cup {t} /\ UNCHANGED printed
           \/ /\ ~run.bundle /\ "unwritable" \in Faults
              /\ printed' = printed \cup {<<"upload", t>>} /\ UNCHANGED claimed
        /\ UNCHANGED <<row, coll, up>> /\ StillRunning

\* A job that fails keeps its session, unless the server answers that it has
\* none: it expired, or was published and taken down with that.
JobFails(i) ==
    /\ Working(i)
    /\ JobBecomes(i, [Job(i) EXCEPT !.state = "failed"])
    /\ \/ UNCHANGED saved
       \/ Job(i).tok # NoTok /\ ~Open(Job(i).tok) /\ saved' = Without(Job(i).tok)
    /\ ServerUnchanged /\ UNCHANGED <<row, claimed, printed>> /\ StillRunning

\* engine_abort after an error of the transfer loop: all other jobs fail.
LoopFails ==
    /\ At("run") /\ run.looped
    /\ run' = [run EXCEPT !.looped = FALSE,
                 !.jobs = [i \in DOMAIN run.jobs |->
                    IF Working(i) THEN [Job(i) EXCEPT !.state = "failed"] ELSE Job(i)]]
    /\ \E i \in DOMAIN run.jobs : Working(i)
    /\ ServerUnchanged /\ LocalUnchanged /\ StillRunning

\* Ctrl+C, also just after the last answer: sessions stay for --resume.
Interrupted ==
    /\ "interrupt" \in Faults /\ At("run")
    /\ Cleanup /\ Ended(130, TRUE)
    /\ ServerUnchanged /\ LocalUnchanged

-----------------------------------------------------------------------------
(* After the upload                                                         *)

AnyFailed == \E i \in DOMAIN run.jobs : Job(i).state = "failed"
AnyDone == \E i \in DOMAIN run.jobs : Job(i).state = "done"
Code == IF AnyFailed THEN 1 ELSE 0

\* Separate uploads end here, 1 if one failed or the result cannot be printed.
EndSeparate ==
    /\ At("run") /\ Finished /\ ~run.bundle
    /\ \E rc \in {Code, 1} : Quit(rc)
    /\ ServerUnchanged /\ LocalUnchanged

\* "no file made it into the bundle, so there is nothing to seal"
EndEmpty ==
    /\ At("run") /\ Finished /\ run.bundle /\ ~AnyDone
    /\ Quit(1)
    /\ ServerUnchanged /\ LocalUnchanged

\* Mutant: a file that has a session counts as uploaded.
EndBundleAnyway ==
    /\ At("run") /\ Finished /\ run.bundle /\ AnyDone
    /\ run' = [run EXCEPT !.pc = "seal", !.jobs = [i \in DOMAIN run.jobs |->
                 IF Job(i).tok # NoTok THEN [Job(i) EXCEPT !.state = "done"] ELSE Job(i)]]
    /\ ServerUnchanged /\ LocalUnchanged /\ StillRunning

EndBundle ==
    /\ At("run") /\ Finished /\ run.bundle /\ AnyDone
    /\ run' = [run EXCEPT !.pc = "seal"]
    /\ ServerUnchanged /\ LocalUnchanged /\ StillRunning

Members(c) == {t \in Tok : up[t].coll = c /\ up[t].state = "published"}

\* collection_complete: refused for a collection without files.
Seal ==
    LET c == run.coll
    IN  /\ At("seal") /\ coll[c] \in {"open", "sealed"} /\ Members(c) # {}
        /\ coll' = [coll EXCEPT ![c] = "sealed"]
        /\ \/ run' = [run EXCEPT !.pc = "sealed"] /\ StillRunning
           \/ RequestFails
        /\ UNCHANGED up /\ LocalUnchanged

SealFails ==
    /\ At("seal")
    /\ RequestFails
    /\ ServerUnchanged /\ LocalUnchanged

\* The row gets title, size and expiry; a delete token that the answer does
\* not repeat is taken from the first one.
RecordSealed ==
    /\ At("sealed")
    /\ RecordRow(run.coll, [state |-> "sealed", dtok |-> TRUE])
    /\ \E rc \in {Code, 1} : Quit(rc)
    /\ UNCHANGED <<saved, claimed>> /\ ServerUnchanged

-----------------------------------------------------------------------------

\* Nothing is cleaned up; a temporary file is left behind.
Crash ==
    /\ "crash" \in Faults /\ ~At("idle")
    /\ run' = NoRun
    /\ temp' = IF temp = "there" THEN "left" ELSE temp
    /\ Ended(-1, FALSE) /\ ServerUnchanged /\ LocalUnchanged

\* The server drops an idle session, or a collection with all its members.
SessionExpires(t) ==
    /\ "expiry" \in Faults /\ Open(t)
    /\ up' = [up EXCEPT ![t].state = "gone"]
    /\ UNCHANGED <<coll, run>> /\ LocalUnchanged /\ StillRunning

CollectionExpires(c) ==
    /\ "expiry" \in Faults /\ coll[c] \in {"open", "sealed"}
    /\ coll' = [coll EXCEPT ![c] = "gone"]
    /\ up' = [t \in Tok |-> IF t \in Members(c) THEN [up[t] EXCEPT !.state = "expired"] ELSE up[t]]
    /\ UNCHANGED run /\ LocalUnchanged /\ StillRunning

Next ==
    \/ \E bundle \in Bundles, mode \in Modes, args \in Args : Start(bundle, mode, args)
    \/ OpenFails \/ RecordOpen \/ Spool \/ SpoolDone \/ SpoolFails \/ SpoolInterrupted
    \/ Add \/ AddFails \/ ResolveResume
    \/ \E c \in Coll : coll[c] = "unused" /\ c = Lowest({d \in Coll : coll[d] = "unused"})
                       /\ OpenCollection(c)
    \/ \E i \in DOMAIN run.jobs :
         \/ KickOff(i) \/ InitServed(i) \/ StatusServed(i) \/ AskComplete(i)
         \/ JobDone(i) \/ JobFails(i)
    \/ LoopFails \/ Interrupted \/ EndSeparate \/ EndEmpty \/ EndBundle
    \/ Seal \/ SealFails \/ RecordSealed \/ Crash
    \/ \E t \in Tok : Publish(t) \/ SessionExpires(t)
    \/ \E c \in Coll : CollectionExpires(c)

Spec == Init /\ [][Next]_vars

-----------------------------------------------------------------------------
(* Properties                                                               *)

TypeOK ==
    /\ coll \in [Coll -> {"unused", "open", "sealed", "gone"}]
    /\ \A t \in Tok : up[t].state # "unused" => up[t].coll \in Coll \cup {NoColl}
    /\ row \in [Coll -> [state : {"absent", "open", "sealed"}, dtok : BOOLEAN]]
    /\ Len(run.jobs) <= Len(run.args)
    /\ \A i \in DOMAIN run.jobs :
        Job(i).state \in {"sending", "completing", "done"} =>
            Job(i).tok # NoTok /\ up[Job(i).tok].path = Job(i).path
    /\ run.bundle /\ ~At("open") => run.coll # NoColl

\* A member of a bundle can always be deleted: the delete token of its
\* collection is on the shelf or was printed, even if the run died halfway
\* (run_upload, "this one row is enough to clean up").
MembersClaimable ==
    \A t \in Tok : up[t].state = "published" /\ up[t].coll # NoColl =>
        row[up[t].coll].dtok \/ <<"collection", up[t].coll>> \in printed

\* "The temp file behind `upload -` never outlives the process" (job_free),
\* unless the process was killed: whichever of its three owners has it when
\* the run ends, spool_stdin, the command or a job, removes it.  And no two of
\* them do, except where zb_upload_engine_add frees its job and then refuses
\* the copy: the command removes the name once more.
TempGone ==
    [][/\ run'.pc = "idle" => temp' # "there"
       /\ temp' = "twice" => temp = "twice" \/ At("spooled")]_vars

Ends(rc) == ~At("idle") /\ run'.pc = "idle" /\ last'.rc = rc
Landed(p, c) == \E t \in Tok : up'[t].path = p /\ up'[t].coll = c /\ up'[t].state \in {"published", "expired"}

Elsewhere(p, c) == \E d \in (Coll \cup {NoColl}) \ {c} : Landed(p, d)

\* A bundle that reports success is sealed and holds every file it was given;
\* one that --resume continued is published where it was started.
WholeBundle ==
    [][Ends(0) /\ run.bundle =>
        /\ coll'[run.coll] \in {"sealed", "gone"}
        /\ \A i \in DOMAIN run.args :
             \/ Landed(run.args[i], run.coll)
             \/ Job(i).allowed /\ Elsewhere(run.args[i], run.coll)]_vars

\* "With --bundle they all end up behind one collection link" (zb_help_upload).
OneLink ==
    [][Ends(0) /\ run.bundle => \A i \in DOMAIN run.args : Landed(run.args[i], run.coll)]_vars

\* Separate uploads that report success are each on the shelf, or their
\* delete token was printed ("Every completed upload is written to the local
\* shelf immediately, delete token included"): the very upload that the job
\* of this run made or resumed.
SeparateClaimable ==
    [][Ends(0) /\ ~run.bundle =>
        \A i \in DOMAIN run.args : i \in DOMAIN run.jobs /\
            LET t == Job(i).tok
            IN  /\ t \in Tok
                /\ up[t].path = run.args[i] /\ up[t].state \in {"published", "expired"}
                /\ t \in claimed \/ <<"upload", t>> \in printed]_vars

\* "`0` success, `1` a handled error, `2` a usage error, `130` interrupted"
\* (README): a command that Ctrl+C ends exits with 130.
InterruptedExit == last.interrupted => last.rc = 130
=============================================================================
