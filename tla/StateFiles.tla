----------------------------- MODULE StateFiles -----------------------------
(***************************************************************************)
(* The two state files, shelf.json and sessions.json, and the commands     *)
(* that load, change and save them: upload, ls, rm, shelf import and shelf *)
(* export.  Commands are processes of their own without a lock, and ls, rm *)
(* and upload wait for the network between loading and saving.             *)
(*                                                                         *)
(* A file is its state and its rows, a row is the token of an upload with  *)
(* its delete token.  A malformed file still has its rows in it: nobody    *)
(* but its owner can read them.  A save replaces the file in one step,     *)
(* which is what AtomicWrite is shown to do.                               *)
(***************************************************************************)
EXTENDS Integers, FiniteSets

CONSTANTS
    Proc,       \* processes
    Token,      \* uploads the service may create
    NoToken,    \* no upload
    Batch,      \* tokens per exists request (500 in the program)
    Commands,   \* subset of {"upload", "ls", "rm", "import", "export"}
    Faults      \* subset of {"network", "crash", "unwritable", "garble",
                \*   "unreadable", "expire", "unusable"}

ASSUME BatchAssumption == Batch \in Nat \ {0}
ASSUME NoTokenAssumption == NoToken \notin Token

VARIABLES
    shelf,      \* shelf.json
    sessions,   \* sessions.json
    backup,     \* the file that shelf export writes
    readable,   \* can the files be opened for reading
    srv,        \* the service: "unused", "open", "file" or "gone"
    proc,       \* where each process is, and what it has loaded
    known,      \* history: uploads whose row was saved
    printed,    \* delete tokens printed because the row was not saved
    claimed     \* uploads that rm said are gone, on the service's own answer

vars == <<shelf, sessions, backup, readable, srv, proc, known, printed, claimed>>

Missing == [state |-> "absent", rows |-> {}]
Saved(rows) == [state |-> "ok", rows |-> rows]

Idle == [pc |-> "idle", tok |-> NoToken, sess |-> {}, seen |-> {}, met |-> "read",
         copy |-> {}, todo |-> {}, alive |-> {}, loaded |-> FALSE, right |-> FALSE,
         misled |-> FALSE]

Init ==
    /\ shelf = Missing /\ sessions = Missing /\ backup = Missing
    /\ readable = TRUE
    /\ srv = [t \in Token |-> "unused"]
    /\ proc = [p \in Proc |-> Idle]
    /\ known = {} /\ printed = {} /\ claimed = {}

\* zb_read_file: a file that cannot be opened counts as absent.
Opens(f) == readable /\ f.state # "absent"

\* Mutant: a file that cannot be parsed counts as empty.
NeverFails(f) == FALSE

\* zb_shelf_load, zb_sessions_load: malformed or of an unknown version.
LoadFails(f) == Opens(f) /\ f.state = "broken"

\* Mutant: an entry without a token is loaded too.
RowsUnchecked(f) == IF Opens(f) THEN f.rows \cup {NoToken} ELSE {}

Rows(f) == IF Opens(f) THEN f.rows ELSE {}

\* What a load met: the file or its absence, a file that it could not open and
\* took for a missing one, or one that it could not parse.
Met(f) == IF LoadFails(f) THEN "malformed"
          ELSE IF Opens(f) \/ f.state = "absent" THEN "read" ELSE "unopened"

\* What a save may leave: the new file, or the old one when it fails.
Written(f, rows) ==
    {Saved(rows)} \cup (IF "unwritable" \in Faults THEN {f} ELSE {})

At(p, pc) == proc[p].pc = pc
Ends(p) == proc' = [proc EXCEPT ![p] = Idle]
Continues(p, next) == proc' = [proc EXCEPT ![p] = next]

-----------------------------------------------------------------------------
(* upload: the engine's writes to sessions.json, then zb_shelf_record       *)

\* engine_new ignores that sessions.json could not be parsed.
UploadStart(p) ==
    /\ "upload" \in Commands /\ At(p, "idle")
    /\ LET sess == IF LoadFails(sessions) THEN {} ELSE Rows(sessions)
       IN  \E t \in sess \cup {NoToken} :
            Continues(p, [Idle EXCEPT !.sess = sess, !.seen = sess, !.tok = t,
                !.met = Met(sessions),
                !.pc = IF t = NoToken THEN "queued" ELSE "asking status"])
    /\ UNCHANGED <<shelf, sessions, backup, readable, srv, known, printed, claimed>>

\* The engine writes its whole table; a failure is not reported.
SaveSessions(p, sess) ==
    /\ sessions' \in Written(sessions, sess)
    /\ Continues(p, [proc[p] EXCEPT !.sess = sess, !.pc = "sending"])

InitAnswered(p, t) ==
    /\ At(p, "queued") /\ srv[t] = "unused"
    /\ srv' = [srv EXCEPT ![t] = "open"]
    /\ sessions' \in Written(sessions, proc[p].sess \cup {t})
    /\ Continues(p, [proc[p] EXCEPT !.sess = @ \cup {t}, !.pc = "sending", !.tok = t])
    /\ UNCHANGED <<shelf, backup, readable, known, printed, claimed>>

\* A resumed session: the status answer revives or buries it.
StatusAnswered(p) ==
    /\ At(p, "asking status")
    /\ IF srv[proc[p].tok] = "open"
       THEN SaveSessions(p, proc[p].sess)
       ELSE /\ sessions' \in Written(sessions, proc[p].sess \ {proc[p].tok})
            /\ Ends(p)
    /\ UNCHANGED <<shelf, backup, readable, srv, known, printed, claimed>>

\* Mutant: a chunk is recorded in a table that holds this upload only.
ChunkAlone(p) ==
    /\ At(p, "sending") /\ srv[proc[p].tok] = "open"
    /\ SaveSessions(p, {proc[p].tok})
    /\ UNCHANGED <<shelf, backup, readable, srv, known, printed, claimed>>

ChunkConfirmed(p) ==
    /\ At(p, "sending") /\ srv[proc[p].tok] = "open"
    /\ SaveSessions(p, proc[p].sess \cup {proc[p].tok})
    /\ UNCHANGED <<shelf, backup, readable, srv, known, printed, claimed>>

\* job_succeed: the session is dropped, then the callback records the row;
\* the process has no more use for its session table.
CompleteAnswered(p) ==
    /\ At(p, "sending") /\ srv[proc[p].tok] = "open"
    /\ srv' = [srv EXCEPT ![proc[p].tok] = "file"]
    /\ sessions' \in Written(sessions, proc[p].sess \ {proc[p].tok})
    /\ Continues(p, [Idle EXCEPT !.pc = "recording", !.tok = proc[p].tok])
    /\ UNCHANGED <<shelf, backup, readable, known, printed, claimed>>

\* zb_shelf_record, up to the load and the upsert.
RecordLoad(p) ==
    /\ At(p, "recording")
    /\ IF LoadFails(shelf)
       THEN Ends(p) /\ printed' = printed \cup {proc[p].tok}
       ELSE /\ Continues(p, [proc[p] EXCEPT !.pc = "saving", !.seen = Rows(shelf),
                                            !.met = Met(shelf),
                                            !.copy = Rows(shelf) \cup {proc[p].tok}])
            /\ UNCHANGED printed
    /\ UNCHANGED <<shelf, sessions, backup, readable, srv, known, claimed>>

\* zb_shelf_save; the caller prints the delete token when it fails.
RecordSave(p) ==
    /\ At(p, "saving")
    /\ shelf' \in Written(shelf, proc[p].copy)
    /\ IF shelf' = Saved(proc[p].copy)
       THEN known' = known \cup {proc[p].tok} /\ UNCHANGED printed
       ELSE printed' = printed \cup {proc[p].tok} /\ UNCHANGED known
    /\ Ends(p)
    /\ UNCHANGED <<sessions, backup, readable, srv, claimed>>

-----------------------------------------------------------------------------
(* ls: zb_cmd_ls, prune_shelf, zb_meta_exists                               *)

LsLoad(p) ==
    /\ "ls" \in Commands /\ At(p, "idle")
    /\ ~LoadFails(shelf) /\ Rows(shelf) # {}
    /\ Continues(p, [Idle EXCEPT !.pc = "asking", !.seen = Rows(shelf),
                                 !.met = Met(shelf), !.copy = Rows(shelf), !.todo = Rows(shelf)])
    /\ UNCHANGED <<shelf, sessions, backup, readable, srv, known, printed, claimed>>

\* The next batch: in row order, which the model leaves open.
NextBatch(p) ==
    {b \in SUBSET proc[p].todo :
        Cardinality(b) = IF Cardinality(proc[p].todo) < Batch
                         THEN Cardinality(proc[p].todo) ELSE Batch}

Asked(p, batch, alive, misled) ==
    Continues(p, [proc[p] EXCEPT
        !.todo = @ \ batch, !.alive = @ \cup alive, !.misled = @ \/ misled,
        !.pc = IF proc[p].todo = batch THEN "pruning" ELSE "asking"])

\* uploads_exists answers for the batch.  A 2xx answer without the list (from
\* a portal or a proxy) passes for one that names no upload.
LsAsk(p) ==
    /\ At(p, "asking")
    /\ \E b \in NextBatch(p) :
        \/ Asked(p, b, {t \in b : srv[t] = "file"}, FALSE)
        \/ "unusable" \in Faults /\ Asked(p, b, {}, TRUE)
    /\ UNCHANGED <<shelf, sessions, backup, readable, srv, known, printed, claimed>>

\* Mutant: a batch that fails ends the asking, the answers so far are used.
LsGivesUpPartly(p) ==
    /\ "network" \in Faults /\ At(p, "asking")
    /\ Asked(p, proc[p].todo, {}, FALSE)
    /\ UNCHANGED <<shelf, sessions, backup, readable, srv, known, printed, claimed>>

\* One batch fails and the whole answer is thrown away.
LsGivesUp(p) ==
    /\ "network" \in Faults /\ At(p, "asking")
    /\ Ends(p)
    /\ UNCHANGED <<shelf, sessions, backup, readable, srv, known, printed, claimed>>

\* The pruned shelf is written once, and only if it lost a row.
LsSave(p) ==
    /\ At(p, "pruning")
    /\ IF proc[p].copy \subseteq proc[p].alive THEN UNCHANGED shelf
       ELSE shelf' \in Written(shelf, proc[p].copy \cap proc[p].alive)
    /\ Ends(p)
    /\ UNCHANGED <<sessions, backup, readable, srv, known, printed, claimed>>

-----------------------------------------------------------------------------
(* rm: zb_cmd_rm and the server's DELETE                                    *)

\* Links exist once an upload is published.  `given` is --delete-token.
RmLoad(p, t, given) ==
    /\ "rm" \in Commands /\ At(p, "idle")
    /\ srv[t] \in {"file", "gone"}
    /\ given = "none" => ~LoadFails(shelf) /\ t \in Rows(shelf)
    /\ LET rows == IF LoadFails(shelf) THEN {} ELSE Rows(shelf)
       IN  Continues(p, [Idle EXCEPT !.pc = "deleting", !.tok = t,
                !.seen = rows, !.met = Met(shelf), !.copy = rows, !.loaded = ~LoadFails(shelf),
                !.right = given # "wrong"])
    /\ UNCHANGED <<shelf, sessions, backup, readable, srv, known, printed, claimed>>

\* Mutant: a refused delete token drops the row, as 404 does.
RmRefusedDrops(p) ==
    LET t == proc[p].tok
        deleted == srv[t] = "file" /\ proc[p].right
    IN  /\ At(p, "deleting")
        /\ srv' = IF deleted THEN [srv EXCEPT ![t] = "gone"] ELSE srv
        /\ \/ proc' = [proc EXCEPT ![p].pc = "removing"]
           \/ "network" \in Faults /\ Ends(p)
        /\ UNCHANGED <<shelf, sessions, backup, readable, known, printed, claimed>>

\* 204 and 404 lead to the removal of the row; 403, an error or no answer
\* keep it.  The answer may be lost after the server has deleted.
RmAnswered(p) ==
    LET t == proc[p].tok
        deleted == srv[t] = "file" /\ proc[p].right
    IN  /\ At(p, "deleting")
        /\ srv' = IF deleted THEN [srv EXCEPT ![t] = "gone"] ELSE srv
        /\ \/ (deleted \/ srv[t] = "gone") /\ proc' = [proc EXCEPT ![p].pc = "removing"]
           \/ srv[t] = "file" /\ ~proc[p].right /\ Ends(p)
           \/ /\ "unusable" \in Faults /\ ~deleted
              /\ proc' = [proc EXCEPT ![p].pc = "removing", ![p].misled = TRUE]
           \/ "network" \in Faults /\ Ends(p)
        /\ UNCHANGED <<shelf, sessions, backup, readable, known, printed, claimed>>

\* A failure to save is only a warning.
RmSave(p) ==
    LET t == proc[p].tok
    IN  /\ At(p, "removing")
        /\ IF proc[p].loaded /\ t \in proc[p].copy
           THEN shelf' \in Written(shelf, proc[p].copy \ {t})
           ELSE UNCHANGED shelf
        /\ claimed' = IF proc[p].misled THEN claimed ELSE claimed \cup {t}
        /\ Ends(p)
        /\ UNCHANGED <<sessions, backup, readable, srv, known, printed>>

-----------------------------------------------------------------------------
(* shelf import and shelf export                                            *)

ImportLoad(p) ==
    /\ "import" \in Commands /\ At(p, "idle")
    /\ Opens(backup) /\ ~LoadFails(backup) /\ backup.rows # {}
    /\ ~LoadFails(shelf)
    /\ Continues(p, [Idle EXCEPT !.pc = "importing", !.seen = Rows(shelf),
                                 !.met = Met(shelf), !.copy = Rows(shelf) \cup backup.rows])
    /\ UNCHANGED <<shelf, sessions, backup, readable, srv, known, printed, claimed>>

ImportSave(p) ==
    /\ At(p, "importing")
    /\ shelf' \in Written(shelf, proc[p].copy)
    /\ Ends(p)
    /\ UNCHANGED <<sessions, backup, readable, srv, known, printed, claimed>>

ExportLoad(p) ==
    /\ "export" \in Commands /\ At(p, "idle")
    /\ ~LoadFails(shelf) /\ Rows(shelf) # {}
    /\ Continues(p, [Idle EXCEPT !.pc = "exporting", !.seen = Rows(shelf),
                                 !.met = Met(shelf)])
    /\ UNCHANGED <<shelf, sessions, backup, readable, srv, known, printed, claimed>>

\* The file is read a second time and copied verbatim.
ExportSave(p) ==
    /\ At(p, "exporting")
    /\ IF Opens(shelf)
       THEN backup' \in {shelf} \cup (IF "unwritable" \in Faults THEN {backup} ELSE {})
       ELSE UNCHANGED backup
    /\ Ends(p)
    /\ UNCHANGED <<shelf, sessions, readable, srv, known, printed, claimed>>

-----------------------------------------------------------------------------
(* The outside world                                                        *)

\* An upload that gave up or was interrupted, a question answered no.
Quit(p) ==
    /\ proc[p].pc \in {"queued", "asking status", "sending", "deleting"}
    /\ Ends(p)
    /\ UNCHANGED <<shelf, sessions, backup, readable, srv, known, printed, claimed>>

Crash(p) ==
    /\ "crash" \in Faults /\ ~At(p, "idle")
    /\ Ends(p)
    /\ UNCHANGED <<shelf, sessions, backup, readable, srv, known, printed, claimed>>

\* A file or an idle session reaches the end of its life.
Expire(t) ==
    /\ "expire" \in Faults /\ srv[t] \in {"open", "file"}
    /\ srv' = [srv EXCEPT ![t] = "gone"]
    /\ UNCHANGED <<shelf, sessions, backup, readable, proc, known, printed, claimed>>

\* The owner edits a file by hand while no command runs, and repairs it.
Garble ==
    /\ "garble" \in Faults /\ \A p \in Proc : At(p, "idle")
    /\ \/ /\ shelf.state # "absent"
          /\ shelf' \in {[shelf EXCEPT !.state = s] : s \in {"ok", "broken"}}
          /\ UNCHANGED sessions
       \/ /\ sessions.state # "absent"
          /\ sessions' \in {[sessions EXCEPT !.state = s] : s \in {"ok", "broken"}}
          /\ UNCHANGED shelf
    /\ UNCHANGED <<backup, readable, srv, proc, known, printed, claimed>>

\* No permission, or no file descriptor left, for a while.
Unreadable ==
    /\ "unreadable" \in Faults
    /\ readable' = ~readable
    /\ UNCHANGED <<shelf, sessions, backup, srv, proc, known, printed, claimed>>

Upload(p) ==
    \/ UploadStart(p) \/ \E t \in Token : InitAnswered(p, t)
    \/ StatusAnswered(p) \/ ChunkConfirmed(p) \/ CompleteAnswered(p)
    \/ RecordLoad(p) \/ RecordSave(p)

List(p) == LsLoad(p) \/ LsAsk(p) \/ LsGivesUp(p) \/ LsSave(p)

Delete(p) ==
    \/ \E t \in Token, given \in {"none", "right", "wrong"} : RmLoad(p, t, given)
    \/ RmAnswered(p) \/ RmSave(p)

Shelf(p) == ImportLoad(p) \/ ImportSave(p) \/ ExportLoad(p) \/ ExportSave(p)

Next ==
    \/ \E p \in Proc : \/ Upload(p) \/ List(p) \/ Delete(p) \/ Shelf(p)
                       \/ Quit(p) \/ Crash(p)
    \/ \E t \in Token : Expire(t)
    \/ Garble \/ Unreadable

Spec == Init /\ [][Next]_vars

-----------------------------------------------------------------------------
(* Properties                                                               *)

FileState == [state : {"absent", "ok", "broken"}, rows : SUBSET Token]

\* Types; a process holds what it has loaded only while it runs.
TypeOK ==
    /\ {shelf, sessions, backup} \subseteq FileState
    /\ readable \in BOOLEAN
    /\ srv \in [Token -> {"unused", "open", "file", "gone"}]
    /\ proc \in [Proc ->
         [pc : {"idle", "queued", "asking status", "sending", "recording", "saving",
                "asking", "pruning", "deleting", "removing", "importing", "exporting"},
          tok : Token \cup {NoToken}, sess : SUBSET Token, seen : SUBSET Token,
          met : {"read", "unopened", "malformed"}, copy : SUBSET Token, todo : SUBSET Token, alive : SUBSET Token,
          loaded : BOOLEAN, right : BOOLEAN, misled : BOOLEAN]]
    /\ known \subseteq Token /\ printed \subseteq Token /\ claimed \subseteq Token

\* One command at a time: as long as an upload is on the server, no prune,
\* delete, import, crash or failed write loses its delete token (shelf.h).
LiveRowsKept == \A t \in known : srv[t] = "file" => t \in shelf.rows

\* A shelf that cannot be parsed is overwritten only by a command that could
\* not even open it and took it for a missing one: its owner finds the rows in
\* it otherwise (zb_shelf_load, "never a silent reset").
MalformedShelfKept ==
    [][shelf.state = "broken" /\ shelf'.rows # shelf.rows =>
        \E p \in Proc : proc'[p] # proc[p] /\ proc[p].met = "unopened"]_vars

\* What rm reports as deleted or already gone on the service's own answer is
\* gone, whatever was lost, repeated or changed on the way.
ClaimedGone == \A t \in claimed : srv[t] = "gone"

\* Why the row of an upload that is on the server can be lost to a save: the
\* process read the shelf before the row was in it, or could not open the
\* shelf and took it for a missing one (no other process is needed for that),
\* or was given a 2xx answer that is not the service's.
LossCause(p, t) ==
    \/ proc[p].met = "read" /\ t \notin proc[p].seen
    \/ proc[p].met = "unopened"
    \/ proc[p].misled

\* Commands side by side: such a row leaves the shelf for these causes only,
\* never for a crash, a failed write, a lost or refused answer, or a prune or
\* a delete that had seen it.
RowLossHasCause ==
    [][\A t \in shelf.rows \ shelf'.rows : srv[t] = "file" =>
        \E p \in Proc : proc'[p] # proc[p] /\ LossCause(p, t)]_vars

\* An upload in progress leaves sessions.json only by the save of an upload
\* that had read the file before the session was in it, or that could not open
\* or not parse the file and went on with an empty table: engine_new ignores
\* the error, against sessions.h's "a malformed file is reported rather than
\* overwritten" (MalformedSessionsKept, which the code does not have).
SessionLossHasCause ==
    [][\A t \in sessions.rows \ sessions'.rows : srv'[t] = "open" =>
        \E p \in Proc :
            /\ ~At(p, "idle")
            /\ proc[p].met = "read" => t \notin proc[p].seen
            /\ sessions'.rows \subseteq proc[p].sess \cup proc'[p].sess]_vars

\* ls: "anything that has expired or been deleted is dropped ... a failed
\* network call is not evidence that anything expired" (ls.c).
PruneDropsOnlyDead ==
    [][\A p \in Proc : At(p, "pruning") /\ proc'[p] # proc[p] =>
        \A t \in shelf.rows \ shelf'.rows : srv[t] = "gone"]_vars

\* Recording an upload is "load, upsert, save": it loses no row (shelf.h).
RecordAdds ==
    [][\A p \in Proc : At(p, "saving") /\ proc'[p] # proc[p] =>
        shelf.rows \subseteq shelf'.rows]_vars

\* "A malformed file is reported rather than overwritten" (sessions.h).
MalformedSessionsKept ==
    [][sessions.state = "broken" => sessions'.rows = sessions.rows]_vars
=============================================================================
