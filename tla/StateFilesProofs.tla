-------------------------- MODULE StateFilesProofs --------------------------
(***************************************************************************)
(* Theorems about StateFiles for any number of processes, uploads and any  *)
(* batch size.  With every fault and any number of processes: what rm says *)
(* it deleted is gone, a live row is lost only to a process that had not   *)
(* read it, could not open the shelf or was misled, a shelf that cannot be *)
(* parsed stays, and a session in progress is lost only to a process that  *)
(* had not read it or could not.  One command at a time, with readable     *)
(* files and usable answers, no live row is lost at all.                   *)
(***************************************************************************)
EXTENDS StateFiles, TLAPS

Published == {t \in Token : srv[t] \in {"file", "gone"}}

\* Rows are only ever written for published uploads, so a row that is not
\* live will not become live again.
RowsPublished ==
    /\ shelf.rows \subseteq Published /\ backup.rows \subseteq Published
    /\ \A p \in Proc :
        /\ proc[p].pc \in {"saving", "asking", "pruning", "deleting", "removing", "importing"} =>
             proc[p].copy \subseteq Published
        /\ proc[p].pc \in {"recording", "saving", "deleting", "removing"} =>
             proc[p].tok \in Published

\* A process that talks to the service about an upload has one.
HasUpload == \A p \in Proc :
    proc[p].pc \in {"asking status", "sending", "recording", "saving", "deleting", "removing"} =>
        proc[p].tok \in Token

\* What each command is about to save, compared with what it has loaded.
CopyFaithful == \A p \in Proc :
    /\ proc[p].pc \in {"saving", "importing"} => proc[p].seen \subseteq proc[p].copy
    /\ proc[p].pc \in {"asking", "pruning", "deleting", "removing"} =>
         proc[p].copy = proc[p].seen
    /\ proc[p].pc \in {"asking", "pruning"} /\ ~proc[p].misled =>
         \A t \in proc[p].copy : srv[t] = "file" => t \in proc[p].todo \cup proc[p].alive
    /\ proc[p].pc = "pruning" => proc[p].todo = {}
    /\ proc[p].pc = "removing" /\ ~proc[p].misled => srv[proc[p].tok] = "gone"

Inv == TypeOK /\ HasUpload /\ RowsPublished /\ CopyFaithful /\ ClaimedGone

\* The service only moves forward.
Forward == \A t \in Token :
    /\ srv[t] = "gone" => srv'[t] = "gone"
    /\ srv'[t] = "file" => srv[t] \in {"open", "file"}
    /\ srv[t] = "file" => srv'[t] \in {"file", "gone"}

LEMMA InitInv == Init => Inv
<1> SUFFICES ASSUME Init PROVE Inv
  OBVIOUS
<1>1. \A p \in Proc : proc[p].pc = "idle"
  BY DEF Init, Idle
<1>2. TypeOK
  BY DEF Init, TypeOK, Idle, Missing, FileState
<1>3. HasUpload /\ RowsPublished /\ CopyFaithful /\ ClaimedGone
  BY <1>1 DEF Init, HasUpload, RowsPublished, CopyFaithful, ClaimedGone, Missing
<1> QED BY <1>2, <1>3 DEF Inv

LEMMA StepForward == ASSUME TypeOK, [Next]_vars PROVE Forward
<1>1. CASE UNCHANGED srv
  BY <1>1 DEF TypeOK, Forward
<1>2. ASSUME NEW p \in Proc, NEW t \in Token, InitAnswered(p, t) PROVE Forward
  BY <1>2 DEF InitAnswered, TypeOK, Forward
<1>3. ASSUME NEW p \in Proc, CompleteAnswered(p) PROVE Forward
  BY <1>3 DEF CompleteAnswered, TypeOK, Forward
<1>4. ASSUME NEW p \in Proc, RmAnswered(p) PROVE Forward
  BY <1>4 DEF RmAnswered, TypeOK, Forward
<1>5. ASSUME NEW t \in Token, Expire(t) PROVE Forward
  BY <1>5 DEF Expire, TypeOK, Forward
<1>6. ASSUME NEW p \in Proc,
             \/ UploadStart(p) \/ StatusAnswered(p) \/ ChunkConfirmed(p)
             \/ RecordLoad(p) \/ RecordSave(p)
             \/ LsLoad(p) \/ LsAsk(p) \/ LsGivesUp(p) \/ LsSave(p) \/ RmSave(p)
             \/ ImportLoad(p) \/ ImportSave(p) \/ ExportLoad(p) \/ ExportSave(p)
             \/ Quit(p) \/ Crash(p)
      PROVE UNCHANGED srv
  BY <1>6 DEF UploadStart, StatusAnswered, ChunkConfirmed, RecordLoad, RecordSave, LsLoad,
     LsAsk, LsGivesUp, LsSave, RmSave, ImportLoad, ImportSave, ExportLoad, ExportSave,
     Quit, Crash
<1>7. ASSUME NEW p \in Proc, NEW t \in Token, NEW given \in {"none", "right", "wrong"},
             RmLoad(p, t, given)
      PROVE UNCHANGED srv
  BY <1>7 DEF RmLoad
<1>8. ASSUME Garble \/ Unreadable PROVE UNCHANGED srv
  BY <1>8 DEF Garble, Unreadable
<1>9. ASSUME NEW p \in Proc, Upload(p) \/ List(p) \/ Delete(p) \/ Shelf(p) \/ Quit(p) \/ Crash(p)
      PROVE Forward
  BY <1>1, <1>2, <1>3, <1>4, <1>6, <1>7, <1>9 DEF Upload, List, Delete, Shelf
<1> QED BY <1>1, <1>5, <1>8, <1>9 DEF Next, vars

Others(p) == \A q \in Proc : q # p => proc'[q] = proc[q]

\* A step that continues process p changes it alone, to what it says.
LEMMA Continued ==
    ASSUME TypeOK, NEW p \in Proc, NEW r, Continues(p, r)
    PROVE  Others(p) /\ proc'[p] = r
BY DEF TypeOK, Continues, Others

\* The record of a process.
PcSet == {"idle", "queued", "asking status", "sending", "recording", "saving",
          "asking", "pruning", "deleting", "removing", "importing", "exporting"}

Records == [pc : PcSet, tok : Token \cup {NoToken}, sess : SUBSET Token,
            seen : SUBSET Token, met : {"read", "unopened", "malformed"},
            copy : SUBSET Token, todo : SUBSET Token,
            alive : SUBSET Token, loaded : BOOLEAN, right : BOOLEAN, misled : BOOLEAN]

LEMMA ProcRecord == ASSUME TypeOK, NEW p \in Proc PROVE proc[p] \in Records
BY DEF TypeOK, Records, PcSet

\* The invariant speaks of one process at a time: a step that takes one
\* process to a faithful record, and the files to published rows, keeps it.
LEMMA OneProcess ==
    ASSUME Inv, NEW p \in Proc,
           Forward, srv' \in [Token -> {"unused", "open", "file", "gone"}],
           Others(p),
           shelf'.rows \subseteq Published \/ shelf'.rows = shelf.rows,
           backup'.rows \subseteq Published,
           NEW r, r = proc'[p],
           r.pc \in {"saving", "asking", "pruning", "deleting", "removing", "importing"} =>
             r.copy \subseteq Published,
           r.pc \in {"recording", "saving", "deleting", "removing"} =>
             r.tok \in Published \cup Published',
           r.pc \in {"saving", "importing"} => r.seen \subseteq r.copy,
           r.pc \in {"asking", "pruning", "deleting", "removing"} => r.copy = r.seen,
           r.pc \in {"asking", "pruning"} /\ ~r.misled =>
             \A t \in r.copy : srv[t] = "file" => t \in r.todo \cup r.alive,
           r.pc = "pruning" => r.todo = {},
           r.pc = "removing" /\ ~r.misled => srv'[r.tok] = "gone",
           r.pc \in {"asking status", "sending"} => r.tok \in Token
    PROVE  HasUpload' /\ RowsPublished' /\ CopyFaithful'
<1> USE DEF Inv
<1>1. Published \subseteq Published'
  BY DEF Published, Forward, TypeOK
<1>2. \A t \in Published : srv'[t] = "file" => srv[t] = "file"
  BY DEF Published, Forward
<1>3. \A q \in Proc : q # p => proc'[q] = proc[q]
  BY DEF Others
<1>4. proc'[p] = r
  OBVIOUS
<1>5. RowsPublished'
  <2>1. shelf'.rows \subseteq Published' /\ backup'.rows \subseteq Published'
    BY <1>1 DEF RowsPublished
  <2>2. ASSUME NEW q \in Proc
        PROVE /\ proc'[q].pc \in {"saving", "asking", "pruning", "deleting", "removing", "importing"} =>
                   proc'[q].copy \subseteq Published'
              /\ proc'[q].pc \in {"recording", "saving", "deleting", "removing"} =>
                   proc'[q].tok \in Published'
    <3>1. CASE q = p
      BY <1>1, <1>4, <3>1
    <3>2. CASE q # p
      BY <1>1, <1>3, <3>2 DEF RowsPublished
    <3> QED BY <3>1, <3>2
  <2> QED BY <2>1, <2>2 DEF RowsPublished
<1>6. CopyFaithful'
  <2> SUFFICES ASSUME NEW q \in Proc
      PROVE /\ proc'[q].pc \in {"saving", "importing"} => proc'[q].seen \subseteq proc'[q].copy
            /\ proc'[q].pc \in {"asking", "pruning", "deleting", "removing"} =>
                 proc'[q].copy = proc'[q].seen
            /\ proc'[q].pc \in {"asking", "pruning"} /\ ~proc'[q].misled =>
                 \A t \in proc'[q].copy : srv'[t] = "file" =>
                     t \in proc'[q].todo \cup proc'[q].alive
            /\ proc'[q].pc = "pruning" => proc'[q].todo = {}
            /\ proc'[q].pc = "removing" /\ ~proc'[q].misled => srv'[proc'[q].tok] = "gone"
    BY DEF CopyFaithful
  <2>1. CASE q = p
    BY <1>2, <1>4, <2>1
  <2>2. CASE q # p
    <3>1. proc'[q] = proc[q]
      BY <1>3, <2>2
    <3>2. proc[q].pc \in {"asking", "pruning"} => proc[q].copy \subseteq Published
      BY DEF RowsPublished
    <3>3. proc[q].pc = "removing" /\ ~proc[q].misled => srv'[proc[q].tok] = "gone"
      BY DEF RowsPublished, CopyFaithful, Forward, Published
    <3> QED BY <1>2, <3>1, <3>2, <3>3 DEF CopyFaithful
  <2> QED BY <2>1, <2>2
<1>7. HasUpload'
  BY <1>3, <1>4 DEF HasUpload, Published
<1> QED BY <1>5, <1>6, <1>7

\* Whatever leaves the service, the files and the process as they are, or
\* ends the process, is faithful.
LEMMA Ended ==
    ASSUME Inv, NEW p \in Proc, Ends(p), Forward,
           srv' \in [Token -> {"unused", "open", "file", "gone"}],
           shelf'.rows \subseteq Published \/ shelf'.rows = shelf.rows,
           backup'.rows \subseteq Published
    PROVE  HasUpload' /\ RowsPublished' /\ CopyFaithful'
<1>1. Others(p) /\ proc'[p].pc = "idle"
  BY DEF Inv, TypeOK, Others, Ends, Idle
<1> QED BY <1>1, OneProcess

LEMMA RowsOfPublished == ASSUME Inv PROVE Rows(shelf) \subseteq Published
  BY DEF Inv, RowsPublished, Rows

LEMMA UploadInv == ASSUME Inv, NEW p \in Proc, Upload(p), Forward,
                          srv' \in [Token -> {"unused", "open", "file", "gone"}]
                   PROVE HasUpload' /\ RowsPublished' /\ CopyFaithful'
<1> USE DEF Inv
<1>a. shelf.rows \subseteq Published /\ backup.rows \subseteq Published
  BY DEF RowsPublished
<1>1. CASE UploadStart(p)
  <2>1. UNCHANGED <<shelf, backup, srv>>
    BY <1>1 DEF UploadStart
  <2>2. /\ Others(p) /\ proc'[p].pc \in {"queued", "asking status"}
        /\ proc'[p].pc = "asking status" => proc'[p].tok \in Token
    <3>1. PICK sess \in SUBSET Token, t \in Token \cup {NoToken} :
            Continues(p, [Idle EXCEPT !.sess = sess, !.seen = sess, !.tok = t,
                !.met = Met(sessions),
                !.pc = IF t = NoToken THEN "queued" ELSE "asking status"])
      <4>1. (IF LoadFails(sessions) THEN {} ELSE Rows(sessions)) \in SUBSET Token
        BY DEF TypeOK, FileState, Rows
      <4> QED BY <1>1, <4>1 DEF UploadStart
    <3>2. /\ Others(p) /\ proc'[p].tok = t
          /\ proc'[p].pc = (IF t = NoToken THEN "queued" ELSE "asking status")
      BY <3>1 DEF Continues, Idle, TypeOK, Others
    <3> QED BY <3>2
  <2> QED BY <1>a, <2>1, <2>2, OneProcess
<1>2. CASE \E t \in Token : InitAnswered(p, t)
  <2>1. PICK t \in Token : InitAnswered(p, t)
    BY <1>2
  <2>2. UNCHANGED <<shelf, backup>>
        /\ Continues(p, [proc[p] EXCEPT !.sess = @ \cup {t}, !.pc = "sending", !.tok = t])
    BY <2>1 DEF InitAnswered
  <2>a. Others(p) /\ proc'[p] = [proc[p] EXCEPT !.sess = @ \cup {t}, !.pc = "sending",
                                                !.tok = t]
    BY <2>2, Continued
  <2>3. Others(p) /\ proc'[p].pc = "sending" /\ proc'[p].tok = t
    BY <2>a, ProcRecord DEF Records
  <2> QED BY <1>a, <2>2, <2>3, OneProcess
<1>3. CASE StatusAnswered(p)
  <2>1. UNCHANGED <<shelf, backup, srv>>
    BY <1>3 DEF StatusAnswered
  <2>2. CASE srv[proc[p].tok] # "open"
    BY <1>3, <1>a, <2>1, <2>2, Ended DEF StatusAnswered
  <2>3. CASE srv[proc[p].tok] = "open"
    <3>1. Continues(p, [proc[p] EXCEPT !.sess = proc[p].sess, !.pc = "sending"])
      BY <1>3, <2>3 DEF StatusAnswered, SaveSessions
    <3>a. Others(p) /\ proc'[p] = [proc[p] EXCEPT !.sess = proc[p].sess, !.pc = "sending"]
      BY <3>1, Continued
    <3>2. Others(p) /\ proc'[p].pc = "sending" /\ proc'[p].tok = proc[p].tok
      BY <3>a, ProcRecord DEF Records
    <3>3. proc[p].tok \in Token
      BY <1>3 DEF StatusAnswered, At, HasUpload
    <3> QED BY <1>a, <2>1, <3>2, <3>3, OneProcess
  <2> QED BY <2>2, <2>3
<1>4. CASE ChunkConfirmed(p)
  <2>1. UNCHANGED <<shelf, backup, srv>>
    BY <1>4 DEF ChunkConfirmed
  <2>a. Continues(p, [proc[p] EXCEPT !.sess = proc[p].sess \cup {proc[p].tok},
                                     !.pc = "sending"])
    BY <1>4 DEF ChunkConfirmed, SaveSessions
  <2>b. Others(p) /\ proc'[p] = [proc[p] EXCEPT !.sess = proc[p].sess \cup {proc[p].tok},
                                                !.pc = "sending"]
    BY <2>a, Continued
  <2>2. Others(p) /\ proc'[p].pc = "sending" /\ proc'[p].tok = proc[p].tok
    BY <2>b, ProcRecord DEF Records
  <2>3. proc[p].tok \in Token
    BY <1>4 DEF ChunkConfirmed, At, HasUpload
  <2> QED BY <1>a, <2>1, <2>2, <2>3, OneProcess
<1>5. CASE CompleteAnswered(p)
  <2>1. UNCHANGED <<shelf, backup>>
    BY <1>5 DEF CompleteAnswered
  <2>a. Continues(p, [Idle EXCEPT !.pc = "recording", !.tok = proc[p].tok])
    BY <1>5 DEF CompleteAnswered
  <2>2. Others(p) /\ proc'[p].pc = "recording" /\ proc'[p].tok = proc[p].tok
    BY <2>a DEF Continues, Idle, TypeOK, Others
  <2>3. proc[p].tok \in Published'
    <3>1. proc[p].tok \in Token
      BY <1>5 DEF CompleteAnswered, At, HasUpload
    <3> QED BY <1>5, <3>1 DEF CompleteAnswered, Published, TypeOK
  <2> QED BY <1>a, <2>1, <2>2, <2>3, OneProcess
<1>6. CASE RecordLoad(p)
  <2>1. UNCHANGED <<shelf, backup, srv>> /\ proc[p].pc = "recording"
    BY <1>6 DEF RecordLoad, At
  <2>2. proc[p].tok \in Published
    BY <2>1 DEF RowsPublished
  <2>3. CASE Ends(p)
    BY <1>a, <2>1, <2>3, Ended
  <2>4. CASE ~Ends(p)
    <3>1. /\ Others(p) /\ proc'[p].pc = "saving" /\ proc'[p].seen = Rows(shelf)
          /\ proc'[p].tok = proc[p].tok
          /\ proc'[p].copy = Rows(shelf) \cup {proc[p].tok}
      <4>1. Continues(p, [proc[p] EXCEPT !.pc = "saving", !.seen = Rows(shelf), !.met = Met(shelf),
                                         !.copy = Rows(shelf) \cup {proc[p].tok}])
        BY <1>6, <2>4 DEF RecordLoad
      <4>2. Others(p) /\ proc'[p] = [proc[p] EXCEPT !.pc = "saving", !.seen = Rows(shelf), !.met = Met(shelf),
                                                    !.copy = Rows(shelf) \cup {proc[p].tok}]
        BY <4>1, Continued
      <4> QED BY <4>2, ProcRecord DEF Records
    <3> QED BY <1>a, <2>1, <2>2, <3>1, RowsOfPublished, OneProcess
  <2> QED BY <2>3, <2>4
<1>7. CASE RecordSave(p)
  <2>1. proc[p].copy \subseteq Published
    BY <1>7 DEF RecordSave, At, RowsPublished
  <2>2. shelf'.rows \subseteq Published \/ shelf'.rows = shelf.rows
    BY <1>7, <2>1 DEF RecordSave, Written, Saved
  <2> QED BY <1>7, <1>a, <2>2, Ended DEF RecordSave
<1> QED BY <1>1, <1>2, <1>3, <1>4, <1>5, <1>6, <1>7 DEF Upload

LEMMA ListInv == ASSUME Inv, NEW p \in Proc, List(p), Forward,
                        srv' \in [Token -> {"unused", "open", "file", "gone"}]
                 PROVE HasUpload' /\ RowsPublished' /\ CopyFaithful'
<1> USE DEF Inv
<1>a. shelf.rows \subseteq Published /\ backup.rows \subseteq Published
  BY DEF RowsPublished
<1>1. CASE LsLoad(p)
  <2>1. /\ Others(p) /\ proc'[p].pc = "asking" /\ proc'[p].seen = Rows(shelf)
        /\ proc'[p].copy = Rows(shelf) /\ proc'[p].todo = Rows(shelf)
        /\ UNCHANGED <<shelf, backup, srv>>
    BY <1>1 DEF LsLoad, Continues, Idle, TypeOK, Others
  <2> QED BY <1>a, <2>1, RowsOfPublished, OneProcess
<1>2. CASE LsAsk(p)
  <2>1. PICK b \in NextBatch(p), alive \in SUBSET Token, misled \in BOOLEAN :
          /\ Asked(p, b, alive, misled)
          /\ misled \/ alive = {t \in b : srv[t] = "file"}
    BY <1>2 DEF LsAsk, NextBatch, TypeOK
  <2>2. /\ Others(p) /\ proc'[p].pc = (IF proc[p].todo = b THEN "pruning" ELSE "asking")
        /\ proc'[p].copy = proc[p].copy /\ proc'[p].seen = proc[p].seen
        /\ proc'[p].todo = proc[p].todo \ b
        /\ proc'[p].alive = proc[p].alive \cup alive
        /\ proc'[p].misled = (proc[p].misled \/ misled)
    <3>1. Others(p) /\ proc'[p] = [proc[p] EXCEPT
              !.todo = @ \ b, !.alive = @ \cup alive, !.misled = @ \/ misled,
              !.pc = IF proc[p].todo = b THEN "pruning" ELSE "asking"]
      BY <2>1, Continued DEF Asked
    <3> QED BY <3>1, ProcRecord DEF Records
  <2>3. proc[p].pc = "asking" /\ UNCHANGED <<shelf, backup, srv>>
    BY <1>2 DEF LsAsk, At
  <2>4. /\ proc'[p].copy \subseteq Published /\ proc'[p].copy = proc'[p].seen
        /\ ~proc'[p].misled => \A t \in proc'[p].copy :
             srv[t] = "file" => t \in proc'[p].todo \cup proc'[p].alive
    BY <2>1, <2>2, <2>3 DEF RowsPublished, CopyFaithful
  <2>5. proc'[p].pc \in {"asking", "pruning"}
    BY <2>2
  <2>6. proc'[p].pc = "pruning" => proc'[p].todo = {}
    BY <2>2
  <2> QED BY <1>a, <2>2, <2>3, <2>4, <2>5, <2>6, OneProcess
<1>3. CASE LsGivesUp(p)
  BY <1>3, <1>a, Ended DEF LsGivesUp
<1>4. CASE LsSave(p)
  <2>1. proc[p].copy \subseteq Published
    BY <1>4 DEF LsSave, At, RowsPublished
  <2>2. shelf'.rows \subseteq Published \/ shelf'.rows = shelf.rows
    BY <1>4, <2>1 DEF LsSave, Written, Saved
  <2> QED BY <1>4, <1>a, <2>2, Ended DEF LsSave
<1> QED BY <1>1, <1>2, <1>3, <1>4 DEF List

LEMMA DeleteInv == ASSUME Inv, NEW p \in Proc, Delete(p), Forward,
                          srv' \in [Token -> {"unused", "open", "file", "gone"}]
                   PROVE HasUpload' /\ RowsPublished' /\ CopyFaithful'
<1> USE DEF Inv
<1>a. shelf.rows \subseteq Published /\ backup.rows \subseteq Published
  BY DEF RowsPublished
<1>1. ASSUME NEW t \in Token, NEW given \in {"none", "right", "wrong"}, RmLoad(p, t, given)
      PROVE HasUpload' /\ RowsPublished' /\ CopyFaithful'
  <2>1. /\ Others(p) /\ proc'[p].pc = "deleting" /\ proc'[p].tok = t
        /\ proc'[p].seen = proc'[p].copy
        /\ proc'[p].copy = (IF LoadFails(shelf) THEN {} ELSE Rows(shelf))
        /\ UNCHANGED <<shelf, backup, srv>>
    BY <1>1 DEF RmLoad, Continues, Idle, TypeOK, Others
  <2>2. proc'[p].copy \subseteq Published /\ t \in Published
    BY <1>1, <2>1, RowsOfPublished DEF RmLoad, Published
  <2> QED BY <1>a, <2>1, <2>2, OneProcess
<1>2. CASE RmAnswered(p)
  <2> DEFINE t == proc[p].tok
  <2> DEFINE deleted == srv[t] = "file" /\ proc[p].right
  <2>1. /\ proc[p].pc = "deleting" /\ UNCHANGED <<shelf, backup>>
        /\ srv' = IF deleted THEN [srv EXCEPT ![t] = "gone"] ELSE srv
        /\ \/ (deleted \/ srv[t] = "gone") /\ proc' = [proc EXCEPT ![p].pc = "removing"]
           \/ proc' = [proc EXCEPT ![p].pc = "removing", ![p].misled = TRUE]
           \/ Ends(p)
    BY <1>2 DEF RmAnswered, At
  <2>2. CASE Ends(p)
    BY <1>a, <2>1, <2>2, Ended
  <2>3. CASE (deleted \/ srv[t] = "gone") /\ proc' = [proc EXCEPT ![p].pc = "removing"]
    <3>1. /\ Others(p) /\ proc'[p].pc = "removing" /\ proc'[p].tok = t
          /\ proc'[p].seen = proc[p].seen /\ proc'[p].copy = proc[p].copy
      <4>1. Continues(p, [proc[p] EXCEPT !.pc = "removing"])
        BY <2>3 DEF Continues
      <4>2. Others(p) /\ proc'[p] = [proc[p] EXCEPT !.pc = "removing"]
        BY <4>1, Continued
      <4> QED BY <4>2, ProcRecord, <2>1 DEF Records
    <3>2. /\ t \in Published /\ proc[p].copy \subseteq Published
          /\ proc[p].copy = proc[p].seen
      BY <2>1 DEF RowsPublished, CopyFaithful
    <3>3. srv'[t] = "gone"
      BY <2>1, <2>3, <3>2 DEF Published, TypeOK
    <3> HIDE DEF t, deleted
    <3> QED BY <1>a, <2>1, <3>1, <3>2, <3>3, OneProcess
  <2>4. CASE proc' = [proc EXCEPT ![p].pc = "removing", ![p].misled = TRUE]
    <3>1. /\ Others(p) /\ proc'[p].pc = "removing" /\ proc'[p].tok = t /\ proc'[p].misled
          /\ proc'[p].seen = proc[p].seen /\ proc'[p].copy = proc[p].copy
      <4>1. Continues(p, [proc[p] EXCEPT !.pc = "removing", !.misled = TRUE])
        BY <2>4 DEF TypeOK, Continues
      <4>2. Others(p) /\ proc'[p] = [proc[p] EXCEPT !.pc = "removing", !.misled = TRUE]
        BY <4>1, Continued
      <4> QED BY <4>2, ProcRecord DEF Records
    <3>2. /\ t \in Published /\ proc[p].copy \subseteq Published
          /\ proc[p].copy = proc[p].seen
      BY <2>1 DEF RowsPublished, CopyFaithful
    <3> HIDE DEF t, deleted
    <3> QED BY <1>a, <2>1, <3>1, <3>2, OneProcess
  <2> QED BY <2>1, <2>2, <2>3, <2>4
<1>3. CASE RmSave(p)
  <2>1. proc[p].copy \subseteq Published
    BY <1>3 DEF RmSave, At, RowsPublished
  <2>2. shelf'.rows \subseteq Published \/ shelf'.rows = shelf.rows
    BY <1>3, <2>1 DEF RmSave, Written, Saved
  <2> QED BY <1>3, <1>a, <2>2, Ended DEF RmSave
<1> QED BY <1>1, <1>2, <1>3 DEF Delete

LEMMA ShelfInv == ASSUME Inv, NEW p \in Proc, Shelf(p), Forward,
                         srv' \in [Token -> {"unused", "open", "file", "gone"}]
                  PROVE HasUpload' /\ RowsPublished' /\ CopyFaithful'
<1> USE DEF Inv
<1>a. shelf.rows \subseteq Published /\ backup.rows \subseteq Published
  BY DEF RowsPublished
<1>1. CASE ImportLoad(p)
  <2>1. /\ Others(p) /\ proc'[p].pc = "importing" /\ proc'[p].seen = Rows(shelf)
        /\ proc'[p].copy = Rows(shelf) \cup backup.rows /\ UNCHANGED <<shelf, backup, srv>>
    BY <1>1 DEF ImportLoad, Continues, Idle, TypeOK, Others
  <2> QED BY <1>a, <2>1, RowsOfPublished, OneProcess
<1>2. CASE ImportSave(p)
  <2>1. proc[p].copy \subseteq Published
    BY <1>2 DEF ImportSave, At, RowsPublished
  <2>2. shelf'.rows \subseteq Published \/ shelf'.rows = shelf.rows
    BY <1>2, <2>1 DEF ImportSave, Written, Saved
  <2> QED BY <1>2, <1>a, <2>2, Ended DEF ImportSave
<1>3. CASE ExportLoad(p)
  <2>1. Others(p) /\ proc'[p].pc = "exporting" /\ UNCHANGED <<shelf, backup, srv>>
    BY <1>3 DEF ExportLoad, Continues, Idle, TypeOK, Others
  <2> QED BY <1>a, <2>1, OneProcess
<1>4. CASE ExportSave(p)
  <2>1. backup'.rows \subseteq Published
    BY <1>4, <1>a DEF ExportSave
  <2> QED BY <1>4, <1>a, <2>1, Ended DEF ExportSave
<1> QED BY <1>1, <1>2, <1>3, <1>4 DEF Shelf

LEMMA WorldInv == ASSUME Inv, Forward, srv' \in [Token -> {"unused", "open", "file", "gone"}],
                         (\E t \in Token : Expire(t)) \/ Garble \/ Unreadable \/ UNCHANGED vars
                  PROVE HasUpload' /\ RowsPublished' /\ CopyFaithful'
<1> USE DEF Inv
<1>1. proc' = proc /\ shelf'.rows = shelf.rows /\ backup' = backup
  BY DEF Expire, Garble, Unreadable, vars, TypeOK, FileState
<1>2. Published \subseteq Published' /\ \A t \in Published : srv'[t] = "file" => srv[t] = "file"
  BY DEF Published, Forward, TypeOK
<1>3. RowsPublished'
  BY <1>1, <1>2 DEF RowsPublished
<1>4. CopyFaithful'
  BY <1>1, <1>2 DEF CopyFaithful, RowsPublished, Forward, Published
<1>5. HasUpload'
  BY <1>1 DEF HasUpload
<1> QED BY <1>3, <1>4, <1>5

-----------------------------------------------------------------------------
(* Types                                                                    *)

LEMMA WrittenTyped ==
    ASSUME NEW f \in FileState, NEW rows \in SUBSET Token
    PROVE  Written(f, rows) \subseteq FileState
  BY DEF Written, Saved, FileState

LEMMA MetTyped == ASSUME NEW f PROVE Met(f) \in {"read", "unopened", "malformed"}
  BY DEF Met

\* What a step may do to the files, the service and the histories.
WorldTyped ==
    /\ shelf' \in FileState /\ sessions' \in FileState /\ backup' \in FileState
    /\ readable' \in BOOLEAN
    /\ srv' \in [Token -> {"unused", "open", "file", "gone"}]
    /\ known' \subseteq Token /\ printed' \subseteq Token /\ claimed' \subseteq Token

LEMMA Typed ==
    TypeOK => /\ shelf \in FileState /\ sessions \in FileState /\ backup \in FileState
              /\ shelf.rows \subseteq Token /\ backup.rows \subseteq Token
              /\ Rows(shelf) \subseteq Token /\ Rows(sessions) \subseteq Token
              /\ proc \in [Proc -> Records] /\ Idle \in Records
  BY DEF TypeOK, FileState, Records, PcSet, Rows, Idle

\* A step of one process keeps the types if its new record has them.
LEMMA ProcTyped ==
    ASSUME TypeOK, NEW p \in Proc, NEW r \in Records, Continues(p, r), WorldTyped
    PROVE  TypeOK'
  BY DEF TypeOK, Continues, PcSet, Records, WorldTyped

LEMMA EndTyped == ASSUME TypeOK, NEW p \in Proc, Ends(p), WorldTyped PROVE TypeOK'
<1>1. Continues(p, Idle)
  BY DEF Ends, Continues
<1> QED BY <1>1, Typed, ProcTyped

LEMMA UploadTyped == ASSUME TypeOK, HasUpload, NEW p \in Proc, Upload(p) PROVE TypeOK'
<1>a. proc[p] \in Records
  BY Typed
<1>1. CASE UploadStart(p)
  <2>1. WorldTyped
    BY <1>1, Typed DEF UploadStart, WorldTyped, TypeOK
  <2>2. PICK sess \in SUBSET Token, t \in Token \cup {NoToken} :
          Continues(p, [Idle EXCEPT !.sess = sess, !.seen = sess, !.tok = t,
                !.met = Met(sessions),
              !.pc = IF t = NoToken THEN "queued" ELSE "asking status"])
    BY <1>1, Typed DEF UploadStart
  <2>3. [Idle EXCEPT !.sess = sess, !.seen = sess, !.tok = t,
                !.met = Met(sessions),
            !.pc = IF t = NoToken THEN "queued" ELSE "asking status"] \in Records
    BY MetTyped DEF Idle, Records, PcSet
  <2> QED BY <2>1, <2>2, <2>3, ProcTyped
<1>2. CASE \E t \in Token : InitAnswered(p, t)
  <2>1. PICK t \in Token : InitAnswered(p, t)
    BY <1>2
  <2>2. sessions' \in FileState
    BY <2>1, <1>a, Typed, WrittenTyped DEF InitAnswered, Records
  <2>3. WorldTyped
    BY <2>1, <2>2, Typed DEF InitAnswered, WorldTyped, TypeOK
  <2>4. Continues(p, [proc[p] EXCEPT !.sess = @ \cup {t}, !.pc = "sending", !.tok = t])
    BY <2>1 DEF InitAnswered
  <2>5. [proc[p] EXCEPT !.sess = @ \cup {t}, !.pc = "sending", !.tok = t] \in Records
    BY <1>a DEF Records, PcSet
  <2> QED BY <2>3, <2>4, <2>5, ProcTyped
<1>3. ASSUME NEW sess \in SUBSET Token, SaveSessions(p, sess),
             UNCHANGED <<shelf, backup, readable, known, printed, claimed>>,
             srv' \in [Token -> {"unused", "open", "file", "gone"}]
      PROVE TypeOK'
  <2>1. WorldTyped
    BY <1>3, Typed, WrittenTyped DEF SaveSessions, WorldTyped, TypeOK
  <2>2. Continues(p, [proc[p] EXCEPT !.sess = sess, !.pc = "sending"])
    BY <1>3 DEF SaveSessions
  <2>3. [proc[p] EXCEPT !.sess = sess, !.pc = "sending"] \in Records
    BY <1>a DEF Records, PcSet
  <2> QED BY <2>1, <2>2, <2>3, ProcTyped
<1>b. proc[p].sess \in SUBSET Token
  BY <1>a DEF Records
<1>4. CASE StatusAnswered(p)
  <2>1. UNCHANGED <<shelf, backup, readable, srv, known, printed, claimed>>
    BY <1>4 DEF StatusAnswered
  <2>2. CASE srv[proc[p].tok] = "open"
    BY <1>3, <1>4, <1>b, <2>1, <2>2 DEF StatusAnswered, PcSet, TypeOK
  <2>3. CASE srv[proc[p].tok] # "open"
    <3>1. WorldTyped
      BY <1>4, <1>b, <2>1, <2>3, Typed, WrittenTyped DEF StatusAnswered, WorldTyped, TypeOK
    <3> QED BY <1>4, <2>3, <3>1, EndTyped DEF StatusAnswered
  <2> QED BY <2>2, <2>3
<1>c. proc[p].pc = "sending" => proc[p].tok \in Token
  BY DEF HasUpload
<1>5. CASE ChunkConfirmed(p)
  BY <1>3, <1>5, <1>b, <1>c DEF ChunkConfirmed, At, PcSet, TypeOK
<1>6. CASE CompleteAnswered(p)
  <2>1. srv' \in [Token -> {"unused", "open", "file", "gone"}]
    BY <1>6 DEF CompleteAnswered, TypeOK
  <2>2. proc[p].tok \in Token
    BY <1>6, <1>c DEF CompleteAnswered, At
  <2>3. [Idle EXCEPT !.pc = "recording", !.tok = proc[p].tok] \in Records
    BY <2>2 DEF Idle, Records, PcSet
  <2>4. WorldTyped
    BY <1>6, <1>b, <2>1, Typed, WrittenTyped DEF CompleteAnswered, WorldTyped, TypeOK
  <2> QED BY <1>6, <2>3, <2>4, ProcTyped DEF CompleteAnswered
<1>7. CASE RecordLoad(p)
  <2>1. proc[p].tok \in Token
    BY <1>7 DEF RecordLoad, At, HasUpload
  <2>2. WorldTyped
    BY <1>7, <2>1, Typed DEF RecordLoad, WorldTyped, TypeOK
  <2>3. [proc[p] EXCEPT !.pc = "saving", !.seen = Rows(shelf), !.met = Met(shelf),
                        !.copy = Rows(shelf) \cup {proc[p].tok}] \in Records
    BY <1>a, <2>1, Typed, MetTyped DEF Records, PcSet
  <2> QED BY <1>7, <2>2, <2>3, ProcTyped, EndTyped DEF RecordLoad
<1>8. CASE RecordSave(p)
  <2>1. proc[p].tok \in Token /\ proc[p].copy \in SUBSET Token
    BY <1>8, <1>a DEF RecordSave, At, HasUpload, Records
  <2>2. shelf' \in FileState
    BY <1>8, <2>1, Typed, WrittenTyped DEF RecordSave
  <2>3. WorldTyped
    BY <1>8, <2>1, <2>2, Typed DEF RecordSave, WorldTyped, TypeOK
  <2> QED BY <1>8, <2>3, EndTyped DEF RecordSave
<1> QED BY <1>1, <1>2, <1>4, <1>5, <1>6, <1>7, <1>8 DEF Upload

LEMMA ListTyped == ASSUME TypeOK, NEW p \in Proc, List(p) PROVE TypeOK'
<1>a. proc[p] \in Records
  BY Typed
<1>1. CASE LsLoad(p)
  <2>1. [Idle EXCEPT !.pc = "asking", !.seen = Rows(shelf), !.met = Met(shelf),
                     !.copy = Rows(shelf), !.todo = Rows(shelf)] \in Records
    BY Typed, MetTyped DEF Idle, Records, PcSet
  <2>2. WorldTyped
    BY <1>1, Typed DEF LsLoad, WorldTyped, TypeOK
  <2> QED BY <1>1, <2>1, <2>2, ProcTyped DEF LsLoad
<1>2. CASE LsAsk(p)
  <2>1. PICK b, alive, misled :
          /\ b \in SUBSET proc[p].todo /\ alive \in SUBSET b /\ misled \in BOOLEAN
          /\ Asked(p, b, alive, misled)
    BY <1>2 DEF LsAsk, NextBatch
  <2> DEFINE r == [proc[p] EXCEPT !.todo = @ \ b, !.alive = @ \cup alive,
                     !.misled = @ \/ misled, !.pc = IF proc[p].todo = b THEN "pruning" ELSE "asking"]
  <2>2. r \in Records
    BY <1>a, <2>1 DEF Records, PcSet
  <2>3. Continues(p, r)
    BY <2>1 DEF Asked
  <2>4. WorldTyped
    BY <1>2, Typed DEF LsAsk, WorldTyped, TypeOK
  <2> HIDE DEF r
  <2> QED BY <2>2, <2>3, <2>4, ProcTyped
<1>3. CASE LsGivesUp(p)
  <2>1. WorldTyped
    BY <1>3, Typed DEF LsGivesUp, WorldTyped, TypeOK
  <2> QED BY <1>3, <2>1, EndTyped DEF LsGivesUp
<1>4. CASE LsSave(p)
  <2>1. proc[p].copy \cap proc[p].alive \in SUBSET Token
    BY <1>a DEF Records
  <2>2. shelf' \in FileState
    BY <1>4, <2>1, Typed, WrittenTyped DEF LsSave
  <2>3. WorldTyped
    BY <1>4, <2>2, Typed DEF LsSave, WorldTyped, TypeOK
  <2> QED BY <1>4, <2>3, EndTyped DEF LsSave
<1> QED BY <1>1, <1>2, <1>3, <1>4 DEF List

LEMMA DeleteTyped == ASSUME TypeOK, HasUpload, NEW p \in Proc, Delete(p) PROVE TypeOK'
<1>a. proc[p] \in Records
  BY Typed
<1>1. ASSUME NEW t \in Token, NEW given \in {"none", "right", "wrong"}, RmLoad(p, t, given)
      PROVE TypeOK'
  <2>1. WorldTyped
    BY <1>1, Typed DEF RmLoad, WorldTyped, TypeOK
  <2>2. PICK rows \in SUBSET Token, loaded \in BOOLEAN, right \in BOOLEAN :
          Continues(p, [Idle EXCEPT !.pc = "deleting", !.tok = t, !.seen = rows, !.met = Met(shelf),
                          !.copy = rows, !.loaded = loaded, !.right = right])
    BY <1>1, Typed DEF RmLoad, LoadFails, Opens
  <2>3. [Idle EXCEPT !.pc = "deleting", !.tok = t, !.seen = rows, !.met = Met(shelf),
                     !.copy = rows, !.loaded = loaded, !.right = right] \in Records
    BY MetTyped DEF Idle, Records, PcSet
  <2> QED BY <2>1, <2>2, <2>3, ProcTyped
<1>2. CASE RmAnswered(p)
  <2>1. WorldTyped
    BY <1>2, Typed DEF RmAnswered, WorldTyped, TypeOK
  <2> DEFINE r(misled) == [proc[p] EXCEPT !.pc = "removing", !.misled = misled]
  <2>2. \/ Ends(p)
        \/ proc' = [proc EXCEPT ![p].pc = "removing"]
        \/ proc' = [proc EXCEPT ![p].pc = "removing", ![p].misled = TRUE]
    BY <1>2 DEF RmAnswered
  <2>3. Ends(p) \/ \E misled \in BOOLEAN : Continues(p, r(misled))
    <3>1. CASE proc' = [proc EXCEPT ![p].pc = "removing"]
      <4>1. r(proc[p].misled) = [proc[p] EXCEPT !.pc = "removing"] /\ proc[p].misled \in BOOLEAN
        BY <1>a DEF Records
      <4> QED BY <3>1, <4>1 DEF Continues, TypeOK
    <3>2. CASE proc' = [proc EXCEPT ![p].pc = "removing", ![p].misled = TRUE]
      BY <3>2 DEF Continues, TypeOK
    <3> QED BY <2>2, <3>1, <3>2
  <2>4. \A misled \in BOOLEAN : r(misled) \in Records
    BY <1>a DEF Records, PcSet
  <2> QED BY <2>1, <2>3, <2>4, EndTyped, ProcTyped
<1>3. CASE RmSave(p)
  <2>1. proc[p].tok \in Token /\ proc[p].copy \ {proc[p].tok} \in SUBSET Token
    BY <1>3, <1>a DEF RmSave, At, HasUpload, Records
  <2>2. shelf' \in FileState
    BY <1>3, <2>1, Typed, WrittenTyped DEF RmSave
  <2>3. WorldTyped
    BY <1>3, <2>1, <2>2, Typed DEF RmSave, WorldTyped, TypeOK
  <2> QED BY <1>3, <2>3, EndTyped DEF RmSave
<1> QED BY <1>1, <1>2, <1>3 DEF Delete

LEMMA ShelfTyped == ASSUME TypeOK, NEW p \in Proc, Shelf(p) PROVE TypeOK'
<1>a. proc[p] \in Records
  BY Typed
<1>1. CASE ImportLoad(p)
  <2>1. [Idle EXCEPT !.pc = "importing", !.seen = Rows(shelf), !.met = Met(shelf),
                     !.copy = Rows(shelf) \cup backup.rows] \in Records
    BY Typed, MetTyped DEF Idle, Records, PcSet
  <2>2. WorldTyped
    BY <1>1, Typed DEF ImportLoad, WorldTyped, TypeOK
  <2> QED BY <1>1, <2>1, <2>2, ProcTyped DEF ImportLoad
<1>2. CASE ImportSave(p)
  <2>1. shelf' \in FileState
    BY <1>2, <1>a, Typed, WrittenTyped DEF ImportSave, Records
  <2>2. WorldTyped
    BY <1>2, <2>1, Typed DEF ImportSave, WorldTyped, TypeOK
  <2> QED BY <1>2, <2>2, EndTyped DEF ImportSave
<1>3. CASE ExportLoad(p)
  <2>1. [Idle EXCEPT !.pc = "exporting", !.seen = Rows(shelf), !.met = Met(shelf)] \in Records
    BY Typed, MetTyped DEF Idle, Records, PcSet
  <2>2. WorldTyped
    BY <1>3, Typed DEF ExportLoad, WorldTyped, TypeOK
  <2> QED BY <1>3, <2>1, <2>2, ProcTyped DEF ExportLoad
<1>4. CASE ExportSave(p)
  <2>1. WorldTyped
    BY <1>4, Typed DEF ExportSave, WorldTyped, TypeOK
  <2> QED BY <1>4, <2>1, EndTyped DEF ExportSave
<1> QED BY <1>1, <1>2, <1>3, <1>4 DEF Shelf

LEMMA TypeStep == ASSUME TypeOK, HasUpload, [Next]_vars PROVE TypeOK'
<1>1. CASE UNCHANGED vars
  BY <1>1 DEF vars, TypeOK
<1>2. ASSUME NEW p \in Proc, Quit(p) \/ Crash(p) PROVE TypeOK'
  <2>1. WorldTyped /\ Ends(p)
    BY <1>2, Typed DEF Quit, Crash, WorldTyped, TypeOK
  <2> QED BY <2>1, EndTyped
<1>3. ASSUME NEW t \in Token, Expire(t) PROVE TypeOK'
  BY <1>3 DEF Expire, TypeOK
<1>4. CASE Garble
  <2>1. \A f \in FileState :
          {[f EXCEPT !.state = st] : st \in {"ok", "broken"}} \subseteq FileState
    BY DEF FileState
  <2>2. shelf' \in FileState /\ sessions' \in FileState
    BY <1>4, <2>1, Typed DEF Garble
  <2> QED BY <1>4, <2>2, Typed DEF Garble, TypeOK
<1>5. CASE Unreadable
  BY <1>5 DEF Unreadable, TypeOK
<1> QED BY <1>1, <1>2, <1>3, <1>4, <1>5, UploadTyped, ListTyped, DeleteTyped, ShelfTyped DEF Next

-----------------------------------------------------------------------------
(* Commands side by side                                                    *)

LEMMA ClaimedStep == ASSUME Inv, [Next]_vars, Forward PROVE ClaimedGone'
<1> USE DEF Inv
<1>1. claimed' = claimed \/ \E p \in Proc : RmSave(p)
  BY DEF Next, vars, Upload, List, Delete, Shelf, UploadStart, InitAnswered, StatusAnswered,
     ChunkConfirmed, CompleteAnswered, RecordLoad, RecordSave, LsLoad, LsAsk, LsGivesUp,
     LsSave, RmLoad, RmAnswered, ImportLoad, ImportSave, ExportLoad, ExportSave, Quit,
     Crash, Expire, Garble, Unreadable
<1>2. CASE claimed' = claimed
  BY <1>2 DEF ClaimedGone, Forward, TypeOK
<1>3. ASSUME NEW p \in Proc, RmSave(p) PROVE ClaimedGone'
  <2>1. proc[p].misled \/ srv[proc[p].tok] = "gone"
    BY <1>3 DEF RmSave, At, CopyFaithful
  <2>2. claimed' = (IF proc[p].misled THEN claimed ELSE claimed \cup {proc[p].tok}) /\ srv' = srv
    BY <1>3 DEF RmSave
  <2> QED BY <2>1, <2>2 DEF ClaimedGone
<1> QED BY <1>1, <1>2, <1>3

LEMMA NextInv == ASSUME Inv, [Next]_vars PROVE Inv'
<1> USE DEF Inv
<1>1. TypeOK' /\ Forward
  BY TypeStep, StepForward
<1>2. srv' \in [Token -> {"unused", "open", "file", "gone"}]
  BY <1>1 DEF TypeOK
<1>3. ClaimedGone'
  BY <1>1, ClaimedStep
<1>4. ASSUME NEW p \in Proc, Quit(p) \/ Crash(p)
      PROVE HasUpload' /\ RowsPublished' /\ CopyFaithful'
  <2>1. Ends(p) /\ UNCHANGED <<shelf, backup>>
    BY <1>4 DEF Quit, Crash
  <2> QED BY <1>1, <1>2, <2>1, Ended DEF RowsPublished
<1>5. HasUpload' /\ RowsPublished' /\ CopyFaithful'
  BY <1>1, <1>2, <1>4, UploadInv, ListInv, DeleteInv, ShelfInv, WorldInv DEF Next
<1> QED BY <1>1, <1>3, <1>5

LEMMA InvAlways == Spec => []Inv
  BY InitInv, NextInv, PTL DEF Spec

\* Whatever the processes do side by side, an upload that rm reported as
\* deleted or gone on the service's own answer is gone.
THEOREM DeletedIsGone == Spec => []ClaimedGone
<1>1. Inv => ClaimedGone
  BY DEF Inv
<1> QED BY <1>1, InvAlways, PTL

\* The shelf is written by these commands only.
LEMMA ShelfWriters ==
    ASSUME [Next]_vars, shelf' # shelf
    PROVE  Garble \/ \E p \in Proc : RecordSave(p) \/ LsSave(p) \/ RmSave(p) \/ ImportSave(p)
  BY DEF Next, vars, Upload, List, Delete, Shelf, UploadStart, InitAnswered, StatusAnswered,
     ChunkConfirmed, CompleteAnswered, RecordLoad, LsLoad, LsAsk, LsGivesUp,
     RmLoad, RmAnswered, ImportLoad, ExportLoad, ExportSave, Quit,
     Crash, Expire, Unreadable

\* A process that saves is a process that moves.
LEMMA SaverMoves ==
    ASSUME TypeOK, NEW p \in Proc, RecordSave(p) \/ LsSave(p) \/ RmSave(p) \/ ImportSave(p)
    PROVE  proc'[p] # proc[p]
<1>1. proc'[p].pc = "idle"
  <2>1. Ends(p)
    BY DEF RecordSave, LsSave, RmSave, ImportSave
  <2> QED BY <2>1 DEF Ends, Idle, TypeOK
<1>2. proc[p].pc # "idle"
  BY DEF RecordSave, LsSave, RmSave, ImportSave, At
<1> QED BY <1>1, <1>2

\* Every save keeps the live rows that its process had loaded.
LEMMA SaveKeepsSeen ==
    ASSUME Inv, NEW p \in Proc, RecordSave(p) \/ LsSave(p) \/ RmSave(p) \/ ImportSave(p),
           NEW t \in proc[p].seen, srv[t] = "file", t \in shelf.rows, ~proc[p].misled
    PROVE  t \in shelf'.rows
<1> USE DEF Inv
<1>1. CASE RecordSave(p)
  <2>1. t \in proc[p].copy /\ shelf' \in {Saved(proc[p].copy), shelf}
    BY <1>1 DEF RecordSave, At, CopyFaithful, Written
  <2> QED BY <2>1 DEF Saved
<1>2. CASE LsSave(p)
  <2>1. /\ proc[p].copy = proc[p].seen /\ proc[p].todo = {}
        /\ \A u \in proc[p].copy : srv[u] = "file" => u \in proc[p].todo \cup proc[p].alive
    BY <1>2 DEF LsSave, At, CopyFaithful
  <2>2. t \in proc[p].copy \cap proc[p].alive
    BY <2>1
  <2>3. shelf' \in {Saved(proc[p].copy \cap proc[p].alive), shelf}
    BY <1>2 DEF LsSave, Written
  <2> QED BY <2>2, <2>3 DEF Saved
<1>3. CASE RmSave(p)
  <2>1. proc[p].copy = proc[p].seen /\ srv[proc[p].tok] = "gone"
    BY <1>3 DEF RmSave, At, CopyFaithful
  <2>2. t \in proc[p].copy \ {proc[p].tok}
    BY <2>1
  <2>3. shelf' \in {Saved(proc[p].copy \ {proc[p].tok}), shelf}
    BY <1>3 DEF RmSave, Written
  <2> QED BY <2>2, <2>3 DEF Saved
<1>4. CASE ImportSave(p)
  <2>1. t \in proc[p].copy /\ shelf' \in {Saved(proc[p].copy), shelf}
    BY <1>4 DEF ImportSave, At, CopyFaithful, Written
  <2> QED BY <2>1 DEF Saved
<1> QED BY <1>1, <1>2, <1>3, <1>4

-----------------------------------------------------------------------------
(* What a process met when it loaded                                        *)

\* The process has loaded the shelf and may go on to save it.
Holds(r) ==
    \/ r.pc \in {"saving", "asking", "pruning", "importing"}
    \/ r.pc \in {"deleting", "removing"} /\ r.loaded

\* No command saves a shelf that it could not parse; a shelf that was read
\* stays well-formed, for nobody edits it while a command runs; and an upload
\* never drops a session that it has read from its table.
MetOK(r, f) ==
    /\ Holds(r) => r.met # "malformed" /\ (r.met = "read" => f.state # "broken")
    /\ r.pc \in {"queued", "asking status", "sending"} /\ r.met = "read" =>
         r.seen \subseteq r.sess

MetFaithful == \A p \in Proc : MetOK(proc[p], shelf)

LEMMA MetOfLoad ==
    ASSUME shelf \in FileState, ~LoadFails(shelf)
    PROVE  /\ Met(shelf) # "malformed"
           /\ Met(shelf) = "read" => shelf.state # "broken"
BY DEF Met, LoadFails, Opens, FileState

LEMMA MetStep == ASSUME Inv, MetFaithful, [Next]_vars PROVE MetFaithful'
<1> USE DEF Inv
<1>1. ASSUME NEW p \in Proc, Others(p), shelf' = shelf \/ shelf'.state = "ok",
             MetOK(proc'[p], shelf)
      PROVE  MetFaithful'
  BY <1>1 DEF MetFaithful, MetOK, Others
<1>2. ASSUME NEW p \in Proc, Ends(p), shelf' = shelf \/ shelf'.state = "ok" PROVE MetFaithful'
  <2>1. Others(p) /\ proc'[p].pc = "idle"
    BY <1>2 DEF Ends, Idle, Others, TypeOK
  <2> QED BY <1>1, <1>2, <2>1 DEF MetOK, Holds
<1>3. ASSUME NEW p \in Proc, NEW sess, SaveSessions(p, sess), shelf' = shelf,
             proc[p].sess \subseteq sess, proc[p].pc \in {"asking status", "sending"}
      PROVE  MetFaithful'
  <2>1. Continues(p, [proc[p] EXCEPT !.sess = sess, !.pc = "sending"])
    BY <1>3 DEF SaveSessions
  <2>2. Others(p) /\ proc'[p] = [proc[p] EXCEPT !.sess = sess, !.pc = "sending"]
    BY <2>1, Continued
  <2>3. /\ proc'[p].pc = "sending" /\ proc'[p].sess = sess
        /\ proc'[p].seen = proc[p].seen /\ proc'[p].met = proc[p].met
    BY <2>2, ProcRecord DEF Records
  <2> QED BY <1>1, <1>3, <2>2, <2>3 DEF MetFaithful, MetOK, Holds
<1>4. ASSUME NEW p \in Proc, Upload(p) PROVE MetFaithful'
  <2>1. CASE UploadStart(p)
    <3>1. PICK sess, t :
            Continues(p, [Idle EXCEPT !.sess = sess, !.seen = sess, !.tok = t,
                !.met = Met(sessions),
                !.pc = IF t = NoToken THEN "queued" ELSE "asking status"])
      BY <2>1 DEF UploadStart
    <3>2. /\ Others(p) /\ proc'[p].seen = proc'[p].sess
          /\ proc'[p].pc \in {"queued", "asking status"}
      BY <3>1 DEF Continues, Idle, TypeOK, Others
    <3>3. shelf' = shelf
      BY <2>1 DEF UploadStart
    <3> QED BY <1>1, <3>2, <3>3 DEF MetOK, Holds
  <2>2. CASE \E t \in Token : InitAnswered(p, t)
    <3>1. PICK t \in Token : InitAnswered(p, t)
      BY <2>2
    <3>2. /\ shelf' = shelf /\ proc[p].pc = "queued"
          /\ Continues(p, [proc[p] EXCEPT !.sess = @ \cup {t}, !.pc = "sending", !.tok = t])
      BY <3>1 DEF InitAnswered, At
    <3>3. /\ Others(p)
          /\ proc'[p] = [proc[p] EXCEPT !.sess = @ \cup {t}, !.pc = "sending", !.tok = t]
      BY <3>2, Continued
    <3>4. /\ proc'[p].pc = "sending" /\ proc'[p].sess = proc[p].sess \cup {t}
          /\ proc'[p].seen = proc[p].seen /\ proc'[p].met = proc[p].met
      BY <3>3, ProcRecord DEF Records
    <3> QED BY <1>1, <3>2, <3>3, <3>4 DEF MetFaithful, MetOK, Holds
  <2>3. CASE StatusAnswered(p)
    BY <1>2, <1>3, <2>3 DEF StatusAnswered, At
  <2>4. CASE ChunkConfirmed(p)
    BY <1>3, <2>4 DEF ChunkConfirmed, At
  <2>5. CASE CompleteAnswered(p)
    <3>1. Others(p) /\ proc'[p].pc = "recording" /\ shelf' = shelf
      BY <2>5 DEF CompleteAnswered, Continues, Idle, TypeOK, Others
    <3> QED BY <1>1, <3>1 DEF MetOK, Holds
  <2>6. CASE RecordLoad(p) /\ ~Ends(p)
    <3>1. /\ Continues(p, [proc[p] EXCEPT !.pc = "saving", !.seen = Rows(shelf),
                             !.met = Met(shelf), !.copy = Rows(shelf) \cup {proc[p].tok}])
          /\ shelf' = shelf /\ ~LoadFails(shelf)
      BY <2>6 DEF RecordLoad
    <3>2. Others(p) /\ proc'[p] = [proc[p] EXCEPT !.pc = "saving", !.seen = Rows(shelf),
                             !.met = Met(shelf), !.copy = Rows(shelf) \cup {proc[p].tok}]
      BY <3>1, Continued
    <3>3. proc'[p].pc = "saving" /\ proc'[p].met = Met(shelf)
      BY <3>2, ProcRecord DEF Records
    <3> QED BY <1>1, <3>1, <3>2, <3>3, MetOfLoad, Typed DEF MetOK
  <2>7. CASE RecordLoad(p) /\ Ends(p)
    BY <1>2, <2>7 DEF RecordLoad
  <2>8. CASE RecordSave(p)
    BY <1>2, <2>8 DEF RecordSave, Written, Saved
  <2> QED BY <1>4, <2>1, <2>2, <2>3, <2>4, <2>5, <2>6, <2>7, <2>8 DEF Upload
<1>5. ASSUME NEW p \in Proc, List(p) PROVE MetFaithful'
  <2>1. CASE LsLoad(p)
    <3>1. /\ Others(p) /\ proc'[p].met = Met(shelf) /\ shelf' = shelf
          /\ proc'[p].pc = "asking" /\ ~LoadFails(shelf)
      BY <2>1 DEF LsLoad, Continues, Idle, Others, TypeOK
    <3> QED BY <1>1, <3>1, MetOfLoad, Typed DEF MetOK
  <2>2. CASE LsAsk(p)
    <3>1. PICK b, alive, misled : Asked(p, b, alive, misled)
      BY <2>2 DEF LsAsk
    <3>2. shelf' = shelf /\ proc[p].pc = "asking"
      BY <2>2 DEF LsAsk, At
    <3>3. /\ Others(p)
          /\ proc'[p] = [proc[p] EXCEPT
                 !.todo = @ \ b, !.alive = @ \cup alive, !.misled = @ \/ misled,
                 !.pc = IF proc[p].todo = b THEN "pruning" ELSE "asking"]
      BY <3>1, Continued DEF Asked
    <3>4. proc'[p].met = proc[p].met /\ proc'[p].pc \in {"asking", "pruning"}
      BY <3>3, ProcRecord DEF Records
    <3> QED BY <1>1, <3>2, <3>3, <3>4 DEF MetFaithful, MetOK, Holds
  <2> QED BY <1>2, <1>5, <2>1, <2>2 DEF List, LsGivesUp, LsSave, Written, Saved
<1>6. ASSUME NEW p \in Proc, Delete(p) PROVE MetFaithful'
  <2>1. ASSUME NEW t \in Token, NEW given \in {"none", "right", "wrong"}, RmLoad(p, t, given)
        PROVE  MetFaithful'
    <3>1. PICK rows, right :
            Continues(p, [Idle EXCEPT !.pc = "deleting", !.tok = t, !.seen = rows,
                            !.met = Met(shelf), !.copy = rows,
                            !.loaded = ~LoadFails(shelf), !.right = right])
      BY <2>1 DEF RmLoad
    <3>2. Others(p) /\ proc'[p] = [Idle EXCEPT !.pc = "deleting", !.tok = t, !.seen = rows,
                            !.met = Met(shelf), !.copy = rows,
                            !.loaded = ~LoadFails(shelf), !.right = right]
      BY <3>1, Continued
    <3>3. /\ proc'[p].pc = "deleting" /\ proc'[p].met = Met(shelf)
          /\ proc'[p].loaded = ~LoadFails(shelf)
      BY <3>2 DEF Idle
    <3>4. shelf' = shelf
      BY <2>1 DEF RmLoad
    <3> QED BY <1>1, <3>2, <3>3, <3>4, MetOfLoad, Typed DEF MetOK, Holds
  <2>2. CASE RmAnswered(p) /\ ~Ends(p)
    <3>1. /\ shelf' = shelf /\ proc[p].pc = "deleting"
          /\ \/ proc' = [proc EXCEPT ![p].pc = "removing"]
             \/ proc' = [proc EXCEPT ![p].pc = "removing", ![p].misled = TRUE]
      BY <2>2 DEF RmAnswered, At
    <3>2. \E b \in BOOLEAN : Continues(p, [proc[p] EXCEPT !.pc = "removing", !.misled = b])
      <4>1. CASE proc' = [proc EXCEPT ![p].pc = "removing"]
        <5>1. [proc[p] EXCEPT !.pc = "removing", !.misled = proc[p].misled]
                = [proc[p] EXCEPT !.pc = "removing"] /\ proc[p].misled \in BOOLEAN
          BY ProcRecord DEF Records
        <5> QED BY <4>1, <5>1 DEF Continues, TypeOK
      <4>2. CASE proc' = [proc EXCEPT ![p].pc = "removing", ![p].misled = TRUE]
        BY <4>2 DEF Continues, TypeOK
      <4> QED BY <3>1, <4>1, <4>2
    <3>3. PICK b \in BOOLEAN :
            Others(p) /\ proc'[p] = [proc[p] EXCEPT !.pc = "removing", !.misled = b]
      BY <3>2, Continued
    <3>4. /\ proc'[p].pc = "removing" /\ proc'[p].met = proc[p].met
          /\ proc'[p].loaded = proc[p].loaded
      BY <3>3, ProcRecord DEF Records
    <3> QED BY <1>1, <3>1, <3>3, <3>4 DEF MetFaithful, MetOK, Holds
  <2>3. CASE RmAnswered(p) /\ Ends(p)
    BY <1>2, <2>3 DEF RmAnswered
  <2>4. CASE RmSave(p)
    BY <1>2, <2>4 DEF RmSave, Written, Saved
  <2> QED BY <1>6, <2>1, <2>2, <2>3, <2>4 DEF Delete
<1>7. ASSUME NEW p \in Proc, Shelf(p) PROVE MetFaithful'
  <2>1. CASE ImportLoad(p)
    <3>1. /\ Others(p) /\ proc'[p].met = Met(shelf) /\ shelf' = shelf
          /\ proc'[p].pc = "importing" /\ ~LoadFails(shelf)
      BY <2>1 DEF ImportLoad, Continues, Idle, Others, TypeOK
    <3> QED BY <1>1, <3>1, MetOfLoad, Typed DEF MetOK
  <2>2. CASE ExportLoad(p)
    <3>1. Others(p) /\ proc'[p].pc = "exporting" /\ shelf' = shelf
      BY <2>2 DEF ExportLoad, Continues, Idle, Others, TypeOK
    <3> QED BY <1>1, <3>1 DEF MetOK, Holds
  <2> QED BY <1>2, <1>7, <2>1, <2>2 DEF Shelf, ImportSave, ExportSave, Written, Saved
<1>8. CASE Garble
  <2>1. \A p \in Proc : proc'[p] = proc[p] /\ proc[p].pc = "idle"
    BY <1>8 DEF Garble, At
  <2> QED BY <2>1 DEF MetFaithful, MetOK, Holds
<1>9. CASE UNCHANGED <<shelf, proc>>
  BY <1>9 DEF MetFaithful
<1>10. (\E t \in Token : Expire(t)) \/ Unreadable \/ UNCHANGED vars => UNCHANGED <<shelf, proc>>
  BY DEF Expire, Unreadable, vars
<1> QED BY <1>2, <1>4, <1>5, <1>6, <1>7, <1>8, <1>9, <1>10 DEF Next, Quit, Crash

LEMMA MetAlways == Spec => [](Inv /\ MetFaithful)
<1>1. Init => MetFaithful
  <2> SUFFICES ASSUME Init, NEW p \in Proc PROVE MetOK(proc[p], shelf)
    BY DEF MetFaithful
  <2>1. proc[p].pc = "idle"
    BY DEF Init, Idle
  <2> QED BY <2>1 DEF MetOK, Holds
<1>2. Inv /\ MetFaithful /\ [Next]_vars => MetFaithful'
  BY MetStep
<1> QED BY <1>1, <1>2, InvAlways, PTL DEF Spec

\* A save that changes the shelf comes from a process that holds it.
LEMMA SaverHolds ==
    ASSUME NEW p \in Proc, RecordSave(p) \/ LsSave(p) \/ RmSave(p) \/ ImportSave(p),
           shelf' # shelf
    PROVE  Holds(proc[p])
BY DEF RecordSave, LsSave, RmSave, ImportSave, At, Holds

LEMMA LossStep ==
    ASSUME Inv, MetFaithful, [Next]_vars
    PROVE  \A t \in shelf.rows \ shelf'.rows : srv[t] = "file" =>
             \E p \in Proc : proc'[p] # proc[p] /\ LossCause(p, t)
<1> SUFFICES ASSUME NEW t \in shelf.rows \ shelf'.rows, srv[t] = "file"
             PROVE \E p \in Proc : proc'[p] # proc[p] /\ LossCause(p, t)
  OBVIOUS
<1>1. ~Garble
  <2> SUFFICES ASSUME Garble PROVE shelf'.rows = shelf.rows
    OBVIOUS
  <2> QED BY Typed DEF Inv, Garble, FileState
<1>2. PICK p \in Proc : RecordSave(p) \/ LsSave(p) \/ RmSave(p) \/ ImportSave(p)
  BY <1>1, ShelfWriters
<1>3. proc'[p] # proc[p]
  BY <1>2, SaverMoves DEF Inv
<1>4. proc[p].met \in {"read", "unopened"}
  <2>1. proc[p].met # "malformed"
    BY <1>2, SaverHolds DEF MetFaithful, MetOK
  <2> QED BY <2>1, ProcRecord DEF Inv, Records
<1>5. t \notin proc[p].seen \/ proc[p].misled
  BY <1>2, SaveKeepsSeen
<1> QED BY <1>3, <1>4, <1>5 DEF LossCause

\* For any number of commands side by side: the row of an upload that is on
\* the server leaves shelf.json only by the save of a command that had read
\* the file before the row was in it, that could not open the file (which
\* needs no other command), or that was given a false answer about it.
THEOREM LossHasCause == Spec => RowLossHasCause
<1>1. Inv /\ MetFaithful /\ [Next]_vars =>
        [\A t \in shelf.rows \ shelf'.rows : srv[t] = "file" =>
            \E p \in Proc : proc'[p] # proc[p] /\ LossCause(p, t)]_vars
  BY LossStep
<1> QED BY <1>1, MetAlways, PTL DEF Spec, RowLossHasCause

\* For any number of commands side by side and every fault of the model: a
\* shelf that cannot be parsed is overwritten only by a command that could not
\* open it.
THEOREM MalformedShelfSafe == Spec => MalformedShelfKept
<1> DEFINE Kept == shelf.state = "broken" /\ shelf'.rows # shelf.rows =>
                     \E p \in Proc : proc'[p] # proc[p] /\ proc[p].met = "unopened"
<1>1. ASSUME Inv, MetFaithful, [Next]_vars, shelf.state = "broken", shelf'.rows # shelf.rows
      PROVE  \E p \in Proc : proc'[p] # proc[p] /\ proc[p].met = "unopened"
  <2>1. ~Garble
    BY <1>1, Typed DEF Garble, FileState, Inv
  <2>2. PICK p \in Proc : RecordSave(p) \/ LsSave(p) \/ RmSave(p) \/ ImportSave(p)
    BY <1>1, <2>1, ShelfWriters
  <2>3. proc'[p] # proc[p]
    BY <1>1, <2>2, SaverMoves DEF Inv
  <2>4. proc[p].met \notin {"malformed", "read"}
    BY <1>1, <2>2, SaverHolds DEF MetFaithful, MetOK
  <2>5. proc[p].met = "unopened"
    BY <1>1, <2>4, ProcRecord DEF Inv, Records
  <2> QED BY <2>3, <2>5
<1>2. Inv /\ MetFaithful /\ [Next]_vars => [Kept]_vars
  BY <1>1
<1> QED BY <1>2, MetAlways, PTL DEF Spec, MalformedShelfKept

-----------------------------------------------------------------------------
(* One command at a time                                                    *)

\* A process that is going to save has the shelf as it is now.
CopyFresh == \A p \in Proc :
    Holds(proc[p]) => proc[p].seen = shelf.rows /\ shelf.state # "broken"

SavesItsRow == \A p \in Proc : proc[p].pc = "saving" => proc[p].tok \in proc[p].copy

NotMisled == \A p \in Proc : ~proc[p].misled

AloneInv ==
    /\ readable = TRUE /\ NotMisled
    /\ shelf.state = "absent" => shelf.rows = {}
    /\ known \subseteq Published
    /\ CopyFresh /\ SavesItsRow

LEMMA AloneInit == Init => AloneInv /\ LiveRowsKept
<1> SUFFICES ASSUME Init PROVE AloneInv /\ LiveRowsKept
  OBVIOUS
<1>1. \A p \in Proc : proc[p].pc = "idle"
  BY DEF Init, Idle
<1>2. NotMisled
  BY DEF Init, Idle, NotMisled
<1> QED BY <1>1, <1>2 DEF Init, AloneInv, CopyFresh, SavesItsRow, Holds, Published, Missing, LiveRowsKept

LEMMA LoadsAll ==
    ASSUME TypeOK, AloneInv, ~LoadFails(shelf)
    PROVE  Rows(shelf) = shelf.rows /\ shelf.state # "broken"
  BY DEF TypeOK, AloneInv, LoadFails, Rows, Opens, FileState

\* The only process, if it holds nothing or holds the shelf it has loaded.
LEMMA AloneProcess ==
    ASSUME AloneInv, \A p, q \in Proc : p = q, NEW p \in Proc,
           Holds(proc'[p]) => proc'[p].seen = shelf'.rows /\ shelf'.state # "broken",
           proc'[p].pc = "saving" => proc'[p].tok \in proc'[p].copy
    PROVE  CopyFresh' /\ SavesItsRow'
<1>1. \A q \in Proc : q = p
  OBVIOUS
<1> QED BY <1>1 DEF CopyFresh, SavesItsRow, Holds

LEMMA AloneEnded ==
    ASSUME TypeOK, AloneInv, \A p, q \in Proc : p = q, NEW p \in Proc, Ends(p)
    PROVE  CopyFresh' /\ SavesItsRow'
<1>1. proc'[p].pc = "idle"
  BY DEF TypeOK, Ends, Idle
<1> QED BY <1>1, AloneProcess DEF Holds

LEMMA AloneStep ==
    ASSUME Inv, AloneInv, [Next]_vars, \A p, q \in Proc : p = q
    PROVE  CopyFresh' /\ SavesItsRow'
<1> USE DEF Inv
<1>1. ASSUME NEW p \in Proc, Upload(p) PROVE CopyFresh' /\ SavesItsRow'
  <2>1. CASE UploadStart(p)
    <3>1. PICK sess, t :
            Continues(p, [Idle EXCEPT !.sess = sess, !.seen = sess, !.tok = t,
                !.met = Met(sessions),
                !.pc = IF t = NoToken THEN "queued" ELSE "asking status"])
      BY <2>1 DEF UploadStart
    <3>2. proc'[p].pc \in {"queued", "asking status"}
      BY <3>1 DEF Continues, Idle, TypeOK
    <3> QED BY <3>2, AloneProcess DEF Holds
  <2>2. CASE \E t \in Token : InitAnswered(p, t)
    <3>1. PICK t \in Token :
            Continues(p, [proc[p] EXCEPT !.sess = @ \cup {t}, !.pc = "sending", !.tok = t])
      BY <2>2 DEF InitAnswered
    <3>2. proc'[p].pc = "sending"
      BY <3>1 DEF Continues, TypeOK
    <3> QED BY <3>2, AloneProcess DEF Holds
  <2>3. ASSUME NEW sess, SaveSessions(p, sess)
        PROVE CopyFresh' /\ SavesItsRow'
    <3>1. Continues(p, [proc[p] EXCEPT !.sess = sess, !.pc = "sending"])
      BY <2>3 DEF SaveSessions
    <3>2. proc'[p].pc = "sending"
      BY <3>1 DEF Continues, TypeOK
    <3> QED BY <3>2, AloneProcess DEF Holds
  <2>4. CASE StatusAnswered(p) \/ ChunkConfirmed(p)
    BY <2>3, <2>4, AloneEnded DEF StatusAnswered, ChunkConfirmed
  <2>7. CASE CompleteAnswered(p)
    <3>1. proc'[p].pc = "recording"
      BY <2>7 DEF CompleteAnswered, Continues, Idle, TypeOK
    <3> QED BY <3>1, AloneProcess DEF Holds
  <2>5. CASE RecordLoad(p)
    <3>1. CASE LoadFails(shelf)
      BY <2>5, <3>1, AloneEnded DEF RecordLoad
    <3>2. CASE ~LoadFails(shelf)
      <4>a. Continues(p, [proc[p] EXCEPT !.pc = "saving", !.seen = Rows(shelf), !.met = Met(shelf),
                                        !.copy = Rows(shelf) \cup {proc[p].tok}])
        BY <2>5, <3>2 DEF RecordLoad
      <4>1. /\ proc'[p].pc = "saving" /\ proc'[p].seen = Rows(shelf)
            /\ proc'[p].tok \in proc'[p].copy
        BY <4>a DEF Continues, TypeOK
      <4>2. shelf' = shelf
        BY <2>5 DEF RecordLoad
      <4> QED BY <3>2, <4>1, <4>2, LoadsAll, AloneProcess
    <3> QED BY <3>1, <3>2
  <2>6. CASE RecordSave(p)
    BY <2>6, AloneEnded DEF RecordSave
  <2> QED BY <1>1, <2>1, <2>2, <2>4, <2>5, <2>6, <2>7 DEF Upload
<1>2. ASSUME NEW p \in Proc, List(p) PROVE CopyFresh' /\ SavesItsRow'
  <2>1. CASE LsLoad(p)
    <3>1. /\ proc'[p].pc = "asking" /\ proc'[p].seen = Rows(shelf) /\ shelf' = shelf
          /\ ~LoadFails(shelf)
      BY <2>1 DEF LsLoad, Continues, Idle, TypeOK
    <3> QED BY <3>1, LoadsAll, AloneProcess
  <2>2. CASE LsAsk(p)
    <3>1. PICK b, alive, misled : Asked(p, b, alive, misled)
      BY <2>2 DEF LsAsk
    <3>2. proc'[p].seen = proc[p].seen /\ proc'[p].pc \in {"asking", "pruning"}
      BY <3>1 DEF Asked, Continues, TypeOK
    <3>3. Holds(proc[p]) /\ shelf' = shelf
      BY <2>2 DEF LsAsk, At, Holds
    <3> QED BY <3>2, <3>3, AloneProcess DEF AloneInv, CopyFresh
  <2>3. CASE LsGivesUp(p) \/ LsSave(p)
    BY <2>3, AloneEnded DEF LsGivesUp, LsSave
  <2> QED BY <1>2, <2>1, <2>2, <2>3 DEF List
<1>3. ASSUME NEW p \in Proc, Delete(p) PROVE CopyFresh' /\ SavesItsRow'
  <2>1. ASSUME NEW t \in Token, NEW given \in {"none", "right", "wrong"}, RmLoad(p, t, given)
        PROVE CopyFresh' /\ SavesItsRow'
    <3>a. PICK rows, right, loaded :
            /\ Continues(p, [Idle EXCEPT !.pc = "deleting", !.tok = t, !.seen = rows, !.met = Met(shelf),
                               !.copy = rows, !.loaded = loaded, !.right = right])
            /\ rows = (IF LoadFails(shelf) THEN {} ELSE Rows(shelf))
            /\ loaded = ~LoadFails(shelf)
      BY <2>1 DEF RmLoad
    <3>b. shelf' = shelf
      BY <2>1 DEF RmLoad
    <3>1. /\ proc'[p].pc = "deleting" /\ proc'[p].loaded = ~LoadFails(shelf)
          /\ proc'[p].seen = (IF LoadFails(shelf) THEN {} ELSE Rows(shelf))
          /\ shelf' = shelf
      BY <3>a, <3>b DEF Continues, Idle, TypeOK
    <3> QED BY <3>1, LoadsAll, AloneProcess DEF Holds
  <2>2. CASE RmAnswered(p) /\ ~Ends(p)
    <3>a. /\ proc' = [proc EXCEPT ![p].pc = "removing"]
          /\ shelf' = shelf /\ proc[p].pc = "deleting"
      BY <2>2 DEF RmAnswered, At
    <3>1. /\ proc'[p].pc = "removing" /\ proc'[p].seen = proc[p].seen
          /\ proc'[p].loaded = proc[p].loaded
          /\ shelf' = shelf /\ proc[p].pc = "deleting"
      <4>1. proc'[p] = [proc[p] EXCEPT !.pc = "removing"]
        BY <3>a DEF TypeOK
      <4> QED BY <3>a, <4>1, ProcRecord DEF Records
    <3> QED BY <3>1, AloneProcess DEF AloneInv, CopyFresh, Holds
  <2>3. CASE RmSave(p)
    BY <2>3, AloneEnded DEF RmSave
  <2> QED BY <1>3, <2>1, <2>2, <2>3, AloneEnded DEF Delete
<1>4. ASSUME NEW p \in Proc, Shelf(p) PROVE CopyFresh' /\ SavesItsRow'
  <2>1. CASE ImportLoad(p)
    <3>1. /\ proc'[p].pc = "importing" /\ proc'[p].seen = Rows(shelf) /\ shelf' = shelf
          /\ ~LoadFails(shelf)
      BY <2>1 DEF ImportLoad, Continues, Idle, TypeOK
    <3> QED BY <3>1, LoadsAll, AloneProcess
  <2>2. CASE ExportLoad(p)
    <3>1. proc'[p].pc = "exporting"
      BY <2>2 DEF ExportLoad, Continues, Idle, TypeOK
    <3> QED BY <3>1, AloneProcess DEF Holds
  <2>3. CASE ImportSave(p) \/ ExportSave(p)
    BY <2>3, AloneEnded DEF ImportSave, ExportSave
  <2> QED BY <1>4, <2>1, <2>2, <2>3 DEF Shelf
<1>5. ASSUME NEW p \in Proc, Quit(p) \/ Crash(p) PROVE CopyFresh' /\ SavesItsRow'
  BY <1>5, AloneEnded DEF Quit, Crash
<1>6. CASE Garble
  <2>1. \A p \in Proc : proc[p].pc = "idle" /\ proc' = proc
    BY <1>6 DEF Garble, At
  <2> QED BY <2>1 DEF CopyFresh, SavesItsRow, Holds
<1>7. CASE UNCHANGED <<shelf, proc>>
  BY <1>7 DEF AloneInv, CopyFresh, SavesItsRow, Holds
<1>8. (\E t \in Token : Expire(t)) \/ Unreadable \/ UNCHANGED vars => UNCHANGED <<shelf, proc>>
  BY DEF Expire, Unreadable, vars
<1> QED BY <1>1, <1>2, <1>3, <1>4, <1>5, <1>6, <1>7, <1>8 DEF Next

\* A save of the only process keeps every live row.
LEMMA AloneSaveKeeps ==
    ASSUME Inv, AloneInv, NEW p \in Proc,
           RecordSave(p) \/ LsSave(p) \/ RmSave(p) \/ ImportSave(p),
           NEW t \in shelf.rows, srv[t] = "file"
    PROVE  t \in shelf'.rows
<1>a. ~proc[p].misled
  BY DEF AloneInv, NotMisled
<1>1. CASE RmSave(p) /\ ~proc[p].loaded
  BY <1>1 DEF RmSave
<1>2. CASE ~(RmSave(p) /\ ~proc[p].loaded)
  <2>1. Holds(proc[p])
    BY <1>2 DEF RecordSave, LsSave, RmSave, ImportSave, At, Holds
  <2>2. t \in proc[p].seen
    BY <2>1 DEF AloneInv, CopyFresh
  <2> QED BY <1>a, <2>2, SaveKeepsSeen
<1> QED BY <1>1, <1>2

\* Only an answer that is not the service's misleads.
LEMMA NotMisledStep ==
    ASSUME TypeOK, NotMisled, [Next]_vars, "unusable" \notin Faults PROVE NotMisled'
<1>1. ASSUME NEW p \in Proc, NEW r, ~r.misled, Continues(p, r) PROVE NotMisled'
  BY <1>1, Continued DEF NotMisled, Others
<1>2. ASSUME NEW p \in Proc, Ends(p) PROVE NotMisled'
  <2>1. Continues(p, Idle) /\ ~Idle.misled
    BY <1>2 DEF Ends, Continues, Idle
  <2> QED BY <1>1, <2>1
<1>3. ASSUME NEW p \in Proc, NEW sess, SaveSessions(p, sess) PROVE NotMisled'
  <2>1. Continues(p, [proc[p] EXCEPT !.sess = sess, !.pc = "sending"])
    BY <1>3 DEF SaveSessions
  <2>2. ~[proc[p] EXCEPT !.sess = sess, !.pc = "sending"].misled
    BY ProcRecord DEF Records, NotMisled
  <2> QED BY <1>1, <2>1, <2>2
<1>4. ASSUME NEW p \in Proc, Upload(p) PROVE NotMisled'
  <2>1. CASE UploadStart(p)
    <3>1. PICK sess, t :
            Continues(p, [Idle EXCEPT !.sess = sess, !.seen = sess, !.tok = t,
                !.met = Met(sessions),
                !.pc = IF t = NoToken THEN "queued" ELSE "asking status"])
      BY <2>1 DEF UploadStart
    <3> QED BY <3>1, <1>1 DEF Idle
  <2>4. CASE \E t \in Token : InitAnswered(p, t)
    <3>1. PICK t \in Token :
            Continues(p, [proc[p] EXCEPT !.sess = @ \cup {t}, !.pc = "sending", !.tok = t])
      BY <2>4 DEF InitAnswered
    <3>2. ~[proc[p] EXCEPT !.sess = @ \cup {t}, !.pc = "sending", !.tok = t].misled
      BY ProcRecord DEF Records, NotMisled
    <3> QED BY <1>1, <3>1, <3>2
  <2>2. CASE StatusAnswered(p) \/ ChunkConfirmed(p)
    BY <1>2, <1>3, <2>2 DEF StatusAnswered, ChunkConfirmed
  <2>6. CASE CompleteAnswered(p)
    <3>1. ~[Idle EXCEPT !.pc = "recording", !.tok = proc[p].tok].misled
      BY DEF Idle
    <3> QED BY <1>1, <2>6, <3>1 DEF CompleteAnswered
  <2>3. CASE RecordLoad(p)
    <3>1. ASSUME Continues(p, [proc[p] EXCEPT !.pc = "saving", !.seen = Rows(shelf), !.met = Met(shelf),
                                              !.copy = Rows(shelf) \cup {proc[p].tok}])
          PROVE  NotMisled'
      <4>1. ~[proc[p] EXCEPT !.pc = "saving", !.seen = Rows(shelf), !.met = Met(shelf),
                             !.copy = Rows(shelf) \cup {proc[p].tok}].misled
        BY ProcRecord DEF Records, NotMisled
      <4> QED BY <1>1, <3>1, <4>1
    <3> QED BY <1>2, <2>3, <3>1 DEF RecordLoad
  <2>5. CASE RecordSave(p)
    BY <1>2, <2>5 DEF RecordSave
  <2> QED BY <1>4, <2>1, <2>2, <2>3, <2>4, <2>5, <2>6 DEF Upload
<1>5. ASSUME NEW p \in Proc, List(p) PROVE NotMisled'
  <2>1. CASE LsLoad(p)
    BY <1>1, <2>1 DEF LsLoad, Idle
  <2>2. CASE LsAsk(p)
    <3>1. PICK b, alive : Asked(p, b, alive, FALSE)
      BY <2>2 DEF LsAsk
    <3>2. ~[proc[p] EXCEPT
              !.todo = @ \ b, !.alive = @ \cup alive, !.misled = @ \/ FALSE,
              !.pc = IF proc[p].todo = b THEN "pruning" ELSE "asking"].misled
      BY ProcRecord DEF Records, NotMisled
    <3> QED BY <1>1, <3>1, <3>2 DEF Asked
  <2> QED BY <1>2, <1>5, <2>1, <2>2 DEF List, LsGivesUp, LsSave
<1>6. ASSUME NEW p \in Proc, Delete(p) PROVE NotMisled'
  <2>1. CASE \E t \in Token, given \in {"none", "right", "wrong"} : RmLoad(p, t, given)
    <3>1. PICK t, rows, loaded, right :
            Continues(p, [Idle EXCEPT !.pc = "deleting", !.tok = t, !.seen = rows, !.met = Met(shelf),
                            !.copy = rows, !.loaded = loaded, !.right = right])
      BY <2>1 DEF RmLoad
    <3> QED BY <3>1, <1>1 DEF Idle
  <2>2. CASE RmAnswered(p)
    <3>1. ASSUME proc' = [proc EXCEPT ![p].pc = "removing"] PROVE NotMisled'
      <4>1. Continues(p, [proc[p] EXCEPT !.pc = "removing"])
        BY <3>1 DEF Continues
      <4>2. ~[proc[p] EXCEPT !.pc = "removing"].misled
        BY ProcRecord DEF Records, NotMisled
      <4> QED BY <1>1, <4>1, <4>2
    <3> QED BY <1>2, <2>2, <3>1 DEF RmAnswered
  <2> QED BY <1>2, <1>6, <2>1, <2>2 DEF Delete, RmSave
<1>7. ASSUME NEW p \in Proc, Shelf(p) PROVE NotMisled'
  <2>1. CASE ImportLoad(p) \/ ExportLoad(p)
    BY <1>1, <2>1 DEF ImportLoad, ExportLoad, Idle
  <2> QED BY <1>2, <1>7, <2>1 DEF Shelf, ImportSave, ExportSave
<1>8. CASE UNCHANGED proc
  BY <1>8 DEF NotMisled
<1>9. (\E t \in Token : Expire(t)) \/ Garble \/ Unreadable \/ UNCHANGED vars => UNCHANGED proc
  BY DEF Expire, Garble, Unreadable, vars
<1> QED BY <1>2, <1>4, <1>5, <1>6, <1>7, <1>8, <1>9 DEF Next, Quit, Crash

LEMMA AloneLive ==
    ASSUME Inv, AloneInv, LiveRowsKept, [Next]_vars, Forward
    PROVE  LiveRowsKept' /\ known' \subseteq Published'
<1> USE DEF Inv
<1>1. \A t \in shelf.rows : srv[t] = "file" => t \in shelf'.rows
  <2>1. CASE Garble
    BY <2>1, Typed DEF Garble, FileState
  <2> QED BY <2>1, ShelfWriters, AloneSaveKeeps
<1>2. \A t \in known : /\ t \in Published'
                       /\ srv'[t] = "file" => t \in shelf'.rows
  BY <1>1 DEF AloneInv, Published, Forward, LiveRowsKept, TypeOK
<1>3. known' = known \/ \E p \in Proc : RecordSave(p)
  BY DEF Next, vars, Upload, List, Delete, Shelf, UploadStart, InitAnswered, StatusAnswered,
     ChunkConfirmed, CompleteAnswered, RecordLoad, LsLoad, LsAsk, LsGivesUp,
     LsSave, RmLoad, RmAnswered, RmSave, ImportLoad, ImportSave, ExportLoad, ExportSave, Quit,
     Crash, Expire, Garble, Unreadable
<1>4. ASSUME NEW p \in Proc, RecordSave(p)
      PROVE  \A t \in known' : t \in Published' /\ (srv'[t] = "file" => t \in shelf'.rows)
  <2>1. proc[p].tok \in proc[p].copy /\ proc[p].tok \in Published /\ srv' = srv
    BY <1>4 DEF RecordSave, At, AloneInv, SavesItsRow, RowsPublished
  <2>2. \/ known' = known
        \/ shelf' = Saved(proc[p].copy) /\ known' = known \cup {proc[p].tok}
    BY <1>4 DEF RecordSave
  <2> QED BY <1>2, <2>1, <2>2 DEF Saved, Published
<1> QED BY <1>2, <1>3, <1>4 DEF LiveRowsKept

LEMMA AloneNext ==
    ASSUME Inv, AloneInv, LiveRowsKept, [Next]_vars, \A p, q \in Proc : p = q,
           "unusable" \notin Faults, "unreadable" \notin Faults
    PROVE  AloneInv' /\ LiveRowsKept'
<1> USE DEF Inv
<1>1. Forward
  BY StepForward
<1>2. readable' = TRUE
  BY DEF AloneInv, Next, vars, Upload, List, Delete, Shelf, UploadStart, InitAnswered,
     StatusAnswered, ChunkConfirmed, CompleteAnswered, RecordLoad, RecordSave, LsLoad, LsAsk,
     LsGivesUp, LsSave, RmLoad, RmAnswered, RmSave, ImportLoad, ImportSave, ExportLoad,
     ExportSave, Quit, Crash, Expire, Garble, Unreadable
<1>3. shelf'.state = "absent" => shelf'.rows = {}
  <2>1. CASE Garble
    BY <2>1, Typed DEF Garble, FileState, AloneInv
  <2>2. ASSUME NEW p \in Proc, RecordSave(p) \/ LsSave(p) \/ RmSave(p) \/ ImportSave(p),
               shelf' # shelf
        PROVE  shelf'.state = "ok"
    BY <2>2 DEF RecordSave, LsSave, RmSave, ImportSave, Written, Saved
  <2> QED BY <2>1, <2>2, ShelfWriters DEF AloneInv
<1>4. NotMisled'
  BY NotMisledStep DEF AloneInv
<1> QED BY <1>1, <1>2, <1>3, <1>4, AloneStep, AloneLive DEF AloneInv

LEMMA AloneAlways ==
    ASSUME \A p, q \in Proc : p = q, "unusable" \notin Faults, "unreadable" \notin Faults
    PROVE  Spec => [](Inv /\ AloneInv /\ LiveRowsKept)
<1>1. Init => Inv /\ AloneInv /\ LiveRowsKept
  BY InitInv, AloneInit
<1>2. Inv /\ AloneInv /\ LiveRowsKept /\ [Next]_vars => (Inv /\ AloneInv /\ LiveRowsKept)'
  BY NextInv, AloneNext
<1> QED BY <1>1, <1>2, PTL DEF Spec

\* One command at a time: an upload whose row was saved has that row, and so
\* its delete token, for as long as it is on the server.
THEOREM LiveRowsSafe ==
    ASSUME \A p, q \in Proc : p = q, "unusable" \notin Faults, "unreadable" \notin Faults
    PROVE  Spec => []LiveRowsKept
  BY AloneAlways, PTL

-----------------------------------------------------------------------------
(* sessions.json                                                            *)

\* The engine's steps are the only ones that write sessions.json, and what
\* the writer puts there is the table it works with.
LEMMA SessionWriters ==
    ASSUME Inv, [Next]_vars, sessions'.rows # sessions.rows
    PROVE  \E p \in Proc : \/ \E t \in Token : InitAnswered(p, t)
                           \/ StatusAnswered(p) \/ ChunkConfirmed(p) \/ CompleteAnswered(p)
<1>1. sessions' # sessions
  OBVIOUS
<1>2. ~Garble
  <2>1. SUFFICES ASSUME Garble PROVE FALSE
    OBVIOUS
  <2>2. PICK s \in {"ok", "broken"} : sessions' = [sessions EXCEPT !.state = s]
    BY <1>1, <2>1 DEF Garble
  <2>3. sessions \in FileState
    BY DEF Inv, TypeOK
  <2> QED BY <2>2, <2>3 DEF FileState
<1>3. ~(\E t \in Token : Expire(t)) /\ ~Unreadable /\ ~UNCHANGED vars
  BY <1>1 DEF Expire, Unreadable, vars
<1>4. PICK p \in Proc : Upload(p) \/ List(p) \/ Delete(p) \/ Shelf(p) \/ Quit(p) \/ Crash(p)
  BY <1>2, <1>3 DEF Next
<1>5. ~List(p) /\ ~Shelf(p)
  BY <1>1 DEF List, LsLoad, LsAsk, LsGivesUp, LsSave, Shelf, ImportLoad, ImportSave,
     ExportLoad, ExportSave
<1>6. ~Delete(p)
  BY <1>1 DEF Delete, RmLoad, RmAnswered, RmSave
<1>7. ~Quit(p) /\ ~Crash(p) /\ ~UploadStart(p) /\ ~RecordLoad(p) /\ ~RecordSave(p)
  BY <1>1 DEF Quit, Crash, UploadStart, RecordLoad, RecordSave
<1> QED BY <1>4, <1>5, <1>6, <1>7 DEF Upload

\* A save that changes the rows has put the new ones there.
LEMMA SavedRows ==
    ASSUME NEW rows, sessions' \in Written(sessions, rows), sessions'.rows # sessions.rows
    PROVE  sessions'.rows = rows
BY DEF Written, Saved

\* A session in progress on the server that a save loses was not in the table
\* of the process that saved.
LEMMA SessionLossStep ==
    ASSUME Inv, MetFaithful, [Next]_vars, NEW t \in sessions.rows \ sessions'.rows, srv'[t] = "open"
    PROVE  \E p \in Proc : /\ ~At(p, "idle")
                           /\ proc[p].met = "read" => t \notin proc[p].seen
                           /\ sessions'.rows \subseteq proc[p].sess \cup proc'[p].sess
<1>1. sessions'.rows # sessions.rows
  OBVIOUS
<1>2. TypeOK /\ HasUpload
  BY DEF Inv
<1>3. ASSUME NEW p \in Proc, proc[p].pc \in {"queued", "asking status", "sending"},
             t \notin proc[p].sess
      PROVE  ~At(p, "idle") /\ (proc[p].met = "read" => t \notin proc[p].seen)
  BY <1>3 DEF At, MetFaithful, MetOK
<1>4. ASSUME NEW p \in Proc, NEW u \in Token, InitAnswered(p, u)
      PROVE  /\ sessions'.rows = proc[p].sess \cup {u} /\ proc[p].pc = "queued"
             /\ sessions'.rows \subseteq proc[p].sess \cup proc'[p].sess
  <2> DEFINE r == [proc[p] EXCEPT !.sess = proc[p].sess \cup {u}, !.pc = "sending", !.tok = u]
  <2>1. /\ At(p, "queued") /\ Continues(p, r)
        /\ sessions' \in Written(sessions, proc[p].sess \cup {u})
    BY <1>4 DEF InitAnswered
  <2>2. sessions'.rows = proc[p].sess \cup {u}
    BY <1>1, <2>1, SavedRows
  <2>3. proc'[p] = r /\ proc[p] \in Records
    BY <1>2, <2>1, Continued, ProcRecord
  <2>4. proc'[p].sess = proc[p].sess \cup {u}
    BY <2>3 DEF Records
  <2> QED BY <2>1, <2>2, <2>4 DEF At
<1>5. ASSUME NEW p \in Proc, NEW sess, SaveSessions(p, sess)
      PROVE  sessions'.rows = sess /\ proc'[p].sess = sess
  <2>1. sessions'.rows = sess
    BY <1>1, <1>5, SavedRows DEF SaveSessions
  <2>2. proc'[p] = [proc[p] EXCEPT !.sess = sess, !.pc = "sending"] /\ proc[p] \in Records
    BY <1>2, <1>5, Continued, ProcRecord DEF SaveSessions
  <2>3. proc'[p].sess = sess
    BY <2>2 DEF Records
  <2> QED BY <2>1, <2>3
<1>6. PICK p \in Proc : \/ \E u \in Token : InitAnswered(p, u)
                        \/ StatusAnswered(p) \/ ChunkConfirmed(p) \/ CompleteAnswered(p)
  BY <1>1, SessionWriters
<1>7. CASE \E u \in Token : InitAnswered(p, u)
  BY <1>3, <1>4, <1>7
<1>8. CASE StatusAnswered(p)
  <2>1. At(p, "asking status") /\ proc[p].tok \in Token /\ srv' = srv
    BY <1>2, <1>8 DEF StatusAnswered, HasUpload, At
  <2>2. CASE srv[proc[p].tok] = "open"
    <3>1. sessions'.rows = proc[p].sess
      BY <1>5, <1>8, <2>2 DEF StatusAnswered
    <3> QED BY <1>3, <2>1, <3>1 DEF At
  <2>3. CASE srv[proc[p].tok] # "open"
    <3>1. sessions'.rows = proc[p].sess \ {proc[p].tok}
      BY <1>1, <1>8, <2>3, SavedRows DEF StatusAnswered
    <3>2. t # proc[p].tok
      BY <2>1, <2>3
    <3> QED BY <1>3, <2>1, <3>1, <3>2 DEF At
  <2> QED BY <2>2, <2>3
<1>9. CASE ChunkConfirmed(p)
  <2>1. At(p, "sending") /\ SaveSessions(p, proc[p].sess \cup {proc[p].tok})
    BY <1>9 DEF ChunkConfirmed
  <2>2. /\ sessions'.rows = proc[p].sess \cup {proc[p].tok}
        /\ proc'[p].sess = proc[p].sess \cup {proc[p].tok}
    BY <1>5, <2>1
  <2> QED BY <1>3, <2>1, <2>2 DEF At
<1>10. CASE CompleteAnswered(p)
  <2>1. /\ At(p, "sending") /\ srv' = [srv EXCEPT ![proc[p].tok] = "file"]
        /\ sessions' \in Written(sessions, proc[p].sess \ {proc[p].tok})
    BY <1>10 DEF CompleteAnswered
  <2>2. sessions'.rows = proc[p].sess \ {proc[p].tok}
    BY <1>1, <2>1, SavedRows
  <2>3. srv'[proc[p].tok] = "file"
    BY <1>2, <2>1 DEF HasUpload, At, TypeOK
  <2> QED BY <1>3, <2>1, <2>2, <2>3 DEF At
<1> QED BY <1>6, <1>7, <1>8, <1>9, <1>10

\* For any number of uploads side by side and every fault of the model: the
\* session of an upload that is in progress on the server leaves sessions.json
\* only by the save of a process that read the file before the session was in
\* it, or that could not open or not parse it.
THEOREM SessionLossExplained == Spec => SessionLossHasCause
<1> DEFINE Kept == \A t \in sessions.rows \ sessions'.rows : srv'[t] = "open" =>
                     \E p \in Proc : /\ ~At(p, "idle")
                                     /\ proc[p].met = "read" => t \notin proc[p].seen
                                     /\ sessions'.rows \subseteq proc[p].sess \cup proc'[p].sess
<1>1. Inv /\ MetFaithful /\ [Next]_vars => [Kept]_vars
  BY SessionLossStep
<1> QED BY <1>1, MetAlways, PTL DEF Spec, SessionLossHasCause

\* The types, for any number of processes and uploads: in particular no
\* command ever saves a row, or loads a session, that is not an upload's.
THEOREM StateFilesTyped == Spec => []TypeOK
BY InvAlways, PTL DEF Inv
=============================================================================
