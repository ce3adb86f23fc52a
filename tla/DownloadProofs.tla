---------------------------- MODULE DownloadProofs -----------------------------
(***************************************************************************)
(* What `get` promises, for any number of files, names, inodes and every   *)
(* fault.                                                                  *)
(*                                                                         *)
(* TypeOK holds of any number of commands.  The rest is promised to one    *)
(* command at a time (Alone), in any number of runs, and most of it only   *)
(* if no two links have one name (NamesApart): the .part file of a name is *)
(* then always the head of the one download of that name, and a command    *)
(* that has it open is where the file ends.                                *)
(***************************************************************************)
EXTENDS Download, SequenceTheorems, TLAPS

Alone == \A p, q \in Proc : p = q
NamesApart == \A k, l \in Link : NameOf[k] = NameOf[l] => k = l

Files == Inode \cup {NoFile}

\* A command has its .part file open, or a name to work on.
Using == {"asking", "receiving", "restarting", "renaming"}
Busy == Using \cup {"opening"}

Commands ==
    [pc : {"idle", "next"} \cup Busy, job : Seq(Link), rest : Seq(Link), force : BOOLEAN,
     attempt : {0, 1}, file : Files, append : BOOLEAN, refused : BOOLEAN, from : Nat, got : Nat,
     exit : {"ok", "error", "interrupted"}, interrupted : BOOLEAN, cut : BOOLEAN]

Working(c) ==
    /\ c.pc \in Using => c.file \in Inode
    /\ c.pc \in Busy => c.rest # <<>>

DiskTyped ==
    /\ target \in [Name -> Files] /\ part \in [Name -> Files]
    /\ data \in [Inode -> Seq(Link \X Nat)]

Typed ==
    /\ DiskTyped
    /\ proc \in [Proc -> Commands]
    /\ \A p \in Proc : Working(proc[p])

-----------------------------------------------------------------------------

LEMMA InitTyped == Init => Typed
  <1> SUFFICES ASSUME Init PROVE Typed
      OBVIOUS
  <1>1. DiskTyped
        BY DEF Init, DiskTyped, Files
  <1>2. Idle \in Commands
        BY DEF Idle, Commands, Files
  <1>3. Working(Idle)
        BY DEF Idle, Working, Using, Busy
  <1>4. proc = [p \in Proc |-> Idle]
        BY DEF Init
  <1> QED BY <1>1, <1>2, <1>3, <1>4 DEF Typed

\* What is known of the link that a busy command works on.
LEMMA CurrentLink ==
    ASSUME Typed, NEW p \in Proc, proc[p].pc \in Busy \/ proc[p].rest # <<>>
    PROVE  /\ Current(p) \in Link /\ NameAt(p) \in Name /\ Size[Current(p)] \in Nat
           /\ proc[p].rest \in Seq(Link) /\ proc[p].rest # <<>>
           /\ Tail(proc[p].rest) \in Seq(Link)
  <1>1. proc[p] \in Commands /\ Working(proc[p])
        BY DEF Typed
  <1>2. proc[p].rest \in Seq(Link)
        BY <1>1 DEF Commands
  <1>3. proc[p].rest # <<>>
        BY <1>1 DEF Working
  <1>4. Current(p) \in Link /\ Tail(proc[p].rest) \in Seq(Link)
        BY <1>2, <1>3 DEF Current
  <1> QED BY <1>2, <1>3, <1>4, NamesAssumption DEF NameAt

\* One command moves, the others stay.
LEMMA Moves ==
    ASSUME Typed, NEW p \in Proc, NEW r \in Commands, Becomes(p, r), Working(r), DiskTyped'
    PROVE  Typed'
  <1>1. proc \in [Proc -> Commands]
        BY DEF Typed
  <1>2. proc' = [proc EXCEPT ![p] = r]
        BY DEF Becomes
  <1>3. proc' \in [Proc -> Commands]
        BY <1>1, <1>2
  <1>4. \A q \in Proc : proc'[q] = IF q = p THEN r ELSE proc[q]
        BY <1>1, <1>2
  <1>5. \A q \in Proc : Working(proc'[q])
        BY <1>4 DEF Typed
  <1> QED BY <1>3, <1>5 DEF Typed, Working

\* The end of a member.
LEMMA FailedTyped ==
    ASSUME NEW p \in Proc, NEW cut \in BOOLEAN, Typed, proc[p].pc \in Busy, Failed(p, cut),
           UNCHANGED disk
    PROVE  Typed'
  <1>1. PICK c : c = proc[p]
        OBVIOUS
  <1>2. PICK e \in {"error", "interrupted"} :
            e = IF cut /\ ~IsCollection(p) THEN "interrupted" ELSE "error"
        OBVIOUS
  <1>3. c \in Commands /\ Tail(c.rest) \in Seq(Link)
        BY <1>1, CurrentLink DEF Typed
  <1> DEFINE r == [c EXCEPT !.pc = "next", !.rest = Tail(@), !.file = NoFile, !.exit = e,
                            !.cut = @ \/ cut]
  <1>4. Becomes(p, r)
        BY <1>1, <1>2 DEF Failed
  <1>5. NoFile \in Files
        BY DEF Files
  <1>6. (c.cut \/ cut) \in BOOLEAN
        BY <1>3, Zenon DEF Commands
  <1>7. r \in Commands
        BY <1>3, <1>5, <1>6 DEF Commands
  <1>8. r.pc = "next"
        BY <1>3 DEF Commands
  <1>9. Working(r)
        BY <1>8 DEF Working, Using, Busy
  <1>10. DiskTyped'
        BY DEF Typed, DiskTyped, disk
  <1> HIDE DEF r
  <1> QED BY <1>4, <1>7, <1>9, <1>10, Moves

\* The steps that leave the disk as it is: the command becomes a command.
LEMMA QuietTyped ==
    ASSUME NEW p \in Proc, Typed, UNCHANGED disk,
           NEW r \in Commands, Becomes(p, r), Working(r)
    PROVE  Typed'
  <1>1. DiskTyped'
        BY DEF Typed, DiskTyped, disk
  <1> QED BY <1>1, Moves

LEMMA BeginningTyped ==
    ASSUME NEW p \in Proc, Typed,
           \/ \E job \in Jobs, force \in Forces : Start(p, job, force)
           \/ Exit(p) \/ Crash(p)
    PROVE  Typed'
  <1>1. UNCHANGED disk
        BY DEF Start, Exit, Crash
  <1>2. Idle \in Commands
        BY DEF Idle, Commands, Files
  <1>3. CASE Exit(p) \/ Crash(p)
    <2>1. Becomes(p, Idle) /\ Working(Idle)
          BY <1>3 DEF Exit, Crash, Idle, Working, Using, Busy
    <2> QED BY <1>1, <1>2, <2>1, QuietTyped
  <1>4. ASSUME NEW job \in Jobs, NEW force \in Forces, Start(p, job, force)
        PROVE  Typed'
    <2> DEFINE r == [Idle EXCEPT !.pc = "next", !.job = job, !.rest = job, !.force = force]
    <2>1. job \in Seq(Link) /\ force \in BOOLEAN
          BY JobsAssumption
    <2>2. r \in Commands
          BY <1>2, <2>1 DEF Commands
    <2>3. r.pc = "next"
          BY DEF Idle
    <2>4. Working(r)
          BY <2>3 DEF Working, Using, Busy
    <2>5. Becomes(p, r)
          BY <1>4 DEF Start
    <2> HIDE DEF r
    <2> QED BY <1>1, <2>2, <2>4, <2>5, QuietTyped
  <1> QED BY <1>3, <1>4

LEMMA NextMemberTyped ==
    ASSUME NEW p \in Proc, Typed, NextMember(p) \/ StopCollection(p)
    PROVE  Typed'
  <1>1. UNCHANGED disk /\ proc[p].rest # <<>>
        BY DEF NextMember, StopCollection
  <1>2. PICK c : c = proc[p]
        OBVIOUS
  <1>3. c \in Commands /\ Tail(c.rest) \in Seq(Link) /\ c.rest # <<>>
        BY <1>1, <1>2, CurrentLink DEF Typed
  <1>4. \/ Becomes(p, [c EXCEPT !.rest = Tail(@), !.exit = "error"]) /\ c.pc = "next"
        \/ Becomes(p, [c EXCEPT !.pc = "opening", !.attempt = 0])
        \/ Becomes(p, [c EXCEPT !.rest = <<>>, !.exit = "interrupted"]) /\ c.pc = "next"
        BY <1>2 DEF NextMember, StopCollection, At
  <1>5. CASE c.pc = "next" /\ Becomes(p, [c EXCEPT !.rest = Tail(@), !.exit = "error"])
    <2> DEFINE r == [c EXCEPT !.rest = Tail(@), !.exit = "error"]
    <2>1. r \in Commands /\ r.pc = "next"
          BY <1>3, <1>5 DEF Commands
    <2>2. Working(r)
          BY <2>1 DEF Working, Using, Busy
    <2>3. Becomes(p, r)
          BY <1>5
    <2> HIDE DEF r
    <2> QED BY <1>1, <2>1, <2>2, <2>3, QuietTyped
  <1>6. CASE Becomes(p, [c EXCEPT !.pc = "opening", !.attempt = 0])
    <2> DEFINE r == [c EXCEPT !.pc = "opening", !.attempt = 0]
    <2>1. r \in Commands /\ r.pc = "opening" /\ r.rest # <<>>
          BY <1>3 DEF Commands, Busy
    <2>2. Working(r)
          BY <2>1 DEF Working, Using
    <2>3. Becomes(p, r)
          BY <1>6
    <2> HIDE DEF r
    <2> QED BY <1>1, <2>1, <2>2, <2>3, QuietTyped
  <1>7. CASE c.pc = "next" /\ Becomes(p, [c EXCEPT !.rest = <<>>, !.exit = "interrupted"])
    <2>5. <<>> \in Seq(Link)
          OBVIOUS
    <2>4. PICK none \in Seq(Link) : none = <<>>
          BY <2>5
    <2> DEFINE r == [c EXCEPT !.rest = none, !.exit = "interrupted"]
    <2>1. r \in Commands /\ r.pc = "next"
          BY <1>3, <1>7 DEF Commands
    <2>2. Working(r)
          BY <2>1 DEF Working, Using, Busy
    <2>3. Becomes(p, r)
          BY <1>7, <2>4
    <2> HIDE DEF r
    <2> QED BY <1>1, <2>1, <2>2, <2>3, QuietTyped
  <1> QED BY <1>4, <1>5, <1>6, <1>7

\* The steps of a transfer: OpenResume, Answer, Finish and Interrupt.
LEMMA TransferTyped ==
    ASSUME NEW p \in Proc, Typed,
           OpenResume(p) \/ Answer(p) \/ Finish(p) \/ Interrupt(p)
    PROVE  Typed'
  <1>1. UNCHANGED disk
        BY DEF OpenResume, Answer, Finish, Interrupt
  <1>2. PICK c : c = proc[p]
        OBVIOUS
  <1>3. c \in Commands /\ Working(c)
        BY <1>2 DEF Typed
  <1>4. CASE OpenResume(p)
    <2>1. PICK i : i = part[NameAt(p)]
          OBVIOUS
    <2>2. PICK n : n = Len(data[i])
          OBVIOUS
    <2> DEFINE r == [c EXCEPT !.pc = "asking", !.file = i, !.append = TRUE,
                              !.refused = FALSE, !.from = n, !.got = n]
    <2>3. Becomes(p, r) /\ c.pc = "opening" /\ i # NoFile
          BY <1>2, <1>4, <2>1, <2>2 DEF OpenResume, Resumable, At
    <2>4. NameAt(p) \in Name
          BY <1>2, <2>3, CurrentLink DEF Busy
    <2>5. i \in Inode
          BY <2>1, <2>3, <2>4 DEF Typed, DiskTyped, Files
    <2>6. n \in Nat
          BY <2>2, <2>5 DEF Typed, DiskTyped
    <2>7. r \in Commands /\ r.pc = "asking" /\ r.file \in Inode /\ r.rest = c.rest
          BY <1>3, <2>5, <2>6 DEF Commands, Files, Busy, Using
    <2>8. c.rest # <<>>
          BY <1>3, <2>3 DEF Working, Busy
    <2>9. Working(r)
          BY <2>7, <2>8 DEF Working
    <2> HIDE DEF r
    <2> QED BY <1>1, <2>3, <2>7, <2>9, QuietTyped
  <1>5. CASE Answer(p) \/ Finish(p)
    <2>1. PICK x \in Using : Becomes(p, [c EXCEPT !.pc = x]) /\ c.pc \in Using
          BY <1>2, <1>5 DEF Answer, Finish, At, Using
    <2>5. x \in Busy
          BY DEF Busy
    <2> DEFINE r == [c EXCEPT !.pc = x]
    <2>2. r \in Commands /\ r.file = c.file /\ r.rest = c.rest
          BY <1>3, <2>5 DEF Commands
    <2>3. Working(r)
          BY <1>3, <2>1, <2>2 DEF Working, Busy
    <2>4. Becomes(p, r)
          BY <2>1
    <2> HIDE DEF r
    <2> QED BY <1>1, <2>2, <2>3, <2>4, QuietTyped
  <1>6. CASE Interrupt(p)
    <2> DEFINE r == [c EXCEPT !.interrupted = TRUE]
    <2>1. r \in Commands /\ r.pc = c.pc /\ r.file = c.file /\ r.rest = c.rest
          BY <1>3 DEF Commands
    <2>2. Working(r)
          BY <1>3, <2>1 DEF Working
    <2>3. Becomes(p, r)
          BY <1>2, <1>6 DEF Interrupt
    <2> HIDE DEF r
    <2> QED BY <1>1, <2>1, <2>2, <2>3, QuietTyped
  <1> QED BY <1>4, <1>5, <1>6

\* The .part file is opened for writing: emptied, or created.
LEMMA OpenFreshStep ==
    ASSUME NEW p \in Proc, Typed, OpenFresh(p)
    PROVE  /\ Typed' /\ proc[p].pc = "opening" /\ target' = target
           /\ \E i \in Inode, b \in BOOLEAN :
                /\ Becomes(p, [proc[p] EXCEPT !.pc = "asking", !.file = i, !.append = FALSE,
                                              !.refused = b, !.from = 0, !.got = 0])
                /\ data' = [data EXCEPT ![i] = <<>>]
                /\ \/ i = part[NameAt(p)] /\ part' = part /\ b = Resumable(p)
                   \/ /\ part[NameAt(p)] = NoFile /\ i \in FreeInodes
                      /\ part' = [part EXCEPT ![NameAt(p)] = i]
  <1>1. proc[p].pc = "opening" /\ target' = target
        BY DEF OpenFresh, At
  <1>2. NameAt(p) \in Name
        BY <1>1, CurrentLink DEF Busy
  <1>3. PICK i \in Inode, b \in BOOLEAN :
                 /\ Opened(p, i, b)
                 /\ \/ i = part[NameAt(p)] /\ part' = part /\ b = Resumable(p)
                    \/ /\ part[NameAt(p)] = NoFile /\ i \in FreeInodes
                       /\ part' = [part EXCEPT ![NameAt(p)] = i]
    <2>1. CASE part[NameAt(p)] # NoFile
      <3>1. part[NameAt(p)] \in Inode
            BY <1>2, <2>1 DEF Typed, DiskTyped, Files
      <3>2. Opened(p, part[NameAt(p)], Resumable(p)) /\ part' = part
            BY <2>1 DEF OpenFresh
      <3>3. Resumable(p) \in BOOLEAN
            BY DEF Resumable
      <3> HIDE DEF Resumable
      <3> QED BY <3>1, <3>2, <3>3
    <2>2. CASE part[NameAt(p)] = NoFile
      <3>1. PICK i : i = CHOOSE f \in FreeInodes : TRUE
            OBVIOUS
      <3>2. /\ FreeInodes # {} /\ Opened(p, i, FALSE)
            /\ part' = [part EXCEPT ![NameAt(p)] = i]
            BY <2>2, <3>1 DEF OpenFresh
      <3>3. i \in FreeInodes
            BY <3>1, <3>2
      <3>4. i \in Inode
            BY <3>3 DEF FreeInodes
      <3> QED BY <2>2, <3>2, <3>3, <3>4
    <2> QED BY <2>1, <2>2
  <1>4. PICK c : c = proc[p]
        OBVIOUS
  <1>5. c \in Commands /\ c.rest # <<>>
        BY <1>1, <1>4 DEF Typed, Working, Busy
  <1> DEFINE r == [c EXCEPT !.pc = "asking", !.file = i, !.append = FALSE, !.refused = b,
                            !.from = 0, !.got = 0]
  <1>6. r \in Commands /\ r.file \in Inode /\ r.rest = c.rest
        BY <1>3, <1>5 DEF Commands, Files, Busy, Using
  <1>7. Working(r)
        BY <1>5, <1>6 DEF Working
  <1>8. data' = [data EXCEPT ![i] = <<>>] /\ Becomes(p, r)
        BY <1>3, <1>4 DEF Opened
  <1>9. DiskTyped'
    <2>1. <<>> \in Seq(Link \X Nat)
          OBVIOUS
    <2>2. data' \in [Inode -> Seq(Link \X Nat)]
          BY <1>8, <2>1 DEF Typed, DiskTyped
    <2>3. part' \in [Name -> Files]
          BY <1>2, <1>3 DEF Typed, DiskTyped, Files
    <2> QED BY <1>1, <2>2, <2>3 DEF Typed, DiskTyped
  <1>10. Typed'
    <2> HIDE DEF r
    <2> QED BY <1>6, <1>7, <1>8, <1>9, Moves
  <1>11. /\ Becomes(p, [proc[p] EXCEPT !.pc = "asking", !.file = i, !.append = FALSE,
                                       !.refused = b, !.from = 0, !.got = 0])
         /\ data' = [data EXCEPT ![i] = <<>>]
        BY <1>4, <1>8
  <1> QED BY <1>1, <1>3, <1>10, <1>11

LEMMA ReceiveTyped ==
    ASSUME NEW p \in Proc, Typed, Receive(p)
    PROVE  Typed'
  <1>1. PICK c : c = proc[p]
        OBVIOUS
  <1>2. c \in Commands /\ Working(c) /\ c.pc = "receiving"
        BY <1>1 DEF Typed, Receive, At
  <1>3. c.got \in Nat /\ c.file \in Inode /\ c.rest # <<>>
        BY <1>2 DEF Commands, Working, Using, Busy
  <1>4. PICK l : l = Current(p)
        OBVIOUS
  <1>5. l \in Link
        BY <1>1, <1>2, <1>4, CurrentLink DEF Busy, Using
  <1>6. PICK old : old = data[c.file]
        OBVIOUS
  <1>7. PICK byte : byte = <<l, c.got + 1>>
        OBVIOUS
  <1>8. old \in Seq(Link \X Nat) /\ byte \in Link \X Nat
    <2>1. data[c.file] \in Seq(Link \X Nat)
          BY <1>3 DEF Typed, DiskTyped
    <2>2. c.got + 1 \in Nat
          BY <1>3
    <2> QED BY <1>5, <1>6, <1>7, <2>1, <2>2
  <1>9. PICK new : new = IF c.append \/ c.got >= Len(old) THEN Append(old, byte)
                         ELSE [old EXCEPT ![c.got + 1] = byte]
        OBVIOUS
  <1>10. new \in Seq(Link \X Nat)
    <2>1. Append(old, byte) \in Seq(Link \X Nat)
          BY <1>8
    <2>2. CASE c.got >= Len(old)
          BY <1>9, <2>1, <2>2
    <2>3. CASE ~(c.got >= Len(old))
      <3>1. Len(old) \in Nat
            BY <1>8
      <3>2. c.got + 1 \in 1..Len(old)
            BY <1>3, <2>3, <3>1
      <3>3. [old EXCEPT ![c.got + 1] = byte] \in Seq(Link \X Nat)
            BY <1>8, <3>2, ExceptSeq
      <3> QED BY <1>9, <2>1, <3>3
    <2> QED BY <2>2, <2>3
  <1>11. data' = [data EXCEPT ![c.file] = new] /\ UNCHANGED <<target, part>>
        BY <1>1, <1>4, <1>6, <1>7, <1>9 DEF Receive
  <1>12. DiskTyped'
        BY <1>10, <1>11 DEF Typed, DiskTyped
  <1> DEFINE r == [c EXCEPT !.got = @ + 1]
  <1>13. r \in Commands /\ r.file = c.file /\ r.rest = c.rest
        BY <1>2, <1>3 DEF Commands
  <1>14. Working(r)
        BY <1>3, <1>13 DEF Working
  <1>15. Becomes(p, r)
        BY <1>1 DEF Receive
  <1> HIDE DEF r
  <1> QED BY <1>12, <1>13, <1>14, <1>15, Moves

LEMMA RestartTyped ==
    ASSUME NEW p \in Proc, Typed, Restart(p)
    PROVE  Typed'
  <1>1. PICK c : c = proc[p]
        OBVIOUS
  <1>2. c \in Commands /\ c.rest # <<>>
        BY <1>1 DEF Typed, Restart, At, Working, Using, Busy
  <1>3. NameAt(p) \in Name
        BY CurrentLink DEF Restart, At, Using, Busy
  <1>4. DiskTyped'
        BY <1>3 DEF Restart, Typed, DiskTyped, Files
  <1> DEFINE r == [c EXCEPT !.pc = "opening", !.attempt = 1, !.file = NoFile]
  <1>5. r \in Commands /\ r.pc = "opening" /\ r.rest = c.rest
        BY <1>2 DEF Commands, Files, Busy
  <1>6. Working(r)
        BY <1>2, <1>5 DEF Working, Using
  <1>7. Becomes(p, r)
        BY <1>1 DEF Restart
  <1> HIDE DEF r
  <1> QED BY <1>4, <1>5, <1>6, <1>7, Moves

\* The rename fails without a .part file, and is the end of a member.
LEMMA RenameTyped ==
    ASSUME NEW p \in Proc, Typed, Rename(p)
    PROVE  Typed'
  <1>1. PICK c : c = proc[p]
        OBVIOUS
  <1>2. c.pc = "renaming" /\ data' = data
        BY <1>1 DEF Rename, At
  <1>3. c \in Commands /\ Tail(c.rest) \in Seq(Link) /\ NameAt(p) \in Name
        BY <1>1, <1>2, CurrentLink DEF Typed, Busy, Using
  <1>4. CASE part[NameAt(p)] = NoFile
    <2>1. Failed(p, FALSE) /\ UNCHANGED disk
          BY <1>4 DEF Rename, disk
    <2>2. proc[p].pc \in Busy
          BY <1>1, <1>2 DEF Busy, Using
    <2> QED BY <2>1, <2>2, FailedTyped
  <1>5. CASE part[NameAt(p)] # NoFile
    <2> DEFINE r == [c EXCEPT !.pc = "next", !.rest = Tail(@), !.file = NoFile]
    <2>1. /\ target' = [target EXCEPT ![NameAt(p)] = part[NameAt(p)]]
          /\ part' = [part EXCEPT ![NameAt(p)] = NoFile] /\ Becomes(p, r)
          BY <1>1, <1>5 DEF Rename
    <2>2. DiskTyped'
          BY <1>2, <1>3, <2>1 DEF Typed, DiskTyped, Files
    <2>3. r \in Commands /\ r.pc = "next"
          BY <1>3 DEF Commands, Files
    <2>4. Working(r)
          BY <2>3 DEF Working, Using, Busy
    <2> HIDE DEF r
    <2> QED BY <2>1, <2>2, <2>3, <2>4, Moves
  <1> QED BY <1>4, <1>5

LEMMA BrokenTyped ==
    ASSUME NEW p \in Proc, Typed, OpenFails(p) \/ Break(p)
    PROVE  Typed'
  <1>1. UNCHANGED disk /\ proc[p].pc \in Busy
        BY DEF OpenFails, Break, At, Busy, Using
  <1>2. Failed(p, FALSE) \/ Failed(p, TRUE)
        BY DEF OpenFails, Break
  <1> QED BY <1>1, <1>2, FailedTyped

LEMMA NextTyped == Typed /\ [Next]_vars => Typed'
  <1> SUFFICES ASSUME Typed, [Next]_vars PROVE Typed'
      OBVIOUS
  <1>1. CASE UNCHANGED vars
        BY <1>1 DEF vars, Typed, DiskTyped, Working
  <1>2. ASSUME NEW p \in Proc,
               \/ \E job \in Jobs, force \in Forces : Start(p, job, force)
               \/ Works(p) \/ Interrupt(p) \/ Crash(p)
        PROVE  Typed'
        BY <1>2, BeginningTyped, NextMemberTyped, TransferTyped, OpenFreshStep, ReceiveTyped,
           RestartTyped, RenameTyped, BrokenTyped DEF Works
  <1> QED BY <1>1, <1>2 DEF Next

\* However many commands run at once, and whatever fails: a command that
\* asks, receives or renames has a file open and a link to work on.
THEOREM DownloadTyped == Spec => []TypeOK
  <1>1. Typed => TypeOK
    <2> SUFFICES ASSUME Typed PROVE TypeOK
        OBVIOUS
    <2>1. target \in [Name -> Inode \cup {NoFile}] /\ part \in [Name -> Inode \cup {NoFile}]
          BY DEF Typed, DiskTyped, Files
    <2>2. ASSUME NEW i \in Inode PROVE Len(data[i]) \in Nat
      <3>1. data[i] \in Seq(Link \X Nat)
            BY DEF Typed, DiskTyped
      <3> QED BY <3>1
    <2>3. ASSUME NEW p \in Proc
          PROVE  /\ proc[p].pc \in {"idle", "next"} \cup Busy
                 /\ proc[p].pc \in Using => proc[p].file \in Inode /\ proc[p].rest # <<>>
                 /\ proc[p].exit \in {"ok", "error", "interrupted"}
          BY DEF Typed, Commands, Working, Busy
    <2> QED BY <2>1, <2>2, <2>3 DEF TypeOK, Busy, Using
  <1> QED BY <1>1, InitTyped, NextTyped, PTL DEF Spec

-----------------------------------------------------------------------------
(***************************************************************************)
(* What a step does to the list of members.                                *)
(***************************************************************************)
Keeps(c, r) == r.job = c.job /\ r.force = c.force

\* The command starts, ends, or dies; takes up the next member; goes on with
\* it; drops it, or all that are left; has it.
Begins(r) == r.pc \in {"idle", "next"} /\ r.rest = r.job /\ r.exit = "ok"
Takes(c, r) ==
    /\ Keeps(c, r) /\ r.rest = c.rest /\ r.exit = c.exit /\ c.rest # <<>>
    /\ r.pc = "opening" /\ r.attempt = 0
    /\ c.force \/ target[NameOf[Head(c.rest)]] = NoFile
GoesOn(c, r) ==
    /\ Keeps(c, r) /\ r.rest = c.rest /\ r.exit = c.exit
    /\ r.pc = c.pc \/ {c.pc, r.pc} \subseteq Busy
Drops(c, r) ==
    /\ Keeps(c, r) /\ r.pc = "next" /\ r.exit # "ok"
    /\ c.rest # <<>> /\ r.rest \in {Tail(c.rest), <<>>}
Has(c, r) ==
    /\ Keeps(c, r) /\ r.pc = "next" /\ r.exit = c.exit
    /\ c.rest # <<>> /\ r.rest = Tail(c.rest)
    /\ c.pc = "renaming" /\ part[NameOf[Head(c.rest)]] # NoFile
    /\ target' = [target EXCEPT ![NameOf[Head(c.rest)]] = part[NameOf[Head(c.rest)]]]

Kinds(c, r) ==
    \/ UNCHANGED target /\ (Begins(r) \/ Takes(c, r) \/ GoesOn(c, r) \/ Drops(c, r))
    \/ Has(c, r)

\* The new record of a command.
LEMMA NewRecord ==
    ASSUME NEW p \in Proc, Typed, NEW r, Becomes(p, r)
    PROVE  proc'[p] = r /\ \A q \in Proc : q # p => proc'[q] = proc[q]
  BY DEF Typed, Becomes

\* Failed, in these terms.
LEMMA DropsMember ==
    ASSUME NEW p \in Proc, Typed, NEW cut, Failed(p, cut), proc[p].pc \in Busy
    PROVE  Drops(proc[p], proc'[p])
  <1>1. PICK c : c = proc[p]
        OBVIOUS
  <1>2. PICK e \in {"error", "interrupted"} :
            e = IF cut /\ ~IsCollection(p) THEN "interrupted" ELSE "error"
        OBVIOUS
  <1>3. PICK x : x = (c.cut \/ cut)
        OBVIOUS
  <1> DEFINE r == [c EXCEPT !.pc = "next", !.rest = Tail(@), !.file = NoFile, !.exit = e,
                            !.cut = x]
  <1>4. Becomes(p, r)
        BY <1>1, <1>2, <1>3 DEF Failed
  <1>5. c \in Commands /\ c.rest # <<>>
        BY <1>1 DEF Typed, Working
  <1>6. /\ r.job = c.job /\ r.force = c.force /\ r.pc = "next" /\ r.rest = Tail(c.rest)
        /\ r.exit = e
        BY <1>5 DEF Commands
  <1>7. Drops(c, r)
        BY <1>5, <1>6 DEF Drops, Keeps
  <1>8. proc'[p] = r
    <2> HIDE DEF r
    <2> QED BY <1>4, NewRecord
  <1> QED BY <1>1, <1>7, <1>8

\* The steps at both ends of a member.
LEMMA MemberKinds ==
    ASSUME NEW p \in Proc, Typed,
           \/ \E job \in Jobs, force \in Forces : Start(p, job, force)
           \/ Exit(p) \/ Crash(p) \/ NextMember(p) \/ StopCollection(p)
           \/ OpenFails(p) \/ Break(p) \/ Rename(p)
    PROVE  \E c, r : /\ c = proc[p] /\ r = proc'[p]
                     /\ \/ Begins(r) \/ Takes(c, r) \/ Drops(c, r)
                        \/ Has(c, r)
  <1>1. PICK c : c = proc[p]
        OBVIOUS
  <1>2. PICK r : r = proc'[p]
        OBVIOUS
  <1>3. c \in Commands /\ (c.pc \in Busy => c.rest # <<>>)
        BY <1>1 DEF Typed, Working
  <1>4. \A x : Becomes(p, x) => r = x
        BY <1>2, NewRecord
  <1>5. ASSUME NEW job \in Jobs, NEW force \in Forces, Start(p, job, force)
        PROVE  Begins(r)
    <2>1. r = [Idle EXCEPT !.pc = "next", !.job = job, !.rest = job, !.force = force]
          BY <1>4, <1>5 DEF Start
    <2> QED BY <2>1 DEF Idle, Begins
  <1>6. ASSUME Exit(p) \/ Crash(p)
        PROVE  Begins(r)
    <2>1. r = Idle
          BY <1>4, <1>6 DEF Exit, Crash
    <2> QED BY <2>1 DEF Idle, Begins
  <1>7. ASSUME NextMember(p)
        PROVE  Takes(c, r) \/ Drops(c, r)
    <2>1. c.pc = "next" /\ c.rest # <<>>
          BY <1>1, <1>7 DEF NextMember, At
    <2>2. CASE target[NameAt(p)] # NoFile /\ ~c.force
      <3>1. r = [c EXCEPT !.rest = Tail(@), !.exit = "error"]
            BY <1>1, <1>4, <1>7, <2>2 DEF NextMember
      <3>2. /\ r.rest = Tail(c.rest) /\ r.exit = "error" /\ r.pc = c.pc /\ r.job = c.job
            /\ r.force = c.force
            BY <1>3, <3>1 DEF Commands
      <3> QED BY <2>1, <3>2 DEF Drops, Keeps
    <2>3. CASE ~(target[NameAt(p)] # NoFile /\ ~c.force)
      <3>1. r = [c EXCEPT !.pc = "opening", !.attempt = 0]
            BY <1>1, <1>4, <1>7, <2>3 DEF NextMember
      <3>2. /\ r.rest = c.rest /\ r.exit = c.exit /\ r.pc = "opening" /\ r.job = c.job
            /\ r.force = c.force /\ r.attempt = 0
            BY <1>3, <3>1 DEF Commands
      <3>3. c.force \/ target[NameOf[Head(c.rest)]] = NoFile
            BY <1>1, <2>3 DEF NameAt, Current
      <3> QED BY <2>1, <3>2, <3>3 DEF Takes, Keeps
    <2> QED BY <2>2, <2>3
  <1>8. ASSUME StopCollection(p)
        PROVE  Drops(c, r)
    <2>1. c.pc = "next" /\ c.rest # <<>>
          BY <1>1, <1>8 DEF StopCollection, At
    <2>2. r = [c EXCEPT !.rest = <<>>, !.exit = "interrupted"]
          BY <1>1, <1>4, <1>8 DEF StopCollection
    <2>3. /\ r.rest = <<>> /\ r.exit = "interrupted" /\ r.pc = c.pc /\ r.job = c.job
          /\ r.force = c.force
          BY <1>3, <2>2 DEF Commands
    <2> QED BY <2>1, <2>3 DEF Drops, Keeps
  <1>9. ASSUME OpenFails(p) \/ Break(p)
        PROVE  Drops(c, r)
    <2>1. proc[p].pc \in Busy /\ (Failed(p, FALSE) \/ Failed(p, TRUE))
          BY <1>9 DEF OpenFails, Break, At, Busy, Using
    <2> QED BY <1>1, <1>2, <2>1, DropsMember
  <1>10. ASSUME Rename(p)
         PROVE  Drops(c, r) \/ Has(c, r)
    <2>1. c.pc = "renaming" /\ NameAt(p) = NameOf[Head(c.rest)]
          BY <1>1, <1>10 DEF Rename, At, NameAt, Current
    <2>2. CASE part[NameAt(p)] = NoFile
      <3>1. Failed(p, FALSE)
            BY <1>10, <2>2 DEF Rename
      <3> QED BY <1>1, <1>2, <2>1, <3>1, DropsMember DEF Busy, Using
    <2>3. CASE part[NameAt(p)] # NoFile
      <3>1. /\ r = [c EXCEPT !.pc = "next", !.rest = Tail(@), !.file = NoFile]
            /\ target' = [target EXCEPT ![NameAt(p)] = part[NameAt(p)]]
            BY <1>1, <1>4, <1>10, <2>3 DEF Rename
      <3>2. /\ r.rest = Tail(c.rest) /\ r.exit = c.exit /\ r.pc = "next" /\ r.job = c.job
            /\ r.force = c.force
            BY <1>3, <3>1 DEF Commands
      <3>3. c.rest # <<>>
            BY <1>3, <2>1 DEF Busy, Using
      <3> QED BY <2>1, <2>3, <3>1, <3>2, <3>3 DEF Has, Keeps
    <2> QED BY <2>2, <2>3
  <1> QED BY <1>1, <1>2, <1>5, <1>6, <1>7, <1>8, <1>9, <1>10

\* Every step is of one of these kinds; only the rename gives a name a file.
LEMMA StepKinds ==
    ASSUME NEW p \in Proc, Typed,
           \/ \E job \in Jobs, force \in Forces : Start(p, job, force)
           \/ Works(p) \/ Interrupt(p) \/ Crash(p)
    PROVE  Kinds(proc[p], proc'[p])
  <1>1. PICK c : c = proc[p]
        OBVIOUS
  <1>2. PICK r : r = proc'[p]
        OBVIOUS
  <1>3. c \in Commands /\ (c.pc \in Busy => c.rest # <<>>)
        BY <1>1 DEF Typed, Working
  <1>4. \A x : Becomes(p, x) => r = x
        BY <1>2, NewRecord
  <1>5. ASSUME OpenResume(p) \/ OpenFresh(p)
        PROVE  GoesOn(c, r)
    <2>1. c.pc = "opening"
          BY <1>1, <1>5 DEF OpenResume, OpenFresh, At
    <2>2. PICK i, b, f, x, y :
              r = [c EXCEPT !.pc = "asking", !.file = i, !.append = b, !.refused = f,
                            !.from = x, !.got = y]
      <3>1. CASE OpenResume(p)
        <4>1. PICK i, x : r = [c EXCEPT !.pc = "asking", !.file = i, !.append = TRUE,
                                        !.refused = FALSE, !.from = x, !.got = x]
              BY <1>1, <1>4, <3>1 DEF OpenResume
        <4> QED BY <4>1
      <3>2. CASE OpenFresh(p)
        <4>1. PICK i \in Inode, f \in BOOLEAN :
                  Becomes(p, [c EXCEPT !.pc = "asking", !.file = i, !.append = FALSE,
                                       !.refused = f, !.from = 0, !.got = 0])
              BY <1>1, <3>2, OpenFreshStep
        <4>2. r = [c EXCEPT !.pc = "asking", !.file = i, !.append = FALSE, !.refused = f,
                            !.from = 0, !.got = 0]
              BY <1>4, <4>1
        <4> QED BY <4>2
      <3> QED BY <1>5, <3>1, <3>2
    <2>3. /\ r.pc = "asking" /\ r.rest = c.rest /\ r.exit = c.exit /\ r.job = c.job
          /\ r.force = c.force
          BY <1>3, <2>2 DEF Commands
    <2> QED BY <2>1, <2>3 DEF GoesOn, Keeps, Busy, Using
  <1>6. ASSUME Answer(p) \/ Finish(p)
        PROVE  GoesOn(c, r)
    <2>1. PICK x \in Busy : r = [c EXCEPT !.pc = x] /\ c.pc \in Busy
          BY <1>1, <1>4, <1>6 DEF Answer, Finish, At, Busy, Using
    <2>2. r.pc = x /\ r.rest = c.rest /\ r.exit = c.exit /\ r.job = c.job /\ r.force = c.force
          BY <1>3, <2>1 DEF Commands
    <2> QED BY <2>1, <2>2 DEF GoesOn, Keeps
  <1>7. ASSUME Receive(p)
        PROVE  GoesOn(c, r)
    <2>1. r = [c EXCEPT !.got = @ + 1]
          BY <1>1, <1>4, <1>7 DEF Receive
    <2>2. r.pc = c.pc /\ r.rest = c.rest /\ r.exit = c.exit /\ r.job = c.job /\ r.force = c.force
          BY <1>3, <2>1 DEF Commands
    <2> QED BY <2>2 DEF GoesOn, Keeps
  <1>8. ASSUME Interrupt(p)
        PROVE  GoesOn(c, r)
    <2>1. r = [c EXCEPT !.interrupted = TRUE]
          BY <1>1, <1>4, <1>8 DEF Interrupt
    <2>2. r.pc = c.pc /\ r.rest = c.rest /\ r.exit = c.exit /\ r.job = c.job /\ r.force = c.force
          BY <1>3, <2>1 DEF Commands
    <2> QED BY <2>2 DEF GoesOn, Keeps
  <1>9. ASSUME Restart(p)
        PROVE  GoesOn(c, r)
    <2>1. c.pc = "restarting"
          BY <1>1, <1>9 DEF Restart, At
    <2>2. r = [c EXCEPT !.pc = "opening", !.attempt = 1, !.file = NoFile]
          BY <1>1, <1>4, <1>9 DEF Restart
    <2>3. /\ r.pc = "opening" /\ r.rest = c.rest /\ r.exit = c.exit /\ r.job = c.job
          /\ r.force = c.force
          BY <1>3, <2>2 DEF Commands
    <2> QED BY <2>1, <2>3 DEF GoesOn, Keeps, Busy, Using
  <1>10. \/ Rename(p) \/ UNCHANGED target
    <2>1. Works(p) => Rename(p) \/ UNCHANGED target
          BY DEF Works, NextMember, StopCollection, Exit, OpenResume, OpenFresh, OpenFails,
                 Answer, Receive, Finish, Break, Restart, disk
    <2> QED BY <2>1 DEF Start, Interrupt, Crash, disk
  <1>11. \/ Begins(r) \/ Takes(c, r) \/ GoesOn(c, r) \/ Drops(c, r)
         \/ Has(c, r)
         BY <1>1, <1>2, <1>5, <1>6, <1>7, <1>8, <1>9, MemberKinds DEF Works
  <1>12. ASSUME Rename(p), ~Has(c, r)
         PROVE  Kinds(c, r)
    <2>1. part[NameAt(p)] = NoFile
      <3>1. SUFFICES ASSUME part[NameAt(p)] # NoFile PROVE Has(c, r)
            BY <1>12
      <3>2. c.pc = "renaming" /\ NameAt(p) = NameOf[Head(c.rest)]
            BY <1>1, <1>12 DEF Rename, At, NameAt, Current
      <3>3. /\ r = [c EXCEPT !.pc = "next", !.rest = Tail(@), !.file = NoFile]
            /\ target' = [target EXCEPT ![NameAt(p)] = part[NameAt(p)]]
            BY <1>1, <1>4, <1>12, <3>1 DEF Rename
      <3>4. /\ r.rest = Tail(c.rest) /\ r.exit = c.exit /\ r.pc = "next" /\ r.job = c.job
            /\ r.force = c.force
            BY <1>3, <3>3 DEF Commands
      <3>5. c.rest # <<>>
            BY <1>3, <3>2 DEF Busy, Using
      <3> QED BY <3>1, <3>2, <3>3, <3>4, <3>5 DEF Has, Keeps
    <2>2. UNCHANGED target
          BY <1>12, <2>1 DEF Rename
    <2> QED BY <1>11, <1>12, <2>2 DEF Kinds
  <1>13. ASSUME UNCHANGED target \/ Has(c, r)
         PROVE  Kinds(c, r)
         BY <1>11, <1>13 DEF Kinds
  <1>14. Kinds(c, r)
         BY <1>10, <1>12, <1>13
  <1> QED BY <1>1, <1>2, <1>14

-----------------------------------------------------------------------------
(***************************************************************************)
(* One command at a time.  Without --force a member is taken up only while *)
(* there is no such file (Unforced); the members left are the last of the  *)
(* job, and unless one failed, all others have a file (Progress).  A .part *)
(* file is the head of the one download of its name, apart from all other  *)
(* files (DiskWhole), and a command that has it open has got as much as is *)
(* in it (AtWork).                                                         *)
(***************************************************************************)
Unforced(c) == c.pc \in Busy /\ ~c.force => target[NameOf[Head(c.rest)]] = NoFile

Suffix(s, j) == Len(s) <= Len(j) /\ \A k \in 1..Len(s) : s[k] = j[Len(j) - Len(s) + k]

Progress(c) ==
    /\ Suffix(c.rest, c.job)
    /\ c.exit = "ok" =>
         \A k \in 1..Len(c.job) - Len(c.rest) : target[NameOf[c.job[k]]] # NoFile

IsHead(s, l) == Len(s) <= Size[l] /\ \A i \in 1..Len(s) : s[i] = <<l, i>>

DiskWhole ==
    /\ \A n \in Name : part[n] # NoFile =>
         \E l \in Link : NameOf[l] = n /\ IsHead(data[part[n]], l)
    /\ \A m, n \in Name : part[m] # NoFile /\ part[m] = part[n] => m = n
    /\ \A m, n \in Name : part[m] # NoFile => target[n] # part[m]
    /\ TargetWhole

AtWork(c) ==
    LET n == NameOf[Head(c.rest)]
    IN  /\ c.pc = "opening" /\ c.attempt = 1 => part[n] = NoFile
        /\ c.pc \in Using => c.file = part[n]
        /\ c.pc \in {"asking", "receiving", "renaming"} => c.got = Len(data[part[n]])
        /\ c.pc = "renaming" => c.got = Size[Head(c.rest)]

AllUnforced == \A p \in Proc : Unforced(proc[p])
AllProgress == \A p \in Proc : Progress(proc[p])
WholeInv == DiskWhole /\ \A p \in Proc : AtWork(proc[p])

-----------------------------------------------------------------------------

LEMMA UnforcedInit == Init => AllUnforced
  <1> SUFFICES ASSUME Init PROVE AllUnforced
      OBVIOUS
  <1>1. Idle.pc \notin Busy
        BY DEF Idle, Busy, Using
  <1> QED BY <1>1 DEF Init, AllUnforced, Unforced

LEMMA UnforcedNext == Alone /\ Typed /\ AllUnforced /\ [Next]_vars => AllUnforced'
  <1> SUFFICES ASSUME Alone, Typed, AllUnforced, [Next]_vars PROVE AllUnforced'
      OBVIOUS
  <1>1. CASE UNCHANGED vars
        BY <1>1 DEF vars, AllUnforced, Unforced
  <1>2. ASSUME NEW p \in Proc,
               \/ \E job \in Jobs, force \in Forces : Start(p, job, force)
               \/ Works(p) \/ Interrupt(p) \/ Crash(p)
        PROVE  AllUnforced'
    <2>1. PICK c : c = proc[p]
          OBVIOUS
    <2>2. PICK r : r = proc'[p]
          OBVIOUS
    <2>3. Kinds(c, r) /\ Unforced(c)
          BY <1>2, <2>1, <2>2, StepKinds DEF AllUnforced
    <2>4. Unforced(r)'
      <3>1. CASE Begins(r) \/ Drops(c, r) \/ Has(c, r)
        <4>1. r.pc \notin Busy
              BY <3>1 DEF Begins, Drops, Has, Busy, Using
        <4> QED BY <4>1 DEF Unforced
      <3>2. CASE UNCHANGED target /\ Takes(c, r)
            BY <3>2 DEF Takes, Keeps, Unforced
      <3>3. CASE UNCHANGED target /\ GoesOn(c, r)
            BY <2>3, <3>3 DEF GoesOn, Keeps, Unforced
      <3> QED BY <2>3, <3>1, <3>2, <3>3 DEF Kinds
    <2>5. \A q \in Proc : proc'[q] = r
          BY <2>2 DEF Alone
    <2> QED BY <2>4, <2>5 DEF AllUnforced, Unforced
  <1> QED BY <1>1, <1>2 DEF Next

\* A finished file is replaced only by a command that was given --force, as
\* long as no other command puts one there between the check and the rename
\* (Alone; download_to_path).
THEOREM NothingLostUnforced == Alone => (Spec => NoForceNoLoss)
  <1> SUFFICES ASSUME Alone PROVE Spec => NoForceNoLoss
      OBVIOUS
  <1>1. Typed /\ AllUnforced /\ [Next]_vars =>
          [\A n \in Name : target[n] # NoFile /\ target'[n] # target[n] =>
             \E p \in Proc : proc'[p] # proc[p] /\ proc[p].force]_vars
    <2> SUFFICES ASSUME Typed, AllUnforced, Next,
                        NEW n \in Name, target[n] # NoFile, target'[n] # target[n]
                 PROVE  \E p \in Proc : proc'[p] # proc[p] /\ proc[p].force
        BY DEF vars
    <2>1. PICK p \in Proc :
                 \/ \E job \in Jobs, force \in Forces : Start(p, job, force)
                 \/ Works(p) \/ Interrupt(p) \/ Crash(p)
          BY DEF Next
    <2>2. PICK c : c = proc[p]
          OBVIOUS
    <2>3. PICK r : r = proc'[p]
          OBVIOUS
    <2>4. Has(c, r)
          BY <2>1, <2>2, <2>3, StepKinds DEF Kinds
    <2>5. n = NameOf[Head(c.rest)]
          BY <2>4 DEF Has, Typed, DiskTyped
    <2>6. Unforced(c) /\ c.pc \in Busy
          BY <2>2, <2>4 DEF AllUnforced, Has, Busy, Using
    <2>7. c.force
          BY <2>5, <2>6 DEF Unforced
    <2>8. r # c
          BY <2>4 DEF Has
    <2> QED BY <2>2, <2>3, <2>7, <2>8
  <1>2. Typed /\ AllUnforced /\ [Next]_vars => Typed' /\ AllUnforced'
        BY NextTyped, UnforcedNext
  <1>3. Init => Typed /\ AllUnforced
        BY InitTyped, UnforcedInit
  <1> QED BY <1>1, <1>2, <1>3, PTL DEF Spec, NoForceNoLoss

-----------------------------------------------------------------------------

\* The first of the members left is the one after those done.
LEMMA SuffixTail ==
    ASSUME NEW j \in Seq(Link), NEW s \in Seq(Link), s # <<>>, Suffix(s, j)
    PROVE  /\ Suffix(Tail(s), j) /\ Len(Tail(s)) = Len(s) - 1 /\ Len(s) \in 1..Len(j)
           /\ Head(s) = j[Len(j) - Len(s) + 1]
  <1>1. Len(s) \in Nat /\ Len(j) \in Nat /\ Len(s) >= 1 /\ Len(s) <= Len(j)
        BY DEF Suffix
  <1>2. Len(Tail(s)) = Len(s) - 1 /\ Head(s) = s[1]
        OBVIOUS
  <1>3. \A k \in 1..Len(Tail(s)) : Tail(s)[k] = s[k + 1]
        BY <1>1
  <1>4. ASSUME NEW k \in 1..Len(Tail(s))
        PROVE  Tail(s)[k] = j[Len(j) - Len(Tail(s)) + k]
    <2>1. k + 1 \in 1..Len(s)
          BY <1>1, <1>2
    <2>2. s[k + 1] = j[Len(j) - Len(s) + (k + 1)]
          BY <2>1 DEF Suffix
    <2>3. Len(j) - Len(s) + (k + 1) = Len(j) - Len(Tail(s)) + k
          BY <1>1, <1>2
    <2> QED BY <1>3, <2>2, <2>3
  <1>5. Suffix(Tail(s), j)
    <2>1. Len(Tail(s)) <= Len(j)
          BY <1>1, <1>2
    <2> QED BY <1>4, <2>1 DEF Suffix
  <1>6. Head(s) = j[Len(j) - Len(s) + 1]
    <2>1. 1 \in 1..Len(s)
          BY <1>1
    <2> QED BY <1>2, <2>1 DEF Suffix
  <1> QED BY <1>1, <1>2, <1>5, <1>6

LEMMA SuffixSelf ==
    ASSUME NEW j \in Seq(Link)
    PROVE  Suffix(j, j) /\ Suffix(<<>>, j) /\ Len(<<>>) = 0
  <1>1. Len(j) \in Nat
        OBVIOUS
  <1>2. \A k \in 1..Len(j) : Len(j) - Len(j) + k = k
        BY <1>1
  <1>3. Suffix(j, j)
        BY <1>1, <1>2 DEF Suffix
  <1>4. Len(<<>>) = 0 /\ 1..0 = {}
        OBVIOUS
  <1>5. Suffix(<<>>, j)
        BY <1>1, <1>4 DEF Suffix
  <1> QED BY <1>3, <1>4, <1>5

\* A finished name stays finished.
LEMMA TargetStays ==
    ASSUME Typed, NEW c \in Commands, NEW r, Kinds(c, r)
    PROVE  \A n \in Name : target[n] # NoFile => target'[n] # NoFile
  <1>1. CASE Has(c, r)
        BY <1>1 DEF Has, Typed, DiskTyped
  <1>2. CASE UNCHANGED target
        BY <1>2
  <1> QED BY <1>1, <1>2 DEF Kinds

\* What is done stays done, and the rename adds the first of those left.
LEMMA ProgressStep ==
    ASSUME Typed, NEW c \in Commands, NEW r \in Commands, Kinds(c, r), Progress(c)
    PROVE  Progress(r)'
  <1>1. /\ c.job \in Seq(Link) /\ c.rest \in Seq(Link)
        /\ r.job \in Seq(Link) /\ r.rest \in Seq(Link)
        BY DEF Commands
  <1>2. \A n \in Name : target[n] # NoFile => target'[n] # NoFile
        BY TargetStays
  <1>3. \A k \in 1..Len(c.job) : NameOf[c.job[k]] \in Name
        BY <1>1, NamesAssumption
  <1>4. Len(c.job) \in Nat /\ Len(c.rest) \in Nat /\ Suffix(c.rest, c.job)
        BY <1>1 DEF Progress
  <1>5. c.exit = "ok" =>
          \A k \in 1..Len(c.job) - Len(c.rest) : target'[NameOf[c.job[k]]] # NoFile
    <2> SUFFICES ASSUME c.exit = "ok", NEW k \in 1..Len(c.job) - Len(c.rest)
                 PROVE  target'[NameOf[c.job[k]]] # NoFile
        OBVIOUS
    <2>1. k \in 1..Len(c.job)
          BY <1>4
    <2> QED BY <1>2, <1>3, <2>1 DEF Progress
  <1>6. CASE Begins(r)
    <2>1. r.rest = r.job
          BY <1>6 DEF Begins
    <2>2. Suffix(r.rest, r.job)
          BY <1>1, <2>1, SuffixSelf
    <2>3. 1..(Len(r.job) - Len(r.rest)) = {}
      <3>1. Len(r.job) \in Nat
            BY <1>1
      <3> QED BY <2>1, <3>1
    <2> QED BY <2>2, <2>3 DEF Progress, Suffix
  <1>7. CASE Takes(c, r) \/ GoesOn(c, r)
    <2>1. r.job = c.job /\ r.rest = c.rest /\ r.exit = c.exit
          BY <1>7 DEF Takes, GoesOn, Keeps
    <2> QED BY <1>4, <1>5, <2>1 DEF Progress, Suffix
  <1>8. CASE Drops(c, r)
    <2>1. r.job = c.job /\ r.exit # "ok" /\ c.rest # <<>> /\ r.rest \in {Tail(c.rest), <<>>}
          BY <1>8 DEF Drops, Keeps
    <2>2. Suffix(r.rest, r.job)
          BY <1>1, <1>4, <2>1, SuffixTail, SuffixSelf
    <2> QED BY <2>1, <2>2 DEF Progress, Suffix
  <1>9. CASE Has(c, r)
    <2>1. r.job = c.job /\ r.exit = c.exit /\ c.rest # <<>> /\ r.rest = Tail(c.rest)
          BY <1>9 DEF Has, Keeps
    <2>2. /\ Suffix(r.rest, r.job) /\ Len(r.rest) = Len(c.rest) - 1
          /\ Len(c.rest) \in 1..Len(c.job) /\ Head(c.rest) = c.job[Len(c.job) - Len(c.rest) + 1]
          BY <1>1, <1>4, <2>1, SuffixTail
    <2>3. target'[NameOf[Head(c.rest)]] # NoFile
      <3>1. Head(c.rest) \in Link
            BY <1>1, <2>1
      <3>2. NameOf[Head(c.rest)] \in Name
            BY <3>1, NamesAssumption
      <3> QED BY <1>9, <3>2 DEF Has, Typed, DiskTyped
    <2>4. ASSUME r.exit = "ok", NEW k \in 1..Len(r.job) - Len(r.rest)
          PROVE  target'[NameOf[r.job[k]]] # NoFile
      <3>1. k \in 1..Len(c.job) - Len(c.rest) \/ k = Len(c.job) - Len(c.rest) + 1
            BY <1>4, <2>1, <2>2
      <3>2. CASE k \in 1..Len(c.job) - Len(c.rest)
            BY <1>5, <2>1, <2>4, <3>2
      <3>3. CASE k = Len(c.job) - Len(c.rest) + 1
            BY <2>1, <2>2, <2>3, <3>3
      <3> QED BY <3>1, <3>2, <3>3
    <2> QED BY <2>2, <2>4 DEF Progress, Suffix
  <1> QED BY <1>6, <1>7, <1>8, <1>9 DEF Kinds

LEMMA ProgressInit == Init => AllProgress
  <1> SUFFICES ASSUME Init, NEW p \in Proc PROVE Progress(proc[p])
      BY DEF AllProgress
  <1>1. proc[p] = Idle /\ Idle.rest = <<>> /\ Idle.job = <<>>
        BY DEF Init, Idle
  <1>2. <<>> \in Seq(Link)
        OBVIOUS
  <1>3. Suffix(<<>>, <<>>) /\ Len(<<>>) = 0
        BY <1>2, SuffixSelf
  <1>4. 1..Len(<<>>) - Len(<<>>) = {}
    <2>1. 1..0 - 0 = {}
          OBVIOUS
    <2> QED BY <1>3, <2>1
  <1> QED BY <1>1, <1>3, <1>4 DEF Progress

LEMMA ProgressNext == Alone /\ Typed /\ AllProgress /\ [Next]_vars => AllProgress'
  <1> SUFFICES ASSUME Alone, Typed, AllProgress, [Next]_vars PROVE AllProgress'
      OBVIOUS
  <1>1. CASE UNCHANGED vars
        BY <1>1 DEF vars, AllProgress, Progress, Suffix
  <1>2. ASSUME NEW p \in Proc,
               \/ \E job \in Jobs, force \in Forces : Start(p, job, force)
               \/ Works(p) \/ Interrupt(p) \/ Crash(p)
        PROVE  AllProgress'
    <2>1. PICK c : c = proc[p]
          OBVIOUS
    <2>2. PICK r : r = proc'[p]
          OBVIOUS
    <2>3. Kinds(c, r) /\ Progress(c)
          BY <1>2, <2>1, <2>2, StepKinds DEF AllProgress
    <2>4. Typed'
          BY NextTyped
    <2>5. c \in Commands /\ r \in Commands
          BY <2>1, <2>2, <2>4 DEF Typed
    <2>6. Progress(r)'
          BY <2>3, <2>5, ProgressStep
    <2>7. \A q \in Proc : proc'[q] = r
          BY <2>2 DEF Alone
    <2> QED BY <2>6, <2>7 DEF AllProgress, Progress
  <1> QED BY <1>1, <1>2 DEF Next

-----------------------------------------------------------------------------

\* The files of the names are left alone when another inode is written, and
\* a name takes over an inode that no name has.
LEMMA OtherFiles ==
    ASSUME Typed, DiskWhole, NEW m \in Name, NEW i \in Inode, UNCHANGED target,
           \A n \in Name \ {m} : part'[n] = part[n],
           \A f \in Inode \ {i} : data'[f] = data[f],
           part'[m] = i, i = part[m] \/ i \in FreeInodes,
           \E l \in Link : NameOf[l] = m /\ IsHead(data'[i], l)
    PROVE  DiskWhole'
  <1>1. target \in [Name -> Files] /\ part \in [Name -> Files] /\ i # NoFile
        BY NoFileAssumption DEF Typed, DiskTyped
  <1>2. /\ \A n \in Name : target[n] # i
        /\ \A n \in Name \ {m} : part[n] # i
        BY <1>1 DEF DiskWhole, FreeInodes
  <1>3. \A n \in Name \ {m} : part[n] # NoFile => data'[part[n]] = data[part[n]]
        BY <1>1, <1>2 DEF Files
  <1>4. \A n \in Name : target[n] # NoFile => data'[target[n]] = data[target[n]]
        BY <1>1, <1>2 DEF Files
  <1>5. ASSUME NEW n \in Name, part'[n] # NoFile
        PROVE  \E l \in Link : NameOf[l] = n /\ IsHead(data'[part'[n]], l)
    <2>1. CASE n = m
          BY <2>1
    <2>2. CASE n # m
      <3>1. PICK l \in Link : NameOf[l] = n /\ IsHead(data[part[n]], l)
            BY <1>5, <2>2 DEF DiskWhole
      <3> QED BY <1>3, <1>5, <2>2, <3>1
    <2> QED BY <2>1, <2>2
  <1>6. \A n, k \in Name : part'[n] # NoFile /\ part'[n] = part'[k] => n = k
        BY <1>2 DEF DiskWhole
  <1>7. \A n, k \in Name : part'[n] # NoFile => target'[k] # part'[n]
        BY <1>2 DEF DiskWhole
  <1>8. TargetWhole'
        BY <1>4 DEF DiskWhole, TargetWhole, Bytes
  <1> QED BY <1>5, <1>6, <1>7, <1>8 DEF DiskWhole, IsHead

\* A name gives its .part file up.
LEMMA PartGone ==
    ASSUME Typed, DiskWhole, NEW m \in Name, UNCHANGED data,
           part' = [part EXCEPT ![m] = NoFile],
           \/ UNCHANGED target
           \/ /\ part[m] # NoFile /\ target' = [target EXCEPT ![m] = part[m]]
              /\ \E l \in Link : NameOf[l] = m /\ data[part[m]] = Bytes(l)
    PROVE  DiskWhole'
  <1>1. target \in [Name -> Files] /\ part \in [Name -> Files]
        BY DEF Typed, DiskTyped
  <1>2. part'[m] = NoFile /\ \A n \in Name \ {m} : part'[n] = part[n]
        BY <1>1
  <1>3. \/ target' = target
        \/ /\ target'[m] = part[m] /\ \A n \in Name \ {m} : target'[n] = target[n]
           /\ part[m] # NoFile /\ \E l \in Link : NameOf[l] = m /\ data[part[m]] = Bytes(l)
        BY <1>1
  <1>4. ASSUME NEW n \in Name, part'[n] # NoFile
        PROVE  \E l \in Link : NameOf[l] = n /\ IsHead(data'[part'[n]], l)
    <2>1. part'[n] = part[n] /\ part[n] # NoFile
          BY <1>2, <1>4
    <2> QED BY <2>1 DEF DiskWhole
  <1>5. \A n, k \in Name : part'[n] # NoFile /\ part'[n] = part'[k] => n = k
        BY <1>2 DEF DiskWhole
  <1>6. \A n, k \in Name : part'[n] # NoFile => target'[k] # part'[n]
        BY <1>2, <1>3 DEF DiskWhole
  <1>7. TargetWhole'
        BY <1>3 DEF DiskWhole, TargetWhole, Bytes
  <1> QED BY <1>4, <1>5, <1>6, <1>7 DEF DiskWhole, IsHead

\* The files and the command at work are all there is.
LEMMA WholeAlone ==
    ASSUME Alone, NEW p \in Proc, DiskWhole', NEW r, r = proc'[p], AtWork(r)'
    PROVE  WholeInv'
  <1>1. \A q \in Proc : proc'[q] = r
        BY DEF Alone
  <1> QED BY <1>1 DEF WholeInv, AtWork

LEMMA SameDisk ==
    ASSUME WholeInv, UNCHANGED disk
    PROVE  DiskWhole'
  <1>1. target' = target /\ part' = part /\ data' = data
        BY DEF disk
  <1>2. DiskWhole
        BY DEF WholeInv
  <1>3. \A n \in Name : part'[n] # NoFile =>
            \E l \in Link : NameOf[l] = n /\ IsHead(data'[part'[n]], l)
        BY <1>1, <1>2 DEF DiskWhole
  <1>4. /\ \A m, n \in Name : part'[m] # NoFile /\ part'[m] = part'[n] => m = n
        /\ \A m, n \in Name : part'[m] # NoFile => target'[n] # part'[m]
        BY <1>1, <1>2 DEF DiskWhole
  <1>5. TargetWhole'
        BY <1>1, <1>2 DEF DiskWhole, TargetWhole, Bytes
  <1> QED BY <1>3, <1>4, <1>5 DEF DiskWhole, IsHead

\* A command between two members, or before its first attempt.
LEMMA BetweenMembers ==
    ASSUME Typed, NEW c, NEW r, Begins(r) \/ Takes(c, r) \/ Drops(c, r) \/ Has(c, r)
    PROVE  AtWork(r)'
  <1>1. \/ r.pc \in {"idle", "next"}
        \/ r.pc = "opening" /\ r.attempt = 0
        BY DEF Begins, Takes, Drops, Has
  <1> QED BY <1>1 DEF AtWork, Using

\* A command that appends has got as much as there is.
LEMMA OpenResumeWhole ==
    ASSUME Alone, Typed, WholeInv, NEW p \in Proc, OpenResume(p)
    PROVE  WholeInv'
  <1>1. PICK c : c = proc[p]
        OBVIOUS
  <1>2. PICK r : r = proc'[p]
        OBVIOUS
  <1>3. PICK n : n = NameAt(p)
        OBVIOUS
  <1>4. PICK got : got = Len(data[part[n]])
        OBVIOUS
  <1>5. r = [c EXCEPT !.pc = "asking", !.file = part[n], !.append = TRUE, !.refused = FALSE,
                      !.from = got, !.got = got]
        BY <1>1, <1>2, <1>3, <1>4, NewRecord DEF OpenResume
  <1>6. c \in Commands /\ n = NameOf[Head(c.rest)]
        BY <1>1, <1>3 DEF Typed, NameAt, Current
  <1>7. r.pc = "asking" /\ r.file = part[n] /\ r.got = got /\ r.rest = c.rest
        BY <1>5, <1>6 DEF Commands
  <1>8. UNCHANGED <<part, data>> /\ DiskWhole'
        BY SameDisk DEF OpenResume, disk
  <1>9. AtWork(r)'
        BY <1>4, <1>6, <1>7, <1>8 DEF AtWork, Using
  <1> QED BY <1>2, <1>8, <1>9, WholeAlone

\* An empty file is the head of any download.
LEMMA OpenFreshWhole ==
    ASSUME Alone, Typed, WholeInv, NEW p \in Proc, OpenFresh(p)
    PROVE  WholeInv'
  <1>1. PICK c : c = proc[p]
        OBVIOUS
  <1>2. PICK r : r = proc'[p]
        OBVIOUS
  <1>3. PICK n : n = NameAt(p)
        OBVIOUS
  <1>4. PICK l : l = Current(p)
        OBVIOUS
  <1>5. c.pc = "opening" /\ target' = target
        BY <1>1, OpenFreshStep
  <1>6. n \in Name /\ l \in Link /\ n = NameOf[l] /\ Size[l] \in Nat /\ l = Head(c.rest)
        BY <1>1, <1>3, <1>4, <1>5, CurrentLink DEF NameAt, Current, Busy
  <1>7. PICK i \in Inode, b \in BOOLEAN :
            /\ Becomes(p, [c EXCEPT !.pc = "asking", !.file = i, !.append = FALSE,
                                    !.refused = b, !.from = 0, !.got = 0])
            /\ data' = [data EXCEPT ![i] = <<>>]
            /\ \/ i = part[n] /\ part' = part
               \/ /\ i \in FreeInodes
                  /\ part' = [part EXCEPT ![n] = i]
        BY <1>1, <1>3, OpenFreshStep
  <1>8. data'[i] = <<>> /\ \A f \in Inode \ {i} : data'[f] = data[f]
        BY <1>7 DEF Typed, DiskTyped
  <1>9. /\ part'[n] = i /\ \A m \in Name \ {n} : part'[m] = part[m]
        /\ i = part[n] \/ i \in FreeInodes
        BY <1>6, <1>7 DEF Typed, DiskTyped
  <1>10. Len(data'[i]) = 0
        BY <1>8
  <1>11. IsHead(data'[i], l)
        BY <1>6, <1>10 DEF IsHead
  <1>12. DiskWhole'
        BY <1>5, <1>6, <1>8, <1>9, <1>11, OtherFiles DEF WholeInv
  <1>13. r = [c EXCEPT !.pc = "asking", !.file = i, !.append = FALSE, !.refused = b,
                       !.from = 0, !.got = 0]
        BY <1>2, <1>7, NewRecord
  <1>14. c \in Commands
        BY <1>1 DEF Typed
  <1>15. r.pc = "asking" /\ r.file = i /\ r.got = 0 /\ r.rest = c.rest
        BY <1>13, <1>14 DEF Commands
  <1>16. AtWork(r)'
        BY <1>6, <1>9, <1>10, <1>15 DEF AtWork, Using
  <1> QED BY <1>2, <1>12, <1>16, WholeAlone

LEMMA AnswerWhole ==
    ASSUME Alone, Typed, WholeInv, NEW p \in Proc, Answer(p) \/ Finish(p)
    PROVE  WholeInv'
  <1>1. PICK c : c = proc[p]
        OBVIOUS
  <1>2. PICK r : r = proc'[p]
        OBVIOUS
  <1>3. c \in Commands /\ AtWork(c)
        BY <1>1 DEF Typed, WholeInv
  <1>4. \/ c.pc = "asking" /\ r = [c EXCEPT !.pc = "receiving"]
        \/ c.pc = "asking" /\ r = [c EXCEPT !.pc = "restarting"]
        \/ /\ c.pc = "receiving" /\ r = [c EXCEPT !.pc = "renaming"]
           /\ c.got = Size[Head(c.rest)]
        BY <1>1, <1>2, NewRecord DEF Answer, Finish, At, Current
  <1>5. /\ r.file = c.file /\ r.got = c.got /\ r.rest = c.rest
        /\ c.pc \in {"asking", "receiving"}
        /\ r.pc \in {"receiving", "restarting", "renaming"}
        /\ r.pc = "renaming" => c.got = Size[Head(c.rest)]
        BY <1>3, <1>4 DEF Commands
  <1>6. UNCHANGED <<part, data>> /\ DiskWhole'
        BY SameDisk DEF Answer, Finish, disk
  <1>7. AtWork(r)'
        BY <1>3, <1>5, <1>6 DEF AtWork, Using
  <1> QED BY <1>2, <1>6, <1>7, WholeAlone

LEMMA InterruptWhole ==
    ASSUME Alone, Typed, WholeInv, NEW p \in Proc, Interrupt(p)
    PROVE  WholeInv'
  <1>1. PICK c : c = proc[p]
        OBVIOUS
  <1>2. PICK r : r = proc'[p]
        OBVIOUS
  <1>3. c \in Commands /\ AtWork(c)
        BY <1>1 DEF Typed, WholeInv
  <1>4. r = [c EXCEPT !.interrupted = TRUE]
        BY <1>1, <1>2, NewRecord DEF Interrupt
  <1>5. /\ r.file = c.file /\ r.got = c.got /\ r.rest = c.rest /\ r.pc = c.pc
        /\ r.attempt = c.attempt
        BY <1>3, <1>4 DEF Commands
  <1>6. UNCHANGED <<part, data>> /\ DiskWhole'
        BY SameDisk DEF Interrupt, disk
  <1>7. AtWork(r)'
        BY <1>3, <1>5, <1>6 DEF AtWork, Using
  <1> QED BY <1>2, <1>6, <1>7, WholeAlone

\* With one download per name, a byte is appended to the head of its own
\* download.
LEMMA ReceiveWhole ==
    ASSUME Alone, NamesApart, Typed, WholeInv, NEW p \in Proc, Receive(p)
    PROVE  WholeInv'
  <1>1. PICK c : c = proc[p]
        OBVIOUS
  <1>2. PICK r : r = proc'[p]
        OBVIOUS
  <1>3. PICK l : l = Head(c.rest)
        OBVIOUS
  <1>4. PICK n : n = NameOf[l]
        OBVIOUS
  <1>5. c \in Commands /\ c.pc = "receiving" /\ AtWork(c) /\ Working(c)
        BY <1>1 DEF Typed, WholeInv, Receive, At
  <1>6. n \in Name /\ l \in Link /\ Size[l] \in Nat
        BY <1>1, <1>3, <1>4, <1>5, CurrentLink DEF NameAt, Current, Busy, Using
  <1>7. PICK i \in Inode : i = c.file
        BY <1>5 DEF Working, Using
  <1>8. PICK old \in Seq(Link \X Nat) : old = data[i]
        BY DEF Typed, DiskTyped
  <1>9. i = part[n] /\ c.got = Len(old) /\ Len(old) \in Nat
        BY <1>3, <1>4, <1>5, <1>7, <1>8 DEF AtWork, Using
  <1>10. c.got < Size[l] /\ UNCHANGED <<target, part>>
        BY <1>1, <1>3 DEF Receive, Current
  <1>11. PICK byte : byte = <<l, c.got + 1>>
        OBVIOUS
  <1>12. byte \in Link \X Nat
        BY <1>6, <1>9, <1>11
  <1>13. data' = [data EXCEPT ![i] = Append(old, byte)]
    <2>1. data' = [data EXCEPT ![i] = IF c.append \/ c.got >= Len(old) THEN Append(old, byte)
                                      ELSE [old EXCEPT ![c.got + 1] = byte]]
          BY <1>1, <1>3, <1>7, <1>8, <1>11 DEF Receive, Current
    <2>2. c.got >= Len(old)
          BY <1>9
    <2> QED BY <2>1, <2>2
  <1>14. PICK new : new = Append(old, byte)
        OBVIOUS
  <1>15. data'[i] = new /\ \A f \in Inode \ {i} : data'[f] = data[f]
        BY <1>13, <1>14 DEF Typed, DiskTyped
  <1>16. /\ Len(new) = Len(old) + 1 /\ \A k \in 1..Len(old) : new[k] = old[k]
         /\ new[Len(old) + 1] = byte
        BY <1>8, <1>12, <1>14
  <1>17. IsHead(old, l)
    <2>1. part[n] # NoFile
          BY <1>7, <1>9, NoFileAssumption
    <2>2. PICK k \in Link : NameOf[k] = n /\ IsHead(data[part[n]], k)
          BY <1>6, <2>1 DEF WholeInv, DiskWhole
    <2>3. k = l
          BY <1>4, <1>6, <2>2 DEF NamesApart
    <2> QED BY <1>8, <1>9, <2>2, <2>3
  <1>18. IsHead(new, l)
    <2>1. Len(new) <= Size[l]
          BY <1>6, <1>9, <1>10, <1>16
    <2>2. ASSUME NEW k \in 1..Len(new) PROVE new[k] = <<l, k>>
      <3>1. k \in 1..Len(old) \/ k = Len(old) + 1
            BY <1>9, <1>16
      <3>2. CASE k \in 1..Len(old)
            BY <1>16, <1>17, <3>2 DEF IsHead
      <3>3. CASE k = Len(old) + 1
            BY <1>9, <1>11, <1>16, <3>3
      <3> QED BY <3>1, <3>2, <3>3
    <2> QED BY <2>1, <2>2 DEF IsHead
  <1>19. DiskWhole'
    <2>1. /\ part'[n] = i /\ i = part[n]
          /\ \A m \in Name \ {n} : part'[m] = part[m]
          BY <1>9, <1>10
    <2>2. \E k \in Link : NameOf[k] = n /\ IsHead(data'[i], k)
          BY <1>4, <1>6, <1>15, <1>18
    <2> QED BY <1>6, <1>10, <1>15, <2>1, <2>2, OtherFiles DEF WholeInv
  <1>20. r = [c EXCEPT !.got = @ + 1]
        BY <1>1, <1>2, NewRecord DEF Receive
  <1>21. r.pc = "receiving" /\ r.file = i /\ r.got = c.got + 1 /\ r.rest = c.rest
        BY <1>5, <1>7, <1>20 DEF Commands
  <1>22. Len(data'[part'[n]]) = c.got + 1 /\ part'[n] = i
        BY <1>9, <1>10, <1>15, <1>16
  <1>23. AtWork(r)'
        BY <1>3, <1>4, <1>21, <1>22 DEF AtWork
  <1> QED BY <1>2, <1>19, <1>23, WholeAlone

LEMMA RestartWhole ==
    ASSUME Alone, Typed, WholeInv, NEW p \in Proc, Restart(p)
    PROVE  WholeInv'
  <1>1. PICK c : c = proc[p]
        OBVIOUS
  <1>2. PICK r : r = proc'[p]
        OBVIOUS
  <1>3. PICK n : n = NameAt(p)
        OBVIOUS
  <1>4. c \in Commands /\ c.pc = "restarting"
        BY <1>1 DEF Typed, Restart, At
  <1>5. n \in Name /\ n = NameOf[Head(c.rest)]
        BY <1>1, <1>3, <1>4, CurrentLink DEF NameAt, Current, Busy, Using
  <1>6. part' = [part EXCEPT ![n] = NoFile] /\ UNCHANGED <<target, data>>
        BY <1>3 DEF Restart
  <1>7. DiskWhole'
        BY <1>5, <1>6, PartGone DEF WholeInv
  <1>8. r = [c EXCEPT !.pc = "opening", !.attempt = 1, !.file = NoFile]
        BY <1>1, <1>2, NewRecord DEF Restart
  <1>9. r.pc = "opening" /\ r.rest = c.rest
        BY <1>4, <1>8 DEF Commands
  <1>10. part'[n] = NoFile
        BY <1>5, <1>6 DEF Typed, DiskTyped
  <1>11. AtWork(r)'
        BY <1>5, <1>9, <1>10 DEF AtWork, Using
  <1> QED BY <1>2, <1>7, <1>11, WholeAlone

\* What is renamed is as long as the download, and its head.
LEMMA RenameDisk ==
    ASSUME NamesApart, Typed, WholeInv, NEW p \in Proc, Rename(p)
    PROVE  DiskWhole'
  <1>1. PICK c : c = proc[p]
        OBVIOUS
  <1>2. PICK l : l = Head(c.rest)
        OBVIOUS
  <1>3. PICK n : n = NameOf[l]
        OBVIOUS
  <1>4. c.pc = "renaming" /\ AtWork(c) /\ data' = data /\ n = NameAt(p)
        BY <1>1, <1>2, <1>3 DEF WholeInv, Rename, At, NameAt, Current
  <1>5. n \in Name /\ l \in Link /\ Size[l] \in Nat
        BY <1>1, <1>2, <1>4, CurrentLink DEF Current, Busy, Using
  <1>6. CASE part[n] = NoFile
    <2>1. UNCHANGED disk
          BY <1>4, <1>6 DEF Rename, disk
    <2> QED BY <2>1, SameDisk
  <1>7. CASE part[n] # NoFile
    <2>1. /\ target' = [target EXCEPT ![n] = part[n]]
          /\ part' = [part EXCEPT ![n] = NoFile]
          BY <1>4, <1>7 DEF Rename
    <2>2. PICK s : s = data[part[n]]
          OBVIOUS
    <2>3. part[n] \in Inode
          BY <1>5, <1>7 DEF Typed, DiskTyped, Files
    <2>4. s \in Seq(Link \X Nat)
          BY <2>2, <2>3 DEF Typed, DiskTyped
    <2>5. Len(s) = Size[l]
          BY <1>2, <1>3, <1>4, <2>2 DEF AtWork
    <2>6. IsHead(s, l)
      <3>1. PICK k \in Link : NameOf[k] = n /\ IsHead(data[part[n]], k)
            BY <1>5, <1>7 DEF WholeInv, DiskWhole
      <3>2. k = l
            BY <1>3, <1>5, <3>1 DEF NamesApart
      <3> QED BY <2>2, <3>1, <3>2
    <2>7. s = Bytes(l)
      <3>1. s = [k \in 1..Len(s) |-> s[k]]
            BY <2>4
      <3>2. \A k \in 1..Size[l] : s[k] = <<l, k>>
            BY <2>5, <2>6 DEF IsHead
      <3> QED BY <2>5, <3>1, <3>2 DEF Bytes
    <2>8. \E k \in Link : NameOf[k] = n /\ data[part[n]] = Bytes(k)
          BY <1>3, <1>5, <2>2, <2>7
    <2> QED BY <1>4, <1>5, <1>7, <2>1, <2>8, PartGone DEF WholeInv
  <1> QED BY <1>6, <1>7

LEMMA WholeInit == Init => WholeInv
  <1> SUFFICES ASSUME Init PROVE WholeInv
      OBVIOUS
  <1>1. \A n \in Name : part[n] = NoFile /\ target[n] = NoFile
        BY DEF Init
  <1>2. DiskWhole
        BY <1>1 DEF DiskWhole, TargetWhole
  <1>3. \A p \in Proc : proc[p] = Idle
        BY DEF Init
  <1>4. AtWork(Idle)
        BY DEF AtWork, Idle, Using
  <1> QED BY <1>2, <1>3, <1>4 DEF WholeInv

LEMMA WholeNext == Alone /\ NamesApart /\ Typed /\ WholeInv /\ [Next]_vars => WholeInv'
  <1> SUFFICES ASSUME Alone, NamesApart, Typed, WholeInv, [Next]_vars PROVE WholeInv'
      OBVIOUS
  <1>1. CASE UNCHANGED vars
    <2>1. DiskWhole'
          BY <1>1, SameDisk DEF vars, disk
    <2>2. UNCHANGED <<part, data, proc>>
          BY <1>1 DEF vars
    <2> QED BY <2>1, <2>2 DEF WholeInv, AtWork
  <1>2. ASSUME NEW p \in Proc,
               \/ \E job \in Jobs, force \in Forces : Start(p, job, force)
               \/ Works(p) \/ Interrupt(p) \/ Crash(p)
        PROVE  WholeInv'
    <2>1. PICK c : c = proc[p]
          OBVIOUS
    <2>2. PICK r : r = proc'[p]
          OBVIOUS
    <2>4. CASE \/ OpenResume(p) \/ OpenFresh(p) \/ Answer(p) \/ Finish(p) \/ Interrupt(p)
               \/ Receive(p) \/ Restart(p)
          BY <2>4, OpenResumeWhole, OpenFreshWhole, AnswerWhole, InterruptWhole, ReceiveWhole,
             RestartWhole
    <2>5. CASE \/ \E job \in Jobs, force \in Forces : Start(p, job, force)
               \/ Exit(p) \/ Crash(p) \/ NextMember(p) \/ StopCollection(p)
               \/ OpenFails(p) \/ Break(p) \/ Rename(p)
      <3>1. AtWork(r)'
            BY <2>1, <2>2, <2>5, MemberKinds, BetweenMembers
      <3>2. CASE Rename(p)
            BY <2>2, <3>1, <3>2, RenameDisk, WholeAlone
      <3>3. CASE ~Rename(p)
        <4>1. UNCHANGED disk
              BY <2>5, <3>3 DEF Start, NextMember, StopCollection, Exit, Crash, OpenFails, Break
        <4> QED BY <2>2, <3>1, <4>1, SameDisk, WholeAlone
      <3> QED BY <3>2, <3>3
    <2> QED BY <1>2, <2>4, <2>5 DEF Works
  <1> QED BY <1>1, <1>2 DEF Next

\* Typed, AllProgress and WholeInv are one inductive invariant.
GetInv == Typed /\ AllProgress /\ WholeInv

LEMMA InitGet == Init => GetInv
  BY InitTyped, ProgressInit, WholeInit DEF GetInv

LEMMA NextGet == Alone /\ NamesApart /\ GetInv /\ [Next]_vars => GetInv'
  BY NextTyped, ProgressNext, WholeNext DEF GetInv

\* "An interrupted run never leaves something that looks like a finished
\* file" (zb_help_get), however often it is interrupted, killed or refused:
\* a file under its final name is a whole download.  Two commands at a time
\* write one .part file (FindTwoGets), and two links of one name continue
\* each other's (FindSplice): hence Alone and NamesApart.
THEOREM FinishedIsWhole == Alone /\ NamesApart => (Spec => []TargetWhole)
  <1> SUFFICES ASSUME Alone, NamesApart PROVE Spec => []TargetWhole
      OBVIOUS
  <1>1. GetInv => TargetWhole
        BY DEF GetInv, WholeInv, DiskWhole
  <1>2. GetInv /\ [Next]_vars => GetInv'
        BY NextGet
  <1> QED BY <1>1, <1>2, InitGet, PTL DEF Spec

\* Exit code 0 means that every member is there, and is the one that was
\* asked for (download_collection); with two members of one name it does not
\* (FindOverwrite).
THEOREM SuccessHasAll == Alone /\ NamesApart => (Spec => []SuccessIsWhole)
  <1> SUFFICES ASSUME Alone, NamesApart PROVE Spec => []SuccessIsWhole
      OBVIOUS
  <1>1. GetInv => SuccessIsWhole
    <2> SUFFICES ASSUME GetInv, NEW p \in Proc, At(p, "next"), proc[p].rest = <<>>,
                        proc[p].exit = "ok", NEW k \in 1..Len(proc[p].job)
                 PROVE  /\ target[NameOf[proc[p].job[k]]] # NoFile
                        /\ data[target[NameOf[proc[p].job[k]]]] = Bytes(proc[p].job[k])
        BY DEF SuccessIsWhole
    <2>1. PICK c : c = proc[p]
          OBVIOUS
    <2>2. c \in Commands /\ Progress(c)
          BY <2>1 DEF GetInv, Typed, AllProgress
    <2>3. PICK l : l = c.job[k]
          OBVIOUS
    <2>4. l \in Link /\ Len(c.job) \in Nat
          BY <2>1, <2>2, <2>3 DEF Commands
    <2>5. target[NameOf[l]] # NoFile
      <3>1. Len(c.rest) = 0
            BY <2>1
      <3>2. k \in 1..Len(c.job) - Len(c.rest)
            BY <2>1, <2>4, <3>1
      <3> QED BY <2>1, <2>2, <2>3, <3>2 DEF Progress
    <2>6. NameOf[l] \in Name
          BY <2>4, NamesAssumption
    <2>7. PICK m \in Link : NameOf[m] = NameOf[l] /\ data[target[NameOf[l]]] = Bytes(m)
          BY <2>5, <2>6 DEF GetInv, WholeInv, DiskWhole, TargetWhole
    <2>8. m = l
          BY <2>4, <2>7 DEF NamesApart
    <2> QED BY <2>1, <2>3, <2>5, <2>7, <2>8
  <1>2. GetInv /\ [Next]_vars => GetInv'
        BY NextGet
  <1> QED BY <1>1, <1>2, InitGet, PTL DEF Spec

\* What a step does to a .part file with bytes in it.
LEMMA PartStep ==
    ASSUME NamesApart, GetInv, Next, NEW n \in Name, part[n] # NoFile, Len(data[part[n]]) > 0
    PROVE  \/ part[n] \in {part'[n], target'[n]} /\ BytesStay(part[n])
           \/ \E p \in Proc : Discards(p, n)
  <1>1. PICK p \in Proc :
            \/ \E job \in Jobs, force \in Forces : Start(p, job, force)
            \/ Works(p) \/ Interrupt(p) \/ Crash(p)
        BY DEF Next
  <1>2. PICK c : c = proc[p]
        OBVIOUS
  <1>3. c \in Commands /\ AtWork(c) /\ Working(c) /\ Typed /\ DiskWhole
        BY <1>2 DEF GetInv, Typed, WholeInv
  <1>4. part[n] \in Inode
        BY <1>3 DEF Typed, DiskTyped, Files
  <1>5. data[part[n]] \in Seq(Link \X Nat) /\ Len(data[part[n]]) \in Nat
        BY <1>3, <1>4 DEF Typed, DiskTyped
  <1>6. c.pc \in Busy => /\ Size[Current(p)] \in Nat /\ NameAt(p) \in Name /\ c.rest # <<>>
                         /\ NameAt(p) = NameOf[Head(c.rest)]
        BY <1>2, <1>3, CurrentLink DEF NameAt, Current
  <1>7. UNCHANGED data => BytesStay(part[n])
        BY <1>5 DEF BytesStay
  <1>8. CASE UNCHANGED <<part, data>>
        BY <1>7, <1>8
  <1>9. CASE OpenFresh(p)
    <2>1. c.pc = "opening"
          BY <1>2, <1>9 DEF OpenFresh, At
    <2>2. PICK i \in Inode, b \in BOOLEAN :
              /\ Becomes(p, [c EXCEPT !.pc = "asking", !.file = i, !.append = FALSE,
                                      !.refused = b, !.from = 0, !.got = 0])
              /\ data' = [data EXCEPT ![i] = <<>>]
              /\ \/ i = part[NameAt(p)] /\ part' = part /\ b = Resumable(p)
                 \/ /\ part[NameAt(p)] = NoFile /\ i \in FreeInodes
                    /\ part' = [part EXCEPT ![NameAt(p)] = i]
          BY <1>2, <1>3, <1>9, OpenFreshStep
    <2>3. CASE NameAt(p) # n
      <3>1. i # part[n]
            BY <1>3, <1>6, <2>1, <2>2, <2>3 DEF Busy, DiskWhole, FreeInodes
      <3>2. part'[n] = part[n]
            BY <1>3, <2>2, <2>3 DEF Typed, DiskTyped
      <3>3. data'[part[n]] = data[part[n]]
            BY <1>3, <1>4, <2>2, <3>1 DEF Typed, DiskTyped
      <3> QED BY <1>5, <3>2, <3>3 DEF BytesStay
    <2>4. CASE NameAt(p) = n
      <3>1. c.attempt = 0
            BY <1>3, <1>6, <2>1, <2>4 DEF AtWork, Commands, Busy
      <3>2. b = Resumable(p)
            BY <2>2, <2>4
      <3>3. Resumable(p) \/ (Sized /\ Len(data[part[n]]) >= Size[Current(p)])
            BY <1>2, <1>5, <1>6, <2>1, <2>4, <3>1 DEF Resumable, Busy
      <3>4. proc'[p] = [c EXCEPT !.pc = "asking", !.file = i, !.append = FALSE,
                                 !.refused = b, !.from = 0, !.got = 0]
            BY <1>3, <2>2, NewRecord
      <3>5. proc'[p].pc = "asking" /\ proc'[p].refused = b
            BY <1>3, <3>4 DEF Commands
      <3>6. proc'[p] # proc[p]
            BY <1>2, <2>1, <3>5
      <3>7. Discards(p, n)
        <4>1. At(p, "opening") /\ proc[p].rest # <<>>
              BY <1>2, <1>6, <2>1 DEF At, Busy
        <4>2. proc'[p].refused \/ (Sized /\ Len(data[part[n]]) >= Size[Current(p)])
              BY <3>2, <3>3, <3>5
        <4> QED BY <2>4, <3>6, <4>1, <4>2 DEF Discards
      <3> QED BY <3>7
    <2> QED BY <2>3, <2>4
  <1>10. CASE Receive(p)
    <2>1. c.pc = "receiving" /\ part' = part
          BY <1>2, <1>10 DEF Receive, At
    <2>2. PICK i \in Inode : i = c.file
          BY <1>3, <2>1 DEF Working, Using
    <2>3. PICK old \in Seq(Link \X Nat) : old = data[i]
          BY <1>3 DEF Typed, DiskTyped
    <2>4. c.got = Len(old) /\ Len(old) \in Nat
          BY <1>3, <2>1, <2>2, <2>3 DEF AtWork, Using
    <2>5. PICK byte : byte = <<Current(p), c.got + 1>>
          OBVIOUS
    <2>6. data' = [data EXCEPT ![i] = Append(old, byte)]
      <3>1. data' = [data EXCEPT ![i] = IF c.append \/ c.got >= Len(old) THEN Append(old, byte)
                                        ELSE [old EXCEPT ![c.got + 1] = byte]]
            BY <1>2, <1>10, <2>2, <2>3, <2>5 DEF Receive
      <3>2. c.got >= Len(old)
            BY <2>4
      <3> QED BY <3>1, <3>2
    <2>7. CASE i # part[n]
      <3>1. data'[part[n]] = data[part[n]]
            BY <1>3, <1>4, <2>6, <2>7 DEF Typed, DiskTyped
      <3> QED BY <1>5, <2>1, <3>1 DEF BytesStay
    <2>8. CASE i = part[n]
      <3>1. data'[part[n]] = Append(old, byte) /\ data[part[n]] = old
            BY <1>3, <1>4, <2>3, <2>6, <2>8 DEF Typed, DiskTyped
      <3>2. Len(Append(old, byte)) = Len(old) + 1
            BY <2>3
      <3>3. \A k \in 1..Len(old) : Append(old, byte)[k] = old[k]
            BY <2>3
      <3> QED BY <2>1, <2>4, <3>1, <3>2, <3>3 DEF BytesStay
    <2> QED BY <2>7, <2>8
  <1>11. CASE Restart(p)
    <2>1. /\ c.pc = "restarting" /\ data' = data
          /\ part' = [part EXCEPT ![NameAt(p)] = NoFile]
          /\ Becomes(p, [c EXCEPT !.pc = "opening", !.attempt = 1, !.file = NoFile])
          BY <1>2, <1>11 DEF Restart, At
    <2>2. CASE NameAt(p) # n
      <3>1. part'[n] = part[n]
            BY <1>3, <2>1, <2>2 DEF Typed, DiskTyped
      <3> QED BY <1>7, <2>1, <3>1
    <2>3. CASE NameAt(p) = n
      <3>1. proc'[p] = [c EXCEPT !.pc = "opening", !.attempt = 1, !.file = NoFile]
            BY <1>3, <2>1, NewRecord
      <3>2. proc'[p].pc = "opening"
            BY <1>3, <3>1 DEF Commands
      <3> QED BY <1>2, <1>6, <2>1, <2>3, <3>2 DEF Discards, At, Busy, Using
    <2> QED BY <2>2, <2>3
  <1>12. CASE Rename(p)
    <2>1. c.pc = "renaming" /\ data' = data /\ NameAt(p) \in Name
          BY <1>2, <1>6, <1>12 DEF Rename, At, Busy, Using
    <2>2. CASE NameAt(p) # n
      <3>1. part' = part \/ part' = [part EXCEPT ![NameAt(p)] = NoFile]
            BY <1>12 DEF Rename
      <3>2. part'[n] = part[n]
            BY <1>3, <2>2, <3>1 DEF Typed, DiskTyped
      <3> QED BY <1>7, <2>1, <3>2
    <2>3. CASE NameAt(p) = n
      <3>1. target' = [target EXCEPT ![n] = part[n]]
            BY <1>12, <2>3 DEF Rename
      <3>2. target'[n] = part[n]
            BY <1>3, <3>1 DEF Typed, DiskTyped
      <3> QED BY <1>7, <2>1, <3>2
    <2> QED BY <2>2, <2>3
  <1>13. \/ OpenFresh(p) \/ Receive(p) \/ Restart(p) \/ Rename(p)
         \/ UNCHANGED <<part, data>>
    <2>1. Works(p) => \/ OpenFresh(p) \/ Receive(p) \/ Restart(p) \/ Rename(p)
                      \/ UNCHANGED <<part, data>>
          BY DEF Works, NextMember, StopCollection, Exit, OpenResume, OpenFails, Answer, Finish,
                 Break, disk
    <2> QED BY <1>1, <2>1 DEF Start, Interrupt, Crash, disk
  <1> QED BY <1>8, <1>9, <1>10, <1>11, <1>12, <1>13

\* The bytes of a .part file stay where they are or become the finished file,
\* whatever fails in between (download_to_path, "Keep the .part file: a later
\* run resumes from it"), for all but three reasons: the server did not honour
\* the Range request, the file could not be opened for appending, or it was
\* complete, left behind by a command that died before the rename.
THEOREM BytesKept == Alone /\ NamesApart => (Spec => PartKept)
  <1> SUFFICES ASSUME Alone, NamesApart PROVE Spec => PartKept
      OBVIOUS
  <1>1. GetInv /\ [Next]_vars =>
          [\A n \in Name : part[n] # NoFile /\ Len(data[part[n]]) > 0 =>
             \/ part[n] \in {part'[n], target'[n]} /\ BytesStay(part[n])
             \/ \E p \in Proc : Discards(p, n)]_vars
    <2> SUFFICES ASSUME GetInv, Next, NEW n \in Name, part[n] # NoFile, Len(data[part[n]]) > 0
                 PROVE  \/ part[n] \in {part'[n], target'[n]} /\ BytesStay(part[n])
                        \/ \E p \in Proc : Discards(p, n)
        BY DEF vars
    <2> QED BY PartStep
  <1>2. GetInv /\ [Next]_vars => GetInv'
        BY NextGet
  <1> QED BY <1>1, <1>2, InitGet, PTL DEF Spec, PartKept
=============================================================================
