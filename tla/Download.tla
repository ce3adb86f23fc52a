------------------------------ MODULE Download ------------------------------
(***************************************************************************)
(* The get command (commands/get.c): a download goes through <target>.part *)
(* and is renamed into place, a later run continues the .part file with a  *)
(* Range request, and a collection is downloaded member by member.         *)
(*                                                                         *)
(* A file is an inode with bytes; byte i of link l is the pair <<l, i>>, so *)
(* that bytes of two links, or two offsets, are told apart.  Open files    *)
(* survive a rename or a removal of their name, as on POSIX.               *)
(***************************************************************************)
EXTENDS Integers, Sequences

CONSTANTS
    Proc,       \* get commands
    Link,       \* downloadable files
    Name,       \* sanitized file names in one directory
    NameOf,     \* Link -> Name
    Size,       \* Link -> Nat
    Jobs,       \* what a command may be asked for: sequences of links
    Sized,      \* does the metadata record carry the size
    Forces,     \* subset of BOOLEAN: is --force given
    Inode,      \* identities of files on disk: the bound on their number
    NoFile,     \* no such file
    Faults      \* subset of {"drop", "crash", "interrupt", "ignore range",
                \*   "unwritable", "append"}

ASSUME NamesAssumption == NameOf \in [Link -> Name] /\ Size \in [Link -> Nat]
ASSUME NoFileAssumption == NoFile \notin Inode
ASSUME JobsAssumption == Jobs \subseteq Seq(Link) /\ Forces \subseteq BOOLEAN

VARIABLES
    target,     \* Name -> the finished file
    part,       \* Name -> the .part file
    data,       \* Inode -> bytes
    proc        \* the commands

vars == <<target, part, data, proc>>
disk == <<target, part, data>>

Idle == [pc |-> "idle", job |-> <<>>, rest |-> <<>>, force |-> FALSE, attempt |-> 0,
         file |-> NoFile, append |-> FALSE, refused |-> FALSE, from |-> 0, got |-> 0,
         exit |-> "ok", interrupted |-> FALSE, cut |-> FALSE]

Init ==
    /\ target = [n \in Name |-> NoFile]
    /\ part = [n \in Name |-> NoFile]
    /\ data = [i \in Inode |-> <<>>]
    /\ proc = [p \in Proc |-> Idle]

At(p, pc) == proc[p].pc = pc
Becomes(p, r) == proc' = [proc EXCEPT ![p] = r]
Current(p) == Head(proc[p].rest)
NameAt(p) == NameOf[Current(p)]

\* Collections go on after a member failed, a single file ends the command.
IsCollection(p) == Len(proc[p].job) # 1

Bytes(l) == [i \in 1..Size[l] |-> <<l, i>>]

FreeInodes ==
    Inode \ ({target[n] : n \in Name} \cup {part[n] : n \in Name}
             \cup {proc[p].file : p \in Proc})

-----------------------------------------------------------------------------
(* zb_cmd_get and download_collection                                       *)

Start(p, job, force) ==
    /\ At(p, "idle")
    /\ Becomes(p, [Idle EXCEPT !.pc = "next", !.job = job, !.rest = job, !.force = force])
    /\ UNCHANGED disk

\* Mutant: the failure of a member is reported but not remembered.
FailedQuietly(p, cut) ==
    Becomes(p, [proc[p] EXCEPT
        !.pc = "next", !.rest = Tail(@), !.file = NoFile,
        !.exit = IF cut /\ ~IsCollection(p) THEN "interrupted" ELSE @,
        !.cut = @ \/ cut])

\* The member failed: report it; the exit code of a collection is 1 whatever
\* the reason, that of a single file is 130 when the transfer was interrupted.
Failed(p, cut) ==
    Becomes(p, [proc[p] EXCEPT
        !.pc = "next", !.rest = Tail(@), !.file = NoFile,
        !.exit = IF cut /\ ~IsCollection(p) THEN "interrupted" ELSE "error",
        !.cut = @ \/ cut])

\* Mutant: the existing file is only looked for with --force.
NextMemberUnchecked(p) ==
    /\ At(p, "next") /\ proc[p].rest # <<>>
    /\ ~(IsCollection(p) /\ proc[p].interrupted)
    /\ Becomes(p, [proc[p] EXCEPT !.pc = "opening", !.attempt = 0])
    /\ UNCHANGED disk

\* download_to_path up to the check for an existing file.
NextMember(p) ==
    /\ At(p, "next") /\ proc[p].rest # <<>>
    /\ ~(IsCollection(p) /\ proc[p].interrupted)
    /\ IF target[NameAt(p)] # NoFile /\ ~proc[p].force
       THEN Becomes(p, [proc[p] EXCEPT !.rest = Tail(@), !.exit = "error"])
       ELSE Becomes(p, [proc[p] EXCEPT !.pc = "opening", !.attempt = 0])
    /\ UNCHANGED disk

\* The loop looks at the interrupt flag before each member only.
StopCollection(p) ==
    /\ At(p, "next") /\ proc[p].rest # <<>>
    /\ IsCollection(p) /\ proc[p].interrupted
    /\ Becomes(p, [proc[p] EXCEPT !.rest = <<>>, !.exit = "interrupted"])
    /\ UNCHANGED disk

Exit(p) ==
    /\ At(p, "next") /\ proc[p].rest = <<>>
    /\ Becomes(p, Idle)
    /\ UNCHANGED disk

-----------------------------------------------------------------------------
(* download_to_path                                                         *)

\* The .part file is continued on the first attempt, if it can be the head
\* of the file.  The size is all that is known about it.
Resumable(p) ==
    LET n == NameAt(p)
    IN  /\ proc[p].attempt = 0 /\ part[n] # NoFile
        /\ Len(data[part[n]]) > 0
        /\ Sized /\ Size[Current(p)] > 0 => Len(data[part[n]]) < Size[Current(p)]

OpenResume(p) ==
    /\ At(p, "opening") /\ Resumable(p)
    /\ LET i == part[NameAt(p)]
       IN  Becomes(p, [proc[p] EXCEPT !.pc = "asking", !.file = i, !.append = TRUE,
                                      !.refused = FALSE, !.from = Len(data[i]), !.got = Len(data[i])])
    /\ UNCHANGED disk

Opened(p, i, refused) ==
    /\ data' = [data EXCEPT ![i] = <<>>]
    /\ Becomes(p, [proc[p] EXCEPT !.pc = "asking", !.file = i, !.append = FALSE,
                                  !.refused = refused, !.from = 0, !.got = 0])

\* Mutant: every run starts over.
OpenFreshAlways(p) ==
    /\ At(p, "opening")
    /\ IF part[NameAt(p)] # NoFile
       THEN Opened(p, part[NameAt(p)], FALSE) /\ UNCHANGED part
       ELSE \E i \in FreeInodes :
              Opened(p, i, FALSE) /\ part' = [part EXCEPT ![NameAt(p)] = i]
    /\ UNCHANGED target

\* fopen "wb": the file is emptied if it is there, and created if it is not.
\* So is a .part file that could be continued, when fopen "ab" was refused.
OpenFresh(p) ==
    /\ At(p, "opening") /\ (Resumable(p) => "append" \in Faults)
    /\ IF part[NameAt(p)] # NoFile
       THEN Opened(p, part[NameAt(p)], Resumable(p)) /\ UNCHANGED part
       ELSE /\ FreeInodes # {}
            /\ LET i == CHOOSE f \in FreeInodes : TRUE
               IN  Opened(p, i, FALSE) /\ part' = [part EXCEPT ![NameAt(p)] = i]
    /\ UNCHANGED target

\* No open succeeds.
OpenFails(p) ==
    /\ "unwritable" \in Faults /\ At(p, "opening")
    /\ Failed(p, FALSE)
    /\ UNCHANGED disk

\* Mutant: whatever the server sends is taken for the rest of the file.
AnswerUnchecked(p) ==
    /\ At(p, "asking")
    /\ \/ /\ proc[p].from < Size[Current(p)]
          /\ Becomes(p, [proc[p] EXCEPT !.pc = "receiving"])
       \/ /\ "ignore range" \in Faults
          /\ Becomes(p, [proc[p] EXCEPT !.pc = "receiving", !.got = 0])
    /\ UNCHANGED disk

\* 206 or, to a request without Range, 200; 200 to a Range request makes the
\* download start over (write_cb, or libcurl's range error).
Answer(p) ==
    /\ At(p, "asking")
    /\ \/ /\ proc[p].from = 0 \/ proc[p].from < Size[Current(p)]
          /\ Becomes(p, [proc[p] EXCEPT !.pc = "receiving"])
       \/ /\ proc[p].from > 0
          /\ "ignore range" \in Faults \/ proc[p].from >= Size[Current(p)]
          /\ Becomes(p, [proc[p] EXCEPT !.pc = "restarting"])
    /\ UNCHANGED disk

\* The remaining bytes arrive; what is written goes to the end of a file
\* opened for appending, else to the offset reached.
Receive(p) ==
    LET i == proc[p].file
        byte == <<Current(p), proc[p].got + 1>>
        old == data[i]
    IN  /\ At(p, "receiving") /\ proc[p].got < Size[Current(p)]
        /\ data' = [data EXCEPT ![i] =
             IF proc[p].append \/ proc[p].got >= Len(old) THEN Append(old, byte)
             ELSE [old EXCEPT ![proc[p].got + 1] = byte]]
        /\ Becomes(p, [proc[p] EXCEPT !.got = @ + 1])
        /\ UNCHANGED <<target, part>>

\* The transfer ends, the .part file is closed.
Finish(p) ==
    /\ At(p, "receiving") /\ proc[p].got = Size[Current(p)]
    /\ Becomes(p, [proc[p] EXCEPT !.pc = "renaming"])
    /\ UNCHANGED disk

\* A status of 400 or more, a lost connection, a full disk, an interrupt.
\* The .part file stays.
Break(p) ==
    /\ proc[p].pc \in {"asking", "receiving"}
    /\ \/ "drop" \in Faults /\ Failed(p, FALSE)
       \/ proc[p].interrupted /\ Failed(p, TRUE)
    /\ UNCHANGED disk

\* Mutant: the request is repeated without opening the file again.
RestartUnopened(p) ==
    /\ At(p, "restarting")
    /\ part' = [part EXCEPT ![NameAt(p)] = NoFile]
    /\ Becomes(p, [proc[p] EXCEPT !.pc = "asking", !.attempt = 1, !.file = NoFile,
                                  !.from = 0, !.got = 0])
    /\ UNCHANGED <<target, data>>

Restart(p) ==
    /\ At(p, "restarting")
    /\ part' = [part EXCEPT ![NameAt(p)] = NoFile]
    /\ Becomes(p, [proc[p] EXCEPT !.pc = "opening", !.attempt = 1, !.file = NoFile])
    /\ UNCHANGED <<target, data>>

\* zb_rename_replace; fails when the .part file is no longer there.
Rename(p) ==
    LET n == NameAt(p)
    IN  /\ At(p, "renaming")
        /\ IF part[n] = NoFile
           THEN Failed(p, FALSE) /\ UNCHANGED <<target, part>>
           ELSE /\ target' = [target EXCEPT ![n] = part[n]]
                /\ part' = [part EXCEPT ![n] = NoFile]
                /\ Becomes(p, [proc[p] EXCEPT !.pc = "next", !.rest = Tail(@),
                                              !.file = NoFile])
        /\ UNCHANGED data

-----------------------------------------------------------------------------
(* Signals and crashes                                                      *)

Interrupt(p) ==
    /\ "interrupt" \in Faults /\ ~At(p, "idle") /\ ~proc[p].interrupted
    /\ Becomes(p, [proc[p] EXCEPT !.interrupted = TRUE])
    /\ UNCHANGED disk

Crash(p) ==
    /\ "crash" \in Faults /\ ~At(p, "idle")
    /\ Becomes(p, Idle)
    /\ UNCHANGED disk

Works(p) ==
    \/ NextMember(p) \/ StopCollection(p) \/ Exit(p)
    \/ OpenResume(p) \/ OpenFresh(p) \/ OpenFails(p) \/ Answer(p) \/ Receive(p)
    \/ Finish(p) \/ Break(p) \/ Restart(p) \/ Rename(p)

Next == \E p \in Proc :
    \/ \E job \in Jobs, force \in Forces : Start(p, job, force)
    \/ Works(p) \/ Interrupt(p) \/ Crash(p)

Spec == Init /\ [][Next]_vars

-----------------------------------------------------------------------------
(* Properties                                                               *)

TypeOK ==
    /\ target \in [Name -> Inode \cup {NoFile}] /\ part \in [Name -> Inode \cup {NoFile}]
    /\ \A i \in Inode : Len(data[i]) \in Nat
    /\ \A p \in Proc :
        /\ proc[p].pc \in {"idle", "next", "opening", "asking", "receiving",
                           "restarting", "renaming"}
        /\ proc[p].pc \in {"asking", "receiving", "restarting", "renaming"} =>
             proc[p].file \in Inode /\ proc[p].rest # <<>>
        /\ proc[p].exit \in {"ok", "error", "interrupted"}

\* A file under its final name is a whole download: "an interrupted run never
\* leaves something that looks like a finished file" (zb_help_get).
TargetWhole == \A n \in Name :
    target[n] # NoFile => \E l \in Link : NameOf[l] = n /\ data[target[n]] = Bytes(l)

\* A command that ends with exit code 0 has every file it was asked for.
SuccessIsWhole == \A p \in Proc :
    At(p, "next") /\ proc[p].rest = <<>> /\ proc[p].exit = "ok" =>
        \A k \in 1..Len(proc[p].job) :
            LET l == proc[p].job[k]
            IN  target[NameOf[l]] # NoFile /\ data[target[NameOf[l]]] = Bytes(l)

\* A finished file is replaced only by a command that was given --force.
NoForceNoLoss ==
    [][\A n \in Name : target[n] # NoFile /\ target'[n] # target[n] =>
         \E p \in Proc : proc'[p] # proc[p] /\ proc[p].force]_vars

\* What has been received stays where it is.
BytesStay(i) ==
    /\ Len(data'[i]) >= Len(data[i])
    /\ \A k \in 1..Len(data[i]) : data'[i][k] = data[i][k]

\* The .part file of n is thrown away: the server did not honour the Range
\* request, it could not be opened for appending, or it was as long as the
\* download, left there by a command that died before the rename.
Discards(p, n) ==
    /\ proc'[p] # proc[p] /\ proc[p].rest # <<>> /\ NameAt(p) = n
    /\ \/ At(p, "restarting")
       \/ At(p, "opening") /\ proc'[p].refused
       \/ At(p, "opening") /\ Sized /\ Len(data[part[n]]) >= Size[Current(p)]

\* The bytes of a .part file stay, or become the finished file, but for these
\* three reasons ("Keep the .part file: a later run resumes from it").
PartKept ==
    [][\A n \in Name : part[n] # NoFile /\ Len(data[part[n]]) > 0 =>
         \/ part[n] \in {part'[n], target'[n]} /\ BytesStay(part[n])
         \/ \E p \in Proc : Discards(p, n)]_vars

\* The same without the reasons that are not the server's.
LaterRunResumes ==
    [][\A n \in Name : part[n] # NoFile /\ Len(data[part[n]]) > 0 =>
         \/ part[n] \in {part'[n], target'[n]} /\ BytesStay(part[n])
         \/ \E p \in Proc : At(p, "restarting")]_vars

\* A transfer that was interrupted ends with exit code 130 (client.c).
InterruptedExit == \A p \in Proc :
    At(p, "next") /\ proc[p].rest = <<>> /\ proc[p].cut => proc[p].exit = "interrupted"
=============================================================================
