---------------------------- MODULE AtomicWrite ----------------------------
(***************************************************************************)
(* store/atomic.c: several processes replace one file, each by a temporary *)
(* file of its own in the same directory that is filled, flushed, closed   *)
(* and renamed over the target, while another process reads the target.    *)
(* Names and file objects are kept apart, because a rename moves a name    *)
(* and an open file survives it.  A process may die and the machine may    *)
(* lose power between any two system calls.                                *)
(*                                                                         *)
(* A temporary name is the clock in milliseconds and an attempt number.    *)
(* The program makes 32 attempts; the guard of Create assumes that fewer   *)
(* than that many names of one millisecond are taken at a time.            *)
(***************************************************************************)
EXTENDS Integers, FiniteSets

CONSTANTS
    Writer,     \* processes in zb_atomic_write
    Image,      \* whole file contents
    Absent,     \* no file, or no image
    Torn,       \* contents that are not a whole image
    Stamp,      \* values of zb_now_ms
    Attempts,   \* names tried per write (32 in the program)
    MaxWrites,  \* bound: temporary files ever created
    Faults      \* subset of {"io", "crash", "power"}

ASSUME ImageAssumption == Absent \notin Image /\ Torn \notin Image /\ Absent # Torn
ASSUME AttemptsAssumption == Attempts \in Nat \ {0}
ASSUME MaxWritesAssumption == MaxWrites \in Nat

\* The file objects; 0 is the lack of one.
File == 1 .. (MaxWrites + 1)
NoFile == 0

\* Temporary names: path.<now_ms>-<attempt>.tmp
Name == Stamp \X (0 .. Attempts - 1)

VARIABLES
    target,     \* the file the target name stands for
    temp,       \* the file each temporary name stands for
    file,       \* contents of each file, and whether they are flushed
    used,       \* file objects handed out so far
    writer,     \* where each process is in zb_atomic_write
    outcome,    \* how its last write ended
    stable,     \* files the target name may stand for after a power loss
    reader      \* a process in zb_read_file

vars == <<target, temp, file, used, writer, outcome, stable, reader>>

Idle == [pc |-> "idle", image |-> Absent, name |-> Absent, file |-> NoFile]
NotReading == [pc |-> "idle", file |-> NoFile, got |-> Absent]

Init ==
    /\ \E image \in Image \cup {Absent} :
        /\ target = IF image = Absent THEN NoFile ELSE 1
        /\ file = [f \in File |-> [body |-> IF f = 1 /\ image # Absent
                                            THEN image ELSE Torn,
                                   safe |-> f = 1 /\ image # Absent]]
    /\ temp = [n \in Name |-> NoFile]
    /\ used = 1
    /\ writer = [w \in Writer |-> Idle]
    /\ outcome = [w \in Writer |-> "none"]
    /\ stable = {target}
    /\ reader = NotReading

-----------------------------------------------------------------------------
(* zb_atomic_write                                                          *)

Start(w, image) ==
    /\ writer[w].pc = "idle"
    /\ used < MaxWrites + 1
    /\ writer' = [writer EXCEPT ![w] =
         [pc |-> "naming", image |-> image, name |-> Absent, file |-> NoFile]]
    /\ outcome' = [outcome EXCEPT ![w] = "busy"]
    /\ UNCHANGED <<target, temp, file, used, stable, reader>>

\* Mutant: the temporary file is opened without O_EXCL, so a name that is
\* taken is truncated and shared.
CreateShared(w) ==
    \E n \in Name :
        /\ writer[w].pc = "naming"
        /\ used < MaxWrites + 1
        /\ n[2] < Attempts - 1
        /\ used' = used + 1
        /\ LET f == IF temp[n] = NoFile THEN used + 1 ELSE temp[n]
           IN  /\ temp' = [temp EXCEPT ![n] = f]
               /\ file' = [file EXCEPT ![f] = [body |-> Torn, safe |-> FALSE]]
               /\ writer' = [writer EXCEPT ![w].pc = "open", ![w].name = n, ![w].file = f]
        /\ UNCHANGED <<target, outcome, stable, reader>>

\* The loop over the attempts: O_EXCL refuses a name that is taken.
Create(w) ==
    \E n \in Name :
        /\ writer[w].pc = "naming"
        /\ used < MaxWrites + 1
        /\ temp[n] = NoFile
        /\ n[2] < Attempts - 1
        /\ used' = used + 1
        /\ temp' = [temp EXCEPT ![n] = used + 1]
        /\ file' = [file EXCEPT ![used + 1] = [body |-> Torn, safe |-> FALSE]]
        /\ writer' = [writer EXCEPT ![w].pc = "open", ![w].name = n, ![w].file = used + 1]
        /\ UNCHANGED <<target, outcome, stable, reader>>

\* fwrite; the bytes may still be in memory.
Fill(w) ==
    /\ writer[w].pc = "open"
    /\ file' = [file EXCEPT ![writer[w].file] = [body |-> writer[w].image, safe |-> FALSE]]
    /\ writer' = [writer EXCEPT ![w].pc = "filled"]
    /\ UNCHANGED <<target, temp, used, outcome, stable, reader>>

\* Mutant: no fsync, the bytes reach the disk some time later.
FlushNothing(w) ==
    /\ writer[w].pc = "filled"
    /\ writer' = [writer EXCEPT ![w].pc = "flushed"]
    /\ UNCHANGED <<target, temp, file, used, outcome, stable, reader>>

\* zb_fsync: fflush and fsync.
Flush(w) ==
    /\ writer[w].pc = "filled"
    /\ file' = [file EXCEPT ![writer[w].file] = [body |-> @.body, safe |-> TRUE]]
    /\ writer' = [writer EXCEPT ![w].pc = "flushed"]
    /\ UNCHANGED <<target, temp, used, outcome, stable, reader>>

Close(w) ==
    /\ writer[w].pc = "flushed"
    /\ writer' = [writer EXCEPT ![w].pc = "closed"]
    /\ UNCHANGED <<target, temp, file, used, outcome, stable, reader>>

\* zb_rename_replace and the successful return.
Rename(w) ==
    LET n == writer[w].name
    IN  /\ writer[w].pc = "closed"
        /\ temp[n] # NoFile
        /\ target' = temp[n]
        /\ stable' = stable \cup {temp[n]}
        /\ temp' = [temp EXCEPT ![n] = NoFile]
        /\ writer' = [writer EXCEPT ![w] = Idle]
        /\ outcome' = [outcome EXCEPT ![w] = "ok"]
        /\ UNCHANGED <<file, used, reader>>

\* Mutant: a failed rename is not reported.
UndoQuietly(w) ==
    /\ temp' = [temp EXCEPT ![writer[w].name] = NoFile]
    /\ writer' = [writer EXCEPT ![w] = Idle]
    /\ outcome' = [outcome EXCEPT ![w] = "ok"]
    /\ UNCHANGED <<target, file, used, stable, reader>>

\* The cleanup path.  The name tried last is removed, also when no file
\* could be created under it.
Undo(w) ==
    /\ temp' = [n \in Name |->
                  IF writer[w].pc # "naming" /\ n = writer[w].name THEN NoFile
                  ELSE IF writer[w].pc = "naming" /\ n[2] = Attempts - 1 THEN NoFile
                  ELSE temp[n]]
    /\ writer' = [writer EXCEPT ![w] = Idle]
    /\ outcome' = [outcome EXCEPT ![w] = "error"]
    /\ UNCHANGED <<target, file, used, stable, reader>>

\* Any of the calls fails: no directory, no free name, disk full, no rename.
Fail(w) ==
    /\ "io" \in Faults
    /\ writer[w].pc # "idle"
    /\ Undo(w)

-----------------------------------------------------------------------------
(* zb_read_file, and what the machine does                                  *)

\* Mutant: fopen's result is not looked at.
OpenUnchecked ==
    /\ reader.pc = "idle"
    /\ reader' = [pc |-> "open", file |-> target, got |-> Absent]
    /\ UNCHANGED <<target, temp, file, used, writer, outcome, stable>>

OpenForRead ==
    /\ reader.pc = "idle"
    /\ reader' = IF target = NoFile THEN NotReading
                 ELSE [pc |-> "open", file |-> target, got |-> Absent]
    /\ UNCHANGED <<target, temp, file, used, writer, outcome, stable>>

FinishRead ==
    /\ reader.pc = "open"
    /\ reader' = [pc |-> "idle", file |-> NoFile, got |-> file[reader.file].body]
    /\ UNCHANGED <<target, temp, file, used, writer, outcome, stable>>

\* A killed process leaves its temporary file behind.
Crash(w) ==
    /\ "crash" \in Faults
    /\ writer[w].pc # "idle"
    /\ writer' = [writer EXCEPT ![w] = Idle]
    /\ outcome' = [outcome EXCEPT ![w] = "none"]
    /\ UNCHANGED <<target, temp, file, used, stable, reader>>

\* The file system commits the directory.
CommitDirectory ==
    /\ stable' = {target}
    /\ UNCHANGED <<target, temp, file, used, writer, outcome, reader>>

\* What was not flushed is lost, a rename not yet committed may be undone,
\* and any temporary name may be gone.
PowerLoss ==
    /\ "power" \in Faults
    /\ \E t \in stable : target' = t /\ stable' = {t}
    /\ \E kept \in SUBSET Name :
        temp' = [n \in Name |-> IF n \in kept THEN temp[n] ELSE NoFile]
    /\ file' = [f \in File |-> IF file[f].safe THEN file[f]
                               ELSE [body |-> Torn, safe |-> FALSE]]
    /\ writer' = [w \in Writer |-> Idle]
    /\ outcome' = [w \in Writer |-> "none"]
    /\ reader' = NotReading
    /\ UNCHANGED used

Next ==
    \/ \E w \in Writer :
        \/ \E image \in Image : Start(w, image)
        \/ Create(w) \/ Fill(w) \/ Flush(w) \/ Close(w) \/ Rename(w)
        \/ Fail(w) \/ Crash(w)
    \/ OpenForRead \/ FinishRead
    \/ CommitDirectory \/ PowerLoss

Spec == Init /\ [][Next]_vars

-----------------------------------------------------------------------------
(* Properties                                                               *)

Body(f) == IF f = NoFile THEN Absent ELSE file[f].body

WriterState ==
    [pc : {"idle", "naming", "open", "filled", "flushed", "closed"},
     image : Image \cup {Absent}, name : Name \cup {Absent}, file : File \cup {NoFile}]

\* Types; a process that reads has a file open.
TypeOK ==
    /\ target \in File \cup {NoFile}
    /\ temp \in [Name -> File \cup {NoFile}]
    /\ file \in [File -> [body : Image \cup {Torn}, safe : BOOLEAN]]
    /\ used \in 1 .. MaxWrites + 1
    /\ writer \in [Writer -> WriterState]
    /\ outcome \in [Writer -> {"none", "busy", "ok", "error"}]
    /\ stable \in SUBSET (File \cup {NoFile})
    /\ reader \in [pc : {"idle", "open"}, file : File \cup {NoFile},
                   got : Image \cup {Torn, Absent}]
    /\ reader.pc = "open" => reader.file \in File

\* The target is never a truncated or mixed file, not even after a power
\* loss: "it never leaves a truncated shelf" (atomic.h).
NeverTorn == \A f \in stable \cup {target} : Body(f) # Torn

\* A process that opened the target before another one replaced it still
\* reads one whole image (zb_read_file reads in pieces).
ReadsWhole ==
    /\ reader.got # Torn
    /\ reader.pc = "open" => file[reader.file].body \in Image

\* The protocol of system calls is an atomic replacement that reports
\* truthfully whether it took place (atomic.h).
Promise == INSTANCE AtomicFile WITH
    content <- Body(target),
    pending <- [w \in Writer |-> writer[w].image],
    revert <- {Body(f) : f \in stable}

Implements == Promise!Spec
=============================================================================
