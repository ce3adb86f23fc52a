------------------------- MODULE AtomicWriteProofs -------------------------
(***************************************************************************)
(* Theorems about AtomicWrite for any number of processes, images, clock   *)
(* values and attempts: the target is never torn, and the sequence of      *)
(* system calls implements the atomic replacement of AtomicFile.           *)
(***************************************************************************)
EXTENDS AtomicWrite, TLAPS

Busy == {"open", "filled", "flushed", "closed"}

\* A process past Create owns the file its temporary name stands for.
OwnTemp == \A w \in Writer : writer[w].pc \in Busy =>
    /\ writer[w].name \in Name
    /\ writer[w].name[2] < Attempts - 1
    /\ writer[w].file \in File
    /\ temp[writer[w].name] = writer[w].file

\* No two processes share a temporary name.
NamesApart == \A v, w \in Writer :
    writer[v].pc \in Busy /\ writer[w].pc \in Busy /\ writer[v].name = writer[w].name
        => v = w

\* Files are handed out once: two names never stand for one file, and the
\* files behind temporary names are not those behind the target.
TempsApart == \A m, n \in Name : temp[m] # NoFile /\ temp[m] = temp[n] => m = n
TempsHidden == \A n \in Name : temp[n] # NoFile =>
    /\ temp[n] <= used
    /\ temp[n] \notin stable
    /\ reader.pc = "open" => temp[n] # reader.file

\* What a process has written is in its file, and safe once flushed.
Written == \A w \in Writer :
    /\ writer[w].pc \in {"filled", "flushed", "closed"} =>
         file[writer[w].file].body = writer[w].image
    /\ writer[w].pc \in {"flushed", "closed"} => file[writer[w].file].safe

\* Whatever the target may stand for is whole and on the disk.
StableWhole ==
    /\ target \in stable
    /\ \A f \in stable : f # NoFile =>
         f <= used /\ file[f].body \in Image /\ file[f].safe

ReaderWhole ==
    /\ reader.got # Torn
    /\ reader.pc = "open" => reader.file <= used /\ file[reader.file].body \in Image

\* A process has an image exactly while its write is under way.
Asked == \A w \in Writer :
    /\ writer[w].pc = "idle" => writer[w] = Idle
    /\ writer[w].pc # "idle" => writer[w].image \in Image
    /\ outcome[w] = "busy" <=> writer[w].pc # "idle"

Inv == /\ TypeOK /\ OwnTemp /\ NamesApart /\ TempsApart /\ TempsHidden
       /\ Written /\ StableWhole /\ ReaderWhole /\ Asked

\* Changing where one process is leaves the types of all of them.
LEMMA PcMoves ==
    ASSUME TypeOK, NEW w \in Writer,
           NEW p \in {"idle", "naming", "open", "filled", "flushed", "closed"},
           writer' = [writer EXCEPT ![w].pc = p]
    PROVE  writer' \in [Writer -> WriterState]
<1>1. writer[w] \in WriterState /\ writer \in [Writer -> WriterState]
  BY DEF TypeOK
<1>2. [writer[w] EXCEPT !.pc = p] \in WriterState
  BY <1>1 DEF WriterState
<1>3. writer' = [writer EXCEPT ![w] = [writer[w] EXCEPT !.pc = p]]
  OBVIOUS
<1> QED BY <1>1, <1>2, <1>3

LEMMA InitInv == Init => Inv
<1> SUFFICES ASSUME Init PROVE Inv
  OBVIOUS
<1> USE ImageAssumption, AttemptsAssumption, MaxWritesAssumption DEF NoFile, File
<1>1. PICK image \in Image \cup {Absent} :
        /\ target = IF image = Absent THEN NoFile ELSE 1
        /\ file = [f \in File |-> [body |-> IF f = 1 /\ image # Absent THEN image ELSE Torn,
                                   safe |-> f = 1 /\ image # Absent]]
  BY DEF Init
<1>2. temp = [n \in Name |-> 0] /\ used = 1 /\ stable = {target}
      /\ writer = [w \in Writer |-> Idle] /\ outcome = [w \in Writer |-> "none"]
      /\ reader = NotReading
  BY DEF Init
<1>3. TypeOK
  BY <1>1, <1>2 DEF TypeOK, WriterState, Idle, NotReading
<1>4. OwnTemp /\ NamesApart /\ Written /\ Asked
  BY <1>2 DEF OwnTemp, NamesApart, Written, Asked, Idle, Busy
<1>5. TempsApart /\ TempsHidden /\ ReaderWhole
  BY <1>2 DEF TempsApart, TempsHidden, ReaderWhole, NotReading
<1>6. StableWhole
  <2>1. 1 \in File
    OBVIOUS
  <2>2. file[1] = [body |-> IF image # Absent THEN image ELSE Torn, safe |-> image # Absent]
    BY <1>1, <2>1
  <2>3. target # 0 => target = 1 /\ file[1].body \in Image /\ file[1].safe
    <3>1. CASE image = Absent
      BY <1>1, <3>1
    <3>2. CASE image # Absent
      <4>1. file[1] = [body |-> image, safe |-> TRUE]
        BY <1>1, <2>1, <3>2
      <4> QED BY <1>1, <3>2, <4>1
    <3> QED BY <3>1, <3>2
  <2> QED BY <1>2, <2>3 DEF StableWhole
<1> QED BY <1>3, <1>4, <1>5, <1>6 DEF Inv

LEMMA StartInv == ASSUME Inv, NEW w \in Writer, NEW image \in Image, Start(w, image)
                  PROVE Inv'
<1> USE ImageAssumption DEF Inv, NoFile
<1>1. writer' = [writer EXCEPT ![w] = [pc |-> "naming", image |-> image, name |-> Absent,
                                       file |-> NoFile]]
  BY DEF Start
<1>2. UNCHANGED <<target, temp, file, used, stable, reader>>
      /\ outcome' = [outcome EXCEPT ![w] = "busy"]
  BY DEF Start
<1>3. TypeOK'
  BY <1>1, <1>2 DEF TypeOK, WriterState
<1>4. OwnTemp' /\ NamesApart' /\ Written' /\ Asked'
  BY <1>1, <1>2 DEF TypeOK, WriterState, OwnTemp, NamesApart, Written, Asked, Idle, Busy
<1>5. TempsApart' /\ TempsHidden' /\ StableWhole' /\ ReaderWhole'
  BY <1>2 DEF TempsApart, TempsHidden, StableWhole, ReaderWhole
<1> QED BY <1>3, <1>4, <1>5

LEMMA CreateInv == ASSUME Inv, NEW w \in Writer, Create(w) PROVE Inv'
<1> USE ImageAssumption, AttemptsAssumption, MaxWritesAssumption DEF Inv, NoFile, File
<1>1. PICK n \in Name :
        /\ temp[n] = NoFile /\ n[2] < Attempts - 1
        /\ temp' = [temp EXCEPT ![n] = used + 1]
        /\ writer' = [writer EXCEPT ![w].pc = "open", ![w].name = n, ![w].file = used + 1]
  BY DEF Create
<1>2. /\ writer[w].pc = "naming" /\ used + 1 \in File /\ used' = used + 1
      /\ file' = [file EXCEPT ![used + 1] = [body |-> Torn, safe |-> FALSE]]
      /\ UNCHANGED <<target, outcome, stable, reader>>
  BY DEF Create, TypeOK, WriterState
<1>3. \A v \in Writer : v # w => writer'[v] = writer[v]
  BY <1>1 DEF TypeOK, WriterState
<1>4. writer'[w] = [pc |-> "open", image |-> writer[w].image, name |-> n, file |-> used + 1]
  <2>1. /\ writer'[w] = [writer[w] EXCEPT !.pc = "open", !.name = n, !.file = used + 1]
        /\ writer[w] \in WriterState
    BY <1>1 DEF TypeOK, WriterState
  <2> HIDE DEF File
  <2> QED BY <2>1 DEF WriterState
<1>5. TypeOK'
  <2>1. writer' \in [Writer -> WriterState]
    <3>1. \A v \in Writer : writer'[v] \in
                WriterState
      BY <1>2, <1>3, <1>4 DEF TypeOK, WriterState
    <3> QED BY <1>1, <3>1 DEF TypeOK, WriterState
  <2>2. temp' \in [Name -> File \cup {NoFile}]
    BY <1>1, <1>2 DEF TypeOK, WriterState
  <2>3. file' \in [File -> [body : Image \cup {Torn}, safe : BOOLEAN]]
    BY <1>2 DEF TypeOK, WriterState
  <2>4. used' \in 1 .. MaxWrites + 1
    BY <1>2
  <2> QED BY <1>2, <2>1, <2>2, <2>3, <2>4 DEF TypeOK, WriterState
<1>6. \A m \in Name : m # n => temp'[m] = temp[m] /\ temp[m] # used + 1
  BY <1>1 DEF TempsHidden, TypeOK, WriterState
<1>7. temp'[n] = used + 1
  BY <1>1 DEF TypeOK, WriterState
<1>8. OwnTemp'
  BY <1>1, <1>2, <1>3, <1>4, <1>6, <1>7 DEF OwnTemp, Busy, TypeOK, WriterState
<1>9. NamesApart'
  BY <1>1, <1>3, <1>4, <1>2 DEF NamesApart, OwnTemp, Busy, TypeOK, WriterState
<1>10. TempsApart'
  BY <1>6, <1>7 DEF TempsApart
<1>11. TempsHidden'
  <2>1. used + 1 \notin stable
    BY DEF StableWhole, TypeOK, WriterState
  <2>2. reader.pc = "open" => reader.file # used + 1
    BY DEF ReaderWhole, TypeOK, WriterState
  <2> QED BY <1>2, <1>6, <1>7, <2>1, <2>2 DEF TempsHidden, TypeOK, WriterState
<1>12. \A f \in File : f # used + 1 => file'[f] = file[f]
  BY <1>2 DEF TypeOK, WriterState
<1>13. Written'
  <2>1. ASSUME NEW v \in Writer, writer[v].pc \in Busy
        PROVE  writer[v].file # used + 1
    <3>1. /\ writer[v].name \in Name /\ temp[writer[v].name] = writer[v].file
          /\ writer[v].file # 0
      BY <2>1 DEF OwnTemp
    <3>2. temp[writer[v].name] # used + 1
      BY <1>1, <1>6, <1>2, <3>1
    <3> QED BY <3>1, <3>2
  <2>2. ASSUME NEW v \in Writer, v # w, writer[v].pc \in {"filled", "flushed", "closed"}
        PROVE  /\ file'[writer'[v].file].body = writer'[v].image
               /\ writer'[v].pc \in {"flushed", "closed"} => file'[writer'[v].file].safe
    <3>1. writer[v].file \in File /\ writer[v].file # used + 1 /\ writer'[v] = writer[v]
      BY <1>3, <2>1, <2>2 DEF OwnTemp, Busy
    <3>2. file'[writer[v].file] = file[writer[v].file]
      BY <1>12, <3>1
    <3> QED BY <2>2, <3>1, <3>2 DEF Written
  <2>3. writer'[w].pc = "open"
    BY <1>4
  <2> QED BY <1>3, <2>2, <2>3 DEF Written
<1>14. StableWhole'
  BY <1>2, <1>12 DEF StableWhole, TypeOK, WriterState
<1>15. ReaderWhole'
  BY <1>2, <1>12 DEF ReaderWhole, TypeOK, WriterState
<1>16. Asked'
  <2>1. writer'[w].pc # "idle" /\ writer'[w].image = writer[w].image
    BY <1>4
  <2> QED BY <1>2, <1>3, <2>1 DEF Asked
<1> QED BY <1>5, <1>8, <1>9, <1>10, <1>11, <1>13, <1>14, <1>15, <1>16

\* Filling and flushing touch only the process's own file.
LEMMA OwnFile == ASSUME Inv, NEW w \in Writer, writer[w].pc \in Busy
                 PROVE /\ writer[w].file \in File /\ writer[w].file \notin stable
                       /\ reader.pc = "open" => writer[w].file # reader.file
                       /\ \A v \in Writer : writer[v].pc \in Busy /\ v # w =>
                             writer[v].file # writer[w].file
<1>1. /\ writer[w].name \in Name /\ writer[w].file \in File
      /\ temp[writer[w].name] = writer[w].file /\ temp[writer[w].name] # NoFile
  BY DEF Inv, OwnTemp, File, NoFile
<1>2. writer[w].file \notin stable /\ (reader.pc = "open" => writer[w].file # reader.file)
  BY <1>1 DEF Inv, TempsHidden
<1>3. ASSUME NEW v \in Writer, writer[v].pc \in Busy, v # w
      PROVE  writer[v].file # writer[w].file
  <2>1. writer[v].name \in Name /\ temp[writer[v].name] = writer[v].file
    BY <1>3 DEF Inv, OwnTemp
  <2>2. writer[v].name # writer[w].name
    BY <1>3 DEF Inv, NamesApart
  <2> QED BY <1>1, <2>1, <2>2 DEF Inv, TempsApart
<1> QED BY <1>1, <1>2, <1>3

LEMMA FillInv == ASSUME Inv, NEW w \in Writer, Fill(w) PROVE Inv'
<1> USE ImageAssumption DEF Inv, NoFile
<1>1. /\ writer[w].pc = "open"
      /\ file' = [file EXCEPT ![writer[w].file] = [body |-> writer[w].image, safe |-> FALSE]]
      /\ writer' = [writer EXCEPT ![w].pc = "filled"]
      /\ UNCHANGED <<target, temp, used, outcome, stable, reader>>
  BY DEF Fill
<1>2. /\ writer[w].file \in File /\ writer[w].file \notin stable
      /\ reader.pc = "open" => writer[w].file # reader.file
      /\ \A v \in Writer : writer[v].pc \in Busy /\ v # w => writer[v].file # writer[w].file
  BY <1>1, OwnFile DEF Busy
<1>3. writer[w].image \in Image
  BY <1>1 DEF Asked
<1>4. TypeOK'
  <2>1. writer' \in [Writer -> WriterState]
    BY <1>1, PcMoves
  <2>2. [body |-> writer[w].image, safe |-> FALSE] \in [body : Image \cup {Torn}, safe : BOOLEAN]
    BY <1>3
  <2>3. file' \in [File -> [body : Image \cup {Torn}, safe : BOOLEAN]]
    BY <1>1, <1>2, <2>2 DEF TypeOK
  <2> QED BY <1>1, <2>1, <2>3 DEF TypeOK
<1>5. /\ \A v \in Writer : v # w => writer'[v] = writer[v]
      /\ writer'[w] = [writer[w] EXCEPT !.pc = "filled"]
  BY <1>1 DEF TypeOK, WriterState
<1>6. OwnTemp' /\ NamesApart' /\ Asked'
  BY <1>1, <1>5 DEF OwnTemp, NamesApart, Asked, Busy, Idle, TypeOK, WriterState
<1>7. TempsApart' /\ TempsHidden'
  BY <1>1 DEF TempsApart, TempsHidden
<1>8. /\ \A f \in File : f # writer[w].file => file'[f] = file[f]
      /\ file'[writer[w].file] = [body |-> writer[w].image, safe |-> FALSE]
  BY <1>1, <1>2 DEF TypeOK, WriterState
<1>9. Written'
  BY <1>2, <1>5, <1>8 DEF Written, OwnTemp, Busy, TypeOK, WriterState
<1>10. StableWhole'
  BY <1>1, <1>2, <1>8 DEF StableWhole, TypeOK, WriterState
<1>11. ReaderWhole'
  BY <1>1, <1>2, <1>8 DEF ReaderWhole, TypeOK, WriterState
<1> QED BY <1>4, <1>6, <1>7, <1>9, <1>10, <1>11

LEMMA FlushInv == ASSUME Inv, NEW w \in Writer, Flush(w) PROVE Inv'
<1> USE ImageAssumption DEF Inv, NoFile
<1>1. /\ writer[w].pc = "filled"
      /\ file' = [file EXCEPT ![writer[w].file] = [body |-> file[writer[w].file].body, safe |-> TRUE]]
      /\ writer' = [writer EXCEPT ![w].pc = "flushed"]
      /\ UNCHANGED <<target, temp, used, outcome, stable, reader>>
  BY DEF Flush
<1>2. /\ writer[w].file \in File /\ writer[w].file \notin stable
      /\ reader.pc = "open" => writer[w].file # reader.file
      /\ \A v \in Writer : writer[v].pc \in Busy /\ v # w => writer[v].file # writer[w].file
  BY <1>1, OwnFile DEF Busy
<1>3. TypeOK'
  <2>1. file' \in [File -> [body : Image \cup {Torn}, safe : BOOLEAN]]
    <3>1. file[writer[w].file].body \in Image \cup {Torn}
      BY <1>2 DEF TypeOK
    <3>2. [body |-> file[writer[w].file].body, safe |-> TRUE]
             \in [body : Image \cup {Torn}, safe : BOOLEAN]
      BY <3>1
    <3> QED BY <1>1, <1>2, <3>2 DEF TypeOK
  <2>2. writer' \in [Writer -> WriterState]
    BY <1>1, PcMoves
  <2> QED BY <1>1, <2>1, <2>2 DEF TypeOK, WriterState
<1>4. /\ \A v \in Writer : v # w => writer'[v] = writer[v]
      /\ writer'[w] = [writer[w] EXCEPT !.pc = "flushed"]
  BY <1>1 DEF TypeOK, WriterState
<1>5. OwnTemp' /\ NamesApart' /\ Asked'
  BY <1>1, <1>4 DEF OwnTemp, NamesApart, Asked, Busy, Idle, TypeOK, WriterState
<1>6. TempsApart' /\ TempsHidden'
  BY <1>1 DEF TempsApart, TempsHidden
<1>7. /\ \A f \in File : f # writer[w].file => file'[f] = file[f]
      /\ file'[writer[w].file] = [body |-> file[writer[w].file].body, safe |-> TRUE]
  BY <1>1, <1>2 DEF TypeOK, WriterState
<1>8. Written'
  BY <1>1, <1>2, <1>4, <1>7 DEF Written, OwnTemp, Busy, TypeOK, WriterState
<1>9. StableWhole'
  BY <1>1, <1>2, <1>7 DEF StableWhole, TypeOK, WriterState
<1>10. ReaderWhole'
  BY <1>1, <1>2, <1>7 DEF ReaderWhole, TypeOK, WriterState
<1> QED BY <1>3, <1>5, <1>6, <1>8, <1>9, <1>10

LEMMA CloseInv == ASSUME Inv, NEW w \in Writer, Close(w) PROVE Inv'
<1> USE DEF Inv, NoFile
<1>1. /\ writer[w].pc = "flushed"
      /\ writer' = [writer EXCEPT ![w].pc = "closed"]
      /\ UNCHANGED <<target, temp, file, used, outcome, stable, reader>>
  BY DEF Close
<1>2. TypeOK'
  BY <1>1 DEF TypeOK, WriterState
<1>3. /\ \A v \in Writer : v # w => writer'[v] = writer[v]
      /\ writer'[w] = [writer[w] EXCEPT !.pc = "closed"]
  BY <1>1 DEF TypeOK, WriterState
<1>4. OwnTemp' /\ NamesApart' /\ Asked' /\ Written'
  BY <1>1, <1>3 DEF OwnTemp, NamesApart, Asked, Written, Busy, Idle, TypeOK, WriterState
<1>5. TempsApart' /\ TempsHidden' /\ StableWhole' /\ ReaderWhole'
  BY <1>1 DEF TempsApart, TempsHidden, StableWhole, ReaderWhole
<1> QED BY <1>2, <1>4, <1>5

\* A process that ends: its temporary name is gone, or left behind.
LEMMA EndInv ==
    ASSUME Inv, NEW w \in Writer,
           writer' = [writer EXCEPT ![w] = Idle],
           NEW o \in {"none", "ok", "error"}, outcome' = [outcome EXCEPT ![w] = o],
           temp' \in [Name -> File \cup {NoFile}],
           \A n \in Name : temp'[n] = temp[n] \/ temp'[n] = NoFile,
           \A n \in Name : temp'[n] # temp[n] =>
                n[2] = Attempts - 1 \/ (writer[w].pc \in Busy /\ n = writer[w].name),
           UNCHANGED <<file, used, reader>>
    PROVE  /\ OwnTemp' /\ NamesApart' /\ TempsApart' /\ Written' /\ ReaderWhole' /\ Asked'
           /\ writer' \in [Writer -> WriterState]
           /\ outcome' \in [Writer -> {"none", "busy", "ok", "error"}]
<1> USE DEF Inv
<1>1. /\ \A v \in Writer : v # w => writer'[v] = writer[v]
      /\ writer'[w] = Idle
  BY DEF TypeOK, WriterState
<1>2. OwnTemp'
  <2> SUFFICES ASSUME NEW v \in Writer, writer'[v].pc \in Busy
               PROVE /\ writer'[v].name \in Name /\ writer'[v].name[2] < Attempts - 1
                     /\ writer'[v].file \in File /\ temp'[writer'[v].name] = writer'[v].file
    BY DEF OwnTemp
  <2>1. v # w /\ writer'[v] = writer[v]
    BY <1>1 DEF Idle, Busy
  <2>2. /\ writer[v].name \in Name /\ writer[v].name[2] < Attempts - 1
        /\ writer[v].file \in File /\ temp[writer[v].name] = writer[v].file
    BY <2>1 DEF OwnTemp
  <2>3. temp'[writer[v].name] = temp[writer[v].name]
    <3>1. writer[v].name[2] # Attempts - 1
      <4>1. writer[v].name[2] \in Int
        BY <2>2 DEF Name
      <4> QED BY <4>1, <2>2, AttemptsAssumption
    <3>2. ~(writer[w].pc \in Busy /\ writer[v].name = writer[w].name)
      BY <2>1 DEF NamesApart
    <3> QED BY <3>1, <3>2, <2>2
  <2> QED BY <2>1, <2>2, <2>3
<1>3. NamesApart' /\ Asked'
  BY <1>1 DEF NamesApart, Asked, Idle, Busy, TypeOK, WriterState
<1>4. TempsApart'
  BY DEF TempsApart
<1>5. Written' /\ ReaderWhole'
  BY <1>1 DEF Written, ReaderWhole, Idle
<1>6. /\ writer' \in [Writer -> WriterState]
      /\ outcome' \in [Writer -> {"none", "busy", "ok", "error"}]
  BY DEF TypeOK, WriterState, Idle
<1> QED BY <1>2, <1>3, <1>4, <1>5, <1>6

LEMMA RenameInv == ASSUME Inv, NEW w \in Writer, Rename(w) PROVE Inv'
<1> USE ImageAssumption DEF Inv, NoFile
<1> DEFINE n == writer[w].name
<1>1. /\ writer[w].pc = "closed" /\ temp[n] # NoFile
      /\ target' = temp[n] /\ stable' = stable \cup {temp[n]}
      /\ temp' = [temp EXCEPT ![n] = NoFile]
      /\ writer' = [writer EXCEPT ![w] = Idle]
      /\ outcome' = [outcome EXCEPT ![w] = "ok"]
      /\ UNCHANGED <<file, used, reader>>
  BY DEF Rename
<1>2. n \in Name /\ temp[n] = writer[w].file /\ temp[n] \in File
  BY <1>1 DEF OwnTemp, Busy
<1>3. temp' \in [Name -> File \cup {NoFile}]
  BY <1>1 DEF TypeOK, WriterState
<1>4. /\ OwnTemp' /\ NamesApart' /\ TempsApart' /\ Written' /\ ReaderWhole' /\ Asked'
      /\ writer' \in [Writer -> WriterState]
      /\ outcome' \in [Writer -> {"none", "busy", "ok", "error"}]
  <2>1. \A m \in Name : m # n => temp'[m] = temp[m]
    BY <1>1 DEF TypeOK, WriterState
  <2>2. temp'[n] = NoFile
    BY <1>1, <1>2 DEF TypeOK, WriterState
  <2> QED BY <1>1, <1>3, <2>1, <2>2, EndInv DEF Busy
<1>5. TypeOK'
  BY <1>1, <1>2, <1>3, <1>4 DEF TypeOK, WriterState
<1>6. TempsHidden'
  <2>1. \A m \in Name : temp'[m] # NoFile => m # n /\ temp'[m] = temp[m]
    BY <1>1, <1>2 DEF TypeOK, WriterState
  <2>2. \A m \in Name : temp'[m] # NoFile => temp'[m] # temp[n]
    BY <2>1, <1>2 DEF TempsApart
  <2> QED BY <1>1, <2>1, <2>2 DEF TempsHidden
<1>7. StableWhole'
  <2>1. file[temp[n]].body = writer[w].image /\ file[temp[n]].safe
    BY <1>1, <1>2 DEF Written
  <2>2. writer[w].image \in Image
    BY <1>1 DEF Asked
  <2>3. temp[n] <= used
    BY <1>1, <1>2 DEF TempsHidden
  <2> QED BY <1>1, <2>1, <2>2, <2>3 DEF StableWhole
<1> QED BY <1>4, <1>5, <1>6, <1>7

LEMMA FailInv == ASSUME Inv, NEW w \in Writer, Fail(w) PROVE Inv'
<1> USE DEF Inv
<1>1. /\ writer[w].pc # "idle"
      /\ temp' = [n \in Name |->
                  IF writer[w].pc # "naming" /\ n = writer[w].name THEN NoFile
                  ELSE IF writer[w].pc = "naming" /\ n[2] = Attempts - 1 THEN NoFile
                  ELSE temp[n]]
      /\ writer' = [writer EXCEPT ![w] = Idle]
      /\ outcome' = [outcome EXCEPT ![w] = "error"]
      /\ UNCHANGED <<target, file, used, stable, reader>>
  BY DEF Fail, Undo
<1>2. temp' \in [Name -> File \cup {NoFile}]
  BY <1>1 DEF TypeOK, WriterState
<1>3. writer[w].pc # "naming" => writer[w].pc \in Busy
  BY <1>1 DEF TypeOK, WriterState, Busy
<1>4. /\ OwnTemp' /\ NamesApart' /\ TempsApart' /\ Written' /\ ReaderWhole' /\ Asked'
      /\ writer' \in [Writer -> WriterState]
      /\ outcome' \in [Writer -> {"none", "busy", "ok", "error"}]
  <2>1. \A n \in Name : temp'[n] = temp[n] \/ temp'[n] = NoFile
    BY <1>1
  <2>2. \A n \in Name : temp'[n] # temp[n] =>
          n[2] = Attempts - 1 \/ (writer[w].pc \in Busy /\ n = writer[w].name)
    BY <1>1, <1>3
  <2> QED BY <1>1, <1>2, <2>1, <2>2, EndInv
<1>5. TypeOK'
  BY <1>1, <1>2, <1>4 DEF TypeOK, WriterState
<1>6. TempsHidden' /\ StableWhole'
  BY <1>1 DEF TempsHidden, StableWhole
<1> QED BY <1>4, <1>5, <1>6

LEMMA CrashInv == ASSUME Inv, NEW w \in Writer, Crash(w) PROVE Inv'
<1> USE DEF Inv
<1>1. /\ writer' = [writer EXCEPT ![w] = Idle]
      /\ outcome' = [outcome EXCEPT ![w] = "none"]
      /\ UNCHANGED <<target, temp, file, used, stable, reader>>
  BY DEF Crash
<1>2. temp' \in [Name -> File \cup {NoFile}]
  BY <1>1 DEF TypeOK, WriterState
<1>3. /\ OwnTemp' /\ NamesApart' /\ TempsApart' /\ Written' /\ ReaderWhole' /\ Asked'
      /\ writer' \in [Writer -> WriterState]
      /\ outcome' \in [Writer -> {"none", "busy", "ok", "error"}]
  <2>1. \A n \in Name : temp'[n] = temp[n]
    BY <1>1
  <2> QED BY <1>1, <1>2, <2>1, EndInv
<1>4. TypeOK'
  BY <1>1, <1>2, <1>3 DEF TypeOK, WriterState
<1>5. TempsHidden' /\ StableWhole'
  BY <1>1 DEF TempsHidden, StableWhole
<1> QED BY <1>3, <1>4, <1>5

LEMMA ReadInv == ASSUME Inv, OpenForRead \/ FinishRead PROVE Inv'
<1> USE ImageAssumption, MaxWritesAssumption DEF Inv, NoFile, NotReading, File
<1>1. UNCHANGED <<target, temp, file, used, writer, outcome, stable>>
  BY DEF OpenForRead, FinishRead
<1>2. OwnTemp' /\ NamesApart' /\ TempsApart' /\ Written' /\ StableWhole' /\ Asked'
  BY <1>1 DEF OwnTemp, NamesApart, TempsApart, Written, StableWhole, Asked, TypeOK, WriterState
<1>3. CASE OpenForRead
  <2>1. reader' = IF target = 0 THEN [pc |-> "idle", file |-> 0, got |-> Absent]
                  ELSE [pc |-> "open", file |-> target, got |-> Absent]
    BY <1>3 DEF OpenForRead
  <2>2. target \in stable /\ (target # 0 => target <= used /\ file[target].body \in Image)
    BY DEF StableWhole
  <2>3. TypeOK'
    BY <1>1, <2>1 DEF TypeOK, WriterState
  <2>4. TempsHidden' /\ ReaderWhole'
    BY <1>1, <2>1, <2>2 DEF TempsHidden, ReaderWhole, TypeOK, WriterState
  <2> QED BY <1>2, <2>3, <2>4
<1>4. CASE FinishRead
  <2>1. /\ reader.pc = "open"
        /\ reader' = [pc |-> "idle", file |-> 0, got |-> file[reader.file].body]
    BY <1>4 DEF FinishRead
  <2>2. file[reader.file].body \in Image
    BY <2>1 DEF ReaderWhole
  <2>3. TypeOK'
    BY <1>1, <2>1, <2>2 DEF TypeOK, WriterState
  <2>4. TempsHidden' /\ ReaderWhole'
    BY <1>1, <2>1, <2>2 DEF TempsHidden, ReaderWhole
  <2> QED BY <1>2, <2>3, <2>4
<1> QED BY <1>3, <1>4

LEMMA CommitInv == ASSUME Inv, CommitDirectory PROVE Inv'
<1> USE DEF Inv
<1>1. stable' = {target} /\ UNCHANGED <<target, temp, file, used, writer, outcome, reader>>
  BY DEF CommitDirectory
<1>2. TypeOK'
  BY <1>1 DEF TypeOK, WriterState
<1>3. OwnTemp' /\ NamesApart' /\ TempsApart' /\ Written' /\ ReaderWhole' /\ Asked'
  BY <1>1 DEF OwnTemp, NamesApart, TempsApart, Written, ReaderWhole, Asked
<1>4. TempsHidden' /\ StableWhole'
  BY <1>1 DEF TempsHidden, StableWhole
<1> QED BY <1>2, <1>3, <1>4

LEMMA PowerInv == ASSUME Inv, PowerLoss PROVE Inv'
<1> USE ImageAssumption DEF Inv, NoFile
<1>1. PICK t \in stable : target' = t /\ stable' = {t}
  BY DEF PowerLoss
<1>2. PICK kept \in SUBSET Name : temp' = [n \in Name |-> IF n \in kept THEN temp[n] ELSE 0]
  BY DEF PowerLoss
<1>3. /\ file' = [f \in File |-> IF file[f].safe THEN file[f]
                                ELSE [body |-> Torn, safe |-> FALSE]]
      /\ writer' = [w \in Writer |-> Idle]
      /\ outcome' = [w \in Writer |-> "none"]
      /\ reader' = NotReading /\ used' = used
  BY DEF PowerLoss
<1>4. TypeOK'
  BY <1>1, <1>2, <1>3 DEF TypeOK, WriterState, Idle, NotReading
<1>5. OwnTemp' /\ NamesApart' /\ Written' /\ Asked'
  BY <1>3 DEF OwnTemp, NamesApart, Written, Asked, Idle, Busy
<1>6. TempsApart'
  BY <1>2 DEF TempsApart
<1>7. TempsHidden'
  BY <1>1, <1>2, <1>3 DEF TempsHidden, NotReading
<1>8. StableWhole'
  BY <1>1, <1>3 DEF StableWhole, TypeOK, WriterState
<1>9. ReaderWhole'
  BY <1>3 DEF ReaderWhole, NotReading
<1> QED BY <1>4, <1>5, <1>6, <1>7, <1>8, <1>9

LEMMA NextInv == Inv /\ [Next]_vars => Inv'
<1> SUFFICES ASSUME Inv, [Next]_vars PROVE Inv'
  OBVIOUS
<1>1. CASE Next
  BY <1>1, StartInv, CreateInv, FillInv, FlushInv, CloseInv, RenameInv, FailInv, CrashInv,
     ReadInv, CommitInv, PowerInv DEF Next
<1>2. CASE UNCHANGED vars
  BY <1>2 DEF vars, Inv, TypeOK, WriterState, OwnTemp, NamesApart, TempsApart, TempsHidden, Written,
     StableWhole, ReaderWhole, Asked
<1> QED BY <1>1, <1>2

LEMMA Invariant == Spec => []Inv
<1> QED BY InitInv, NextInv, PTL DEF Spec

\* Types hold in every reachable state.
THEOREM TypeCorrect == Spec => []TypeOK
<1>1. Inv => TypeOK
  BY DEF Inv
<1> QED BY Invariant, <1>1, PTL

\* A crash, a full disk or a power loss at any point of zb_atomic_write
\* leaves the target whole (atomic.h: "never a truncated shelf").
THEOREM TargetWhole == Spec => []NeverTorn
<1>1. Inv => NeverTorn
  BY ImageAssumption DEF Inv, StableWhole, NeverTorn, Body, NoFile
<1> QED BY Invariant, <1>1, PTL

\* zb_read_file returns one whole image whatever is renamed meanwhile.
THEOREM ReadersSeeWhole == Spec => []ReadsWhole
<1>1. Inv => ReadsWhole
  BY DEF Inv, ReaderWhole, ReadsWhole
<1> QED BY Invariant, <1>1, PTL

-----------------------------------------------------------------------------
(* The refinement: each call is a step of AtomicFile or none.               *)

\* The calls that prepare the replacement change nothing a reader sees.
LEMMA QuietStep ==
    ASSUME Inv, UNCHANGED <<target, stable, outcome>>,
           \A f \in stable : f # NoFile => file'[f].body = file[f].body,
           \A w \in Writer : writer'[w].image = writer[w].image
    PROVE  UNCHANGED Promise!vars
<1>1. target \in stable
  BY DEF Inv, StableWhole
<1>2. Body(target)' = Body(target)
  BY <1>1 DEF Body
<1>3. {Body(f) : f \in stable}' = {Body(f) : f \in stable}
  BY DEF Body
<1>4. [w \in Writer |-> writer[w].image]' = [w \in Writer |-> writer[w].image]
  OBVIOUS
<1> QED BY <1>2, <1>3, <1>4 DEF Promise!vars

\* A process that ends gives up its image; nothing else of its record shows.
LEMMA PendingEnds ==
    ASSUME Inv, NEW w \in Writer, writer' = [writer EXCEPT ![w] = Idle]
    PROVE  [v \in Writer |-> writer[v].image]' =
             [[v \in Writer |-> writer[v].image] EXCEPT ![w] = Absent]
<1>1. writer \in [Writer -> WriterState]
  BY DEF Inv, TypeOK
<1> QED BY <1>1 DEF Idle

LEMMA StepImplements == Inv /\ [Next]_vars => [Promise!Next]_(Promise!vars)
<1> SUFFICES ASSUME Inv, [Next]_vars PROVE [Promise!Next]_(Promise!vars)
  OBVIOUS
<1>t. writer \in [Writer -> WriterState] /\ file \in [File -> [body : Image \cup {Torn}, safe : BOOLEAN]]
  BY DEF Inv, TypeOK
<1>1. ASSUME NEW w \in Writer, NEW image \in Image, Start(w, image)
      PROVE Promise!Request(w, image)
  <2>1. outcome[w] # "busy"
    BY <1>1 DEF Start, Inv, Asked
  <2>2. [v \in Writer |-> writer[v].image]' =
          [[v \in Writer |-> writer[v].image] EXCEPT ![w] = image]
    BY <1>1, <1>t DEF Start
  <2>3. UNCHANGED <<Body(target), {Body(f) : f \in stable}>>
    BY <1>1 DEF Start, Body
  <2> QED BY <1>1, <2>1, <2>2, <2>3 DEF Start, Promise!Request
<1>2. ASSUME NEW w \in Writer, Create(w) PROVE UNCHANGED Promise!vars
  <2>1. /\ UNCHANGED <<target, stable, outcome>> /\ used + 1 \in File
        /\ file' = [file EXCEPT ![used + 1] = [body |-> Torn, safe |-> FALSE]]
    BY <1>2, MaxWritesAssumption DEF Create, File, Inv, TypeOK
  <2>2. \A f \in stable : f # NoFile => file'[f].body = file[f].body
    BY <2>1, <1>t DEF Inv, StableWhole, TypeOK, File
  <2>3. \A v \in Writer : writer'[v].image = writer[v].image
    BY <1>2, <1>t DEF Create, WriterState
  <2> QED BY <2>1, <2>2, <2>3, QuietStep
<1>3. ASSUME NEW w \in Writer, Fill(w) \/ Flush(w) PROVE UNCHANGED Promise!vars
  <2>1. writer[w].pc \in Busy /\ UNCHANGED <<target, stable, outcome>>
    BY <1>3 DEF Fill, Flush, Busy
  <2>2. writer[w].file \notin stable
    BY <2>1, OwnFile
  <2>3. \A f \in stable : f # NoFile => file'[f].body = file[f].body
    BY <1>3, <1>t, <2>2 DEF Fill, Flush, Inv, TypeOK
  <2>4. \A v \in Writer : writer'[v].image = writer[v].image
    BY <1>3, <1>t DEF Fill, Flush, WriterState
  <2> QED BY <2>1, <2>3, <2>4, QuietStep
<1>4. ASSUME NEW w \in Writer, Close(w) PROVE UNCHANGED Promise!vars
  <2>1. UNCHANGED <<target, stable, outcome, file>>
    BY <1>4 DEF Close
  <2>2. \A v \in Writer : writer'[v].image = writer[v].image
    BY <1>4, <1>t DEF Close, WriterState
  <2> QED BY <2>1, <2>2, QuietStep
<1>5. ASSUME NEW w \in Writer, Rename(w) PROVE Promise!Replace(w)
  <2> DEFINE n == writer[w].name
  <2>1. /\ writer[w].pc = "closed" /\ target' = temp[n] /\ temp[n] # NoFile
        /\ stable' = stable \cup {temp[n]} /\ file' = file
        /\ writer' = [writer EXCEPT ![w] = Idle]
        /\ outcome' = [outcome EXCEPT ![w] = "ok"]
    BY <1>5 DEF Rename
  <2>2. temp[n] = writer[w].file /\ file[writer[w].file].body = writer[w].image
    BY <2>1 DEF Inv, OwnTemp, Written, Busy
  <2>3. outcome[w] = "busy"
    BY <2>1 DEF Inv, Asked
  <2>4. Body(target)' = writer[w].image
    BY <2>1, <2>2 DEF Body
  <2>5. {Body(f) : f \in stable}' = {Body(f) : f \in stable} \cup {writer[w].image}
    BY <2>1, <2>2 DEF Body
  <2>6. [v \in Writer |-> writer[v].image][w] = writer[w].image
    OBVIOUS
  <2> QED BY <2>1, <2>3, <2>4, <2>5, <2>6, PendingEnds DEF Promise!Replace
<1>6. ASSUME NEW w \in Writer, Fail(w) PROVE Promise!Refuse(w)
  <2>1. /\ writer[w].pc # "idle" /\ UNCHANGED <<target, file, stable>>
        /\ writer' = [writer EXCEPT ![w] = Idle]
        /\ outcome' = [outcome EXCEPT ![w] = "error"]
    BY <1>6 DEF Fail, Undo
  <2>2. outcome[w] = "busy"
    BY <2>1 DEF Inv, Asked
  <2>3. UNCHANGED <<Body(target), {Body(f) : f \in stable}>>
    BY <2>1 DEF Body
  <2> QED BY <2>1, <2>2, <2>3, PendingEnds DEF Promise!Refuse
<1>7. ASSUME NEW w \in Writer, Crash(w) PROVE Promise!Die(w)
  <2>1. /\ writer[w].pc # "idle" /\ UNCHANGED <<target, file, stable>>
        /\ writer' = [writer EXCEPT ![w] = Idle]
        /\ outcome' = [outcome EXCEPT ![w] = "none"]
    BY <1>7 DEF Crash
  <2>2. outcome[w] = "busy"
    BY <2>1 DEF Inv, Asked
  <2>3. UNCHANGED <<Body(target), {Body(f) : f \in stable}>>
    BY <2>1 DEF Body
  <2> QED BY <2>1, <2>2, <2>3, PendingEnds DEF Promise!Die
<1>8. ASSUME OpenForRead \/ FinishRead PROVE UNCHANGED Promise!vars
  <2>1. UNCHANGED <<target, stable, outcome, file, writer>>
    BY <1>8 DEF OpenForRead, FinishRead
  <2> QED BY <2>1, QuietStep
<1>9. ASSUME CommitDirectory PROVE Promise!Commit
  <2>1. stable' = {target} /\ UNCHANGED <<target, file, writer, outcome>>
    BY <1>9 DEF CommitDirectory
  <2>2. {Body(f) : f \in stable}' = {Body(target)}
    BY <2>1 DEF Body
  <2>3. UNCHANGED <<Body(target), [w \in Writer |-> writer[w].image], outcome>>
    BY <2>1 DEF Body
  <2> QED BY <2>2, <2>3 DEF Promise!Commit
<1>10. ASSUME PowerLoss PROVE Promise!PowerLoss
  <2>1. PICK t \in stable : target' = t /\ stable' = {t}
    BY <1>10 DEF PowerLoss
  <2>2. /\ file' = [f \in File |-> IF file[f].safe THEN file[f]
                                  ELSE [body |-> Torn, safe |-> FALSE]]
        /\ writer' = [w \in Writer |-> Idle]
        /\ outcome' = [w \in Writer |-> "none"]
    BY <1>10 DEF PowerLoss
  <2>3. Body(target)' = Body(t)
    BY <2>1, <2>2, <1>t DEF Body, Inv, StableWhole, TypeOK
  <2>4. {Body(f) : f \in stable}' = {Body(target)'}
    BY <2>1 DEF Body
  <2>5. [w \in Writer |-> writer[w].image]' = [w \in Writer |-> Absent]
    BY <2>2 DEF Idle
  <2>6. Body(t) \in {Body(f) : f \in stable}
    OBVIOUS
  <2> QED BY <2>2, <2>3, <2>4, <2>5, <2>6 DEF Promise!PowerLoss
<1>11. CASE Next
  BY <1>11, <1>1, <1>2, <1>3, <1>4, <1>5, <1>6, <1>7, <1>8, <1>9, <1>10
     DEF Next, Promise!Next
<1>12. CASE UNCHANGED vars
  BY <1>12, QuietStep DEF vars
<1> QED BY <1>11, <1>12

LEMMA InitImplements == Init => Promise!Init
<1> SUFFICES ASSUME Init PROVE Promise!Init
  OBVIOUS
<1>1. Inv
  BY InitInv
<1>2. Body(target) \in Image \cup {Absent}
  BY <1>1 DEF Inv, StableWhole, Body
<1>3. /\ [w \in Writer |-> writer[w].image] = [w \in Writer |-> Absent]
      /\ {Body(f) : f \in stable} = {Body(target)}
      /\ outcome = [w \in Writer |-> "none"]
  BY DEF Init, Idle
<1> QED BY <1>2, <1>3 DEF Promise!Init

\* zb_atomic_write is an atomic replacement of the file that reports
\* truthfully whether it took place, for any number of processes.
THEOREM Refinement == Spec => Implements
<1> QED BY InitImplements, StepImplements, Invariant, PTL
        DEF Spec, Implements, Promise!Spec
=============================================================================
