--------------------------- MODULE CommandLineProofs ---------------------------
(***************************************************************************)
(* The two passes over argv, for every command line.                       *)
(*                                                                         *)
(* WordsKept: while zb_options_take_globals runs, the slots behind the     *)
(* read index are untouched, those before the write index hold words       *)
(* already read, in order, and nothing that has been read is missing from  *)
(* them but global options and their values.  Afterwards nobody writes to  *)
(* argv.                                                                   *)
(*                                                                         *)
(* PositionalsExact: what zb_parse_args has passed is a positional, an     *)
(* option, its value, or the "--" behind which all are positionals.        *)
(***************************************************************************)
EXTENDS CommandLine, TLAPS

Kept(n) == {argv[s] : s \in 1..n}

\* The two indices, and what they divide argv into.
Indices ==
    /\ Len(words) \in Nat /\ argc = Len(words)
    /\ read \in 0..argc /\ write \in 0..read
    /\ argv \in [Slots -> Slots]
    /\ \A s \in Slots : s > read => argv[s] = s
    /\ \A s \in 1..write : argv[s] <= read
    /\ pass \in BOOLEAN

InOrder(n) == \A s, t \in 1..n : s < t => argv[s] < argv[t]

\* "--" has been seen only if it was kept, and a global option is kept only
\* behind it.
GlobalsBehind(n) ==
    \A i \in Kept(n) : IsGlobal(words[i]) =>
        \E j \in Kept(n) : j < i /\ words[j].form = "dashdash"

PassSeen == pass => \E j \in Kept(write) : words[j].form = "dashdash"

\* Of the first r words, those missing from the first n slots were taken.
Taken(i, S) ==
    \/ IsGlobal(words[i])
    \/ i - 1 \in S /\ IsHost(words[i - 1]) /\ words[i - 1].value = None

OthersTaken(r, n) == \A i \in (1..r) \ Kept(n) : Taken(i, (1..r) \ Kept(n))

Compaction ==
    pc = "globals" =>
        Indices /\ InOrder(write) /\ GlobalsBehind(write) /\ PassSeen /\ OthersTaken(read, write)

CLInv == Compaction /\ WordsKept

-----------------------------------------------------------------------------

LEMMA InitCL == Init => CLInv
  <1>1. SUFFICES ASSUME Init PROVE CLInv
        OBVIOUS
  <1>2. Len(words) \in Nat /\ pc = "globals" /\ read = 0 /\ write = 0 /\ argc = Len(words)
        /\ argv = [i \in 1..Len(words) |-> i] /\ pass = FALSE
        BY <1>1, ArgvsAssumption DEF Init
  <1>3. Kept(write) = {} /\ 1..read = {} /\ 1..write = {}
        BY <1>2 DEF Kept
  <1>4. Indices
    <2>1. argv \in [Slots -> Slots] /\ \A s \in Slots : argv[s] = s
          BY <1>2 DEF Slots
    <2>2. Len(words) \in Nat /\ argc = Len(words) /\ read \in 0..argc /\ write \in 0..read
          BY <1>2
    <2>4. pass \in BOOLEAN
          BY <1>1 DEF Init
    <2>3. \A s \in 1..write : argv[s] <= read
          BY <1>3
    <2> QED BY <2>1, <2>2, <2>3, <2>4 DEF Indices
  <1>5. InOrder(write) /\ GlobalsBehind(write) /\ PassSeen /\ OthersTaken(read, write)
    <2>1. InOrder(write)
          BY <1>3 DEF InOrder
    <2>2. GlobalsBehind(write) /\ OthersTaken(read, write)
          BY <1>3 DEF GlobalsBehind, OthersTaken
    <2>3. PassSeen
          BY <1>2 DEF PassSeen
    <2> QED BY <2>1, <2>2, <2>3
  <1>6. WordsKept
        BY <1>2 DEF WordsKept, HandedOn
  <1> QED BY <1>4, <1>5, <1>6 DEF CLInv, Compaction

\* A kept word goes to the first free slot; the slots before it stay.
LEMMA KeepStep ==
    ASSUME Compaction, Keep
    PROVE  Compaction'
  <1> USE DEF Reading
  <1> DEFINE w == Word(read + 1)
  <1>1. pc = "globals" /\ read < argc /\ Indices /\ InOrder(write) /\ GlobalsBehind(write)
        /\ PassSeen /\ OthersTaken(read, write)
        BY DEF Keep, Compaction
  <1>2. /\ words' = words /\ argc' = argc /\ pc' = pc
        /\ read' = read + 1 /\ write' = write + 1
        /\ pass \/ ~IsGlobal(w)
        /\ argv' = [argv EXCEPT ![write + 1] = argv[read + 1]]
        BY DEF Keep, UNCHANGEDRest
  <1>2a. pass' = (pass \/ w.form = "dashdash")
        BY Zenon DEF Keep
  <1>3. read + 1 \in Slots /\ write + 1 \in Slots /\ argv[read + 1] = read + 1
        /\ w = words[read + 1] /\ argc \in Nat /\ read \in Nat /\ write \in Nat
        BY <1>1 DEF Indices, Slots, Word
  <1>4. /\ \A s \in 1..write : argv'[s] = argv[s]
        /\ argv'[write + 1] = read + 1
        /\ \A s \in Slots : s > read + 1 => argv'[s] = argv[s]
        /\ argv' \in [Slots -> Slots]
        BY <1>1, <1>2, <1>3 DEF Indices, Slots
  <1>5. Kept(write)' = Kept(write) \cup {read + 1}
        BY <1>2, <1>3, <1>4 DEF Kept
  <1>6. \A i \in Kept(write) : i \in 1..read
        BY <1>1, <1>3 DEF Kept, Indices, Slots
  <1>7. Indices'
    <2>1. (Len(words) \in Nat /\ argc = Len(words))' /\ Slots' = Slots
          BY <1>1, <1>2 DEF Indices, Slots
    <2>2. (read \in 0..argc)' /\ (write \in 0..read)'
          BY <1>1, <1>2, <1>3 DEF Indices
    <2>3. \A s \in Slots : s > read' => argv'[s] = s
          BY <1>1, <1>2, <1>3, <1>4 DEF Indices, Slots
    <2>4. \A s \in 1..write' : argv'[s] <= read'
      <3>1. \A s \in 1..write : argv[s] \in Slots /\ argv[s] <= read
            BY <1>1, <1>3 DEF Indices, Slots
      <3>2. \A s \in 1..write : argv'[s] <= read + 1
            BY <1>3, <1>4, <3>1 DEF Slots
      <3>3. argv'[write + 1] <= read + 1
            BY <1>3, <1>4
      <3>4. \A s \in 1..write + 1 : s \in 1..write \/ s = write + 1
            BY <1>3
      <3> QED BY <1>2, <3>2, <3>3, <3>4
    <2>5. pass' \in BOOLEAN
      <3>1. pass \in BOOLEAN
            BY <1>1 DEF Indices
      <3> QED BY <1>2a, <3>1, Zenon
    <2> QED BY <1>4, <2>1, <2>2, <2>3, <2>4, <2>5 DEF Indices
  <1>8. InOrder(write)'
    <2>1. \A s \in 1..write : argv[s] \in Nat /\ argv[s] <= read
          BY <1>1, <1>3 DEF Indices, Slots
    <2>2. SUFFICES ASSUME NEW s \in 1..write + 1, NEW t \in 1..write + 1, s < t
                   PROVE  argv'[s] < argv'[t]
          BY <1>2 DEF InOrder
    <2>3. CASE t = write + 1
      <3>1. s \in 1..write /\ argv'[s] = argv[s]
            BY <1>3, <1>4, <2>2, <2>3
      <3> QED BY <1>3, <1>4, <2>1, <2>3, <3>1
    <2>4. CASE t \in 1..write
      <3>1. s \in 1..write
            BY <1>3, <2>2, <2>4
      <3> QED BY <1>1, <1>4, <2>2, <2>4, <3>1 DEF InOrder
    <2> QED BY <1>3, <2>2, <2>3, <2>4
  <1>9. PassSeen'
    <2>1. CASE pass
      <3>1. PICK j \in Kept(write) : words[j].form = "dashdash"
            BY <1>1, <2>1 DEF PassSeen
      <3> QED BY <1>2, <1>5, <3>1 DEF PassSeen
    <2>2. CASE w.form = "dashdash"
      <3>1. read + 1 \in Kept(write)' /\ words'[read + 1].form = "dashdash"
            BY <1>2, <1>3, <1>5, <2>2
      <3> QED BY <3>1 DEF PassSeen
    <2>3. CASE ~pass'
          BY <2>3 DEF PassSeen
    <2> QED BY <1>2a, <2>1, <2>2, <2>3, Zenon
  <1>10. GlobalsBehind(write)'
    <2>1. SUFFICES ASSUME NEW i \in Kept(write) \cup {read + 1}, IsGlobal(words[i])
                   PROVE  \E j \in Kept(write) \cup {read + 1} : j < i /\ words[j].form = "dashdash"
          BY <1>2, <1>5 DEF GlobalsBehind, IsGlobal, IsFlag, IsHost, GlobalName
    <2>2. CASE i \in Kept(write)
          BY <1>1, <2>1, <2>2 DEF GlobalsBehind
    <2>3. CASE i = read + 1
      <3>1. pass
            BY <1>2, <1>3, <2>1, <2>3
      <3>2. PICK j \in Kept(write) : words[j].form = "dashdash"
            BY <1>1, <3>1 DEF PassSeen
      <3> QED BY <1>3, <1>6, <2>3, <3>2
    <2> QED BY <2>2, <2>3
  <1>11. OthersTaken(read, write)'
    <2>1. (1..read + 1) \ (Kept(write) \cup {read + 1}) = (1..read) \ Kept(write)
          BY <1>3, <1>6
    <2> QED BY <1>1, <1>2, <1>5, <2>1 DEF OthersTaken, Taken, IsGlobal, IsFlag, IsHost, GlobalName
  <1> QED BY <1>7, <1>8, <1>9, <1>10, <1>11 DEF Compaction

\* A global option is skipped, with the word behind it if that is its value.
LEMMA SkipStep ==
    ASSUME Compaction, pc = "globals", read' \in {read + 1, read + 2}, read' <= argc,
           IsGlobal(words[read + 1]),
           read' = read + 2 => IsHost(words[read + 1]) /\ words[read + 1].value = None,
           UNCHANGED <<words, argv, argc, write, pass>>
    PROVE  Compaction'
  <1>1. Indices /\ InOrder(write) /\ GlobalsBehind(write) /\ PassSeen /\ OthersTaken(read, write)
        BY DEF Compaction
  <1>2. Kept(write)' = Kept(write) /\ \A i \in Kept(write) : i \in 1..read
        BY <1>1 DEF Kept, Indices, Slots
  <1>3. Indices'
        BY <1>1 DEF Indices, Slots
  <1>4. InOrder(write)' /\ PassSeen'
        BY <1>1, <1>2 DEF InOrder, PassSeen
  <1>5. GlobalsBehind(write)'
        BY <1>1, <1>2 DEF GlobalsBehind, IsGlobal, IsFlag, IsHost, GlobalName
  <1>6. OthersTaken(read, write)'
    <2> DEFINE S == (1..read') \ Kept(write)
               T == (1..read) \ Kept(write)
    <2>1. read \in Nat /\ read' \in Nat /\ T \subseteq S /\ read + 1 \in S
          BY <1>1, <1>2 DEF Indices
    <2>2. SUFFICES ASSUME NEW i \in S PROVE Taken(i, S)
          BY <1>2 DEF OthersTaken, Taken, IsGlobal, IsFlag, IsHost, GlobalName
    <2>3. CASE i \in T
          BY <1>1, <2>1, <2>3 DEF OthersTaken, Taken
    <2>4. CASE i = read + 1
          BY <2>4 DEF Taken
    <2>5. CASE i = read + 2 /\ read' = read + 2
          BY <2>1, <2>5 DEF Taken
    <2>6. i \in T \/ i = read + 1 \/ (i = read + 2 /\ read' = read + 2)
          BY <2>1
    <2> QED BY <2>3, <2>4, <2>5, <2>6
  <1> QED BY <1>3, <1>4, <1>5, <1>6 DEF Compaction

\* At the end the words read are all there are.
LEMMA AllTakenStep ==
    ASSUME Compaction, AllTaken
    PROVE  WordsKept'
  <1>1. pc = "globals" /\ read >= argc /\ Indices /\ InOrder(write) /\ GlobalsBehind(write)
        /\ OthersTaken(read, write)
        BY DEF AllTaken, Compaction
  <1>2. argc' = write /\ argv' = argv /\ words' = words
        BY DEF AllTaken, UNCHANGEDRest
  <1>3. 1..read = Slots
        BY <1>1 DEF Indices, Slots
  <1>4. InOrder(argc)' /\ {argv[s] : s \in 1..argc}' = Kept(write)
        BY <1>1, <1>2 DEF InOrder, Kept
  <1>5. \A i \in Kept(write) : IsGlobal(words[i])' =>
            \E j \in Kept(write) : j < i /\ words'[j].form = "dashdash"
        BY <1>1, <1>2 DEF GlobalsBehind, IsGlobal, IsFlag, IsHost, GlobalName
  <1>6. \A i \in Slots \ Kept(write) :
            \/ IsGlobal(words[i])'
            \/ i - 1 \in Slots \ Kept(write) /\ IsHost(words[i - 1])' /\ words'[i - 1].value = None
        BY <1>1, <1>2, <1>3 DEF OthersTaken, Taken, IsGlobal, IsFlag, IsHost, GlobalName
  <1>7. Slots' = Slots
        BY <1>2 DEF Slots
  <1> QED BY <1>4, <1>5, <1>6, <1>7 DEF WordsKept, InOrder

LEMMA NextCL == CLInv /\ [Next]_vars => CLInv'
  <1>1. SUFFICES ASSUME CLInv, [Next]_vars PROVE CLInv'
        OBVIOUS
  <1> USE <1>1 DEF CLInv
  <1>2. CASE Keep
    <2>1. pc' = "globals"
          BY <1>2 DEF Keep, Reading
    <2> QED BY <1>2, <2>1, KeepStep DEF WordsKept, HandedOn
  <1>3. CASE TakeFlag
    <2>1. /\ pc = "globals" /\ read' = read + 1 /\ read < argc /\ ~pass
          /\ UNCHANGED <<words, argv, argc, write, pass>> /\ IsFlag(Word(read + 1))
          /\ pc' \in {"globals", "cleanup"}
          BY <1>3 DEF TakeFlag, Reading, UNCHANGEDRest, End
    <2>2. Indices
          BY <2>1 DEF Compaction
    <2>3. argv[read + 1] = read + 1 /\ read \in Nat /\ argc \in Nat
          BY <2>1, <2>2 DEF Indices, Slots
    <2>4. IsGlobal(words[read + 1]) /\ read' <= argc
          BY <2>1, <2>3 DEF Word, IsGlobal
    <2>5. read' # read + 2
          BY <2>1, <2>3
    <2>6. Compaction'
          BY <2>1, <2>4, <2>5, SkipStep
    <2> QED BY <2>1, <2>6 DEF WordsKept, HandedOn
  <1>4. CASE TakeHost
    <2>1. /\ pc = "globals" /\ read < argc
          /\ UNCHANGED <<words, argv, argc, write, pass>> /\ IsHost(Word(read + 1))
          /\ \/ read' = read + 1
             \/ read' = read + 2 /\ Word(read + 1).value = None /\ read + 1 < argc
          /\ pc' \in {"globals", "cleanup"}
          BY <1>4 DEF TakeHost, Reading, UNCHANGEDRest, End
    <2>2. Indices
          BY <2>1 DEF Compaction
    <2>3. argv[read + 1] = read + 1 /\ read \in Nat /\ argc \in Nat
          BY <2>1, <2>2 DEF Indices, Slots
    <2>4. /\ IsHost(words[read + 1]) /\ IsGlobal(words[read + 1])
          /\ read' \in {read + 1, read + 2} /\ read' <= argc
          /\ read' = read + 2 => words[read + 1].value = None
          BY <2>1, <2>3 DEF Word, IsGlobal
    <2>5. Compaction'
          BY <2>1, <2>4, SkipStep
    <2> QED BY <2>1, <2>5 DEF WordsKept, HandedOn
  <1>5. CASE AllTaken
    <2>1. pc' = "dispatch"
          BY <1>5 DEF AllTaken
    <2> QED BY <1>5, <2>1, AllTakenStep DEF Compaction
  <1>6. CASE Dispatch \/ ParseArgs \/ PutOut \/ Overflow \/ CommandEnds \/ Cleanup
    <2>1. /\ UNCHANGED <<words, argv, argc>>
          /\ HandedOn \/ pc = "cleanup"
          /\ pc' \in {"parse", "run", "cleanup", "exited"} /\ (HandedOn' => HandedOn)
          BY <1>6 DEF Dispatch, ParseArgs, ParsePlain, ParseDashDash, ParseLong, ParseShort, Parsed,
                      ParseFails, Parsing, StillParsing, PutOut, Overflow, CommandEnds, Cleanup, End,
                      UNCHANGEDRest, globals, HandedOn
    <2>2. Compaction'
          BY <2>1 DEF Compaction
    <2>3. Slots' = Slots
          BY <2>1 DEF Slots
    <2> QED BY <2>1, <2>2, <2>3 DEF WordsKept, IsGlobal, IsFlag, IsHost, GlobalName
  <1>7. CASE UNCHANGED vars
        BY <1>7 DEF vars, Compaction, Indices, InOrder, GlobalsBehind, PassSeen, OthersTaken, Taken,
                    Kept, Slots, WordsKept, HandedOn, IsGlobal, IsFlag, IsHost, GlobalName
  <1> QED BY <1>2, <1>3, <1>4, <1>5, <1>6, <1>7 DEF Next, TakeGlobals

\* However long the command line and whatever its words: the command gets
\* each word that is not a global option, once and in order, and no other
\* (zb_options_take_globals).
THEOREM WordsHandedOn == Spec => []WordsKept
  <1>1. CLInv => WordsKept
        BY DEF CLInv
  <1> QED BY <1>1, InitCL, NextCL, PTL DEF Spec

-----------------------------------------------------------------------------
(***************************************************************************)
(* TypeOK.  No index leaves argv: a value is taken from the next slot only *)
(* if there is one.                                                        *)
(***************************************************************************)
Numbers ==
    /\ Len(words) \in Nat /\ argv \in [Slots -> Slots]
    /\ argc \in 0..Len(words) /\ read \in 0..Len(words) /\ write \in 0..Len(words)
    /\ write <= read
    /\ pc = "globals" => argc = Len(words)

Outcome ==
    /\ pc \in {"globals", "dispatch", "parse", "run", "cleanup", "exited"}
    /\ rc \in {0, 1, 2, 130}

Flags ==
    /\ opt = [flags |-> opt.flags, hosts |-> opt.hosts]
    /\ opt.flags \subseteq GlobalFlags

Parser ==
    /\ arg \in 2..(Len(words) + 2)
    /\ pos \in Seq(Slots)
    /\ \E S : given \in Seq(S)

TypeInv == Numbers /\ Outcome /\ Flags /\ Parser

-----------------------------------------------------------------------------

LEMMA InitType == Init => TypeInv
  <1> SUFFICES ASSUME Init PROVE TypeInv
      OBVIOUS
  <1>1. Len(words) \in Nat
        BY ArgvsAssumption DEF Init
  <1>2. argv \in [Slots -> Slots]
        BY DEF Init, Slots
  <1>3. argc = Len(words) /\ read = 0 /\ write = 0 /\ pc = "globals" /\ rc = 0
        BY DEF Init
  <1>4. Numbers
        BY <1>1, <1>2, <1>3 DEF Numbers
  <1>5. Outcome
        BY <1>3 DEF Outcome
  <1>6. Flags
        BY DEF Init, Flags
  <1>7. arg = 2 /\ pos = <<>> /\ given = <<>>
        BY DEF Init
  <1>8. <<>> \in Seq(Slots)
        OBVIOUS
  <1>9. Parser
        BY <1>1, <1>7, <1>8 DEF Parser
  <1> QED BY <1>4, <1>5, <1>6, <1>9 DEF TypeInv

\* zb_options_take_globals leaves the parser alone.
LEMMA GlobalsType ==
    ASSUME TypeInv, TakeGlobals
    PROVE  TypeInv'
  <1>1. UNCHANGED <<words, arg, pos, given>>
        BY DEF TakeGlobals, Keep, TakeFlag, TakeHost, AllTaken, UNCHANGEDRest, parser
  <1>2. Parser' /\ Slots' = Slots /\ Len(words') = Len(words) /\ Len(words) \in Nat
        BY <1>1 DEF TypeInv, Parser, Slots, Numbers
  <1>3. pc = "globals"
        BY DEF TakeGlobals, Keep, TakeFlag, TakeHost, AllTaken, Reading
  <1>4. /\ argv \in [Slots -> Slots] /\ argc = Len(words)
        /\ read \in 0..argc /\ write \in 0..read
        BY <1>3 DEF TypeInv, Numbers
  <1>5. CASE Keep
    <2>1. /\ read < argc /\ argv' = [argv EXCEPT ![write + 1] = argv[read + 1]]
          /\ read' = read + 1 /\ write' = write + 1 /\ UNCHANGED <<argc, opt, pc, rc>>
          BY <1>5 DEF Keep, Reading
    <2>2. read + 1 \in Slots
          BY <1>2, <1>4, <2>1 DEF Slots
    <2>3. argv' \in [Slots -> Slots]
          BY <1>4, <2>1, <2>2
    <2>4. Numbers'
          BY <1>2, <1>4, <2>1, <2>3 DEF Numbers
    <2>5. Outcome' /\ Flags'
          BY <2>1 DEF TypeInv, Outcome, Flags
    <2> QED BY <1>2, <2>4, <2>5 DEF TypeInv
  <1>6. CASE TakeFlag
    <2>1. /\ read < argc /\ read' = read + 1 /\ UNCHANGED <<argv, argc, write>>
          BY <1>6 DEF TakeFlag, Reading
    <2>2. Numbers'
      <3>1. argc' = Len(words)'
            BY <1>2, <1>4, <2>1
      <3>2. read' \in 0..Len(words) /\ write \in 0..Len(words) /\ write <= read'
            BY <1>2, <1>4, <2>1
      <3>3. argv' \in [Slots -> Slots] /\ argc' \in 0..Len(words)
            BY <1>2, <1>4, <2>1
      <3> QED BY <1>2, <2>1, <3>1, <3>2, <3>3 DEF Numbers
    <2>3. PICK f \in GlobalFlags : opt' = [opt EXCEPT !.flags = @ \cup {f}]
          BY <1>6 DEF TakeFlag, IsFlag
    <2>4. Flags'
          BY <2>3 DEF TypeInv, Flags
    <2>5. \/ UNCHANGED <<pc, rc>>
          \/ pc' = "cleanup" /\ rc' = 2
          BY <1>6 DEF TakeFlag, End
    <2>6. Outcome'
          BY <2>5 DEF TypeInv, Outcome
    <2> QED BY <1>2, <2>2, <2>4, <2>6 DEF TypeInv
  <1>7. CASE TakeHost
    <2>1. /\ read < argc /\ UNCHANGED <<argv, argc, write>>
          /\ \/ read' = read + 1
             \/ read + 1 < argc /\ read' = read + 2
          BY <1>7 DEF TakeHost, Reading
    <2>2. Numbers'
      <3>1. argc' = Len(words)'
            BY <1>2, <1>4, <2>1
      <3>2. read' \in 0..Len(words) /\ write \in 0..Len(words) /\ write <= read'
            BY <1>2, <1>4, <2>1
      <3>3. argv' \in [Slots -> Slots] /\ argc' \in 0..Len(words)
            BY <1>2, <1>4, <2>1
      <3> QED BY <1>2, <2>1, <3>1, <3>2, <3>3 DEF Numbers
    <2>3. opt' = opt \/ \E h, v : opt' = [opt EXCEPT !.hosts[h] = v]
          BY <1>7 DEF TakeHost
    <2>4. Flags'
          BY <2>3 DEF TypeInv, Flags
    <2>5. \/ UNCHANGED <<pc, rc>>
          \/ pc' = "cleanup" /\ rc' = 2
          BY <1>7 DEF TakeHost, End
    <2>6. Outcome'
          BY <2>5 DEF TypeInv, Outcome
    <2> QED BY <1>2, <2>2, <2>4, <2>6 DEF TypeInv
  <1>8. CASE AllTaken
    <2>1. argc' = write /\ UNCHANGED <<argv, read, write, opt, rc>> /\ pc' = "dispatch"
          BY <1>8 DEF AllTaken
    <2>2. Numbers'
          BY <1>2, <1>4, <2>1 DEF Numbers
    <2>3. Outcome' /\ Flags'
          BY <2>1 DEF TypeInv, Outcome, Flags
    <2> QED BY <1>2, <2>2, <2>3 DEF TypeInv
  <1> QED BY <1>5, <1>6, <1>7, <1>8 DEF TakeGlobals

\* Whatever comes after them leaves them as they are.
LEMMA AfterGlobals ==
    ASSUME TypeInv, UNCHANGED <<words, globals>>, pc' # "globals", Outcome', Parser'
    PROVE  TypeInv'
  <1>1. UNCHANGED <<words, argv, argc, read, write, opt>>
        BY DEF globals
  <1>2. Numbers' /\ Flags'
        BY <1>1 DEF TypeInv, Numbers, Flags, Slots
  <1> QED BY <1>2 DEF TypeInv

\* main does not touch the parser.
LEMMA MainType ==
    ASSUME TypeInv, Dispatch \/ Parsed \/ PutOut \/ Overflow \/ CommandEnds \/ Cleanup
    PROVE  TypeInv'
  <1>1. UNCHANGED <<words, globals, parser>>
        BY DEF Dispatch, Parsed, PutOut, Overflow, CommandEnds, Cleanup, UNCHANGEDRest
  <1>2. UNCHANGED <<words, arg, pos, given>>
        BY <1>1 DEF parser
  <1>3. Parser'
        BY <1>2 DEF TypeInv, Parser, Slots
  <1>4. /\ pc' \in {"parse", "run", "cleanup", "exited"}
        /\ rc' = rc \/ rc' \in {0, 1, 2, 130}
        BY DEF Dispatch, Parsed, PutOut, Overflow, CommandEnds, Cleanup, End
  <1>5. Outcome' /\ pc' # "globals"
        BY <1>4 DEF TypeInv, Outcome
  <1> QED BY <1>1, <1>3, <1>5, AfterGlobals

-----------------------------------------------------------------------------
(***************************************************************************)
(* What a step of zb_parse_args does to a word: it is a positional; it is  *)
(* the first "--"; it is an option, which may be the last of its cluster;  *)
(* it is an option whose value is the next word.                           *)
(***************************************************************************)
Positional ==
    /\ only \/ Word(arg).form = "plain"
    /\ pos' = Append(pos, argv[arg]) /\ arg' = arg + 1
    /\ UNCHANGED <<only, given>>

Terminator ==
    /\ ~only /\ Word(arg).form = "dashdash"
    /\ only' /\ arg' = arg + 1
    /\ UNCHANGED <<pos, given>>

Option ==
    /\ ~only /\ Word(arg).form \in {"long", "short"}
    /\ arg' \in {arg, arg + 1}
    /\ given' = given \/ \E x : given' = Append(given, x)
    /\ UNCHANGED <<only, pos>>

OptionWithNext ==
    /\ ~only /\ Word(arg).form \in {"long", "short"}
    /\ arg < argc /\ arg' = arg + 2
    /\ \E name : given' = Append(given, <<name, TextOf(Word(arg + 1))>>)
    /\ UNCHANGED <<only, pos>>

LEMMA ParseEffect ==
    ASSUME ParsePlain \/ ParseDashDash \/ ParseLong \/ ParseShort
    PROVE  /\ pc = "parse" /\ arg <= argc /\ UNCHANGED <<words, globals>>
           /\ \/ UNCHANGED <<pc, rc>>
              \/ pc' = "cleanup" /\ rc' = 2
           /\ Positional \/ Terminator \/ Option \/ OptionWithNext
  <1>1. pc = "parse" /\ arg <= argc
        BY DEF ParsePlain, ParseDashDash, ParseLong, ParseShort, Parsing
  <1>2. UNCHANGED <<words, globals>>
        BY DEF ParsePlain, ParseDashDash, ParseLong, ParseShort, StillParsing
  <1>3. \/ UNCHANGED <<pc, rc>>
        \/ pc' = "cleanup" /\ rc' = 2
        BY DEF ParsePlain, ParseDashDash, ParseLong, ParseShort, ParseFails, End, StillParsing
  <1>4. CASE ParsePlain
        BY <1>1, <1>2, <1>3, <1>4 DEF ParsePlain, Positional
  <1>5. CASE ParseDashDash
        BY <1>1, <1>2, <1>3, <1>5 DEF ParseDashDash, Terminator
  <1>6. CASE ParseLong
    <2>1. ~only /\ Word(arg).form = "long"
          BY <1>6 DEF ParseLong
    <2>2. \/ ParseFails
          \/ \E name, value : Give(name, value) /\ arg' = arg + 1 /\ UNCHANGED <<only, pos>>
          \/ /\ arg < argc /\ \E name : Give(name, TextOf(Word(arg + 1)))
             /\ arg' = arg + 2 /\ UNCHANGED <<only, pos>>
          BY <1>6 DEF ParseLong
    <2>3. CASE ParseFails
          BY <2>1, <2>3, <1>1, <1>2, <1>3 DEF ParseFails, parser, Option
    <2>4. CASE \E name, value : Give(name, value) /\ arg' = arg + 1 /\ UNCHANGED <<only, pos>>
          BY <2>1, <2>4, <1>1, <1>2, <1>3 DEF Give, Option
    <2>5. CASE /\ arg < argc /\ \E name : Give(name, TextOf(Word(arg + 1)))
               /\ arg' = arg + 2 /\ UNCHANGED <<only, pos>>
          BY <2>1, <2>5, <1>1, <1>2, <1>3 DEF Give, OptionWithNext
    <2> QED BY <2>2, <2>3, <2>4, <2>5
  <1>7. CASE ParseShort
    <2>1. ~only /\ Word(arg).form = "short"
          BY <1>7 DEF ParseShort
    <2>2. \/ ParseFails
          \/ /\ \E name, value : Give(name, value)
             /\ arg' \in {arg, arg + 1} /\ UNCHANGED <<only, pos>>
          \/ /\ arg < argc /\ \E name : Give(name, TextOf(Word(arg + 1)))
             /\ arg' = arg + 2 /\ UNCHANGED <<only, pos>>
          BY <1>7 DEF ParseShort
    <2>3. CASE ParseFails
          BY <2>1, <2>3, <1>1, <1>2, <1>3 DEF ParseFails, parser, Option
    <2>4. CASE /\ \E name, value : Give(name, value)
               /\ arg' \in {arg, arg + 1} /\ UNCHANGED <<only, pos>>
          BY <2>1, <2>4, <1>1, <1>2, <1>3 DEF Give, Option
    <2>5. CASE /\ arg < argc /\ \E name : Give(name, TextOf(Word(arg + 1)))
               /\ arg' = arg + 2 /\ UNCHANGED <<only, pos>>
          BY <2>1, <2>5, <1>1, <1>2, <1>3 DEF Give, OptionWithNext
    <2> QED BY <2>2, <2>3, <2>4, <2>5
  <1> QED BY <1>4, <1>5, <1>6, <1>7

\* What is appended to the options given, and what that keeps.
LEMMA AppendGiven ==
    ASSUME \E S : given \in Seq(S), NEW x, given' = Append(given, x)
    PROVE  /\ \E S : given' \in Seq(S)
           /\ \A i \in DOMAIN given : i \in DOMAIN given' /\ given'[i] = given[i]
           /\ \E i \in DOMAIN given' : given'[i] = x
  <1>1. PICK S : given \in Seq(S)
        OBVIOUS
  <1>2. PICK T : T = S \cup {x}
        OBVIOUS
  <1>3. given \in Seq(T) /\ x \in T
        BY <1>1, <1>2
  <1>4. PICK g : g = Append(given, x)
        OBVIOUS
  <1>5. /\ g \in Seq(T) /\ Len(g) = Len(given) + 1 /\ Len(given) \in Nat
        /\ \A i \in 1..Len(given) : g[i] = given[i]
        /\ g[Len(given) + 1] = x
        BY <1>3, <1>4
  <1>6. DOMAIN g = 1..Len(g) /\ DOMAIN given = 1..Len(given)
        BY <1>3, <1>5
  <1>7. Len(given) + 1 \in DOMAIN g
        BY <1>5, <1>6
  <1>8. \A i \in DOMAIN given : i \in DOMAIN g /\ g[i] = given[i]
        BY <1>5, <1>6
  <1> QED BY <1>4, <1>5, <1>7, <1>8

LEMMA ParseType ==
    ASSUME TypeInv, ParsePlain \/ ParseDashDash \/ ParseLong \/ ParseShort
    PROVE  TypeInv'
  <1>1. /\ pc = "parse" /\ arg <= argc /\ UNCHANGED <<words, globals>>
        /\ \/ UNCHANGED <<pc, rc>>
           \/ pc' = "cleanup" /\ rc' = 2
        /\ Positional \/ Terminator \/ Option \/ OptionWithNext
        BY ParseEffect
  <1>2. Outcome' /\ pc' # "globals"
        BY <1>1 DEF TypeInv, Outcome
  <1>3. Len(words) \in Nat /\ argc \in 0..Len(words) /\ arg \in 2..(Len(words) + 2)
        /\ argv \in [Slots -> Slots]
        BY DEF TypeInv, Numbers, Parser
  <1>4. arg' \in 2..(Len(words) + 2)
    <2>1. arg' \in {arg, arg + 1} \/ (arg < argc /\ arg' = arg + 2)
          BY <1>1 DEF Positional, Terminator, Option, OptionWithNext
    <2> QED BY <1>1, <1>3, <2>1
  <1>5. pos' \in Seq(Slots)
    <2>1. pos \in Seq(Slots)
          BY DEF TypeInv, Parser
    <2>2. argv[arg] \in Slots
      <3>1. arg \in Slots
            BY <1>1, <1>3 DEF Slots
      <3> QED BY <1>3, <3>1
    <2>3. pos' = pos \/ pos' = Append(pos, argv[arg])
          BY <1>1 DEF Positional, Terminator, Option, OptionWithNext
    <2> QED BY <2>1, <2>2, <2>3
  <1>6. \E S : given' \in Seq(S)
    <2>1. given' = given \/ \E x : given' = Append(given, x)
          BY <1>1 DEF Positional, Terminator, Option, OptionWithNext
    <2>2. \E S : given \in Seq(S)
          BY DEF TypeInv, Parser
    <2>3. CASE given' = given
          BY <2>2, <2>3
    <2>4. ASSUME NEW x, given' = Append(given, x)
          PROVE  \E S : given' \in Seq(S)
          BY <2>2, <2>4, AppendGiven
    <2> QED BY <2>1, <2>3, <2>4
  <1>7. Parser'
    <2>1. words' = words
          BY <1>1
    <2> QED BY <1>4, <1>5, <1>6, <2>1 DEF Parser, Slots
  <1> QED BY <1>1, <1>2, <1>7, AfterGlobals

LEMMA NextType == TypeInv /\ [Next]_vars => TypeInv'
  <1> SUFFICES ASSUME TypeInv, [Next]_vars PROVE TypeInv'
      OBVIOUS
  <1>1. CASE UNCHANGED vars
    <2>1. UNCHANGED <<words, argv, argc, read, write, opt, pc, arg, pos, given, rc>>
          BY <1>1 DEF vars
    <2>2. Numbers' /\ Outcome'
          BY <2>1 DEF TypeInv, Numbers, Outcome, Slots
    <2>3. Flags' /\ Parser'
          BY <2>1 DEF TypeInv, Flags, Parser, Slots
    <2> QED BY <2>2, <2>3 DEF TypeInv
  <1>2. CASE Next
        BY <1>2, GlobalsType, MainType, ParseType DEF Next, ParseArgs
  <1> QED BY <1>1, <1>2

\* No index leaves argv, whatever the words: a value is taken from the next
\* word only if there is one, on either pass.
THEOREM CommandLineTyped == Spec => []TypeOK
  <1>1. TypeInv => TypeOK
    <2> SUFFICES ASSUME TypeInv PROVE TypeOK
        OBVIOUS
    <2>1. Positionals \subseteq Slots
      <3>1. pos \in Seq(Slots)
            BY DEF TypeInv, Parser
      <3>2. \A i \in DOMAIN pos : pos[i] \in Slots
            BY <3>1
      <3> QED BY <3>2 DEF Positionals
    <2> QED BY <2>1 DEF TypeInv, Numbers, Outcome, Flags, Parser, TypeOK
  <1> QED BY <1>1, InitType, NextType, PTL DEF Spec

-----------------------------------------------------------------------------
(***************************************************************************)
(* PositionalsExact.  Of the slots behind the parser: a positional is one  *)
(* of them, in their order; one that is no option and no "--" was taken as *)
(* a positional or as a value; and behind a "--" that is neither there are *)
(* only positionals.                                                       *)
(***************************************************************************)
Text(s) == \E i \in DOMAIN given : given[i][2] = TextOf(Word(s))
Behind(n) == {s \in 2..argc : s < n}

FromArgv(n) == \A i \in DOMAIN pos : \E s \in Behind(n) : pos[i] = argv[s]

PosInOrder == \A i, j \in DOMAIN pos : i < j => pos[i] < pos[j]

PlainFirst ==
    \A p \in Positionals : words[p].form # "plain" =>
        \E s \in 2..argc : argv[s] < p /\ words[argv[s]].form = "dashdash"

PlainTaken(n) ==
    \A s \in Behind(n) : argv[s] \notin Positionals /\ Word(s).form = "plain" => Text(s)

OnlyBehind(n) == only => \E s \in Behind(n) : Word(s).form = "dashdash"

\* "--" ends the options where it is one of them.
Ends(n) ==
    \A s \in Behind(n) : Word(s).form = "dashdash" =>
        only \/ Text(s) \/ argv[s] \in Positionals

AllBehind(n) ==
    \A s, t \in Behind(n) :
        s < t /\ Word(s).form = "dashdash" /\ argv[t] \notin Positionals =>
            Text(s) \/ argv[s] \in Positionals

Exact(n) ==
    /\ FromArgv(n) /\ PosInOrder /\ PlainFirst /\ PlainTaken(n) /\ OnlyBehind(n)
    /\ Ends(n) /\ AllBehind(n)

Untouched == arg = 2 /\ pos = <<>> /\ given = <<>> /\ ~only

PosInv ==
    /\ pc \in {"globals", "dispatch"} => Untouched
    /\ pc \in {"parse", "run"} => Exact(arg)
    /\ pc = "run" => arg > argc

-----------------------------------------------------------------------------

\* Nothing is behind the parser at first.
LEMMA ExactAtFirst ==
    ASSUME Untouched, argc \in Nat
    PROVE  Exact(arg)
  <1>1. Behind(arg) = {}
        BY DEF Behind, Untouched
  <1>2. DOMAIN pos = {} /\ Positionals = {}
        BY DEF Untouched, Positionals
  <1>3. FromArgv(arg) /\ PosInOrder /\ PlainFirst
        BY <1>2 DEF FromArgv, PosInOrder, PlainFirst
  <1>4. PlainTaken(arg) /\ OnlyBehind(arg) /\ Ends(arg) /\ AllBehind(arg)
        BY <1>1 DEF PlainTaken, OnlyBehind, Ends, AllBehind, Untouched
  <1> QED BY <1>3, <1>4 DEF Exact

\* A positional.
LEMMA PositionalExact ==
    ASSUME TypeInv, Exact(arg), arg <= argc, UNCHANGED <<words, argv, argc>>,
           \A s, t \in 1..argc : s < t => argv[s] < argv[t], Positional
    PROVE  Exact(arg)'
  <1>1. /\ argc \in Nat /\ arg \in Nat /\ arg >= 2 /\ arg' = arg + 1 /\ argc <= Len(words)
        /\ Len(words) \in Nat /\ argv \in [Slots -> Slots]
        BY DEF TypeInv, Numbers, Parser, Positional
  <1>2. PICK w : w = argv[arg]
        OBVIOUS
  <1>3. \A s \in 1..argc : argv[s] \in Slots
        BY <1>1 DEF Slots
  <1>4. w \in Slots /\ arg \in 1..argc
        BY <1>1, <1>2, <1>3
  <1>5. Behind(arg)' = Behind(arg) \cup {arg}
        BY <1>1 DEF Behind
  <1>6. pos \in Seq(Slots) /\ pos' = Append(pos, w)
        BY <1>2 DEF TypeInv, Parser, Positional
  <1>7. /\ Len(pos) \in Nat /\ DOMAIN pos = 1..Len(pos) /\ DOMAIN pos' = 1..Len(pos) + 1
        /\ \A i \in DOMAIN pos : pos'[i] = pos[i]
        /\ pos'[Len(pos) + 1] = w
        BY <1>4, <1>6
  <1>8. Positionals' = Positionals \cup {w}
    <2>1. \A i \in DOMAIN pos' : i \in DOMAIN pos \/ i = Len(pos) + 1
          BY <1>7
    <2>2. Len(pos) + 1 \in DOMAIN pos' /\ \A i \in DOMAIN pos : i \in DOMAIN pos'
          BY <1>7
    <2> QED BY <1>7, <2>1, <2>2 DEF Positionals
  <1>9. /\ words' = words /\ argv' = argv /\ argc' = argc /\ only' = only /\ given' = given
        /\ \A s : Text(s)' = Text(s) /\ Word(s)' = Word(s)
        BY DEF Positional, Text, Word, TextOf
  <1>10. FromArgv(arg)'
    <2>1. ASSUME NEW i \in DOMAIN pos'
          PROVE  \E s \in Behind(arg) \cup {arg} : pos'[i] = argv[s]
      <3>1. i \in DOMAIN pos \/ i = Len(pos) + 1
            BY <1>7
      <3>2. CASE i \in DOMAIN pos
            BY <1>7, <3>2 DEF Exact, FromArgv
      <3>3. CASE i = Len(pos) + 1
            BY <1>2, <1>7, <3>3
      <3> QED BY <3>1, <3>2, <3>3
    <2> QED BY <1>5, <1>9, <2>1 DEF FromArgv
  <1>11. \A i \in DOMAIN pos : pos[i] < w
    <2> SUFFICES ASSUME NEW i \in DOMAIN pos PROVE pos[i] < w
        OBVIOUS
    <2>1. PICK s \in Behind(arg) : pos[i] = argv[s]
          BY DEF Exact, FromArgv
    <2>2. s \in 1..argc /\ s < arg
          BY <1>1, <2>1 DEF Behind
    <2> QED BY <1>2, <1>4, <2>1, <2>2
  <1>12. PosInOrder'
    <2> SUFFICES ASSUME NEW i \in DOMAIN pos', NEW j \in DOMAIN pos', i < j
                 PROVE  pos'[i] < pos'[j]
        BY DEF PosInOrder
    <2>1. i \in DOMAIN pos /\ (j \in DOMAIN pos \/ j = Len(pos) + 1)
          BY <1>7
    <2>2. CASE j \in DOMAIN pos
          BY <1>7, <2>1, <2>2 DEF Exact, PosInOrder
    <2>3. CASE j = Len(pos) + 1
          BY <1>7, <1>11, <2>1, <2>3
    <2> QED BY <2>1, <2>2, <2>3
  <1>13. PlainFirst'
    <2>1. ASSUME NEW p \in Positionals \cup {w}, words[p].form # "plain"
          PROVE  \E s \in 2..argc : argv[s] < p /\ words[argv[s]].form = "dashdash"
      <3>1. CASE p \in Positionals
            BY <2>1, <3>1 DEF Exact, PlainFirst
      <3>2. CASE p = w
        <4>1. only
              BY <1>2, <2>1, <3>2 DEF Positional, Word
        <4>2. PICK s \in Behind(arg) : Word(s).form = "dashdash"
              BY <4>1 DEF Exact, OnlyBehind
        <4>3. s \in 2..argc /\ s \in 1..argc /\ s < arg
              BY <1>1, <4>2 DEF Behind
        <4>4. argv[s] < w
              BY <1>2, <1>4, <4>3
        <4> QED BY <3>2, <4>2, <4>3, <4>4 DEF Word
      <3> QED BY <3>1, <3>2
    <2> QED BY <1>8, <1>9, <2>1 DEF PlainFirst
  <1>14. PlainTaken(arg)'
        BY <1>2, <1>5, <1>8, <1>9 DEF Exact, PlainTaken
  <1>15. OnlyBehind(arg)'
        BY <1>5, <1>9 DEF Exact, OnlyBehind
  <1>16. Ends(arg)'
        BY <1>2, <1>5, <1>8, <1>9 DEF Exact, Ends
  <1>17. AllBehind(arg)'
    <2>1. \A s \in Behind(arg) : s < arg
          BY DEF Behind
    <2>2. ASSUME NEW s \in Behind(arg) \cup {arg}, NEW t \in Behind(arg) \cup {arg}, s < t,
                 Word(s).form = "dashdash", argv[t] \notin Positionals \cup {w}
          PROVE  Text(s) \/ argv[s] \in Positionals
      <3>1. t \in Behind(arg)
            BY <1>2, <2>2
      <3>2. s \in Behind(arg)
            BY <1>1, <2>1, <2>2, <3>1 DEF Behind
      <3> QED BY <2>2, <3>1, <3>2 DEF Exact, AllBehind
    <2> QED BY <1>5, <1>8, <1>9, <2>2 DEF AllBehind
  <1> QED BY <1>10, <1>12, <1>13, <1>14, <1>15, <1>16, <1>17 DEF Exact

\* Slots N that the parser passes without a positional.
LEMMA PassedExact ==
    ASSUME TypeInv, Exact(arg), ~only, UNCHANGED <<words, argv, argc, pos>>,
           NEW N \in SUBSET (2..argc), Behind(arg)' = Behind(arg) \cup N,
           \A s \in N : s >= arg,
           \A s, t \in N : s < t => Word(s).form # "dashdash",
           \A s : Text(s) => Text(s)',
           \A s \in N : Word(s).form = "plain" => Text(s)',
           \A s \in N : Word(s).form = "dashdash" => only' \/ Text(s)',
           only' => \E s \in N : Word(s).form = "dashdash"
    PROVE  Exact(arg)'
  <1>1. \A s : Word(s)' = Word(s)
        BY DEF Word
  <1>2. Positionals' = Positionals
        BY DEF Positionals
  <1>3. FromArgv(arg)'
        BY DEF Exact, FromArgv
  <1>4. PosInOrder' /\ PlainFirst'
        BY <1>2 DEF Exact, PosInOrder, PlainFirst
  <1>5. PlainTaken(arg)'
        BY <1>1, <1>2 DEF Exact, PlainTaken
  <1>6. OnlyBehind(arg)'
        BY <1>1 DEF OnlyBehind
  <1>7. \A s \in Behind(arg) : Word(s).form = "dashdash" => Text(s)' \/ argv[s] \in Positionals
        BY DEF Exact, Ends
  <1>8. Ends(arg)'
        BY <1>1, <1>2, <1>7 DEF Ends
  <1>9. AllBehind(arg)'
    <2>1. ASSUME NEW s \in Behind(arg) \cup N, NEW t \in Behind(arg) \cup N, s < t,
                 Word(s).form = "dashdash", argv[t] \notin Positionals
          PROVE  Text(s)' \/ argv[s] \in Positionals
      <3>1. CASE s \in Behind(arg)
            BY <1>7, <2>1, <3>1
      <3>2. CASE s \in N /\ t \in N
            BY <2>1, <3>2
      <3>3. CASE s \in N /\ t \in Behind(arg)
        <4>1. s >= arg /\ t < arg /\ s \in Int /\ t \in Int /\ arg \in Int
              BY <3>3 DEF Behind, TypeInv, Parser
        <4> QED BY <2>1, <4>1
      <3> QED BY <2>1, <3>1, <3>2, <3>3
    <2> QED BY <1>1, <1>2, <2>1 DEF AllBehind
  <1> QED BY <1>3, <1>4, <1>5, <1>6, <1>8, <1>9 DEF Exact

LEMMA TextStays ==
    ASSUME UNCHANGED <<words, argv>>,
           \A i \in DOMAIN given : i \in DOMAIN given' /\ given'[i] = given[i]
    PROVE  \A s : Text(s) => Text(s)'
  BY DEF Text, TextOf, Word

\* The first "--".
LEMMA TerminatorExact ==
    ASSUME TypeInv, Exact(arg), arg <= argc, UNCHANGED <<words, argv, argc>>, Terminator
    PROVE  Exact(arg)'
  <1>1. argc \in Nat /\ arg \in Nat /\ arg >= 2 /\ arg' = arg + 1
        BY DEF TypeInv, Numbers, Parser, Terminator
  <1>2. Behind(arg)' = Behind(arg) \cup {arg}
        BY <1>1 DEF Behind
  <1>3. {arg} \in SUBSET (2..argc) /\ \A s \in {arg} : s >= arg
        BY <1>1
  <1>4. \A s, t \in {arg} : s < t => Word(s).form # "dashdash"
        BY <1>1
  <1>5. \A s : Text(s) => Text(s)'
        BY TextStays DEF Terminator
  <1>6. ~only /\ only' /\ pos' = pos /\ \A s \in {arg} : Word(s).form = "dashdash"
        BY DEF Terminator
  <1> QED BY <1>2, <1>3, <1>4, <1>5, <1>6, PassedExact

\* An option, a letter of a cluster, or a usage error.
LEMMA OptionExact ==
    ASSUME TypeInv, Exact(arg), arg <= argc, UNCHANGED <<words, argv, argc>>, Option
    PROVE  Exact(arg)'
  <1>1. argc \in Nat /\ arg \in Nat /\ arg >= 2 /\ arg' \in {arg, arg + 1}
        BY DEF TypeInv, Numbers, Parser, Option
  <1>2. PICK N : N = IF arg' = arg THEN {} ELSE {arg}
        OBVIOUS
  <1>3. Behind(arg)' = Behind(arg) \cup N
    <2>1. CASE arg' = arg
          BY <1>2, <2>1 DEF Behind
    <2>2. CASE arg' = arg + 1
      <3>1. N = {arg}
            BY <1>1, <1>2, <2>2
      <3> QED BY <1>1, <2>2, <3>1 DEF Behind
    <2> QED BY <1>1, <2>1, <2>2
  <1>4. N \in SUBSET (2..argc) /\ \A s \in N : s = arg /\ s >= arg
        BY <1>1, <1>2
  <1>5. \A s, t \in N : s < t => Word(s).form # "dashdash"
        BY <1>1, <1>4
  <1>6. \A s : Text(s) => Text(s)'
    <2>1. \E S : given \in Seq(S)
          BY DEF TypeInv, Parser
    <2>2. \A i \in DOMAIN given : i \in DOMAIN given' /\ given'[i] = given[i]
      <3>1. CASE given' = given
            BY <3>1
      <3>2. ASSUME NEW x, given' = Append(given, x)
            PROVE  \A i \in DOMAIN given : i \in DOMAIN given' /\ given'[i] = given[i]
            BY <2>1, <3>2, AppendGiven
      <3> QED BY <3>1, <3>2 DEF Option
    <2> QED BY <2>2, TextStays
  <1>7. Word(arg).form \in {"long", "short"} /\ ~only /\ only' = only /\ pos' = pos
        BY DEF Option
  <1>8. \A s \in N : Word(s).form # "plain" /\ Word(s).form # "dashdash"
        BY <1>4, <1>7
  <1> QED BY <1>3, <1>4, <1>5, <1>6, <1>7, <1>8, PassedExact

\* An option and its value, which may be a plain word or "--".
LEMMA OptionWithNextExact ==
    ASSUME TypeInv, Exact(arg), UNCHANGED <<words, argv, argc>>, OptionWithNext
    PROVE  Exact(arg)'
  <1>1. argc \in Nat /\ arg \in Nat /\ arg >= 2 /\ arg < argc /\ arg' = arg + 2
        BY DEF TypeInv, Numbers, Parser, OptionWithNext
  <1>2. PICK N : N = {arg, arg + 1}
        OBVIOUS
  <1>3. Behind(arg)' = Behind(arg) \cup N
        BY <1>1, <1>2 DEF Behind
  <1>4. N \in SUBSET (2..argc) /\ \A s \in N : s >= arg
        BY <1>1, <1>2
  <1>5. Word(arg).form \in {"long", "short"} /\ ~only /\ only' = only /\ pos' = pos
        BY DEF OptionWithNext
  <1>6. \A s, t \in N : s < t => Word(s).form # "dashdash"
    <2>1. \A s, t \in N : s < t => s = arg
          BY <1>1, <1>2
    <2> QED BY <1>5, <2>1
  <1>7. PICK name : given' = Append(given, <<name, TextOf(Word(arg + 1))>>)
        BY DEF OptionWithNext
  <1>8. PICK x : x = <<name, TextOf(Word(arg + 1))>>
        OBVIOUS
  <1>9. /\ \A i \in DOMAIN given : i \in DOMAIN given' /\ given'[i] = given[i]
        /\ \E i \in DOMAIN given' : given'[i] = x
    <2>1. \E S : given \in Seq(S)
          BY DEF TypeInv, Parser
    <2> QED BY <1>7, <1>8, <2>1, AppendGiven
  <1>10. \A s : Text(s) => Text(s)'
         BY <1>9, TextStays
  <1>11. PICK k : k = arg + 1
         OBVIOUS
  <1>12. Text(k)'
    <2>1. PICK i \in DOMAIN given' : given'[i] = x
          BY <1>9
    <2>2. given'[i][2] = TextOf(Word(k))
          BY <1>8, <1>11, <2>1
    <2> QED BY <2>2 DEF Text, TextOf, Word
  <1>13. \A s \in N : Word(s).form \in {"plain", "dashdash"} => Text(s)'
         BY <1>2, <1>5, <1>11, <1>12
  <1> QED BY <1>3, <1>4, <1>5, <1>6, <1>10, <1>13, PassedExact

LEMMA SameExact ==
    ASSUME Exact(arg), UNCHANGED <<words, argv, argc, arg, pos, given, only>>
    PROVE  Exact(arg)'
  <1>1. FromArgv(arg)' /\ PosInOrder'
        BY DEF Exact, FromArgv, PosInOrder, Behind
  <1>2. PlainFirst'
        BY DEF Exact, PlainFirst, Positionals
  <1>3. \A s : Word(s)' = Word(s) /\ Text(s)' = Text(s)
        BY DEF Word, Text, TextOf
  <1>4. PlainTaken(arg)' /\ OnlyBehind(arg)'
        BY <1>3 DEF Exact, PlainTaken, OnlyBehind, Behind, Positionals
  <1>5. Ends(arg)' /\ AllBehind(arg)'
        BY <1>3 DEF Exact, Ends, AllBehind, Behind, Positionals
  <1> QED BY <1>1, <1>2, <1>4, <1>5 DEF Exact

LEMMA InitPos == Init => PosInv
  BY DEF Init, PosInv, Untouched

LEMMA NextPos == TypeInv /\ CLInv /\ PosInv /\ [Next]_vars => PosInv'
  <1> SUFFICES ASSUME TypeInv, CLInv, PosInv, [Next]_vars PROVE PosInv'
      OBVIOUS
  <1>1. argc \in Nat /\ arg \in Nat
        BY DEF TypeInv, Numbers, Parser
  <1>2. ASSUME UNCHANGED <<words, argv, argc, parser>>, pc' = pc
        PROVE  PosInv'
    <2>1. UNCHANGED <<arg, pos, given, only>>
          BY <1>2 DEF parser
    <2>2. pc \in {"globals", "dispatch"} => Untouched'
          BY <2>1 DEF PosInv, Untouched
    <2>3. Exact(arg) => Exact(arg)'
          BY <1>2, <2>1, SameExact
    <2> QED BY <1>2, <2>1, <2>2, <2>3 DEF PosInv
  <1>3. CASE UNCHANGED vars
        BY <1>2, <1>3 DEF vars, parser
  <1>4. CASE TakeGlobals
    <2>1. pc = "globals" /\ UNCHANGED parser /\ pc' \in {"globals", "dispatch", "cleanup"}
          BY <1>4 DEF TakeGlobals, Keep, TakeFlag, TakeHost, AllTaken, Reading, UNCHANGEDRest, End
    <2> QED BY <2>1 DEF PosInv, Untouched, parser
  <1>5. CASE Dispatch
    <2>1. /\ pc = "dispatch" /\ UNCHANGED <<words, globals, parser>>
          /\ pc' \in {"parse", "cleanup"}
          BY <1>5 DEF Dispatch, End, UNCHANGEDRest
    <2>2. Untouched' /\ argc' \in Nat
          BY <1>1, <2>1 DEF PosInv, Untouched, parser, globals
    <2>3. Exact(arg)
          BY <1>1, <2>1, ExactAtFirst DEF PosInv
    <2>4. UNCHANGED <<words, argv, argc, arg, pos, given, only>>
          BY <2>1 DEF globals, parser
    <2>5. Exact(arg)'
          BY <2>3, <2>4, SameExact
    <2> QED BY <2>1, <2>5 DEF PosInv
  <1>6. CASE ParsePlain \/ ParseDashDash \/ ParseLong \/ ParseShort
    <2>1. /\ pc = "parse" /\ arg <= argc /\ UNCHANGED <<words, globals>>
          /\ pc' \in {"parse", "cleanup"}
          /\ Positional \/ Terminator \/ Option \/ OptionWithNext
          BY <1>6, ParseEffect
    <2>2. UNCHANGED <<words, argv, argc>>
          BY <2>1 DEF globals
    <2>3. \A s, t \in 1..argc : s < t => argv[s] < argv[t]
          BY <2>1 DEF CLInv, WordsKept, HandedOn
    <2>4. Exact(arg)
          BY <2>1 DEF PosInv
    <2>5. Exact(arg)'
          BY <2>1, <2>2, <2>3, <2>4, PositionalExact, TerminatorExact, OptionExact,
             OptionWithNextExact
    <2> QED BY <2>1, <2>5 DEF PosInv
  <1>7. CASE Parsed
    <2>1. /\ pc = "parse" /\ pc' = "run" /\ arg > argc
          /\ UNCHANGED <<words, argv, argc, arg, pos, given, only>>
          BY <1>7 DEF Parsed, globals, parser
    <2>2. Exact(arg)'
          BY <2>1, SameExact DEF PosInv
    <2> QED BY <2>1, <2>2 DEF PosInv
  <1>8. CASE PutOut \/ Overflow
    <2>1. UNCHANGED <<words, globals, parser, pc>>
          BY <1>8 DEF PutOut, Overflow
    <2> QED BY <1>2, <2>1 DEF globals
  <1>9. CASE CommandEnds \/ Cleanup
    <2>1. pc' \in {"cleanup", "exited"}
          BY <1>9 DEF CommandEnds, Cleanup, End
    <2> QED BY <2>1 DEF PosInv
  <1> QED BY <1>3, <1>4, <1>5, <1>6, <1>7, <1>8, <1>9 DEF Next, ParseArgs

\* However the options, their values and "--" are mixed: the command's files
\* are its words in the order typed, and a word that is not among them is an
\* option, its value, or the "--" that ends the options (zb_parse_args).
THEOREM FilesExact == Spec => []PositionalsExact
  <1>1. TypeInv /\ PosInv => PositionalsExact
    <2> SUFFICES ASSUME TypeInv, PosInv, pc = "run" PROVE PositionalsExact
        BY DEF PositionalsExact
    <2>1. Exact(arg) /\ arg > argc /\ argc \in Nat /\ arg \in Nat
          BY DEF PosInv, TypeInv, Numbers, Parser
    <2>2. Behind(arg) = 2..argc
          BY <2>1 DEF Behind
    <2>3. PosInOrder /\ PlainFirst
          BY <2>1 DEF Exact
    <2>4. \A s \in 2..argc : argv[s] \notin Positionals /\ Word(s).form = "plain" => Text(s)
          BY <2>1, <2>2 DEF Exact, PlainTaken
    <2>5. \A s, t \in 2..argc :
            s < t /\ Word(s).form = "dashdash" /\ argv[t] \notin Positionals =>
                Text(s) \/ argv[s] \in Positionals
          BY <2>1, <2>2 DEF Exact, AllBehind
    <2> QED BY <2>3, <2>4, <2>5 DEF PositionalsExact, PosInOrder, PlainFirst, Text
  <1>2. TypeInv /\ CLInv /\ PosInv /\ [Next]_vars => (TypeInv /\ CLInv /\ PosInv)'
        BY NextType, NextCL, NextPos
  <1>3. Init => TypeInv /\ CLInv /\ PosInv
        BY InitType, InitCL, InitPos
  <1> QED BY <1>1, <1>2, <1>3, PTL DEF Spec
=============================================================================
