----------------------------- MODULE CommandLine ------------------------------
(***************************************************************************)
(* The command line (cli.c, main.c): global options are taken out of argv,  *)
(* which is compacted in place; the first word left selects the command,    *)
(* whose parser reads the rest a second time; main turns the outcome into   *)
(* an exit code.                                                             *)
(*                                                                         *)
(* A word is what the two passes see of it: its form, name or letters, and  *)
(* what follows "=" or the letters.  The words of argv are counted from 1,  *)
(* and a slot of argv holds the number of a word: pointers may be aliased.  *)
(***************************************************************************)
EXTENDS Integers, Sequences

CONSTANTS
    Argvs,      \* command lines: sequences of words
    Commands,   \* texts of plain words that name a command
    Options,    \* names of the command's options
    Valued,     \* those of them that take a value
    None,       \* no value
    Faults      \* subset of {"config", "output"}

ASSUME ValuedAssumption == Valued \subseteq Options
ASSUME ArgvsAssumption == \A line \in Argvs : Len(line) \in Nat

\* A plain word (also "-"), "--", "--name[=value]", or "-abc[rest]".
Plain(text) == [form |-> "plain", name |-> text, value |-> None]
DashDash == [form |-> "dashdash", name |-> "", value |-> None]
Long(name, value) == [form |-> "long", name |-> name, value |-> value]
Short(letters, value) == [form |-> "short", name |-> letters, value |-> value]

GlobalFlags == {"json", "quiet", "help", "version"}
GlobalHosts == {"api", "config"}

\* A short global stands alone: "-q" is one, "-qb" is left to the command.
ShortGlobal == [q |-> "quiet", h |-> "help", V |-> "version"]
GlobalName(w) ==
    IF w.form = "long" THEN w.name
    ELSE IF w.form = "short" /\ Len(w.name) = 1 /\ w.name[1] \in DOMAIN ShortGlobal
    THEN ShortGlobal[w.name[1]]
    ELSE None

IsFlag(w) == GlobalName(w) \in GlobalFlags
IsHost(w) == w.form = "long" /\ w.name \in GlobalHosts
IsGlobal(w) == IsFlag(w) \/ IsHost(w)

VARIABLES
    words,      \* the owned words
    argv,       \* slots: numbers of words
    argc,       \* slots that count
    read,       \* words taken by zb_options_take_globals
    write,      \* words kept by it
    pass,       \* it has seen "--"
    opt,        \* global options: flags set, hosts given
    pc,         \* where main is
    arg,        \* the command's parser: slot it is at
    letter,     \* letter of a cluster it is at
    only,       \* it has seen "--"
    pos,        \* its positionals
    given,      \* options handed to the command, with values
    out,        \* standard output: buffered, lost
    rc          \* exit code

vars == <<words, argv, argc, read, write, pass, opt, pc, arg, letter, only, pos, given, out,
          rc>>

globals == <<argv, argc, read, write, pass, opt>>
parser == <<arg, letter, only, pos, given>>

Init ==
    /\ words \in Argvs
    /\ argv = [i \in 1..Len(words) |-> i]
    /\ argc = Len(words)
    /\ read = 0 /\ write = 0 /\ pass = FALSE
    /\ opt = [flags |-> {}, hosts |-> [h \in GlobalHosts |-> None]]
    /\ pc = "globals"
    /\ arg = 2 /\ letter = 1 /\ only = FALSE /\ pos = <<>> /\ given = <<>>
    /\ out = [buffered |-> 0, lost |-> FALSE]
    /\ rc = 0

End(code) == pc' = "cleanup" /\ rc' = code

-----------------------------------------------------------------------------
(* zb_options_take_globals                                                  *)

Word(i) == words[argv[i]]
Reading == pc = "globals" /\ read < argc
UNCHANGEDRest == UNCHANGED <<words, parser, out>>

\* Mutant: off by one in the free slot.
KeepMiscounted ==
    /\ Reading
    /\ LET w == Word(read + 1)
       IN  /\ pass \/ ~IsGlobal(w)
           /\ pass' = (pass \/ w.form = "dashdash")
    /\ argv' = [argv EXCEPT ![write + 1] = argv[read + 1]]
    /\ read' = read + 1 /\ write' = read + 2
    /\ UNCHANGED <<argc, opt, pc, rc>> /\ UNCHANGEDRest

\* A word that is not a global option moves to the next free slot.
Keep ==
    /\ Reading
    /\ LET w == Word(read + 1)
       IN  /\ pass \/ ~IsGlobal(w)
           /\ pass' = (pass \/ w.form = "dashdash")
    /\ argv' = [argv EXCEPT ![write + 1] = argv[read + 1]]
    /\ read' = read + 1 /\ write' = write + 1
    /\ UNCHANGED <<argc, opt, pc, rc>> /\ UNCHANGEDRest

\* "--json", or a usage error for "--json=value".
TakeFlag ==
    /\ Reading /\ ~pass
    /\ LET w == Word(read + 1)
       IN  /\ IsFlag(w)
           /\ opt' = [opt EXCEPT !.flags = @ \cup {GlobalName(w)}]
           /\ IF w.value = None THEN UNCHANGED <<pc, rc>> ELSE End(2)
    /\ read' = read + 1
    /\ UNCHANGED <<argv, argc, write, pass>> /\ UNCHANGEDRest

\* The whole text of a word, as the value of the option before it.
TextOf(w) == <<w.form, w.name, w.value>>

\* "--api=value", or "--api value" whatever the value looks like.
TakeHost ==
    /\ Reading /\ ~pass
    /\ LET w == Word(read + 1)
       IN  /\ IsHost(w)
           /\ \/ /\ w.value # None
                 /\ opt' = [opt EXCEPT !.hosts[w.name] = w.value]
                 /\ read' = read + 1 /\ UNCHANGED <<pc, rc>>
              \/ /\ w.value = None /\ read + 1 < argc
                 /\ opt' = [opt EXCEPT !.hosts[w.name] = TextOf(Word(read + 2))]
                 /\ read' = read + 2 /\ UNCHANGED <<pc, rc>>
              \/ /\ w.value = None /\ read + 1 = argc
                 /\ read' = read + 1 /\ End(2) /\ UNCHANGED opt
    /\ UNCHANGED <<argv, argc, write, pass>> /\ UNCHANGEDRest

\* Mutant: argc is not reduced.
AllTakenUncut ==
    /\ pc = "globals" /\ read >= argc
    /\ pc' = "dispatch"
    /\ UNCHANGED <<argv, argc, read, write, pass, opt, rc>> /\ UNCHANGEDRest

AllTaken ==
    /\ pc = "globals" /\ read >= argc
    /\ argc' = write
    /\ pc' = "dispatch"
    /\ UNCHANGED <<argv, read, write, pass, opt, rc>> /\ UNCHANGEDRest

-----------------------------------------------------------------------------
(* main                                                                     *)

Command == IF Word(1).form = "plain" /\ Word(1).name \in Commands THEN Word(1).name ELSE None

\* zb_options_resolve may fail; the command then runs with argv from slot 2.
Dispatch ==
    /\ pc = "dispatch"
    /\ IF "version" \in opt.flags THEN End(0)
       ELSE IF argc = 0 THEN End(IF "help" \in opt.flags THEN 0 ELSE 2)
       ELSE IF Command = None THEN End(2)
       ELSE IF "help" \in opt.flags THEN End(0)
       ELSE \/ pc' = "parse" /\ UNCHANGED rc
            \/ "config" \in Faults /\ \E code \in {1, 2} : End(code)
    /\ UNCHANGED globals /\ UNCHANGEDRest

-----------------------------------------------------------------------------
(* zb_parse_args                                                            *)

Parsing == pc = "parse" /\ arg <= argc
StillParsing == UNCHANGED <<pc, rc>> /\ UNCHANGED <<words, globals, out>>

ParsePlain ==
    /\ Parsing
    /\ only \/ Word(arg).form = "plain"
    /\ pos' = Append(pos, argv[arg])
    /\ arg' = arg + 1
    /\ UNCHANGED <<letter, only, given>> /\ StillParsing

\* Mutant: every "--" is dropped.
ParseEveryDashDash ==
    /\ Parsing /\ Word(arg).form = "dashdash"
    /\ only' = TRUE /\ arg' = arg + 1
    /\ UNCHANGED <<letter, pos, given>> /\ StillParsing

ParseDashDash ==
    /\ Parsing /\ ~only /\ Word(arg).form = "dashdash"
    /\ only' = TRUE /\ arg' = arg + 1
    /\ UNCHANGED <<letter, pos, given>> /\ StillParsing

Give(name, value) == given' = Append(given, <<name, value>>)

\* A usage error: an unknown option, a value too few or too many, or one that the handler
\* refuses ("--concurrency must be between 1 and 16").
ParseFails == End(2) /\ UNCHANGED parser

ParseLong ==
    /\ Parsing /\ ~only /\ Word(arg).form = "long"
    /\ LET w == Word(arg)
       IN  \/ ParseFails
           \/ /\ w.name \in Valued /\ w.value # None
              /\ Give(w.name, w.value) /\ arg' = arg + 1
              /\ UNCHANGED <<letter, only, pos, pc, rc>>
           \/ /\ w.name \in Valued /\ w.value = None /\ arg < argc
              /\ Give(w.name, TextOf(Word(arg + 1))) /\ arg' = arg + 2
              /\ UNCHANGED <<letter, only, pos, pc, rc>>
           \/ /\ w.name \in Options \ Valued /\ w.value = None
              /\ Give(w.name, None) /\ arg' = arg + 1
              /\ UNCHANGED <<letter, only, pos, pc, rc>>
    /\ UNCHANGED <<words, globals, out>>

\* Letters of "-abc": one that takes a value takes the rest of the word, or
\* the next word.
ParseShort ==
    /\ Parsing /\ ~only /\ Word(arg).form = "short"
    /\ LET w == Word(arg)
           name == w.name[letter]
           atEnd == letter = Len(w.name) /\ w.value = None
       IN  \/ ParseFails
           \/ /\ name \in Valued /\ ~atEnd
              /\ Give(name, <<SubSeq(w.name, letter + 1, Len(w.name)), w.value>>)
              /\ arg' = arg + 1 /\ letter' = 1
              /\ UNCHANGED <<only, pos, pc, rc>>
           \/ /\ name \in Valued /\ atEnd /\ arg < argc
              /\ Give(name, TextOf(Word(arg + 1)))
              /\ arg' = arg + 2 /\ letter' = 1
              /\ UNCHANGED <<only, pos, pc, rc>>
           \/ /\ name \in Options \ Valued
              /\ letter = Len(w.name) => w.value = None
              /\ Give(name, None)
              /\ IF letter = Len(w.name) THEN arg' = arg + 1 /\ letter' = 1
                 ELSE letter' = letter + 1 /\ UNCHANGED arg
              /\ UNCHANGED <<only, pos, pc, rc>>
    /\ UNCHANGED <<words, globals, out>>

Parsed ==
    /\ pc = "parse" /\ arg > argc
    /\ pc' = "run"
    /\ UNCHANGED <<words, globals, parser, out, rc>>

-----------------------------------------------------------------------------
(* The command's output, and the end                                        *)

MaxPrinted == 2

PutOut ==
    /\ pc = "run" /\ out.buffered < MaxPrinted
    /\ out' = [out EXCEPT !.buffered = @ + 1]
    /\ UNCHANGED <<words, globals, parser, pc, rc>>

\* stdio passes a full buffer on, and drops it if that fails.
Overflow ==
    /\ pc = "run" /\ out.buffered > 0
    /\ \/ out' = [out EXCEPT !.buffered = 0]
       \/ "output" \in Faults /\ out' = [buffered |-> 0, lost |-> TRUE]
    /\ UNCHANGED <<words, globals, parser, pc, rc>>

CommandEnds ==
    /\ pc = "run"
    /\ \E code \in {0, 1, 2, 130} : End(code)
    /\ UNCHANGED <<words, globals, parser, out>>

\* A success that cannot flush its output is an error.
Cleanup ==
    /\ pc = "cleanup"
    /\ pc' = "exited"
    /\ \/ out' = [out EXCEPT !.buffered = 0] /\ UNCHANGED rc
       \/ /\ "output" \in Faults /\ out.buffered > 0
          /\ out' = [buffered |-> 0, lost |-> TRUE]
          /\ rc' = IF rc = 0 THEN 1 ELSE rc
    /\ UNCHANGED <<words, globals, parser>>

TakeGlobals == Keep \/ TakeFlag \/ TakeHost \/ AllTaken
ParseArgs == ParsePlain \/ ParseDashDash \/ ParseLong \/ ParseShort \/ Parsed

Next == TakeGlobals \/ Dispatch \/ ParseArgs \/ PutOut \/ Overflow \/ CommandEnds \/ Cleanup

Spec == Init /\ [][Next]_vars

-----------------------------------------------------------------------------
(* Properties                                                               *)

Slots == 1..Len(words)
HandedOn == pc \in {"dispatch", "parse", "run"}
Positionals == {pos[i] : i \in DOMAIN pos}

TypeOK ==
    /\ argv \in [Slots -> Slots]
    /\ argc \in 0..Len(words) /\ write \in 0..Len(words) /\ read \in 0..Len(words)
    /\ write <= read
    /\ pc \in {"globals", "dispatch", "parse", "run", "cleanup", "exited"}
    /\ opt.flags \subseteq GlobalFlags
    /\ arg \in 2..(Len(words) + 2)
    /\ Positionals \subseteq Slots
    /\ rc \in {0, 1, 2, 130}

\* The command gets each word at most once and in the order in which it was
\* typed, whatever the compaction leaves in the slots behind; no global option
\* is handed on unless "--" comes before it, and no other word is withheld,
\* except a global option's value ("Global flags are accepted both before and
\* after the subcommand name. Stops at --", cli.h).
WordsKept ==
    HandedOn =>
        LET kept == {argv[s] : s \in 1..argc}
        IN  /\ \A s, t \in 1..argc : s < t => argv[s] < argv[t]
            /\ \A i \in kept : IsGlobal(words[i]) =>
                \E j \in kept : j < i /\ words[j].form = "dashdash"
            /\ \A i \in Slots \ kept :
                \/ IsGlobal(words[i])
                \/ /\ i - 1 \in Slots \ kept /\ IsHost(words[i - 1])
                   /\ words[i - 1].value = None

\* The command's files are its words in the order typed; a word that is not
\* among them is an option, its value, or "--" (zb_parse_args).
PositionalsExact ==
    pc = "run" =>
        /\ \A i, j \in DOMAIN pos : i < j => pos[i] < pos[j]
        /\ \A p \in Positionals : words[p].form # "plain" =>
             \E s \in 2..argc : argv[s] < p /\ words[argv[s]].form = "dashdash"
        /\ \A s \in 2..argc : argv[s] \notin Positionals /\ Word(s).form = "plain" =>
             \E i \in DOMAIN given : given[i][2] = TextOf(Word(s))
        /\ \A s, t \in 2..argc :
             s < t /\ Word(s).form = "dashdash" /\ argv[t] \notin Positionals =>
                \/ \E i \in DOMAIN given : given[i][2] = TextOf(Word(s))
                \/ argv[s] \in Positionals

\* "Supports \"--name value\"" (cli.h): the word after an option that takes
\* a value is the value that the command gets.
ValueKept ==
    pc = "run" =>
        \A i \in Slots :
            /\ words[i].form = "long" /\ words[i].name \in Valued /\ words[i].value = None
            /\ \A j \in 1..i : words[j].form # "dashdash"
            /\ i + 1 \in Slots
            => \E g \in DOMAIN given : given[g] = <<words[i].name, TextOf(words[i + 1])>>

\* "A closed stdout should not be reported as a successful run that silently
\* lost its output" (main).
LostOutputReported == pc = "exited" /\ out.lost => rc # 0
=============================================================================
