-------------------------------- MODULE Config --------------------------------
(***************************************************************************)
(* Settings (store/config.c): built-in defaults, config.json, environment  *)
(* and flags are laid over each other when a command starts, and           *)
(* `config set` writes the settings of the file and the new one back.      *)
(* Commands are processes without a lock; the owner edits the file by hand. *)
(*                                                                         *)
(* A setting has a few texts that a user may write for it, and the text    *)
(* that stands for its value in a saved file.                              *)
(***************************************************************************)
EXTENDS Integers

CONSTANTS
    Proc,       \* commands
    Key,        \* subset of DOMAIN Kind
    Texts,      \* Key -> what a user writes for the key
    Starts,     \* how a command may be started: what `config set` is given
                \*   (None for other commands), environment and flags
    None,       \* no value
    Faults      \* subset of {"crash", "unwritable", "unreadable", "hand"}

Kind == [apiHost |-> "str", concurrency |-> "int", bundle |-> "bool", color |-> "tri"]

Text == STRING \cup {None}

\* What a command is given: `config set`'s arguments, environment and flags.
Given == [key : Key \cup {None}, text : Text, env : [Key -> Text], legacy : Text,
          flag : Text, noColor : {"unset", "empty", "set"}]

ASSUME KeyAssumption == Key \subseteq DOMAIN Kind
ASSUME TextsAssumption == \A k \in Key : Texts[k] \subseteq STRING
ASSUME StartsAssumption == Starts \subseteq Given

Default == [apiHost |-> "h0", concurrency |-> "3", bundle |-> "off", color |-> "auto"]

VARIABLES
    file,       \* config.json: state, settings, those that are null, the
                \*   historic "defaults" object
    proc        \* the commands

vars == <<file, proc>>

NoTexts == [k \in Key |-> None]
Unloaded == [k \in Key |-> [val |-> None, src |-> "default"]]
Missing == [state |-> "absent", top |-> NoTexts, nulls |-> {}, old |-> NoTexts,
            hand |-> FALSE]

Idle == [pc |-> "idle", key |-> None, text |-> None, env |-> NoTexts, legacy |-> None,
         flag |-> None, noColor |-> "unset", cfg |-> Unloaded, seen |-> Missing,
         blind |-> FALSE, color |-> FALSE]

Init == file = Missing /\ proc = [p \in Proc |-> Idle]

At(p, pc) == proc[p].pc = pc
Becomes(p, r) == proc' = [proc EXCEPT ![p] = r]

-----------------------------------------------------------------------------
(* set_from_text                                                            *)

MaxConcurrency == 16
NumberOf == [t \in {"0", "1", "3", "16", "17"} |->
               CASE t = "0" -> 0 [] t = "1" -> 1 [] t = "3" -> 3 [] t = "16" -> 16 [] OTHER -> 17]
SwitchOf == [t \in {"on", "yes", "off", "no"} |-> IF t \in {"on", "yes"} THEN "on" ELSE "off"]

\* A host loses its trailing slashes (normalize_host).
HostOf(text) == CASE text = "h1/" -> "h1" [] text = "h3/" -> "h3" [] text = "/" -> "" [] OTHER -> text

Accepts(k, text) ==
    CASE Kind[k] = "str" -> text # ""
      [] Kind[k] = "int" -> text \in DOMAIN NumberOf /\ NumberOf[text] \in 1..MaxConcurrency
      [] Kind[k] = "bool" -> text \in DOMAIN SwitchOf
      [] Kind[k] = "tri" -> text \in DOMAIN SwitchOf \cup {"auto"}

ValueOf(k, text) ==
    CASE Kind[k] = "str" -> HostOf(text)
      [] Kind[k] = "int" \/ text = "auto" -> text
      [] OTHER -> SwitchOf[text]

-----------------------------------------------------------------------------
(* zb_options_resolve: defaults, file, environment, colour                  *)

\* A variable set to nothing counts as unset (zb_getenv_dup).
Environment(value) == IF value = "" THEN None ELSE value

Overlay(cfg, texts, src) ==
    [k \in Key |-> IF texts[k] = None THEN cfg[k]
                   ELSE [val |-> ValueOf(k, texts[k]), src |-> src]]

Defaults == [k \in Key |-> [val |-> Default[k], src |-> "default"]]

\* The "defaults" object is read for keys that are not at the top level; one
\* that is null there has no value, and hides the entry in "defaults".
Historic(f, k) == IF k \in f.nulls THEN None ELSE f.old[k]

FileTexts(f) ==
    [k \in Key |-> IF f.state # "ok" THEN None
                   ELSE IF f.top[k] # None THEN f.top[k] ELSE Historic(f, k)]

EnvTexts(r) == [k \in Key |-> Environment(r.env[k])]

\* ZHUZHBOX_API is an alias that counts only if ZHUZHBOX_API_HOST does not.
LegacyTexts(cfg, r) ==
    [k \in Key |-> IF k = "apiHost" /\ cfg[k].src # "env" THEN Environment(r.legacy) ELSE None]

AllAccepted(texts) == \A k \in Key : texts[k] # None => Accepts(k, texts[k])

Loads(f, r) ==
    /\ f.state # "broken" /\ AllAccepted(FileTexts(f))
    /\ AllAccepted(EnvTexts(r))

\* Mutant: the file is laid over the environment.
LoadedFileLast(f, r) ==
    Overlay(Overlay(Defaults, EnvTexts(r), "env"), FileTexts(f), "file")

Loaded(f, r) ==
    LET cfg == Overlay(Overlay(Defaults, FileTexts(f), "file"), EnvTexts(r), "env")
    IN  Overlay(cfg, LegacyTexts(cfg, r), "env")

\* zb_color_should_enable on a terminal, without --no-color.
ColorOn(noColor, cfg) ==
    /\ Environment(IF noColor = "empty" THEN "" ELSE noColor) \in {None, "unset"}
    /\ "color" \in Key => cfg["color"].val # "off"

\* zb_opt_api: a flag wins, and is not part of the settings.
ApiHost(r) == IF r.flag # None THEN HostOf(r.flag) ELSE r.cfg["apiHost"].val

\* The environment: a variable per key, ZHUZHBOX_API, NO_COLOR; --api.
Start(p, s) ==
    /\ At(p, "idle")
    /\ Becomes(p, [Idle EXCEPT !.pc = "resolving", !.key = s.key, !.text = s.text,
                       !.env = s.env, !.legacy = s.legacy, !.flag = s.flag,
                       !.noColor = s.noColor])
    /\ UNCHANGED file

\* What a command may find: the file, or nothing, when the file is there but
\* cannot be opened (zb_read_file: "absent is not an error").
Found == {file} \cup (IF "unreadable" \in Faults THEN {Missing} ELSE {})

\* Mutant: a file that cannot be parsed counts as missing.
ResolveAnyway(p) ==
    LET f == IF file.state = "broken" THEN Missing ELSE file
    IN  /\ At(p, "resolving")
        /\ IF Loads(f, proc[p])
           THEN Becomes(p, [proc[p] EXCEPT !.pc = "running", !.cfg = Loaded(f, proc[p]),
                                           !.seen = f])
           ELSE Becomes(p, Idle)
        /\ UNCHANGED file

\* Every command resolves its settings first, and ends if they are wrong.  It
\* works blind if the file was there and it could not open it.
Resolve(p) ==
    /\ At(p, "resolving")
    /\ \E f \in Found :
        IF Loads(f, proc[p])
        THEN LET cfg == Loaded(f, proc[p])
             IN  Becomes(p, [proc[p] EXCEPT !.pc = "running", !.cfg = cfg, !.seen = f,
                                            !.blind = f # file,
                                            !.color = ColorOn(proc[p].noColor, cfg)])
        ELSE Becomes(p, Idle)
    /\ UNCHANGED file

-----------------------------------------------------------------------------
(* zb_cmd_config                                                            *)

\* get, list and every other command only read the settings.
Use(p) ==
    /\ At(p, "running") /\ proc[p].key = None
    /\ Becomes(p, Idle)
    /\ UNCHANGED file

\* Mutant: the number is not compared with the limits.
SetUnchecked(p) ==
    LET k == proc[p].key
    IN  /\ At(p, "running") /\ k # None
        /\ Becomes(p, [proc[p] EXCEPT !.pc = "saving",
             !.cfg[k] = [val |-> IF Accepts(k, proc[p].text) THEN ValueOf(k, proc[p].text)
                                 ELSE proc[p].text,
                         src |-> "flag"]])
        /\ UNCHANGED file

\* Mutant: the value is changed and its source is not.
SetKeepsSource(p) ==
    LET k == proc[p].key
    IN  /\ At(p, "running") /\ k # None
        /\ IF Accepts(k, proc[p].text)
           THEN Becomes(p, [proc[p] EXCEPT !.pc = "saving",
                   !.cfg[k].val = ValueOf(k, proc[p].text)])
           ELSE Becomes(p, Idle)
        /\ UNCHANGED file

Set(p) ==
    LET k == proc[p].key
    IN  /\ At(p, "running") /\ k # None
        /\ IF Accepts(k, proc[p].text)
           THEN Becomes(p, [proc[p] EXCEPT !.pc = "saving",
                   !.cfg[k] = [val |-> ValueOf(k, proc[p].text), src |-> "flag"]])
           ELSE Becomes(p, Idle)
        /\ UNCHANGED file

\* Mutant: every setting is written, whatever its source.
PersistedAll(cfg) ==
    [state |-> "ok", nulls |-> {}, old |-> NoTexts, hand |-> FALSE,
     top |-> [k \in Key |-> cfg[k].val]]

\* Mutant: only the new setting is written.
PersistedAlone(cfg) ==
    [state |-> "ok", nulls |-> {}, old |-> NoTexts, hand |-> FALSE,
     top |-> [k \in Key |-> IF cfg[k].src = "flag" THEN cfg[k].val ELSE None]]

\* What the file owned and what was just set.
Persisted(cfg) ==
    [state |-> "ok", nulls |-> {}, old |-> NoTexts, hand |-> FALSE,
     top |-> [k \in Key |-> IF cfg[k].src \in {"file", "flag"} THEN cfg[k].val ELSE None]]

Save(p) ==
    /\ At(p, "saving")
    /\ file' \in {Persisted(proc[p].cfg)} \cup (IF "unwritable" \in Faults THEN {file} ELSE {})
    /\ Becomes(p, Idle)

-----------------------------------------------------------------------------

Crash(p) ==
    /\ "crash" \in Faults /\ ~At(p, "idle")
    /\ Becomes(p, Idle)
    /\ UNCHANGED file

\* Setting k is written by hand, at the top level or in "defaults", removed
\* or made null.
HandWritten(k, t) ==
    /\ t # None => t \in Texts[k]
    /\ \/ \E nulls \in {file.nulls \ {k}, file.nulls \cup {k}} :
            /\ t = None \/ k \notin nulls
            /\ file' = [file EXCEPT !.state = "ok", !.top[k] = t, !.nulls = nulls,
                                    !.hand = TRUE]
       \/ file' = [file EXCEPT !.state = "ok", !.old[k] = t, !.hand = TRUE]

\* The owner edits a setting or leaves the file malformed, while no command runs.
HandEdit ==
    /\ "hand" \in Faults /\ \A p \in Proc : At(p, "idle")
    /\ \/ \E k \in Key, t \in (UNION {Texts[j] : j \in Key}) \cup {None} : HandWritten(k, t)
       \/ file' = [file EXCEPT !.state = "broken", !.hand = TRUE]
    /\ UNCHANGED proc

Next ==
    \/ \E p \in Proc :
        \/ \E s \in Starts : Start(p, s)
        \/ Resolve(p) \/ Use(p) \/ Set(p) \/ Save(p) \/ Crash(p)
    \/ HandEdit

Spec == Init /\ [][Next]_vars

-----------------------------------------------------------------------------
(* Properties                                                               *)

TypeOK ==
    /\ file.state \in {"absent", "ok", "broken"} /\ file.hand \in BOOLEAN
    /\ file.nulls \subseteq Key
    /\ \A p \in Proc :
        /\ proc[p].pc \in {"idle", "resolving", "running", "saving"}
        /\ proc[p].pc = "saving" =>
             \E k \in Key : proc[p].key = k /\ proc[p].cfg[k].src = "flag"
        /\ \A k \in Key : proc[p].cfg[k].src \in {"default", "file", "env", "flag"}

\* A running command uses flag, environment, alias, file, "defaults" and
\* built-in value in this order (zb_help_config, README); a variable set to
\* nothing counts as unset, a setting that is null in the file as not given
\* there.  The file is the one that the command could open.
FirstOf(k, choices) ==
    IF \A i \in DOMAIN choices : choices[i] = None THEN Default[k]
    ELSE ValueOf(k, choices[CHOOSE i \in DOMAIN choices :
             choices[i] # None /\ \A j \in 1..i - 1 : choices[j] = None])

MostSpecificWins == \A p \in Proc : At(p, "running") =>
    /\ \A k \in Key :
        proc[p].cfg[k].val =
            FirstOf(k, <<Environment(proc[p].env[k]),
                         IF k = "apiHost" THEN Environment(proc[p].legacy) ELSE None,
                         proc[p].seen.top[k], Historic(proc[p].seen, k)>>)
    /\ "apiHost" \in Key => ApiHost(proc[p]) =
        FirstOf("apiHost", <<proc[p].flag, Environment(proc[p].env["apiHost"]),
                             Environment(proc[p].legacy),
                             proc[p].seen.top["apiHost"], Historic(proc[p].seen, "apiHost")>>)

\* What `config set` writes, the next command accepts: a setting that it
\* rejects it has not written ("%s cannot be empty" and the other checks).
SavedLoads == file.state = "ok" /\ ~file.hand => AllAccepted(file.top)

\* "We never silently ignore a file the user hand-edited" (config.h): a
\* malformed file is replaced only by its owner, or by the save of a command
\* that could not open it and took it for a missing one.
BrokenKept ==
    [][file.state = "broken" /\ file' # file /\ ~file'.hand =>
         \E p \in Proc : At(p, "saving") /\ proc'[p] # proc[p] /\ proc[p].blind]_vars

\* The same without the exception: "it was left untouched" (load_file).
BrokenUntouched == [][file.state = "broken" => file' = file \/ file'.hand]_vars

\* A saved value is the one just set or one that the file had: an override
\* from the environment or a flag is never made permanent (zb_help_config).
OverrideNotSaved ==
    [][\A k \in Key : file'.top[k] # file.top[k] /\ file'.top[k] # None /\ ~file'.hand =>
         \E p \in Proc : At(p, "saving") /\ proc'[p] # proc[p] /\
            \/ proc[p].key = k /\ file'.top[k] = ValueOf(k, proc[p].text)
            \/ \E t \in {proc[p].seen.top[k], proc[p].seen.old[k]} \ {None} :
                 file'.top[k] = ValueOf(k, t)]_vars

\* `config set` changes another setting of the file for three reasons only: it
\* was overridden from the environment, the file could not be opened, or
\* another command wrote it in between.
OthersKept ==
    [][\A k \in Key, p \in Proc : At(p, "saving") /\ proc'[p] # proc[p] /\ file' # file =>
         \/ proc[p].key = k
         \/ proc[p].cfg[k].src = "env"
         \/ proc[p].blind
         \/ FileTexts(proc[p].seen)[k] # FileTexts(file)[k]
         \/ FileTexts(file)[k] = None
         \/ file'.top[k] = ValueOf(k, FileTexts(file)[k])]_vars

\* "Write only the settings that came from the config file or were just set"
\* (config.h): a setting of the file is still there after a save.
OwnedKept ==
    [][\A k \in Key : FileTexts(file)[k] # None /\ ~file'.hand => FileTexts(file')[k] # None]_vars

\* "NO_COLOR: any value, even empty, means off" (color.c).
NoColorOff == \A p \in Proc : At(p, "running") /\ proc[p].noColor # "unset" => ~proc[p].color
=============================================================================
