----------------------------- MODULE ConfigProofs -----------------------------
(***************************************************************************)
(* Settings, for any number of commands, texts and ways to start one.      *)
(*                                                                         *)
(* A command past zb_options_resolve has accepted the file that it saw,    *)
(* and its settings are what that file, the environment and the alias      *)
(* make, with the one setting that `config set` changed in them.  The file *)
(* can be another by now, but a malformed one only if the command could    *)
(* not open it.                                                            *)
(***************************************************************************)
EXTENDS Config, TLAPS

\* The provers do not know that a literal is a string.
Word == Text \cup {"", "h0", "h1", "h3", "3", "on", "off", "auto"}

Source == {"default", "file", "env", "flag"}

File == [state : {"absent", "ok", "broken"}, top : [Key -> Word], nulls : SUBSET Key,
         old : [Key -> Word], hand : BOOLEAN]

Command == [pc : {"idle", "resolving", "running", "saving"}, key : Key \cup {None},
            text : Word, env : [Key -> Word], legacy : Word, flag : Word,
            noColor : {"unset", "empty", "set"}, cfg : [Key -> [val : Word, src : Source]],
            seen : File, blind : BOOLEAN, color : BOOLEAN]

Typed == file \in File /\ proc \in [Proc -> Command]

\* A file that is not there has no settings.
Sound(f) == f.state = "absent" => f.top = NoTexts /\ f.old = NoTexts

\* The setting that `config set` makes.
NewSetting(r) == [val |-> ValueOf(r.key, r.text), src |-> "flag"]

\* The command's settings come from the file it saw.
Resolved(r) ==
    /\ Sound(r.seen) /\ Loads(r.seen, r)
    /\ r.pc = "running" => r.cfg = Loaded(r.seen, r)
    /\ r.pc = "saving" =>
        /\ r.key \in Key /\ Accepts(r.key, r.text)
        /\ r.cfg = [Loaded(r.seen, r) EXCEPT ![r.key] = NewSetting(r)]

Past(r) == r.pc \in {"running", "saving"}

Work(r) ==
    Past(r) => Resolved(r) /\ (file.state = "broken" => r.blind)

ConfigInv ==
    /\ Typed /\ Sound(file)
    /\ \A p \in Proc : Work(proc[p])

-----------------------------------------------------------------------------
(* Settings and their layers                                                *)

LEMMA KindOf ==
    ASSUME NEW k \in Key
    PROVE  /\ k \in {"apiHost", "concurrency", "bundle", "color"}
           /\ Kind[k] \in {"str", "int", "bool", "tri"} /\ (Kind[k] = "str" <=> k = "apiHost")
           /\ Default[k] \in Word
  <1>1. k \in {"apiHost", "concurrency", "bundle", "color"}
        BY KeyAssumption DEF Kind
  <1>2. /\ Kind["apiHost"] = "str" /\ Kind["concurrency"] = "int"
        /\ Kind["bundle"] = "bool" /\ Kind["color"] = "tri"
        BY DEF Kind
  <1>3. /\ Default["apiHost"] = "h0" /\ Default["concurrency"] = "3"
        /\ Default["bundle"] = "off" /\ Default["color"] = "auto"
        BY DEF Default
  <1> QED BY <1>1, <1>2, <1>3 DEF Word

LEMMA AcceptedValue ==
    ASSUME NEW k \in Key, NEW t \in Word, Accepts(k, t)
    PROVE  /\ ValueOf(k, t) \in Word
           /\ ValueOf(k, t) # "/"
           /\ t # "/" => Accepts(k, ValueOf(k, t))
  <1>1. CASE Kind[k] = "str"
        BY <1>1 DEF Word, Accepts, ValueOf, HostOf
  <1>2. CASE Kind[k] = "int"
        BY <1>2 DEF Word, Accepts, ValueOf, NumberOf
  <1>3. CASE Kind[k] = "bool"
        BY <1>3 DEF Word, Accepts, ValueOf, SwitchOf
  <1>4. CASE Kind[k] = "tri"
        BY <1>4 DEF Word, Accepts, ValueOf, SwitchOf
  <1> QED BY <1>1, <1>2, <1>3, <1>4, KindOf

\* The alias is not checked; it is a host.
LEMMA HostText ==
    ASSUME NEW t \in Word
    PROVE  "apiHost" \in Key => ValueOf("apiHost", t) = HostOf(t) /\ HostOf(t) \in Word
  BY DEF Word, ValueOf, HostOf, Kind

LEMMA LayerTypes ==
    ASSUME NEW f \in File, NEW r \in Command, Loads(f, r)
    PROVE  /\ FileTexts(f) \in [Key -> Word]
           /\ EnvTexts(r) \in [Key -> Word]
           /\ \A k \in Key : FileTexts(f)[k] # None => Accepts(k, FileTexts(f)[k])
           /\ \A k \in Key : EnvTexts(r)[k] # None => Accepts(k, EnvTexts(r)[k])
  <1>1. FileTexts(f) \in [Key -> Word]
        BY DEF FileTexts, Historic, File, Word, Text
  <1>2. EnvTexts(r) \in [Key -> Word]
        BY DEF EnvTexts, Environment, Command, Word, Text
  <1> QED BY <1>1, <1>2 DEF Loads, AllAccepted

\* The layer that a setting is taken from.
Alias(r, k) == IF k = "apiHost" THEN Environment(r.legacy) ELSE None

Layered(f, r, k) ==
    IF EnvTexts(r)[k] # None THEN [val |-> ValueOf(k, EnvTexts(r)[k]), src |-> "env"]
    ELSE IF Alias(r, k) # None THEN [val |-> ValueOf(k, Alias(r, k)), src |-> "env"]
    ELSE IF FileTexts(f)[k] # None THEN [val |-> ValueOf(k, FileTexts(f)[k]), src |-> "file"]
    ELSE [val |-> Default[k], src |-> "default"]

LEMMA LoadedLayers ==
    ASSUME NEW f, NEW r
    PROVE  Loaded(f, r) = [k \in Key |-> Layered(f, r, k)]
  <1> DEFINE d == Defaults
             c1 == Overlay(d, FileTexts(f), "file")
             c2 == Overlay(c1, EnvTexts(r), "env")
             a == LegacyTexts(c2, r)
  <1>1. ASSUME NEW k \in Key
        PROVE  (IF a[k] = None THEN c2[k] ELSE [val |-> ValueOf(k, a[k]), src |-> "env"])
                 = Layered(f, r, k)
    <2>1. d[k] = [val |-> Default[k], src |-> "default"]
          BY DEF Defaults
    <2>2. c1[k] = IF FileTexts(f)[k] = None THEN d[k]
                  ELSE [val |-> ValueOf(k, FileTexts(f)[k]), src |-> "file"]
          BY DEF Overlay
    <2>3. c2[k] = IF EnvTexts(r)[k] = None THEN c1[k]
                  ELSE [val |-> ValueOf(k, EnvTexts(r)[k]), src |-> "env"]
          BY DEF Overlay
    <2>4. a[k] = IF k = "apiHost" /\ c2[k].src # "env" THEN Environment(r.legacy) ELSE None
          BY DEF LegacyTexts
    <2> HIDE DEF d, c1, c2, a
    <2>5. c2[k].src = "env" <=> EnvTexts(r)[k] # None
          BY <2>1, <2>2, <2>3
    <2> QED BY <2>1, <2>2, <2>3, <2>4, <2>5 DEF Layered, Alias
  <1>2. Loaded(f, r) = [k \in Key |-> IF a[k] = None THEN c2[k]
                                      ELSE [val |-> ValueOf(k, a[k]), src |-> "env"]]
        BY DEF Loaded, Overlay
  <1> HIDE DEF d, c1, c2, a
  <1> QED BY <1>1, <1>2

\* What a file makes depends on the environment and the alias only.
LEMMA SameLayers ==
    ASSUME NEW f, NEW q, NEW r, r.env = q.env, r.legacy = q.legacy
    PROVE  (Loads(f, q) => Loads(f, r)) /\ Loaded(f, r) = Loaded(f, q)
  <1>1. EnvTexts(r) = EnvTexts(q)
        BY DEF EnvTexts
  <1>2. \A k \in Key : Layered(f, r, k) = Layered(f, q, k)
        BY <1>1 DEF Layered, Alias
  <1> QED BY <1>1, <1>2, LoadedLayers DEF Loads

LEMMA LoadedType ==
    ASSUME NEW f \in File, NEW r \in Command, Loads(f, r)
    PROVE  Loaded(f, r) \in [Key -> [val : Word, src : Source]]
  <1>1. ASSUME NEW k \in Key PROVE Layered(f, r, k) \in [val : Word, src : Source]
    <2>1. EnvTexts(r)[k] # None => ValueOf(k, EnvTexts(r)[k]) \in Word
          BY LayerTypes, AcceptedValue
    <2>2. FileTexts(f)[k] # None => ValueOf(k, FileTexts(f)[k]) \in Word
          BY LayerTypes, AcceptedValue
    <2>3. Environment(r.legacy) \in Word
          BY DEF Environment, Command, Word, Text
    <2>4. Alias(r, k) # None => ValueOf(k, Alias(r, k)) \in Word
          BY <2>3, HostText DEF Alias
    <2>5. Default[k] \in Word
          BY KindOf
    <2> QED BY <2>1, <2>2, <2>4, <2>5 DEF Layered, Source
  <1> QED BY <1>1, LoadedLayers

-----------------------------------------------------------------------------
(* The invariant                                                            *)

LEMMA InitConfig == Init => ConfigInv
  <1> SUFFICES ASSUME Init PROVE ConfigInv
      OBVIOUS
  <1>1. NoTexts \in [Key -> Word] /\ Unloaded \in [Key -> [val : Word, src : Source]]
        BY DEF NoTexts, Unloaded, Word, Text, Source
  <1>2. Missing \in File /\ Sound(Missing)
        BY <1>1 DEF Missing, File, Sound
  <1>3. Idle \in Command
        BY <1>1, <1>2 DEF Idle, Command, Word, Text
  <1>4. \A p \in Proc : proc[p] = Idle
        BY DEF Init
  <1>5. \A p \in Proc : Work(proc[p])
        BY <1>4 DEF Work, Past, Idle
  <1> QED BY <1>2, <1>3, <1>5 DEF Init, ConfigInv, Typed

LEMMA IdleCommand == Idle \in Command /\ ~Past(Idle)
  <1>1. NoTexts \in [Key -> Word] /\ Unloaded \in [Key -> [val : Word, src : Source]]
        BY DEF NoTexts, Unloaded, Word, Text, Source
  <1>2. Missing \in File
        BY <1>1 DEF Missing, File
  <1> QED BY <1>1, <1>2 DEF Idle, Command, Word, Text, Past

\* A step of one command that leaves the file as it is.
LEMMA StepOfOne ==
    ASSUME ConfigInv, NEW p \in Proc, NEW r \in Command, Becomes(p, r), UNCHANGED file,
           Past(r) => Resolved(r) /\ (file.state = "broken" => r.blind)
    PROVE  ConfigInv'
  <1>1. Typed' /\ proc'[p] = r /\ \A q \in Proc \ {p} : proc'[q] = proc[q]
        BY DEF ConfigInv, Typed, Becomes
  <1>2. Sound(file)'
        BY DEF ConfigInv, Sound
  <1>3. \A q \in Proc : Work(proc[q])'
        BY <1>1 DEF ConfigInv, Work
  <1> QED BY <1>1, <1>2, <1>3 DEF ConfigInv

\* A command as it starts.
Started(s) == [Idle EXCEPT !.pc = "resolving", !.key = s.key, !.text = s.text,
                   !.env = s.env, !.legacy = s.legacy, !.flag = s.flag,
                   !.noColor = s.noColor]

LEMMA StartedCommand ==
    ASSUME NEW s \in Starts
    PROVE  /\ Started(s) \in Command /\ ~Past(Started(s))
           /\ Started(s).seen = Missing /\ Started(s).text = s.text
  <1>1. /\ s.key \in Key \cup {None} /\ s.text \in Word /\ s.env \in [Key -> Word]
        /\ s.legacy \in Word /\ s.flag \in Word /\ s.noColor \in {"unset", "empty", "set"}
        BY StartsAssumption DEF Given, Word
  <1>2. Idle \in Command /\ Idle.seen = Missing
        BY IdleCommand DEF Idle
  <1> HIDE DEF Idle
  <1>3. Started(s) \in Command
        BY <1>1, <1>2 DEF Started, Command
  <1>4. Started(s).pc = "resolving" /\ Started(s).seen = Missing /\ Started(s).text = s.text
        BY <1>2 DEF Started, Command
  <1> QED BY <1>3, <1>4 DEF Past

LEMMA StartConfig ==
    ASSUME ConfigInv, NEW p \in Proc, NEW s \in Starts, Start(p, s)
    PROVE  ConfigInv'
  <1>1. Becomes(p, Started(s)) /\ UNCHANGED file
        BY DEF Start, Started
  <1> QED BY <1>1, StartedCommand, StepOfOne

\* A command that has found file f.
Opened(r, f, blind) ==
    [r EXCEPT !.pc = "running", !.cfg = Loaded(f, r), !.seen = f, !.blind = blind,
              !.color = ColorOn(r.noColor, Loaded(f, r))]

LEMMA OpenedCommand ==
    ASSUME NEW q \in Command, NEW f \in File, NEW blind \in BOOLEAN, Sound(f), Loads(f, q)
    PROVE  LET r == Opened(q, f, blind) IN
           /\ r \in Command /\ Resolved(r)
           /\ r.blind = blind /\ r.seen = f /\ r.text = q.text
  <1> DEFINE cfg == Loaded(f, q)
             r == Opened(q, f, blind)
  <1>1. cfg \in [Key -> [val : Word, src : Source]] /\ ColorOn(q.noColor, cfg) \in BOOLEAN
        BY LoadedType DEF ColorOn
  <1>2. r = [q EXCEPT !.pc = "running", !.cfg = cfg, !.seen = f, !.blind = blind,
                      !.color = ColorOn(q.noColor, cfg)]
        BY DEF Opened
  <1> HIDE DEF r, cfg
  <1>3. r \in Command
        BY <1>1, <1>2 DEF Command
  <1>4. /\ r.pc = "running" /\ r.cfg = cfg /\ r.seen = f /\ r.blind = blind
        /\ r.env = q.env /\ r.legacy = q.legacy /\ r.text = q.text
        BY <1>2 DEF Command
  <1>5. Loads(f, r) /\ Loaded(f, r) = cfg
        BY <1>4, SameLayers DEF cfg
  <1>6. Resolved(r)
        BY <1>4, <1>5 DEF Resolved
  <1> QED BY <1>3, <1>4, <1>6 DEF r

\* The file that a command finds; nothing, if it cannot open the one there.
LEMMA FoundFile ==
    ASSUME ConfigInv, NEW f \in Found
    PROVE  f \in File /\ Sound(f) /\ f \in {file, Missing}
  <1>1. Missing \in File /\ Sound(Missing)
    <2>1. NoTexts \in [Key -> Word]
          BY DEF NoTexts, Word, Text
    <2> QED BY <2>1 DEF Missing, File, Sound
  <1>2. file \in File /\ Sound(file)
        BY DEF ConfigInv, Typed
  <1> QED BY <1>1, <1>2 DEF Found

LEMMA ResolvedFrom ==
    ASSUME NEW p \in Proc, Resolve(p)
    PROVE  UNCHANGED file
           /\ \/ Becomes(p, Idle)
              \/ \E f \in Found : Loads(f, proc[p]) /\ Becomes(p, Opened(proc[p], f, f # file))
  BY DEF Resolve, Opened

LEMMA ResolveConfig ==
    ASSUME ConfigInv, NEW p \in Proc, Resolve(p)
    PROVE  ConfigInv'
  <1>1. CASE Becomes(p, Idle)
        BY <1>1, ResolvedFrom, IdleCommand, StepOfOne
  <1>2. CASE \E f \in Found : Loads(f, proc[p]) /\ Becomes(p, Opened(proc[p], f, f # file))
    <2>1. PICK f \in Found : Loads(f, proc[p]) /\ Becomes(p, Opened(proc[p], f, f # file))
          BY <1>2
    <2> DEFINE blind == f # file
               r == Opened(proc[p], f, blind)
    <2>2. proc[p] \in Command /\ blind \in BOOLEAN
          BY DEF ConfigInv, Typed
    <2>3. f \in File /\ Sound(f) /\ f.state # "broken"
          BY <2>1, FoundFile DEF Loads
    <2> HIDE DEF blind
    <2>4. r \in Command /\ Resolved(r) /\ r.blind = blind
          BY <2>1, <2>2, <2>3, OpenedCommand
    <2>5. file.state = "broken" => blind
          BY <2>3 DEF blind
    <2>6. Becomes(p, r) /\ UNCHANGED file
          BY <2>1, ResolvedFrom DEF blind
    <2> HIDE DEF r
    <2> QED BY <2>4, <2>5, <2>6, StepOfOne
  <1> QED BY <1>1, <1>2, ResolvedFrom

LEMMA SetConfig ==
    ASSUME ConfigInv, NEW p \in Proc, Set(p)
    PROVE  ConfigInv'
  <1> DEFINE k == proc[p].key
             new == [val |-> ValueOf(k, proc[p].text), src |-> "flag"]
             r == [proc[p] EXCEPT !.pc = "saving", !.cfg[k] = new]
  <1>1. CASE Accepts(k, proc[p].text)
    <2>1. proc[p] \in Command /\ proc[p].pc = "running" /\ k \in Key
          BY DEF ConfigInv, Typed, Set, At, Command
    <2>2. Resolved(proc[p]) /\ (file.state = "broken" => proc[p].blind)
          BY <2>1 DEF ConfigInv, Work, Past
    <2>3. new \in [val : Word, src : Source]
          BY <1>1, <2>1, AcceptedValue DEF Source, Command
    <2>4. r \in Command
          <3> HIDE DEF new
          <3> QED BY <2>1, <2>3 DEF Command
    <2>5. /\ r.pc = "saving" /\ r.cfg = [proc[p].cfg EXCEPT ![k] = new]
          /\ r.seen = proc[p].seen /\ r.env = proc[p].env /\ r.legacy = proc[p].legacy
          /\ r.key = k /\ r.text = proc[p].text /\ r.blind = proc[p].blind
      <3> DEFINE q == proc[p]
      <3>1. q \in Command
            BY <2>1
      <3> HIDE DEF q, new, k
      <3>2. /\ r.pc = "saving" /\ r.seen = q.seen /\ r.env = q.env /\ r.legacy = q.legacy
            /\ r.key = q.key /\ r.text = q.text /\ r.blind = q.blind
            BY <3>1 DEF Command, q
      <3>3. r.cfg = [q.cfg EXCEPT ![k] = new]
            BY <3>1 DEF Command, q
      <3> QED BY <3>2, <3>3 DEF q, k
    <2>6. new = NewSetting(r)
          BY <2>5 DEF NewSetting
    <2> HIDE DEF r, new
    <2>7. Loads(r.seen, r) /\ Loaded(r.seen, r) = Loaded(proc[p].seen, proc[p])
          BY <2>2, <2>5, SameLayers DEF Resolved
    <2>8. Resolved(r)
          BY <1>1, <2>1, <2>2, <2>5, <2>6, <2>7 DEF Resolved
    <2>9. Becomes(p, r) /\ UNCHANGED file
          BY <1>1 DEF Set, r, new
    <2> QED BY <2>2, <2>4, <2>5, <2>8, <2>9, StepOfOne
  <1>2. CASE ~Accepts(k, proc[p].text)
        BY <1>2, IdleCommand, StepOfOne DEF Set
  <1> QED BY <1>1, <1>2

\* A file that a command writes.
LEMMA PersistedFile ==
    ASSUME NEW r \in Command
    PROVE  /\ Persisted(r.cfg) \in File /\ Persisted(r.cfg).state = "ok"
           /\ ~Persisted(r.cfg).hand /\ Persisted(r.cfg).old = NoTexts
           /\ \A k \in Key : Persisted(r.cfg).top[k] =
                 IF r.cfg[k].src \in {"file", "flag"} THEN r.cfg[k].val ELSE None
  <1>1. NoTexts \in [Key -> Word]
        BY DEF NoTexts, Word, Text
  <1>2. [k \in Key |-> IF r.cfg[k].src \in {"file", "flag"} THEN r.cfg[k].val ELSE None]
           \in [Key -> Word]
        BY DEF Command, Word, Text
  <1> QED BY <1>1, <1>2 DEF Persisted, File

LEMMA SaveConfig ==
    ASSUME ConfigInv, NEW p \in Proc, Save(p)
    PROVE  ConfigInv'
  <1>1. proc[p] \in Command /\ Past(proc[p]) /\ Becomes(p, Idle)
        BY DEF ConfigInv, Typed, Save, At, Past
  <1>2. file' = file \/ file' = Persisted(proc[p].cfg)
        BY DEF Save
  <1>3. CASE file' = file
        BY <1>1, <1>3, IdleCommand, StepOfOne
  <1>4. CASE file' = Persisted(proc[p].cfg)
    <2>1. file' \in File /\ file'.state = "ok"
          BY <1>1, <1>4, PersistedFile
    <2>2. Typed' /\ proc'[p] = Idle /\ \A q \in Proc \ {p} : proc'[q] = proc[q]
          BY <1>1, <2>1, IdleCommand DEF ConfigInv, Typed, Becomes
    <2>3. \A q \in Proc : Work(proc[q])'
          BY <2>1, <2>2, IdleCommand DEF ConfigInv, Work
    <2> QED BY <2>1, <2>2, <2>3 DEF ConfigInv, Sound
  <1> QED BY <1>2, <1>3, <1>4

\* The owner writes, removes or makes null setting k.
EditOf(k, t, nulls) ==
    /\ t # None => t \in Texts[k]
    /\ \/ file' = [file EXCEPT !.state = "ok", !.top[k] = t, !.nulls = nulls, !.hand = TRUE]
       \/ file' = [file EXCEPT !.state = "ok", !.old[k] = t, !.hand = TRUE]

LEMMA HandEdits ==
    ASSUME HandEdit, file \in File
    PROVE  \/ \E k \in Key, t \in (UNION {Texts[j] : j \in Key}) \cup {None},
                 nulls \in SUBSET Key : EditOf(k, t, nulls)
           \/ file' = [file EXCEPT !.state = "broken", !.hand = TRUE]
  <1>1. \A k \in Key : file.nulls \ {k} \in SUBSET Key /\ file.nulls \cup {k} \in SUBSET Key
        BY DEF File
  <1>2. ASSUME NEW k \in Key, NEW t \in (UNION {Texts[j] : j \in Key}) \cup {None},
               HandWritten(k, t)
        PROVE  \E nulls \in SUBSET Key : EditOf(k, t, nulls)
    <2>1. CASE \E nulls \in {file.nulls \ {k}, file.nulls \cup {k}} :
                 file' = [file EXCEPT !.state = "ok", !.top[k] = t, !.nulls = nulls,
                                      !.hand = TRUE]
      <3>1. PICK nulls \in {file.nulls \ {k}, file.nulls \cup {k}} :
              file' = [file EXCEPT !.state = "ok", !.top[k] = t, !.nulls = nulls,
                                   !.hand = TRUE]
            BY <2>1
      <3>2. nulls \in SUBSET Key /\ EditOf(k, t, nulls)
            BY <1>1, <1>2, <3>1 DEF EditOf, HandWritten
      <3> QED BY <3>2
    <2>2. CASE file' = [file EXCEPT !.state = "ok", !.old[k] = t, !.hand = TRUE]
      <3>1. EditOf(k, t, {})
            BY <1>2, <2>2 DEF EditOf, HandWritten
      <3> QED BY <3>1
    <2> QED BY <1>2, <2>1, <2>2 DEF HandWritten
  <1> QED BY <1>2 DEF HandEdit

LEMMA HandEditConfig ==
    ASSUME ConfigInv, HandEdit
    PROVE  ConfigInv'
  <1>1. \A q \in Proc : ~Past(proc[q])
        BY DEF HandEdit, At, Past
  <1>2. file \in File
        BY DEF ConfigInv, Typed
  <1>3. file' \in File /\ file'.hand /\ file'.state \in {"ok", "broken"}
    <2>1. ASSUME NEW k \in Key, NEW t \in (UNION {Texts[j] : j \in Key}) \cup {None},
                 NEW nulls \in SUBSET Key, EditOf(k, t, nulls)
          PROVE  file' \in File /\ file'.hand /\ file'.state = "ok"
      <3>1. t \in Word
            BY <2>1, TextsAssumption DEF EditOf, Word, Text
      <3>2. CASE file' = [file EXCEPT !.state = "ok", !.top[k] = t, !.nulls = nulls,
                                      !.hand = TRUE]
            BY <1>2, <3>1, <3>2 DEF File
      <3>3. CASE file' = [file EXCEPT !.state = "ok", !.old[k] = t, !.hand = TRUE]
            BY <1>2, <3>1, <3>3 DEF File
      <3> QED BY <2>1, <3>2, <3>3 DEF EditOf
    <2>2. CASE file' = [file EXCEPT !.state = "broken", !.hand = TRUE]
          BY <1>2, <2>2 DEF File
    <2> QED BY <1>2, <2>1, <2>2, HandEdits
  <1>4. \A q \in Proc : Work(proc[q])'
        BY <1>1 DEF HandEdit, Work, Past
  <1> QED BY <1>3, <1>4 DEF ConfigInv, Typed, Sound, HandEdit

LEMMA NextConfig == ConfigInv /\ [Next]_vars => ConfigInv'
  <1> SUFFICES ASSUME ConfigInv, [Next]_vars PROVE ConfigInv'
      OBVIOUS
  <1>1. ASSUME NEW p \in Proc, Use(p) \/ Crash(p) PROVE ConfigInv'
        BY <1>1, IdleCommand, StepOfOne DEF Use, Crash
  <1>2. CASE UNCHANGED vars
        BY <1>2 DEF vars, ConfigInv, Typed, Sound, Work, Resolved
  <1> QED BY <1>1, <1>2, StartConfig, ResolveConfig, SetConfig, SaveConfig, HandEditConfig
          DEF Next

LEMMA ConfigInvariant == Spec => []ConfigInv
  BY InitConfig, NextConfig, PTL DEF Spec

\* Every reachable state is well typed, and a command that saves has set one
\* setting, for any number of commands, texts and ways to start one.
THEOREM ConfigTyped == Spec => []TypeOK
  <1>1. ConfigInv => TypeOK
    <2> SUFFICES ASSUME ConfigInv PROVE TypeOK
        OBVIOUS
    <2>1. file \in File /\ \A p \in Proc : proc[p] \in Command
          BY DEF ConfigInv, Typed
    <2>2. ASSUME NEW p \in Proc, proc[p].pc = "saving"
          PROVE  \E k \in Key : proc[p].key = k /\ proc[p].cfg[k].src = "flag"
      <3>1. /\ proc[p].key \in Key
            /\ proc[p].cfg =
                 [Loaded(proc[p].seen, proc[p]) EXCEPT ![proc[p].key] = NewSetting(proc[p])]
            BY <2>2 DEF ConfigInv, Work, Past, Resolved
      <3>2. proc[p].cfg[proc[p].key] = NewSetting(proc[p])
            BY <3>1, LoadedLayers
      <3> QED BY <3>1, <3>2 DEF NewSetting
    <2> QED BY <2>1, <2>2 DEF TypeOK, File, Command, Source
  <1> QED BY <1>1, ConfigInvariant, PTL

-----------------------------------------------------------------------------
(* The most specific source                                                 *)

IsList(c) == \E n \in Nat : DOMAIN c = 1..n

First(c, i) == i \in DOMAIN c /\ c[i] # None /\ \A j \in 1..i - 1 : c[j] = None

LEMMA FirstGiven ==
    ASSUME NEW k, NEW c, IsList(c), NEW i, First(c, i)
    PROVE  FirstOf(k, c) = ValueOf(k, c[i])
  <1>1. PICK n \in Nat : DOMAIN c = 1..n
        BY DEF IsList
  <1>2. ASSUME NEW m \in DOMAIN c, First(c, m) PROVE m = i
    <2>1. ~(m < i) /\ ~(i < m)
          BY <1>1, <1>2 DEF First
    <2> QED BY <1>1, <1>2, <2>1 DEF First
  <1>3. (CHOOSE m \in DOMAIN c : First(c, m)) = i
        BY <1>2 DEF First
  <1>4. ~\A j \in DOMAIN c : c[j] = None
        BY DEF First
  <1>5. (CHOOSE m \in DOMAIN c : First(c, m))
          = CHOOSE m \in DOMAIN c : c[m] # None /\ \A j \in 1..m - 1 : c[j] = None
        BY DEF First
  <1> QED BY <1>3, <1>4, <1>5 DEF FirstOf

LEMMA NoneGiven ==
    ASSUME NEW k, NEW c, \A i \in DOMAIN c : c[i] = None
    PROVE  FirstOf(k, c) = Default[k]
  BY DEF FirstOf

LEMMA FirstOfFour ==
    ASSUME NEW k, NEW a, NEW b, NEW c, NEW d
    PROVE  FirstOf(k, <<a, b, c, d>>) =
             IF a # None THEN ValueOf(k, a) ELSE IF b # None THEN ValueOf(k, b)
             ELSE IF c # None THEN ValueOf(k, c) ELSE IF d # None THEN ValueOf(k, d)
             ELSE Default[k]
  <1> DEFINE s == <<a, b, c, d>>
  <1>1. DOMAIN s = 1..4 /\ s[1] = a /\ s[2] = b /\ s[3] = c /\ s[4] = d /\ IsList(s)
        BY DEF IsList
  <1> HIDE DEF s
  <1>2. ASSUME a # None
        PROVE  FirstOf(k, s) = ValueOf(k, a)
    <2>1. First(s, 1)
          BY <1>1, <1>2 DEF First
    <2> QED BY <1>1, <2>1, FirstGiven
  <1>3. ASSUME a = None, b # None
        PROVE  FirstOf(k, s) = ValueOf(k, b)
    <2>1. First(s, 2)
          BY <1>1, <1>3 DEF First
    <2> QED BY <1>1, <2>1, FirstGiven
  <1>4. ASSUME a = None, b = None, c # None
        PROVE  FirstOf(k, s) = ValueOf(k, c)
    <2>1. First(s, 3)
          BY <1>1, <1>4 DEF First
    <2> QED BY <1>1, <2>1, FirstGiven
  <1>5. ASSUME a = None, b = None, c = None, d # None
        PROVE  FirstOf(k, s) = ValueOf(k, d)
    <2>1. First(s, 4)
          BY <1>1, <1>5 DEF First
    <2> QED BY <1>1, <2>1, FirstGiven
  <1>6. ASSUME a = None, b = None, c = None, d = None
        PROVE  FirstOf(k, s) = Default[k]
    <2>1. \A j \in DOMAIN s : s[j] = None
          BY <1>1, <1>6
    <2> QED BY <2>1, NoneGiven
  <1> QED BY <1>2, <1>3, <1>4, <1>5, <1>6 DEF s

LEMMA FirstOfFive ==
    ASSUME NEW k, NEW f, NEW a, NEW b, NEW c, NEW d
    PROVE  FirstOf(k, <<f, a, b, c, d>>) =
             IF f # None THEN ValueOf(k, f) ELSE FirstOf(k, <<a, b, c, d>>)
  <1> DEFINE s == <<f, a, b, c, d>>
  <1>1. DOMAIN s = 1..5 /\ s[1] = f /\ s[2] = a /\ s[3] = b /\ s[4] = c /\ s[5] = d /\ IsList(s)
        BY DEF IsList
  <1> HIDE DEF s
  <1>2. ASSUME f # None
        PROVE  FirstOf(k, s) = ValueOf(k, f)
    <2>1. First(s, 1)
          BY <1>1, <1>2 DEF First
    <2> QED BY <1>1, <2>1, FirstGiven
  <1>3. ASSUME f = None, a # None
        PROVE  FirstOf(k, s) = ValueOf(k, a)
    <2>1. First(s, 2)
          BY <1>1, <1>3 DEF First
    <2> QED BY <1>1, <2>1, FirstGiven
  <1>4. ASSUME f = None, a = None, b # None
        PROVE  FirstOf(k, s) = ValueOf(k, b)
    <2>1. First(s, 3)
          BY <1>1, <1>4 DEF First
    <2> QED BY <1>1, <2>1, FirstGiven
  <1>5. ASSUME f = None, a = None, b = None, c # None
        PROVE  FirstOf(k, s) = ValueOf(k, c)
    <2>1. First(s, 4)
          BY <1>1, <1>5 DEF First
    <2> QED BY <1>1, <2>1, FirstGiven
  <1>6. ASSUME f = None, a = None, b = None, c = None, d # None
        PROVE  FirstOf(k, s) = ValueOf(k, d)
    <2>1. First(s, 5)
          BY <1>1, <1>6 DEF First
    <2> QED BY <1>1, <2>1, FirstGiven
  <1>7. ASSUME f = None, a = None, b = None, c = None, d = None
        PROVE  FirstOf(k, s) = Default[k]
    <2>1. \A j \in DOMAIN s : s[j] = None
          BY <1>1, <1>7
    <2> QED BY <2>1, NoneGiven
  <1> QED BY <1>2, <1>3, <1>4, <1>5, <1>6, <1>7, FirstOfFour DEF s

\* A file that was accepted: the top level, or else "defaults".
LEMMA FileSetting ==
    ASSUME NEW f, Sound(f), f.state \in {"absent", "ok", "broken"}, f.state # "broken",
           NEW k \in Key
    PROVE  FileTexts(f)[k] = IF f.top[k] # None THEN f.top[k] ELSE Historic(f, k)
  BY DEF FileTexts, Historic, Sound, NoTexts

\* For any number of commands and texts: a command that runs uses each setting
\* from flag, environment, alias, file and default in this order, and a
\* variable set to nothing counts as unset.
THEOREM SpecificSourceWins == Spec => []MostSpecificWins
  <1>1. ConfigInv => MostSpecificWins
    <2> SUFFICES ASSUME ConfigInv, NEW p \in Proc, At(p, "running")
                 PROVE  /\ \A k \in Key : proc[p].cfg[k].val =
                             FirstOf(k, <<Environment(proc[p].env[k]),
                                          IF k = "apiHost" THEN Environment(proc[p].legacy)
                                                           ELSE None,
                                          proc[p].seen.top[k],
                                          Historic(proc[p].seen, k)>>)
                        /\ "apiHost" \in Key => ApiHost(proc[p]) =
                             FirstOf("apiHost", <<proc[p].flag,
                                          Environment(proc[p].env["apiHost"]),
                                          Environment(proc[p].legacy),
                                          proc[p].seen.top["apiHost"],
                                          Historic(proc[p].seen, "apiHost")>>)
        BY DEF MostSpecificWins
    <2> DEFINE r == proc[p]
               f == proc[p].seen
               first(k) == FirstOf(k, <<Environment(r.env[k]), Alias(r, k), f.top[k],
                                        Historic(f, k)>>)
    <2>1. r \in Command /\ Sound(f) /\ Loads(f, r) /\ r.cfg = Loaded(f, r)
          BY DEF ConfigInv, Typed, Work, Past, Resolved, At
    <2>2. ASSUME NEW k \in Key PROVE r.cfg[k].val = first(k)
      <3>1. EnvTexts(r)[k] = Environment(r.env[k])
            BY DEF EnvTexts
      <3>2. FileTexts(f)[k] = IF f.top[k] # None THEN f.top[k] ELSE Historic(f, k)
            BY <2>1, FileSetting DEF Loads, Command, File
      <3>3. r.cfg[k] = Layered(f, r, k)
            BY <2>1, LoadedLayers
      <3> HIDE DEF r, f
      <3> QED BY <3>1, <3>2, <3>3, FirstOfFour DEF Layered
    <2>3. ASSUME "apiHost" \in Key
          PROVE  ApiHost(r) = FirstOf("apiHost", <<r.flag, Environment(r.env["apiHost"]),
                                        Environment(r.legacy), f.top["apiHost"],
                                        Historic(f, "apiHost")>>)
      <3>1. r.flag \in Word
            BY <2>1 DEF Command
      <3>2. ValueOf("apiHost", r.flag) = HostOf(r.flag)
            BY <2>3, <3>1, HostText
      <3>3. Alias(r, "apiHost") = Environment(r.legacy)
            BY DEF Alias
      <3>4. r.cfg["apiHost"].val = first("apiHost")
            BY <2>2, <2>3
      <3> HIDE DEF r, f
      <3> QED BY <3>2, <3>3, <3>4, FirstOfFive DEF ApiHost
    <2> QED BY <2>2, <2>3 DEF Alias
  <1> QED BY <1>1, ConfigInvariant, PTL

-----------------------------------------------------------------------------
(* What a save writes                                                       *)

LEMMA LayerOf ==
    ASSUME NEW f, NEW r, NEW k
    PROVE  /\ Layered(f, r, k).src # "flag"
           /\ Layered(f, r, k).src = "file" =>
                FileTexts(f)[k] # None /\ Layered(f, r, k).val = ValueOf(k, FileTexts(f)[k])
           /\ FileTexts(f)[k] # None => Layered(f, r, k).src \in {"env", "file"}
  BY DEF Layered

LEMMA SavedSetting ==
    ASSUME ConfigInv, NEW p \in Proc, Save(p), NEW k \in Key
    PROVE  LET r == proc[p] IN
           /\ r \in Command /\ r.key \in Key /\ Accepts(r.key, r.text) /\ Loads(r.seen, r)
           /\ r.cfg[k] = IF k = r.key THEN NewSetting(r) ELSE Layered(r.seen, r, k)
           /\ Persisted(r.cfg).top[k] =
                IF k = r.key THEN ValueOf(k, r.text)
                ELSE IF Layered(r.seen, r, k).src = "file" THEN ValueOf(k, FileTexts(r.seen)[k])
                ELSE None
  <1> DEFINE r == proc[p]
  <1>1. r \in Command /\ r.pc = "saving" /\ Resolved(r)
        BY DEF ConfigInv, Typed, Work, Past, Save, At
  <1> HIDE DEF r
  <1>2. r.key \in Key /\ Accepts(r.key, r.text) /\ Loads(r.seen, r)
        /\ r.cfg = [Loaded(r.seen, r) EXCEPT ![r.key] = NewSetting(r)]
        BY <1>1 DEF Resolved
  <1>3. r.cfg[k] = IF k = r.key THEN NewSetting(r) ELSE Layered(r.seen, r, k)
        BY <1>2, LoadedLayers
  <1>4. Persisted(r.cfg).top[k] =
          IF r.cfg[k].src \in {"file", "flag"} THEN r.cfg[k].val ELSE None
        BY <1>1, PersistedFile
  <1>5. Persisted(r.cfg).top[k] =
          IF k = r.key THEN ValueOf(k, r.text)
          ELSE IF Layered(r.seen, r, k).src = "file" THEN ValueOf(k, FileTexts(r.seen)[k])
          ELSE None
        BY <1>3, <1>4, LayerOf DEF NewSetting
  <1> QED BY <1>1, <1>2, <1>3, <1>5 DEF r

\* Who can change the file.
LEMMA FileChange ==
    ASSUME ConfigInv, [Next]_vars, file' # file
    PROVE  \/ HandEdit /\ file'.hand
           \/ \E p \in Proc :
                /\ Save(p) /\ (file.state = "broken" => proc[p].blind)
                /\ file' = Persisted(proc[p].cfg)
                /\ proc'[p] # proc[p] /\ \A q \in Proc \ {p} : proc'[q] = proc[q]
  <1>1. HandEdit \/ \E p \in Proc : Save(p)
        BY DEF Next, vars, Start, Resolve, Use, Set, Crash
  <1>2. ASSUME HandEdit PROVE file'.hand
    <2>1. file \in File
          BY DEF ConfigInv, Typed
    <2>2. CASE file' = [file EXCEPT !.state = "broken", !.hand = TRUE]
          BY <2>1, <2>2 DEF File
    <2>3. ASSUME NEW k, NEW t, NEW nulls, EditOf(k, t, nulls) PROVE file'.hand
          BY <2>1, <2>3 DEF EditOf, File
    <2> QED BY <1>2, <2>1, <2>2, <2>3, HandEdits
  <1>3. ASSUME NEW p \in Proc, Save(p)
        PROVE  /\ file.state = "broken" => proc[p].blind
               /\ file' = Persisted(proc[p].cfg)
               /\ proc'[p] # proc[p] /\ \A q \in Proc \ {p} : proc'[q] = proc[q]
    <2>1. Past(proc[p]) /\ Becomes(p, Idle) /\ file' = Persisted(proc[p].cfg)
          BY <1>3 DEF Save, At, Past
    <2>2. file.state = "broken" => proc[p].blind
          BY <2>1 DEF ConfigInv, Work
    <2>3. proc'[p] = Idle /\ \A q \in Proc \ {p} : proc'[q] = proc[q]
          BY <2>1 DEF ConfigInv, Typed, Becomes
    <2> QED BY <2>1, <2>2, <2>3, IdleCommand
  <1> QED BY <1>1, <1>2, <1>3

\* For any number of commands: a malformed file is replaced by its owner, or by
\* the save of a command that could not open it, and by no other.
THEOREM BrokenFilesKept == Spec => BrokenKept
  <1>1. ConfigInv /\ [Next]_vars =>
          [file.state = "broken" /\ file' # file /\ ~file'.hand =>
             \E p \in Proc : At(p, "saving") /\ proc'[p] # proc[p] /\ proc[p].blind]_vars
    <2> SUFFICES ASSUME ConfigInv, [Next]_vars, file.state = "broken", file' # file,
                        ~file'.hand
                 PROVE  \E p \in Proc : At(p, "saving") /\ proc'[p] # proc[p] /\ proc[p].blind
        OBVIOUS
    <2> QED BY FileChange DEF Save
  <1> QED BY <1>1, ConfigInvariant, PTL DEF Spec, BrokenKept

\* For any number of commands, texts and ways to start one: a save writes the
\* value just set or one that the file had, never an override.
THEOREM OverridesNotSaved == Spec => OverrideNotSaved
  <1>1. ConfigInv /\ [Next]_vars =>
          [\A k \in Key : file'.top[k] # file.top[k] /\ file'.top[k] # None /\ ~file'.hand =>
             \E p \in Proc : At(p, "saving") /\ proc'[p] # proc[p] /\
                \/ proc[p].key = k /\ file'.top[k] = ValueOf(k, proc[p].text)
                \/ \E t \in {proc[p].seen.top[k], proc[p].seen.old[k]} \ {None} :
                     file'.top[k] = ValueOf(k, t)]_vars
    <2> SUFFICES ASSUME ConfigInv, [Next]_vars, NEW k \in Key, ~file'.hand,
                        file'.top[k] # file.top[k], file'.top[k] # None
                 PROVE  \E p \in Proc : At(p, "saving") /\ proc'[p] # proc[p] /\
                          \/ proc[p].key = k /\ file'.top[k] = ValueOf(k, proc[p].text)
                          \/ \E t \in {proc[p].seen.top[k], proc[p].seen.old[k]} \ {None} :
                               file'.top[k] = ValueOf(k, t)
        OBVIOUS
    <2>1. PICK p \in Proc :
            Save(p) /\ file' = Persisted(proc[p].cfg) /\ proc'[p] # proc[p]
          BY FileChange
    <2>2. CASE k = proc[p].key
          BY <2>1, <2>2, SavedSetting DEF Save
    <2>3. CASE k # proc[p].key
      <3> DEFINE f == proc[p].seen
      <3>1. /\ file'.top[k] = ValueOf(k, FileTexts(f)[k]) /\ FileTexts(f)[k] # None
            BY <2>1, <2>3, SavedSetting, LayerOf
      <3>2. FileTexts(f)[k] \in {f.top[k], f.old[k]}
            BY <3>1 DEF FileTexts, Historic
      <3> QED BY <2>1, <3>1, <3>2 DEF Save
    <2> QED BY <2>2, <2>3
  <1> QED BY <1>1, ConfigInvariant, PTL DEF Spec, OverrideNotSaved

\* For any number of commands, texts and ways to start one: a save leaves
\* every other setting of the file as it is, unless the environment overrode
\* it, the command could not open the file or it was changed in between.
THEOREM OtherSettingsKept == Spec => OthersKept
  <1>1. ConfigInv /\ [Next]_vars =>
          [\A k \in Key, p \in Proc : At(p, "saving") /\ proc'[p] # proc[p] /\ file' # file =>
             \/ proc[p].key = k
             \/ proc[p].cfg[k].src = "env"
             \/ proc[p].blind
             \/ FileTexts(proc[p].seen)[k] # FileTexts(file)[k]
             \/ FileTexts(file)[k] = None
             \/ file'.top[k] = ValueOf(k, FileTexts(file)[k])]_vars
    <2> SUFFICES ASSUME ConfigInv, [Next]_vars, NEW k \in Key, NEW p \in Proc,
                        proc'[p] # proc[p], file' # file,
                        proc[p].key # k, proc[p].cfg[k].src # "env", ~proc[p].blind,
                        FileTexts(proc[p].seen)[k] = FileTexts(file)[k],
                        FileTexts(file)[k] # None
                 PROVE  file'.top[k] = ValueOf(k, FileTexts(file)[k])
        OBVIOUS
    <2>1. ~HandEdit
          BY DEF HandEdit
    <2>2. Save(p) /\ file' = Persisted(proc[p].cfg)
      <3>1. PICK q \in Proc : /\ Save(q) /\ file' = Persisted(proc[q].cfg)
                              /\ \A s \in Proc \ {q} : proc'[s] = proc[s]
            BY <2>1, FileChange
      <3> QED BY <3>1
    <2>3. proc[p].cfg[k] = Layered(proc[p].seen, proc[p], k)
          BY <2>2, SavedSetting
    <2>4. Layered(proc[p].seen, proc[p], k).src = "file"
          BY <2>3, LayerOf
    <2>5. Persisted(proc[p].cfg).top[k] = ValueOf(k, FileTexts(proc[p].seen)[k])
          BY <2>2, <2>4, SavedSetting
    <2> QED BY <2>2, <2>5
  <1> QED BY <1>1, ConfigInvariant, PTL DEF Spec, OthersKept

-----------------------------------------------------------------------------
(* A saved file is accepted                                                 *)

\* No host is given that is only a slash.
NoBareSlash ==
    /\ None # "/"
    /\ \A k \in Key : "/" \notin Texts[k]
    /\ \A s \in Starts : s.text # "/"

Slashless(f) == \A k \in Key : f.top[k] # "/" /\ f.old[k] # "/"

SlashInv ==
    /\ SavedLoads /\ Slashless(file)
    /\ \A p \in Proc : Slashless(proc[p].seen) /\ proc[p].text # "/"

LEMMA InitSlash == NoBareSlash /\ Init => SlashInv
  BY DEF NoBareSlash, Init, SlashInv, SavedLoads, Slashless, Missing, NoTexts, Idle

\* A step of one command that leaves the file as it is.
LEMMA SlashStep ==
    ASSUME NoBareSlash, ConfigInv, SlashInv, UNCHANGED file, NEW p \in Proc, NEW r \in Command,
           Becomes(p, r), r.seen \in {file, proc[p].seen, Missing}, r.text # "/"
    PROVE  SlashInv'
  <1>1. proc'[p] = r /\ \A q \in Proc \ {p} : proc'[q] = proc[q]
        BY DEF ConfigInv, Typed, Becomes
  <1>2. Slashless(Missing)
        BY DEF NoBareSlash, Slashless, Missing, NoTexts
  <1>3. Slashless(r.seen)
        BY <1>2 DEF SlashInv
  <1>4. SavedLoads' /\ Slashless(file)'
        BY DEF SlashInv, SavedLoads, Slashless, AllAccepted
  <1>5. \A q \in Proc : Slashless(proc'[q].seen) /\ proc'[q].text # "/"
        BY <1>1, <1>3 DEF SlashInv
  <1>6. \A q \in Proc : Slashless(proc[q].seen)'
        BY <1>5 DEF Slashless
  <1> QED BY <1>4, <1>5, <1>6 DEF SlashInv

LEMMA SlashIdle ==
    ASSUME NoBareSlash, ConfigInv, SlashInv, UNCHANGED file, NEW p \in Proc, Becomes(p, Idle)
    PROVE  SlashInv'
  <1>1. Idle.seen = Missing /\ Idle.text # "/"
        BY DEF Idle, NoBareSlash
  <1> QED BY <1>1, IdleCommand, SlashStep

LEMMA StartSlash ==
    ASSUME NoBareSlash, ConfigInv, SlashInv, NEW p \in Proc, NEW s \in Starts, Start(p, s)
    PROVE  SlashInv'
  <1>1. Becomes(p, Started(s)) /\ UNCHANGED file
        BY DEF Start, Started
  <1>2. Started(s).text # "/"
        BY StartedCommand DEF NoBareSlash
  <1> QED BY <1>1, <1>2, StartedCommand, SlashStep

LEMMA ResolveSlash ==
    ASSUME NoBareSlash, ConfigInv, SlashInv, NEW p \in Proc, Resolve(p)
    PROVE  SlashInv'
  <1>1. CASE Becomes(p, Idle)
        BY <1>1, ResolvedFrom, SlashIdle
  <1>2. CASE \E f \in Found : Loads(f, proc[p]) /\ Becomes(p, Opened(proc[p], f, f # file))
    <2>1. PICK f \in Found : Loads(f, proc[p]) /\ Becomes(p, Opened(proc[p], f, f # file))
          BY <1>2
    <2> DEFINE blind == f # file
               r == Opened(proc[p], f, blind)
    <2>2. proc[p] \in Command /\ proc[p].text # "/" /\ blind \in BOOLEAN
          BY DEF ConfigInv, Typed, SlashInv
    <2>3. f \in File /\ Sound(f) /\ f \in {file, Missing}
          BY FoundFile
    <2>4. Becomes(p, r) /\ UNCHANGED file
          BY <2>1, ResolvedFrom
    <2> HIDE DEF blind
    <2>5. r \in Command /\ r.seen = f /\ r.text = proc[p].text
          BY <2>1, <2>2, <2>3, OpenedCommand
    <2> HIDE DEF r
    <2> QED BY <2>2, <2>3, <2>4, <2>5, SlashStep
  <1> QED BY <1>1, <1>2, ResolvedFrom

LEMMA SetSlash ==
    ASSUME NoBareSlash, ConfigInv, ConfigInv', SlashInv, NEW p \in Proc, Set(p)
    PROVE  SlashInv'
  <1> DEFINE k == proc[p].key
             r == [proc[p] EXCEPT !.pc = "saving",
                      !.cfg[k] = [val |-> ValueOf(k, proc[p].text), src |-> "flag"]]
  <1>1. CASE Accepts(k, proc[p].text)
    <2>1. Becomes(p, r) /\ UNCHANGED file
          BY <1>1 DEF Set
    <2>2. proc[p] \in Command /\ proc[p].text # "/"
          BY DEF ConfigInv, Typed, SlashInv
    <2>3. r.seen = proc[p].seen /\ r.text = proc[p].text
          BY <2>2 DEF Command
    <2> HIDE DEF r
    <2>4. r \in Command
          BY <2>1 DEF ConfigInv, Typed, Becomes
    <2> QED BY <2>1, <2>2, <2>3, <2>4, SlashStep
  <1>2. CASE ~Accepts(k, proc[p].text)
        BY <1>2, SlashIdle DEF Set
  <1> QED BY <1>1, <1>2

LEMMA SaveSlash ==
    ASSUME NoBareSlash, ConfigInv, SlashInv, NEW p \in Proc, Save(p)
    PROVE  SlashInv'
  <1>1. Becomes(p, Idle) /\ (file' = file \/ file' = Persisted(proc[p].cfg))
        BY DEF Save
  <1>2. CASE file' = file
        BY <1>1, <1>2, SlashIdle
  <1>3. CASE file' = Persisted(proc[p].cfg)
    <2> DEFINE r == proc[p]
    <2>1. r \in Command /\ Slashless(r.seen) /\ r.text # "/"
          BY DEF ConfigInv, Typed, SlashInv
    <2>2. ASSUME NEW k \in Key
          PROVE  /\ file'.top[k] # "/"
                 /\ file'.top[k] # None => Accepts(k, file'.top[k])
      <3>1. CASE k = r.key
        <4>1. file'.top[k] = ValueOf(k, r.text) /\ Accepts(k, r.text)
              BY <1>3, <3>1, SavedSetting
        <4>2. r.text \in Word
              BY <2>1 DEF Command
        <4> QED BY <2>1, <4>1, <4>2, AcceptedValue
      <3>2. CASE k # r.key /\ Layered(r.seen, r, k).src = "file"
        <4> DEFINE t == FileTexts(r.seen)[k]
        <4>1. file'.top[k] = ValueOf(k, t) /\ Loads(r.seen, r) /\ t # None
              BY <1>3, <3>2, SavedSetting, LayerOf
        <4>2. r.seen \in File
              BY <2>1 DEF Command
        <4>3. t \in Word /\ Accepts(k, t)
              BY <2>1, <4>1, <4>2, LayerTypes
        <4>4. t # "/"
              BY <2>1, <4>1 DEF FileTexts, Historic, Slashless
        <4> QED BY <4>1, <4>3, <4>4, AcceptedValue
      <3>3. CASE k # r.key /\ Layered(r.seen, r, k).src # "file"
            BY <1>3, <3>3, SavedSetting DEF NoBareSlash
      <3> QED BY <3>1, <3>2, <3>3
    <2>3. file'.old = NoTexts
          BY <1>3, <2>1, PersistedFile
    <2>4. Slashless(file)'
          BY <2>2, <2>3 DEF Slashless, NoTexts, NoBareSlash
    <2>5. SavedLoads'
          BY <2>2 DEF SavedLoads, AllAccepted
    <2>6. proc'[p] = Idle /\ \A q \in Proc \ {p} : proc'[q] = proc[q]
          BY <1>1 DEF ConfigInv, Typed, Becomes
    <2>7. Slashless(Missing) /\ Idle.seen = Missing /\ Idle.text # "/"
          BY DEF NoBareSlash, Slashless, Missing, NoTexts, Idle
    <2>8. \A q \in Proc : Slashless(proc'[q].seen) /\ proc'[q].text # "/"
          BY <2>6, <2>7 DEF SlashInv
    <2>9. \A q \in Proc : Slashless(proc[q].seen)'
          BY <2>8 DEF Slashless
    <2> QED BY <2>4, <2>5, <2>8, <2>9 DEF SlashInv
  <1> QED BY <1>1, <1>2, <1>3

LEMMA HandEditSlash ==
    ASSUME NoBareSlash, ConfigInv, SlashInv, HandEdit
    PROVE  SlashInv'
  <1>1. file \in File /\ Slashless(file)
        BY DEF ConfigInv, Typed, SlashInv
  <1>2. file'.hand /\ Slashless(file)'
    <2>1. ASSUME NEW k \in Key, NEW t \in (UNION {Texts[j] : j \in Key}) \cup {None},
                 NEW nulls \in SUBSET Key, EditOf(k, t, nulls)
          PROVE  file'.hand /\ Slashless(file)'
      <3>1. t # "/"
            BY <2>1 DEF NoBareSlash, EditOf
      <3>2. CASE file' = [file EXCEPT !.state = "ok", !.top[k] = t, !.nulls = nulls,
                                      !.hand = TRUE]
            BY <1>1, <3>1, <3>2 DEF File, Slashless
      <3>3. CASE file' = [file EXCEPT !.state = "ok", !.old[k] = t, !.hand = TRUE]
            BY <1>1, <3>1, <3>3 DEF File, Slashless
      <3> QED BY <2>1, <3>2, <3>3 DEF EditOf
    <2>2. CASE file' = [file EXCEPT !.state = "broken", !.hand = TRUE]
          BY <1>1, <2>2 DEF File, Slashless
    <2> QED BY <1>1, <2>1, <2>2, HandEdits
  <1> QED BY <1>2 DEF HandEdit, SlashInv, SavedLoads, Slashless

\* For any number of commands and ways to start one, unless a host is only a
\* slash: what `config set` has written, the next command accepts.
THEOREM SavedFilesLoad == NoBareSlash => (Spec => []SavedLoads)
  <1> SUFFICES ASSUME NoBareSlash PROVE Spec => []SavedLoads
      OBVIOUS
  <1>1. Init => SlashInv
        BY InitSlash
  <1>2. ConfigInv /\ ConfigInv' /\ SlashInv /\ [Next]_vars => SlashInv'
    <2> SUFFICES ASSUME ConfigInv, ConfigInv', SlashInv, [Next]_vars PROVE SlashInv'
        OBVIOUS
    <2>1. ASSUME NEW p \in Proc, Use(p) \/ Crash(p) PROVE SlashInv'
          BY <2>1, SlashIdle DEF Use, Crash
    <2>2. CASE UNCHANGED vars
          BY <2>2 DEF vars, SlashInv, SavedLoads, Slashless, AllAccepted
    <2> QED BY <2>1, <2>2, StartSlash, ResolveSlash, SetSlash, SaveSlash, HandEditSlash DEF Next
  <1>3. SlashInv => SavedLoads
        BY DEF SlashInv
  <1> QED BY <1>1, <1>2, <1>3, ConfigInvariant, PTL DEF Spec
===============================================================================
