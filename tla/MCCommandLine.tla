---------------------------- MODULE MCCommandLine ----------------------------
(* Instances of CommandLine for TLC: command lines over some words. *)
EXTENDS CommandLine

Upload == Plain("upload")
Text(t) == TextOf(Plain(t))

GlobalWords == {Long("json", None), Long("json", Text("1")), Short(<<"q">>, None),
                Long("api", None), Long("api", Text("h")), Long("help", None), Long("version", None)}
OptionWords == {Long("title", None), Long("bundle", None), Long("nope", None),
                Short(<<"b", "c">>, None), Short(<<"c">>, Text("2"))}
FewGlobals == {Long("json", None), Long("api", None)}
FewOptions == {Long("title", None), Short(<<"b", "c">>, None)}

UpTo(n, W) == UNION {[1..m -> W] : m \in 0..n}

\* Short lines of all words, longer ones of a few.
Lines == UpTo(4, {Upload, Plain("a"), DashDash} \cup GlobalWords \cup OptionWords)
         \cup {<<Upload>> \o line :
                line \in UpTo(5, {Plain("a"), DashDash} \cup FewGlobals \cup FewOptions)}
Swallowed == {<<Upload, Long("title", None), Long("json", None), Plain("a")>>}
JustUpload == {<<Upload, Plain("a")>>}
=============================================================================
