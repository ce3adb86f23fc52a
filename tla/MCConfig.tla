------------------------------- MODULE MCConfig -------------------------------
(* Instances of Config for TLC. *)
EXTENDS Config, TLC

Symmetry == Permutations(Proc)

Mixed == [apiHost |-> {"h1/"}, concurrency |-> {"16", "17"}]
Two == [apiHost |-> {"h1/", "h2"}, concurrency |-> {"0", "16"}, color |-> {"off", "auto"},
        bundle |-> {"on"}]
Slashes == [apiHost |-> {"h1/", "/"}, concurrency |-> {"16"}, color |-> {"off"}, bundle |-> {"on"}]

\* A setting is given in the environment, given as nothing, or not given.
Environments == {env \in [Key -> (UNION {Texts[k] : k \in Key}) \cup {None, ""}] :
                   \A k \in Key : env[k] \in Texts[k] \cup {None, ""}}

\* What `config set` is given; no key for any other command.
Requests == {<<None, None>>} \cup UNION {{k} \X Texts[k] : k \in Key}

StartsWith(envs, others) ==
    {[key |-> q[1], text |-> q[2], env |-> env, legacy |-> o[1], flag |-> o[2], noColor |-> o[3]] :
       q \in Requests, env \in envs, o \in others}

AnyEnvironment == StartsWith(Environments, {<<None, None, "unset">>})
NoEnvironment == StartsWith({[k \in Key |-> None]}, {<<None, None, "unset">>})
AnyNoColor == StartsWith(Environments, {<<None, None, c>> : c \in {"unset", "empty", "set"}})

\* Every source of the host above every other, and a variable set to nothing.
Layers ==
    LET full == [apiHost |-> "h1/", concurrency |-> "16", bundle |-> "no", color |-> ""]
    IN  StartsWith({[k \in Key |-> None], [k \in Key |-> full[k]]},
                   {<<None, None, "set">>, <<"h2", "h3/", "unset">>})
===============================================================================
