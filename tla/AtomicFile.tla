----------------------------- MODULE AtomicFile -----------------------------
(***************************************************************************)
(* What store/atomic.h promises of a file that several processes replace:  *)
(* the file holds one whole image or none, a write that reports success    *)
(* has replaced it and one that reports an error has not touched it.  A    *)
(* power loss may bring back an image that the file held since the file    *)
(* system last committed the directory, never a mixture.                   *)
(***************************************************************************)
CONSTANTS
    Writer,     \* processes that replace the file
    Image,      \* whole file contents
    Absent      \* the file does not exist

VARIABLES
    content,    \* what a reader finds
    pending,    \* the image each writer was asked to write
    outcome,    \* "none", "busy", "ok" or "error"
    revert      \* what a power loss may leave

vars == <<content, pending, outcome, revert>>

Init ==
    /\ content \in Image \cup {Absent}
    /\ pending = [w \in Writer |-> Absent]
    /\ outcome = [w \in Writer |-> "none"]
    /\ revert = {content}

Request(w, image) ==
    /\ outcome[w] # "busy"
    /\ pending' = [pending EXCEPT ![w] = image]
    /\ outcome' = [outcome EXCEPT ![w] = "busy"]
    /\ UNCHANGED <<content, revert>>

Replace(w) ==
    /\ outcome[w] = "busy"
    /\ content' = pending[w]
    /\ revert' = revert \cup {pending[w]}
    /\ pending' = [pending EXCEPT ![w] = Absent]
    /\ outcome' = [outcome EXCEPT ![w] = "ok"]

Refuse(w) ==
    /\ outcome[w] = "busy"
    /\ pending' = [pending EXCEPT ![w] = Absent]
    /\ outcome' = [outcome EXCEPT ![w] = "error"]
    /\ UNCHANGED <<content, revert>>

Die(w) ==
    /\ outcome[w] = "busy"
    /\ pending' = [pending EXCEPT ![w] = Absent]
    /\ outcome' = [outcome EXCEPT ![w] = "none"]
    /\ UNCHANGED <<content, revert>>

Commit ==
    /\ revert' = {content}
    /\ UNCHANGED <<content, pending, outcome>>

PowerLoss ==
    /\ content' \in revert
    /\ revert' = {content'}
    /\ pending' = [w \in Writer |-> Absent]
    /\ outcome' = [w \in Writer |-> "none"]

Next ==
    \/ \E w \in Writer :
        \/ \E image \in Image : Request(w, image)
        \/ Replace(w) \/ Refuse(w) \/ Die(w)
    \/ Commit
    \/ PowerLoss

Spec == Init /\ [][Next]_vars
=============================================================================
