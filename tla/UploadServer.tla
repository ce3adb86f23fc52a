---------------------------- MODULE UploadServer ----------------------------
(***************************************************************************)
(* The upload half of the zhuzhbox API as the client meets it, taken from  *)
(* the mock server the repository tests against (tests/mock_server.py).    *)
(*                                                                         *)
(* A token is first an upload session ("open") that collects chunks, then  *)
(* a published file ("file"); a session that idles out is "gone".  Chunk   *)
(* contents are abstracted to the version of the source file the bytes     *)
(* were read from: 0 means the server never got the chunk.                 *)
(***************************************************************************)
EXTENDS Naturals

CONSTANTS
    Token,        \* upload tokens the server can hand out
    NoToken,      \* the absence of one
    NumChunks,    \* chunks of every chunked upload (totalChunks)
    MaxVersion    \* versions a source file goes through

ASSUME NoTokenAssumption == NoToken \notin Token
ASSUME NumChunksAssumption == NumChunks \in Nat \ {0}
ASSUME MaxVersionAssumption == MaxVersion \in Nat \ {0}

VARIABLES
    srv,          \* what the server knows each token as
    held,         \* version of every chunk written to a token, 0 = none
    lost          \* chunks written once that the server has since mislaid

serverVars == <<srv, held, lost>>

Chunk == 0 .. NumChunks - 1
Version == 1 .. MaxVersion

ServerTypeOK ==
    /\ srv \in [Token -> {"unused", "open", "file", "gone"}]
    /\ held \in [Token -> [Chunk -> 0 .. MaxVersion]]
    /\ lost \in [Token -> SUBSET Chunk]

ServerInit ==
    /\ srv = [t \in Token |-> "unused"]
    /\ held = [t \in Token |-> [c \in Chunk |-> 0]]
    /\ lost = [t \in Token |-> {}]

\* Every chunk ever written to t, and those the server still counts.
Stored(t) == {c \in Chunk : held[t][c] # 0}
Received(t) == Stored(t) \ lost[t]

-----------------------------------------------------------------------------
(***************************************************************************)
(* One operator per route: what serving a request does to the server, and  *)
(* the answer (an HTTP status class) it produces.                          *)
(***************************************************************************)

\* POST /v1/upload/init opens a session under a fresh token.
UploadInit(t, answer) ==
    /\ answer = "ok" /\ srv[t] = "unused"
    /\ srv' = [srv EXCEPT ![t] = "open"]
    /\ UNCHANGED <<held, lost>>

\* POST /v1/sharex stores the whole body as a file in one request.
ShareX(t, version, answer) ==
    /\ answer = "ok" /\ srv[t] = "unused"
    /\ srv' = [srv EXCEPT ![t] = "file"]
    /\ held' = [held EXCEPT ![t] = [c \in Chunk |-> version]]
    /\ UNCHANGED lost

\* PUT /v1/upload/{t}/chunk/{c}: idempotent, unknown sessions answer 404.
PutChunk(t, c, version, answer) ==
    \/ /\ srv[t] = "open" /\ answer = "ok"
       /\ held' = [held EXCEPT ![t][c] = version]
       /\ lost' = [lost EXCEPT ![t] = @ \ {c}]
       /\ UNCHANGED srv
    \/ /\ srv[t] # "open" /\ answer = "404"
       /\ UNCHANGED serverVars

\* GET /v1/upload/{t}/status
UploadStatus(t, answer) ==
    /\ answer = IF srv[t] = "open" THEN "ok" ELSE "404"
    /\ UNCHANGED serverVars

\* POST /v1/upload/{t}/complete publishes the file and ends the session.
UploadComplete(t, answer) ==
    \/ /\ srv[t] # "open" /\ answer = "404"
       /\ UNCHANGED serverVars
    \/ /\ srv[t] = "open" /\ Received(t) # Chunk /\ answer = "409"
       /\ UNCHANGED serverVars
    \/ /\ srv[t] = "open" /\ Received(t) = Chunk /\ answer = "ok"
       /\ srv' = [srv EXCEPT ![t] = "file"]
       /\ UNCHANGED <<held, lost>>

\* GET /v1/upload/{t}: the metadata of a published file.
ServeMetadata(t, answer) ==
    /\ answer = IF srv[t] = "file" THEN "ok" ELSE "404"
    /\ UNCHANGED serverVars

\* Routing: what request r does and answers; t is the token concerned.
Serve(r, t, answer) ==
    \/ r.kind = "init" /\ UploadInit(t, answer)
    \/ r.kind = "sharex" /\ ShareX(t, r.version, answer)
    \/ /\ t = r.tok
       /\ \/ r.kind = "chunk" /\ PutChunk(t, r.chunk, r.version, answer)
          \/ r.kind = "status" /\ UploadStatus(t, answer)
          \/ r.kind = "complete" /\ UploadComplete(t, answer)
          \/ r.kind = "verify" /\ ServeMetadata(t, answer)

-----------------------------------------------------------------------------
(***************************************************************************)
(* What happens on the server without a request.                           *)
(***************************************************************************)

\* A session nobody touched for the idle time is discarded.
ExpireSession(t) ==
    /\ srv[t] = "open"
    /\ srv' = [srv EXCEPT ![t] = "gone"]
    /\ UNCHANGED <<held, lost>>

\* The server mislays a chunk it acknowledged: why complete may answer 409.
LoseChunk(t, c) ==
    /\ srv[t] = "open" /\ c \in Received(t)
    /\ lost' = [lost EXCEPT ![t] = @ \cup {c}]
    /\ UNCHANGED <<srv, held>>
=============================================================================
