----------------------------- MODULE ChunkGeometry -----------------------------
(***************************************************************************)
(* How a file is cut into chunks (api/upload.c): the server names chunk     *)
(* size and number, the client checks that they add up to the file, seeks  *)
(* to a chunk, reads it piece by piece and, when the transfer starts over  *)
(* inside a request, seeks again.  UploadEngine models when a chunk is     *)
(* sent; here it is which bytes go out, in machine arithmetic.             *)
(*                                                                         *)
(* A byte is the offset that it has in the source file.                    *)
(***************************************************************************)
EXTENDS Integers, Sequences

CONSTANTS
    Word,       \* 2^64: integers wrap here
    MaxChunk,   \* 2^32: the largest chunk size the client accepts
    MaxCount,   \* 2^32: the largest number of chunks it keeps a bitmap for
    Sizes,      \* sizes of the source file
    Claims,     \* numbers that a server may name
    Wants       \* how much the transport asks for at once

ASSUME WordAssumption == Word \in Nat \ {0} /\ MaxChunk \in Nat /\ MaxCount \in Nat
ASSUME SizesAssumption == Sizes \subseteq 0..Word - 1
ASSUME WantsAssumption == Wants \subseteq Nat \ {0}
ASSUME ClaimsAssumption == Claims \subseteq 0..Word - 1

VARIABLES
    size,       \* size of the source file
    pc,         \* what the job does
    job,        \* its geometry, and the chunks it believes sent
    chunk,      \* the chunk in flight: index, length, bytes left, file position
    body,       \* what has been sent of it
    session,    \* the session in sessions.json
    srv         \* the server's session: geometry, chunks, bytes

vars == <<size, pc, job, chunk, body, session, srv>>

NoGeometry == [cs |-> 0, n |-> 0, sent |-> {}]
NoChunk == [index |-> 0, length |-> 0, left |-> 0, pos |-> 0]

\* A session of the server that has no chunk yet.
Empty(cs, n) ==
    [cs |-> cs, n |-> n, received |-> {}, blob |-> [b \in 0..size - 1 |-> -1]]

Init ==
    /\ size \in Sizes
    /\ pc = "idle" /\ job = NoGeometry /\ chunk = NoChunk /\ body = <<>>
    /\ session = NoGeometry /\ srv = Empty(0, 0)

-----------------------------------------------------------------------------
(* Arithmetic                                                               *)

Min2(x, y) == IF x < y THEN x ELSE y

\* Mutant: an empty chunk at the end passes.
SaneOneMore(cs, n) ==
    /\ cs # 0 /\ n # 0 /\ cs <= MaxChunk /\ n <= MaxCount
    /\ n <= (Word - 1) \div cs
    /\ (n * cs) % Word >= size
    /\ size > 0 => ((n - 1) * cs) % Word <= size
    /\ size = 0 => n = 1

\* job_alloc_bitmap and job_geometry_is_sane.
Sane(cs, n) ==
    /\ cs # 0 /\ n # 0 /\ cs <= MaxChunk /\ n <= MaxCount
    /\ n <= (Word - 1) \div cs
    /\ (n * cs) % Word >= size
    /\ size > 0 => ((n - 1) * cs) % Word < size
    /\ size = 0 => n = 1

Offset(g, index) == (index * g.cs) % Word

\* job_chunk_length
Length(g, index) ==
    LET offset == Offset(g, index)
    IN  IF offset >= size THEN 0 ELSE Min2(size - offset, g.cs)

Bytes(g, index) == Offset(g, index)..Offset(g, index) + Length(g, index) - 1

\* job_next_missing
NextMissing ==
    IF \A i \in 0..job.n - 1 : i \in job.sent THEN job.n
    ELSE CHOOSE i \in 0..job.n - 1 : i \notin job.sent /\ \A j \in 0..i - 1 : j \in job.sent

-----------------------------------------------------------------------------
(* The client                                                               *)

\* A run starts afresh, or takes over the session of an earlier one, whose
\* geometry nobody looks at here.
Start ==
    /\ pc = "idle"
    /\ \/ pc' = "init" /\ job' = NoGeometry
       \/ session # NoGeometry /\ pc' = "status" /\ job' = session
    /\ UNCHANGED <<size, chunk, body, session, srv>>

\* handle_init_response: the server may name any two numbers. A session that
\* is not sane is nobody's.
InitReply(cs, n) ==
    /\ pc = "init"
    /\ job' = [cs |-> cs, n |-> n, sent |-> {}]
    /\ IF Sane(cs, n)
       THEN pc' = "next" /\ session' = job' /\ srv' = Empty(cs, n)
       ELSE pc' = "failed" /\ UNCHANGED <<session, srv>>
    /\ UNCHANGED <<size, chunk, body>>

\* handle_status_response. An answer with a geometry empties the bitmap; a
\* server that has not changed it may leave it out.
StatusReply(told) ==
    LET g == IF told THEN [cs |-> srv.cs, n |-> srv.n, sent |-> {}] ELSE job
    IN  /\ pc = "status" /\ (told \/ (srv.cs = job.cs /\ srv.n = job.n))
        /\ IF told /\ ~Sane(g.cs, g.n)
           THEN pc' = "failed" /\ job' = g /\ UNCHANGED session
           ELSE /\ pc' = "next"
                /\ job' = [g EXCEPT !.sent = @ \cup {i \in srv.received : i < g.n}]
                /\ session' = job'
        /\ UNCHANGED <<size, chunk, body, srv>>

\* Mutant: a chunk is read from where the last one ended.
StartUnsought ==
    /\ pc = "next" /\ NextMissing < job.n
    /\ LET i == NextMissing
       IN  chunk' = [chunk EXCEPT !.index = i, !.length = Length(job, i), !.left = Length(job, i)]
    /\ pc' = "sending" /\ body' = <<>>
    /\ UNCHANGED <<size, job, session, srv>>

\* job_start_chunk
StartChunk ==
    /\ pc = "next" /\ NextMissing < job.n
    /\ LET i == NextMissing
       IN  chunk' = [index |-> i, length |-> Length(job, i), left |-> Length(job, i),
                     pos |-> Offset(job, i)]
    /\ pc' = "sending" /\ body' = <<>>
    /\ UNCHANGED <<size, job, session, srv>>

\* chunk_read_cb: the transport asks for up to `want` bytes.
Read(want) ==
    LET got == Min2(Min2(want, chunk.left), size - chunk.pos)
    IN  /\ pc = "sending" /\ got > 0
        /\ body' = body \o [k \in 1..got |-> chunk.pos + k - 1]
        /\ chunk' = [chunk EXCEPT !.left = @ - got, !.pos = @ + got]
        /\ UNCHANGED <<size, pc, job, session, srv>>

\* chunk_seek_cb: the transport goes back, for a redirect or a new connection.
Rewind(offset) ==
    /\ pc = "sending" /\ offset < Len(body) /\ offset <= chunk.length
    /\ body' = SubSeq(body, 1, offset)
    /\ chunk' = [chunk EXCEPT !.pos = (Offset(job, chunk.index) + offset) % Word,
                              !.left = chunk.length - offset]
    /\ UNCHANGED <<size, pc, job, session, srv>>

\* The server stores a chunk that has exactly the length it expects.
Stored ==
    LET first == chunk.index * srv.cs
    IN  [srv EXCEPT !.received = @ \cup {chunk.index},
                    !.blob = [b \in DOMAIN @ |-> IF b - first \in 0..Len(body) - 1
                                                 THEN body[b - first + 1] ELSE @[b]]]

\* The body is out: the answer arrives and the chunk is marked, or is lost.
\* A chunk of another length is refused.
ChunkAnswered ==
    /\ pc = "sending" /\ Len(body) = chunk.length
    /\ IF chunk.index < srv.n /\ Len(body) = Min2(srv.cs, size - chunk.index * srv.cs)
       THEN /\ srv' = Stored
            /\ \/ /\ job' = [job EXCEPT !.sent = @ \cup {chunk.index}]
                  /\ session' = job' /\ pc' = "next"
               \/ pc' = "next" /\ UNCHANGED <<job, session>>
       ELSE pc' = "failed" /\ UNCHANGED <<job, session, srv>>
    /\ UNCHANGED <<size, chunk, body>>

\* The connection breaks; the same chunk is tried again.
Broken ==
    /\ pc = "sending" /\ pc' = "next"
    /\ UNCHANGED <<size, job, chunk, body, session, srv>>

\* No chunk is missing. A server that disagrees sends the client back to
\* asking for the status, some rounds long.
Complete ==
    /\ pc = "next" /\ NextMissing = job.n
    /\ IF srv.received = 0..srv.n - 1
       THEN pc' = "complete" /\ session' = NoGeometry
       ELSE pc' \in {"status", "failed"} /\ UNCHANGED session
    /\ UNCHANGED <<size, job, chunk, body, srv>>

\* The process ends, for whatever reason, before the upload is complete.
Stop ==
    /\ pc \notin {"idle", "complete"} /\ pc' = "idle"
    /\ job' = NoGeometry /\ chunk' = NoChunk /\ body' = <<>>
    /\ UNCHANGED <<size, session, srv>>

\* Between two runs the server may cut the file anew; it keeps nothing.
Rechunk(cs, n) ==
    /\ pc = "idle" /\ session # NoGeometry /\ srv' = Empty(cs, n)
    /\ UNCHANGED <<size, pc, job, chunk, body, session>>

Next ==
    \/ Start \/ StartChunk \/ ChunkAnswered \/ Broken \/ Complete \/ Stop
    \/ \E cs, n \in Claims : InitReply(cs, n) \/ Rechunk(cs, n)
    \/ \E told \in BOOLEAN : StatusReply(told)
    \/ \E want \in Wants : Read(want)
    \/ \E offset \in 0..MaxChunk : Rewind(offset)

Spec == Init /\ [][Next]_vars

-----------------------------------------------------------------------------
(* Properties                                                               *)

Working == {"next", "sending", "complete"}

\* Whatever two numbers a server names and whatever wraps: once the client
\* goes on, each byte of the file lies in exactly one chunk, no chunk reaches
\* past the end, and only an empty file has an empty chunk.
Partition ==
    pc \in Working =>
        /\ \A b \in 0..size - 1 :
               \E i \in 0..job.n - 1 :
                   /\ b \in Bytes(job, i)
                   /\ \A j \in 0..job.n - 1 : b \in Bytes(job, j) => j = i
        /\ \A i \in 0..job.n - 1 :
               /\ Offset(job, i) + Length(job, i) <= size
               /\ size > 0 => Length(job, i) > 0

\* What the server holds when an upload is complete is the file: through
\* broken connections, rewinds, chunks sent twice, lost answers, restarts and
\* a server that changed the chunks in between.
WholeFile == pc = "complete" => \A b \in 0..size - 1 : srv.blob[b] = b
=============================================================================
