-------------------------- MODULE ChunkGeometryProofs --------------------------
(***************************************************************************)
(* Partition and WholeFile for every word, file size and pair of numbers   *)
(* that a server names.  Partition: whatever the client works with, and    *)
(* whatever it has on disk, has passed the check; the rest is arithmetic,  *)
(* a checked geometry does not wrap, so that a byte lies in the chunk that *)
(* division by the chunk size names and in no other.  WholeFile: a chunk   *)
(* marked as sent is held by the server with the bytes of its place, in    *)
(* the layout the client and the server agree on at that time.             *)
(***************************************************************************)
EXTENDS ChunkGeometry, TLAPS, WellFoundedInduction

-----------------------------------------------------------------------------
(* Arithmetic                                                               *)

\* Division finds the chunk of a byte.
LEMMA Division ==
    ASSUME NEW b \in Nat, NEW c \in Nat \ {0}
    PROVE  b \div c \in Nat /\ (b \div c) * c <= b /\ b < (b \div c) * c + c
  OBVIOUS

\* Multiplication by a natural number keeps the order.
LEMMA TimesMonotone ==
    ASSUME NEW i \in Nat, NEW j \in Nat, NEW c \in Nat, i <= j
    PROVE  i * c <= j * c
  OBVIOUS

LEMMA TimesSuccessor ==
    ASSUME NEW i \in Nat, NEW c \in Nat
    PROVE  i * c \in Nat /\ (i + 1) * c = i * c + c
  OBVIOUS

\* A byte does not lie on both sides of a boundary.
LEMMA Squeeze ==
    ASSUME NEW b \in Int, NEW x \in Nat, NEW y \in Nat, NEW c \in Nat,
           b < x + c, x + c <= y, y <= b
    PROVE  FALSE
  OBVIOUS

\* A number below the word does not wrap.
LEMMA SmallMod ==
    ASSUME NEW x \in Nat, NEW w \in Nat, x < w
    PROVE  x % w = x
  OBVIOUS

\* In a geometry that has passed the check no offset wraps, all chunks start
\* inside the file, and together they cover it.
LEMMA SaneOffsets ==
    ASSUME size \in Nat, NEW cs \in Nat, NEW n \in Nat, Sane(cs, n)
    PROVE  /\ cs > 0 /\ n > 0
           /\ \A i \in 0..n - 1 : (i * cs) % Word = i * cs
           /\ size > 0 => \A i \in 0..n - 1 : i * cs < size
           /\ size <= n * cs
           /\ size = 0 => n = 1
  <1>1. cs > 0 /\ n > 0 /\ n <= (Word - 1) \div cs /\ Word \in Nat /\ Word - 1 \in Nat
        BY WordAssumption DEF Sane
  <1>2. n * cs \in Nat /\ n * cs < Word
    <2> DEFINE q == (Word - 1) \div cs
    <2>1. q \in Nat /\ q * cs <= Word - 1
          BY <1>1, Division
    <2> HIDE DEF q
    <2>2. n * cs <= q * cs
          BY <1>1, <2>1, TimesMonotone DEF q
    <2>3. n * cs \in Nat /\ q * cs \in Nat
          BY <2>1, TimesSuccessor
    <2> QED BY <1>1, <2>1, <2>2, <2>3
  <1>3. \A i \in 0..n : i * cs \in Nat /\ (i * cs) % Word = i * cs
    <2>1. SUFFICES ASSUME NEW i \in 0..n
                   PROVE  i * cs \in Nat /\ (i * cs) % Word = i * cs
          OBVIOUS
    <2>2. i * cs \in Nat
          BY TimesSuccessor
    <2>3. i * cs <= n * cs
          BY TimesMonotone
    <2>4. i * cs < Word
          BY <1>1, <1>2, <2>2, <2>3
    <2> QED BY <1>1, <2>2, <2>4, SmallMod
  <1>4. size <= n * cs
        BY <1>1, <1>3 DEF Sane
  <1>5. ASSUME size > 0, NEW i \in 0..n - 1 PROVE i * cs < size
    <2>1. ((n - 1) * cs) % Word < size
          BY <1>5 DEF Sane
    <2>2. n - 1 \in 0..n /\ i \in 0..n /\ i <= n - 1
          BY <1>1
    <2>3. (n - 1) * cs \in Nat /\ (n - 1) * cs < size /\ i * cs \in Nat
          BY <1>3, <2>1, <2>2
    <2>4. i * cs <= (n - 1) * cs
          BY <2>2, TimesMonotone
    <2> QED BY <2>3, <2>4
  <1>6. \A i \in 0..n - 1 : (i * cs) % Word = i * cs
        BY <1>1, <1>3
  <1>7. size = 0 => n = 1
        BY DEF Sane
  <1> QED BY <1>1, <1>4, <1>5, <1>6, <1>7

\* The chunks of a checked geometry, in plain arithmetic.
LEMMA SaneChunk ==
    ASSUME size \in Nat, NEW g, g.cs \in Nat, g.n \in Nat, Sane(g.cs, g.n),
           NEW i \in 0..g.n - 1
    PROVE  /\ Offset(g, i) = i * g.cs /\ i * g.cs \in Nat
           /\ Length(g, i) \in Nat /\ Offset(g, i) + Length(g, i) <= size
           /\ size > 0 => Length(g, i) > 0
           /\ \A b \in 0..size - 1 :
                  b \in Bytes(g, i) <=> (i * g.cs <= b /\ b < i * g.cs + g.cs)
  <1> DEFINE o == i * g.cs
             c == g.cs
  <1>1. Offset(g, i) = o
        BY SaneOffsets DEF Offset
  <1>2. o \in Nat /\ c \in Nat /\ c > 0
        BY SaneOffsets, TimesSuccessor
  <1>3. size > 0 => o < size
        BY SaneOffsets
  <1>4. Length(g, i) = IF o >= size THEN 0 ELSE Min2(size - o, c)
        BY <1>1 DEF Length
  <1>5. size = 0 => o = 0
    <2>1. size = 0 => i = 0
          BY SaneOffsets
    <2> QED BY <2>1, <1>2
  <1>6. \A b \in 0..size - 1 : b \in Bytes(g, i) <=> b \in o..o + Length(g, i) - 1
        BY <1>1 DEF Bytes
  <1> HIDE DEF o, c
  <1>7. Length(g, i) \in Nat /\ o + Length(g, i) <= size /\ (size > 0 => Length(g, i) > 0)
        BY <1>2, <1>3, <1>4, <1>5 DEF Min2
  <1>8. \A b \in 0..size - 1 : b \in o..o + Length(g, i) - 1 <=> (o <= b /\ b < o + c)
        BY <1>2, <1>3, <1>4, <1>7 DEF Min2
  <1> QED BY <1>1, <1>2, <1>6, <1>7, <1>8 DEF o, c

\* A checked geometry partitions the file.
LEMMA SanePartition ==
    ASSUME size \in Nat, NEW g, g.cs \in Nat, g.n \in Nat, Sane(g.cs, g.n)
    PROVE  /\ \A b \in 0..size - 1 :
                  \E i \in 0..g.n - 1 :
                      /\ b \in Bytes(g, i)
                      /\ \A j \in 0..g.n - 1 : b \in Bytes(g, j) => j = i
           /\ \A i \in 0..g.n - 1 :
                  /\ Offset(g, i) + Length(g, i) <= size
                  /\ size > 0 => Length(g, i) > 0
  <1> DEFINE c == g.cs
             n == g.n
  <1>1. c \in Nat \ {0} /\ n \in Nat /\ size <= n * c
        BY SaneOffsets
  <1>2. \A i \in 0..n - 1, b \in 0..size - 1 :
            b \in Bytes(g, i) <=> (i * c <= b /\ b < i * c + c)
        BY SaneChunk
  <1>3. \A i \in 0..n - 1 : Offset(g, i) + Length(g, i) <= size /\ (size > 0 => Length(g, i) > 0)
        BY SaneChunk
  <1>4. ASSUME NEW b \in 0..size - 1
        PROVE  \E i \in 0..n - 1 :
                   /\ b \in Bytes(g, i)
                   /\ \A j \in 0..n - 1 : b \in Bytes(g, j) => j = i
    <2> DEFINE i == b \div c
    <2> HIDE DEF c, n
    <2>1. i \in Nat /\ i * c <= b /\ b < i * c + c
          BY <1>1, Division
    <2> HIDE DEF i
    <2>2. i \in 0..n - 1
      <3>1. CASE n <= i
        <4>1. n * c <= i * c /\ n * c \in Nat /\ i * c \in Nat
              BY <1>1, <2>1, <3>1, TimesMonotone, TimesSuccessor
        <4> QED BY <1>1, <2>1, <4>1
      <3> QED BY <1>1, <2>1, <3>1
    <2>3. ASSUME NEW j \in 0..n - 1, b \in Bytes(g, j) PROVE j = i
      <3>1. j \in Nat /\ j * c <= b /\ b < j * c + c
            BY <1>1, <1>2, <2>3
      <3>2. /\ i * c \in Nat /\ (i + 1) * c = i * c + c
            /\ j * c \in Nat /\ (j + 1) * c = j * c + c
            BY <1>1, <2>1, <3>1, TimesSuccessor
      <3>3. CASE i + 1 <= j
        <4>1. i * c + c <= j * c
              BY <1>1, <2>1, <3>1, <3>2, <3>3, TimesMonotone
        <4> QED BY <1>1, <2>1, <3>1, <3>2, <4>1, Squeeze
      <3>4. CASE j + 1 <= i
        <4>1. j * c + c <= i * c
              BY <1>1, <2>1, <3>1, <3>2, <3>4, TimesMonotone
        <4> QED BY <1>1, <2>1, <3>1, <3>2, <4>1, Squeeze
      <3> QED BY <2>1, <3>1, <3>3, <3>4
    <2> QED BY <1>2, <2>1, <2>2, <2>3
  <1> QED BY <1>3, <1>4

-----------------------------------------------------------------------------
(* The inductive invariant                                                  *)

IsGeometry(g) == g = [cs |-> g.cs, n |-> g.n, sent |-> g.sent] /\ g.cs \in Nat /\ g.n \in Nat

IsServer(s) ==
    /\ s = [cs |-> s.cs, n |-> s.n, received |-> s.received, blob |-> s.blob]
    /\ s.cs \in Nat /\ s.n \in Nat

Checked ==
    /\ size \in Sizes
    /\ IsGeometry(job) /\ IsGeometry(session) /\ IsServer(srv)
    /\ pc \in {"status"} \cup Working => Sane(job.cs, job.n)
    /\ session # NoGeometry => Sane(session.cs, session.n)

\* Storing a chunk leaves the geometry of the server session alone.
LEMMA StoreServer ==
    ASSUME NEW s, NEW r, NEW f, IsServer(s)
    PROVE  IsServer([s EXCEPT !.received = r, !.blob = f])
  <1> DEFINE e == [s EXCEPT !.received = r, !.blob = f]
  <1>1. /\ DOMAIN e = {"cs", "n", "received", "blob"}
        /\ e.cs = s.cs /\ e.n = s.n /\ e.received = r /\ e.blob = f
        BY DEF IsServer
  <1>2. e = [x \in DOMAIN e |-> e[x]]
        OBVIOUS
  <1> HIDE DEF e
  <1>3. IsServer(e)
        BY <1>1, <1>2 DEF IsServer
  <1> QED BY <1>3 DEF e

\* The source file has a size.
LEMMA SizeNat ==
    ASSUME size \in Sizes
    PROVE  size \in Nat
  BY SizesAssumption, WordAssumption

\* The invariant holds initially, and every action keeps it.
LEMMA InitChecked == Init => Checked
  BY DEF Init, Checked, IsGeometry, IsServer, NoGeometry, Empty, Working

LEMMA StepChecked == Checked /\ [Next]_vars => Checked'
  <1>1. SUFFICES ASSUME Checked, [Next]_vars PROVE Checked'
        OBVIOUS
  <1> USE <1>1
  <1>2. CASE Start
        BY <1>2 DEF Start, Checked, IsGeometry, IsServer, NoGeometry, Working, Sane
  <1>3. ASSUME NEW cs \in Claims, NEW n \in Claims, InitReply(cs, n) PROVE Checked'
    <2>1. cs \in Nat /\ n \in Nat
          BY ClaimsAssumption, WordAssumption
    <2>2. /\ job' = [cs |-> cs, n |-> n, sent |-> {}] /\ size' = size
          /\ IsGeometry(job)' /\ job'.cs = cs /\ job'.n = n
          BY <1>3, <2>1 DEF InitReply, IsGeometry
    <2>3. CASE Sane(cs, n)
      <3>1. Sane(job.cs, job.n)'
            BY <2>2, <2>3 DEF Sane
      <3> QED BY <1>3, <2>1, <2>2, <2>3, <3>1 DEF InitReply, Checked, IsGeometry, IsServer, Empty
    <2>4. CASE ~Sane(cs, n)
      <3>1. pc' = "failed" /\ UNCHANGED <<size, session, srv>>
            BY <1>3, <2>4 DEF InitReply
      <3>2. (session # NoGeometry => Sane(session.cs, session.n))'
            BY <3>1 DEF Checked, Sane
      <3> QED BY <2>2, <3>1, <3>2 DEF Checked, IsGeometry, IsServer, Working
    <2> QED BY <2>3, <2>4
  <1>4. ASSUME NEW told \in BOOLEAN, StatusReply(told) PROVE Checked'
    <2> DEFINE g == IF told THEN [cs |-> srv.cs, n |-> srv.n, sent |-> {}] ELSE job
    <2>1. g.cs \in Nat /\ g.n \in Nat /\ IsGeometry(g)
          BY DEF Checked, IsGeometry, IsServer
    <2>2. CASE told /\ ~Sane(g.cs, g.n)
      <3>1. pc' = "failed" /\ job' = g /\ UNCHANGED <<size, session, srv>>
            BY <1>4, <2>2 DEF StatusReply
      <3>2. (session # NoGeometry => Sane(session.cs, session.n))'
            BY <3>1 DEF Checked, Sane
      <3> HIDE DEF g
      <3> QED BY <2>1, <3>1, <3>2 DEF Checked, IsGeometry, IsServer, Working
    <2>3. CASE ~(told /\ ~Sane(g.cs, g.n))
      <3>1. Sane(g.cs, g.n)
            BY <1>4, <2>3 DEF StatusReply, Checked
      <3>2. job' = [g EXCEPT !.sent = g.sent \cup {i \in srv.received : i < g.n}]
            /\ session' = job' /\ UNCHANGED <<size, srv>>
            BY <1>4, <2>3 DEF StatusReply
      <3> HIDE DEF g
      <3>3. job'.cs = g.cs /\ job'.n = g.n /\ IsGeometry(job')
            BY <2>1, <3>2 DEF IsGeometry
      <3>4. Sane(job.cs, job.n)'
            BY <3>1, <3>2, <3>3 DEF Sane
      <3> QED BY <3>2, <3>3, <3>4 DEF Checked, IsGeometry
    <2> QED BY <2>2, <2>3
  <1>5. CASE StartChunk
        BY <1>5 DEF StartChunk, Checked, IsGeometry, IsServer, Working, Sane
  <1>6. ASSUME NEW want \in Wants, Read(want) PROVE Checked'
        BY <1>6 DEF Read, Checked, IsGeometry, IsServer, Working, Sane
  <1>7. ASSUME NEW offset \in 0..MaxChunk, Rewind(offset) PROVE Checked'
        BY <1>7 DEF Rewind, Checked, IsGeometry, IsServer, Working, Sane
  <1>8. CASE ChunkAnswered
    <2>1. size' = size /\ Sane(job.cs, job.n)
          BY <1>8 DEF ChunkAnswered, Checked, Working
    <2>2. IsServer(srv)'
      <3>1. IsServer(srv) /\ (srv' = srv \/ srv' = Stored)
            BY <1>8 DEF ChunkAnswered, Checked
      <3>2. IsServer(Stored)
            BY <3>1, StoreServer DEF Stored
      <3>3. CASE srv' = srv
            BY <3>1, <3>3 DEF IsServer
      <3>4. CASE srv' = Stored
        <4> DEFINE s == Stored
        <4>1. srv' = s /\ IsServer(s)
              BY <3>2, <3>4
        <4> HIDE DEF s
        <4> QED BY <4>1 DEF IsServer
      <3> QED BY <3>1, <3>3, <3>4
    <2>3. CASE UNCHANGED <<job, session>>
      <3>1. (Sane(job.cs, job.n) /\ (session # NoGeometry => Sane(session.cs, session.n)))'
            BY <2>1, <2>3 DEF Checked, Sane
      <3> QED BY <2>1, <2>2, <2>3, <3>1 DEF Checked, IsGeometry
    <2>4. CASE job' = [job EXCEPT !.sent = job.sent \cup {chunk.index}] /\ session' = job'
      <3>1. job'.cs = job.cs /\ job'.n = job.n /\ IsGeometry(job')
            BY <2>4 DEF Checked, IsGeometry
      <3>2. Sane(job.cs, job.n)'
            BY <2>1, <3>1 DEF Sane
      <3> QED BY <2>1, <2>2, <2>4, <3>1, <3>2 DEF Checked, IsGeometry
    <2> QED BY <1>8, <2>3, <2>4 DEF ChunkAnswered
  <1>9. CASE Broken
        BY <1>9 DEF Broken, Checked, IsGeometry, IsServer, Working, Sane
  <1>10. CASE Complete
    <2>1. /\ size' = size /\ job' = job /\ srv' = srv /\ Sane(job.cs, job.n)
          /\ session' = NoGeometry \/ session' = session
          BY <1>10 DEF Complete, Checked, Working
    <2>2. (/\ size \in Sizes
           /\ IsGeometry(job) /\ IsServer(srv)
           /\ Sane(job.cs, job.n))'
          BY <2>1 DEF Checked, IsGeometry, IsServer, IsServer, Sane
    <2>3. CASE session' = NoGeometry
          BY <2>2, <2>3 DEF Checked, IsGeometry, IsServer, NoGeometry
    <2>4. CASE session' = session
      <3>1. session # NoGeometry => Sane(session.cs, session.n)'
            BY <2>1, <2>4 DEF Checked, Sane
      <3> QED BY <2>2, <2>4, <3>1 DEF Checked, IsGeometry
    <2> QED BY <2>1, <2>3, <2>4
  <1>11. CASE Stop
        BY <1>11 DEF Stop, Checked, IsGeometry, IsServer, NoGeometry, Working, Sane
  <1>12. ASSUME NEW cs \in Claims, NEW n \in Claims, Rechunk(cs, n) PROVE Checked'
    <2>1. cs \in Nat /\ n \in Nat
          BY ClaimsAssumption, WordAssumption
    <2> QED BY <1>12, <2>1 DEF Rechunk, Checked, IsGeometry, IsServer, Working, Sane, Empty
  <1>13. CASE UNCHANGED vars
        BY <1>13 DEF vars, Checked, IsGeometry, IsServer, Working, Sane
  <1> QED BY <1>2, <1>3, <1>4, <1>5, <1>6, <1>7, <1>8, <1>9, <1>10, <1>11, <1>12, <1>13 DEF Next

\* Partition: whatever sizes and numbers of chunks a server names, the chunks
\* that the client sends cut the file into disjoint pieces that cover it
\* (job_geometry_is_sane, job_chunk_length).
THEOREM ChunksPartitionFile == Spec => []Partition
  <1>1. Checked => Partition
    <2>1. SUFFICES ASSUME Checked, pc \in Working PROVE Partition
          BY DEF Partition
    <2>2. size \in Nat /\ job.cs \in Nat /\ job.n \in Nat /\ Sane(job.cs, job.n)
          BY <2>1, SizeNat DEF Checked, IsGeometry
    <2> QED BY <2>2, SanePartition DEF Partition
  <1> QED BY <1>1, InitChecked, StepChecked, PTL DEF Spec
-----------------------------------------------------------------------------
(* The bytes                                                                *)

LEMMA LeastElement ==
    ASSUME NEW T, T \subseteq Nat, T # {}
    PROVE  \E x \in T : \A y \in T : x <= y
  <1> DEFINE R == OpToRel(<, Nat)
  <1>1. \A x, y \in Nat : x < y => <<x, y>> \in R
        BY DEF OpToRel
  <1>2. IsWellFoundedOn(R, Nat)
        BY NatLessThanWellFounded
  <1> HIDE DEF R
  <1>3. PICK x \in T : \A y \in T : ~(<<y, x>> \in R)
        BY <1>2, WFMin
  <1>4. ASSUME NEW y \in T PROVE x <= y
    <2>1. x \in Nat /\ y \in Nat
          OBVIOUS
    <2>2. ~(y < x)
          BY <1>1, <1>3, <2>1
    <2> QED BY <2>1, <2>2
  <1> QED BY <1>4

\* job_next_missing finds a chunk that is missing, if there is one.
LEMMA NextMissingIndex ==
    ASSUME job.n \in Nat, NextMissing < job.n
    PROVE  NextMissing \in 0..job.n - 1
  <1> DEFINE Missing == {i \in 0..job.n - 1 : i \notin job.sent}
  <1>1. ~(\A i \in 0..job.n - 1 : i \in job.sent)
        BY DEF NextMissing
  <1>2. Missing \subseteq Nat /\ Missing # {}
        BY <1>1
  <1>3. PICK x \in Missing : \A y \in Missing : x <= y
        BY <1>2, LeastElement
  <1>4. x \in 0..job.n - 1 /\ x \notin job.sent /\ \A j \in 0..x - 1 : j \in job.sent
        BY <1>3
  <1> QED BY <1>1, <1>4 DEF NextMissing

\* Client and server agree on the chunks while the client works.
Agreed == pc \in Working => srv.cs = job.cs /\ srv.n = job.n

\* What has gone out of the chunk in flight are the bytes from its offset on,
\* and the file is at the byte after them.
IsChunk(c) == c = [index |-> c.index, length |-> c.length, left |-> c.left, pos |-> c.pos]

ChunkInFlight ==
    pc = "sending" =>
        LET first == Offset(job, chunk.index)
        IN  /\ chunk.index \in 0..job.n - 1
            /\ chunk.length = Length(job, chunk.index)
            /\ body \in Seq(Int) /\ Len(body) <= chunk.length
            /\ chunk.pos = first + Len(body) /\ chunk.left = chunk.length - Len(body)
            /\ \A k \in 1..Len(body) : body[k] = first + k - 1

\* A chunk that the server has is the file's.
StoredTrue ==
    /\ DOMAIN srv.blob = 0..size - 1
    /\ \A i \in srv.received :
        i \in 0..srv.n - 1 /\ \A b \in 0..size - 1 : b \in Bytes(srv, i) => srv.blob[b] = b

AllStored == pc = "complete" => srv.received = 0..srv.n - 1

WholeInv == Checked /\ IsChunk(chunk) /\ Agreed /\ ChunkInFlight /\ StoredTrue /\ AllStored

LEMMA InitWhole == Init => WholeInv
  <1>1. SUFFICES ASSUME Init PROVE WholeInv
        OBVIOUS
  <1>2. Checked
        BY <1>1, InitChecked
  <1>3. IsChunk(chunk)
        BY <1>1 DEF Init, NoChunk, IsChunk
  <1>4. srv.received = {} /\ DOMAIN srv.blob = 0..size - 1
        BY <1>1 DEF Init, Empty
  <1> QED BY <1>1, <1>2, <1>3, <1>4
          DEF Init, WholeInv, Agreed, ChunkInFlight, StoredTrue, AllStored, Working

\* What a step that leaves the server alone has to keep.
LEMMA ServerAlone ==
    ASSUME WholeInv, UNCHANGED <<size, srv>>
    PROVE  StoredTrue'
  BY DEF WholeInv, StoredTrue, Bytes, Offset, Length

LEMMA StartChunkWhole ==
    ASSUME WholeInv, StartChunk, Checked'
    PROVE  WholeInv'
  <1> DEFINE i == NextMissing
  <1>1. job.n \in Nat /\ job.cs \in Nat /\ size \in Nat /\ Sane(job.cs, job.n)
        BY SizeNat DEF WholeInv, Checked, IsGeometry, StartChunk, Working
  <1>2. i \in 0..job.n - 1
        BY <1>1, NextMissingIndex DEF StartChunk
  <1>3. /\ chunk' = [index |-> i, length |-> Length(job, i), left |-> Length(job, i),
                     pos |-> Offset(job, i)]
        /\ body' = <<>> /\ pc' = "sending" /\ pc = "next"
        /\ UNCHANGED <<size, job, session, srv>>
        BY DEF StartChunk
  <1> HIDE DEF i
  <1>4. Offset(job, i) \in Nat /\ Length(job, i) \in Nat
        BY <1>1, <1>2, SaneChunk
  <1>5. IsChunk(chunk)'
        BY <1>3 DEF IsChunk
  <1>6. ChunkInFlight'
    <2>1. /\ chunk'.index = i /\ chunk'.length = Length(job, i)
          /\ chunk'.left = Length(job, i) /\ chunk'.pos = Offset(job, i)
          /\ body' \in Seq(Int) /\ Len(body') = 0 /\ 1..Len(body') = {}
          BY <1>3
    <2>2. /\ Offset(job', chunk'.index) = Offset(job, i) /\ job' = job
          /\ Length(job, chunk.index)' = Length(job, i)
          BY <1>3, <2>1 DEF Offset, Length
    <2> QED BY <1>2, <1>4, <2>1, <2>2 DEF ChunkInFlight
  <1>7. Agreed' /\ AllStored'
        BY <1>3 DEF WholeInv, Agreed, AllStored, Working
  <1> QED BY <1>3, <1>5, <1>6, <1>7, ServerAlone DEF WholeInv

LEMMA BothLong ==
    ASSUME NEW s \in Seq(Int), NEW t \in Seq(Int)
    PROVE  Len(s \o t) = Len(s) + Len(t)
  OBVIOUS

\* The transport takes the next bytes of the chunk.
LEMMA ReadWhole ==
    ASSUME WholeInv, NEW want \in Wants, Read(want), Checked'
    PROVE  WholeInv'
  <1> DEFINE got == Min2(Min2(want, chunk.left), size - chunk.pos)
             first == Offset(job, chunk.index)
  <1>1. /\ pc = "sending" /\ got > 0 /\ UNCHANGED <<size, pc, job, session, srv>>
        /\ body' = body \o [k \in 1..got |-> chunk.pos + k - 1]
        /\ chunk' = [chunk EXCEPT !.left = chunk.left - got, !.pos = chunk.pos + got]
        BY DEF Read
  <1>2. job.n \in Nat /\ job.cs \in Nat /\ size \in Nat /\ Sane(job.cs, job.n)
        BY <1>1, SizeNat DEF WholeInv, Checked, IsGeometry, Working
  <1>3. /\ chunk.index \in 0..job.n - 1 /\ chunk.length = Length(job, chunk.index)
        /\ body \in Seq(Int) /\ Len(body) \in Nat /\ Len(body) <= chunk.length
        /\ chunk.pos = first + Len(body) /\ chunk.left = chunk.length - Len(body)
        /\ \A k \in 1..Len(body) : body[k] = first + k - 1
        BY <1>1 DEF WholeInv, ChunkInFlight
  <1>4. first \in Nat /\ chunk.length \in Nat
        BY <1>2, <1>3, SaneChunk
  <1> HIDE DEF first
  <1>5. got \in Nat /\ got <= chunk.left
        BY <1>1, <1>2, <1>3, <1>4, WantsAssumption DEF Min2
  <1> HIDE DEF got
  <1>6. /\ IsChunk(chunk)' /\ chunk'.index = chunk.index /\ chunk'.length = chunk.length
        /\ chunk'.left = chunk.left - got /\ chunk'.pos = chunk.pos + got
        BY <1>1 DEF WholeInv, IsChunk
  <1>7. /\ body' \in Seq(Int) /\ Len(body') = Len(body) + got
        /\ \A k \in 1..Len(body) + got : body'[k] = first + k - 1
    <2> DEFINE more == [k \in 1..got |-> chunk.pos + k - 1]
    <2>1. more \in Seq(Int) /\ Len(more) = got /\ \A k \in 1..got : more[k] = chunk.pos + k - 1
          BY <1>3, <1>4, <1>5
    <2>2. body' = body \o more
          BY <1>1
    <2> HIDE DEF more
    <2>3. body' \in Seq(Int) /\ Len(body') = Len(body) + got
      <3>1. body \in Seq(Int) /\ more \in Seq(Int) /\ Len(more) = got
            BY <1>3, <2>1
      <3>2. Len(body') = Len(body) + Len(more)
            BY <2>2, <3>1, BothLong
      <3>3. body' \in Seq(Int)
            BY <2>2, <3>1
      <3> QED BY <3>1, <3>2, <3>3
    <2>4. ASSUME NEW k \in 1..Len(body) + got PROVE body'[k] = first + k - 1
      <3>1. CASE k <= Len(body)
        <4>1. body'[k] = body[k]
              BY <1>3, <2>1, <2>2, <3>1
        <4> QED BY <1>3, <3>1, <4>1
      <3>2. CASE k > Len(body)
        <4>1. body'[k] = more[k - Len(body)] /\ k - Len(body) \in 1..got
              BY <1>3, <1>5, <2>1, <2>2, <3>2
        <4> QED BY <1>3, <1>4, <2>1, <4>1
      <3> QED BY <1>3, <1>5, <3>1, <3>2
    <2> QED BY <2>3, <2>4
  <1>8. /\ Offset(job', chunk'.index) = first
        /\ Length(job, chunk.index)' = Length(job, chunk.index)
        BY <1>1, <1>6 DEF Offset, Length, first
  <1>9. ChunkInFlight'
    <2>1. /\ chunk'.index \in 0..job'.n - 1
          /\ chunk'.length = Length(job, chunk.index)'
          /\ Len(body') <= chunk'.length
          /\ chunk'.pos = first + Len(body') /\ chunk'.left = chunk'.length - Len(body')
          BY <1>1, <1>3, <1>4, <1>5, <1>6, <1>7, <1>8
    <2> QED BY <1>7, <1>8, <2>1 DEF ChunkInFlight
  <1>10. Agreed' /\ AllStored'
        BY <1>1 DEF WholeInv, Agreed, AllStored, Working
  <1> QED BY <1>1, <1>6, <1>9, <1>10, ServerAlone DEF WholeInv

\* A prefix of a sequence of integers has its length and its elements.
LEMMA Prefix ==
    ASSUME NEW s \in Seq(Int), NEW m \in 0..Len(s)
    PROVE  /\ SubSeq(s, 1, m) \in Seq(Int) /\ Len(SubSeq(s, 1, m)) = m
           /\ \A k \in 1..m : SubSeq(s, 1, m)[k] = s[k]
  OBVIOUS

\* The transport goes back: the seek is relative to the chunk's own offset.
LEMMA RewindWhole ==
    ASSUME WholeInv, NEW offset \in 0..MaxChunk, Rewind(offset), Checked'
    PROVE  WholeInv'
  <1> DEFINE first == Offset(job, chunk.index)
  <1>1. /\ pc = "sending" /\ offset < Len(body) /\ UNCHANGED <<size, pc, job, session, srv>>
        /\ body' = SubSeq(body, 1, offset)
        /\ chunk' = [chunk EXCEPT !.pos = (first + offset) % Word, !.left = chunk.length - offset]
        BY DEF Rewind
  <1>2. /\ job.n \in Nat /\ job.cs \in Nat /\ size \in Nat /\ size < Word /\ Word \in Nat
        /\ Sane(job.cs, job.n) /\ offset \in Nat
        BY <1>1, SizeNat, SizesAssumption, WordAssumption DEF WholeInv, Checked, IsGeometry, Working
  <1>3. /\ chunk.index \in 0..job.n - 1 /\ chunk.length = Length(job, chunk.index)
        /\ body \in Seq(Int) /\ Len(body) \in Nat /\ Len(body) <= chunk.length
        /\ \A k \in 1..Len(body) : body[k] = first + k - 1
        BY <1>1 DEF WholeInv, ChunkInFlight
  <1>4. first \in Nat /\ chunk.length \in Nat /\ first + chunk.length <= size
        BY <1>2, <1>3, SaneChunk
  <1> HIDE DEF first
  <1>5. first + offset \in Nat /\ first + offset < Word
        BY <1>1, <1>2, <1>3, <1>4
  <1>6. (first + offset) % Word = first + offset
        BY <1>2, <1>5, SmallMod
  <1>7. /\ IsChunk(chunk)' /\ chunk'.index = chunk.index /\ chunk'.length = chunk.length
        /\ chunk'.left = chunk.length - offset /\ chunk'.pos = first + offset
        BY <1>1, <1>6 DEF WholeInv, IsChunk
  <1>8. /\ body' \in Seq(Int) /\ Len(body') = offset
        /\ \A k \in 1..offset : body'[k] = first + k - 1
    <2>1. offset \in 0..Len(body) /\ (\A k \in 1..Len(body) : body[k] = first + k - 1)
          BY <1>1, <1>2, <1>3
    <2>2. body' \in Seq(Int) /\ Len(body') = offset /\ \A k \in 1..offset : body'[k] = body[k]
      <3>1. body' = SubSeq(body, 1, offset)
            BY <1>1
      <3> QED BY <1>3, <2>1, <3>1, Prefix
    <2>3. ASSUME NEW k \in 1..offset PROVE body'[k] = first + k - 1
      <3>1. k \in 1..Len(body)
            BY <2>1
      <3> QED BY <2>1, <2>2, <3>1
    <2> QED BY <2>2, <2>3
  <1>9. /\ Offset(job', chunk'.index) = first
        /\ Length(job, chunk.index)' = Length(job, chunk.index)
        BY <1>1, <1>7 DEF Offset, Length, first
  <1>10. ChunkInFlight'
    <2>1. /\ chunk'.index \in 0..job'.n - 1
          /\ chunk'.length = Length(job, chunk.index)'
          /\ Len(body') <= chunk'.length
          /\ chunk'.pos = first + Len(body') /\ chunk'.left = chunk'.length - Len(body')
      <3>1. job' = job /\ offset <= chunk.length
        <4>1. job' = job
              BY <1>1
        <4>2. offset < Len(body) /\ Len(body) <= chunk.length /\ Len(body) \in Nat
              BY <1>1, <1>3
        <4>3. offset \in Nat /\ chunk.length \in Nat
              BY <1>2, <1>4
        <4> QED BY <4>1, <4>2, <4>3
      <3>2. chunk'.index \in 0..job'.n - 1
            BY <1>3, <1>7, <3>1
      <3>3. chunk'.length = Length(job, chunk.index)'
            BY <1>3, <1>7, <1>9
      <3>4. Len(body') = offset
            BY <1>8
      <3>5. Len(body') <= chunk'.length
            BY <1>7, <3>1, <3>4
      <3>6. chunk'.pos = first + Len(body') /\ chunk'.left = chunk'.length - Len(body')
            BY <1>7, <3>4
      <3> QED BY <3>2, <3>3, <3>5, <3>6
    <2> QED BY <1>8, <1>9, <2>1 DEF ChunkInFlight
  <1>11. Agreed' /\ AllStored'
        BY <1>1 DEF WholeInv, Agreed, AllStored, Working
  <1> QED BY <1>1, <1>7, <1>10, <1>11, ServerAlone DEF WholeInv

\* The server puts the body where it belongs: each byte to its own place.
LEMMA StoreTrue ==
    ASSUME WholeInv, pc = "sending", Len(body) = chunk.length, srv' = Stored, size' = size
    PROVE  StoredTrue'
  <1> DEFINE first == Offset(job, chunk.index)
             blob == [b \in DOMAIN srv.blob |-> IF b - first \in 0..Len(body) - 1
                                                THEN body[b - first + 1] ELSE srv.blob[b]]
  <1>1. /\ job.n \in Nat /\ job.cs \in Nat /\ size \in Nat
        /\ Sane(job.cs, job.n) /\ srv.cs = job.cs /\ srv.n = job.n
        BY SizeNat DEF WholeInv, Checked, IsGeometry, Agreed, Working
  <1>2. /\ chunk.index \in 0..job.n - 1 /\ chunk.length = Length(job, chunk.index)
        /\ \A k \in 1..Len(body) : body[k] = first + k - 1
        BY DEF WholeInv, ChunkInFlight
  <1>3. first = chunk.index * srv.cs /\ first \in Nat /\ Len(body) \in Nat
        BY <1>1, <1>2, SaneChunk
  <1>4. srv' = [srv EXCEPT !.received = srv.received \cup {chunk.index}, !.blob = blob]
        BY <1>3 DEF Stored
  <1>5. /\ srv'.received = srv.received \cup {chunk.index} /\ srv'.blob = blob
        /\ srv'.cs = srv.cs /\ srv'.n = srv.n
        BY <1>4 DEF WholeInv, Checked, IsServer
  <1>6. \A i \in 0..srv.n - 1 : Bytes(srv, i)' = Bytes(srv, i)
        BY <1>5 DEF Bytes, Offset, Length
  <1>7. Bytes(srv, chunk.index) = first..first + Len(body) - 1
        BY <1>1, <1>2 DEF Bytes, Offset, Length
  <1>8. DOMAIN srv.blob = 0..size - 1
        BY DEF WholeInv, StoredTrue
  <1> HIDE DEF first
  <1>9. ASSUME NEW b \in 0..size - 1 PROVE blob[b] = b \/ blob[b] = srv.blob[b]
    <2>1. CASE b - first \in 0..Len(body) - 1
      <3>1. blob[b] = body[b - first + 1] /\ b - first + 1 \in 1..Len(body)
            BY <1>3, <1>8, <2>1
      <3> QED BY <1>2, <1>3, <3>1
    <2>2. CASE ~(b - first \in 0..Len(body) - 1)
          BY <1>8, <2>2
    <2> QED BY <2>1, <2>2
  <1>10. ASSUME NEW b \in 0..size - 1, b \in first..first + Len(body) - 1 PROVE blob[b] = b
    <2>1. b - first \in 0..Len(body) - 1
          BY <1>3, <1>10
    <2>2. blob[b] = body[b - first + 1] /\ b - first + 1 \in 1..Len(body)
          BY <1>3, <1>8, <2>1
    <2> QED BY <1>2, <1>3, <2>2
  <1>11. DOMAIN blob = 0..size - 1
        BY <1>8
  <1> HIDE DEF blob
  <1>12. ASSUME NEW i \in srv.received \cup {chunk.index}
         PROVE  i \in 0..srv.n - 1 /\ \A b \in 0..size - 1 : b \in Bytes(srv, i) => blob[b] = b
    <2>1. CASE i = chunk.index
          BY <1>1, <1>2, <1>7, <1>10, <2>1
    <2>2. CASE i \in srv.received
      <3>1. i \in 0..srv.n - 1 /\ \A b \in 0..size - 1 : b \in Bytes(srv, i) => srv.blob[b] = b
            BY <2>2 DEF WholeInv, StoredTrue
      <3> QED BY <1>9, <3>1
    <2> QED BY <2>1, <2>2
  <1> QED BY <1>5, <1>6, <1>11, <1>12 DEF StoredTrue

LEMMA AnsweredWhole ==
    ASSUME WholeInv, ChunkAnswered, Checked'
    PROVE  WholeInv'
  <1>1. /\ pc = "sending" /\ Len(body) = chunk.length /\ pc' \in {"next", "failed"}
        /\ UNCHANGED <<size, chunk, body>> /\ (srv' = srv \/ srv' = Stored)
        /\ job' = job \/ job' = [job EXCEPT !.sent = job.sent \cup {chunk.index}]
        BY DEF ChunkAnswered
  <1>2. StoredTrue'
        BY <1>1, StoreTrue, ServerAlone
  <1>3. job'.cs = job.cs /\ job'.n = job.n
        BY <1>1 DEF WholeInv, Checked, IsGeometry
  <1>4. srv'.cs = srv.cs /\ srv'.n = srv.n
    <2>1. IsServer(srv)
          BY DEF WholeInv, Checked
    <2>2. Stored.cs = srv.cs /\ Stored.n = srv.n
          BY <2>1 DEF Stored, IsServer
    <2> QED BY <1>1, <2>2
  <1>5. Agreed' /\ ChunkInFlight' /\ AllStored'
        BY <1>1, <1>3, <1>4 DEF WholeInv, Agreed, ChunkInFlight, AllStored, Working
  <1>6. IsChunk(chunk)'
        BY <1>1 DEF WholeInv, IsChunk
  <1> QED BY <1>2, <1>5, <1>6 DEF WholeInv

\* A session that begins, or begins again, has nothing to be wrong about.
LEMMA EmptyTrue ==
    ASSUME NEW cs, NEW n, srv' = Empty(cs, n), size' = size
    PROVE  StoredTrue'
  <1>1. srv'.received = {} /\ srv'.blob = [b \in 0..size - 1 |-> -1]
        BY DEF Empty
  <1>2. DOMAIN srv'.blob = 0..size - 1
        BY <1>1
  <1> QED BY <1>1, <1>2 DEF StoredTrue

LEMMA InitReplyWhole ==
    ASSUME WholeInv, NEW cs \in Claims, NEW n \in Claims, InitReply(cs, n), Checked'
    PROVE  WholeInv'
  <1>1. /\ job' = [cs |-> cs, n |-> n, sent |-> {}] /\ UNCHANGED <<size, chunk, body>>
        /\ \/ pc' = "next" /\ srv' = Empty(cs, n)
           \/ pc' = "failed" /\ srv' = srv
        BY DEF InitReply
  <1>2. StoredTrue'
        BY <1>1, EmptyTrue, ServerAlone
  <1>3. srv' = Empty(cs, n) => srv'.cs = job'.cs /\ srv'.n = job'.n
        BY <1>1 DEF Empty
  <1>4. Agreed' /\ ChunkInFlight' /\ AllStored' /\ IsChunk(chunk)'
        BY <1>1, <1>3 DEF WholeInv, Agreed, ChunkInFlight, AllStored, IsChunk, Working
  <1> QED BY <1>2, <1>4 DEF WholeInv

LEMMA StatusReplyWhole ==
    ASSUME WholeInv, NEW told \in BOOLEAN, StatusReply(told), Checked'
    PROVE  WholeInv'
  <1> DEFINE g == IF told THEN [cs |-> srv.cs, n |-> srv.n, sent |-> {}] ELSE job
  <1>1. /\ UNCHANGED <<size, chunk, body, srv>>
        /\ told \/ (srv.cs = job.cs /\ srv.n = job.n)
        /\ \/ pc' = "failed"
           \/ pc' = "next"
              /\ job' = [g EXCEPT !.sent = g.sent \cup {i \in srv.received : i < g.n}]
        BY DEF StatusReply
  <1>2. IsGeometry(g) /\ g.cs = srv.cs /\ g.n = srv.n
        BY <1>1 DEF WholeInv, Checked, IsGeometry, IsServer
  <1> HIDE DEF g
  <1>3. pc' = "next" => job'.cs = srv.cs /\ job'.n = srv.n
        BY <1>1, <1>2 DEF IsGeometry
  <1>4. Agreed' /\ ChunkInFlight' /\ AllStored' /\ IsChunk(chunk)'
        BY <1>1, <1>3 DEF WholeInv, Agreed, ChunkInFlight, AllStored, IsChunk, Working
  <1> QED BY <1>1, <1>4, ServerAlone DEF WholeInv

LEMMA NextWhole == WholeInv /\ [Next]_vars => WholeInv'
  <1>1. SUFFICES ASSUME WholeInv, [Next]_vars PROVE WholeInv'
        OBVIOUS
  <1>2. Checked'
        BY <1>1, StepChecked DEF WholeInv
  <1>3. CASE Start
    <2>1. pc' \in {"init", "status"} /\ UNCHANGED <<size, chunk, body, srv>>
          BY <1>3 DEF Start
    <2>2. Agreed' /\ ChunkInFlight' /\ AllStored' /\ IsChunk(chunk)'
          BY <1>1, <2>1 DEF WholeInv, Agreed, ChunkInFlight, AllStored, IsChunk, Working
    <2> QED BY <1>1, <1>2, <2>1, <2>2, ServerAlone DEF WholeInv
  <1>4. CASE Broken
    <2>1. pc = "sending" /\ pc' = "next" /\ UNCHANGED <<size, job, chunk, body, srv>>
          BY <1>4 DEF Broken
    <2>2. Agreed' /\ ChunkInFlight' /\ AllStored' /\ IsChunk(chunk)'
          BY <1>1, <2>1 DEF WholeInv, Agreed, ChunkInFlight, AllStored, IsChunk, Working
    <2> QED BY <1>1, <1>2, <2>1, <2>2, ServerAlone DEF WholeInv
  <1>5. CASE Complete
    <2>1. /\ pc = "next" /\ UNCHANGED <<size, job, chunk, body, srv>>
          /\ pc' \in {"complete", "status", "failed"}
          /\ pc' = "complete" => srv.received = 0..srv.n - 1
          BY <1>5 DEF Complete
    <2>2. Agreed' /\ ChunkInFlight' /\ AllStored' /\ IsChunk(chunk)'
          BY <1>1, <2>1 DEF WholeInv, Agreed, ChunkInFlight, AllStored, IsChunk, Working
    <2> QED BY <1>1, <1>2, <2>1, <2>2, ServerAlone DEF WholeInv
  <1>6. CASE Stop
    <2>1. pc' = "idle" /\ chunk' = NoChunk /\ UNCHANGED <<size, srv>>
          BY <1>6 DEF Stop
    <2>2. Agreed' /\ ChunkInFlight' /\ AllStored' /\ IsChunk(chunk)'
          BY <2>1 DEF Agreed, ChunkInFlight, AllStored, IsChunk, NoChunk, Working
    <2> QED BY <1>1, <1>2, <2>1, <2>2, ServerAlone DEF WholeInv
  <1>7. ASSUME NEW cs \in Claims, NEW n \in Claims, Rechunk(cs, n) PROVE WholeInv'
    <2>1. pc = "idle" /\ pc' = "idle" /\ srv' = Empty(cs, n) /\ UNCHANGED <<size, job, chunk, body>>
          BY <1>7 DEF Rechunk
    <2>2. Agreed' /\ ChunkInFlight' /\ AllStored' /\ IsChunk(chunk)'
          BY <1>1, <2>1 DEF WholeInv, Agreed, ChunkInFlight, AllStored, IsChunk, Working
    <2> QED BY <1>2, <2>1, <2>2, EmptyTrue DEF WholeInv
  <1>8. CASE UNCHANGED vars
    <2>1. UNCHANGED <<size, pc, job, chunk, body, srv>>
          BY <1>8 DEF vars
    <2>2. Agreed' /\ AllStored' /\ IsChunk(chunk)'
          BY <1>1, <2>1 DEF WholeInv, Agreed, AllStored, IsChunk, Working
    <2>3. ChunkInFlight'
          BY <1>1, <2>1 DEF WholeInv, ChunkInFlight, Offset, Length
    <2> QED BY <1>1, <1>2, <2>1, <2>2, <2>3, ServerAlone DEF WholeInv
  <1> QED BY <1>1, <1>2, <1>3, <1>4, <1>5, <1>6, <1>7, <1>8, StartChunkWhole, ReadWhole, RewindWhole,
             AnsweredWhole, InitReplyWhole, StatusReplyWhole DEF Next

\* For every file and every pair of numbers a server names, through rewinds,
\* broken connections, chunks sent twice, lost answers, restarts and a server
\* that cuts the file anew: what it holds at the end is the file
\* (chunk_read_cb, chunk_seek_cb, job_start_chunk).
THEOREM UploadIsTheFile == Spec => []WholeFile
  <1>1. ASSUME WholeInv, pc = "complete", NEW b \in 0..size - 1
        PROVE  srv.blob[b] = b
    <2>1. /\ size \in Nat /\ job.cs \in Nat /\ job.n \in Nat /\ Sane(job.cs, job.n)
          /\ srv.cs = job.cs /\ srv.n = job.n
          BY <1>1, SizeNat DEF WholeInv, Checked, IsGeometry, Agreed, Working
    <2>2. PICK i \in 0..job.n - 1 : b \in Bytes(job, i)
          BY <2>1, SanePartition
    <2>3. Bytes(srv, i) = Bytes(job, i)
          BY <2>1 DEF Bytes, Offset, Length
    <2>4. i \in srv.received
          BY <1>1, <2>1 DEF WholeInv, AllStored
    <2> QED BY <1>1, <2>2, <2>3, <2>4 DEF WholeInv, StoredTrue
  <1>2. WholeInv => WholeFile
        BY <1>1 DEF WholeFile
  <1> QED BY <1>2, InitWhole, NextWhole, PTL DEF Spec

=============================================================================
