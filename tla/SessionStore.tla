---------------------------- MODULE SessionStore ----------------------------
(***************************************************************************)
(* store/sessions.c as operators on its value: the table of unfinished     *)
(* uploads, keyed by upload token.  The order of the records in the file   *)
(* is abstracted, so a lookup that could match several records may return  *)
(* any of them.  `stamp` stands for the (size, mtime) pair that tells one  *)
(* version of a source file from another, `old` for a record last written  *)
(* more than the session TTL ago.                                          *)
(***************************************************************************)
CONSTANTS
    Token,        \* upload tokens
    File,         \* source paths
    NoSession     \* the absence of a record

SessionOf(file, stamp, sent, dtok) ==
    [file |-> file, stamp |-> stamp, sent |-> sent, dtok |-> dtok,
     old |-> FALSE]

NoSessions == [t \in Token |-> NoSession]

SessionTokens(table) == {t \in Token : table[t] # NoSession}

\* zb_sessions_find_source: path, size and mtime all have to match.
FindSource(table, file, stamp) ==
    {t \in SessionTokens(table) :
        table[t].file = file /\ table[t].stamp = stamp}

\* zb_sessions_put: insert, or replace the record with the same token.
Put(table, t, session) == [table EXCEPT ![t] = session]

\* zb_sessions_remove
Remove(table, t) == [table EXCEPT ![t] = NoSession]

\* zb_sessions_prune_stale
PruneStale(table) ==
    [t \in Token |-> IF table[t] # NoSession /\ table[t].old
                     THEN NoSession ELSE table[t]]

\* The wall clock moves past the session TTL for every record in the file.
Age(table) ==
    [t \in Token |-> IF table[t] # NoSession
                     THEN [table[t] EXCEPT !.old = TRUE] ELSE NoSession]
=============================================================================
