-------------------------------- MODULE BDb --------------------------------
(***************************************************************************)
(* A database connection: BDb::exec with its second attempt, ping(), which *)
(* may replace the session, and the copy of a table, which does neither.   *)
(*                                                                         *)
(* The server (PostgreSQL, external) keeps one transaction per session and *)
(* loses it with the session.  A connection can break at any moment; the   *)
(* client finds out at its next call.  What a statement has done is known  *)
(* to the server and not to the client when the answer is lost.            *)
(*                                                                         *)
(* The contents of the one table that is written (of a partial pull, the   *)
(* rows it replaces) is the sequence of the loads it holds, usually one.   *)
(***************************************************************************)
EXTENDS Integers, Sequences

VARIABLES
    conn,             \* "none": conn == 0; "dead": the session is gone; "ok"
    txn,              \* transaction of the session: none, open, failed
    committed,        \* the table as everyone sees it
    work,             \* the table as the open transaction sees it
    attempts          \* attemps_count of the exec that is running

session == <<conn, txn, work>>
bdbVars == <<session, committed, attempts>>

BDbInit ==
    /\ conn = "none" /\ txn = "none"
    /\ committed = <<0>> /\ work = <<>>
    /\ attempts = 0

\* What exec begins with: attemps_count = connected() ? 2 : 1
Attempts == IF conn' = "none" THEN 1 ELSE 2
-----------------------------------------------------------------------------
(* The server. *)

\* The effect of a statement in the session.
Effect(stmt, load) ==
    CASE stmt = "BEGIN" -> /\ txn' = "open"
                           /\ work' = IF txn = "open" THEN work ELSE committed
                           /\ UNCHANGED committed
      [] stmt = "clear" -> IF txn = "open"
                           THEN work' = <<>> /\ UNCHANGED <<committed, txn>>
                           ELSE committed' = <<>> /\ UNCHANGED <<work, txn>>
      [] stmt = "copy" ->  IF txn = "open"
                           THEN work' = Append(work, load) /\ UNCHANGED <<committed, txn>>
                           ELSE committed' = Append(committed, load) /\ UNCHANGED <<work, txn>>
      [] stmt = "COMMIT" -> /\ committed' = IF txn = "open" THEN work ELSE committed
                            /\ txn' = "none" /\ UNCHANGED work
      [] stmt = "ROLLBACK" -> txn' = "none" /\ UNCHANGED <<committed, work>>

\* The session ends, and its transaction with it, after the statement was
\* carried out or before.
EffectThenLost(stmt, load) ==
    /\ txn' = "none" /\ UNCHANGED work
    /\ \/ UNCHANGED committed
       \/ stmt = "COMMIT" /\ txn = "open" /\ committed' = work
       \/ stmt = "clear" /\ txn = "none" /\ committed' = <<>>
       \/ stmt = "copy" /\ txn = "none" /\ committed' = Append(committed, load)

\* The connection breaks while nobody uses it.
Lose ==
    /\ conn = "ok"
    /\ conn' = "dead" /\ txn' = "none"
    /\ UNCHANGED <<committed, work, attempts>>
-----------------------------------------------------------------------------
(* BDb::exec *)

\* connect() has no connection and makes one ...
Connect ==
    /\ attempts > 0 /\ conn = "none"
    /\ conn' = "ok" /\ txn' = "none"
    /\ UNCHANGED <<committed, work, attempts>>

\* ... or throws, which the loop counts as an attempt.
ConnectFails ==
    /\ attempts > 0 /\ conn = "none"
    /\ attempts' = attempts - 1
    /\ UNCHANGED <<conn, txn, committed, work>>

\* ping() on a session that answers no more, or whose transaction has
\* failed: the query disconnects, and its own second attempt connects anew,
\* or cannot, and then exec disconnects.
Reconnect == conn' \in {"ok", "none"}

\* The statement is carried out and answered.
ExecOk(stmt, load) ==
    /\ attempts > 0 /\ conn = "ok"
    /\ txn = "failed" => stmt \in {"COMMIT", "ROLLBACK"}
    /\ Effect(stmt, load)
    /\ UNCHANGED conn

\* The server refuses it; a transaction fails with it, then so does ping's
\* query.  (A COMMIT is refused in its own way, a ROLLBACK never.)
ExecRefused(stmt) ==
    /\ attempts > 0 /\ conn = "ok"
    /\ stmt \notin {"COMMIT", "ROLLBACK"}
    /\ attempts' = attempts - 1
    /\ txn' = "none"
    /\ IF txn = "none" THEN UNCHANGED conn ELSE Reconnect
    /\ UNCHANGED <<committed, work>>

\* The server refuses the COMMIT of an open transaction (a deferred
\* constraint): it rolls the work back and there is no transaction any more.
\* ping's query is answered, and the session stays for the second attempt.
CommitRefused ==
    /\ attempts > 0 /\ conn = "ok" /\ txn = "open"
    /\ attempts' = attempts - 1
    /\ txn' = "none"
    /\ UNCHANGED <<conn, committed, work>>

\* The connection breaks under the statement, or had broken before.
ExecLost(stmt, load) ==
    /\ attempts > 0
    /\ \/ conn = "ok" /\ EffectThenLost(stmt, load)
       \/ conn = "dead" /\ UNCHANGED <<txn, committed, work>>
    /\ Reconnect
    /\ attempts' = attempts - 1

\* One attempt that does not end exec; afterwards the session that ran the
\* statement is gone, or has no transaction to lose.
Attempt(stmt, load) ==
    \/ Connect \/ ConnectFails
    \/ ExecRefused(stmt) \/ ExecLost(stmt, load)
-----------------------------------------------------------------------------
(* BDb::copy_ex: COPY ... FROM STDIN in the session that is there. *)

\* Mutant: a copy whose connection broke is repeated on a new one.
Copy_Again(load) ==
    \/ /\ conn = "ok" /\ Effect("copy", load)
       /\ UNCHANGED conn
    \/ /\ conn = "dead"
       /\ conn' = "ok" /\ committed' = Append(committed, load)
       /\ UNCHANGED <<txn, work>>

Copy(load) ==
    /\ conn = "ok"
    /\ Effect("copy", load)
    /\ UNCHANGED conn

\* A row is refused, the source fails, or the callback throws: the session
\* stays, its transaction is of no use any more.
CopyRefused ==
    /\ conn = "ok"
    /\ txn' = IF txn = "open" THEN "failed" ELSE txn
    /\ UNCHANGED <<conn, committed, work>>

CopyLost(load) ==
    \/ conn = "dead" /\ UNCHANGED <<session, committed>>
    \/ /\ conn = "ok"
       /\ EffectThenLost("copy", load)
       /\ conn' = "dead"
=============================================================================
