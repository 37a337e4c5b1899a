------------------------------- MODULE Puller -------------------------------
(***************************************************************************)
(* Puller::pull: the rows of a table are replaced by those of the source   *)
(* inside a BDbTransaction on a pooled connection.  A pull that throws is  *)
(* counted as an error; the next one gets the same connection.             *)
(***************************************************************************)
EXTENDS BDb

CONSTANT MaxPulls     \* bound on pulls

ASSUME PullAssumption == MaxPulls \in Nat \ {0}

VARIABLES
    pc,               \* where pull is: a statement, or how it ended
    pull,             \* number of the pull, which is the load it copies
    before,           \* history: the table when the pull began
    broken,           \* history: the session with this pull's BEGIN is gone
    refused           \* history: the server has refused this pull's COMMIT

vars == <<bdbVars, pc, pull, before, broken, refused>>

Init ==
    /\ BDbInit
    /\ pc = "idle" /\ pull = 0
    /\ before = <<0>> /\ broken = FALSE /\ refused = FALSE

Done == {"idle", "ok", "failed"}

\* BDbTransaction::begin
Begin ==
    /\ pc \in Done /\ pull < MaxPulls
    /\ pc' = "BEGIN" /\ pull' = pull + 1
    /\ before' = committed /\ broken' = FALSE /\ refused' = FALSE
    /\ UNCHANGED <<session, committed>>
    /\ attempts' = Attempts

\* Mutant: what was thrown is forgotten once the work is rolled back.
Then_Forgets ==
    CASE pc = "BEGIN" -> "clear" [] pc = "clear" -> "copy" [] pc = "COMMIT" -> "ok"
      [] pc = "ROLLBACK" -> "ok"

\* What follows a statement that was answered.
Then ==
    CASE pc = "BEGIN" -> "clear" [] pc = "clear" -> "copy" [] pc = "COMMIT" -> "ok"
      [] pc = "ROLLBACK" -> "failed"

\* Mutant: no destructor rolls back.
Otherwise_Kept == "failed"

\* What follows a statement that exec gave up on: without a BEGIN there is
\* nothing to roll back, else ~BDbTransaction does, once.
Otherwise == IF pc \in {"BEGIN", "ROLLBACK"} THEN "failed" ELSE "ROLLBACK"

Statements == {"BEGIN", "clear", "COMMIT", "ROLLBACK"}

Answered ==
    /\ pc \in Statements
    /\ ExecOk(pc, pull)
    /\ pc' = Then
    /\ attempts' = IF pc' \in Statements THEN Attempts ELSE 0
    /\ broken' = IF pc = "BEGIN" THEN FALSE ELSE broken
    /\ UNCHANGED <<pull, before, refused>>

\* Whatever the attempt met, the session with the BEGIN of this pull is not
\* there any more.
NotAnswered ==
    /\ pc \in Statements
    /\ Attempt(pc, pull)
    /\ broken' = TRUE
    /\ UNCHANGED <<pc, pull, before, refused>>

\* The COMMIT is refused and will be repeated on the same session.
CommitNotDone ==
    /\ pc = "COMMIT"
    /\ CommitRefused
    /\ refused' = TRUE
    /\ UNCHANGED <<pc, pull, before, broken>>

Throws ==
    /\ pc \in Statements /\ attempts = 0
    /\ UNCHANGED <<session, committed>>
    /\ pc' = Otherwise
    /\ attempts' = IF pc' \in Statements THEN Attempts ELSE 0
    /\ UNCHANGED <<pull, before, broken, refused>>

Copies ==
    /\ pc = "copy"
    /\ Copy(pull)
    /\ pc' = "COMMIT" /\ attempts' = Attempts
    /\ UNCHANGED <<pull, before, broken, refused>>

\* The copy throws: a DbException, or "Application stopped" of the callback.
CopyThrows ==
    /\ pc = "copy"
    /\ \/ CopyRefused /\ UNCHANGED broken
       \/ CopyLost(pull) /\ broken' = TRUE
    /\ pc' = Otherwise
    /\ attempts' = IF pc' \in Statements THEN Attempts ELSE 0
    /\ UNCHANGED <<pull, before, refused>>

Breaks == Lose /\ broken' = TRUE /\ UNCHANGED <<pc, pull, before, refused>>

Pull == Answered \/ NotAnswered \/ CommitNotDone \/ Throws \/ Copies \/ CopyThrows

Next == Begin \/ Pull \/ Breaks

Spec == Init /\ [][Next]_vars
-----------------------------------------------------------------------------
(* Properties. *)

\* Type invariant: no statement is tried more than twice, no transaction is
\* open without a session.
TypeOK ==
    /\ conn \in {"none", "ok", "dead"} /\ txn \in {"none", "open", "failed"}
    /\ conn # "ok" => txn = "none"
    /\ attempts \in 0..2 /\ pull \in 0..MaxPulls
    /\ pc \in Statements \cup Done \cup {"copy"}
    /\ broken \in BOOLEAN /\ refused \in BOOLEAN

\* However often exec repeats a statement on a new session, outside the
\* transaction, the table never holds the rows of two loads.
NeverMixed == Len(committed) <= 1

\* As long as exec has not replaced the session that began the transaction,
\* a pull is all or nothing: the others see the old rows until it is over.
\* It reports what happened, except after a refused COMMIT: exec repeats it on
\* the same session, where there is nothing to commit any more, and the pull
\* that is then reported as done has changed nothing.
AtomicIfUnbroken ==
    ~broken /\ pc # "BEGIN" =>
        committed = IF pc = "ok" /\ ~refused THEN <<pull>> ELSE before

\* A connection goes back to the pool without a transaction, whichever
\* statement failed.
ReturnedClean == pc \in Done => txn = "none"

\* What a pull promises: no mixture, all or nothing on an unbroken session
\* (reported truly unless the COMMIT was refused), a clean connection at the
\* end.
PullSafe == NeverMixed /\ AtomicIfUnbroken /\ ReturnedClean
=============================================================================
