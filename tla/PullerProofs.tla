---------------------------- MODULE PullerProofs ----------------------------
(***************************************************************************)
(* Proofs about Puller and Sync: for any number of pulls and any pattern   *)
(* of broken connections and refused statements, a pull keeps its promise, *)
(* alone and in the worker; and however manager and worker interleave, the *)
(* worker's counters come to rest at the truth.                            *)
(***************************************************************************)
EXTENDS Sync, SequenceTheorems, TLAPS

Loads == Seq(Nat)

Types ==
    /\ TypeOK
    /\ committed \in Loads /\ work \in Loads /\ before \in Loads

\* A transaction is open only between BEGIN and the end of the pull, and one
\* that failed can only be rolled back.  A statement that exec has given up
\* on has met the end of its transaction.
TxnInv ==
    /\ pc \in Done \cup {"BEGIN"} => txn = "none"
    /\ txn = "failed" => pc = "ROLLBACK"
    /\ attempts > 0 => pc \in Statements
    /\ pc \in Statements /\ attempts = 0 => txn = "none"

\* Whoever copies has cleared what he copies into: the transaction's view of
\* the table, or the table itself after the session was replaced.
RoomInv ==
    /\ Len(committed) <= 1
    /\ txn = "open" => Len(work) <= 1
    /\ pc = "copy" /\ txn = "open" => work = <<>>
    /\ pc = "copy" /\ txn = "none" /\ conn = "ok" => committed = <<>>

\* In the session that began the transaction nothing is visible outside it,
\* and what COMMIT will publish is the load of this pull, or nothing once it
\* was refused.
UnbrokenInv ==
    /\ pc \in {"BEGIN", "idle"} => committed = before
    /\ refused => pc \in {"COMMIT", "ROLLBACK", "ok", "failed"}
    /\ ~broken /\ pc \in {"clear", "copy"} => txn = "open"
    /\ ~broken /\ pc = "COMMIT" /\ ~refused => txn = "open" /\ work = <<pull>>
    /\ ~broken /\ pc = "COMMIT" /\ refused => txn = "none"

IInv == Types /\ TxnInv /\ RoomInv /\ UnbrokenInv /\ AtomicIfUnbroken

USE DEF Loads

\* What exec changes of the table and the transaction, whatever it meets:
\* the types stay right.
LEMMA StepTypes == ASSUME Types, TxnInv, PullAssumption, Next PROVE Types'
<1> USE PullAssumption DEF Types, TypeOK, session, bdbVars, Statements, Done
<1> <<>> \in Seq(Nat)
  OBVIOUS
<1> pull \in Nat /\ Append(committed, pull) \in Seq(Nat) /\ Append(work, pull) \in Seq(Nat)
  OBVIOUS
<1>1. CASE Begin
  <2>1. conn' = conn /\ txn' = txn /\ work' = work /\ committed' = committed
    BY <1>1 DEF Begin
  <2>2. attempts' \in 0..2
    BY <1>1 DEF Begin, Attempts
  <2>3. pull' \in 0..MaxPulls
    BY <1>1 DEF Begin
  <2>4. broken' \in BOOLEAN /\ refused' \in BOOLEAN /\ pc' = "BEGIN" /\ before' = committed
    BY <1>1 DEF Begin
  <2> QED
    BY <2>1, <2>2, <2>3, <2>4
<1>2. CASE Answered
  <2>1. committed' \in Seq(Nat) /\ work' \in Seq(Nat) /\ txn' \in {"none", "open", "failed"}
    BY <1>2 DEF Answered, ExecOk, Effect
  <2>2. pc' \in {"clear", "copy", "ok", "failed"}
    BY <1>2 DEF Answered, Then
  <2>3. conn' = "ok" /\ attempts' \in 0..2
    BY <1>2 DEF Answered, ExecOk, Attempts
  <2>4. pull' = pull /\ before' = before /\ broken' \in BOOLEAN /\ refused' = refused
    BY <1>2 DEF Answered
  <2> QED
    BY <2>1, <2>2, <2>3, <2>4
<1>3. CASE NotAnswered
  <2> /\ pc' = pc /\ pull' = pull /\ before' = before /\ broken' = TRUE /\ refused' = refused
      /\ Attempt(pc, pull)
    BY <1>3 DEF NotAnswered
  <2>1. CASE Connect
    BY <2>1 DEF Connect
  <2>2. CASE ConnectFails
    BY <2>2 DEF ConnectFails
  <2>3. CASE ExecRefused(pc)
    BY <2>3 DEF ExecRefused, Reconnect
  <2>4. CASE ExecLost(pc, pull)
    <3>1. attempts' \in 0..2 /\ conn' \in {"ok", "none"} /\ txn' = "none" /\ work' = work
      BY <2>4 DEF ExecLost, Reconnect, EffectThenLost
    <3>2. committed' \in Seq(Nat)
      BY <2>4 DEF ExecLost, EffectThenLost
    <3> QED
      BY <3>1, <3>2
  <2> QED
    BY <2>1, <2>2, <2>3, <2>4 DEF Attempt
<1>4. CASE Throws
  BY <1>4 DEF Throws, Otherwise, Attempts
<1>5. CASE Copies
  <2>1. committed' \in Seq(Nat) /\ work' \in Seq(Nat) /\ txn' = txn /\ conn' = "ok"
    BY <1>5 DEF Copies, Copy, Effect
  <2>2. /\ attempts' \in 0..2 /\ pc' = "COMMIT" /\ pull' = pull /\ before' = before
        /\ broken' = broken /\ refused' = refused
    BY <1>5 DEF Copies, Attempts
  <2> QED
    BY <1>5, <2>1, <2>2 DEF Copies, Copy
<1>6. CASE CopyThrows
  <2> /\ pull' = pull /\ before' = before /\ refused' = refused
      /\ pc' = "ROLLBACK" /\ attempts' = Attempts
    BY <1>6 DEF CopyThrows, Otherwise
  <2>1. CASE CopyRefused /\ UNCHANGED broken
    BY <2>1 DEF CopyRefused, Attempts
  <2>2. CASE CopyLost(pull) /\ broken' = TRUE
    <3>1. txn' = "none" /\ work' = work /\ conn' = "dead" /\ attempts' \in 0..2
      BY <2>2 DEF CopyLost, EffectThenLost, Attempts
    <3>2. committed' \in Seq(Nat)
      BY <2>2 DEF CopyLost, EffectThenLost
    <3> QED
      BY <2>2, <3>1, <3>2
  <2> QED
    BY <1>6, <2>1, <2>2 DEF CopyThrows
<1>7. CASE Breaks
  BY <1>7 DEF Breaks, Lose
<1>8. CASE CommitNotDone
  BY <1>8 DEF CommitNotDone, CommitRefused
<1> QED
  BY <1>1, <1>2, <1>3, <1>4, <1>5, <1>6, <1>7, <1>8 DEF Next, Pull

-----------------------------------------------------------------------------
(* What an attempt that is not answered leaves behind. *)

\* Whatever an attempt of exec meets, afterwards there is no transaction: it
\* was refused in none or ended with its session.  The table has changed
\* only by the statement itself.
LEMMA AttemptFacts ==
    ASSUME Types, TxnInv, NotAnswered
    PROVE  /\ txn' = "none" /\ work' = work
           /\ pc' = pc /\ pull' = pull /\ before' = before
           /\ pc \in Statements /\ attempts > 0
           /\ \/ committed' = committed
              \/ pc = "COMMIT" /\ txn = "open" /\ committed' = work
              \/ pc = "clear" /\ committed' = <<>>
<1> USE DEF Types, TypeOK, Statements, Done
<1> Attempt(pc, pull) /\ pc' = pc /\ pull' = pull /\ before' = before /\ pc \in Statements
  BY DEF NotAnswered
<1>1. CASE Connect
  BY <1>1 DEF Connect
<1>2. CASE ConnectFails
  BY <1>2 DEF ConnectFails
<1>3. CASE ExecRefused(pc)
  BY <1>3 DEF ExecRefused
<1>4. CASE ExecLost(pc, pull)
  BY <1>4 DEF ExecLost, EffectThenLost
<1> QED
  BY <1>1, <1>2, <1>3, <1>4 DEF Attempt

\* A copy that throws leaves the table alone, or has filled it when the
\* session, a new one, was outside any transaction.
LEMMA CopyThrowsFacts ==
    ASSUME Types, TxnInv, CopyThrows
    PROVE  /\ pc = "copy" /\ pc' = "ROLLBACK" /\ attempts' \in 1..2
           /\ txn' = "open" => txn = "open"
           /\ work' = work /\ pull' = pull /\ before' = before
           /\ \/ committed' = committed
              \/ broken' /\ conn = "ok" /\ txn = "none" /\ committed' = Append(committed, pull)
<1> USE DEF Types, TypeOK, session
<1> /\ pull' = pull /\ before' = before /\ pc = "copy"
    /\ pc' = "ROLLBACK" /\ attempts' = Attempts
  BY DEF CopyThrows, Otherwise, Statements
<1> attempts' \in 1..2
  BY DEF Attempts
<1>1. CASE CopyRefused /\ UNCHANGED broken
  BY <1>1 DEF CopyRefused
<1>2. CASE CopyLost(pull) /\ broken' = TRUE
  BY <1>2 DEF CopyLost, EffectThenLost
<1> QED
  BY <1>1, <1>2 DEF CopyThrows

-----------------------------------------------------------------------------
(* The invariant is preserved. *)

\* TxnInv: begun by BEGIN only, over before the connection is given back.
LEMMA StepTxn == ASSUME Types, TxnInv, PullAssumption, Next PROVE TxnInv'
<1> USE DEF TxnInv, Statements, Done
<1> attempts \in 0..2 /\ conn \in {"none", "ok", "dead"} /\ txn \in {"none", "open", "failed"}
  BY DEF Types, TypeOK
<1>1. CASE Begin
  <2>1. attempts' \in 1..2 /\ pc' = "BEGIN" /\ txn' = txn /\ pc \in Done
    BY <1>1 DEF Begin, Attempts, session
  <2> QED
    BY <2>1
<1>2. CASE Answered
  <2>1. pc \in Statements /\ pc' = Then
        /\ Effect(pc, pull) /\ (txn = "failed" => pc \in {"COMMIT", "ROLLBACK"})
    BY <1>2 DEF Answered, ExecOk
  <2>2. /\ pc = "BEGIN" => pc' = "clear" /\ txn' = "open"
        /\ pc = "clear" => pc' = "copy" /\ txn' = txn
        /\ pc = "COMMIT" => pc' = "ok" /\ txn' = "none"
        /\ pc = "ROLLBACK" => pc' = "failed" /\ txn' = "none"
    BY <2>1 DEF Then, Effect
  <2>3. attempts' = IF pc' \in Statements THEN Attempts ELSE 0
    BY <1>2 DEF Answered
  <2>4. Attempts \in 1..2
    BY DEF Attempts
  <2> QED
    BY <2>1, <2>2, <2>3, <2>4
<1>3. CASE NotAnswered
  BY <1>3, AttemptFacts
<1>4. CASE Throws
  <2>1. /\ pc \in Statements /\ attempts = 0 /\ txn' = txn
        /\ pc' \in {"failed", "ROLLBACK"}
        /\ attempts' = IF pc' \in Statements THEN Attempts ELSE 0
    BY <1>4 DEF Throws, Otherwise, session
  <2>2. Attempts \in 1..2
    BY DEF Attempts
  <2> QED
    BY <2>1, <2>2
<1>5. CASE Copies
  <2>1. txn' = txn /\ pc = "copy" /\ pc' = "COMMIT" /\ attempts' \in 1..2
    BY <1>5 DEF Copies, Copy, Effect, Attempts
  <2> QED
    BY <2>1
<1>6. CASE CopyThrows
  BY <1>6, CopyThrowsFacts
<1>7. CASE Breaks
  BY <1>7 DEF Breaks, Lose
<1>8. CASE CommitNotDone
  BY <1>8 DEF CommitNotDone, CommitRefused
<1> QED
  BY <1>1, <1>2, <1>3, <1>4, <1>5, <1>6, <1>7, <1>8 DEF Next, Pull

\* RoomInv: whatever session executes the copy, the one before it cleared.
LEMMA StepRoom == ASSUME Types, TxnInv, RoomInv, Next PROVE RoomInv'
<1> USE DEF RoomInv
<1> committed \in Seq(Nat) /\ work \in Seq(Nat) /\ pull \in Nat /\ Len(<<>>) = 0
  BY DEF Types, TypeOK
<1> Len(Append(<<>>, pull)) = 1
  OBVIOUS
<1>1. CASE Begin
  BY <1>1 DEF Begin, session
<1>2. CASE Answered
  <2>1. pc \in Statements /\ pc' = Then
        /\ Effect(pc, pull) /\ (txn = "failed" => pc \in {"COMMIT", "ROLLBACK"})
    BY <1>2 DEF Answered, ExecOk
  <2>2. CASE pc = "BEGIN"
    <3>1. pc' = "clear" /\ committed' = committed /\ work' = committed
      BY <2>1, <2>2 DEF Then, Effect, TxnInv
    <3> QED
      BY <3>1
  <2>3. CASE pc = "clear"
    <3>1. txn' = txn /\ (txn = "open" => work' = <<>> /\ committed' = committed)
          /\ (txn # "open" => committed' = <<>> /\ work' = work)
      BY <2>1, <2>3 DEF Effect
    <3> QED
      BY <3>1
  <2>4. CASE pc = "COMMIT"
    <3>1. pc' = "ok" /\ txn' = "none" /\ committed' \in {committed, work}
          /\ (committed' # committed => txn = "open")
      BY <2>1, <2>4 DEF Then, Effect
    <3>2. Len(committed') <= 1
      BY <3>1
    <3> QED
      BY <3>1, <3>2
  <2>5. CASE pc = "ROLLBACK"
    <3>1. pc' = "failed" /\ txn' = "none" /\ committed' = committed
      BY <2>1, <2>5 DEF Then, Effect
    <3> QED
      BY <3>1
  <2> QED
    BY <2>1, <2>2, <2>3, <2>4, <2>5 DEF Statements
<1>3. CASE NotAnswered
  <2>1. txn' = "none" /\ pc' # "copy"
    BY <1>3, AttemptFacts DEF Statements
  <2>2. Len(committed') <= 1
    BY <1>3, AttemptFacts
  <2> QED
    BY <2>1, <2>2
<1>4. CASE Throws
  <2>1. committed' = committed /\ txn' = txn /\ work' = work /\ pc' # "copy"
    BY <1>4 DEF Throws, Otherwise, session
  <2> QED
    BY <2>1
<1>5. CASE Copies
  <2>1. pc = "copy" /\ pc' = "COMMIT" /\ conn = "ok" /\ txn' = txn
        /\ (txn = "open" => work' = Append(work, pull) /\ committed' = committed)
        /\ (txn # "open" => committed' = Append(committed, pull) /\ work' = work)
    BY <1>5 DEF Copies, Copy, Effect
  <2>2. txn \in {"open", "none"}
    BY <2>1 DEF Types, TypeOK, TxnInv
  <2>3. Len(committed') <= 1 /\ (txn = "open" => Len(work') <= 1)
    BY <2>1, <2>2
  <2> QED
    BY <2>1, <2>3
<1>6. CASE CopyThrows
  BY <1>6, CopyThrowsFacts
<1>7. CASE Breaks
  BY <1>7 DEF Breaks, Lose
<1>8. CASE CommitNotDone
  BY <1>8 DEF CommitNotDone, CommitRefused
<1> QED
  BY <1>1, <1>2, <1>3, <1>4, <1>5, <1>6, <1>7, <1>8 DEF Next, Pull

\* The pull's own session is the only one that changes the table, with its
\* COMMIT.
LEMMA StepUnbroken ==
    ASSUME Types, TxnInv, RoomInv, UnbrokenInv, AtomicIfUnbroken, Next
    PROVE  UnbrokenInv' /\ AtomicIfUnbroken'
<1> USE DEF UnbrokenInv, AtomicIfUnbroken
<1> committed \in Seq(Nat) /\ work \in Seq(Nat) /\ pull \in Nat
  BY DEF Types, TypeOK
<1> Append(<<>>, pull) = <<pull>>
  OBVIOUS
<1>1. CASE Begin
  BY <1>1 DEF Begin, session
<1>2. CASE Answered
  <2>1. /\ pc \in Statements /\ pc' = Then /\ pull' = pull /\ before' = before
        /\ Effect(pc, pull) /\ (txn = "failed" => pc \in {"COMMIT", "ROLLBACK"})
    BY <1>2 DEF Answered, ExecOk
  <2>2. CASE pc = "BEGIN"
    <3>1. pc' = "clear" /\ committed' = committed /\ txn' = "open"
      BY <2>1, <2>2 DEF Then, Effect
    <3>2. ~refused'
      BY <1>2, <2>2 DEF Answered
    <3> QED
      BY <2>1, <2>2, <3>1, <3>2
  <2>b. refused' = refused /\ (pc # "BEGIN" => broken' = broken)
    BY <1>2 DEF Answered
  <2>3. CASE pc = "clear"
    <3>1. pc' = "copy" /\ txn' = txn /\ (txn = "open" => committed' = committed)
      BY <2>1, <2>3 DEF Then, Effect
    <3> QED
      BY <2>1, <2>3, <2>b, <3>1
  <2>4. CASE pc = "COMMIT"
    <3>1. /\ pc' = "ok" /\ (txn = "open" => committed' = work)
          /\ txn # "open" => committed' = committed
      BY <2>1, <2>4 DEF Then, Effect
    <3> QED
      BY <2>1, <2>4, <2>b, <3>1
  <2>5. CASE pc = "ROLLBACK"
    <3>1. pc' = "failed" /\ committed' = committed
      BY <2>1, <2>5 DEF Then, Effect
    <3> QED
      BY <2>1, <2>5, <2>b, <3>1
  <2> QED
    BY <2>1, <2>2, <2>3, <2>4, <2>5 DEF Statements
<1>3. CASE NotAnswered
  <2>1. broken' = TRUE /\ refused' = refused
    BY <1>3 DEF NotAnswered
  <2>2. pc = "BEGIN" => committed' = before'
    BY <1>3, AttemptFacts
  <2>3. pc' = pc /\ pc # "idle"
    BY <1>3, AttemptFacts DEF Statements
  <2> QED
    BY <2>1, <2>2, <2>3
<1>4. CASE Throws
  <2>1. /\ committed' = committed /\ pull' = pull /\ before' = before /\ broken' = broken
        /\ pc' \in {"failed", "ROLLBACK"} /\ pc \in Statements /\ refused' = refused
    BY <1>4 DEF Throws, Otherwise, session
  <2> QED
    BY <2>1 DEF Statements
<1>5. CASE Copies
  <2>1. pc = "copy" /\ pc' = "COMMIT" /\ txn' = txn
        /\ (txn = "open" => work' = Append(work, pull) /\ committed' = committed)
        /\ pull' = pull /\ before' = before /\ broken' = broken /\ refused' = refused
    BY <1>5 DEF Copies, Copy, Effect
  <2>2. txn = "open" => work = <<>>
    BY <2>1 DEF RoomInv
  <2> QED
    BY <2>1, <2>2
<1>6. CASE CopyThrows
  <2>1. (broken' = broken \/ broken' = TRUE) /\ refused' = refused
    BY <1>6 DEF CopyThrows
  <2> QED
    BY <1>6, <2>1, CopyThrowsFacts
<1>7. CASE Breaks
  BY <1>7 DEF Breaks, Lose
<1>8. CASE CommitNotDone
  BY <1>8 DEF CommitNotDone, CommitRefused
<1> QED
  BY <1>1, <1>2, <1>3, <1>4, <1>5, <1>6, <1>7, <1>8 DEF Next, Pull

-----------------------------------------------------------------------------
(* The theorems. *)

\* The invariant holds at first: the table holds one load and nobody works.
LEMMA InitIInv == ASSUME PullAssumption, Init PROVE IInv
<1>1. Len(<<0>>) = 1 /\ <<0>> \in Seq(Nat) /\ <<>> \in Seq(Nat)
  OBVIOUS
<1>2. /\ conn = "none" /\ txn = "none" /\ committed = <<0>> /\ work = <<>>
      /\ attempts = 0 /\ pc = "idle" /\ pull = 0 /\ before = <<0>> /\ broken = FALSE
      /\ refused = FALSE
  BY DEF Init, BDbInit
<1>3. Types
  <2>1. broken \in BOOLEAN /\ refused \in BOOLEAN
    BY <1>2
  <2>2. /\ attempts \in 0..2 /\ pull \in 0..MaxPulls
        /\ conn \in {"none", "ok", "dead"} /\ txn \in {"none", "open", "failed"}
        /\ pc \in Statements \cup Done \cup {"copy"}
    BY <1>2, PullAssumption DEF Done
  <2> QED
    BY <1>1, <1>2, <2>1, <2>2 DEF Types, TypeOK
<1>4. TxnInv
  BY <1>2 DEF TxnInv, Statements
<1>5. RoomInv /\ UnbrokenInv /\ AtomicIfUnbroken
  BY <1>1, <1>2 DEF RoomInv, UnbrokenInv, AtomicIfUnbroken
<1> QED
  BY <1>3, <1>4, <1>5 DEF IInv

\* A stuttering step keeps it.
LEMMA StutterIInv == ASSUME IInv, UNCHANGED vars PROVE IInv'
  BY DEF IInv, vars, bdbVars, session, Types, TypeOK, TxnInv, RoomInv,
         UnbrokenInv, AtomicIfUnbroken

\* IInv is an invariant of every pull, whatever breaks.
THEOREM PullerInvariant == Spec => []IInv
<1>1. Init => IInv
  BY InitIInv, PullAssumption
<1>2. IInv /\ [Next]_vars => IInv'
  <2> SUFFICES ASSUME IInv, [Next]_vars PROVE IInv'
    OBVIOUS
  <2>1. CASE Next
    BY <2>1, PullAssumption, StepTypes, StepTxn, StepRoom, StepUnbroken DEF IInv
  <2>2. CASE UNCHANGED vars
    BY <2>2, StutterIInv
  <2> QED
    BY <2>1, <2>2
<1> QED
  BY <1>1, <1>2, PTL DEF Spec

\* Type correctness; in particular no transaction outlives its session and
\* exec makes at most two attempts.
THEOREM PullerTypes == Spec => []TypeOK
<1>1. IInv => TypeOK
  BY DEF IInv, Types
<1> QED
  BY <1>1, PullerInvariant, PTL

\* Statements repeated on a new session, outside the transaction, never mix
\* two loads in the table.
THEOREM PullerNeverMixed == Spec => []NeverMixed
<1>1. IInv => NeverMixed
  BY DEF IInv, RoomInv, NeverMixed
<1> QED
  BY <1>1, PullerInvariant, PTL

\* A pull whose session stays is all or nothing, and changes nothing once its
\* COMMIT was refused, though it is then reported as done.
THEOREM PullerAtomic == Spec => []AtomicIfUnbroken
<1>1. IInv => AtomicIfUnbroken
  BY DEF IInv
<1> QED
  BY <1>1, PullerInvariant, PTL

\* No connection is given back to the pool inside a transaction.
THEOREM PullerReturnsClean == Spec => []ReturnedClean
<1>1. IInv => ReturnedClean
  BY DEF IInv, TxnInv, ReturnedClean
<1> QED
  BY <1>1, PullerInvariant, PTL

\* The three together, for every number of pulls and every fault.
THEOREM PullerSafe == Spec => []PullSafe
<1>1. NeverMixed /\ AtomicIfUnbroken /\ ReturnedClean => PullSafe
  BY DEF PullSafe
<1> QED
  BY <1>1, PullerNeverMixed, PullerAtomic, PullerReturnsClean, PTL
-----------------------------------------------------------------------------
(* The worker. *)

\* One past the largest value of the atomic.
Modulus == 2^CountBits

\* The counter never needs more than one turn around zero.
LEMMA WrapIs ==
    /\ Modulus \in Nat /\ MaxPulls \in Nat /\ MaxPulls < Modulus
    /\ Wrap(-1) = Modulus - 1 /\ Wrap(Modulus) = 0
    /\ \A n \in Nat : n < Modulus => Wrap(n) = n
<1>1. Modulus \in Nat /\ MaxPulls \in Nat /\ MaxPulls < Modulus
  BY CountAssumption, PullAssumption DEF Modulus
<1>2. PICK m : m = Modulus
  OBVIOUS
<1>3. (-1) % m = m - 1 /\ m % m = 0 /\ \A n \in Nat : n < m => n % m = n
  BY <1>1, <1>2
<1> QED
  BY <1>1, <1>2, <1>3 DEF Wrap, Modulus

LEMMA WrapNat == \A n \in Int : Wrap(n) \in Nat
<1>1. PICK m : m = 2^CountBits
  OBVIOUS
<1>2. m \in Nat \ {0}
  BY <1>1, CountAssumption, PullAssumption
<1>3. \A n \in Int : n % m \in Nat
  BY <1>2
<1> QED
  BY <1>1, <1>3 DEF Wrap

\* A pull is under way: it has been taken from the queue and has not left.
Under == pc \notin Done

\* What the queue may hold.
Tasks == Seq(Nat)

\* Tasks the worker has not subtracted from the counter.
Waiting == Len(blocked_queue_) + (IF worker = "took" THEN 1 ELSE 0)

SyncTypes ==
    /\ running \in BOOLEAN /\ adding \in BOOLEAN /\ stopped \in BOOLEAN
    /\ blocked_queue_ \in Seq(Tasks) /\ task \in Tasks
    /\ tasks_count_ \in Nat /\ enqueued \in 0..MaxPulls /\ pull \in Nat
    /\ returned \in Nat /\ served \in Nat /\ nDoneMeasurements \in Nat
    /\ pull_count_errors \in Nat /\ pull_count_full \in Nat /\ pull_count_partial \in Nat

\* What waits is what was enqueued and not yet begun, and the counter lags
\* behind it by the one task that enqueue() has not counted.
QueueInv ==
    running =>
        /\ worker # "ended"
        /\ \A i \in DOMAIN blocked_queue_ : blocked_queue_[i] # StopTask
        /\ worker = "took" => task # StopTask
        /\ enqueued = pull + Waiting
        /\ ~adding => tasks_count_ = Waiting
        /\ adding /\ Waiting # 0 => tasks_count_ = Waiting - 1
        /\ adding /\ Waiting = 0 => tasks_count_ = Modulus - 1

\* The pull of the worker's task has returned and the loop has not seen it.
Back == worker = "run" /\ pc = "ok"

\* The timer runs exactly while a pull is under way, and every other pull is
\* measured and counted; "Application stopped" is thrown only when it is.
TimerInv ==
    /\ worker # "run" => ~Under
    /\ timer = IF Under THEN "STARTED" ELSE "STOPPED"
    /\ nDoneMeasurements + (IF Under THEN 1 ELSE 0) = pull
    /\ stopped => ~running
    /\ pull_count_full + pull_count_partial = served + (IF Back THEN Worth(task) ELSE 0)
    /\ running => returned + pull_count_errors + (IF Under \/ Back THEN 1 ELSE 0) = pull

SyncInv == SyncTypes /\ QueueInv /\ TimerInv

\* A step of pull keeps its number and is made by a pull that is under way.
LEMMA PullFacts ==
    ASSUME Pull
    PROVE  Under /\ pull' = pull /\ pc' # "idle"
<1> USE DEF Under, Done, Statements
<1>1. CASE Answered
  BY <1>1 DEF Answered, Then
<1>2. CASE NotAnswered \/ CommitNotDone
  BY <1>2 DEF NotAnswered, CommitNotDone
<1>3. CASE Throws
  BY <1>3 DEF Throws, Otherwise
<1>4. CASE Copies
  BY <1>4 DEF Copies
<1>5. CASE CopyThrows
  BY <1>5 DEF CopyThrows, Otherwise
<1> QED
  BY <1>1, <1>2, <1>3, <1>4, <1>5 DEF Pull

\* What is left of a queue of one kind of task is of that kind.
LEMMA TailIs ==
    ASSUME NEW K, NEW q \in Seq(K), q # <<>>
    PROVE  /\ Tail(q) \in Seq(K) /\ Head(q) = q[1] /\ 1 \in DOMAIN q
           /\ Len(Tail(q)) = Len(q) - 1 /\ (Tail(q) = <<>> <=> Len(q) = 1)
           /\ \A i \in DOMAIN Tail(q) : i + 1 \in DOMAIN q /\ Tail(q)[i] = q[i + 1]
<1>1. Len(q) \in Nat \ {0} /\ Tail(q) \in Seq(K) /\ Head(q) = q[1] /\ Len(Tail(q)) = Len(q) - 1
  OBVIOUS
<1>2. Tail(q) = <<>> <=> Len(q) = 1
  <2>1. \A t \in Seq(K) : t # <<>> => Len(t) # 0
    BY EmptySeq
  <2>2. Len(<<>>) = 0
    OBVIOUS
  <2>3. Tail(q) = <<>> => Len(q) = 1
    <3>1. Tail(q) = <<>> => Len(Tail(q)) = Len(<<>>)
      BY Zenon
    <3>2. \A b \in Nat : b - 1 = 0 => b = 1
      OBVIOUS
    <3> QED
      BY <1>1, <2>2, <3>1, <3>2, Zenon
  <2>4. Len(q) = 1 => Tail(q) = <<>>
    <3>1. Len(q) = 1 => Len(Tail(q)) = 0
      BY <1>1
    <3> QED
      BY <1>1, <2>1, <3>1
  <2> QED
    BY <2>3, <2>4
<1>3. \A i \in DOMAIN Tail(q) : i + 1 \in DOMAIN q /\ Tail(q)[i] = q[i + 1]
  BY <1>1
<1> QED
  BY <1>1, <1>2, <1>3

\* What a pull is worth is a number.
LEMMA WorthNat == \A t \in Tasks : Worth(t) \in Nat
  BY DEF Worth, Tasks

\* What the manager, the page and the connection do leaves the pull alone.
LEMMA TimerFrame ==
    ASSUME TimerInv, UNCHANGED infoVars, worker' = worker, task' = task, pc' = pc, pull' = pull,
           UNCHANGED <<served, returned>>, running' => running
    PROVE  TimerInv'
<1>1. Under' = Under /\ Back' = Back /\ Worth(task') = Worth(task)
  BY DEF Under, Back
<1>2. UNCHANGED <<timer, nDoneMeasurements, stopped, pull_count_errors, pull_count_full, pull_count_partial>>
  BY DEF infoVars, counts
<1> QED
  BY <1>1, <1>2 DEF TimerInv

\* enqueue() puts a task into the queue ...
LEMMA EnqueueStep == ASSUME SyncInv, Enqueue PROVE SyncInv'
<1> SyncTypes /\ QueueInv /\ TimerInv
  BY DEF SyncInv
<1>0. PICK ids \in Requests : blocked_queue_' = Append(blocked_queue_, ids)
  BY DEF Enqueue
<1>1. /\ running /\ ~adding /\ enqueued < MaxPulls
      /\ adding' = TRUE /\ enqueued' = enqueued + 1
      /\ running' = running /\ tasks_count_' = tasks_count_ /\ worker' = worker /\ task' = task
      /\ UNCHANGED <<returned, served>> /\ UNCHANGED infoVars /\ pc' = pc /\ pull' = pull
  BY DEF Enqueue, vars
<1>2. ids \in Tasks /\ ids # StopTask
  BY CountAssumption DEF Tasks, StopTask
<1>3. blocked_queue_ \in Seq(Tasks)
  BY DEF SyncTypes
<1>4. /\ blocked_queue_' \in Seq(Tasks) /\ Len(blocked_queue_') = Len(blocked_queue_) + 1
      /\ \A i \in DOMAIN blocked_queue_' : \/ i \in DOMAIN blocked_queue_ /\ blocked_queue_'[i] = blocked_queue_[i]
                                           \/ blocked_queue_'[i] = ids
  BY <1>0, <1>2, <1>3
<1>5. SyncTypes'
  BY <1>1, <1>4, PullAssumption DEF SyncTypes, infoVars, counts
<1>6. TimerInv'
  BY <1>1, TimerFrame
<1>7. Waiting' = Waiting + 1 /\ Waiting \in Nat
  BY <1>1, <1>3, <1>4 DEF Waiting
<1>8. pull \in Nat /\ tasks_count_ = Waiting /\ enqueued = pull + Waiting
  BY <1>1 DEF SyncTypes, QueueInv
<1>9. /\ enqueued' = pull' + Waiting' /\ adding' /\ Waiting' # 0 /\ tasks_count_' = Waiting' - 1
  BY <1>1, <1>7, <1>8
<1>10. \A i \in DOMAIN blocked_queue_' : blocked_queue_'[i] # StopTask
  BY <1>1, <1>2, <1>4 DEF QueueInv
<1>11. QueueInv'
  BY <1>1, <1>9, <1>10 DEF QueueInv
<1> QED
  BY <1>5, <1>6, <1>11 DEF SyncInv

\* ... and counts it afterwards.
LEMMA CountStep == ASSUME SyncInv, EnqueueCounts PROVE SyncInv'
<1> SyncTypes /\ QueueInv /\ TimerInv
  BY DEF SyncInv
<1>1. /\ adding /\ tasks_count_' = Wrap(tasks_count_ + 1) /\ adding' = FALSE
      /\ running' = running /\ blocked_queue_' = blocked_queue_ /\ worker' = worker /\ task' = task
      /\ enqueued' = enqueued /\ UNCHANGED <<returned, served>>
      /\ UNCHANGED infoVars /\ pc' = pc /\ pull' = pull
  BY DEF EnqueueCounts, vars
<1>2. tasks_count_' \in Nat
  BY <1>1, WrapNat DEF SyncTypes
<1>3. Waiting' = Waiting /\ Waiting \in Nat
  BY <1>1 DEF Waiting, SyncTypes
<1>4. running => tasks_count_' = Waiting
  <2> SUFFICES ASSUME running PROVE tasks_count_' = Waiting
    OBVIOUS
  <2>1. Waiting <= MaxPulls /\ MaxPulls < Modulus /\ Modulus \in Nat /\ MaxPulls \in Nat
    BY <1>3, WrapIs DEF QueueInv, SyncTypes
  <2>2. CASE Waiting = 0
    <3>1. tasks_count_ + 1 = Modulus
      BY <1>1, <2>1, <2>2 DEF QueueInv
    <3> QED
      BY <1>1, <2>2, <3>1, WrapIs
  <2>3. CASE Waiting # 0
    <3>1. tasks_count_ + 1 = Waiting
      BY <1>1, <1>3, <2>3 DEF QueueInv
    <3>2. Wrap(Waiting) = Waiting
      BY <1>3, <2>1, WrapIs
    <3> QED
      BY <1>1, <3>1, <3>2
  <2> QED
    BY <2>2, <2>3
<1>5. SyncTypes'
  BY <1>1, <1>2 DEF SyncTypes, infoVars, counts
<1>6. TimerInv'
  BY <1>1, TimerFrame
<1>7. QueueInv'
  BY <1>1, <1>3, <1>4 DEF QueueInv
<1> QED
  BY <1>5, <1>6, <1>7 DEF SyncInv

\* The worker takes a task: it waits no less than before.
LEMMA DequeueStep == ASSUME SyncInv, Dequeue PROVE SyncInv'
<1> SyncTypes /\ QueueInv /\ TimerInv
  BY DEF SyncInv
<1>1. /\ worker = "wait" /\ blocked_queue_ # <<>> /\ worker' = "took"
      /\ blocked_queue_' = Tail(blocked_queue_) /\ task' = Head(blocked_queue_)
      /\ UNCHANGED <<running, tasks_count_, adding, enqueued, returned, served>>
      /\ UNCHANGED infoVars /\ pc' = pc /\ pull' = pull
  BY DEF Dequeue, vars
<1>2. blocked_queue_ \in Seq(Tasks)
  BY DEF SyncTypes
<1>3. /\ blocked_queue_' \in Seq(Tasks) /\ task' \in Tasks /\ task' = blocked_queue_[1]
      /\ 1 \in DOMAIN blocked_queue_ /\ Len(blocked_queue_') = Len(blocked_queue_) - 1
      /\ \A i \in DOMAIN blocked_queue_' : i + 1 \in DOMAIN blocked_queue_
                                           /\ blocked_queue_'[i] = blocked_queue_[i + 1]
  <2>1. Head(blocked_queue_) \in Tasks
    BY <1>1, <1>2
  <2> QED
    BY <1>1, <1>2, <2>1, TailIs
<1>4. Waiting' = Waiting /\ Waiting \in Nat
  <2>1. Len(blocked_queue_) \in Nat
    BY <1>2
  <2> QED
    BY <1>1, <1>3, <2>1 DEF Waiting
<1>5. SyncTypes'
  BY <1>1, <1>3 DEF SyncTypes, infoVars, counts
<1>6. TimerInv'
  <2>1. Under' = Under /\ ~Back /\ ~Back'
    BY <1>1 DEF Under, Back
  <2>2. UNCHANGED <<timer, nDoneMeasurements, stopped, pull_count_errors, pull_count_full, pull_count_partial>>
    BY <1>1 DEF infoVars, counts
  <2> QED
    BY <1>1, <2>1, <2>2 DEF TimerInv
<1>7. ASSUME running
      PROVE  task' # StopTask /\ \A i \in DOMAIN blocked_queue_' : blocked_queue_'[i] # StopTask
  BY <1>3, <1>7 DEF QueueInv
<1>8. QueueInv'
  BY <1>1, <1>4, <1>7 DEF QueueInv
<1> QED
  BY <1>5, <1>6, <1>8 DEF SyncInv

\* It subtracts the task and begins it.
LEMMA BeginStep == ASSUME SyncInv, DequeueCounts PROVE SyncInv'
<1> SyncTypes /\ QueueInv /\ TimerInv
  BY DEF SyncInv
<1>1. /\ worker = "took" /\ tasks_count_' = Wrap(tasks_count_ - 1)
      /\ UNCHANGED <<running, blocked_queue_, adding, task, enqueued, returned, served>>
  BY DEF DequeueCounts
<1>2. tasks_count_' \in Nat
  BY <1>1, WrapNat DEF SyncTypes
<1>3. Waiting = Len(blocked_queue_) + 1 /\ Len(blocked_queue_) \in Nat
  BY <1>1 DEF Waiting, SyncTypes
<1>4. CASE task # StopTask
  <2>1. /\ Begin /\ TimerStart /\ worker' = "run" /\ stopped' = FALSE
        /\ UNCHANGED <<pull_count_errors, pull_count_full, pull_count_partial>>
    BY <1>4 DEF DequeueCounts, counts
  <2>2. /\ ~Under /\ Under' /\ pull' = pull + 1 /\ ~Back /\ ~Back'
        /\ timer' = "STARTED" /\ nDoneMeasurements' = nDoneMeasurements
    BY <1>1, <2>1 DEF Begin, TimerStart, Under, Done, Back
  <2>3. SyncTypes'
    <3>1. stopped' \in BOOLEAN /\ running' \in BOOLEAN /\ adding' \in BOOLEAN
      BY <1>1, <2>1 DEF SyncTypes
    <3> QED
      BY <1>1, <1>2, <2>1, <2>2, <3>1 DEF SyncTypes
  <2>4. TimerInv'
    BY <1>1, <2>1, <2>2 DEF TimerInv, SyncTypes
  <2>5. Waiting' = Len(blocked_queue_) /\ Waiting' = Waiting - 1
    BY <1>1, <1>3, <2>1 DEF Waiting
  <2>6. ASSUME running
        PROVE  /\ enqueued' = pull' + Waiting'
               /\ ~adding => tasks_count_' = Waiting'
               /\ adding /\ Waiting' # 0 => tasks_count_' = Waiting' - 1
               /\ adding /\ Waiting' = 0 => tasks_count_' = Modulus - 1
    <3>1. /\ Waiting \in Nat \ {0} /\ Waiting <= MaxPulls /\ MaxPulls < Modulus
          /\ Modulus \in Nat /\ MaxPulls \in Nat /\ pull \in Nat /\ enqueued = pull + Waiting
      BY <1>3, <2>6, WrapIs DEF QueueInv, SyncTypes
    <3>2. enqueued' = pull' + Waiting'
      BY <1>1, <2>2, <2>5, <3>1
    <3>3. \A n \in Nat : n < Modulus => Wrap(n) = n
      BY WrapIs
    <3>4. CASE ~adding
      <4>1. tasks_count_ - 1 = Waiting' /\ Waiting' \in Nat /\ Waiting' < Modulus
        BY <2>5, <2>6, <3>1, <3>4 DEF QueueInv
      <4> QED
        BY <1>1, <3>2, <3>3, <3>4, <4>1
    <3>5. CASE adding
      <4>1. tasks_count_ - 1 = Waiting' - 1
        BY <2>5, <2>6, <3>1, <3>5 DEF QueueInv
      <4>2. CASE Waiting' = 0
        <5>1. tasks_count_ - 1 = -1
          BY <4>1, <4>2
        <5> QED
          BY <1>1, <3>2, <3>5, <4>2, <5>1, WrapIs
      <4>3. CASE Waiting' # 0
        <5>1. Waiting' - 1 \in Nat /\ Waiting' - 1 < Modulus
          BY <2>5, <3>1, <4>3
        <5>2. Wrap(Waiting' - 1) = Waiting' - 1
          BY <3>3, <5>1
        <5> QED
          BY <1>1, <3>2, <3>5, <4>1, <4>3, <5>2
      <4> QED
        BY <4>2, <4>3
    <3> QED
      BY <3>4, <3>5
  <2>7. QueueInv'
    BY <1>1, <2>1, <2>6 DEF QueueInv
  <2> QED
    BY <2>3, <2>4, <2>7 DEF SyncInv
<1>5. CASE task = StopTask
  <2>1. ~running
    BY <1>1, <1>5 DEF QueueInv
  <2>2. worker' = "ended" /\ UNCHANGED infoVars /\ pc' = pc /\ pull' = pull
    BY <1>5, <2>1 DEF DequeueCounts, vars
  <2>3. SyncTypes'
    BY <1>1, <1>2, <2>2 DEF SyncTypes, infoVars, counts
  <2>4. TimerInv'
    <3>1. Under' = Under /\ ~Back /\ ~Back'
      BY <1>1, <2>2 DEF Under, Back
    <3>2. UNCHANGED <<timer, nDoneMeasurements, stopped, pull_count_errors, pull_count_full, pull_count_partial>>
      BY <2>2 DEF infoVars, counts
    <3> QED
      BY <1>1, <2>1, <2>2, <3>1, <3>2 DEF TimerInv
  <2>5. QueueInv'
    BY <1>1, <2>1 DEF QueueInv
  <2> QED
    BY <2>3, <2>4, <2>5 DEF SyncInv
<1> QED
  BY <1>4, <1>5

\* A pull that leaves is measured, and counted for what it was asked or as an
\* error.
LEMMA RunStep == ASSUME SyncInv, PullStep PROVE SyncInv'
<1> SyncTypes /\ QueueInv /\ TimerInv
  BY DEF SyncInv
<1>1. /\ worker = "run" /\ Pull /\ UNCHANGED syncVars
      /\ stopped' = IF pc = "copy" /\ pc' # "COMMIT" THEN ~running /\ broken' = broken ELSE stopped
      /\ pc' \in Done => PullLeaves
      /\ pc' \notin Done => UNCHANGED <<timer, nDoneMeasurements, counts>>
  BY DEF PullStep
<1>2. Under /\ pull' = pull /\ pc' # "idle" /\ ~Back
  BY <1>1, PullFacts DEF Back, Under, Done
<1>3. stopped' \in BOOLEAN /\ (stopped' => ~running)
  BY <1>1 DEF SyncTypes, TimerInv
<1>4. worker' = worker /\ task' = task /\ returned' = returned /\ served' = served /\ running' = running
  BY <1>1 DEF syncVars
<1>5. task \in Tasks /\ Worth(task) \in Nat
  BY WorthNat DEF SyncTypes
<1>6. /\ pull_count_errors' \in Nat /\ pull_count_full' \in Nat /\ pull_count_partial' \in Nat
      /\ nDoneMeasurements' \in Nat
      /\ timer' = IF Under' THEN "STARTED" ELSE "STOPPED"
      /\ nDoneMeasurements' + (IF Under' THEN 1 ELSE 0) = pull
      /\ pull_count_full' + pull_count_partial' = served + (IF Back' THEN Worth(task) ELSE 0)
      /\ running => returned + pull_count_errors' + (IF Under' \/ Back' THEN 1 ELSE 0) = pull
  <2>1. CASE pc' \notin Done
    <3>1. Under' /\ ~Back'
      BY <2>1 DEF Under, Back, Done
    <3>2. UNCHANGED <<timer, nDoneMeasurements, pull_count_errors, pull_count_full, pull_count_partial>>
      BY <1>1, <2>1 DEF counts
    <3> QED
      BY <1>2, <3>1, <3>2 DEF SyncTypes, TimerInv
  <2>2. CASE pc' \in Done
    <3>1. /\ ~Under' /\ pc' \in {"ok", "failed"} /\ (Back' <=> pc' = "ok")
          /\ timer' = "STOPPED" /\ nDoneMeasurements' = nDoneMeasurements + 1 /\ PullCounted
      BY <1>1, <1>2, <1>4, <2>2 DEF PullLeaves, TimerStop, Under, Done, Back
    <3>2. /\ nDoneMeasurements + 1 = pull /\ pull_count_full + pull_count_partial = served
          /\ running => returned + pull_count_errors + 1 = pull /\ ~stopped'
      BY <1>2, <1>3 DEF TimerInv, SyncTypes
    <3>3. CASE pc' = "ok"
      <4>1. /\ pull_count_errors' = pull_count_errors
            /\ \/ is_full_pull_required(task) /\ pull_count_full' = pull_count_full + 1
                  /\ pull_count_partial' = pull_count_partial
               \/ ~is_full_pull_required(task) /\ pull_count_full' = pull_count_full
                  /\ pull_count_partial' = pull_count_partial + Len(task)
        BY <3>1, <3>3 DEF PullCounted, SyncTypes
      <4>2. /\ pull_count_full' \in Nat /\ pull_count_partial' \in Nat
            /\ pull_count_full' + pull_count_partial' = served + Worth(task)
        BY <1>5, <3>2, <4>1 DEF Worth, SyncTypes
      <4> QED
        BY <3>1, <3>2, <3>3, <4>1, <4>2 DEF SyncTypes
    <3>4. CASE pc' = "failed"
      <4>1. /\ pull_count_full' = pull_count_full /\ pull_count_partial' = pull_count_partial
            /\ pull_count_errors' \in Nat /\ (running => pull_count_errors' = pull_count_errors + 1)
        BY <3>1, <3>2, <3>4 DEF PullCounted, SyncTypes
      <4>2. ~Back' /\ ~Under'
        BY <3>1, <3>4
      <4>3. /\ (IF Back' THEN Worth(task) ELSE 0) = 0 /\ (IF Under' THEN 1 ELSE 0) = 0
            /\ (IF Under' \/ Back' THEN 1 ELSE 0) = 0
        BY <4>2
      <4>n. /\ served \in Nat /\ pull \in Nat /\ returned \in Nat /\ pull_count_errors \in Nat
            /\ nDoneMeasurements \in Nat
        BY DEF SyncTypes
      <4>6. pull_count_full' + pull_count_partial' = served + 0 /\ nDoneMeasurements' + 0 = pull
        BY <3>1, <3>2, <4>1, <4>n
      <4>7. ASSUME running PROVE returned + pull_count_errors' + 0 = pull
        <5>1. pull_count_errors' = pull_count_errors + 1 /\ returned + pull_count_errors + 1 = pull
          BY <3>2, <4>1, <4>7
        <5> QED
          BY <4>n, <5>1
      <4>4. /\ pull_count_full' + pull_count_partial' = served + 0 /\ nDoneMeasurements' + 0 = pull
            /\ running => returned + pull_count_errors' + 0 = pull
        BY <4>6, <4>7
      <4>5. /\ pull_count_full' \in Nat /\ pull_count_partial' \in Nat /\ nDoneMeasurements' \in Nat
            /\ timer' = IF Under' THEN "STARTED" ELSE "STOPPED"
        BY <3>1, <4>1 DEF SyncTypes
      <4> QED
        BY <4>1, <4>3, <4>4, <4>5
    <3> QED
      BY <3>1, <3>3, <3>4
  <2> QED
    BY <2>1, <2>2
<1>7. SyncTypes'
  BY <1>1, <1>2, <1>3, <1>6 DEF SyncTypes, syncVars
<1>8. TimerInv'
  BY <1>1, <1>2, <1>3, <1>4, <1>6 DEF TimerInv
<1>9. QueueInv'
  BY <1>1, <1>2 DEF QueueInv, Waiting, syncVars
<1> QED
  BY <1>7, <1>8, <1>9 DEF SyncInv

\* The loop sees how the pull ended.
LEMMA EndStep == ASSUME SyncInv, TaskEnds PROVE SyncInv'
<1> SyncTypes /\ QueueInv /\ TimerInv
  BY DEF SyncInv
<1>1. /\ worker = "run" /\ pc \in Done /\ worker' = IF running THEN "wait" ELSE "ended"
      /\ UNCHANGED <<running, blocked_queue_, tasks_count_, adding, task, enqueued>>
      /\ UNCHANGED infoVars /\ pc' = pc /\ pull' = pull /\ Returns
  BY DEF TaskEnds, vars
<1>2. Worth(task) \in Nat /\ Worth(task') = Worth(task)
  BY <1>1, WorthNat DEF SyncTypes
<1>3. ~Under /\ ~Under' /\ ~Back' /\ (Back <=> pc = "ok")
  BY <1>1 DEF Under, Back
<1>4. /\ returned' = returned + (IF Back THEN 1 ELSE 0) /\ returned' \in Nat
      /\ served' = served + (IF Back THEN Worth(task) ELSE 0) /\ served' \in Nat
  BY <1>1, <1>2, <1>3 DEF Returns, SyncTypes
<1>5. UNCHANGED <<timer, nDoneMeasurements, stopped, pull_count_errors, pull_count_full, pull_count_partial>>
  BY <1>1 DEF infoVars, counts
<1>6. SyncTypes'
  BY <1>1, <1>4, <1>5 DEF SyncTypes
<1>7. TimerInv'
  BY <1>1, <1>2, <1>3, <1>4, <1>5 DEF TimerInv, SyncTypes
<1>8. QueueInv'
  BY <1>1 DEF QueueInv, Waiting
<1> QED
  BY <1>6, <1>7, <1>8 DEF SyncInv

\* The daemon stops, and the destructor sends the empty task.
LEMMA StopStep == ASSUME SyncInv, Stop \/ Destroy PROVE SyncInv'
<1> SyncTypes /\ QueueInv /\ TimerInv
  BY DEF SyncInv
<1>1. /\ running' = FALSE /\ worker' = worker /\ blocked_queue_' \in Seq(Tasks)
      /\ UNCHANGED <<tasks_count_, adding, task, enqueued, returned, served>>
      /\ UNCHANGED infoVars /\ pc' = pc /\ pull' = pull
  <2>1. CASE Stop
    BY <2>1 DEF Stop, vars, SyncTypes
  <2>2. CASE Destroy
    <3>1. running' = FALSE /\ blocked_queue_' = Append(blocked_queue_, StopTask)
      BY <2>2 DEF Destroy, SyncTypes
    <3>2. StopTask \in Tasks /\ blocked_queue_ \in Seq(Tasks)
      BY DEF StopTask, Tasks, SyncTypes
    <3>3. blocked_queue_' \in Seq(Tasks)
      BY <3>1, <3>2
    <3> QED
      BY <2>2, <3>1, <3>3 DEF Destroy, vars
  <2> QED
    BY <2>1, <2>2
<1>2. SyncTypes'
  BY <1>1 DEF SyncTypes, infoVars, counts
<1>3. TimerInv'
  BY <1>1, TimerFrame
<1>4. QueueInv'
  BY <1>1 DEF QueueInv
<1> QED
  BY <1>2, <1>3, <1>4 DEF SyncInv

\* Every step of manager and worker keeps the invariant.
LEMMA SyncStep == ASSUME SyncInv, SyncNext PROVE SyncInv'
<1>1. CASE try_rethrow \/ (Breaks /\ UNCHANGED <<syncVars, infoVars>>)
  <2>1. /\ UNCHANGED <<running, blocked_queue_, tasks_count_, adding, worker, task, enqueued, returned, served>>
        /\ UNCHANGED infoVars /\ pc' = pc /\ pull' = pull
    BY <1>1 DEF try_rethrow, Breaks, vars, syncVars
  <2>2. SyncTypes'
    BY <2>1 DEF SyncInv, SyncTypes, infoVars, counts
  <2>3. TimerInv'
    BY <2>1, TimerFrame DEF SyncInv
  <2>4. QueueInv'
    BY <2>1 DEF SyncInv, QueueInv, Waiting
  <2> QED
    BY <2>2, <2>3, <2>4 DEF SyncInv
<1> QED
  BY <1>1, EnqueueStep, CountStep, DequeueStep, BeginStep, RunStep, EndStep, StopStep DEF SyncNext, Worker

\* In the worker, pull is what Puller specifies: the queue and the counters
\* around it only decide when it begins.
LEMMA SyncIsPull == ASSUME [SyncNext]_allVars PROVE [Next]_vars
<1>1. CASE Worker
  BY <1>1 DEF Worker, Dequeue, DequeueCounts, TaskEnds, PullStep, Next
<1>2. CASE Enqueue \/ EnqueueCounts \/ try_rethrow \/ Stop \/ Destroy
  BY <1>2 DEF Enqueue, EnqueueCounts, try_rethrow, Stop, Destroy
<1>3. CASE Breaks
  BY <1>3 DEF Next
<1>4. CASE UNCHANGED allVars
  BY <1>4 DEF allVars
<1> QED
  BY <1>1, <1>2, <1>3, <1>4 DEF SyncNext

\* A worker's pulls are pulls: every behaviour of the worker is one of Puller.
THEOREM SyncImplementsPuller == SyncSpec => Spec
<1>1. SyncInit => Init
  BY DEF SyncInit
<1>2. [SyncNext]_allVars => [Next]_vars
  BY SyncIsPull
<1> QED
  BY <1>1, <1>2, PTL DEF SyncSpec, Spec

\* So a pull that the worker makes keeps its promise too, whenever the
\* daemon stops.
THEOREM SyncPullSafe == SyncSpec => []PullSafe
  BY SyncImplementsPuller, PullerSafe, PTL

\* The inductive invariant of manager and worker holds in every schedule.
THEOREM SyncInvariant == SyncSpec => []SyncInv
<1>1. SyncInit => SyncInv
  <2> SUFFICES ASSUME SyncInit PROVE SyncInv
    OBVIOUS
  <2>1. /\ pc = "idle" /\ pull = 0 /\ running = TRUE /\ blocked_queue_ = <<>>
        /\ tasks_count_ = 0 /\ adding = FALSE /\ worker = "wait" /\ task = <<>>
        /\ enqueued = 0 /\ returned = 0 /\ served = 0
        /\ timer = "STOPPED" /\ nDoneMeasurements = 0 /\ pull_count_errors = 0
        /\ pull_count_full = 0 /\ pull_count_partial = 0 /\ stopped = FALSE
    BY DEF SyncInit, Init
  <2>2. SyncTypes
    <3>1. running \in BOOLEAN /\ adding \in BOOLEAN /\ stopped \in BOOLEAN
      BY <2>1
    <3>2. blocked_queue_ \in Seq(Tasks) /\ task \in Tasks
      BY <2>1 DEF Tasks
    <3> QED
      BY <2>1, <3>1, <3>2, PullAssumption DEF SyncTypes
  <2>3. QueueInv
    <3>1. Waiting = 0
      BY <2>1 DEF Waiting
    <3> QED
      BY <2>1, <3>1 DEF QueueInv
  <2>4. TimerInv
    BY <2>1 DEF TimerInv, Under, Done, Back
  <2> QED
    BY <2>2, <2>3, <2>4 DEF SyncInv
<1>2. SyncInv /\ [SyncNext]_allVars => SyncInv'
  <2> SUFFICES ASSUME SyncInv, [SyncNext]_allVars PROVE SyncInv'
    OBVIOUS
  <2>1. CASE SyncNext
    BY <2>1, SyncStep
  <2>2. CASE UNCHANGED allVars
    <3>1. SyncTypes' /\ QueueInv'
      BY <2>2 DEF SyncInv, SyncTypes, QueueInv, Waiting, allVars, vars, syncVars, infoVars, counts
    <3>2. TimerInv'
      BY <2>2, TimerFrame DEF SyncInv, allVars, vars, syncVars
    <3> QED
      BY <3>1, <3>2 DEF SyncInv
  <2> QED
    BY <2>1, <2>2
<1> QED
  BY <1>1, <1>2, PTL DEF SyncSpec

\* However enqueue() and the worker interleave between queue and counter, and
\* whatever a pull throws: the counter of waiting tasks, the timer and the
\* counters of the page come to rest at the truth.
THEOREM SyncCounters == SyncSpec => []CountersSettle
<1>1. SyncInv => CountersSettle
  <2> SUFFICES ASSUME SyncInv PROVE CountersSettle
    OBVIOUS
  <2>1. running /\ ~adding => tasks_count_ = Len(blocked_queue_) + (IF worker = "took" THEN 1 ELSE 0)
    BY DEF SyncInv, QueueInv, Waiting
  <2>2. worker # "run" => ~Under /\ ~Back
    BY DEF SyncInv, TimerInv, Back
  <2>3. worker # "run" => /\ timer = "STOPPED" /\ nDoneMeasurements = pull
                          /\ pull_count_full + pull_count_partial = served
    BY <2>2 DEF SyncInv, SyncTypes, TimerInv
  <2>4. worker # "run" /\ running => returned + pull_count_errors = pull
    BY <2>2 DEF SyncInv, SyncTypes, TimerInv
  <2> QED
    BY <2>1, <2>3, <2>4 DEF CountersSettle
<1> QED
  BY <1>1, SyncInvariant, PTL

\* The empty task of ~PullWorker waits in the queue, or is in the worker's hand.
StopWaiting ==
    \/ \E i \in DOMAIN blocked_queue_ : blocked_queue_[i] = StopTask
    \/ worker = "took" /\ task = StopTask

\* The empty task is never taken in vain: it is kept until the worker has
\* ended.  Once the daemon stops, a worker that runs does not wait for another
\* task, and one that has ended stays so: the join of ~PullWorker waits for
\* one task at most, whatever else is queued.
StopHeard ==
    [][/\ StopWaiting => StopWaiting' \/ worker' = "ended"
       /\ worker = "ended" => worker' = "ended"
       /\ ~running => ~running' /\ (worker = "run" => worker' # "wait")]_allVars

\* Wherever the stop and the destructor meet the worker, the end of its thread
\* is put off by one pull at most.
THEOREM SyncStopHeard == SyncSpec => StopHeard
<1> DEFINE Heard == /\ StopWaiting => StopWaiting' \/ worker' = "ended"
                    /\ worker = "ended" => worker' = "ended"
                    /\ ~running => ~running' /\ (worker = "run" => worker' # "wait")
<1>1. ASSUME SyncInv, SyncNext PROVE Heard
  <2>q. blocked_queue_ \in Seq(Tasks)
    BY <1>1 DEF SyncInv, SyncTypes
  <2>1. CASE Enqueue \/ Destroy
    <3>1. /\ UNCHANGED <<worker, task, running>>
          /\ \E t \in Tasks : blocked_queue_' = Append(blocked_queue_, t)
      <4>1. CASE Enqueue
        <5>1. Requests \subseteq Tasks
          BY CountAssumption DEF Tasks
        <5> QED
          BY <4>1, <5>1 DEF Enqueue
      <4>2. CASE Destroy
        <5>1. StopTask \in Tasks
          BY DEF Tasks, StopTask
        <5> QED
          BY <4>2, <5>1 DEF Destroy
      <4> QED
        BY <2>1, <4>1, <4>2
    <3>3. \A i \in DOMAIN blocked_queue_ : i \in DOMAIN blocked_queue_' /\ blocked_queue_'[i] = blocked_queue_[i]
      BY <3>1, <2>q
    <3>4. StopWaiting => StopWaiting'
      BY <3>1, <3>3 DEF StopWaiting
    <3> QED
      BY <3>1, <3>4
  <2>2. CASE EnqueueCounts \/ try_rethrow \/ PullStep \/ (Breaks /\ UNCHANGED <<syncVars, infoVars>>)
    BY <2>2 DEF EnqueueCounts, try_rethrow, PullStep, syncVars, StopWaiting
  <2>3. CASE Stop
    BY <2>3 DEF Stop, StopWaiting
  <2>4. CASE TaskEnds
    BY <2>4 DEF TaskEnds, StopWaiting
  <2>5. CASE Dequeue
    <3>1. /\ worker = "wait" /\ worker' = "took" /\ running' = running /\ blocked_queue_ # <<>>
          /\ blocked_queue_' = Tail(blocked_queue_) /\ task' = Head(blocked_queue_)
      BY <2>5 DEF Dequeue
    <3>2. /\ task' = blocked_queue_[1] /\ DOMAIN blocked_queue_ = 1..Len(blocked_queue_)
          /\ DOMAIN Tail(blocked_queue_) = 1..(Len(blocked_queue_) - 1)
          /\ \A i \in DOMAIN Tail(blocked_queue_) : Tail(blocked_queue_)[i] = blocked_queue_[i + 1]
      BY <3>1, <2>q
    <3>3. ASSUME NEW i \in DOMAIN blocked_queue_, blocked_queue_[i] = StopTask PROVE StopWaiting'
      <4>1. CASE i = 1
        BY <3>1, <3>2, <3>3, <4>1 DEF StopWaiting
      <4>2. CASE i # 1
        <5>1. i - 1 \in DOMAIN Tail(blocked_queue_) /\ Tail(blocked_queue_)[i - 1] = StopTask
          BY <2>q, <3>2, <3>3, <4>2
        <5> QED
          BY <3>1, <5>1 DEF StopWaiting
      <4> QED
        BY <4>1, <4>2
    <3> QED
      BY <3>1, <3>3 DEF StopWaiting
  <2>6. CASE DequeueCounts
    <3>1. /\ worker = "took" /\ UNCHANGED <<running, blocked_queue_, task>>
          /\ task = StopTask => worker' = (IF running THEN "wait" ELSE "ended")
      BY <2>6 DEF DequeueCounts
    <3>2. task = StopTask => worker' = "ended"
      BY <1>1, <3>1 DEF SyncInv, QueueInv
    <3> QED
      BY <3>1, <3>2 DEF StopWaiting
  <2> QED
    BY <1>1, <2>1, <2>2, <2>3, <2>4, <2>5, <2>6 DEF SyncNext, Worker
<1>2. SyncInv /\ [SyncNext]_allVars => [Heard]_allVars
  BY <1>1
<1>3. SyncSpec => [][Heard]_allVars
  BY <1>2, SyncInvariant, PTL DEF SyncSpec
<1> QED
  BY <1>3 DEF StopHeard
=============================================================================
