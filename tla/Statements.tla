----------------------------- MODULE Statements -----------------------------
(***************************************************************************)
(* What is sent to the database and what comes back: parameter rows        *)
(* (ParamQuery), the results of libpq and the objects that own them        *)
(* (BDbResult), the two statements a Puller makes of a list of ids, and    *)
(* the select that BDb makes of a list of key values.                      *)
(***************************************************************************)
EXTENDS Text, FiniteSets

CONSTANTS
    Objects,          \* BDbResult objects
    Counts,           \* numbers of rows a query can return
    MaxResults        \* bound on the queries made

ASSUME ResultAssumption == Counts \subseteq Nat /\ MaxResults \in Nat
-----------------------------------------------------------------------------
(* ParamQuery: a sequence of calls, "null" and "end" (endRow) among values. *)

EndRow == "endRow"

\* The rows after the calls.  There is always a last one, to which
\* addValue and addNull append.
rows_(calls) ==
    FoldLeft(LAMBDA rows, c : IF c = EndRow THEN Append(rows, <<>>)
                              ELSE [rows EXCEPT ![Len(rows)] = Append(@, c)], <<<<>>>>, calls)

isEmpty(r) == r = <<>>

\* Mutant: a row is executed though it is short.
parameters_Any(r, width) == <<r>>

\* The parameters of a row, or <<>>: it throws when their number is not width.
parameters(r, width) == IF Len(r) = width THEN <<r>> ELSE <<>>

\* BDb::exec(ParamQuery): one statement for each row that is not empty, until
\* a row has the wrong width or the server refuses it; what was executed
\* before stays so (there is no transaction).
exec_params(rows, width, refused) ==
    FoldLeft(LAMBDA st, r :
                 IF st.threw \/ isEmpty(r) THEN st
                 ELSE IF parameters(r, width) = <<>> \/ r = refused THEN [st EXCEPT !.threw = TRUE]
                 ELSE [st EXCEPT !.done = Append(@, r)],
             [done |-> <<>>, threw |-> FALSE], rows)
-----------------------------------------------------------------------------
(* Puller: a condition is <<>> (an empty string) or <<the keys it admits>>. *)

intersect_conditions(first, second) ==
    CASE first = <<>> -> second
      [] second = <<>> -> first
      [] OTHER -> <<first[1] \cap second[1]>>

\* There is no key column, or one of the ids is 0.
is_full_pull_required(keyed, ids) == ~keyed \/ 0 \in ids

\* Mutant: a partial pull forgets the table's own condition.
createUpdateQueries_AnyRow(keyed, ids, where) ==
    IF is_full_pull_required(keyed, ids) THEN [condition |-> where, clear |-> <<>>]
    ELSE [condition |-> <<ids>>, clear |-> <<ids>>]

\* The condition on the source, and what is cleared (truncate: everything).
createUpdateQueries(keyed, ids, where) ==
    IF is_full_pull_required(keyed, ids) THEN [condition |-> where, clear |-> <<>>]
    ELSE [condition |-> intersect_conditions(where, <<ids>>), clear |-> <<ids>>]

\* The destination after clear and copy; tables are functions of their keys.
pulled(keyed, ids, where, src, dst) ==
    LET q == createUpdateQueries(keyed, ids, where)
        kept == IF q.clear = <<>> THEN {} ELSE DOMAIN dst \ q.clear[1]
        copied == IF q.condition = <<>> THEN DOMAIN src ELSE DOMAIN src \cap q.condition[1]
    IN  [k \in kept \cup copied |-> IF k \in copied THEN src[k] ELSE dst[k]]
-----------------------------------------------------------------------------
(* BDb::query_reduce_select: a table maps the ids of its rows to the values *)
(* of their key; a reducing condition is "order by id limit n".             *)

\* <<>> when it throws
removeFramingBrackets(s) ==
    IF Len(s) < 2 \/ s[1] # OPEN \/ s[Len(s)] # CLOSE THEN <<>> ELSE <<SubSeq(s, 2, Len(s) - 1)>>

\* A value of blanks only throws; no value at all does so in the caller.
splitValues(values_str) ==
    LET parts == split_skip_blank(values_str, {COMMA})
        values == [i \in DOMAIN parts |-> trim(parts[i])]
    IN  IF <<>> \in Range(values) THEN <<>> ELSE <<values>>

reduced(ids, n) == {i \in ids : Cardinality({j \in ids : j < i}) < n}

\* Mutant: the union of the selects is not reduced again.
united_Whole(selects, n) == UNION selects

\* The selects of several values are united and reduced once more.
united(selects, n) == reduced(UNION selects, n)

\* <<the rows>>, or <<>>: it throws, or the server refuses two words as one value.
query_reduce_select(table, keyValues, n) ==
    LET inner == removeFramingBrackets(trim(keyValues))
        split == IF inner = <<>> THEN <<>> ELSE splitValues(inner[1])
        values == IF split = <<>> THEN <<>> ELSE split[1]
        singleValueSelectStatement(i) == reduced({id \in DOMAIN table : table[id] = values[i]}, n)
    IN  CASE values = <<>> \/ \E v \in Range(values) : SPACE \in Range(v) -> <<>>
          [] Len(values) = 1 -> <<singleValueSelectStatement(1)>>
          [] OTHER -> <<united({singleValueSelectStatement(i) : i \in DOMAIN values}, n)>>
-----------------------------------------------------------------------------
(* BDbResult objects.  A PGresult is a number; 0 is nullptr. *)

VARIABLES
    rs,               \* per object: <<>> (not there) or <<[res, count, index]>>
    queried,          \* PGresults made so far
    cleared,          \* per PGresult: how often PQclear was called
    row               \* the row that the last next(), first() or last() that
                      \* returned true has promised: <<object>> or <<>>

resultVars == <<rs, queried, cleared, row>>

\* (force_free, which clears the result and keeps count and index, has no
\* caller.)
ResultInit ==
    /\ rs = [o \in Objects |-> <<>>]
    /\ queried = 0
    /\ cleared = [r \in 1..MaxResults |-> 0]
    /\ row = <<>>

\* query: BDbResult(res)
Construct(o) ==
    /\ rs[o] = <<>> /\ queried < MaxResults
    /\ queried' = queried + 1
    /\ \E n \in Counts : rs' = [rs EXCEPT ![o] = <<[res |-> queried', count |-> n, index |-> -1]>>]
    /\ row' = <<>>
    /\ UNCHANGED cleared

Empty == <<[res |-> 0, count |-> 0, index |-> -1]>>
PQclear(r) == IF r = 0 THEN cleared ELSE [cleared EXCEPT ![r] = @ + 1]

\* BDbResult(BDbResult&&): what query() returns
MoveConstruct(o, p) ==
    /\ rs[o] = <<>> /\ rs[p] # <<>>
    /\ rs' = [rs EXCEPT ![o] = rs[p], ![p] = Empty]
    /\ row' = <<>>
    /\ UNCHANGED <<queried, cleared>>

\* Mutant: what the object owned is forgotten.
MoveAssign_Leaks(o, p) ==
    /\ o # p /\ rs[o] # <<>> /\ rs[p] # <<>>
    /\ rs' = [rs EXCEPT ![o] = rs[p], ![p] = Empty]
    /\ row' = <<>>
    /\ UNCHANGED <<queried, cleared>>

\* operator=; nothing happens to an object assigned to itself.
MoveAssign(o, p) ==
    /\ o # p /\ rs[o] # <<>> /\ rs[p] # <<>>
    /\ rs' = [rs EXCEPT ![o] = rs[p], ![p] = Empty]
    /\ cleared' = PQclear(rs[o][1].res)
    /\ row' = <<>>
    /\ UNCHANGED queried

Destruct(o) ==
    /\ rs[o] # <<>>
    /\ rs' = [rs EXCEPT ![o] = <<>>]
    /\ cleared' = PQclear(rs[o][1].res)
    /\ row' = <<>>
    /\ UNCHANGED queried

\* The cursor is at index; the caller reads a row if the call returned true.
Seek(o, index, true) ==
    /\ rs' = [rs EXCEPT ![o][1].index = index]
    /\ row' = IF true THEN <<o>> ELSE <<>>
    /\ UNCHANGED <<queried, cleared>>

\* index++ stops where the reader stops: it does not go on after false.
next(o) ==
    /\ rs[o] # <<>> /\ rs[o][1].index < rs[o][1].count
    /\ LET r == rs[o][1] IN Seek(o, r.index + 1, r.count > 0 /\ r.index + 1 < r.count)

first(o) ==
    /\ rs[o] # <<>>
    /\ LET r == rs[o][1] IN Seek(o, IF r.count > 0 THEN 0 ELSE r.index, r.count > 0)

last(o) ==
    /\ rs[o] # <<>>
    /\ LET r == rs[o][1] IN Seek(o, IF r.count > 0 THEN r.count - 1 ELSE r.index, r.count > 0)

ResultNext ==
    \E o \in Objects :
        \/ Construct(o) \/ Destruct(o) \/ next(o) \/ first(o) \/ last(o)
        \/ \E p \in Objects : MoveConstruct(o, p) \/ MoveAssign(o, p)
-----------------------------------------------------------------------------
(* Properties. *)

\* Every result of libpq that is not cleared is owned by exactly one object,
\* and none is cleared twice; when the cursor says there is a row, the object
\* holds an uncleared result that has it.
ResultsOwned ==
    /\ \A r \in 1..queried :
          Cardinality({o \in Objects : rs[o] # <<>> /\ rs[o][1].res = r}) + cleared[r] = 1
    /\ \A i \in DOMAIN row :
          LET r == rs[row[i]][1] IN r.res # 0 /\ r.index \in 0..(r.count - 1)
=============================================================================
