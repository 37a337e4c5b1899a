------------------------------ MODULE Helpers -------------------------------
(***************************************************************************)
(* The library below the readers and the merge.  One of its parts is       *)
(* chosen at first: a pure helper, called once with any of its inputs and  *)
(* compared with a definition of its own, or an object, driven by any      *)
(* sequence of the calls its users make.                                   *)
(***************************************************************************)
EXTENDS Text, Calendar, Settings, DbPool, Thread, Statements, SpeedLimiter, Report, Journal, DataLists

CONSTANTS
    SplitTexts,       \* texts for split_any, separated by AMP
    Queries,          \* sequences of <<key, value>>, for parse_url
    ByteTexts,        \* sequences of bytes, for Base64
    NumberTexts,      \* texts for to<int> and to<unsigned>
    Moments, Zones,   \* timestamps and hours from Greenwich
    ParamCalls,       \* sequences of calls of a ParamQuery
    Keys,             \* keys of a table that is pulled
    KeyValues,        \* texts with values of a key, in brackets or not
    Records,          \* merged calls: [legs, links]
    ListRows          \* rows of a list: [id, uniqueid, uniqueid_orig, uniqueid_term, link_start_time]

\* The year of a moment, where it is asked for, and the next are in the calendar.
ASSUME MomentsAssumption ==
    /\ Moments \subseteq Int /\ Zones \subseteq Int
    /\ \A t \in Moments, z \in Zones \cup {0} : \E y \in Years :
          LET day == (t + 3600 * z) \div 86400
          IN  y + 1 \in Years /\ YearDay(y) <= day /\ day < YearDay(y + 1)

VARIABLES
    call,             \* the part that is used, and with what
    result            \* <<>> before a helper has returned, or <<what it returned>>

helperVars == <<call, result>>
objectVars == <<settingsVars, poolVars, threadVars, resultVars, limiterVars, journalVars, dataVars>>
vars == <<helperVars, objectVars>>

Parts == {"settings", "DbPool", "Thread", "BDbResult", "SpeedLimiter", "log", "data", "counters"}

\* Tables with rows that tell where they are from.
Tables(rows) == {[k \in d |-> rows] : d \in SUBSET Keys}
Conditions == {<<>>} \cup {<<s>> : s \in SUBSET Keys}

\* The number a text of digits stands for, and what PostgreSQL writes into a
\* column that is read by a getter.
Signed(text) == IF text # <<>> /\ text[1] = MINUS THEN -Number(Tail(text)) ELSE Number(text)
Decimals(bits) ==
    {s \in NumberTexts :
        LET digits == IF s # <<>> /\ s[1] = MINUS THEN Tail(s) ELSE s
        IN  /\ digits # <<>> /\ \A i \in DOMAIN digits : IsDigit(digits[i])
            /\ Signed(s) \in -(2^(bits - 1))..(2^(bits - 1) - 1)}
Cells(getter) ==
    {<<>>} \cup CASE getter = "s" -> {<<97>>, <<116>>} [] getter = "b" -> {<<102>>, <<116>>}
                  [] getter = "i" -> Decimals(IntBits) [] getter = "ll" -> Decimals(LongBits)
Kinds == {"call_leg", "call_leg_online", "call_leg_link", "call_leg_link_online"}

PullCalls ==
    [fn : {"pull"}, keyed : BOOLEAN, ids : (SUBSET (Keys \cup {0})) \ {{}}, where : Conditions,
     src : Tables("src"), dst : Tables("dst")]
RowCalls ==
    UNION {[fn : {"row"}, kind : {k}, getter : {g}, field : Fields(k)[g], cell : Cells(g)] :
             k \in Kinds, g \in {"s", "b", "i", "ll"}}
SelectCalls ==
    [fn : {"select"}, arg : KeyValues, table : UNION {[d -> {<<49>>, <<50>>}] : d \in SUBSET Keys}, limit : 1..2]

Calls ==
    [fn : {"split_any"}, arg : SplitTexts] \cup [fn : {"parse_url"}, arg : Queries]
    \cup [fn : {"base64"}, arg : ByteTexts]
    \cup [fn : {"to_number"}, arg : NumberTexts, unsigned : BOOLEAN]
    \cup [fn : {"stamp", "human"}, arg : Moments] \cup [fn : {"period"}, arg : Moments, zone : Zones]
    \cup [fn : {"exec"}, arg : ParamCalls] \cup [fn : {"report"}, arg : Records]
    \cup PullCalls \cup RowCalls \cup SelectCalls
    \cup [fn : {"list"}, arg : ListRows]
    \cup [fn : Parts]

Init ==
    /\ call \in Calls /\ result = <<>>
    /\ SettingsInit /\ PoolInit /\ ThreadInit /\ ResultInit /\ LimiterInit /\ JournalInit
    /\ DataInit

\* How a browser writes a text into a query.
Hex2(n) == LET H(d) == IF d < 10 THEN 48 + d ELSE 55 + d IN <<H(n \div 16), H(n % 16)>>
Encoded(text) ==
    FoldLeft(LAMBDA out, c : out \o CASE c = SPACE -> <<PLUS>>
                                      [] c \in {AMP, EQ, PERCENT, PLUS} -> <<PERCENT>> \o Hex2(c)
                                      [] OTHER -> <<c>>, <<>>, text)
Query(pairs) ==
    FoldLeft(LAMBDA out, kv : out \o <<AMP>> \o Encoded(kv[1]) \o <<EQ>> \o Encoded(kv[2]), <<>>, pairs)

Return(fn, value) ==
    /\ call.fn = fn /\ result = <<>>
    /\ result' = <<value>>
    /\ UNCHANGED <<call, objectVars>>

Split == call.fn = "split_any" /\ Return("split_any", split_any(call.arg, {AMP}))

\* The query follows the path, and its first pair has no AMP before it.
ParseUrl == call.fn = "parse_url" /\ Return("parse_url", parse_url(<<97, QUERY>> \o Tail(Query(call.arg))))

Base64 ==
    /\ call.fn = "base64"
    /\ LET code == encode_base64(call.arg)
       IN  Return("base64", <<decode_base64(code), decode_base64(SelectSeq(code, LAMBDA c : c # Pad))>>)

ToNumber == call.fn = "to_number" /\ Return("to_number", to_number(call.unsigned, call.arg))

Stamp == call.fn = "stamp" /\ Return("stamp", parseDateTime(string_time(call.arg), 0))

Period ==
    /\ call.fn = "period"
    /\ Return("period", [day |-> get_day_ts(call.arg, call.zone),
                         dayEnd |-> get_day_end_ts(call.arg, call.zone),
                         month |-> get_month_ts(call.arg, call.zone),
                         monthEnd |-> get_month_end_ts(call.arg, call.zone)])

Human == call.fn = "human" /\ Return("human", seconds_to_human_readable_str(call.arg % 1000000))

\* A statement of two parameters; the server refuses a row that begins so.
Exec == call.fn = "exec" /\ Return("exec", exec_params(rows_(call.arg), 2, <<"c", "c">>))

PullRows ==
    /\ call.fn = "pull"
    /\ Return("pull", pulled(call.keyed, call.ids, call.where, call.src, call.dst))

MakeReport ==
    /\ call.fn = "report"
    /\ \E r \in shaped(call.arg), garbage \in {0, 99} :
          LET leg == [NoLeg EXCEPT !.uniqueid = garbage, !.start_time = garbage, !.stop_time = garbage]
          IN  Return("report", [r |-> r, voip |-> voip_build(r, garbage), legs |-> legs_build(r, leg)])

\* Every other column of the row is NULL.
ReadRow ==
    /\ call.fn = "row"
    /\ Return("row", parse_item(call.kind, [f \in FieldNames(call.kind) |-> IF f = call.field THEN call.cell ELSE <<>>]))

LoadList ==
    /\ call.fn = "list"
    /\ \E garbage \in {0, 99} :
          Return("list", [leg |-> [u \in Keys |-> getByUniqueId(call.arg, u)],
                          links |-> [u \in Keys |-> getByUniqueIdOrig(call.arg, u)],
                          online |-> {u \in Keys : uniqueid_check(call.arg, u)},
                          last |-> lastTime_(call.arg, garbage)])

Select ==
    /\ call.fn = "select"
    /\ Return("select", query_reduce_select(call.table, call.arg, call.limit))

Next ==
    \/ ReadRow \/ LoadList \/ Select
    \/ Split \/ ParseUrl \/ Base64 \/ ToNumber \/ Stamp \/ Human \/ Period \/ Exec \/ PullRows \/ MakeReport
    \/ /\ call.fn = "settings"
       /\ SettingsNext
       /\ UNCHANGED <<helperVars, poolVars, threadVars, resultVars, limiterVars, journalVars, dataVars>>
    \/ /\ call.fn = "DbPool" /\ PoolNext
       /\ UNCHANGED <<helperVars, settingsVars, threadVars, resultVars, limiterVars, journalVars, dataVars>>
    \/ /\ call.fn = "Thread" /\ ThreadNext
       /\ UNCHANGED <<helperVars, settingsVars, poolVars, resultVars, limiterVars, journalVars, dataVars>>
    \/ /\ call.fn = "BDbResult" /\ ResultNext
       /\ UNCHANGED <<helperVars, settingsVars, poolVars, threadVars, limiterVars, journalVars, dataVars>>
    \/ /\ call.fn = "SpeedLimiter" /\ LimiterNext
       /\ UNCHANGED <<helperVars, settingsVars, poolVars, threadVars, resultVars, journalVars, dataVars>>
    \/ /\ call.fn = "log" /\ JournalNext
       /\ UNCHANGED <<helperVars, settingsVars, poolVars, threadVars, resultVars, limiterVars, dataVars>>
    \/ /\ \/ call.fn = "data" /\ ListNext
          \/ call.fn = "counters" /\ CountersNext
       /\ UNCHANGED <<helperVars, settingsVars, poolVars, threadVars, resultVars, limiterVars, journalVars>>

Spec == Init /\ [][Next]_vars
-----------------------------------------------------------------------------
(* Properties. *)

Returned(fn) == call.fn = fn /\ result # <<>>

\* The parts of split_any, each followed by a separator, are the text again;
\* only a separator at its very end leaves no trace.  Options' paths, queries
\* and forms are taken apart this way.
SplitLosesNothing ==
    Returned("split_any") =>
        LET s == call.arg
        IN  FoldLeft(LAMBDA out, part : Append(out \o part, AMP), <<>>, result[1])
              = IF s = <<>> \/ s[Len(s)] = AMP THEN s ELSE Append(s, AMP)

\* parse_url gets out of a query the keys and values that a browser has put
\* in, with separators, blanks and escapes inside them; the last of equal
\* keys wins.
QueryReadBack ==
    Returned("parse_url") =>
        LET given == {i \in DOMAIN call.arg : \A j \in DOMAIN call.arg :
                          j > i => call.arg[j][1] # call.arg[i][1]}
        IN  /\ result[1].path = <<97>>
            /\ DOMAIN result[1].params = {call.arg[i][1] : i \in given}
            /\ \A i \in given : result[1].params[call.arg[i][1]] = call.arg[i][2]

\* decode_base64 undoes encode_base64, with its padding and without.
Base64ReadBack == Returned("base64") => result[1] = <<call.arg, call.arg>>

\* to<int> and to<unsigned> return the number that is written there, or throw
\* when the type cannot hold it: never another number.  (A text without a
\* digit, and the negative numbers that strtoul turns round, are set apart.)
NumberExact ==
    Returned("to_number") =>
        LET neg == call.arg # <<>> /\ call.arg[1] = MINUS
            digits == IF neg THEN Tail(call.arg) ELSE call.arg
            n == IF neg THEN -Number(digits) ELSE Number(digits)
            low == IF call.unsigned THEN 0 ELSE -(2^(IntBits - 1))
            high == IF call.unsigned THEN 2^IntBits - 1 ELSE 2^(IntBits - 1) - 1
        IN  /\ digits # <<>> /\ \A i \in DOMAIN digits : IsDigit(digits[i])
            /\ call.unsigned => ~neg
            => result[1] = IF n \in low..high THEN <<n>> ELSE <<>>

\* A stamp written by string_time, as the readers put it into their queries,
\* is read back by parseDateTime as the same second.
StampReadBack == Returned("stamp") => result[1] = call.arg

\* Days and months of a time zone contain the moment they were asked for,
\* follow one another without a gap, and no day reaches into another month.
PeriodsTile ==
    Returned("period") =>
        LET p == result[1]
            z == call.zone
        IN  /\ p.day <= call.arg /\ call.arg <= p.dayEnd
            /\ p.month <= p.day /\ p.dayEnd <= p.monthEnd
            /\ get_day_ts(p.dayEnd + 1, z) = p.dayEnd + 1
            /\ get_month_ts(p.monthEnd + 1, z) = p.monthEnd + 1
            /\ get_month_end_ts(p.month, z) = p.monthEnd

\* The days, hours, minutes and seconds of an interval that is written for
\* people add up to it, and none could be written as one of the larger units:
\* hours are below 24, minutes and seconds below 60.
HumanAddsUp ==
    Returned("human") =>
        LET r == result[1]
        IN  /\ FoldLeft(LAMBDA sum, u : sum + u[1] * u[2], r.rest, r.units) = call.arg % 1000000
            /\ r.rest \in 0..59
            /\ \A i \in DOMAIN r.units : r.units[i][1] > 0 /\ (r.units[i][2] = 3600 => r.units[i][1] < 24)
                                        /\ (r.units[i][2] = 60 => r.units[i][1] < 60)

\* The helpers of texts, numbers, times and settings lose and invent nothing:
\* what one writes the other reads back, and what a type cannot hold is
\* refused.
HelpersExact ==
    /\ SplitLosesNothing /\ QueryReadBack /\ Base64ReadBack /\ NumberExact
    /\ StampReadBack /\ PeriodsTile /\ HumanAddsUp /\ DumpReadBack

\* What one thread replaces while others use it is whole for them, as far as
\* the steps of the code allow: between two readings of the file the level is
\* that of the settings in force; a reader who asks for the version and then
\* gets the list has all the rows of one query; and a counter object in use
\* loses no id, while loads that do not overlap lose none at all.
WholeForReaders == LevelFollows /\ ListWhole /\ CountersKept

\* exec(ParamQuery) executes the rows that are not empty, in their order, up
\* to the first that is short, long or refused, and throws exactly if there is
\* one: no row is executed with parameters of another.
RowsExecuted ==
    Returned("exec") =>
        LET rows == SelectSeq(rows_(call.arg), LAMBDA r : r # <<>>)
            Bad(r) == Len(r) # 2 \/ r = <<"c", "c">>
            bad == {i \in DOMAIN rows : Bad(rows[i])}
            upto == IF bad = {} THEN Len(rows) ELSE Min(bad) - 1
        IN  result[1] = [done |-> SubSeq(rows, 1, upto), threw |-> bad # {}]

\* After a pull the destination has, of the keys asked for (all of them when
\* 0 is among the ids or the table has no key), exactly the rows of the source
\* that the table's own condition admits, and its other rows as they were.
PulledExactly ==
    Returned("pull") =>
        LET full == ~call.keyed \/ 0 \in call.ids
            asked == IF full THEN Keys ELSE call.ids
            admitted == IF call.where = <<>> THEN Keys ELSE call.where[1]
            dst == result[1]
        IN  \A k \in Keys :
                IF k \in asked
                THEN /\ k \in DOMAIN dst <=> k \in DOMAIN call.src /\ k \in admitted
                     /\ k \in DOMAIN dst => dst[k] = call.src[k]
                ELSE /\ k \in DOMAIN dst <=> k \in DOMAIN call.dst
                     /\ k \in DOMAIN dst => dst[k] = call.dst[k]

\* Selecting value by value, reducing, uniting and reducing again yields the
\* rows that one select for all the values reduced once would; a list in
\* brackets without blanks that has a value is never refused.
ReducedOnce ==
    Returned("select") =>
        LET s == call.arg
            words == {SubSeq(s, i, j) : i, j \in DOMAIN s}
            asked == {w \in words : /\ w # <<>> /\ \A k \in DOMAIN w : IsDigit(w[k])
                                    /\ \E i \in DOMAIN s, j \in DOMAIN s :
                                          /\ w = SubSeq(s, i, j)
                                          /\ ~(i > 1 /\ IsDigit(s[i - 1])) /\ ~(j < Len(s) /\ IsDigit(s[j + 1]))}
        IN  /\ result[1] # <<>> =>
                  result[1][1] = reduced({id \in DOMAIN call.table : call.table[id] \in asked}, call.limit)
            /\ SPACE \notin Range(s) /\ s # <<>> /\ s[1] = OPEN /\ s[Len(s)] = CLOSE /\ asked # {} => result[1] # <<>>

\* A column is read into the field of its name, and only there, without loss:
\* the whole range of its type, and NULL as nothing.
RowsRead ==
    Returned("row") =>
        LET item == result[1]
            f == Fields(call.kind)
        IN  /\ CASE call.getter = "s" -> item[call.field] = call.cell
                 [] call.getter = "b" -> item[call.field] <=> call.cell = <<116>>
                 [] OTHER -> item[call.field] = Signed(call.cell)
            /\ \A n \in DOMAIN item \ {call.field} :
                  CASE n \in f.s -> item[n] = <<>> [] n \in f.b -> ~item[n] [] OTHER -> item[n] = 0

\* The indices of a list find the last leg of a uniqueid, all the links of a
\* caller in their order, every call that is on a line, and the latest start.
IndicesFind ==
    Returned("list") =>
        LET rows == call.arg
            r == result[1]
        IN  /\ \A u \in Keys :
                  LET legs == SelectSeq(rows, LAMBDA x : x.uniqueid = u)
                  IN  /\ r.leg[u] = IF legs = <<>> THEN <<>> ELSE <<legs[Len(legs)]>>
                      /\ r.links[u] = SelectSeq(rows, LAMBDA x : x.uniqueid_orig = u)
                      /\ u \in r.online <=> \E x \in Range(rows) : u \in {x.uniqueid_orig, x.uniqueid_term}
            /\ rows # <<>> => r.last = Max({x.link_start_time : x \in Range(rows)})

\* What is sent to the databases is what was asked for, and what they answer
\* is what the lists hold.
StatementsExact == RowsExecuted /\ PulledExactly /\ ReducedOnce /\ RowsRead /\ IndicesFind

\* A call is reported by what it is made of, not by the order in which its
\* links and legs were joined: the link with the highest id that decides
\* anything decides the event, the call ends with a leg that began last among
\* those that legs name, every named leg is called, a missing one first, and
\* every value stands in the column of its own name.  Of the row of legs only
\* what comes from the caller is claimed when no leg names another: the rest
\* is then read from the front of an empty vector.
CallReported ==
    Returned("report") =>
        LET rec == call.arg
            r == result[1].r
            voip == inserted(voip_header, voip_dump, result[1].voip)
            caller == CHOOSE l \in Range(rec.legs) : l.orig
            links == {l \in Range(rec.links) : l.uniqueid_orig = caller.uniqueid}
            Type(id) == IF id \in DOMAIN rec.legs THEN rec.legs[id].object_type ELSE ""
            decisive == IF caller.object_type \in {"pstn", "webcall", "missed_call_callback"}
                        THEN {l \in links : Type(l.uniqueid_term) = "pstn"} ELSE links
            last_ == CHOOSE l \in decisive : \A k \in decisive : k.id <= l.id
            namers == {k \in DOMAIN rec.legs : rec.legs[k].last_linked_id # 0}
            Missing(k) == rec.legs[k].last_linked_id \notin DOMAIN rec.legs
            named == {rec.legs[rec.legs[k].last_linked_id] : k \in {n \in namers : ~Missing(n)}}
        IN  /\ DOMAIN voip = Range(voip_dump) /\ \A c \in DOMAIN voip : voip[c] = result[1].voip[c]
            /\ voip["voip_event"] = CASE decisive = {} -> IF caller.object_type = "pstn" THEN "incoming" ELSE "uncknown"
                                      [] decisive # {} -> IF Type(last_.uniqueid_term) = "pstn" THEN "outgoing"
                                                          ELSE "internal"
            /\ voip["begin_connection_time"] = caller.start_time
            /\ named # {} => \E l \in named : /\ voip["end_connection_time"] = l.stop_time
                                              /\ \A k \in named : k.start_time <= l.start_time
            /\ Len(r.b) = Cardinality(namers) /\ named \subseteq Range(r.b)
            /\ \A i \in 1..Cardinality({k \in namers : Missing(k)}) : r.b[i] = NoLeg
            /\ LET row_ == inserted(legs_header, legs_dump, result[1].legs)
               IN  /\ row_["start_time"] = caller.start_time /\ row_["uniqueid"] = caller.uniqueid
                   /\ namers # {} => row_["object_type_l"] = r.b[1].object_type
=============================================================================
