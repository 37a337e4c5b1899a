----------------------------- MODULE MCHelpers ------------------------------
(* Texts short enough to enumerate, dates around the ends of months, years    *)
(* and leap years, files with every kind of mistake.                          *)
EXTENDS Helpers

MCSplitTexts == UNION {[1..n -> {97, AMP}] : n \in 0..5}
MCValues == UNION {[1..n -> {97, AMP, EQ, PERCENT, PLUS, SPACE}] : n \in 0..2}
MCQueries == UNION {[1..n -> {<<97>>, <<AMP>>} \X MCValues] : n \in 1..1}
             \cup {<<p, q>> : p \in {<<97>>, <<AMP>>} \X {<<>>, <<EQ>>}, q \in {<<97>>, <<98, EQ>>} \X MCValues}
MCByteTexts == UNION {[1..n -> {0, 77, 255}] : n \in 0..5}
MCNumberTexts == UNION {[1..n -> {MINUS, 48, 51, 57, SPACE}] : n \in 0..3}

\* Noon, and the seconds around midnight, of days before and after a change.
MCMoments ==
    {86400 * (YearDay(y) + d) + s : y \in {1970, 1999, 2000, 2020, 2023}, s \in {0, 1, 43200, 86399},
                                    d \in {1, 30, 31, 58, 59, 60, 181, 304, 364}}
MCYears == 1969..2030
MCZones == {-8, 0, 3}

MCRoot(options) == [options |-> options, scalars |-> {}]
MCFiles ==
    {[readable |-> FALSE, root |-> MCRoot([o \in {} |-> 0])],
     [readable |-> TRUE, root |-> [options |-> [o \in {} |-> 0], scalars |-> {"db"}]]}
    \cup {[readable |-> TRUE, root |-> MCRoot([o \in {n, "log/level"} |-> IF o = n THEN j ELSE Text(l)])] :
             n \in {"web_port", "max_call_time", "db/bandwidth", "instanceName", "use_core_dump",
                    "db/online_connection_string"},
             j \in {Num(0, "a"), Num(16, "zero"), Num(32, "a"), Num(64, "a"), Text("a"), Flag(TRUE),
                    List(<<"a", NotString, "b">>)},
             l \in {"INFO", "loud"}}

MCParamCalls == UNION {[1..n -> {"a", "c", EndRow}] : n \in 0..7}

MCKeyLists == UNION {[1..n -> {COMMA, SPACE, 49, 50}] : n \in 0..4}
MCKeyValues ==
    {<<OPEN>> \o l \o <<CLOSE>> : l \in MCKeyLists}
    \cup {<<>>, <<OPEN>>, <<49, CLOSE>>, <<OPEN, 49>>, <<SPACE, OPEN, 49, CLOSE, SPACE>>}

\* The caller is leg 1; legs 2 and 3 were joined if they are there, 9 was not.
MCLeg(id, type, start_, linked) ==
    [NoLeg EXCEPT !.uniqueid = id, !.orig = (id = 1), !.object_type = type, !.start_time = start_,
                  !.stop_time = 10 * start_ + id, !.last_linked_id = linked, !.did = id,
                  !.number = IF id = 2 THEN <<39, 97>> ELSE <<>>, !.account_id = IF id = 3 THEN 7 ELSE 0,
                  !.final_status = "done"]
MCLinks == {s \in UNION {[1..n -> {[id |-> i, uniqueid_orig |-> 1, uniqueid_term |-> <<2, 3, 9>>[i]] : i \in 1..3}] : n \in 0..3} :
               \A i, j \in DOMAIN s : s[i] = s[j] => i = j}
MCJoined == {<<>>} \cup {<<t, s, l>> : t \in {"pstn", "sip"}, s \in 2..3, l \in {0, 3}}
MCLegs ==
    {[id \in {1} \cup (IF two = <<>> THEN {} ELSE {2}) \cup (IF three = <<>> THEN {} ELSE {3}) |->
        CASE id = 1 -> MCLeg(1, t, 1, l)
          [] id = 2 -> MCLeg(2, two[1], two[2], two[3])
          [] id = 3 -> MCLeg(3, three[1], three[2], 0)] :
     t \in {"pstn", "sip", "webcall", "missed_call_callback"}, l \in {0, 2, 3, 9}, two \in MCJoined,
     three \in {m \in MCJoined : m = <<>> \/ m[3] = 0}}
MCRecords ==
    {r \in [legs : MCLegs, links : MCLinks] :
        DOMAIN r.legs \ {1} \subseteq {l.uniqueid_term : l \in Range(r.links)}}
\* Up to three rows of legs and links, the keys of the tables in their order.
MCListRows ==
    UNION {{[i \in 1..n |-> [id |-> i, uniqueid |-> a[i], uniqueid_orig |-> b[i], uniqueid_term |-> 3 - a[i],
                             link_start_time |-> c[i]]] :
               a \in [1..n -> 1..2], b \in [1..n -> {1, 3}], c \in [1..n -> 1..2]} : n \in 0..3}
MCArgLists ==
    {<<[k |-> "text", v |-> "t"]>>,
     <<[k |-> "parameters", v |-> {"p"}], [k |-> "destination", v |-> "SMS"], [k |-> "text", v |-> "t"]>>,
     <<[k |-> "text", v |-> "t"], [k |-> "allow", v |-> "VERBOSE"], [k |-> "text", v |-> "u"],
       [k |-> "parameters", v |-> {}]>>,
     <<[k |-> "destination", v |-> "DATA"], [k |-> "destination", v |-> "VOICE"]>>}
MCOpenable == {log_message_destination, {"ANY", "VOICE", "DATA"}}
=============================================================================
