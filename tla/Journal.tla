------------------------------ MODULE Journal -------------------------------
(***************************************************************************)
(* What is logged and where it goes: the calls of log.hpp make messages of *)
(* their arguments, the log thread keeps them until it is flushed, and the *)
(* handlers of start_log write them: four files, each for one destination, *)
(* and graylog.  (Module LogInstance has the queue and the delays; here    *)
(* messages are undelayed and the queue is drained at once.)               *)
(***************************************************************************)
EXTENDS Integers, Sequences, SequencesExt

CONSTANTS
    ArgLists,         \* sequences of arguments: [k, v]
    Openable,         \* sets of destinations: whose files a flush may be able to open
    MaxLogged         \* bound on the calls that log

ASSUME JournalAssumption == MaxLogged \in Nat

\* enum log_message_level in its order: an error is less urgent than a warning.
log_message_levels == <<"CRITICAL", "WARNING", "ERROR", "NOTICE", "INFO", "VERBOSE", "DEBUG">>
Rank(level) == CHOOSE i \in DOMAIN log_message_levels : log_message_levels[i] = level
Passes(level, global) == Rank(level) <= Rank(global)
log_message_destination == {"ANY", "SMS", "VOICE", "DATA"}

VARIABLES
    level_,           \* log_level()
    messages_,        \* what the log thread keeps
    files,            \* per destination: the lines of its file
    graylog,          \* messages the server was sent
    path2file_,       \* destinations whose writer has a path; none before start_log
    configured,       \* graylog_host and graylog_port are set
    logged,           \* calls that log, so far
    sent,             \* history: every message made
    lost              \* history: destinations whose file could not be opened for a flush

journalVars == <<level_, messages_, files, graylog, path2file_, configured, logged, sent, lost>>

JournalInit ==
    /\ level_ = "DEBUG" /\ messages_ = <<>> /\ graylog = <<>> /\ logged = 0 /\ sent = <<>> /\ lost = {}
    /\ files = [d \in log_message_destination |-> <<>>]
    /\ path2file_ = {} /\ configured = FALSE

\* start_log: log/file may be empty, and is so by default; the other three
\* paths are put together from its parts and never are.
start_log ==
    /\ path2file_ = {}
    /\ path2file_' \in {log_message_destination, log_message_destination \ {"ANY"}}
    /\ configured' \in BOOLEAN
    /\ UNCHANGED <<level_, messages_, files, graylog, logged, sent, lost>>

\* place_argument, and allow<level>, behind which the stream takes nothing
place_argument(mes, arg, global) ==
    CASE arg.k = "parameters" -> [mes EXCEPT !.json = @ \cup arg.v]
      [] arg.k = "destination" -> [mes EXCEPT !.destination = arg.v]
      [] arg.k = "allow" -> [mes EXCEPT !.failed = @ \/ ~Passes(arg.v, global)]
      [] OTHER -> IF mes.failed THEN mes ELSE [mes EXCEPT !.text = Append(@, arg.v)]

\* log_impl: the arguments in their order; the message has a number to tell
\* it from others.
placed(args, global) ==
    FoldLeft(LAMBDA mes, arg : place_argument(mes, arg, global),
             [text |-> <<>>, json |-> {}, destination |-> "ANY", failed |-> FALSE], args)
message(n, level, mes) ==
    [no |-> n, level |-> level, text |-> mes.text, json |-> mes.json, destination |-> mes.destination]

\* debug ... critical
log_impl(level, args) ==
    /\ path2file_ # {} /\ logged < MaxLogged /\ logged' = logged + 1
    /\ IF ~Passes(level, level_) THEN UNCHANGED <<messages_, sent>>
       ELSE LET mes == message(Len(sent) + 1, level, placed(args, level_))
            IN  messages_' = Append(messages_, mes) /\ sent' = Append(sent, mes)
    /\ UNCHANGED <<level_, files, graylog, path2file_, configured, lost>>

set_log_level(level) ==
    /\ level # level_
    /\ level_' = level
    /\ UNCHANGED <<messages_, files, graylog, path2file_, configured, logged, sent, lost>>

\* The elements of s at the places in I, in their order.
Picked(s, I) ==
    LET kept[n \in 0..Len(s)] == IF n = 0 THEN <<>>
                                 ELSE IF n \in I THEN Append(kept[n - 1], s[n]) ELSE kept[n - 1]
    IN  kept[Len(s)]

For(destination, s) == Picked(s, {i \in DOMAIN s : s[i].destination = destination})
WithParameters(s) == Picked(s, {i \in DOMAIN s : s[i].json # {}})

\* Mutant: a file takes what is for every destination, too.
written_AnyToo(destination, opened) ==
    IF destination \notin path2file_ \cap opened THEN <<>>
    ELSE Picked(messages_, {i \in DOMAIN messages_ : messages_[i].destination \in {destination, "ANY"}})

\* file_log_writer::on_log: nothing without a path, and nothing into a file
\* that cannot be opened, which the stream does not tell.
written(destination, opened) ==
    IF destination \notin path2file_ \cap opened THEN <<>> ELSE For(destination, messages_)

\* graylog_writer::on_log sends what has parameters.
notable == WithParameters(messages_)

Unreachable == <<[k |-> "text", v |-> "Unable connect to graylog"]>>

\* A flush: every handler in turn.  Without a host or a port graylog is left
\* out; a server that cannot be reached is one more error in the log, which
\* waits for the next flush.
flush(reachable, opened) ==
    /\ messages_ # <<>>
    /\ files' = [d \in log_message_destination |-> files[d] \o written(d, opened)]
    /\ lost' = lost \cup (log_message_destination \ (path2file_ \cap opened))
    /\ IF ~configured \/ reachable
       THEN /\ graylog' = IF configured THEN graylog \o notable ELSE graylog
            /\ messages_' = <<>> /\ UNCHANGED <<logged, sent>>
       ELSE /\ logged < MaxLogged /\ logged' = logged + 1
            /\ LET mes == message(Len(sent) + 1, "ERROR", placed(Unreachable, level_))
               IN  IF Passes("ERROR", level_) THEN messages_' = <<mes>> /\ sent' = Append(sent, mes)
                   ELSE messages_' = <<>> /\ UNCHANGED sent
            /\ UNCHANGED graylog
    /\ UNCHANGED <<level_, path2file_, configured>>

JournalNext ==
    \/ \E l \in {"CRITICAL", "WARNING", "ERROR", "INFO"}, args \in ArgLists : log_impl(l, args)
    \/ \E l \in {"WARNING", "ERROR"} : set_log_level(l)
    \/ start_log
    \/ \E reachable \in BOOLEAN, opened \in Openable : flush(reachable, opened)
-----------------------------------------------------------------------------
(* Properties. *)

\* Every message made is, in the order of the calls, in the file of its
\* destination and in no other, or waits for the flush, as long as that file
\* could be opened at every flush; the server is sent only messages with
\* parameters, each once and in order.  Otherwise messages are dropped without
\* a word, but never into a wrong file or out of order; without a path the
\* log is silent, and without a host or a port so is the server.
EachInItsFile ==
    /\ \A d \in log_message_destination \ lost : files[d] \o For(d, messages_) = For(d, sent)
    /\ \A d \in log_message_destination :
          /\ \A i \in DOMAIN files[d] : files[d][i].destination = d
          /\ \A i, j \in DOMAIN files[d] : i < j => files[d][i].no < files[d][j].no
          /\ d \notin path2file_ => files[d] = <<>>
    /\ ~configured => graylog = <<>>
    /\ \A i \in DOMAIN graylog : graylog[i].json # {}
    /\ \A i, j \in DOMAIN graylog : i < j => graylog[i].no < graylog[j].no
=============================================================================
