------------------------------ MODULE Settings ------------------------------
(***************************************************************************)
(* The settings: a JSON file read over the defaults, kept as the shared    *)
(* instance, dumped for the config page.  A file is read again with        *)
(* read_settings(""), by the path of the instance.                         *)
(*                                                                         *)
(* A JSON value is a record of its type and value; of a number only the    *)
(* width it needs and an identity are kept, for the widths decide what is  *)
(* accepted.  jsoncpp is external.                                         *)
(***************************************************************************)
EXTENDS Integers, Sequences, FiniteSets

CONSTANT Files        \* settings files: [readable, root]

Text(x) == [t |-> "string", w |-> 0, v |-> <<x>>]
Num(w, x) == [t |-> "number", w |-> w, v |-> <<x>>]      \* w = 16, 32, 64; 0: negative or too wide
Flag(b) == [t |-> "bool", w |-> 0, v |-> <<IF b THEN "true" ELSE "false">>]
List(s) == [t |-> "array", w |-> 0, v |-> s]             \* NotString: an element that is no string
NotString == "(not a string)"

\* The members of settings_impl, by the type they are read as.
UShorts == {"web_port", "log/graylog_port"}
Unsigneds == {"threads_count", "max_call_time", "table_reload_time", "max_queue_size",
              "db/sql_insert_buffer_size", "db/read_threshold_second", "db/read_waiting_second",
              "instanceId", "thread/max_loader_threads_count"}
Sizes == {"db/bandwidth", "thread/sync_period"}
Numbers == UShorts \cup Unsigneds \cup Sizes
Strings == {"db/source_connection_string", "db/output_connection_string", "log/file",
            "log/graylog_source", "log/graylog_host", "instanceName", "log/level", "type"}
sequence == Numbers \cup Strings \cup {"use_core_dump", "db/online_connection_string"}

Width(o) == CASE o \in UShorts -> 16 [] o \in Unsigneds -> 32 [] OTHER -> 64

\* settings_impl as it is constructed
settings_impl ==
    [o \in sequence |->
        CASE o \in UShorts -> Num(16, "default")
          [] o \in Unsigneds -> Num(IF o = "db/sql_insert_buffer_size" THEN 32 ELSE 16, "default")
          [] o = "db/bandwidth" -> Num(64, "max")
          [] o = "thread/sync_period" -> Num(16, "default")
          [] o = "log/level" -> Text("DEBUG")
          [] o \in Strings \ {"log/level"} -> Text("default")
          [] o = "use_core_dump" -> Flag(TRUE)
          [] o = "db/online_connection_string" -> List(<<>>)]

\* The objects options are in; looking into one that is no object throws.
Groups == {"db", "log", "thread"}

VARIABLES
    instance_,        \* settings::instance_: <<>> before the first read, or <<settings>>
    global_log_level,
    reading           \* read_settings has assigned the instance and not yet set the level

settingsVars == <<instance_, global_log_level, reading>>

SettingsInit == instance_ = <<>> /\ global_log_level = "DEBUG" /\ reading = FALSE
-----------------------------------------------------------------------------
(* parse: a root has the options that are not null, and the groups that are *)
(* there and no objects.                                                    *)

\* read_json and the cast: the value, or nothing when an exception is thrown.
\* A number in quotes is one, for asUInt comes before the test for a string.
read_json(o, j) ==
    CASE o \in Numbers /\ j.t = "number" -> IF j.w \in 1..Width(o) THEN <<j>> ELSE <<>>
      [] o \in Numbers /\ j.t = "bool" -> <<Num(16, IF j = Flag(TRUE) THEN "one" ELSE "zero")>>
      [] o \in Strings /\ j.t \in {"string", "number", "bool"} -> <<Text(j.v[1])>>
      [] o = "use_core_dump" /\ j.t = "bool" -> <<j>>
      [] o = "use_core_dump" /\ j.t = "number" -> <<Flag(j.v # <<"zero">>)>>
      [] o = "db/online_connection_string" ->
            <<List(IF j.t = "array" THEN SelectSeq(j.v, LAMBDA e : e # NotString) ELSE <<>>)>>
      [] OTHER -> <<>>

\* find_json and read_json for every member, into a settings_impl of its own
parse_object(root) ==
    LET given == sequence \cap DOMAIN root.options
    IN  IF root.scalars # {} \/ \E o \in given : read_json(o, root.options[o]) = <<>>
        THEN <<>>
        ELSE <<[o \in sequence |-> IF o \in given THEN read_json(o, root.options[o])[1]
                                   ELSE settings_impl[o]]>>

\* Mutant: an array of strings is written as one.
dump_Joins(s) ==
    [options |-> [o \in sequence |-> IF s[o].t = "array" /\ s[o].v # <<>> THEN Text(s[o].v[1]) ELSE s[o]],
     scalars |-> {}]

\* dump_object: every member at its path, a vector as an array
dump(s) == [options |-> s, scalars |-> {}]

LevelNames == {"DEBUG", "VERBOSE", "INFO", "NOTICE", "WARNING", "ERROR", "CRITICAL"}

\* What is no name of a level stands for INFO.
parse_log_level(text) == IF text \in LevelNames THEN text ELSE "INFO"

\* A file that cannot be read, or is no JSON, leaves what there is.
Backup == IF instance_ # <<>> THEN instance_[1] ELSE settings_impl

\* Mutant: a read that fails half-way has already set the level.
read_settings_LevelFirst(file) ==
    /\ ~reading /\ file.readable /\ "log/level" \in DOMAIN file.root.options
    /\ reading' = FALSE
    /\ global_log_level' = parse_log_level(file.root.options["log/level"].v[1])
    /\ instance_' = IF parse_object(file.root) # <<>> THEN parse_object(file.root) ELSE <<Backup>>

\* settings::parse and the assignment.  When parse_object throws nothing is
\* assigned, neither the instance nor, later, the level.
read_settings(file) ==
    /\ ~reading
    /\ \/ /\ ~file.readable
          /\ instance_' = <<Backup>> /\ reading' = TRUE
       \/ /\ file.readable /\ parse_object(file.root) # <<>>
          /\ instance_' = parse_object(file.root) /\ reading' = TRUE
       \/ /\ file.readable /\ parse_object(file.root) = <<>>
          /\ UNCHANGED <<instance_, reading>>
    /\ UNCHANGED global_log_level

\* set_log_level, with the level of the instance as it is by then
SetsLevel ==
    /\ reading /\ reading' = FALSE
    /\ global_log_level' = parse_log_level(instance_[1]["log/level"].v[1])
    /\ UNCHANGED instance_

SettingsNext == SetsLevel \/ \E file \in Files : read_settings(file)
-----------------------------------------------------------------------------
(* The config page masks three strings of the dump. *)

settings_masks == {"db/source_connection_string", "db/output_connection_string",
                   "db/online_connection_string"}

\* replace: asString of an array throws, so the page is never written.
config_view_throws(s) == \E o \in settings_masks : s[o].t = "array"

-----------------------------------------------------------------------------
(* Properties. *)

\* Once read_settings is over the level in force is the level of the settings
\* in force, whatever reads failed in between.  (While it runs others see the
\* new settings with the old level.)
LevelFollows ==
    instance_ # <<>> /\ ~reading => global_log_level = parse_log_level(instance_[1]["log/level"].v[1])

\* Settings written by dump and read again are the same settings, whatever
\* types the options had in the file they came from.
DumpReadBack == instance_ # <<>> => parse_object(dump(instance_[1])) = instance_
=============================================================================
