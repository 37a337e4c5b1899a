------------------------------ MODULE DataLists -----------------------------
(***************************************************************************)
(* What rows become: the items of the lists (ObjList and its four kinds)   *)
(* with their indices, the list that a BaseDataImpl replaces while others  *)
(* read it, and the counters a CountersLoader keeps up to date.            *)
(*                                                                         *)
(* A cell is the text PostgreSQL writes; a NULL is read as an empty text.  *)
(***************************************************************************)
EXTENDS Text, FiniteSets

CONSTANTS
    Loaders,          \* threads that load a list
    RowCounts,        \* numbers of rows a load can find
    MaxLoads,         \* bound on the loads of the list, and of the counters
    CounterIds        \* ids of counters

ASSUME ListAssumption == RowCounts \subseteq Nat /\ MaxLoads \in Nat
-----------------------------------------------------------------------------
(* The getters of a BDbResult. *)

get_s(cell) == cell
get_b(cell) == cell # <<>> /\ cell[1] = 116     \* 't'
get_i(cell) == static_cast(FALSE, strto(FALSE, cell).value)     \* atoi

\* Mutant: atoi once more.
get_ll_Int(cell) == get_i(cell)

get_ll(cell) == strto(FALSE, cell).value        \* atoll
-----------------------------------------------------------------------------
(* The fields of an item, by the getter that reads them.  A field is read   *)
(* from the column of its name; the key of either table is called id here.  *)

CallLegOnlineFields ==
    [s |-> {"uniqueid", "channame", "start_time", "answer_time", "stop_time", "final_status", "hangup_cause",
            "number", "name", "did_type", "object_type", "sip_ip", "last_linked_id", "sip_call_hash_id",
            "extra_info_id"},
     b |-> {"orig"}, i |-> {"account_id", "vpbx_id", "q931_status", "object_id"}, ll |-> {"did"}]

CallLegFields ==
    [CallLegOnlineFields EXCEPT !.s = @ \cup {"call_id_md5"}, !.i = @ \cup {"server_id"}, !.ll = @ \cup {"id"}]

CallLegLinkOnlineFields ==
    [s |-> {"uniqueid_orig", "channame_orig", "uniqueid_term", "channame_term", "link_start_time",
            "link_answer_time", "link_end_time", "rec_filename", "status", "cf", "trf_by", "queue_callid",
            "object_type", "object_data"},
     b |-> {"bridged"}, i |-> {}, ll |-> {}]

CallLegLinkFields == [CallLegLinkOnlineFields EXCEPT !.i = {"server_id"}, !.ll = {"id"}]

Fields(kind) ==
    CASE kind = "call_leg" -> CallLegFields [] kind = "call_leg_online" -> CallLegOnlineFields
      [] kind = "call_leg_link" -> CallLegLinkFields [] kind = "call_leg_link_online" -> CallLegLinkOnlineFields

FieldNames(kind) == UNION {Fields(kind)[g] : g \in DOMAIN Fields(kind)}

parse_item(kind, cells) ==
    LET f == Fields(kind)
    IN  [n \in FieldNames(kind) |->
            CASE n \in f.s -> get_s(cells[n]) [] n \in f.b -> get_b(cells[n])
              [] n \in f.i -> get_i(cells[n]) [] n \in f.ll -> get_ll(cells[n])]
-----------------------------------------------------------------------------
(* after_load.  A list object is loaded once, so it starts without indices. *)

\* CallLegList: of two legs with one uniqueid the later is found.
records_(legs) ==
    FoldLeft(LAMBDA index, l : [u \in DOMAIN index \cup {l.uniqueid} |-> IF u = l.uniqueid THEN l ELSE index[u]],
             [u \in {} |-> <<>>], legs)

\* nullptr is <<>>.
getByUniqueId(legs, uniqueid) ==
    LET index == records_(legs) IN IF uniqueid \in DOMAIN index THEN <<index[uniqueid]>> ELSE <<>>

\* CallLegLinkList; the front of no links is whatever is there.
lastTime_(links, garbage) ==
    FoldLeft(LAMBDA last, l : IF last < l.link_start_time THEN l.link_start_time ELSE last,
             IF links = <<>> THEN garbage ELSE links[1].link_start_time, links)

origRecords_(links) ==
    FoldLeft(LAMBDA index, l :
                 [u \in DOMAIN index \cup {l.uniqueid_orig} |->
                     IF u # l.uniqueid_orig THEN index[u] ELSE IF u \in DOMAIN index THEN Append(index[u], l) ELSE <<l>>],
             [u \in {} |-> <<>>], links)

getByUniqueIdOrig(links, uniqueid) ==
    LET index == origRecords_(links) IN IF uniqueid \in DOMAIN index THEN index[uniqueid] ELSE <<>>

\* CallLegLinkOnlineList::uniqueid_check
uniqueid_check(links, uniqueid) == uniqueid \in UNION {{l.uniqueid_orig, l.uniqueid_term} : l \in Range(links)}
-----------------------------------------------------------------------------
VARIABLES
    base,             \* BaseDataImpl: [state, data, version]; data is <<>> (null) or <<list>>
    global_data_version,
    loading,          \* per loader: <<>>, or <<its LoadingTransaction>>
    loads,            \* loads begun
    seen,             \* a reader: [version, data, after]; after: the list was got after the version
    raced,            \* history: the pointer to the list was copied or replaced while it was being replaced
    counters,         \* the counter objects made so far: each a function of ids
    counter_,         \* which of them is the loader's; 0 is none
    counting,         \* per loader: <<>>, or <<its CountersLoader::load>>
    kept,             \* the object a reader has got: <<>>, or <<[counter, ids]>>
    counted,          \* history: per id, what the last load that asked for it found
    overlapped        \* history: a load of counters has begun during another

listVars == <<base, global_data_version, loading, loads, seen, raced>>
counterVars == <<counters, counter_, counting, kept, counted, overlapped>>
dataVars == <<listVars, counterVars>>

NoCounters == [i \in {} |-> 0]

DataInit ==
    /\ base = [state |-> "NOT_LOADED", data |-> <<>>, version |-> 0]
    /\ global_data_version = 1 /\ loads = 0 /\ raced = FALSE
    /\ seen = [version |-> 0, data |-> <<>>, after |-> FALSE]
    /\ loading = [t \in Loaders |-> <<>>]
    /\ counters = <<>> /\ counter_ = 0 /\ kept = <<>> /\ counted = NoCounters
    /\ counting = [t \in Loaders |-> <<>>] /\ overlapped = FALSE

At(t, where) == loading[t] # <<>> /\ loading[t][1].at = where
Step(t, where) == loading' = [loading EXCEPT ![t][1].at = where]

\* LoadingTransaction: the new list is made, and the state is tested; a load
\* within a load throws and changes nothing.
Begins(t) ==
    /\ loading[t] = <<>> /\ loads < MaxLoads /\ base.state # "LOADING"
    /\ loads' = loads + 1
    /\ loading' = [loading EXCEPT ![t] = <<[at |-> "tested", newState |-> "NOT_LOADED",
                                            list |-> [load |-> loads', rows |-> -1, parsed |-> 0]]>>]
    /\ UNCHANGED <<base, global_data_version, seen, raced>>

StartsLoading(t) ==
    /\ At(t, "tested") /\ Step(t, "query")
    /\ base' = [base EXCEPT !.state = "LOADING"]
    /\ UNCHANGED <<global_data_version, loads, seen, raced>>

\* ObjList::load: data.resize(res.size()), or the query throws
QueryReturns(t) ==
    /\ At(t, "query")
    /\ \E n \in RowCounts :
          loading' = [loading EXCEPT ![t][1] = [@ EXCEPT !.at = "rows", !.list.rows = n]]
    /\ UNCHANGED <<base, global_data_version, loads, seen, raced>>

QueryThrows(t) ==
    /\ At(t, "query") /\ Step(t, "end")
    /\ UNCHANGED <<base, global_data_version, loads, seen, raced>>

ParsesItem(t) ==
    /\ At(t, "rows") /\ loading[t][1].list.parsed < loading[t][1].list.rows
    /\ loading' = [loading EXCEPT ![t][1].list.parsed = @ + 1]
    /\ UNCHANGED <<base, global_data_version, loads, seen, raced>>

setCompleted(t) ==
    /\ At(t, "rows") /\ loading[t][1].list.parsed = loading[t][1].list.rows
    /\ loading' = [loading EXCEPT ![t][1] = [@ EXCEPT !.at = "end", !.newState = "LOADED"]]
    /\ UNCHANGED <<base, global_data_version, loads, seen, raced>>

\* ~LoadingTransaction, which is not locked: the state, the list, its version.
\* Mutant: the list is stored whether the load was completed or not.
EndsLoading_Stores(t) ==
    /\ At(t, "end") /\ Step(t, "store")
    /\ base' = [base EXCEPT !.state = loading[t][1].newState]
    /\ UNCHANGED <<global_data_version, loads, seen, raced>>

EndsLoading(t) ==
    /\ At(t, "end")
    /\ base' = [base EXCEPT !.state = loading[t][1].newState]
    /\ IF loading[t][1].newState = "LOADED" THEN Step(t, "store") ELSE loading' = [loading EXCEPT ![t] = <<>>]
    /\ UNCHANGED <<global_data_version, loads, seen, raced>>

\* The pointer is replaced word by word and without a lock: whoever copies or
\* replaces it meanwhile has a pointer that nothing is known of, and the model
\* ends there.
StoreBegins(t) ==
    /\ At(t, "store") /\ Step(t, "storing")
    /\ raced' = \E u \in Loaders : At(u, "storing")
    /\ UNCHANGED <<base, global_data_version, loads, seen>>

StoresData(t) ==
    /\ At(t, "storing") /\ Step(t, "version")
    /\ base' = [base EXCEPT !.data = <<loading[t][1].list>>]
    /\ UNCHANGED <<global_data_version, loads, seen, raced>>

\* Mutant: the number is read, not fetched: two lists have one version.
StoresVersion_Reads(t) ==
    /\ At(t, "version")
    /\ base' = [base EXCEPT !.version = global_data_version]
    /\ loading' = [loading EXCEPT ![t] = <<>>]
    /\ UNCHANGED <<global_data_version, loads, seen, raced>>

\* fetch_data_version
StoresVersion(t) ==
    /\ At(t, "version")
    /\ base' = [base EXCEPT !.version = global_data_version]
    /\ global_data_version' = global_data_version + 1
    /\ loading' = [loading EXCEPT ![t] = <<>>]
    /\ UNCHANGED <<loads, seen, raced>>

\* version() and get(), which a reader calls in either order
AsksVersion ==
    /\ seen' = [seen EXCEPT !.version = base.version, !.after = FALSE]
    /\ UNCHANGED <<base, global_data_version, loading, loads, raced>>

GetsList ==
    /\ seen' = [seen EXCEPT !.data = base.data, !.after = TRUE]
    /\ raced' = \E t \in Loaders : At(t, "storing")
    /\ UNCHANGED <<base, global_data_version, loading, loads>>

ListNext ==
    /\ ~raced
    /\ \/ AsksVersion \/ GetsList
       \/ \E t \in Loaders :
             \/ Begins(t) \/ StartsLoading(t) \/ QueryReturns(t) \/ QueryThrows(t) \/ ParsesItem(t)
             \/ setCompleted(t) \/ EndsLoading(t) \/ StoreBegins(t) \/ StoresData(t) \/ StoresVersion(t)
    /\ UNCHANGED counterVars
-----------------------------------------------------------------------------
(* CountersLoader *)

\* The counters of an object; of none, those of a new one.
CountersOf(c) == IF c = 0 THEN NoCounters ELSE counters[c]
Mine == CountersOf(counter_)

\* Counters once a load has found rows for some of the ids it asked for.
Updated(old, ids, found, value) ==
    [id \in (DOMAIN old \ Range(ids)) \cup found |-> IF id \in found THEN value ELSE old[id]]

Counting(t, where) == counting[t] # <<>> /\ counting[t][1].at = where
Counts_(t, x) == counting' = [counting EXCEPT ![t] = x]

\* load(db, ids): the object there is when it begins is the one it will copy.
load(t, ids) ==
    /\ counting[t] = <<>> /\ loads < MaxLoads /\ loads' = loads + 1
    /\ Counts_(t, <<[at |-> "query", ids |-> ids, found |-> {}, load |-> loads', from |-> counter_]>>)
    /\ overlapped' = (overlapped \/ \E u \in Loaders : counting[u] # <<>>)
    /\ UNCHANGED <<base, global_data_version, loading, seen, raced, counters, counter_, kept, counted>>

\* The database has rows for some of the ids, at most one each, or throws.
CountersFound(t) ==
    /\ Counting(t, "query")
    /\ LET x == counting[t][1]
       IN  \E found \in SUBSET Range(x.ids) :
              /\ Counts_(t, <<[x EXCEPT !.at = "test", !.found = found]>>)
              /\ counted' = Updated(counted, x.ids, found, x.load)
    /\ UNCHANGED <<listVars, counters, counter_, kept, overlapped>>

CountersThrow(t) ==
    /\ Counting(t, "query") /\ Counts_(t, <<>>)
    /\ UNCHANGED <<listVars, counters, counter_, kept, counted, overlapped>>

\* Mutant: new ids are written into the object that readers have.
haveNewRows_Never(ids) == counter_ = 0

haveNewRows(ids) == counter_ = 0 \/ \E id \in Range(ids) : id \notin DOMAIN Mine

\* haveDeletedRows, or new ones, by the object there is by now
ComparesIds(t) ==
    /\ Counting(t, "test")
    /\ LET x == counting[t][1]
           copies == counter_ = 0 \/ Cardinality(x.found) # Len(x.ids) \/ haveNewRows(x.ids)
       IN  Counts_(t, <<[x EXCEPT !.at = IF copies THEN "copy" ELSE "write"]>>)
    /\ UNCHANGED <<listVars, counters, counter_, kept, counted, overlapped>>

\* The new object, with its version, is no one else's yet.
CopiesCounters(t) ==
    /\ Counting(t, "copy")
    /\ LET x == counting[t][1]
       IN  /\ counters' = Append(counters, Updated(CountersOf(x.from), x.ids, x.found, x.load))
           /\ Counts_(t, <<[x EXCEPT !.at = "replace", !.from = Len(counters')]>>)
    /\ global_data_version' = global_data_version + 1
    /\ UNCHANGED <<base, loading, loads, seen, raced, counter_, kept, counted, overlapped>>

ReplacesCounters(t) ==
    /\ Counting(t, "replace") /\ Counts_(t, <<>>)
    /\ counter_' = counting[t][1].from
    /\ UNCHANGED <<listVars, counters, kept, counted, overlapped>>

\* One row in place, in the object there is by then; or there are no more.
WritesCounter(t) ==
    /\ Counting(t, "write")
    /\ LET x == counting[t][1]
       IN  \E id \in x.found :
              /\ counters' = [counters EXCEPT ![counter_] =
                                 [i \in DOMAIN @ \cup {id} |-> IF i = id THEN x.load ELSE @[i]]]
              /\ Counts_(t, <<[x EXCEPT !.found = @ \ {id}]>>)
    /\ UNCHANGED <<listVars, counter_, kept, counted, overlapped>>

EndsCounting(t) ==
    /\ Counting(t, "write") /\ counting[t][1].found = {} /\ Counts_(t, <<>>)
    /\ UNCHANGED <<listVars, counters, counter_, kept, counted, overlapped>>

Gets ==
    /\ counter_ # 0
    /\ kept' = <<[counter |-> counter_, ids |-> DOMAIN counters[counter_]]>>
    /\ UNCHANGED <<listVars, counters, counter_, counting, counted, overlapped>>

CountersNext ==
    \/ Gets
    \/ \E t \in Loaders :
          \/ \E n \in 0..2 : \E ids \in [1..n -> CounterIds] : load(t, ids)
          \/ CountersFound(t) \/ CountersThrow(t) \/ ComparesIds(t) \/ CopiesCounters(t) \/ ReplacesCounters(t)
          \/ WritesCounter(t) \/ EndsCounting(t)
-----------------------------------------------------------------------------
(* Properties. *)

\* A list that others can get has every row of one query that succeeded:
\* loads that overlap or fail never show theirs half done.  A reader who asked
\* for the version first and got the list then has the list that is there for
\* as long as the version is the same, unless one is just being given its
\* version.  Nothing is claimed of a reader who asks the other way round, nor
\* once the pointer was copied while it was being replaced.
ListWhole ==
    ~raced =>
        /\ \A i \in DOMAIN base.data : base.data[i].parsed = base.data[i].rows
        /\ \A i \in DOMAIN seen.data : seen.data[i].parsed = seen.data[i].rows
        /\ seen.after /\ seen.version = base.version /\ ~(\E t \in Loaders : At(t, "version"))
              => seen.data = base.data

\* As long as loads do not overlap the counters are, after each, what the last
\* load of each id has found, and as the comment in CountersLoader.hpp has it
\* no object changes its ids once a reader can have it, though values change
\* in place.  Loads that overlap lose rows to one another; even then an object
\* that a reader has never loses an id.
CountersKept ==
    /\ ~overlapped => /\ (\A t \in Loaders : counting[t] = <<>>) => Mine = counted
                      /\ \A i \in DOMAIN kept : DOMAIN counters[kept[i].counter] = kept[i].ids
    /\ \A i \in DOMAIN kept : kept[i].ids \subseteq DOMAIN counters[kept[i].counter]
=============================================================================
