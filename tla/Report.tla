------------------------------- MODULE Report -------------------------------
(***************************************************************************)
(* What becomes of a call once it is merged: MergeService::run looks for   *)
(* the leg that called and those that were called, and the reports make    *)
(* one row of an INSERT of it.  (The calls of the reports are commented    *)
(* out in this build.)                                                     *)
(*                                                                         *)
(* Stamps are seconds, the empty one is 0, which is also what              *)
(* parseDateTime makes of it; a name of a leg is a number, the empty one 0.*)
(* A number or a name of a caller is a text.                               *)
(***************************************************************************)
EXTENDS Text

\* A leg that operator[] of the map has made.
NoLeg == [uniqueid |-> 0, orig |-> FALSE, start_time |-> 0, stop_time |-> 0, last_linked_id |-> 0,
          object_type |-> "", number |-> <<>>, name |-> <<>>, did |-> 0, account_id |-> 0, hangup_cause |-> "",
          final_status |-> ""]

\* record.legs[id]
LegOf(legs, id) == IF id \in DOMAIN legs THEN legs[id] ELSE NoLeg

InKeyOrder(legs) == SetToSortSeq(DOMAIN legs, LAMBDA x, y : x < y)

\* Mutant: the links stay in the order they were joined in.
linksById_AsJoined(links) == links

\* std::sort of the links; ids are unique
linksById(links) == SortSeq(links, LAMBDA x, y : x.id < y.id)

\* std::sort of b: the order of equal stamps is not specified, so it is any.
byStartTime(b) ==
    {[i \in DOMAIN b |-> b[p[i]]] : p \in {q \in Permutations(DOMAIN b) :
        \A i, j \in DOMAIN b : i < j => b[q[i]].start_time <= b[q[j]].start_time}}

\* MergeService::run on one record: a and b, which the record comes without;
\* one that is named but was not joined becomes an empty leg in front.
shaped(record) ==
    LET keys == InKeyOrder(record.legs)
        callers == SelectSeq(keys, LAMBDA k : record.legs[k].orig)
        linked == SelectSeq(keys, LAMBDA k : record.legs[k].last_linked_id # 0)
        b == [i \in DOMAIN linked |-> LegOf(record.legs, record.legs[linked[i]].last_linked_id)]
    IN  {[legs |-> record.legs, links |-> linksById(record.links),
          a |-> record.legs[Last(callers)], b |-> s] : s \in byStartTime(b)}
-----------------------------------------------------------------------------
(* DataVoipRecordReport *)

\* header()
voip_header ==
    <<"telco_id", "begin_connection_time", "end_connection_time", "client_info", "server_info", "point_id",
      "voip_session_id", "voip_conference_id", "voip_duration", "voip_originator_name", "voip_call_type_id",
      "calling_original_number", "calling_translated_number", "calling_e164_number",
      "called_original_number", "called_translated_number", "called_e164_number",
      "voip_in_bytes_count", "voip_out_bytes_count", "voip_fax", "voip_term_cause", "inbound_trunk",
      "outbound_trunk", "voip_gateways", "voip_protocol", "supplement_service_id", "voip_abonent_id",
      "voip_nat_info", "voip_location", "voip_event", "voip_data_content_id", "vpbx_id", "server_id",
      "account_id", "account_id_2", "orig_uniqueid", "raw_data">>

\* Mutant: two neighbours have changed places.
voip_dump_Swapped == [voip_header EXCEPT ![34] = "account_id_2", ![35] = "account_id"]

\* DataVoipRecord::dump: the members in the order they are written in
voip_dump ==
    <<"telco_id", "begin_connection_time", "end_connection_time", "client_info", "server_info", "point_id",
      "voip_session_id", "voip_conference_id", "voip_duration", "voip_originator_name", "voip_call_type_id",
      "calling_original_number", "calling_translated_number", "calling_e164_number",
      "called_original_number", "called_translated_number", "called_e164_number",
      "voip_in_bytes_count", "voip_out_bytes_count", "voip_fax", "voip_term_cause", "inbound_trunk",
      "outbound_trunk", "voip_gateways", "voip_protocol", "supplement_service_id", "voip_abonent_id",
      "voip_nat_info", "voip_location", "voip_event", "voip_data_content_id", "vpbx_id", "server_id",
      "account_id", "account_id_2", "orig_uniqueid", "raw_data">>

\* A link of the caller decides, and a later one decides anew.
voip_event(r) ==
    LET Decide(event, link) ==
            LET term == LegOf(r.legs, link.uniqueid_term).object_type
            IN  IF link.uniqueid_orig # r.a.uniqueid THEN event
                ELSE IF term = "pstn" THEN "outgoing"
                ELSE IF r.a.object_type \notin {"pstn", "webcall", "missed_call_callback"} THEN "internal"
                ELSE event
        event == FoldLeft(Decide, IF r.a.object_type = "pstn" THEN "incoming" ELSE "", r.links)
    IN  IF event = "" THEN "uncknown" ELSE event

NumberOf(leg) == IF leg.number = <<>> THEN <<leg.did>> ELSE escape_string(leg.number)

\* account_id_2 is not set before it is read, supplement_service_id never:
\* garbage.  orig_uniqueid is assigned the flag orig, as a character.
voip_build(r, garbage) ==
    LET numbers == [i \in DOMAIN r.b |-> NumberOf(r.b[i])]
        accounts == SelectSeq(r.b, LAMBDA leg : leg.account_id # 0)
        end == IF r.b # <<>> THEN Last(r.b).stop_time ELSE r.a.stop_time
    IN  [f \in Range(voip_dump) |->
            CASE f = "begin_connection_time" -> r.a.start_time
              [] f = "end_connection_time" -> end
              [] f = "voip_duration" -> end - r.a.start_time
              [] f = "voip_event" -> voip_event(r)
              [] f = "voip_term_cause" -> IF r.a.hangup_cause = "" THEN r.a.final_status ELSE r.a.hangup_cause
              [] f = "voip_originator_name" -> escape_string(r.a.name)
              [] f \in {"calling_original_number", "calling_translated_number", "calling_e164_number"} ->
                    NumberOf(r.a)
              [] f \in {"called_original_number", "called_translated_number", "called_e164_number"} -> numbers
              [] f = "account_id" -> r.a.account_id
              [] f = "account_id_2" -> IF garbage = 0 /\ accounts # <<>> THEN accounts[1].account_id ELSE garbage
              [] f = "supplement_service_id" -> garbage
              [] f = "orig_uniqueid" -> r.a.orig
              [] OTHER -> "fixed"]

\* The row as the database reads it: the value of every column.
inserted(header, dump, r) == [c \in Range(header) |-> r[dump[CHOOSE i \in DOMAIN header : header[i] = c]]]
-----------------------------------------------------------------------------
(* LegsAggrRawReport *)

legs_header ==
    <<"start_time", "stop_time", "uniqueid", "object_type", "object_type_l", "sip_ip", "sip_ip_l", "status",
      "call_id_md5", "call_id_md5_l", "to_jsonb">>

\* LegsAggrRawRecord::dump
legs_dump ==
    <<"start_time", "stop_time", "uniqueid", "object_type", "object_type_l", "sip_ip", "sip_ip_l", "status",
      "call_id_md5", "call_id_md5_l", "to_jsonb">>

\* CallLeg::json, where id and did are cut to an int
json(leg) == [leg EXCEPT !.did = static_cast(FALSE, @), !.number = escape_string(@), !.name = escape_string(@)]

\* The front of b is read whether there is one or not: garbage, a leg of any
\* kind, stands for what lies there when b is empty.
legs_build(r, garbage) ==
    LET l == IF r.b = <<>> THEN garbage ELSE r.b[1]
    IN  [f \in Range(legs_dump) |->
            CASE f = "start_time" -> IF r.a.start_time = 0 THEN l.start_time ELSE r.a.start_time
              [] f = "stop_time" -> IF l.stop_time = 0 THEN r.a.stop_time ELSE l.stop_time
              [] f = "object_type" -> r.a.object_type
              [] f = "object_type_l" -> l.object_type
              [] f \in {"uniqueid", "sip_ip", "call_id_md5"} -> r.a.uniqueid
              [] f \in {"sip_ip_l", "call_id_md5_l"} -> l.uniqueid
              [] f = "to_jsonb" -> <<json(r.a), json(l)>>
              [] f = "status" -> "ANSWERED"]
=============================================================================
