---------------------------- MODULE LogInstance ----------------------------
(***************************************************************************)
(* log_instance: any thread sends messages to the queue of the one thread  *)
(* that filters, buffers and writes them.  A message with a delay that     *)
(* repeats too soon is only counted; the next one let through, or the      *)
(* hourly clean-up, carries the count as "[xN]".  A message therefore      *)
(* stands for `count' sends, and no send should disappear.                 *)
(*                                                                         *)
(* The moodycamel queue (external) keeps the order of each sending thread  *)
(* and no order between threads.                                           *)
(***************************************************************************)
EXTENDS Integers, Sequences, FiniteSets, FiniteSetsExt, SequencesExt

CONSTANTS
    Loggers,          \* threads that log
    Texts,
    Delay,            \* delay_in_seconds_ of a text; 0: none
    KeepDelay,        \* 3600
    Epoch,            \* the clock when the daemon starts
    MaxTime, MaxSends \* bounds: clock, messages sent

\* Beside Loggers: the cyclic tasks logs_flusher and logs_cleaner, the log
\* thread itself and the thread that destroys the instance.
Others == {"flusher", "cleaner", "log_handler", "stopper"}
Senders == Loggers \cup Others

\* Time starts late enough for the first message of a text to pass: the
\* last_timestamp of a new delay_value is 0.
ASSUME LogAssumption ==
    /\ IsFiniteSet(Loggers) /\ Loggers \cap Others = {}
    /\ Delay \in [Texts -> Nat]
    /\ KeepDelay \in Nat
    /\ Epoch \in Nat /\ Epoch > KeepDelay /\ \A t \in Texts : Epoch > Delay[t]
    /\ MaxTime \in Nat /\ MaxSends \in Nat

VARIABLES
    now,
    running,          \* app::running()
    log_instance_,    \* log_instance::instance_ is set: not yet reset by stop_log
    draft,            \* per thread: message stamped but not yet enqueued
    queue_,           \* per sender, in its order
    pc,               \* the log thread: not in its loop yet, waiting for a message, or gone
    delay_storage_,   \* text -> [last, count]
    messages_,        \* let through, not yet written
    written,          \* history: sends that the handlers have written, per text
    sent              \* history: sends, per text

logVars == <<now, running, log_instance_, draft, queue_, pc, delay_storage_, messages_, written, sent>>

Message(t, n, ts, d) == [kind |-> "text", text |-> t, count |-> n, time |-> ts, delay |-> d]
Flush == [kind |-> "flush"]
Clear == [kind |-> "clear"]

LogInit ==
    /\ now = Epoch
    /\ running = TRUE /\ log_instance_ = TRUE
    /\ draft = [p \in Loggers |-> <<>>]
    /\ queue_ = [p \in Senders |-> <<>>]
    /\ pc = "start"
    /\ delay_storage_ = [t \in {} |-> 0]
    /\ messages_ = <<>>
    /\ written = [t \in Texts |-> 0]
    /\ sent = [t \in Texts |-> 0]

Tick ==
    /\ now < Epoch + MaxTime
    /\ now' = now + 1
    /\ UNCHANGED <<running, log_instance_, draft, queue_, pc, delay_storage_, messages_, written, sent>>

-----------------------------------------------------------------------------
(* The threads that log. *)

\* log_impl: the message gets its timestamp ...  Threads log after the flag,
\* too, the stopping one included; not once the instance is reset, when the
\* call has no log to go to.  (Bounds: MaxSends, and early enough for the
\* clock to reach the moment when the message is old.)
Stamp(p, t) ==
    /\ log_instance_
    /\ draft[p] = <<>>
    /\ now + KeepDelay < Epoch + MaxTime
    /\ MapThenSumSet(LAMBDA u : sent[u], Texts) < MaxSends
    /\ draft' = [draft EXCEPT ![p] = <<Message(t, 1, now, Delay[t])>>]
    /\ sent' = [sent EXCEPT ![t] = @ + 1]
    /\ UNCHANGED <<now, running, log_instance_, queue_, pc, delay_storage_, messages_, written>>

\* ... and is enqueued later: messages of two threads may change places.
send_log_message(p) ==
    /\ log_instance_ /\ draft[p] # <<>>
    /\ queue_' = [queue_ EXCEPT ![p] = @ \o draft[p]]
    /\ draft' = [draft EXCEPT ![p] = <<>>]
    /\ UNCHANGED <<now, running, log_instance_, pc, delay_storage_, messages_, written, sent>>

\* The two cyclic tasks, which application::stop calls once more after the
\* flag; a task is not run again before its last message has been taken (bound).
flush_logs ==
    /\ log_instance_
    /\ queue_["flusher"] = <<>>
    /\ queue_' = [queue_ EXCEPT !["flusher"] = <<Flush>>]
    /\ UNCHANGED <<now, running, log_instance_, draft, pc, delay_storage_, messages_, written, sent>>

clear_logs ==
    /\ log_instance_
    /\ queue_["cleaner"] = <<>>
    /\ queue_' = [queue_ EXCEPT !["cleaner"] = <<Clear>>]
    /\ UNCHANGED <<now, running, log_instance_, draft, pc, delay_storage_, messages_, written, sent>>

\* application::stop: daemon_running = false ...
Stop ==
    /\ running
    /\ running' = FALSE
    /\ UNCHANGED <<now, log_instance_, draft, queue_, pc, delay_storage_, messages_, written, sent>>

\* Mutant: the destructor does not wake the thread it joins.
stop_log_NoWake ==
    /\ ~running /\ log_instance_
    /\ log_instance_' = FALSE
    /\ UNCHANGED <<now, running, draft, queue_, pc, delay_storage_, messages_, written, sent>>

\* ... and at its end stop_log, whose ~log_instance enqueues an empty message
\* and joins the log thread.
stop_log ==
    /\ ~running /\ log_instance_
    /\ log_instance_' = FALSE
    /\ queue_' = [queue_ EXCEPT !["stopper"] = <<Flush>>]
    /\ UNCHANGED <<now, running, draft, pc, delay_storage_, messages_, written, sent>>

-----------------------------------------------------------------------------
(* log_instance::loop *)

\* while (app::running()), for the first time
Starts ==
    /\ pc = "start"
    /\ pc' = IF running THEN "wait" ELSE "done"
    /\ UNCHANGED <<now, running, log_instance_, draft, queue_, delay_storage_, messages_, written, sent>>

\* wait_dequeue(mes), what is done with the message, and the test of
\* app::running() behind it: one step, as only this thread takes from the
\* queue and touches the delays and the buffer.
Take(p, kind) ==
    /\ pc = "wait"
    /\ queue_[p] # <<>>
    /\ Head(queue_[p]).kind = kind
    /\ pc' = IF running THEN "wait" ELSE "done"

\* delay_storage_[text], value-initialised when new
Stored(t) == IF t \in DOMAIN delay_storage_ THEN delay_storage_[t] ELSE [last |-> 0, count |-> 0]

Store(t, d) == [u \in DOMAIN delay_storage_ \cup {t} |-> IF u = t THEN d ELSE delay_storage_[u]]

\* Mutant: the counter is not reset when the message passes.
HandleText_NoReset(p) ==
    /\ Take(p, "text")
    /\ queue_' = [queue_ EXCEPT ![p] = Tail(@)]
    /\ LET mes == Head(queue_[p])
           d   == Stored(mes.text)
           n   == d.count + 1
       IN  IF mes.delay = 0
           THEN messages_' = Append(messages_, mes) /\ UNCHANGED delay_storage_
           ELSE IF mes.time - d.last > mes.delay
           THEN /\ messages_' = Append(messages_, [mes EXCEPT !.count = n])
                /\ delay_storage_' = Store(mes.text, [last |-> mes.time, count |-> n])
           ELSE /\ delay_storage_' = Store(mes.text, [d EXCEPT !.count = n])
                /\ UNCHANGED messages_
    /\ UNCHANGED <<now, running, log_instance_, draft, written, sent>>

\* delay_message, and push_back of what passes
HandleText(p) ==
    /\ Take(p, "text")
    /\ queue_' = [queue_ EXCEPT ![p] = Tail(@)]
    /\ LET mes == Head(queue_[p])
           d   == Stored(mes.text)
           n   == d.count + 1
       IN  IF mes.delay = 0
           THEN messages_' = Append(messages_, mes) /\ UNCHANGED delay_storage_
           ELSE IF mes.time - d.last > mes.delay
           THEN /\ messages_' = Append(messages_, [mes EXCEPT !.count = n])
                /\ delay_storage_' = Store(mes.text, [last |-> mes.time, count |-> 0])
           ELSE /\ delay_storage_' = Store(mes.text, [d EXCEPT !.count = n])
                /\ UNCHANGED messages_
    /\ UNCHANGED <<now, running, log_instance_, draft, written, sent>>

Old == {t \in DOMAIN delay_storage_ : now - delay_storage_[t].last > KeepDelay}

\* Mutant: an old entry goes without a last message.
HandleClear_Forgets(p) ==
    /\ Take(p, "clear")
    /\ queue_' = [queue_ EXCEPT ![p] = Tail(@)]
    /\ delay_storage_' = [t \in DOMAIN delay_storage_ \ Old |-> delay_storage_[t]]
    /\ UNCHANGED <<now, running, log_instance_, draft, messages_, written, sent>>

\* clear_delay_messages: what was counted and not reported is sent again,
\* by the log thread to itself and without a delay.
HandleClear(p) ==
    /\ Take(p, "clear")
    /\ LET due == SetToSeq({t \in Old : delay_storage_[t].count > 0})
           again == [i \in DOMAIN due |->
                        Message(due[i], delay_storage_[due[i]].count, delay_storage_[due[i]].last, 0)]
           rest == [queue_ EXCEPT ![p] = Tail(@)]
       IN  queue_' = [rest EXCEPT !["log_handler"] = @ \o again]
    /\ delay_storage_' = [t \in DOMAIN delay_storage_ \ Old |-> delay_storage_[t]]
    /\ UNCHANGED <<now, running, log_instance_, draft, messages_, written, sent>>

\* How many sends of a text the messages of a sequence stand for: message i
\* for s[i].count of them.
Units(s, t) ==
    UNION {{i} \X (1..s[i].count) : i \in {j \in DOMAIN s : s[j].kind = "text" /\ s[j].text = t}}
Sends(s, t) == Cardinality(Units(s, t))

\* Every handler gets the buffer; then it is emptied.
HandleFlush(p) ==
    /\ Take(p, "flush")
    /\ queue_' = [queue_ EXCEPT ![p] = Tail(@)]
    /\ written' = [t \in Texts |-> written[t] + Sends(messages_, t)]
    /\ messages_' = <<>>
    /\ UNCHANGED <<now, running, log_instance_, draft, delay_storage_, sent>>

HandleMessage(p) == HandleText(p) \/ HandleClear(p) \/ HandleFlush(p)

LogNext ==
    \/ Tick
    \/ \E p \in Loggers : send_log_message(p) \/ \E t \in Texts : Stamp(p, t)
    \/ flush_logs \/ clear_logs \/ Stop \/ stop_log
    \/ Starts
    \/ \E p \in Senders : HandleMessage(p)

\* Loggers get on, the cyclic tasks recur while the daemon runs, the queue
\* drains between two of their runs, so no sender's part of it is passed over
\* for ever, and application::stop comes to its end.
LogFairness ==
    /\ WF_logVars(Tick)
    /\ \A p \in Loggers : WF_logVars(send_log_message(p))
    /\ WF_logVars(running /\ flush_logs) /\ WF_logVars(running /\ clear_logs)
    /\ WF_logVars(stop_log) /\ WF_logVars(Starts)
    /\ \A p \in Senders : WF_logVars(HandleMessage(p))

LogSpec == LogInit /\ [][LogNext]_logVars /\ LogFairness

-----------------------------------------------------------------------------
(* Properties. *)

\* The sends in the sequences that q has for a set of threads.
SendsIn(q, t) == Cardinality(UNION {{p} \X Units(q[p], t) : p \in DOMAIN q})

Queued(t) == SendsIn(queue_, t) + SendsIn(draft, t)

\* No send is lost or counted twice: it is on its way, counted in
\* delay_storage_, in the buffer, or written; the [xN] figures add up.
NoSendLost ==
    \A t \in Texts :
        sent[t] = Queued(t) + Stored(t).count + Sends(messages_, t) + written[t]

\* While the daemon runs every send ends up in the log, the suppressed ones
\* as part of a count: the hourly clean-up reports what no later message has.
EverySendWritten ==
    []running => []<>(\A t \in Texts : written[t] = sent[t])

\* The log thread can be joined: whatever is queued when the daemon stops, and
\* whatever is logged until the log is gone, it leaves its loop.
LogThreadEnds == ~running ~> pc = "done"
=============================================================================
