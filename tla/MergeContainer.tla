--------------------------- MODULE MergeContainer ---------------------------
(***************************************************************************)
(* MergeContainer::run: the thread that joins call legs with call links.   *)
(* An originating leg opens a CallRecord; links are attached to the record *)
(* of their uniqueid_orig, terminating legs to the record that holds a     *)
(* link to their uniqueid.  A record is handed to MergeService, and an     *)
(* unclaimed leg or link forgotten, by comparing times with how far the    *)
(* two readers have come.                                                  *)
(*                                                                         *)
(* The readers are two instances of WindowFeed, the promise ReadCallLeg    *)
(* and ReadCallLegLink keep.  An action of the container is one turn of    *)
(* one of its inner loops, or a stretch that touches one thing shared with *)
(* another thread: a queue, the pause flags, or linkReader_.getTime().     *)
(***************************************************************************)
EXTENDS Integers, Sequences, FiniteSets, SequencesExt

CONSTANTS
    Legs, LegTime, LegId, LegUid, Orig,     \* rows of call_leg; Orig: leg.orig is true
    Links, LinkTime, LinkId, LinkOrig, LinkTerm,
    Start, read_threshold, max_call_time, max_queue_size

Uids == {LegUid[l] : l \in Legs} \cup {LinkOrig[k] : k \in Links} \cup {LinkTerm[k] : k \in Links}

ASSUME ContainerAssumption ==
    /\ LegTime \in [Legs -> Nat] /\ LegId \in [Legs -> Nat]
    /\ LinkTime \in [Links -> Nat] /\ LinkId \in [Links -> Nat]
    /\ Orig \subseteq Legs
    /\ Uids \subseteq Nat
    /\ Legs \cap Links = {}
    /\ Start \in Nat \ {0}
    /\ read_threshold \in Nat \ {0} /\ max_call_time \in Nat
    /\ read_threshold <= max_call_time
    /\ max_queue_size \in Nat \ {0}

VARIABLES
    legStart, legStop, legPaused, legPhase, legBatch, queueLeg_, legReads,
    linkStart, linkStop, linkPaused, linkPhase, linkBatch, queueLink_, linkReads,
    pc,                 \* where run() is
    legsIn_, linksIn_,  \* what the last bulk dequeues returned
    data_,              \* list of CallRecord
    legs_,              \* terminating legs nobody has claimed (keyed by uniqueid)
    links_,             \* uniqueid_orig -> links nobody has claimed; <<>>: no entry
    maxLegTime_, maxLinkTime_,
    cursor,             \* position of the scan over data_
    unchecked,          \* legs the expiry loop has still to look at
    queueOutput_,       \* records on their way to MergeService
    saved,              \* history: records MergeService has taken
    dropped             \* history: legs and links expired unclaimed

legVars   == <<legStart, legStop, legPaused, legPhase, legBatch, queueLeg_, legReads>>
linkVars  == <<linkStart, linkStop, linkPaused, linkPhase, linkBatch, queueLink_, linkReads>>
inVars    == <<legsIn_, linksIn_>>
heldVars  == <<data_, legs_, links_>>
maxVars   == <<maxLegTime_, maxLinkTime_>>
outVars   == <<queueOutput_, saved>>
scanVars  == <<cursor, unchecked>>
vars == <<legVars, linkVars, pc, inVars, heldVars, maxVars, scanVars, outVars, dropped>>

LegReader == INSTANCE WindowFeed WITH
    Rows <- Legs, StartTime <- LegTime, Id <- LegId, Punctual <- Legs,
    startTime_ <- legStart, stopTime_ <- legStop, paused_ <- legPaused,
    phase <- legPhase, batch <- legBatch, queue <- queueLeg_, reads <- legReads

LinkReader == INSTANCE WindowFeed WITH
    Rows <- Links, StartTime <- LinkTime, Id <- LinkId, Punctual <- Links,
    startTime_ <- linkStart, stopTime_ <- linkStop, paused_ <- linkPaused,
    phase <- linkPhase, batch <- linkBatch, queue <- queueLink_, reads <- linkReads

-----------------------------------------------------------------------------
\* CallRecord(&leg, startTime)
NewRecord(l) == [leg |-> l, links |-> {}, legs |-> {l}]

\* setStart; the readers are started by onStart before run() begins
Init ==
    /\ LegReader!Init
    /\ LinkReader!Init
    /\ pc = "takeLegs"
    /\ legsIn_ = <<>> /\ linksIn_ = <<>>
    /\ data_ = <<>>
    /\ legs_ = {}
    /\ links_ = [u \in Uids |-> <<>>]
    /\ maxLegTime_ = Start /\ maxLinkTime_ = Start
    /\ cursor = 1
    /\ unchecked = {}
    /\ queueOutput_ = <<>>
    /\ saved = {}
    /\ dropped = {}

-----------------------------------------------------------------------------
(* One pass of the loop. *)

\* The two bulk dequeues are two steps: rows may arrive between them.
TakeLegs ==
    /\ pc = "takeLegs"
    /\ legsIn_' = queueLeg_
    /\ queueLeg_' = <<>>
    /\ pc' = "takeLinks"
    /\ UNCHANGED <<legStart, legStop, legPaused, legPhase, legBatch, legReads, linkVars,
                   linksIn_, heldVars, maxVars, scanVars, outVars, dropped>>

\* With nothing in either queue the thread sleeps and starts again.
TakeLinks ==
    /\ pc = "takeLinks"
    /\ linksIn_' = queueLink_
    /\ queueLink_' = <<>>
    /\ pc' = IF legsIn_ = <<>> /\ queueLink_ = <<>> THEN "takeLegs" ELSE "absorb"
    /\ UNCHANGED <<linkStart, linkStop, linkPaused, linkPhase, linkBatch, linkReads, legVars,
                   legsIn_, heldVars, maxVars, scanVars, outVars, dropped>>

\* legs_[leg.uniqueid] = leg
Overwrite(held, l) == {m \in held : LegUid[m] # LegUid[l]} \cup {l}

\* Later of a maximum kept so far and the time of a row.
Later(m, t) == IF m < t THEN t ELSE m

\* One turn of the loop over legsIn_, then one of the loop over linksIn_.
AbsorbLeg ==
    /\ pc = "absorb"
    /\ legsIn_ # <<>>
    /\ LET l == Head(legsIn_) IN
       /\ data_' = IF l \in Orig THEN Append(data_, NewRecord(l)) ELSE data_
       /\ legs_' = IF l \in Orig THEN legs_ ELSE Overwrite(legs_, l)
       /\ maxLegTime_' = Later(maxLegTime_, LegTime[l])
    /\ legsIn_' = Tail(legsIn_)
    /\ UNCHANGED <<legVars, linkVars, pc, linksIn_, links_, maxLinkTime_, scanVars, outVars, dropped>>

AbsorbLink ==
    /\ pc = "absorb"
    /\ legsIn_ = <<>> /\ linksIn_ # <<>>
    /\ LET k == Head(linksIn_) IN
       /\ links_' = [links_ EXCEPT ![LinkOrig[k]] = Append(@, k)]
       /\ maxLinkTime_' = Later(maxLinkTime_, LinkTime[k])
    /\ linksIn_' = Tail(linksIn_)
    /\ UNCHANGED <<legVars, linkVars, pc, legsIn_, data_, legs_, maxLegTime_, scanVars, outVars, dropped>>

\* abs(maxLegTime_ - maxLinkTime_) > max_call_time * 2
Apart ==
    \/ maxLegTime_ - maxLinkTime_ > 2 * max_call_time
    \/ maxLinkTime_ - maxLegTime_ > 2 * max_call_time

\* Mutant: nobody resumes.
Throttle_NoResume ==
    /\ pc = "absorb"
    /\ legsIn_ = <<>> /\ linksIn_ = <<>>
    /\ LET pausing == Apart /\ ~legPaused /\ ~linkPaused IN
       /\ legPaused'  = (legPaused  \/ (pausing /\ maxLegTime_ > maxLinkTime_))
       /\ linkPaused' = (linkPaused \/ (pausing /\ maxLegTime_ <= maxLinkTime_))
    /\ cursor' = 1
    /\ pc' = "scan"
    /\ UNCHANGED <<legStart, legStop, legPhase, legBatch, queueLeg_, legReads,
                   linkStart, linkStop, linkPhase, linkBatch, queueLink_, linkReads,
                   inVars, heldVars, maxVars, unchecked, outVars, dropped>>

\* The reader that is ahead waits, unless one is waiting already; the scan
\* begins.
Throttle ==
    /\ pc = "absorb"
    /\ legsIn_ = <<>> /\ linksIn_ = <<>>
    /\ LET pausing == Apart /\ ~legPaused /\ ~linkPaused IN
       /\ legPaused'  = (Apart /\ (legPaused  \/ (pausing /\ maxLegTime_ > maxLinkTime_)))
       /\ linkPaused' = (Apart /\ (linkPaused \/ (pausing /\ maxLegTime_ <= maxLinkTime_)))
    /\ cursor' = 1
    /\ pc' = "scan"
    /\ UNCHANGED <<legStart, legStop, legPhase, legBatch, queueLeg_, legReads,
                   linkStart, linkStop, linkPhase, linkBatch, queueLink_, linkReads,
                   inVars, heldVars, maxVars, unchecked, outVars, dropped>>

recordSaveTime == maxLegTime_ - max_call_time

\* Mutant: the progress of the link reader is not asked for.
Due_LegsOnly(t) == t < recordSaveTime

\* Mutant: max_call_time subtracted twice.
Due_DoubleMargin(t) == t + max_call_time < recordSaveTime /\ linkStart > t + max_call_time

\* Nothing that began at t can still be waited for.
Due(t) == t < recordSaveTime /\ linkStart > t + max_call_time

\* The record takes its links, then every held leg one of its links points to.
Attach(rec) ==
    LET links == rec.links \cup ToSet(links_[LegUid[rec.leg]])
        found == {l \in legs_ : \E k \in links : LinkTerm[k] = LegUid[l]}
    IN  [leg   |-> rec.leg,
         links |-> links,
         legs  |-> {m \in rec.legs : \A l \in found : LegUid[m] # LegUid[l]} \cup found]

\* Mutant: the group of links is not erased.
ScanRecord_KeepsLinks ==
    /\ pc = "scan"
    /\ cursor <= Len(data_)
    /\ LET rec == Attach(data_[cursor]) IN
       /\ data_' = [data_ EXCEPT ![cursor] = rec]
       /\ legs_' = legs_ \ rec.legs
       /\ IF Due(LegTime[rec.leg])
          THEN pc' = "emit" /\ UNCHANGED cursor
          ELSE cursor' = cursor + 1 /\ UNCHANGED pc
    /\ UNCHANGED <<legVars, linkVars, inVars, links_, maxVars, unchecked, outVars, dropped>>

\* Mutant: the claimed legs are not erased.
ScanRecord_KeepsLegs ==
    /\ pc = "scan"
    /\ cursor <= Len(data_)
    /\ LET rec == Attach(data_[cursor]) IN
       /\ data_' = [data_ EXCEPT ![cursor] = rec]
       /\ links_' = [links_ EXCEPT ![LegUid[rec.leg]] = <<>>]
       /\ IF Due(LegTime[rec.leg])
          THEN pc' = "emit" /\ UNCHANGED cursor
          ELSE cursor' = cursor + 1 /\ UNCHANGED pc
    /\ UNCHANGED <<legVars, linkVars, inVars, legs_, maxVars, unchecked, outVars, dropped>>

ScanRecord ==
    /\ pc = "scan"
    /\ cursor <= Len(data_)
    /\ LET rec == Attach(data_[cursor]) IN
       /\ data_' = [data_ EXCEPT ![cursor] = rec]
       /\ links_' = [links_ EXCEPT ![LegUid[rec.leg]] = <<>>]
       /\ legs_' = legs_ \ rec.legs
       /\ IF Due(LegTime[rec.leg])
          THEN pc' = "emit" /\ UNCHANGED cursor
          ELSE cursor' = cursor + 1 /\ UNCHANGED pc
    /\ UNCHANGED <<legVars, linkVars, inVars, maxVars, unchecked, outVars, dropped>>

\* Mutant: the record is not erased.
Emit_Keeps ==
    /\ pc = "emit"
    /\ Len(queueOutput_) < max_queue_size
    /\ queueOutput_' = Append(queueOutput_, data_[cursor])
    /\ cursor' = cursor + 1
    /\ pc' = "scan"
    /\ UNCHANGED <<legVars, linkVars, inVars, heldVars, maxVars, unchecked, saved, dropped>>

\* while (output full) sleep; enqueue; erase
Emit ==
    /\ pc = "emit"
    /\ Len(queueOutput_) < max_queue_size
    /\ queueOutput_' = Append(queueOutput_, data_[cursor])
    /\ data_' = RemoveAt(data_, cursor)
    /\ pc' = "scan"
    /\ UNCHANGED <<legVars, linkVars, inVars, legs_, links_, maxVars, scanVars, saved, dropped>>

EndScan ==
    /\ pc = "scan"
    /\ cursor > Len(data_)
    /\ unchecked' = legs_
    /\ pc' = "expire"
    /\ UNCHANGED <<legVars, linkVars, inVars, heldVars, maxVars, cursor, outVars, dropped>>

\* Mutant: legs expire by the progress of the leg reader alone.
ExpireLeg_LegsOnly ==
    /\ pc = "expire"
    /\ \E l \in unchecked :
          /\ \A m \in unchecked : LegUid[l] <= LegUid[m]
          /\ unchecked' = unchecked \ {l}
          /\ IF LegTime[l] < recordSaveTime
             THEN legs_' = legs_ \ {l} /\ dropped' = dropped \cup {l}
             ELSE UNCHANGED <<legs_, dropped>>
    /\ UNCHANGED <<legVars, linkVars, pc, inVars, data_, links_, maxVars, cursor, outVars>>

\* The map is walked in key order; getTime() is asked for every leg anew.
ExpireLeg ==
    /\ pc = "expire"
    /\ \E l \in unchecked :
          /\ \A m \in unchecked : LegUid[l] <= LegUid[m]
          /\ unchecked' = unchecked \ {l}
          /\ IF Due(LegTime[l])
             THEN legs_' = legs_ \ {l} /\ dropped' = dropped \cup {l}
             ELSE UNCHANGED <<legs_, dropped>>
    /\ UNCHANGED <<legVars, linkVars, pc, inVars, data_, links_, maxVars, cursor, outVars>>

\* Mutant: max_call_time not granted.
Stale_NoMargin(group) == group # <<>> /\ LinkTime[Head(group)] < maxLegTime_

\* A group goes when its first link is old; link progress is not asked for.
Stale(group) == group # <<>> /\ LinkTime[Head(group)] < recordSaveTime

ExpireLinks ==
    /\ pc = "expire"
    /\ unchecked = {}
    /\ links_' = [u \in Uids |-> IF Stale(links_[u]) THEN <<>> ELSE links_[u]]
    /\ dropped' = dropped \cup UNION {ToSet(links_[u]) : u \in {v \in Uids : Stale(links_[v])}}
    /\ pc' = "takeLegs"
    /\ UNCHANGED <<legVars, linkVars, inVars, data_, legs_, maxVars, scanVars, outVars>>

Container == TakeLegs \/ TakeLinks \/ AbsorbLeg \/ AbsorbLink \/ Throttle
             \/ ScanRecord \/ Emit \/ EndScan \/ ExpireLeg \/ ExpireLinks

-----------------------------------------------------------------------------
(* The threads around it. *)

LegStep  == (LegReader!Reader  /\ legPhase'  # "done") /\ UNCHANGED <<linkVars, pc, inVars,
               heldVars, maxVars, scanVars, outVars, dropped>>
LinkStep == (LinkReader!Reader /\ linkPhase' # "done") /\ UNCHANGED <<legVars, pc, inVars,
               heldVars, maxVars, scanVars, outVars, dropped>>

\* MergeService::run: output_.try_dequeue_bulk
Save ==
    /\ queueOutput_ # <<>>
    /\ saved' = saved \cup ToSet(queueOutput_)
    /\ queueOutput_' = <<>>
    /\ UNCHANGED <<legVars, linkVars, pc, inVars, heldVars, maxVars, scanVars, dropped>>

Next == Container \/ LegStep \/ LinkStep \/ Save

Spec == Init /\ [][Next]_vars

\* Four threads, each scheduled for ever; none is ever refused more than a
\* sleep.
FairSpec ==
    /\ Spec
    /\ WF_vars(Container)
    /\ WF_vars(LegStep)
    /\ WF_vars(LinkStep)
    /\ WF_vars(Save)

-----------------------------------------------------------------------------
(* Properties. *)

Emitted == ToSet(queueOutput_) \cup saved
Owned   == ToSet(data_) \cup Emitted

\* Everywhere a link, or a leg, is to be found right now.
PlacesOfLink(k) ==
    {<<"queue", i>>  : i \in {j \in DOMAIN queueLink_ : queueLink_[j] = k}} \cup
    {<<"in", i>>     : i \in {j \in DOMAIN linksIn_ : linksIn_[j] = k}} \cup
    {<<"held", i>>   : i \in {j \in DOMAIN links_[LinkOrig[k]] : links_[LinkOrig[k]][j] = k}} \cup
    {<<"record", r.leg>> : r \in {r \in Owned : k \in r.links}} \cup
    {<<"dropped", d>>    : d \in dropped \cap {k}}

PlacesOfLeg(l) ==
    {<<"queue", i>>  : i \in {j \in DOMAIN queueLeg_ : queueLeg_[j] = l}} \cup
    {<<"in", i>>     : i \in {j \in DOMAIN legsIn_ : legsIn_[j] = l}} \cup
    {<<"held", h>>   : h \in legs_ \cap {l}} \cup
    {<<"record", r.leg>> : r \in {r \in Owned : l \in r.legs}} \cup
    {<<"dropped", d>>    : d \in dropped \cap {l}}

\* No link is lost or shared: from the queue to the saved record or to its
\* expiry it is in exactly one place, in particular in at most one record.
LinkInOnePlace == \A k \in Links : Cardinality(PlacesOfLink(k)) = linkReads[k]

\* The same for legs whose uniqueid no other leg has (legs_ is keyed by it:
\* a second leg with the same uniqueid replaces the first).
LegInOnePlace ==
    \A l \in Legs : (\A m \in Legs : LegUid[m] = LegUid[l] => m = l)
                        => Cardinality(PlacesOfLeg(l)) = legReads[l]

\* Nothing is lost, shared or doubled between the two queues and the saved
\* records, however readers, passes and MergeService interleave.
OnePlace == LinkInOnePlace /\ LegInOnePlace

\* The links of a call come with it and not later than max_call_time after.
LinksOf(l) == {k \in Links : /\ LinkOrig[k] = LegUid[l]
                             /\ LinkTime[k] >= LegTime[l]
                             /\ LinkTime[k] <= LegTime[l] + max_call_time}

\* A record leaves only when the link reader has enqueued every link of its
\* call (they may still be in queueLink_).
EmittedAfterLinksRead ==
    \A r \in Emitted : LegTime[r.leg] > Start =>
        \A k \in LinksOf(r.leg) : linkReads[k] > 0

\* No link names the call before it begins.  (One that does would take the
\* links of the call with it when it expires: a group goes by its first link.)
Orderly(l) == \A k \in Links : LinkOrig[k] = LegUid[l] => LinkTime[k] >= LegTime[l]

\* A link is forgotten only when the record it belongs to has left already,
\* never while the leg that would claim it is still unread, queued or open.
LinkKeptForItsCall ==
    \A l \in Orig : LegTime[l] > Start /\ Orderly(l) =>
        \A k \in LinksOf(l) \cap dropped : \E r \in Emitted : r.leg = l

\* A terminating leg is forgotten only when every link to it that began up
\* to max_call_time after it has been enqueued.
LegDroppedAfterLinksRead ==
    \A l \in Legs \cap dropped : \A k \in Links :
        LinkTerm[k] = LegUid[l] /\ LinkTime[k] > Start /\ LinkTime[k] <= LegTime[l] + max_call_time
            => linkReads[k] > 0

\* No record leaves before its links were read, and neither a link nor a leg is
\* forgotten while the other side that would claim it may still come.
NothingLeavesEarly == EmittedAfterLinksRead /\ LinkKeptForItsCall /\ LegDroppedAfterLinksRead

\* A record, once emitted, is never changed and never reopened.
EmittedIsFinal ==
    [][/\ Emitted \subseteq Emitted'
       /\ \A r \in Emitted' \ Emitted : \A q \in Emitted : q.leg # r.leg]_vars

\* What MergeContainer.cpp:168 says of an emitted record: everything that
\* belongs to it has been read to the end.
EmittedComplete ==
    \A r \in Emitted : LegTime[r.leg] > Start => LinksOf(r.leg) \subseteq r.links

\* Rows of a table that are certainly read: one read_threshold younger exists.
LegsRead  == {l \in Legs : LegTime[l] > Start /\ \E m \in Legs : LegTime[m] >= LegTime[l] + read_threshold}
LinksRead == {k \in Links : LinkTime[k] > Start /\ \E m \in Links : LinkTime[m] >= LinkTime[k] + read_threshold}

\* The tables go on long enough after the call for its record to be due and
\* for a row to arrive after that: a pass needs a row to start.
Followed(l) ==
    /\ l \in LegsRead
    /\ \E m \in LegsRead : LegTime[m] > LegTime[l] + max_call_time
    /\ \E k \in LinksRead : LinkTime[k] > LegTime[l] + 2 * max_call_time

\* As long as no table is more than 4 * max_call_time ahead of the start, the
\* pausing of the faster reader never blocks a call: its record is emitted.
EveryCallEmitted ==
    \A l \in Orig : Followed(l) => <>(\E r \in saved : r.leg = l)

\* A pause ends.  (Beyond 4 * max_call_time the readers can change places
\* between two passes, and a paused reader then stays paused.)
PauseEnds ==
    /\ legPaused  ~> ~legPaused
    /\ linkPaused ~> ~linkPaused
=============================================================================
