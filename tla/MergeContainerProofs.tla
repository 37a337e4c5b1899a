------------------------ MODULE MergeContainerProofs ------------------------
(***************************************************************************)
(* Proofs about the join: nothing is lost or shared, nothing leaves early, *)
(* what was emitted is final, for every table, setting and schedule.       *)
(***************************************************************************)
EXTENDS MergeContainer, FiniteSetTheorems, SequenceTheorems, TLAPS

LegFeed == INSTANCE WindowFeedProofs WITH
    Rows <- Legs, StartTime <- LegTime, Id <- LegId, Punctual <- Legs,
    startTime_ <- legStart, stopTime_ <- legStop, paused_ <- legPaused,
    phase <- legPhase, batch <- legBatch, queue <- queueLeg_, reads <- legReads

LinkFeed == INSTANCE WindowFeedProofs WITH
    Rows <- Links, StartTime <- LinkTime, Id <- LinkId, Punctual <- Links,
    startTime_ <- linkStart, stopTime_ <- linkStop, paused_ <- linkPaused,
    phase <- linkPhase, batch <- linkBatch, queue <- queueLink_, reads <- linkReads

-----------------------------------------------------------------------------
(* The elements of a sequence in which nothing occurs twice. *)

LEMMA EmptyElements == ToSet(<<>>) = {} /\ IsInjective(<<>>)
BY DEF ToSet, IsInjective

LEMMA ElementsOf ==
    ASSUME NEW S, NEW s \in Seq(S)
    PROVE  /\ DOMAIN s = 1..Len(s) /\ Len(s) \in Nat
           /\ ToSet(s) \subseteq S /\ \A x : x \in ToSet(s) <=> \E i \in DOMAIN s : s[i] = x
           /\ s = <<>> <=> ToSet(s) = {}
BY DEF ToSet

LEMMA HeadTail ==
    ASSUME NEW S, NEW s \in Seq(S), s # <<>>, IsInjective(s)
    PROVE  /\ Head(s) \in S /\ Head(s) \in ToSet(s) /\ Tail(s) \in Seq(S)
           /\ ToSet(Tail(s)) = ToSet(s) \ {Head(s)} /\ IsInjective(Tail(s))
<1>1. /\ Len(s) \in Nat \ {0} /\ DOMAIN s = 1..Len(s) /\ Head(s) = s[1] /\ s[1] \in S
      /\ Tail(s) \in Seq(S) /\ DOMAIN Tail(s) = 1..(Len(s) - 1)
      /\ \A i \in 1..(Len(s) - 1) : Tail(s)[i] = s[i + 1]
  OBVIOUS
<1>2. \A i \in 2..Len(s) : i - 1 \in 1..(Len(s) - 1) /\ Tail(s)[i - 1] = s[i]
  BY <1>1
<1>3. ToSet(Tail(s)) = ToSet(s) \ {Head(s)}
  <2>1. ASSUME NEW x \in ToSet(Tail(s)) PROVE x \in ToSet(s) \ {Head(s)}
    BY <2>1, <1>1 DEF ToSet, IsInjective
  <2>2. ASSUME NEW x \in ToSet(s) \ {Head(s)} PROVE x \in ToSet(Tail(s))
    <3>1. PICK i \in DOMAIN s : s[i] = x
      BY <2>2 DEF ToSet
    <3>2. i \in 2..Len(s)
      BY <3>1, <1>1, <2>2
    <3> QED
      BY <3>1, <3>2, <1>1, <1>2 DEF ToSet
  <2> QED
    BY <2>1, <2>2
<1>4. IsInjective(Tail(s))
  BY <1>1 DEF IsInjective
<1> QED
  BY <1>1, <1>3, <1>4 DEF ToSet

LEMMA Appending ==
    ASSUME NEW S, NEW s \in Seq(S), NEW x \in S
    PROVE  /\ Append(s, x) \in Seq(S) /\ ToSet(Append(s, x)) = ToSet(s) \cup {x}
           /\ IsInjective(s) /\ x \notin ToSet(s) => IsInjective(Append(s, x))
           /\ DOMAIN Append(s, x) = 1..(Len(s) + 1)
           /\ \A i \in DOMAIN s : i \in DOMAIN Append(s, x) /\ Append(s, x)[i] = s[i]
           /\ Append(s, x)[Len(s) + 1] = x
<1>1. /\ Len(s) \in Nat /\ DOMAIN s = 1..Len(s) /\ Append(s, x) \in Seq(S)
      /\ DOMAIN Append(s, x) = 1..(Len(s) + 1)
      /\ \A i \in 1..Len(s) : Append(s, x)[i] = s[i]
      /\ Append(s, x)[Len(s) + 1] = x
  OBVIOUS
<1>2. ToSet(Append(s, x)) = ToSet(s) \cup {x}
  <2>1. ASSUME NEW y \in ToSet(Append(s, x)) PROVE y \in ToSet(s) \cup {x}
    <3>1. PICK i \in 1..(Len(s) + 1) : Append(s, x)[i] = y
      BY <1>1, <2>1 DEF ToSet
    <3>2. i \in 1..Len(s) \/ i = Len(s) + 1
      BY <1>1
    <3> QED
      BY <3>1, <3>2, <1>1 DEF ToSet
  <2>2. ASSUME NEW y \in ToSet(s) \cup {x} PROVE y \in ToSet(Append(s, x))
    BY <1>1, <2>2 DEF ToSet
  <2> QED
    BY <2>1, <2>2
<1>3. ASSUME IsInjective(s), x \notin ToSet(s) PROVE IsInjective(Append(s, x))
  BY <1>1, <1>3 DEF IsInjective, ToSet
<1> QED
  BY <1>1, <1>2, <1>3

LEMMA Replacing ==
    ASSUME NEW S, NEW s \in Seq(S), IsInjective(s), NEW c \in DOMAIN s,
           NEW t \in Seq(S), DOMAIN t = DOMAIN s, \A i \in DOMAIN s \ {c} : t[i] = s[i],
           t[c] \notin ToSet(s) \ {s[c]}
    PROVE  ToSet(t) = (ToSet(s) \ {s[c]}) \cup {t[c]} /\ IsInjective(t)
<1> DEFINE x == t[c]
<1>1. t[c] = x
  OBVIOUS
<1> HIDE DEF x
<1>2. ToSet(t) = (ToSet(s) \ {s[c]}) \cup {x}
  BY <1>1 DEF ToSet, IsInjective
<1>3. IsInjective(t)
  <2> SUFFICES ASSUME NEW i \in DOMAIN s, NEW j \in DOMAIN s, t[i] = t[j], i # j PROVE FALSE
    BY <1>1 DEF IsInjective
  <2>1. i # c /\ j # c => FALSE
    BY <1>1 DEF IsInjective
  <2>2. \A n \in DOMAIN s \ {c} : s[n] \in ToSet(s) \ {s[c]}
    BY DEF IsInjective, ToSet
  <2> QED
    BY <2>1, <2>2, <1>1
<1> QED
  BY <1>1, <1>2, <1>3

LEMMA Removing ==
    ASSUME NEW S, NEW s \in Seq(S), IsInjective(s), NEW c \in DOMAIN s
    PROVE  LET t == RemoveAt(s, c) IN
           /\ t \in Seq(S) /\ ToSet(t) = ToSet(s) \ {s[c]} /\ IsInjective(t)
           /\ DOMAIN t = 1..(Len(s) - 1)
           /\ \A i \in DOMAIN t : t[i] = IF i < c THEN s[i] ELSE s[i + 1]
<1> DEFINE a == SubSeq(s, 1, c - 1)
           b == SubSeq(s, c + 1, Len(s))
           t == RemoveAt(s, c)
<1>1. Len(s) \in Nat /\ DOMAIN s = 1..Len(s) /\ c \in 1..Len(s)
  OBVIOUS
<1>2. /\ a \in Seq(S) /\ Len(a) = c - 1 /\ \A i \in 1..(c - 1) : a[i] = s[i]
      /\ b \in Seq(S) /\ Len(b) = Len(s) - c /\ \A i \in 1..(Len(s) - c) : b[i] = s[c + i]
  <2>1. a \in Seq(S) /\ Len(a) = c - 1 /\ \A i \in 1..(c - 1) : a[i] = s[i]
    BY <1>1
  <2>2. b \in Seq(S) /\ Len(b) = Len(s) - c
    BY <1>1
  <2>3. \A i \in 1..(Len(s) - c) : b[i] = s[(c + 1) + i - 1] /\ (c + 1) + i - 1 = c + i
    BY <1>1
  <2> HIDE DEF a, b
  <2> QED
    BY <2>1, <2>2, <2>3
<1>3. t = a \o b
  BY DEF RemoveAt
<1> HIDE DEF a, b, t
<1>4. /\ t \in Seq(S) /\ DOMAIN t = 1..(Len(s) - 1)
      /\ \A i \in DOMAIN t : t[i] = IF i < c THEN s[i] ELSE s[i + 1]
  <2>1. /\ t \in Seq(S) /\ Len(t) = Len(a) + Len(b)
        /\ \A i \in 1..(Len(a) + Len(b)) : t[i] = IF i <= Len(a) THEN a[i] ELSE b[i - Len(a)]
    BY <1>2, <1>3, ConcatProperties
  <2>2. DOMAIN t = 1..(Len(s) - 1)
    BY <2>1, <1>1, <1>2
  <2>3. ASSUME NEW i \in DOMAIN t PROVE t[i] = IF i < c THEN s[i] ELSE s[i + 1]
    <3>1. CASE i < c
      BY <3>1, <2>1, <2>2, <1>1, <1>2
    <3>2. CASE ~(i < c)
      <4>1. i - Len(a) \in 1..(Len(s) - c) /\ c + (i - Len(a)) = i + 1 /\ ~(i <= Len(a))
        BY <3>2, <2>2, <1>1, <1>2
      <4>2. i \in 1..(Len(a) + Len(b))
        BY <2>2, <1>1, <1>2
      <4>3. t[i] = b[i - Len(a)]
        BY <4>1, <4>2, <2>1
      <4> QED
        BY <4>1, <4>3, <1>2, <3>2
    <3> QED
      BY <3>1, <3>2
  <2> QED
    BY <2>1, <2>2, <2>3
<1>5. \A i \in DOMAIN s \ {c} : \E j \in DOMAIN t : t[j] = s[i]
  <2> SUFFICES ASSUME NEW i \in DOMAIN s, i # c PROVE \E j \in DOMAIN t : t[j] = s[i]
    OBVIOUS
  <2>1. CASE i < c
    BY <2>1, <1>1, <1>4
  <2>2. CASE i > c
    <3>1. i - 1 \in DOMAIN t /\ ~(i - 1 < c) /\ (i - 1) + 1 = i
      BY <2>2, <1>1, <1>4
    <3>2. t[i - 1] = s[i]
      BY <3>1, <1>4
    <3> QED
      BY <3>1, <3>2
  <2> QED
    BY <2>1, <2>2, <1>1
<1>6. \A j \in DOMAIN t : \E i \in DOMAIN s \ {c} : t[j] = s[i]
  BY <1>1, <1>4
<1>7. ToSet(t) = ToSet(s) \ {s[c]}
  BY <1>5, <1>6 DEF ToSet, IsInjective
<1>8. IsInjective(t)
  BY <1>1, <1>4 DEF IsInjective
<1> QED
  BY <1>4, <1>7, <1>8 DEF t

-----------------------------------------------------------------------------
(* The inductive invariant. *)

Records == [leg : Orig, links : SUBSET Links, legs : SUBSET Legs]

ContainerTypes ==
    /\ legsIn_ \in Seq(Legs) /\ linksIn_ \in Seq(Links)
    /\ data_ \in Seq(Records) /\ legs_ \in SUBSET Legs /\ links_ \in [Uids -> Seq(Links)]
    /\ maxLegTime_ \in Nat
    /\ cursor \in Nat \ {0}
    /\ queueOutput_ \in Seq(Records) /\ saved \in SUBSET Records
    /\ dropped \in SUBSET (Legs \cup Links)

\* A call has at most one record, open or emitted.
RecordInv ==
    /\ IsInjective(data_)
    /\ ToSet(data_) \cap Emitted = {}
    /\ \A r, q \in Owned : r.leg = q.leg => r = q

\* Where an originating leg is until it has opened its record.
Opened(l) == \E r \in Owned : r.leg = l
OrigInv ==
    \A l \in Orig :
        /\ legReads[l] = 1 <=> l \in ToSet(queueLeg_) \/ l \in ToSet(legsIn_) \/ Opened(l)
        /\ Opened(l) => l \notin ToSet(queueLeg_) /\ l \notin ToSet(legsIn_)

\* A link is in one place, and a group holds the links of its uniqueid.
HeldLink(k) == k \in ToSet(links_[LinkOrig[k]])
InRecord(k) == \E r \in Owned : k \in r.links
GroupInv == \A u \in Uids : IsInjective(links_[u]) /\ \A k \in ToSet(links_[u]) : LinkOrig[k] = u
LinkSeqInv == IsInjective(queueLink_) /\ IsInjective(linksIn_)
LinkShareInv == \A r, q \in Owned : \A k \in r.links : k \in q.links => r = q
LinkPlaceInv ==
    \A k \in Links :
        /\ linkReads[k] = 1 <=> \/ k \in ToSet(queueLink_) \/ k \in ToSet(linksIn_) \/ HeldLink(k)
                                \/ InRecord(k) \/ k \in dropped
        /\ k \in ToSet(queueLink_) => k \notin ToSet(linksIn_) /\ ~HeldLink(k) /\ ~InRecord(k) /\ k \notin dropped
        /\ k \in ToSet(linksIn_) => ~HeldLink(k) /\ ~InRecord(k) /\ k \notin dropped
        /\ HeldLink(k) => ~InRecord(k) /\ k \notin dropped
        /\ InRecord(k) => k \notin dropped

\* A leg is in at most one place; it disappears only when another with its
\* uniqueid takes its place.
Unique(l) == \A m \in Legs : LegUid[m] = LegUid[l] => m = l
LegInRecord(l) == \E r \in Owned : l \in r.legs
LegSeqInv == IsInjective(queueLeg_) /\ IsInjective(legsIn_) /\ legs_ \cap Orig = {}
LegShareInv == \A r, q \in Owned : \A l \in r.legs : l \in q.legs => r = q
LegPlaceInv ==
    \A l \in Legs :
        /\ l \in ToSet(queueLeg_) \/ l \in ToSet(legsIn_) \/ l \in legs_ \/ LegInRecord(l) \/ l \in dropped
              => legReads[l] = 1
        /\ legReads[l] = 1 /\ Unique(l)
              => l \in ToSet(queueLeg_) \/ l \in ToSet(legsIn_) \/ l \in legs_ \/ LegInRecord(l) \/ l \in dropped
        /\ l \in ToSet(queueLeg_) => l \notin ToSet(legsIn_) /\ l \notin legs_ /\ ~LegInRecord(l) /\ l \notin dropped
        /\ l \in ToSet(legsIn_) => l \notin legs_ /\ ~LegInRecord(l) /\ l \notin dropped
        /\ l \in legs_ => ~LegInRecord(l) /\ l \notin dropped
        /\ LegInRecord(l) => l \notin dropped

\* The records behind the cursor have taken their links.
Swept(i) == links_[LegUid[data_[i].leg]] = <<>>
ScanInv ==
    /\ pc \in {"takeLegs", "takeLinks", "absorb", "scan", "emit", "expire"}
    /\ pc = "scan" => \A i \in DOMAIN data_ : i < cursor => Swept(i)
    /\ pc = "emit" => cursor \in DOMAIN data_ /\ \A i \in DOMAIN data_ : i <= cursor => Swept(i)
    /\ pc = "expire" => unchecked \subseteq legs_ /\ \A i \in DOMAIN data_ : Swept(i)

\* What has left was older than the link reader by max_call_time.
PassedBy(l) == LegTime[l] + max_call_time < linkStart
PassedInv ==
    /\ \A r \in Emitted : PassedBy(r.leg)
    /\ \A l \in Legs \cap dropped : PassedBy(l)
    /\ pc = "emit" => PassedBy(data_[cursor].leg)

\* A leg that is still to be absorbed is never max_call_time older than one
\* that comes before it.
NotOlder(m, l) == LegTime[m] < LegTime[l] + max_call_time
OrderInv ==
    /\ \A i, j \in DOMAIN queueLeg_ : i < j => NotOlder(queueLeg_[i], queueLeg_[j])
    /\ \A i, j \in DOMAIN legsIn_ : i < j => NotOlder(legsIn_[i], legsIn_[j])
    /\ \A i \in DOMAIN legsIn_, j \in DOMAIN queueLeg_ : NotOlder(legsIn_[i], queueLeg_[j])
    /\ \A l \in ToSet(legsIn_) \cup ToSet(queueLeg_) : maxLegTime_ < LegTime[l] + max_call_time
    /\ maxLegTime_ <= legStop
    /\ pc \notin {"takeLinks", "absorb"} => legsIn_ = <<>> /\ linksIn_ = <<>>
    /\ pc = "takeLinks" => linksIn_ = <<>>

PlaceInv ==
    /\ RecordInv /\ OrigInv
    /\ GroupInv /\ LinkSeqInv /\ LinkShareInv /\ LinkPlaceInv
    /\ LegSeqInv /\ LegShareInv /\ LegPlaceInv

\* The conjuncts about the container itself, and the whole.
JoinInv == ContainerTypes /\ PlaceInv /\ ScanInv /\ PassedInv /\ OrderInv /\ LinkKeptForItsCall

IInv == LegFeed!FeedInv /\ LinkFeed!FeedInv /\ JoinInv

-----------------------------------------------------------------------------
(* The readers. *)

LEMMA Settled == LegFeed!FeedConstants /\ LinkFeed!FeedConstants
BY ContainerAssumption DEF LegFeed!FeedConstants, LinkFeed!FeedConstants

LEMMA LegReaderStep == ASSUME LegReader!Reader PROVE LegFeed!Reader
BY DEF LegReader!Reader, LegReader!Admit, LegReader!Select, LegReader!Put, LegReader!Advance,
       LegReader!Slide, LegReader!Quit, LegReader!Window, LegReader!Lowest,
       LegFeed!Reader, LegFeed!Admit, LegFeed!Select, LegFeed!Put, LegFeed!Advance,
       LegFeed!Slide, LegFeed!Quit, LegFeed!Window, LegFeed!Lowest

LEMMA LinkReaderStep == ASSUME LinkReader!Reader PROVE LinkFeed!Reader
BY DEF LinkReader!Reader, LinkReader!Admit, LinkReader!Select, LinkReader!Put, LinkReader!Advance,
       LinkReader!Slide, LinkReader!Quit, LinkReader!Window, LinkReader!Lowest,
       LinkFeed!Reader, LinkFeed!Admit, LinkFeed!Select, LinkFeed!Put, LinkFeed!Advance,
       LinkFeed!Slide, LinkFeed!Quit, LinkFeed!Window, LinkFeed!Lowest

\* What the container does leaves the promises of both readers intact.
LEMMA FeedsKept ==
    ASSUME LegFeed!FeedInv, LinkFeed!FeedInv, [Next]_vars
    PROVE  LegFeed!FeedInv' /\ LinkFeed!FeedInv'
<1>0. queueLeg_ \in Seq(Legs) /\ queueLink_ \in Seq(Links)
  BY DEF LegFeed!FeedInv, LegFeed!FeedTypes, LinkFeed!FeedInv, LinkFeed!FeedTypes
<1>1. CASE LegStep
  <2>1. LegFeed!FeedInv'
    BY <1>1, Settled, LegReaderStep, LegFeed!FeedStep DEF LegStep
  <2>2. LinkFeed!FeedInv'
    BY <1>0, <1>1, LinkFeed!FeedDrained DEF LegStep, linkVars
  <2> QED
    BY <2>1, <2>2
<1>2. CASE LinkStep
  <2>1. LinkFeed!FeedInv'
    BY <1>2, Settled, LinkReaderStep, LinkFeed!FeedStep DEF LinkStep
  <2>2. LegFeed!FeedInv'
    BY <1>0, <1>2, LegFeed!FeedDrained DEF LinkStep, legVars
  <2> QED
    BY <2>1, <2>2
<1>3. CASE Container \/ Save \/ UNCHANGED vars
  <2>1. /\ UNCHANGED <<legStart, legStop, legPhase, legBatch, legReads>>
        /\ queueLeg_' \in {queueLeg_, <<>>}
    BY <1>3 DEF Container, TakeLegs, TakeLinks, AbsorbLeg, AbsorbLink, Throttle, ScanRecord, Emit,
                EndScan, ExpireLeg, ExpireLinks, Save, vars, legVars
  <2>2. /\ UNCHANGED <<linkStart, linkStop, linkPhase, linkBatch, linkReads>>
        /\ queueLink_' \in {queueLink_, <<>>}
    BY <1>3 DEF Container, TakeLegs, TakeLinks, AbsorbLeg, AbsorbLink, Throttle, ScanRecord, Emit,
                EndScan, ExpireLeg, ExpireLinks, Save, vars, linkVars
  <2>3. \A S : <<>> \in Seq(S)
    OBVIOUS
  <2>4. queueLeg_' \in Seq(Legs) /\ queueLink_' \in Seq(Links)
    BY <1>0, <2>1, <2>2, <2>3
  <2> QED
    BY <2>1, <2>2, <2>4, LegFeed!FeedDrained, LinkFeed!FeedDrained
<1> QED
  BY <1>1, <1>2, <1>3 DEF Next

-----------------------------------------------------------------------------
(* The steps of the container, by what they do to the sets of places. *)

LEMMA SameRecords ==
    ASSUME UNCHANGED <<data_, queueOutput_, saved>>
    PROVE  Emitted' = Emitted /\ Owned' = Owned
BY DEF Emitted, Owned

LEMMA SameOwned ==
    ASSUME Owned' = Owned
    PROVE  /\ \A l : (Opened(l)' <=> Opened(l)) /\ (LegInRecord(l)' <=> LegInRecord(l))
           /\ \A k : InRecord(k)' <=> InRecord(k)
           /\ LinkShareInv => LinkShareInv'
           /\ LegShareInv => LegShareInv'
BY DEF Opened, LegInRecord, InRecord, LinkShareInv, LegShareInv

LEMMA OwnedRecords == ASSUME ContainerTypes PROVE Owned \subseteq Records
<1>1. ToSet(data_) \subseteq Records /\ ToSet(queueOutput_) \subseteq Records
  BY ElementsOf DEF ContainerTypes
<1> QED
  BY <1>1 DEF Owned, Emitted, ContainerTypes

\* Where the links and the legs are after a step that moves none of them.
LEMMA NobodyMoves ==
    ASSUME PlaceInv, Owned' = Owned,
           UNCHANGED <<data_, Emitted, queueLeg_, legsIn_, queueLink_, linksIn_, legs_, links_,
                       legReads, linkReads, dropped>>
    PROVE  PlaceInv'
<1>1. RecordInv'
  BY DEF PlaceInv, RecordInv
<1>2. OrigInv'
  BY SameOwned DEF PlaceInv, OrigInv
<1>3. GroupInv' /\ LinkSeqInv' /\ LegSeqInv' /\ LinkShareInv' /\ LegShareInv'
  BY SameOwned DEF PlaceInv, GroupInv, LinkSeqInv, LegSeqInv
<1>4. LinkPlaceInv'
  BY SameOwned DEF PlaceInv, LinkPlaceInv, HeldLink
<1>5. LegPlaceInv'
  BY SameOwned DEF PlaceInv, LegPlaceInv, Unique
<1> QED
  BY <1>1, <1>2, <1>3, <1>4, <1>5 DEF PlaceInv

\* A link that was kept so far is still kept.
LEMMA StillKept ==
    ASSUME LinkKeptForItsCall, Emitted \subseteq Emitted', dropped' \cap Links \subseteq dropped
    PROVE  LinkKeptForItsCall'
BY DEF LinkKeptForItsCall, LinksOf, Orderly

LEMMA TakeLegsStep == ASSUME LegFeed!FeedInv, JoinInv, TakeLegs PROVE JoinInv'
<1> USE DEF JoinInv
<1>1. /\ pc = "takeLegs" /\ pc' = "takeLinks" /\ legsIn_' = queueLeg_ /\ queueLeg_' = <<>>
      /\ legsIn_ = <<>> /\ linksIn_ = <<>>
      /\ UNCHANGED <<data_, queueOutput_, saved, queueLink_, linksIn_, legs_, links_, legReads,
                     linkReads, dropped, legStop, linkStart, maxLegTime_, cursor, unchecked>>
  BY DEF TakeLegs, linkVars, heldVars, maxVars, scanVars, outVars, OrderInv
<1>2. Emitted' = Emitted /\ Owned' = Owned
  BY <1>1, SameRecords
<1>3. queueLeg_ \in Seq(Legs)
  BY DEF LegFeed!FeedInv, LegFeed!FeedTypes
<1>4. /\ ToSet(legsIn_)' = ToSet(queueLeg_) /\ ToSet(queueLeg_)' = {} /\ ToSet(legsIn_) = {}
      /\ IsInjective(queueLeg_)'
  BY <1>1, EmptyElements
<1>5. ContainerTypes'
  BY <1>1, <1>3 DEF ContainerTypes
<1>6. PlaceInv'
  <2>1. RecordInv'
    BY <1>1, <1>2 DEF PlaceInv, RecordInv
  <2>2. OrigInv'
    BY <1>1, <1>2, <1>4, SameOwned DEF PlaceInv, OrigInv
  <2>3. GroupInv' /\ LinkSeqInv' /\ LegSeqInv' /\ LinkShareInv' /\ LegShareInv'
    BY <1>1, <1>2, <1>4, SameOwned DEF PlaceInv, GroupInv, LinkSeqInv, LegSeqInv
  <2>4. LinkPlaceInv'
    BY <1>1, <1>2, SameOwned DEF PlaceInv, LinkPlaceInv, HeldLink
  <2>5. LegPlaceInv'
    BY <1>1, <1>2, <1>4, SameOwned DEF PlaceInv, LegPlaceInv, Unique
  <2> QED
    BY <2>1, <2>2, <2>3, <2>4, <2>5 DEF PlaceInv
<1>7. ScanInv' /\ PassedInv'
  BY <1>1, <1>2 DEF ScanInv, PassedInv, PassedBy
<1>8. OrderInv'
  BY <1>1, <1>4 DEF OrderInv, NotOlder
<1> QED
  BY <1>1, <1>2, <1>5, <1>6, <1>7, <1>8, StillKept

LEMMA TakeLinksStep == ASSUME LinkFeed!FeedInv, JoinInv, TakeLinks PROVE JoinInv'
<1> USE DEF JoinInv
<1>1. /\ pc = "takeLinks" /\ pc' \in {"takeLegs", "absorb"}
      /\ linksIn_' = queueLink_ /\ queueLink_' = <<>> /\ linksIn_ = <<>>
      /\ pc' = "takeLegs" => legsIn_ = <<>> /\ linksIn_' = <<>>
      /\ UNCHANGED <<data_, queueOutput_, saved, queueLeg_, legsIn_, legs_, links_, legReads,
                     linkReads, dropped, legStop, linkStart, maxLegTime_, cursor, unchecked>>
  BY DEF TakeLinks, legVars, heldVars, maxVars, scanVars, outVars, OrderInv
<1>2. Emitted' = Emitted /\ Owned' = Owned
  BY <1>1, SameRecords
<1>3. queueLink_ \in Seq(Links)
  BY DEF LinkFeed!FeedInv, LinkFeed!FeedTypes
<1>4. /\ ToSet(linksIn_)' = ToSet(queueLink_) /\ ToSet(queueLink_)' = {} /\ ToSet(linksIn_) = {}
      /\ IsInjective(queueLink_)'
  BY <1>1, EmptyElements
<1>5. ContainerTypes'
  BY <1>1, <1>3 DEF ContainerTypes
<1>6. PlaceInv'
  <2>1. RecordInv'
    BY <1>1, <1>2 DEF PlaceInv, RecordInv
  <2>2. OrigInv'
    BY <1>1, <1>2, SameOwned DEF PlaceInv, OrigInv
  <2>3. GroupInv' /\ LinkSeqInv' /\ LegSeqInv' /\ LinkShareInv' /\ LegShareInv'
    BY <1>1, <1>2, <1>4, SameOwned DEF PlaceInv, GroupInv, LinkSeqInv, LegSeqInv
  <2>4. LinkPlaceInv'
    BY <1>1, <1>2, <1>4, SameOwned DEF PlaceInv, LinkPlaceInv, HeldLink
  <2>5. LegPlaceInv'
    BY <1>1, <1>2, SameOwned DEF PlaceInv, LegPlaceInv, Unique
  <2> QED
    BY <2>1, <2>2, <2>3, <2>4, <2>5 DEF PlaceInv
<1>7. ScanInv' /\ PassedInv'
  BY <1>1, <1>2 DEF ScanInv, PassedInv, PassedBy
<1>8. OrderInv'
  BY <1>1 DEF OrderInv, NotOlder
<1> QED
  BY <1>1, <1>2, <1>5, <1>6, <1>7, <1>8, StillKept

\* Steps after which every leg and link is where it was.
LEMMA StandingStep ==
    ASSUME JoinInv, Throttle \/ EndScan \/ Save \/ UNCHANGED vars PROVE JoinInv'
<1> USE DEF JoinInv
<1>1. UNCHANGED <<data_, queueLeg_, legsIn_, queueLink_, linksIn_, legs_, links_, legReads,
                  linkReads, dropped, legStop, linkStart, maxLegTime_>>
  BY DEF Throttle, EndScan, Save, vars, legVars, linkVars, inVars, heldVars, maxVars
<1>2. Emitted' = Emitted /\ Owned' = Owned
  <2>1. CASE Save
    <3>1. ToSet(queueOutput_)' = {} /\ saved' = saved \cup ToSet(queueOutput_)
      BY <2>1, EmptyElements DEF Save
    <3> QED
      BY <1>1, <3>1 DEF Emitted, Owned
  <2>2. CASE Throttle \/ EndScan \/ UNCHANGED vars
    BY <2>2, SameRecords DEF Throttle, EndScan, vars, heldVars, outVars
  <2> QED
    BY <2>1, <2>2
<1>3. ContainerTypes'
  <2>1. CASE Save
    <3>1. ToSet(queueOutput_) \subseteq Records
      BY ElementsOf DEF ContainerTypes
    <3> QED
      BY <2>1, <3>1 DEF ContainerTypes, Save, heldVars, inVars, maxVars, scanVars
  <2>2. CASE Throttle \/ EndScan \/ UNCHANGED vars
    BY <2>2 DEF ContainerTypes, Throttle, EndScan, vars, heldVars, inVars, maxVars, scanVars, outVars
  <2> QED
    BY <2>1, <2>2
<1>4. PlaceInv'
  BY <1>1, <1>2, NobodyMoves
<1>5. ScanInv'
  BY <1>1 DEF ScanInv, Swept, Throttle, EndScan, Save, vars, scanVars, ContainerTypes
<1>6. PassedInv'
  BY <1>1, <1>2 DEF PassedInv, PassedBy, Throttle, EndScan, Save, vars, scanVars
<1>7. OrderInv'
  BY <1>1 DEF OrderInv, NotOlder, Throttle, EndScan, Save, vars, scanVars
<1> QED
  BY <1>1, <1>2, <1>3, <1>4, <1>5, <1>6, <1>7, StillKept

\* An originating leg opens a record nobody has; a terminating leg is held.
LEMMA AbsorbLegStep == ASSUME LegFeed!FeedInv, JoinInv, AbsorbLeg PROVE JoinInv'
<1> USE DEF JoinInv
<1> DEFINE l == Head(legsIn_)
<1>1. /\ pc = "absorb" /\ legsIn_ # <<>> /\ legsIn_' = Tail(legsIn_)
      /\ data_' = IF l \in Orig THEN Append(data_, NewRecord(l)) ELSE data_
      /\ legs_' = IF l \in Orig THEN legs_ ELSE Overwrite(legs_, l)
      /\ maxLegTime_' = Later(maxLegTime_, LegTime[l])
      /\ UNCHANGED <<pc, queueOutput_, saved, queueLink_, linksIn_, links_, legReads, queueLeg_,
                     linkReads, dropped, legStop, linkStart, cursor, unchecked>>
  BY DEF AbsorbLeg, legVars, linkVars, scanVars, outVars
<1>2. /\ l \in Legs /\ l \in ToSet(legsIn_) /\ legsIn_' \in Seq(Legs)
      /\ ToSet(legsIn_)' = ToSet(legsIn_) \ {l} /\ IsInjective(legsIn_)'
  BY <1>1, HeadTail DEF ContainerTypes, PlaceInv, LegSeqInv
<1>3. LegTime[l] \in Nat /\ legStop \in Nat /\ LegTime[l] <= legStop
  <2>1. legReads[l] = 1
    BY <1>2 DEF PlaceInv, LegPlaceInv
  <2> QED
    BY <1>2, <2>1, ContainerAssumption DEF LegFeed!FeedInv, LegFeed!FeedTypes, LegFeed!ReadInv
<1> HIDE DEF l
<1>4. Emitted' = Emitted
  BY <1>1 DEF Emitted
<1>5. ASSUME l \in Orig PROVE PlaceInv' /\ data_' \in Seq(Records) /\ legs_' \in SUBSET Legs
  <2> DEFINE rec == NewRecord(l)
  <2>1. rec \in Records /\ rec.leg = l /\ rec.links = {} /\ rec.legs = {l}
    BY <1>2, <1>5 DEF NewRecord, Records
  <2>2. ~Opened(l) /\ ~LegInRecord(l) /\ l \notin ToSet(queueLeg_) /\ l \notin legs_ /\ l \notin dropped
    BY <1>2, <1>5 DEF PlaceInv, OrigInv, LegPlaceInv
  <2>3. \A r \in Owned : r.leg # l /\ l \notin r.legs /\ r # rec
    BY <2>1, <2>2 DEF Opened, LegInRecord
  <2>4. data_' = Append(data_, rec) /\ legs_' = legs_
    BY <1>1, <1>5
  <2> HIDE DEF rec
  <2>5. /\ data_' \in Seq(Records) /\ ToSet(data_)' = ToSet(data_) \cup {rec} /\ IsInjective(data_)'
    BY <2>1, <2>3, <2>4, Appending DEF ContainerTypes, PlaceInv, RecordInv, Owned
  <2>6. Owned' = Owned \cup {rec} /\ rec \notin Owned
    BY <1>4, <2>3, <2>5 DEF Owned
  <2>7. /\ \A m : (Opened(m)' <=> Opened(m) \/ m = l) /\ (LegInRecord(m)' <=> LegInRecord(m) \/ m = l)
        /\ \A k : InRecord(k)' <=> InRecord(k)
    BY <2>1, <2>6 DEF Opened, LegInRecord, InRecord
  <2>8. RecordInv'
    BY <1>4, <2>1, <2>3, <2>5, <2>6 DEF PlaceInv, RecordInv, Owned
  <2>9. OrigInv'
    BY <1>1, <1>2, <2>2, <2>7 DEF PlaceInv, OrigInv
  <2>10. GroupInv' /\ LinkSeqInv' /\ LegSeqInv'
    BY <1>1, <1>2, <2>4 DEF PlaceInv, GroupInv, LinkSeqInv, LegSeqInv
  <2>11. LinkShareInv' /\ LegShareInv'
    BY <2>1, <2>3, <2>6 DEF PlaceInv, LinkShareInv, LegShareInv
  <2>12. LinkPlaceInv'
    BY <1>1, <2>7 DEF PlaceInv, LinkPlaceInv, HeldLink
  <2>13. LegPlaceInv'
    BY <1>1, <1>2, <2>2, <2>4, <2>7 DEF PlaceInv, LegPlaceInv, Unique
  <2> QED
    BY <2>4, <2>5, <2>8, <2>9, <2>10, <2>11, <2>12, <2>13 DEF PlaceInv, ContainerTypes
<1>6. ASSUME l \notin Orig PROVE PlaceInv' /\ data_' \in Seq(Records) /\ legs_' \in SUBSET Legs
  <2>1. data_' = data_ /\ legs_' = {m \in legs_ : LegUid[m] # LegUid[l]} \cup {l}
    BY <1>1, <1>6 DEF Overwrite
  <2>2. Owned' = Owned
    BY <1>1, <2>1, SameRecords
  <2>3. /\ RecordInv' /\ OrigInv' /\ GroupInv' /\ LinkSeqInv' /\ LinkShareInv' /\ LegShareInv'
        /\ LinkPlaceInv'
    <3>1. RecordInv' /\ GroupInv' /\ LinkSeqInv' /\ LinkShareInv' /\ LegShareInv'
      BY <1>1, <1>4, <2>1, <2>2, SameOwned DEF PlaceInv, RecordInv, GroupInv, LinkSeqInv
    <3>2. OrigInv'
      BY <1>1, <1>2, <1>6, <2>2, SameOwned DEF PlaceInv, OrigInv
    <3>3. LinkPlaceInv'
      BY <1>1, <2>2, SameOwned DEF PlaceInv, LinkPlaceInv, HeldLink
    <3> QED
      BY <3>1, <3>2, <3>3
  <2>4. LegSeqInv'
    BY <1>1, <1>2, <1>6, <2>1 DEF PlaceInv, LegSeqInv
  <2>5. LegPlaceInv'
    BY <1>1, <1>2, <2>1, <2>2, SameOwned DEF PlaceInv, LegPlaceInv, Unique, ContainerTypes
  <2>6. data_' \in Seq(Records) /\ legs_' \in SUBSET Legs
    BY <1>2, <2>1 DEF ContainerTypes
  <2> QED
    BY <2>3, <2>4, <2>5, <2>6 DEF PlaceInv
<1>7. PlaceInv' /\ data_' \in Seq(Records) /\ legs_' \in SUBSET Legs
  BY <1>5, <1>6
<1>8. ContainerTypes'
  BY <1>1, <1>2, <1>3, <1>7 DEF ContainerTypes, Later
<1>9. ScanInv' /\ PassedInv'
  BY <1>1, <1>4 DEF ScanInv, PassedInv, PassedBy
<1>10. OrderInv'
  <2>0. \A m \in ToSet(legsIn_) \cup ToSet(queueLeg_) : m \in Legs /\ LegTime[m] \in Nat
    BY ElementsOf, ContainerAssumption DEF ContainerTypes, LegFeed!FeedInv, LegFeed!FeedTypes
  <2>1. /\ Len(legsIn_) \in Nat \ {0} /\ DOMAIN legsIn_ = 1..Len(legsIn_) /\ l = legsIn_[1]
        /\ DOMAIN legsIn_' = 1..(Len(legsIn_) - 1)
        /\ \A i \in 1..(Len(legsIn_) - 1) : legsIn_'[i] = legsIn_[i + 1]
    BY <1>1 DEF ContainerTypes, l
  <2>2. \A m \in ToSet(legsIn_)' : NotOlder(l, m)
    <3> SUFFICES ASSUME NEW m \in ToSet(legsIn_)' PROVE NotOlder(l, m)
      OBVIOUS
    <3>1. PICK i \in DOMAIN legsIn_ : legsIn_[i] = m
      BY <1>2, ElementsOf DEF ContainerTypes
    <3>2. i > 1
      BY <3>1, <2>1, <1>2
    <3> QED
      BY <3>1, <3>2, <2>1 DEF OrderInv
  <2>3. \A m \in ToSet(queueLeg_) : NotOlder(l, m)
    <3> SUFFICES ASSUME NEW m \in ToSet(queueLeg_) PROVE NotOlder(l, m)
      OBVIOUS
    <3>1. PICK i \in DOMAIN queueLeg_ : queueLeg_[i] = m
      BY ElementsOf DEF LegFeed!FeedInv, LegFeed!FeedTypes
    <3> QED
      BY <3>1, <2>1 DEF OrderInv
  <2>4. \A m \in ToSet(legsIn_)' \cup ToSet(queueLeg_)' : maxLegTime_' < LegTime[m] + max_call_time
    <3> SUFFICES ASSUME NEW m \in ToSet(legsIn_)' \cup ToSet(queueLeg_)'
                 PROVE  maxLegTime_' < LegTime[m] + max_call_time
      OBVIOUS
    <3>1. m \in ToSet(legsIn_) \cup ToSet(queueLeg_) /\ NotOlder(l, m)
      BY <1>1, <1>2, <2>2, <2>3
    <3> QED
      BY <1>1, <3>1 DEF OrderInv, NotOlder, Later
  <2>5. maxLegTime_' <= legStop'
    BY <1>1, <1>3 DEF OrderInv, Later
  <2>6. \A i, j \in DOMAIN legsIn_' : i < j => NotOlder(legsIn_'[i], legsIn_'[j])
    <3> SUFFICES ASSUME NEW i \in DOMAIN legsIn_', NEW j \in DOMAIN legsIn_', i < j
                 PROVE  NotOlder(legsIn_'[i], legsIn_'[j])
      OBVIOUS
    <3>1. i + 1 \in DOMAIN legsIn_ /\ j + 1 \in DOMAIN legsIn_ /\ i + 1 < j + 1
      BY <2>1
    <3> QED
      BY <3>1, <2>1 DEF OrderInv
  <2>7. \A i \in DOMAIN legsIn_', j \in DOMAIN queueLeg_ : NotOlder(legsIn_'[i], queueLeg_[j])
    <3> SUFFICES ASSUME NEW i \in DOMAIN legsIn_', NEW j \in DOMAIN queueLeg_
                 PROVE  NotOlder(legsIn_'[i], queueLeg_[j])
      OBVIOUS
    <3>1. i + 1 \in DOMAIN legsIn_
      BY <2>1
    <3> QED
      BY <3>1, <2>1 DEF OrderInv
  <2> QED
    BY <1>1, <2>4, <2>5, <2>6, <2>7 DEF OrderInv, NotOlder
<1> QED
  BY <1>1, <1>4, <1>7, <1>8, <1>9, <1>10, StillKept

\* A link joins the group of its uniqueid_orig.
LEMMA AbsorbLinkStep == ASSUME JoinInv, AbsorbLink PROVE JoinInv'
<1> USE DEF JoinInv
<1> DEFINE k == Head(linksIn_)
<1>1. /\ pc = "absorb" /\ linksIn_ # <<>> /\ linksIn_' = Tail(linksIn_)
      /\ links_' = [links_ EXCEPT ![LinkOrig[k]] = Append(@, k)]
      /\ UNCHANGED <<pc, data_, legs_, queueOutput_, saved, queueLink_, legsIn_, legReads, queueLeg_,
                     linkReads, dropped, legStop, linkStart, maxLegTime_, cursor, unchecked>>
  BY DEF AbsorbLink, legVars, linkVars, scanVars, outVars
<1>2. /\ k \in Links /\ k \in ToSet(linksIn_) /\ linksIn_' \in Seq(Links)
      /\ ToSet(linksIn_)' = ToSet(linksIn_) \ {k} /\ IsInjective(linksIn_)'
  BY <1>1, HeadTail DEF ContainerTypes, PlaceInv, LinkSeqInv
<1> HIDE DEF k
<1>3. Emitted' = Emitted /\ Owned' = Owned
  BY <1>1, SameRecords
<1>4. LinkOrig[k] \in Uids /\ \A j \in Links : LinkOrig[j] \in Uids
  BY <1>2 DEF Uids
<1>5. k \notin ToSet(links_[LinkOrig[k]])
  BY <1>2 DEF PlaceInv, LinkPlaceInv, HeldLink
<1>6. \A u \in Uids : /\ links_'[u] \in Seq(Links) /\ IsInjective(links_'[u])
                      /\ ToSet(links_'[u]) = IF u = LinkOrig[k] THEN ToSet(links_[u]) \cup {k} ELSE ToSet(links_[u])
  <2> SUFFICES ASSUME NEW u \in Uids
               PROVE  /\ links_'[u] \in Seq(Links) /\ IsInjective(links_'[u])
                      /\ ToSet(links_'[u]) = IF u = LinkOrig[k] THEN ToSet(links_[u]) \cup {k} ELSE ToSet(links_[u])
    OBVIOUS
  <2>1. links_[u] \in Seq(Links) /\ IsInjective(links_[u])
    BY DEF ContainerTypes, PlaceInv, GroupInv
  <2>2. links_'[u] = IF u = LinkOrig[k] THEN Append(links_[u], k) ELSE links_[u]
    BY <1>1, <1>4 DEF ContainerTypes
  <2>3. CASE u = LinkOrig[k]
    BY <1>2, <1>5, <2>1, <2>2, <2>3, Appending
  <2>4. CASE u # LinkOrig[k]
    BY <2>1, <2>2, <2>4
  <2> QED
    BY <2>3, <2>4
<1>7. ContainerTypes'
  <2>1. links_' \in [Uids -> Seq(Links)]
    BY <1>1, <1>4, <1>6 DEF ContainerTypes
  <2> QED
    BY <1>1, <1>2, <2>1 DEF ContainerTypes
<1>8. \A j \in Links : HeldLink(j)' <=> HeldLink(j) \/ j = k
  BY <1>4, <1>6 DEF HeldLink
<1>9. PlaceInv'
  <2>0. OrigInv'
    BY <1>1, <1>3, SameOwned DEF PlaceInv, OrigInv
  <2>1. RecordInv' /\ LinkShareInv' /\ LegSeqInv' /\ LegShareInv'
    BY <1>1, <1>3, SameOwned DEF PlaceInv, RecordInv, LegSeqInv
  <2>2. GroupInv' /\ LinkSeqInv'
    <3>1. queueLink_' = queueLink_
      BY <1>1
    <3>2. ASSUME NEW u \in Uids, NEW j \in ToSet(links_'[u]) PROVE LinkOrig[j] = u
      BY <1>6, <3>2 DEF PlaceInv, GroupInv
    <3> QED
      BY <1>2, <1>6, <3>1, <3>2 DEF PlaceInv, GroupInv, LinkSeqInv
  <2>3. LinkPlaceInv'
    BY <1>1, <1>2, <1>3, <1>8, SameOwned DEF PlaceInv, LinkPlaceInv
  <2>4. LegPlaceInv'
    BY <1>1, <1>3, SameOwned DEF PlaceInv, LegPlaceInv, Unique
  <2> QED
    BY <2>0, <2>1, <2>2, <2>3, <2>4 DEF PlaceInv
<1>10. ScanInv' /\ PassedInv' /\ OrderInv'
  BY <1>1, <1>3 DEF ScanInv, PassedInv, PassedBy, OrderInv, NotOlder
<1> QED
  BY <1>1, <1>3, <1>7, <1>9, <1>10, StillKept

\* A row put on queueLeg_ is not max_call_time older than any read before.
LEMMA LegStepKeeps == ASSUME LegFeed!FeedInv, JoinInv, LegStep PROVE JoinInv'
<1> USE DEF JoinInv
<1>1. UNCHANGED <<pc, data_, legs_, links_, queueOutput_, saved, queueLink_, linksIn_, legsIn_,
                  linkReads, dropped, linkStart, maxLegTime_, cursor, unchecked>>
  BY DEF LegStep, linkVars, inVars, heldVars, maxVars, scanVars, outVars
<1>2. Emitted' = Emitted /\ Owned' = Owned
  BY <1>1, SameRecords
<1>3. /\ legStop' >= legStop
      /\ \/ UNCHANGED <<queueLeg_, legReads>>
         \/ /\ UNCHANGED <<legStart, legStop>>
            /\ \E r \in Legs : /\ legReads[r] = 0
                               /\ legStart < LegTime[r] /\ LegTime[r] <= legStop
                               /\ queueLeg_' = Append(queueLeg_, r)
                               /\ legReads' = [legReads EXCEPT ![r] = 1]
  BY Settled, LegReaderStep, LegFeed!FeedPuts DEF LegStep
<1>4. legStop \in Nat /\ legStop' \in Nat
  <2>1. LegFeed!FeedInv'
    BY Settled, LegReaderStep, LegFeed!FeedStep DEF LegStep
  <2> QED
    BY <2>1 DEF LegFeed!FeedInv, LegFeed!FeedTypes
<1>5. ContainerTypes' /\ ScanInv' /\ PassedInv'
  BY <1>1, <1>2 DEF ContainerTypes, ScanInv, Swept, PassedInv, PassedBy
<1>6. CASE UNCHANGED <<queueLeg_, legReads>>
  <2>1. PlaceInv'
    BY <1>1, <1>2, <1>6, NobodyMoves
  <2>2. OrderInv'
    BY <1>1, <1>3, <1>4, <1>6 DEF OrderInv, NotOlder, ContainerTypes
  <2> QED
    BY <1>1, <1>2, <1>5, <2>1, <2>2, StillKept
<1>7. CASE /\ UNCHANGED <<legStart, legStop>>
           /\ \E r \in Legs : /\ legReads[r] = 0
                              /\ legStart < LegTime[r] /\ LegTime[r] <= legStop
                              /\ queueLeg_' = Append(queueLeg_, r)
                              /\ legReads' = [legReads EXCEPT ![r] = 1]
  <2>1. PICK r \in Legs : /\ legReads[r] = 0
                          /\ legStart < LegTime[r] /\ LegTime[r] <= legStop
                          /\ queueLeg_' = Append(queueLeg_, r)
                          /\ legReads' = [legReads EXCEPT ![r] = 1]
    BY <1>7
  <2>2. /\ r \notin ToSet(queueLeg_) /\ r \notin ToSet(legsIn_) /\ r \notin legs_
        /\ ~LegInRecord(r) /\ r \notin dropped
    BY <2>1 DEF PlaceInv, LegPlaceInv
  <2>3. /\ queueLeg_ \in Seq(Legs) /\ legReads \in [Legs -> {0, 1}]
        /\ legStart \in Nat /\ legStop \in Nat /\ legStop <= legStart + max_call_time
    BY DEF LegFeed!FeedInv, LegFeed!FeedTypes, LegFeed!SpanInv
  <2>4. \A m \in Legs : legReads'[m] = 1 <=> legReads[m] = 1 \/ m = r
    BY <2>1, <2>3
  <2>5. /\ ToSet(queueLeg_)' = ToSet(queueLeg_) \cup {r} /\ IsInjective(queueLeg_)'
        /\ DOMAIN queueLeg_' = 1..(Len(queueLeg_) + 1)
        /\ \A i \in DOMAIN queueLeg_ : queueLeg_'[i] = queueLeg_[i]
        /\ queueLeg_'[Len(queueLeg_) + 1] = r
    BY <2>1, <2>2, <2>3, Appending DEF PlaceInv, LegSeqInv
  <2>6. PlaceInv'
    <3>1. RecordInv' /\ GroupInv' /\ LinkSeqInv' /\ LegSeqInv' /\ LinkShareInv' /\ LegShareInv'
      BY <1>1, <1>2, <2>5, SameOwned DEF PlaceInv, RecordInv, GroupInv, LinkSeqInv, LegSeqInv
    <3>2. r \in Orig => ~Opened(r)
      BY <2>1 DEF PlaceInv, OrigInv
    <3>3. OrigInv'
      BY <1>1, <1>2, <2>4, <2>5, <3>2, SameOwned, ContainerAssumption DEF PlaceInv, OrigInv
    <3>4. LinkPlaceInv'
      BY <1>1, <1>2, SameOwned DEF PlaceInv, LinkPlaceInv, HeldLink
    <3>5. LegPlaceInv'
      BY <1>1, <1>2, <2>2, <2>4, <2>5, SameOwned DEF PlaceInv, LegPlaceInv, Unique
    <3> QED
      BY <3>1, <3>3, <3>4, <3>5 DEF PlaceInv
  <2>7. OrderInv'
    <3>1. \A m \in ToSet(legsIn_) \cup ToSet(queueLeg_) : NotOlder(m, r)
      <4> SUFFICES ASSUME NEW m \in ToSet(legsIn_) \cup ToSet(queueLeg_) PROVE NotOlder(m, r)
        OBVIOUS
      <4>1. m \in Legs /\ legReads[m] = 1
        BY <2>3, ElementsOf DEF PlaceInv, LegPlaceInv, ContainerTypes
      <4>2. LegTime[m] \in Nat /\ LegTime[r] \in Nat /\ LegTime[m] <= legStop
        BY <4>1, ContainerAssumption DEF LegFeed!FeedInv, LegFeed!ReadInv
      <4> QED
        BY <2>1, <2>3, <4>2, ContainerAssumption DEF NotOlder
    <3>2. maxLegTime_ < LegTime[r] + max_call_time /\ maxLegTime_ <= legStop'
      BY <1>7, <2>1, <2>3, ContainerAssumption DEF OrderInv, ContainerTypes
    <3>3. DOMAIN queueLeg_ = 1..Len(queueLeg_) /\ Len(queueLeg_) \in Nat
      BY <2>3
    <3>4. \A i \in DOMAIN queueLeg_' : i \in DOMAIN queueLeg_ \/ i = Len(queueLeg_) + 1
      BY <2>5, <3>3
    <3>5. \A i, j \in DOMAIN queueLeg_' : i < j => NotOlder(queueLeg_'[i], queueLeg_'[j])
      <4> SUFFICES ASSUME NEW i \in DOMAIN queueLeg_', NEW j \in DOMAIN queueLeg_', i < j
                   PROVE  NotOlder(queueLeg_'[i], queueLeg_'[j])
        OBVIOUS
      <4>1. i \in DOMAIN queueLeg_
        BY <2>5, <3>3
      <4>2. CASE j \in DOMAIN queueLeg_
        BY <4>1, <4>2, <2>5 DEF OrderInv
      <4>3. CASE j = Len(queueLeg_) + 1
        BY <4>1, <4>3, <2>3, <2>5, <3>1, ElementsOf
      <4> QED
        BY <3>4, <4>2, <4>3
    <3>6. \A i \in DOMAIN legsIn_, j \in DOMAIN queueLeg_' : NotOlder(legsIn_[i], queueLeg_'[j])
      <4> SUFFICES ASSUME NEW i \in DOMAIN legsIn_, NEW j \in DOMAIN queueLeg_'
                   PROVE  NotOlder(legsIn_[i], queueLeg_'[j])
        OBVIOUS
      <4>1. legsIn_[i] \in ToSet(legsIn_)
        BY DEF ToSet
      <4> QED
        BY <4>1, <2>5, <3>1, <3>4 DEF OrderInv
    <3> QED
      BY <1>1, <2>5, <3>2, <3>5, <3>6 DEF OrderInv, NotOlder
  <2> QED
    BY <1>1, <1>2, <1>5, <2>6, <2>7, StillKept
<1> QED
  BY <1>3, <1>6, <1>7

\* The link reader only moves on.
LEMMA LinkStepKeeps == ASSUME LinkFeed!FeedInv, JoinInv, LinkStep PROVE JoinInv'
<1> USE DEF JoinInv
<1>1. UNCHANGED <<pc, data_, legs_, links_, queueOutput_, saved, queueLeg_, linksIn_, legsIn_,
                  legReads, dropped, legStop, maxLegTime_, cursor, unchecked>>
  BY DEF LinkStep, legVars, inVars, heldVars, maxVars, scanVars, outVars
<1>2. Emitted' = Emitted /\ Owned' = Owned
  BY <1>1, SameRecords
<1>3. /\ linkStart' >= linkStart
      /\ \/ UNCHANGED <<queueLink_, linkReads>>
         \/ \E r \in Links : /\ linkReads[r] = 0
                             /\ queueLink_' = Append(queueLink_, r)
                             /\ linkReads' = [linkReads EXCEPT ![r] = 1]
  <2>1. LinkFeed!Reader
    BY LinkReaderStep DEF LinkStep
  <2>2. /\ linkStart' >= linkStart
        /\ \/ UNCHANGED <<queueLink_, linkReads>>
           \/ \E r \in Links : /\ linkReads[r] = 0
                               /\ linkStart < LinkTime[r] /\ LinkTime[r] <= linkStop
                               /\ queueLink_' = Append(queueLink_, r)
                               /\ linkReads' = [linkReads EXCEPT ![r] = 1]
    BY <2>1, Settled, LinkFeed!FeedPuts
  <2> QED
    BY <2>2
<1>4. linkStart \in Nat /\ linkStart' \in Nat
  <2>1. LinkFeed!FeedInv'
    BY Settled, LinkReaderStep, LinkFeed!FeedStep DEF LinkStep
  <2> QED
    BY <2>1 DEF LinkFeed!FeedInv, LinkFeed!FeedTypes
<1>5. ContainerTypes' /\ ScanInv' /\ OrderInv'
  BY <1>1 DEF ContainerTypes, ScanInv, Swept, OrderInv, NotOlder
<1>6. PassedInv'
  <2>1. ASSUME NEW m \in Legs, PassedBy(m) PROVE PassedBy(m)'
    BY <1>3, <1>4, <2>1, ContainerAssumption DEF PassedBy
  <2>2. \A r \in Owned : r.leg \in Legs
    BY OwnedRecords, ContainerAssumption DEF Records
  <2>3. Emitted \subseteq Owned /\ (pc = "emit" => data_[cursor] \in Owned)
    BY ElementsOf DEF Owned, ScanInv, ContainerTypes
  <2> QED
    BY <1>1, <1>2, <2>1, <2>2, <2>3 DEF PassedInv
<1>7. PlaceInv'
  <2>1. CASE UNCHANGED <<queueLink_, linkReads>>
    BY <1>1, <1>2, <2>1, NobodyMoves
  <2>2. CASE \E r \in Links : /\ linkReads[r] = 0
                              /\ queueLink_' = Append(queueLink_, r)
                              /\ linkReads' = [linkReads EXCEPT ![r] = 1]
    <3>1. PICK r \in Links : /\ linkReads[r] = 0
                             /\ queueLink_' = Append(queueLink_, r)
                             /\ linkReads' = [linkReads EXCEPT ![r] = 1]
      BY <2>2
    <3>2. /\ r \notin ToSet(queueLink_) /\ r \notin ToSet(linksIn_) /\ ~HeldLink(r)
          /\ ~InRecord(r) /\ r \notin dropped
      BY <3>1 DEF PlaceInv, LinkPlaceInv
    <3>3. queueLink_ \in Seq(Links) /\ linkReads \in [Links -> {0, 1}]
      BY DEF LinkFeed!FeedInv, LinkFeed!FeedTypes
    <3>4. \A k \in Links : linkReads'[k] = 1 <=> linkReads[k] = 1 \/ k = r
      BY <3>1, <3>3
    <3>5. ToSet(queueLink_)' = ToSet(queueLink_) \cup {r} /\ IsInjective(queueLink_)'
      BY <3>1, <3>2, <3>3, Appending DEF PlaceInv, LinkSeqInv
    <3>6. RecordInv' /\ GroupInv' /\ LinkSeqInv' /\ LegSeqInv' /\ LinkShareInv' /\ LegShareInv'
      BY <1>1, <1>2, <3>5, SameOwned DEF PlaceInv, RecordInv, GroupInv, LinkSeqInv, LegSeqInv
    <3>7. OrigInv'
      BY <1>1, <1>2, SameOwned DEF PlaceInv, OrigInv
    <3>8. \A k \in Links : HeldLink(k)' <=> HeldLink(k)
      BY <1>1 DEF HeldLink
    <3>9. LinkPlaceInv'
      BY <1>1, <1>2, <3>2, <3>4, <3>5, <3>8, SameOwned DEF PlaceInv, LinkPlaceInv
    <3>10. LegPlaceInv'
      BY <1>1, <1>2, SameOwned DEF PlaceInv, LegPlaceInv, Unique
    <3> QED
      BY <3>6, <3>7, <3>9, <3>10 DEF PlaceInv
  <2> QED
    BY <1>3, <2>1, <2>2
<1> QED
  BY <1>1, <1>2, <1>5, <1>6, <1>7, StillKept

\* The record leaves as it is; it was due.
LEMMA EmitStep == ASSUME JoinInv, Emit PROVE JoinInv' /\ Emitted' = Emitted \cup {data_[cursor]}
<1> USE DEF JoinInv
<1> DEFINE rec == data_[cursor]
<1>1. /\ pc = "emit" /\ pc' = "scan"
      /\ queueOutput_' = Append(queueOutput_, rec) /\ data_' = RemoveAt(data_, cursor)
      /\ UNCHANGED <<legs_, links_, saved, queueLink_, linksIn_, legsIn_, legReads, queueLeg_,
                     linkReads, dropped, legStop, linkStart, maxLegTime_, cursor, unchecked>>
  BY DEF Emit, legVars, linkVars, inVars, maxVars, scanVars
<1>2. /\ cursor \in DOMAIN data_ /\ data_ \in Seq(Records) /\ queueOutput_ \in Seq(Records)
      /\ DOMAIN data_ = 1..Len(data_) /\ Len(data_) \in Nat
  BY <1>1 DEF ScanInv, ContainerTypes
<1>3. rec \in Records /\ rec \in ToSet(data_)
  BY <1>2, ElementsOf
<1>4. /\ data_' \in Seq(Records) /\ ToSet(data_)' = ToSet(data_) \ {rec} /\ IsInjective(data_)'
      /\ DOMAIN data_' = 1..(Len(data_) - 1)
      /\ \A i \in DOMAIN data_' : data_'[i] = IF i < cursor THEN data_[i] ELSE data_[i + 1]
  BY <1>1, <1>2, Removing DEF PlaceInv, RecordInv
<1>5. queueOutput_' \in Seq(Records) /\ ToSet(queueOutput_)' = ToSet(queueOutput_) \cup {rec}
  BY <1>1, <1>2, <1>3, Appending
<1> HIDE DEF rec
<1>6. Emitted' = Emitted \cup {rec} /\ Owned' = Owned
  BY <1>1, <1>3, <1>4, <1>5 DEF Emitted, Owned
<1>7. ContainerTypes'
  BY <1>1, <1>4, <1>5 DEF ContainerTypes
<1>8. PlaceInv'
  <2>1. RecordInv'
    BY <1>4, <1>6 DEF PlaceInv, RecordInv
  <2>2. OrigInv'
    BY <1>1, <1>6, SameOwned DEF PlaceInv, OrigInv
  <2>3. GroupInv' /\ LinkSeqInv' /\ LegSeqInv' /\ LinkShareInv' /\ LegShareInv'
    BY <1>1, <1>6, SameOwned DEF PlaceInv, GroupInv, LinkSeqInv, LegSeqInv
  <2>4. LinkPlaceInv'
    BY <1>1, <1>6, SameOwned DEF PlaceInv, LinkPlaceInv, HeldLink
  <2>5. LegPlaceInv'
    BY <1>1, <1>6, SameOwned DEF PlaceInv, LegPlaceInv, Unique
  <2> QED
    BY <2>1, <2>2, <2>3, <2>4, <2>5 DEF PlaceInv
<1>9. ScanInv'
  <2> SUFFICES ASSUME NEW i \in DOMAIN data_', i < cursor PROVE Swept(i)'
    BY <1>1 DEF ScanInv
  <2>1. i \in DOMAIN data_ /\ data_'[i] = data_[i]
    BY <1>2, <1>4
  <2> QED
    BY <1>1, <2>1, <1>2, <1>4 DEF ScanInv, Swept
<1>10. PassedInv'
  BY <1>1, <1>6 DEF PassedInv, PassedBy, rec
<1>11. OrderInv'
  BY <1>1 DEF OrderInv, NotOlder
<1> QED
  BY <1>1, <1>6, <1>7, <1>8, <1>9, <1>10, <1>11, StillKept DEF rec

\* A held leg is forgotten once the link reader is max_call_time past it.
LEMMA ExpireLegStep == ASSUME JoinInv, ExpireLeg PROVE JoinInv'
<1> USE DEF JoinInv
<1>1. /\ pc = "expire"
      /\ UNCHANGED <<pc, data_, links_, queueOutput_, saved, queueLink_, linksIn_, legsIn_, legReads,
                     queueLeg_, linkReads, legStop, linkStart, maxLegTime_, cursor>>
  BY DEF ExpireLeg, legVars, linkVars, inVars, maxVars, outVars
<1>2. PICK l \in unchecked : /\ unchecked' = unchecked \ {l}
                             /\ IF Due(LegTime[l])
                                THEN legs_' = legs_ \ {l} /\ dropped' = dropped \cup {l}
                                ELSE UNCHANGED <<legs_, dropped>>
  BY DEF ExpireLeg
<1>3. l \in legs_ /\ l \in Legs /\ l \notin Links
  BY <1>1, ContainerAssumption DEF ScanInv, ContainerTypes
<1>4. Emitted' = Emitted /\ Owned' = Owned
  BY <1>1, SameRecords
<1>5. CASE ~Due(LegTime[l])
  <2>1. UNCHANGED <<legs_, dropped>>
    BY <1>2, <1>5
  <2>2. PlaceInv'
    BY <1>1, <1>4, <2>1, NobodyMoves
  <2>3. ContainerTypes' /\ ScanInv' /\ PassedInv' /\ OrderInv'
    BY <1>1, <1>2, <1>4, <2>1 DEF ContainerTypes, ScanInv, Swept, PassedInv, PassedBy, OrderInv, NotOlder
  <2> QED
    BY <1>4, <2>1, <2>2, <2>3, StillKept
<1>6. CASE Due(LegTime[l])
  <2>1. legs_' = legs_ \ {l} /\ dropped' = dropped \cup {l}
    BY <1>2, <1>6
  <2>2. PassedBy(l)
    BY <1>6 DEF Due, PassedBy
  <2>3. PlaceInv'
    <3>1. RecordInv' /\ GroupInv' /\ LinkSeqInv' /\ LegSeqInv' /\ LinkShareInv' /\ LegShareInv'
      BY <1>1, <1>4, <2>1, SameOwned DEF PlaceInv, RecordInv, GroupInv, LinkSeqInv, LegSeqInv
    <3>2. OrigInv'
      BY <1>1, <1>4, SameOwned DEF PlaceInv, OrigInv
    <3>3. \A k \in Links : (HeldLink(k)' <=> HeldLink(k)) /\ (k \in dropped' <=> k \in dropped)
      BY <1>1, <1>3, <2>1 DEF HeldLink
    <3>4. LinkPlaceInv'
      BY <1>1, <1>4, <3>3, SameOwned DEF PlaceInv, LinkPlaceInv
    <3>5. LegPlaceInv'
      BY <1>1, <1>3, <1>4, <2>1, SameOwned DEF PlaceInv, LegPlaceInv, Unique
    <3> QED
      BY <3>1, <3>2, <3>4, <3>5 DEF PlaceInv
  <2>4. ContainerTypes' /\ OrderInv'
    BY <1>1, <1>3, <2>1 DEF ContainerTypes, OrderInv, NotOlder
  <2>5. ScanInv'
    BY <1>1, <1>2, <2>1 DEF ScanInv, Swept
  <2>6. PassedInv'
    BY <1>1, <1>4, <2>1, <2>2 DEF PassedInv, PassedBy
  <2>7. dropped' \cap Links \subseteq dropped
    BY <1>3, <2>1
  <2> QED
    BY <1>4, <2>3, <2>4, <2>5, <2>6, <2>7, StillKept
<1> QED
  BY <1>5, <1>6

\* A record takes the group of its uniqueid and the held legs its links name.
LEMMA ScanRecordStep == ASSUME JoinInv, ScanRecord PROVE JoinInv' /\ Emitted' = Emitted
<1> USE DEF JoinInv
<1> DEFINE old == data_[cursor]
           rec == Attach(old)
           u == LegUid[old.leg]
           G == ToSet(links_[u])
           found == {l \in legs_ : \E k \in old.links \cup G : LinkTerm[k] = LegUid[l]}
<1>1. /\ pc = "scan" /\ cursor <= Len(data_) /\ data_' = [data_ EXCEPT ![cursor] = rec]
      /\ links_' = [links_ EXCEPT ![LegUid[rec.leg]] = <<>>] /\ legs_' = legs_ \ rec.legs
      /\ IF Due(LegTime[rec.leg])
         THEN pc' = "emit" /\ UNCHANGED cursor ELSE cursor' = cursor + 1 /\ UNCHANGED pc
      /\ UNCHANGED <<queueOutput_, saved, queueLink_, linksIn_, legsIn_, legReads, queueLeg_,
                     linkReads, dropped, legStop, linkStart, maxLegTime_, unchecked>>
  BY DEF ScanRecord, legVars, linkVars, inVars, maxVars, outVars
<1>2. /\ cursor \in DOMAIN data_ /\ data_ \in Seq(Records) /\ links_ \in [Uids -> Seq(Links)]
      /\ DOMAIN data_ = 1..Len(data_) /\ Len(data_) \in Nat /\ legs_ \subseteq Legs
      /\ cursor \in Nat
  BY <1>1 DEF ContainerTypes
<1>3. old \in Records /\ old \in ToSet(data_) /\ old \in Owned /\ old \notin Emitted
  BY <1>2, ElementsOf DEF PlaceInv, RecordInv, Owned
<1>4. /\ old.leg \in Orig /\ old.leg \in Legs /\ old.links \subseteq Links /\ old.legs \subseteq Legs
      /\ u \in Uids
  BY <1>3, ContainerAssumption DEF Records, Uids
<1>5. G \subseteq Links /\ found \subseteq legs_
  BY <1>2, <1>4, ElementsOf
<1>6. /\ rec = [leg |-> old.leg, links |-> old.links \cup G,
                legs |-> {m \in old.legs : \A l \in found : LegUid[m] # LegUid[l]} \cup found]
  BY DEF Attach
<1> HIDE DEF old, rec, u, G, found
<1>7. /\ rec.leg = old.leg /\ rec.links = old.links \cup G
      /\ rec.legs = {m \in old.legs : \A l \in found : LegUid[m] # LegUid[l]} \cup found
      /\ rec \in Records
  BY <1>2, <1>4, <1>5, <1>6 DEF Records
<1>8. \A r \in Owned : r.leg = rec.leg => r = old
  BY <1>3, <1>7 DEF PlaceInv, RecordInv
<1>9. /\ data_' \in Seq(Records) /\ ToSet(data_)' = (ToSet(data_) \ {old}) \cup {rec} /\ IsInjective(data_)'
      /\ DOMAIN data_' = DOMAIN data_ /\ data_'[cursor] = rec
      /\ \A i \in DOMAIN data_ \ {cursor} : data_'[i] = data_[i]
  <2>1. rec \notin ToSet(data_) \ {data_[cursor]}
    BY <1>8 DEF Owned, old
  <2>2. IsInjective(data_)
    BY DEF PlaceInv, RecordInv
  <2>3. /\ data_' \in Seq(Records) /\ DOMAIN data_' = DOMAIN data_ /\ data_'[cursor] = rec
        /\ \A i \in DOMAIN data_ \ {cursor} : data_'[i] = data_[i]
    BY <1>1, <1>2, <1>7
  <2>4. ToSet(data_') = (ToSet(data_) \ {data_[cursor]}) \cup {data_'[cursor]} /\ IsInjective(data_')
    BY <1>2, <2>1, <2>2, <2>3, Replacing
  <2> QED
    BY <2>3, <2>4 DEF old
<1>10. Emitted' = Emitted /\ Owned' = (Owned \ {old}) \cup {rec}
  BY <1>1, <1>3, <1>9 DEF Emitted, Owned
<1>11. links_' = [links_ EXCEPT ![u] = <<>>] /\ links_' \in [Uids -> Seq(Links)]
  <2>1. <<>> \in Seq(Links)
    OBVIOUS
  <2> QED
    BY <1>1, <1>2, <1>7, <2>1 DEF u
<1>12. /\ \A v \in Uids : links_'[v] = IF v = u THEN <<>> ELSE links_[v]
  BY <1>2, <1>4, <1>11
<1>13. \A k \in Links : /\ k \in G <=> HeldLink(k) /\ LinkOrig[k] = u
                        /\ HeldLink(k)' <=> HeldLink(k) /\ LinkOrig[k] # u
  <2> SUFFICES ASSUME NEW k \in Links PROVE /\ k \in G <=> HeldLink(k) /\ LinkOrig[k] = u
                                            /\ HeldLink(k)' <=> HeldLink(k) /\ LinkOrig[k] # u
    OBVIOUS
  <2>1. LinkOrig[k] \in Uids
    BY DEF Uids
  <2>2. k \in G <=> HeldLink(k) /\ LinkOrig[k] = u
    BY <1>4 DEF PlaceInv, GroupInv, HeldLink, G
  <2>3. HeldLink(k)' <=> HeldLink(k) /\ LinkOrig[k] # u
    BY <1>12, <2>1, EmptyElements DEF HeldLink
  <2> QED
    BY <2>2, <2>3
<1>14. \A k : InRecord(k)' <=> InRecord(k) \/ k \in G
  <2>1. ASSUME NEW k, InRecord(k)' PROVE InRecord(k) \/ k \in G
    BY <1>3, <1>7, <1>10, <2>1 DEF InRecord
  <2>2. ASSUME NEW k, InRecord(k) \/ k \in G PROVE InRecord(k)'
    BY <1>3, <1>7, <1>10, <2>2 DEF InRecord
  <2> QED
    BY <2>1, <2>2
<1>15. \A l : Opened(l)' <=> Opened(l)
  BY <1>3, <1>7, <1>10 DEF Opened
<1>16. \A l : /\ LegInRecord(l)' => LegInRecord(l) \/ l \in found
              /\ l \in found => LegInRecord(l)'
  BY <1>3, <1>7, <1>10 DEF LegInRecord
<1>17. ASSUME NEW l \in Legs, Unique(l), LegInRecord(l) PROVE LegInRecord(l)'
  <2>1. PICK r \in Owned : l \in r.legs
    BY <1>17 DEF LegInRecord
  <2>2. l \in old.legs => l \in rec.legs
    BY <1>2, <1>5, <1>7, <1>17 DEF Unique
  <2> QED
    BY <1>10, <2>1, <2>2 DEF LegInRecord
<1>18. legs_' = legs_ \ found
  <2>1. \A l \in legs_ : l \notin old.legs
    BY <1>2, <1>3 DEF PlaceInv, LegPlaceInv, LegInRecord
  <2> QED
    BY <1>1, <1>7, <2>1
<1>19. ContainerTypes'
  BY <1>1, <1>2, <1>9, <1>11, <1>18 DEF ContainerTypes
<1>20. PlaceInv'
  <2>1. RecordInv'
    <3>1. ToSet(data_)' \cap Emitted' = {}
      BY <1>3, <1>8, <1>9, <1>10 DEF PlaceInv, RecordInv, Owned
    <3>2. \A r, q \in Owned' : r.leg = q.leg => r = q
      BY <1>8, <1>10 DEF PlaceInv, RecordInv
    <3> QED
      BY <1>9, <3>1, <3>2 DEF RecordInv
  <2>2. OrigInv'
    BY <1>1, <1>15 DEF PlaceInv, OrigInv
  <2>3. LinkSeqInv' /\ LegSeqInv'
    BY <1>1, <1>18 DEF PlaceInv, LinkSeqInv, LegSeqInv
  <2>4. GroupInv'
    BY <1>12, EmptyElements DEF PlaceInv, GroupInv
  <2>5. LinkShareInv'
    <3>1. ASSUME NEW q \in Owned, q # old, NEW k \in rec.links, k \in q.links PROVE FALSE
      <4>1. InRecord(k) /\ k \in Links
        BY <3>1, <1>4, <1>5, <1>7 DEF InRecord
      <4>2. k \in old.links => q = old
        BY <3>1, <1>3 DEF PlaceInv, LinkShareInv
      <4>3. k \in G => FALSE
        BY <4>1, <1>13 DEF PlaceInv, LinkPlaceInv
      <4> QED
        BY <3>1, <4>2, <4>3, <1>7
    <3> QED
      BY <3>1, <1>10 DEF PlaceInv, LinkShareInv
  <2>6. LegShareInv'
    <3>1. ASSUME NEW q \in Owned, q # old, NEW l \in rec.legs, l \in q.legs PROVE FALSE
      <4>1. LegInRecord(l)
        BY <3>1 DEF LegInRecord
      <4>2. l \in old.legs => q = old
        BY <3>1, <1>3 DEF PlaceInv, LegShareInv
      <4>3. l \in found => FALSE
        BY <4>1, <1>2, <1>5 DEF PlaceInv, LegPlaceInv
      <4> QED
        BY <3>1, <4>2, <4>3, <1>7
    <3> QED
      BY <3>1, <1>10 DEF PlaceInv, LegShareInv
  <2>7. LinkPlaceInv'
    BY <1>1, <1>13, <1>14 DEF PlaceInv, LinkPlaceInv
  <2>8. LegPlaceInv'
    <3> SUFFICES ASSUME NEW l \in Legs
        PROVE (/\ l \in ToSet(queueLeg_) \/ l \in ToSet(legsIn_) \/ l \in legs_ \/ LegInRecord(l) \/ l \in dropped
                    => legReads[l] = 1
               /\ legReads[l] = 1 /\ Unique(l)
                    => l \in ToSet(queueLeg_) \/ l \in ToSet(legsIn_) \/ l \in legs_ \/ LegInRecord(l) \/ l \in dropped
               /\ l \in ToSet(queueLeg_) => l \notin ToSet(legsIn_) /\ l \notin legs_ /\ ~LegInRecord(l) /\ l \notin dropped
               /\ l \in ToSet(legsIn_) => l \notin legs_ /\ ~LegInRecord(l) /\ l \notin dropped
               /\ l \in legs_ => ~LegInRecord(l) /\ l \notin dropped
               /\ LegInRecord(l) => l \notin dropped)'
      BY DEF LegPlaceInv
    <3>1. Unique(l)' <=> Unique(l)
      BY DEF Unique
    <3> QED
      BY <1>1, <1>5, <1>16, <1>17, <1>18, <3>1 DEF PlaceInv, LegPlaceInv
  <2> QED
    BY <2>1, <2>2, <2>3, <2>4, <2>5, <2>6, <2>7, <2>8 DEF PlaceInv
<1>21. \A i \in DOMAIN data_ : LegUid[data_[i].leg] \in Uids /\ data_'[i].leg = data_[i].leg
  <2>1. ASSUME NEW i \in DOMAIN data_ PROVE LegUid[data_[i].leg] \in Uids
    <3>1. data_[i] \in Records
      BY <1>2, <2>1
    <3> QED
      BY <3>1, ContainerAssumption DEF Records, Uids
  <2> QED
    BY <2>1, <1>2, <1>7, <1>9 DEF old
<1>22. \A i \in DOMAIN data_ : Swept(i) \/ i = cursor => Swept(i)'
  <2>1. ASSUME NEW i \in DOMAIN data_, Swept(i) \/ i = cursor PROVE links_'[LegUid[data_'[i].leg]] = <<>>
    BY <2>1, <1>12, <1>21 DEF Swept, u, old
  <2> QED
    BY <2>1 DEF Swept
<1>23. ScanInv'
  <2>0. \A i \in DOMAIN data_ : i < cursor => Swept(i)
    BY <1>1 DEF ScanInv
  <2>1. \A i \in DOMAIN data_ : i < cursor => Swept(i)'
    BY <1>22, <2>0
  <2>2. \A i \in DOMAIN data_ : i <= cursor => Swept(i)'
    BY <1>2, <1>22, <2>1, <2>0
  <2>3. \A i \in DOMAIN data_ : i < cursor + 1 => i <= cursor
    BY <1>2
  <2> QED
    BY <1>1, <1>2, <1>9, <2>2, <2>3 DEF ScanInv
<1>24. PassedInv'
  <2>1. \A l : PassedBy(l)' <=> PassedBy(l)
    BY <1>1 DEF PassedBy
  <2>2. pc' = "emit" => cursor' = cursor /\ PassedBy(rec.leg)
    BY <1>1 DEF Due, PassedBy
  <2> QED
    BY <1>1, <1>9, <1>10, <2>1, <2>2 DEF PassedInv
<1>25. OrderInv'
  BY <1>1 DEF OrderInv, NotOlder
<1> QED
  BY <1>1, <1>10, <1>19, <1>20, <1>23, <1>24, <1>25, StillKept

\* A group is forgotten only when its call, if it is in order, has left.
LEMMA ExpireLinksStep ==
    ASSUME LegFeed!FeedInv, JoinInv, ExpireLinks PROVE JoinInv' /\ Emitted' = Emitted
<1> USE DEF JoinInv
<1>1. /\ pc = "expire" /\ pc' = "takeLegs"
      /\ links_' = [u \in Uids |-> IF Stale(links_[u]) THEN <<>> ELSE links_[u]]
      /\ dropped' = dropped \cup UNION {ToSet(links_[u]) : u \in {v \in Uids : Stale(links_[v])}}
      /\ UNCHANGED <<data_, legs_, queueOutput_, saved, queueLink_, linksIn_, legsIn_, legReads,
                     queueLeg_, linkReads, legStop, linkStart, maxLegTime_, cursor, unchecked>>
  BY DEF ExpireLinks, legVars, linkVars, inVars, maxVars, scanVars, outVars
<1>2. Emitted' = Emitted /\ Owned' = Owned
  BY <1>1, SameRecords
<1>3. links_ \in [Uids -> Seq(Links)] /\ \A u \in Uids : ToSet(links_[u]) \subseteq Links
  BY ElementsOf DEF ContainerTypes
<1>4. /\ links_' \in [Uids -> Seq(Links)]
      /\ \A u \in Uids : links_'[u] = IF Stale(links_[u]) THEN <<>> ELSE links_[u]
  <2>1. <<>> \in Seq(Links)
    OBVIOUS
  <2> QED
    BY <1>1, <1>3, <2>1
<1>5. \A l \in Legs : l \in dropped' <=> l \in dropped
  BY <1>1, <1>3, ContainerAssumption
<1>6. \A k \in Links : /\ LinkOrig[k] \in Uids
                       /\ HeldLink(k)' <=> HeldLink(k) /\ ~Stale(links_[LinkOrig[k]])
                       /\ k \in dropped' <=> k \in dropped \/ (HeldLink(k) /\ Stale(links_[LinkOrig[k]]))
  <2> SUFFICES ASSUME NEW k \in Links
               PROVE  /\ LinkOrig[k] \in Uids
                      /\ HeldLink(k)' <=> HeldLink(k) /\ ~Stale(links_[LinkOrig[k]])
                      /\ k \in dropped' <=> k \in dropped \/ (HeldLink(k) /\ Stale(links_[LinkOrig[k]]))
    OBVIOUS
  <2>1. LinkOrig[k] \in Uids
    BY DEF Uids
  <2>2. HeldLink(k)' <=> HeldLink(k) /\ ~Stale(links_[LinkOrig[k]])
    BY <1>4, <2>1, EmptyElements DEF HeldLink
  <2>3. k \in dropped' <=> k \in dropped \/ \E u \in Uids : Stale(links_[u]) /\ k \in ToSet(links_[u])
    BY <1>1
  <2>4. \A u \in Uids : k \in ToSet(links_[u]) => u = LinkOrig[k]
    BY DEF PlaceInv, GroupInv
  <2> QED
    BY <2>1, <2>2, <2>3, <2>4 DEF HeldLink
<1>7. ContainerTypes'
  <2>1. dropped' \subseteq Legs \cup Links
    BY <1>1, <1>3 DEF ContainerTypes
  <2> QED
    BY <1>1, <1>4, <2>1 DEF ContainerTypes
<1>8. PlaceInv'
  <2>1. RecordInv' /\ LinkSeqInv' /\ LegSeqInv' /\ LinkShareInv' /\ LegShareInv'
    BY <1>1, <1>2, SameOwned DEF PlaceInv, RecordInv, LinkSeqInv, LegSeqInv
  <2>2. OrigInv'
    BY <1>1, <1>2, SameOwned DEF PlaceInv, OrigInv
  <2>3. GroupInv'
    BY <1>4, EmptyElements DEF PlaceInv, GroupInv
  <2>4. LinkPlaceInv'
    <3>1. UNCHANGED <<queueLink_, linksIn_, linkReads>>
      BY <1>1
    <3> QED
      BY <1>2, <1>6, <3>1, SameOwned DEF PlaceInv, LinkPlaceInv
  <2>5. LegPlaceInv'
    <3>1. UNCHANGED <<queueLeg_, legsIn_, legReads, legs_>>
      BY <1>1
    <3> QED
      BY <1>2, <1>5, <3>1, SameOwned DEF PlaceInv, LegPlaceInv, Unique
  <2> QED
    BY <2>1, <2>2, <2>3, <2>4, <2>5 DEF PlaceInv
<1>9. ScanInv' /\ OrderInv'
  BY <1>1 DEF ScanInv, OrderInv, NotOlder
<1>10. PassedInv'
  BY <1>1, <1>2, <1>5 DEF PassedInv, PassedBy
<1>11. LinkKeptForItsCall'
  <2> SUFFICES ASSUME NEW l \in Orig, LegTime[l] > Start, Orderly(l), NEW k \in LinksOf(l), k \in dropped'
               PROVE  \E r \in Emitted : r.leg = l
    BY <1>2 DEF LinkKeptForItsCall, LinksOf, Orderly
  <2>1. k \in Links /\ LinkOrig[k] = LegUid[l]
    BY DEF LinksOf
  <2>2. CASE k \in dropped
    BY <2>2 DEF LinkKeptForItsCall
  <2>3. CASE k \notin dropped
    <3> DEFINE g == links_[LegUid[l]]
    <3>1. k \in ToSet(g) /\ Stale(g) /\ LegUid[l] \in Uids
      BY <1>6, <2>1, <2>3 DEF HeldLink
    <3>2. g \in Seq(Links) /\ g # <<>> /\ IsInjective(g)
      BY <3>1, <1>3 DEF Stale, PlaceInv, GroupInv
    <3>3. Head(g) \in Links /\ LinkOrig[Head(g)] = LegUid[l]
      BY <3>1, <3>2, HeadTail DEF PlaceInv, GroupInv
    <3>4. LinkTime[Head(g)] \in Nat /\ LinkTime[Head(g)] < maxLegTime_ - max_call_time
      BY <3>1, <3>3, ContainerAssumption DEF Stale, recordSaveTime
    <3> HIDE DEF g
    <3>5. l \in Legs /\ LegTime[l] \in Nat /\ LegTime[l] + max_call_time < maxLegTime_
      BY <3>3, <3>4, ContainerAssumption DEF Orderly, ContainerTypes
    <3>6. legReads[l] = 1
      BY <3>5, ContainerAssumption
         DEF OrderInv, ContainerTypes, LegFeed!FeedInv, LegFeed!FeedTypes, LegFeed!SpanInv, LegFeed!CompleteInv
    <3>7. l \notin ToSet(queueLeg_) /\ l \notin ToSet(legsIn_)
      BY <3>5, ContainerAssumption DEF OrderInv, ContainerTypes
    <3>8. PICK r \in Owned : r.leg = l
      BY <3>6, <3>7 DEF PlaceInv, OrigInv, Opened
    <3>9. r \notin ToSet(data_)
      <4>1. g # <<>>
        BY <3>2
      <4>2. \A i \in DOMAIN data_ : data_[i].leg # l
        BY <1>1, <4>1 DEF ScanInv, Swept, g
      <4> QED
        BY <3>8, <4>2, ElementsOf DEF ContainerTypes
    <3> QED
      BY <3>8, <3>9 DEF Owned
  <2> QED
    BY <2>2, <2>3
<1> QED
  BY <1>2, <1>7, <1>8, <1>9, <1>10, <1>11

-----------------------------------------------------------------------------
(* The invariant holds. *)

LEMMA JoinInit == ASSUME Init PROVE IInv
<1>1. LegFeed!FeedInv
  BY Settled, LegFeed!FeedInit DEF Init, LegReader!Init, LegFeed!Init
<1>2. LinkFeed!FeedInv
  BY Settled, LinkFeed!FeedInit DEF Init, LinkReader!Init, LinkFeed!Init
<1>3. /\ pc = "takeLegs" /\ legsIn_ = <<>> /\ linksIn_ = <<>> /\ data_ = <<>> /\ legs_ = {}
      /\ links_ = [u \in Uids |-> <<>>] /\ maxLegTime_ = Start /\ cursor = 1
      /\ queueOutput_ = <<>> /\ saved = {} /\ dropped = {}
      /\ queueLeg_ = <<>> /\ queueLink_ = <<>> /\ legStop = Start + read_threshold
      /\ legReads = [l \in Legs |-> 0] /\ linkReads = [k \in Links |-> 0]
  BY DEF Init, LegReader!Init, LinkReader!Init
<1>4. /\ ToSet(queueLeg_) = {} /\ ToSet(legsIn_) = {} /\ ToSet(queueLink_) = {} /\ ToSet(linksIn_) = {}
      /\ IsInjective(queueLeg_) /\ IsInjective(legsIn_) /\ IsInjective(queueLink_)
      /\ IsInjective(linksIn_) /\ IsInjective(data_)
      /\ Emitted = {} /\ Owned = {}
  BY <1>3, EmptyElements DEF Emitted, Owned
<1>5. \A u \in Uids : links_[u] = <<>> /\ ToSet(links_[u]) = {} /\ IsInjective(links_[u])
  BY <1>3, EmptyElements
<1>6. \A k \in Links : ~HeldLink(k)
  BY <1>5 DEF HeldLink, Uids
<1>7. ContainerTypes
  <2>1. \A S : <<>> \in Seq(S)
    OBVIOUS
  <2> QED
    BY <1>3, <2>1, ContainerAssumption DEF ContainerTypes
<1>8. PlaceInv
  <2>1. RecordInv /\ GroupInv /\ LinkSeqInv /\ LegSeqInv /\ LinkShareInv /\ LegShareInv
    BY <1>3, <1>4, <1>5 DEF RecordInv, GroupInv, LinkSeqInv, LegSeqInv, LinkShareInv, LegShareInv
  <2>2. OrigInv
    BY <1>3, <1>4, ContainerAssumption DEF OrigInv, Opened
  <2>3. LinkPlaceInv
    BY <1>3, <1>4, <1>6 DEF LinkPlaceInv, InRecord
  <2>4. LegPlaceInv
    BY <1>3, <1>4 DEF LegPlaceInv, LegInRecord
  <2> QED
    BY <2>1, <2>2, <2>3, <2>4 DEF PlaceInv
<1>9. ScanInv /\ PassedInv
  BY <1>3, <1>4 DEF ScanInv, PassedInv
<1>10. OrderInv
  BY <1>3, <1>4, ContainerAssumption DEF OrderInv
<1>11. LinkKeptForItsCall
  BY <1>3 DEF LinkKeptForItsCall
<1> QED
  BY <1>1, <1>2, <1>7, <1>8, <1>9, <1>10, <1>11 DEF IInv, JoinInv

LEMMA JoinNext == ASSUME IInv, [Next]_vars PROVE IInv'
<1>1. LegFeed!FeedInv' /\ LinkFeed!FeedInv'
  BY FeedsKept DEF IInv
<1>2. CASE Container
  BY <1>1, <1>2, TakeLegsStep, TakeLinksStep, AbsorbLegStep, AbsorbLinkStep, StandingStep,
     ScanRecordStep, EmitStep, ExpireLegStep, ExpireLinksStep DEF IInv, Container
<1>3. CASE LegStep
  BY <1>1, <1>3, LegStepKeeps DEF IInv
<1>4. CASE LinkStep
  BY <1>1, <1>4, LinkStepKeeps DEF IInv
<1>5. CASE Save \/ UNCHANGED vars
  BY <1>1, <1>5, StandingStep DEF IInv
<1> QED
  BY <1>2, <1>3, <1>4, <1>5 DEF Next

\* For every pair of tables, every setting and every schedule of the four
\* threads, the inductive invariant of the join holds.
THEOREM JoinSafe == Spec => []IInv
<1>1. Init => IInv
  BY JoinInit
<1>2. IInv /\ [Next]_vars => IInv'
  BY JoinNext
<1> QED
  BY <1>1, <1>2, PTL DEF Spec

-----------------------------------------------------------------------------
(* What it says. *)

Positions(tag, s, x) == {<<tag, i>> : i \in {j \in DOMAIN s : s[j] = x}}

LEMMA PositionsOf ==
    ASSUME NEW S, NEW s \in Seq(S), IsInjective(s), NEW x, NEW tag
    PROVE  /\ x \notin ToSet(s) => Positions(tag, s, x) = {}
           /\ x \in ToSet(s) => \E p : Positions(tag, s, x) = {p}
<1> USE DEF Positions
<1>1. CASE x \notin ToSet(s)
  BY <1>1 DEF ToSet
<1>2. CASE x \in ToSet(s)
  <2>1. PICK i \in DOMAIN s : s[i] = x
    BY <1>2 DEF ToSet
  <2>2. {j \in DOMAIN s : s[j] = x} = {i}
    BY <2>1 DEF IsInjective
  <2>3. {<<tag, n>> : n \in {j \in DOMAIN s : s[j] = x}} = {<<tag, i>>}
    BY <2>2
  <2> QED
    BY <1>2, <2>3
<1> QED
  BY <1>1, <1>2

LEMMA LinkCounted == ASSUME IInv PROVE LinkInOnePlace
<1> SUFFICES ASSUME NEW k \in Links PROVE Cardinality(PlacesOfLink(k)) = linkReads[k]
  BY DEF LinkInOnePlace
<1> DEFINE A == Positions("queue", queueLink_, k)
           B == Positions("in", linksIn_, k)
           C == Positions("held", links_[LinkOrig[k]], k)
           D == {<<"record", r.leg>> : r \in {r \in Owned : k \in r.links}}
           E == {<<"dropped", d>> : d \in dropped \cap {k}}
<1>1. LinkOrig[k] \in Uids
  BY DEF Uids
<1>2. (k \notin ToSet(queueLink_) => A = {}) /\ (k \in ToSet(queueLink_) => \E p : A = {p})
  BY PositionsOf DEF IInv, LinkFeed!FeedInv, LinkFeed!FeedTypes, JoinInv, PlaceInv, LinkSeqInv
<1>3. (k \notin ToSet(linksIn_) => B = {}) /\ (k \in ToSet(linksIn_) => \E p : B = {p})
  BY PositionsOf DEF IInv, JoinInv, ContainerTypes, PlaceInv, LinkSeqInv
<1>4. (~HeldLink(k) => C = {}) /\ (HeldLink(k) => \E p : C = {p})
  <2>1. links_[LinkOrig[k]] \in Seq(Links) /\ IsInjective(links_[LinkOrig[k]])
    BY <1>1 DEF IInv, JoinInv, ContainerTypes, PlaceInv, GroupInv
  <2> QED
    BY <2>1, PositionsOf DEF HeldLink
<1>5. (~InRecord(k) => D = {}) /\ (InRecord(k) => \E p : D = {p})
  <2>1. ASSUME ~InRecord(k) PROVE D = {}
    BY <2>1 DEF InRecord
  <2>2. ASSUME InRecord(k) PROVE \E p : D = {p}
    <3>1. PICK r \in Owned : k \in r.links
      BY <2>2 DEF InRecord
    <3>2. {q \in Owned : k \in q.links} = {r}
      BY <3>1 DEF IInv, JoinInv, PlaceInv, LinkShareInv
    <3>3. D = {<<"record", r.leg>>}
      BY <3>2
    <3> QED
      BY <3>3
  <2> QED
    BY <2>1, <2>2
<1>6. (k \notin dropped => E = {}) /\ (k \in dropped => \E p : E = {p})
  <2>1. ASSUME k \in dropped PROVE E = {<<"dropped", k>>}
    BY <2>1
  <2> QED
    BY <2>1
<1>7. PlacesOfLink(k) = A \cup B \cup C \cup D \cup E
  BY DEF PlacesOfLink, Positions
<1> HIDE DEF A, B, C, D, E
<1>8. linkReads[k] \in {0, 1}
  BY DEF IInv, LinkFeed!FeedInv, LinkFeed!FeedTypes
<1>9. LinkPlaceInv
  BY DEF IInv, JoinInv, PlaceInv
<1>10. CASE linkReads[k] = 0
  <2>1. PlacesOfLink(k) = {}
    BY <1>2, <1>3, <1>4, <1>5, <1>6, <1>7, <1>9, <1>10 DEF LinkPlaceInv
  <2> QED
    BY <2>1, <1>10, FS_EmptySet
<1>11. CASE linkReads[k] = 1
  <2>1. \E p : PlacesOfLink(k) = {p}
    BY <1>2, <1>3, <1>4, <1>5, <1>6, <1>7, <1>9, <1>11 DEF LinkPlaceInv
  <2> QED
    BY <2>1, <1>11, FS_Singleton
<1> QED
  BY <1>8, <1>10, <1>11

LEMMA LegCounted == ASSUME IInv PROVE LegInOnePlace
<1> SUFFICES ASSUME NEW l \in Legs, Unique(l) PROVE Cardinality(PlacesOfLeg(l)) = legReads[l]
  BY DEF LegInOnePlace, Unique
<1> DEFINE A == Positions("queue", queueLeg_, l)
           B == Positions("in", legsIn_, l)
           C == {<<"held", h>> : h \in legs_ \cap {l}}
           D == {<<"record", r.leg>> : r \in {r \in Owned : l \in r.legs}}
           E == {<<"dropped", d>> : d \in dropped \cap {l}}
<1>2. (l \notin ToSet(queueLeg_) => A = {}) /\ (l \in ToSet(queueLeg_) => \E p : A = {p})
  BY PositionsOf DEF IInv, LegFeed!FeedInv, LegFeed!FeedTypes, JoinInv, PlaceInv, LegSeqInv
<1>3. (l \notin ToSet(legsIn_) => B = {}) /\ (l \in ToSet(legsIn_) => \E p : B = {p})
  BY PositionsOf DEF IInv, JoinInv, ContainerTypes, PlaceInv, LegSeqInv
<1>4. (l \notin legs_ => C = {}) /\ (l \in legs_ => \E p : C = {p})
  <2>1. ASSUME l \in legs_ PROVE C = {<<"held", l>>}
    BY <2>1
  <2> QED
    BY <2>1
<1>5. (~LegInRecord(l) => D = {}) /\ (LegInRecord(l) => \E p : D = {p})
  <2>1. ASSUME ~LegInRecord(l) PROVE D = {}
    BY <2>1 DEF LegInRecord
  <2>2. ASSUME LegInRecord(l) PROVE \E p : D = {p}
    <3>1. PICK r \in Owned : l \in r.legs
      BY <2>2 DEF LegInRecord
    <3>2. {q \in Owned : l \in q.legs} = {r}
      BY <3>1 DEF IInv, JoinInv, PlaceInv, LegShareInv
    <3>3. D = {<<"record", r.leg>>}
      BY <3>2
    <3> QED
      BY <3>3
  <2> QED
    BY <2>1, <2>2
<1>6. (l \notin dropped => E = {}) /\ (l \in dropped => \E p : E = {p})
  <2>1. ASSUME l \in dropped PROVE E = {<<"dropped", l>>}
    BY <2>1
  <2> QED
    BY <2>1
<1>7. PlacesOfLeg(l) = A \cup B \cup C \cup D \cup E
  BY DEF PlacesOfLeg, Positions
<1> HIDE DEF A, B, C, D, E
<1>8. legReads[l] \in {0, 1}
  BY DEF IInv, LegFeed!FeedInv, LegFeed!FeedTypes
<1>9. LegPlaceInv
  BY DEF IInv, JoinInv, PlaceInv
<1>10. CASE legReads[l] = 0
  <2>1. PlacesOfLeg(l) = {}
    BY <1>2, <1>3, <1>4, <1>5, <1>6, <1>7, <1>9, <1>10 DEF LegPlaceInv
  <2> QED
    BY <2>1, <1>10, FS_EmptySet
<1>11. CASE legReads[l] = 1
  <2>1. \E p : PlacesOfLeg(l) = {p}
    BY <1>2, <1>3, <1>4, <1>5, <1>6, <1>7, <1>9, <1>11 DEF LegPlaceInv
  <2> QED
    BY <2>1, <1>11, FS_Singleton
<1> QED
  BY <1>8, <1>10, <1>11

\* Between the queues and the saved records no leg and no link is lost, shared
\* or doubled by MergeContainer::run.
THEOREM NothingLost == Spec => []OnePlace
<1>1. IInv => OnePlace
  BY LinkCounted, LegCounted DEF OnePlace
<1> QED
  BY <1>1, JoinSafe, PTL

LEMMA ReadBehind ==
    ASSUME IInv, NEW k \in Links, LinkTime[k] > Start, NEW l \in Legs, PassedBy(l),
           LinkTime[k] <= LegTime[l] + max_call_time
    PROVE  linkReads[k] > 0
<1>1. LinkTime[k] \in Nat /\ LegTime[l] \in Nat /\ linkStart \in Nat /\ Start \in Nat
  BY ContainerAssumption DEF IInv, LinkFeed!FeedInv, LinkFeed!FeedTypes
<1>2. LinkTime[k] <= linkStart /\ Start < LinkTime[k]
  BY <1>1, ContainerAssumption DEF PassedBy
<1>3. linkReads[k] = 1
  BY <1>2 DEF IInv, LinkFeed!FeedInv, LinkFeed!CompleteInv
<1> QED
  BY <1>3

\* A record leaves, and a leg or a link is forgotten, only when the other side
\* that could claim it has been read: the margins of run() suffice.
THEOREM NothingEarly == Spec => []NothingLeavesEarly
<1>1. IInv => NothingLeavesEarly
  <2> SUFFICES ASSUME IInv PROVE NothingLeavesEarly
    OBVIOUS
  <2>1. EmittedAfterLinksRead
    <3> SUFFICES ASSUME NEW r \in Emitted, LegTime[r.leg] > Start, NEW k \in LinksOf(r.leg)
                 PROVE  linkReads[k] > 0
      BY DEF EmittedAfterLinksRead
    <3>1. r \in Records
      BY OwnedRecords DEF Owned, IInv, JoinInv
    <3>2. r.leg \in Legs
      BY <3>1, ContainerAssumption DEF Records
    <3>3. PassedBy(r.leg)
      BY DEF IInv, JoinInv, PassedInv
    <3>4. k \in Links /\ LinkTime[k] >= LegTime[r.leg] /\ LinkTime[k] <= LegTime[r.leg] + max_call_time
      BY DEF LinksOf
    <3>5. LinkTime[k] > Start
      BY <3>2, <3>4, ContainerAssumption
    <3> QED
      BY <3>2, <3>3, <3>4, <3>5, ReadBehind
  <2>2. LegDroppedAfterLinksRead
    <3> SUFFICES ASSUME NEW l \in Legs \cap dropped, NEW k \in Links, LinkTime[k] > Start,
                        LinkTime[k] <= LegTime[l] + max_call_time
                 PROVE  linkReads[k] > 0
      BY DEF LegDroppedAfterLinksRead
    <3>1. PassedBy(l)
      BY DEF IInv, JoinInv, PassedInv
    <3> QED
      BY <3>1, ReadBehind
  <2>3. LinkKeptForItsCall
    BY DEF IInv, JoinInv
  <2> QED
    BY <2>1, <2>2, <2>3 DEF NothingLeavesEarly
<1> QED
  BY <1>1, JoinSafe, PTL

\* What run() has handed to MergeService it never touches again.
THEOREM EmittedOnce == Spec => EmittedIsFinal
<1> DEFINE Final == /\ Emitted \subseteq Emitted'
                    /\ \A r \in Emitted' \ Emitted : \A q \in Emitted : q.leg # r.leg
<1>1. IInv /\ [Next]_vars => [Final]_vars
  <2> SUFFICES ASSUME IInv, Next PROVE Final
    OBVIOUS
  <2>1. CASE Emit
    <3>1. Emitted' = Emitted \cup {data_[cursor]}
      BY <2>1, EmitStep DEF IInv
    <3>2. cursor \in DOMAIN data_ /\ data_ \in Seq(Records)
      BY <2>1 DEF Emit, IInv, JoinInv, ScanInv, ContainerTypes
    <3>3. data_[cursor] \in ToSet(data_)
      BY <3>2, ElementsOf
    <3>4. \A q \in Emitted : q.leg # data_[cursor].leg
      BY <3>3 DEF IInv, JoinInv, PlaceInv, RecordInv, Owned
    <3> QED
      BY <3>1, <3>4
  <2>2. CASE Save
    <3>1. ToSet(queueOutput_)' = {} /\ saved' = saved \cup ToSet(queueOutput_)
      BY <2>2, EmptyElements DEF Save
    <3> QED
      BY <3>1 DEF Emitted
  <2>3. CASE TakeLegs \/ TakeLinks \/ AbsorbLeg \/ AbsorbLink \/ Throttle \/ ScanRecord \/ EndScan
             \/ ExpireLeg \/ ExpireLinks \/ LegStep \/ LinkStep
    <3>1. UNCHANGED <<queueOutput_, saved>>
      BY <2>3 DEF TakeLegs, TakeLinks, AbsorbLeg, AbsorbLink, Throttle, ScanRecord, EndScan,
                  ExpireLeg, ExpireLinks, LegStep, LinkStep, outVars
    <3> QED
      BY <3>1 DEF Emitted
  <2> QED
    BY <2>1, <2>2, <2>3 DEF Next, Container
<1>2. Spec => [][Final]_vars
  BY <1>1, JoinSafe, PTL DEF Spec
<1> QED
  BY <1>2 DEF EmittedIsFinal

-----------------------------------------------------------------------------
(* The pausing of the readers. *)

\* The two readers are never both paused, so one of them always goes on, and
\* from the end of the pass that has compared their times until new rows are
\* taken in, one is paused exactly when they are more than 2 * max_call_time
\* apart: no pause is forgotten, and none is left over.
OneReaderRuns ==
    /\ ~(legPaused /\ linkPaused)
    /\ pc # "absorb" => (legPaused \/ linkPaused <=> Apart)

\* Rows have times, so one of the two is ahead when they are apart.
PauseInv == OneReaderRuns /\ maxLinkTime_ \in Int

LEMMA PausesStand ==
    ASSUME PauseInv, UNCHANGED <<legPaused, linkPaused, maxLegTime_, maxLinkTime_>>,
           pc = "absorb" => pc' = "absorb"
    PROVE  PauseInv'
<1>1. Apart' = Apart
  BY DEF Apart
<1> QED
  BY <1>1 DEF PauseInv, OneReaderRuns

LEMMA PauseStep == ASSUME IInv, PauseInv, [Next]_vars PROVE PauseInv'
<1>1. CASE Throttle
  <2>1. Apart' = Apart
    BY <1>1 DEF Throttle, maxVars, Apart
  <2>2. (maxLegTime_ <= maxLinkTime_) <=> ~(maxLegTime_ > maxLinkTime_)
    BY DEF PauseInv, IInv, JoinInv, ContainerTypes
  <2>3. maxLinkTime_' = maxLinkTime_
    BY <1>1 DEF Throttle, maxVars
  <2>4. PICK ahead \in BOOLEAN : ahead <=> maxLegTime_ > maxLinkTime_
    OBVIOUS
  <2>5. /\ legPaused' <=> Apart /\ (legPaused \/ (Apart /\ ~legPaused /\ ~linkPaused /\ ahead))
        /\ linkPaused' <=> Apart /\ (linkPaused \/ (Apart /\ ~legPaused /\ ~linkPaused /\ ~ahead))
    BY <1>1, <2>2, <2>4 DEF Throttle
  <2>6. ~(legPaused' /\ linkPaused') /\ (legPaused' \/ linkPaused' <=> Apart)
    BY <2>5 DEF PauseInv, OneReaderRuns
  <2> QED
    BY <2>1, <2>3, <2>6 DEF PauseInv, OneReaderRuns
<1>2. CASE AbsorbLeg \/ AbsorbLink
  <2>1. /\ pc = "absorb" /\ pc' = "absorb" /\ UNCHANGED <<legPaused, linkPaused>>
    BY <1>2 DEF AbsorbLeg, AbsorbLink, legVars, linkVars
  <2>2. maxLinkTime_' \in Int
    <3>1. CASE AbsorbLeg
      BY <3>1 DEF AbsorbLeg, PauseInv
    <3>2. CASE AbsorbLink
      <4>1. Head(linksIn_) \in Links
        BY <3>2 DEF AbsorbLink, IInv, JoinInv, ContainerTypes
      <4>2. LinkTime[Head(linksIn_)] \in Int
        BY <4>1, ContainerAssumption
      <4> QED
        BY <3>2, <4>2 DEF AbsorbLink, Later, PauseInv
    <3> QED
      BY <1>2, <3>1, <3>2
  <2> QED
    BY <2>1, <2>2 DEF PauseInv, OneReaderRuns
<1>3. CASE TakeLegs \/ TakeLinks \/ ScanRecord \/ Emit \/ EndScan \/ ExpireLeg \/ ExpireLinks
  <2>1. /\ UNCHANGED <<legPaused, linkPaused, maxLegTime_, maxLinkTime_>>
        /\ pc # "absorb"
    BY <1>3 DEF TakeLegs, TakeLinks, ScanRecord, Emit, EndScan, ExpireLeg, ExpireLinks, legVars, linkVars, maxVars
  <2> QED
    BY <2>1, PausesStand
<1>4. CASE LegStep \/ LinkStep \/ Save \/ UNCHANGED vars
  <2>1. CASE LegStep
    BY <2>1, PausesStand DEF LegStep, linkVars, maxVars, LegReader!Reader, LegReader!Admit, LegReader!Select,
                             LegReader!Put, LegReader!Advance, LegReader!Slide, LegReader!Quit
  <2>2. CASE LinkStep
    BY <2>2, PausesStand DEF LinkStep, legVars, maxVars, LinkReader!Reader, LinkReader!Admit, LinkReader!Select,
                             LinkReader!Put, LinkReader!Advance, LinkReader!Slide, LinkReader!Quit
  <2>3. CASE Save \/ UNCHANGED vars
    BY <2>3, PausesStand DEF Save, vars, legVars, linkVars, maxVars
  <2> QED
    BY <1>4, <2>1, <2>2, <2>3
<1> QED
  BY <1>1, <1>2, <1>3, <1>4 DEF Next, Container

\* However the four threads interleave, MergeContainer never stops both of its
\* readers, and holds one back exactly while the times of the rows it has taken
\* in are too far apart.
THEOREM NeverBothPaused == Spec => []OneReaderRuns
<1>1. Init => PauseInv
  <2> SUFFICES ASSUME Init PROVE PauseInv
    OBVIOUS
  <2>1. ~legPaused /\ ~linkPaused
    BY DEF Init, LegReader!Init, LinkReader!Init
  <2>2. ~Apart
    BY ContainerAssumption DEF Init, Apart
  <2>3. maxLinkTime_ \in Int
    BY ContainerAssumption DEF Init
  <2> QED
    BY <2>1, <2>2, <2>3 DEF PauseInv, OneReaderRuns
<1>2. IInv /\ PauseInv /\ [Next]_vars => PauseInv'
  BY PauseStep
<1>3. PauseInv => OneReaderRuns
  BY DEF PauseInv
<1> QED
  BY <1>1, <1>2, <1>3, JoinSafe, PTL DEF Spec
=============================================================================
