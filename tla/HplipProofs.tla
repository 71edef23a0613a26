---------------------------- MODULE HplipProofs -----------------------------
(***************************************************************************)
(* Proofs about Walkup and about Hplip, which runs it.                     *)
(*                                                                         *)
(* First the exchanges with the device: for any hosts, any number of       *)
(* destinations and any capacity, what this host leaves on a device is     *)
(* bounded and known, and it never deletes another host's entry.           *)
(*                                                                         *)
(* Then the backend's listener: it runs these exchanges and nothing else   *)
(* on the device, so what was shown of them holds of it; and the panel     *)
(* never offers this host with nothing listening, but for a pairing's own  *)
(* start or a listener that gave up.                                       *)
(***************************************************************************)
EXTENDS Hplip, FiniteSetTheorems, TLAPS

\* Every entry, on the device or as it was read.
Seen == collection \cup occupied

\* A URI names one entry for good: what is deleted by an old reading is what
\* was read.
UrisName ==
    /\ \A d \in Seen : d.uri \in used
    /\ \A d, e \in Seen : d.uri = e.uri => d = e

\* The URIs this host may delete by are those of its own entries.
HandlesAreOwn ==
    /\ {panel, leaving} \ {NoUri} \subseteq used
    /\ \A d \in collection : d.uri \in {panel, leaving} => d.host = Self

\* What a late POST made is written off as soon as it is there.
StragglersAreOrphans == stragglers \subseteq orphans \cap used

\* What an installation knows: what it deleted is gone and was its own, and
\* what is left of this host's is what it has yet to delete.
SweepIsKnown ==
    /\ pc \in {"idle", "limits", "destinations"} => occupied = {} /\ swept = {}
    /\ swept \subseteq Stale /\ swept \cap collection = {}
    /\ pc = "sweep" => \A d \in Own : d.uri \in stragglers \/ d \in Stale \ swept

FiniteReadings == IsFiniteSet(collection) /\ IsFiniteSet(occupied)

WalkupInv ==
    /\ WalkupTypeOK /\ UrisName /\ HandlesAreOwn /\ StragglersAreOrphans
    /\ SweepIsKnown /\ FiniteReadings /\ Footprint /\ HandlesAreKept

-----------------------------------------------------------------------------
(* What the device does *)

\* A new entry has a URI no entry ever had.
LEMMA Created ==
    ASSUME WalkupInv, NEW u, NEW h \in {Self} \cup Others, Create(u, h),
           UNCHANGED occupied
    PROVE  LET e == [uri |-> u, host |-> h] IN
           /\ u \in Uris \ used /\ used' = used \cup {u}
           /\ e \in Destinations /\ e \notin Seen /\ collection' = collection \cup {e}
           /\ e.uri = u /\ e.host = h
           /\ UrisName' /\ FiniteReadings'
<1> DEFINE e == [uri |-> u, host |-> h]
<1>1. u \in Uris \ used /\ used' = used \cup {u} /\ collection' = collection \cup {e}
  <2>1. used \subseteq Uris /\ used # Uris
    BY DEF Create, WalkupInv, WalkupTypeOK
  <2>2. \E v \in Uris \ used : TRUE
    BY <2>1
  <2> QED BY <2>2 DEF Create
<1>2. e \in Destinations /\ e.uri = u /\ e.host = h
  BY <1>1 DEF Destinations
<1>3. \A d \in Seen : d.uri \in used
  BY DEF WalkupInv, UrisName
<1>4. e \notin Seen /\ Seen' = Seen \cup {e}
  BY <1>1, <1>2, <1>3 DEF Seen
<1>5. UrisName'
  BY <1>1, <1>2, <1>3, <1>4 DEF WalkupInv, UrisName
<1>6. FiniteReadings'
  BY <1>1, FS_AddElement DEF WalkupInv, FiniteReadings
<1> QED BY <1>1, <1>2, <1>4, <1>5, <1>6

\* Fewer entries are no trouble.
LEMMA Fewer ==
    ASSUME WalkupInv, collection' \subseteq collection, UNCHANGED used,
           occupied' \in {occupied, collection, {}}
    PROVE  UrisName' /\ FiniteReadings'
<1>1. Seen' \subseteq Seen
  BY DEF Seen
<1>2. UrisName'
  BY <1>1 DEF WalkupInv, UrisName
<1>3. FiniteReadings'
  BY FS_Subset, FS_EmptySet DEF WalkupInv, FiniteReadings
<1> QED BY <1>2, <1>3

LEMMA InitInv == WalkupInit => WalkupInv
BY FS_EmptySet, WalkupAssumption
   DEF WalkupInit, WalkupInv, WalkupTypeOK, UrisName, Seen, HandlesAreOwn,
       StragglersAreOrphans, SweepIsKnown, Stale, Own, FiniteReadings, Footprint,
       HandlesAreKept, Destinations, Results

\* Another host's entry concerns none of this host's.
LEMMA OtherInv ==
    ASSUME WalkupInv, NEW u \in Uris, NEW h \in Others, OtherRegisters(u, h)
    PROVE  WalkupInv'
<1> DEFINE e == [uri |-> u, host |-> h]
<1>1. /\ u \in Uris \ used /\ used' = used \cup {u}
      /\ e \in Destinations /\ e \notin Seen /\ collection' = collection \cup {e}
      /\ e.uri = u /\ e.host = h
      /\ UrisName' /\ FiniteReadings'
  BY Created DEF OtherRegisters, install
<1>2. UNCHANGED <<caps, pc, occupied, swept, panel, leaving, late, stragglers, orphans>>
  BY DEF OtherRegisters, install, past
<1> HIDE DEF e
<1>3. h # Self /\ Own' = Own
  BY <1>1, WalkupAssumption DEF Own
<1>4. WalkupTypeOK'
  BY <1>1, <1>2 DEF WalkupInv, WalkupTypeOK
<1>5. HandlesAreOwn' /\ StragglersAreOrphans'
  BY <1>1, <1>2, WalkupAssumption DEF WalkupInv, HandlesAreOwn, StragglersAreOrphans
<1>6. SweepIsKnown'
  BY <1>1, <1>2, <1>3 DEF WalkupInv, SweepIsKnown, Stale, RegisteredBySelf, Seen
<1>7. Footprint' /\ HandlesAreKept'
  BY <1>2, <1>3 DEF WalkupInv, Footprint, HandlesAreKept
<1> QED BY <1>1, <1>4, <1>5, <1>6, <1>7 DEF WalkupInv

\* An entry may be removed by anybody at any time.
LEMMA RemovedInv ==
    ASSUME WalkupInv, collection' \subseteq collection,
           UNCHANGED <<caps, used, install, panel, leaving, past>>
    PROVE  WalkupInv'
<1> USE DEF install, past
<1>1. UrisName' /\ FiniteReadings'
  BY Fewer
<1>2. Own' \subseteq Own /\ Stale' = Stale
  BY DEF Own, Stale, RegisteredBySelf
<1>3. WalkupTypeOK' /\ HandlesAreOwn' /\ StragglersAreOrphans'
  BY DEF WalkupInv, WalkupTypeOK, HandlesAreOwn, StragglersAreOrphans
<1>4. SweepIsKnown'
  BY <1>2 DEF WalkupInv, SweepIsKnown
<1>5. Footprint' /\ HandlesAreKept'
  BY <1>2 DEF WalkupInv, Footprint, HandlesAreKept
<1> QED BY <1>1, <1>3, <1>4, <1>5 DEF WalkupInv

-----------------------------------------------------------------------------
(* The installation *)

\* Steps that change only where the installation is, and forget what it read
\* when it is over.
LEMMA ReadingInv ==
    ASSUME WalkupInv, Install \/ Limits \/ Listed \/ Return
    PROVE  WalkupInv'
<1> USE DEF device, past
<1>1. UNCHANGED <<caps, collection, used, panel, leaving, late, stragglers, orphans>>
  BY DEF Install, Limits, Listed, Return
<1>2. occupied' \in {occupied, collection, {}}
  BY DEF Install, Limits, Listed, Return
<1>3. UrisName' /\ FiniteReadings'
  BY <1>1, <1>2, Fewer
<1>4. WalkupTypeOK'
  BY <1>1 DEF Install, Limits, Listed, Return, WalkupInv, WalkupTypeOK, SweepIsKnown, Results
<1>5. HandlesAreOwn' /\ StragglersAreOrphans' /\ HandlesAreKept'
  BY <1>1 DEF WalkupInv, HandlesAreOwn, StragglersAreOrphans, HandlesAreKept, Own
<1>6. SweepIsKnown'
  BY <1>1 DEF Install, Limits, Listed, Return, WalkupInv, SweepIsKnown, Stale,
              RegisteredBySelf, Own, Results
<1>7. Footprint'
  BY <1>1 DEF Install, Limits, Listed, Return, WalkupInv, Footprint, Own
<1> QED BY <1>3, <1>4, <1>5, <1>6, <1>7 DEF WalkupInv

\* One DELETE of the sweep takes what was read, and only that.
LEMMA SweepInv ==
    ASSUME WalkupInv, NEW d \in occupied, Sweep(d)
    PROVE  WalkupInv' /\ Foreign \subseteq Foreign'
<1>1. UNCHANGED <<caps, used, pc, occupied, panel, leaving, late, stragglers, orphans>>
  BY DEF Sweep, past
<1>2. /\ pc = "sweep" /\ d \in Stale \ swept /\ d.host = Self
      /\ swept' = swept \cup {d}
  BY DEF Sweep, Stale, RegisteredBySelf
<1>3. collection' = collection \ {d}
  <2>1. \A e \in collection : e.uri = d.uri => e = d
    BY DEF WalkupInv, UrisName, Seen
  <2> QED BY <2>1 DEF Sweep
<1>4. UrisName' /\ FiniteReadings'
  BY <1>1, <1>3, Fewer
<1>5. Own' = Own \ {d} /\ Foreign' = Foreign
  BY <1>2, <1>3 DEF Own, Foreign
<1>6. Stale' = Stale
  BY <1>1 DEF Stale, RegisteredBySelf
<1>7. WalkupTypeOK' /\ HandlesAreOwn' /\ StragglersAreOrphans'
  BY <1>1, <1>2, <1>3 DEF WalkupInv, WalkupTypeOK, HandlesAreOwn, StragglersAreOrphans
<1>8. SweepIsKnown'
  BY <1>1, <1>2, <1>3, <1>5, <1>6 DEF WalkupInv, SweepIsKnown
<1>9. Footprint' /\ HandlesAreKept'
  BY <1>1, <1>2, <1>5 DEF WalkupInv, Footprint, HandlesAreKept
<1> QED BY <1>4, <1>5, <1>7, <1>8, <1>9 DEF WalkupInv

\* A step that ends the installation before it registers, with the device as
\* it was or one entry of this host's less.
LEMMA FailedInv ==
    ASSUME WalkupInv, pc' = "failed", collection' \subseteq collection,
           UNCHANGED <<caps, used, occupied, swept, panel, leaving, stragglers, orphans>>,
           late' \in 0..MaxLate
    PROVE  WalkupInv'
<1>1. UrisName' /\ FiniteReadings'
  BY Fewer
<1>2. Own' \subseteq Own /\ Stale' = Stale
  BY DEF Own, Stale, RegisteredBySelf
<1>3. WalkupTypeOK' /\ HandlesAreOwn' /\ StragglersAreOrphans'
  BY DEF WalkupInv, WalkupTypeOK, HandlesAreOwn, StragglersAreOrphans, Results
<1>4. SweepIsKnown'
  BY <1>2 DEF WalkupInv, SweepIsKnown
<1>5. Footprint' /\ HandlesAreKept'
  BY <1>2 DEF WalkupInv, Footprint, HandlesAreKept
<1> QED BY <1>1, <1>3, <1>4, <1>5 DEF WalkupInv

\* Refused for want of room: this host's own entries have been deducted.
LEMMA FullInv ==
    ASSUME WalkupInv, Full
    PROVE  WalkupInv'
<1>1. UNCHANGED <<caps, collection, used, occupied, swept, panel, leaving,
                  late, stragglers, orphans>>
  BY DEF Full, device, past
<1>2. pc = "sweep" /\ swept = Stale /\ pc' = "full" /\ caps = "limited"
      /\ ~(Cardinality(occupied) - Cardinality(swept) < Capacity)
  BY DEF Full, SweepDone, RoomLeft, WalkupInv, SweepIsKnown
<1>3. Cardinality({d \in occupied : d.host # Self}) >= Capacity
  <2>1. {d \in occupied : d.host # Self} = occupied \ Stale
    BY DEF Stale, RegisteredBySelf
  <2>2. occupied \cap Stale = Stale
    BY DEF Stale
  <2>3. /\ IsFiniteSet(occupied) /\ IsFiniteSet(Stale)
        /\ Cardinality(occupied \ Stale) = Cardinality(occupied) - Cardinality(Stale)
    BY <2>2, FS_Difference, FS_Intersection DEF WalkupInv, FiniteReadings
  <2>4. Cardinality(occupied) \in Nat /\ Cardinality(Stale) \in Nat
    BY <2>3, FS_CardinalityType
  <2>5. ~(Cardinality(occupied) - Cardinality(Stale) < Capacity)
    BY <1>2
  <2>6. Cardinality(occupied \ Stale) >= Capacity
    BY <2>3, <2>4, <2>5, WalkupAssumption
  <2> QED BY <2>1, <2>6, Zenon
<1>4. UrisName' /\ FiniteReadings'
  BY <1>1, Fewer
<1>5. Own' = Own /\ Stale' = Stale
  BY <1>1 DEF Own, Stale, RegisteredBySelf
<1>6. WalkupTypeOK' /\ HandlesAreOwn' /\ StragglersAreOrphans' /\ SweepIsKnown'
  BY <1>1, <1>2, <1>5
     DEF WalkupInv, WalkupTypeOK, HandlesAreOwn, StragglersAreOrphans, Results, SweepIsKnown
<1>7. Footprint' /\ HandlesAreKept'
  BY <1>1, <1>2, <1>3, <1>5 DEF WalkupInv, Footprint, HandlesAreKept
<1> QED BY <1>4, <1>6, <1>7 DEF WalkupInv

\* A POST of the installation, heard of or not: once the sweep is over, only
\* what late POSTs left is this host's.
LEMMA RegisterInv ==
    ASSUME WalkupInv, NEW u \in Uris, Register(u) \/ RegisteredUnheard(u)
    PROVE  WalkupInv'
<1> DEFINE e == [uri |-> u, host |-> Self]
<1>1. UNCHANGED <<caps, occupied, swept, leaving, late, stragglers>>
  BY DEF Register, RegisteredUnheard, past
<1>2. /\ u \in Uris \ used /\ used' = used \cup {u}
      /\ e \in Destinations /\ e \notin Seen /\ collection' = collection \cup {e}
      /\ e.uri = u /\ e.host = Self
      /\ UrisName' /\ FiniteReadings'
  BY <1>1, Created DEF Register, RegisteredUnheard
<1> HIDE DEF e
<1>3. Own' = Own \cup {e} /\ Stale' = Stale
  BY <1>1, <1>2 DEF Own, Stale, RegisteredBySelf
<1>4. /\ \A d \in Own : d.uri \in stragglers
      /\ pc = "sweep" /\ swept = Stale
  BY DEF Register, RegisteredUnheard, SweepDone, WalkupInv, SweepIsKnown
<1>5. u \notin stragglers /\ stragglers \subseteq orphans
  BY <1>2 DEF WalkupInv, StragglersAreOrphans
<1>6. \/ pc' = "ok" /\ panel' = u /\ orphans' = orphans
      \/ pc' = "failed" /\ panel' = panel /\ orphans' = orphans \cup {u}
  BY DEF Register, RegisteredUnheard, Kept, past
<1>7. WalkupTypeOK'
  BY <1>1, <1>2, <1>6 DEF WalkupInv, WalkupTypeOK, Results
<1>8. HandlesAreOwn' /\ StragglersAreOrphans'
  BY <1>1, <1>2, <1>6, WalkupAssumption
     DEF WalkupInv, HandlesAreOwn, StragglersAreOrphans, UrisName, Seen
<1>9. SweepIsKnown'
  BY <1>1, <1>2, <1>3, <1>6 DEF WalkupInv, SweepIsKnown, Seen, Stale
<1>10. Footprint'
  <2>1. Own \cap occupied = {}
    BY <1>4 DEF WalkupInv, SweepIsKnown, Own, Stale, RegisteredBySelf
  <2>2. \A d \in Own' : d.uri \notin stragglers => d = e
    BY <1>3, <1>4
  <2> QED BY <1>1, <1>2, <1>3, <1>6, <2>1, <2>2 DEF Footprint, Seen
<1>11. HandlesAreKept'
  BY <1>1, <1>2, <1>3, <1>4, <1>5, <1>6 DEF HandlesAreKept
<1> QED BY <1>2, <1>7, <1>8, <1>9, <1>10, <1>11 DEF WalkupInv

\* A POST whose call is over is a straggler from the start.
LEMMA LateInv ==
    ASSUME WalkupInv, NEW u \in Uris, LatePost(u)
    PROVE  WalkupInv'
<1> DEFINE e == [uri |-> u, host |-> Self]
<1>1. /\ UNCHANGED <<caps, pc, occupied, swept, panel, leaving>>
      /\ late > 0 /\ late' = late - 1
      /\ stragglers' = stragglers \cup {u} /\ orphans' = orphans \cup {u}
  BY DEF LatePost, install
<1>2. /\ u \in Uris \ used /\ used' = used \cup {u}
      /\ e \in Destinations /\ e \notin Seen /\ collection' = collection \cup {e}
      /\ e.uri = u /\ e.host = Self
      /\ UrisName' /\ FiniteReadings'
  BY <1>1, Created DEF LatePost
<1> HIDE DEF e
<1>3. Own' = Own \cup {e} /\ Stale' = Stale
  BY <1>1, <1>2 DEF Own, Stale, RegisteredBySelf
<1>4. WalkupTypeOK'
  <2>1. late' \in 0..MaxLate
    BY <1>1, WalkupAssumption DEF WalkupInv, WalkupTypeOK
  <2> QED BY <1>1, <1>2, <2>1 DEF WalkupInv, WalkupTypeOK
<1>5. HandlesAreOwn' /\ StragglersAreOrphans'
  BY <1>1, <1>2 DEF WalkupInv, HandlesAreOwn, StragglersAreOrphans
<1>6. SweepIsKnown'
  BY <1>1, <1>2, <1>3 DEF WalkupInv, SweepIsKnown, Seen, Stale
<1>7. Footprint'
  BY <1>1, <1>2, <1>3 DEF WalkupInv, Footprint, Seen
<1>8. HandlesAreKept'
  BY <1>1, <1>2, <1>3 DEF WalkupInv, HandlesAreKept
<1> QED BY <1>2, <1>4, <1>5, <1>6, <1>7, <1>8 DEF WalkupInv

-----------------------------------------------------------------------------
(* Withdrawing, and dying *)

LEMMA AbandonTyped ==
    ASSUME WalkupInv, Abandon
    PROVE  late' \in 0..MaxLate
BY WalkupAssumption DEF Abandon, WalkupInv, WalkupTypeOK

\* An installation that is dropped, a handle that moves or is lost.
LEMMA DroppedInv ==
    ASSUME WalkupInv, Aborted \/ Withdraw \/ Forgotten
    PROVE  WalkupInv'
<1> USE DEF device, install, past
<1>1. UNCHANGED <<caps, collection, used, stragglers>>
  BY DEF Aborted, Withdraw, Forgotten
<1>2. \/ pc' = "idle" /\ occupied' = {} /\ swept' = {} /\ late' \in 0..MaxLate
      \/ UNCHANGED <<pc, occupied, swept, late>>
  BY AbandonTyped DEF Aborted, Withdraw, Forgotten, Abandon
<1>3. \/ UNCHANGED <<panel, leaving, orphans>>
      \/ leaving = NoUri /\ leaving' = panel /\ panel' = NoUri /\ orphans' = orphans
      \/ /\ panel' = NoUri /\ leaving' = NoUri
         /\ orphans' = orphans \cup ({panel, leaving} \ {NoUri})
  BY DEF Aborted, Withdraw, Forgotten, ToldToStop
<1>4. UrisName' /\ FiniteReadings'
  BY <1>1, <1>2, Fewer
<1>5. WalkupTypeOK'
  BY <1>1, <1>2, <1>3 DEF WalkupInv, WalkupTypeOK
<1>6. HandlesAreOwn' /\ StragglersAreOrphans'
  BY <1>1, <1>3, WalkupAssumption
     DEF WalkupInv, WalkupTypeOK, HandlesAreOwn, StragglersAreOrphans, Destinations
<1>7. SweepIsKnown' /\ Footprint'
  BY <1>1, <1>2 DEF WalkupInv, SweepIsKnown, Stale, Footprint, Own
<1>8. HandlesAreKept'
  <2>1. \A d \in Own : d.uri # NoUri
    BY WalkupAssumption DEF WalkupInv, WalkupTypeOK, Own, Destinations
  <2> QED BY <1>1, <1>3, <2>1 DEF WalkupInv, HandlesAreKept, Own
<1> QED BY <1>4, <1>5, <1>6, <1>7, <1>8 DEF WalkupInv

\* The DELETE of a withdrawal: the handle is this host's own entry, if it is
\* still there, and is given up whatever the device says.
LEMMA WithdrawnInv ==
    ASSUME WalkupInv, Withdrawn \/ WithdrawFails
    PROVE  WalkupInv' /\ Foreign \subseteq Foreign'
<1> USE DEF install, past
<1>1. UNCHANGED <<caps, used, pc, occupied, swept, panel, late, stragglers>>
  BY DEF Withdrawn, WithdrawFails
<1>2. /\ leaving # NoUri /\ leaving' = NoUri
      /\ \/ orphans' = orphans /\ collection' = {d \in collection : d.uri # leaving}
         \/ /\ orphans' = orphans \cup {leaving}
            /\ collection' \in {collection, {d \in collection : d.uri # leaving}}
  BY DEF Withdrawn, WithdrawFails
<1>3. collection' \subseteq collection /\ Own' \subseteq Own /\ Stale' = Stale
  BY <1>1, <1>2 DEF Own, Stale, RegisteredBySelf
<1>4. UrisName' /\ FiniteReadings'
  BY <1>1, <1>3, Fewer
<1>5. WalkupTypeOK' /\ HandlesAreOwn' /\ StragglersAreOrphans'
  <2>1. leaving \in Uris /\ orphans \subseteq orphans' /\ orphans' \subseteq Uris
    BY <1>2 DEF WalkupInv, WalkupTypeOK
  <2>2. WalkupTypeOK'
    BY <1>1, <1>2, <1>3, <2>1 DEF WalkupInv, WalkupTypeOK
  <2>3. HandlesAreOwn'
    <3>1. \A d \in collection : d.uri # NoUri
      BY WalkupAssumption DEF WalkupInv, WalkupTypeOK, Destinations
    <3> QED BY <1>1, <1>2, <1>3, <3>1 DEF WalkupInv, HandlesAreOwn
  <2>4. StragglersAreOrphans'
    BY <1>1, <2>1 DEF WalkupInv, StragglersAreOrphans
  <2> QED BY <2>2, <2>3, <2>4
<1>6. SweepIsKnown' /\ Footprint'
  BY <1>1, <1>3 DEF WalkupInv, SweepIsKnown, Footprint
<1>7. HandlesAreKept'
  BY <1>1, <1>2, <1>3 DEF WalkupInv, HandlesAreKept, Own
<1>8. Foreign \subseteq Foreign'
  BY <1>2 DEF WalkupInv, HandlesAreOwn, Foreign, Own
<1> QED BY <1>4, <1>5, <1>6, <1>7, <1>8 DEF WalkupInv

-----------------------------------------------------------------------------
(* The theorems *)

\* Every step keeps the invariant.
LEMMA StepInv ==
    ASSUME WalkupInv, [WalkupNext]_walkupVars
    PROVE  WalkupInv'
<1> USE DEF device, install, past
<1>1. ASSUME NEW d \in occupied, Sweep(d) \/ SweepRefused(d)
      PROVE  WalkupInv'
  <2>1. CASE Sweep(d)
    BY <2>1, SweepInv
  <2>2. CASE SweepRefused(d)
    BY <2>2, FailedInv DEF SweepRefused, SweepFails, WalkupInv, WalkupTypeOK
  <2> QED BY <1>1, <2>1, <2>2
<1>2. CASE ExchangeFails
  BY <1>2, FailedInv DEF ExchangeFails, WalkupInv, WalkupTypeOK
<1>3. CASE RegisterTimesOut
  <2>1. late' \in 0..MaxLate
    BY <1>3, WalkupAssumption DEF RegisterTimesOut, WalkupInv, WalkupTypeOK
  <2> QED BY <1>3, <2>1, FailedInv DEF RegisterTimesOut
<1>4. ASSUME NEW d \in collection, Removed(d)
      PROVE  WalkupInv'
  BY <1>4, RemovedInv DEF Removed
<1>5. CASE UNCHANGED walkupVars
  BY <1>5, RemovedInv DEF walkupVars
<1>6. CASE Exchange
  BY <1>1, <1>2, <1>3, <1>6, ReadingInv, FullInv, RegisterInv, WithdrawnInv DEF Exchange
<1>7. CASE Outside
  BY <1>4, <1>7, OtherInv, LateInv DEF Outside
<1>8. CASE Install \/ Return \/ Aborted \/ Withdraw \/ Forgotten
  BY <1>8, ReadingInv, DroppedInv
<1> QED BY <1>5, <1>6, <1>7, <1>8 DEF WalkupNext

\* What this host does, whoever answers or does not, removes no entry but its
\* own.
LEMMA StepSpares ==
    ASSUME WalkupInv, [WalkupNext]_walkupVars
    PROVE  UNCHANGED <<install, leaving>> \/ Foreign \subseteq Foreign'
<1> USE DEF device, install, past
<1>1. CASE UNCHANGED collection
  BY <1>1 DEF Foreign, Own
<1>2. ASSUME NEW d \in occupied, Sweep(d) \/ SweepRefused(d)
      PROVE  Foreign \subseteq Foreign'
  <2>1. CASE Sweep(d)
    BY <2>1, SweepInv
  <2>2. CASE SweepRefused(d)
    BY <2>2 DEF SweepRefused, Stale, RegisteredBySelf, Foreign, Own
  <2> QED BY <1>2, <2>1, <2>2
<1>3. ASSUME NEW u \in Uris, Register(u) \/ RegisteredUnheard(u)
      PROVE  Foreign \subseteq Foreign'
  BY <1>3 DEF Register, RegisteredUnheard, Create, Foreign, Own
<1>4. CASE Outside
  BY <1>4 DEF Outside, OtherRegisters, Removed, LatePost
<1>5. CASE Withdrawn \/ WithdrawFails
  BY <1>5, WithdrawnInv
<1>6. CASE Exchange
  BY <1>1, <1>2, <1>3, <1>5, <1>6
     DEF Exchange, Limits, Listed, Full, RegisterTimesOut, ExchangeFails
<1>7. CASE Install \/ Return \/ Aborted \/ Withdraw \/ Forgotten
  BY <1>1, <1>7 DEF Install, Return, Aborted, Withdraw, Forgotten
<1> QED BY <1>1, <1>4, <1>6, <1>7 DEF WalkupNext, walkupVars

\* Whatever goes unanswered and however often the daemon dies, this host is on
\* the panel once but for late POSTs, every entry of its can be deleted by it or
\* is written off, and it is refused only for what others take.
THEOREM FootprintAlwaysKept == WalkupSpec => []FootprintIsKept
<1>1. WalkupInit => WalkupInv
  BY InitInv
<1>2. WalkupInv /\ [WalkupNext]_walkupVars => WalkupInv'
  BY StepInv
<1>3. WalkupInv => FootprintIsKept
  BY DEF WalkupInv, FootprintIsKept
<1> QED BY <1>1, <1>2, <1>3, PTL DEF WalkupSpec

\* No sweep and no withdrawal takes another host's entry, although both delete
\* by what was read before others wrote.
THEOREM ForeignAlwaysStay == WalkupSpec => ForeignStay
<1>1. WalkupInit => WalkupInv
  BY InitInv
<1>2. WalkupInv /\ [WalkupNext]_walkupVars => WalkupInv'
  BY StepInv
<1>3. WalkupInv /\ [WalkupNext]_walkupVars
      => [UNCHANGED <<install, leaving>> \/ Foreign \subseteq Foreign']_walkupVars
  BY StepSpares
<1> QED BY <1>1, <1>2, <1>3, PTL DEF WalkupSpec, ForeignStay

-----------------------------------------------------------------------------
(* The listener *)


\* start_listening is on the panel only while somebody awaits it.
InstallIsAwaited ==
    /\ caller = "none" <=> step = "none"
    /\ pc # "idle" => step = "install"

\* There is one stream, and no second call while it runs.
OneStream ==
    /\ task # "none" => listener = "running"
    /\ caller # "none" => listener # "running"
    /\ task = "send" => lastTrigger \in Presses

\* An entry this host holds has a listener, or a reason, or is being handed
\* over.
EntryHasReason ==
    panel # NoUri =>
        listener \in {"running", "restarting"} \/ unserved # {} \/ pc = "ok"

\* An hpssd that left after it was subscribed to is noticed once its ownership
\* is watched.
ExitIsNoticed ==
    /\ step \in {"toolbox", "watch", "install"} \/ task # "none" => watched # 0
    /\ step \in {"toolbox", "watch"} /\ watched # hpssd => missed
    /\ step = "install" \/ task # "none" => watched = hpssd \/ lost \/ missed

ListenerInv ==
    TypeOK /\ InstallIsAwaited /\ OneStream /\ EntryHasReason /\ ExitIsNoticed

-----------------------------------------------------------------------------
(* The exchanges *)

\* Every step of the listener is a step of Walkup or leaves the device alone.
LEMMA StepIsWalkups ==
    ASSUME [Next]_vars
    PROVE  [WalkupNext]_walkupVars
<1>1. CASE SubscribeOwner
  BY <1>1 DEF SubscribeOwner, WalkupNext
<1>2. CASE Listening \/ StartFails
  BY <1>2 DEF Listening, StartFails, WalkupNext
<1>3. CASE Disconnect \/ CancelPairing \/ Crash
  BY <1>3 DEF Disconnect, CancelPairing, Crash, WalkupNext
<1>4. CASE DeviceStep
  BY <1>4 DEF DeviceStep, WalkupNext
<1>5. CASE UNCHANGED vars
  BY <1>5 DEF vars
<1>6. CASE \/ Press \/ OtherEvent \/ HpssdExits \/ HpssdStarts
           \/ Connect \/ Restart \/ Pair \/ ServiceOwner \/ SubscribeToolbox
           \/ Task \/ Listener \/ GiveUp
  BY <1>6 DEF Press, OtherEvent, HpssdExits, HpssdStarts, Connect, Restart, Pair, Start,
              ServiceOwner, SubscribeToolbox, Task, TakeEvent, ReadHistory, Send, TaskEnds,
              Listener, Consume, StreamEnded, GiveUp
<1> QED BY <1>1, <1>2, <1>3, <1>4, <1>5, <1>6 DEF Next

\* The listener does to the device what Walkup allows, in its order.
THEOREM ListenerImplementsWalkup == Spec => WalkupSpec
<1>1. Init => WalkupInit
  BY DEF Init
<1>2. [Next]_vars => [WalkupNext]_walkupVars
  BY StepIsWalkups
<1> QED BY <1>1, <1>2, PTL DEF Spec, WalkupSpec

\* However the calls of the daemon interleave with crashes and lost answers,
\* what this host leaves on the panel is known and bounded.
THEOREM ListenerFootprintKept == Spec => []FootprintIsKept
BY ListenerImplementsWalkup, FootprintAlwaysKept, PTL

\* And it deletes no other host's entry.
THEOREM ListenerSparesForeign == Spec => ForeignStay
BY ListenerImplementsWalkup, ForeignAlwaysStay, PTL

-----------------------------------------------------------------------------
(* The offer *)

LEMMA ListenerInit ==
    ASSUME Init
    PROVE  ListenerInv
<1>1. WalkupTypeOK
  BY InitInv DEF Init, WalkupInv
<1>2. TypeOK
  <2>1. hpssd \in 0..MaxOwners /\ owners \in 0..MaxOwners /\ hpssd <= owners
    BY HplipAssumption DEF Init
  <2>2. queue \in Seq(Presses) /\ Len(queue) <= QueueBound
    BY HplipAssumption DEF Init
  <2>3. heard \in [Presses -> Nat]
    BY DEF Init
  <2>4. /\ last \in 0..presses /\ presses \in 0..MaxPresses
        /\ watched \in 0..MaxOwners /\ events \in 0..EventBound
        /\ lastTrigger \in 0..MaxPresses
    BY HplipAssumption DEF Init
  <2>5. /\ caller = "none" /\ step = "none" /\ task = "none" /\ listener = "none"
        /\ missed \in BOOLEAN /\ lost \in BOOLEAN /\ audible = {} /\ unserved = {}
    BY DEF Init
  <2> QED BY <1>1, <2>1, <2>2, <2>3, <2>4, <2>5 DEF TypeOK
<1> QED BY <1>2
     DEF Init, WalkupInit, ListenerInv, InstallIsAwaited, OneStream, EntryHasReason,
         ExitIsNoticed

\* hpssd and whoever stands at the panel change only what the stream is told.
LEMMA StatusInv ==
    ASSUME ListenerInv, Press \/ OtherEvent \/ HpssdExits \/ HpssdStarts
    PROVE  ListenerInv'
<1> USE HplipAssumption
<1>1. UNCHANGED <<walkupVars, caller, step, watched, task, lastTrigger, queue, rest>>
  BY DEF Press, OtherEvent, HpssdExits, HpssdStarts, starting, stream
<1>2. WalkupTypeOK'
  BY <1>1 DEF ListenerInv, TypeOK, WalkupTypeOK, walkupVars, device, install, past
<1>3. TypeOK'
  <2>1. CASE Press
    <3>1. /\ presses' \in 1..MaxPresses /\ last' = presses'
          /\ UNCHANGED <<hpssd, owners, missed, lost>>
      BY <2>1 DEF Press, ListenerInv, TypeOK, starting
    <3>2. presses + 1 \in Presses
      BY <2>1 DEF Press, ListenerInv, TypeOK, Presses
    <3>3. audible' \subseteq Presses
      BY <2>1, <3>2 DEF Press, Signal, ListenerInv, TypeOK
    <3>4. events' \in 0..EventBound
      BY <2>1 DEF Press, Signal, ListenerInv, TypeOK
    <3> QED BY <1>1, <1>2, <3>1, <3>3, <3>4 DEF ListenerInv, TypeOK, rest
  <2>2. CASE OtherEvent
    <3>1. last' \in 0..presses /\ UNCHANGED <<hpssd, owners, presses, missed, lost>>
      BY <2>2 DEF OtherEvent, ListenerInv, TypeOK, starting
    <3>2. events' \in 0..EventBound /\ audible' \subseteq Presses
      BY <2>2 DEF OtherEvent, Signal, ListenerInv, TypeOK
    <3> QED BY <1>1, <1>2, <3>1, <3>2 DEF ListenerInv, TypeOK, rest
  <2>3. CASE HpssdExits
    BY <1>1, <1>2, <2>3 DEF HpssdExits, ListenerInv, TypeOK, Presses, rest
  <2>4. CASE HpssdStarts
    BY <1>1, <1>2, <2>4 DEF HpssdStarts, ListenerInv, TypeOK, rest, starting, stream
  <2> QED BY <2>1, <2>2, <2>3, <2>4
<1>4. ExitIsNoticed'
  <2>1. CASE Press \/ OtherEvent
    BY <1>1, <2>1 DEF Press, OtherEvent, ListenerInv, ExitIsNoticed, starting
  <2>2. CASE HpssdExits
    BY <1>1, <2>2 DEF HpssdExits, ListenerInv, ExitIsNoticed, OwnershipWatched
  <2>3. CASE HpssdStarts
    BY <1>1, <2>3
       DEF HpssdStarts, ListenerInv, TypeOK, ExitIsNoticed, starting, stream
  <2> QED BY <2>1, <2>2, <2>3
<1> QED BY <1>1, <1>3, <1>4
     DEF ListenerInv, InstallIsAwaited, OneStream, EntryHasReason, rest, walkupVars, install

\* A call of start_listening, up to the panel.
LEMMA StartInv ==
    ASSUME ListenerInv, WalkupTypeOK',
           Connect \/ Restart \/ Pair \/ ServiceOwner \/ SubscribeToolbox \/ SubscribeOwner
    PROVE  ListenerInv'
<1> USE HplipAssumption DEF status, starting, stream, rest, walkupVars, install, device, past
<1>1. CASE Connect \/ Restart \/ Pair
  <2>1. /\ caller = "none" /\ step = "none" /\ step' = "owner" /\ listener # "running"
        /\ caller' \in {"connect", "restart", "driver"}
        /\ UNCHANGED <<walkupVars, status, watched, missed, stream, rest>>
    BY <1>1 DEF Connect, Restart, Pair, Start
  <2> QED BY <2>1
       DEF ListenerInv, TypeOK, InstallIsAwaited, OneStream, EntryHasReason, ExitIsNoticed
<1>2. CASE ServiceOwner
  <2>1. hpssd' \in 1..MaxOwners /\ owners' \in 0..MaxOwners /\ hpssd' <= owners'
    BY <1>2 DEF ServiceOwner, ListenerInv, TypeOK
  <2>2. caller # "none" /\ task = "none"
    BY <1>2 DEF ServiceOwner, ListenerInv, TypeOK, InstallIsAwaited, OneStream
  <2>3. TypeOK'
    BY <1>2, <2>1 DEF ServiceOwner, ListenerInv, TypeOK
  <2> QED BY <1>2, <2>1, <2>2, <2>3
       DEF ServiceOwner, ListenerInv, InstallIsAwaited, OneStream, EntryHasReason,
           ExitIsNoticed
<1>3. CASE SubscribeToolbox
  BY <1>3 DEF SubscribeToolbox, ListenerInv, TypeOK, InstallIsAwaited, OneStream,
              EntryHasReason, ExitIsNoticed
<1>4. CASE SubscribeOwner
  BY <1>4 DEF SubscribeOwner, Install, ListenerInv, TypeOK, InstallIsAwaited, OneStream,
              EntryHasReason, ExitIsNoticed
<1> QED BY <1>1, <1>2, <1>3, <1>4

\* A call that is over and leaves no stream.
LEMMA HushedInv ==
    ASSUME ListenerInv, WalkupTypeOK', NoStream,
           caller' = "none", step' = "none", pc' = "idle",
           UNCHANGED <<status, watched, missed, heard>>,
           listener' \in {"none", "running", "restarting", "failed"},
           unserved' \subseteq {"driver", "failed"},
           EntryHasReason'
    PROVE  ListenerInv'
<1> USE DEF NoStream, status
<1>1. queue' \in Seq(Presses) /\ Len(queue') <= QueueBound
  BY HplipAssumption
<1>2. audible' \subseteq Presses /\ events' \in 0..EventBound /\ lastTrigger' \in 0..MaxPresses
  BY HplipAssumption
<1>3. TypeOK'
  BY <1>1, <1>2 DEF ListenerInv, TypeOK
<1>4. InstallIsAwaited' /\ OneStream' /\ ExitIsNoticed'
  BY DEF InstallIsAwaited, OneStream, ExitIsNoticed
<1> QED BY <1>3, <1>4 DEF ListenerInv

\* A call that ends, or is dropped: nobody listens but the listener there was.
LEMMA EndInv ==
    ASSUME ListenerInv, WalkupTypeOK',
           Listening \/ StartFails \/ Disconnect \/ CancelPairing \/ Crash
    PROVE  ListenerInv'
<1> USE DEF starting, stream, rest
<1>1. CASE Listening
  <2>1. /\ pc' = "idle" /\ panel' = panel
        /\ step = "install" /\ caller' = "none" /\ step' = "none"
        /\ UNCHANGED <<status, watched, missed, heard>>
    BY <1>1 DEF Listening, Return
  <2>2. CASE caller = "driver"
    <3>1. NoStream /\ unserved' = unserved \cup {"driver"} /\ listener' = listener
      BY <1>1, <2>2 DEF Listening
    <3>2. unserved' \subseteq {"driver", "failed"} /\ EntryHasReason'
          /\ listener \in {"none", "running", "restarting", "failed"}
      BY <3>1 DEF ListenerInv, TypeOK, EntryHasReason
    <3> QED BY <2>1, <3>1, <3>2, HushedInv
  <2>3. CASE caller # "driver"
    <3>1. /\ task' = "select" /\ listener' = "running"
          /\ UNCHANGED <<events, lost, lastTrigger, queue, audible, unserved>>
      BY <1>1, <2>3 DEF Listening
    <3>2. TypeOK'
      BY <2>1, <3>1 DEF ListenerInv, TypeOK, status
    <3>3. InstallIsAwaited' /\ OneStream' /\ EntryHasReason'
      BY <2>1, <3>1 DEF InstallIsAwaited, OneStream, EntryHasReason
    <3>4. ExitIsNoticed'
      BY <2>1, <3>1 DEF ListenerInv, ExitIsNoticed, status
    <3> QED BY <3>2, <3>3, <3>4 DEF ListenerInv
  <2> QED BY <2>2, <2>3
<1>2. CASE StartFails
  <2>1. /\ pc # "ok" /\ pc' = "idle" /\ panel' = panel
        /\ caller' = "none" /\ step' = "none" /\ NoStream
        /\ UNCHANGED <<status, watched, missed, rest>>
    BY <1>2 DEF StartFails, Return, ListenerInv, InstallIsAwaited, walkupVars, install
  <2>2. EntryHasReason'
    BY <2>1 DEF ListenerInv, EntryHasReason
  <2>3. listener' \in {"none", "running", "restarting", "failed"}
        /\ unserved' \subseteq {"driver", "failed"}
    BY <2>1 DEF ListenerInv, TypeOK
  <2> QED BY <2>1, <2>2, <2>3, HushedInv
<1>3. CASE Disconnect \/ Crash
  <2>1. /\ pc' = "idle" /\ panel' = NoUri
        /\ caller' = "none" /\ step' = "none" /\ listener' = "none" /\ NoStream
        /\ UNCHANGED <<status, watched, missed, heard, unserved>>
    BY <1>3 DEF Disconnect, Withdraw, ToldToStop, Crash, Forgotten, Abandon, install
  <2>2. EntryHasReason' /\ unserved' \subseteq {"driver", "failed"}
    BY <2>1 DEF ListenerInv, TypeOK, EntryHasReason
  <2> QED BY <2>1, <2>2, HushedInv
<1>4. CASE CancelPairing
  <2>1. /\ pc' = "idle" /\ panel' = panel
        /\ unserved' = IF pc = "ok" THEN unserved \cup {"driver"} ELSE unserved
        /\ caller' = "none" /\ step' = "none" /\ NoStream
        /\ UNCHANGED <<status, watched, missed, heard, listener>>
    BY <1>4 DEF CancelPairing, Aborted, Abandon, walkupVars, install
  <2>2. EntryHasReason' /\ unserved' \subseteq {"driver", "failed"}
        /\ listener' \in {"none", "running", "restarting", "failed"}
    BY <2>1 DEF ListenerInv, TypeOK, EntryHasReason
  <2> QED BY <2>1, <2>2, HushedInv
<1> QED BY <1>1, <1>2, <1>3, <1>4

\* The task of the backend and the listener of the daemon.
LEMMA TaskInv ==
    ASSUME ListenerInv, Task \/ Listener \/ GiveUp
    PROVE  ListenerInv'
<1> USE HplipAssumption DEF status, starting, stream, rest
<1>1. UNCHANGED <<walkupVars, status, starting>>
  BY DEF Task, TakeEvent, ReadHistory, Send, TaskEnds, Listener, Consume, StreamEnded, GiveUp
<1>2. WalkupTypeOK'
  BY <1>1 DEF ListenerInv, TypeOK, WalkupTypeOK, walkupVars, device, install, past
<1>3. InstallIsAwaited'
  BY <1>1 DEF ListenerInv, InstallIsAwaited, walkupVars, install
<1>4. TypeOK'
  <2>1. CASE TakeEvent \/ TaskEnds \/ StreamEnded \/ GiveUp
    <3>1. /\ events' \in 0..EventBound
          /\ task' \in {"none", "select", "history", "send"}
      BY <2>1 DEF TakeEvent, TaskEnds, StreamEnded, GiveUp, ListenerInv, TypeOK
    <3>2. audible' \subseteq Presses
      BY <2>1 DEF TakeEvent, TaskEnds, StreamEnded, GiveUp, ListenerInv, TypeOK
    <3>3. lost' \in BOOLEAN
      BY <2>1 DEF TakeEvent, TaskEnds, StreamEnded, GiveUp, ListenerInv, TypeOK
    <3>4. UNCHANGED <<lastTrigger, queue, heard>>
      BY <2>1 DEF TakeEvent, TaskEnds, StreamEnded, GiveUp
    <3>5. listener' \in {"none", "running", "restarting", "failed"}
          /\ unserved' \subseteq {"driver", "failed"}
      BY <2>1 DEF TakeEvent, TaskEnds, StreamEnded, GiveUp, ListenerInv, TypeOK
    <3> QED BY <1>1, <1>2, <3>1, <3>2, <3>3, <3>4, <3>5
      DEF ListenerInv, TypeOK
  <2>2. CASE ReadHistory
    BY <1>1, <1>2, <2>2 DEF ReadHistory, NewTrigger, ListenerInv, TypeOK
  <2>3. CASE Send
    BY <1>1, <1>2, <2>3 DEF Send, ChannelRoom, ListenerInv, TypeOK, OneStream
  <2>4. CASE Consume
    BY <1>1, <1>2, <2>4 DEF Consume, ListenerInv, TypeOK
  <2> QED BY <2>1, <2>2, <2>3, <2>4 DEF Task, Listener
<1>5. OneStream'
  BY <1>1 DEF Task, TakeEvent, ReadHistory, NewTrigger, Send, TaskEnds, Listener, Consume,
              StreamEnded, GiveUp, ListenerInv, OneStream, TypeOK, Presses
<1>6. EntryHasReason'
  BY <1>1 DEF Task, TakeEvent, ReadHistory, Send, TaskEnds, Listener, Consume,
              StreamEnded, GiveUp, ListenerInv, EntryHasReason, walkupVars, install
<1>7. ExitIsNoticed'
  BY <1>1 DEF Task, TakeEvent, ReadHistory, Send, TaskEnds, Listener, Consume,
              StreamEnded, GiveUp, ListenerInv, ExitIsNoticed, OneStream, InstallIsAwaited
<1> QED BY <1>3, <1>4, <1>5, <1>6, <1>7 DEF ListenerInv

\* What the exchanges leave behind: the entry of an installation that
\* succeeded is being handed over.
LEMMA DeviceInv ==
    ASSUME ListenerInv, WalkupTypeOK', DeviceStep
    PROVE  ListenerInv'
<1> USE DEF status, starting, stream, rest, device, install, past
<1>1. UNCHANGED <<status, starting, stream, rest>>
  BY DEF DeviceStep
<1>2. TypeOK' /\ OneStream' /\ ExitIsNoticed'
  BY <1>1 DEF ListenerInv, TypeOK, OneStream, ExitIsNoticed
<1>3. (pc' # "idle" => pc # "idle") /\ (panel' # panel => pc' = "ok")
      /\ (pc' # pc => pc # "ok")
  BY DEF DeviceStep, Exchange, Limits, Listed, Full, RegisterTimesOut, ExchangeFails, Sweep,
         SweepRefused, SweepFails, SweepDone, Register, Kept, RegisteredUnheard, Withdrawn,
         WithdrawFails, Outside, OtherRegisters, Removed, LatePost
<1>4. InstallIsAwaited' /\ EntryHasReason'
  BY <1>1, <1>3 DEF ListenerInv, InstallIsAwaited, EntryHasReason
<1> QED BY <1>2, <1>4 DEF ListenerInv

LEMMA ListenerStep ==
    ASSUME ListenerInv, WalkupTypeOK', [Next]_vars
    PROVE  ListenerInv'
<1>1. CASE UNCHANGED vars
  BY <1>1 DEF vars, walkupVars, device, install, past, status, starting, stream, rest,
              ListenerInv, TypeOK, InstallIsAwaited, OneStream, EntryHasReason, ExitIsNoticed
<1>2. CASE Next
  BY <1>2, StatusInv, StartInv, EndInv, TaskInv, DeviceInv DEF Next
<1> QED BY <1>1, <1>2

\* Nobody at the panel selects this host and is not heard, except after the
\* two ways the daemon has of leaving an entry behind; and a stream that hears
\* nothing because hpssd left is about to learn it, unless hpssd left too soon.
THEOREM OfferAlwaysServed == Spec => []OfferIsServed
<1>1. Init => ListenerInv
  BY ListenerInit
<1>2. FootprintIsKept => WalkupTypeOK
  BY DEF FootprintIsKept
<1>3. ListenerInv /\ WalkupTypeOK' /\ [Next]_vars => ListenerInv'
  BY ListenerStep
<1>4. ListenerInv => OfferIsServed
  BY DEF ListenerInv, OfferIsServed, InstallIsAwaited, EntryHasReason, ExitIsNoticed
<1> QED BY <1>1, <1>2, <1>3, <1>4, ListenerFootprintKept, PTL DEF Spec
=============================================================================
