------------------------------- MODULE Walkup -------------------------------
(***************************************************************************)
(* The walk-up destinations of one HP device, and what this host does to   *)
(* them (scanbus-backend-hplip/src/walkup.rs, register_on_panel and        *)
(* withdraw_from_panel of lib.rs).                                         *)
(*                                                                         *)
(* The collection belongs to the device: it has a capacity, it is shared   *)
(* with other hosts, and an entry stays until something deletes it.  Each  *)
(* HTTP exchange is one step; between two exchanges of a call the others   *)
(* write.  An exchange may go unanswered with or without its effect, and a *)
(* POST may reach the collection after the call that sent it has ended.    *)
(***************************************************************************)
EXTENDS Naturals, FiniteSets

CONSTANTS
    Self,       \* this host's panel_name
    Others,     \* other hosts; one that publishes no Hostname is just another
    Uris,       \* what the device hands out, each once; bounds the POSTs
    NoUri,
    Capacity,   \* how many entries the device holds
    MaxLate     \* POSTs that may outlive their call

ASSUME WalkupAssumption ==
    /\ Self \notin Others /\ NoUri \notin Uris
    /\ IsFiniteSet(Uris) /\ Capacity \in Nat \ {0} /\ MaxLate \in Nat

VARIABLES
    caps,       \* WalkupScanToCompCaps: no such resource, no limit in it, or the limit
    collection, \* the entries on the device
    used,       \* URIs the device has handed out
    pc,         \* the installation: "idle" or the next exchange, then its result
    occupied,   \* the collection as the installation read it
    swept,      \* the entries it has deleted
    panel,      \* panels[scanner]: the URI of the PanelEntry
    leaving,    \* the URI withdraw_from_panel is deleting
    late,       \* POSTs on their way whose call is over
    stragglers, \* history: entries such a POST made
    orphans     \* history: entries whose URI this daemon never had or lost

device == <<caps, collection, used>>
install == <<pc, occupied, swept>>
past == <<late, stragglers, orphans>>
walkupVars == <<device, install, panel, leaving, past>>

Destinations == [uri : Uris, host : {Self} \cup Others]
Results == {"ok", "absent", "failed", "full"}

\* Mutants: a sweep that matches on anything, or on nothing.
RegisteredByAnyone(d) == d.uri \in Uris
RegisteredByNobody(d) == d.uri \notin Uris

\* registered_by: case is ignored and an entry without a hostname is nobody's.
RegisteredBySelf(d) == d.host = Self

Own == {d \in collection : d.host = Self}
Foreign == collection \ Own
Stale == {d \in occupied : RegisteredBySelf(d)}

\* The device takes one more entry, under a URI it never used before.
Create(u, h) ==
    /\ Cardinality(collection) < Capacity
    /\ used # Uris /\ u = CHOOSE v \in Uris \ used : TRUE
    /\ collection' = collection \cup {[uri |-> u, host |-> h]}
    /\ used' = used \cup {u}

WalkupInit ==
    /\ caps \in {"absent", "unlimited", "limited"}
    /\ collection = {} /\ used = {}
    /\ pc = "idle" /\ occupied = {} /\ swept = {}
    /\ panel = NoUri /\ leaving = NoUri
    /\ late = 0 /\ stragglers = {} /\ orphans = {}

-----------------------------------------------------------------------------
(* Other hosts, and the person at the panel *)

OtherRegisters(u, h) ==
    /\ caps # "absent" /\ h \in Others /\ Create(u, h)
    /\ UNCHANGED <<caps, install, panel, leaving, past>>

Removed(d) ==
    /\ d \in collection
    /\ collection' = collection \ {d}
    /\ UNCHANGED <<caps, used, install, panel, leaving, past>>

-----------------------------------------------------------------------------
(* install: limits, destinations, the sweep, register *)

\* The first exchange: GET of the capability document.
Install ==
    /\ pc = "idle"
    /\ pc' = "limits" /\ occupied' = {} /\ swept' = {}
    /\ UNCHANGED <<device, panel, leaving, past>>

\* 404 is a device without a collection, and not a failure.
Limits ==
    /\ pc = "limits"
    /\ pc' = IF caps = "absent" THEN "absent" ELSE "destinations"
    /\ UNCHANGED <<device, occupied, swept, panel, leaving, past>>

Listed ==
    /\ pc = "destinations"
    /\ occupied' = collection /\ pc' = "sweep"
    /\ UNCHANGED <<device, swept, panel, leaving, past>>

\* One DELETE of remove_all.  404 is a success: somebody else was faster.
Sweep(d) ==
    /\ pc = "sweep" /\ d \in Stale \ swept
    /\ collection' = {e \in collection : e.uri # d.uri}
    /\ swept' = swept \cup {d}
    /\ UNCHANGED <<caps, used, pc, occupied, panel, leaving, past>>

\* Mutants: room counted before the sweep, and no count at all.
RoomBeforeSweep == caps = "limited" => Cardinality(occupied) < Capacity

\* What register counts: the entries it read less the ones it deleted.
RoomLeft ==
    caps = "limited" => Cardinality(occupied) - Cardinality(swept) < Capacity

\* Mutant: the sweep need not be over.
SweptSome == pc = "sweep"

SweepDone == pc = "sweep" /\ Stale \subseteq swept

Full ==
    /\ SweepDone /\ ~RoomLeft
    /\ pc' = "full"
    /\ UNCHANGED <<device, occupied, swept, panel, leaving, past>>

\* Mutant: the Location is not kept.
NotKept(u) == panel' = panel

\* register_on_panel keeps the Location as the handle of the entry.
Kept(u) == panel' = u

\* 201 with a Location: the handle is kept in panels before anything awaits.
Register(u) ==
    /\ SweepDone /\ RoomLeft
    /\ Create(u, Self)
    /\ pc' = "ok" /\ Kept(u)
    /\ UNCHANGED <<caps, occupied, swept, leaving, past>>

\* 201 without a Location, or an answer that never arrived: the entry exists
\* and nothing on this host can address it.
RegisteredUnheard(u) ==
    /\ SweepDone /\ RoomLeft
    /\ Create(u, Self)
    /\ pc' = "failed" /\ orphans' = orphans \cup {u}
    /\ UNCHANGED <<caps, occupied, swept, panel, leaving, late, stragglers>>

\* The POST is still on its way when RESPONSE_TIMEOUT ends the call.
RegisterTimesOut ==
    /\ SweepDone /\ RoomLeft /\ late < MaxLate
    /\ late' = late + 1 /\ pc' = "failed"
    /\ UNCHANGED <<device, occupied, swept, panel, leaving, stragglers, orphans>>

LatePost(u) ==
    /\ late > 0 /\ Create(u, Self)
    /\ late' = late - 1
    /\ stragglers' = stragglers \cup {u} /\ orphans' = orphans \cup {u}
    /\ UNCHANGED <<caps, install, panel, leaving>>

\* Mutant: a DELETE that fails is stepped over.
FailedDelete(d) == pc' = "sweep" /\ swept' = swept \cup {d}

\* A DELETE of the sweep that was answered with neither 200, 204 nor 404, or
\* not at all, ends the installation: the entry may still be there.
SweepFails(d) == pc' = "failed" /\ swept' = swept

SweepRefused(d) ==
    /\ pc = "sweep" /\ d \in Stale \ swept
    /\ SweepFails(d)
    /\ collection' \in {collection, collection \ {d}}
    /\ UNCHANGED <<caps, used, occupied, panel, leaving, past>>

\* Any other exchange the device does not answer, or refuses.
ExchangeFails ==
    /\ pc \in {"limits", "destinations"} \/ SweepDone
    /\ pc' = "failed"
    /\ UNCHANGED <<device, occupied, swept, panel, leaving, past>>

\* The caller of install goes on.
Return ==
    /\ pc \in Results
    /\ pc' = "idle" /\ occupied' = {} /\ swept' = {}
    /\ UNCHANGED <<device, panel, leaving, past>>

\* The caller's task is dropped at an await: the next exchange never starts,
\* or its effect comes with nobody to hear of it (the request is on the wire).
Abandon ==
    /\ pc' = "idle" /\ occupied' = {} /\ swept' = {}
    /\ late' \in IF SweepDone /\ RoomLeft /\ late < MaxLate
                 THEN {late, late + 1} ELSE {late}

Aborted ==
    /\ pc # "idle" /\ Abandon
    /\ UNCHANGED <<device, panel, leaving, stragglers, orphans>>

-----------------------------------------------------------------------------
(* withdraw_from_panel *)

\* Mutant: the backend is not told.
NotTold == leaving' = leaving /\ panel' = panel

\* stop_listening and forget take the entry out of panels before the DELETE.
ToldToStop == leaving' = panel /\ panel' = NoUri

\* An installation that is under way is dropped before the backend is told.
Withdraw ==
    /\ leaving = NoUri
    /\ IF pc = "idle" THEN UNCHANGED <<install, late>> ELSE Abandon
    /\ ToldToStop
    /\ UNCHANGED <<device, stragglers, orphans>>

Withdrawn ==
    /\ leaving # NoUri
    /\ collection' = {d \in collection : d.uri # leaving}
    /\ leaving' = NoUri
    /\ UNCHANGED <<caps, used, install, panel, past>>

\* The handle is gone whether or not the device obeyed.
WithdrawFails ==
    /\ leaving # NoUri
    /\ orphans' = orphans \cup {leaving}
    /\ leaving' = NoUri
    /\ collection' \in {collection, {d \in collection : d.uri # leaving}}
    /\ UNCHANGED <<caps, used, install, panel, late, stragglers>>

\* The daemon dies: what it held is gone, what it wrote is not.
Forgotten ==
    /\ Abandon
    /\ panel' = NoUri /\ leaving' = NoUri
    /\ orphans' = orphans \cup ({panel, leaving} \ {NoUri})
    /\ UNCHANGED <<device, stragglers>>

-----------------------------------------------------------------------------

Exchange ==
    \/ Limits \/ Listed \/ Full \/ RegisterTimesOut \/ ExchangeFails
    \/ \E d \in occupied : Sweep(d) \/ SweepRefused(d)
    \/ \E u \in Uris : Register(u) \/ RegisteredUnheard(u)
    \/ Withdrawn \/ WithdrawFails

Outside ==
    \/ \E u \in Uris, h \in Others : OtherRegisters(u, h)
    \/ \E d \in collection : Removed(d)
    \/ \E u \in Uris : LatePost(u)

WalkupNext ==
    Exchange \/ Outside \/ Install \/ Return \/ Aborted \/ Withdraw \/ Forgotten

WalkupSpec == WalkupInit /\ [][WalkupNext]_walkupVars

-----------------------------------------------------------------------------
(* Properties *)

WalkupTypeOK ==
    /\ caps \in {"absent", "unlimited", "limited"}
    /\ collection \subseteq Destinations /\ used \subseteq Uris
    /\ pc \in {"idle", "limits", "destinations", "sweep"} \cup Results
    /\ occupied \subseteq Destinations /\ swept \subseteq occupied
    /\ panel \in Uris \cup {NoUri} /\ leaving \in Uris \cup {NoUri}
    /\ late \in 0..MaxLate /\ stragglers \subseteq Uris /\ orphans \subseteq Uris

\* Except for POSTs that arrived after their call, this host is on the panel
\* at most once, however often it crashed or failed half-way; once it has
\* registered, whatever it had left when it read the collection is gone; and
\* it is refused for want of room only by the entries of others.
Footprint ==
    /\ \A d, e \in Own : d.uri \notin stragglers /\ e.uri \notin stragglers => d = e
    /\ pc = "ok" => Own \cap occupied = {}
    /\ pc = "full" => Cardinality({d \in occupied : d.host # Self}) >= Capacity

\* An entry of this host can be deleted by it: its URI is held, or one of the
\* faults the sweep exists for has happened to it.
HandlesAreKept ==
    \A d \in Own : d.uri \in {panel, leaving} \cup orphans

\* Together: what this host left on the device is known and bounded.
FootprintIsKept == WalkupTypeOK /\ Footprint /\ HandlesAreKept

\* Nothing this host does removes another host's entry, not even when it
\* deletes by what it read before others wrote.
ForeignStay == [][UNCHANGED <<install, leaving>> \/ Foreign \subseteq Foreign']_walkupVars
=============================================================================
