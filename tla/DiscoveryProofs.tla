-------------------------- MODULE DiscoveryProofs --------------------------
(***************************************************************************)
(* Proofs about Sightings and about Discovery, which calls it.             *)
(*                                                                         *)
(* First the registry: whatever scanners there are and wherever they turn  *)
(* up, state.owners never names an object that is not there, and an object *)
(* that was never usurped owns its address.                                *)
(*                                                                         *)
(* Then the daemon's discovery, for any clients, backends, scanners and    *)
(* addresses: it calls the registry as Sightings says, what a probe found  *)
(* does not outlive the session, and a round reports on the scanners it    *)
(* asked about and on no others.                                           *)
(*                                                                         *)
(* The strengthening has two parts.  Control says who holds the session    *)
(* open and that nothing is called before the bus name is owned; Marks     *)
(* says what the entries owe to the session that is running.               *)
(***************************************************************************)
EXTENDS Discovery, TLAPS

\* The three invariants are inductive together: an address can be taken from
\* its owner alone because no other object has it.
RegistryInv == RegistryTypeOK /\ OwnersNameObjects /\ ObjectsOwnAddresses

USE DEF Known

-----------------------------------------------------------------------------
(* The maps *)

\* What the type invariant says of the two maps.
LEMMA MapTypes ==
    ASSUME RegistryTypeOK
    PROVE  /\ entries \in [Known -> Entry] /\ Known \subseteq Ids
           /\ addressOwner \in [DOMAIN addressOwner -> Ids]
           /\ DOMAIN addressOwner \subseteq Addresses
BY DEF RegistryTypeOK

-----------------------------------------------------------------------------
(* One lemma per method *)

\* publish keeps the invariant: it makes the address and the entry agree.
LEMMA PublishInv ==
    ASSUME RegistryInv, up' \in BOOLEAN, NEW i \in Ids, NEW a \in Addresses,
           NEW origin \in {"discovered", "persistent"}, i \notin Known,
           Publish(i, a, origin)
    PROVE  RegistryInv'
<1> DEFINE e == [address |-> a, origin |-> origin,
                 discovered |-> origin = "discovered", online |-> TRUE]
<1>1. e \in Entry
  BY DEF Entry
<1>2. entries' = Put(entries, i, e) /\ addressOwner' = Put(addressOwner, a, i)
  BY DEF Publish
<1>3. /\ entries' \in [Known \cup {i} -> Entry] /\ entries'[i] = e
      /\ \A j \in Known : entries'[j] = entries[j]
  <2>1. entries \in [Known -> Entry]
    BY MapTypes DEF RegistryInv
  <2> HIDE DEF e
  <2> QED
    BY <1>1, <1>2, <2>1 DEF Put
<1>4. /\ addressOwner' \in [DOMAIN addressOwner \cup {a} -> Ids] /\ addressOwner'[a] = i
      /\ \A x \in DOMAIN addressOwner \ {a} : addressOwner'[x] = addressOwner[x]
  <2>1. addressOwner \in [DOMAIN addressOwner -> Ids]
    BY MapTypes DEF RegistryInv
  <2> QED
    BY <1>2, <2>1 DEF Put
<1>5. Known' = Known \cup {i} /\ DOMAIN addressOwner' = DOMAIN addressOwner \cup {a}
  BY <1>3, <1>4
<1>6. RegistryTypeOK'
  BY <1>3, <1>4, <1>5 DEF RegistryInv, RegistryTypeOK, Publish, Occupied
<1>7. OwnersNameObjects'
  BY <1>3, <1>4, <1>5 DEF RegistryInv, OwnersNameObjects
<1>8. ObjectsOwnAddresses'
  <2> SUFFICES ASSUME ~taken', NEW j \in Known \cup {i}
               PROVE  /\ entries'[j].address \in DOMAIN addressOwner'
                      /\ addressOwner'[entries'[j].address] = j
    BY <1>5 DEF ObjectsOwnAddresses
  <2>1. ~taken /\ \A k \in Known \ {i} : entries[k].address # a
    BY DEF Publish, Occupied
  <2>2. CASE j = i
    BY <1>3, <1>4, <1>5, <2>2
  <2>3. CASE j # i
    <3>1. /\ entries[j].address \in DOMAIN addressOwner \ {a}
          /\ addressOwner[entries[j].address] = j
      BY <2>1, <2>3 DEF RegistryInv, ObjectsOwnAddresses
    <3> QED
      BY <1>3, <1>4, <1>5, <2>3, <3>1
  <2> QED
    BY <2>2, <2>3
<1> QED
  BY <1>6, <1>7, <1>8 DEF RegistryInv

\* update_existing keeps it: the address it clears is the one the entry leaves.
LEMMA UpdateInv ==
    ASSUME RegistryInv, up' \in BOOLEAN, NEW i \in Known, NEW a \in Addresses,
           UpdateExisting(i, a)
    PROVE  RegistryInv'
<1> DEFINE e == [entries[i] EXCEPT !.discovered = TRUE, !.address = a, !.online = TRUE]
<1>1. entries[i] \in Entry /\ i \in Ids
  BY MapTypes DEF RegistryInv
<1>2. /\ e \in Entry /\ e.address = a
  BY <1>1 DEF Entry
<1>3. entries' = [entries EXCEPT ![i] = e]
  BY MapTypes DEF RegistryInv, UpdateExisting
<1>4. /\ entries' \in [Known -> Entry] /\ entries'[i] = e /\ Known' = Known
      /\ \A j \in Known \ {i} : entries'[j] = entries[j]
  BY <1>2, <1>3, MapTypes DEF RegistryInv
<1>5. CASE entries[i].address = a
  <2>1. addressOwner' = addressOwner /\ taken' = taken
    BY <1>5 DEF UpdateExisting
  <2>2. \A j \in Known : entries'[j].address = entries[j].address
    BY <1>2, <1>4, <1>5
  <2> QED
    BY <1>4, <2>1, <2>2
    DEF RegistryInv, RegistryTypeOK, OwnersNameObjects, ObjectsOwnAddresses
<1>6. CASE entries[i].address # a
  <2> DEFINE left == Without(addressOwner, {entries[i].address})
  <2>1. addressOwner' = Put(left, a, i) /\ taken' = (taken \/ Occupied(i, a))
    BY <1>6 DEF UpdateExisting
  <2>2. /\ left \in [DOMAIN addressOwner \ {entries[i].address} -> Ids]
        /\ \A x \in DOMAIN addressOwner \ {entries[i].address} : left[x] = addressOwner[x]
    <3>1. addressOwner \in [DOMAIN addressOwner -> Ids]
      BY MapTypes DEF RegistryInv
    <3> QED
      BY <3>1 DEF Without
  <2> HIDE DEF left
  <2>3. /\ addressOwner' \in [(DOMAIN addressOwner \ {entries[i].address}) \cup {a} -> Ids]
        /\ addressOwner'[a] = i
        /\ \A x \in (DOMAIN addressOwner \ {entries[i].address}) \ {a} :
              addressOwner'[x] = addressOwner[x]
    BY <1>1, <2>1, <2>2 DEF Put
  <2>4. DOMAIN addressOwner' = (DOMAIN addressOwner \ {entries[i].address}) \cup {a}
    BY <2>3
  <2>5. RegistryTypeOK'
    BY <1>1, <1>4, <2>1, <2>3, <2>4 DEF RegistryInv, RegistryTypeOK, Occupied, Entry
  <2>6. OwnersNameObjects'
    <3> SUFFICES ASSUME NEW x \in DOMAIN addressOwner'
                 PROVE  /\ addressOwner'[x] \in Known
                        /\ entries'[addressOwner'[x]].address = x
      BY <1>4 DEF OwnersNameObjects
    <3>1. CASE x = a
      BY <1>2, <1>4, <2>3, <3>1
    <3>2. CASE x # a
      <4>1. /\ addressOwner'[x] = addressOwner[x] /\ x # entries[i].address
            /\ addressOwner[x] \in Known /\ entries[addressOwner[x]].address = x
        BY <2>3, <2>4, <3>2 DEF RegistryInv, OwnersNameObjects
      <4> QED
        BY <1>4, <4>1
    <3> QED
      BY <3>1, <3>2
  <2>7. ObjectsOwnAddresses'
    <3> SUFFICES ASSUME ~taken', NEW j \in Known
                 PROVE  /\ entries'[j].address \in DOMAIN addressOwner'
                        /\ addressOwner'[entries'[j].address] = j
      BY <1>4 DEF ObjectsOwnAddresses
    <3>1. ~taken /\ \A k \in Known \ {i} : entries[k].address # a
      BY <2>1 DEF Occupied
    <3>2. CASE j = i
      BY <1>2, <1>4, <2>3, <2>4, <3>2
    <3>3. CASE j # i
      <4>1. /\ entries[j].address \in DOMAIN addressOwner \ {a}
            /\ addressOwner[entries[j].address] = j /\ addressOwner[entries[i].address] = i
        BY <3>1, <3>3 DEF RegistryInv, ObjectsOwnAddresses
      <4> QED
        BY <1>4, <2>3, <2>4, <3>3, <4>1
    <3> QED
      BY <3>2, <3>3
  <2> QED
    BY <2>5, <2>6, <2>7 DEF RegistryInv
<1> QED
  BY <1>5, <1>6

\* Methods that change flags of entries and nothing else keep it.
LEMMA FlagsInv ==
    ASSUME RegistryInv, up' \in BOOLEAN, UNCHANGED <<addressOwner, taken>>,
           entries' \in [Known -> Entry],
           \A j \in Known : entries'[j].address = entries[j].address
    PROVE  RegistryInv'
<1>1. Known' = Known
  OBVIOUS
<1> QED
  BY <1>1 DEF RegistryInv, RegistryTypeOK, OwnersNameObjects, ObjectsOwnAddresses

\* Methods that remove objects with the addresses they have keep it: while no
\* address was taken, an address of a removed object is no other object's.
LEMMA RemoveInv ==
    ASSUME RegistryInv, up' \in BOOLEAN, UNCHANGED taken, NEW S \in SUBSET Known,
           entries' \in [Known \ S -> Entry],
           \A j \in Known \ S : entries'[j].address = entries[j].address,
           addressOwner' = Without(addressOwner, {entries[i].address : i \in S})
    PROVE  RegistryInv'
<1> DEFINE K == {entries[i].address : i \in S}
<1>1. /\ addressOwner' \in [DOMAIN addressOwner \ K -> Ids]
      /\ \A x \in DOMAIN addressOwner \ K : addressOwner'[x] = addressOwner[x]
  <2>1. addressOwner \in [DOMAIN addressOwner -> Ids]
    BY MapTypes DEF RegistryInv
  <2> HIDE DEF K
  <2>2. addressOwner' = Without(addressOwner, K)
    BY DEF K
  <2> QED
    BY <2>1, <2>2 DEF Without
<1>2. Known' = Known \ S /\ DOMAIN addressOwner' = DOMAIN addressOwner \ K
  BY <1>1
<1>3. RegistryTypeOK'
  BY <1>1, <1>2 DEF RegistryInv, RegistryTypeOK
<1>4. OwnersNameObjects'
  BY <1>1, <1>2 DEF RegistryInv, OwnersNameObjects
<1>5. ObjectsOwnAddresses'
  <2> SUFFICES ASSUME ~taken, NEW j \in Known \ S
               PROVE  /\ entries[j].address \in DOMAIN addressOwner \ K
                      /\ addressOwner[entries[j].address] = j
    BY <1>1, <1>2 DEF ObjectsOwnAddresses
  <2>1. \A i \in Known : /\ entries[i].address \in DOMAIN addressOwner
                         /\ addressOwner[entries[i].address] = i
    BY DEF RegistryInv, ObjectsOwnAddresses
  <2>2. entries[j].address \notin K
    BY <2>1
  <2> QED
    BY <2>1, <2>2
<1> QED
  BY <1>3, <1>4, <1>5 DEF RegistryInv

-----------------------------------------------------------------------------
(* Every call *)

\* An observed sighting updates, is dropped, or publishes.
LEMMA ObserveInv ==
    ASSUME RegistryInv, up' \in BOOLEAN, NEW i \in Ids, NEW a \in Addresses, Observe(i, a)
    PROVE  RegistryInv'
<1>1. CASE i \in Known /\ UpdateExisting(i, a)
  BY <1>1, UpdateInv
<1>2. CASE i \notin Known /\ Publish(i, a, "discovered")
  BY <1>2, PublishInv
<1>3. CASE UNCHANGED objects
  BY <1>3 DEF RegistryInv, RegistryTypeOK, OwnersNameObjects, ObjectsOwnAddresses, objects
<1> QED
  BY <1>1, <1>2, <1>3 DEF Observe

\* Startup publishes a stored scanner or adopts the object it has.
LEMMA RegisterInv ==
    ASSUME RegistryInv, up' \in BOOLEAN, NEW i \in Ids, NEW a \in Addresses,
           RegisterPersistent(i, a)
    PROVE  RegistryInv'
<1>1. CASE i \in Known
  <2> DEFINE e == [entries[i] EXCEPT !.origin = "persistent", !.online = TRUE]
  <2>1. e \in Entry /\ e.address = entries[i].address
    BY <1>1, MapTypes DEF RegistryInv, Entry
  <2>2. entries' = [entries EXCEPT ![i] = e] /\ UNCHANGED <<addressOwner, taken>>
    BY <1>1, MapTypes DEF RegistryInv, RegisterPersistent
  <2> QED
    BY <1>1, <2>1, <2>2, MapTypes, FlagsInv DEF RegistryInv
<1>2. CASE i \notin Known
  BY <1>2, PublishInv DEF RegisterPersistent
<1> QED
  BY <1>1, <1>2

\* promote() changes the origin of an entry.
LEMMA PromoteInv ==
    ASSUME RegistryInv, up' \in BOOLEAN, NEW i \in Ids, Promote(i)
    PROVE  RegistryInv'
<1> DEFINE e == [entries[i] EXCEPT !.origin = "persistent"]
<1>1. i \in Known /\ entries' = [entries EXCEPT ![i] = e] /\ UNCHANGED <<addressOwner, taken>>
  BY MapTypes DEF RegistryInv, Promote
<1>2. e \in Entry /\ e.address = entries[i].address
  BY <1>1, MapTypes DEF RegistryInv, Entry
<1> QED
  BY <1>1, <1>2, MapTypes, FlagsInv DEF RegistryInv

\* retire() changes the origin, or removes the object and its address.
LEMMA RetireInv ==
    ASSUME RegistryInv, up' \in BOOLEAN, NEW i \in Ids, Retire(i)
    PROVE  RegistryInv'
<1> DEFINE e == [entries[i] EXCEPT !.origin = "discovered"]
<1>1. i \in Known
  BY DEF Retire
<1>2. e \in Entry /\ e.address = entries[i].address
  BY <1>1, MapTypes DEF RegistryInv, Entry
<1>3. CASE entries[i].discovered
  <2>1. entries' = [entries EXCEPT ![i] = e] /\ UNCHANGED <<addressOwner, taken>>
    BY <1>1, <1>3, MapTypes DEF RegistryInv, Retire
  <2> QED
    BY <1>1, <1>2, <2>1, MapTypes, FlagsInv DEF RegistryInv
<1>4. CASE ~entries[i].discovered
  <2>1. /\ entries' = Without(entries, {i}) /\ taken' = taken
        /\ addressOwner' = Without(addressOwner, {entries[x].address : x \in {i}})
    <3>1. {entries[x].address : x \in {i}} = {entries[i].address}
      OBVIOUS
    <3> QED
      BY <1>4, <3>1 DEF Retire
  <2>2. /\ entries' \in [Known \ {i} -> Entry]
        /\ \A j \in Known \ {i} : entries'[j] = entries[j]
    <3>1. entries \in [Known -> Entry]
      BY MapTypes DEF RegistryInv
    <3> QED
      BY <2>1, <3>1 DEF Without
  <2> QED
    BY <1>1, <2>1, <2>2, RemoveInv
<1> QED
  BY <1>3, <1>4

\* end_discovery() removes the transient objects with their addresses.
LEMMA EndDiscoveryInv ==
    ASSUME RegistryInv, up' \in BOOLEAN, EndDiscovery
    PROVE  RegistryInv'
<1> DEFINE S == {i \in Known : entries[i].origin = "discovered"}
<1>1. /\ entries' = [i \in Known \ S |-> [entries[i] EXCEPT !.discovered = FALSE]]
      /\ addressOwner' = Without(addressOwner, {entries[i].address : i \in S})
      /\ taken' = taken
  BY DEF EndDiscovery
<1>2. \A i \in Known \ S : entries[i] \in Entry
  BY MapTypes DEF RegistryInv
<1> HIDE DEF S
<1>3. /\ entries' \in [Known \ S -> Entry]
      /\ \A i \in Known \ S : entries'[i].address = entries[i].address
  BY <1>1, <1>2 DEF Entry
<1>4. S \in SUBSET Known
  BY DEF S
<1> QED
  BY <1>1, <1>3, <1>4, RemoveInv

\* mark_unseen_offline() changes the reachability of entries.
LEMMA MarkInv ==
    ASSUME RegistryInv, up' \in BOOLEAN, NEW P, NEW F, MarkUnseenOffline(P, F)
    PROVE  RegistryInv'
<1>1. \A i \in Known : entries[i] \in Entry
  BY MapTypes DEF RegistryInv
<1>2. entries' \in [Known -> Entry]
  BY <1>1 DEF MarkUnseenOffline, Entry
<1>3. \A i \in Known : entries'[i].address = entries[i].address
  BY <1>1 DEF MarkUnseenOffline, Entry
<1> QED
  BY <1>2, <1>3, FlagsInv DEF MarkUnseenOffline

-----------------------------------------------------------------------------
(* The registry *)

\* The registry starts empty.
LEMMA RegistryInitInv == RegistryInit => RegistryInv
BY DEF RegistryInit, Empty, RegistryInv, RegistryTypeOK, OwnersNameObjects, ObjectsOwnAddresses

\* Every call keeps the invariant.
LEMMA RegistryStepInv == RegistryInv /\ [RegistryNext]_registry => RegistryInv'
<1> SUFFICES ASSUME RegistryInv, [RegistryNext]_registry PROVE RegistryInv'
  OBVIOUS
<1> USE SitesAssumption
<1>0. up \in BOOLEAN
  BY DEF RegistryInv, RegistryTypeOK
<1>1. CASE Startup /\ UNCHANGED up
  BY <1>0, <1>1, RegisterInv DEF Startup
<1>2. CASE Sighting /\ UNCHANGED up
  BY <1>0, <1>2, ObserveInv DEF Sighting
<1>3. CASE Calls /\ UNCHANGED up
  BY <1>0, <1>3, PromoteInv, RetireInv, EndDiscoveryInv, MarkInv DEF Calls
<1>4. CASE OwnName \/ UNCHANGED registry
  BY <1>4 DEF OwnName, registry, objects, RegistryInv, RegistryTypeOK, OwnersNameObjects,
              ObjectsOwnAddresses
<1> QED
  BY <1>1, <1>2, <1>3, <1>4 DEF RegistryNext

\* The invariant holds throughout.
LEMMA RegistryInductive == RegistrySpec => []RegistryInv
BY RegistryInitInv, RegistryStepInv, PTL DEF RegistrySpec

\* The registry's maps keep the type the code gives them.
THEOREM RegistryTypeCorrect == RegistrySpec => []RegistryTypeOK
<1>1. RegistryInv => RegistryTypeOK
  BY DEF RegistryInv
<1> QED
  BY <1>1, RegistryInductive, PTL

\* Indexing state.entries with an owner of state.owners never panics, even when
\* backends disagree about who is where.
THEOREM OwnersAreObjects == RegistrySpec => []OwnersNameObjects
<1>1. RegistryInv => OwnersNameObjects
  BY DEF RegistryInv
<1> QED
  BY <1>1, RegistryInductive, PTL

\* The dedup key works for as long as no scanner moved onto another's address:
\* every object owns its address, so a second sighting of the device is dropped.
THEOREM AddressesAreOwned == RegistrySpec => []ObjectsOwnAddresses
<1>1. RegistryInv => ObjectsOwnAddresses
  BY DEF RegistryInv
<1> QED
  BY <1>1, RegistryInductive, PTL

\* The registry's two maps agree in every sequence of calls.
THEOREM RegistryAgree == RegistrySpec => []RegistryAgrees
  BY OwnersAreObjects, AddressesAreOwned, PTL DEF RegistryAgrees

-----------------------------------------------------------------------------
(* The daemon's discovery *)

USE DEF vars, registry, objects, clientVars, round, session

\* Nobody calls before the name is owned, the task is asked to stop by the stop
\* path alone, and what waits to be published is what a probed backend reported.
Control ==
    /\ ~up => /\ bus = {} /\ gone = {} /\ references = {}
              /\ \A c \in Clients : calls[c] = "none"
              /\ task = "none" /\ releasing = "no"
    /\ stop => releasing = "awaiting" /\ task # "none"
    /\ SessionHasOwner
    /\ \A x \in batch : x[2] \in Sites[x[1]] /\ BackendOf[x[1]] \in probed

\* A mark that a probe left on an entry needs the session, and so does an object
\* that only a probe justified.
Justified ==
    (\E i \in Known : entries[i].discovered \/ entries[i].origin = "discovered")
        => task # "none" \/ releasing # "no"

SeenAreOnline == \A i \in Known : i \in seen => entries[i].online

Marks == Justified /\ SeenAreOnline /\ RoundSettlesStatus

IInv == RegistryInv /\ TypeOK /\ Control /\ Marks

-----------------------------------------------------------------------------
(* What the calls into the registry do to an entry *)

\* A sighting leaves the other entries alone and puts its scanner online.
LEMMA ObserveEffect ==
    ASSUME RegistryTypeOK, NEW i \in Ids, NEW a \in Addresses, Observe(i, a)
    PROVE  /\ Known \subseteq Known' /\ Known' \subseteq Known \cup {i}
           /\ \A j \in Known' : j # i => entries'[j] = entries[j]
           /\ i \in Known' => entries'[i].online
<1>1. CASE i \in Known /\ UpdateExisting(i, a)
  <2>1. entries \in [Known -> Entry] /\ entries[i] \in Entry
    BY <1>1, MapTypes
  <2>2. entries' = [entries EXCEPT ![i] = [entries[i] EXCEPT !.discovered = TRUE,
                                              !.address = a, !.online = TRUE]]
    BY <1>1, <2>1 DEF UpdateExisting
  <2> QED
    BY <1>1, <2>1, <2>2 DEF Entry
<1>2. CASE i \notin Known /\ Publish(i, a, "discovered")
  BY <1>2 DEF Publish, Put
<1>3. CASE i \notin Known /\ UNCHANGED objects
  BY <1>3
<1> QED
  BY <1>1, <1>2, <1>3 DEF Observe

\* Startup leaves no mark of a probe, and everything it registers is online.
LEMMA RegisterEffect ==
    ASSUME RegistryTypeOK, NEW i \in Ids, NEW a \in Addresses, RegisterPersistent(i, a)
    PROVE  /\ Known \subseteq Known' /\ Known' \subseteq Known \cup {i}
           /\ \A j \in Known' : j # i => entries'[j] = entries[j]
           /\ entries'[i].online /\ entries'[i].origin = "persistent"
           /\ entries'[i].discovered => i \in Known /\ entries[i].discovered
<1>1. CASE i \in Known
  <2>1. entries \in [Known -> Entry] /\ entries[i] \in Entry
    BY <1>1, MapTypes
  <2>2. entries' = [entries EXCEPT ![i] = [entries[i] EXCEPT !.origin = "persistent",
                                              !.online = TRUE]]
    BY <1>1, <2>1 DEF RegisterPersistent
  <2> QED
    BY <1>1, <2>1, <2>2 DEF Entry
<1>2. CASE i \notin Known
  <2>1. entries' = [x \in Known \cup {i} |->
                      IF x = i THEN [address |-> a, origin |-> "persistent",
                                     discovered |-> FALSE, online |-> TRUE]
                      ELSE entries[x]]
    BY <1>2 DEF RegisterPersistent, Publish, Put
  <2> QED
    BY <2>1
<1> QED
  BY <1>1, <1>2

\* promote() and retire() touch neither the reachability nor the session's mark.
LEMMA OriginEffect ==
    ASSUME RegistryTypeOK, NEW i \in Ids, Promote(i) \/ Retire(i)
    PROVE  /\ Known' \subseteq Known
           /\ \A j \in Known' : /\ entries'[j].online = entries[j].online
                                /\ entries'[j].discovered = entries[j].discovered
                                /\ entries'[j].origin = "discovered"
                                      => entries[j].origin = "discovered" \/ entries[j].discovered
<1>1. i \in Known /\ entries \in [Known -> Entry] /\ entries[i] \in Entry
  BY MapTypes DEF Promote, Retire
<1>2. CASE Promote(i)
  <2>1. entries' = [entries EXCEPT ![i] = [entries[i] EXCEPT !.origin = "persistent"]]
    BY <1>1, <1>2 DEF Promote
  <2> QED
    BY <1>1, <2>1 DEF Entry
<1>3. CASE Retire(i) /\ entries[i].discovered
  <2>1. entries' = [entries EXCEPT ![i] = [entries[i] EXCEPT !.origin = "discovered"]]
    BY <1>1, <1>3 DEF Retire
  <2> QED
    BY <1>1, <1>3, <2>1 DEF Entry
<1>4. CASE Retire(i) /\ ~entries[i].discovered
  BY <1>1, <1>4 DEF Retire, Without
<1> QED
  BY <1>2, <1>3, <1>4

\* The end of discovery leaves nothing of the session.
LEMMA EndEffect ==
    ASSUME RegistryTypeOK, EndDiscovery
    PROVE  /\ Known' \subseteq Known
           /\ \A j \in Known' : /\ entries'[j].online = entries[j].online
                                /\ ~entries'[j].discovered
                                /\ entries'[j].origin = "persistent"
<1>1. \A j \in Known : entries[j] \in Entry
  BY MapTypes
<1> QED
  BY <1>1 DEF EndDiscovery, Entry

\* The end of a round changes the reachability of what it asked about alone.
LEMMA MarkEffect ==
    ASSUME RegistryTypeOK, NEW P, NEW F, MarkUnseenOffline(P, F)
    PROVE  /\ Known' = Known
           /\ \A j \in Known : /\ entries'[j].online
                                     = (entries[j].online /\ (BackendOf[j] \in P => j \in F))
                               /\ entries'[j].discovered = entries[j].discovered
                               /\ entries'[j].origin = entries[j].origin
<1>1. \A j \in Known : entries[j] \in Entry
  BY MapTypes
<1> QED
  BY <1>1 DEF MarkUnseenOffline, Entry

-----------------------------------------------------------------------------
(* Discovery calls the registry as Sightings says *)

\* Every step is a call that Sightings allows, or none.
LEMMA RegistryStep == ASSUME TypeOK, Control, [Next]_vars PROVE [RegistryNext]_registry
<1> USE SitesAssumption, BackendAssumption DEF Control
<1>1. ASSUME NEW i \in Ids, NEW a \in Addresses, PublishFound(i, a)
      PROVE  Sighting /\ UNCHANGED up
  <2>1. <<i, a>> \in batch /\ task # "none" /\ Observe(i, a) /\ UNCHANGED up
    BY <1>1 DEF PublishFound
  <2>2. a \in Sites[i] /\ up
    BY <2>1
  <2> QED
    BY <2>1, <2>2 DEF Sighting
<1>2. ASSUME NEW i \in Ids, NEW a \in Sites[i], Restore(i, a) PROVE Startup /\ UNCHANGED up
  BY <1>2 DEF Restore, Startup
<1>3. ASSUME NEW i \in Ids, Paired(i) \/ Unpaired(i) PROVE Calls /\ UNCHANGED up
  BY <1>3 DEF Paired, Unpaired, Calls
<1>4. ASSUME StopSession \/ EndByLimit PROVE Calls /\ UNCHANGED up
  BY <1>4 DEF StopSession, EndByLimit, Calls
<1>5. ASSUME EndRound PROVE Calls /\ UNCHANGED up
  <2>1. up /\ MarkUnseenOffline(probed, seen) /\ UNCHANGED up
    BY <1>5 DEF EndRound
  <2>2. probed \in SUBSET Backends /\ seen \in SUBSET Ids
    BY DEF TypeOK
  <2> QED
    BY <2>1, <2>2 DEF Calls
<1>6. ASSUME Own PROVE OwnName
  BY <1>6 DEF Own
<1>7. ASSUME NEW c \in Clients,
             \/ Connect(c) \/ Leave(c) \/ StartRefused(c) \/ Stop(c) \/ OwnerGone(c)
             \/ \E m \in Methods : Call(c, m)
             \/ \E selected \in SUBSET Backends : Start(c, selected)
      PROVE  UNCHANGED registry
  BY <1>7 DEF Connect, Leave, StartRefused, Stop, OwnerGone, ReleaseOwner, Call, Start
<1>8. ASSUME NextRound \/ WakeToStop \/ Expire \/ \E b \in Backends : Answer(b)
      PROVE  UNCHANGED registry
  BY <1>8 DEF NextRound, WakeToStop, Expire, Answer
<1> HIDE DEF registry, Control
<1>9. UNCHANGED vars => UNCHANGED registry
  BY DEF registry
<1> QED
  BY <1>1, <1>2, <1>3, <1>4, <1>5, <1>6, <1>7, <1>8, <1>9
  DEF Next, Session, RegistryNext

-----------------------------------------------------------------------------
(* The strengthening is inductive *)

\* The session's variables keep their type.
LEMMA TypeStep ==
    ASSUME TypeOK, RegistryTypeOK', [Next]_vars
    PROVE  TypeOK'
<1> USE DEF TypeOK, Methods
<1>1. ASSUME NEW c \in Clients, Connect(c) PROVE TypeOK'
  BY <1>1 DEF Connect
<1>2. ASSUME NEW c \in Clients, Leave(c) PROVE TypeOK'
  BY <1>2 DEF Leave
<1>3. ASSUME NEW c \in Clients, NEW m \in Methods, Call(c, m) PROVE TypeOK'
  BY <1>3 DEF Call
<1>4. ASSUME NEW c \in Clients, NEW selected \in SUBSET Backends, Start(c, selected) PROVE TypeOK'
  BY <1>4 DEF Start
<1>5. ASSUME NEW c \in Clients, StartRefused(c) PROVE TypeOK'
  BY <1>5 DEF StartRefused
<1>6. ASSUME NEW c \in Clients, Stop(c) PROVE TypeOK'
  BY <1>6 DEF Stop, ReleaseOwner
<1>7. ASSUME NEW c \in Clients, OwnerGone(c) PROVE TypeOK'
  BY <1>7 DEF OwnerGone, ReleaseOwner
<1>8. ASSUME StopSession PROVE TypeOK'
  BY <1>8 DEF StopSession
<1>9. ASSUME NEW b \in Backends, Answer(b) PROVE TypeOK'
  <2>1. \A F \in Finds(b) : F \subseteq Ids \X Addresses
    BY DEF Finds
  <2> QED
    BY <1>9, <2>1 DEF Answer, Finish
<1>10. ASSUME NEW i \in Ids, NEW a \in Addresses, PublishFound(i, a) PROVE TypeOK'
  BY <1>10 DEF PublishFound
<1>11. ASSUME EndRound PROVE TypeOK'
  BY <1>11 DEF EndRound
<1>12. ASSUME NextRound PROVE TypeOK'
  BY <1>12 DEF NextRound
<1>13. ASSUME WakeToStop PROVE TypeOK'
  BY <1>13 DEF WakeToStop, Finish
<1>14. ASSUME EndByLimit PROVE TypeOK'
  BY <1>14 DEF EndByLimit, Finish
<1>15. ASSUME Expire PROVE TypeOK'
  BY <1>15 DEF Expire
<1>16. ASSUME NEW i \in Ids, NEW a \in Sites[i], Restore(i, a) PROVE TypeOK'
  BY <1>16 DEF Restore
<1>17. ASSUME Own PROVE TypeOK'
  BY <1>17 DEF Own
<1>18. ASSUME NEW i \in Ids, Paired(i) PROVE TypeOK'
  BY <1>18 DEF Paired
<1>19. ASSUME NEW i \in Ids, Unpaired(i) PROVE TypeOK'
  BY <1>19 DEF Unpaired
<1>20. CASE UNCHANGED vars
  BY <1>20 DEF vars, clientVars, round, session, registry, objects
<1> QED
  BY <1>1, <1>2, <1>3, <1>4, <1>5, <1>6, <1>7, <1>8, <1>9, <1>10, <1>11, <1>12,
     <1>13, <1>14, <1>15, <1>16, <1>17, <1>18, <1>19, <1>20 DEF Next, Session

\* Control is kept.
LEMMA ControlStep ==
    ASSUME TypeOK, Control, [Next]_vars
    PROVE  Control'
<1> USE DEF TypeOK, Control, SessionHasOwner, Methods
<1>1. ASSUME NEW c \in Clients, Connect(c) PROVE Control'
  BY <1>1 DEF Connect
<1>2. ASSUME NEW c \in Clients, Leave(c) PROVE Control'
  BY <1>2 DEF Leave
<1>3. ASSUME NEW c \in Clients, NEW m \in Methods, Call(c, m) PROVE Control'
  BY <1>3 DEF Call
<1>4. ASSUME NEW c \in Clients, NEW selected \in SUBSET Backends, Start(c, selected) PROVE Control'
  BY <1>4 DEF Start
<1>5. ASSUME NEW c \in Clients, StartRefused(c) PROVE Control'
  BY <1>5 DEF StartRefused
<1>6. ASSUME NEW c \in Clients, Stop(c) PROVE Control'
  BY <1>6 DEF Stop, ReleaseOwner
<1>7. ASSUME NEW c \in Clients, OwnerGone(c) PROVE Control'
  BY <1>7 DEF OwnerGone, ReleaseOwner
<1>8. ASSUME StopSession PROVE Control'
  BY <1>8 DEF StopSession
<1>9. ASSUME NEW b \in Backends, Answer(b) PROVE Control'
  <2>1. b \in probed /\ \A F \in Finds(b) : \A x \in F : x[2] \in Sites[x[1]] /\ BackendOf[x[1]] = b
    BY <1>9 DEF Finds, Answer
  <2> QED
    BY <1>9, <2>1 DEF Answer, Finish
<1>10. ASSUME NEW i \in Ids, NEW a \in Addresses, PublishFound(i, a) PROVE Control'
  BY <1>10 DEF PublishFound
<1>11. ASSUME EndRound PROVE Control'
  BY <1>11 DEF EndRound
<1>12. ASSUME NextRound PROVE Control'
  BY <1>12 DEF NextRound
<1>13. ASSUME WakeToStop PROVE Control'
  BY <1>13 DEF WakeToStop, Finish
<1>14. ASSUME EndByLimit PROVE Control'
  BY <1>14 DEF EndByLimit, Finish
<1>15. ASSUME Expire PROVE Control'
  BY <1>15 DEF Expire
<1>16. ASSUME NEW i \in Ids, NEW a \in Sites[i], Restore(i, a) PROVE Control'
  BY <1>16 DEF Restore
<1>17. ASSUME Own PROVE Control'
  BY <1>17 DEF Own, OwnName
<1>18. ASSUME NEW i \in Ids, Paired(i) PROVE Control'
  BY <1>18 DEF Paired
<1>19. ASSUME NEW i \in Ids, Unpaired(i) PROVE Control'
  BY <1>19 DEF Unpaired
<1>20. CASE UNCHANGED vars
  BY <1>20 DEF vars, clientVars, round, session, registry, objects
<1> QED
  BY <1>1, <1>2, <1>3, <1>4, <1>5, <1>6, <1>7, <1>8, <1>9, <1>10, <1>11, <1>12,
     <1>13, <1>14, <1>15, <1>16, <1>17, <1>18, <1>19, <1>20 DEF Next, Session

\* Marks is kept: each call into the registry owes its effect to the session.
LEMMA MarksStep ==
    ASSUME RegistryTypeOK, TypeOK, Control, Marks, [Next]_vars
    PROVE  Marks'
<1> USE DEF Marks, Justified, SeenAreOnline, RoundSettlesStatus
<1>1. ASSUME NEW c \in Clients, Connect(c) PROVE Marks'
  BY <1>1 DEF Connect
<1>2. ASSUME NEW c \in Clients, Leave(c) PROVE Marks'
  BY <1>2 DEF Leave
<1>3. ASSUME NEW c \in Clients, NEW m \in Methods, Call(c, m) PROVE Marks'
  BY <1>3 DEF Call
<1>4. ASSUME NEW c \in Clients, NEW selected \in SUBSET Backends, Start(c, selected) PROVE Marks'
  BY <1>4 DEF Start, Control, SessionHasOwner
<1>5. ASSUME NEW c \in Clients, StartRefused(c) PROVE Marks'
  BY <1>5 DEF StartRefused
<1>6. ASSUME NEW c \in Clients, Stop(c) PROVE Marks'
  BY <1>6 DEF Stop, ReleaseOwner
<1>7. ASSUME NEW c \in Clients, OwnerGone(c) PROVE Marks'
  BY <1>7 DEF OwnerGone, ReleaseOwner
<1>8. ASSUME StopSession PROVE Marks'
  <2>1. RegistryTypeOK /\ EndDiscovery
    BY <1>8 DEF StopSession
  <2> QED
    BY <1>8, <2>1, EndEffect DEF StopSession
<1>9. ASSUME NEW b \in Backends, Answer(b) PROVE Marks'
  BY <1>9 DEF Answer, Finish, Control
<1>10. ASSUME NEW i \in Ids, NEW a \in Addresses, PublishFound(i, a) PROVE Marks'
  BY <1>10, ObserveEffect DEF PublishFound
<1>11. ASSUME EndRound PROVE Marks'
  BY <1>11, MarkEffect DEF EndRound
<1>12. ASSUME NextRound PROVE Marks'
  BY <1>12 DEF NextRound
<1>13. ASSUME WakeToStop PROVE Marks'
  BY <1>13 DEF WakeToStop, Finish, Control
<1>14. ASSUME EndByLimit PROVE Marks'
  BY <1>14, EndEffect DEF EndByLimit, Finish
<1>15. ASSUME Expire PROVE Marks'
  BY <1>15 DEF Expire
<1>16. ASSUME NEW i \in Ids, NEW a \in Sites[i], Restore(i, a) PROVE Marks'
  BY <1>16, SitesAssumption, RegisterEffect DEF Restore, Control, TypeOK
<1>17. ASSUME Own PROVE Marks'
  BY <1>17 DEF Own, OwnName
<1>18. ASSUME NEW i \in Ids, Paired(i) PROVE Marks'
  BY <1>18, OriginEffect DEF Paired
<1>19. ASSUME NEW i \in Ids, Unpaired(i) PROVE Marks'
  BY <1>19, OriginEffect DEF Unpaired
<1>20. CASE UNCHANGED vars
  BY <1>20 DEF vars, clientVars, round, session, registry, objects
<1> QED
  BY <1>1, <1>2, <1>3, <1>4, <1>5, <1>6, <1>7, <1>8, <1>9, <1>10, <1>11, <1>12,
     <1>13, <1>14, <1>15, <1>16, <1>17, <1>18, <1>19, <1>20 DEF Next, Session

\* The strengthening holds initially.
LEMMA InitInv == Init => IInv
<1> SUFFICES ASSUME Init PROVE IInv
  OBVIOUS
<1>1. RegistryInv
  BY RegistryInitInv DEF Init
<1>2. TypeOK
  BY <1>1 DEF Init, TypeOK, RegistryInv, Methods
<1>3. Control
  BY DEF Init, RegistryInit, Control, SessionHasOwner
<1>4. Marks
  BY DEF Init, RegistryInit, Empty, Marks, Justified, SeenAreOnline, RoundSettlesStatus
<1> QED
  BY <1>1, <1>2, <1>3, <1>4 DEF IInv

\* Every step keeps it.
LEMMA StepInv == IInv /\ [Next]_vars => IInv'
<1> SUFFICES ASSUME IInv, [Next]_vars PROVE IInv'
  OBVIOUS
<1> USE DEF IInv
<1>1. RegistryInv'
  BY RegistryStep, RegistryStepInv
<1>2. TypeOK'
  BY <1>1, TypeStep DEF RegistryInv
<1>3. Control'
  BY ControlStep
<1>4. Marks'
  BY MarksStep DEF RegistryInv
<1> QED
  BY <1>1, <1>2, <1>3, <1>4

\* It holds throughout.
LEMMA Inductive == Spec => []IInv
BY InitInv, StepInv, PTL DEF Spec

-----------------------------------------------------------------------------
(* The filter of StartDiscovery *)

Spared ==
    \A i \in Known \cap DOMAIN entries' :
        task # "none" /\ BackendOf[i] \notin probed => entries'[i].online = entries[i].online

\* No step changes the status of a scanner whose backend is not being probed.
LEMMA SparedStep == ASSUME RegistryTypeOK, Control, [Next]_vars PROVE Spared
<1> USE DEF Spared
<1>1. ASSUME NEW i \in Ids, NEW a \in Addresses, PublishFound(i, a) PROVE Spared
  <2>1. BackendOf[i] \in probed /\ Observe(i, a)
    BY <1>1 DEF PublishFound, Control
  <2> QED
    BY <2>1, ObserveEffect
<1>2. ASSUME NEW i \in Ids, NEW a \in Sites[i], Restore(i, a) PROVE Spared
  BY <1>2 DEF Restore, Control
<1>3. ASSUME NEW i \in Ids, Paired(i) \/ Unpaired(i) PROVE Spared
  BY <1>3, OriginEffect DEF Paired, Unpaired
<1>4. ASSUME StopSession \/ EndByLimit PROVE Spared
  BY <1>4, EndEffect DEF StopSession, EndByLimit
<1>5. ASSUME EndRound PROVE Spared
  <2>1. Known' = Known /\ \A j \in Known : BackendOf[j] \notin probed =>
            entries'[j].online = (entries[j].online /\ TRUE)
    BY <1>5, MarkEffect DEF EndRound
  <2>2. \A j \in Known : entries[j].online \in BOOLEAN
    BY MapTypes DEF Entry
  <2> QED
    BY <2>1, <2>2
<1>6. ASSUME Own \/ NextRound \/ WakeToStop \/ Expire \/ \E b \in Backends : Answer(b)
      PROVE  Spared
  BY <1>6 DEF Own, OwnName, NextRound, WakeToStop, Expire, Answer
<1>7. ASSUME NEW c \in Clients,
             \/ Connect(c) \/ Leave(c) \/ StartRefused(c) \/ Stop(c) \/ OwnerGone(c)
             \/ \E m \in Methods : Call(c, m)
             \/ \E selected \in SUBSET Backends : Start(c, selected)
      PROVE  Spared
  BY <1>7 DEF Connect, Leave, StartRefused, Stop, OwnerGone, ReleaseOwner, Call, Start
<1>8. CASE UNCHANGED vars
  BY <1>8
<1> HIDE DEF Spared
<1> QED
  BY <1>1, <1>2, <1>3, <1>4, <1>5, <1>6, <1>7, <1>8 DEF Next, Session

-----------------------------------------------------------------------------
(* The theorems *)

\* Every variable keeps a value the code could store in it.
THEOREM TypeCorrect == Spec => []TypeOK
<1>1. IInv => TypeOK
  BY DEF IInv
<1> QED
  BY <1>1, Inductive, PTL

\* Sessions, clients, pairings and startup call the registry in one of the
\* orders that Sightings allows: what it guarantees holds in the daemon.
THEOREM ImplementsRegistry == Spec => RegistrySpec
<1>1. Init => RegistryInit
  BY DEF Init
<1>2. IInv /\ [Next]_vars => [RegistryNext]_registry
  BY RegistryStep DEF IInv
<1> QED
  BY <1>1, <1>2, Inductive, PTL DEF Spec, RegistrySpec

\* However a session ends (the last StopDiscovery, the last client leaving the
\* bus, the limit), what only a probe justified goes with it.
THEOREM ProbedObjectsGo == Spec => []DiscoveredNeedsSession
<1>1. IInv => DiscoveredNeedsSession
  BY DEF IInv, Marks, Justified, DiscoveredNeedsSession
<1> QED
  BY <1>1, Inductive, PTL

\* A running session has an owner until the last one's release stops it.
THEOREM SessionIsOwned == Spec => []SessionHasOwner
<1>1. IInv => SessionHasOwner
  BY DEF IInv, Control
<1> QED
  BY <1>1, Inductive, PTL

\* When a round ends, Status says what it found, whatever was paired, unpaired
\* or restored meanwhile.
THEOREM RoundsSettle == Spec => []RoundSettlesStatus
<1>1. IInv => RoundSettlesStatus
  BY DEF IInv, Marks
<1> QED
  BY <1>1, Inductive, PTL

\* A session with a filter leaves the status of everybody else's scanners alone.
THEOREM FilterIsKept == Spec => FilterSparesOthers
<1>1. IInv /\ [Next]_vars => [Spared]_vars
  BY SparedStep DEF IInv, RegistryInv
<1> QED
  BY <1>1, Inductive, PTL DEF Spec, FilterSparesOthers, Spared

\* What the bus shows is justified by a session that somebody owns.
THEOREM SessionAgree == Spec => []SessionAgrees
  BY ProbedObjectsGo, SessionIsOwned, RoundsSettle, PTL DEF SessionAgrees

\* And the registry's maps agree in the daemon, takeovers of addresses included.
THEOREM DaemonRegistryAgree == Spec => []RegistryAgrees
  BY ImplementsRegistry, RegistryAgree, PTL
=============================================================================
