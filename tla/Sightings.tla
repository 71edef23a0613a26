------------------------------ MODULE Sightings ------------------------------
(***************************************************************************)
(* The part of ScannerRegistry (scanbus-daemon/src/scanners.rs) that spans *)
(* scanners: which objects exist and why, and which object owns a physical *)
(* address, the key two backends agree on when they found the same device. *)
(*                                                                         *)
(* Operators, one per registry method, each run under the registry's lock. *)
(* An address stands for physical_address() of what a backend reports; the *)
(* rest of ScannerInfo is left out but for its reachability.               *)
(***************************************************************************)
EXTENDS Naturals

CONSTANTS
    Ids,        \* ScannerId
    Addresses,  \* what physical_address() returns
    Backends,
    BackendOf,  \* Entry.backend_id of a scanner
    Sites       \* the addresses a scanner can be found at

ASSUME BackendAssumption == BackendOf \in [Ids -> Backends]
ASSUME SitesAssumption == Sites \in [Ids -> SUBSET Addresses]

VARIABLES
    entries,      \* state.entries: a record for each scanner with an object
    addressOwner, \* state.owners: the scanner an address belongs to
    taken,        \* history: an address was given to a scanner while another
                  \* object had it
    up            \* the restore is over and the bus name owned

objects == <<entries, addressOwner, taken>>
registry == <<objects, up>>

Known == DOMAIN entries
Entry == [address : Addresses, origin : {"discovered", "persistent"},
          discovered : BOOLEAN, online : BOOLEAN]

-----------------------------------------------------------------------------
(* BTreeMap::insert and remove *)

Put(f, k, v) == [x \in DOMAIN f \cup {k} |-> IF x = k THEN v ELSE f[x]]
Without(f, S) == [x \in DOMAIN f \ S |-> f[x]]

Empty == [x \in {} |-> x]

Occupied(i, a) == \E j \in Known \ {i} : entries[j].address = a

-----------------------------------------------------------------------------
(* Registry methods *)

RegistryInit ==
    /\ entries = Empty
    /\ addressOwner = Empty
    /\ taken = FALSE
    /\ up = FALSE

\* publish: the address goes to the new object, whoever had it.
Publish(i, a, origin) ==
    /\ entries' = Put(entries, i, [address |-> a, origin |-> origin,
                                   discovered |-> origin = "discovered", online |-> TRUE])
    /\ addressOwner' = Put(addressOwner, a, i)
    /\ taken' = (taken \/ Occupied(i, a))

\* Mutant: the address the scanner left stays in the map.
UpdateKeepingAddress(i, a) ==
    /\ entries' = [entries EXCEPT ![i].discovered = TRUE, ![i].address = a,
                                  ![i].online = TRUE]
    /\ addressOwner' = Put(addressOwner, a, i)
    /\ taken' = (taken \/ Occupied(i, a))

\* Mutant: a sighting that differs in nothing leaves the status alone, too.
UpdateQuietly(i, a) ==
    IF entries[i].address = a
      THEN /\ entries' = [entries EXCEPT ![i].discovered = TRUE]
           /\ UNCHANGED <<addressOwner, taken>>
      ELSE /\ entries' = [entries EXCEPT ![i].discovered = TRUE, ![i].address = a,
                                        ![i].online = TRUE]
           /\ addressOwner' = Put(Without(addressOwner, {entries[i].address}), a, i)
           /\ taken' = (taken \/ Occupied(i, a))

\* update_existing: a sighting that differs in nothing only marks the entry; one
\* at another address moves the entry there, and takes the address over.
UpdateExisting(i, a) ==
    /\ entries' = [entries EXCEPT ![i].discovered = TRUE, ![i].address = a,
                                  ![i].online = TRUE]
    /\ IF entries[i].address = a THEN UNCHANGED <<addressOwner, taken>>
       ELSE /\ addressOwner' = Put(Without(addressOwner, {entries[i].address}), a, i)
            /\ taken' = (taken \/ Occupied(i, a))

\* Mutant: the id alone decides whether a sighting is new.
ObserveById(i, a) ==
    IF i \in Known THEN UpdateExisting(i, a)
    ELSE /\ entries' = Put(entries, i, [address |-> a, origin |-> "discovered",
                                        discovered |-> TRUE, online |-> TRUE])
         /\ addressOwner' = Put(addressOwner, a, i)
         /\ UNCHANGED taken

\* observe: known by id, known by address, or new.  An export the object server
\* refuses records nothing.
Observe(i, a) ==
    IF i \in Known THEN UpdateExisting(i, a)
    ELSE IF a \in DOMAIN addressOwner THEN UNCHANGED objects
    ELSE Publish(i, a, "discovered") \/ UNCHANGED objects

\* register_persistent, at startup, for a scanner of the pairing store.
RegisterPersistent(i, a) ==
    IF i \in Known
      THEN /\ entries' = [entries EXCEPT ![i].origin = "persistent", ![i].online = TRUE]
           /\ UNCHANGED <<addressOwner, taken>>
      ELSE Publish(i, a, "persistent")

\* promote, after a pairing reached Done.
Promote(i) ==
    /\ i \in Known
    /\ entries' = [entries EXCEPT ![i].origin = "persistent"]
    /\ UNCHANGED <<addressOwner, taken>>

\* retire, after an Unpair(): the object stays for the session that has seen it.
Retire(i) ==
    /\ i \in Known /\ entries[i].origin = "persistent"
    /\ IF entries[i].discovered
         THEN /\ entries' = [entries EXCEPT ![i].origin = "discovered"]
              /\ UNCHANGED <<addressOwner, taken>>
         ELSE /\ entries' = Without(entries, {i})
              /\ addressOwner' = Without(addressOwner, {entries[i].address})
              /\ UNCHANGED taken

\* end_discovery: what only a probe justified goes, the rest is unseen again.
EndDiscovery ==
    LET transient == {i \in Known : entries[i].origin = "discovered"} IN
      /\ entries' = [i \in Known \ transient |-> [entries[i] EXCEPT !.discovered = FALSE]]
      /\ addressOwner' = Without(addressOwner, {entries[i].address : i \in transient})
      /\ UNCHANGED taken

\* Mutant: every scanner counts as one the round asked about.
MarkAllUnseenOffline(probed, found) ==
    /\ entries' = [i \in Known |-> [entries[i] EXCEPT !.online = @ /\ i \in found]]
    /\ UNCHANGED <<addressOwner, taken>>

\* mark_unseen_offline, for the scanners of the backends the round asked.
MarkUnseenOffline(probed, found) ==
    /\ entries' = [i \in Known |->
                     [entries[i] EXCEPT !.online = @ /\ (BackendOf[i] \in probed => i \in found)]]
    /\ UNCHANGED <<addressOwner, taken>>

-----------------------------------------------------------------------------
(* Any sequence of calls *)

\* Nobody can pair or start discovery before the daemon owns its name.
Startup == ~up /\ \E i \in Ids : \E a \in Sites[i] : RegisterPersistent(i, a)

Sighting == up /\ \E i \in Ids : \E a \in Sites[i] : Observe(i, a)

Calls ==
    /\ up
    /\ \/ \E i \in Ids : Promote(i) \/ Retire(i)
       \/ EndDiscovery
       \/ \E probed \in SUBSET Backends, found \in SUBSET Ids :
             MarkUnseenOffline(probed, found)

OwnName == ~up /\ up' = TRUE /\ UNCHANGED objects

RegistryNext == ((Startup \/ Sighting \/ Calls) /\ UNCHANGED up) \/ OwnName

RegistrySpec == RegistryInit /\ [][RegistryNext]_registry

-----------------------------------------------------------------------------
(* Properties *)

\* The two maps hold what the code could store in them.
RegistryTypeOK ==
    /\ Known \subseteq Ids /\ entries \in [Known -> Entry]
    /\ DOMAIN addressOwner \subseteq Addresses
    /\ addressOwner \in [DOMAIN addressOwner -> Ids]
    /\ taken \in BOOLEAN /\ up \in BOOLEAN

\* An address is owned by an object that exists and has it: observe() indexes
\* state.entries with what state.owners says, and would panic otherwise.
OwnersNameObjects ==
    \A a \in DOMAIN addressOwner :
        /\ addressOwner[a] \in Known
        /\ entries[addressOwner[a]].address = a

\* As long as no scanner has moved onto another one's address, every object owns
\* its address and no two objects are one device.
ObjectsOwnAddresses ==
    ~taken => \A i \in Known : /\ entries[i].address \in DOMAIN addressOwner
                               /\ addressOwner[entries[i].address] = i

\* Together: the two maps describe one set of devices.
RegistryAgrees == OwnersNameObjects /\ ObjectsOwnAddresses
============================================================================
