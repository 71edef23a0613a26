--------------------------- MODULE MobilePairing ----------------------------
(***************************************************************************)
(* Pairing a phone (scanbus-backend-mobile/src/lib.rs, MobileBackend): the *)
(* handshake inside ensure_installed, the token it leaves in memory and in *)
(* devices.json, forget, and what a start finds.  Two stores hold a        *)
(* pairing, this backend's and the daemon's, and the phone holds a third   *)
(* half of it: the steps of the pairing driver, of Unpair() and of the     *)
(* restore that touch the other two are taken with their backend calls.    *)
(*                                                                         *)
(* Every write of devices.json reads the file again first, and may fail    *)
(* before or after its rename.                                             *)
(***************************************************************************)
EXTENDS Naturals, FiniteSets

CONSTANTS
    Phones,
    NoDevice,   \* no entry in a table
    MaxTokens,  \* tokens the phones issue; bounds the pairings
    MaxStarts,  \* starts of the daemon; each could draw one host_id and port
    RequireTls  \* SCANBUS_MOBILE_REQUIRE_TLS

\* What the backend keeps of a phone, what a response says, and what the phone
\* keeps of this host.
Devices == [token : 1..MaxTokens, tls : BOOLEAN]
Answers == [from : Phones \cup {NoDevice}, token : 1..MaxTokens]
Memories == [token : 1..MaxTokens, tls : BOOLEAN, host : 0..MaxStarts, port : 0..MaxStarts]

\* What devices.json may hold.
Files == [readable : BOOLEAN, host : 0..MaxStarts, port : 0..MaxStarts,
          devices : [Phones -> Devices \cup {NoDevice}]]

ASSUME MobileAssumption ==
    /\ MaxTokens \in Nat /\ MaxStarts \in Nat \ {0} /\ RequireTls \in BOOLEAN
    /\ NoDevice \notin Devices \cup Answers \cup Memories

VARIABLES
    life,       \* "down", "loaded" (the backend exists) or "up" (the name is owned)
    starts,
    ready,      \* the upload port is bound and the TLS identity usable
    hostId, port,
    paired,     \* the backend's table of tokens
    file,       \* devices.json
    record,     \* the discovery records still within their TTL
    driver,     \* where the pairing of a phone is
    over,       \* whether it runs over TLS
    asked,      \* the phone has been sent a pair_request nobody has withdrawn
    answer,     \* the pair_response on the socket: whose, and its token
    unpair,     \* where Unpair() of a phone is
    done,       \* the daemon reads it as paired
    saved,      \* and pairings.json says so
    phone,      \* what the phone remembers of this host
    issued,     \* tokens so far
    tried,      \* history: a pairing reached the table since the last start or Unpair()
    torn,       \* history: a write failed, and the records of it may differ
    spoilt,     \* history: devices.json was once unreadable
    unwritten   \* history: a start could not write down what it drew

host == <<life, starts, ready, hostId, port>>
tables == <<paired, file>>
pairing == <<driver, over, asked, answer>>
core == <<unpair, done, saved>>
world == <<record, phone, issued>>
past == <<tried, torn, spoilt, unwritten>>
phoneVars == <<host, tables, pairing, core, world, past>>

NoTable == [p \in Phones |-> NoDevice]
EmptyFile == [readable |-> TRUE, host |-> 0, port |-> 0, devices |-> NoTable]

-----------------------------------------------------------------------------
(* devices.json *)

\* load_or_reset_store: what cannot be read is renamed aside.
Loaded == IF file.readable THEN file ELSE EmptyFile

\* persist_paired_locked: the table and the port of this process over whatever
\* the file holds; host_id is not among them.
Written(table) == [Loaded EXCEPT !.port = port, !.devices = table]

Persisted(table) == file' = Written(table)
PersistFails(table) == file' \in {file, Loaded, Written(table)}

PhoneInit ==
    /\ life = "down" /\ starts = 0 /\ ready = FALSE /\ hostId = 0 /\ port = 0
    /\ paired = NoTable /\ file = EmptyFile
    /\ record = [p \in Phones |-> "none"]
    /\ driver = [p \in Phones |-> "none"] /\ over = [p \in Phones |-> FALSE]
    /\ asked = {} /\ answer = NoTable
    /\ unpair = [p \in Phones |-> "none"] /\ done = {} /\ saved = {}
    /\ phone = [p \in Phones |-> NoDevice] /\ issued = 0
    /\ tried = {} /\ torn = {} /\ spoilt = FALSE /\ unwritten = FALSE

-----------------------------------------------------------------------------
(* A start and a crash *)

\* Mutant: host_id is drawn at every start.
AnotherHost == starts + 1

\* An absent host_id is drawn, a present one reused.
HostOf == IF Loaded.host = 0 THEN starts + 1 ELSE Loaded.host

\* with_store_path.  A configured or remembered port that cannot be bound is
\* kept and the listener stays unbound: nothing picks another one.
Construct(bound, identity) ==
    /\ life = "down" /\ starts < MaxStarts
    /\ life' = "loaded" /\ starts' = starts + 1
    /\ ready' = (bound /\ identity)
    /\ hostId' = HostOf
    /\ port' = IF Loaded.port = 0 THEN (IF bound THEN starts + 1 ELSE 0) ELSE Loaded.port
    /\ paired' = Loaded.devices
    /\ LET new == [Loaded EXCEPT !.host = hostId', !.port = port']
       IN  file' \in IF new = Loaded THEN {file, Loaded} ELSE {file, Loaded, new}
    /\ unwritten' = (unwritten \/ file'.host # hostId')
    /\ tried' = {}
    /\ UNCHANGED <<pairing, core, world, torn, spoilt>>

\* prune_unrestored_pairings.
PrunedTable == [p \in Phones |-> IF p \in saved THEN paired[p] ELSE NoDevice]

\* The registry's restore, before the name is owned: restore_disposition is
\* Paired when there is a token, then what nobody restored is pruned.
Restore ==
    /\ life = "loaded" /\ life' = "up"
    /\ done' = {p \in saved : paired[p] # NoDevice}
    /\ paired' = PrunedTable
    /\ IF paired' = paired THEN UNCHANGED file
       ELSE Persisted(paired') \/ PersistFails(paired')
    /\ UNCHANGED <<starts, ready, hostId, port, pairing, unpair, saved, world, past>>

Crash ==
    /\ life # "down" /\ life' = "down"
    /\ paired' = NoTable /\ record' = [p \in Phones |-> "none"]
    /\ driver' = [p \in Phones |-> "none"] /\ over' = [p \in Phones |-> FALSE]
    /\ asked' = {} /\ answer' = NoTable
    /\ torn' = torn \cup {p \in Phones : unpair[p] # "none" \/ driver[p] = "save"}
    /\ unpair' = [p \in Phones |-> "none"] /\ done' = {}
    /\ saved' \in {saved \cup {p \in S : driver[p] = "save"} : S \in SUBSET Phones}
    /\ UNCHANGED <<starts, ready, hostId, port, file, phone, issued, tried, spoilt,
                   unwritten>>

\* Something else damages the file, once.
Spoil ==
    /\ ~spoilt /\ spoilt' = TRUE
    /\ file' = [EmptyFile EXCEPT !.readable = FALSE]
    /\ UNCHANGED <<host, paired, pairing, core, world, tried, torn, unwritten>>

-----------------------------------------------------------------------------
(* Discovery *)

\* remember: a record of this round, with or without a tlsport.
Seen(p, kind) ==
    /\ life = "up"
    /\ record' = [record EXCEPT ![p] = kind]
    /\ UNCHANGED <<host, tables, pairing, core, phone, issued, past>>

\* DISCOVERY_RECORD_TTL: live_record no longer returns it.
Aged(p) ==
    /\ record[p] # "none"
    /\ record' = [record EXCEPT ![p] = "none"]
    /\ UNCHANGED <<host, tables, pairing, core, phone, issued, past>>

-----------------------------------------------------------------------------
(* ensure_installed *)

\* The refusals before the dial are the guards: a host that is not ready, no
\* live record, a record without a tlsport where TLS is required.
Pair(p) ==
    /\ life = "up" /\ ready /\ driver[p] = "none" /\ p \notin done
    /\ record[p] = "tls" \/ (record[p] = "clear" /\ ~RequireTls)
    /\ driver' = [driver EXCEPT ![p] = "dial"]
    /\ over' = [over EXCEPT ![p] = (record[p] = "tls")]
    /\ UNCHANGED <<host, tables, asked, answer, core, world, past>>

\* Connected, in the TLS arm through the handshake as well, and the request
\* written: only now the code is announced.
Requested(p) ==
    /\ driver[p] = "dial"
    /\ driver' = [driver EXCEPT ![p] = "confirm"]
    /\ asked' = asked \cup {p}
    /\ UNCHANGED <<host, tables, over, answer, core, world, past>>

\* The person at phone p agrees: it issues a token and remembers the host.
Accepts(p) ==
    /\ p \in asked /\ answer[p] = NoDevice /\ issued < MaxTokens
    /\ issued' = issued + 1
    /\ answer' = [answer EXCEPT ![p] = [from |-> p, token |-> issued + 1]]
    /\ phone' = [phone EXCEPT ![p] = [token |-> issued + 1, tls |-> over[p],
                                      host |-> hostId, port |-> port]]
    /\ UNCHANGED <<host, tables, driver, over, asked, core, record, past>>

\* What answers is not what advertised, or issues no token.
AnswersAs(p, q) ==
    /\ p \in asked /\ answer[p] = NoDevice /\ issued < MaxTokens
    /\ issued' = issued + 1
    /\ answer' = [answer EXCEPT ![p] = [from |-> q, token |-> issued + 1]]
    /\ UNCHANGED <<host, tables, driver, over, asked, core, record, phone, past>>

HungUpOn(p) ==
    /\ driver' = [driver EXCEPT ![p] = "none"] /\ over' = [over EXCEPT ![p] = FALSE]
    /\ asked' = asked \ {p} /\ answer' = [answer EXCEPT ![p] = NoDevice]

\* Mutant: whoever answers is the phone.
AnyAnswer(p) == answer[p] # NoDevice

\* device_id of the response is the one of the record.
Genuine(p) == answer[p] # NoDevice /\ answer[p].from = p

\* store_paired_device: between the frame and the table nothing is awaited.
Stored(p) ==
    /\ driver[p] = "confirm" /\ Genuine(p)
    /\ paired' = [paired EXCEPT ![p] = [token |-> answer[p].token, tls |-> over[p]]]
    /\ Persisted(paired')
    /\ driver' = [driver EXCEPT ![p] = "save"]
    /\ asked' = asked \ {p} /\ answer' = [answer EXCEPT ![p] = NoDevice]
    /\ tried' = tried \cup {p}
    /\ UNCHANGED <<host, over, core, world, torn, spoilt, unwritten>>

\* A failed write takes the entry out again, the one it replaced as well.
StoreFails(p) ==
    /\ driver[p] = "confirm" /\ Genuine(p)
    /\ paired' = [paired EXCEPT ![p] = NoDevice]
    /\ PersistFails([paired EXCEPT ![p] = [token |-> answer[p].token, tls |-> over[p]]])
    /\ HungUpOn(p)
    /\ torn' = torn \cup {p}
    /\ UNCHANGED <<host, core, world, tried, spoilt, unwritten>>

\* Mutant: the phone has as long as it likes.
HungUp(p) == driver[p] = "dial" \/ answer[p] # NoDevice

\* No connection or no handshake in time, a request that cannot be sent, no
\* confirmation in PAIR_CONFIRM_TIMEOUT, a refusal, an answer of another
\* device: the socket is dropped, also when an answer was about to be read.
GivenUp(p) == driver[p] \in {"dial", "confirm"}

Refused(p) ==
    /\ driver[p] \in {"dial", "confirm"} /\ GivenUp(p)
    /\ HungUpOn(p)
    /\ UNCHANGED <<host, tables, core, world, past>>

\* The rest of the pairing driver: start_listening, save_paired, Done.
Saved(p) ==
    /\ driver[p] = "save"
    /\ saved' = saved \cup {p} /\ done' = done \cup {p}
    /\ torn' = torn \ {p}
    /\ HungUpOn(p)
    /\ UNCHANGED <<host, tables, unpair, world, tried, spoilt, unwritten>>

\* save_paired fails, or CancelPairing() aborts the driver while it runs.
NotSaved(p) ==
    /\ driver[p] = "save"
    /\ saved' \in {saved, saved \cup {p}}
    /\ torn' = torn \cup {p}
    /\ HungUpOn(p)
    /\ UNCHANGED <<host, tables, unpair, done, world, tried, spoilt, unwritten>>

\* CancelPairing() during the handshake: the abort closes the socket.
CancelPairing(p) ==
    /\ driver[p] \in {"dial", "confirm"}
    /\ HungUpOn(p)
    /\ UNCHANGED <<host, tables, core, world, past>>

-----------------------------------------------------------------------------
(* Unpair() *)

Unpair(p) ==
    /\ life = "up" /\ p \in done /\ unpair[p] = "none"
    /\ unpair' = [unpair EXCEPT ![p] = "forget"]
    /\ UNCHANGED <<host, tables, pairing, done, saved, world, past>>

\* Mutant: a token that cannot be taken off the disk stays in memory.
KeptOnFailure(p) == paired

\* The entry goes first, and does not come back when the file keeps it.
WithoutEntry(p) == [paired EXCEPT ![p] = NoDevice]

\* forget.  A token that is not there needs no write.
Forget(p) ==
    /\ unpair[p] = "forget"
    /\ unpair' = [unpair EXCEPT ![p] = "store"]
    /\ \/ /\ paired' = [paired EXCEPT ![p] = NoDevice]
          /\ IF paired[p] = NoDevice THEN UNCHANGED file ELSE Persisted(paired')
       \/ /\ paired[p] # NoDevice
          /\ paired' = WithoutEntry(p)
          /\ PersistFails([paired EXCEPT ![p] = NoDevice])
    /\ UNCHANGED <<host, pairing, done, saved, world, past>>

\* The daemon's own entry, whatever the backend answered.
Forgotten(p) ==
    /\ unpair[p] = "store"
    /\ unpair' = [unpair EXCEPT ![p] = "none"]
    /\ saved' = saved \ {p} /\ done' = done \ {p}
    /\ tried' = tried \ {p}
    /\ UNCHANGED <<host, tables, pairing, world, torn, spoilt, unwritten>>

\* The scanner stays paired, its token is gone.
NotForgotten(p) ==
    /\ unpair[p] = "store"
    /\ unpair' = [unpair EXCEPT ![p] = "none"]
    /\ saved' \in {saved, saved \ {p}}
    /\ torn' = torn \cup {p}
    /\ UNCHANGED <<host, tables, pairing, done, world, tried, spoilt, unwritten>>

-----------------------------------------------------------------------------

\* One step of ensure_installed or of the driver that called it.
Driver(p) ==
    \/ Requested(p) \/ Stored(p) \/ StoreFails(p)
    \/ Refused(p) \/ Saved(p) \/ NotSaved(p)

PhoneNext ==
    \/ \E bound, identity \in BOOLEAN : Construct(bound, identity)
    \/ Restore \/ Crash \/ Spoil
    \/ \E p \in Phones :
        \/ Seen(p, "tls") \/ Seen(p, "clear") \/ Aged(p)
        \/ Pair(p) \/ CancelPairing(p) \/ Driver(p)
        \/ Accepts(p) \/ \E q \in Phones \cup {NoDevice} : q # p /\ AnswersAs(p, q)
        \/ Unpair(p) \/ Forget(p) \/ Forgotten(p) \/ NotForgotten(p)

PhoneSpec == PhoneInit /\ [][PhoneNext]_phoneVars

\* The driver's task is polled, and each of its waits has a timeout.
FairPhone == PhoneSpec /\ \A p \in Phones : WF_phoneVars(Driver(p))

-----------------------------------------------------------------------------
(* Properties *)

PhoneTypeOK ==
    /\ life \in {"down", "loaded", "up"} /\ starts \in 0..MaxStarts /\ ready \in BOOLEAN
    /\ hostId \in 0..MaxStarts /\ port \in 0..MaxStarts
    /\ paired \in [Phones -> Devices \cup {NoDevice}]
    /\ file \in Files
    /\ record \in [Phones -> {"none", "clear", "tls"}]
    /\ driver \in [Phones -> {"none", "dial", "confirm", "save"}]
    /\ over \in [Phones -> BOOLEAN] /\ asked \subseteq Phones
    /\ answer \in [Phones -> Answers \cup {NoDevice}]
    /\ unpair \in [Phones -> {"none", "forget", "store"}]
    /\ done \subseteq Phones /\ saved \subseteq Phones
    /\ phone \in [Phones -> Memories \cup {NoDevice}]
    /\ issued \in 0..MaxTokens /\ tried \subseteq Phones /\ torn \subseteq Phones
    /\ spoilt \in BOOLEAN /\ unwritten \in BOOLEAN

\* A phone the daemon reads as paired holds the token the backend expects, and
\* remembers the connection as it was: an upload of its is recognised.
PairedIsRecognised ==
    \A p \in done \ torn :
        unpair[p] # "store" => /\ paired[p] # NoDevice /\ phone[p] # NoDevice
                               /\ paired[p].token = phone[p].token
                               /\ paired[p].tls = phone[p].tls

\* A token is honoured only while the daemon holds the pairing, or a pairing
\* since the last start got as far as the phone's consent; Unpair() ends it
\* whatever becomes of the writes.
TokensArePruned ==
    life = "up" =>
        \A p \in Phones : paired[p] # NoDevice => p \in saved \cup tried

\* A paired phone can find the host again: at the port it was given, and under
\* the host_id it was given unless a start could not write that down.
HostIsRecognised ==
    \A p \in done \ torn :
        spoilt \/ (phone[p].port = port /\ (unwritten \/ phone[p].host = hostId))

\* Together: the phone, the backend's table and the daemon's record agree.
PhoneAgrees == PhoneTypeOK /\ PairedIsRecognised /\ TokensArePruned /\ HostIsRecognised

\* The handshake ends, whether or not anybody picks up the phone.
PairingEnds == \A p \in Phones : driver[p] # "none" ~> driver[p] = "none"

\* What docs/scanbus-mobile-backend.md section 12.2 says: drawn once, written down.
HostIdIsKept == \A p \in done : spoilt \/ phone[p] = NoDevice \/ phone[p].host = hostId
=============================================================================
