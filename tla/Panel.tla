------------------------------- MODULE Panel -------------------------------
(***************************************************************************)
(* One Brother's panel, and what keeps this host's entries on it: the keys *)
(* a user assigns (scanbus-daemon/src/dbus/button.rs, store.rs), the       *)
(* backend's maps (scanbus-backend-brother/src/lib.rs) and the registrar   *)
(* that renews the leases (registrar.rs).                                  *)
(*                                                                         *)
(* An entry is a lease: nothing takes it down but time.  A tick is a       *)
(* twelfth of the lease or more, so that a round of registrations, two     *)
(* seconds a key at worst, fits between two ticks.                         *)
(***************************************************************************)
EXTENDS Naturals, FiniteSets

CONSTANTS
    Keys, NoKey,      \* the panel's functions, button indices in the code
    Addrs, NoAddr,    \* addresses the printer may be found at
    Hosts, NoHost,    \* addresses of ours that may route to it
    Lease,            \* DEFAULT_DURATION, in ticks
    RetryDelay        \* registrar.rs retry_delay, in ticks

ASSUME NoneAssumption == NoKey \notin Keys /\ NoAddr \notin Addrs /\ NoHost \notin Hosts
ASSUME LeaseAssumption ==
    /\ Lease \in Nat /\ RetryDelay \in Nat \ {0}
    /\ (Lease \div 2) + RetryDelay < Lease

RefreshDelay == Lease \div 2

VARIABLES
    up,          \* the daemon: "down", "restoring" (not on the bus yet), "up"
    paired,      \* the store has an entry for this scanner
    saved,       \* the keys it records as assigned
    props,       \* the keys whose Button1.Profile reads a profile
    pc, what,    \* where each key's Profile write is, and whether it assigns
    lock,        \* the write that holds BrotherBackend.registrars
    buttons,     \* the keys with an assignment in BrotherBackend.buttons
    note,        \* BrotherBackend.devices: where discovery last saw the printer
    phase,       \* the registrar: "off", "first" round, then "sleep" or "round"
    functions,   \* the keys it keeps alive, or is about to
    target,      \* Registrar.device
    via,         \* the address of ours that a round registers
    todo,        \* what is left of the round
    delay,       \* ticks until the next one
    host,        \* which of our addresses routes to the printer
    panel,       \* the printer's entries for this host: ticks left, address
    since,       \* history: ticks an entry was wrong, after the last change of what is right
    lost         \* history: attempts that failed since a key's last renewal

store == <<paired, saved>>
writes == <<props, pc, what, lock>>
registrar == <<phase, functions, target, via, todo, delay>>
device == <<host, panel, since, lost>>
vars == <<up, store, writes, buttons, note, registrar, device>>

NoEntry == [left |-> 0, host |-> NoHost]
Refreshing == phase \in {"sleep", "round"}

\* An entry somebody asks for, that sends its presses here.
Right(k) ==
    /\ k \in buttons \/ (pc[k] \in {"lock", "first"} /\ what[k])
    /\ panel[k].host = host

Init ==
    /\ up = "up" /\ paired = FALSE /\ saved = {}
    /\ props = {} /\ pc = [k \in Keys |-> "idle"] /\ what = [k \in Keys |-> FALSE]
    /\ lock = NoKey /\ buttons = {} /\ note = NoAddr
    /\ phase = "off" /\ functions = {} /\ target = NoAddr
    /\ via = NoHost /\ todo = {} /\ delay = 0
    /\ host \in Hosts /\ panel = [k \in Keys |-> NoEntry]
    /\ since = [k \in Keys |-> 0] /\ lost = [k \in Keys |-> 0]

-----------------------------------------------------------------------------
(* The registrar *)

\* The device takes a request, wherever it was sent.
With(k) == [panel EXCEPT ![k] = [left |-> Lease, host |-> via]]

\* A task that is aborted leaves at most one request on its way: taken, or lost.
Abort == panel' \in {panel} \cup {With(k) : k \in todo}

Off ==
    /\ phase' = "off" /\ functions' = {} /\ target' = NoAddr
    /\ via' = NoHost /\ todo' = {} /\ delay' = 0
    /\ lost' = [k \in Keys |-> 0]

\* Registrar::stop, or the drop of one: nothing is sent.
Stopped == Abort /\ Off

\* Session::register and a yes.
Registered(k) == panel' = With(k) /\ lost' = [lost EXCEPT ![k] = 0]

\* No answer, or a refusal: the device may have taken the request all the same.
MaybeTaken(k) == panel' \in {panel, With(k)}

Fail(ks) == lost' = [k \in Keys |-> IF k \in ks /\ lost[k] < 2 THEN lost[k] + 1 ELSE lost[k]]

\* Refresh::run, between two functions and after the last.
Continue(k) ==
    /\ todo' = todo \ {k}
    /\ IF todo = {k} THEN phase' = "sleep" /\ via' = NoHost ELSE UNCHANGED <<phase, via>>

Due == phase = "sleep" /\ delay = 0

\* Refresh::round asks for the route, every time.  delay is from here on the one
\* that will follow the round.
Round ==
    /\ Due /\ phase' = "round" /\ todo' = functions /\ via' = host /\ delay' = RefreshDelay
    /\ UNCHANGED <<up, store, writes, buttons, note, functions, target, device>>

RoundUnrouted ==
    /\ Due /\ delay' = RetryDelay /\ Fail(functions)
    /\ UNCHANGED <<up, store, writes, buttons, note, phase, functions, target, via, todo,
                   host, panel, since>>

Refresh(k) ==
    /\ phase = "round" /\ k \in todo
    /\ Registered(k) /\ Continue(k)
    /\ UNCHANGED <<up, store, writes, buttons, note, functions, target, delay, host, since>>

\* Mutant: a round that failed is followed by the next in its turn.
RefreshFailsUnhurried(k) ==
    /\ phase = "round" /\ k \in todo
    /\ MaybeTaken(k) /\ Fail({k}) /\ Continue(k)
    /\ UNCHANGED <<up, store, writes, buttons, note, functions, target, delay, host, since>>

\* A failure does not stop the others, and brings the next round forward.
RefreshFails(k) ==
    /\ phase = "round" /\ k \in todo
    /\ MaybeTaken(k) /\ Fail({k}) /\ Continue(k) /\ delay' = RetryDelay
    /\ UNCHANGED <<up, store, writes, buttons, note, functions, target, host, since>>

-----------------------------------------------------------------------------
(* Button1 and set_button_mapping *)

Wanted(k) == IF what[k] THEN buttons \cup {k} ELSE buttons \ {k}
Moved(k) == IF what[k] THEN props \cup {k} ELSE props \ {k}

\* Mutant: the property moves first.
SetProfileEagerly(k, assigned) ==
    /\ up = "up" /\ pc[k] = "idle"
    /\ pc' = [pc EXCEPT ![k] = "lock"] /\ what' = [what EXCEPT ![k] = assigned]
    /\ props' = IF assigned THEN props \cup {k} ELSE props \ {k}
    /\ since' = IF assigned THEN [since EXCEPT ![k] = 0] ELSE since
    /\ UNCHANGED <<up, store, lock, buttons, note, registrar, host, panel, lost>>

\* A write of Profile, or of ProfileOptions with the profile the key has; it holds
\* the key's own lock from here on.
SetProfile(k, assigned) ==
    /\ up = "up" /\ pc[k] = "idle"
    /\ pc' = [pc EXCEPT ![k] = "lock"] /\ what' = [what EXCEPT ![k] = assigned]
    /\ since' = IF assigned THEN [since EXCEPT ![k] = 0] ELSE since
    /\ UNCHANGED <<up, store, props, lock, buttons, note, registrar, host, panel, lost>>

Returned(k) == pc' = [pc EXCEPT ![k] = "idle"] /\ what' = [what EXCEPT ![k] = FALSE]

\* The assignment is recorded and the registrars' lock free again; a live write has
\* the property still to move.
Mapped(k) ==
    /\ buttons' = Wanted(k) /\ lock' = NoKey
    /\ IF up = "restoring" THEN Returned(k) ELSE pc' = [pc EXCEPT ![k] = "save"] /\ UNCHANGED what
    /\ since' = [since EXCEPT ![k] = 0]

\* The mapping and the property stay as they are: a restore has moved it already.
Refused(k) ==
    /\ Returned(k) /\ lock' = NoKey /\ UNCHANGED <<props, buttons>>
    /\ since' = [since EXCEPT ![k] = 0]

AtLock(k) == pc[k] = "lock" /\ lock = NoKey

\* register_functions with nothing to register drops the registrar.
ClearLast(k) ==
    /\ AtLock(k) /\ Wanted(k) = {}
    /\ Stopped /\ Mapped(k)
    /\ UNCHANGED <<up, store, props, note, host>>

\* registration_target: no address on record, and the registrar is not touched.
Untargeted(k) ==
    /\ AtLock(k) /\ Wanted(k) # {} /\ note = NoAddr
    /\ Refused(k)
    /\ UNCHANGED <<up, store, note, registrar, host, panel, lost>>

\* Registrar::start stops what runs and opens the first round; a registrar of
\* another address was dropped before.
Start(k) ==
    /\ AtLock(k) /\ Wanted(k) # {} /\ note # NoAddr
    /\ Abort
    /\ lock' = k /\ pc' = [pc EXCEPT ![k] = "first"]
    /\ phase' = "first" /\ functions' = Wanted(k) /\ todo' = Wanted(k)
    /\ target' = note /\ via' = host /\ delay' = 0
    /\ lost' = [j \in Keys |-> 0]
    /\ UNCHANGED <<up, store, props, what, buttons, note, host, since>>

\* The same, and there is no route.
StartUnrouted(k) ==
    /\ AtLock(k) /\ Wanted(k) # {} /\ note # NoAddr
    /\ Stopped /\ Refused(k)
    /\ UNCHANGED <<up, store, note, host>>

\* One function of the first round; after the last the refresh is spawned and the
\* assignment recorded, with no await in between.
FirstAccepted(k, f) ==
    /\ lock = k /\ f \in todo
    /\ Registered(f) /\ todo' = todo \ {f}
    /\ IF todo = {f}
       THEN phase' = "sleep" /\ via' = NoHost /\ delay' = RefreshDelay /\ Mapped(k)
       ELSE UNCHANGED <<phase, via, delay, pc, what, lock, buttons, since>>
    /\ UNCHANGED <<up, store, props, note, functions, target, host>>

\* Mutant: what could be registered is kept alive.
FirstRefusedRunning(k, f) ==
    /\ lock = k /\ f \in todo
    /\ MaybeTaken(f) /\ Refused(k)
    /\ phase' = "sleep" /\ via' = NoHost /\ todo' = {} /\ delay' = RetryDelay
    /\ UNCHANGED <<up, store, note, functions, target, host, lost>>

\* The first failure ends the first round, and the registrar with it.
FirstRefused(k, f) ==
    /\ lock = k /\ f \in todo
    /\ MaybeTaken(f) /\ Off /\ Refused(k)
    /\ UNCHANGED <<up, store, note, host>>

\* The property moves, and is saved if the scanner is paired.  A flush that fails
\* is Pairing's subject.
Save(k) ==
    /\ pc[k] = "save" /\ Returned(k)
    /\ props' = Moved(k)
    /\ saved' = IF paired THEN IF what[k] THEN saved \cup {k} ELSE saved \ {k} ELSE saved
    /\ UNCHANGED <<up, paired, lock, buttons, note, registrar, device>>

-----------------------------------------------------------------------------
(* Pairing, restart, and the network *)

\* A new entry of the store has no keys, whatever the properties read.
Pair ==
    /\ up = "up" /\ ~paired
    /\ paired' = TRUE
    /\ UNCHANGED <<up, saved, writes, buttons, note, registrar, device>>

\* The backend's and the store's forget, in that order: a Save between the two is
\* undone by the second.  The object may stay, and its properties with it.
Forget ==
    /\ up = "up" /\ paired /\ lock = NoKey
    /\ Stopped /\ buttons' = {} /\ since' = [k \in Keys |-> 0]
    /\ paired' = FALSE /\ saved' = {}
    /\ UNCHANGED <<up, writes, note, host>>

\* Everything but the file is gone; the device knows nothing of it.
Crash ==
    /\ up # "down" /\ up' = "down"
    /\ Stopped /\ note' = NoAddr /\ buttons' = {} /\ since' = [k \in Keys |-> 0]
    /\ props' = {} /\ pc' = [k \in Keys |-> "idle"] /\ lock' = NoKey
    /\ what' = [k \in Keys |-> FALSE]
    /\ UNCHANGED <<store, host>>

\* restore_disposition notes the address that was stored, however old.
Restart ==
    /\ up = "down"
    /\ IF paired
       THEN up' = "restoring" /\ note' \in Addrs \cup {NoAddr}
       ELSE up' = "up" /\ UNCHANGED note
    /\ UNCHANGED <<store, writes, buttons, registrar, device>>

\* Button1::restore, one key after another: the property first.
RestoreKey(k) ==
    /\ up = "restoring" /\ k \in saved \ props /\ \A j \in Keys : pc[j] = "idle"
    /\ props' = props \cup {k}
    /\ pc' = [pc EXCEPT ![k] = "lock"] /\ what' = [what EXCEPT ![k] = TRUE]
    /\ since' = [since EXCEPT ![k] = 0]
    /\ UNCHANGED <<up, store, lock, buttons, note, registrar, host, panel, lost>>

\* The per scanner timeout drops the call, and start() in the middle of its round.
RestoreTimesOut(k) ==
    /\ up = "restoring" /\ lock = k
    /\ Stopped /\ Refused(k)
    /\ UNCHANGED <<up, store, note, host>>

Restored ==
    /\ up = "restoring" /\ saved \subseteq props /\ \A k \in Keys : pc[k] = "idle"
    /\ up' = "up"
    /\ UNCHANGED <<store, writes, buttons, note, registrar, device>>

\* note_device: the address a discovery found, or none.
Discover ==
    /\ up = "up" /\ note' \in (Addrs \cup {NoAddr}) \ {note}
    /\ UNCHANGED <<up, store, writes, buttons, registrar, device>>

RouteChanges ==
    /\ host' \in Hosts \ {host}
    /\ since' = [k \in Keys |-> 0]
    /\ UNCHANGED <<up, store, writes, buttons, note, registrar, panel, lost>>

\* No request and no round outlives a tick.
Tick ==
    /\ phase \notin {"first", "round"} /\ ~Due
    /\ delay' = IF phase = "sleep" THEN delay - 1 ELSE delay
    /\ panel' = [k \in Keys |-> IF panel[k].left > 1 THEN [panel[k] EXCEPT !.left = @ - 1] ELSE NoEntry]
    /\ since' = [k \in Keys |->
                    IF panel[k].left \leq 1 \/ Right(k) THEN 0
                    ELSE IF since[k] > Lease THEN since[k] ELSE since[k] + 1]
    /\ UNCHANGED <<up, store, writes, buttons, note, phase, functions, target, via, todo, host, lost>>

Next ==
    \/ Round \/ RoundUnrouted \/ Pair \/ Forget \/ Crash \/ Restart \/ Restored
    \/ Discover \/ RouteChanges \/ Tick
    \/ \E k \in Keys :
         \/ \E assigned \in BOOLEAN : SetProfile(k, assigned)
         \/ Refresh(k) \/ RefreshFails(k)
         \/ ClearLast(k) \/ Untargeted(k) \/ Start(k) \/ StartUnrouted(k)
         \/ \E f \in Keys : FirstAccepted(k, f) \/ FirstRefused(k, f)
         \/ Save(k) \/ RestoreKey(k) \/ RestoreTimesOut(k)

Spec == Init /\ [][Next]_vars

-----------------------------------------------------------------------------
(* Properties *)

\* Types, and what the lock means: a first round runs exactly while a write holds
\* it, and only a round has anything left to do.
TypeOK ==
    /\ up \in {"down", "restoring", "up"} /\ paired \in BOOLEAN
    /\ saved \subseteq Keys /\ props \subseteq Keys
    /\ pc \in [Keys -> {"idle", "lock", "first", "save"}] /\ what \in [Keys -> BOOLEAN]
    /\ buttons \subseteq Keys /\ functions \subseteq Keys /\ todo \subseteq functions
    /\ note \in Addrs \cup {NoAddr} /\ target \in Addrs \cup {NoAddr}
    /\ via \in Hosts \cup {NoHost} /\ host \in Hosts
    /\ phase \in {"off", "first", "sleep", "round"} /\ delay \in 0..Lease
    /\ panel \in [Keys -> [left : 0..Lease, host : Hosts \cup {NoHost}]]
    /\ since \in [Keys -> 0..(Lease + 1)] /\ lost \in [Keys -> 0..2]
    /\ lock \in Keys \cup {NoKey} /\ \A k \in Keys : pc[k] = "first" <=> lock = k
    /\ phase = "first" <=> lock # NoKey
    /\ phase \in {"off", "sleep"} <=> todo = {}

\* "There is a whole second attempt inside the lease before the entry could vanish
\* from the panel" (refresh_delay): a key that is kept alive is there unless two
\* attempts in a row have failed.
LeaseIsRenewed == \A k \in functions : Refreshing /\ lost[k] < 2 => panel[k].left > 0

\* An entry nobody asked for any more, or with an address this host has lost, is
\* gone within a lease, whatever was under way when that came about and although
\* nothing is ever sent to take it down.
WrongEntriesLapse == \A k \in Keys : since[k] \leq Lease

\* Together: the panel follows the record within a lease, in both directions.
LeasesFollow == LeaseIsRenewed /\ WrongEntriesLapse

\* "The panel and the assignments cannot end up describing two different writes"
\* (set_button_mapping): what is refreshed is what is assigned.
RefreshedIsAssigned == Refreshing => functions = buttons

\* A key the backend would scan from reads its profile: "recording first would leave
\* a key that the daemon believes is unassigned and this backend would happily scan
\* from" (set_button_mapping).
MappedIsShown == \A k \in buttons : pc[k] = "idle" => k \in props

\* Together: the refresh task, the backend's map and the property describe one
\* assignment, whichever write was overtaken or failed half-way.
AssignmentsAgree == TypeOK /\ RefreshedIsAssigned /\ MappedIsShown

\* "A printer that moved under DHCP must be registered at the address it has now"
\* (note_device): a round goes to the address on record when it begins.
RoundsFollowTheRecord ==
    [][phase = "sleep" /\ phase' = "round" /\ note # NoAddr => target = note]_vars
=============================================================================
