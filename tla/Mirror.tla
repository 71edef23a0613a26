------------------------------- MODULE Mirror -------------------------------
(***************************************************************************)
(* The desktop client's copy of the daemon's object tree, its notification *)
(* of a running job, and the discovery session it holds while it pairs.    *)
(*                                                                         *)
(*   scanbus-gui/src/bus.rs     run, run_session, wait_for_owner,          *)
(*                              dispatch_signal, handle_command (Pair),    *)
(*                              DiscoveryLeases                            *)
(*   scanbus-gui/src/store.rs   Store::apply                               *)
(*   scanbus-gui/src/notify.rs  NotificationEngine                         *)
(*                                                                         *)
(* One scanner and one job under it.  The daemon is what the client sees   *)
(* of it: objects come, change and go, each with a signal, the whole of it *)
(* dies and comes back.  The client reads the tree once in a session, then *)
(* applies every signal in order, those older than its reading too.        *)
(* Assumed of the bus: a signal of the daemon reaches the connection.      *)
(***************************************************************************)
EXTENDS Integers, Sequences

CONSTANT WireBound   \* how many signals the client may be behind, at most

ASSUME WireAssumption == WireBound \in Nat \ {0}

VARIABLES
    owner,    \* whether org.scanbus has an owner
    scanner,  \* the scanner's PairingState, "absent" with no object
    job,      \* its job's State: "none", "running", "ended"
    orphan,   \* the job's object is not under the scanner's that is there now
    unsent,   \* pairing states reached and not announced yet, in order
    sharing,  \* whether another client holds a discovery session
    leased,   \* whether the daemon counts the hold connection's session
    stream,   \* signals on their way to the client or in its stream
    phase,    \* where the client's session is
    command,  \* the Pair command: "idle", "acquire", "call"
    mirror,   \* the store: its scanner and its job
    held,     \* whether held_paths has the scanner
    hold,     \* whether there is a hold_connection
    record,   \* the notifier's JobRecord: "none", "fresh", "visible", "over"
    banner    \* the notification of the job: "none", "progress", "result"

tree == <<owner, scanner, job, orphan, unsent, sharing>>
leases == <<leased, held, hold>>
client == <<phase, command, mirror, record, banner>>
mirrorVars ==
    <<owner, scanner, job, orphan, unsent, sharing, leased, stream, phase, command, mirror,
      held, hold, record, banner>>

PairingStates == {"none", "pairing", "failed", "done"}
JobStates == {"none", "running", "ended"}
EmptyStore == [scanner |-> "absent", job |-> "none"]

MirrorTypeOK ==
    /\ owner \in BOOLEAN /\ orphan \in BOOLEAN /\ sharing \in BOOLEAN
    /\ leased \in BOOLEAN /\ held \in BOOLEAN /\ hold \in BOOLEAN
    /\ scanner \in PairingStates \cup {"absent"}
    /\ job \in JobStates
    /\ unsent \in Seq(PairingStates)
    /\ Len(stream) <= WireBound + 2
    /\ phase \in {"presence", "seeding", "live", "waiting", "backoff"}
    /\ command \in {"idle", "acquire", "call"}
    /\ mirror \in [scanner : PairingStates \cup {"absent"}, job : JobStates]
    /\ record \in {"none", "fresh", "visible", "over"}
    /\ banner \in {"none", "progress", "result"}

MirrorInit ==
    /\ owner = FALSE
    /\ scanner = "absent" /\ job = "none" /\ orphan = FALSE
    /\ unsent = <<>> /\ sharing = FALSE
    /\ leased = FALSE /\ held = FALSE /\ hold = FALSE
    /\ stream = <<>>
    /\ phase = "presence" /\ command = "idle"
    /\ mirror = EmptyStore
    /\ record = "none" /\ banner = "none"

-----------------------------------------------------------------------------
(* The daemon, as its signals show it *)

(* The bound: nothing new happens while the client is that far behind. *)
StreamHasRoom == Len(stream) < WireBound
Signal(kind, value) == [kind |-> kind, value |-> value]
Say(messages) == stream' = stream \o messages

Session == sharing \/ leased

(* A start restores the scanners on record, then takes the name. *)
Start ==
    /\ ~owner
    /\ StreamHasRoom
    /\ owner' = TRUE
    /\ \E restored \in {"absent", "done"} :
          /\ scanner' = restored
          /\ Say(IF restored = "absent"
                 THEN <<Signal("owner", TRUE)>>
                 ELSE <<Signal("scanner", restored), Signal("owner", TRUE)>>)
    /\ UNCHANGED <<job, orphan, unsent, sharing>>
    /\ UNCHANGED leases
    /\ UNCHANGED client

(* A crash, or a stop whose signals the client would apply to no effect. *)
Crash ==
    /\ owner
    /\ StreamHasRoom
    /\ owner' = FALSE
    /\ scanner' = "absent" /\ job' = "none" /\ orphan' = FALSE
    /\ unsent' = <<>> /\ sharing' = FALSE /\ leased' = FALSE
    /\ Say(<<Signal("owner", FALSE)>>)
    /\ UNCHANGED <<held, hold>>
    /\ UNCHANGED client

(* Another client starts or stops a session of its own. *)
ShareOrNot ==
    /\ owner
    /\ sharing' = ~sharing
    /\ UNCHANGED <<owner, scanner, job, orphan, unsent, stream>>
    /\ UNCHANGED leases
    /\ UNCHANGED client

(* A session finds the scanner.  A job object of an earlier one is none of *)
(* this object's children in a store that follows the signals.             *)
Discovered ==
    /\ owner /\ Session
    /\ scanner = "absent"
    /\ StreamHasRoom
    /\ scanner' = "none"
    /\ Say(<<Signal("scanner", "none")>>)
    /\ UNCHANGED <<owner, job, orphan, unsent, sharing>>
    /\ UNCHANGED leases
    /\ UNCHANGED client

(* Without a session an unpaired scanner goes, its subtree first. *)
SessionOver ==
    /\ owner /\ ~Session
    /\ scanner \in {"none", "pairing", "failed"}
    /\ StreamHasRoom
    /\ scanner' = "absent" /\ job' = "none" /\ orphan' = FALSE
    /\ unsent' = <<>>
    /\ Say(IF job = "none"
           THEN <<Signal("gone", "scanner")>>
           ELSE <<Signal("gone", "job"), Signal("gone", "scanner")>>)
    /\ UNCHANGED <<owner, sharing>>
    /\ UNCHANGED leases
    /\ UNCHANGED client

(* The pairing machine moves, on its own or at another client's word; the  *)
(* supervisor's signal follows later, one for each transition.             *)
PairingMoves ==
    /\ owner
    /\ Len(unsent) < WireBound
    /\ \E s \in PairingStates :
          /\ \/ scanner = "pairing" /\ s \in {"failed", "done", "none"}
             \/ scanner \in {"none", "failed"} /\ s = "pairing"
             \/ scanner = "done" /\ s = "none"
          /\ scanner' = s
          /\ unsent' = Append(unsent, s)
    /\ UNCHANGED <<owner, job, orphan, sharing, stream>>
    /\ UNCHANGED leases
    /\ UNCHANGED client

Supervise ==
    /\ unsent # <<>>
    /\ StreamHasRoom
    /\ Say(<<Signal("pairing", Head(unsent))>>)
    /\ unsent' = Tail(unsent)
    /\ UNCHANGED <<owner, scanner, job, orphan, sharing>>
    /\ UNCHANGED leases
    /\ UNCHANGED client

(* A job's first page exports it, whether its scanner is still there or    *)
(* not; its end is one signal; its time on the bus runs out.               *)
JobMoves ==
    /\ owner
    /\ StreamHasRoom
    /\ \/ /\ job = "none"
          /\ job' = "running"
          /\ orphan' = (scanner = "absent")
          /\ Say(<<Signal("job", "running")>>)
       \/ /\ job = "running"
          /\ job' = "ended"
          /\ Say(<<Signal("state", "ended")>>)
          /\ UNCHANGED orphan
       \/ /\ job = "ended"
          /\ job' = "none"
          /\ orphan' = FALSE
          /\ Say(<<Signal("gone", "job")>>)
    /\ UNCHANGED <<owner, scanner, unsent, sharing>>
    /\ UNCHANGED leases
    /\ UNCHANGED client

-----------------------------------------------------------------------------
(* The session: presence, reading the tree, signals *)

\* Mutant: the notification is left where it is.
LeftShown == banner

\* handle_service_absent(): a progress notification goes with its job.
Withdrawn == IF record = "visible" THEN "none" ELSE banner

(* The events of a service that is gone: an empty store, no records. *)
ForgetAll ==
    /\ mirror' = EmptyStore
    /\ record' = "none"
    /\ banner' = Withdrawn

(* presence() answered, and what run_session does of it. *)
Presence ==
    /\ phase = "presence"
    /\ IF owner
       THEN phase' = "seeding" /\ UNCHANGED <<mirror, record, banner>>
       ELSE phase' = "waiting" /\ ForgetAll
    /\ UNCHANGED <<command, stream>>
    /\ UNCHANGED tree
    /\ UNCHANGED leases

(* GetManagedObjects: the store is the tree, the notifier starts over.     *)
(* Signals older than the reply are still in the stream.                   *)
Seed ==
    /\ phase = "seeding"
    /\ owner
    /\ phase' = "live"
    /\ mirror' = [scanner |-> scanner,
                  job |-> IF scanner = "absent" THEN "none" ELSE job]
    /\ record' = "none"
    /\ UNCHANGED <<command, banner, stream>>
    /\ UNCHANGED tree
    /\ UNCHANGED leases

(* A call of the session failed: its connections are dropped, with what    *)
(* they had received, and run() tries again after a second.                *)
Fail ==
    /\ phase' = "backoff"
    /\ command' = "idle"
    /\ stream' = <<>>
    /\ held' = FALSE /\ hold' = FALSE /\ leased' = FALSE
    /\ ForgetAll
    /\ UNCHANGED tree

SessionFails ==
    /\ phase = "seeding"
    /\ ~owner
    /\ Fail

Retry ==
    /\ phase = "backoff"
    /\ phase' = "presence"
    /\ UNCHANGED <<command, mirror, record, banner, stream>>
    /\ UNCHANGED tree
    /\ UNCHANGED leases

\* Mutant: the wait ends on the owner that went.
WakesOnLoss(m) == m = Signal("owner", FALSE)

\* wait_for_owner() reads and drops every signal up to a new owner.
Wakes(m) == m = Signal("owner", TRUE)

Wait ==
    /\ phase = "waiting"
    /\ stream # <<>>
    /\ stream' = Tail(stream)
    /\ phase' = IF Wakes(Head(stream)) THEN "presence" ELSE phase
    /\ UNCHANGED <<command, mirror, record, banner>>
    /\ UNCHANGED tree
    /\ UNCHANGED leases

\* Mutant: the path is let go of and the session is not.
KeptHold == held' = FALSE /\ UNCHANGED <<leased, hold>>

\* release_pairing_hold(): the last held path gives the session back.
Released ==
    /\ held' = FALSE
    /\ hold' = IF held THEN FALSE ELSE hold
    /\ leased' = IF held THEN FALSE ELSE leased

\* Store::apply_interfaces_removed takes a scanner with all it has.
StoreWithoutScanner == EmptyStore

\* Store::apply_interfaces_added: a scanner comes with no job.
StoreWithScanner(s) == [scanner |-> s, job |-> "none"]

\* A job is kept under the scanner it belongs to, which has to be there.
StoreWithJob(s) ==
    IF mirror.scanner = "absent" THEN mirror ELSE [mirror EXCEPT !.job = s]
StoreWithState(s) ==
    IF mirror.job = "none" THEN mirror ELSE [mirror EXCEPT !.job = s]

\* Mutant: a job that left the bus is kept as it ended.
StoreWithJobKept == mirror

\* Store::apply_interfaces_removed takes a job alone out of its scanner.
StoreWithoutJob == [mirror EXCEPT !.job = "none"]

(* The notifier's part of InterfacesRemoved for a job. *)
JobGone ==
    /\ record' = "none"
    /\ banner' = Withdrawn

(* dispatch_signal(), the store's and the notifier's part in it. *)
Apply(m) ==
    CASE m.kind = "scanner" ->
           /\ mirror' = StoreWithScanner(m.value)
           /\ UNCHANGED <<record, banner>>
           /\ UNCHANGED leases
      [] m.kind = "pairing" ->
           /\ mirror' = IF mirror.scanner = "absent" THEN mirror
                        ELSE [mirror EXCEPT !.scanner = m.value]
           /\ UNCHANGED <<record, banner>>
           /\ IF m.value = "pairing" THEN UNCHANGED leases ELSE Released
      [] m.kind = "gone" /\ m.value = "scanner" ->
           /\ mirror' = StoreWithoutScanner
           /\ UNCHANGED <<record, banner>>
           /\ UNCHANGED leases
      [] m.kind = "job" ->
           /\ mirror' = StoreWithJob(m.value)
           /\ record' = "fresh"
           /\ UNCHANGED banner
           /\ UNCHANGED leases
      [] m.kind = "state" ->
           /\ mirror' = StoreWithState(m.value)
           /\ record' = IF record = "none" THEN "none" ELSE "over"
           /\ banner' = IF record = "none" THEN banner ELSE "result"
           /\ UNCHANGED leases
      [] m.kind = "gone" /\ m.value = "job" ->
           /\ mirror' = StoreWithoutJob
           /\ JobGone
           /\ UNCHANGED leases

(* NameOwnerChanged ends the live loop either way; a lost owner also drops *)
(* the leases and empties the store.                                       *)
OwnerChanged(m) ==
    /\ phase' = "presence"
    /\ IF m.value
       THEN /\ UNCHANGED <<mirror, record, banner>>
            /\ UNCHANGED leases
       ELSE /\ ForgetAll
            /\ held' = FALSE /\ hold' = FALSE /\ leased' = FALSE

Live == phase = "live" /\ command = "idle"

(* The hold cannot be given back to a daemon that went: dispatch_signal's  *)
(* error is the session's.                                                 *)
ReleaseFails ==
    /\ Live
    /\ stream # <<>>
    /\ Head(stream).kind = "pairing" /\ Head(stream).value # "pairing"
    /\ held /\ hold /\ ~owner
    /\ Fail

Dispatch ==
    /\ Live
    /\ stream # <<>>
    /\ stream' = Tail(stream)
    /\ IF Head(stream).kind = "owner"
       THEN OwnerChanged(Head(stream))
       ELSE Apply(Head(stream)) /\ UNCHANGED phase
    /\ UNCHANGED command
    /\ UNCHANGED tree

(* Two seconds after a job appeared, or its second page: it is shown. *)
ShowProgress ==
    /\ record = "fresh"
    /\ record' = "visible"
    /\ banner' = "progress"
    /\ UNCHANGED <<phase, command, mirror, stream>>
    /\ UNCHANGED tree
    /\ UNCHANGED leases

-----------------------------------------------------------------------------
(* The Pair command, with the session it holds *)

(* acquire_pairing_hold(): the path is held before the session is started. *)
Pair ==
    /\ Live
    /\ mirror.scanner \in {"none", "failed"}
    /\ held' = TRUE
    /\ command' = IF held \/ hold THEN "call" ELSE "acquire"
    /\ UNCHANGED <<leased, hold, phase, mirror, record, banner, stream>>
    /\ UNCHANGED tree

(* StartDiscovery on a connection of its own; refused, the command is over *)
(* and the path stays in held_paths.                                       *)
Acquire ==
    /\ command = "acquire"
    /\ \/ /\ owner
          /\ command' = "call"
          /\ hold' = TRUE /\ leased' = TRUE
       \/ /\ command' = "idle"
          /\ UNCHANGED <<hold, leased>>
    /\ UNCHANGED <<held, phase, mirror, record, banner, stream>>
    /\ UNCHANGED tree

(* Scanner1.Pair(): started or already on its way, or refused and released. *)
CallPair ==
    /\ command = "call"
    /\ command' = "idle"
    /\ \/ /\ scanner \in {"none", "failed"}
          /\ Len(unsent) < WireBound
          /\ scanner' = "pairing"
          /\ unsent' = Append(unsent, "pairing")
          /\ UNCHANGED leases
       \/ /\ scanner = "pairing"
          /\ UNCHANGED <<scanner, unsent>>
          /\ UNCHANGED leases
       \/ /\ scanner # "pairing"
          /\ UNCHANGED <<scanner, unsent>>
          /\ Released
    /\ UNCHANGED <<owner, job, orphan, sharing, phase, mirror, record, banner, stream>>

-----------------------------------------------------------------------------

DaemonStep ==
    \/ Start \/ Crash \/ ShareOrNot
    \/ Discovered \/ SessionOver
    \/ PairingMoves \/ Supervise
    \/ JobMoves

SessionStep ==
    \/ Presence \/ Seed \/ SessionFails \/ Retry
    \/ Wait \/ Dispatch \/ ReleaseFails \/ Acquire \/ CallPair

MirrorNext == DaemonStep \/ SessionStep \/ ShowProgress \/ Pair

MirrorSpec == MirrorInit /\ [][MirrorNext]_mirrorVars

(* The client's loop is polled, and the supervisor's; nothing makes the    *)
(* daemon start, stop, find or scan.                                       *)
FairMirror == MirrorSpec /\ WF_mirrorVars(SessionStep) /\ WF_mirrorVars(Supervise)

-----------------------------------------------------------------------------

(* With every signal applied the store is the tree, whatever was replayed  *)
(* over the reading it started from and however often the daemon went; and *)
(* it is empty while there is no daemon.                                   *)
AllHeard == stream = <<>> /\ unsent = <<>>
MirrorAgrees ==
    /\ phase = "live" /\ AllHeard =>
          /\ owner
          /\ mirror.scanner = scanner
          /\ scanner # "absent" /\ ~orphan => mirror.job = job
    /\ phase = "waiting" => mirror = EmptyStore

(* A notification of progress is of a job that is still running: it is     *)
(* withdrawn or replaced whatever became of the job, its scanner, its      *)
(* signals or the daemon.                                                  *)
ProgressIsOfAJob ==
    (phase = "live" /\ stream = <<>> /\ banner = "progress") => job = "running"

\* Together: what the desktop shows is what the daemon has.
ClientAgrees == MirrorTypeOK /\ MirrorAgrees /\ ProgressIsOfAJob

(* The session held for a pairing is given back: with nothing left to hear *)
(* of a pairing, the daemon counts none for this client.                   *)
HoldIsGivenBack ==
    (phase = "live" /\ command = "idle" /\ AllHeard /\ scanner # "pairing")
        => ~leased

(* What the hold is for: a pairing this client started keeps its session.  *)
PairingKeepsItsSession ==
    (phase = "live" /\ held /\ scanner = "pairing") => leased

(* A daemon that stays is mirrored in the end, and stays so.               *)
EndsUpLive == <>[]owner => <>[](phase = "live")
=============================================================================
