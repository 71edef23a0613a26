------------------------------ MODULE Scanners ------------------------------
(***************************************************************************)
(* ScannerRegistry (scanbus-daemon/src/scanners.rs) and the Scanner1       *)
(* object (dbus/scanner.rs) for one scanner: why its object exists, which  *)
(* listener task it has, and what its Paired and Connected properties say. *)
(*                                                                         *)
(* Everything the registry does under its tokio mutex is one step.  What   *)
(* it does outside is split where it awaits: a D-Bus call between two      *)
(* registry operations, the supervisor task between a transition and what  *)
(* it causes, and a listener that announces its own failure.               *)
(*                                                                         *)
(* The pairing machine appears as its transitions and its store write; the *)
(* races inside it are the subject of Pairing.  "none" stands for every    *)
(* state that is neither in progress nor done.                             *)
(***************************************************************************)
EXTENDS Naturals, Sequences

CONSTANTS
    Unpairers,    \* Unpair() calls that can be in flight at once
    Connectors,   \* Connect() calls that can be in flight at once
    Failures,     \* failed listeners that can be announcing it at once
    QueueBound    \* transitions the supervisor may be behind by

ASSUME QueueAssumption == QueueBound \in Nat \ {0}

VARIABLES
    known,      \* the entry and its object exist
    origin,     \* entry.origin
    seen,       \* entry.discovered
    listener,   \* entry.listener is a running task
    status,     \* entry.info.status
    connected,  \* the Connected property
    mst, paired,\* the machine: its state and its paired flag
    queue,      \* transitions the supervisor has not received
    spc, prev,  \* the supervisor: where it is, the last transition it handled
    shown,      \* Paired as last signalled
    saved,      \* the store has the scanner
    savedConn,  \* the store's `connected` for it
    session,    \* a discovery session is open
    upc, was,   \* Unpair() calls: where they are, what stop_listening returned
    stale,      \* Unpair() calls whose object was removed under them
    cpc, fpc,   \* Connect() calls, failing listeners
    doubt       \* history: the windows that opened since startup

entry == <<known, origin, seen, listener, status>>
mach == <<mst, paired, queue>>
super == <<spc, prev, shown>>
store == <<saved, savedConn>>
calls == <<upc, was, stale, cpc, fpc>>
vars == <<known, origin, seen, listener, status, connected, mst, paired, queue,
          spc, prev, shown, saved, savedConn, session, upc, was, stale, cpc, fpc, doubt>>

Transitions == {"none", "pairing", "done"}
\* Windows: an Unpair() overlapped another call or the handling of a Done; a
\* listener started while a failed one was still announcing; a session ended
\* between the machine's Done and its promotion; a restored pairing lost its
\* backend half; a restore timed out between the listener and its announcement.
Windows == {"overlap", "late_failure", "session_end", "unbacked", "cut"}

\* A Done the supervisor has not acted on yet.
DonePending == spc # "recv" \/ \E i \in 1..Len(queue) : queue[i] = "done"
FailurePending == \E f \in Failures : fpc[f] # "idle"
Unpairing == \E u \in Unpairers : upc[u] # "idle"

Opens(windows) == doubt' = doubt \cup windows
Window(name, b) == IF b THEN {name} ELSE {}

-----------------------------------------------------------------------------
(* Registry operations, each under the registry's lock *)

\* JsonPairingStore::save_connected skips a scanner it does not hold.
SaveConnected(b) == savedConn' = (saved /\ b)

AnnounceConnected(b) ==
    /\ connected' = (known /\ b)
    /\ SaveConnected(b)

\* ensure_listening: an already running listener is left alone, a backend that
\* refuses leaves everything as it was.
EnsureListening ==
    \/ /\ known /\ ~listener
       /\ listener' = TRUE
       /\ AnnounceConnected(TRUE)
       /\ Opens(Window("late_failure", FailurePending))
    \/ UNCHANGED <<listener, connected, savedConn, doubt>>

\* Mutants: the task is stopped and nothing said, or said and not stopped.
StopListeningSilently ==
    /\ listener' = (listener /\ ~known)
    /\ UNCHANGED <<connected, savedConn>>

StopListeningInNameOnly ==
    IF known THEN AnnounceConnected(FALSE) /\ UNCHANGED listener
    ELSE UNCHANGED <<listener, connected, savedConn>>

\* stop_listening: the task is aborted and awaited before the backend stops.
StopListening ==
    IF known THEN listener' = FALSE /\ AnnounceConnected(FALSE)
    ELSE UNCHANGED <<listener, connected, savedConn>>

\* remove_subtree and everything that goes with the object: its machine (and
\* the driver Drop aborts), its supervisor, its properties.  Calls in flight
\* keep the old machine alive; one that has not read `paired` yet will read
\* what it was.
Remove ==
    /\ known' = FALSE /\ origin' = "discovered" /\ seen' = FALSE
    /\ listener' = FALSE /\ status' = "online" /\ connected' = FALSE
    /\ mst' = "none" /\ paired' = FALSE /\ queue' = <<>>
    /\ spc' = "recv" /\ prev' = "none" /\ shown' = FALSE

StaleCalls(uc) ==
    /\ upc' = [u \in Unpairers |-> IF uc[u] # "check" THEN uc[u]
                                   ELSE IF paired THEN "forget" ELSE "idle"]
    /\ stale' = {u \in Unpairers : upc'[u] # "idle"}

-----------------------------------------------------------------------------
(* Discovery *)

StartDiscovery ==
    /\ ~session
    /\ session' = TRUE
    /\ UNCHANGED <<entry, connected, mach, super, store, calls, doubt>>

\* observe: publish a new object, or update the one that exists.
Observe ==
    /\ session
    /\ status' = "online" /\ seen' = TRUE /\ known' = TRUE
    /\ origin' = IF known THEN origin ELSE "discovered"
    /\ UNCHANGED <<listener, connected, mach, super, store, session, calls, doubt>>

\* mark_unseen_offline after a round that did not find the scanner.
MarkUnseenOffline ==
    /\ session /\ known
    /\ status' = "offline"
    /\ UNCHANGED <<known, origin, seen, listener, connected, mach, super, store,
                   session, calls, doubt>>

\* end_discovery: objects that only a probe justified go.
EndDiscovery ==
    /\ session
    /\ session' = FALSE
    /\ IF known /\ origin = "discovered"
         THEN /\ Remove /\ StaleCalls(upc) /\ UNCHANGED <<was, cpc, fpc>>
              /\ Opens(Window("session_end", paired))
         ELSE /\ seen' = FALSE
              /\ UNCHANGED <<known, origin, listener, status, connected, mach,
                             super, calls, doubt>>
    /\ UNCHANGED store

-----------------------------------------------------------------------------
(* The pairing machine *)

Transition(s) == mst' = s /\ queue' = Append(queue, s)

Room == Len(queue) < QueueBound

Pair ==
    /\ known /\ ~paired /\ mst # "pairing" /\ Room
    /\ Transition("pairing")
    /\ Opens(Window("overlap", Unpairing))
    /\ UNCHANGED <<entry, connected, paired, super, store, session, calls>>

\* The driver saves the pairing and lands on Done.
PairDone ==
    /\ mst = "pairing" /\ Room
    /\ Transition("done") /\ paired' = TRUE
    /\ saved' = TRUE /\ UNCHANGED savedConn
    /\ Opens(Window("overlap", Unpairing))
    /\ UNCHANGED <<entry, connected, super, session, calls>>

\* It fails, or CancelPairing aborts it.
PairEnd ==
    /\ mst = "pairing" /\ Room
    /\ Transition("none")
    /\ UNCHANGED <<entry, connected, paired, super, store, session, calls, doubt>>

-----------------------------------------------------------------------------
(* The supervisor: promote before the signal, listen after it *)

\* Mutant: only a Done is signalled.
SuperviseRecvDone ==
    /\ spc = "recv" /\ queue # <<>>
    /\ queue' = Tail(queue)
    /\ IF Head(queue) = "done" /\ prev # "done"
         THEN spc' = "promote" /\ UNCHANGED prev
         ELSE prev' = Head(queue) /\ UNCHANGED spc
    /\ UNCHANGED <<entry, connected, mst, paired, shown, store, session, calls, doubt>>

SuperviseRecv ==
    /\ spc = "recv" /\ queue # <<>>
    /\ queue' = Tail(queue)
    /\ LET s == Head(queue) IN
         IF s = "done" /\ prev # "done"
           THEN spc' = "promote" /\ UNCHANGED <<prev, shown>>
           ELSE /\ prev' = s /\ shown' = (shown /\ s # "none")
                /\ UNCHANGED spc
    /\ UNCHANGED <<entry, connected, mst, paired, store, session, calls, doubt>>

\* Mutant: the object keeps the origin discovery gave it.
PromoteNothing ==
    /\ spc = "promote"
    /\ spc' = "emit"
    /\ UNCHANGED <<entry, connected, mach, prev, shown, store, session, calls, doubt>>

Promote ==
    /\ spc = "promote"
    /\ spc' = "emit"
    /\ origin' = "persistent"
    /\ UNCHANGED <<known, seen, listener, status, connected, mach, prev, shown,
                   store, session, calls, doubt>>

Emit ==
    /\ spc = "emit"
    /\ spc' = "ensure" /\ prev' = "done" /\ shown' = TRUE
    /\ UNCHANGED <<entry, connected, mach, store, session, calls, doubt>>

SuperviseListen ==
    /\ spc = "ensure"
    /\ spc' = "recv"
    /\ EnsureListening
    /\ UNCHANGED <<known, origin, seen, status, mach, prev, shown, saved, session, calls>>

-----------------------------------------------------------------------------
(* Connect() and Disconnect() *)

\* The checks on the machine and on Status, made before the registry is asked.
Connect(c) ==
    /\ cpc[c] = "idle"
    /\ known /\ paired /\ status # "offline"
    /\ cpc' = [cpc EXCEPT ![c] = "ensure"]
    /\ Opens(Window("overlap", Unpairing))
    /\ UNCHANGED <<entry, connected, mach, super, store, session, upc, was, stale,
                   fpc>>

ConnectListen(c) ==
    /\ cpc[c] = "ensure"
    /\ cpc' = [cpc EXCEPT ![c] = "idle"]
    /\ EnsureListening
    /\ UNCHANGED <<known, origin, seen, status, mach, super, saved, session, upc,
                   was, stale, fpc>>

Disconnect ==
    /\ known
    /\ StopListening
    /\ UNCHANGED <<known, origin, seen, status, mach, super, saved, session, calls, doubt>>

-----------------------------------------------------------------------------
(* Unpair(): stop_listening, the machine's unpair, retire *)

Goto(u, l) == upc' = [upc EXCEPT ![u] = l]

Unpair(u) ==
    /\ known /\ upc[u] = "idle"
    /\ was' = [was EXCEPT ![u] = listener]
    /\ StopListening
    /\ Goto(u, "check")
    /\ stale' = stale \ {u}
    /\ Opens(Window("overlap", \/ Unpairing \/ DonePending
                               \/ \E c \in Connectors : cpc[c] # "idle"))
    /\ UNCHANGED <<known, origin, seen, status, mach, super, saved, session, cpc, fpc>>

UnpairCheck(u) ==
    /\ upc[u] = "check"
    /\ Goto(u, IF paired THEN "forget" ELSE "idle")
    /\ UNCHANGED <<entry, connected, mach, super, store, session, was, stale, cpc,
                   fpc, doubt>>

\* backend.stop_listening, backend.forget, then store.forget.
UnpairForget(u) ==
    /\ upc[u] = "forget"
    /\ \/ Goto(u, "clear") /\ saved' = FALSE /\ savedConn' = FALSE
       \/ Goto(u, IF was[u] THEN "relisten" ELSE "idle") /\ UNCHANGED store
    /\ UNCHANGED <<entry, connected, mach, super, session, was, stale, cpc, fpc, doubt>>

\* The store refused: the listener the call took away is put back.
UnpairRelisten(u) ==
    /\ upc[u] = "relisten"
    /\ Goto(u, "idle")
    /\ EnsureListening
    /\ UNCHANGED <<known, origin, seen, status, mach, super, saved, session, was,
                   stale, cpc, fpc>>

UnpairClear(u) ==
    /\ upc[u] = "clear" /\ Room
    /\ Goto(u, "retire")
    /\ IF u \in stale THEN UNCHANGED mach
       ELSE Transition("none") /\ paired' = FALSE
    /\ UNCHANGED <<entry, connected, super, store, session, was, stale, cpc, fpc, doubt>>

\* retire: the listener is aborted without a word; the object stays only for
\* the discovery session.
Retire(u) ==
    /\ upc[u] = "retire"
    /\ IF known /\ ~seen
         THEN Remove /\ StaleCalls([upc EXCEPT ![u] = "idle"])
         ELSE /\ Goto(u, "idle")
              /\ listener' = FALSE
              /\ origin' = "discovered"
              /\ UNCHANGED <<known, seen, status, connected, mach, super, stale>>
    /\ UNCHANGED <<store, session, was, cpc, fpc, doubt>>

-----------------------------------------------------------------------------
(* A listener that has used up its restarts: listener_failed *)

ListenerFailed(f) ==
    /\ listener /\ fpc[f] = "idle"
    /\ listener' = FALSE /\ status' = "error"
    /\ fpc' = [fpc EXCEPT ![f] = "announce"]
    /\ UNCHANGED <<known, origin, seen, connected, mach, super, store, session,
                   upc, was, stale, cpc, doubt>>

\* After drop(state): the property, then the store.
FailureAnnounce(f) ==
    /\ fpc[f] = "announce"
    /\ connected' = FALSE
    /\ fpc' = [fpc EXCEPT ![f] = "persist"]
    /\ UNCHANGED <<entry, mach, super, store, session, upc, was, stale, cpc, doubt>>

FailurePersist(f) ==
    /\ fpc[f] = "persist"
    /\ SaveConnected(FALSE)
    /\ fpc' = [fpc EXCEPT ![f] = "idle"]
    /\ UNCHANGED <<entry, connected, mach, super, saved, session, upc, was, stale,
                   cpc, doubt>>

-----------------------------------------------------------------------------
(* Startup: restore_one, before the bus name is owned *)

Restart(outcome) ==
    /\ session' = FALSE
    /\ upc' = [u \in Unpairers |-> "idle"] /\ was' = [u \in Unpairers |-> FALSE]
    /\ stale' = {}
    /\ cpc' = [c \in Connectors |-> "idle"] /\ fpc' = [f \in Failures |-> "idle"]
    /\ queue' = <<>> /\ spc' = "recv"
    /\ known' = saved /\ seen' = FALSE
    /\ origin' = IF saved THEN "persistent" ELSE "discovered"
    /\ paired' = (saved /\ outcome # "unbacked")
    /\ mst' = IF paired' THEN "done" ELSE "none"
    /\ prev' = mst' /\ shown' = paired'
    /\ LET connect == paired' /\ savedConn IN
         /\ listener' = (connect /\ outcome \in {"listening", "cut"})
         /\ connected' = (connect /\ outcome = "listening")
         /\ status' = IF connect /\ outcome # "listening" THEN "offline" ELSE "online"
         /\ savedConn' = IF connect THEN outcome = "listening" ELSE savedConn
         /\ doubt' = Window("unbacked", saved /\ outcome = "unbacked")
                     \cup Window("cut", connect /\ outcome = "cut")
    /\ UNCHANGED saved

\* What the backend makes of a persisted pairing: it listens, refuses or times
\* out, times out inside announce_connected, or has lost its half.
Outcomes == {"listening", "refused", "cut", "unbacked"}

-----------------------------------------------------------------------------
(* Specification *)

Init ==
    /\ known = FALSE /\ origin = "discovered" /\ seen = FALSE
    /\ listener = FALSE /\ status = "online" /\ connected = FALSE
    /\ mst = "none" /\ paired = FALSE /\ queue = <<>>
    /\ spc = "recv" /\ prev = "none" /\ shown = FALSE
    /\ saved = FALSE /\ savedConn = FALSE
    /\ session = FALSE
    /\ upc = [u \in Unpairers |-> "idle"] /\ was = [u \in Unpairers |-> FALSE]
    /\ stale = {}
    /\ cpc = [c \in Connectors |-> "idle"] /\ fpc = [f \in Failures |-> "idle"]
    /\ doubt = {}

Supervise == SuperviseRecv \/ Promote \/ Emit \/ SuperviseListen

UnpairStep(u) ==
    UnpairCheck(u) \/ UnpairForget(u) \/ UnpairRelisten(u) \/ UnpairClear(u) \/ Retire(u)

Failing(f) == FailureAnnounce(f) \/ FailurePersist(f)

Next ==
    \/ StartDiscovery \/ Observe \/ MarkUnseenOffline \/ EndDiscovery
    \/ Pair \/ PairDone \/ PairEnd
    \/ Supervise
    \/ \E c \in Connectors : Connect(c) \/ ConnectListen(c)
    \/ Disconnect
    \/ \E u \in Unpairers : Unpair(u) \/ UnpairStep(u)
    \/ \E f \in Failures : ListenerFailed(f) \/ Failing(f)
    \/ \E o \in Outcomes : Restart(o)

Spec == Init /\ [][Next]_vars

\* Every spawned task and every call in flight is polled; a probe round keeps
\* coming back while a session is open.
Fairness ==
    /\ WF_vars(Supervise) /\ WF_vars(Observe)
    /\ WF_vars(PairDone \/ PairEnd)
    /\ \A c \in Connectors : WF_vars(ConnectListen(c))
    /\ \A u \in Unpairers : WF_vars(UnpairStep(u))
    /\ \A f \in Failures : WF_vars(Failing(f))

FairSpec == Spec /\ Fairness

-----------------------------------------------------------------------------
(* Properties *)

\* Every variable holds a value the code could store in it.
TypeOK ==
    /\ {known, seen, listener, connected, paired, shown, saved, savedConn, session} \subseteq BOOLEAN
    /\ origin \in {"discovered", "persistent"}
    /\ status \in {"online", "offline", "error"}
    /\ mst \in Transitions /\ prev \in Transitions
    /\ queue \in Seq(Transitions) /\ Len(queue) <= QueueBound
    /\ spc \in {"recv", "promote", "emit", "ensure"}
    /\ upc \in [Unpairers -> {"idle", "check", "forget", "relisten", "clear", "retire"}]
    /\ was \in [Unpairers -> BOOLEAN] /\ stale \subseteq Unpairers
    /\ cpc \in [Connectors -> {"idle", "ensure"}]
    /\ fpc \in [Failures -> {"idle", "announce", "persist"}]
    /\ doubt \subseteq Windows

\* Connected is true exactly while a listener task runs, but for the moment a
\* failed listener takes to say so; what a restart would reconnect is what was
\* connected.
ConnectionAgrees ==
    ~FailurePending =>
        /\ doubt \cap {"overlap", "late_failure", "cut"} = {} => (connected <=> listener)
        /\ doubt = {} /\ saved /\ known => (savedConn <=> connected)

\* Nothing listens to a scanner nobody has paired.
ListenerIsPaired ==
    doubt \cap {"overlap", "session_end"} = {} /\ listener => paired

\* Paired scanners outlive the discovery session: from its Done on, the object is
\* persistent or the supervisor is about to make it so.  And an object that
\* outlives its session is paired, or its Unpair() is under way.
PersistentIffPaired ==
    /\ doubt \cap {"overlap", "session_end"} = {} /\ paired =>
          known /\ (origin = "persistent" \/ DonePending)
    /\ doubt = {} /\ known /\ origin = "persistent" => paired \/ Unpairing

\* Together: the pairing, the object's reason to exist, its listener, what it says
\* of itself and what a restart reads agree, between any two calls.
ScannerAgrees == TypeOK /\ ConnectionAgrees /\ ListenerIsPaired /\ PersistentIffPaired

\* Paired as signalled is where the machine is, once the supervisor is idle.
SignalsCatchUp == spc = "recv" /\ queue = <<>> => shown = paired

\* A pairing that succeeded makes the object persistent, or is undone first.  An
\* Unpair() in flight meanwhile can retire the promoted object for good.
DoneIsHandled == paired ~> (origin = "persistent" \/ ~paired \/ "overlap" \in doubt)

\* "Paired scanners are untouched" by the end of a discovery session.
SessionEndKeepsPaired == [][EndDiscovery /\ paired => known']_vars
============================================================================
