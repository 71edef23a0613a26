------------------------------ MODULE Discovery ------------------------------
(***************************************************************************)
(* Discovery (scanbus-daemon/src/discovery.rs): the session task behind    *)
(* StartDiscovery and StopDiscovery, the bus names that hold it open, and  *)
(* the registry it publishes into.                                         *)
(*                                                                         *)
(* start() and the stop path run under Discovery's lock; the stop path     *)
(* keeps it while it waits for the task.  The task does not take it.       *)
(***************************************************************************)
EXTENDS Sightings

CONSTANTS Clients   \* bus connections

VARIABLES
    bus,        \* clients on the bus
    gone,       \* NameOwnerChanged signals watch_owners has not handled
    calls,      \* the method call of each client that has not run yet
    references, \* state.owners: who holds the session open
    task,       \* where the session task is, "none" when it has finished
    stop,       \* the watch channel asks the task to stop
    expired,    \* SESSION_LIMIT has elapsed
    probed,     \* the backends the session probes
    pending,    \* probes of this round still in flight
    batch,      \* what a backend found and the task has not published
    seen,       \* scanners found in this round
    releasing   \* the stop path, which holds the lock while it is not "no"

clientVars == <<bus, gone, calls>>
round == <<probed, pending, batch, seen>>
session == <<task, stop, expired, round>>
vars == <<registry, clientVars, references, session, releasing>>

Methods == {"StartDiscovery", "StopDiscovery"}

\* Everything one backend may answer: an address for some of its scanners.  A
\* backend that errors or times out answers the empty set.
Finds(b) ==
    {F \in SUBSET {x \in Ids \X Addresses : BackendOf[x[1]] = b /\ x[2] \in Sites[x[1]]} :
        \A x, y \in F : x[1] = y[1] => x = y}

-----------------------------------------------------------------------------
(* The bus *)

\* A connection with a unique name nothing in the daemon knows.
Connect(c) ==
    /\ up /\ c \notin bus \cup gone \cup references
    /\ calls[c] = "none"
    /\ bus' = bus \cup {c}
    /\ UNCHANGED <<registry, gone, calls, references, session, releasing>>

\* The client exits or is killed; its calls may still be on their way.
Leave(c) ==
    /\ c \in bus
    /\ bus' = bus \ {c} /\ gone' = gone \cup {c}
    /\ UNCHANGED <<registry, calls, references, session, releasing>>

Call(c, m) ==
    /\ c \in bus /\ calls[c] = "none"
    /\ calls' = [calls EXCEPT ![c] = m]
    /\ UNCHANGED <<registry, bus, gone, references, session, releasing>>

-----------------------------------------------------------------------------
(* StartDiscovery *)

\* Mutant: joining a session gives it its full time again.
StartAfresh(c, selected) ==
    /\ calls[c] = "StartDiscovery" /\ releasing = "no"
    /\ calls' = [calls EXCEPT ![c] = "none"]
    /\ references' = references \cup {c}
    /\ expired' = FALSE
    /\ IF task # "none" THEN UNCHANGED <<task, stop, round>>
       ELSE /\ task' = "probing" /\ stop' = FALSE
            /\ probed' = selected /\ pending' = selected /\ batch' = {} /\ seen' = {}
    /\ UNCHANGED <<registry, bus, gone, releasing>>

\* Take a reference; spawn a session unless one is still running.
Start(c, selected) ==
    /\ calls[c] = "StartDiscovery" /\ releasing = "no"
    /\ calls' = [calls EXCEPT ![c] = "none"]
    /\ references' = references \cup {c}
    /\ IF task # "none" THEN UNCHANGED session
       ELSE /\ task' = "probing" /\ stop' = FALSE /\ expired' = FALSE
            /\ probed' = selected /\ pending' = selected /\ batch' = {} /\ seen' = {}
    /\ UNCHANGED <<registry, bus, gone, releasing>>

\* A filter that names no backend: nothing is taken and nothing started.
StartRefused(c) ==
    /\ calls[c] = "StartDiscovery"
    /\ calls' = [calls EXCEPT ![c] = "none"]
    /\ UNCHANGED <<registry, bus, gone, references, session, releasing>>

-----------------------------------------------------------------------------
(* StopDiscovery, and a client that left the bus *)

\* Mutant: any release ends the session.
ReleaseAll(c) ==
    /\ releasing = "no"
    /\ references' = references \ {c}
    /\ IF c \in references THEN releasing' = "awaiting" /\ stop' = (task # "none")
       ELSE UNCHANGED <<releasing, stop>>
    /\ UNCHANGED <<registry, bus, task, expired, round>>

\* release_owner: the last reference asks the task to stop and keeps the lock.
ReleaseOwner(c) ==
    /\ releasing = "no"
    /\ references' = references \ {c}
    /\ IF c \in references /\ references' = {}
         THEN releasing' = "awaiting" /\ stop' = (task # "none")
         ELSE UNCHANGED <<releasing, stop>>
    /\ UNCHANGED <<registry, bus, task, expired, round>>

Stop(c) ==
    /\ calls[c] = "StopDiscovery"
    /\ calls' = [calls EXCEPT ![c] = "none"] /\ UNCHANGED gone
    /\ ReleaseOwner(c)

\* watch_owners, on NameOwnerChanged.
OwnerGone(c) ==
    /\ c \in gone
    /\ gone' = gone \ {c} /\ UNCHANGED calls
    /\ ReleaseOwner(c)

\* stop_session: the task has been awaited, what it published is swept.
StopSession ==
    /\ releasing = "awaiting" /\ task = "none"
    /\ releasing' = "no"
    /\ EndDiscovery
    /\ UNCHANGED <<clientVars, references, session, up>>

-----------------------------------------------------------------------------
(* The session task: run_session *)

Finish ==
    /\ task' = "none" /\ stop' = FALSE
    /\ pending' = {} /\ batch' = {}
    /\ UNCHANGED <<expired, probed, seen>>

\* A probe joins: a stop requested meanwhile drops it and the others.
Answer(b) ==
    /\ task = "probing" /\ b \in pending /\ batch = {}
    /\ IF stop THEN Finish
       ELSE /\ pending' = pending \ {b} /\ batch' \in Finds(b)
            /\ UNCHANGED <<task, stop, expired, probed, seen>>
    /\ UNCHANGED <<registry, clientVars, references, releasing>>

\* Mutant: what was found is published without asking who has its address.
PublishUnchecked(i, a) ==
    /\ task = "probing" /\ <<i, a>> \in batch
    /\ batch' = batch \ {<<i, a>>}
    /\ seen' = seen \cup {i}
    /\ Publish(i, a, "discovered")
    /\ UNCHANGED <<clientVars, references, task, stop, expired, probed, pending,
                   releasing, up>>

\* One scanner of the answer; the lock is taken and released for each.
PublishFound(i, a) ==
    /\ task = "probing" /\ <<i, a>> \in batch
    /\ batch' = batch \ {<<i, a>>}
    /\ seen' = seen \cup {i}
    /\ Observe(i, a)
    /\ UNCHANGED <<clientVars, references, task, stop, expired, probed, pending,
                   releasing, up>>

\* Every probe has answered: mark what was not found, then sleep or end.
EndRound ==
    /\ task = "probing" /\ pending = {} /\ batch = {}
    /\ MarkUnseenOffline(probed, seen)
    /\ task' = IF expired THEN "ending" ELSE "sleeping"
    /\ UNCHANGED <<clientVars, references, stop, expired, round, releasing, up>>

\* PROBE_INTERVAL elapsed: another round.
NextRound ==
    /\ task = "sleeping"
    /\ task' = "probing" /\ pending' = probed /\ seen' = {}
    /\ UNCHANGED <<registry, clientVars, references, stop, expired, probed, batch,
                   releasing>>

\* The watch channel changed during the sleep.
WakeToStop ==
    /\ task = "sleeping" /\ stop
    /\ Finish
    /\ UNCHANGED <<registry, clientVars, references, releasing>>

\* Mutant: a session that reaches its limit leaves its objects behind.
EndByLimitSilently ==
    /\ task = "ending"
    /\ Finish
    /\ UNCHANGED <<registry, clientVars, references, releasing>>

\* Mutant: the task's own sweep waits for the lock of the stop path.
EndByLimitLocked ==
    /\ task = "ending" /\ releasing = "no"
    /\ EndDiscovery
    /\ Finish
    /\ UNCHANGED <<clientVars, references, releasing, up>>

\* The session limit: the task sweeps what it published itself.
EndByLimit ==
    /\ task = "ending"
    /\ EndDiscovery
    /\ Finish
    /\ UNCHANGED <<clientVars, references, releasing, up>>

Expire ==
    /\ task # "none" /\ ~expired
    /\ expired' = TRUE
    /\ UNCHANGED <<registry, clientVars, references, task, stop, round, releasing>>

-----------------------------------------------------------------------------
(* The rest of the daemon *)

\* Startup registers what the pairing store holds, before the name is owned.
Restore(i, a) ==
    /\ ~up
    /\ RegisterPersistent(i, a)
    /\ UNCHANGED <<clientVars, references, session, releasing, up>>

Own ==
    /\ OwnName
    /\ UNCHANGED <<clientVars, references, session, releasing>>

\* A pairing that succeeded, an Unpair() that did.
Paired(i) ==
    /\ up /\ Promote(i)
    /\ UNCHANGED <<clientVars, references, session, releasing, up>>

Unpaired(i) ==
    /\ up /\ Retire(i)
    /\ UNCHANGED <<clientVars, references, session, releasing, up>>

-----------------------------------------------------------------------------
(* Specification *)

Init ==
    /\ RegistryInit
    /\ bus = {} /\ gone = {} /\ calls = [c \in Clients |-> "none"] /\ references = {}
    /\ task = "none" /\ stop = FALSE /\ expired = FALSE
    /\ probed = {} /\ pending = {} /\ batch = {} /\ seen = {}
    /\ releasing = "no"

Session ==
    \/ \E b \in Backends : Answer(b)
    \/ \E i \in Ids, a \in Addresses : PublishFound(i, a)
    \/ EndRound \/ NextRound \/ WakeToStop \/ EndByLimit

Next ==
    \/ \E c \in Clients : Connect(c) \/ Leave(c) \/ \E m \in Methods : Call(c, m)
    \/ \E c \in Clients, selected \in SUBSET Backends : Start(c, selected)
    \/ \E c \in Clients : StartRefused(c) \/ Stop(c) \/ OwnerGone(c)
    \/ StopSession \/ Session \/ Expire
    \/ \E i \in Ids : \E a \in Sites[i] : Restore(i, a)
    \/ Own
    \/ \E i \in Ids : Paired(i) \/ Unpaired(i)

Spec == Init /\ [][Next]_vars

\* Each probe has a timeout, the task is polled, the limit is reached and the
\* stop path goes on once the task is over.
Fairness == WF_vars(Session) /\ WF_vars(StopSession) /\ WF_vars(Expire)

FairSpec == Spec /\ Fairness

-----------------------------------------------------------------------------
(* Properties *)

\* Every variable holds a value the code could store in it.
TypeOK ==
    /\ RegistryTypeOK
    /\ bus \subseteq Clients /\ gone \subseteq Clients /\ references \subseteq Clients
    /\ calls \in [Clients -> Methods \cup {"none"}]
    /\ task \in {"none", "probing", "sleeping", "ending"}
    /\ stop \in BOOLEAN /\ expired \in BOOLEAN
    /\ probed \subseteq Backends /\ pending \subseteq probed
    /\ batch \subseteq Ids \X Addresses /\ seen \subseteq Ids
    /\ releasing \in {"no", "awaiting"}

\* An object that only a probe justified exists only while a session runs or is
\* being taken down, however it ends.
DiscoveredNeedsSession ==
    (\E i \in Known : entries[i].origin = "discovered") => task # "none" \/ releasing # "no"

\* The session runs for somebody: one client's stop does not take it from
\* another, and the last one's does.
SessionHasOwner == task # "none" => (references = {} <=> releasing = "awaiting")

\* A scanner the round found reads as online when it ends, one it should have
\* found and did not as offline.
RoundSettlesStatus ==
    task \in {"sleeping", "ending"} =>
        \A i \in Known : BackendOf[i] \in probed => (entries[i].online <=> i \in seen)

\* Together: what the bus shows, between two steps of a session, is what the
\* session's owners and its probes justify.
SessionAgrees == DiscoveredNeedsSession /\ SessionHasOwner /\ RoundSettlesStatus

\* A scanner whose backend this session does not ask keeps its status.
FilterSparesOthers ==
    [][\A i \in Known \cap DOMAIN entries' :
          task # "none" /\ BackendOf[i] \notin probed
              => entries'[i].online = entries[i].online]_vars

\* A session ends, by its limit at the latest.
SessionEnds == task # "none" ~> task = "none"

\* StopDiscovery returns, however many backends hang.
StopReturns == releasing = "awaiting" ~> releasing = "no"

\* Together: neither a session nor the wait for its end lasts.
SessionsEnd == SessionEnds /\ StopReturns

\* "A client that crashed or was killed still owns nothing once NameOwnerChanged
\* says its name is gone."
ReferencesAreLive == references \subseteq bus \cup gone
============================================================================
