------------------------------ MODULE Pairing ------------------------------
(***************************************************************************)
(* PairingMachine (scanbus-core/src/pairing.rs) for one scanner, with the  *)
(* entry JsonPairingStore (scanbus-daemon/src/store.rs) keeps for it.      *)
(*                                                                         *)
(* Pair() spawns a driver task; the driver spawns a relay task that turns  *)
(* the backend's progress into states.  Both share the machine's state     *)
(* through a std Mutex, so a step here is one critical section, one        *)
(* broadcast or one store call.  Tokio aborts a task only where it is      *)
(* parked on an await; a task being polled runs on to its next await, and  *)
(* aborting the driver detaches its relay instead of stopping it.          *)
(*                                                                         *)
(* A broadcast made under the lock (pair, cancel) belongs to its critical  *)
(* section; one made after the lock is released is a step of its own.      *)
(***************************************************************************)
EXTENDS Naturals, Sequences

CONSTANTS
    Runs,            \* slots for driver tasks that can be alive at once
    Unpairers,       \* D-Bus calls of Unpair() that can be in flight at once
    Steps,           \* progress a backend reports before its last step
    ProgressBuffer,  \* PROGRESS_BUFFER, 16 in the code
    NoRun            \* inner.task = None

ASSUME RunsAssumption == NoRun \notin Runs
ASSUME BufferAssumption == ProgressBuffer \in Nat \ {0}
ASSUME StepsAssumption == Steps \subseteq {"checking", "installing", "awaiting"}

VARIABLES
    state,      \* inner.state
    paired,     \* inner.paired
    task,       \* inner.task, the abort handle Cancel takes
    pc,         \* where each driver is in run()
    chan,       \* progress the backend sent and the relay has not received
    pend,       \* a state the relay has set and not yet broadcast
    upc,        \* where each Unpair() is
    announced,  \* the last state broadcast to subscribers
    mem, disk,  \* is the scanner in the store's map, in pairings.json
    up,         \* restore has finished and the bus name is owned
    orphan,     \* drivers and relays whose machine was dropped
    doubt       \* history: what has happened since the daemon started

machine == <<state, paired, task, announced>>
drivers == <<pc, chan, pend, orphan>>
store == <<mem, disk>>
vars == <<state, paired, task, pc, chan, pend, upc, announced, mem, disk, up,
          orphan, doubt>>

-----------------------------------------------------------------------------
(* Values *)

InProgressStates == {"pairing", "installing_backend", "awaiting_confirmation"}
States == InProgressStates \cup {"none", "failed", "done"}
NoSend == "nothing"

Progress == Steps \cup {"ready", "failed"}

\* PairingProgress::pairing_state.
PairingState(p) ==
    CASE p = "checking"   -> "pairing"
      [] p = "installing" -> "installing_backend"
      [] p = "awaiting"   -> "awaiting_confirmation"
      [] p = "failed"     -> "failed"
      [] p = "ready"      -> NoSend

\* The awaits of run(), where an abort takes effect at once.
Parked == {"installing", "drain_ok", "drain_err", "starting"}
\* Between two awaits, before the driver has dropped its own handle.
Polled == {"saving", "committing", "failing"}
Live == Parked \cup Polled
Locations == Live \cup {"idle", "send_failed", "send_done"}

UnpairLocations == {"idle", "backend", "forgetting", "clearing", "sending"}

\* Something other than plain sequential use happened since startup: an
\* operation overlapped the tail of an earlier one, the store reported a failed
\* write, or a persisted pairing came back without the backend's half.
Doubts == {"overlap", "flush", "unbacked"}

Drained(r) == chan[r] = <<>> /\ pend[r] = NoSend
Free(r) == pc[r] = "idle" /\ Drained(r)

\* No driver, relay or Unpair() has anything left to do.
Quiet == (\A r \in Runs : Free(r)) /\ (\A u \in Unpairers : upc[u] = "idle")

\* The code sees nothing in progress, yet an earlier operation is in its tail.
Overlaps == ~Quiet /\ state \notin InProgressStates

DoubtIf(reason, b) == doubt' = IF b THEN doubt \cup {reason} ELSE doubt

-----------------------------------------------------------------------------
(* Writes to the machine by a task that may have outlived it *)

Assign(r, s, p, t) ==
    IF r \in orphan THEN UNCHANGED <<state, paired, task>>
    ELSE state' = s /\ paired' = p /\ task' = t

Broadcast(r, s) == announced' = IF r \in orphan THEN announced ELSE s

-----------------------------------------------------------------------------
(* JsonPairingStore: the map changes first, then persist() writes a         *)
(* temporary file and renames it.  It may fail before the rename (the file  *)
(* is unchanged) or on the directory's fsync after it.                      *)

Flush(entry, ok) ==
    /\ mem' = entry
    /\ \/ ok /\ disk' = entry /\ UNCHANGED doubt
       \/ ~ok /\ disk' \in {disk, entry} /\ DoubtIf("flush", TRUE)

SavePaired(ok) == Flush(TRUE, ok)

Forget(ok) ==
    IF mem THEN Flush(FALSE, ok)
    ELSE ok /\ UNCHANGED <<mem, disk, doubt>>

\* A write for any other scanner: persist() serialises the whole map.
OtherFlush ==
    /\ up
    /\ disk' = mem
    /\ UNCHANGED <<state, paired, task, pc, chan, pend, upc, announced, mem,
                   up, orphan, doubt>>

-----------------------------------------------------------------------------
(* Client calls *)

Init ==
    /\ state = "none" /\ paired = FALSE /\ task = NoRun
    /\ pc = [r \in Runs |-> "idle"]
    /\ chan = [r \in Runs |-> <<>>]
    /\ pend = [r \in Runs |-> NoSend]
    /\ upc = [u \in Unpairers |-> "idle"]
    /\ announced = "none"
    /\ mem = FALSE /\ disk = FALSE
    /\ up = TRUE
    /\ orphan = {}
    /\ doubt = {}

\* Mutant: a pairing in progress is not refused.
PairAgain(r) ==
    /\ up /\ Free(r) /\ ~paired
    /\ state' = "pairing" /\ announced' = "pairing" /\ task' = r
    /\ pc' = [pc EXCEPT ![r] = "installing"]
    /\ orphan' = orphan \ {r}
    /\ DoubtIf("overlap", Overlaps)
    /\ UNCHANGED <<paired, chan, pend, upc, mem, disk, up>>

\* pair(): the guard, the transition and the spawn are one critical section.
Pair(r) ==
    /\ up /\ Free(r)
    /\ ~paired /\ state \notin InProgressStates
    /\ state' = "pairing" /\ announced' = "pairing"
    /\ task' = r
    /\ pc' = [pc EXCEPT ![r] = "installing"]
    /\ orphan' = orphan \ {r}
    /\ DoubtIf("overlap", Overlaps)
    /\ UNCHANGED <<paired, chan, pend, upc, mem, disk, up>>

\* AbortHandle::abort on a driver: parked drivers are dropped, and with them
\* the sending half of the progress channel; a polled one never yields again.
Abort(r) == pc' = [pc EXCEPT ![r] = IF @ \in Parked THEN "idle" ELSE @]

\* Mutant: the cancelled state is set and not broadcast.
CancelSilently ==
    /\ up /\ task # NoRun
    /\ Abort(task)
    /\ task' = NoRun
    /\ state' = IF state \in InProgressStates THEN "none" ELSE state
    /\ DoubtIf("overlap", pc[task] \in Polled \/ ~Drained(task))
    /\ UNCHANGED <<announced, paired, chan, pend, upc, mem, disk, up, orphan>>

\* cancel(): the relay keeps whatever it has not delivered.
Cancel ==
    /\ up /\ task # NoRun
    /\ Abort(task)
    /\ task' = NoRun
    /\ IF state \in InProgressStates
         THEN state' = "none" /\ announced' = "none"
         ELSE UNCHANGED <<state, announced>>
    /\ DoubtIf("overlap", pc[task] \in Polled \/ ~Drained(task))
    /\ UNCHANGED <<paired, chan, pend, upc, mem, disk, up, orphan>>

-----------------------------------------------------------------------------
(* The driver: run() *)

\* ensure_installed reports one step; its send waits while the buffer is full.
Report(r, p) ==
    /\ pc[r] = "installing"
    /\ Len(chan[r]) < ProgressBuffer
    /\ chan' = [chan EXCEPT ![r] = Append(@, p)]
    /\ UNCHANGED <<machine, pc, pend, upc, mem, disk, up, orphan, doubt>>

\* ensure_installed returns, usually after one last step that says so.
Installed(r, last, next) ==
    /\ pc[r] = "installing"
    /\ Len(chan[r]) + Len(last) <= ProgressBuffer
    /\ chan' = [chan EXCEPT ![r] = @ \o last]
    /\ pc' = [pc EXCEPT ![r] = next]
    /\ UNCHANGED <<machine, pend, upc, mem, disk, up, orphan, doubt>>

InstalledOk(r) == \E last \in {<<>>, <<"ready">>} : Installed(r, last, "drain_ok")
InstalledErr(r) == \E last \in {<<>>, <<"failed">>} : Installed(r, last, "drain_err")

Resume(r, from, to) ==
    /\ pc[r] = from
    /\ pc' = [pc EXCEPT ![r] = to]
    /\ UNCHANGED <<machine, chan, pend, upc, mem, disk, up, orphan, doubt>>

\* relay.await, then either finish(Failed) or start_listening.await.
Drain(r) ==
    /\ Drained(r)
    /\ Resume(r, "drain_ok", "starting") \/ Resume(r, "drain_err", "failing")

\* Mutant: Done is published without being saved first.
StartListeningUnsaved(r) ==
    Resume(r, "starting", "committing") \/ Resume(r, "starting", "failing")

\* start_listening answers; the stream it returned is dropped at once.
StartListening(r) == Resume(r, "starting", "saving") \/ Resume(r, "starting", "failing")

\* store.save_paired: the store is synchronous, so the driver does not yield.
Save(r) ==
    /\ pc[r] = "saving"
    /\ \E ok \in BOOLEAN :
         /\ SavePaired(ok)
         /\ pc' = [pc EXCEPT ![r] = IF ok THEN "committing" ELSE "failing"]
    /\ UNCHANGED <<machine, chan, pend, upc, up, orphan>>

\* Mutant: the driver that is over leaves its handle behind.
CommitKeepingHandle(r) ==
    /\ pc[r] = "committing"
    /\ Assign(r, "done", TRUE, task)
    /\ pc' = [pc EXCEPT ![r] = "send_done"]
    /\ UNCHANGED <<chan, pend, upc, announced, mem, disk, up, orphan, doubt>>

\* The last critical section of run(): Done, Paired and the handle together.
Commit(r) ==
    /\ pc[r] = "committing"
    /\ Assign(r, "done", TRUE, NoRun)
    /\ pc' = [pc EXCEPT ![r] = "send_done"]
    /\ UNCHANGED <<chan, pend, upc, announced, mem, disk, up, orphan, doubt>>

\* Mutant: a failure ends the task and leaves the state where it was.
FinishInPlace(r) ==
    /\ pc[r] = "failing"
    /\ Assign(r, state, paired, NoRun)
    /\ pc' = [pc EXCEPT ![r] = "send_failed"]
    /\ UNCHANGED <<chan, pend, upc, announced, mem, disk, up, orphan, doubt>>

\* finish(Failed): clears the handle whoever's it is.
Finish(r) ==
    /\ pc[r] = "failing"
    /\ Assign(r, "failed", paired, NoRun)
    /\ pc' = [pc EXCEPT ![r] = "send_failed"]
    /\ UNCHANGED <<chan, pend, upc, announced, mem, disk, up, orphan, doubt>>

\* The broadcast after either critical section, and the end of the task.
Send(r) ==
    /\ \/ pc[r] = "send_done" /\ Broadcast(r, "done")
       \/ pc[r] = "send_failed" /\ Broadcast(r, "failed")
    /\ pc' = [pc EXCEPT ![r] = "idle"]
    /\ UNCHANGED <<state, paired, task, chan, pend, upc, mem, disk, up, orphan, doubt>>

-----------------------------------------------------------------------------
(* The relay task of a driver, alive until its channel is closed and empty *)

RelayReceive(r) ==
    /\ chan[r] # <<>> /\ pend[r] = NoSend
    /\ LET s == PairingState(Head(chan[r])) IN
         /\ pend' = [pend EXCEPT ![r] = s]
         /\ IF s = NoSend THEN UNCHANGED <<state, paired, task>>
            ELSE Assign(r, s, paired, task)
    /\ chan' = [chan EXCEPT ![r] = Tail(@)]
    /\ UNCHANGED <<announced, pc, upc, mem, disk, up, orphan, doubt>>

RelaySend(r) ==
    /\ pend[r] # NoSend
    /\ Broadcast(r, pend[r])
    /\ pend' = [pend EXCEPT ![r] = NoSend]
    /\ UNCHANGED <<state, paired, task, pc, chan, upc, mem, disk, up, orphan, doubt>>

-----------------------------------------------------------------------------
(* unpair() *)

Unpair(u) ==
    /\ up /\ upc[u] = "idle" /\ paired
    /\ task' = NoRun
    /\ upc' = [upc EXCEPT ![u] = "backend"]
    /\ DoubtIf("overlap", Overlaps)
    /\ UNCHANGED <<state, paired, announced, drivers, store, up>>

\* backend.stop_listening and backend.forget; a failure is only reported.
UnpairBackend(u) ==
    /\ upc[u] = "backend"
    /\ upc' = [upc EXCEPT ![u] = "forgetting"]
    /\ UNCHANGED <<machine, drivers, store, up, doubt>>

\* Mutant: the pairing is cleared whatever the store answered.
UnpairForgetRegardless(u) ==
    /\ upc[u] = "forgetting"
    /\ upc' = [upc EXCEPT ![u] = "clearing"]
    /\ UNCHANGED <<machine, drivers, store, up, doubt>>

\* store.forget; an error ends the call with the scanner still paired.
UnpairForget(u) ==
    /\ upc[u] = "forgetting"
    /\ \E ok \in BOOLEAN :
         /\ Forget(ok)
         /\ upc' = [upc EXCEPT ![u] = IF ok THEN "clearing" ELSE "idle"]
    /\ UNCHANGED <<machine, drivers, up>>

UnpairClear(u) ==
    /\ upc[u] = "clearing"
    /\ paired' = FALSE /\ state' = "none"
    /\ upc' = [upc EXCEPT ![u] = "sending"]
    /\ UNCHANGED <<task, announced, drivers, store, up, doubt>>

UnpairSend(u) ==
    /\ upc[u] = "sending"
    /\ announced' = "none"
    /\ upc' = [upc EXCEPT ![u] = "idle"]
    /\ UNCHANGED <<state, paired, task, drivers, store, up, doubt>>

-----------------------------------------------------------------------------
(* Lifetime of the machine *)

\* Drop: the object of an unpaired scanner is removed and the machine with it;
\* a later discovery publishes a new one.  Only the held driver is aborted.
DropMachine ==
    /\ up /\ ~paired /\ \A u \in Unpairers : upc[u] = "idle"
    /\ IF task = NoRun THEN UNCHANGED pc ELSE Abort(task)
    /\ orphan' = {r \in Runs : pc'[r] # "idle" \/ ~Drained(r)}
    /\ state' = "none" /\ announced' = "none" /\ task' = NoRun
    /\ DoubtIf("overlap", orphan' # {})
    /\ UNCHANGED <<paired, chan, pend, upc, store, up>>

\* The daemon dies; JsonPairingStore::with_path reads the file back.
Crash ==
    /\ state' = "none" /\ paired' = FALSE /\ task' = NoRun
    /\ pc' = [r \in Runs |-> "idle"]
    /\ chan' = [r \in Runs |-> <<>>]
    /\ pend' = [r \in Runs |-> NoSend]
    /\ upc' = [u \in Unpairers |-> "idle"]
    /\ announced' = "none"
    /\ mem' = disk /\ UNCHANGED disk
    /\ up' = FALSE
    /\ orphan' = {}
    /\ doubt' = {}

\* restore_paired or restore_failed, by what the backend says of the pairing.
Restore(backed) ==
    /\ ~up /\ mem
    /\ up' = TRUE
    /\ paired' = backed
    /\ state' = IF backed THEN "done" ELSE "failed"
    /\ announced' = state'
    /\ DoubtIf("unbacked", ~backed)
    /\ UNCHANGED <<task, drivers, upc, store>>

RestoreNothing ==
    /\ ~up /\ ~mem
    /\ up' = TRUE
    /\ UNCHANGED <<machine, drivers, upc, store, doubt>>

-----------------------------------------------------------------------------
(* Specification *)

Driver(r) ==
    \/ InstalledOk(r) \/ InstalledErr(r)
    \/ Drain(r) \/ StartListening(r) \/ Save(r) \/ Commit(r) \/ Finish(r) \/ Send(r)

Relay(r) == RelayReceive(r) \/ RelaySend(r)

Unpairing(u) == UnpairBackend(u) \/ UnpairForget(u) \/ UnpairClear(u) \/ UnpairSend(u)

Next ==
    \/ \E r \in Runs : Pair(r) \/ Driver(r) \/ Relay(r)
    \/ \E r \in Runs, p \in Steps : Report(r, p)
    \/ \E u \in Unpairers : Unpair(u) \/ Unpairing(u)
    \/ \E backed \in BOOLEAN : Restore(backed)
    \/ Cancel \/ OtherFlush \/ DropMachine \/ Crash \/ RestoreNothing

Spec == Init /\ [][Next]_vars

\* Tokio polls every task that can make progress, and ensure_installed,
\* start_listening and the store return.  Clients owe nothing.
Fairness ==
    /\ \A r \in Runs : WF_vars(Driver(r)) /\ WF_vars(Relay(r))
    /\ \A u \in Unpairers : WF_vars(Unpairing(u))
    /\ WF_vars(RestoreNothing) /\ WF_vars(Restore(TRUE) \/ Restore(FALSE))

FairSpec == Spec /\ Fairness

-----------------------------------------------------------------------------
(* Properties *)

\* Every variable holds a value the code could store in it.
TypeOK ==
    /\ state \in States /\ paired \in BOOLEAN /\ task \in Runs \cup {NoRun}
    /\ pc \in [Runs -> Locations]
    /\ chan \in [Runs -> Seq(Progress)]
    /\ pend \in [Runs -> States \cup {NoSend}]
    /\ upc \in [Unpairers -> UnpairLocations]
    /\ announced \in States
    /\ mem \in BOOLEAN /\ disk \in BOOLEAN /\ up \in BOOLEAN
    /\ orphan \in SUBSET Runs
    /\ doubt \in SUBSET Doubts

\* inner.task always names a driver that has not finished, so CancelPairing
\* never aborts a task that is already over, whatever overlapped.
TaskIsLive == task # NoRun => pc[task] \in Live /\ task \notin orphan

Drivers == {r \in Runs : pc[r] # "idle"}

\* Without overlap there is one driver at a time, and a state that is in
\* progress has a handle to cancel: a retry is never refused for good.
OneDriver ==
    "overlap" \notin doubt =>
        /\ \A r, q \in Drivers : r = q
        /\ state \in InProgressStates => task # NoRun

\* Together: whoever is driving a pairing, the machine knows, and can cancel.
DriverIsKnown == TaskIsLive /\ OneDriver

\* Once nothing is left to broadcast, subscribers have seen the state the
\* machine is in, although most broadcasts are made outside the lock.
LastWordIsState ==
    "overlap" \notin doubt /\ Quiet => announced = state

\* Paired=true is on disk from the moment it can be read until unpair() has
\* forgotten it (save_paired runs before Done).
PairedIsDurable ==
    doubt = {} /\ paired => disk \/ \E u \in Unpairers : upc[u] = "clearing"

\* A scanner that reads as unpaired does not come back paired at a restart
\* (forget runs before Paired is cleared).
UnpairedIsForgotten ==
    doubt = {} /\ up /\ ~paired /\ disk => \E r \in Runs : pc[r] = "committing"

\* Together: a restart reads from the file what clients were told, whichever side
\* of a store call the daemon died on.
StoreAgrees == PairedIsDurable /\ UnpairedIsForgotten

\* With no task left to run, the state is not in progress; otherwise pair()
\* answers AlreadyInProgress and cancel() finds no handle, until a restart.
NothingHangs == Quiet => state \notin InProgressStates

\* When unpair() tells clients the pairing is gone, a restart agrees.
UnpairIsDurable ==
    [][\A u \in Unpairers : upc[u] = "clearing" /\ upc'[u] = "sending" => ~disk']_vars

\* A pairing that is running leaves the in-progress states by itself.
PairingSettles ==
    state \in InProgressStates ~> (state \notin InProgressStates \/ "overlap" \in doubt)
============================================================================
