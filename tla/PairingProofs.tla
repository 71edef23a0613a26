--------------------------- MODULE PairingProofs ---------------------------
(***************************************************************************)
(* Proofs about Pairing, for any number of driver slots and Unpair()       *)
(* calls and any buffer size.                                              *)
(*                                                                         *)
(* The properties say what holds while no operation has overlapped the     *)
(* tail of an earlier one.  They are not inductive by themselves: the      *)
(* strengthening says that without overlap one activity (a driver with its *)
(* relay, or one Unpair) is in flight, what the machine looks like at each *)
(* of its locations, and which broadcast is still owed.                    *)
(***************************************************************************)
EXTENDS Pairing, TLAPS

NoOverlap == "overlap" \notin doubt

\* One activity at a time.
Alone ==
    /\ orphan = {}
    /\ \A r, q \in Runs : ~Free(r) /\ ~Free(q) => r = q
    /\ \A r \in Runs, u \in Unpairers : ~Free(r) => upc[u] = "idle"
    /\ \A u, v \in Unpairers : upc[u] # "idle" /\ upc[v] # "idle" => u = v

\* Where a driver is, and what that says of the machine.
DriverState ==
    /\ state \in InProgressStates => task # NoRun
    /\ \A r \in Runs :
        /\ pc[r] \in Live => task = r /\ ~paired
        /\ ~Drained(r) => pc[r] \in {"installing", "drain_ok", "drain_err"}
        /\ pc[r] = "send_done" => state = "done" /\ paired
        /\ pc[r] = "send_failed" => state = "failed"

UnpairState ==
    \A u \in Unpairers :
        /\ upc[u] = "sending" => state = "none" /\ ~paired
        /\ upc[u] \in {"backend", "forgetting", "clearing"} => paired

\* A broadcast that is owed carries the current state.
Owed ==
    \/ announced = state
    \/ \E r \in Runs : pend[r] # NoSend \/ pc[r] \in {"send_done", "send_failed"}
    \/ \E u \in Unpairers : upc[u] = "sending"

PendIsState == \A r \in Runs : pend[r] # NoSend => pend[r] = state

Down == ~up => /\ Quiet /\ task = NoRun /\ ~paired
               /\ state = "none" /\ announced = "none" /\ doubt = {} /\ mem = disk

\* What the store holds while every flush has succeeded.
Stored ==
    /\ mem = disk
    /\ paired => disk \/ \E u \in Unpairers : upc[u] = "clearing"
    /\ \A u \in Unpairers : upc[u] = "clearing" => ~disk
    /\ \A r \in Runs : pc[r] = "committing" => disk
    /\ up /\ ~paired /\ disk => \E r \in Runs : pc[r] = "committing"

IInv ==
    /\ TypeOK
    /\ TaskIsLive
    /\ Down
    /\ NoOverlap => Alone /\ DriverState /\ UnpairState /\ Owed /\ PendIsState
    /\ doubt = {} => Stored

-----------------------------------------------------------------------------
(* Type correctness *)

\* What the relay makes of a progress report is a state or nothing.
LEMMA PairingStateType ==
    ASSUME NEW p \in Progress
    PROVE  PairingState(p) \in States \cup {NoSend}
BY StepsAssumption DEF PairingState, Progress, States, InProgressStates, NoSend

\* The last step a backend reports fits the progress channel's type.
LEMMA LastStepType == {<<>>, <<"ready">>, <<"failed">>} \subseteq Seq(Progress)
<1>1. "ready" \in Progress /\ "failed" \in Progress
  BY DEF Progress
<1> QED
  BY <1>1

USE DEF machine, drivers, store

\* A driver that goes on to another place in run() keeps the types.
LEMMA ResumeType ==
    ASSUME TypeOK, NEW r \in Runs, NEW from, NEW to \in Locations, Resume(r, from, to)
    PROVE  TypeOK'
BY DEF TypeOK, Resume

\* The type invariant is preserved by every step.
LEMMA TypeStep ==
    ASSUME TypeOK, [Next]_vars
    PROVE  TypeOK'
<1> USE RunsAssumption, BufferAssumption, StepsAssumption
<1> USE DEF TypeOK
<1> USE DEF States, InProgressStates, Locations, Live, Parked, Polled, UnpairLocations, Doubts,
        DoubtIf, NoSend, Progress
<1>1. ASSUME NEW r \in Runs, Pair(r) PROVE TypeOK'
  BY <1>1 DEF Pair
<1>2. ASSUME NEW r \in Runs, NEW p \in Steps, Report(r, p) PROVE TypeOK'
  BY <1>2 DEF Report
<1>3. ASSUME NEW r \in Runs, InstalledOk(r) PROVE TypeOK'
  <2>1. PICK last \in {<<>>, <<"ready">>} : Installed(r, last, "drain_ok")
    BY <1>3 DEF InstalledOk
  <2>2. last \in Seq(Progress)
    BY LastStepType
  <2>3. chan[r] \o last \in Seq(Progress)
    BY <2>2
  <2> QED
    BY <2>1, <2>3 DEF Installed
<1>4. ASSUME NEW r \in Runs, InstalledErr(r) PROVE TypeOK'
  <2>1. PICK last \in {<<>>, <<"failed">>} : Installed(r, last, "drain_err")
    BY <1>4 DEF InstalledErr
  <2>2. last \in Seq(Progress)
    BY LastStepType
  <2>3. chan[r] \o last \in Seq(Progress)
    BY <2>2
  <2> QED
    BY <2>1, <2>3 DEF Installed
<1>5. ASSUME NEW r \in Runs, Drain(r) PROVE TypeOK'
  <2>1. Resume(r, "drain_ok", "starting") \/ Resume(r, "drain_err", "failing")
    BY <1>5 DEF Drain
  <2> QED
    BY <2>1, ResumeType
<1>6. ASSUME NEW r \in Runs, StartListening(r) PROVE TypeOK'
  BY <1>6, ResumeType DEF StartListening
<1>7. ASSUME NEW r \in Runs, Save(r) PROVE TypeOK'
  <2>1. pc' \in [Runs -> Locations]
    BY <1>7 DEF Save
  <2>2. mem' \in BOOLEAN /\ disk' \in BOOLEAN /\ doubt' \in SUBSET Doubts
    BY <1>7 DEF Save, SavePaired, Flush
  <2>3. UNCHANGED <<machine, chan, pend, upc, up, orphan>>
    BY <1>7 DEF Save
  <2> QED
    BY <2>1, <2>2, <2>3
<1>8. ASSUME NEW r \in Runs, Commit(r) PROVE TypeOK'
  BY <1>8 DEF Commit, Assign
<1>9. ASSUME NEW r \in Runs, Finish(r) PROVE TypeOK'
  BY <1>9 DEF Finish, Assign
<1>10. ASSUME NEW r \in Runs, Send(r) PROVE TypeOK'
  BY <1>10 DEF Send, Broadcast
<1>11. ASSUME NEW r \in Runs, RelayReceive(r) PROVE TypeOK'
  <2>1. Head(chan[r]) \in Progress /\ Tail(chan[r]) \in Seq(Progress)
    BY <1>11 DEF RelayReceive
  <2>2. PairingState(Head(chan[r])) \in States \cup {NoSend}
    BY <2>1, PairingStateType
  <2>3. chan' \in [Runs -> Seq(Progress)] /\ pend' \in [Runs -> States \cup {NoSend}]
    BY <1>11, <2>1, <2>2 DEF RelayReceive
  <2>4. state' \in States /\ paired' \in BOOLEAN /\ task' \in Runs \cup {NoRun}
    BY <1>11, <2>2 DEF RelayReceive, Assign
  <2> QED
    BY <1>11, <2>3, <2>4 DEF RelayReceive
<1>12. ASSUME NEW r \in Runs, RelaySend(r) PROVE TypeOK'
  BY <1>12 DEF RelaySend, Broadcast
<1>13. ASSUME NEW u \in Unpairers, Unpair(u) PROVE TypeOK'
  BY <1>13 DEF Unpair
<1>14. ASSUME NEW u \in Unpairers, Unpairing(u) PROVE TypeOK'
  <2>1. CASE UnpairBackend(u)
    BY <2>1 DEF UnpairBackend
  <2>2. CASE UnpairForget(u)
    <3>1. upc' \in [Unpairers -> UnpairLocations]
      BY <2>2 DEF UnpairForget
    <3>2. mem' \in BOOLEAN /\ disk' \in BOOLEAN /\ doubt' \in SUBSET Doubts
      BY <2>2 DEF UnpairForget, Forget, Flush
    <3>3. UNCHANGED <<machine, drivers, up>>
      BY <2>2 DEF UnpairForget
    <3> QED
      BY <3>1, <3>2, <3>3
  <2>3. CASE UnpairClear(u)
    BY <2>3 DEF UnpairClear
  <2>4. CASE UnpairSend(u)
    BY <2>4 DEF UnpairSend
  <2> QED
    BY <1>14, <2>1, <2>2, <2>3, <2>4 DEF Unpairing
<1>15. ASSUME NEW backed \in BOOLEAN, Restore(backed) PROVE TypeOK'
  BY <1>15 DEF Restore
<1>16. CASE Cancel
  BY <1>16 DEF Cancel, Abort
<1>17. CASE OtherFlush
  BY <1>17 DEF OtherFlush
<1>18. CASE DropMachine
  <2>1. pc' \in [Runs -> Locations]
    BY <1>18 DEF DropMachine, Abort
  <2>2. orphan' \in SUBSET Runs
    BY <1>18 DEF DropMachine
  <2>3. doubt' \in SUBSET Doubts
    BY <1>18 DEF DropMachine
  <2> QED
    BY <1>18, <2>1, <2>2, <2>3 DEF DropMachine
<1>19. CASE Crash
  <2>1. chan' \in [Runs -> Seq(Progress)]
    BY <1>19, LastStepType DEF Crash
  <2>2. pc' \in [Runs -> Locations] /\ pend' \in [Runs -> States \cup {NoSend}]
    BY <1>19 DEF Crash
  <2>3. upc' \in [Unpairers -> UnpairLocations]
    BY <1>19 DEF Crash
  <2> QED
    BY <1>19, <2>1, <2>2, <2>3 DEF Crash
<1>20. CASE RestoreNothing
  BY <1>20 DEF RestoreNothing
<1>21. CASE UNCHANGED vars
  BY <1>21 DEF vars
<1> QED
  BY <1>1, <1>2, <1>3, <1>4, <1>5, <1>6, <1>7, <1>8, <1>9, <1>10, <1>11, <1>12, <1>13,
     <1>14, <1>15, <1>16, <1>17, <1>18, <1>19, <1>20, <1>21 DEF Next, Driver, Relay

-----------------------------------------------------------------------------
(* TaskIsLive *)

\* A held handle keeps naming a live driver.
LEMMA TaskStep ==
    ASSUME TypeOK, TaskIsLive, [Next]_vars
    PROVE  TaskIsLive'
<1> USE RunsAssumption DEF TaskIsLive, TypeOK, Live, Parked, Polled, Locations
<1>1. ASSUME NEW r \in Runs, Pair(r) PROVE TaskIsLive'
  BY <1>1 DEF Pair, Free, Drained
<1>2. ASSUME NEW r \in Runs, NEW p \in Steps, Report(r, p) PROVE TaskIsLive'
  BY <1>2 DEF Report
<1>3. ASSUME NEW r \in Runs, InstalledOk(r) PROVE TaskIsLive'
  BY <1>3 DEF InstalledOk, Installed
<1>4. ASSUME NEW r \in Runs, InstalledErr(r) PROVE TaskIsLive'
  BY <1>4 DEF InstalledErr, Installed
<1>5. ASSUME NEW r \in Runs, Drain(r) PROVE TaskIsLive'
  BY <1>5 DEF Drain, Resume
<1>6. ASSUME NEW r \in Runs, StartListening(r) PROVE TaskIsLive'
  BY <1>6 DEF StartListening, Resume
<1>7. ASSUME NEW r \in Runs, Save(r) PROVE TaskIsLive'
  BY <1>7 DEF Save
<1>8. ASSUME NEW r \in Runs, Commit(r) PROVE TaskIsLive'
  BY <1>8 DEF Commit, Assign
<1>9. ASSUME NEW r \in Runs, Finish(r) PROVE TaskIsLive'
  BY <1>9 DEF Finish, Assign
<1>10. ASSUME NEW r \in Runs, Send(r) PROVE TaskIsLive'
  BY <1>10 DEF Send
<1>11. ASSUME NEW r \in Runs, RelayReceive(r) PROVE TaskIsLive'
  BY <1>11 DEF RelayReceive, Assign
<1>12. ASSUME NEW r \in Runs, RelaySend(r) PROVE TaskIsLive'
  BY <1>12 DEF RelaySend
<1>13. ASSUME NEW u \in Unpairers, Unpair(u) PROVE TaskIsLive'
  BY <1>13 DEF Unpair
<1>14. ASSUME NEW u \in Unpairers, Unpairing(u) PROVE TaskIsLive'
  BY <1>14 DEF Unpairing, UnpairBackend, UnpairForget, UnpairClear, UnpairSend
<1>15. ASSUME NEW backed \in BOOLEAN, Restore(backed) PROVE TaskIsLive'
  BY <1>15 DEF Restore
<1>16. CASE Cancel
  BY <1>16 DEF Cancel, Abort
<1>17. CASE OtherFlush
  BY <1>17 DEF OtherFlush
<1>18. CASE DropMachine
  BY <1>18 DEF DropMachine, Abort, Drained
<1>19. CASE Crash
  BY <1>19 DEF Crash
<1>20. CASE RestoreNothing
  BY <1>20 DEF RestoreNothing
<1>21. CASE UNCHANGED vars
  BY <1>21 DEF vars
<1> QED
  BY <1>1, <1>2, <1>3, <1>4, <1>5, <1>6, <1>7, <1>8, <1>9, <1>10, <1>11, <1>12, <1>13, <1>14, <1>15, <1>16, <1>17, <1>18, <1>19, <1>20, <1>21
     DEF Next, Driver, Relay

-----------------------------------------------------------------------------
(* Without overlap *)

\* Only a restart takes a doubt back.
LEMMA DoubtGrows ==
    ASSUME [Next]_vars, ~Crash
    PROVE  doubt \subseteq doubt'
BY DEF Next, vars, Driver, Relay, Unpairing, Pair, Report, InstalledOk, InstalledErr, Installed,
       Drain, Resume, StartListening, Save, SavePaired, Flush, Commit, Finish, Send,
       RelayReceive, RelaySend, Unpair, UnpairBackend, UnpairForget, Forget, UnpairClear,
       UnpairSend, Restore, Cancel, OtherFlush, DropMachine, RestoreNothing, DoubtIf

Tidy == Alone /\ DriverState /\ UnpairState /\ Owed /\ PendIsState

\* A step that is not a restart and leaves no overlap keeps the machine tidy.
LEMMA TidyStep ==
    ASSUME TypeOK, TaskIsLive, Tidy, Down, NoOverlap', [Next]_vars, ~Crash
    PROVE  Tidy'
<1> USE RunsAssumption
<1> USE DEF TypeOK, TaskIsLive, DoubtIf, NoOverlap, Tidy, Alone, DriverState, UnpairState, Owed,
        PendIsState, Free, Drained, Live, Parked, Polled, InProgressStates
<1>1. ASSUME NEW r \in Runs, Pair(r) PROVE Tidy'
  BY <1>1 DEF Pair, Overlaps, Quiet
<1>2. ASSUME NEW r \in Runs, NEW p \in Steps, Report(r, p) PROVE Tidy'
  BY <1>2 DEF Report
<1>3. ASSUME NEW r \in Runs, InstalledOk(r) PROVE Tidy'
  BY <1>3 DEF InstalledOk, Installed
<1>4. ASSUME NEW r \in Runs, InstalledErr(r) PROVE Tidy'
  BY <1>4 DEF InstalledErr, Installed
<1>5. ASSUME NEW r \in Runs, Drain(r) PROVE Tidy'
  <2>1. CASE Resume(r, "drain_ok", "starting")
    BY <1>5, <2>1 DEF Drain, Resume
  <2>2. CASE Resume(r, "drain_err", "failing")
    BY <1>5, <2>2 DEF Drain, Resume
  <2> QED
    BY <1>5, <2>1, <2>2 DEF Drain
<1>6. ASSUME NEW r \in Runs, StartListening(r) PROVE Tidy'
  BY <1>6 DEF StartListening, Resume
<1>7. ASSUME NEW r \in Runs, Save(r) PROVE Tidy'
  BY <1>7 DEF Save
<1>8. ASSUME NEW r \in Runs, Commit(r) PROVE Tidy'
  BY <1>8 DEF Commit, Assign
<1>9. ASSUME NEW r \in Runs, Finish(r) PROVE Tidy'
  <2>1. r \notin orphan /\ task = r
    BY <1>9 DEF Finish
  <2>2. state' = "failed" /\ task' = NoRun /\ UNCHANGED paired
    BY <1>9, <2>1 DEF Finish, Assign
  <2>3. pc' = [pc EXCEPT ![r] = "send_failed"] /\ UNCHANGED <<chan, pend, upc, announced, orphan>>
    BY <1>9 DEF Finish
  <2>4. Drained(r) /\ \A q \in Runs : q # r => Free(q)
    BY <1>9 DEF Finish
  <2>5. Alone'
    <3> HIDE DEF TypeOK, TaskIsLive, Tidy, DriverState, UnpairState, Owed, PendIsState
    <3>1. \A q \in Runs : ~Free(q) \/ ~Free(q)' => q = r
      BY <2>3, <2>4 DEF TypeOK
    <3>2. ~Free(r)
      BY <1>9 DEF Finish
    <3> QED
      BY <2>3, <3>1, <3>2 DEF Tidy
  <2>6. DriverState'
    BY <2>2, <2>3, <2>4
  <2>7. UnpairState' /\ Owed' /\ PendIsState'
    BY <2>1, <2>2, <2>3, <2>4, <1>9 DEF Finish
  <2> QED
    BY <2>5, <2>6, <2>7
<1>10. ASSUME NEW r \in Runs, Send(r) PROVE Tidy'
  BY <1>10 DEF Send, Broadcast
<1>11. ASSUME NEW r \in Runs, RelayReceive(r) PROVE Tidy'
  <2>1. r \notin orphan /\ task = r /\ pc[r] \in {"installing", "drain_ok", "drain_err"}
    BY <1>11 DEF RelayReceive
  <2>2. /\ \A q \in Runs : q # r => Free(q)
        /\ \A u \in Unpairers : upc[u] = "idle"
    BY <1>11 DEF RelayReceive
  <2>3. state' = IF pend'[r] = NoSend THEN state ELSE pend'[r]
    <3> DEFINE s == PairingState(Head(chan[r]))
    <3>1. pend' = [pend EXCEPT ![r] = s]
      BY <1>11 DEF RelayReceive
    <3>2. s = NoSend => state' = state
      BY <1>11 DEF RelayReceive
    <3>3. s # NoSend => state' = s
      BY <1>11, <2>1 DEF RelayReceive, Assign
    <3> HIDE DEF s
    <3>4. pend'[r] = s
      BY <3>1
    <3> QED
      BY <3>2, <3>3, <3>4
  <2>4. /\ paired' = paired /\ task' = task
        /\ \A q \in Runs : q # r => pend'[q] = pend[q] /\ chan'[q] = chan[q]
    BY <1>11 DEF RelayReceive, Assign
  <2> QED
    BY <1>11, <2>1, <2>2, <2>3, <2>4 DEF RelayReceive, NoSend
<1>12. ASSUME NEW r \in Runs, RelaySend(r) PROVE Tidy'
  BY <1>12 DEF RelaySend, Broadcast
<1>13. ASSUME NEW u \in Unpairers, Unpair(u) PROVE Tidy'
  <2>1. state \notin InProgressStates
    BY <1>13 DEF Unpair
  <2>2. Quiet
    BY <1>13, <2>1 DEF Unpair, Overlaps
  <2> QED
    BY <1>13, <2>2 DEF Unpair, Quiet
<1>14. ASSUME NEW u \in Unpairers, Unpairing(u) PROVE Tidy'
  BY <1>14 DEF Unpairing, UnpairBackend, UnpairForget, UnpairClear, UnpairSend
<1>15. ASSUME NEW backed \in BOOLEAN, Restore(backed) PROVE Tidy'
  BY <1>15 DEF Restore, Down, Quiet
<1>16. CASE Cancel
  <2>1. /\ task \in Runs /\ pc[task] \in Parked /\ Drained(task)
        /\ \A q \in Runs : q # task => Free(q)
        /\ \A u \in Unpairers : upc[u] = "idle"
    BY <1>16 DEF Cancel
  <2>2. announced = state
    BY <2>1
  <2>3. \A r \in Runs : pc'[r] = "idle"
    BY <1>16, <2>1 DEF Cancel, Abort
  <2> QED
    BY <1>16, <2>1, <2>2, <2>3 DEF Cancel
<1>17. CASE OtherFlush
  BY <1>17 DEF OtherFlush
<1>18. CASE DropMachine
  BY <1>18 DEF DropMachine, Abort
<1>20. CASE RestoreNothing
  BY <1>20 DEF RestoreNothing
<1>21. CASE UNCHANGED vars
  BY <1>21 DEF vars
<1> QED
  BY <1>1, <1>2, <1>3, <1>4, <1>5, <1>6, <1>7, <1>8, <1>9, <1>10, <1>11, <1>12, <1>13,
     <1>14, <1>15, <1>16, <1>17, <1>18, <1>20, <1>21
     DEF Next, Driver, Relay

-----------------------------------------------------------------------------
(* While the daemon is down, and while every flush succeeds *)

\* Between a crash and the restore no task runs and no call is accepted.
LEMMA DownStep ==
    ASSUME TypeOK, Down, [Next]_vars
    PROVE  Down'
<1> USE DEF TypeOK, Down, Quiet, Free, Drained
<1>1. ASSUME NEW r \in Runs, Pair(r) PROVE Down'
  BY <1>1 DEF Pair
<1>2. ASSUME NEW r \in Runs, NEW p \in Steps, Report(r, p) PROVE Down'
  BY <1>2 DEF Report
<1>3. ASSUME NEW r \in Runs, InstalledOk(r) PROVE Down'
  BY <1>3 DEF InstalledOk, Installed
<1>4. ASSUME NEW r \in Runs, InstalledErr(r) PROVE Down'
  BY <1>4 DEF InstalledErr, Installed
<1>5. ASSUME NEW r \in Runs, Drain(r) PROVE Down'
  BY <1>5 DEF Drain, Resume
<1>6. ASSUME NEW r \in Runs, StartListening(r) PROVE Down'
  BY <1>6 DEF StartListening, Resume
<1>7. ASSUME NEW r \in Runs, Save(r) PROVE Down'
  BY <1>7 DEF Save
<1>8. ASSUME NEW r \in Runs, Commit(r) PROVE Down'
  BY <1>8 DEF Commit
<1>9. ASSUME NEW r \in Runs, Finish(r) PROVE Down'
  BY <1>9 DEF Finish
<1>10. ASSUME NEW r \in Runs, Send(r) PROVE Down'
  BY <1>10 DEF Send
<1>11. ASSUME NEW r \in Runs, RelayReceive(r) PROVE Down'
  BY <1>11 DEF RelayReceive
<1>12. ASSUME NEW r \in Runs, RelaySend(r) PROVE Down'
  BY <1>12 DEF RelaySend
<1>13. ASSUME NEW u \in Unpairers, Unpair(u) PROVE Down'
  BY <1>13 DEF Unpair
<1>14. ASSUME NEW u \in Unpairers, Unpairing(u) PROVE Down'
  BY <1>14 DEF Unpairing, UnpairBackend, UnpairForget, UnpairClear, UnpairSend
<1>15. ASSUME NEW backed \in BOOLEAN, Restore(backed) PROVE Down'
  BY <1>15 DEF Restore
<1>16. CASE Cancel
  BY <1>16 DEF Cancel
<1>17. CASE OtherFlush
  BY <1>17 DEF OtherFlush
<1>18. CASE DropMachine
  BY <1>18 DEF DropMachine
<1>19. CASE Crash
  BY <1>19 DEF Crash
<1>20. CASE RestoreNothing
  BY <1>20 DEF RestoreNothing
<1>21. CASE UNCHANGED vars
  BY <1>21 DEF vars
<1> QED
  BY <1>1, <1>2, <1>3, <1>4, <1>5, <1>6, <1>7, <1>8, <1>9, <1>10, <1>11, <1>12, <1>13,
     <1>14, <1>15, <1>16, <1>17, <1>18, <1>19, <1>20, <1>21
     DEF Next, Driver, Relay

\* With every flush successful the map and the file agree, and they hold the
\* scanner exactly while it is paired or its driver is about to say so.
LEMMA StoredStep ==
    ASSUME TypeOK, Tidy, Down, Stored, doubt' = {}, [Next]_vars, ~Crash
    PROVE  Stored'
<1> USE RunsAssumption
<1> USE DEF TypeOK, Down, Tidy, Alone, DriverState, UnpairState, Stored, DoubtIf, Free, Live, Polled
<1>1. ASSUME NEW r \in Runs, Pair(r) PROVE Stored'
  BY <1>1 DEF Pair
<1>2. ASSUME NEW r \in Runs, NEW p \in Steps, Report(r, p) PROVE Stored'
  BY <1>2 DEF Report
<1>3. ASSUME NEW r \in Runs, InstalledOk(r) PROVE Stored'
  BY <1>3 DEF InstalledOk, Installed
<1>4. ASSUME NEW r \in Runs, InstalledErr(r) PROVE Stored'
  BY <1>4 DEF InstalledErr, Installed
<1>5. ASSUME NEW r \in Runs, Drain(r) PROVE Stored'
  BY <1>5 DEF Drain, Resume
<1>6. ASSUME NEW r \in Runs, StartListening(r) PROVE Stored'
  BY <1>6 DEF StartListening, Resume
<1>7. ASSUME NEW r \in Runs, Save(r) PROVE Stored'
  BY <1>7 DEF Save, SavePaired, Flush
<1>8. ASSUME NEW r \in Runs, Commit(r) PROVE Stored'
  BY <1>8 DEF Commit, Assign
<1>9. ASSUME NEW r \in Runs, Finish(r) PROVE Stored'
  BY <1>9 DEF Finish, Assign
<1>10. ASSUME NEW r \in Runs, Send(r) PROVE Stored'
  BY <1>10 DEF Send
<1>11. ASSUME NEW r \in Runs, RelayReceive(r) PROVE Stored'
  BY <1>11 DEF RelayReceive, Assign
<1>12. ASSUME NEW r \in Runs, RelaySend(r) PROVE Stored'
  BY <1>12 DEF RelaySend
<1>13. ASSUME NEW u \in Unpairers, Unpair(u) PROVE Stored'
  BY <1>13 DEF Unpair
<1>14. ASSUME NEW u \in Unpairers, Unpairing(u) PROVE Stored'
  <2>1. CASE UnpairBackend(u)
    BY <2>1 DEF UnpairBackend
  <2>2. CASE UnpairForget(u)
    BY <2>2 DEF UnpairForget, Forget, Flush
  <2>3. CASE UnpairClear(u)
    BY <2>3 DEF UnpairClear
  <2>4. CASE UnpairSend(u)
    BY <2>4 DEF UnpairSend
  <2> QED
    BY <1>14, <2>1, <2>2, <2>3, <2>4 DEF Unpairing
<1>15. ASSUME NEW backed \in BOOLEAN, Restore(backed) PROVE Stored'
  BY <1>15 DEF Restore
<1>16. CASE Cancel
  BY <1>16 DEF Cancel, Abort, Parked
<1>17. CASE OtherFlush
  BY <1>17 DEF OtherFlush
<1>18. CASE DropMachine
  BY <1>18 DEF DropMachine, Abort, Parked
<1>20. CASE RestoreNothing
  BY <1>20 DEF RestoreNothing
<1>21. CASE UNCHANGED vars
  BY <1>21 DEF vars
<1> QED
  BY <1>1, <1>2, <1>3, <1>4, <1>5, <1>6, <1>7, <1>8, <1>9, <1>10, <1>11, <1>12, <1>13,
     <1>14, <1>15, <1>16, <1>17, <1>18, <1>20, <1>21
     DEF Next, Driver, Relay

\* A restart is as tidy as a first start.
LEMMA CrashStep ==
    ASSUME TypeOK, Crash
    PROVE  Tidy' /\ Stored'
<1>1. Tidy'
  BY DEF Crash, Tidy, Alone, DriverState, UnpairState, Owed, PendIsState, Free, Drained, Live,
         Parked, Polled, InProgressStates
<1>2. Stored'
  BY DEF Crash, Stored, TypeOK
<1> QED
  BY <1>1, <1>2

-----------------------------------------------------------------------------
(* The inductive invariant and what follows from it *)

\* The strengthening holds initially.
LEMMA InitInv == Init => IInv
<1> SUFFICES ASSUME Init PROVE IInv
  OBVIOUS
<1> USE DEF Init
<1>1. TypeOK
  BY LastStepType DEF TypeOK, States, Locations, UnpairLocations, NoSend
<1>2. Down /\ Stored /\ TaskIsLive
  BY DEF Down, Stored, TaskIsLive
<1>3. Alone /\ DriverState /\ UnpairState /\ Owed /\ PendIsState
  BY DEF Alone, DriverState, UnpairState, Owed, PendIsState, Free, Drained, Live, Parked,
         Polled, InProgressStates
<1> QED
  BY <1>1, <1>2, <1>3 DEF IInv

\* Every step keeps it: within a life of the daemon, and across a restart.
LEMMA StepInv == IInv /\ [Next]_vars => IInv'
<1> SUFFICES ASSUME IInv, [Next]_vars PROVE IInv'
  OBVIOUS
<1>1. TypeOK' /\ TaskIsLive' /\ Down'
  BY TypeStep, TaskStep, DownStep DEF IInv
<1>2. CASE Crash
  BY <1>1, <1>2, CrashStep DEF IInv, Tidy
<1>3. CASE ~Crash
  <2>1. doubt \subseteq doubt'
    BY <1>3, DoubtGrows
  <2>2. NoOverlap' => Tidy'
    BY <1>3, <2>1, TidyStep DEF IInv, Tidy, NoOverlap
  <2>3. doubt' = {} => Stored'
    BY <1>3, <2>1, StoredStep DEF IInv, Tidy, NoOverlap
  <2> QED
    BY <1>1, <2>2, <2>3 DEF IInv, Tidy
<1> QED
  BY <1>2, <1>3

\* It holds throughout.
LEMMA Inductive == Spec => []IInv
<1> QED
  BY InitInv, StepInv, PTL DEF Spec

\* Every variable keeps a value the code could store, whatever overlaps.
THEOREM TypeCorrect == Spec => []TypeOK
<1>1. IInv => TypeOK
  BY DEF IInv
<1> QED
  BY <1>1, Inductive, PTL

\* The handle CancelPairing takes is never that of a finished driver: finish(),
\* the commit, cancel() and unpair() clear it before the task they end is gone.
THEOREM HandleIsLive == Spec => []TaskIsLive
<1>1. IInv => TaskIsLive
  BY DEF IInv
<1> QED
  BY <1>1, Inductive, PTL

\* pair() starts the sequence once, and what it started can be cancelled, as
\* long as no operation overlapped the tail of an earlier one.
THEOREM StartsOnce == Spec => []OneDriver
<1>1. IInv => OneDriver
  BY DEF IInv, OneDriver, NoOverlap, Alone, DriverState, Drivers, Free
<1> QED
  BY <1>1, Inductive, PTL

\* Subscribers end on the machine's state although run(), the relay and
\* unpair() broadcast after releasing the lock.
THEOREM SubscribersAgree == Spec => []LastWordIsState
<1>1. IInv => LastWordIsState
  BY DEF IInv, LastWordIsState, NoOverlap, Owed, Quiet, Free, Drained
<1> QED
  BY <1>1, Inductive, PTL

\* A restart brings back what clients read as paired: the store is written
\* before Done is announced.
THEOREM DoneIsDurable == Spec => []PairedIsDurable
<1>1. IInv => PairedIsDurable
  BY DEF IInv, PairedIsDurable, Stored
<1> QED
  BY <1>1, Inductive, PTL

\* A restart does not bring back what clients read as unpaired: the store
\* forgets before Paired is cleared.
THEOREM ForgottenIsDurable == Spec => []UnpairedIsForgotten
<1>1. IInv => UnpairedIsForgotten
  BY DEF IInv, UnpairedIsForgotten, Stored
<1> QED
  BY <1>1, Inductive, PTL

\* The two of them: CancelPairing and a retry of Pair find what is running.
THEOREM DriverKnown == Spec => []DriverIsKnown
  BY HandleIsLive, StartsOnce, PTL DEF DriverIsKnown

\* Memory and file tell a restart the same story as the clients.
THEOREM StoreAgree == Spec => []StoreAgrees
  BY DoneIsDurable, ForgottenIsDurable, PTL DEF StoreAgrees
============================================================================
