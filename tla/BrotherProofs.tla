---------------------------- MODULE BrotherProofs ----------------------------
(***************************************************************************)
(* Proofs about Panel: for every set of keys, addresses and lease that     *)
(* leaves room for a retry, what is mapped, refreshed and shown is one     *)
(* assignment, and the printer's entries follow it within a lease.         *)
(*                                                                         *)
(* Proofs about PanelListener: for every set of scanners, calls, streams   *)
(* and receive tasks, the table, the socket and the task that closes one   *)
(* agree, and a stream that is still held ends for a reason of its own.    *)
(***************************************************************************)
EXTENDS Panel, PanelListener, TLAPS

-----------------------------------------------------------------------------
(* Panel: the invariant *)

\* A write of k that waits for the lock or runs a first round.
Writing(k) == pc[k] \in {"lock", "first"}

\* A write is where its daemon is: none before the daemon is up, only those of
\* recorded assignments while it restores them.  A first round is for what its
\* write wants, and a registrar that keeps nothing alive is not there.
WritesInPlace ==
    /\ up = "down" => buttons = {} /\ \A k \in Keys : pc[k] = "idle"
    /\ up = "restoring" =>
         \A k \in Keys : pc[k] # "save" /\ (Writing(k) => k \in props /\ what[k])
    /\ phase = "first" => functions = Wanted(lock)
    /\ Refreshing => functions # {}
    /\ phase = "off" => functions = {}

\* A key with an assignment reads its profile, or is about to: then the write that
\* will save it assigns.
ShownInv ==
    \A k \in Keys :
        /\ k \in buttons /\ pc[k] # "save" => k \in props
        /\ k \in buttons /\ pc[k] = "save" => what[k]

\* What is left of a lease when, in the worst case: after a renewal it shrinks with
\* the sleep, and a first failure shortens the next one.
LeftInTime ==
    LET spent == Lease - RefreshDelay IN
    /\ phase = "first" =>
         \A k \in functions \ todo : lost[k] = 0 /\ panel[k].left = Lease
    /\ phase = "sleep" =>
         /\ delay \in 0..RefreshDelay
         /\ \A k \in functions :
              /\ lost[k] = 0 => panel[k].left >= spent + delay
              /\ lost[k] = 1 => /\ delay <= RetryDelay
                               /\ panel[k].left >= spent - RetryDelay + delay
    /\ phase = "round" =>
         /\ delay \in {RefreshDelay, RetryDelay}
         /\ \A k \in functions :
              IF k \in todo
              THEN /\ lost[k] = 0 => panel[k].left >= spent
                   /\ lost[k] = 1 => panel[k].left >= spent - RetryDelay
              ELSE /\ lost[k] = 0 => panel[k].left = Lease
                   /\ lost[k] = 1 => delay = RetryDelay /\ panel[k].left >= spent

\* An entry that is not right has a bounded time left, counted from when it ceased
\* to be, and one that a round may still write has only just ceased to be.
LapseInv ==
    /\ \A k \in Keys : since[k] <= Lease /\ (Right(k) \/ since[k] + panel[k].left <= Lease)
    /\ phase \in {"first", "round"} /\ via # host => \A k \in Keys : since[k] = 0

\* TypeOK has the lock in it, RefreshedIsAssigned is AssignmentsAgree's own.
PanelInv ==
    TypeOK /\ RefreshedIsAssigned /\ WritesInPlace /\ ShownInv /\ LeftInTime /\ LapseInv

-----------------------------------------------------------------------------
(* Panel: one lemma per part, one step per action *)

\* A refresh and one retry fit into a lease, refresh_delay and retry_delay.
LEMMA Delays ==
    /\ Lease \in Nat /\ RefreshDelay \in Nat /\ RetryDelay \in Nat \ {0}
    /\ RetryDelay <= RefreshDelay /\ RefreshDelay + RetryDelay < Lease
  BY LeaseAssumption DEF RefreshDelay

\* An aborted task leaves entries behind like any other.
LEMMA AbortTyped ==
    ASSUME TypeOK, Abort
    PROVE  panel' \in [Keys -> [left : 0..Lease, host : Hosts \cup {NoHost}]]
  BY Delays DEF Abort, With, TypeOK

\* Types, and the lock: a first round runs exactly while a write holds it.
LEMMA PanelTypeStep ==
    ASSUME TypeOK, RefreshedIsAssigned, WritesInPlace, [Next]_vars
    PROVE  TypeOK'
<1>1. CASE Round
  BY <1>1, Delays DEF Round, Due, store, writes, device, TypeOK, WritesInPlace,
     Refreshing
<1>2. CASE RoundUnrouted
  BY <1>2, Delays DEF RoundUnrouted, Fail, store, writes, TypeOK
<1>3. CASE Pair
  BY <1>3 DEF Pair, writes, registrar, device, TypeOK
<1>4. CASE Forget
  <2>1. /\ panel' \in [Keys -> [left : 0..Lease, host : Hosts \cup {NoHost}]]
        /\ since' \in [Keys -> 0..(Lease + 1)]
    BY <1>4, AbortTyped, Delays DEF Forget, Stopped
  <2>2. /\ phase' = "off" /\ functions' = {} /\ target' = NoAddr /\ via' = NoHost
        /\ todo' = {} /\ delay' \in 0..Lease /\ lost' \in [Keys -> 0..2]
    BY <1>4, Delays DEF Forget, Stopped, Off
  <2>3. /\ up' \in {"down", "restoring", "up"} /\ paired' \in BOOLEAN
        /\ saved' \subseteq Keys /\ props' \subseteq Keys /\ buttons' \subseteq Keys
        /\ pc' \in [Keys -> {"idle", "lock", "first", "save"}] /\ what' \in [Keys -> BOOLEAN]
        /\ note' \in Addrs \cup {NoAddr} /\ host' \in Hosts
        /\ lock' = NoKey /\ \A j \in Keys : pc'[j] # "first"
    BY <1>4, NoneAssumption DEF Forget, writes, TypeOK
  <2> QED
    BY <2>1, <2>2, <2>3, NoneAssumption DEF TypeOK
<1>5. CASE Crash
  BY <1>5, Delays, NoneAssumption DEF Crash, Stopped, Abort, Off, With, store, TypeOK,
     WritesInPlace, Refreshing
<1>6. CASE Restart
  BY <1>6 DEF Restart, store, writes, registrar, device, TypeOK
<1>7. CASE Restored
  BY <1>7 DEF Restored, store, writes, registrar, device, TypeOK
<1>8. CASE Discover
  BY <1>8 DEF Discover, store, writes, registrar, device, TypeOK
<1>9. CASE RouteChanges
  BY <1>9, Delays DEF RouteChanges, store, writes, registrar, TypeOK
<1>10. CASE Tick
  <2>1. panel' \in [Keys -> [left : 0..Lease, host : Hosts \cup {NoHost}]]
    <3>1. \A k \in Keys :
             (IF panel[k].left > 1 THEN [panel[k] EXCEPT !.left = @ - 1] ELSE NoEntry)
                             \in [left : 0..Lease, host : Hosts \cup {NoHost}]
      <4> TAKE k \in Keys
      <4>1. panel[k] \in [left : 0..Lease, host : Hosts \cup {NoHost}]
        BY DEF TypeOK
      <4> QED
        BY <4>1, Delays DEF NoEntry
    <3> QED
      BY <1>10, <3>1 DEF Tick
  <2>2. since' \in [Keys -> 0..(Lease + 1)]
    <3>1. \A k \in Keys : since[k] \in 0..(Lease + 1)
      BY DEF TypeOK
    <3> QED
      BY <1>10, <3>1, Delays DEF Tick
  <2>3. delay' \in 0..Lease
    <3>1. delay \in 0..Lease /\ (phase = "sleep" => delay # 0)
      BY <1>10 DEF Tick, Due, TypeOK
    <3>2. delay' = IF phase = "sleep" THEN delay - 1 ELSE delay
      BY <1>10 DEF Tick
    <3> QED
      BY <3>1, <3>2, Delays
  <2> QED
    BY <1>10, <2>1, <2>2, <2>3 DEF Tick, store, writes, TypeOK
<1>11. ASSUME NEW k \in Keys, NEW assigned \in BOOLEAN, SetProfile(k, assigned)
      PROVE  TypeOK'
  BY <1>11, Delays DEF SetProfile, store, registrar, TypeOK
<1>12. ASSUME NEW k \in Keys, Refresh(k)
      PROVE  TypeOK'
  BY <1>12, Delays DEF Refresh, Registered, Continue, With, store, writes, TypeOK
<1>13. ASSUME NEW k \in Keys, RefreshFails(k)
      PROVE  TypeOK'
  BY <1>13, Delays DEF RefreshFails, MaybeTaken, Fail, Continue, With, store, writes,
     TypeOK, RefreshDelay
<1>14. ASSUME NEW k \in Keys, ClearLast(k)
      PROVE  TypeOK'
  <2>1. /\ panel' \in [Keys -> [left : 0..Lease, host : Hosts \cup {NoHost}]]
        /\ since' \in [Keys -> 0..(Lease + 1)]
    BY <1>14, AbortTyped, Delays DEF ClearLast, Stopped, Mapped, TypeOK
  <2>2. /\ phase' = "off" /\ functions' = {} /\ target' = NoAddr /\ via' = NoHost
        /\ todo' = {} /\ delay' \in 0..Lease /\ lost' \in [Keys -> 0..2]
    BY <1>14, Delays DEF ClearLast, Stopped, Off
  <2>3. /\ up' \in {"down", "restoring", "up"} /\ paired' \in BOOLEAN
        /\ saved' \subseteq Keys /\ props' \subseteq Keys /\ buttons' \subseteq Keys
        /\ pc' \in [Keys -> {"idle", "lock", "first", "save"}] /\ what' \in [Keys -> BOOLEAN]
        /\ note' \in Addrs \cup {NoAddr} /\ host' \in Hosts
        /\ lock' = NoKey /\ \A j \in Keys : pc'[j] # "first"
    <3>1. /\ lock = NoKey /\ lock' = NoKey /\ UNCHANGED <<up, store, props, note, host>>
          /\ buttons' = Wanted(k)
          /\ \/ pc' = [pc EXCEPT ![k] = "idle"] /\ what' = [what EXCEPT ![k] = FALSE]
             \/ pc' = [pc EXCEPT ![k] = "save"] /\ what' = what
      BY <1>14 DEF ClearLast, AtLock, Mapped, Returned
    <3> QED
      BY <3>1, NoneAssumption DEF Wanted, store, TypeOK
  <2> QED
    BY <2>1, <2>2, <2>3, NoneAssumption DEF TypeOK
<1>15. ASSUME NEW k \in Keys, Untargeted(k)
      PROVE  TypeOK'
  BY <1>15, Delays DEF Untargeted, AtLock, Refused, Returned, store, registrar, TypeOK
<1>16. ASSUME NEW k \in Keys, Start(k)
      PROVE  TypeOK'
  <2>1. panel' \in [Keys -> [left : 0..Lease, host : Hosts \cup {NoHost}]]
    BY <1>16, AbortTyped DEF Start
  <2>2. /\ lock' = k /\ pc[k] = "lock" /\ pc' = [pc EXCEPT ![k] = "first"] /\ lock = NoKey
        /\ phase' = "first" /\ functions' = Wanted(k) /\ todo' = Wanted(k)
        /\ Wanted(k) # {} /\ Wanted(k) \subseteq Keys
        /\ target' = note /\ via' = host /\ lost' = [j \in Keys |-> 0] /\ delay' = 0
        /\ UNCHANGED <<up, store, props, what, buttons, note, host, since>>
    BY <1>16 DEF Start, AtLock, Wanted, TypeOK
  <2>3. phase \in {"off", "sleep", "round"} /\ \A j \in Keys : pc[j] # "first"
    BY <2>2, NoneAssumption DEF TypeOK
  <2> QED
    BY <2>1, <2>2, <2>3, Delays, NoneAssumption DEF store, TypeOK
<1>17. ASSUME NEW k \in Keys, StartUnrouted(k)
      PROVE  TypeOK'
  BY <1>17, Delays DEF StartUnrouted, AtLock, Stopped, Abort, Off, Refused, With,
     Returned, store, TypeOK, RefreshedIsAssigned
<1>18. ASSUME NEW k \in Keys, NEW f \in Keys, FirstAccepted(k, f)
      PROVE  TypeOK'
  <2>1. /\ panel' \in [Keys -> [left : 0..Lease, host : Hosts \cup {NoHost}]]
        /\ lost' \in [Keys -> 0..2]
        /\ todo' = todo \ {f} /\ lock = k /\ f \in todo
        /\ UNCHANGED <<up, store, props, note, functions, target, host>>
    BY <1>18, Delays DEF FirstAccepted, Registered, With, TypeOK
  <2>2. pc[k] = "first" /\ phase = "first"
    BY <2>1, NoneAssumption DEF TypeOK
  <2>3. CASE todo = {f}
    <3>1. /\ phase' = "sleep" /\ via' = NoHost /\ delay' = RefreshDelay /\ todo' = {}
          /\ buttons' = Wanted(k) /\ lock' = NoKey /\ since' = [since EXCEPT ![k] = 0]
          /\ \/ pc' = [pc EXCEPT ![k] = "idle"] /\ what' = [what EXCEPT ![k] = FALSE]
             \/ pc' = [pc EXCEPT ![k] = "save"] /\ what' = what
      BY <1>18, <2>3 DEF FirstAccepted, Mapped, Returned
    <3>2. /\ pc' \in [Keys -> {"idle", "lock", "first", "save"}] /\ what' \in [Keys -> BOOLEAN]
          /\ \A j \in Keys : pc'[j] # "first"
      BY <2>1, <3>1 DEF TypeOK
    <3>3. /\ buttons' \subseteq Keys /\ delay' \in 0..Lease
          /\ since' \in [Keys -> 0..(Lease + 1)]
      BY <3>1, Delays DEF Wanted, TypeOK
    <3> QED
      BY <2>1, <3>1, <3>2, <3>3, NoneAssumption DEF store, TypeOK
  <2>4. CASE todo # {f}
    <3>1. UNCHANGED <<phase, via, delay, pc, what, lock, buttons, since>> /\ todo' # {}
      BY <1>18, <2>4 DEF FirstAccepted
    <3> QED
      BY <2>1, <3>1 DEF store, TypeOK
  <2> QED
    BY <2>3, <2>4
<1>19. ASSUME NEW k \in Keys, NEW f \in Keys, FirstRefused(k, f)
      PROVE  TypeOK'
  BY <1>19, Delays, NoneAssumption DEF FirstRefused, MaybeTaken, Off, Refused, With,
     Returned, store, TypeOK, RefreshedIsAssigned, WritesInPlace, Refreshing
<1>20. ASSUME NEW k \in Keys, Save(k)
      PROVE  TypeOK'
  BY <1>20 DEF Save, Returned, Moved, registrar, device, TypeOK
<1>21. ASSUME NEW k \in Keys, RestoreKey(k)
      PROVE  TypeOK'
  BY <1>21, Delays DEF RestoreKey, store, registrar, TypeOK
<1>22. ASSUME NEW k \in Keys, RestoreTimesOut(k)
      PROVE  TypeOK'
  <2>1. /\ panel' \in [Keys -> [left : 0..Lease, host : Hosts \cup {NoHost}]]
        /\ since' \in [Keys -> 0..(Lease + 1)]
    BY <1>22, AbortTyped, Delays DEF RestoreTimesOut, Stopped, Refused, TypeOK
  <2>2. /\ phase' = "off" /\ functions' = {} /\ target' = NoAddr /\ via' = NoHost
        /\ todo' = {} /\ delay' \in 0..Lease /\ lost' \in [Keys -> 0..2]
    BY <1>22, Delays DEF RestoreTimesOut, Stopped, Off
  <2>3. /\ up' \in {"down", "restoring", "up"} /\ paired' \in BOOLEAN
        /\ saved' \subseteq Keys /\ props' \subseteq Keys /\ buttons' \subseteq Keys
        /\ pc' \in [Keys -> {"idle", "lock", "first", "save"}] /\ what' \in [Keys -> BOOLEAN]
        /\ note' \in Addrs \cup {NoAddr} /\ host' \in Hosts
        /\ lock' = NoKey /\ \A j \in Keys : pc'[j] # "first"
    BY <1>22 DEF RestoreTimesOut, Refused, Returned, store, TypeOK
  <2> QED
    BY <2>1, <2>2, <2>3, NoneAssumption DEF TypeOK
<1>23. CASE UNCHANGED vars
  BY <1>23 DEF vars, store, writes, registrar, device, TypeOK
<1> QED
  BY <1>1, <1>2, <1>3, <1>4, <1>5, <1>6, <1>7, <1>8, <1>9, <1>10, <1>11, <1>12, <1>13,
     <1>14, <1>15, <1>16, <1>17, <1>18, <1>19, <1>20, <1>21, <1>22, <1>23 DEF Next

\* set_button_mapping and its callers: the map, the refresh and the property move in
\* this order, and back in the other.
LEMMA WritesStep ==
    ASSUME TypeOK, RefreshedIsAssigned, WritesInPlace, ShownInv, [Next]_vars
    PROVE  RefreshedIsAssigned' /\ WritesInPlace' /\ ShownInv'
<1>1. CASE Round
  BY <1>1 DEF Round, Due, writes, RefreshedIsAssigned, WritesInPlace, ShownInv,
     Refreshing, Writing
<1>2. CASE RoundUnrouted
  BY <1>2 DEF RoundUnrouted, Due, writes, RefreshedIsAssigned, WritesInPlace, ShownInv,
     Refreshing, Writing
<1>3. CASE Pair
  BY <1>3 DEF Pair, writes, registrar, RefreshedIsAssigned, WritesInPlace, ShownInv,
     Refreshing, Wanted
<1>4. CASE Forget
  BY <1>4 DEF Forget, Stopped, Off, RefreshedIsAssigned, WritesInPlace, ShownInv,
     Refreshing
<1>5. CASE Crash
  BY <1>5 DEF Crash, Stopped, Off, RefreshedIsAssigned, WritesInPlace, ShownInv,
     Refreshing
<1>6. CASE Restart
  BY <1>6 DEF Restart, writes, registrar, TypeOK, RefreshedIsAssigned, WritesInPlace,
     ShownInv, Refreshing, Writing
<1>7. CASE Restored
  BY <1>7 DEF Restored, writes, registrar, TypeOK, RefreshedIsAssigned, WritesInPlace,
     ShownInv, Refreshing
<1>8. CASE Discover
  BY <1>8 DEF Discover, writes, registrar, RefreshedIsAssigned, WritesInPlace, ShownInv,
     Refreshing, Wanted
<1>9. CASE RouteChanges
  BY <1>9 DEF RouteChanges, writes, registrar, RefreshedIsAssigned, WritesInPlace,
     ShownInv, Refreshing, Writing, Wanted
<1>10. CASE Tick
  BY <1>10 DEF Tick, writes, RefreshedIsAssigned, WritesInPlace, ShownInv, Refreshing,
     Writing
<1>11. ASSUME NEW k \in Keys, NEW assigned \in BOOLEAN, SetProfile(k, assigned)
      PROVE  RefreshedIsAssigned' /\ WritesInPlace' /\ ShownInv'
  BY <1>11 DEF SetProfile, registrar, TypeOK, RefreshedIsAssigned, WritesInPlace,
     ShownInv, Refreshing, Wanted
<1>12. ASSUME NEW k \in Keys, Refresh(k)
      PROVE  RefreshedIsAssigned' /\ WritesInPlace' /\ ShownInv'
  BY <1>12 DEF Refresh, Continue, writes, RefreshedIsAssigned, WritesInPlace, ShownInv,
     Refreshing, Writing
<1>13. ASSUME NEW k \in Keys, RefreshFails(k)
      PROVE  RefreshedIsAssigned' /\ WritesInPlace' /\ ShownInv'
  BY <1>13 DEF RefreshFails, Continue, writes, RefreshedIsAssigned, WritesInPlace,
     ShownInv, Refreshing, Writing
<1>14. ASSUME NEW k \in Keys, ClearLast(k)
      PROVE  RefreshedIsAssigned' /\ WritesInPlace' /\ ShownInv'
  BY <1>14 DEF ClearLast, AtLock, Stopped, Off, Mapped, Wanted, RefreshedIsAssigned,
     WritesInPlace, ShownInv, Refreshing, Writing
<1>15. ASSUME NEW k \in Keys, Untargeted(k)
      PROVE  RefreshedIsAssigned' /\ WritesInPlace' /\ ShownInv'
  BY <1>15 DEF Untargeted, AtLock, Refused, Returned, registrar, TypeOK,
     RefreshedIsAssigned, WritesInPlace, ShownInv, Refreshing, Writing
<1>16. ASSUME NEW k \in Keys, Start(k)
      PROVE  RefreshedIsAssigned' /\ WritesInPlace' /\ ShownInv'
  BY <1>16 DEF Start, AtLock, Wanted, RefreshedIsAssigned, WritesInPlace, ShownInv,
     Refreshing, Writing
<1>17. ASSUME NEW k \in Keys, StartUnrouted(k)
      PROVE  RefreshedIsAssigned' /\ WritesInPlace' /\ ShownInv'
  BY <1>17 DEF StartUnrouted, AtLock, Stopped, Off, Refused, Returned, TypeOK,
     RefreshedIsAssigned, WritesInPlace, ShownInv, Refreshing, Writing
<1>18. ASSUME NEW k \in Keys, NEW f \in Keys, FirstAccepted(k, f)
      PROVE  RefreshedIsAssigned' /\ WritesInPlace' /\ ShownInv'
  <2>1. /\ lock = k /\ f \in todo /\ UNCHANGED <<up, props, functions>>
        /\ pc[k] = "first" /\ phase = "first"
    BY <1>18, NoneAssumption DEF FirstAccepted, TypeOK
  <2>2. CASE todo = {f}
    <3>1. /\ phase' = "sleep" /\ buttons' = Wanted(k)
          /\ IF up = "restoring"
             THEN pc' = [pc EXCEPT ![k] = "idle"] /\ what' = [what EXCEPT ![k] = FALSE]
             ELSE pc' = [pc EXCEPT ![k] = "save"] /\ what' = what
      BY <1>18, <2>2 DEF FirstAccepted, Mapped, Returned
    <3>2. functions = Wanted(k) /\ functions # {}
      BY <2>1 DEF WritesInPlace, TypeOK
    <3>3. RefreshedIsAssigned'
      BY <2>1, <3>1, <3>2 DEF RefreshedIsAssigned
    <3>4. WritesInPlace'
      BY <2>1, <3>1 DEF WritesInPlace, Writing, TypeOK
    <3>5. ShownInv'
      BY <2>1, <3>1 DEF ShownInv, WritesInPlace, Writing, Wanted, TypeOK
    <3> QED
      BY <3>3, <3>4, <3>5
  <2>3. CASE todo # {f}
    <3>1. UNCHANGED <<phase, pc, what, lock, buttons>>
      BY <1>18, <2>3 DEF FirstAccepted
    <3> QED
      BY <2>1, <3>1 DEF RefreshedIsAssigned, WritesInPlace, ShownInv, Refreshing,
         Writing, Wanted
  <2> QED
    BY <2>2, <2>3
<1>19. ASSUME NEW k \in Keys, NEW f \in Keys, FirstRefused(k, f)
      PROVE  RefreshedIsAssigned' /\ WritesInPlace' /\ ShownInv'
  BY <1>19 DEF FirstRefused, Off, Refused, Returned, TypeOK, RefreshedIsAssigned,
     WritesInPlace, ShownInv, Refreshing, Writing
<1>20. ASSUME NEW k \in Keys, Save(k)
      PROVE  RefreshedIsAssigned' /\ WritesInPlace' /\ ShownInv'
  BY <1>20 DEF Save, Returned, Moved, registrar, TypeOK, RefreshedIsAssigned,
     WritesInPlace, ShownInv, Refreshing, Wanted
<1>21. ASSUME NEW k \in Keys, RestoreKey(k)
      PROVE  RefreshedIsAssigned' /\ WritesInPlace' /\ ShownInv'
  BY <1>21 DEF RestoreKey, registrar, TypeOK, RefreshedIsAssigned, WritesInPlace,
     ShownInv, Refreshing, Writing
<1>22. ASSUME NEW k \in Keys, RestoreTimesOut(k)
      PROVE  RefreshedIsAssigned' /\ WritesInPlace' /\ ShownInv'
  BY <1>22 DEF RestoreTimesOut, Stopped, Off, Refused, Returned, TypeOK,
     RefreshedIsAssigned, WritesInPlace, ShownInv, Refreshing, Writing
<1>23. CASE UNCHANGED vars
  BY <1>23 DEF vars, writes, registrar, RefreshedIsAssigned, WritesInPlace, ShownInv,
     Refreshing, Writing, Wanted
<1> QED
  BY <1>1, <1>2, <1>3, <1>4, <1>5, <1>6, <1>7, <1>8, <1>9, <1>10, <1>11, <1>12, <1>13,
     <1>14, <1>15, <1>16, <1>17, <1>18, <1>19, <1>20, <1>21, <1>22, <1>23 DEF Next

\* The registrar: a round renews in time, even the second try.
LEMMA LeaseStep ==
    ASSUME TypeOK, LeftInTime, [Next]_vars
    PROVE  LeftInTime'
<1>1. CASE Round
  BY <1>1, Delays DEF Round, Due, device, LeftInTime
<1>2. CASE RoundUnrouted
  BY <1>2, Delays DEF RoundUnrouted, Due, Fail, TypeOK, LeftInTime
<1>3. CASE Pair
  BY <1>3 DEF Pair, registrar, device, LeftInTime
<1>4. CASE Forget
  BY <1>4 DEF Forget, Stopped, Off, LeftInTime
<1>5. CASE Crash
  BY <1>5 DEF Crash, Stopped, Off, LeftInTime
<1>6. CASE Restart
  BY <1>6 DEF Restart, registrar, device, LeftInTime
<1>7. CASE Restored
  BY <1>7 DEF Restored, registrar, device, LeftInTime
<1>8. CASE Discover
  BY <1>8 DEF Discover, registrar, device, LeftInTime
<1>9. CASE RouteChanges
  BY <1>9 DEF RouteChanges, registrar, LeftInTime
<1>10. CASE Tick
  <2>1. CASE phase = "sleep"
    <3>1. /\ delay \in 1..RefreshDelay /\ delay' = delay - 1
          /\ UNCHANGED <<phase, functions, todo, lost>>
      BY <1>10, <2>1 DEF Tick, Due, LeftInTime
    <3>2. ASSUME NEW k \in functions
          PROVE  /\ lost[k] = 0 => panel'[k].left >= (Lease - RefreshDelay) + delay'
                 /\ lost[k] = 1 => /\ delay' <= RetryDelay
                                  /\ panel'[k].left >= (Lease - RefreshDelay) - RetryDelay + delay'
      <4>1. k \in Keys /\ lost[k] \in 0..2 /\ panel[k].left \in 0..Lease
        BY DEF TypeOK
      <4>2. lost[k] < 2 => panel[k].left > 1
        BY <2>1, <3>1, <4>1, Delays DEF LeftInTime
      <4>3. lost[k] < 2 => panel'[k].left = panel[k].left - 1
        BY <1>10, <4>1, <4>2 DEF Tick
      <4> QED
        BY <2>1, <3>1, <4>1, <4>3, Delays DEF LeftInTime
    <3> QED
      BY <2>1, <3>1, <3>2, Delays DEF LeftInTime
  <2>2. CASE phase # "sleep"
    BY <1>10, <2>2 DEF Tick, LeftInTime
  <2> QED
    BY <2>1, <2>2
<1>11. ASSUME NEW k \in Keys, NEW assigned \in BOOLEAN, SetProfile(k, assigned)
      PROVE  LeftInTime'
  BY <1>11 DEF SetProfile, registrar, LeftInTime
<1>12. ASSUME NEW k \in Keys, Refresh(k)
      PROVE  LeftInTime'
  BY <1>12, Delays DEF Refresh, Registered, Continue, With, TypeOK, LeftInTime
<1>13. ASSUME NEW k \in Keys, RefreshFails(k)
      PROVE  LeftInTime'
  BY <1>13, Delays DEF RefreshFails, MaybeTaken, Fail, Continue, With, TypeOK,
     LeftInTime
<1>14. ASSUME NEW k \in Keys, ClearLast(k)
      PROVE  LeftInTime'
  BY <1>14 DEF ClearLast, Stopped, Off, LeftInTime
<1>15. ASSUME NEW k \in Keys, Untargeted(k)
      PROVE  LeftInTime'
  BY <1>15 DEF Untargeted, registrar, LeftInTime
<1>16. ASSUME NEW k \in Keys, Start(k)
      PROVE  LeftInTime'
  BY <1>16 DEF Start, LeftInTime
<1>17. ASSUME NEW k \in Keys, StartUnrouted(k)
      PROVE  LeftInTime'
  BY <1>17 DEF StartUnrouted, Stopped, Off, LeftInTime
<1>18. ASSUME NEW k \in Keys, NEW f \in Keys, FirstAccepted(k, f)
      PROVE  LeftInTime'
  <2>1. /\ lock = k /\ f \in todo /\ todo' = todo \ {f} /\ functions' = functions
        /\ phase = "first" /\ todo \subseteq functions /\ functions \subseteq Keys
    BY <1>18, NoneAssumption DEF FirstAccepted, TypeOK
  <2>2. \A j \in functions \ todo' : lost'[j] = 0 /\ panel'[j].left = Lease
    BY <1>18, <2>1 DEF FirstAccepted, Registered, With, LeftInTime, TypeOK
  <2>3. CASE todo = {f}
    <3>1. phase' = "sleep" /\ delay' = RefreshDelay
      BY <1>18, <2>3 DEF FirstAccepted
    <3> QED
      BY <2>1, <2>2, <2>3, <3>1, Delays DEF LeftInTime
  <2>4. CASE todo # {f}
    <3>1. phase' = "first"
      BY <1>18, <2>1, <2>4 DEF FirstAccepted
    <3> QED
      BY <2>1, <2>2, <3>1 DEF LeftInTime
  <2> QED
    BY <2>3, <2>4
<1>19. ASSUME NEW k \in Keys, NEW f \in Keys, FirstRefused(k, f)
      PROVE  LeftInTime'
  BY <1>19 DEF FirstRefused, Off, LeftInTime
<1>20. ASSUME NEW k \in Keys, Save(k)
      PROVE  LeftInTime'
  BY <1>20 DEF Save, registrar, device, LeftInTime
<1>21. ASSUME NEW k \in Keys, RestoreKey(k)
      PROVE  LeftInTime'
  BY <1>21 DEF RestoreKey, registrar, LeftInTime
<1>22. ASSUME NEW k \in Keys, RestoreTimesOut(k)
      PROVE  LeftInTime'
  BY <1>22 DEF RestoreTimesOut, Stopped, Off, LeftInTime
<1>23. CASE UNCHANGED vars
  BY <1>23 DEF vars, registrar, device, LeftInTime
<1> QED
  BY <1>1, <1>2, <1>3, <1>4, <1>5, <1>6, <1>7, <1>8, <1>9, <1>10, <1>11, <1>12, <1>13,
     <1>14, <1>15, <1>16, <1>17, <1>18, <1>19, <1>20, <1>21, <1>22, <1>23 DEF Next

\* Whatever changes what is right starts the count, and nothing renews what is wrong.
LEMMA LapseStep ==
    ASSUME TypeOK, RefreshedIsAssigned, WritesInPlace, LapseInv, [Next]_vars
    PROVE  LapseInv'
<1>1. CASE Round
  BY <1>1 DEF Round, writes, device, LapseInv, Right
<1>2. CASE RoundUnrouted
  BY <1>2 DEF RoundUnrouted, writes, LapseInv, Right
<1>3. CASE Pair
  BY <1>3 DEF Pair, writes, registrar, device, LapseInv, Right
<1>4. CASE Forget
  <2>1. /\ \A k \in Keys : since'[k] = 0 /\ panel'[k].left \in 0..Lease
        /\ phase' = "off"
    BY <1>4, AbortTyped DEF Forget, Stopped, Off
  <2> QED
    BY <2>1, Delays DEF LapseInv
<1>5. CASE Crash
  <2>1. /\ \A k \in Keys : since'[k] = 0 /\ panel'[k].left \in 0..Lease
        /\ phase' = "off"
    BY <1>5, AbortTyped DEF Crash, Stopped, Off
  <2> QED
    BY <2>1, Delays DEF LapseInv
<1>6. CASE Restart
  BY <1>6 DEF Restart, writes, registrar, device, LapseInv, Right
<1>7. CASE Restored
  BY <1>7 DEF Restored, registrar, device, LapseInv, Right
<1>8. CASE Discover
  BY <1>8 DEF Discover, writes, registrar, device, LapseInv, Right
<1>9. CASE RouteChanges
  BY <1>9, LeaseAssumption DEF RouteChanges, TypeOK, LapseInv
<1>10. CASE Tick
  BY <1>10, LeaseAssumption DEF Tick, NoEntry, TypeOK, LapseInv
<1>11. ASSUME NEW k \in Keys, NEW assigned \in BOOLEAN, SetProfile(k, assigned)
      PROVE  LapseInv'
  BY <1>11, LeaseAssumption DEF SetProfile, registrar, TypeOK, LapseInv, Right
<1>12. ASSUME NEW k \in Keys, Refresh(k)
      PROVE  LapseInv'
  BY <1>12, LeaseAssumption DEF Refresh, Registered, Continue, With, writes, TypeOK,
     LapseInv, RefreshedIsAssigned, Refreshing, Right
<1>13. ASSUME NEW k \in Keys, RefreshFails(k)
      PROVE  LapseInv'
  BY <1>13, LeaseAssumption DEF RefreshFails, MaybeTaken, Fail, Continue, With, writes,
     TypeOK, LapseInv, RefreshedIsAssigned, WritesInPlace, Refreshing, Right
<1>14. ASSUME NEW k \in Keys, ClearLast(k)
      PROVE  LapseInv'
  BY <1>14, LeaseAssumption DEF ClearLast, AtLock, Stopped, Abort, Off, Mapped, With,
     Wanted, Returned, TypeOK, LapseInv, RefreshedIsAssigned, Refreshing, Right
<1>15. ASSUME NEW k \in Keys, Untargeted(k)
      PROVE  LapseInv'
  BY <1>15, LeaseAssumption DEF Untargeted, Refused, Returned, registrar, TypeOK,
     LapseInv, Right
<1>16. ASSUME NEW k \in Keys, Start(k)
      PROVE  LapseInv'
  BY <1>16, LeaseAssumption DEF Start, AtLock, Abort, With, TypeOK, LapseInv,
     RefreshedIsAssigned, Refreshing, Right
<1>17. ASSUME NEW k \in Keys, StartUnrouted(k)
      PROVE  LapseInv'
  <2>1. /\ Abort /\ phase' = "off" /\ UNCHANGED <<host, buttons>>
        /\ pc' = [pc EXCEPT ![k] = "idle"] /\ what' = [what EXCEPT ![k] = FALSE]
        /\ since' = [since EXCEPT ![k] = 0] /\ phase # "first"
    BY <1>17 DEF StartUnrouted, AtLock, Stopped, Off, Refused, Returned, TypeOK
  <2> SUFFICES ASSUME NEW j \in Keys
               PROVE  since'[j] <= Lease /\ (Right(j)' \/ since'[j] + panel'[j].left <= Lease)
    BY <2>1 DEF LapseInv
  <2>2. panel'[j].left \in 0..Lease
    BY <2>1, AbortTyped
  <2>3. CASE j = k
    BY <2>1, <2>2, <2>3, Delays DEF TypeOK
  <2>4. CASE j # k
    BY <2>1, Delays DEF Abort, With, LapseInv, Right, Refreshing, RefreshedIsAssigned,
       TypeOK
  <2> QED
    BY <2>3, <2>4
<1>18. ASSUME NEW k \in Keys, NEW f \in Keys, FirstAccepted(k, f)
      PROVE  LapseInv'
  BY <1>18, LeaseAssumption, NoneAssumption DEF FirstAccepted, Registered, Mapped, With,
     Wanted, Returned, TypeOK, LapseInv, WritesInPlace, Right
<1>19. ASSUME NEW k \in Keys, NEW f \in Keys, FirstRefused(k, f)
      PROVE  LapseInv'
  BY <1>19, LeaseAssumption, NoneAssumption DEF FirstRefused, MaybeTaken, Off, Refused,
     With, Returned, TypeOK, LapseInv, WritesInPlace, Right, Wanted
<1>20. ASSUME NEW k \in Keys, Save(k)
      PROVE  LapseInv'
  BY <1>20 DEF Save, Returned, registrar, device, LapseInv, Right
<1>21. ASSUME NEW k \in Keys, RestoreKey(k)
      PROVE  LapseInv'
  BY <1>21, LeaseAssumption DEF RestoreKey, registrar, TypeOK, LapseInv, Right
<1>22. ASSUME NEW k \in Keys, RestoreTimesOut(k)
      PROVE  LapseInv'
  BY <1>22, LeaseAssumption, NoneAssumption DEF RestoreTimesOut, Stopped, Abort, Off,
     Refused, With, Returned, TypeOK, LapseInv, WritesInPlace, Right, Wanted
<1>23. CASE UNCHANGED vars
  BY <1>23 DEF vars, writes, registrar, device, LapseInv, Right
<1> QED
  BY <1>1, <1>2, <1>3, <1>4, <1>5, <1>6, <1>7, <1>8, <1>9, <1>10, <1>11, <1>12, <1>13,
     <1>14, <1>15, <1>16, <1>17, <1>18, <1>19, <1>20, <1>21, <1>22, <1>23 DEF Next

\* The strengthening holds before the daemon has done anything.
LEMMA PanelInit == Init => PanelInv
<1> SUFFICES ASSUME Init PROVE PanelInv
  OBVIOUS
<1>1. TypeOK
  <2>1. /\ panel \in [Keys -> [left : 0..Lease, host : Hosts \cup {NoHost}]]
        /\ since \in [Keys -> 0..(Lease + 1)] /\ lost \in [Keys -> 0..2] /\ delay \in 0..Lease
    BY Delays DEF Init, NoEntry
  <2> QED
    BY <2>1, NoneAssumption DEF Init, TypeOK
<1>2. RefreshedIsAssigned /\ WritesInPlace /\ ShownInv /\ LeftInTime
  BY DEF Init, RefreshedIsAssigned, WritesInPlace, ShownInv, LeftInTime, Refreshing
<1>3. LapseInv
  BY Delays DEF Init, LapseInv, NoEntry
<1> QED
  BY <1>1, <1>2, <1>3 DEF PanelInv

\* Every step keeps it.
LEMMA PanelStep == PanelInv /\ [Next]_vars => PanelInv'
  BY PanelTypeStep, WritesStep, LeaseStep, LapseStep DEF PanelInv

\* So it always holds.
LEMMA PanelInductive == Spec => []PanelInv
  BY PanelInit, PanelStep, PTL DEF Spec

-----------------------------------------------------------------------------
(* Panel: the theorems *)

\* The refresh task, the backend's map and the property describe one assignment,
\* whichever write was overtaken, failed half-way or was cut off by a restart.
THEOREM AssignmentsAlwaysAgree == Spec => []AssignmentsAgree
<1>1. PanelInv => AssignmentsAgree
  BY DEF PanelInv, ShownInv, AssignmentsAgree, MappedIsShown, TypeOK
<1> QED
  BY <1>1, PanelInductive, PTL

\* For any lease that a sleep and a retry fit into: a key that is kept alive is on the
\* panel unless two attempts in a row failed, and an entry nobody asks for is gone
\* within a lease.
THEOREM LeasesAlwaysFollow == Spec => []LeasesFollow
<1>1. ASSUME PanelInv
      PROVE  LeasesFollow
  <2>1. LeaseIsRenewed
    <3> SUFFICES ASSUME NEW k \in functions, Refreshing, lost[k] < 2
                 PROVE  panel[k].left > 0
      BY DEF LeaseIsRenewed
    <3>1. k \in Keys /\ lost[k] \in {0, 1} /\ panel[k].left \in 0..Lease
          /\ delay \in 0..Lease
      BY <1>1 DEF PanelInv, TypeOK
    <3> QED
      BY <1>1, <3>1, Delays DEF PanelInv, LeftInTime, Refreshing
  <2>2. WrongEntriesLapse
    BY <1>1 DEF PanelInv, LapseInv, WrongEntriesLapse
  <2> QED
    BY <2>1, <2>2 DEF LeasesFollow
<1> QED
  BY <1>1, PanelInductive, PTL

-----------------------------------------------------------------------------
(* PanelListener: the invariant *)

\* What is known of a call from where it is: only a subscriber gets past the
\* drain, a handle is awaited or about to be recorded, and there is no socket
\* in the slot while one is being bound.
CallsInPlace ==
    \A c \in Callers :
        /\ at[c] \in {"bind", "record", "insert"} => op[c] = "subscribe"
        /\ at[c] # "idle" => arg[c] \in Scanners
        /\ held[c] # NoTask => at[c] \in {"drain", "record"}
        /\ at[c] = "record" => held[c] # NoTask
        /\ at[c] \in {"bind", "record"} => bound = NoTask

\* A subscriber that has its socket still has it, until it joins the table.
JoinersServed ==
    \A c \in Callers :
        /\ at[c] = "record" => task[held[c]] \in {"reading", "failing"}
        /\ at[c] = "insert" => bound # NoTask /\ task[bound] \in {"reading", "failing"}

\* So it is, and the socket exists exactly while somebody subscribes, unless the
\* last one left in between.
ServedInv == "raced" \in doubt \/ (SocketWhileSubscribed /\ JoinersServed)

\* Every open socket is somebody's to close: it is in use, parked, or awaited.
\* A parked handle is taken by the next subscriber and none is parked beside a
\* socket in use, so none is ever overwritten.
SocketsAccounted ==
    /\ \A t \in Tasks :
          OpenSocket(t) => t \in {bound, closing} \/ \E c \in Callers : held[c] = t
    /\ Joining # {} => closing = NoTask
    /\ closing # NoTask => bound = NoTask

AccountedInv == doubt # {} \/ SocketsAccounted

ListenerInv ==
    ListenerTypeOK /\ CallsInPlace /\ ServedInv /\ AccountedInv /\ RefusalIsForeign

-----------------------------------------------------------------------------
(* PanelListener: one lemma per part, one step per action *)

\* Types; a call past the gate holds it.
LEMMA ListenerTypeStep ==
    ASSUME ListenerTypeOK, [ListenerNext]_listenerVars
    PROVE  ListenerTypeOK'
<1>1. ASSUME NEW c \in Callers, NEW o \in {"subscribe", "unsubscribe"}, NEW s \in Scanners,
             Call(c, o, s)
      PROVE  ListenerTypeOK'
  BY <1>1 DEF Call, state, ListenerTypeOK
<1>2. ASSUME NEW c \in Callers, EnterSubscribe(c)
      PROVE  ListenerTypeOK'
  BY <1>2, ListenerAssumption DEF EnterSubscribe, ListenerTypeOK
<1>3. ASSUME NEW c \in Callers, EnterUnsubscribe(c)
      PROVE  ListenerTypeOK'
  <2>1. /\ bound' \in Tasks \cup {NoTask} /\ held' \in [Callers -> Tasks \cup {NoTask}]
        /\ task' \in [Tasks -> {"closed", "reading", "failing", "aborted", "ending"}]
    BY <1>3 DEF EnterUnsubscribe, Close, ListenerTypeOK
  <2> QED
    BY <1>3, <2>1, ListenerAssumption DEF EnterUnsubscribe, ListenerTypeOK
<1>4. ASSUME NEW c \in Callers, Unsubscribed(c)
      PROVE  ListenerTypeOK'
  BY <1>4, ListenerAssumption DEF Unsubscribed, Return, state, ListenerTypeOK
<1>5. ASSUME NEW c \in Callers, Look(c)
      PROVE  ListenerTypeOK'
  BY <1>5 DEF Look, Drained, state, ListenerTypeOK
<1>6. ASSUME NEW c \in Callers, BindFails(c)
      PROVE  ListenerTypeOK'
  BY <1>6, ListenerAssumption DEF BindFails, Return, state, ListenerTypeOK
<1>7. ASSUME NEW c \in Callers, Record(c)
      PROVE  ListenerTypeOK'
  BY <1>7 DEF Record, ListenerTypeOK
<1>8. ASSUME NEW c \in Callers, Cancel(c)
      PROVE  ListenerTypeOK'
  BY <1>8, ListenerAssumption DEF Cancel, Return, state, ListenerTypeOK, Windows
<1>9. ASSUME NEW c \in Callers, NEW t \in Tasks, Bind(c, t)
      PROVE  ListenerTypeOK'
  BY <1>9 DEF Bind, state, ListenerTypeOK
<1>10. ASSUME NEW c \in Callers, NEW e \in Streams, Insert(c, e)
      PROVE  ListenerTypeOK'
  BY <1>10, ListenerAssumption DEF Insert, Return, ListenerTypeOK
<1>11. ASSUME NEW e \in Streams, DropStream(e)
      PROVE  ListenerTypeOK'
  <2>0. doubt' \subseteq Windows
    <3>1. doubt' = doubt \/ doubt' = doubt \cup {"raced"} \/ doubt' = doubt \cup {}
      BY <1>11 DEF DropStream
    <3> QED
      BY <3>1 DEF ListenerTypeOK, Windows
  <2>1. /\ bound' \in Tasks \cup {NoTask} /\ closing' \in Tasks \cup {NoTask}
        /\ task' \in [Tasks -> {"closed", "reading", "failing", "aborted", "ending"}]
    BY <1>11 DEF DropStream, Close, state, ListenerTypeOK
  <2>2. /\ owner' \in [Streams -> Scanners \cup {NoScanner}]
        /\ table' \in [Scanners -> Streams \cup {NoStream}]
    BY <1>11 DEF DropStream, state, ListenerTypeOK
  <2>3. UNCHANGED <<calls, refused>>
    BY <1>11 DEF DropStream
  <2> QED
    BY <2>0, <2>1, <2>2, <2>3 DEF calls, ListenerTypeOK
<1>12. ASSUME NEW t \in Tasks, ReceiveFails(t)
      PROVE  ListenerTypeOK'
  BY <1>12 DEF ReceiveFails, calls, state, ListenerTypeOK
<1>13. ASSUME NEW t \in Tasks, ClearAll(t)
      PROVE  ListenerTypeOK'
  BY <1>13 DEF ClearAll, calls, ListenerTypeOK, Windows
<1>14. ASSUME NEW t \in Tasks, Gone(t)
      PROVE  ListenerTypeOK'
  BY <1>14 DEF Gone, calls, state, ListenerTypeOK
<1>15. CASE UNCHANGED listenerVars
  BY <1>15 DEF listenerVars, calls, state, ListenerTypeOK
<1> QED
  BY <1>1, <1>2, <1>3, <1>4, <1>5, <1>6, <1>7, <1>8, <1>9, <1>10, <1>11, <1>12, <1>13,
     <1>14, <1>15 DEF ListenerNext

\* A call moves on by its own steps, and the slot is filled by Record alone.
LEMMA PlacedStep ==
    ASSUME ListenerTypeOK, CallsInPlace, [ListenerNext]_listenerVars
    PROVE  CallsInPlace'
<1>1. ASSUME NEW c \in Callers, NEW o \in {"subscribe", "unsubscribe"}, NEW s \in Scanners,
             Call(c, o, s)
      PROVE  CallsInPlace'
  BY <1>1 DEF Call, state, ListenerTypeOK, CallsInPlace
<1>2. ASSUME NEW c \in Callers, EnterSubscribe(c)
      PROVE  CallsInPlace'
  BY <1>2 DEF EnterSubscribe, ListenerTypeOK, CallsInPlace
<1>3. ASSUME NEW c \in Callers, EnterUnsubscribe(c)
      PROVE  CallsInPlace'
  BY <1>3 DEF EnterUnsubscribe, ListenerTypeOK, CallsInPlace
<1>4. ASSUME NEW c \in Callers, Unsubscribed(c)
      PROVE  CallsInPlace'
  BY <1>4 DEF Unsubscribed, Drained, Return, ListenerTypeOK, CallsInPlace
<1>5. ASSUME NEW c \in Callers, Look(c)
      PROVE  CallsInPlace'
  BY <1>5 DEF Look, Drained, state, ListenerTypeOK, CallsInPlace
<1>6. ASSUME NEW c \in Callers, BindFails(c)
      PROVE  CallsInPlace'
  BY <1>6 DEF BindFails, Return, ListenerTypeOK, CallsInPlace
<1>7. ASSUME NEW c \in Callers, Record(c)
      PROVE  CallsInPlace'
  BY <1>7 DEF Record, ListenerTypeOK, CallsInPlace
<1>8. ASSUME NEW c \in Callers, Cancel(c)
      PROVE  CallsInPlace'
  BY <1>8 DEF Cancel, Return, state, ListenerTypeOK, CallsInPlace
<1>9. ASSUME NEW c \in Callers, NEW t \in Tasks, Bind(c, t)
      PROVE  CallsInPlace'
  BY <1>9, ListenerAssumption DEF Bind, state, ListenerTypeOK, CallsInPlace
<1>10. ASSUME NEW c \in Callers, NEW e \in Streams, Insert(c, e)
      PROVE  CallsInPlace'
  BY <1>10 DEF Insert, Return, ListenerTypeOK, CallsInPlace
<1>11. ASSUME NEW e \in Streams, DropStream(e)
      PROVE  CallsInPlace'
  BY <1>11 DEF DropStream, Close, calls, state, CallsInPlace
<1>12. ASSUME NEW t \in Tasks, ReceiveFails(t)
      PROVE  CallsInPlace'
  BY <1>12 DEF ReceiveFails, calls, state, CallsInPlace
<1>13. ASSUME NEW t \in Tasks, ClearAll(t)
      PROVE  CallsInPlace'
  BY <1>13 DEF ClearAll, calls, CallsInPlace
<1>14. ASSUME NEW t \in Tasks, Gone(t)
      PROVE  CallsInPlace'
  BY <1>14 DEF Gone, calls, state, CallsInPlace
<1>15. CASE UNCHANGED listenerVars
  BY <1>15 DEF listenerVars, calls, state, CallsInPlace
<1> QED
  BY <1>1, <1>2, <1>3, <1>4, <1>5, <1>6, <1>7, <1>8, <1>9, <1>10, <1>11, <1>12, <1>13,
     <1>14, <1>15 DEF ListenerNext

\* The socket follows the table: whoever empties the table closes it, and a
\* subscriber joins with one.
LEMMA ServedStep ==
    ASSUME ListenerTypeOK, CallsInPlace, ServedInv, [ListenerNext]_listenerVars
    PROVE  ServedInv'
<1>1. ASSUME NEW c \in Callers, NEW o \in {"subscribe", "unsubscribe"}, NEW s \in Scanners,
             Call(c, o, s)
      PROVE  ServedInv'
  BY <1>1 DEF Call, state, ServedInv, SocketWhileSubscribed, JoinersServed, Subscribed
<1>2. ASSUME NEW c \in Callers, EnterSubscribe(c)
      PROVE  ServedInv'
  BY <1>2 DEF EnterSubscribe, ServedInv, SocketWhileSubscribed, JoinersServed,
     Subscribed
<1>3. ASSUME NEW c \in Callers, EnterUnsubscribe(c)
      PROVE  ServedInv'
  BY <1>3, ListenerAssumption DEF EnterUnsubscribe, Close, ListenerTypeOK, ServedInv,
     SocketWhileSubscribed, JoinersServed, Subscribed
<1>4. ASSUME NEW c \in Callers, Unsubscribed(c)
      PROVE  ServedInv'
  BY <1>4 DEF Unsubscribed, Drained, Return, state, ServedInv, SocketWhileSubscribed,
     JoinersServed, Subscribed
<1>5. ASSUME NEW c \in Callers, Look(c)
      PROVE  ServedInv'
  BY <1>5 DEF Look, Drained, state, ServedInv, SocketWhileSubscribed, JoinersServed,
     Subscribed
<1>6. ASSUME NEW c \in Callers, BindFails(c)
      PROVE  ServedInv'
  BY <1>6 DEF BindFails, Return, state, ServedInv, SocketWhileSubscribed, JoinersServed,
     Subscribed
<1>7. ASSUME NEW c \in Callers, Record(c)
      PROVE  ServedInv'
  BY <1>7 DEF Record, ListenerTypeOK, CallsInPlace, ServedInv, SocketWhileSubscribed,
     JoinersServed
<1>8. ASSUME NEW c \in Callers, Cancel(c)
      PROVE  ServedInv'
  BY <1>8 DEF Cancel, Return, state, ServedInv, SocketWhileSubscribed, JoinersServed,
     Subscribed
<1>9. ASSUME NEW c \in Callers, NEW t \in Tasks, Bind(c, t)
      PROVE  ServedInv'
  BY <1>9 DEF Bind, state, ListenerTypeOK, ServedInv, SocketWhileSubscribed, JoinersServed,
     Subscribed
<1>10. ASSUME NEW c \in Callers, NEW e \in Streams, Insert(c, e)
      PROVE  ServedInv'
  BY <1>10, ListenerAssumption DEF Insert, Return, ListenerTypeOK, CallsInPlace, ServedInv,
     SocketWhileSubscribed, JoinersServed, Subscribed
<1>11. ASSUME NEW e \in Streams, DropStream(e)
      PROVE  ServedInv'
  BY <1>11 DEF DropStream, Close, calls, state, ListenerTypeOK, CallsInPlace, ServedInv,
     SocketWhileSubscribed, JoinersServed, Subscribed, Joining
<1>12. ASSUME NEW t \in Tasks, ReceiveFails(t)
      PROVE  ServedInv'
  BY <1>12 DEF ReceiveFails, calls, state, ServedInv, SocketWhileSubscribed,
     JoinersServed, Subscribed
<1>13. ASSUME NEW t \in Tasks, ClearAll(t)
      PROVE  ServedInv'
  BY <1>13 DEF ClearAll, calls, CallsInPlace, ServedInv, SocketWhileSubscribed,
     JoinersServed, Subscribed, Joining
<1>14. ASSUME NEW t \in Tasks, Gone(t)
      PROVE  ServedInv'
  BY <1>14 DEF Gone, calls, state, ServedInv, SocketWhileSubscribed, JoinersServed,
     Subscribed
<1>15. CASE UNCHANGED listenerVars
  BY <1>15 DEF listenerVars, calls, state, ServedInv, SocketWhileSubscribed, JoinersServed,
     Subscribed
<1> QED
  BY <1>1, <1>2, <1>3, <1>4, <1>5, <1>6, <1>7, <1>8, <1>9, <1>10, <1>11, <1>12, <1>13,
     <1>14, <1>15 DEF ListenerNext

\* Whoever closes a socket parks its task or awaits it.
LEMMA AccountedStep ==
    ASSUME ListenerTypeOK, CallsInPlace, ServedInv, AccountedInv,
           [ListenerNext]_listenerVars
    PROVE  AccountedInv'
<1>1. ASSUME NEW c \in Callers, NEW o \in {"subscribe", "unsubscribe"}, NEW s \in Scanners,
             Call(c, o, s)
      PROVE  AccountedInv'
  BY <1>1 DEF Call, state, Joining, OpenSocket, AccountedInv, SocketsAccounted
<1>2. ASSUME NEW c \in Callers, EnterSubscribe(c)
      PROVE  AccountedInv'
  BY <1>2 DEF EnterSubscribe, ListenerTypeOK, CallsInPlace, OpenSocket, AccountedInv,
     SocketsAccounted
<1>3. ASSUME NEW c \in Callers, EnterUnsubscribe(c)
      PROVE  AccountedInv'
  BY <1>3 DEF EnterUnsubscribe, Close, ListenerTypeOK, CallsInPlace, OpenSocket,
     AccountedInv,
     SocketsAccounted
<1>4. ASSUME NEW c \in Callers, Unsubscribed(c)
      PROVE  AccountedInv'
  BY <1>4 DEF Unsubscribed, Drained, Return, state, Joining, OpenSocket, AccountedInv,
     SocketsAccounted
<1>5. ASSUME NEW c \in Callers, Look(c)
      PROVE  AccountedInv'
  BY <1>5 DEF Look, Drained, state, Joining, OpenSocket, AccountedInv, SocketsAccounted
<1>6. ASSUME NEW c \in Callers, BindFails(c)
      PROVE  AccountedInv'
  BY <1>6 DEF BindFails, Return, state, CallsInPlace, Joining, OpenSocket, AccountedInv,
     SocketsAccounted
<1>7. ASSUME NEW c \in Callers, Record(c)
      PROVE  AccountedInv'
  BY <1>7 DEF Record, CallsInPlace, Joining, OpenSocket, AccountedInv, SocketsAccounted
<1>8. ASSUME NEW c \in Callers, Cancel(c)
      PROVE  AccountedInv'
  BY <1>8 DEF Cancel, Return, state, Joining, OpenSocket, AccountedInv, SocketsAccounted
<1>9. ASSUME NEW c \in Callers, NEW t \in Tasks, Bind(c, t)
      PROVE  AccountedInv'
  BY <1>9 DEF Bind, state, ListenerTypeOK, Joining, OpenSocket, AccountedInv,
     SocketsAccounted
<1>10. ASSUME NEW c \in Callers, NEW e \in Streams, Insert(c, e)
      PROVE  AccountedInv'
  BY <1>10 DEF Insert, Return, CallsInPlace, ServedInv, JoinersServed, OpenSocket,
     AccountedInv, SocketsAccounted
<1>11. ASSUME NEW e \in Streams, DropStream(e)
      PROVE  AccountedInv'
  BY <1>11 DEF DropStream, Close, calls, state, ServedInv, SocketWhileSubscribed,
     Joining, OpenSocket, AccountedInv, SocketsAccounted
<1>12. ASSUME NEW t \in Tasks, ReceiveFails(t)
      PROVE  AccountedInv'
  BY <1>12 DEF ReceiveFails, calls, state, Joining, OpenSocket, AccountedInv,
     SocketsAccounted
<1>13. ASSUME NEW t \in Tasks, ClearAll(t)
      PROVE  AccountedInv'
  BY <1>13 DEF ClearAll, AccountedInv
<1>14. ASSUME NEW t \in Tasks, Gone(t)
      PROVE  AccountedInv'
  BY <1>14 DEF Gone, calls, state, Joining, OpenSocket, AccountedInv, SocketsAccounted
<1>15. CASE UNCHANGED listenerVars
  BY <1>15 DEF listenerVars, calls, state, AccountedInv, SocketsAccounted, Joining,
     OpenSocket
<1> QED
  BY <1>1, <1>2, <1>3, <1>4, <1>5, <1>6, <1>7, <1>8, <1>9, <1>10, <1>11, <1>12, <1>13,
     <1>14, <1>15 DEF ListenerNext

\* A subscriber that binds has awaited the socket before it.
LEMMA RefusalStep ==
    ASSUME ListenerTypeOK, CallsInPlace, AccountedInv, RefusalIsForeign,
           [ListenerNext]_listenerVars
    PROVE  RefusalIsForeign'
<1>1. ASSUME NEW c \in Callers, NEW o \in {"subscribe", "unsubscribe"}, NEW s \in Scanners,
             Call(c, o, s)
      PROVE  RefusalIsForeign'
  BY <1>1 DEF Call, RefusalIsForeign
<1>2. ASSUME NEW c \in Callers, EnterSubscribe(c)
      PROVE  RefusalIsForeign'
  BY <1>2 DEF EnterSubscribe, RefusalIsForeign
<1>3. ASSUME NEW c \in Callers, EnterUnsubscribe(c)
      PROVE  RefusalIsForeign'
  BY <1>3 DEF EnterUnsubscribe, RefusalIsForeign
<1>4. ASSUME NEW c \in Callers, Unsubscribed(c)
      PROVE  RefusalIsForeign'
  BY <1>4 DEF Unsubscribed, RefusalIsForeign
<1>5. ASSUME NEW c \in Callers, Look(c)
      PROVE  RefusalIsForeign'
  BY <1>5 DEF Look, RefusalIsForeign
<1>6. ASSUME NEW c \in Callers, BindFails(c)
      PROVE  RefusalIsForeign'
  BY <1>6, ListenerAssumption DEF BindFails, ListenerTypeOK, CallsInPlace, Joining,
     AccountedInv,
     SocketsAccounted, RefusalIsForeign
<1>7. ASSUME NEW c \in Callers, Record(c)
      PROVE  RefusalIsForeign'
  BY <1>7 DEF Record, RefusalIsForeign
<1>8. ASSUME NEW c \in Callers, Cancel(c)
      PROVE  RefusalIsForeign'
  BY <1>8 DEF Cancel, RefusalIsForeign
<1>9. ASSUME NEW c \in Callers, NEW t \in Tasks, Bind(c, t)
      PROVE  RefusalIsForeign'
  BY <1>9 DEF Bind, RefusalIsForeign
<1>10. ASSUME NEW c \in Callers, NEW e \in Streams, Insert(c, e)
      PROVE  RefusalIsForeign'
  BY <1>10 DEF Insert, RefusalIsForeign
<1>11. ASSUME NEW e \in Streams, DropStream(e)
      PROVE  RefusalIsForeign'
  BY <1>11 DEF DropStream, RefusalIsForeign
<1>12. ASSUME NEW t \in Tasks, ReceiveFails(t)
      PROVE  RefusalIsForeign'
  BY <1>12 DEF ReceiveFails, RefusalIsForeign
<1>13. ASSUME NEW t \in Tasks, ClearAll(t)
      PROVE  RefusalIsForeign'
  BY <1>13 DEF ClearAll, RefusalIsForeign
<1>14. ASSUME NEW t \in Tasks, Gone(t)
      PROVE  RefusalIsForeign'
  BY <1>14 DEF Gone, RefusalIsForeign
<1>15. CASE UNCHANGED listenerVars
  BY <1>15 DEF listenerVars, RefusalIsForeign
<1> QED
  BY <1>1, <1>2, <1>3, <1>4, <1>5, <1>6, <1>7, <1>8, <1>9, <1>10, <1>11, <1>12, <1>13,
     <1>14, <1>15 DEF ListenerNext

\* The strengthening holds initially.
LEMMA InitInv == ListenerInit => ListenerInv
<1> SUFFICES ASSUME ListenerInit PROVE ListenerInv
  OBVIOUS
<1>1. ListenerTypeOK
  BY ListenerAssumption DEF ListenerInit, ListenerTypeOK
<1>2. CallsInPlace /\ Subscribed = {} /\ Joining = {}
  BY DEF ListenerInit, CallsInPlace, Subscribed, Joining
<1>3. ServedInv
  BY <1>2 DEF ListenerInit, ServedInv, SocketWhileSubscribed, JoinersServed
<1>4. AccountedInv /\ RefusalIsForeign
  BY DEF ListenerInit, AccountedInv, SocketsAccounted, RefusalIsForeign, OpenSocket
<1> QED
  BY <1>1, <1>2, <1>3, <1>4 DEF ListenerInv

\* Every step keeps it.
LEMMA StepInv == ListenerInv /\ [ListenerNext]_listenerVars => ListenerInv'
  BY ListenerTypeStep, PlacedStep, ServedStep, AccountedStep, RefusalStep DEF ListenerInv

\* It holds throughout.
LEMMA Inductive == ListenerSpec => []ListenerInv
  BY InitInv, StepInv, PTL DEF ListenerSpec

-----------------------------------------------------------------------------
(* Theorems *)

\* Every variable keeps its type, and a call past Listener.gate holds it.
THEOREM ListenerTypeCorrect == ListenerSpec => []ListenerTypeOK
<1>1. ListenerInv => ListenerTypeOK
  BY DEF ListenerInv
<1> QED
  BY <1>1, Inductive, PTL

\* The socket exists exactly while the table has a subscriber, whatever calls,
\* drops and failures come in between, unless the last one left while another
\* was joining.
THEOREM SocketFollowsTable == ListenerSpec => []ServedUnlessRaced
<1>1. ListenerInv => ServedUnlessRaced
  BY DEF ListenerInv, ServedInv, ServedUnlessRaced
<1> QED
  BY <1>1, Inductive, PTL

\* Until a call was dropped or a socket failed, a subscriber binds with every
\* socket before its own closed.
THEOREM BindMeetsNoSocket == ListenerSpec => []RefusalIsForeign
<1>1. ListenerInv => RefusalIsForeign
  BY DEF ListenerInv
<1> QED
  BY <1>1, Inductive, PTL

\* The table, the socket and the task that closes one agree.
THEOREM SocketAgree == ListenerSpec => []SocketAgrees
  BY ListenerTypeCorrect, SocketFollowsTable, BindMeetsNoSocket, PTL DEF SocketAgrees

-----------------------------------------------------------------------------
(* The end of a stream *)

EndsForACause ==
    \A s \in Scanners :
        (table[s] # NoStream /\ table'[s] # table[s] /\ owner'[table[s]] = s) =>
            \/ table'[s] # NoStream
            \/ \E c \in Callers :
                  gate' = c /\ gate # c /\ op[c] = "unsubscribe" /\ arg[c] = s
            \/ \E t \in Tasks : task[t] = "failing" /\ task'[t] = "ending"

\* The drop of a stream takes the entry of that stream alone, and its owner with it.
LEMMA CauseStep ==
    ASSUME ListenerTypeOK, [ListenerNext]_listenerVars
    PROVE  EndsForACause
<1>1. ASSUME NEW c \in Callers, NEW o \in {"subscribe", "unsubscribe"}, NEW s \in Scanners,
             Call(c, o, s)
      PROVE  EndsForACause
  BY <1>1 DEF Call, state, EndsForACause
<1>2. ASSUME NEW c \in Callers, EnterSubscribe(c)
      PROVE  EndsForACause
  BY <1>2 DEF EnterSubscribe, EndsForACause
<1>3. ASSUME NEW c \in Callers, EnterUnsubscribe(c)
      PROVE  EndsForACause
  BY <1>3, ListenerAssumption DEF EnterUnsubscribe, EndsForACause
<1>4. ASSUME NEW c \in Callers, Unsubscribed(c)
      PROVE  EndsForACause
  BY <1>4 DEF Unsubscribed, state, EndsForACause
<1>5. ASSUME NEW c \in Callers, Look(c)
      PROVE  EndsForACause
  BY <1>5 DEF Look, state, EndsForACause
<1>6. ASSUME NEW c \in Callers, BindFails(c)
      PROVE  EndsForACause
  BY <1>6 DEF BindFails, state, EndsForACause
<1>7. ASSUME NEW c \in Callers, Record(c)
      PROVE  EndsForACause
  BY <1>7 DEF Record, EndsForACause
<1>8. ASSUME NEW c \in Callers, Cancel(c)
      PROVE  EndsForACause
  BY <1>8 DEF Cancel, state, EndsForACause
<1>9. ASSUME NEW c \in Callers, NEW t \in Tasks, Bind(c, t)
      PROVE  EndsForACause
  BY <1>9 DEF Bind, state, EndsForACause
<1>10. ASSUME NEW c \in Callers, NEW e \in Streams, Insert(c, e)
      PROVE  EndsForACause
  BY <1>10, ListenerAssumption DEF Insert, EndsForACause
<1>11. ASSUME NEW e \in Streams, DropStream(e)
      PROVE  EndsForACause
  BY <1>11 DEF DropStream, state, ListenerTypeOK, EndsForACause
<1>12. ASSUME NEW t \in Tasks, ReceiveFails(t)
      PROVE  EndsForACause
  BY <1>12 DEF ReceiveFails, state, EndsForACause
<1>13. ASSUME NEW t \in Tasks, ClearAll(t)
      PROVE  EndsForACause
  BY <1>13 DEF ClearAll, ListenerTypeOK, EndsForACause
<1>14. ASSUME NEW t \in Tasks, Gone(t)
      PROVE  EndsForACause
  BY <1>14 DEF Gone, state, EndsForACause
<1>15. CASE UNCHANGED listenerVars
  BY <1>15 DEF listenerVars, state, EndsForACause
<1> QED
  BY <1>1, <1>2, <1>3, <1>4, <1>5, <1>6, <1>7, <1>8, <1>9, <1>10, <1>11, <1>12, <1>13,
     <1>14, <1>15 DEF ListenerNext

\* A stream whose owner still holds it is ended by a call for its scanner or with
\* the socket, never by the end of another stream.
THEOREM StreamsEndWithCause == ListenerSpec => StreamsEndForACause
<1>1. ListenerInv /\ [ListenerNext]_listenerVars => [EndsForACause]_listenerVars
  BY CauseStep DEF ListenerInv
<1> QED
  BY <1>1, Inductive, PTL DEF ListenerSpec, StreamsEndForACause, EndsForACause
=============================================================================
