------------------------------- MODULE Hplip --------------------------------
(***************************************************************************)
(* The HPLIP backend's listener for one scanner (scanbus-backend-hplip/    *)
(* src/lib.rs): start_listening subscribes to hpssd on the session bus and *)
(* only then registers this host on the device's panel (Walkup); its task  *)
(* turns hpssd's events into triggers; stop_listening withdraws.           *)
(*                                                                         *)
(* Its callers are the daemon's: Connect() and Disconnect() under the      *)
(* registry's lock, the listener task that restarts a stream that ended,   *)
(* and the driver of a pairing, which drops the stream it obtains.  They   *)
(* do not overlap: a scanner whose listener runs is paired, and one that   *)
(* is being paired cannot connect.                                         *)
(***************************************************************************)
EXTENDS Walkup, Sequences

CONSTANTS
    MaxOwners,  \* instances of hpssd that may own the status service in turn
    MaxPresses, \* presses of the panel's entry
    EventBound, \* Event signals the bus may hold for the stream
    QueueBound  \* the trigger channel, 8 in the code

ASSUME HplipAssumption ==
    /\ MaxOwners \in Nat /\ MaxPresses \in Nat
    /\ EventBound \in Nat \ {0} /\ QueueBound \in Nat \ {0}

VARIABLES
    hpssd,      \* the owner of com.hplip.StatusService, 0 for none
    owners,     \* owners so far
    last,       \* the last entry of its history: a press, or 0 for anything else
    presses,    \* presses so far
    caller,     \* whose start_listening is running
    step,       \* and where it is
    watched,    \* the owner it, or the task, subscribed to
    missed,     \* history: hpssd left between that and the ownership rule
    task,       \* the listener task of the backend
    events,     \* Event signals it has not taken
    lost,       \* NameOwnerChanged is waiting for it
    lastTrigger,\* last_trigger_id
    queue,      \* the trigger channel
    heard,      \* how often each press was handed to the daemon
    audible,    \* presses whose event was queued for this stream
    listener,   \* the daemon's listener task
    unserved    \* history: why an entry may have nobody behind it

status == <<hpssd, owners, last, presses>>
starting == <<caller, step, watched, missed>>
stream == <<task, events, lost, lastTrigger, queue, audible>>
rest == <<heard, listener, unserved>>
vars == <<walkupVars, status, starting, stream, rest>>

Presses == 1..MaxPresses

NoStream ==
    /\ task' = "none" /\ events' = 0 /\ lost' = FALSE
    /\ lastTrigger' = 0 /\ queue' = <<>> /\ audible' = {}

Init ==
    /\ WalkupInit
    /\ hpssd \in {0, 1} \cap 0..MaxOwners /\ owners = hpssd
    /\ last = 0 /\ presses = 0
    /\ caller = "none" /\ step = "none" /\ watched = 0 /\ missed = FALSE
    /\ task = "none" /\ events = 0 /\ lost = FALSE
    /\ lastTrigger = 0 /\ queue = <<>> /\ audible = {}
    /\ heard = [p \in Presses |-> 0]
    /\ listener = "none" /\ unserved = {}

-----------------------------------------------------------------------------
(* hpssd and the panel *)

Subscribed == task # "none" \/ step \in {"watch", "install"}
OwnershipWatched == task # "none" \/ step = "install"

\* A toolbox Event reaches whoever subscribed to the instance that sends it.
Signal(p) ==
    IF Subscribed /\ watched = hpssd
    THEN /\ events < EventBound
         /\ events' = events + 1
         /\ audible' = IF p = 0 THEN audible ELSE audible \cup {p}
    ELSE UNCHANGED <<events, audible>>

\* Somebody selects this host on the panel.  A device with a collection only
\* offers the hosts in it; one without reports over USB.
Press ==
    /\ hpssd # 0 /\ presses < MaxPresses
    /\ caps = "absent" \/ Own # {}
    /\ presses' = presses + 1 /\ last' = presses + 1
    /\ Signal(presses + 1)
    /\ UNCHANGED <<walkupVars, hpssd, owners, starting, task, lost, lastTrigger, queue, rest>>

\* Any other event of the device: paper jams, the end of a scan.
OtherEvent ==
    /\ hpssd # 0 /\ last # 0
    /\ last' = 0 /\ Signal(0)
    /\ UNCHANGED <<walkupVars, hpssd, owners, presses, starting, task, lost, lastTrigger,
                   queue, rest>>

\* Its history goes with it.
HpssdExits ==
    /\ hpssd # 0
    /\ hpssd' = 0 /\ last' = 0
    /\ lost' = (lost \/ (OwnershipWatched /\ watched = hpssd))
    /\ missed' = (missed \/ (step \in {"toolbox", "watch"} /\ watched = hpssd))
    /\ UNCHANGED <<walkupVars, owners, presses, caller, step, watched, task, events,
                   lastTrigger, queue, audible, rest>>

HpssdStarts ==
    /\ hpssd = 0 /\ owners < MaxOwners
    /\ owners' = owners + 1 /\ hpssd' = owners + 1
    /\ UNCHANGED <<walkupVars, last, presses, starting, stream, rest>>

-----------------------------------------------------------------------------
(* start_listening *)

Start(who) ==
    /\ caller = "none" /\ step = "none" /\ leaving = NoUri
    /\ caller' = who /\ step' = "owner"
    /\ UNCHANGED <<walkupVars, status, watched, missed, stream, rest>>

\* ensure_listening under the registry's lock: nothing to do when a listener
\* runs.
Connect == listener \in {"none", "failed"} /\ Start("connect")
Restart == listener = "restarting" /\ Start("restart")
Pair == listener = "none" /\ panel = NoUri /\ Start("driver")

\* status_service_owner: the owner there is, or the one activation produces.
ServiceOwner ==
    /\ step = "owner"
    /\ hpssd # 0 \/ owners < MaxOwners
    /\ hpssd' = IF hpssd # 0 THEN hpssd ELSE owners + 1
    /\ owners' = IF hpssd # 0 THEN owners ELSE owners + 1
    /\ watched' = hpssd' /\ step' = "toolbox" /\ missed' = FALSE
    /\ UNCHANGED <<walkupVars, last, presses, caller, stream, rest>>

SubscribeToolbox ==
    /\ step = "toolbox" /\ step' = "watch"
    /\ UNCHANGED <<walkupVars, status, caller, watched, missed, stream, rest>>

SubscribeOwner ==
    /\ step = "watch" /\ step' = "install"
    /\ Install
    /\ UNCHANGED <<status, caller, watched, missed, stream, rest>>

\* Ok(_) and the device without a collection: the stream is handed over.  The
\* driver of a pairing drops it at once; the entry it made stays.
Listening ==
    /\ step = "install" /\ pc \in {"ok", "absent"} /\ Return
    /\ caller' = "none" /\ step' = "none"
    /\ IF caller = "driver"
       THEN /\ NoStream /\ UNCHANGED listener
            /\ unserved' = unserved \cup {"driver"}
       ELSE /\ task' = "select" /\ listener' = "running"
            /\ UNCHANGED <<events, lost, lastTrigger, queue, audible, unserved>>
    /\ UNCHANGED <<status, watched, missed, heard>>

\* Any step of start_listening that fails drops the subscriptions made so far.
StartFails ==
    /\ \/ step \in {"owner", "toolbox", "watch"} /\ UNCHANGED walkupVars
       \/ step = "install" /\ pc \in {"failed", "full"} /\ Return
    /\ caller' = "none" /\ step' = "none" /\ NoStream
    /\ UNCHANGED <<status, watched, missed, rest>>

-----------------------------------------------------------------------------
(* The task of the backend *)

TakeEvent ==
    /\ task = "select" /\ events > 0
    /\ events' = events - 1 /\ task' = "history"
    /\ UNCHANGED <<walkupVars, status, starting, lost, lastTrigger, queue, audible, rest>>

\* Mutant: one press is all a stream ever reports.
FirstOnly == last # 0 /\ lastTrigger = 0

\* scan_waiting_for_pc_trigger looks at the last entry only; the same one is
\* not reported twice.
NewTrigger == last # 0 /\ last # lastTrigger

\* GetHistory; a trigger is remembered before it is sent.
ReadHistory ==
    /\ task = "history" /\ hpssd # 0
    /\ IF NewTrigger THEN task' = "send" /\ lastTrigger' = last
       ELSE task' = "select" /\ UNCHANGED lastTrigger
    /\ UNCHANGED <<walkupVars, status, starting, events, lost, queue, audible, rest>>

ChannelRoom == Len(queue) < QueueBound

Send ==
    /\ task = "send" /\ ChannelRoom
    /\ queue' = Append(queue, lastTrigger) /\ task' = "select"
    /\ UNCHANGED <<walkupVars, status, starting, events, lost, lastTrigger, audible, rest>>

\* hpssd is seen to have left, or GetHistory finds nobody.  The stream of the
\* daemon ends once the channel is drained.
TaskEnds ==
    /\ \/ task = "select" /\ lost
       \/ task = "history" /\ hpssd = 0
    /\ task' = "none" /\ events' = 0 /\ lost' = FALSE /\ audible' = {}
    /\ UNCHANGED <<walkupVars, status, starting, lastTrigger, queue, rest>>

-----------------------------------------------------------------------------
(* The daemon's listener *)

Consume ==
    /\ listener = "running" /\ queue # <<>>
    /\ queue' = Tail(queue)
    /\ heard' = [heard EXCEPT ![Head(queue)] = @ + 1]
    /\ UNCHANGED <<walkupVars, status, starting, task, events, lost, lastTrigger, audible,
                   listener, unserved>>

StreamEnded ==
    /\ listener = "running" /\ task = "none" /\ queue = <<>>
    /\ listener' = "restarting"
    /\ UNCHANGED <<walkupVars, status, starting, stream, heard, unserved>>

\* The restart budget is spent: listener_failed.  The backend is not told.
GiveUp ==
    /\ listener = "restarting" /\ caller = "none"
    /\ listener' = "failed" /\ unserved' = unserved \cup {"failed"}
    /\ UNCHANGED <<walkupVars, status, starting, stream, heard>>

\* stop_listening of the registry: the listener is aborted, a restart it was
\* in the middle of with it, and then the backend is told.
Disconnect ==
    /\ caller \in {"none", "restart"}
    /\ listener # "none" \/ panel # NoUri
    /\ Withdraw
    /\ caller' = "none" /\ step' = "none"
    /\ listener' = "none" /\ NoStream
    /\ UNCHANGED <<status, watched, missed, heard, unserved>>

\* CancelPairing aborts the driver; a backend is not told of that.
CancelPairing ==
    /\ caller = "driver"
    /\ IF pc = "idle" THEN UNCHANGED walkupVars ELSE Aborted
    /\ unserved' = IF pc = "ok" THEN unserved \cup {"driver"} ELSE unserved
    /\ caller' = "none" /\ step' = "none" /\ NoStream
    /\ UNCHANGED <<status, watched, missed, heard, listener>>

\* A crash: the daemon starts again with nothing but what the device kept.
Crash ==
    /\ Forgotten
    /\ caller' = "none" /\ step' = "none" /\ NoStream
    /\ listener' = "none"
    /\ UNCHANGED <<status, watched, missed, heard, unserved>>

-----------------------------------------------------------------------------

\* The exchanges of Walkup, and what others do to the device.
DeviceStep == (Exchange \/ Outside) /\ UNCHANGED <<status, starting, stream, rest>>

Task == TakeEvent \/ ReadHistory \/ Send \/ TaskEnds
Listener == Consume \/ StreamEnded

Next ==
    \/ Press \/ OtherEvent \/ HpssdExits \/ HpssdStarts
    \/ Connect \/ Restart \/ Pair
    \/ ServiceOwner \/ SubscribeToolbox \/ SubscribeOwner \/ Listening \/ StartFails
    \/ Task \/ Listener \/ GiveUp \/ Disconnect \/ CancelPairing \/ Crash
    \/ DeviceStep

Spec == Init /\ [][Next]_vars

\* The tasks of the daemon run: the stream's task and its consumer.
FairSpec == Spec /\ WF_vars(Task) /\ WF_vars(Listener)

-----------------------------------------------------------------------------
(* Properties *)

TypeOK ==
    /\ WalkupTypeOK
    /\ hpssd \in 0..MaxOwners /\ owners \in 0..MaxOwners /\ hpssd <= owners
    /\ last \in 0..presses /\ presses \in 0..MaxPresses
    /\ caller \in {"none", "connect", "restart", "driver"}
    /\ step \in {"none", "owner", "toolbox", "watch", "install"}
    /\ watched \in 0..MaxOwners /\ missed \in BOOLEAN
    /\ task \in {"none", "select", "history", "send"} /\ events \in 0..EventBound
    /\ lost \in BOOLEAN /\ lastTrigger \in 0..MaxPresses
    /\ queue \in Seq(Presses) /\ Len(queue) <= QueueBound
    /\ heard \in [Presses -> Nat] /\ audible \subseteq Presses
    /\ listener \in {"none", "running", "restarting", "failed"}
    /\ unserved \subseteq {"driver", "failed"}

\* The panel does not offer this host, under an entry it holds, with nothing
\* listening: except after a pairing's own start, or a listener that gave up.
\* And a task that listens to an hpssd that is no longer there is about to
\* learn it, unless hpssd left before its ownership was watched.
OfferIsServed ==
    /\ TypeOK
    /\ panel # NoUri /\ caller = "none"
       => listener \in {"running", "restarting"} \/ unserved # {}
    /\ task # "none" /\ watched # hpssd => lost \/ missed

\* A press is reported at most once.
PressedOnce ==
    \A p \in Presses :
        LET reported == Cardinality({i \in 1..Len(queue) : queue[i] = p})
        IN  heard[p] + reported <= 1

\* The last press of the history reaches the daemon once the stream has been
\* handed over, also one made while start_listening was still at the panel,
\* unless the stream ends first; an earlier one may be hidden by what followed.
LastPressIsHeard ==
    \A p \in Presses :
        (task # "none" /\ p \in audible /\ last = p)
            ~> (heard[p] > 0 \/ p \notin audible \/ last # p)

\* Together: a press starts one job, and the last one does start it.
PressesAreHeard == []PressedOnce /\ LastPressIsHeard

\* What walkup.rs:19-24 asks for: nobody selects a host that does not listen.
NobodyBehindAnEntry ==
    \A d \in Own : d.uri = panel /\ caller = "none" => listener \in {"running", "restarting"}
=============================================================================
