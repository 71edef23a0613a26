-------------------------------- MODULE Jobs --------------------------------
(***************************************************************************)
(* From a press to a Job1 object and back: the listener task of one        *)
(* scanner (scanbus-daemon/src/listeners.rs), the job tasks it awaits and  *)
(* the processors they feed (scanbus-daemon/src/jobs.rs).                  *)
(*                                                                         *)
(* The listener awaits the whole scan, which runs in a task of its own: an *)
(* aborted listener detaches its job.  A page goes to the profile's        *)
(* processor through a bounded channel; the processor is a third task.     *)
(***************************************************************************)
EXTENDS Naturals

CONSTANTS
    Jobs,           \* job tasks that can exist at once
    NoJob,
    PageBuffer,     \* capacity of the page channel, 8 in the code
    MaxPages,       \* bound: pages of one scan
    StreamBuffer,   \* bound: presses the backend's stream holds
    Attempts        \* RestartPolicy.attempts

ASSUME JobsAssumption == NoJob \notin Jobs
ASSUME BoundsAssumption ==
    /\ PageBuffer \in Nat \ {0} /\ MaxPages \in Nat
    /\ StreamBuffer \in Nat /\ Attempts \in Nat

VARIABLES
    scanner,   \* the scanner's object exists
    listener,  \* where listeners::run is, "off" when there is no task
    attempt,   \* its restart attempts since the last press
    queue,     \* presses in the backend's stream
    closed,    \* the backend has ended the stream
    serving,   \* the job the listener awaits
    pc,        \* where each job is in jobs::run
    profile,   \* the job was stamped with a profile
    count,     \* pages counted
    failure,   \* the transfer failed, or its processor stopped
    tx, chan,  \* the sending half of the page channel, the pages in it
    proc,      \* the processor task
    eaten,     \* pages it has processed
    iface,     \* the job published its object
    object,    \* State of the object, "none" when it is not on the bus
    detached   \* history: a scan went on without a listener or an object

listening == <<listener, attempt, queue, closed, serving>>
pages == <<tx, chan, proc, eaten>>
scans == <<pc, profile, count, failure, iface, object>>
vars == <<scanner, listening, scans, pages, detached>>

Running == {"fetch", "capture", "deliver", "join", "announce"}
Terminal == {"done", "error"}

\* The whole life of a job slot, a processor left behind included.
Free(j) == pc[j] = "idle" /\ proc[j] # "running"

Set(f, j, v) == f' = [f EXCEPT ![j] = v]

-----------------------------------------------------------------------------
(* The device and its stream *)

Press ==
    /\ listener # "off" /\ ~closed /\ queue < StreamBuffer
    /\ queue' = queue + 1
    /\ UNCHANGED <<scanner, listener, attempt, closed, serving, scans, pages, detached>>

StreamEnds ==
    /\ listener \in {"waiting", "scanning"} /\ ~closed
    /\ closed' = TRUE
    /\ UNCHANGED <<scanner, listener, attempt, queue, serving, scans, pages, detached>>

-----------------------------------------------------------------------------
(* The listener: listeners::run *)

\* A press clears the budget; its job is spawned and awaited.
Take(j, stamped) ==
    /\ listener = "waiting" /\ queue > 0 /\ Free(j)
    /\ queue' = queue - 1 /\ attempt' = 0
    /\ listener' = "scanning" /\ serving' = j
    /\ Set(pc, j, "fetch") /\ Set(profile, j, stamped)
    /\ Set(proc, j, "none") /\ Set(eaten, j, 0) /\ Set(chan, j, 0)
    /\ UNCHANGED <<scanner, closed, count, failure, iface, object, tx, detached>>

\* Mutant: the press is handed over and the next one taken at once.
ReturnAtOnce ==
    /\ listener = "scanning"
    /\ listener' = "waiting" /\ serving' = NoJob
    /\ UNCHANGED <<scanner, attempt, queue, closed, scans, pages, detached>>

\* The sink returned.
Return ==
    /\ listener = "scanning" /\ serving = NoJob
    /\ listener' = "waiting"
    /\ UNCHANGED <<scanner, attempt, queue, closed, serving, scans, pages, detached>>

Lost ==
    /\ listener = "waiting" /\ queue = 0 /\ closed
    /\ listener' = "retrying"
    /\ UNCHANGED <<scanner, attempt, queue, closed, serving, scans, pages, detached>>

\* Mutant: a stream that could be opened again clears the budget.
RetryAfresh ==
    /\ listener = "retrying" /\ attempt < Attempts
    /\ \/ listener' = "waiting" /\ closed' = FALSE /\ attempt' = 0
       \/ attempt' = attempt + 1 /\ UNCHANGED <<listener, closed>>
    /\ UNCHANGED <<scanner, queue, serving, scans, pages, detached>>

\* After the backoff: start_listening gives a new stream or an error.
Retry ==
    /\ listener = "retrying" /\ attempt < Attempts
    /\ attempt' = attempt + 1
    /\ \/ listener' = "waiting" /\ closed' = FALSE
       \/ UNCHANGED <<listener, closed>>
    /\ UNCHANGED <<scanner, queue, serving, scans, pages, detached>>

\* listener_failed: the budget is used up.
GiveUp ==
    /\ listener = "retrying" /\ attempt >= Attempts
    /\ listener' = "off" /\ attempt' = 0 /\ closed' = FALSE
    /\ UNCHANGED <<scanner, queue, serving, scans, pages, detached>>

-----------------------------------------------------------------------------
(* What the registry does to the listener and the object *)

\* ensure_listening spawns the task with its first stream open.
EnsureListening ==
    /\ scanner /\ listener = "off"
    /\ listener' = "waiting"
    /\ UNCHANGED <<scanner, attempt, queue, closed, serving, scans, pages, detached>>

\* The task is aborted: the presses in its stream go, its job is detached.
AbortListener ==
    /\ listener' = "off" /\ attempt' = 0 /\ queue' = 0 /\ closed' = FALSE
    /\ serving' = NoJob

\* Mutant: the job runs inside the listener task and dies with it.
StopListeningKilling ==
    /\ listener # "off"
    /\ AbortListener
    /\ detached' = (detached \/ serving # NoJob)
    /\ IF serving = NoJob THEN UNCHANGED <<pc, tx>>
       ELSE Set(pc, serving, "idle") /\ Set(tx, serving, FALSE)
    /\ UNCHANGED <<scanner, profile, count, failure, iface, object, chan, proc, eaten>>

\* stop_listening, for a Disconnect().
StopListening ==
    /\ listener # "off"
    /\ AbortListener
    /\ detached' = (detached \/ serving # NoJob)
    /\ UNCHANGED <<scanner, scans, pages>>

\* Mutant: only the scanner's own object is removed.
RemoveObject ==
    /\ scanner
    /\ scanner' = FALSE
    /\ AbortListener
    /\ detached' = (detached \/ \E j \in Jobs : pc[j] \in Running)
    /\ UNCHANGED <<scans, pages>>

\* end_discovery or retire: remove_subtree takes the job objects along.
RemoveSubtree ==
    /\ scanner
    /\ scanner' = FALSE
    /\ AbortListener
    /\ object' = [j \in Jobs |-> "none"]
    /\ detached' = (detached \/ \E j \in Jobs : pc[j] \in Running)
    /\ UNCHANGED <<pc, profile, count, failure, iface, pages>>

\* publish: the scanner is seen again.
PublishScanner ==
    /\ ~scanner
    /\ scanner' = TRUE
    /\ UNCHANGED <<listening, scans, pages, detached>>

-----------------------------------------------------------------------------
(* The job: jobs::run *)

\* The locals of a task that is over.
Forget(j) == Set(profile, j, FALSE) /\ Set(count, j, 0) /\ Set(failure, j, FALSE)

\* Nothing was published: the task ends and the listener goes on.  Dropping the
\* sender is all a processor hears of it.
EndUnpublished(j) ==
    /\ Set(pc, j, "idle") /\ Set(tx, j, FALSE) /\ Forget(j)
    /\ serving' = IF serving = j THEN NoJob ELSE serving
    /\ UNCHANGED object

Step(j, from, to) == pc[j] = from /\ Set(pc, j, to)

Outside == UNCHANGED <<scanner, listener, attempt, queue, closed, detached>>

\* fetch_pages answers with a stream, and the processor is spawned, or fails.
Fetch(j) ==
    /\ Outside
    /\ \/ /\ Step(j, "fetch", "capture")
          /\ Set(tx, j, profile[j])
          /\ Set(proc, j, IF profile[j] THEN "running" ELSE "none")
          /\ UNCHANGED <<serving, profile, count, failure, iface, object, chan, eaten>>
       \/ /\ pc[j] = "fetch"
          /\ EndUnpublished(j)
          /\ UNCHANGED <<iface, chan, proc, eaten>>

\* A page: the first one publishes the object, wherever its scanner went.
Page(j) ==
    /\ Outside
    /\ pc[j] = "capture" /\ count[j] < MaxPages
    /\ \/ /\ Set(count, j, count[j] + 1)
          /\ Set(pc, j, IF profile[j] THEN "deliver" ELSE "capture")
          /\ Set(iface, j, TRUE)
          /\ IF iface[j] THEN UNCHANGED object ELSE Set(object, j, "receiving")
          /\ UNCHANGED <<serving, profile, failure, tx>>
       \/ ~iface[j] /\ EndUnpublished(j) /\ UNCHANGED iface
    /\ UNCHANGED <<chan, proc, eaten>>

\* The end of the capture: drop(pages_tx), and the task ends here if no page came.
EndCapture(j, failed) ==
    IF iface[j] THEN /\ Set(pc, j, "join") /\ Set(tx, j, FALSE) /\ Set(failure, j, failed)
                     /\ UNCHANGED <<serving, profile, count, object>>
    ELSE EndUnpublished(j)

\* Mutant: a page the channel has no room for is dropped.
DeliverOrDrop(j) ==
    /\ Outside
    /\ pc[j] = "deliver"
    /\ \/ /\ proc[j] = "running"
          /\ Set(chan, j, IF chan[j] < PageBuffer THEN chan[j] + 1 ELSE chan[j])
          /\ Set(pc, j, "capture")
          /\ UNCHANGED <<serving, profile, count, failure, object, tx>>
       \/ proc[j] # "running" /\ EndCapture(j, TRUE) /\ UNCHANGED chan
    /\ UNCHANGED <<iface, proc, eaten>>

\* The page goes to the processor; the send waits while the channel is full and
\* fails when the processor is gone.
Deliver(j) ==
    /\ Outside
    /\ pc[j] = "deliver"
    /\ \/ /\ proc[j] = "running" /\ chan[j] < PageBuffer
          /\ Set(chan, j, chan[j] + 1) /\ Set(pc, j, "capture")
          /\ UNCHANGED <<serving, profile, count, failure, object, tx>>
       \/ proc[j] # "running" /\ EndCapture(j, TRUE) /\ UNCHANGED chan
    /\ UNCHANGED <<iface, proc, eaten>>

\* The stream ends, or yields the one Err that ends a transfer.
EndOfPages(j) ==
    /\ Outside
    /\ pc[j] = "capture"
    /\ \E failed \in BOOLEAN : EndCapture(j, failed)
    /\ UNCHANGED <<iface, chan, proc, eaten>>

\* An announcement on an object the scanner's removal took away reaches nobody.
Announce(j, s) == Set(object, j, IF object[j] = "none" THEN "none" ELSE s)

\* task.await on the processor, then "processing" for a capture that ended well.
Join(j) ==
    /\ Outside
    /\ proc[j] # "running"
    /\ Step(j, "join", "announce")
    /\ IF failure[j] THEN UNCHANGED object ELSE Announce(j, "processing")
    /\ UNCHANGED <<serving, profile, count, failure, iface, pages>>

\* The terminal state, and the handover to the retention timer.
Conclude(j) ==
    /\ Outside
    /\ Step(j, "announce", "retained")
    /\ Announce(j, IF failure[j] \/ proc[j] = "failed" THEN "error" ELSE "done")
    /\ serving' = IF serving = j THEN NoJob ELSE serving
    /\ Forget(j) /\ Set(iface, j, FALSE)
    /\ Set(proc, j, "none") /\ Set(eaten, j, 0)
    /\ UNCHANGED <<tx, chan>>

\* retire: the retention window is over.
Retire(j) ==
    /\ Outside
    /\ Step(j, "retained", "idle")
    /\ Set(object, j, "none")
    /\ UNCHANGED <<serving, profile, count, failure, iface, pages>>

-----------------------------------------------------------------------------
(* The processor of a job *)

Process(j) ==
    /\ proc[j] = "running" /\ chan[j] > 0
    /\ Set(chan, j, chan[j] - 1) /\ Set(eaten, j, eaten[j] + 1)
    /\ UNCHANGED <<scanner, listening, scans, tx, proc, detached>>

\* It ends with a result once the channel is closed and empty.
ProcessorEnds(j) ==
    /\ proc[j] = "running" /\ chan[j] = 0 /\ ~tx[j]
    /\ Set(proc, j, "ok")
    /\ UNCHANGED <<scanner, listening, scans, tx, chan, eaten, detached>>

\* Bad options, a page it cannot encode, a disk that is full; the pages left in
\* the channel go with its receiver.
ProcessorFails(j) ==
    /\ proc[j] = "running"
    /\ Set(proc, j, "failed") /\ Set(chan, j, 0) /\ Set(eaten, j, 0)
    /\ UNCHANGED <<scanner, listening, scans, tx, detached>>

-----------------------------------------------------------------------------
(* Specification *)

Init ==
    /\ scanner = FALSE /\ listener = "off" /\ attempt = 0 /\ queue = 0
    /\ closed = FALSE /\ serving = NoJob
    /\ pc = [j \in Jobs |-> "idle"] /\ profile = [j \in Jobs |-> FALSE]
    /\ count = [j \in Jobs |-> 0] /\ failure = [j \in Jobs |-> FALSE]
    /\ tx = [j \in Jobs |-> FALSE] /\ chan = [j \in Jobs |-> 0]
    /\ proc = [j \in Jobs |-> "none"] /\ eaten = [j \in Jobs |-> 0]
    /\ iface = [j \in Jobs |-> FALSE] /\ object = [j \in Jobs |-> "none"]
    /\ detached = FALSE

Takes == \E j \in Jobs, stamped \in BOOLEAN : Take(j, stamped)

Listener == Takes \/ Return \/ Lost \/ Retry \/ GiveUp

Job(j) ==
    Fetch(j) \/ Page(j) \/ Deliver(j) \/ EndOfPages(j) \/ Join(j) \/ Conclude(j)

Processor(j) == Process(j) \/ ProcessorEnds(j) \/ ProcessorFails(j)

Next ==
    \/ Press \/ StreamEnds \/ Listener
    \/ EnsureListening \/ StopListening \/ RemoveSubtree \/ PublishScanner
    \/ \E j \in Jobs : Job(j) \/ Retire(j) \/ Processor(j)

Spec == Init /\ [][Next]_vars

\* The tasks are polled, a transfer ends and the retention timer fires.
Fairness ==
    /\ WF_vars(Listener)
    /\ \A j \in Jobs : WF_vars(Job(j)) /\ WF_vars(Retire(j)) /\ WF_vars(Processor(j))

FairSpec == Spec /\ Fairness

-----------------------------------------------------------------------------
(* Properties *)

\* Every variable holds a value the code could store in it.
TypeOK ==
    /\ {scanner, closed, detached} \subseteq BOOLEAN
    /\ listener \in {"off", "waiting", "scanning", "retrying"}
    /\ attempt \in 0..Attempts /\ queue \in 0..StreamBuffer
    /\ serving \in Jobs \cup {NoJob}
    /\ pc \in [Jobs -> Running \cup {"idle", "retained"}]
    /\ profile \in [Jobs -> BOOLEAN] /\ failure \in [Jobs -> BOOLEAN]
    /\ tx \in [Jobs -> BOOLEAN] /\ iface \in [Jobs -> BOOLEAN]
    /\ count \in [Jobs -> 0..MaxPages] /\ eaten \in [Jobs -> 0..MaxPages]
    /\ chan \in [Jobs -> 0..PageBuffer]
    /\ proc \in [Jobs -> {"none", "running", "ok", "failed"}]
    /\ object \in [Jobs -> Terminal \cup {"none", "receiving", "processing"}]

\* "A device scans one thing at a time": the next press waits for the scan, as
\* long as no listener was aborted under one.
OneScanAtATime ==
    ~detached => \A i, j \in Jobs : pc[i] \in Running /\ pc[j] \in Running => i = j

\* A job that turns "done" has processed every page it counted.
NoPageIsLost ==
    [][\A j \in Jobs : object[j] # "done" /\ object'[j] = "done" /\ profile[j]
                           => eaten[j] = count[j]]_vars

\* A job object is a child of its scanner's, unless the scanner went away while
\* the scan was running.
JobsHaveScanner ==
    ~detached => \A j \in Jobs : object[j] # "none" => scanner

\* Together: scans and their objects are where their listener put them.
JobsAgree == TypeOK /\ OneScanAtATime /\ JobsHaveScanner

\* No job object stays on the bus: whatever became of its listener, a scan ends
\* and its retention window with it.
JobsLeaveTheBus == \A j \in Jobs : object[j] # "none" ~> object[j] = "none"

\* A vendor daemon that accepts a listener and drops it again is not retried
\* forever: with no press, the restarts run into the budget.
BudgetRunsOut ==
    <>[][~Takes]_vars /\ []<><<StreamEnds>>_vars => []<>(listener = "off")
=============================================================================
