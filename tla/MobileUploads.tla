---------------------------- MODULE MobileUploads ---------------------------
(***************************************************************************)
(* What a paired phone sends (scanbus-backend-mobile/src/lib.rs): the      *)
(* connection tasks of the upload listener, the sender start_listening     *)
(* leaves in the table of subscriptions, and the claim and page channel    *)
(* through which fetch_pages hands an upload to its job.                   *)
(*                                                                         *)
(* Every table is behind a lock of its own, so a connection that has been  *)
(* authorized may find the subscription gone, and one whose trigger is     *)
(* queued may give up while a job is being started for it.  A stream       *)
(* removes the entry of its scanner when it is dropped, whoever put it     *)
(* there.  The listener task, the registry and the jobs of the daemon are  *)
(* taken as far as they touch these tables.                                *)
(***************************************************************************)
EXTENDS Naturals, Sequences

CONSTANTS
    Uploads,      \* connections to the upload port, each used once
    NoUpload,
    Pages,        \* the pages each announces
    PageBuffer,   \* UPLOAD_PAGE_BUFFER, 2 in the code
    QueueBound,   \* room for triggers in a stream, 8 in the code
    Attempts      \* RestartPolicy.attempts

ASSUME UploadsAssumption ==
    /\ Pages \in [Uploads -> Nat \ {0}]
    /\ PageBuffer \in Nat \ {0} /\ QueueBound \in Nat \ {0}
    /\ Attempts \in Nat /\ NoUpload \notin Uploads

VARIABLES
    token,      \* the table of paired devices has a token for the phone
    isPaired,   \* the daemon reads the phone as paired
    unpairing,  \* where Unpair() is
    connect,    \* a Connect() has passed its checks
    entry,      \* the sender in the table of subscriptions: "none", "live" when it
                \* is that of the listener's stream, "dead" when its stream is gone
    listener,   \* where listeners::run is, "none" when there is no task
    attempt,    \* its restarts since the last trigger
    queue,      \* the uploads whose triggers are in its stream
    serving,    \* the upload whose job it awaits
    doomed,     \* a task that has ended, or was aborted, has yet to drop its stream
    pc,         \* where each connection is
    revoked,    \* history: the uploads under way, without a job, when their token went
    linked,     \* those that hold a sender of the listener's stream
    acked,      \* pages the phone has an ack for
    pending,    \* the uploads fetch_pages would find
    buffer,     \* pages in the channel of an upload
    job,        \* the job of an upload, as far as it goes here
    got,        \* pages it has received
    overlap     \* history: a Connect() overlapped an Unpair() or a stream to be dropped

account == <<token, isPaired, unpairing>>
stream == <<entry, linked, queue>>
task == <<listener, attempt, serving, doomed>>
jobs == <<job, got>>
vars == <<account, connect, stream, task, pc, revoked, acked, pending, buffer, jobs,
          overlap>>

Over == {"done", "refused", "broken"}
Sending == {"trigger", "claim", "unclaimed", "page", "deliver"}

Goto(u, l) == pc' = [pc EXCEPT ![u] = l]
JobIs(u, l) == job' = [job EXCEPT ![u] = l]

Queued(u) == \E i \in 1..Len(queue) : queue[i] = u

\* The receiving half of the pages is still somebody's.
Received(u) == u \in pending \/ job[u] = "capture"

Init ==
    /\ token = FALSE /\ isPaired = FALSE /\ unpairing = "none" /\ connect = FALSE
    /\ entry = "none" /\ linked = {} /\ queue = <<>>
    /\ listener = "none" /\ attempt = 0 /\ serving = NoUpload /\ doomed = FALSE
    /\ pc = [u \in Uploads |-> "idle"] /\ revoked = {}
    /\ acked = [u \in Uploads |-> 0]
    /\ pending = {} /\ buffer = [u \in Uploads |-> 0]
    /\ job = [u \in Uploads |-> "none"] /\ got = [u \in Uploads |-> 0]
    /\ overlap = FALSE

-----------------------------------------------------------------------------
(* start_listening, stop_listening, and dropping a stream *)

\* A stream starts with its sender in the table, in place of what was there.
Opened == entry' = "live" /\ linked' = {} /\ queue' = <<>>

\* The stream of the listener is dropped: its triggers go, sends to it fail.
Closed == linked' = {} /\ queue' = <<>>

\* MobileSubscription::drop removes whatever is under the scanner's id.
Dropped == "none"

\* ensure_listening, under the registry's lock.
EnsureListening ==
    IF listener # "none"
    THEN UNCHANGED <<stream, task, overlap>>
    ELSE /\ Opened
         /\ listener' = "running" /\ attempt' = 0
         /\ overlap' = (overlap \/ doomed)
         /\ UNCHANGED <<serving, doomed>>

\* The task ends or is aborted; a job it awaits goes on by itself.
NoTask == listener' = "none" /\ attempt' = 0 /\ serving' = NoUpload

\* stop_listening of the registry: the task is aborted and awaited, so its
\* stream is dropped before the backend is told.
Stopped == NoTask /\ Closed /\ entry' = "none" /\ UNCHANGED doomed

\* Connect() checks that the phone is paired, and then asks the registry.
Connect ==
    /\ isPaired /\ ~connect
    /\ connect' = TRUE
    /\ overlap' = (overlap \/ unpairing # "none")
    /\ UNCHANGED <<account, stream, task, pc, revoked, acked, pending, buffer, jobs>>

ConnectListen ==
    /\ connect /\ connect' = FALSE
    /\ EnsureListening
    /\ UNCHANGED <<account, pc, revoked, acked, pending, buffer, jobs>>

Disconnect ==
    /\ listener # "none" \/ entry # "none"
    /\ Stopped
    /\ UNCHANGED <<account, connect, pc, revoked, acked, pending, buffer, jobs, overlap>>

-----------------------------------------------------------------------------
(* Pairing and Unpair() *)

\* ensure_installed leaves a new token.
Install ==
    /\ ~isPaired /\ unpairing = "none"
    /\ token' = TRUE
    /\ UNCHANGED <<isPaired, unpairing, connect, stream, task, pc, revoked, acked, pending,
                   buffer, jobs, overlap>>

\* The driver's own start_listening gives a stream it drops at once.
PairingDone ==
    /\ ~isPaired /\ token /\ unpairing = "none"
    /\ isPaired' = TRUE
    /\ entry' = "none"
    /\ UNCHANGED <<token, unpairing, connect, linked, queue, task, pc, revoked, acked,
                   pending, buffer, jobs, overlap>>

\* Mutant: Unpair() leaves the listener to the backend.
NotStopped == UNCHANGED <<stream, task>>

UnpairStops == Stopped

UnpairCalled ==
    /\ isPaired /\ unpairing = "none"
    /\ unpairing' = IF listener # "none" THEN "forget_was" ELSE "forget"
    /\ UnpairStops
    /\ overlap' = (overlap \/ connect)
    /\ UNCHANGED <<token, isPaired, connect, pc, revoked, acked, pending, buffer, jobs>>

\* The machine's unpair: the backend stops and forgets, without awaiting
\* anything in between.
UnpairForget ==
    /\ unpairing \in {"forget_was", "forget"}
    /\ unpairing' = IF unpairing = "forget_was" THEN "store_was" ELSE "store"
    /\ entry' = "none" /\ token' = FALSE
    /\ revoked' = {u \in Uploads : u \in pending \/ Queued(u)}
    /\ UNCHANGED <<isPaired, connect, linked, queue, task, pc, acked, pending, buffer, jobs,
                   overlap>>

\* Then the store, which may refuse: the listener is put back.
UnpairStore ==
    /\ unpairing \in {"store_was", "store"}
    /\ unpairing' \in {"clear", IF unpairing = "store_was" THEN "relisten" ELSE "none"}
    /\ UNCHANGED <<token, isPaired, connect, stream, task, pc, revoked, acked, pending,
                   buffer, jobs, overlap>>

UnpairRelisten ==
    /\ unpairing = "relisten" /\ unpairing' = "none"
    /\ EnsureListening
    /\ UNCHANGED <<token, isPaired, connect, pc, revoked, acked, pending, buffer, jobs>>

\* The machine is cleared, and retire aborts a task without awaiting it.
UnpairDone ==
    /\ unpairing = "clear" /\ unpairing' = "none"
    /\ isPaired' = FALSE
    /\ doomed' = (doomed \/ listener # "none")
    /\ NoTask /\ Closed
    /\ entry' = IF listener # "none" /\ entry = "live" THEN "dead" ELSE entry
    /\ UNCHANGED <<token, connect, pc, revoked, acked, pending, buffer, jobs, overlap>>

-----------------------------------------------------------------------------
(* The listener task *)

\* Nobody is left who could send to its stream, and it is drained.  What
\* start_listening gives is assigned over the old stream, which drops it.
Restart ==
    /\ listener = "running" /\ serving = NoUpload
    /\ entry # "live" /\ linked = {} /\ queue = <<>>
    /\ attempt < Attempts
    /\ attempt' = attempt + 1
    /\ entry' = Dropped
    /\ UNCHANGED <<account, connect, linked, queue, listener, serving, doomed, pc, revoked,
                   acked, pending, buffer, jobs, overlap>>

\* listener_failed; the stream goes when the task returns.
GiveUp ==
    /\ listener = "running" /\ serving = NoUpload
    /\ entry # "live" /\ linked = {} /\ queue = <<>>
    /\ attempt = Attempts
    /\ NoTask
    /\ doomed' = TRUE
    /\ UNCHANGED <<account, connect, stream, pc, revoked, acked, pending, buffer, jobs,
                   overlap>>

DropLate ==
    /\ doomed /\ doomed' = FALSE
    /\ entry' = Dropped
    /\ UNCHANGED <<account, connect, linked, queue, listener, attempt, serving, pc, revoked,
                   acked, pending, buffer, jobs, overlap>>

\* The trigger is handed to the sink, which awaits the job it starts.
Take ==
    /\ listener = "running" /\ serving = NoUpload /\ queue # <<>>
    /\ JobIs(Head(queue), "fetch") /\ queue' = Tail(queue)
    /\ serving' = Head(queue) /\ attempt' = 0
    /\ revoked' = revoked \ {Head(queue)}
    /\ UNCHANGED <<account, connect, entry, linked, listener, doomed, pc, acked, pending,
                   buffer, got, overlap>>

Return ==
    /\ serving # NoUpload
    /\ job[serving] \notin {"fetch", "capture"}
    /\ serving' = NoUpload
    /\ UNCHANGED <<account, connect, stream, listener, attempt, doomed, pc, revoked,
                   acked, pending, buffer, jobs, overlap>>

-----------------------------------------------------------------------------
(* A connection: handle_upload_connection, serve_upload *)

daemon == <<account, connect, listener, attempt, serving, doomed, jobs>>

\* A connection that is over holds no sender; its trigger may still be queued.
Leave(u, l) ==
    /\ Goto(u, l) /\ linked' = linked \ {u}
    /\ revoked' = IF Queued(u) THEN revoked ELSE revoked \ {u}

\* Nothing, neither TLS nor a frame, a failed handshake, 30 seconds, or a
\* header authorize_upload turns down: another token than the one in the
\* table, or cleartext where the pairing or the host wants TLS.
Refuse(u) ==
    /\ pc[u] = "idle"
    /\ Goto(u, "refused")
    /\ UNCHANGED <<daemon, stream, revoked, acked, pending, buffer, overlap>>

Authorize(u) ==
    /\ pc[u] = "idle" /\ token
    /\ Goto(u, "lookup")
    /\ UNCHANGED <<daemon, stream, revoked, acked, pending, buffer, overlap>>

\* The sender is cloned, and the upload put where fetch_pages looks.
Subscribe(u) ==
    /\ pc[u] = "lookup"
    /\ IF entry = "none"
       THEN Leave(u, "refused") /\ UNCHANGED pending
       ELSE /\ Goto(u, "trigger")
            /\ linked' = IF entry = "live" THEN linked \cup {u} ELSE linked
            /\ pending' = pending \cup {u} /\ UNCHANGED revoked
    /\ UNCHANGED <<daemon, entry, queue, acked, buffer, overlap>>

\* Waits for room, without a timeout.
SendTrigger(u) ==
    /\ pc[u] = "trigger" /\ u \in linked /\ Len(queue) < QueueBound
    /\ Goto(u, "claim")
    /\ queue' = Append(queue, u)
    /\ UNCHANGED <<daemon, entry, linked, revoked, acked, pending, buffer, overlap>>

SendTriggerFails(u) ==
    /\ pc[u] = "trigger" /\ u \notin linked
    /\ Leave(u, "refused")
    /\ pending' = pending \ {u}
    /\ UNCHANGED <<daemon, entry, queue, acked, buffer, overlap>>

\* FETCH_CLAIM_TIMEOUT, and then the table.
ClaimTimeout(u) ==
    /\ pc[u] = "claim"
    /\ Goto(u, "unclaimed")
    /\ UNCHANGED <<daemon, stream, revoked, acked, pending, buffer, overlap>>

\* Mutant: an upload nobody claimed stays in the table.
StillOffered(u) == pending

Withdrawn(u) == pending \ {u}

Unclaimed(u) ==
    /\ pc[u] = "unclaimed"
    /\ Leave(u, "refused")
    /\ pending' = Withdrawn(u)
    /\ UNCHANGED <<daemon, entry, queue, acked, buffer, overlap>>

-----------------------------------------------------------------------------
(* Its pages: stream_upload_pages *)

\* Mutant: a page is acked as soon as it has been read.
ReadAndAcked(u) == acked' = [acked EXCEPT ![u] = @ + 1]

ReadOnly(u) == UNCHANGED acked

\* The bytes of a page, and before all but the first a header with the same
\* device, token, profile and count and the number that follows.
Page(u) ==
    /\ pc[u] = "page"
    /\ Goto(u, "deliver")
    /\ ReadOnly(u)
    /\ UNCHANGED <<daemon, stream, revoked, pending, buffer, overlap>>

\* The channel is bounded: the phone waits.
Room(u) == Received(u) /\ buffer[u] < PageBuffer
Delivered(u) == buffer' = [buffer EXCEPT ![u] = @ + 1]

Deliver(u) ==
    /\ pc[u] = "deliver" /\ Room(u)
    /\ Delivered(u)
    /\ acked' = [acked EXCEPT ![u] = @ + 1]
    /\ IF acked'[u] >= Pages[u]
       THEN Leave(u, "done")
       ELSE Goto(u, "page") /\ UNCHANGED <<linked, revoked>>
    /\ UNCHANGED <<daemon, entry, queue, pending, overlap>>

\* The page is in, and its ack cannot be written.
AckFails(u) ==
    /\ pc[u] = "deliver" /\ Room(u)
    /\ Delivered(u)
    /\ Leave(u, "broken")
    /\ UNCHANGED <<daemon, entry, queue, acked, pending, overlap>>

\* The phone goes, stalls for 30 seconds, sends what does not follow, or its
\* job has gone.  The sender of the pages is dropped, nothing goes through it.
Break(u) ==
    /\ pc[u] = "page" \/ (pc[u] = "deliver" /\ ~Received(u))
    /\ Leave(u, "broken")
    /\ UNCHANGED <<daemon, entry, queue, acked, pending, buffer, overlap>>

-----------------------------------------------------------------------------
(* The job of the upload: fetch_pages and jobs::run *)

\* Either the connection has withdrawn the upload, or it hears of the claim,
\* if it has not just given up, and its pages are the job's.
Fetch(u) ==
    /\ job[u] = "fetch"
    /\ pending' = pending \ {u}
    /\ JobIs(u, IF u \in pending THEN "capture" ELSE "none")
    /\ IF pc[u] = "claim" THEN Goto(u, "page") ELSE UNCHANGED pc
    /\ UNCHANGED <<account, connect, stream, task, revoked, acked, buffer, got, overlap>>

Receive(u) ==
    /\ job[u] = "capture" /\ buffer[u] > 0
    /\ buffer' = [buffer EXCEPT ![u] = @ - 1]
    /\ got' = [got EXCEPT ![u] = @ + 1]
    /\ UNCHANGED <<account, connect, stream, task, pc, revoked, acked, pending, job,
                   overlap>>

\* Mutant: a job ends with the connection, whatever is left in the channel.
ConnectionIsOver(u) == pc[u] \notin Sending

StreamIsOver(u) == buffer[u] = 0 /\ pc[u] \notin Sending

\* The stream ends without an error, whatever ended it.
JobEnds(u) ==
    /\ job[u] = "capture" /\ StreamIsOver(u)
    /\ JobIs(u, IF got[u] = 0 THEN "none" ELSE "done")
    /\ UNCHANGED <<account, connect, stream, task, pc, revoked, acked, pending, buffer,
                   got, overlap>>

\* The processor has stopped, or the first page could not be published.
JobFails(u) ==
    /\ job[u] = "capture" /\ got[u] > 0
    /\ JobIs(u, "failed")
    /\ buffer' = [buffer EXCEPT ![u] = 0] /\ got' = [got EXCEPT ![u] = 0]
    /\ UNCHANGED <<account, connect, stream, task, pc, revoked, acked, pending, overlap>>

-----------------------------------------------------------------------------

Callers == Connect \/ Disconnect \/ Install \/ PairingDone \/ UnpairCalled

\* A call that was made is carried through.
Calls ==
    \/ ConnectListen \/ UnpairForget \/ UnpairStore \/ UnpairRelisten \/ UnpairDone
    \/ DropLate

Listener == Restart \/ GiveUp \/ Take \/ Return

\* Every wait of a connection ends by a timeout, but those for room.
Connection(u) ==
    \/ Subscribe(u) \/ SendTrigger(u) \/ SendTriggerFails(u)
    \/ ClaimTimeout(u) \/ Unclaimed(u)
    \/ Page(u) \/ Deliver(u) \/ AckFails(u) \/ Break(u)

JobStep(u) == Fetch(u) \/ Receive(u) \/ JobEnds(u) \/ JobFails(u)

Next ==
    \/ Callers \/ Calls \/ Listener
    \/ \E u \in Uploads : Refuse(u) \/ Authorize(u) \/ Connection(u) \/ JobStep(u)

Spec == Init /\ [][Next]_vars

\* The tasks of the daemon run.
FairSpec ==
    /\ Spec /\ WF_vars(Calls) /\ WF_vars(Listener)
    /\ \A u \in Uploads : WF_vars(Connection(u)) /\ WF_vars(JobStep(u))

-----------------------------------------------------------------------------
(* Properties *)

TypeOK ==
    /\ token \in BOOLEAN /\ isPaired \in BOOLEAN /\ connect \in BOOLEAN
    /\ unpairing \in {"none", "forget", "forget_was", "store", "store_was", "relisten",
                      "clear"}
    /\ entry \in {"none", "live", "dead"} /\ linked \subseteq Uploads
    /\ queue \in Seq(Uploads) /\ Len(queue) <= QueueBound
    /\ listener \in {"none", "running"} /\ attempt \in 0..Attempts
    /\ serving \in Uploads \cup {NoUpload} /\ doomed \in BOOLEAN
    /\ pc \in [Uploads -> Over \cup Sending \cup {"idle", "lookup"}]
    /\ revoked \subseteq Uploads /\ pending \subseteq Uploads
    /\ \A u \in Uploads : {acked[u], got[u]} \subseteq 0..Pages[u]
    /\ buffer \in [Uploads -> 0..PageBuffer]
    /\ job \in [Uploads -> {"none", "fetch", "capture", "done", "failed"}]
    /\ overlap \in BOOLEAN

\* A scanner that listens is heard: unless a Connect() overlapped an Unpair(),
\* or the stream of an earlier listener was still to be dropped, the sender in
\* the table is that of the listener's stream, and nothing else is ever there.
HeardWhileListening ==
    ~overlap => (listener # "none") = (entry = "live")

\* A page the phone holds an ack for is with the job or in its channel, and at
\* most one page is there before its ack.
AckedIsKept ==
    \A u \in Uploads : job[u] # "failed" =>
        /\ acked[u] <= got[u] + buffer[u]
        /\ got[u] + buffer[u] <= acked[u] + 1

\* What fetch_pages would find has a connection waiting for it, and a refused
\* upload has left no page anywhere.
OfferedIsAwaited ==
    /\ \A u \in pending : pc[u] \in {"trigger", "claim", "unclaimed"}
    /\ \A u \in Uploads : pc[u] = "refused" => got[u] + buffer[u] = 0

\* Together: a page is in one place, and somebody is waiting at the other end.
UploadsAgree == TypeOK /\ AckedIsKept /\ OfferedIsAwaited

\* Once Unpair() has revoked a token no job starts for an upload that was under
\* way with it, unless a Connect() overlapped the call.
RevokedStartsNothing ==
    [][\A u \in Uploads : job[u] # "fetch" /\ job'[u] = "fetch"
          => u \notin revoked \/ overlap]_vars

\* Every upload comes to an end, whatever the phone and the daemon do; and one
\* of which every page was acked reaches its job whole, unless the job fails.
UploadsSettle ==
    \A u \in Uploads :
        pc[u] # "idle" ~>
            \/ pc[u] \in {"refused", "broken"}
            \/ pc[u] = "done" /\ job[u] = "done" /\ got[u] = Pages[u]
            \/ pc[u] = "done" /\ job[u] = "failed"

\* docs/scanbus-mobile-backend.md:277-279: a connection that drops mid-job
\* leaves the job in error, and never a document of the pages it had.
NoPartialDocument == \A u \in Uploads : job[u] = "done" => got[u] = Pages[u]
=============================================================================
