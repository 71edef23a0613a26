---------------------------- MODULE MobileProofs ----------------------------
(***************************************************************************)
(* Proofs about MobileUploads: for any number of uploads, of any length,   *)
(* and any room in the channels, a scanner that listens is heard, a page   *)
(* the phone has an ack for is in one place, and nothing starts for an     *)
(* upload whose token was revoked.                                         *)
(*                                                                         *)
(* Proofs about MobilePairing: for any number of phones, tokens and        *)
(* starts, and whichever write fails or process dies, the phone, the       *)
(* backend's table and devices.json agree on who is paired and how.        *)
(***************************************************************************)
EXTENDS MobileUploads, MobilePairing, TLAPS

-----------------------------------------------------------------------------
(* MobileUploads: the invariant *)

\* The types, part by part: what is a member of a small set ...
Shape ==
    /\ token \in BOOLEAN /\ isPaired \in BOOLEAN /\ connect \in BOOLEAN
    /\ unpairing \in {"none", "forget", "forget_was", "store", "store_was", "relisten",
                      "clear"}
    /\ entry \in {"none", "live", "dead"} /\ linked \subseteq Uploads
    /\ listener \in {"none", "running"} /\ attempt \in 0..Attempts
    /\ serving \in Uploads \cup {NoUpload} /\ doomed \in BOOLEAN
    /\ pc \in [Uploads -> Over \cup Sending \cup {"idle", "lookup"}]
    /\ revoked \subseteq Uploads /\ pending \subseteq Uploads
    /\ job \in [Uploads -> {"none", "fetch", "capture", "done", "failed"}]
    /\ overlap \in BOOLEAN

\* ... the queue of the stream ...
QueueBounded == queue \in Seq(Uploads) /\ Len(queue) <= QueueBound

\* ... and the counters, which are numbers.  PagesInv bounds them.
Counters ==
    /\ acked \in [Uploads -> Nat] /\ got \in [Uploads -> Nat]
    /\ buffer \in [Uploads -> 0..PageBuffer]

Types == Shape /\ QueueBounded /\ Counters

\* Without a listener there is nobody's stream to hold triggers or senders of,
\* and who holds a sender has yet to send, or to be done.
StreamInv ==
    /\ listener = "none" => entry # "live" /\ linked = {} /\ queue = <<>>
    /\ serving # NoUpload => listener = "running"
    /\ \A u \in linked : pc[u] \in Sending

\* As long as no Connect() overlaps, whoever asks for the listener finds the phone
\* paired, Unpair() runs without one, and no stream is left to be dropped late.
AccountInv ==
    ~overlap =>
        /\ ~doomed
        /\ listener # "none" => entry = "live"
        /\ connect => isPaired /\ unpairing = "none"
        /\ unpairing # "none" => isPaired
        /\ listener # "none" => isPaired /\ unpairing = "none"

\* A trigger is queued once, for an upload whose job has not started.
AtRest(u) == pc[u] \in {"claim", "unclaimed", "refused"} /\ job[u] = "none"

TriggersInv ==
    /\ \A u \in Uploads : Queued(u) => AtRest(u)
    /\ \A i, k \in 1..Len(queue) : queue[i] = queue[k] => i = k

\* Where an upload, its entry in pending and its job are.
PlaceOf(u) ==
    /\ u \in pending => pc[u] \in {"trigger", "claim", "unclaimed"}
    /\ pc[u] \in {"trigger", "claim"} => u \in pending
    /\ u \in pending => job[u] \in {"none", "fetch"}
    /\ pc[u] \in {"idle", "lookup", "trigger"} => job[u] = "none"
    /\ job[u] = "fetch" => pc[u] \in {"claim", "unclaimed", "refused"}
    /\ pc[u] \in {"page", "deliver"} => job[u] \in {"capture", "failed"}

PlaceInv == \A u \in Uploads : PlaceOf(u)

\* No page has been read yet.
Waiting == {"idle", "lookup", "trigger", "claim", "unclaimed", "refused"}

\* How many of its pages are where.
PagesOf(u) ==
    /\ pc[u] \in Waiting => acked[u] = 0 /\ got[u] = 0 /\ buffer[u] = 0
    /\ pc[u] \in {"page", "deliver"} => acked[u] < Pages[u]
    /\ acked[u] <= Pages[u]
    /\ job[u] = "failed" => got[u] = 0 /\ buffer[u] = 0
    /\ job[u] # "failed" =>
         /\ acked[u] <= got[u] + buffer[u] /\ got[u] + buffer[u] <= Pages[u]
         /\ got[u] + buffer[u] <= acked[u] + 1
         /\ pc[u] # "broken" => got[u] + buffer[u] = acked[u]

PagesInv == \A u \in Uploads : PagesOf(u)

\* A revoked upload is past the table of subscriptions, and holds no sender.
RevokedInv ==
    ~overlap => \A u \in revoked : /\ pc[u] \in Sending /\ u \notin linked
                                   /\ ~Queued(u)

UploadsInv ==
    /\ Types /\ StreamInv /\ AccountInv /\ TriggersInv /\ PlaceInv /\ PagesInv
    /\ RevokedInv


-----------------------------------------------------------------------------
(* Sequences *)

\* What Tail leaves of a queue that is not empty.
LEMMA Taken ==
    ASSUME NEW S, NEW s \in Seq(S), s # <<>>
    PROVE  /\ Head(s) = s[1] /\ s[1] \in S /\ 1 \in 1..Len(s)
           /\ Tail(s) \in Seq(S) /\ Len(Tail(s)) = Len(s) - 1 /\ Len(s) \in Nat \ {0}
           /\ \A i \in 1..Len(Tail(s)) : Tail(s)[i] = s[i + 1] /\ i + 1 \in 1..Len(s)
  OBVIOUS

\* What Append adds to one.
LEMMA Added ==
    ASSUME NEW S, NEW s \in Seq(S), NEW x \in S
    PROVE  /\ Append(s, x) \in Seq(S) /\ Len(Append(s, x)) = Len(s) + 1 /\ Len(s) \in Nat
           /\ Append(s, x)[Len(s) + 1] = x
           /\ \A i \in 1..Len(s) : Append(s, x)[i] = s[i]
  OBVIOUS

-----------------------------------------------------------------------------
(* What a step leaves alone *)

\* Everything but the connections, the jobs and the trigger that is taken.
Outside == Callers \/ Calls \/ Restart \/ GiveUp \/ Return

\* A connection or a job.
Inside(u) == Refuse(u) \/ Authorize(u) \/ Connection(u) \/ JobStep(u)

\* Nothing outside moves an upload, though the stream may go, with the triggers and
\* the senders.
LEMMA OutsideEffect ==
    ASSUME Outside
    PROVE  /\ UNCHANGED <<pc, acked, pending, buffer, job, got>>
           /\ \/ queue' = queue /\ linked' = linked
              \/ queue' = <<>> /\ linked' = {}
<1>1. CASE Connect
  BY <1>1 DEF Connect, stream, jobs
<1>2. CASE ConnectListen
  BY <1>2 DEF ConnectListen, EnsureListening, Opened, stream, jobs
<1>3. CASE Disconnect
  BY <1>3 DEF Disconnect, Stopped, Closed, jobs
<1>4. CASE Install
  BY <1>4 DEF Install, stream, jobs
<1>5. CASE PairingDone
  BY <1>5 DEF PairingDone, jobs
<1>6. CASE UnpairCalled
  BY <1>6 DEF UnpairCalled, UnpairStops, Stopped, Closed, jobs
<1>7. CASE UnpairForget
  BY <1>7 DEF UnpairForget, jobs
<1>8. CASE UnpairStore
  BY <1>8 DEF UnpairStore, stream, jobs
<1>9. CASE UnpairRelisten
  BY <1>9 DEF UnpairRelisten, EnsureListening, Opened, stream, jobs
<1>10. CASE UnpairDone
  BY <1>10 DEF UnpairDone, Closed, jobs
<1>11. CASE DropLate
  BY <1>11 DEF DropLate, jobs
<1>12. CASE Restart
  BY <1>12 DEF Restart, jobs
<1>13. CASE GiveUp
  BY <1>13 DEF GiveUp, stream, jobs
<1>14. CASE Return
  BY <1>14 DEF Return, stream, jobs
<1> QED
  BY <1>1, <1>2, <1>3, <1>4, <1>5, <1>6, <1>7, <1>8, <1>9, <1>10, <1>11, <1>12, <1>13,
     <1>14 DEF Outside, Callers, Calls

\* A connection and a job leave the account, the listener and the table of
\* subscriptions as they are, and revoke nothing.
LEMMA InsideEffect ==
    ASSUME Shape, Counters, NEW u \in Uploads, Inside(u)
    PROVE  /\ UNCHANGED <<token, isPaired, unpairing, connect, entry, listener, attempt>>
           /\ UNCHANGED <<serving, doomed, overlap>>
           /\ revoked' \subseteq revoked
           /\ \A v \in Uploads \ {u} :
                 /\ pc'[v] = pc[v] /\ job'[v] = job[v]
                 /\ acked'[v] = acked[v] /\ got'[v] = got[v] /\ buffer'[v] = buffer[v]
                 /\ v \in pending' <=> v \in pending
                 /\ v \in linked' <=> v \in linked
                 /\ v \in revoked' <=> v \in revoked
<1>1. CASE Refuse(u)
  BY <1>1 DEF Refuse, Goto, account, stream, jobs, daemon
<1>2. CASE Authorize(u)
  BY <1>2 DEF Authorize, Goto, account, stream, jobs, daemon
<1>3. CASE Subscribe(u)
  BY <1>3 DEF Subscribe, Leave, Goto, account, jobs, daemon, Shape
<1>4. CASE SendTrigger(u)
  BY <1>4 DEF SendTrigger, Goto, account, jobs, daemon
<1>5. CASE SendTriggerFails(u)
  BY <1>5 DEF SendTriggerFails, Leave, Goto, account, jobs, daemon
<1>6. CASE ClaimTimeout(u)
  BY <1>6 DEF ClaimTimeout, Goto, account, stream, jobs, daemon
<1>7. CASE Unclaimed(u)
  BY <1>7 DEF Unclaimed, Leave, Goto, Withdrawn, account, jobs, daemon
<1>8. CASE Page(u)
  BY <1>8 DEF Page, Goto, ReadOnly, account, stream, jobs, daemon
<1>9. CASE Deliver(u)
  BY <1>9 DEF Deliver, Leave, Goto, Delivered, account, jobs, daemon, Shape
<1>10. CASE AckFails(u)
  BY <1>10 DEF AckFails, Leave, Goto, Delivered, account, jobs, daemon
<1>11. CASE Break(u)
  BY <1>11 DEF Break, Leave, Goto, account, jobs, daemon
<1>12. CASE Fetch(u)
  BY <1>12 DEF Fetch, Goto, JobIs, account, stream, task, Shape
<1>13. CASE Receive(u)
  BY <1>13 DEF Receive, account, stream, task
<1>14. CASE JobEnds(u)
  BY <1>14 DEF JobEnds, JobIs, account, stream, task
<1>15. CASE JobFails(u)
  BY <1>15 DEF JobFails, JobIs, account, stream, task
<1> QED
  BY <1>1, <1>2, <1>3, <1>4, <1>5, <1>6, <1>7, <1>8, <1>9, <1>10, <1>11, <1>12, <1>13,
     <1>14, <1>15 DEF Inside, Connection, JobStep

-----------------------------------------------------------------------------
(* One lemma per part, one step per action *)

\* Every step keeps the fields in their sets.
LEMMA ShapeStep ==
    ASSUME Types, [Next]_vars
    PROVE  Shape'
<1>1. CASE Connect
  BY <1>1 DEF Connect, Types, Shape, account, stream, task, jobs
<1>2. CASE ConnectListen
  <2>1. /\ overlap' \in BOOLEAN /\ entry' \in {"none", "live", "dead"}
        /\ linked' \subseteq Uploads
    BY <1>2 DEF ConnectListen, EnsureListening, Opened, stream, Types, Shape
  <2>2. /\ listener' \in {"none", "running"} /\ attempt' \in 0..Attempts
        /\ serving' = serving /\ doomed' = doomed
    BY <1>2, UploadsAssumption DEF ConnectListen, EnsureListening, task, Types, Shape
  <2> QED
    BY <1>2, <2>1, <2>2 DEF ConnectListen, Types, Shape, account, jobs
<1>3. CASE Disconnect
  BY <1>3, UploadsAssumption DEF Disconnect, Stopped, NoTask, Closed, Types, Shape,
     account, jobs
<1>4. CASE Install
  BY <1>4 DEF Install, Types, Shape, stream, task, jobs
<1>5. CASE PairingDone
  BY <1>5 DEF PairingDone, Types, Shape, task, jobs
<1>6. CASE UnpairCalled
  BY <1>6, UploadsAssumption DEF UnpairCalled, UnpairStops, Stopped, NoTask, Closed, Types,
     Shape, jobs
<1>7. CASE UnpairForget
  BY <1>7 DEF UnpairForget, Types, Shape, task, jobs
<1>8. CASE UnpairStore
  BY <1>8 DEF UnpairStore, Types, Shape, stream, task, jobs
<1>9. CASE UnpairRelisten
  BY <1>9, UploadsAssumption DEF UnpairRelisten, EnsureListening, Opened, Types, Shape,
     stream, task, jobs
<1>10. CASE UnpairDone
  <2>1. isPaired' \in BOOLEAN /\ doomed' \in BOOLEAN /\ entry' \in {"none", "live", "dead"}
    BY <1>10 DEF UnpairDone, Types, Shape
  <2>2. /\ unpairing' = "none" /\ linked' = {}
        /\ listener' = "none" /\ attempt' = 0 /\ serving' = NoUpload
        /\ UNCHANGED <<token, connect, pc, revoked, pending, job, overlap>>
    BY <1>10 DEF UnpairDone, NoTask, Closed, jobs
  <2> QED
    BY <2>1, <2>2, UploadsAssumption DEF Types, Shape
<1>11. CASE DropLate
  BY <1>11 DEF DropLate, Dropped, Types, Shape, account, jobs
<1>12. CASE Restart
  BY <1>12, UploadsAssumption DEF Restart, Dropped, Types, Shape, account, jobs
<1>13. CASE GiveUp
  BY <1>13 DEF GiveUp, NoTask, Types, Shape, account, stream, jobs
<1>14. CASE Return
  BY <1>14 DEF Return, Types, Shape, account, stream, jobs
<1>15. CASE Take
  <2>1. queue[1] \in Uploads /\ Head(queue) = queue[1]
    BY <1>15 DEF Take, Types, QueueBounded
  <2> QED
    BY <1>15, <2>1, UploadsAssumption DEF Take, JobIs, Types, Shape, account
<1>16. ASSUME NEW u \in Uploads, Refuse(u)
      PROVE  Shape'
  BY <1>16 DEF Refuse, Goto, Types, Shape, account, stream, jobs, daemon, Over
<1>17. ASSUME NEW u \in Uploads, Authorize(u)
      PROVE  Shape'
  BY <1>17 DEF Authorize, Goto, Types, Shape, account, stream, jobs, daemon
<1>18. ASSUME NEW u \in Uploads, Subscribe(u)
      PROVE  Shape'
  BY <1>18 DEF Subscribe, Leave, Goto, Types, Shape, account, jobs, daemon, Over,
     Sending
<1>19. ASSUME NEW u \in Uploads, SendTrigger(u)
      PROVE  Shape'
  BY <1>19 DEF SendTrigger, Goto, Types, Shape, account, jobs, daemon, Sending
<1>20. ASSUME NEW u \in Uploads, SendTriggerFails(u)
      PROVE  Shape'
  BY <1>20 DEF SendTriggerFails, Leave, Goto, Types, Shape, account, jobs, daemon, Over
<1>21. ASSUME NEW u \in Uploads, ClaimTimeout(u)
      PROVE  Shape'
  BY <1>21 DEF ClaimTimeout, Goto, Types, Shape, account, stream, jobs, daemon, Sending
<1>22. ASSUME NEW u \in Uploads, Unclaimed(u)
      PROVE  Shape'
  BY <1>22 DEF Unclaimed, Leave, Goto, Withdrawn, Types, Shape, account, jobs, daemon,
     Over
<1>23. ASSUME NEW u \in Uploads, Page(u)
      PROVE  Shape'
  BY <1>23 DEF Page, Goto, Types, Shape, account, stream, jobs, daemon, Sending
<1>24. ASSUME NEW u \in Uploads, Deliver(u)
      PROVE  Shape'
  BY <1>24 DEF Deliver, Leave, Goto, Types, Shape, account, jobs, daemon, Over, Sending
<1>25. ASSUME NEW u \in Uploads, AckFails(u)
      PROVE  Shape'
  BY <1>25 DEF AckFails, Leave, Goto, Types, Shape, account, jobs, daemon, Over
<1>26. ASSUME NEW u \in Uploads, Break(u)
      PROVE  Shape'
  BY <1>26 DEF Break, Leave, Goto, Types, Shape, account, jobs, daemon, Over
<1>27. ASSUME NEW u \in Uploads, Fetch(u)
      PROVE  Shape'
  BY <1>27 DEF Fetch, Goto, JobIs, Types, Shape, account, stream, task, Sending
<1>28. ASSUME NEW u \in Uploads, Receive(u)
      PROVE  Shape'
  BY <1>28 DEF Receive, Types, Shape, account, stream, task
<1>29. ASSUME NEW u \in Uploads, JobEnds(u)
      PROVE  Shape'
  BY <1>29 DEF JobEnds, JobIs, Types, Shape, account, stream, task
<1>30. ASSUME NEW u \in Uploads, JobFails(u)
      PROVE  Shape'
  BY <1>30 DEF JobFails, JobIs, Types, Shape, account, stream, task
<1>31. CASE UNCHANGED vars
  BY <1>31 DEF vars, Types, Shape, account, stream, task, jobs
<1> QED
  BY <1>1, <1>2, <1>3, <1>4, <1>5, <1>6, <1>7, <1>8, <1>9, <1>10, <1>11, <1>12, <1>13,
     <1>14, <1>15, <1>16, <1>17, <1>18, <1>19, <1>20, <1>21, <1>22, <1>23, <1>24, <1>25,
     <1>26, <1>27, <1>28, <1>29, <1>30, <1>31 DEF Next, Callers, Calls, Listener,
     Connection, JobStep

\* A trigger waits for room.
LEMMA QueueStep ==
    ASSUME Types, [Next]_vars
    PROVE  QueueBounded'
<1>1. CASE Outside
  <2>1. queue' = queue \/ queue' = <<>>
    BY <1>1, OutsideEffect
  <2>2. <<>> \in Seq(Uploads) /\ Len(<<>>) <= QueueBound
    BY UploadsAssumption
  <2>3. CASE queue' = queue
    BY <2>3 DEF Types, QueueBounded
  <2>4. CASE queue' = <<>>
    BY <2>2, <2>4 DEF QueueBounded
  <2> QED
    BY <2>1, <2>3, <2>4
<1>2. CASE Take
  <2>1. /\ queue \in Seq(Uploads) /\ queue # <<>> /\ queue' = Tail(queue)
        /\ Len(queue) <= QueueBound
    BY <1>2 DEF Take, Types, QueueBounded
  <2> QED
    BY <2>1, UploadsAssumption DEF QueueBounded
<1>3. ASSUME NEW u \in Uploads, Refuse(u)
      PROVE  QueueBounded'
  BY <1>3 DEF Refuse, Types, QueueBounded, stream
<1>4. ASSUME NEW u \in Uploads, Authorize(u)
      PROVE  QueueBounded'
  BY <1>4 DEF Authorize, Types, QueueBounded, stream
<1>5. ASSUME NEW u \in Uploads, Subscribe(u)
      PROVE  QueueBounded'
  BY <1>5 DEF Subscribe, Types, QueueBounded
<1>6. ASSUME NEW u \in Uploads, SendTrigger(u)
      PROVE  QueueBounded'
  BY <1>6, UploadsAssumption DEF SendTrigger, Types, QueueBounded
<1>7. ASSUME NEW u \in Uploads, SendTriggerFails(u)
      PROVE  QueueBounded'
  BY <1>7 DEF SendTriggerFails, Types, QueueBounded
<1>8. ASSUME NEW u \in Uploads, ClaimTimeout(u)
      PROVE  QueueBounded'
  BY <1>8 DEF ClaimTimeout, Types, QueueBounded, stream
<1>9. ASSUME NEW u \in Uploads, Unclaimed(u)
      PROVE  QueueBounded'
  BY <1>9 DEF Unclaimed, Types, QueueBounded
<1>10. ASSUME NEW u \in Uploads, Page(u)
      PROVE  QueueBounded'
  BY <1>10 DEF Page, Types, QueueBounded, stream
<1>11. ASSUME NEW u \in Uploads, Deliver(u)
      PROVE  QueueBounded'
  BY <1>11 DEF Deliver, Types, QueueBounded
<1>12. ASSUME NEW u \in Uploads, AckFails(u)
      PROVE  QueueBounded'
  BY <1>12 DEF AckFails, Types, QueueBounded
<1>13. ASSUME NEW u \in Uploads, Break(u)
      PROVE  QueueBounded'
  BY <1>13 DEF Break, Types, QueueBounded
<1>14. ASSUME NEW u \in Uploads, Fetch(u)
      PROVE  QueueBounded'
  BY <1>14 DEF Fetch, Types, QueueBounded, stream
<1>15. ASSUME NEW u \in Uploads, Receive(u)
      PROVE  QueueBounded'
  BY <1>15 DEF Receive, Types, QueueBounded, stream
<1>16. ASSUME NEW u \in Uploads, JobEnds(u)
      PROVE  QueueBounded'
  BY <1>16 DEF JobEnds, Types, QueueBounded, stream
<1>17. ASSUME NEW u \in Uploads, JobFails(u)
      PROVE  QueueBounded'
  BY <1>17 DEF JobFails, Types, QueueBounded, stream
<1>18. CASE UNCHANGED vars
  BY <1>18 DEF vars, Types, QueueBounded, stream
<1> QED
  BY <1>1, <1>2, <1>3, <1>4, <1>5, <1>6, <1>7, <1>8, <1>9, <1>10, <1>11, <1>12, <1>13,
     <1>14, <1>15, <1>16, <1>17, <1>18 DEF Next, Listener, Connection, JobStep, Outside

\* The counters stay numbers, and the channel of the pages bounded.
LEMMA CountersStep ==
    ASSUME Types, [Next]_vars
    PROVE  Counters'
<1>1. CASE Outside
  BY <1>1, OutsideEffect DEF Types, Counters
<1>2. CASE Take
  BY <1>2 DEF Take, Types, Counters
<1>3. ASSUME NEW u \in Uploads, Refuse(u)
      PROVE  Counters'
  BY <1>3 DEF Refuse, Types, Counters, jobs, daemon
<1>4. ASSUME NEW u \in Uploads, Authorize(u)
      PROVE  Counters'
  BY <1>4 DEF Authorize, Types, Counters, jobs, daemon
<1>5. ASSUME NEW u \in Uploads, Subscribe(u)
      PROVE  Counters'
  BY <1>5 DEF Subscribe, Types, Counters, jobs, daemon
<1>6. ASSUME NEW u \in Uploads, SendTrigger(u)
      PROVE  Counters'
  BY <1>6 DEF SendTrigger, Types, Counters, jobs, daemon
<1>7. ASSUME NEW u \in Uploads, SendTriggerFails(u)
      PROVE  Counters'
  BY <1>7 DEF SendTriggerFails, Types, Counters, jobs, daemon
<1>8. ASSUME NEW u \in Uploads, ClaimTimeout(u)
      PROVE  Counters'
  BY <1>8 DEF ClaimTimeout, Types, Counters, jobs, daemon
<1>9. ASSUME NEW u \in Uploads, Unclaimed(u)
      PROVE  Counters'
  BY <1>9 DEF Unclaimed, Types, Counters, jobs, daemon
<1>10. ASSUME NEW u \in Uploads, Page(u)
      PROVE  Counters'
  BY <1>10 DEF Page, ReadOnly, Types, Counters, jobs, daemon
<1>11. ASSUME NEW u \in Uploads, Deliver(u)
      PROVE  Counters'
  BY <1>11, UploadsAssumption DEF Deliver, Room, Delivered, Types, Counters, jobs,
     daemon
<1>12. ASSUME NEW u \in Uploads, AckFails(u)
      PROVE  Counters'
  BY <1>12, UploadsAssumption DEF AckFails, Room, Delivered, Types, Counters, jobs,
     daemon
<1>13. ASSUME NEW u \in Uploads, Break(u)
      PROVE  Counters'
  BY <1>13 DEF Break, Types, Counters, jobs, daemon
<1>14. ASSUME NEW u \in Uploads, Fetch(u)
      PROVE  Counters'
  BY <1>14 DEF Fetch, Types, Counters
<1>15. ASSUME NEW u \in Uploads, Receive(u)
      PROVE  Counters'
  BY <1>15, UploadsAssumption DEF Receive, Types, Counters
<1>16. ASSUME NEW u \in Uploads, JobEnds(u)
      PROVE  Counters'
  BY <1>16 DEF JobEnds, Types, Counters
<1>17. ASSUME NEW u \in Uploads, JobFails(u)
      PROVE  Counters'
  BY <1>17, UploadsAssumption DEF JobFails, Types, Counters
<1>18. CASE UNCHANGED vars
  BY <1>18 DEF vars, Types, Counters, jobs
<1> QED
  BY <1>1, <1>2, <1>3, <1>4, <1>5, <1>6, <1>7, <1>8, <1>9, <1>10, <1>11, <1>12, <1>13,
     <1>14, <1>15, <1>16, <1>17, <1>18 DEF Next, Listener, Connection, JobStep, Outside

\* The types together, and what the bounds on the counters rest on.
LEMMA TypesStep == Types /\ [Next]_vars => Types'
  BY ShapeStep, QueueStep, CountersStep DEF Types

\* The parts, with the bounds PagesInv gives, make the type invariant.
LEMMA TypesMean == Types /\ PagesInv => TypeOK
<1> SUFFICES ASSUME Types, PagesInv PROVE TypeOK
  OBVIOUS
<1>1. \A u \in Uploads : {acked[u], got[u]} \subseteq 0..Pages[u]
  <2> TAKE u \in Uploads
  <2>1. acked[u] \in Nat /\ got[u] \in Nat /\ buffer[u] \in Nat /\ Pages[u] \in Nat
    BY UploadsAssumption DEF Types, Counters
  <2>2. acked[u] <= Pages[u] /\ got[u] <= Pages[u]
    BY <2>1 DEF PagesInv, PagesOf
  <2> QED
    BY <2>1, <2>2
<1> QED
  BY <1>1 DEF Types, Shape, QueueBounded, Counters, TypeOK

\* The stream goes with its listener; a connection that is over lets go of its sender.
LEMMA StreamStep ==
    ASSUME Types, StreamInv, [Next]_vars
    PROVE  StreamInv'
<1>1. CASE Connect
  BY <1>1 DEF Connect, StreamInv, stream, task
<1>2. CASE ConnectListen
  BY <1>2 DEF ConnectListen, EnsureListening, Opened, StreamInv, stream, task
<1>3. CASE Disconnect
  BY <1>3 DEF Disconnect, Stopped, NoTask, Closed, StreamInv
<1>4. CASE Install
  BY <1>4 DEF Install, StreamInv, stream, task
<1>5. CASE PairingDone
  BY <1>5 DEF PairingDone, StreamInv, task
<1>6. CASE UnpairCalled
  BY <1>6 DEF UnpairCalled, UnpairStops, Stopped, NoTask, Closed, StreamInv
<1>7. CASE UnpairForget
  BY <1>7 DEF UnpairForget, StreamInv, task
<1>8. CASE UnpairStore
  BY <1>8 DEF UnpairStore, StreamInv, stream, task
<1>9. CASE UnpairRelisten
  BY <1>9 DEF UnpairRelisten, EnsureListening, Opened, StreamInv, stream, task
<1>10. CASE UnpairDone
  BY <1>10 DEF UnpairDone, NoTask, Closed, StreamInv
<1>11. CASE DropLate
  BY <1>11 DEF DropLate, Dropped, StreamInv
<1>12. CASE Restart
  BY <1>12 DEF Restart, StreamInv
<1>13. CASE GiveUp
  BY <1>13 DEF GiveUp, NoTask, StreamInv, stream
<1>14. CASE Return
  BY <1>14 DEF Return, StreamInv, stream
<1>15. CASE Take
  <2>1. queue[1] \in Uploads /\ Head(queue) = queue[1]
    BY <1>15 DEF Take, Types, QueueBounded
  <2> QED
    BY <1>15 DEF Take, StreamInv
<1>16. ASSUME NEW u \in Uploads, Refuse(u)
      PROVE  StreamInv'
  BY <1>16 DEF Refuse, Goto, StreamInv, stream, daemon, Sending
<1>17. ASSUME NEW u \in Uploads, Authorize(u)
      PROVE  StreamInv'
  BY <1>17 DEF Authorize, Goto, StreamInv, stream, daemon, Sending
<1>18. ASSUME NEW u \in Uploads, Subscribe(u)
      PROVE  StreamInv'
  BY <1>18 DEF Subscribe, Leave, Goto, Types, Shape, StreamInv, daemon, Sending
<1>19. ASSUME NEW u \in Uploads, SendTrigger(u)
      PROVE  StreamInv'
  BY <1>19 DEF SendTrigger, Goto, StreamInv, daemon, Sending
<1>20. ASSUME NEW u \in Uploads, SendTriggerFails(u)
      PROVE  StreamInv'
  BY <1>20 DEF SendTriggerFails, Leave, Goto, StreamInv, daemon
<1>21. ASSUME NEW u \in Uploads, ClaimTimeout(u)
      PROVE  StreamInv'
  BY <1>21 DEF ClaimTimeout, Goto, StreamInv, stream, daemon, Sending
<1>22. ASSUME NEW u \in Uploads, Unclaimed(u)
      PROVE  StreamInv'
  BY <1>22 DEF Unclaimed, Leave, Goto, StreamInv, daemon
<1>23. ASSUME NEW u \in Uploads, Page(u)
      PROVE  StreamInv'
  BY <1>23 DEF Page, Goto, StreamInv, stream, daemon, Sending
<1>24. ASSUME NEW u \in Uploads, Deliver(u)
      PROVE  StreamInv'
  BY <1>24 DEF Deliver, Leave, Goto, Types, Shape, StreamInv, daemon, Sending
<1>25. ASSUME NEW u \in Uploads, AckFails(u)
      PROVE  StreamInv'
  BY <1>25 DEF AckFails, Leave, Goto, StreamInv, daemon
<1>26. ASSUME NEW u \in Uploads, Break(u)
      PROVE  StreamInv'
  BY <1>26 DEF Break, Leave, Goto, StreamInv, daemon
<1>27. ASSUME NEW u \in Uploads, Fetch(u)
      PROVE  StreamInv'
  BY <1>27 DEF Fetch, Goto, Types, Shape, StreamInv, stream, task, Sending
<1>28. ASSUME NEW u \in Uploads, Receive(u)
      PROVE  StreamInv'
  BY <1>28 DEF Receive, StreamInv, stream, task
<1>29. ASSUME NEW u \in Uploads, JobEnds(u)
      PROVE  StreamInv'
  BY <1>29 DEF JobEnds, StreamInv, stream, task
<1>30. ASSUME NEW u \in Uploads, JobFails(u)
      PROVE  StreamInv'
  BY <1>30 DEF JobFails, StreamInv, stream, task
<1>31. CASE UNCHANGED vars
  BY <1>31 DEF vars, StreamInv, stream, task
<1> QED
  BY <1>1, <1>2, <1>3, <1>4, <1>5, <1>6, <1>7, <1>8, <1>9, <1>10, <1>11, <1>12, <1>13,
     <1>14, <1>15, <1>16, <1>17, <1>18, <1>19, <1>20, <1>21, <1>22, <1>23, <1>24, <1>25,
     <1>26, <1>27, <1>28, <1>29, <1>30, <1>31 DEF Next, Callers, Calls, Listener,
     Connection, JobStep

\* Whoever asks for the listener does so while the phone is paired, unless calls overlap.
LEMMA AccountStep ==
    ASSUME Types, StreamInv, AccountInv, [Next]_vars
    PROVE  AccountInv'
<1>1. CASE Connect
  BY <1>1 DEF Connect, AccountInv, account, stream, task
<1>2. CASE ConnectListen
  BY <1>2 DEF ConnectListen, EnsureListening, Opened, AccountInv, account, stream, task
<1>3. CASE Disconnect
  BY <1>3 DEF Disconnect, Stopped, NoTask, AccountInv, account
<1>4. CASE Install
  BY <1>4 DEF Install, AccountInv, task
<1>5. CASE PairingDone
  BY <1>5 DEF PairingDone, AccountInv, task
<1>6. CASE UnpairCalled
  BY <1>6 DEF UnpairCalled, UnpairStops, Stopped, NoTask, AccountInv
<1>7. CASE UnpairForget
  BY <1>7 DEF UnpairForget, AccountInv, task
<1>8. CASE UnpairStore
  BY <1>8 DEF UnpairStore, AccountInv, task
<1>9. CASE UnpairRelisten
  BY <1>9 DEF UnpairRelisten, EnsureListening, Opened, AccountInv
<1>10. CASE UnpairDone
  BY <1>10 DEF UnpairDone, NoTask, AccountInv
<1>11. CASE DropLate
  BY <1>11 DEF DropLate, AccountInv
<1>12. CASE Restart
  BY <1>12 DEF Restart, AccountInv
<1>13. CASE GiveUp
  BY <1>13 DEF GiveUp, AccountInv
<1>14. CASE Return
  BY <1>14 DEF Return, AccountInv, account, stream
<1>15. CASE Take
  BY <1>15 DEF Take, AccountInv, account
<1>16. ASSUME NEW u \in Uploads, Inside(u)
      PROVE  AccountInv'
  BY <1>16, InsideEffect DEF AccountInv, Types
<1>17. CASE UNCHANGED vars
  BY <1>17 DEF vars, AccountInv, account, stream, task
<1> QED
  BY <1>1, <1>2, <1>3, <1>4, <1>5, <1>6, <1>7, <1>8, <1>9, <1>10, <1>11, <1>12, <1>13,
     <1>14, <1>15, <1>16, <1>17 DEF Next, Callers, Calls, Listener, Inside

\* Of an upload whose trigger is queued nothing moves but its claim.
LEMMA QueuedEffect ==
    ASSUME Types, NEW u \in Uploads, Inside(u), ~SendTrigger(u)
    PROVE  queue' = queue /\ (AtRest(u) => AtRest(u)')
<1>1. CASE Refuse(u)
  BY <1>1 DEF Refuse, stream, AtRest
<1>2. CASE Authorize(u)
  BY <1>2 DEF Authorize, stream, AtRest
<1>3. CASE Subscribe(u)
  BY <1>3 DEF Subscribe, AtRest
<1>4. CASE SendTriggerFails(u)
  BY <1>4 DEF SendTriggerFails, AtRest
<1>5. CASE ClaimTimeout(u)
  BY <1>5 DEF ClaimTimeout, Goto, stream, jobs, daemon, AtRest
<1>6. CASE Unclaimed(u)
  BY <1>6 DEF Unclaimed, Leave, Goto, jobs, daemon, AtRest
<1>7. CASE Page(u)
  BY <1>7 DEF Page, stream, AtRest
<1>8. CASE Deliver(u)
  BY <1>8 DEF Deliver, AtRest
<1>9. CASE AckFails(u)
  BY <1>9 DEF AckFails, AtRest
<1>10. CASE Break(u)
  BY <1>10 DEF Break, AtRest
<1>11. CASE Fetch(u)
  BY <1>11 DEF Fetch, stream, AtRest
<1>12. CASE Receive(u)
  BY <1>12 DEF Receive, stream, AtRest
<1>13. CASE JobEnds(u)
  BY <1>13 DEF JobEnds, stream, AtRest
<1>14. CASE JobFails(u)
  BY <1>14 DEF JobFails, stream, AtRest
<1> QED
  BY <1>1, <1>2, <1>3, <1>4, <1>5, <1>6, <1>7, <1>8, <1>9, <1>10, <1>11, <1>12, <1>13,
     <1>14 DEF Inside, Connection, JobStep

\* A trigger enters the queue once, and leaves it when its job starts.
LEMMA TriggersStep ==
    ASSUME Types, TriggersInv, PlaceInv, [Next]_vars
    PROVE  TriggersInv'
<1>0. \A i \in 1..Len(queue) : queue[i] \in Uploads
  BY DEF Types, QueueBounded
<1>1. CASE Outside
  BY <1>1, OutsideEffect DEF TriggersInv, AtRest, Queued
<1>2. CASE Take
  <2>1. /\ queue[1] \in Uploads /\ queue' = Tail(queue) /\ Len(queue') = Len(queue) - 1
        /\ \A i \in 1..Len(queue') : queue'[i] = queue[i + 1] /\ i + 1 \in 1..Len(queue)
        /\ 1 \in 1..Len(queue) /\ Len(queue) \in Nat
    BY <1>2 DEF Take, Types, QueueBounded
  <2>2. job' = [job EXCEPT ![queue[1]] = "fetch"] /\ pc' = pc
    BY <1>2 DEF Take, JobIs
  <2>3. \A u \in Uploads : Queued(u)' => Queued(u) /\ u # queue[1]
    BY <2>1 DEF TriggersInv, Queued
  <2>4. \A u \in Uploads : Queued(u)' => AtRest(u)'
    BY <2>2, <2>3 DEF TriggersInv, AtRest
  <2>5. \A i, k \in 1..Len(queue') : queue'[i] = queue'[k] => i = k
    BY <2>1 DEF TriggersInv
  <2> QED
    BY <2>4, <2>5 DEF TriggersInv
<1>3. ASSUME NEW u \in Uploads, SendTrigger(u)
      PROVE  TriggersInv'
  <2>1. /\ Len(queue') = Len(queue) + 1 /\ Len(queue) \in Nat /\ queue'[Len(queue) + 1] = u
        /\ \A i \in 1..Len(queue) : queue'[i] = queue[i]
    BY <1>3 DEF SendTrigger
  <2>2. pc[u] = "trigger" /\ pc' = [pc EXCEPT ![u] = "claim"] /\ job' = job
    BY <1>3 DEF SendTrigger, Goto, daemon, jobs
  <2>3. \A i \in 1..Len(queue) : queue[i] # u
    BY <2>2 DEF TriggersInv, AtRest, Queued
  <2>4. job[u] = "none"
    BY <2>2 DEF PlaceInv, PlaceOf
  <2>5. AtRest(u)' /\ \A v \in Uploads \ {u} : AtRest(v) => AtRest(v)'
    BY <2>2, <2>4 DEF AtRest, Types, Shape
  <2>6. \A i \in 1..Len(queue') : i \in 1..Len(queue) \/ i = Len(queue) + 1
    BY <2>1
  <2>7. \A v \in Uploads : Queued(v)' => AtRest(v)'
    BY <2>1, <2>5 DEF TriggersInv, Queued
  <2>8. \A i, k \in 1..Len(queue') : queue'[i] = queue'[k] => i = k
    BY <2>1, <2>3 DEF TriggersInv
  <2> QED
    BY <2>7, <2>8 DEF TriggersInv
<1>4. ASSUME NEW u \in Uploads, Inside(u), ~SendTrigger(u)
      PROVE  TriggersInv'
  <2>1. \A v \in Uploads : AtRest(v) => AtRest(v)'
    BY <1>4, QueuedEffect, InsideEffect DEF AtRest, Types
  <2> QED
    BY <1>4, <2>1, QueuedEffect DEF TriggersInv, Queued
<1>5. CASE UNCHANGED vars
  BY <1>5 DEF vars, stream, jobs, TriggersInv, AtRest, Queued
<1> QED
  BY <1>1, <1>2, <1>3, <1>4, <1>5 DEF Next, Listener, Outside, Inside

\* An upload is offered while its connection waits ...
LEMMA PlaceLocal ==
    ASSUME Types, PlaceInv,
           NEW u \in Uploads, Inside(u)
    PROVE  PlaceOf(u)'
<1>1. CASE Refuse(u)
  BY <1>1 DEF Refuse, Goto, PlaceInv, PlaceOf, Types, Shape
<1>2. CASE Authorize(u)
  BY <1>2 DEF Authorize, Goto, PlaceInv, PlaceOf, jobs, daemon
<1>3. CASE Subscribe(u)
  BY <1>3 DEF Subscribe, Leave, Goto, PlaceInv, PlaceOf, Types, Shape, jobs, daemon
<1>4. CASE SendTrigger(u)
  BY <1>4 DEF SendTrigger, Goto, PlaceInv, PlaceOf, jobs, daemon
<1>5. CASE SendTriggerFails(u)
  BY <1>5 DEF SendTriggerFails, Leave, Goto, PlaceOf, Types, Shape
<1>6. CASE ClaimTimeout(u)
  BY <1>6 DEF ClaimTimeout, Goto, PlaceInv, PlaceOf, jobs, daemon
<1>7. CASE Unclaimed(u)
  BY <1>7 DEF Unclaimed, Leave, Goto, Withdrawn, PlaceOf
<1>8. CASE Page(u)
  BY <1>8 DEF Page, Goto, PlaceInv, PlaceOf, jobs, daemon
<1>9. CASE Deliver(u)
  BY <1>9 DEF Deliver, Leave, Goto, PlaceInv, PlaceOf, Types, Shape, jobs, daemon
<1>10. CASE AckFails(u)
  BY <1>10 DEF AckFails, Leave, Goto, PlaceInv, PlaceOf, jobs, daemon
<1>11. CASE Break(u)
  BY <1>11 DEF Break, Leave, Goto, PlaceInv, PlaceOf, jobs, daemon
<1>12. CASE Fetch(u)
  BY <1>12 DEF Fetch, Goto, JobIs, PlaceInv, PlaceOf, Types, Shape
<1>13. CASE Receive(u)
  BY <1>13 DEF Receive, PlaceInv, PlaceOf
<1>14. CASE JobEnds(u)
  BY <1>14 DEF JobEnds, JobIs, StreamIsOver, PlaceInv, PlaceOf, Types, Shape, Over
<1>15. CASE JobFails(u)
  BY <1>15 DEF JobFails, JobIs, PlaceInv, PlaceOf
<1> QED
  BY <1>1, <1>2, <1>3, <1>4, <1>5, <1>6, <1>7, <1>8, <1>9, <1>10, <1>11, <1>12, <1>13,
     <1>14, <1>15 DEF Inside, Connection, JobStep

\* ... and its job claims it once.
LEMMA PlaceStep ==
    ASSUME Types, PlaceInv, TriggersInv, [Next]_vars
    PROVE  PlaceInv'
<1>1. CASE Outside
  BY <1>1, OutsideEffect DEF PlaceInv, PlaceOf
<1>2. CASE Take
  <2>1. /\ queue[1] \in Uploads /\ Head(queue) = queue[1] /\ AtRest(queue[1])
    BY <1>2 DEF Take, Types, QueueBounded, TriggersInv, Queued
  <2>2. /\ job' = [job EXCEPT ![queue[1]] = "fetch"]
        /\ UNCHANGED <<pc, acked, pending, buffer, got>>
    BY <1>2 DEF Take, JobIs
  <2> QED
    BY <2>1, <2>2 DEF PlaceInv, PlaceOf, AtRest
<1>3. ASSUME NEW u \in Uploads, Inside(u)
      PROVE  PlaceInv'
  <2>1. PlaceOf(u)'
    BY <1>3, PlaceLocal
  <2>2. \A v \in Uploads \ {u} : PlaceOf(v)'
    BY <1>3, InsideEffect DEF PlaceInv, PlaceOf, Types
  <2> QED
    BY <2>1, <2>2 DEF PlaceInv
<1>4. CASE UNCHANGED vars
  BY <1>4 DEF vars, jobs, PlaceInv, PlaceOf
<1> QED
  BY <1>1, <1>2, <1>3, <1>4 DEF Next, Listener, Outside, Inside

\* A page goes into the channel, its ack after it, and from there to the job ...
LEMMA PagesLocal ==
    ASSUME Types, PlaceInv, PagesInv,
           NEW u \in Uploads, Inside(u)
    PROVE  PagesOf(u)'
<1>1. CASE Refuse(u)
  BY <1>1, UploadsAssumption DEF Refuse, PagesInv, PagesOf, Waiting, jobs, daemon
<1>2. CASE Authorize(u)
  BY <1>2, UploadsAssumption DEF Authorize, PagesInv, PagesOf, Waiting, jobs, daemon
<1>3. CASE Subscribe(u)
  BY <1>3, UploadsAssumption DEF Subscribe, PagesInv, PagesOf, Waiting, jobs, daemon
<1>4. CASE SendTrigger(u)
  BY <1>4, UploadsAssumption DEF SendTrigger, PagesInv, PagesOf, Waiting, jobs, daemon
<1>5. CASE SendTriggerFails(u)
  BY <1>5, UploadsAssumption DEF SendTriggerFails, PagesInv, PagesOf, Waiting, jobs,
     daemon
<1>6. CASE ClaimTimeout(u)
  BY <1>6, UploadsAssumption DEF ClaimTimeout, PagesInv, PagesOf, Waiting, jobs, daemon
<1>7. CASE Unclaimed(u)
  BY <1>7, UploadsAssumption DEF Unclaimed, PagesInv, PagesOf, Waiting, jobs, daemon
<1>8. CASE Page(u)
  <2>1. /\ acked[u] \in Nat /\ got[u] \in Nat /\ buffer[u] \in Nat /\ Pages[u] \in Nat
        /\ PagesOf(u)
    BY UploadsAssumption DEF Types, Counters, PagesInv
  <2>2. /\ pc[u] = "page" /\ pc'[u] = "deliver"
        /\ UNCHANGED <<acked, got, buffer, job>>
    BY <1>8 DEF Page, Goto, ReadOnly, daemon, jobs, Types, Shape
  <2> QED
    BY <2>1, <2>2 DEF PagesOf, Waiting
<1>9. CASE Deliver(u)
  <2>1. /\ acked[u] \in Nat /\ got[u] \in Nat /\ buffer[u] \in Nat /\ Pages[u] \in Nat
        /\ PagesOf(u)
    BY UploadsAssumption DEF Types, Counters, PagesInv
  <2>2. /\ pc[u] = "deliver" /\ job' = job /\ got' = got
        /\ acked'[u] = acked[u] + 1 /\ buffer'[u] = buffer[u] + 1
        /\ pc'[u] = IF acked'[u] >= Pages[u] THEN "done" ELSE "page"
    BY <1>9 DEF Deliver, Delivered, Leave, Goto, daemon, jobs, Types, Shape, Counters
  <2>3. job[u] # "failed"
    BY <1>9 DEF Deliver, Room, Received, PlaceInv, PlaceOf
  <2> QED
    BY <2>1, <2>2, <2>3 DEF PagesOf, Waiting
<1>10. CASE AckFails(u)
  <2>1. /\ acked[u] \in Nat /\ got[u] \in Nat /\ buffer[u] \in Nat /\ Pages[u] \in Nat
        /\ PagesOf(u)
    BY UploadsAssumption DEF Types, Counters, PagesInv
  <2>2. /\ pc[u] = "deliver" /\ job' = job /\ got' = got /\ acked' = acked
        /\ buffer'[u] = buffer[u] + 1 /\ pc'[u] = "broken"
    BY <1>10 DEF AckFails, Delivered, Leave, Goto, daemon, jobs, Types, Shape, Counters
  <2>3. job[u] # "failed"
    BY <1>10 DEF AckFails, Room, Received, PlaceInv, PlaceOf
  <2> QED
    BY <2>1, <2>2, <2>3 DEF PagesOf, Waiting
<1>11. CASE Break(u)
  <2>1. /\ acked[u] \in Nat /\ got[u] \in Nat /\ buffer[u] \in Nat /\ Pages[u] \in Nat
        /\ PagesOf(u)
    BY UploadsAssumption DEF Types, Counters, PagesInv
  <2>2. /\ pc[u] \in {"page", "deliver"} /\ pc'[u] = "broken"
        /\ UNCHANGED <<acked, got, buffer, job>>
    BY <1>11 DEF Break, Leave, Goto, daemon, jobs, Types, Shape
  <2> QED
    BY <2>1, <2>2 DEF PagesOf, Waiting
<1>12. CASE Fetch(u)
  <2>1. job'[u] # "failed" /\ job[u] # "failed" /\ pc[u] \notin {"page", "broken"}
    BY <1>12 DEF Fetch, JobIs, PlaceInv, PlaceOf
  <2>2. /\ pc'[u] \in {pc[u], "page"} /\ (pc'[u] = "page" => pc[u] \in {"claim", "page"})
        /\ UNCHANGED <<acked, got, buffer>>
    BY <1>12 DEF Fetch, Goto, Types, Shape
  <2>3. /\ acked[u] \in Nat /\ got[u] \in Nat /\ buffer[u] \in Nat /\ Pages[u] \in Nat \ {0}
        /\ PagesOf(u)
    BY UploadsAssumption DEF Types, Counters, PagesInv
  <2> QED
    BY <2>1, <2>2, <2>3 DEF PagesOf, Waiting
<1>13. CASE Receive(u)
  BY <1>13 DEF Receive, PlaceInv, PlaceOf, PagesInv, PagesOf, Types, Counters, Waiting
<1>14. CASE JobEnds(u)
  BY <1>14 DEF JobEnds, JobIs, PagesInv, PagesOf
<1>15. CASE JobFails(u)
  BY <1>15 DEF JobFails, JobIs, PagesInv, PagesOf, Types, Shape, Counters
<1> QED
  BY <1>1, <1>2, <1>3, <1>4, <1>5, <1>6, <1>7, <1>8, <1>9, <1>10, <1>11, <1>12, <1>13,
     <1>14, <1>15 DEF Inside, Connection, JobStep

\* ... and no step loses one, whoever takes it.
LEMMA PagesStep ==
    ASSUME Types, PlaceInv, PagesInv, TriggersInv, [Next]_vars
    PROVE  PagesInv'
<1>1. CASE Outside
  BY <1>1, OutsideEffect DEF PagesInv, PagesOf
<1>2. CASE Take
  <2>1. /\ queue[1] \in Uploads /\ Head(queue) = queue[1] /\ AtRest(queue[1])
    BY <1>2 DEF Take, Types, QueueBounded, TriggersInv, Queued
  <2>2. /\ job' = [job EXCEPT ![queue[1]] = "fetch"]
        /\ UNCHANGED <<pc, acked, pending, buffer, got>>
    BY <1>2 DEF Take, JobIs
  <2> QED
    BY <2>1, <2>2 DEF PagesInv, PagesOf, AtRest
<1>3. ASSUME NEW u \in Uploads, Inside(u)
      PROVE  PagesInv'
  <2>1. PagesOf(u)'
    BY <1>3, PagesLocal
  <2>2. \A v \in Uploads \ {u} : PagesOf(v)'
    BY <1>3, InsideEffect DEF PagesInv, PagesOf, Types
  <2> QED
    BY <2>1, <2>2 DEF PagesInv
<1>4. CASE UNCHANGED vars
  BY <1>4 DEF vars, jobs, PagesInv, PagesOf
<1> QED
  BY <1>1, <1>2, <1>3, <1>4 DEF Next, Listener, Outside, Inside

\* What was under way when the token went has no sender to queue its trigger with.
LEMMA RevokedStep ==
    ASSUME Types, StreamInv, AccountInv, PlaceInv, RevokedInv, [Next]_vars
    PROVE  RevokedInv'
<1>1. CASE Connect
  BY <1>1 DEF Connect, RevokedInv, Queued, stream
<1>2. CASE ConnectListen
  BY <1>2 DEF ConnectListen, EnsureListening, Opened, Types, Shape, RevokedInv, Queued,
     stream
<1>3. CASE Disconnect
  BY <1>3 DEF Disconnect, Stopped, Closed, RevokedInv, Queued
<1>4. CASE Install
  BY <1>4 DEF Install, RevokedInv, Queued, stream
<1>5. CASE PairingDone
  BY <1>5 DEF PairingDone, RevokedInv, Queued
<1>6. CASE UnpairCalled
  BY <1>6 DEF UnpairCalled, UnpairStops, Stopped, Closed, Types, Shape, RevokedInv, Queued
<1>7. CASE UnpairForget
  <2>1. overlap' = overlap /\ linked' = linked /\ queue' = queue /\ pc' = pc
    BY <1>7 DEF UnpairForget
  <2>2. ~overlap => linked = {} /\ queue = <<>>
    BY <1>7 DEF UnpairForget, AccountInv, StreamInv
  <2>3. ~overlap => \A u \in Uploads : ~Queued(u)
    BY <2>2 DEF Queued
  <2>4. ~overlap => revoked' \subseteq pending
    BY <1>7, <2>3 DEF UnpairForget
  <2>5. ~overlap => \A u \in Uploads : ~Queued(u)'
    BY <2>1, <2>2 DEF Queued
  <2> QED
    BY <2>1, <2>2, <2>4, <2>5 DEF RevokedInv, PlaceInv, PlaceOf, Sending, Types, Shape
<1>8. CASE UnpairStore
  BY <1>8 DEF UnpairStore, RevokedInv, Queued, stream
<1>9. CASE UnpairRelisten
  BY <1>9 DEF UnpairRelisten, EnsureListening, Opened, Types, Shape, RevokedInv,
     AccountInv, Queued
<1>10. CASE UnpairDone
  BY <1>10 DEF UnpairDone, Closed, RevokedInv, Queued
<1>11. CASE DropLate
  BY <1>11 DEF DropLate, RevokedInv, AccountInv
<1>12. CASE Restart
  BY <1>12 DEF Restart, RevokedInv, AccountInv
<1>13. CASE GiveUp
  BY <1>13 DEF GiveUp, RevokedInv, AccountInv
<1>14. CASE Return
  BY <1>14 DEF Return, RevokedInv, Queued, stream
<1>15. CASE Take
  <2>1. /\ queue[1] \in Uploads /\ queue' = Tail(queue) /\ Head(queue) = queue[1]
        /\ \A i \in 1..Len(queue') : queue'[i] = queue[i + 1] /\ i + 1 \in 1..Len(queue)
    BY <1>15 DEF Take, Types, QueueBounded
  <2>2. \A u \in Uploads : Queued(u)' => Queued(u)
    BY <2>1 DEF Queued
  <2>3. UNCHANGED <<overlap, linked, pc>> /\ revoked' \subseteq revoked
    BY <1>15 DEF Take
  <2> QED
    BY <2>2, <2>3 DEF RevokedInv, Types, Shape
<1>16. ASSUME NEW u \in Uploads, Refuse(u)
      PROVE  RevokedInv'
  BY <1>16 DEF Refuse, Goto, RevokedInv, Queued, stream, Sending
<1>17. ASSUME NEW u \in Uploads, Authorize(u)
      PROVE  RevokedInv'
  BY <1>17 DEF Authorize, Goto, RevokedInv, Queued, stream, Sending
<1>18. ASSUME NEW u \in Uploads, Subscribe(u)
      PROVE  RevokedInv'
  BY <1>18 DEF Subscribe, Leave, Goto, Types, Shape, RevokedInv, Queued, Sending
<1>19. ASSUME NEW u \in Uploads, SendTrigger(u)
      PROVE  RevokedInv'
  <2>1. /\ Len(queue') = Len(queue) + 1 /\ Len(queue) \in Nat /\ queue'[Len(queue) + 1] = u
        /\ \A i \in 1..Len(queue) : queue'[i] = queue[i]
    BY <1>19 DEF SendTrigger
  <2>2. \A v \in Uploads \ {u} : Queued(v)' => Queued(v)
    BY <2>1 DEF Queued
  <2> QED
    BY <1>19, <2>2 DEF SendTrigger, Goto, RevokedInv, Types, Shape
<1>20. ASSUME NEW u \in Uploads, SendTriggerFails(u)
      PROVE  RevokedInv'
  BY <1>20 DEF SendTriggerFails, Leave, Goto, RevokedInv, Queued
<1>21. ASSUME NEW u \in Uploads, ClaimTimeout(u)
      PROVE  RevokedInv'
  BY <1>21 DEF ClaimTimeout, Goto, RevokedInv, Queued, stream, Sending
<1>22. ASSUME NEW u \in Uploads, Unclaimed(u)
      PROVE  RevokedInv'
  BY <1>22 DEF Unclaimed, Leave, Goto, RevokedInv, Queued
<1>23. ASSUME NEW u \in Uploads, Page(u)
      PROVE  RevokedInv'
  BY <1>23 DEF Page, Goto, RevokedInv, Queued, stream, Sending
<1>24. ASSUME NEW u \in Uploads, Deliver(u)
      PROVE  RevokedInv'
  BY <1>24 DEF Deliver, Leave, Goto, Types, Shape, RevokedInv, Queued, Sending
<1>25. ASSUME NEW u \in Uploads, AckFails(u)
      PROVE  RevokedInv'
  BY <1>25 DEF AckFails, Leave, Goto, RevokedInv, Queued
<1>26. ASSUME NEW u \in Uploads, Break(u)
      PROVE  RevokedInv'
  BY <1>26 DEF Break, Leave, Goto, RevokedInv, Queued
<1>27. ASSUME NEW u \in Uploads, Fetch(u)
      PROVE  RevokedInv'
  BY <1>27 DEF Fetch, Goto, Types, Shape, RevokedInv, Queued, stream, Sending
<1>28. ASSUME NEW u \in Uploads, Receive(u)
      PROVE  RevokedInv'
  BY <1>28 DEF Receive, RevokedInv, Queued, stream
<1>29. ASSUME NEW u \in Uploads, JobEnds(u)
      PROVE  RevokedInv'
  BY <1>29 DEF JobEnds, RevokedInv, Queued, stream
<1>30. ASSUME NEW u \in Uploads, JobFails(u)
      PROVE  RevokedInv'
  BY <1>30 DEF JobFails, RevokedInv, Queued, stream
<1>31. CASE UNCHANGED vars
  BY <1>31 DEF vars, RevokedInv, Queued, stream
<1> QED
  BY <1>1, <1>2, <1>3, <1>4, <1>5, <1>6, <1>7, <1>8, <1>9, <1>10, <1>11, <1>12, <1>13,
     <1>14, <1>15, <1>16, <1>17, <1>18, <1>19, <1>20, <1>21, <1>22, <1>23, <1>24, <1>25,
     <1>26, <1>27, <1>28, <1>29, <1>30, <1>31 DEF Next, Callers, Calls, Listener,
     Connection, JobStep

\* Initially.
LEMMA MobileInit == Init => UploadsInv
<1> SUFFICES ASSUME Init PROVE UploadsInv
  OBVIOUS
<1>1. Shape
  <2>1. pc \in [Uploads -> Over \cup Sending \cup {"idle", "lookup"}]
    BY DEF Init
  <2>2. job \in [Uploads -> {"none", "fetch", "capture", "done", "failed"}]
    BY DEF Init
  <2>3. attempt \in 0..Attempts
    BY UploadsAssumption DEF Init
  <2> QED
    BY <2>3 DEF Init, Shape
<1>2. QueueBounded
  BY UploadsAssumption DEF Init, QueueBounded
<1>3. Counters
  BY UploadsAssumption DEF Init, Counters
<1>4. StreamInv /\ AccountInv /\ TriggersInv /\ RevokedInv
  BY DEF Init, StreamInv, AccountInv, TriggersInv, RevokedInv, Queued
<1>5. ASSUME NEW u \in Uploads
      PROVE  PlaceOf(u) /\ PagesOf(u)
  <2>1. /\ pc[u] = "idle" /\ job[u] = "none" /\ u \notin pending
        /\ acked[u] = 0 /\ got[u] = 0 /\ buffer[u] = 0
    BY DEF Init
  <2> QED
    BY <2>1, UploadsAssumption DEF PlaceOf, PagesOf
<1> QED
  BY <1>1, <1>2, <1>3, <1>4, <1>5 DEF UploadsInv, Types, PlaceInv, PagesInv

\* One step.
LEMMA MobileStep == UploadsInv /\ [Next]_vars => UploadsInv'
  BY TypesStep, StreamStep, AccountStep, TriggersStep, PlaceStep, PagesStep, RevokedStep
     DEF UploadsInv

\* The invariant always holds.
LEMMA MobileInductive == Spec => []UploadsInv
  BY MobileInit, MobileStep, PTL DEF Spec

-----------------------------------------------------------------------------
(* Theorems *)

\* A scanner that listens is heard, unless a Connect() overlapped an Unpair() or a
\* stream that was still to be dropped.
THEOREM AlwaysHeard == Spec => []HeardWhileListening
<1>1. UploadsInv => HeardWhileListening
  BY DEF UploadsInv, AccountInv, StreamInv, HeardWhileListening
<1> QED
  BY <1>1, MobileInductive, PTL

\* A page the phone has an ack for is with the job or on its way to it, and what
\* fetch_pages would find has a connection behind it.
THEOREM UploadsAlwaysAgree == Spec => []UploadsAgree
<1>1. UploadsInv => AckedIsKept
  BY DEF UploadsInv, PagesInv, PagesOf, AckedIsKept
<1>2. UploadsInv => OfferedIsAwaited
  <2> SUFFICES ASSUME UploadsInv PROVE OfferedIsAwaited
    OBVIOUS
  <2>1. \A u \in pending : pc[u] \in {"trigger", "claim", "unclaimed"}
    BY DEF UploadsInv, Types, Shape, PlaceInv, PlaceOf
  <2>2. \A u \in Uploads : pc[u] = "refused" => got[u] + buffer[u] = 0
    BY DEF UploadsInv, PagesInv, PagesOf, Waiting
  <2> QED
    BY <2>1, <2>2 DEF OfferedIsAwaited
<1>3. UploadsInv => UploadsAgree
  BY <1>1, <1>2, TypesMean DEF UploadsInv, UploadsAgree
<1> QED
  BY <1>3, MobileInductive, PTL

\* Nothing outside a listener that takes a trigger starts a job.
LEMMA NothingElseFetches ==
    ASSUME Types, NEW u \in Uploads, Inside(u)
    PROVE  job'[u] = "fetch" => job[u] = "fetch"
<1>1. CASE Refuse(u)
  BY <1>1 DEF Refuse, jobs, daemon
<1>2. CASE Authorize(u)
  BY <1>2 DEF Authorize, jobs, daemon
<1>3. CASE Subscribe(u)
  BY <1>3 DEF Subscribe, jobs, daemon
<1>4. CASE SendTrigger(u)
  BY <1>4 DEF SendTrigger, jobs, daemon
<1>5. CASE SendTriggerFails(u)
  BY <1>5 DEF SendTriggerFails, jobs, daemon
<1>6. CASE ClaimTimeout(u)
  BY <1>6 DEF ClaimTimeout, jobs, daemon
<1>7. CASE Unclaimed(u)
  BY <1>7 DEF Unclaimed, jobs, daemon
<1>8. CASE Page(u)
  BY <1>8 DEF Page, jobs, daemon
<1>9. CASE Deliver(u)
  BY <1>9 DEF Deliver, jobs, daemon
<1>10. CASE AckFails(u)
  BY <1>10 DEF AckFails, jobs, daemon
<1>11. CASE Break(u)
  BY <1>11 DEF Break, jobs, daemon
<1>12. CASE Fetch(u)
  BY <1>12 DEF Fetch
<1>13. CASE Receive(u)
  BY <1>13 DEF Receive
<1>14. CASE JobEnds(u)
  BY <1>14 DEF JobEnds, JobIs
<1>15. CASE JobFails(u)
  BY <1>15 DEF JobFails, JobIs
<1> QED
  BY <1>1, <1>2, <1>3, <1>4, <1>5, <1>6, <1>7, <1>8, <1>9, <1>10, <1>11, <1>12, <1>13,
     <1>14, <1>15 DEF Inside, Connection, JobStep

\* Once Unpair() has revoked a token no job starts for an upload that was under way
\* with it, unless a Connect() overlapped the call.
THEOREM RevokedStaysIdle == Spec => RevokedStartsNothing
<1>1. ASSUME UploadsInv, [Next]_vars, NEW u \in Uploads, job[u] # "fetch", job'[u] = "fetch"
      PROVE  u \notin revoked \/ overlap
  <2>1. CASE Take
    <3>1. job' = [job EXCEPT ![queue[1]] = "fetch"] /\ 1 \in 1..Len(queue)
      BY <2>1 DEF Take, JobIs
    <3>2. queue[1] = u
      BY <1>1, <3>1
    <3> QED
      BY <1>1, <3>1 DEF UploadsInv, RevokedInv, Queued
  <2>2. CASE Outside
    BY <1>1, <2>2, OutsideEffect
  <2>3. ASSUME NEW v \in Uploads, Inside(v)
        PROVE  FALSE
    BY <1>1, <2>3, InsideEffect, NothingElseFetches DEF UploadsInv, Types
  <2>4. CASE UNCHANGED vars
    BY <1>1, <2>4 DEF vars, jobs
  <2> QED
    BY <1>1, <2>1, <2>2, <2>3, <2>4 DEF Next, Listener, Outside, Inside
<1>2. UploadsInv /\ [Next]_vars =>
        [\A u \in Uploads : job[u] # "fetch" /\ job'[u] = "fetch"
            => u \notin revoked \/ overlap]_vars
  BY <1>1
<1> QED
  BY <1>2, MobileInductive, PTL DEF Spec, RevokedStartsNothing

-----------------------------------------------------------------------------
(* MobilePairing: the invariant *)

\* d is the token phone p was given, over the connection it was given it.
Recognises(p, d) ==
    phone[p] # NoDevice /\ d.token = phone[p].token /\ d.tls = phone[p].tls

\* What phone p remembers of the host is what the process is, and what
\* devices.json says.
AtPort(p, h, n) ==
    /\ phone[p] # NoDevice
    /\ spoilt \/ (n # 0 /\ phone[p].port = n /\ (unwritten \/ (h # 0 /\ phone[p].host = h)))

\* A process that is not there pairs nobody, one that has not restored yet has
\* taken devices.json for its table, and one that pairs has a host and a port.
Standing ==
    /\ life # "up" =>
         /\ done = {} /\ \A p \in Phones : driver[p] = "none" /\ unpair[p] = "none"
    /\ life = "loaded" =>
         \A p \in Phones : file.devices[p] # NoDevice => file.devices[p] = paired[p]
    /\ life # "down" => hostId # 0 /\ (ready => port # 0)
    /\ life # "down" /\ ~spoilt /\ ~unwritten => file.host = hostId
    /\ IF file.readable THEN TRUE ELSE spoilt /\ file.devices = NoTable

\* A pairing and an Unpair() of one phone exclude each other, and Unpair() has
\* taken the token before it goes to the daemon's store.
TurnOf(p) ==
    /\ driver[p] # "none" => p \notin done /\ ready
    /\ unpair[p] # "none" => p \in done
    /\ p \in asked => driver[p] = "confirm"
    /\ answer[p] # NoDevice => p \in asked
    /\ unpair[p] = "store" => paired[p] = NoDevice
    /\ p \in done => p \in torn \/ p \in saved

InTurn == \A p \in Phones : TurnOf(p)

\* An answer that is the phone's own is what the phone remembers.
AnswerOf(p) ==
    answer[p] # NoDevice /\ answer[p].from = p =>
        phone[p] = [token |-> answer[p].token, tls |-> over[p], host |-> hostId, port |-> port]

AnswerIsRemembered == \A p \in Phones : AnswerOf(p)

\* The table's entry of a phone that is paired, is about to be, or waits for the
\* restore; one that was not restored has none.
TableOf(p) ==
    /\ driver[p] = "save" => paired[p] # NoDevice /\ Recognises(p, paired[p])
                             /\ AtPort(p, hostId, port)
    /\ p \in saved \ torn /\ paired[p] # NoDevice =>
         Recognises(p, paired[p]) /\ AtPort(p, hostId, port)
    /\ p \in done \ torn => /\ unpair[p] # "store" => paired[p] # NoDevice
                            /\ AtPort(p, hostId, port)
    /\ life = "up" /\ p \in saved \ (torn \cup done) /\ driver[p] # "save" =>
         paired[p] = NoDevice /\ file.devices[p] = NoDevice

TableHolds == \A p \in Phones : TableOf(p)

\* And devices.json's.
FileOf(p) ==
    (p \in saved \ torn \/ driver[p] = "save") /\ file.devices[p] # NoDevice =>
        Recognises(p, file.devices[p]) /\ AtPort(p, file.host, file.port)

FileHolds == \A p \in Phones : FileOf(p)

PhoneInv ==
    /\ PhoneTypeOK /\ Standing /\ InTurn /\ AnswerIsRemembered /\ TableHolds /\ FileHolds
    /\ TokensArePruned

-----------------------------------------------------------------------------
(* What a write leaves in devices.json *)

Tables == [Phones -> Devices \cup {NoDevice}]

\* Whether the write of table fails or not.
Rewritten(table) ==
    /\ file' \in Files
    /\ file' = file \/ file'.readable
    /\ file'.host = file.host \/ spoilt
    /\ \A p \in Phones :
         \/ file'.devices[p] = NoDevice
         \/ file'.devices[p] = file.devices[p] /\ file'.port = file.port
         \/ file'.devices[p] = table[p] /\ file'.port = port

\* What cannot be read is an empty file, as it is when it was damaged.
LEMMA LoadedEffect ==
    ASSUME PhoneTypeOK, Standing
    PROVE  /\ Loaded \in Files /\ Loaded.readable /\ Loaded.devices = file.devices
           /\ file.readable => Loaded = file
<1>1. /\ EmptyFile \in Files /\ EmptyFile.readable /\ EmptyFile.devices = NoTable
  BY MobileAssumption DEF EmptyFile, NoTable, Files
<1> QED
  BY <1>1 DEF Loaded, Standing, PhoneTypeOK

\* A file that was damaged.
LEMMA Damaged ==
    /\ [EmptyFile EXCEPT !.readable = FALSE] \in Files
    /\ ~[EmptyFile EXCEPT !.readable = FALSE].readable
    /\ [EmptyFile EXCEPT !.readable = FALSE].devices = NoTable
<1>1. EmptyFile \in Files /\ EmptyFile.devices = NoTable
  BY MobileAssumption DEF EmptyFile, NoTable, Files
<1> QED
  BY <1>1 DEF Files

\* A write of the table, whether or not it succeeds, leaves devices.json as it was,
\* started afresh, or with the table in it.
LEMMA WriteEffect ==
    ASSUME PhoneTypeOK, Standing, NEW table \in Tables, Persisted(table) \/ PersistFails(table)
    PROVE  /\ Rewritten(table)
           /\ Persisted(table) => file'.devices = table /\ file'.port = port
<1>1. file' \in {file, Loaded, Written(table)}
  BY DEF Persisted, PersistFails
<1>2. /\ Written(table) \in Files /\ Written(table).readable
      /\ Written(table).host = Loaded.host
      /\ Written(table).port = port /\ Written(table).devices = table
  BY LoadedEffect DEF Written, PhoneTypeOK, Files, Tables
<1>3. Persisted(table) => file' = Written(table)
  BY DEF Persisted
<1>4. Loaded.host = file.host \/ spoilt
  BY LoadedEffect DEF Standing
<1>5. Loaded = file \/ file.devices = NoTable
  BY LoadedEffect DEF Standing
<1>6. NoTable = [p \in Phones |-> NoDevice]
  BY DEF NoTable
<1> QED
  BY <1>1, <1>2, <1>3, <1>4, <1>5, <1>6, LoadedEffect DEF Rewritten, PhoneTypeOK

\* A process starts with the file's devices for its table, and with the host and
\* port it holds, if it holds them and could be read.
LEMMA ConstructWrites ==
    ASSUME PhoneTypeOK, Standing, NEW b \in BOOLEAN, NEW i \in BOOLEAN, Construct(b, i)
    PROVE  /\ paired' = file.devices /\ paired' \in Tables
           /\ file' \in Files /\ file'.devices = file.devices
           /\ file' = file \/ file'.readable
           /\ hostId' \in 1..MaxStarts /\ port' \in 0..MaxStarts
           /\ ready' \in BOOLEAN /\ (ready' => port' # 0)
           /\ ~spoilt => /\ file.port # 0 => file'.port = file.port /\ port' = file.port
                         /\ file.host # 0 => file'.host = file.host /\ hostId' = file.host
           /\ unwritten' = (unwritten \/ file'.host # hostId')
<1> DEFINE New(h, n) == [Loaded EXCEPT !.host = h, !.port = n]
<1>1. Loaded \in Files /\ Loaded.devices = file.devices /\ Loaded.readable
  BY LoadedEffect
<1>2. ~spoilt => Loaded = file
  BY LoadedEffect DEF Standing
<1>3. /\ hostId' = HostOf /\ paired' = Loaded.devices
      /\ port' = IF Loaded.port = 0 THEN (IF b THEN starts + 1 ELSE 0) ELSE Loaded.port
      /\ ready' = (b /\ i) /\ starts \in 0..MaxStarts /\ starts < MaxStarts
      /\ unwritten' = (unwritten \/ file'.host # hostId')
  BY DEF Construct, PhoneTypeOK
<1>4. file' \in {file, Loaded, New(hostId', port')}
  BY DEF Construct
<1>5. hostId' \in 1..MaxStarts /\ port' \in 0..MaxStarts
  BY <1>1, <1>3, MobileAssumption DEF HostOf, Files
<1>6. \A h, n \in 0..MaxStarts :
         /\ New(h, n) \in Files /\ New(h, n).readable /\ New(h, n).host = h
         /\ New(h, n).port = n /\ New(h, n).devices = Loaded.devices
  BY <1>1 DEF Files
<1> HIDE DEF New
<1>7. ASSUME file' # file, file' # Loaded
       PROVE  /\ file' \in Files /\ file'.readable /\ file'.devices = Loaded.devices
              /\ file'.host = hostId' /\ file'.port = port'
  BY <1>4, <1>5, <1>6, <1>7
<1>8. file' \in Files /\ file'.devices = file.devices /\ (file' = file \/ file'.readable)
  BY <1>1, <1>7 DEF PhoneTypeOK
<1>9. ready' \in BOOLEAN /\ (ready' => port' # 0)
  BY <1>3
<1>10. ~spoilt => /\ file.port # 0 => file'.port = file.port /\ port' = file.port
                  /\ file.host # 0 => file'.host = file.host /\ hostId' = file.host
  BY <1>2, <1>3, <1>7 DEF HostOf
<1>11. file.devices \in Tables
  BY DEF PhoneTypeOK, Files, Tables
<1> QED
  BY <1>1, <1>3, <1>5, <1>8, <1>10, <1>11

\* The restore keeps the entries of the phones the daemon has stored.
LEMMA RestoreWrites ==
    ASSUME PhoneTypeOK, Standing, Restore
    PROVE  /\ paired' \in Tables /\ Rewritten(paired')
           /\ \A p \in Phones : paired'[p] = IF p \in saved THEN paired[p] ELSE NoDevice
<1>1. paired' \in Tables
  BY DEF Restore, PrunedTable, PhoneTypeOK, Tables
<1>2. UNCHANGED file \/ Persisted(paired') \/ PersistFails(paired')
  BY DEF Restore
<1>3. UNCHANGED file => Rewritten(paired')
  BY DEF Rewritten, PhoneTypeOK
<1>4. \A p \in Phones : paired'[p] = IF p \in saved THEN paired[p] ELSE NoDevice
  BY DEF Restore, PrunedTable
<1> QED
  BY <1>1, <1>2, <1>3, <1>4, WriteEffect

\* The answer a driver stores is in the table and in devices.json.
LEMMA StoredWrites ==
    ASSUME PhoneTypeOK, Standing, NEW q \in Phones, Stored(q)
    PROVE  /\ paired' \in Tables /\ Rewritten(paired') /\ paired'[q] # NoDevice
           /\ file'.devices = paired' /\ file'.port = port
<1>1. /\ answer[q] \in Answers
      /\ paired' = [paired EXCEPT ![q] = [token |-> answer[q].token, tls |-> over[q]]]
  BY DEF Stored, Genuine, PhoneTypeOK
<1>2. [token |-> answer[q].token, tls |-> over[q]] \in Devices
  BY <1>1 DEF Answers, Devices, PhoneTypeOK
<1>3. paired' \in Tables /\ paired'[q] # NoDevice
  BY <1>1, <1>2, MobileAssumption DEF PhoneTypeOK, Tables
<1>4. Persisted(paired')
  BY DEF Stored
<1> QED
  BY <1>3, <1>4, WriteEffect

\* A store that fails may have rewritten the file with the entry in it.
LEMMA StoreFailsWrites ==
    ASSUME PhoneTypeOK, Standing, NEW q \in Phones, StoreFails(q)
    PROVE  /\ paired' \in Tables
           /\ [paired EXCEPT ![q] = [token |-> answer[q].token, tls |-> over[q]]] \in Tables
           /\ Rewritten([paired EXCEPT ![q] = [token |-> answer[q].token, tls |-> over[q]]])
<1>1. answer[q] \in Answers
  BY DEF StoreFails, Genuine, PhoneTypeOK
<1>2. [token |-> answer[q].token, tls |-> over[q]] \in Devices
  BY <1>1 DEF Answers, Devices, PhoneTypeOK
<1>3. [paired EXCEPT ![q] = [token |-> answer[q].token, tls |-> over[q]]] \in Tables
  BY <1>2 DEF PhoneTypeOK, Tables
<1>4. PersistFails([paired EXCEPT ![q] = [token |-> answer[q].token, tls |-> over[q]]])
  BY DEF StoreFails
<1>5. paired' \in Tables
  BY DEF StoreFails, PhoneTypeOK, Tables
<1> QED
  BY <1>3, <1>4, <1>5, WriteEffect

\* Unpair() takes the entry from the table, and from the file if that can be written.
LEMMA ForgetWrites ==
    ASSUME PhoneTypeOK, Standing, NEW q \in Phones, Forget(q)
    PROVE  /\ paired' = [paired EXCEPT ![q] = NoDevice]
           /\ paired' \in Tables /\ Rewritten(paired')
<1>1. paired' = [paired EXCEPT ![q] = NoDevice] /\ paired' \in Tables
  BY DEF Forget, WithoutEntry, PhoneTypeOK, Tables
<1>2. UNCHANGED file \/ Persisted(paired') \/ PersistFails(paired')
  BY <1>1 DEF Forget
<1>3. UNCHANGED file => Rewritten(paired')
  BY DEF Rewritten, PhoneTypeOK
<1> QED
  BY <1>1, <1>2, <1>3, WriteEffect

\* A driver that gives up takes its own request and answer along.
LEMMA HungUpEffect ==
    ASSUME PhoneTypeOK, NEW q \in Phones, HungUpOn(q), NEW p \in Phones
    PROVE  /\ p = q => answer'[p] = NoDevice /\ driver'[p] = "none" /\ p \notin asked'
           /\ p # q => /\ answer'[p] = answer[p] /\ driver'[p] = driver[p]
                       /\ over'[p] = over[p] /\ (p \in asked' <=> p \in asked)
  BY DEF HungUpOn, PhoneTypeOK

\* What a genuine answer is stored as is what the phone remembers.
LEMMA GenuineIsRemembered ==
    ASSUME PhoneTypeOK, Standing, NEW q \in Phones, TurnOf(q), AnswerOf(q),
           driver[q] = "confirm", Genuine(q)
    PROVE  /\ Recognises(q, [token |-> answer[q].token, tls |-> over[q]])
           /\ AtPort(q, hostId, port)
<1>1. answer[q] # NoDevice /\ answer[q].from = q /\ answer[q] \in Answers /\ over[q] \in BOOLEAN
      /\ answer[q].token \in 1..MaxTokens
  BY DEF Genuine, PhoneTypeOK, Answers
<1>2. phone[q] = [token |-> answer[q].token, tls |-> over[q], host |-> hostId, port |-> port]
  BY <1>1 DEF AnswerOf
<1>3. phone[q] \in Memories /\ phone[q] # NoDevice
  BY <1>1, <1>2, MobileAssumption DEF Memories, PhoneTypeOK
<1>4. life # "down" /\ hostId # 0 /\ port # 0
  BY DEF Standing, TurnOf
<1> QED
  BY <1>2, <1>3, <1>4 DEF Recognises, AtPort

\* A write keeps what the file holds of a pairing that is in place.
LEMMA RewrittenKeeps ==
    ASSUME PhoneTypeOK, Standing, NEW p \in Phones, TableOf(p), FileOf(p), life # "down",
           p \in saved \ torn \/ driver[p] = "save",
           UNCHANGED <<phone, spoilt, unwritten>>,
           NEW table \in Tables, Rewritten(table), table[p] \in {paired[p], NoDevice},
           file'.devices[p] # NoDevice
    PROVE  Recognises(p, file.devices[p])' /\ AtPort(p, file.host, file.port)'
<1>1. CASE file'.devices[p] = file.devices[p] /\ file'.port = file.port
  BY <1>1 DEF Rewritten, FileOf, Recognises, AtPort
<1>2. CASE file'.devices[p] = table[p] /\ file'.port = port
  <2>1. Recognises(p, paired[p]) /\ AtPort(p, hostId, port) /\ table[p] = paired[p]
    BY <1>2 DEF TableOf
  <2> QED
    BY <1>2, <2>1 DEF Rewritten, Recognises, AtPort, Standing
<1> QED
  BY <1>1, <1>2 DEF Rewritten


\* Types: every table keeps to the phones, the tokens and the starts there are.
LEMMA PhoneTypeStep ==
    ASSUME PhoneTypeOK, Standing,
           [PhoneNext]_phoneVars
    PROVE  PhoneTypeOK'
<1>1. ASSUME NEW b \in BOOLEAN, NEW i \in BOOLEAN, Construct(b, i)
       PROVE  PhoneTypeOK'
  BY <1>1, MobileAssumption, ConstructWrites DEF Construct, pairing, core, world,
     PhoneTypeOK, Tables
<1>2. CASE Restore
  BY <1>2, RestoreWrites DEF Restore, PrunedTable, pairing, world, past, PhoneTypeOK,
     Rewritten
<1>3. CASE Crash
  BY <1>3 DEF Crash, NoTable, PhoneTypeOK
<1>4. CASE Spoil
  BY <1>4, Damaged DEF Spoil, host, pairing, core, world, PhoneTypeOK
<1>5. ASSUME NEW q \in Phones, NEW k \in {"tls", "clear"}, Seen(q, k)
       PROVE  PhoneTypeOK'
  BY <1>5 DEF Seen, host, tables, pairing, core, past, PhoneTypeOK
<1>6. ASSUME NEW q \in Phones, Aged(q)
       PROVE  PhoneTypeOK'
  BY <1>6 DEF Aged, host, tables, pairing, core, past, PhoneTypeOK
<1>7. ASSUME NEW q \in Phones, Pair(q)
       PROVE  PhoneTypeOK'
  BY <1>7 DEF Pair, host, tables, core, world, past, PhoneTypeOK
<1>8. ASSUME NEW q \in Phones, CancelPairing(q)
       PROVE  PhoneTypeOK'
  BY <1>8 DEF CancelPairing, HungUpOn, host, tables, core, world, past, PhoneTypeOK
<1>9. ASSUME NEW q \in Phones, Requested(q)
       PROVE  PhoneTypeOK'
  BY <1>9 DEF Requested, host, tables, core, world, past, PhoneTypeOK
<1>10. ASSUME NEW q \in Phones, Stored(q)
       PROVE  PhoneTypeOK'
  BY <1>10, StoredWrites DEF Stored, host, core, world, PhoneTypeOK, Rewritten, Tables
<1>11. ASSUME NEW q \in Phones, StoreFails(q)
       PROVE  PhoneTypeOK'
  <2>1. paired' \in Tables /\ file' \in Files
    BY <1>11, StoreFailsWrites DEF Rewritten
  <2> QED
    BY <1>11, <2>1 DEF StoreFails, HungUpOn, host, core, world, PhoneTypeOK
<1>12. ASSUME NEW q \in Phones, Refused(q)
       PROVE  PhoneTypeOK'
  BY <1>12 DEF Refused, HungUpOn, host, tables, core, world, past, PhoneTypeOK
<1>13. ASSUME NEW q \in Phones, Saved(q)
       PROVE  PhoneTypeOK'
  BY <1>13 DEF Saved, HungUpOn, host, tables, world, PhoneTypeOK
<1>14. ASSUME NEW q \in Phones, NotSaved(q)
       PROVE  PhoneTypeOK'
  BY <1>14 DEF NotSaved, HungUpOn, host, tables, world, PhoneTypeOK
<1>15. ASSUME NEW q \in Phones, Accepts(q)
       PROVE  PhoneTypeOK'
  BY <1>15, MobileAssumption DEF Accepts, host, tables, core, past, PhoneTypeOK,
     Answers, Memories
<1>16. ASSUME NEW q \in Phones, NEW r \in Phones \cup {NoDevice}, q # r, AnswersAs(q, r)
       PROVE  PhoneTypeOK'
  BY <1>16, MobileAssumption DEF AnswersAs, host, tables, core, past, PhoneTypeOK,
     Answers
<1>17. ASSUME NEW q \in Phones, Unpair(q)
       PROVE  PhoneTypeOK'
  BY <1>17 DEF Unpair, host, tables, pairing, world, past, PhoneTypeOK
<1>18. ASSUME NEW q \in Phones, Forget(q)
       PROVE  PhoneTypeOK'
  BY <1>18, ForgetWrites DEF Forget, host, pairing, world, past, PhoneTypeOK, Rewritten,
     Tables
<1>19. ASSUME NEW q \in Phones, Forgotten(q)
       PROVE  PhoneTypeOK'
  BY <1>19 DEF Forgotten, host, tables, pairing, world, PhoneTypeOK
<1>20. ASSUME NEW q \in Phones, NotForgotten(q)
       PROVE  PhoneTypeOK'
  BY <1>20 DEF NotForgotten, host, tables, pairing, world, PhoneTypeOK
<1>21. CASE UNCHANGED phoneVars
  BY <1>21 DEF phoneVars, host, tables, pairing, core, world, past, PhoneTypeOK
<1> QED
  BY <1>1, <1>2, <1>3, <1>4, <1>5, <1>6, <1>7, <1>8, <1>9, <1>10, <1>11, <1>12, <1>13,
     <1>14, <1>15, <1>16, <1>17, <1>18, <1>19, <1>20, <1>21 DEF PhoneNext, Driver

\* The process and the file: what a start draws is what it writes or remembers.
LEMMA StandingStep ==
    ASSUME PhoneTypeOK, Standing, TableHolds,
           [PhoneNext]_phoneVars
    PROVE  Standing'
<1>1. ASSUME NEW b \in BOOLEAN, NEW i \in BOOLEAN, Construct(b, i)
       PROVE  Standing'
  <2>1. /\ life' = "loaded" /\ paired' = file.devices /\ file'.devices = file.devices
        /\ hostId' # 0 /\ (ready' => port' # 0) /\ UNCHANGED <<done, driver, unpair, spoilt>>
        /\ unwritten' = (unwritten \/ file'.host # hostId') /\ life = "down"
        /\ (file' = file \/ file'.readable)
    BY <1>1, ConstructWrites DEF Construct, pairing, core
  <2> QED
    BY <2>1 DEF Standing
<1>2. CASE Restore
  BY <1>2, RestoreWrites DEF Restore, past, Standing, Rewritten
<1>3. CASE Crash
  BY <1>3 DEF Crash, Standing
<1>4. CASE Spoil
  BY <1>4, Damaged DEF Spoil, host, pairing, core, Standing, NoTable
<1>5. ASSUME NEW q \in Phones, NEW k \in {"tls", "clear"}, Seen(q, k)
       PROVE  Standing'
  BY <1>5 DEF Seen, host, tables, past, Standing
<1>6. ASSUME NEW q \in Phones, Aged(q)
       PROVE  Standing'
  BY <1>6 DEF Aged, host, tables, pairing, core, past, Standing
<1>7. ASSUME NEW q \in Phones, Pair(q)
       PROVE  Standing'
  BY <1>7 DEF Pair, host, tables, past, Standing
<1>8. ASSUME NEW q \in Phones, CancelPairing(q)
       PROVE  Standing'
  BY <1>8 DEF CancelPairing, host, tables, past, Standing
<1>9. ASSUME NEW q \in Phones, Requested(q)
       PROVE  Standing'
  BY <1>9 DEF Requested, host, tables, past, Standing
<1>10. ASSUME NEW q \in Phones, Stored(q)
       PROVE  Standing'
  <2>1. /\ Rewritten(paired') /\ driver[q] # "none" /\ life = "up"
        /\ UNCHANGED <<life, hostId, port, ready, done, unpair, spoilt, unwritten>>
    BY <1>10, StoredWrites DEF Stored, host, core, Standing
  <2>2. file'.host = file.host \/ spoilt
    BY <2>1 DEF Rewritten
  <2>3. file' = file \/ file'.readable
    BY <2>1 DEF Rewritten
  <2> QED
    BY <2>1, <2>2, <2>3 DEF Standing
<1>11. ASSUME NEW q \in Phones, StoreFails(q)
       PROVE  Standing'
  BY <1>11, StoreFailsWrites DEF StoreFails, host, Standing, Rewritten
<1>12. ASSUME NEW q \in Phones, Refused(q)
       PROVE  Standing'
  BY <1>12 DEF Refused, host, tables, past, Standing
<1>13. ASSUME NEW q \in Phones, Saved(q)
       PROVE  Standing'
  BY <1>13 DEF Saved, host, tables, Standing
<1>14. ASSUME NEW q \in Phones, NotSaved(q)
       PROVE  Standing'
  BY <1>14 DEF NotSaved, host, tables, Standing
<1>15. ASSUME NEW q \in Phones, Accepts(q)
       PROVE  Standing'
  BY <1>15 DEF Accepts, host, tables, core, past, Standing
<1>16. ASSUME NEW q \in Phones, NEW r \in Phones \cup {NoDevice}, q # r, AnswersAs(q, r)
       PROVE  Standing'
  BY <1>16 DEF AnswersAs, host, tables, core, past, Standing
<1>17. ASSUME NEW q \in Phones, Unpair(q)
       PROVE  Standing'
  BY <1>17 DEF Unpair, host, tables, past, Standing
<1>18. ASSUME NEW q \in Phones, Forget(q)
       PROVE  Standing'
  BY <1>18, ForgetWrites DEF Forget, host, past, Standing, Rewritten
<1>19. ASSUME NEW q \in Phones, Forgotten(q)
       PROVE  Standing'
  BY <1>19 DEF Forgotten, host, tables, Standing
<1>20. ASSUME NEW q \in Phones, NotForgotten(q)
       PROVE  Standing'
  BY <1>20 DEF NotForgotten, host, tables, Standing
<1>21. CASE UNCHANGED phoneVars
  BY <1>21 DEF phoneVars, host, tables, pairing, core, past, Standing
<1> QED
  BY <1>1, <1>2, <1>3, <1>4, <1>5, <1>6, <1>7, <1>8, <1>9, <1>10, <1>11, <1>12, <1>13,
     <1>14, <1>15, <1>16, <1>17, <1>18, <1>19, <1>20, <1>21 DEF PhoneNext, Driver

\* A pairing and an Unpair() keep out of each other's way.
LEMMA TurnStep ==
    ASSUME PhoneTypeOK, Standing, InTurn,
           [PhoneNext]_phoneVars
    PROVE  InTurn'
<1> SUFFICES ASSUME NEW p \in Phones
             PROVE  TurnOf(p)'
  BY DEF InTurn
<1>1. ASSUME NEW b \in BOOLEAN, NEW i \in BOOLEAN, Construct(b, i)
       PROVE  TurnOf(p)'
  BY <1>1 DEF Construct, pairing, core, Standing, InTurn, TurnOf
<1>2. CASE Restore
  BY <1>2 DEF Restore, pairing, Standing, InTurn, TurnOf
<1>3. CASE Crash
  BY <1>3 DEF Crash, NoTable, TurnOf
<1>4. CASE Spoil
  BY <1>4 DEF Spoil, host, pairing, core, InTurn, TurnOf
<1>5. ASSUME NEW q \in Phones, NEW k \in {"tls", "clear"}, Seen(q, k)
       PROVE  TurnOf(p)'
  BY <1>5 DEF Seen, host, tables, pairing, core, past, InTurn, TurnOf
<1>6. ASSUME NEW q \in Phones, Aged(q)
       PROVE  TurnOf(p)'
  BY <1>6 DEF Aged, host, tables, pairing, core, past, InTurn, TurnOf
<1>7. ASSUME NEW q \in Phones, Pair(q)
       PROVE  TurnOf(p)'
  BY <1>7 DEF Pair, host, tables, core, past, InTurn, TurnOf
<1>8. ASSUME NEW q \in Phones, CancelPairing(q)
       PROVE  TurnOf(p)'
  BY <1>8 DEF CancelPairing, HungUpOn, host, tables, core, past, PhoneTypeOK, InTurn,
     TurnOf
<1>9. ASSUME NEW q \in Phones, Requested(q)
       PROVE  TurnOf(p)'
  BY <1>9 DEF Requested, host, tables, core, past, PhoneTypeOK, InTurn, TurnOf
<1>10. ASSUME NEW q \in Phones, Stored(q)
       PROVE  TurnOf(p)'
  BY <1>10 DEF Stored, host, core, PhoneTypeOK, InTurn, TurnOf
<1>11. ASSUME NEW q \in Phones, StoreFails(q)
       PROVE  TurnOf(p)'
  BY <1>11 DEF StoreFails, HungUpOn, host, core, PhoneTypeOK, InTurn, TurnOf
<1>12. ASSUME NEW q \in Phones, Refused(q)
       PROVE  TurnOf(p)'
  BY <1>12 DEF Refused, HungUpOn, host, tables, core, past, PhoneTypeOK, InTurn, TurnOf
<1>13. ASSUME NEW q \in Phones, Saved(q)
       PROVE  TurnOf(p)'
  BY <1>13 DEF Saved, HungUpOn, host, tables, PhoneTypeOK, InTurn, TurnOf
<1>14. ASSUME NEW q \in Phones, NotSaved(q)
       PROVE  TurnOf(p)'
  BY <1>14 DEF NotSaved, HungUpOn, host, tables, InTurn, TurnOf
<1>15. ASSUME NEW q \in Phones, Accepts(q)
       PROVE  TurnOf(p)'
  BY <1>15 DEF Accepts, host, tables, core, past, InTurn, TurnOf
<1>16. ASSUME NEW q \in Phones, NEW r \in Phones \cup {NoDevice}, q # r, AnswersAs(q, r)
       PROVE  TurnOf(p)'
  BY <1>16 DEF AnswersAs, host, tables, core, past, InTurn, TurnOf
<1>17. ASSUME NEW q \in Phones, Unpair(q)
       PROVE  TurnOf(p)'
  BY <1>17 DEF Unpair, host, tables, pairing, past, InTurn, TurnOf
<1>18. ASSUME NEW q \in Phones, Forget(q)
       PROVE  TurnOf(p)'
  BY <1>18 DEF Forget, WithoutEntry, host, pairing, past, PhoneTypeOK, InTurn, TurnOf
<1>19. ASSUME NEW q \in Phones, Forgotten(q)
       PROVE  TurnOf(p)'
  BY <1>19 DEF Forgotten, host, tables, pairing, PhoneTypeOK, InTurn, TurnOf
<1>20. ASSUME NEW q \in Phones, NotForgotten(q)
       PROVE  TurnOf(p)'
  BY <1>20 DEF NotForgotten, host, tables, pairing, InTurn, TurnOf
<1>21. CASE UNCHANGED phoneVars
  BY <1>21 DEF phoneVars, host, tables, pairing, core, past, InTurn, TurnOf
<1> QED
  BY <1>1, <1>2, <1>3, <1>4, <1>5, <1>6, <1>7, <1>8, <1>9, <1>10, <1>11, <1>12, <1>13,
     <1>14, <1>15, <1>16, <1>17, <1>18, <1>19, <1>20, <1>21 DEF PhoneNext, Driver

\* A phone that answers has just been asked, over the connection that is still there.
LEMMA AnswerStep ==
    ASSUME PhoneTypeOK, Standing, InTurn, AnswerIsRemembered,
           [PhoneNext]_phoneVars
    PROVE  AnswerIsRemembered'
<1> SUFFICES ASSUME NEW p \in Phones
             PROVE  AnswerOf(p)'
  BY DEF AnswerIsRemembered
<1>1. ASSUME NEW b \in BOOLEAN, NEW i \in BOOLEAN, Construct(b, i)
       PROVE  AnswerOf(p)'
  BY <1>1 DEF Construct, pairing, Standing, InTurn, TurnOf, AnswerOf
<1>2. CASE Restore
  BY <1>2 DEF Restore, pairing, Standing, InTurn, TurnOf, AnswerOf
<1>3. CASE Crash
  BY <1>3 DEF Crash, NoTable, AnswerOf
<1>4. CASE Spoil
  BY <1>4 DEF Spoil, host, pairing, world, AnswerIsRemembered, AnswerOf
<1>5. ASSUME NEW q \in Phones, NEW k \in {"tls", "clear"}, Seen(q, k)
       PROVE  AnswerOf(p)'
  BY <1>5 DEF Seen, host, pairing, AnswerIsRemembered, AnswerOf
<1>6. ASSUME NEW q \in Phones, Aged(q)
       PROVE  AnswerOf(p)'
  BY <1>6 DEF Aged, host, pairing, AnswerIsRemembered, AnswerOf
<1>7. ASSUME NEW q \in Phones, Pair(q)
       PROVE  AnswerOf(p)'
  BY <1>7 DEF Pair, host, world, InTurn, TurnOf, AnswerIsRemembered, AnswerOf
<1>8. ASSUME NEW q \in Phones, CancelPairing(q)
       PROVE  AnswerOf(p)'
  BY <1>8, HungUpEffect DEF CancelPairing, host, world, AnswerIsRemembered, AnswerOf
<1>9. ASSUME NEW q \in Phones, Requested(q)
       PROVE  AnswerOf(p)'
  BY <1>9 DEF Requested, host, world, AnswerIsRemembered, AnswerOf
<1>10. ASSUME NEW q \in Phones, Stored(q)
       PROVE  AnswerOf(p)'
  BY <1>10 DEF Stored, host, world, PhoneTypeOK, AnswerIsRemembered, AnswerOf
<1>11. ASSUME NEW q \in Phones, StoreFails(q)
       PROVE  AnswerOf(p)'
  BY <1>11, HungUpEffect DEF StoreFails, host, world, AnswerIsRemembered, AnswerOf
<1>12. ASSUME NEW q \in Phones, Refused(q)
       PROVE  AnswerOf(p)'
  BY <1>12, HungUpEffect DEF Refused, host, world, AnswerIsRemembered, AnswerOf
<1>13. ASSUME NEW q \in Phones, Saved(q)
       PROVE  AnswerOf(p)'
  BY <1>13, HungUpEffect DEF Saved, host, world, AnswerIsRemembered, AnswerOf
<1>14. ASSUME NEW q \in Phones, NotSaved(q)
       PROVE  AnswerOf(p)'
  BY <1>14, HungUpEffect DEF NotSaved, host, world, AnswerIsRemembered, AnswerOf
<1>15. ASSUME NEW q \in Phones, Accepts(q)
       PROVE  AnswerOf(p)'
  BY <1>15 DEF Accepts, host, PhoneTypeOK, AnswerIsRemembered, AnswerOf
<1>16. ASSUME NEW q \in Phones, NEW r \in Phones \cup {NoDevice}, q # r, AnswersAs(q, r)
       PROVE  AnswerOf(p)'
  BY <1>16 DEF AnswersAs, host, AnswerIsRemembered, AnswerOf
<1>17. ASSUME NEW q \in Phones, Unpair(q)
       PROVE  AnswerOf(p)'
  BY <1>17 DEF Unpair, host, pairing, world, AnswerIsRemembered, AnswerOf
<1>18. ASSUME NEW q \in Phones, Forget(q)
       PROVE  AnswerOf(p)'
  BY <1>18 DEF Forget, host, pairing, world, AnswerIsRemembered, AnswerOf
<1>19. ASSUME NEW q \in Phones, Forgotten(q)
       PROVE  AnswerOf(p)'
  BY <1>19 DEF Forgotten, host, pairing, world, AnswerIsRemembered, AnswerOf
<1>20. ASSUME NEW q \in Phones, NotForgotten(q)
       PROVE  AnswerOf(p)'
  BY <1>20 DEF NotForgotten, host, pairing, world, AnswerIsRemembered, AnswerOf
<1>21. CASE UNCHANGED phoneVars
  BY <1>21 DEF phoneVars, host, pairing, world, AnswerIsRemembered, AnswerOf
<1> QED
  BY <1>1, <1>2, <1>3, <1>4, <1>5, <1>6, <1>7, <1>8, <1>9, <1>10, <1>11, <1>12, <1>13,
     <1>14, <1>15, <1>16, <1>17, <1>18, <1>19, <1>20, <1>21 DEF PhoneNext, Driver

\* The table: a pairing enters it with what the phone remembers, and leaves it with
\* the daemon's record or before it.
LEMMA TableStep ==
    ASSUME PhoneTypeOK, Standing, InTurn, AnswerIsRemembered, TableHolds, FileHolds,
           [PhoneNext]_phoneVars
    PROVE  TableHolds'
<1> SUFFICES ASSUME NEW p \in Phones
             PROVE  TableOf(p)'
  BY DEF TableHolds
<1>1. ASSUME NEW b \in BOOLEAN, NEW i \in BOOLEAN, Construct(b, i)
       PROVE  TableOf(p)'
  BY <1>1, ConstructWrites DEF Construct, pairing, core, world, PhoneTypeOK, Standing,
     TableOf, FileHolds, FileOf, Recognises, AtPort
<1>2. CASE Restore
  BY <1>2, RestoreWrites DEF Restore, pairing, world, past, Standing, TableHolds,
     TableOf, Recognises, AtPort, Rewritten
<1>3. CASE Crash
  BY <1>3 DEF Crash, NoTable, TableOf
<1>4. CASE Spoil
  BY <1>4 DEF Spoil, EmptyFile, NoTable, host, pairing, core, world, TableHolds,
     TableOf, Recognises, AtPort
<1>5. ASSUME NEW q \in Phones, NEW k \in {"tls", "clear"}, Seen(q, k)
       PROVE  TableOf(p)'
  BY <1>5 DEF Seen, host, tables, pairing, core, past, TableHolds, TableOf, Recognises,
     AtPort
<1>6. ASSUME NEW q \in Phones, Aged(q)
       PROVE  TableOf(p)'
  BY <1>6 DEF Aged, host, tables, pairing, core, past, TableHolds, TableOf, Recognises,
     AtPort
<1>7. ASSUME NEW q \in Phones, Pair(q)
       PROVE  TableOf(p)'
  BY <1>7 DEF Pair, host, tables, core, world, past, TableHolds, TableOf, Recognises,
     AtPort
<1>8. ASSUME NEW q \in Phones, CancelPairing(q)
       PROVE  TableOf(p)'
  BY <1>8 DEF CancelPairing, HungUpOn, host, tables, core, world, past, TableHolds,
     TableOf, Recognises, AtPort
<1>9. ASSUME NEW q \in Phones, Requested(q)
       PROVE  TableOf(p)'
  BY <1>9 DEF Requested, host, tables, core, world, past, TableHolds, TableOf,
     Recognises, AtPort
<1>10. ASSUME NEW q \in Phones, Stored(q)
       PROVE  TableOf(p)'
  <2>1. /\ Rewritten(paired') /\ driver[q] = "confirm" /\ Genuine(q)
        /\ driver' = [driver EXCEPT ![q] = "save"]
        /\ paired' = [paired EXCEPT ![q] = [token |-> answer[q].token, tls |-> over[q]]]
        /\ UNCHANGED <<life, hostId, port, phone, done, saved, torn, unpair, spoilt, unwritten>>
    BY <1>10, StoredWrites DEF Stored, host, core, world
  <2>2. CASE p = q
    <3>1. /\ paired'[p] = [token |-> answer[p].token, tls |-> over[p]] /\ driver'[p] = "save"
          /\ p \notin done /\ paired'[p] # NoDevice
      BY <1>10, <2>1, <2>2, StoredWrites DEF PhoneTypeOK, InTurn, TurnOf
    <3>2. Recognises(p, paired'[p]) /\ AtPort(p, hostId, port)
      BY <2>1, <2>2, <3>1, GenuineIsRemembered DEF InTurn, AnswerIsRemembered
    <3> QED
      BY <2>1, <3>1, <3>2 DEF TableOf, Recognises, AtPort
  <2>3. CASE p # q
    <3>1. paired'[p] = paired[p] /\ driver'[p] = driver[p]
      BY <2>1, <2>3
    <3>2. paired[p] = NoDevice /\ file.devices[p] = NoDevice => file'.devices[p] = NoDevice
      BY <2>1, <3>1 DEF Rewritten
    <3> QED
      BY <2>1, <3>1, <3>2 DEF TableHolds, TableOf, Recognises, AtPort
  <2> QED
    BY <2>2, <2>3
<1>11. ASSUME NEW q \in Phones, StoreFails(q)
       PROVE  TableOf(p)'
  <2>1. /\ driver[q] = "confirm" /\ HungUpOn(q) /\ paired' = [paired EXCEPT ![q] = NoDevice]
        /\ Rewritten([paired EXCEPT ![q] = [token |-> answer[q].token, tls |-> over[q]]])
        /\ UNCHANGED <<life, hostId, port, phone, done, saved, unpair, spoilt, unwritten>>
        /\ torn' = torn \cup {q}
    BY <1>11, StoreFailsWrites DEF StoreFails, host, core, world
  <2>2. CASE p = q
    BY <2>1, <2>2, HungUpEffect DEF TableOf
  <2>3. CASE p # q
    <3>1. paired'[p] = paired[p] /\ driver'[p] = driver[p]
      BY <2>1, <2>3, HungUpEffect
    <3>2. paired[p] = NoDevice /\ file.devices[p] = NoDevice => file'.devices[p] = NoDevice
      BY <2>1, <2>3 DEF Rewritten
    <3> QED
      BY <2>1, <3>1, <3>2 DEF TableHolds, TableOf, Recognises, AtPort
  <2> QED
    BY <2>2, <2>3
<1>12. ASSUME NEW q \in Phones, Refused(q)
       PROVE  TableOf(p)'
  BY <1>12 DEF Refused, HungUpOn, host, tables, core, world, past, TableHolds, TableOf,
     Recognises, AtPort
<1>13. ASSUME NEW q \in Phones, Saved(q)
       PROVE  TableOf(p)'
  BY <1>13 DEF Saved, HungUpOn, host, tables, world, TableHolds, TableOf, Recognises,
     AtPort
<1>14. ASSUME NEW q \in Phones, NotSaved(q)
       PROVE  TableOf(p)'
  BY <1>14 DEF NotSaved, HungUpOn, host, tables, world, TableHolds, TableOf, Recognises,
     AtPort
<1>15. ASSUME NEW q \in Phones, Accepts(q)
       PROVE  TableOf(p)'
  BY <1>15 DEF Accepts, host, tables, core, past, Standing, InTurn, TurnOf, TableHolds,
     TableOf, Recognises, AtPort
<1>16. ASSUME NEW q \in Phones, NEW r \in Phones \cup {NoDevice}, q # r, AnswersAs(q, r)
       PROVE  TableOf(p)'
  BY <1>16 DEF AnswersAs, host, tables, core, past, TableHolds, TableOf, Recognises,
     AtPort
<1>17. ASSUME NEW q \in Phones, Unpair(q)
       PROVE  TableOf(p)'
  BY <1>17 DEF Unpair, host, tables, pairing, world, past, TableHolds, TableOf,
     Recognises, AtPort
<1>18. ASSUME NEW q \in Phones, Forget(q)
       PROVE  TableOf(p)'
  <2>1. /\ Rewritten(paired') /\ paired' = [paired EXCEPT ![q] = NoDevice]
        /\ unpair[q] = "forget" /\ unpair' = [unpair EXCEPT ![q] = "store"] /\ q \in done
        /\ UNCHANGED <<life, hostId, port, phone, driver, done, saved, torn, spoilt, unwritten>>
    BY <1>18, ForgetWrites DEF Forget, host, pairing, world, past, InTurn, TurnOf
  <2>2. CASE p = q
    <3>1. paired'[p] = NoDevice /\ unpair'[p] = "store" /\ driver[p] # "save"
      BY <2>1, <2>2 DEF PhoneTypeOK, InTurn, TurnOf
    <3> QED
      BY <2>1, <2>2, <3>1 DEF TableHolds, TableOf, AtPort
  <2>3. CASE p # q
    <3>1. paired'[p] = paired[p] /\ unpair'[p] = unpair[p]
      BY <2>1, <2>3
    <3>2. paired[p] = NoDevice /\ file.devices[p] = NoDevice => file'.devices[p] = NoDevice
      BY <2>1 DEF Rewritten
    <3> QED
      BY <2>1, <3>1, <3>2 DEF TableHolds, TableOf, Recognises, AtPort
  <2> QED
    BY <2>2, <2>3
<1>19. ASSUME NEW q \in Phones, Forgotten(q)
       PROVE  TableOf(p)'
  BY <1>19 DEF Forgotten, host, tables, pairing, world, TableHolds, TableOf, Recognises,
     AtPort
<1>20. ASSUME NEW q \in Phones, NotForgotten(q)
       PROVE  TableOf(p)'
  BY <1>20 DEF NotForgotten, host, tables, pairing, world, TableHolds, TableOf,
     Recognises, AtPort
<1>21. CASE UNCHANGED phoneVars
  BY <1>21 DEF phoneVars, host, tables, pairing, core, world, past, TableHolds, TableOf,
     Recognises, AtPort
<1> QED
  BY <1>1, <1>2, <1>3, <1>4, <1>5, <1>6, <1>7, <1>8, <1>9, <1>10, <1>11, <1>12, <1>13,
     <1>14, <1>15, <1>16, <1>17, <1>18, <1>19, <1>20, <1>21 DEF PhoneNext, Driver

\* The file: a write replaces what it holds by what the table holds, or keeps it.
LEMMA FileStep ==
    ASSUME PhoneTypeOK, Standing, InTurn, AnswerIsRemembered, TableHolds, FileHolds,
           [PhoneNext]_phoneVars
    PROVE  FileHolds'
<1> SUFFICES ASSUME NEW p \in Phones
             PROVE  FileOf(p)'
  BY DEF FileHolds
<1>1. ASSUME NEW b \in BOOLEAN, NEW i \in BOOLEAN, Construct(b, i)
       PROVE  FileOf(p)'
  BY <1>1, ConstructWrites DEF Construct, pairing, core, world, PhoneTypeOK, FileHolds,
     FileOf, Recognises, AtPort
<1>2. CASE Restore
  BY <1>2, RestoreWrites DEF Restore, pairing, world, past, Standing, TableHolds,
     TableOf, FileHolds, FileOf, Recognises, AtPort, Rewritten
<1>3. CASE Crash
  BY <1>3 DEF Crash, FileHolds, FileOf, Recognises, AtPort
<1>4. CASE Spoil
  BY <1>4 DEF Spoil, EmptyFile, NoTable, FileOf
<1>5. ASSUME NEW q \in Phones, NEW k \in {"tls", "clear"}, Seen(q, k)
       PROVE  FileOf(p)'
  BY <1>5 DEF Seen, tables, pairing, core, past, FileHolds, FileOf, Recognises, AtPort
<1>6. ASSUME NEW q \in Phones, Aged(q)
       PROVE  FileOf(p)'
  BY <1>6 DEF Aged, tables, pairing, core, past, FileHolds, FileOf, Recognises, AtPort
<1>7. ASSUME NEW q \in Phones, Pair(q)
       PROVE  FileOf(p)'
  BY <1>7 DEF Pair, tables, core, world, past, FileHolds, FileOf, Recognises, AtPort
<1>8. ASSUME NEW q \in Phones, CancelPairing(q)
       PROVE  FileOf(p)'
  BY <1>8 DEF CancelPairing, HungUpOn, tables, core, world, past, FileHolds, FileOf,
     Recognises, AtPort
<1>9. ASSUME NEW q \in Phones, Requested(q)
       PROVE  FileOf(p)'
  BY <1>9 DEF Requested, tables, core, world, past, FileHolds, FileOf, Recognises,
     AtPort
<1>10. ASSUME NEW q \in Phones, Stored(q)
       PROVE  FileOf(p)'
  <2>1. /\ paired' \in Tables /\ Rewritten(paired') /\ driver[q] = "confirm" /\ Genuine(q)
        /\ driver' = [driver EXCEPT ![q] = "save"] /\ file'.devices = paired' /\ file'.port = port
        /\ paired' = [paired EXCEPT ![q] = [token |-> answer[q].token, tls |-> over[q]]]
        /\ UNCHANGED <<phone, saved, torn, spoilt, unwritten>> /\ life # "down"
    BY <1>10, StoredWrites DEF Stored, core, world, Standing
  <2>2. CASE p = q
    <3>1. file'.devices[p] = [token |-> answer[p].token, tls |-> over[p]]
      BY <2>1, <2>2 DEF PhoneTypeOK
    <3>2. Recognises(p, file'.devices[p]) /\ AtPort(p, hostId, port)
      BY <2>1, <2>2, <3>1, GenuineIsRemembered DEF InTurn, AnswerIsRemembered
    <3> QED
      BY <2>1, <3>2 DEF FileOf, Recognises, AtPort, Rewritten, Standing
  <2>3. CASE p # q
    <3>1. paired'[p] = paired[p] /\ driver'[p] = driver[p]
      BY <2>1, <2>3
    <3> QED
      BY <2>1, <3>1, RewrittenKeeps DEF TableHolds, FileHolds, FileOf
  <2> QED
    BY <2>2, <2>3
<1>11. ASSUME NEW q \in Phones, StoreFails(q)
       PROVE  FileOf(p)'
  <2> DEFINE table == [paired EXCEPT ![q] = [token |-> answer[q].token, tls |-> over[q]]]
  <2>1. /\ driver[q] = "confirm" /\ HungUpOn(q) /\ table \in Tables /\ Rewritten(table)
        /\ UNCHANGED <<phone, saved, spoilt, unwritten>> /\ torn' = torn \cup {q} /\ life # "down"
    BY <1>11, StoreFailsWrites DEF StoreFails, core, world, Standing
  <2>2. CASE p = q
    BY <2>1, <2>2, HungUpEffect DEF FileOf
  <2>3. CASE p # q
    <3>1. table[p] = paired[p] /\ driver'[p] = driver[p]
      BY <2>1, <2>3, HungUpEffect
    <3> HIDE DEF table
    <3> QED
      BY <2>1, <3>1, RewrittenKeeps DEF TableHolds, FileHolds, FileOf
  <2> QED
    BY <2>2, <2>3
<1>12. ASSUME NEW q \in Phones, Refused(q)
       PROVE  FileOf(p)'
  BY <1>12 DEF Refused, HungUpOn, tables, core, world, past, FileHolds, FileOf,
     Recognises, AtPort
<1>13. ASSUME NEW q \in Phones, Saved(q)
       PROVE  FileOf(p)'
  BY <1>13 DEF Saved, HungUpOn, tables, world, FileHolds, FileOf, Recognises, AtPort
<1>14. ASSUME NEW q \in Phones, NotSaved(q)
       PROVE  FileOf(p)'
  BY <1>14 DEF NotSaved, HungUpOn, tables, world, FileHolds, FileOf, Recognises, AtPort
<1>15. ASSUME NEW q \in Phones, Accepts(q)
       PROVE  FileOf(p)'
  BY <1>15 DEF Accepts, tables, core, past, Standing, InTurn, TurnOf, TableHolds,
     TableOf, FileHolds, FileOf, Recognises, AtPort
<1>16. ASSUME NEW q \in Phones, NEW r \in Phones \cup {NoDevice}, q # r, AnswersAs(q, r)
       PROVE  FileOf(p)'
  BY <1>16 DEF AnswersAs, tables, core, past, FileHolds, FileOf, Recognises, AtPort
<1>17. ASSUME NEW q \in Phones, Unpair(q)
       PROVE  FileOf(p)'
  BY <1>17 DEF Unpair, tables, pairing, world, past, FileHolds, FileOf, Recognises,
     AtPort
<1>18. ASSUME NEW q \in Phones, Forget(q)
       PROVE  FileOf(p)'
  <2>1. /\ paired' \in Tables /\ Rewritten(paired') /\ paired' = [paired EXCEPT ![q] = NoDevice]
        /\ UNCHANGED <<phone, driver, saved, torn, spoilt, unwritten>> /\ life # "down"
    BY <1>18, ForgetWrites DEF Forget, pairing, world, past, Standing
  <2>2. paired'[p] \in {paired[p], NoDevice}
    BY <2>1
  <2> QED
    BY <2>1, <2>2, RewrittenKeeps DEF TableHolds, FileHolds, FileOf
<1>19. ASSUME NEW q \in Phones, Forgotten(q)
       PROVE  FileOf(p)'
  BY <1>19 DEF Forgotten, tables, pairing, world, FileHolds, FileOf, Recognises, AtPort
<1>20. ASSUME NEW q \in Phones, NotForgotten(q)
       PROVE  FileOf(p)'
  BY <1>20 DEF NotForgotten, tables, pairing, world, FileHolds, FileOf, Recognises,
     AtPort
<1>21. CASE UNCHANGED phoneVars
  BY <1>21 DEF phoneVars, tables, pairing, core, world, past, FileHolds, FileOf,
     Recognises, AtPort
<1> QED
  BY <1>1, <1>2, <1>3, <1>4, <1>5, <1>6, <1>7, <1>8, <1>9, <1>10, <1>11, <1>12, <1>13,
     <1>14, <1>15, <1>16, <1>17, <1>18, <1>19, <1>20, <1>21 DEF PhoneNext, Driver

\* A token in the table has the daemon's record or a consent behind it.
LEMMA TokensStep ==
    ASSUME PhoneTypeOK, Standing, InTurn, TokensArePruned,
           [PhoneNext]_phoneVars
    PROVE  TokensArePruned'
<1>1. ASSUME NEW b \in BOOLEAN, NEW i \in BOOLEAN, Construct(b, i)
       PROVE  TokensArePruned'
  BY <1>1 DEF Construct, TokensArePruned
<1>2. CASE Restore
  BY <1>2, RestoreWrites DEF Restore, TokensArePruned
<1>3. CASE Crash
  BY <1>3 DEF Crash, TokensArePruned
<1>4. CASE Spoil
  BY <1>4 DEF Spoil, host, core, TokensArePruned
<1>5. ASSUME NEW q \in Phones, NEW k \in {"tls", "clear"}, Seen(q, k)
       PROVE  TokensArePruned'
  BY <1>5 DEF Seen, tables, core, past, TokensArePruned
<1>6. ASSUME NEW q \in Phones, Aged(q)
       PROVE  TokensArePruned'
  BY <1>6 DEF Aged, host, tables, core, past, TokensArePruned
<1>7. ASSUME NEW q \in Phones, Pair(q)
       PROVE  TokensArePruned'
  BY <1>7 DEF Pair, tables, core, past, TokensArePruned
<1>8. ASSUME NEW q \in Phones, CancelPairing(q)
       PROVE  TokensArePruned'
  BY <1>8 DEF CancelPairing, host, tables, core, past, TokensArePruned
<1>9. ASSUME NEW q \in Phones, Requested(q)
       PROVE  TokensArePruned'
  BY <1>9 DEF Requested, host, tables, core, past, TokensArePruned
<1>10. ASSUME NEW q \in Phones, Stored(q)
       PROVE  TokensArePruned'
  BY <1>10 DEF Stored, host, core, TokensArePruned
<1>11. ASSUME NEW q \in Phones, StoreFails(q)
       PROVE  TokensArePruned'
  BY <1>11 DEF StoreFails, host, core, TokensArePruned
<1>12. ASSUME NEW q \in Phones, Refused(q)
       PROVE  TokensArePruned'
  BY <1>12 DEF Refused, host, tables, core, past, TokensArePruned
<1>13. ASSUME NEW q \in Phones, Saved(q)
       PROVE  TokensArePruned'
  BY <1>13 DEF Saved, host, tables, TokensArePruned
<1>14. ASSUME NEW q \in Phones, NotSaved(q)
       PROVE  TokensArePruned'
  BY <1>14 DEF NotSaved, host, tables, TokensArePruned
<1>15. ASSUME NEW q \in Phones, Accepts(q)
       PROVE  TokensArePruned'
  BY <1>15 DEF Accepts, host, tables, core, past, TokensArePruned
<1>16. ASSUME NEW q \in Phones, NEW r \in Phones \cup {NoDevice}, q # r, AnswersAs(q, r)
       PROVE  TokensArePruned'
  BY <1>16 DEF AnswersAs, host, tables, core, past, TokensArePruned
<1>17. ASSUME NEW q \in Phones, Unpair(q)
       PROVE  TokensArePruned'
  BY <1>17 DEF Unpair, tables, past, TokensArePruned
<1>18. ASSUME NEW q \in Phones, Forget(q)
       PROVE  TokensArePruned'
  BY <1>18, ForgetWrites DEF Forget, host, past, PhoneTypeOK, TokensArePruned
<1>19. ASSUME NEW q \in Phones, Forgotten(q)
       PROVE  TokensArePruned'
  BY <1>19 DEF Forgotten, host, tables, InTurn, TurnOf, TokensArePruned
<1>20. ASSUME NEW q \in Phones, NotForgotten(q)
       PROVE  TokensArePruned'
  BY <1>20 DEF NotForgotten, host, tables, InTurn, TurnOf, TokensArePruned
<1>21. CASE UNCHANGED phoneVars
  BY <1>21 DEF phoneVars, host, tables, core, past, TokensArePruned
<1> QED
  BY <1>1, <1>2, <1>3, <1>4, <1>5, <1>6, <1>7, <1>8, <1>9, <1>10, <1>11, <1>12, <1>13,
     <1>14, <1>15, <1>16, <1>17, <1>18, <1>19, <1>20, <1>21 DEF PhoneNext, Driver

-----------------------------------------------------------------------------
(* MobilePairing: the theorems *)

\* The host is as yet unstarted, and no file has a device.
LEMMA PhoneInitInv == PhoneInit => PhoneInv
<1> SUFFICES ASSUME PhoneInit
             PROVE  PhoneInv
  OBVIOUS
<1>1. EmptyFile \in Files /\ EmptyFile.readable /\ EmptyFile.devices = NoTable
  BY MobileAssumption DEF EmptyFile, NoTable, Files
<1>2. PhoneTypeOK
  <2>1. 0 \in 0..MaxStarts /\ 0 \in 0..MaxTokens
    BY MobileAssumption
  <2>2. /\ NoTable \in [Phones -> Devices \cup {NoDevice}]
        /\ NoTable \in [Phones -> Answers \cup {NoDevice}]
    BY DEF NoTable
  <2> QED
    BY <1>1, <2>1, <2>2 DEF PhoneInit, PhoneTypeOK
<1>3. Standing /\ TokensArePruned
  BY <1>1 DEF PhoneInit, Standing, TokensArePruned
<1>4. InTurn /\ AnswerIsRemembered
  BY DEF PhoneInit, InTurn, TurnOf, AnswerIsRemembered, AnswerOf, NoTable
<1>5. TableHolds /\ FileHolds
  BY DEF PhoneInit, TableHolds, TableOf, FileHolds, FileOf
<1> QED
  BY <1>2, <1>3, <1>4, <1>5 DEF PhoneInv

\* Every step preserves the invariant.
LEMMA PhoneStep == PhoneInv /\ [PhoneNext]_phoneVars => PhoneInv'
  BY PhoneTypeStep, StandingStep, TurnStep, AnswerStep, TableStep, FileStep, TokensStep
     DEF PhoneInv

\* The phone, the backend's table and devices.json, and the daemon's record of a
\* pairing agree, for any number of phones, tokens and starts, wherever the daemon
\* died and whichever write failed: PhoneAgrees.
THEOREM PhoneAlwaysAgrees == PhoneSpec => []PhoneAgrees
<1>1. PhoneInv => PairedIsRecognised
  <2> SUFFICES ASSUME PhoneInv, NEW p \in done \ torn, unpair[p] # "store"
               PROVE  /\ paired[p] # NoDevice /\ phone[p] # NoDevice
                      /\ paired[p].token = phone[p].token
                      /\ paired[p].tls = phone[p].tls
    BY DEF PairedIsRecognised
  <2>1. p \in Phones
    BY DEF PhoneInv, PhoneTypeOK
  <2> QED
    BY <2>1 DEF PhoneInv, TableHolds, TableOf, InTurn, TurnOf, Recognises
<1>2. PhoneInv => HostIsRecognised
  <2> SUFFICES ASSUME PhoneInv, NEW p \in done \ torn
               PROVE  spoilt \/ (phone[p].port = port /\ (unwritten \/ phone[p].host = hostId))
    BY DEF HostIsRecognised
  <2>1. p \in Phones
    BY DEF PhoneInv, PhoneTypeOK
  <2> QED
    BY <2>1 DEF PhoneInv, TableHolds, TableOf, AtPort
<1>3. PhoneInv => PhoneAgrees
  BY <1>1, <1>2 DEF PhoneInv, PhoneAgrees
<1> QED
  BY PhoneInitInv, PhoneStep, <1>3, PTL DEF PhoneSpec

=============================================================================
