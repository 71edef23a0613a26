----------------------------- MODULE JobsProofs -----------------------------
(***************************************************************************)
(* Proofs about Jobs: for any number of job tasks, any capacity of the     *)
(* page channel and any length of a scan, scans do not overlap, their      *)
(* objects have a scanner, and a job that turns "done" has lost no page.   *)
(*                                                                         *)
(* Proofs about JobWatch: for any set of job paths and any length of the   *)
(* wire, the views of a job keep the order it went through them on every   *)
(* stage of the way to the screen, so what is printed never goes back, and *)
(* the exit code says what the daemon holds.                               *)
(***************************************************************************)
EXTENDS Jobs, JobWatch, SequenceTheorems, FiniteSetTheorems, WellFoundedInduction, TLAPS

\* A scan whose listener was never aborted is the one the listener awaits, and
\* its scanner is there.
ScansAreAwaited ==
    /\ listener # "off" => scanner
    /\ serving # NoJob => listener = "scanning"
    /\ ~detached => \A j \in Jobs : pc[j] \in Running => serving = j /\ scanner
    /\ ~detached => \A j \in Jobs : object[j] # "none" => scanner

\* The locals of a job that is not running are as a new task finds them, but
\* for a processor it may have left behind, without a page.
AtRest(j) ==
    pc[j] \in {"idle", "retained"} =>
        /\ count[j] = 0 /\ ~profile[j] /\ ~failure[j] /\ ~tx[j] /\ ~iface[j]
        /\ chan[j] = 0
        /\ proc[j] = "running" => eaten[j] = 0

AtFetch(j) ==
    pc[j] = "fetch" =>
        /\ count[j] = 0 /\ ~failure[j] /\ ~tx[j] /\ ~iface[j]
        /\ chan[j] = 0 /\ eaten[j] = 0 /\ proc[j] = "none"

\* While pages come the channel is open and its processor at work, or failed;
\* a raw job has neither.
AtCapture(j) ==
    pc[j] \in {"capture", "deliver"} =>
        /\ iface[j] <=> count[j] > 0
        /\ pc[j] = "deliver" => profile[j] /\ iface[j]
        /\ profile[j] => tx[j] /\ proc[j] \in {"running", "failed"}

AtEnd(j) ==
    /\ pc[j] \in {"join", "announce"} =>
         /\ ~tx[j]
         /\ profile[j] => proc[j] # "none"
    /\ pc[j] = "announce" => proc[j] # "running"

\* Every page counted is processed, in the channel or on its way to it.
PagesAddUp(j) ==
    /\ pc[j] \in Running /\ ~profile[j] => proc[j] = "none" /\ chan[j] = 0
    /\ proc[j] # "running" => chan[j] = 0
    /\ pc[j] \in Running /\ profile[j] /\ proc[j] \in {"running", "ok"} =>
         count[j] = eaten[j] + chan[j] + IF pc[j] = "deliver" THEN 1 ELSE 0

JobInv(j) == AtRest(j) /\ AtFetch(j) /\ AtCapture(j) /\ AtEnd(j) /\ PagesAddUp(j)

JobsInv == TypeOK /\ ScansAreAwaited /\ \A j \in Jobs : JobInv(j)

-----------------------------------------------------------------------------
(* Steps *)

\* A step of one job leaves the others as they were.
LEMMA SameJob ==
    ASSUME JobsInv, NEW j \in Jobs,
           pc'[j] = pc[j], profile'[j] = profile[j], count'[j] = count[j],
           failure'[j] = failure[j], tx'[j] = tx[j], chan'[j] = chan[j],
           proc'[j] = proc[j], eaten'[j] = eaten[j], iface'[j] = iface[j]
    PROVE  JobInv(j)'
BY DEF JobsInv, JobInv, AtRest, AtFetch, AtCapture, AtEnd, PagesAddUp

\* The registry starts with no scanner, no listener and no scan.
LEMMA InitInv ==
    ASSUME Init
    PROVE  JobsInv
<1>1. TypeOK
  <2>1. /\ scanner = FALSE /\ closed = FALSE /\ detached = FALSE /\ listener = "off"
        /\ attempt \in 0..Attempts /\ queue \in 0..StreamBuffer
        /\ serving \in Jobs \cup {NoJob}
    BY BoundsAssumption DEF Init
  <2>2. /\ pc \in [Jobs -> Running \cup {"idle", "retained"}]
        /\ profile \in [Jobs -> BOOLEAN] /\ failure \in [Jobs -> BOOLEAN]
        /\ tx \in [Jobs -> BOOLEAN] /\ iface \in [Jobs -> BOOLEAN]
    BY DEF Init
  <2>3. /\ count \in [Jobs -> 0..MaxPages] /\ eaten \in [Jobs -> 0..MaxPages]
        /\ chan \in [Jobs -> 0..PageBuffer]
    BY BoundsAssumption DEF Init
  <2>4. /\ proc \in [Jobs -> {"none", "running", "ok", "failed"}]
        /\ object \in [Jobs -> Terminal \cup {"none", "receiving", "processing"}]
    BY DEF Init
  <2> QED BY <2>1, <2>2, <2>3, <2>4 DEF TypeOK
<1>2. ScansAreAwaited
  BY DEF Init, ScansAreAwaited, Running
<1>3. \A j \in Jobs : JobInv(j)
  BY DEF Init, JobInv, AtRest, AtFetch, AtCapture, AtEnd, PagesAddUp, Running
<1> QED BY <1>1, <1>2, <1>3 DEF JobsInv

\* A press is taken by a task that is over, processor and all.
LEMMA TakeInv ==
    ASSUME JobsInv, NEW j \in Jobs, NEW stamped \in BOOLEAN, Take(j, stamped)
    PROVE  JobsInv'
<1> USE JobsAssumption, BoundsAssumption DEF Set, Step, Outside, Running
<1>1. TypeOK'
  BY DEF JobsInv, TypeOK, JobInv, AtRest, AtFetch, AtCapture, AtEnd, PagesAddUp,
     Terminal, Take, Free
<1>2. ScansAreAwaited'
  BY DEF JobsInv, TypeOK, ScansAreAwaited, Take, Free
<1>3. JobInv(j)'
  BY DEF JobsInv, TypeOK, JobInv, AtRest, AtFetch, AtCapture, AtEnd, PagesAddUp, Take, Free
<1>4. ASSUME NEW i \in Jobs \ {j}
      PROVE  JobInv(i)'
  BY SameJob DEF JobsInv, TypeOK, Take, Free
<1> QED BY <1>1, <1>2, <1>3, <1>4 DEF JobsInv

\* The channel opens with its processor, or the job ends without an object.
LEMMA FetchInv ==
    ASSUME JobsInv, NEW j \in Jobs, Fetch(j)
    PROVE  JobsInv'
<1> USE JobsAssumption, BoundsAssumption DEF Set, Step, Outside, Running
<1>1. TypeOK'
  <2>1. /\ UNCHANGED <<scanner, closed, detached, listener, attempt, queue>>
        /\ serving' \in Jobs \cup {NoJob}
    BY DEF JobsInv, TypeOK, Fetch, EndUnpublished, Forget
  <2>2. /\ pc' \in [Jobs -> Running \cup {"idle", "retained"}]
        /\ profile' \in [Jobs -> BOOLEAN] /\ failure' \in [Jobs -> BOOLEAN]
        /\ iface' \in [Jobs -> BOOLEAN]
    BY DEF JobsInv, TypeOK, Fetch, EndUnpublished, Forget
  <2>3. tx' \in [Jobs -> BOOLEAN]
    <3>1. profile[j] \in BOOLEAN /\ tx \in [Jobs -> BOOLEAN]
      BY DEF JobsInv, TypeOK
    <3>2. tx' = [tx EXCEPT ![j] = profile[j]] \/ tx' = [tx EXCEPT ![j] = FALSE]
      BY DEF Fetch, EndUnpublished
    <3> QED BY <3>1, <3>2, Zenon
  <2>4. /\ count' \in [Jobs -> 0..MaxPages] /\ eaten' \in [Jobs -> 0..MaxPages]
        /\ chan' \in [Jobs -> 0..PageBuffer]
    BY DEF JobsInv, TypeOK, Fetch, EndUnpublished, Forget
  <2>5. /\ proc' \in [Jobs -> {"none", "running", "ok", "failed"}]
        /\ object' \in [Jobs -> Terminal \cup {"none", "receiving", "processing"}]
    BY DEF JobsInv, TypeOK, Fetch, EndUnpublished, Forget
  <2> QED BY <2>1, <2>2, <2>3, <2>4, <2>5 DEF JobsInv, TypeOK
<1>2. ScansAreAwaited'
  BY DEF JobsInv, TypeOK, ScansAreAwaited, Fetch, EndUnpublished, Forget
<1>3. JobInv(j)'
  BY DEF JobsInv, TypeOK, JobInv, AtRest, AtFetch, AtCapture, AtEnd, PagesAddUp, Fetch,
     EndUnpublished, Forget
<1>4. ASSUME NEW i \in Jobs \ {j}
      PROVE  JobInv(i)'
  BY SameJob DEF JobsInv, TypeOK, Fetch, EndUnpublished, Forget
<1> QED BY <1>1, <1>2, <1>3, <1>4 DEF JobsInv

\* A page is counted before it is handed on; the first one publishes.
LEMMA PageInv ==
    ASSUME JobsInv, NEW j \in Jobs, Page(j)
    PROVE  JobsInv'
<1> USE JobsAssumption, BoundsAssumption DEF Set, Step, Outside, Running
<1>1. TypeOK'
  <2>1. /\ UNCHANGED <<scanner, closed, detached, listener, attempt, queue>>
        /\ serving' \in Jobs \cup {NoJob}
    BY DEF JobsInv, TypeOK, Page, EndUnpublished, Forget
  <2>2. /\ pc' \in [Jobs -> Running \cup {"idle", "retained"}]
        /\ profile' \in [Jobs -> BOOLEAN] /\ failure' \in [Jobs -> BOOLEAN]
        /\ tx' \in [Jobs -> BOOLEAN] /\ iface' \in [Jobs -> BOOLEAN]
    BY DEF JobsInv, TypeOK, Page, EndUnpublished, Forget
  <2>3. /\ count' \in [Jobs -> 0..MaxPages] /\ eaten' \in [Jobs -> 0..MaxPages]
        /\ chan' \in [Jobs -> 0..PageBuffer]
    BY DEF JobsInv, TypeOK, Page, EndUnpublished, Forget
  <2>4. /\ proc' \in [Jobs -> {"none", "running", "ok", "failed"}]
        /\ object' \in [Jobs -> Terminal \cup {"none", "receiving", "processing"}]
    BY DEF JobsInv, TypeOK, Page, EndUnpublished, Forget
  <2> QED BY <2>1, <2>2, <2>3, <2>4 DEF JobsInv, TypeOK
<1>2. ScansAreAwaited'
  BY DEF JobsInv, TypeOK, ScansAreAwaited, Page, EndUnpublished, Forget
<1>3. JobInv(j)'
  BY DEF JobsInv, TypeOK, JobInv, AtRest, AtFetch, AtCapture, AtEnd, PagesAddUp, Page,
     EndUnpublished, Forget
<1>4. ASSUME NEW i \in Jobs \ {j}
      PROVE  JobInv(i)'
  BY SameJob DEF JobsInv, TypeOK, Page, EndUnpublished, Forget
<1> QED BY <1>1, <1>2, <1>3, <1>4 DEF JobsInv

\* A page waits for room, or finds its processor gone.
LEMMA DeliverInv ==
    ASSUME JobsInv, NEW j \in Jobs, Deliver(j)
    PROVE  JobsInv'
<1> USE JobsAssumption, BoundsAssumption DEF Set, Step, Outside, Running
<1>1. TypeOK'
  <2>1. /\ UNCHANGED <<scanner, closed, detached, listener, attempt, queue>>
        /\ serving' \in Jobs \cup {NoJob}
    BY DEF JobsInv, TypeOK, Deliver, EndCapture, EndUnpublished, Forget
  <2>2. /\ pc' \in [Jobs -> Running \cup {"idle", "retained"}]
        /\ profile' \in [Jobs -> BOOLEAN] /\ failure' \in [Jobs -> BOOLEAN]
        /\ tx' \in [Jobs -> BOOLEAN] /\ iface' \in [Jobs -> BOOLEAN]
    BY DEF JobsInv, TypeOK, Deliver, EndCapture, EndUnpublished, Forget
  <2>3. /\ count' \in [Jobs -> 0..MaxPages] /\ eaten' \in [Jobs -> 0..MaxPages]
        /\ chan' \in [Jobs -> 0..PageBuffer]
    BY DEF JobsInv, TypeOK, Deliver, EndCapture, EndUnpublished, Forget
  <2>4. /\ proc' \in [Jobs -> {"none", "running", "ok", "failed"}]
        /\ object' \in [Jobs -> Terminal \cup {"none", "receiving", "processing"}]
    BY DEF JobsInv, TypeOK, Deliver, EndCapture, EndUnpublished, Forget
  <2> QED BY <2>1, <2>2, <2>3, <2>4 DEF JobsInv, TypeOK
<1>2. ScansAreAwaited'
  BY DEF JobsInv, TypeOK, ScansAreAwaited, Deliver, EndCapture, EndUnpublished, Forget
<1>3. JobInv(j)'
  BY DEF JobsInv, TypeOK, JobInv, AtRest, AtFetch, AtCapture, AtEnd, PagesAddUp,
     Deliver, EndCapture, EndUnpublished, Forget
<1>4. ASSUME NEW i \in Jobs \ {j}
      PROVE  JobInv(i)'
  BY SameJob DEF JobsInv, TypeOK, Deliver, EndCapture, EndUnpublished, Forget
<1> QED BY <1>1, <1>2, <1>3, <1>4 DEF JobsInv

\* The channel is closed when the stream ends.
LEMMA EndOfPagesInv ==
    ASSUME JobsInv, NEW j \in Jobs, EndOfPages(j)
    PROVE  JobsInv'
<1> USE JobsAssumption, BoundsAssumption DEF Set, Step, Outside, Running
<1>1. TypeOK'
  <2>1. /\ UNCHANGED <<scanner, closed, detached, listener, attempt, queue>>
        /\ serving' \in Jobs \cup {NoJob}
    BY DEF JobsInv, TypeOK, EndOfPages, EndCapture, EndUnpublished, Forget
  <2>2. /\ pc' \in [Jobs -> Running \cup {"idle", "retained"}]
        /\ profile' \in [Jobs -> BOOLEAN] /\ failure' \in [Jobs -> BOOLEAN]
        /\ tx' \in [Jobs -> BOOLEAN] /\ iface' \in [Jobs -> BOOLEAN]
    BY DEF JobsInv, TypeOK, EndOfPages, EndCapture, EndUnpublished, Forget
  <2>3. /\ count' \in [Jobs -> 0..MaxPages] /\ eaten' \in [Jobs -> 0..MaxPages]
        /\ chan' \in [Jobs -> 0..PageBuffer]
    BY DEF JobsInv, TypeOK, EndOfPages, EndCapture, EndUnpublished, Forget
  <2>4. /\ proc' \in [Jobs -> {"none", "running", "ok", "failed"}]
        /\ object' \in [Jobs -> Terminal \cup {"none", "receiving", "processing"}]
    BY DEF JobsInv, TypeOK, EndOfPages, EndCapture, EndUnpublished, Forget
  <2> QED BY <2>1, <2>2, <2>3, <2>4 DEF JobsInv, TypeOK
<1>2. ScansAreAwaited'
  BY DEF JobsInv, TypeOK, ScansAreAwaited, EndOfPages, EndCapture, EndUnpublished, Forget
<1>3. JobInv(j)'
  BY DEF JobsInv, TypeOK, JobInv, AtRest, AtFetch, AtCapture, AtEnd, PagesAddUp,
     EndOfPages, EndCapture, EndUnpublished, Forget
<1>4. ASSUME NEW i \in Jobs \ {j}
      PROVE  JobInv(i)'
  BY SameJob DEF JobsInv, TypeOK, EndOfPages, EndCapture, EndUnpublished, Forget
<1> QED BY <1>1, <1>2, <1>3, <1>4 DEF JobsInv

\* The job waits for its processor.
LEMMA JoinInv ==
    ASSUME JobsInv, NEW j \in Jobs, Join(j)
    PROVE  JobsInv'
<1> USE JobsAssumption, BoundsAssumption DEF Set, Step, Outside, Running
<1>1. TypeOK'
  BY DEF JobsInv, TypeOK, JobInv, AtRest, AtFetch, AtCapture, AtEnd, PagesAddUp,
     Terminal, Join, Announce, pages
<1>2. ScansAreAwaited'
  BY DEF JobsInv, TypeOK, ScansAreAwaited, Join, Announce, pages
<1>3. JobInv(j)'
  BY DEF JobsInv, TypeOK, JobInv, AtRest, AtFetch, AtCapture, AtEnd, PagesAddUp, Join,
     Announce, pages
<1>4. ASSUME NEW i \in Jobs \ {j}
      PROVE  JobInv(i)'
  BY SameJob DEF JobsInv, TypeOK, Join, Announce, pages
<1> QED BY <1>1, <1>2, <1>3, <1>4 DEF JobsInv

\* The verdict, and the handover to the retention timer.
LEMMA ConcludeInv ==
    ASSUME JobsInv, NEW j \in Jobs, Conclude(j)
    PROVE  JobsInv'
<1> USE JobsAssumption, BoundsAssumption DEF Set, Step, Outside, Running
<1>1. TypeOK'
  BY DEF JobsInv, TypeOK, JobInv, AtRest, AtFetch, AtCapture, AtEnd, PagesAddUp,
     Terminal, Conclude, Announce, Forget
<1>2. ScansAreAwaited'
  BY DEF JobsInv, TypeOK, ScansAreAwaited, Conclude, Announce, Forget
<1>3. JobInv(j)'
  BY DEF JobsInv, TypeOK, JobInv, AtRest, AtFetch, AtCapture, AtEnd, PagesAddUp,
     Conclude, Announce, Forget
<1>4. ASSUME NEW i \in Jobs \ {j}
      PROVE  JobInv(i)'
  BY SameJob DEF JobsInv, TypeOK, Conclude, Announce, Forget
<1> QED BY <1>1, <1>2, <1>3, <1>4 DEF JobsInv

\* The object goes with the retention window.
LEMMA RetireInv ==
    ASSUME JobsInv, NEW j \in Jobs, Retire(j)
    PROVE  JobsInv'
<1> USE JobsAssumption, BoundsAssumption DEF Set, Step, Outside, Running
<1>1. TypeOK'
  BY DEF JobsInv, TypeOK, JobInv, AtRest, AtFetch, AtCapture, AtEnd, PagesAddUp,
     Terminal, Retire, pages
<1>2. ScansAreAwaited'
  BY DEF JobsInv, TypeOK, ScansAreAwaited, Retire, pages
<1>3. JobInv(j)'
  BY DEF JobsInv, TypeOK, JobInv, AtRest, AtFetch, AtCapture, AtEnd, PagesAddUp, Retire,
     pages
<1>4. ASSUME NEW i \in Jobs \ {j}
      PROVE  JobInv(i)'
  BY SameJob DEF JobsInv, TypeOK, Retire, pages
<1> QED BY <1>1, <1>2, <1>3, <1>4 DEF JobsInv

\* The processor takes pages, ends on a closed channel, or fails.
LEMMA ProcessorInv ==
    ASSUME JobsInv, NEW j \in Jobs, Processor(j)
    PROVE  JobsInv'
<1> USE JobsAssumption, BoundsAssumption DEF Set, Step, Outside, Running
<1>1. TypeOK'
  BY DEF JobsInv, TypeOK, JobInv, AtRest, AtFetch, AtCapture, AtEnd, PagesAddUp,
     Terminal, Processor, Process, ProcessorEnds, ProcessorFails, listening, scans
<1>2. ScansAreAwaited'
  BY DEF JobsInv, TypeOK, ScansAreAwaited, Processor, Process, ProcessorEnds,
     ProcessorFails, listening, scans
<1>3. JobInv(j)'
  BY DEF JobsInv, TypeOK, JobInv, AtRest, AtFetch, AtCapture, AtEnd, PagesAddUp,
     Processor, Process, ProcessorEnds, ProcessorFails, listening, scans
<1>4. ASSUME NEW i \in Jobs \ {j}
      PROVE  JobInv(i)'
  BY SameJob DEF JobsInv, TypeOK, Processor, Process, ProcessorEnds, ProcessorFails,
     listening, scans
<1> QED BY <1>1, <1>2, <1>3, <1>4 DEF JobsInv

\* The listener between its scans, and what the registry does to it.
LEMMA ListenerInv ==
    ASSUME JobsInv,
           \/ Press \/ StreamEnds \/ Return \/ Lost \/ Retry \/ GiveUp
           \/ EnsureListening \/ StopListening \/ PublishScanner
    PROVE  JobsInv'
<1> USE JobsAssumption, BoundsAssumption DEF listening, scans, pages, AbortListener
<1>1. UNCHANGED <<scans, pages>>
  BY DEF Press, StreamEnds, Return, Lost, Retry, GiveUp, EnsureListening, StopListening,
         PublishScanner
<1>2. TypeOK'
  <2>1. /\ scanner' \in BOOLEAN /\ closed' \in BOOLEAN /\ detached' \in BOOLEAN
        /\ listener' \in {"off", "waiting", "scanning", "retrying"}
    BY DEF JobsInv, TypeOK, Press, StreamEnds, Return, Lost, Retry, GiveUp,
           EnsureListening, StopListening, PublishScanner
  <2>2. attempt' \in 0..Attempts
    BY DEF JobsInv, TypeOK, Press, StreamEnds, Return, Lost, Retry, GiveUp,
           EnsureListening, StopListening, PublishScanner
  <2>3. queue' \in 0..StreamBuffer /\ serving' \in Jobs \cup {NoJob}
    BY DEF JobsInv, TypeOK, Press, StreamEnds, Return, Lost, Retry, GiveUp,
           EnsureListening, StopListening, PublishScanner
  <2> QED BY <1>1, <2>1, <2>2, <2>3 DEF JobsInv, TypeOK
<1>3. ScansAreAwaited'
  BY <1>1 DEF JobsInv, TypeOK, ScansAreAwaited, Press, StreamEnds, Return, Lost, Retry,
              GiveUp, EnsureListening, StopListening, PublishScanner
<1>4. \A j \in Jobs : JobInv(j)'
  BY <1>1, SameJob
<1> QED BY <1>2, <1>3, <1>4 DEF JobsInv

\* The scanner's object goes, and those of its jobs with it.
LEMMA RemovedInv ==
    ASSUME JobsInv, RemoveSubtree
    PROVE  JobsInv'
<1> USE JobsAssumption, BoundsAssumption DEF pages, AbortListener
<1>1. TypeOK'
  <2>1. /\ listener' = "off" /\ serving' = NoJob
        /\ attempt' \in 0..Attempts /\ queue' \in 0..StreamBuffer
    BY DEF RemoveSubtree
  <2>2. object' \in [Jobs -> Terminal \cup {"none", "receiving", "processing"}]
    BY DEF RemoveSubtree
  <2>3. UNCHANGED <<pc, profile, failure, tx, iface, count, eaten, chan, proc>>
    BY DEF RemoveSubtree
  <2>4. scanner' \in BOOLEAN /\ closed' \in BOOLEAN /\ detached' \in BOOLEAN
    BY DEF RemoveSubtree
  <2> QED BY <2>1, <2>2, <2>3, <2>4 DEF JobsInv, TypeOK
<1>2. ScansAreAwaited'
  BY DEF JobsInv, TypeOK, ScansAreAwaited, RemoveSubtree
<1>3. \A j \in Jobs : JobInv(j)'
  BY SameJob DEF RemoveSubtree
<1> QED BY <1>1, <1>2, <1>3 DEF JobsInv

\* Every step keeps the invariant.
LEMMA StepInv ==
    ASSUME JobsInv, [Next]_vars
    PROVE  JobsInv'
<1>1. CASE UNCHANGED vars
  <2>1. TypeOK' /\ ScansAreAwaited'
    BY <1>1 DEF JobsInv, TypeOK, ScansAreAwaited, vars, listening, scans, pages
  <2>2. \A j \in Jobs : JobInv(j)'
    BY <1>1, SameJob DEF vars, scans, pages
  <2> QED BY <2>1, <2>2 DEF JobsInv
<1>2. CASE Listener
  BY <1>2, TakeInv, ListenerInv DEF Listener, Takes
<1>3. ASSUME NEW j \in Jobs, Job(j)
      PROVE  JobsInv'
  BY <1>3, FetchInv, PageInv, DeliverInv, EndOfPagesInv, JoinInv, ConcludeInv DEF Job
<1>4. CASE \E j \in Jobs : Job(j) \/ Retire(j) \/ Processor(j)
  BY <1>3, <1>4, RetireInv, ProcessorInv
<1>5. CASE \/ Press \/ StreamEnds
           \/ EnsureListening \/ StopListening \/ RemoveSubtree \/ PublishScanner
  BY <1>5, ListenerInv, RemovedInv
<1> QED BY <1>1, <1>2, <1>4, <1>5 DEF Next

-----------------------------------------------------------------------------
(* The theorems *)

\* Whatever the listener, the registry and the backend do, scans do not overlap
\* and their objects have a scanner, unless a listener was aborted under one.
THEOREM JobsAlwaysAgree == Spec => []JobsAgree
<1>1. Init => JobsInv
  BY InitInv
<1>2. JobsInv /\ [Next]_vars => JobsInv'
  BY StepInv
<1>3. JobsInv => JobsAgree
  <2>1. SUFFICES ASSUME JobsInv
                 PROVE  OneScanAtATime /\ JobsHaveScanner
    BY <2>1 DEF JobsInv, JobsAgree
  <2> QED BY <2>1 DEF JobsInv, ScansAreAwaited, OneScanAtATime, JobsHaveScanner
<1> QED BY <1>1, <1>2, <1>3, PTL DEF Spec

\* Only the end of the join says "done", and by then every page is processed.
LEMMA DoneIsComplete ==
    ASSUME JobsInv, [Next]_vars, NEW j \in Jobs,
           object[j] # "done", object'[j] = "done", profile[j]
    PROVE  eaten[j] = count[j]
<1> USE DEF Set, Step, Outside, listening, scans, pages
<1>1. \E i \in Jobs : Page(i) \/ Join(i) \/ Conclude(i) \/ Retire(i)
  BY DEF Next, vars, Press, StreamEnds, Listener, Takes, Take, Return, Lost, Retry, GiveUp,
         EnsureListening, StopListening, RemoveSubtree, PublishScanner, Job, Fetch, Deliver,
         EndOfPages, EndCapture, EndUnpublished, Processor, Process, ProcessorEnds,
         ProcessorFails
<1>2. Conclude(j)
  BY <1>1 DEF Page, Join, Conclude, Retire, Announce, EndUnpublished, JobsInv, TypeOK
<1>3. proc[j] = "ok" /\ pc[j] = "announce"
  BY <1>2 DEF Conclude, Announce, JobsInv, JobInv, AtEnd, TypeOK
<1> QED BY <1>3 DEF JobsInv, JobInv, AtEnd, PagesAddUp, Running, TypeOK

\* A page the backend delivered is in the document of every job that reads
\* "done", for any capacity of the channel and any length of the scan.
THEOREM PagesAreNeverLost == Spec => NoPageIsLost
<1>1. Init => JobsInv
  BY InitInv
<1>2. JobsInv /\ [Next]_vars => JobsInv'
  BY StepInv
<1>3. JobsInv /\ [Next]_vars
      => [\A j \in Jobs : object[j] # "done" /\ object'[j] = "done" /\ profile[j]
                              => eaten[j] = count[j]]_vars
  BY DoneIsComplete
<1> QED BY <1>1, <1>2, <1>3, PTL DEF Spec, NoPageIsLost

-----------------------------------------------------------------------------
(* The client that watches them *)

\* What the wire carries.
Messages ==
    [kind : {"added", "refused"}, job : Paths]
        \cup [kind : {"changed", "properties"}, job : Paths, view : Views]

IsReply(m) == m.kind \in {"properties", "refused"}
Carries(m, j) == m.kind \in {"changed", "properties"} /\ m.job = j

\* The order in which a job goes through its views: ranks do not fall, an error
\* stays an error and a Result stays.
Before(v, w) ==
    /\ Rank(v) <= Rank(w)
    /\ v.state = "error" => w.state = "error"
    /\ v.result => w.result

\* What the channel carries.
Items == [job : Paths, view : Views]

Typed == WatchTypeOK /\ wire \in Seq(Messages) /\ rx \in Seq(Items)

\* The daemon: a Result comes with `done`, once its signal is out, and an object
\* has a state.
JobsInOrder ==
    \A j \in Paths :
        /\ result[j] => state[j] = "done" /\ ~silent[j]
        /\ j \in exported => state[j] # "none"

\* A task asks once, and has its reply on the wire once.
AskedOnce ==
    /\ \A j \in asked : watcher[j] = "asking"
    /\ \A i \in 1..Len(wire) : IsReply(wire[i]) =>
         /\ watcher[wire[i].job] = "asking" /\ wire[i].job \notin asked
         /\ \A k \in 1..Len(wire) :
              k # i /\ wire[k].job = wire[i].job => ~IsReply(wire[k])

\* The views on the wire are in the order the job went through them.
WireInOrder ==
    \A j \in Paths : \A i \in 1..Len(wire) : Carries(wire[i], j) =>
        /\ Before(wire[i].view, Now(j))
        /\ \A k \in 1..Len(wire) :
             i < k /\ Carries(wire[k], j) => Before(wire[i].view, wire[k].view)

\* Those in the stream of a task come before them ...
StreamInOrder ==
    \A j \in Paths : \A n \in 1..Len(stream[j]) :
        /\ Before(stream[j][n], Now(j))
        /\ \A m \in 1..Len(stream[j]) : n < m => Before(stream[j][n], stream[j][m])
        /\ \A i \in 1..Len(wire) :
             Carries(wire[i], j) => Before(stream[j][n], wire[i].view)

\* ... the one it holds comes before those, once it has one ...
ViewInOrder ==
    \A j \in Paths :
        /\ Before(view[j], Now(j))
        /\ watcher[j] = "following" =>
             \A n \in 1..Len(stream[j]) : Before(view[j], stream[j][n])
        /\ watcher[j] \in {"answered", "following"} =>
             \A i \in 1..Len(wire) : Carries(wire[i], j) => Before(view[j], wire[i].view)

\* ... those in the channel before that one ...
QueueInOrder ==
    \A n \in 1..Len(rx) :
        /\ watcher[rx[n].job] = "following"
        /\ Before(rx[n].view, view[rx[n].job])
        /\ \A m \in 1..Len(rx) :
             n < m /\ rx[m].job = rx[n].job => Before(rx[n].view, rx[m].view)

\* ... and the one that was printed before those.
PrintedInOrder ==
    \A j \in Paths :
        /\ previous[j] = Nothing
             \/ (watcher[j] = "following" /\ Before(previous[j], view[j]))
        /\ \A n \in 1..Len(rx) : rx[n].job = j => Before(previous[j], rx[n].view)

WatchInv ==
    /\ Typed /\ JobsInOrder /\ AskedOnce /\ WireInOrder /\ StreamInOrder /\ ViewInOrder
    /\ QueueInOrder /\ PrintedInOrder /\ ExitIsEarned

-----------------------------------------------------------------------------
(* The order *)

\* Ranks are the five positions a job can stand at.
LEMMA RankType == \A v \in Views : Rank(v) \in 0..4
  BY DEF Rank, Views, States

\* The order is reflexive and transitive, and nothing comes first.
LEMMA BeforeIsAnOrder ==
    /\ \A v \in Views : Before(v, v) /\ Before(Nothing, v)
    /\ \A u, v, w \in Views : Before(u, v) /\ Before(v, w) => Before(u, w)
<1>1. Nothing \in Views /\ Rank(Nothing) = 0
  BY DEF Nothing, Views, States, Rank
<1> QED
  BY <1>1, RankType DEF Before, Nothing

\* What the daemon holds of a job is a view.
LEMMA NowType == ASSUME WatchTypeOK PROVE \A j \in Paths : Now(j) \in Views
  BY DEF WatchTypeOK, Now, Views

\* A step that leaves the daemon alone leaves what it holds of each job.
LEMMA DaemonStays == ASSUME UNCHANGED daemon PROVE \A j \in Paths : Now(j)' = Now(j)
  BY DEF daemon, Now

\* What taking the head of a sequence leaves.
LEMMA Taken ==
    ASSUME NEW S, NEW s \in Seq(S), s # <<>>
    PROVE  /\ Head(s) = s[1] /\ 1 \in 1..Len(s) /\ s[1] \in S
           /\ Tail(s) \in Seq(S) /\ Len(Tail(s)) = Len(s) - 1
           /\ \A i \in 1..Len(Tail(s)) : i + 1 \in 1..Len(s) /\ Tail(s)[i] = s[i + 1]
  OBVIOUS

\* What appending to a sequence leaves.
LEMMA Added ==
    ASSUME NEW S, NEW s \in Seq(S), NEW e \in S
    PROVE  /\ Append(s, e) \in Seq(S) /\ Len(Append(s, e)) = Len(s) + 1
           /\ \A i \in 1..Len(s) : Append(s, e)[i] = s[i]
           /\ Append(s, e)[Len(s) + 1] = e
  OBVIOUS

\* A reading of exported, in some order.
LEMMA Reading ==
    ASSUME NEW S \in SUBSET Paths
    PROVE  SetToSeq(S) \in Seq(Paths)
<1>1. IsFiniteSet(S)
  BY PathsAssumption, FS_Subset
<1>2. Cardinality(S) \in Nat /\ \E f \in Bijection(1..Cardinality(S), S) : TRUE
  BY <1>1, FS_Bijection, FS_CardinalityType DEF ExistsBijection
<1>3. \E f \in [1..Cardinality(S) -> S] : IsInjective(f)
  BY <1>2 DEF Bijection, Injection, IsInjective
<1>4. SetToSeq(S) \in [1..Cardinality(S) -> S]
  BY <1>3 DEF SetToSeq
<1> QED
  BY <1>2, <1>4

\* A receipt takes the head of the wire, and gives it to one of four places.
LEMMA ReceiveEffect ==
    ASSUME Typed, Receive
    PROVE  /\ wire[1] \in Messages /\ 1 \in 1..Len(wire)
           /\ wire' \in Seq(Messages) /\ Len(wire') = Len(wire) - 1
           /\ \A i \in 1..Len(wire') : i + 1 \in 1..Len(wire) /\ wire'[i] = wire[i + 1]
           /\ \/ /\ wire[1].kind = "added" /\ UNCHANGED <<watcher, stream, view>>
                 /\ additions' = Append(additions, wire[1].job)
              \/ /\ wire[1].kind = "changed" /\ UNCHANGED <<watcher, view, additions>>
                 /\ stream' = [stream EXCEPT ![wire[1].job] = Append(@, wire[1].view)]
              \/ /\ wire[1].kind = "properties" /\ UNCHANGED <<stream, additions>>
                 /\ watcher' = [watcher EXCEPT ![wire[1].job] = "answered"]
                 /\ view' = [view EXCEPT ![wire[1].job] = wire[1].view]
              \/ /\ wire[1].kind = "refused" /\ UNCHANGED <<stream, view, additions>>
                 /\ watcher' = [watcher EXCEPT ![wire[1].job] = "ended"]
           /\ UNCHANGED <<phase, asked, rx, previous>> /\ UNCHANGED daemon
<1>1. wire # <<>> /\ wire' = Tail(wire) /\ wire \in Seq(Messages)
  BY DEF Typed, Receive
<1>2. Head(wire) = wire[1] /\ wire[1] \in Messages /\ 1 \in 1..Len(wire)
  BY <1>1, Taken
<1>3. wire[1].kind \in {"added", "changed", "properties", "refused"}
  BY <1>2 DEF Messages
<1>4. /\ wire' \in Seq(Messages) /\ Len(wire') = Len(wire) - 1
      /\ \A i \in 1..Len(wire') : i + 1 \in 1..Len(wire) /\ wire'[i] = wire[i + 1]
  BY <1>1, Taken
<1> QED
  BY <1>2, <1>3, <1>4 DEF Receive

\* A task that reads its stream holds the view it last took, sends it, and keeps the
\* rest of the stream.
LEMMA FollowEffect ==
    ASSUME Typed, NEW j \in Paths, Follow(j)
    PROVE  /\ watcher[j] = "following" /\ UNCHANGED watcher
           /\ \E t \in 1..Len(stream[j]) :
                /\ view' = [view EXCEPT ![j] = stream[j][t]]
                /\ stream[j][t] \in Views
                /\ rx' = Append(rx, [job |-> j, view |-> stream[j][t]])
                /\ stream' \in [Paths -> Seq(Views)]
                /\ Len(stream'[j]) = Len(stream[j]) - t
                /\ \A n \in 1..Len(stream'[j]) :
                     n + t \in 1..Len(stream[j]) /\ stream'[j][n] = stream[j][n + t]
           /\ \A i \in Paths \ {j} : stream'[i] = stream[i]
           /\ UNCHANGED <<wire, phase, asked, additions, previous>> /\ UNCHANGED daemon
<1> DEFINE taken == IF Ended(Head(stream[j])) THEN stream[j] ELSE <<Head(stream[j])>>
           rest == SubSeq(stream[j], Len(taken) + 1, Len(stream[j]))
<1>1. stream \in [Paths -> Seq(Views)] /\ stream[j] \in Seq(Views) /\ stream[j] # <<>>
  BY DEF Typed, WatchTypeOK, Follow
<1>2. /\ 1 \in 1..Len(stream[j]) /\ Head(stream[j]) = stream[j][1]
  BY <1>1, Taken
<1>3. /\ Len(taken) \in 1..Len(stream[j]) /\ taken # <<>> /\ Last(taken) = stream[j][Len(taken)]
  BY <1>1, <1>2 DEF Last
<1>4. /\ stream' = [stream EXCEPT ![j] = rest]
      /\ view' = [view EXCEPT ![j] = stream[j][Len(taken)]]
      /\ rx' = Append(rx, [job |-> j, view |-> stream[j][Len(taken)]])
  BY <1>3 DEF Follow, Applied
<1>5. watcher[j] = "following" /\ watcher' = watcher
  BY DEF Follow, ReadsOn, Typed, WatchTypeOK
<1>6. /\ rest \in Seq(Views) /\ Len(rest) = Len(stream[j]) - Len(taken)
      /\ \A n \in 1..Len(rest) : /\ n + Len(taken) \in 1..Len(stream[j])
                                 /\ rest[n] = stream[j][n + Len(taken)]
  <2> HIDE DEF taken
  <2> QED BY <1>1, <1>3
<1>7. stream'[j] = rest /\ \A i \in Paths \ {j} : stream'[i] = stream[i]
  BY <1>1, <1>4
<1>8. stream' \in [Paths -> Seq(Views)]
  BY <1>1, <1>4, <1>6
<1>9. stream[j][Len(taken)] \in Views
  BY <1>1, <1>3
<1>10. UNCHANGED <<wire, phase, asked, additions, previous>> /\ UNCHANGED daemon
  BY DEF Follow
<1> HIDE DEF rest, taken
<1> QED
  BY <1>3, <1>4, <1>5, <1>6, <1>7, <1>8, <1>9, <1>10

\* The loop takes the head of the channel, and prints it.
LEMMA TakeEffect ==
    ASSUME Typed, TakeItem
    PROVE  /\ 1 \in 1..Len(rx) /\ rx[1].job \in Paths /\ rx[1].view \in Views
           /\ rx' \in Seq(Items) /\ Len(rx') = Len(rx) - 1
           /\ \A i \in 1..Len(rx') : i + 1 \in 1..Len(rx) /\ rx'[i] = rx[i + 1]
           /\ previous' = [previous EXCEPT ![rx[1].job] = rx[1].view]
           /\ phase' = Verdict(rx[1], previous')
           /\ UNCHANGED <<wire, asked, additions, watcher, stream, view>> /\ UNCHANGED daemon
<1>1. rx # <<>> /\ rx' = Tail(rx) /\ rx \in Seq(Items)
  BY DEF Typed, TakeItem
<1>2. Head(rx) = rx[1] /\ rx[1] \in Items /\ 1 \in 1..Len(rx)
  BY <1>1, Taken
<1>3. /\ rx' \in Seq(Items) /\ Len(rx') = Len(rx) - 1
      /\ \A i \in 1..Len(rx') : i + 1 \in 1..Len(rx) /\ rx'[i] = rx[i + 1]
  BY <1>1, Taken
<1>4. rx[1].job \in Paths /\ rx[1].view \in Views
  BY <1>2 DEF Items
<1> QED
  BY <1>2, <1>3, <1>4 DEF TakeItem

\* Every step keeps the types, those of the wire and of the channel with them.
LEMMA TypedStep ==
    ASSUME Typed, [WatchNext]_watchVars
    PROVE  Typed'
<1>1. ASSUME NEW j \in Paths, Publish(j)
      PROVE  Typed'
  <2>1. [kind |-> "added", job |-> j] \in Messages
    BY DEF Messages
  <2>2. wire' \in Seq(Messages)
    BY <1>1, <2>1, Added DEF Publish, Typed
  <2> QED
    BY <1>1, <2>2 DEF Publish, Typed, WatchTypeOK, tasks, States
<1>2. ASSUME NEW j \in Paths, NEW s \in States, Replace(j, s)
      PROVE  Typed'
  BY <1>2 DEF Replace, daemon, tasks, WatchTypeOK, Typed, Subscribed, States
<1>3. ASSUME NEW j \in Paths, Signal(j)
      PROVE  Typed'
  <2>1. \A r \in BOOLEAN : [kind |-> "changed", job |-> j,
                           view |-> [state |-> state[j], result |-> r]] \in Messages
    BY DEF Messages, Views, Typed, WatchTypeOK
  <2>2. PICK r \in BOOLEAN :
          \/ wire' = wire
          \/ wire' = Append(wire, [kind |-> "changed", job |-> j,
                                   view |-> [state |-> state[j], result |-> r]])
    BY <1>3 DEF Signal
  <2>3. Append(wire, [kind |-> "changed", job |-> j,
                      view |-> [state |-> state[j], result |-> r]]) \in Seq(Messages)
    BY <2>1, Added DEF Typed
  <2>5. wire' \in Seq(Messages)
    BY <2>2, <2>3 DEF Typed
  <2>4. result' \in [Paths -> BOOLEAN]
    BY <1>3 DEF Signal, Typed, WatchTypeOK
  <2> QED
    BY <1>3, <2>4, <2>5 DEF Signal, Typed, WatchTypeOK, tasks
<1>4. ASSUME NEW j \in Paths, Withdraw(j)
      PROVE  Typed'
  BY <1>4 DEF Withdraw, daemon, tasks, WatchTypeOK, Typed, Subscribed, States
<1>5. ASSUME NEW j \in Paths, Answer(j)
      PROVE  Typed'
  <2>1. /\ [kind |-> "properties", job |-> j, view |-> Now(j)] \in Messages
        /\ [kind |-> "refused", job |-> j] \in Messages
    BY NowType DEF Messages, Typed
  <2>2. wire' \in Seq(Messages)
    BY <1>5, <2>1, Added DEF Answer, Typed
  <2> QED
    BY <1>5, <2>2 DEF Answer, Typed, WatchTypeOK, daemon, tasks
<1>6. ASSUME NEW j \in Paths, Subscribe(j)
      PROVE  Typed'
  BY <1>6 DEF Subscribe, daemon, WatchTypeOK, Typed, tasks, Subscribed, States
<1>7. ASSUME NEW j \in Paths, Snapshot(j)
      PROVE  Typed'
  <2>1. [job |-> j, view |-> view[j]] \in Items
    BY DEF Typed, WatchTypeOK, Items
  <2>2. rx' \in Seq(Items)
    BY <1>7, <2>1, Added DEF Snapshot, Typed
  <2>3. stream' \in [Paths -> Seq(Views)]
    BY <1>7 DEF Snapshot, Drained, Typed, WatchTypeOK
  <2>4. watcher' \in [Paths -> {"none", "spawned", "ended"} \cup Subscribed]
    BY <1>7 DEF Snapshot, Typed, WatchTypeOK, Subscribed
  <2> QED
    BY <1>7, <2>2, <2>3, <2>4 DEF Snapshot, Typed, WatchTypeOK, daemon
<1>8. ASSUME NEW j \in Paths, Follow(j)
      PROVE  Typed'
  <2>1. PICK t \in 1..Len(stream[j]) :
          /\ view' = [view EXCEPT ![j] = stream[j][t]] /\ stream[j][t] \in Views
          /\ rx' = Append(rx, [job |-> j, view |-> stream[j][t]])
          /\ stream' \in [Paths -> Seq(Views)]
    BY <1>8, FollowEffect
  <2>2. view' \in [Paths -> Views]
    BY <2>1 DEF Typed, WatchTypeOK
  <2>3. [job |-> j, view |-> stream[j][t]] \in Items
    BY <2>1 DEF Items
  <2>4. rx' \in Seq(Items)
    BY <2>1, <2>3, Added DEF Typed
  <2>5. UNCHANGED <<watcher, wire, phase, asked, additions, previous>> /\ UNCHANGED daemon
    BY <1>8, FollowEffect
  <2> QED
    BY <2>1, <2>2, <2>4, <2>5 DEF Typed, WatchTypeOK, daemon
<1>9. ASSUME Receive
      PROVE  Typed'
  <2>1. /\ wire' \in Seq(Messages) /\ UNCHANGED <<phase, asked, rx, previous>>
        /\ UNCHANGED daemon /\ wire[1].job \in Paths
    BY <1>9, ReceiveEffect DEF Messages
  <2>2. additions' \in Seq(Paths)
    <3>1. additions' = additions \/ additions' = Append(additions, wire[1].job)
      BY <1>9, ReceiveEffect
    <3>2. additions \in Seq(Paths)
      BY DEF Typed, WatchTypeOK
    <3>3. Append(additions, wire[1].job) \in Seq(Paths)
      BY <2>1, <3>2, Added
    <3> QED
      BY <3>1, <3>2, <3>3
  <2>3. wire[1].kind \in {"changed", "properties"} => wire[1].view \in Views
    BY <1>9, ReceiveEffect DEF Messages
  <2>4. stream' \in [Paths -> Seq(Views)]
    <3>1. CASE wire[1].kind = "changed"
      <4>1. stream[wire[1].job] \in Seq(Views) /\ wire[1].view \in Views
        BY <2>1, <2>3, <3>1 DEF Typed, WatchTypeOK
      <4>2. Append(stream[wire[1].job], wire[1].view) \in Seq(Views)
        BY <4>1, Added
      <4> QED
        BY <1>9, <3>1, <4>2, ReceiveEffect DEF Typed, WatchTypeOK
    <3> QED
      BY <1>9, <3>1, ReceiveEffect DEF Typed, WatchTypeOK
  <2>5. view' \in [Paths -> Views]
    BY <1>9, <2>3, ReceiveEffect DEF Typed, WatchTypeOK
  <2>6. watcher' \in [Paths -> {"none", "spawned", "ended"} \cup Subscribed]
    BY <1>9, ReceiveEffect DEF Typed, WatchTypeOK, Subscribed
  <2> QED
    BY <2>1, <2>2, <2>4, <2>5, <2>6 DEF Typed, WatchTypeOK, daemon
<1>10. ASSUME List
      PROVE  Typed'
  <2>1. additions' \in Seq(Paths)
    BY <1>10, Reading DEF List, Typed, WatchTypeOK
  <2> QED
    BY <1>10, <2>1 DEF List, Typed, WatchTypeOK, daemon, tasks
<1>11. ASSUME Listen
      PROVE  Typed'
  <2>1. watcher' \in [Paths -> {"none", "spawned", "ended"} \cup Subscribed]
    BY <1>11 DEF Listen, Started, Typed, WatchTypeOK
  <2> QED
    BY <1>11, <2>1 DEF Listen, Typed, WatchTypeOK, daemon
<1>12. ASSUME TakeAddition
      PROVE  Typed'
  <2>1. watcher' \in [Paths -> {"none", "spawned", "ended"} \cup Subscribed]
    BY <1>12 DEF TakeAddition, Started, Typed, WatchTypeOK
  <2>2. additions' \in Seq(Paths)
    BY <1>12, Taken DEF TakeAddition, Typed, WatchTypeOK
  <2> QED
    BY <1>12, <2>1, <2>2 DEF TakeAddition, Typed, WatchTypeOK, daemon
<1>13. ASSUME TakeItem
      PROVE  Typed'
  <2>1. /\ rx' \in Seq(Items) /\ phase' = Verdict(rx[1], previous')
        /\ previous' = [previous EXCEPT ![rx[1].job] = rx[1].view]
        /\ rx[1].view \in Views
        /\ UNCHANGED <<wire, asked, additions, watcher, stream, view>> /\ UNCHANGED daemon
    BY <1>13, TakeEffect
  <2>2. phase' \in {"loop"} \cup Exited
    BY <2>1 DEF Verdict, Exited
  <2>3. previous' \in [Paths -> Views]
    BY <2>1 DEF Typed, WatchTypeOK
  <2> QED
    BY <2>1, <2>2, <2>3 DEF Typed, WatchTypeOK, daemon
<1>14. CASE UNCHANGED watchVars
  BY <1>14 DEF watchVars, WatchTypeOK, Typed, daemon, tasks, Subscribed, States
<1> QED
  BY <1>1, <1>2, <1>3, <1>4, <1>5, <1>6, <1>7, <1>8, <1>9, <1>10, <1>11, <1>12, <1>13,
     <1>14 DEF WatchNext, Daemon, Task, Main

\* Every step keeps what the daemon knows of its own jobs: transition() and retire().
LEMMA DaemonOrder ==
    ASSUME WatchTypeOK, JobsInOrder, [WatchNext]_watchVars
    PROVE  JobsInOrder'
<1>1. ASSUME NEW j \in Paths, Publish(j)
      PROVE  JobsInOrder'
  BY <1>1 DEF Publish, daemon, tasks, WireHasRoom, WatchTypeOK, JobsInOrder
<1>2. ASSUME NEW j \in Paths, NEW s \in States, Replace(j, s)
      PROVE  JobsInOrder'
  BY <1>2 DEF Replace, daemon, tasks, WatchTypeOK, JobsInOrder
<1>3. ASSUME NEW j \in Paths, Signal(j)
      PROVE  JobsInOrder'
  BY <1>3 DEF Signal, daemon, tasks, WireHasRoom, WatchTypeOK, JobsInOrder
<1>4. ASSUME NEW j \in Paths, Withdraw(j)
      PROVE  JobsInOrder'
  BY <1>4 DEF Withdraw, daemon, tasks, WatchTypeOK, JobsInOrder
<1>5. ASSUME NEW j \in Paths, Answer(j)
      PROVE  JobsInOrder'
  BY <1>5 DEF Answer, daemon, tasks, WireHasRoom, WatchTypeOK, JobsInOrder
<1>6. CASE UNCHANGED daemon
  BY <1>6 DEF daemon, JobsInOrder
<1> QED
  BY <1>1, <1>2, <1>3, <1>4, <1>5, <1>6
     DEF WatchNext, Daemon, Task, Main, Subscribe, Snapshot, Follow, Receive, List, Listen,
         TakeAddition, TakeItem, watchVars, daemon

\* No step takes a job back to a view it has left.
LEMMA DaemonMoves ==
    ASSUME WatchTypeOK, JobsInOrder, WatchTypeOK', [WatchNext]_watchVars
    PROVE  \A i \in Paths : Before(Now(i), Now(i)')
<1>0. \A i \in Paths : Before(Now(i), Now(i))
  BY NowType, BeforeIsAnOrder
<1>1. ASSUME NEW j \in Paths, Publish(j)
      PROVE  \A i \in Paths : Before(Now(i), Now(i)')
  BY <1>1, <1>0 DEF Publish, Now, Before, Rank, WatchTypeOK, JobsInOrder, States
<1>2. ASSUME NEW j \in Paths, NEW s \in States, Replace(j, s)
      PROVE  \A i \in Paths : Before(Now(i), Now(i)')
  BY <1>2, <1>0 DEF Replace, Now, Before, Rank, WatchTypeOK, JobsInOrder, States
<1>3. ASSUME NEW j \in Paths, Signal(j)
      PROVE  \A i \in Paths : Before(Now(i), Now(i)')
  BY <1>3, <1>0 DEF Signal, Now, Before, Rank, WatchTypeOK, JobsInOrder, States
<1>4. ASSUME NEW j \in Paths, Withdraw(j)
      PROVE  \A i \in Paths : Before(Now(i), Now(i)')
  BY <1>4, <1>0 DEF Withdraw, Now, Before, Rank, WatchTypeOK, JobsInOrder, States, Ended
<1>5. ASSUME NEW j \in Paths, Answer(j)
      PROVE  \A i \in Paths : Before(Now(i), Now(i)')
  BY <1>5, NowType, BeforeIsAnOrder, DaemonStays DEF Answer, daemon, tasks, WireHasRoom
<1>6. CASE UNCHANGED daemon
  BY <1>6, <1>0, DaemonStays
<1> QED
  BY <1>1, <1>2, <1>3, <1>4, <1>5, <1>6
     DEF WatchNext, Daemon, Task, Main, Subscribe, Snapshot, Follow, Receive, List, Listen,
         TakeAddition, TakeItem, watchVars, daemon

\* What came before a job still does after any step.
LEMMA Advance ==
    ASSUME Typed, JobsInOrder, [WatchNext]_watchVars, NEW i \in Paths
    PROVE  /\ Now(i) \in Views /\ Now(i)' \in Views
           /\ \A v \in Views : Before(v, Now(i)) => Before(v, Now(i)')
<1>1. Typed'
  BY TypedStep
<1>2. Now(i) \in Views /\ Now(i)' \in Views
  BY <1>1 DEF Typed, WatchTypeOK, Now, Views
<1>3. Before(Now(i), Now(i)')
  BY <1>1, DaemonMoves DEF Typed
<1> QED
  BY <1>2, <1>3, BeforeIsAnOrder

\* What a message is about.
LEMMA CarriedView ==
    ASSUME NEW m \in Messages
    PROVE  m.job \in Paths /\ \A j \in Paths : Carries(m, j) => m.view \in Views
  BY DEF Messages, Carries

\* What an item of the channel is about.
LEMMA ItemParts ==
    ASSUME Typed
    PROVE  \A n \in 1..Len(rx) : rx[n].job \in Paths /\ rx[n].view \in Views
<1>1. \A n \in 1..Len(rx) : rx[n] \in Items
  BY DEF Typed
<1> QED
  BY <1>1 DEF Items

\* A step of the daemon sends one message at most, about the job as it then stands, and
\* one reply for each job that was asked for.
LEMMA DaemonEffect ==
    ASSUME Typed, JobsInOrder, NEW j \in Paths, Daemon(j)
    PROVE  /\ UNCHANGED <<phase, additions, previous, watcher, stream, view, rx>>
           /\ \/ wire' = wire /\ asked' = asked
              \/ \E m \in Messages :
                   /\ wire' = Append(wire, m)
                   /\ \A i \in Paths : Carries(m, i) => m.view = Now(i)'
                   /\ ~IsReply(m) => asked' = asked
                   /\ IsReply(m) => m.job \in asked /\ asked' = asked \ {m.job}
<1>1. CASE Publish(j)
  <2>1. [kind |-> "added", job |-> j] \in Messages
    BY DEF Messages
  <2> QED
    BY <1>1, <2>1 DEF Publish, tasks, Carries, IsReply
<1>2. CASE \E s \in States : Replace(j, s)
  BY <1>2 DEF Replace, tasks
<1>3. CASE Signal(j)
  <2>1. PICK r \in IF state[j] = "done" THEN BOOLEAN ELSE {FALSE} :
          /\ result' = [result EXCEPT ![j] = r]
          /\ wire' = IF watcher[j] \in Subscribed
                     THEN Append(wire, [kind |-> "changed", job |-> j,
                                        view |-> [state |-> state[j], result |-> r]])
                     ELSE wire
    BY <1>3 DEF Signal
  <2> DEFINE m == [kind |-> "changed", job |-> j, view |-> [state |-> state[j], result |-> r]]
  <2>2. m \in Messages /\ ~IsReply(m)
    BY <2>1 DEF Messages, Views, Typed, WatchTypeOK, IsReply
  <2>3. m.view = Now(j)' /\ \A i \in Paths : Carries(m, i) => i = j
    BY <1>3, <2>1 DEF Signal, Now, Typed, WatchTypeOK, Carries
  <2>4. UNCHANGED <<phase, additions, previous, watcher, stream, view, rx, asked>>
    BY <1>3 DEF Signal, tasks
  <2>5. wire' = wire \/ wire' = Append(wire, m)
    BY <2>1
  <2> HIDE DEF m
  <2> QED
    BY <2>2, <2>3, <2>4, <2>5
<1>4. CASE Withdraw(j)
  BY <1>4 DEF Withdraw, tasks
<1>5. CASE Answer(j)
  <2> DEFINE m == IF j \in exported
                  THEN [kind |-> "properties", job |-> j, view |-> Now(j)]
                  ELSE [kind |-> "refused", job |-> j]
  <2>1. /\ m \in Messages /\ IsReply(m) /\ m.job = j
        /\ \A i \in Paths : Carries(m, i) => i = j /\ m.view = Now(j)
    BY NowType DEF Messages, Typed, IsReply, Carries
  <2>2. /\ UNCHANGED <<phase, additions, previous, watcher, stream, view, rx>>
        /\ UNCHANGED daemon
        /\ j \in asked /\ asked' = asked \ {j} /\ wire' = Append(wire, m)
    BY <1>5 DEF Answer, tasks
  <2>3. Now(j)' = Now(j)
    BY <2>2, DaemonStays
  <2> HIDE DEF m
  <2> QED
    BY <2>1, <2>2, <2>3
<1> QED
  BY <1>1, <1>2, <1>3, <1>4, <1>5 DEF Daemon

\* What starts a task or has it ask.
Start == (\E j \in Paths : Subscribe(j)) \/ List \/ Listen \/ TakeAddition

\* They touch no view: a task that was not there is spawned, a spawned one asks.
LEMMA StartEffect ==
    ASSUME Typed, Start
    PROVE  /\ UNCHANGED <<wire, stream, view, rx, previous>> /\ UNCHANGED daemon
           /\ \A i \in Paths : \/ watcher'[i] = watcher[i]
                               \/ watcher[i] = "none" /\ watcher'[i] = "spawned"
                               \/ watcher[i] = "spawned" /\ watcher'[i] = "asking"
           /\ \A i \in asked' : i \in asked \/ (watcher[i] = "spawned" /\ watcher'[i] = "asking")
<1>1. UNCHANGED <<wire, stream, view, rx, previous>> /\ UNCHANGED daemon
  BY DEF Start, Subscribe, List, Listen, TakeAddition, tasks
<1>2. ASSUME NEW j \in Paths, Subscribe(j)
      PROVE  /\ watcher[j] = "spawned" /\ watcher'[j] = "asking" /\ asked' = asked \cup {j}
             /\ \A i \in Paths \ {j} : watcher'[i] = watcher[i]
  BY <1>2 DEF Subscribe, Typed, WatchTypeOK
<1>3. ASSUME NEW js, asked' = asked, watcher' = Started(js)
      PROVE  /\ \A i \in Paths : \/ watcher'[i] = watcher[i]
                                 \/ watcher[i] = "none" /\ watcher'[i] = "spawned"
             /\ asked' = asked
  BY <1>3 DEF Started
<1>4. CASE \E j \in Paths : Subscribe(j)
  BY <1>1, <1>2, <1>4
<1>5. CASE List
  BY <1>1, <1>5 DEF List, tasks
<1>6. CASE Listen
  <2>1. asked' = asked /\ watcher' = Started(ToSet(additions))
    BY <1>6 DEF Listen
  <2> QED
    BY <1>1, <1>3, <2>1
<1>7. CASE TakeAddition
  <2>1. asked' = asked /\ watcher' = Started({Head(additions)})
    BY <1>7 DEF TakeAddition
  <2> QED
    BY <1>1, <1>3, <2>1
<1> QED
  BY <1>4, <1>5, <1>6, <1>7 DEF Start

\* A task that has its reply drops its stream and sends the reply as its first view.
LEMMA SnapshotEffect ==
    ASSUME Typed, NEW j \in Paths, Snapshot(j)
    PROVE  /\ watcher[j] = "answered" /\ watcher' = [watcher EXCEPT ![j] = "following"]
           /\ Len(stream'[j]) = 0 /\ \A i \in Paths \ {j} : stream'[i] = stream[i]
           /\ Len(rx') = Len(rx) + 1
           /\ \A n \in 1..Len(rx) : rx'[n] = rx[n]
           /\ rx'[Len(rx) + 1] = [job |-> j, view |-> view[j]]
           /\ UNCHANGED <<wire, phase, asked, additions, view, previous>> /\ UNCHANGED daemon
<1>1. [job |-> j, view |-> view[j]] \in Items
  BY DEF Typed, WatchTypeOK, Items
<1> QED
  BY <1>1, Added DEF Snapshot, Drained, Typed, WatchTypeOK

\* Every step keeps the one reply of each task.
LEMMA AskedStep ==
    ASSUME Typed, JobsInOrder, AskedOnce, [WatchNext]_watchVars
    PROVE  AskedOnce'
<1>1. ASSUME NEW j \in Paths, Daemon(j)
      PROVE  AskedOnce'
  <2>1. CASE wire' = wire /\ asked' = asked
    BY <1>1, <2>1, DaemonEffect DEF AskedOnce
  <2>2. ASSUME NEW m \in Messages, wire' = Append(wire, m),
               ~IsReply(m) => asked' = asked,
               IsReply(m) => m.job \in asked /\ asked' = asked \ {m.job}
        PROVE  AskedOnce'
    <3>1. /\ Len(wire') = Len(wire) + 1 /\ wire'[Len(wire) + 1] = m /\ Len(wire) \in Nat
          /\ \A i \in 1..Len(wire) : wire'[i] = wire[i]
      BY <2>2, Added DEF Typed
    <3>2. watcher' = watcher
      BY <1>1, DaemonEffect
    <3> QED
      BY <2>2, <3>1, <3>2 DEF AskedOnce
  <2> QED
    BY <1>1, <2>1, <2>2, DaemonEffect
<1>2. ASSUME Start
      PROVE  AskedOnce'
  <2>1. \A i \in 1..Len(wire) : wire[i].job \in Paths
    BY CarriedView DEF Typed
  <2> QED
    BY <1>2, <2>1, StartEffect DEF AskedOnce, Typed, WatchTypeOK
<1>3. ASSUME NEW j \in Paths, Snapshot(j)
      PROVE  AskedOnce'
  <2>1. /\ UNCHANGED <<wire, asked>> /\ watcher[j] = "answered"
        /\ watcher' = [watcher EXCEPT ![j] = "following"]
    BY <1>3, SnapshotEffect
  <2>2. \A i \in Paths : watcher[i] = "asking" => watcher'[i] = "asking"
    BY <2>1 DEF Typed, WatchTypeOK
  <2>3. \A i \in 1..Len(wire) : wire[i].job \in Paths
    BY CarriedView DEF Typed
  <2> QED
    BY <2>1, <2>2, <2>3 DEF AskedOnce, Typed, WatchTypeOK
<1>4. ASSUME NEW j \in Paths, Follow(j)
      PROVE  AskedOnce'
  BY <1>4, FollowEffect DEF AskedOnce
<1>5. ASSUME Receive
      PROVE  AskedOnce'
  <2>1. /\ Len(wire) \in Nat /\ \A i \in 1..Len(wire) : wire[i].job \in Paths
    BY CarriedView DEF Typed
  <2>2. /\ 1 \in 1..Len(wire) /\ Len(wire') = Len(wire) - 1 /\ asked' = asked
        /\ \A i \in 1..Len(wire') : i + 1 \in 1..Len(wire) /\ wire'[i] = wire[i + 1]
    BY <1>5, ReceiveEffect
  <2>3. \A j \in Paths : watcher'[j] = watcher[j] \/ (IsReply(wire[1]) /\ wire[1].job = j)
    BY <1>5, ReceiveEffect DEF IsReply, Typed, WatchTypeOK
  <2>4. \A j \in asked' : watcher'[j] = "asking"
    <3>1. \A j \in asked : /\ j \in Paths /\ watcher[j] = "asking"
                          /\ ~(IsReply(wire[1]) /\ wire[1].job = j)
      BY <2>2 DEF AskedOnce, Typed, WatchTypeOK
    <3> QED
      BY <2>2, <2>3, <3>1
  <2>5. \A i \in 1..Len(wire') : IsReply(wire'[i]) =>
          /\ watcher'[wire'[i].job] = "asking" /\ wire'[i].job \notin asked'
          /\ \A k \in 1..Len(wire') :
               k # i /\ wire'[k].job = wire'[i].job => ~IsReply(wire'[k])
    <3> SUFFICES ASSUME NEW i \in 1..Len(wire'), IsReply(wire'[i])
                 PROVE  /\ watcher'[wire'[i].job] = "asking" /\ wire'[i].job \notin asked'
                        /\ \A k \in 1..Len(wire') :
                             k # i /\ wire'[k].job = wire'[i].job => ~IsReply(wire'[k])
      OBVIOUS
    <3>1. i + 1 \in 1..Len(wire) /\ wire'[i] = wire[i + 1] /\ i + 1 # 1
      BY <2>1, <2>2
    <3>2. ~(IsReply(wire[1]) /\ wire[1].job = wire[i + 1].job)
      BY <2>2, <3>1 DEF AskedOnce
    <3>3. IsReply(wire[i + 1]) /\ wire[i + 1].job \in Paths
      BY <2>1, <3>1
    <3>4. watcher'[wire'[i].job] = "asking" /\ wire'[i].job \notin asked'
      BY <2>2, <2>3, <3>1, <3>2, <3>3 DEF AskedOnce
    <3>5. \A k \in 1..Len(wire') :
            k # i /\ wire'[k].job = wire'[i].job => ~IsReply(wire'[k])
      <4> TAKE k \in 1..Len(wire')
      <4>1. k + 1 \in 1..Len(wire) /\ wire'[k] = wire[k + 1] /\ (k # i => k + 1 # i + 1)
        BY <2>1, <2>2
      <4> QED
        BY <3>1, <3>3, <4>1 DEF AskedOnce
    <3> QED
      BY <3>4, <3>5
  <2> QED
    BY <2>4, <2>5 DEF AskedOnce
<1>6. ASSUME TakeItem
      PROVE  AskedOnce'
  BY <1>6, TakeEffect DEF AskedOnce
<1>7. CASE UNCHANGED watchVars
  BY <1>7, DaemonStays DEF watchVars, daemon, AskedOnce
<1> QED
  BY <1>1, <1>2, <1>3, <1>4, <1>5, <1>6, <1>7 DEF WatchNext, Task, Main, Start

\* Every step keeps the wire in order: a view is appended as the job stands.
LEMMA WireStep ==
    ASSUME Typed, JobsInOrder, WireInOrder, [WatchNext]_watchVars
    PROVE  WireInOrder'
<1>1. ASSUME NEW j \in Paths, Daemon(j)
      PROVE  WireInOrder'
  <2>0. /\ Len(wire) \in Nat /\ \A i \in 1..Len(wire) : wire[i] \in Messages
    BY DEF Typed
  <2>1. UNCHANGED <<watcher, stream, view>>
    BY <1>1, DaemonEffect
  <2>2. CASE wire' = wire
    BY <2>0, <2>1, <2>2, Advance, CarriedView DEF WireInOrder
  <2>3. ASSUME NEW m \in Messages, wire' = Append(wire, m),
               \A i \in Paths : Carries(m, i) => m.view = Now(i)'
        PROVE  WireInOrder'
    <3>1. /\ Len(wire') = Len(wire) + 1 /\ wire'[Len(wire) + 1] = m
          /\ \A i \in 1..Len(wire) : wire'[i] = wire[i]
      BY <2>3, Added DEF Typed
    <3> QED
      BY <2>0, <2>1, <2>3, <3>1, Advance, CarriedView, BeforeIsAnOrder DEF WireInOrder
  <2> QED
    BY <1>1, <2>2, <2>3, DaemonEffect
<1>2. ASSUME Start
      PROVE  WireInOrder'
  BY <1>2, StartEffect, DaemonStays DEF WireInOrder
<1>3. ASSUME NEW j \in Paths, Snapshot(j)
      PROVE  WireInOrder'
  BY <1>3, SnapshotEffect, DaemonStays DEF WireInOrder
<1>4. ASSUME NEW j \in Paths, Follow(j)
      PROVE  WireInOrder'
  BY <1>4, FollowEffect, DaemonStays DEF WireInOrder
<1>5. ASSUME Receive
      PROVE  WireInOrder'
  <2>1. /\ Len(wire) \in Nat /\ \A i \in 1..Len(wire) : wire[i] \in Messages
    BY DEF Typed
  <2>2. /\ 1 \in 1..Len(wire) /\ Len(wire') = Len(wire) - 1
        /\ \A i \in 1..Len(wire') : i + 1 \in 1..Len(wire) /\ wire'[i] = wire[i + 1]
        /\ \A j \in Paths : Now(j)' = Now(j)
    BY <1>5, ReceiveEffect, DaemonStays
  <2> SUFFICES ASSUME NEW j \in Paths, NEW i \in 1..Len(wire'), Carries(wire'[i], j)
               PROVE  /\ Before(wire'[i].view, Now(j)')
                      /\ \A k \in 1..Len(wire') :
                           i < k /\ Carries(wire'[k], j) => Before(wire'[i].view, wire'[k].view)
    BY DEF WireInOrder, Carries
  <2>3. i + 1 \in 1..Len(wire) /\ wire'[i] = wire[i + 1]
    BY <2>2
  <2> QED
    BY <2>1, <2>2, <2>3 DEF WireInOrder
<1>6. ASSUME TakeItem
      PROVE  WireInOrder'
  BY <1>6, TakeEffect, DaemonStays DEF WireInOrder
<1>7. CASE UNCHANGED watchVars
  BY <1>7, DaemonStays DEF watchVars, daemon, WireInOrder
<1> QED
  BY <1>1, <1>2, <1>3, <1>4, <1>5, <1>6, <1>7 DEF WatchNext, Task, Main, Start

\* Every step keeps the streams before the wire: a view leaves the one for the other.
LEMMA StreamStep ==
    ASSUME Typed, JobsInOrder, WireInOrder, StreamInOrder, [WatchNext]_watchVars
    PROVE  StreamInOrder'
<1>1. ASSUME NEW j \in Paths, Daemon(j)
      PROVE  StreamInOrder'
  <2>0. /\ Len(wire) \in Nat /\ \A i \in 1..Len(wire) : wire[i] \in Messages
    BY DEF Typed
  <2>1. UNCHANGED <<watcher, stream, view>>
    BY <1>1, DaemonEffect
  <2>2. CASE wire' = wire
    BY <2>0, <2>1, <2>2, Advance, CarriedView DEF StreamInOrder, Typed, WatchTypeOK
  <2>3. ASSUME NEW m \in Messages, wire' = Append(wire, m),
               \A i \in Paths : Carries(m, i) => m.view = Now(i)'
        PROVE  StreamInOrder'
    <3>1. /\ Len(wire') = Len(wire) + 1 /\ wire'[Len(wire) + 1] = m
          /\ \A i \in 1..Len(wire) : wire'[i] = wire[i]
      BY <2>3, Added DEF Typed
    <3> QED
      BY <2>0, <2>1, <2>3, <3>1, Advance, CarriedView, BeforeIsAnOrder
         DEF StreamInOrder, Typed, WatchTypeOK
  <2> QED
    BY <1>1, <2>2, <2>3, DaemonEffect
<1>2. ASSUME Start
      PROVE  StreamInOrder'
  BY <1>2, StartEffect, DaemonStays DEF StreamInOrder
<1>3. ASSUME NEW j \in Paths, Snapshot(j)
      PROVE  StreamInOrder'
  <2>1. /\ wire' = wire /\ Len(stream'[j]) = 0 /\ \A i \in Paths \ {j} : stream'[i] = stream[i]
        /\ \A i \in Paths : Now(i)' = Now(i)
    BY <1>3, SnapshotEffect, DaemonStays
  <2> QED
    BY <2>1 DEF StreamInOrder
<1>4. ASSUME NEW j \in Paths, Follow(j)
      PROVE  StreamInOrder'
  <2>1. PICK t \in 1..Len(stream[j]) :
          /\ Len(stream'[j]) = Len(stream[j]) - t
          /\ \A n \in 1..Len(stream'[j]) :
               n + t \in 1..Len(stream[j]) /\ stream'[j][n] = stream[j][n + t]
    BY <1>4, FollowEffect
  <2>2. /\ \A i \in Paths \ {j} : stream'[i] = stream[i]
        /\ \A i \in Paths : Now(i)' = Now(i)
        /\ wire' = wire /\ Len(stream[j]) \in Nat
    BY <1>4, FollowEffect, DaemonStays DEF Typed, WatchTypeOK
  <2> SUFFICES ASSUME NEW x \in Paths, NEW n \in 1..Len(stream'[x])
               PROVE  /\ Before(stream'[x][n], Now(x)')
                      /\ \A m \in 1..Len(stream'[x]) :
                           n < m => Before(stream'[x][n], stream'[x][m])
                      /\ \A i \in 1..Len(wire') :
                           Carries(wire'[i], x) => Before(stream'[x][n], wire'[i].view)
    BY DEF StreamInOrder, Carries
  <2>3. CASE x = j
    <3>1. n + t \in 1..Len(stream[j]) /\ stream'[j][n] = stream[j][n + t] /\ n \in Nat
      BY <2>1, <2>3
    <3>2. \A m \in 1..Len(stream'[j]) : n < m => Before(stream'[j][n], stream'[j][m])
      <4> TAKE m \in 1..Len(stream'[j])
      <4>1. m + t \in 1..Len(stream[j]) /\ stream'[j][m] = stream[j][m + t]
        BY <2>1
      <4>2. n < m => n + t < m + t
        BY <2>2, <3>1
      <4> QED
        BY <3>1, <4>1, <4>2 DEF StreamInOrder
    <3>3. \A i \in 1..Len(wire) : Carries(wire[i], j) => Before(stream'[j][n], wire[i].view)
      BY <3>1 DEF StreamInOrder
    <3>4. Before(stream'[x][n], Now(x)')
      BY <2>2, <2>3, <3>1 DEF StreamInOrder
    <3>6. \A m \in 1..Len(stream'[x]) : n < m => Before(stream'[x][n], stream'[x][m])
      BY <2>3, <3>2
    <3>7. \A i \in 1..Len(wire') : Carries(wire'[i], x) => Before(stream'[x][n], wire'[i].view)
      BY <2>2, <2>3, <3>3
    <3> QED
      BY <3>4, <3>6, <3>7
  <2>4. CASE x # j
    BY <2>2, <2>4 DEF StreamInOrder
  <2> QED
    BY <2>3, <2>4
<1>5. ASSUME Receive
      PROVE  StreamInOrder'
  <2>1. /\ Len(wire) \in Nat /\ \A i \in 1..Len(wire) : wire[i] \in Messages
    BY DEF Typed
  <2>2. /\ 1 \in 1..Len(wire) /\ Len(wire') = Len(wire) - 1
        /\ \A i \in 1..Len(wire') : i + 1 \in 1..Len(wire) /\ wire'[i] = wire[i + 1]
        /\ \A j \in Paths : Now(j)' = Now(j)
    BY <1>5, ReceiveEffect, DaemonStays
  <2>3. CASE wire[1].kind # "changed"
    <3>1. stream' = stream
      BY <1>5, <2>3, ReceiveEffect
    <3> QED
      BY <2>1, <2>2, <3>1 DEF StreamInOrder
  <2>4. CASE wire[1].kind = "changed"
    <3>0. PICK j \in Paths : j = wire[1].job
      BY <2>1, <2>2, CarriedView
    <3>1. Carries(wire[1], j) /\ wire[1].view \in Views
      BY <2>1, <2>2, <3>0, <2>4, CarriedView DEF Carries
    <3>2. /\ stream[j] \in Seq(Views) /\ stream'[j] = Append(stream[j], wire[1].view)
          /\ \A i \in Paths \ {j} : stream'[i] = stream[i]
      BY <1>5, <2>4, <3>0, ReceiveEffect DEF Typed, WatchTypeOK
    <3>3. /\ Len(stream'[j]) = Len(stream[j]) + 1 /\ stream'[j][Len(stream[j]) + 1] = wire[1].view
          /\ \A n \in 1..Len(stream[j]) : stream'[j][n] = stream[j][n]
          /\ Len(stream[j]) \in Nat
      BY <3>1, <3>2, Added
    <3> SUFFICES ASSUME NEW x \in Paths, NEW n \in 1..Len(stream'[x])
                 PROVE  /\ Before(stream'[x][n], Now(x)')
                        /\ \A m \in 1..Len(stream'[x]) :
                             n < m => Before(stream'[x][n], stream'[x][m])
                        /\ \A i \in 1..Len(wire') :
                             Carries(wire'[i], x) => Before(stream'[x][n], wire'[i].view)
      BY DEF StreamInOrder, Carries
    <3>4. CASE x = j /\ n = Len(stream[j]) + 1
      <4>1. stream'[x][n] = wire[1].view
        BY <3>3, <3>4
      <4>2. \A m \in 1..Len(stream'[x]) : ~(n < m)
        BY <3>3, <3>4
      <4>3. \A i \in 1..Len(wire') :
              Carries(wire[i + 1], j) => Before(wire[1].view, wire[i + 1].view)
        BY <2>1, <2>2, <3>1 DEF WireInOrder
      <4>4. Before(wire[1].view, Now(j)')
        BY <2>2, <3>1 DEF WireInOrder
      <4> QED
        BY <2>2, <3>4, <4>1, <4>2, <4>3, <4>4
    <3>5. CASE x = j /\ n # Len(stream[j]) + 1
      <4>1. n \in 1..Len(stream[j]) /\ stream'[x][n] = stream[j][n]
        BY <3>3, <3>5
      <4>2. \A m \in 1..Len(stream'[x]) : n < m => Before(stream[j][n], stream'[x][m])
        <5> TAKE m \in 1..Len(stream'[x])
        <5>1. CASE m = Len(stream[j]) + 1
          BY <2>2, <3>1, <3>3, <3>5, <4>1, <5>1 DEF StreamInOrder
        <5>2. CASE m # Len(stream[j]) + 1
          BY <3>1, <3>3, <3>5, <4>1, <5>2 DEF StreamInOrder
        <5> QED
          BY <5>1, <5>2
      <4> QED
        BY <2>2, <3>1, <3>5, <4>1, <4>2 DEF StreamInOrder
    <3>6. CASE x # j
      BY <2>1, <2>2, <3>2, <3>6 DEF StreamInOrder
    <3> QED
      BY <3>4, <3>5, <3>6
  <2> QED
    BY <2>3, <2>4
<1>6. ASSUME TakeItem
      PROVE  StreamInOrder'
  BY <1>6, TakeEffect, DaemonStays DEF StreamInOrder
<1>7. CASE UNCHANGED watchVars
  BY <1>7, DaemonStays DEF watchVars, daemon, StreamInOrder
<1> QED
  BY <1>1, <1>2, <1>3, <1>4, <1>5, <1>6, <1>7 DEF WatchNext, Task, Main, Start

\* Every step keeps the view a task holds before what it has still to read; the reply is
\* read with the stream as it stands, and what was in the stream is dropped.
LEMMA ViewStep ==
    ASSUME Typed, JobsInOrder, AskedOnce, WireInOrder, StreamInOrder, ViewInOrder,
           [WatchNext]_watchVars
    PROVE  ViewInOrder'
<1>1. ASSUME NEW j \in Paths, Daemon(j)
      PROVE  ViewInOrder'
  <2>0. /\ Len(wire) \in Nat /\ \A i \in 1..Len(wire) : wire[i] \in Messages
    BY DEF Typed
  <2>1. UNCHANGED <<watcher, stream, view>>
    BY <1>1, DaemonEffect
  <2>2. CASE wire' = wire
    BY <2>0, <2>1, <2>2, Advance, CarriedView DEF ViewInOrder, Typed, WatchTypeOK
  <2>3. ASSUME NEW m \in Messages, wire' = Append(wire, m),
               \A i \in Paths : Carries(m, i) => m.view = Now(i)'
        PROVE  ViewInOrder'
    <3>1. /\ Len(wire') = Len(wire) + 1 /\ wire'[Len(wire) + 1] = m
          /\ \A i \in 1..Len(wire) : wire'[i] = wire[i]
      BY <2>3, Added DEF Typed
    <3> QED
      BY <2>0, <2>1, <2>3, <3>1, Advance, CarriedView, BeforeIsAnOrder DEF ViewInOrder,
         Typed, WatchTypeOK
  <2> QED
    BY <1>1, <2>2, <2>3, DaemonEffect
<1>2. ASSUME Start
      PROVE  ViewInOrder'
  BY <1>2, StartEffect, DaemonStays DEF ViewInOrder, Typed, WatchTypeOK
<1>3. ASSUME NEW j \in Paths, Snapshot(j)
      PROVE  ViewInOrder'
  <2>1. /\ Len(stream'[j]) = 0
        /\ \A i \in Paths \ {j} : stream'[i] = stream[i]
        /\ watcher[j] = "answered" /\ UNCHANGED <<wire, view>>
        /\ watcher' = [watcher EXCEPT ![j] = "following"]
    BY <1>3, SnapshotEffect
  <2>2. \A i \in Paths : Now(i)' = Now(i)
    BY <1>3, SnapshotEffect, DaemonStays
  <2>3. \A i \in Paths \ {j} : watcher'[i] = watcher[i]
    BY <2>1 DEF Typed, WatchTypeOK
  <2> SUFFICES ASSUME NEW x \in Paths
               PROVE  /\ Before(view'[x], Now(x)')
                      /\ watcher'[x] = "following" =>
                           \A n \in 1..Len(stream'[x]) : Before(view'[x], stream'[x][n])
                      /\ watcher'[x] \in {"answered", "following"} =>
                           \A i \in 1..Len(wire') :
                             Carries(wire'[i], x) => Before(view'[x], wire'[i].view)
    BY DEF ViewInOrder, Carries
  <2>4. CASE x = j
    BY <2>1, <2>2, <2>4 DEF ViewInOrder
  <2>5. CASE x # j
    BY <2>1, <2>2, <2>3, <2>5 DEF ViewInOrder
  <2> QED
    BY <2>4, <2>5
<1>4. ASSUME NEW j \in Paths, Follow(j)
      PROVE  ViewInOrder'
  <2>1. PICK t \in 1..Len(stream[j]) :
          /\ view' = [view EXCEPT ![j] = stream[j][t]]
          /\ Len(stream'[j]) = Len(stream[j]) - t
          /\ \A n \in 1..Len(stream'[j]) :
               n + t \in 1..Len(stream[j]) /\ stream'[j][n] = stream[j][n + t]
    BY <1>4, FollowEffect
  <2>2. /\ \A i \in Paths \ {j} : stream'[i] = stream[i] /\ view'[i] = view[i]
        /\ \A i \in Paths : Now(i)' = Now(i)
        /\ UNCHANGED <<wire, watcher>> /\ Len(stream[j]) \in Nat /\ view'[j] = stream[j][t]
    BY <1>4, <2>1, FollowEffect, DaemonStays DEF Typed, WatchTypeOK
  <2> SUFFICES ASSUME NEW x \in Paths
               PROVE  /\ Before(view'[x], Now(x)')
                      /\ watcher'[x] = "following" =>
                           \A n \in 1..Len(stream'[x]) : Before(view'[x], stream'[x][n])
                      /\ watcher'[x] \in {"answered", "following"} =>
                           \A i \in 1..Len(wire') :
                             Carries(wire'[i], x) => Before(view'[x], wire'[i].view)
    BY DEF ViewInOrder, Carries
  <2>3. CASE x = j
    <3>1. /\ Before(stream[j][t], Now(j))
          /\ \A m \in 1..Len(stream[j]) : t < m => Before(stream[j][t], stream[j][m])
          /\ \A i \in 1..Len(wire) : Carries(wire[i], j) => Before(stream[j][t], wire[i].view)
      BY DEF StreamInOrder
    <3>2. \A n \in 1..Len(stream'[j]) : t < n + t
      BY <2>1, <2>2
    <3> QED
      BY <2>1, <2>2, <2>3, <3>1, <3>2
  <2>4. CASE x # j
    BY <2>2, <2>4 DEF ViewInOrder
  <2> QED
    BY <2>3, <2>4
<1>5. ASSUME Receive
      PROVE  ViewInOrder'
  <2>1. /\ Len(wire) \in Nat /\ \A i \in 1..Len(wire) : wire[i] \in Messages
    BY DEF Typed
  <2>2. /\ 1 \in 1..Len(wire) /\ Len(wire') = Len(wire) - 1
        /\ \A i \in 1..Len(wire') : i + 1 \in 1..Len(wire) /\ wire'[i] = wire[i + 1]
        /\ \A j \in Paths : Now(j)' = Now(j)
    BY <1>5, ReceiveEffect, DaemonStays
  <2>3. CASE wire[1].kind = "added"
    <3>1. UNCHANGED <<watcher, stream, view>>
      BY <1>5, <2>3, ReceiveEffect
    <3> QED
      BY <2>1, <2>2, <3>1 DEF ViewInOrder
  <2>4. CASE wire[1].kind = "changed"
    <3>0. PICK j \in Paths : j = wire[1].job
      BY <2>1, <2>2, CarriedView
    <3>1. Carries(wire[1], j) /\ wire[1].view \in Views
      BY <2>1, <2>2, <3>0, <2>4, CarriedView DEF Carries
    <3>2. /\ stream[j] \in Seq(Views) /\ stream'[j] = Append(stream[j], wire[1].view)
          /\ \A i \in Paths \ {j} : stream'[i] = stream[i]
          /\ UNCHANGED <<watcher, view>>
      BY <1>5, <2>4, <3>0, ReceiveEffect DEF Typed, WatchTypeOK
    <3>3. /\ Len(stream'[j]) = Len(stream[j]) + 1 /\ stream'[j][Len(stream[j]) + 1] = wire[1].view
          /\ \A n \in 1..Len(stream[j]) : stream'[j][n] = stream[j][n]
          /\ Len(stream[j]) \in Nat
      BY <3>1, <3>2, Added
    <3> SUFFICES ASSUME NEW x \in Paths
                 PROVE  /\ Before(view'[x], Now(x)')
                        /\ watcher'[x] = "following" =>
                             \A n \in 1..Len(stream'[x]) : Before(view'[x], stream'[x][n])
                        /\ watcher'[x] \in {"answered", "following"} =>
                             \A i \in 1..Len(wire') :
                               Carries(wire'[i], x) => Before(view'[x], wire'[i].view)
      BY DEF ViewInOrder, Carries
    <3>4. CASE x = j
      <4>1. view'[j] = view[j] /\ watcher'[j] = watcher[j]
        BY <3>2
      <4>2. watcher[j] = "following" => \A n \in 1..Len(stream'[j]) : Before(view[j], stream'[j][n])
        <5> SUFFICES ASSUME watcher[j] = "following", NEW n \in 1..Len(stream'[j])
                     PROVE  Before(view[j], stream'[j][n])
          OBVIOUS
        <5>1. CASE n = Len(stream[j]) + 1
          BY <2>2, <3>1, <3>3, <5>1 DEF ViewInOrder
        <5>2. CASE n # Len(stream[j]) + 1
          BY <3>1, <3>3, <5>2 DEF ViewInOrder
        <5> QED
          BY <5>1, <5>2
      <4> QED
        BY <2>2, <3>1, <3>4, <4>1, <4>2 DEF ViewInOrder
    <3>5. CASE x # j
      BY <2>1, <2>2, <3>2, <3>5 DEF ViewInOrder
    <3> QED
      BY <3>4, <3>5
  <2>5. CASE wire[1].kind = "properties"
    <3>0. PICK j \in Paths : j = wire[1].job
      BY <2>1, <2>2, CarriedView
    <3>1. Carries(wire[1], j) /\ wire[1].view \in Views
      BY <2>1, <2>2, <3>0, <2>5, CarriedView DEF Carries
    <3>2. /\ view'[j] = wire[1].view /\ watcher'[j] = "answered" /\ stream' = stream
          /\ \A i \in Paths \ {j} : view'[i] = view[i] /\ watcher'[i] = watcher[i]
      BY <1>5, <2>5, <3>0, ReceiveEffect DEF Typed, WatchTypeOK
    <3> SUFFICES ASSUME NEW x \in Paths
                 PROVE  /\ Before(view'[x], Now(x)')
                        /\ watcher'[x] = "following" =>
                             \A n \in 1..Len(stream'[x]) : Before(view'[x], stream'[x][n])
                        /\ watcher'[x] \in {"answered", "following"} =>
                             \A i \in 1..Len(wire') :
                               Carries(wire'[i], x) => Before(view'[x], wire'[i].view)
      BY DEF ViewInOrder, Carries
    <3>4. CASE x = j
      BY <2>1, <2>2, <3>1, <3>2, <3>4 DEF ViewInOrder, WireInOrder
    <3>5. CASE x # j
      BY <2>1, <2>2, <3>2, <3>5 DEF ViewInOrder
    <3> QED
      BY <3>4, <3>5
  <2>6. CASE wire[1].kind = "refused"
    <3>1. /\ UNCHANGED <<stream, view>> /\ \A i \in Paths : watcher'[i] \in {watcher[i], "ended"}
      BY <1>5, <2>6, ReceiveEffect DEF Typed, WatchTypeOK
    <3> QED
      BY <2>1, <2>2, <3>1 DEF ViewInOrder
  <2> QED
    BY <1>5, <2>3, <2>4, <2>5, <2>6, ReceiveEffect
<1>6. ASSUME TakeItem
      PROVE  ViewInOrder'
  BY <1>6, TakeEffect, DaemonStays DEF ViewInOrder
<1>7. CASE UNCHANGED watchVars
  BY <1>7, DaemonStays DEF watchVars, daemon, ViewInOrder
<1> QED
  BY <1>1, <1>2, <1>3, <1>4, <1>5, <1>6, <1>7 DEF WatchNext, Task, Main, Start

\* Every step keeps the channel before the views the tasks hold.
LEMMA QueueStep ==
    ASSUME Typed, JobsInOrder, AskedOnce, StreamInOrder, ViewInOrder, QueueInOrder,
           [WatchNext]_watchVars
    PROVE  QueueInOrder'
<1>1. ASSUME NEW j \in Paths, Daemon(j)
      PROVE  QueueInOrder'
  BY <1>1, DaemonEffect DEF QueueInOrder
<1>2. ASSUME Start
      PROVE  QueueInOrder'
  <2> QED
    BY <1>2, StartEffect, ItemParts DEF QueueInOrder
<1>3. ASSUME NEW j \in Paths, Snapshot(j)
      PROVE  QueueInOrder'
  <2>1. /\ Len(rx') = Len(rx) + 1 /\ Len(rx) \in Nat /\ view' = view
        /\ \A n \in 1..Len(rx) : rx'[n] = rx[n] /\ rx[n].job \in Paths
        /\ rx'[Len(rx) + 1] = [job |-> j, view |-> view[j]]
        /\ watcher[j] = "answered" /\ watcher' = [watcher EXCEPT ![j] = "following"]
    <3>1. Len(rx) \in Nat /\ \A n \in 1..Len(rx) : rx[n].job \in Paths
      BY ItemParts DEF Typed
    <3> QED
      BY <1>3, <3>1, SnapshotEffect
  <2>2. watcher'[j] = "following" /\ \A i \in Paths \ {j} : watcher'[i] = watcher[i]
    BY <2>1 DEF Typed, WatchTypeOK
  <2>3. \A n \in 1..Len(rx) : rx[n].job # j
    BY <2>1 DEF QueueInOrder
  <2>4. Before(view[j], view[j])
    BY BeforeIsAnOrder DEF Typed, WatchTypeOK
  <2> SUFFICES ASSUME NEW n \in 1..Len(rx')
               PROVE  /\ watcher'[rx'[n].job] = "following"
                      /\ Before(rx'[n].view, view'[rx'[n].job])
                      /\ \A m \in 1..Len(rx') :
                           n < m /\ rx'[m].job = rx'[n].job
                             => Before(rx'[n].view, rx'[m].view)
    BY DEF QueueInOrder
  <2>5. CASE n = Len(rx) + 1
    BY <2>1, <2>2, <2>4, <2>5
  <2>6. CASE n # Len(rx) + 1
    BY <2>1, <2>2, <2>3, <2>6 DEF QueueInOrder
  <2> QED
    BY <2>5, <2>6
<1>4. ASSUME NEW j \in Paths, Follow(j)
      PROVE  QueueInOrder'
  <2>1. PICK t \in 1..Len(stream[j]) :
          /\ view' = [view EXCEPT ![j] = stream[j][t]] /\ stream[j][t] \in Views
          /\ rx' = Append(rx, [job |-> j, view |-> stream[j][t]])
    BY <1>4, FollowEffect
  <2>2. /\ Len(rx') = Len(rx) + 1 /\ Len(rx) \in Nat
        /\ \A n \in 1..Len(rx) : rx'[n] = rx[n] /\ rx[n].job \in Paths /\ rx[n].view \in Views
        /\ rx'[Len(rx) + 1] = [job |-> j, view |-> stream[j][t]]
    <3>1. [job |-> j, view |-> stream[j][t]] \in Items
      BY <2>1 DEF Items
    <3> QED
      BY <2>1, <3>1, Added, ItemParts DEF Typed
  <2>3. watcher' = watcher /\ watcher[j] = "following"
    BY <1>4, FollowEffect
  <2>4. view'[j] = stream[j][t] /\ \A i \in Paths \ {j} : view'[i] = view[i]
    BY <2>1 DEF Typed, WatchTypeOK
  <2>5. \A n \in 1..Len(rx) : rx[n].job = j => Before(rx[n].view, stream[j][t])
    <3> TAKE n \in 1..Len(rx)
    <3>1. rx[n].job = j => Before(rx[n].view, view[j])
      BY DEF QueueInOrder
    <3>2. Before(view[j], stream[j][t])
      BY <2>3 DEF ViewInOrder
    <3>3. view[j] \in Views /\ rx[n].view \in Views
      BY <2>2 DEF Typed, WatchTypeOK
    <3> QED
      BY <2>1, <3>1, <3>2, <3>3, BeforeIsAnOrder
  <2>6. Before(stream[j][t], stream[j][t])
    BY <2>1, BeforeIsAnOrder
  <2> SUFFICES ASSUME NEW n \in 1..Len(rx')
               PROVE  /\ watcher'[rx'[n].job] = "following"
                      /\ Before(rx'[n].view, view'[rx'[n].job])
                      /\ \A m \in 1..Len(rx') :
                           n < m /\ rx'[m].job = rx'[n].job
                             => Before(rx'[n].view, rx'[m].view)
    BY DEF QueueInOrder
  <2>7. CASE n = Len(rx) + 1
    BY <2>2, <2>3, <2>4, <2>6, <2>7
  <2>8. CASE n # Len(rx) + 1
    <3>1. n \in 1..Len(rx) /\ rx'[n] = rx[n] /\ rx[n].job \in Paths
      BY <2>2, <2>8
    <3>2. Before(rx[n].view, view'[rx[n].job])
      BY <2>4, <2>5, <3>1 DEF QueueInOrder
    <3>3. \A m \in 1..Len(rx') : n < m /\ rx'[m].job = rx'[n].job
            => Before(rx'[n].view, rx'[m].view)
      <4> TAKE m \in 1..Len(rx')
      <4>1. CASE m = Len(rx) + 1
        BY <2>2, <2>5, <3>1, <4>1
      <4>2. CASE m # Len(rx) + 1
        BY <2>2, <3>1, <4>2 DEF QueueInOrder
      <4> QED
        BY <4>1, <4>2
    <3> QED
      BY <2>3, <3>1, <3>2, <3>3 DEF QueueInOrder
  <2> QED
    BY <2>7, <2>8
<1>5. ASSUME Receive
      PROVE  QueueInOrder'
  <2>1. /\ \A i \in 1..Len(wire) : wire[i] \in Messages
        /\ \A n \in 1..Len(rx) : rx[n].job \in Paths
    BY ItemParts DEF Typed
  <2>2. 1 \in 1..Len(wire) /\ rx' = rx
    BY <1>5, ReceiveEffect
  <2>3. \A i \in Paths : watcher[i] = "following" => watcher'[i] = "following" /\ view'[i] = view[i]
    <3>1. CASE IsReply(wire[1])
      <4>1. watcher[wire[1].job] = "asking"
        BY <2>2, <3>1 DEF AskedOnce
      <4> QED
        BY <1>5, <2>1, <2>2, <4>1, ReceiveEffect DEF Typed, WatchTypeOK
    <3>2. CASE ~IsReply(wire[1])
      BY <1>5, <3>2, ReceiveEffect DEF IsReply
    <3> QED
      BY <3>1, <3>2
  <2> QED
    BY <2>1, <2>2, <2>3 DEF QueueInOrder
<1>6. ASSUME TakeItem
      PROVE  QueueInOrder'
  <2>1. /\ Len(rx') = Len(rx) - 1 /\ Len(rx) \in Nat /\ UNCHANGED <<watcher, view>>
        /\ \A i \in 1..Len(rx') : i + 1 \in 1..Len(rx) /\ rx'[i] = rx[i + 1]
    BY <1>6, TakeEffect DEF Typed
  <2> SUFFICES ASSUME NEW n \in 1..Len(rx')
               PROVE  /\ watcher'[rx'[n].job] = "following"
                      /\ Before(rx'[n].view, view'[rx'[n].job])
                      /\ \A m \in 1..Len(rx') :
                           n < m /\ rx'[m].job = rx'[n].job
                             => Before(rx'[n].view, rx'[m].view)
    BY DEF QueueInOrder
  <2>2. n + 1 \in 1..Len(rx) /\ rx'[n] = rx[n + 1] /\ n \in Nat
    BY <2>1
  <2>3. \A m \in 1..Len(rx') : n < m /\ rx'[m].job = rx'[n].job
          => Before(rx'[n].view, rx'[m].view)
    <3> TAKE m \in 1..Len(rx')
    <3>1. m + 1 \in 1..Len(rx) /\ rx'[m] = rx[m + 1] /\ (n < m => n + 1 < m + 1)
      BY <2>1, <2>2
    <3> QED
      BY <2>2, <3>1 DEF QueueInOrder
  <2> QED
    BY <2>1, <2>2, <2>3 DEF QueueInOrder
<1>7. CASE UNCHANGED watchVars
  BY <1>7, DaemonStays DEF watchVars, daemon, QueueInOrder
<1> QED
  BY <1>1, <1>2, <1>3, <1>4, <1>5, <1>6, <1>7 DEF WatchNext, Task, Main, Start

\* Every step keeps what is printed before the channel.
LEMMA PrintedStep ==
    ASSUME Typed, JobsInOrder, AskedOnce, StreamInOrder, ViewInOrder, QueueInOrder,
           PrintedInOrder, [WatchNext]_watchVars
    PROVE  PrintedInOrder'
<1>1. ASSUME NEW j \in Paths, Daemon(j)
      PROVE  PrintedInOrder'
  BY <1>1, DaemonEffect DEF PrintedInOrder
<1>2. ASSUME Start
      PROVE  PrintedInOrder'
  BY <1>2, StartEffect DEF PrintedInOrder
<1>3. ASSUME NEW j \in Paths, Snapshot(j)
      PROVE  PrintedInOrder'
  <2>1. /\ Len(rx') = Len(rx) + 1 /\ Len(rx) \in Nat /\ UNCHANGED <<view, previous>>
        /\ \A n \in 1..Len(rx) : rx'[n] = rx[n]
        /\ rx'[Len(rx) + 1] = [job |-> j, view |-> view[j]]
        /\ watcher[j] = "answered" /\ watcher' = [watcher EXCEPT ![j] = "following"]
    BY <1>3, SnapshotEffect DEF Typed
  <2>2. \A i \in Paths : watcher[i] = "following" => watcher'[i] = "following"
    BY <2>1 DEF Typed, WatchTypeOK
  <2>3. previous[j] = Nothing /\ Before(Nothing, view[j])
    BY <2>1, BeforeIsAnOrder DEF PrintedInOrder, Typed, WatchTypeOK
  <2> SUFFICES ASSUME NEW x \in Paths
               PROVE  /\ previous'[x] = Nothing
                           \/ (watcher'[x] = "following" /\ Before(previous'[x], view'[x]))
                      /\ \A n \in 1..Len(rx') :
                           rx'[n].job = x => Before(previous'[x], rx'[n].view)
    BY DEF PrintedInOrder
  <2>4. ASSUME NEW n \in 1..Len(rx'), rx'[n].job = x
        PROVE  Before(previous'[x], rx'[n].view)
    <3>1. CASE n = Len(rx) + 1
      BY <2>1, <2>3, <2>4, <3>1
    <3>2. CASE n # Len(rx) + 1
      BY <2>1, <2>4, <3>2 DEF PrintedInOrder
    <3> QED
      BY <3>1, <3>2
  <2> QED
    BY <2>1, <2>2, <2>4 DEF PrintedInOrder
<1>4. ASSUME NEW j \in Paths, Follow(j)
      PROVE  PrintedInOrder'
  <2>1. PICK t \in 1..Len(stream[j]) :
          /\ view' = [view EXCEPT ![j] = stream[j][t]] /\ stream[j][t] \in Views
          /\ rx' = Append(rx, [job |-> j, view |-> stream[j][t]])
    BY <1>4, FollowEffect
  <2>2. /\ Len(rx') = Len(rx) + 1 /\ Len(rx) \in Nat
        /\ \A n \in 1..Len(rx) : rx'[n] = rx[n]
        /\ rx'[Len(rx) + 1] = [job |-> j, view |-> stream[j][t]]
    <3>1. [job |-> j, view |-> stream[j][t]] \in Items
      BY <2>1 DEF Items
    <3> QED
      BY <2>1, <3>1, Added DEF Typed
  <2>3. watcher' = watcher /\ watcher[j] = "following" /\ previous' = previous
    BY <1>4, FollowEffect
  <2>4. view'[j] = stream[j][t] /\ \A i \in Paths \ {j} : view'[i] = view[i]
    BY <2>1 DEF Typed, WatchTypeOK
  <2>5. Before(previous[j], stream[j][t])
    <3>1. Before(view[j], stream[j][t])
      BY <2>3 DEF ViewInOrder
    <3>2. view[j] \in Views /\ previous[j] \in Views
      BY DEF Typed, WatchTypeOK
    <3> QED
      BY <2>1, <3>1, <3>2, BeforeIsAnOrder DEF PrintedInOrder
  <2> SUFFICES ASSUME NEW x \in Paths
               PROVE  /\ previous'[x] = Nothing
                           \/ (watcher'[x] = "following" /\ Before(previous'[x], view'[x]))
                      /\ \A n \in 1..Len(rx') :
                           rx'[n].job = x => Before(previous'[x], rx'[n].view)
    BY DEF PrintedInOrder
  <2>6. ASSUME NEW n \in 1..Len(rx'), rx'[n].job = x
        PROVE  Before(previous'[x], rx'[n].view)
    <3>1. CASE n = Len(rx) + 1
      BY <2>2, <2>3, <2>5, <2>6, <3>1
    <3>2. CASE n # Len(rx) + 1
      BY <2>2, <2>3, <2>6, <3>2 DEF PrintedInOrder
    <3> QED
      BY <3>1, <3>2
  <2>7. CASE x = j
    BY <2>3, <2>4, <2>5, <2>6, <2>7
  <2>8. CASE x # j
    BY <2>3, <2>4, <2>6, <2>8 DEF PrintedInOrder
  <2> QED
    BY <2>7, <2>8
<1>5. ASSUME Receive
      PROVE  PrintedInOrder'
  <2>1. \A i \in 1..Len(wire) : wire[i] \in Messages
    BY DEF Typed
  <2>2. 1 \in 1..Len(wire) /\ rx' = rx /\ previous' = previous
    BY <1>5, ReceiveEffect
  <2>3. \A i \in Paths : watcher[i] = "following" => watcher'[i] = "following" /\ view'[i] = view[i]
    <3>1. CASE IsReply(wire[1])
      <4>1. watcher[wire[1].job] = "asking"
        BY <2>2, <3>1 DEF AskedOnce
      <4> QED
        BY <1>5, <2>1, <2>2, <4>1, ReceiveEffect DEF Typed, WatchTypeOK
    <3>2. CASE ~IsReply(wire[1])
      BY <1>5, <3>2, ReceiveEffect DEF IsReply
    <3> QED
      BY <3>1, <3>2
  <2> QED
    BY <2>2, <2>3 DEF PrintedInOrder
<1>6. ASSUME TakeItem
      PROVE  PrintedInOrder'
  <2>1. /\ 1 \in 1..Len(rx) /\ rx[1].job \in Paths /\ rx[1].view \in Views
        /\ Len(rx') = Len(rx) - 1 /\ Len(rx) \in Nat /\ UNCHANGED <<watcher, view>>
        /\ \A i \in 1..Len(rx') : i + 1 \in 1..Len(rx) /\ rx'[i] = rx[i + 1]
        /\ previous' = [previous EXCEPT ![rx[1].job] = rx[1].view]
    BY <1>6, TakeEffect DEF Typed
  <2>2. PICK j \in Paths : j = rx[1].job
    BY <2>1
  <2>3. /\ previous'[j] = rx[1].view /\ \A i \in Paths \ {j} : previous'[i] = previous[i]
    BY <2>1, <2>2 DEF Typed, WatchTypeOK
  <2>4. watcher[j] = "following" /\ Before(rx[1].view, view[j])
    BY <2>1, <2>2 DEF QueueInOrder
  <2>5. \A i \in 1..Len(rx') : rx'[i].job = j => Before(rx[1].view, rx'[i].view)
    BY <2>1, <2>2 DEF QueueInOrder
  <2> SUFFICES ASSUME NEW x \in Paths
               PROVE  /\ previous'[x] = Nothing
                           \/ (watcher'[x] = "following" /\ Before(previous'[x], view'[x]))
                      /\ \A n \in 1..Len(rx') :
                           rx'[n].job = x => Before(previous'[x], rx'[n].view)
    BY DEF PrintedInOrder
  <2>6. CASE x = j
    BY <2>1, <2>3, <2>4, <2>5, <2>6
  <2>7. CASE x # j
    BY <2>1, <2>3, <2>7 DEF PrintedInOrder
  <2> QED
    BY <2>6, <2>7
<1>7. CASE UNCHANGED watchVars
  BY <1>7, DaemonStays DEF watchVars, daemon, PrintedInOrder
<1> QED
  BY <1>1, <1>2, <1>3, <1>4, <1>5, <1>6, <1>7 DEF WatchNext, Task, Main, Start

\* A finite set of numbers has a largest.
LEMMA LargestOfFinite ==
    ASSUME NEW S \in SUBSET Nat, IsFiniteSet(S), S # {}
    PROVE  \E m \in S : \A n \in S : n <= m
<1> DEFINE Bad(T) == T # {} /\ ~\E m \in T : \A n \in T : n <= m
           Sizes == {k \in Nat : \E T \in SUBSET S : Cardinality(T) = k /\ Bad(T)}
<1>1. \A T \in SUBSET S : IsFiniteSet(T) /\ Cardinality(T) \in Nat
  BY FS_Subset, FS_CardinalityType
<1>2. SUFFICES ASSUME Bad(S) PROVE FALSE
  OBVIOUS
<1>3. Sizes # {} /\ Sizes \subseteq Nat
  BY <1>1, <1>2
<1>4. PICK k \in Sizes : \A i \in Sizes : k <= i
  <2> HIDE DEF Sizes
  <2>1. IsWellFoundedOn(OpToRel(<, Nat), Nat)
    BY NatLessThanWellFounded
  <2>2. PICK k \in Sizes : \A i \in Sizes : <<i, k>> \notin OpToRel(<, Nat)
    BY <1>3, <2>1, WFMin
  <2>3. \A i \in Sizes : ~(i < k)
    BY <1>3, <2>2 DEF OpToRel
  <2> QED
    BY <1>3, <2>3
<1>5. PICK T \in SUBSET S : Cardinality(T) = k /\ Bad(T)
  BY <1>4
<1>6. PICK x \in T : TRUE
  BY <1>5
<1>7. Cardinality(T \ {x}) = k - 1 /\ k - 1 \in Nat
  <2>1. T \ {x} \in SUBSET S /\ IsFiniteSet(T)
    BY <1>1
  <2>2. Cardinality(T \ {x}) = Cardinality(T) - 1
    BY <1>6, <2>1, FS_RemoveElement
  <2> QED
    BY <1>1, <1>5, <2>1, <2>2
<1>8. ~Bad(T \ {x})
  <2>1. k - 1 \notin Sizes
    BY <1>4, <1>7
  <2> QED
    BY <1>5, <1>7, <2>1
<1>9. CASE T \ {x} = {}
  BY <1>5, <1>6, <1>9
<1>10. ASSUME NEW m \in T \ {x}, \A n \in T \ {x} : n <= m
       PROVE  FALSE
  <2>1. CASE x <= m
    BY <1>5, <1>10, <2>1
  <2>2. CASE ~(x <= m)
    BY <1>5, <1>6, <1>10, <2>2
  <2> QED
    BY <2>1, <2>2
<1> QED
  BY <1>8, <1>9, <1>10

\* The view the loop looks at is one that was printed.
LEMMA LastIsShown ==
    ASSUME NEW views \in [Paths -> Views], NEW i \in Paths, views[i] # Nothing
    PROVE  \E j \in Paths : LastOf(views) = views[j]
<1> DEFINE shown == {j \in Paths : views[j] # Nothing}
<1>1. shown # {} /\ shown \subseteq Nat /\ IsFiniteSet(shown)
  BY PathsAssumption, FS_Subset
<1>2. \E j \in shown : \A k \in shown : k <= j
  BY <1>1, LargestOfFinite
<1> QED
  BY <1>2 DEF LastOf

\* What each verdict says of the item and of the view the loop looks at.
LEMMA VerdictMeans ==
    ASSUME NEW item \in Items, NEW views
    PROVE  /\ Verdict(item, views) = "exit_failed" => item.view.state = "error"
           /\ Verdict(item, views) = "exit_ok" => Ended(item.view) /\ LastOf(views).result
<1>1. CASE item.view.state = "error"
  BY <1>1 DEF Verdict, Ended
<1>2. CASE item.view.state = "done" /\ LastOf(views).result
  BY <1>2 DEF Verdict, Ended
<1>3. CASE item.view.state # "error" /\ ~(item.view.state = "done" /\ LastOf(views).result)
  BY <1>3 DEF Verdict
<1> QED
  BY <1>1, <1>2, <1>3

\* Every step keeps the exit code earned: what was printed is something the daemon
\* still holds.
LEMMA ExitStep ==
    ASSUME Typed, JobsInOrder, WireInOrder, ViewInOrder, QueueInOrder, PrintedInOrder,
           ExitIsEarned, Typed', JobsInOrder', ViewInOrder', PrintedInOrder', [WatchNext]_watchVars
    PROVE  ExitIsEarned'
<1>1. ASSUME NEW j \in Paths, Watching, Daemon(j)
      PROVE  ExitIsEarned'
  BY <1>1, DaemonEffect DEF ExitIsEarned, Watching, Exited
<1>2. ASSUME NEW j \in Paths, Watching, Task(j)
      PROVE  ExitIsEarned'
  BY <1>2 DEF Task, Subscribe, Snapshot, Follow, ExitIsEarned, Watching, Exited
<1>3. ASSUME Watching, Receive
      PROVE  ExitIsEarned'
  BY <1>3 DEF Receive, ExitIsEarned, Watching, Exited
<1>4. CASE List \/ Listen \/ TakeAddition
  BY <1>4 DEF List, Listen, TakeAddition, ExitIsEarned
<1>5. CASE TakeItem
  <2>1. /\ rx[1].job \in Paths /\ rx[1].view \in Views /\ 1 \in 1..Len(rx)
        /\ previous' = [previous EXCEPT ![rx[1].job] = rx[1].view]
        /\ phase' = Verdict(rx[1], previous') /\ UNCHANGED daemon /\ view' = view
        /\ rx[1] \in Items
    BY <1>5, TakeEffect DEF Typed
  <2>2. \A j \in Paths : /\ previous'[j].state = "error" => state'[j] = "error"
                         /\ previous'[j].result => state'[j] = "done" /\ result'[j]
    <3> TAKE j \in Paths
    <3>1. previous'[j] = Nothing \/ Before(previous'[j], view'[j])
      BY DEF PrintedInOrder
    <3>2. Before(view'[j], Now(j)')
      BY DEF ViewInOrder
    <3> QED
      BY <3>1, <3>2 DEF Before, Now, Nothing, JobsInOrder
  <2>3. previous'[rx[1].job] = rx[1].view /\ previous' \in [Paths -> Views]
    BY <2>1 DEF Typed, WatchTypeOK
  <2>4. phase' = "exit_failed" => rx[1].view.state = "error"
    BY <2>1, VerdictMeans
  <2>5. phase' = "exit_ok" => Ended(rx[1].view) /\ LastOf(previous').result
    BY <2>1, VerdictMeans
  <2>6. Ended(rx[1].view) => rx[1].view # Nothing
    BY DEF Ended, Nothing
  <2>7. ASSUME phase' = "exit_ok"
        PROVE  \E j \in Paths : state'[j] = "done" /\ result'[j]
    <3>1. PICK j \in Paths : previous'[j].result
      BY <2>1, <2>3, <2>5, <2>6, <2>7, LastIsShown
    <3> QED
      BY <2>2, <3>1
  <2>8. ASSUME phase' = "exit_failed"
        PROVE  \E j \in Paths : state'[j] = "error"
    <3>1. previous'[rx[1].job].state = "error"
      BY <2>3, <2>4, <2>8
    <3> QED
      BY <2>1, <2>2, <3>1
  <2> QED
    BY <2>7, <2>8 DEF ExitIsEarned
<1>6. CASE UNCHANGED watchVars
  BY <1>6 DEF watchVars, ExitIsEarned
<1> QED
  BY <1>1, <1>2, <1>3, <1>4, <1>5, <1>6 DEF WatchNext, Main

\* The strengthening holds initially.
LEMMA WatchInitInv == WatchInit => WatchInv
<1> SUFFICES ASSUME WatchInit PROVE WatchInv
  OBVIOUS
<1>1. Typed
  BY DEF WatchInit, Typed, WatchTypeOK, States, Views, Nothing, Exited
<1>2. JobsInOrder /\ AskedOnce /\ WireInOrder /\ StreamInOrder /\ QueueInOrder
  BY DEF WatchInit, JobsInOrder, AskedOnce, WireInOrder, StreamInOrder, QueueInOrder
<1>3. ViewInOrder /\ PrintedInOrder
  BY <1>1, NowType, BeforeIsAnOrder DEF WatchInit, ViewInOrder, PrintedInOrder, Typed
<1>4. ExitIsEarned
  BY DEF WatchInit, ExitIsEarned
<1> QED
  BY <1>1, <1>2, <1>3, <1>4 DEF WatchInv

\* Every step keeps it.
LEMMA WatchStepInv == WatchInv /\ [WatchNext]_watchVars => WatchInv'
<1> SUFFICES ASSUME WatchInv, [WatchNext]_watchVars PROVE WatchInv'
  OBVIOUS
<1> USE DEF WatchInv
<1>1. Typed'
  BY TypedStep
<1>2. JobsInOrder'
  BY DaemonOrder DEF Typed
<1>3. AskedOnce' /\ WireInOrder' /\ StreamInOrder' /\ ViewInOrder'
  BY AskedStep, WireStep, StreamStep, ViewStep
<1>4. QueueInOrder' /\ PrintedInOrder'
  BY QueueStep, PrintedStep
<1>5. ExitIsEarned'
  BY <1>1, <1>2, <1>3, <1>4, ExitStep
<1> QED
  BY <1>1, <1>2, <1>3, <1>4, <1>5

\* It holds throughout.
LEMMA WatchInductive == WatchSpec => []WatchInv
BY WatchInitInv, WatchStepInv, PTL DEF WatchSpec

-----------------------------------------------------------------------------
(* Theorems *)

\* The state keeps its types, and the exit code is earned: `done` with a Result, or
\* an error, whatever crossed on the way.
THEOREM ExitHasCause == WatchSpec => []VerdictIsEarned
<1>1. WatchInv => VerdictIsEarned
  BY DEF WatchInv, Typed, VerdictIsEarned
<1> QED
  BY <1>1, WatchInductive, PTL

-----------------------------------------------------------------------------
(* The refinement *)

\* The last view printed of a job is one it has been through.
LEMMA PrintedIsPast ==
    ASSUME WatchInv, NEW j \in Paths
    PROVE  /\ Rank(previous[j]) <= Rank(Now(j))
           /\ Rank(previous[j]) \in 0..4 /\ Rank(Now(j)) \in 0..4
<1>1. previous[j] \in Views /\ view[j] \in Views /\ Now(j) \in Views
  BY NowType DEF WatchInv, Typed, WatchTypeOK
<1>2. Before(view[j], Now(j)) /\ (previous[j] = Nothing \/ Before(previous[j], view[j]))
  BY DEF WatchInv, ViewInOrder, PrintedInOrder
<1>3. Before(previous[j], Now(j))
  BY <1>1, <1>2, BeforeIsAnOrder
<1> QED
  BY <1>1, <1>3, RankType DEF Before

\* What a step of the daemon about one job leaves of the others.
LEMMA DaemonIsLocal ==
    ASSUME WatchTypeOK, NEW j \in Paths, Daemon(j)
    PROVE  previous' = previous /\ \A i \in Paths \ {j} : Now(i)' = Now(i)
BY DEF Daemon, Publish, Replace, Signal, Withdraw, Answer, daemon, WatchTypeOK, Now

\* Every step moves what the daemon holds, or what has been printed, as Follow
\* lets the truth and what is told of it move.
LEMMA StepFollows ==
    ASSUME WatchInv, WatchInv', [WatchNext]_watchVars
    PROVE  [Promise!Next]_Promise!vars
<1> DEFINE truth == [j \in Paths |-> Rank(Now(j))]
           told == [j \in Paths |-> Rank(previous[j])]
<1>1. \A j \in Paths : /\ Rank(Now(j)) \in 0..4 /\ Rank(Now(j)') \in 0..4
                       /\ Rank(Now(j)) <= Rank(Now(j)')
                       /\ Rank(previous[j]) \in 0..4 /\ Rank(previous'[j]) \in 0..4
                       /\ Rank(previous'[j]) <= Rank(Now(j)')
  <2>1. \A j \in Paths : Rank(Now(j)) \in 0..4 /\ Rank(previous[j]) \in 0..4
    BY PrintedIsPast
  <2>2. \A j \in Paths : previous'[j] \in Views /\ view'[j] \in Views /\ Now(j)' \in Views
    BY DEF WatchInv, Typed, WatchTypeOK, Now, Views
  <2>3. \A j \in Paths : Before(Now(j), Now(j)')
    BY DaemonMoves DEF WatchInv, Typed
  <2>4. \A j \in Paths : Before(view'[j], Now(j)')
    BY DEF WatchInv, ViewInOrder
  <2>5. \A j \in Paths : previous'[j] = Nothing \/ Before(previous'[j], view'[j])
    BY DEF WatchInv, PrintedInOrder
  <2>6. \A j \in Paths : Before(previous'[j], Now(j)')
    BY <2>2, <2>4, <2>5, BeforeIsAnOrder
  <2> QED
    BY <2>1, <2>2, <2>3, <2>6, RankType DEF Before
<1>2. ASSUME NEW j \in Paths, Daemon(j)
      PROVE  Promise!Advance(j) \/ UNCHANGED Promise!vars
  <2>1. previous' = previous /\ \A i \in Paths \ {j} : Now(i)' = Now(i)
    BY <1>2, DaemonIsLocal DEF WatchInv, Typed
  <2>2. truth' = [truth EXCEPT ![j] = Rank(Now(j)')] /\ told' = told
    BY <2>1
  <2>3. CASE Rank(Now(j)') = Rank(Now(j))
    <3>1. truth' = truth
      BY <2>2, <2>3
    <3> QED
      BY <2>2, <3>1 DEF Promise!vars
  <2>4. CASE Rank(Now(j)') # Rank(Now(j))
    <3>1. Rank(Now(j)') \in truth[j] + 1 .. 4
      BY <1>1, <2>4
    <3> HIDE DEF truth, told
    <3>2. \E r \in truth[j] + 1 .. 4 : truth' = [truth EXCEPT ![j] = r]
      BY <2>2, <3>1
    <3> QED
      BY <2>2, <3>2 DEF Promise!Advance, truth, told
  <2> QED
    BY <2>3, <2>4
<1>3. CASE TakeItem
  <2>1. /\ rx[1].job \in Paths /\ previous' = [previous EXCEPT ![rx[1].job] = rx[1].view]
        /\ UNCHANGED daemon /\ 1 \in 1..Len(rx)
    BY <1>3, TakeEffect DEF WatchInv
  <2>2. PICK j \in Paths : j = rx[1].job
    BY <2>1
  <2>3. previous'[j] = rx[1].view /\ \A i \in Paths \ {j} : previous'[i] = previous[i]
    BY <2>1, <2>2 DEF WatchInv, Typed, WatchTypeOK
  <2>4. truth' = truth /\ \A i \in Paths : Now(i)' = Now(i)
    BY <2>1, DaemonStays
  <2>5. told' = [told EXCEPT ![j] = Rank(previous'[j])]
    BY <2>3
  <2>6. Rank(previous[j]) <= Rank(previous'[j])
    BY <2>1, <2>2, <2>3 DEF WatchInv, PrintedInOrder, Before
  <2>7. CASE Rank(previous'[j]) = Rank(previous[j])
    <3>1. told' = told
      BY <2>5, <2>7
    <3> QED
      BY <2>4, <3>1 DEF Promise!vars
  <2>8. CASE Rank(previous'[j]) # Rank(previous[j])
    <3>1. Rank(previous'[j]) \in told[j] + 1 .. truth[j]
      BY <1>1, <2>4, <2>6, <2>8
    <3> HIDE DEF truth, told
    <3>2. \E r \in told[j] + 1 .. truth[j] : told' = [told EXCEPT ![j] = r]
      BY <2>5, <3>1
    <3>3. Promise!Tell(j)
      BY <2>4, <3>2 DEF Promise!Tell, truth, told
    <3> QED
      BY <3>3 DEF Promise!Next
  <2> QED
    BY <2>7, <2>8
<1>4. CASE Start \/ (\E j \in Paths : Snapshot(j) \/ Follow(j)) \/ Receive \/ UNCHANGED watchVars
  <2>1. previous' = previous /\ UNCHANGED daemon
    BY <1>4, StartEffect, ReceiveEffect
       DEF Start, Snapshot, Follow, watchVars, daemon, WatchInv
  <2>2. truth' = truth /\ told' = told
    BY <2>1, DaemonStays
  <2> QED
    BY <2>2 DEF Promise!vars
<1> QED
  BY <1>2, <1>3, <1>4 DEF WatchNext, Task, Main, Start, Promise!Next

\* What the loop prints of a job is what watch.rs promises: values the daemon has
\* had, never ahead of it, and never back, however a transition's signal and the
\* reply to a GetAll cross.
THEOREM ImplementsFollow == WatchSpec => FollowSpec
<1>1. WatchInit => Promise!Init
  BY DEF WatchInit, Promise!Init, Now, Nothing, Rank
<1> QED
  BY <1>1, StepFollows, WatchInductive, PTL DEF WatchSpec, FollowSpec, Promise!Spec
=============================================================================
