------------------------------ MODULE JobWatch ------------------------------
(***************************************************************************)
(* `scanbus job watch --until-done`: a client that lists the jobs, follows *)
(* each in a task of its own, and exits on the first that ends.            *)
(*                                                                         *)
(*   scanbus-cli/src/cmd/job.rs        watch, start_watch                  *)
(*   scanbus-client/src/watch.rs       PropertyWatch: subscribe, snapshot, *)
(*                                     drain, follow                       *)
(*   scanbus-daemon/src/dbus/job.rs    transition: the state is replaced   *)
(*                                     under one lock, the result under    *)
(*                                     another, the signal goes out after  *)
(*   scanbus-daemon/src/jobs.rs        publish, run, retire                *)
(*                                                                         *)
(* One D-Bus connection delivers in order, so there is one wire, and on it *)
(* a reply keeps its place among the signals.  What the connection has     *)
(* delivered to a task and what the task has looked at are two things: the *)
(* reply to a GetAll wakes the task, and signals go on arriving in its     *)
(* stream until it runs.                                                   *)
(***************************************************************************)
EXTENDS Integers, Sequences, SequencesExt, FiniteSets

CONSTANTS
    Paths,      \* the jobs of the run, numbered in the order of their object paths
    WireBound   \* how many messages are on their way at once, at most

ASSUME PathsAssumption == IsFiniteSet(Paths) /\ Paths \subseteq Nat
ASSUME WireAssumption == WireBound \in Nat \ {0}

VARIABLES
    state,    \* state[j]: the State the daemon holds, "none" with no object
    result,   \* result[j]: whether its Result has been filled in
    silent,   \* silent[j]: the state has been replaced and no signal sent yet
    exported, \* the jobs with an object on the bus
    wire,     \* messages on their way to the client, in order
    phase,    \* where watch() is
    asked,    \* the jobs whose GetAll the daemon has not answered
    additions, \* InterfacesAdded the main loop has not taken
    watcher,  \* watcher[j]: where the task that follows j is
    stream,   \* stream[j]: PropertiesChanged that task has not taken
    view,     \* view[j]: the JobView that task holds
    rx,       \* the channel: views sent to the main loop
    previous  \* previous[j]: the last view of j the main loop has printed

daemon == <<state, result, silent, exported>>
tasks == <<watcher, stream, view, rx>>
watchVars == <<state, result, silent, exported, wire, phase, asked, additions,
               watcher, stream, view, rx, previous>>

States == {"none", "receiving", "processing", "done", "error"}
Views == [state : States, result : BOOLEAN]
Nothing == [state |-> "none", result |-> FALSE]
Now(j) == [state |-> state[j], result |-> result[j]]
Ended(v) == v.state \in {"done", "error"}

(* The position of a view in the order a job runs through: an error has no *)
(* Result worth waiting for, a `done` may be read before its Result is in. *)
Rank(v) ==
    CASE v.state = "none" -> 0
      [] v.state = "receiving" -> 1
      [] v.state = "processing" -> 2
      [] v.state = "done" /\ ~v.result -> 3
      [] OTHER -> 4

Exited == {"exit_ok", "exit_failed"}
Subscribed == {"asking", "answered", "following"}

WatchTypeOK ==
    /\ state \in [Paths -> States]
    /\ result \in [Paths -> BOOLEAN]
    /\ silent \in [Paths -> BOOLEAN]
    /\ exported \subseteq Paths
    /\ phase \in {"listing", "listed", "loop"} \cup Exited
    /\ asked \subseteq Paths
    /\ additions \in Seq(Paths)
    /\ watcher \in [Paths -> {"none", "spawned", "ended"} \cup Subscribed]
    /\ stream \in [Paths -> Seq(Views)]
    /\ view \in [Paths -> Views]
    /\ previous \in [Paths -> Views]

WatchInit ==
    /\ state = [j \in Paths |-> "none"]
    /\ result = [j \in Paths |-> FALSE]
    /\ silent = [j \in Paths |-> FALSE]
    /\ exported = {}
    /\ wire = <<>>
    /\ phase = "listing"
    /\ asked = {}
    /\ additions = <<>>
    /\ watcher = [j \in Paths |-> "none"]
    /\ stream = [j \in Paths |-> <<>>]
    /\ view = [j \in Paths |-> Nothing]
    /\ rx = <<>>
    /\ previous = [j \in Paths |-> Nothing]

-----------------------------------------------------------------------------
(* The daemon *)

(* The bound: the daemon says nothing more while the wire is full. *)
WireHasRoom == Len(wire) < WireBound

(* publish(): the first page exports the object.  The signal reaches a     *)
(* client that has asked for InterfacesAdded.                              *)
Publish(j) ==
    /\ state[j] = "none"
    /\ WireHasRoom
    /\ state' = [state EXCEPT ![j] = "receiving"]
    /\ exported' = exported \cup {j}
    /\ wire' = IF phase = "loop" THEN Append(wire, [kind |-> "added", job |-> j])
                                 ELSE wire
    /\ UNCHANGED <<result, silent, phase, asked, additions, previous>>
    /\ UNCHANGED tasks

(* transition(), first half: the state is replaced and its lock released. *)
Replace(j, s) ==
    /\ j \in exported
    /\ ~silent[j]
    /\ \/ state[j] = "receiving" /\ s \in {"processing", "error"}
       \/ state[j] = "processing" /\ s \in {"done", "error"}
    /\ state' = [state EXCEPT ![j] = s]
    /\ silent' = [silent EXCEPT ![j] = TRUE]
    /\ UNCHANGED <<result, exported, wire, phase, asked, additions, previous>>
    /\ UNCHANGED tasks

(* transition(), second half: a result that is not empty is stored, then   *)
(* one PropertiesChanged carries what moved.  A raw job has no result.     *)
Signal(j) ==
    /\ silent[j]
    /\ WireHasRoom
    /\ silent' = [silent EXCEPT ![j] = FALSE]
    /\ \E r \in IF state[j] = "done" THEN BOOLEAN ELSE {FALSE} :
          /\ result' = [result EXCEPT ![j] = r]
          /\ wire' = IF watcher[j] \in Subscribed
                     THEN Append(wire, [kind |-> "changed", job |-> j,
                                        view |-> [state |-> state[j], result |-> r]])
                     ELSE wire
    /\ UNCHANGED <<state, exported, phase, asked, additions, previous>>
    /\ UNCHANGED tasks

(* retire(): the object goes when its time on the bus is up. *)
Withdraw(j) ==
    /\ j \in exported
    /\ Ended(Now(j))
    /\ ~silent[j]
    /\ exported' = exported \ {j}
    /\ UNCHANGED <<state, result, silent, wire, phase, asked, additions, previous>>
    /\ UNCHANGED tasks

(* A GetAll is served wherever the object stands, between the two halves   *)
(* of a transition too; without the object it is refused.                  *)
Answer(j) ==
    /\ j \in asked
    /\ WireHasRoom
    /\ asked' = asked \ {j}
    /\ wire' = Append(wire,
         IF j \in exported
         THEN [kind |-> "properties", job |-> j, view |-> Now(j)]
         ELSE [kind |-> "refused", job |-> j])
    /\ UNCHANGED <<phase, additions, previous>>
    /\ UNCHANGED daemon
    /\ UNCHANGED tasks

-----------------------------------------------------------------------------
(* The tasks that follow one job each *)

(* start_watch(): one task for each path, ever. *)
Started(js) ==
    [j \in Paths |-> IF j \in js /\ watcher[j] = "none" THEN "spawned" ELSE watcher[j]]

(* PropertyWatch::subscribe: the match rule is installed before the GetAll *)
(* is sent.                                                                *)
Subscribe(j) ==
    /\ watcher[j] = "spawned"
    /\ watcher' = [watcher EXCEPT ![j] = "asking"]
    /\ asked' = asked \cup {j}
    /\ UNCHANGED <<wire, phase, additions, stream, view, rx, previous>>
    /\ UNCHANGED daemon

\* Mutant: a snapshot leaves its stream alone.
NotDrained(j) == stream[j]

(* PropertyWatch::snapshot drops what its stream holds when it runs, which *)
(* is everything older than the reply and whatever came in since.          *)
Drained(j) == <<>>

(* PropertyWatch::snapshot, once its task runs: the reply is the first     *)
(* view.  Its value came with the reply, see Receive.                      *)
Snapshot(j) ==
    /\ watcher[j] = "answered"
    /\ watcher' = [watcher EXCEPT ![j] = "following"]
    /\ stream' = [stream EXCEPT ![j] = Drained(j)]
    /\ rx' = Append(rx, [job |-> j, view |-> view[j]])
    /\ UNCHANGED <<wire, phase, asked, additions, view, previous>>
    /\ UNCHANGED daemon

(* What applying signals to a view leaves: State and Result as last sent.  *)
Applied(v, signals) == IF signals = <<>> THEN v ELSE Last(signals)

\* Mutant: a task reads one signal only.
EndedAfter(j) == "ended"

(* The loop over the stream goes on after every signal. *)
ReadsOn(j) == "following"

(* The task takes one signal, and everything else that is there when that  *)
(* one ended the job.                                                      *)
Follow(j) ==
    /\ watcher[j] = "following"
    /\ stream[j] # <<>>
    /\ LET taken == IF Ended(Head(stream[j])) THEN stream[j] ELSE <<Head(stream[j])>>
           next == Applied(view[j], taken)
       IN /\ view' = [view EXCEPT ![j] = next]
          /\ stream' = [stream EXCEPT ![j] = SubSeq(@, Len(taken) + 1, Len(@))]
          /\ rx' = Append(rx, [job |-> j, view |-> next])
    /\ watcher' = [watcher EXCEPT ![j] = ReadsOn(j)]
    /\ UNCHANGED <<wire, phase, asked, additions, previous>>
    /\ UNCHANGED daemon

-----------------------------------------------------------------------------
(* The connection and the main loop *)

(* The connection hands its next message to whoever waits for it.          *)
Receive ==
    /\ wire # <<>>
    /\ wire' = Tail(wire)
    /\ LET m == Head(wire) IN
       CASE m.kind = "added" ->
              /\ additions' = Append(additions, m.job)
              /\ UNCHANGED <<watcher, stream, view>>
         [] m.kind = "changed" ->
              /\ stream' = [stream EXCEPT ![m.job] = Append(@, m.view)]
              /\ UNCHANGED <<watcher, view, additions>>
         [] m.kind = "properties" ->
              /\ watcher' = [watcher EXCEPT ![m.job] = "answered"]
              /\ view' = [view EXCEPT ![m.job] = m.view]
              /\ UNCHANGED <<stream, additions>>
         [] m.kind = "refused" ->
              /\ watcher' = [watcher EXCEPT ![m.job] = "ended"]
              /\ UNCHANGED <<stream, view, additions>>
    /\ UNCHANGED <<phase, asked, rx, previous>>
    /\ UNCHANGED daemon

(* watch(): Objects::fetch, answered with the jobs there are ... *)
List ==
    /\ phase = "listing"
    /\ phase' = "listed"
    /\ additions' = SetToSeq(exported)
    /\ UNCHANGED <<wire, asked, previous>>
    /\ UNCHANGED daemon
    /\ UNCHANGED tasks

(* ... and only then receive_interfaces_added; a task for each listed job. *)
Listen ==
    /\ phase = "listed"
    /\ phase' = "loop"
    /\ watcher' = Started(ToSet(additions))
    /\ additions' = <<>>
    /\ UNCHANGED <<wire, asked, stream, view, rx, previous>>
    /\ UNCHANGED daemon

(* The select's first branch: a job that appeared. *)
TakeAddition ==
    /\ phase = "loop"
    /\ additions # <<>>
    /\ watcher' = Started({Head(additions)})
    /\ additions' = Tail(additions)
    /\ UNCHANGED <<wire, phase, asked, stream, view, rx, previous>>
    /\ UNCHANGED daemon

(* previous.values().last(): the view of the last path, whichever came in. *)
LastOf(views) ==
    LET shown == {j \in Paths : views[j] # Nothing}
    IN views[CHOOSE j \in shown : \A i \in shown : i <= j]

\* Mutant: the loop exits on any end, with a Result or without.
VerdictAtOnce(item, views) ==
    CASE ~Ended(item.view) -> "loop"
      [] item.view.state = "error" -> "exit_failed"
      [] OTHER -> "exit_ok"

(* What a terminal item makes of the loop: it goes on when the job did not *)
(* fail and the view it looks at has no result.                            *)
Verdict(item, views) ==
    CASE item.view.state = "error" -> "exit_failed"
      [] item.view.state = "done" /\ LastOf(views).result -> "exit_ok"
      [] OTHER -> "loop"

(* The select's second branch: a view to print, and perhaps the verdict. *)
TakeItem ==
    /\ phase = "loop"
    /\ rx # <<>>
    /\ LET item == Head(rx)
           views == [previous EXCEPT ![item.job] = item.view]
       IN /\ previous' = views
          /\ phase' = Verdict(item, views)
    /\ rx' = Tail(rx)
    /\ UNCHANGED <<wire, asked, additions, watcher, stream, view>>
    /\ UNCHANGED daemon

-----------------------------------------------------------------------------

Daemon(j) ==
    \/ Publish(j)
    \/ \E s \in States : Replace(j, s)
    \/ Signal(j)
    \/ Withdraw(j)
    \/ Answer(j)

Task(j) == Subscribe(j) \/ Snapshot(j) \/ Follow(j)

Main == List \/ Listen \/ TakeAddition \/ TakeItem

Watching == phase \notin Exited

(* The client is what the module is about: with it gone nothing is left to *)
(* watch, and the behaviour stops.                                         *)
WatchNext ==
    \/ \E j \in Paths : Watching /\ Daemon(j)
    \/ \E j \in Paths : Watching /\ Task(j)
    \/ Watching /\ Receive
    \/ Main

WatchSpec == WatchInit /\ [][WatchNext]_watchVars

(* Every process that can step does: the runtime polls a task that has     *)
(* something to do, the connection is read, and a job that has started     *)
(* runs to its end.  Nobody has to press a button.                         *)
FairWatch ==
    /\ WatchSpec
    /\ \A j \in Paths :
          /\ WF_watchVars(Watching /\ \E s \in States : Replace(j, s))
          /\ WF_watchVars(Watching /\ Signal(j))
          /\ WF_watchVars(Watching /\ Answer(j))
          /\ WF_watchVars(Watching /\ Task(j))
    /\ WF_watchVars(Watching /\ Receive)
    /\ WF_watchVars(Main)

-----------------------------------------------------------------------------
(* What the loop prints of a job is what watch.rs promises its caller: the *)
(* values are the daemon's, never ahead of it, and never go back, however  *)
(* the signals of a transition and the reply to the GetAll cross.          *)
Promise == INSTANCE Follow WITH
    Objects <- Paths,
    LastRank <- 4,
    truth <- [j \in Paths |-> Rank(Now(j))],
    told <- [j \in Paths |-> Rank(previous[j])]
FollowSpec == Promise!Spec

(* The exit code is earned: success means the daemon has a job that is     *)
(* done with a Result, failure that it has one that failed; a `done` read  *)
(* before its Result was in is not reported as a job without a file.       *)
ExitIsEarned ==
    /\ phase = "exit_ok" => \E j \in Paths : state[j] = "done" /\ result[j]
    /\ phase = "exit_failed" => \E j \in Paths : state[j] = "error"

\* The type invariant with it.
VerdictIsEarned == WatchTypeOK /\ ExitIsEarned

(* A task that has started to follow a running job hears of its end, and   *)
(* the loop with it.                                                       *)
FollowedToTheEnd ==
    \A j \in Paths :
        (watcher[j] = "following" /\ state[j] \in {"receiving", "processing"})
            ~> (Ended(previous[j]) \/ phase \in Exited)

(* cli.rs: "Exit when the first job followed reaches a terminal state".    *)
(* A job printed with its error, or as done with its Result, is one.       *)
ExitsAtTheFirstEnd ==
    phase = "loop" => \A j \in Paths : Rank(previous[j]) < 4
=============================================================================
