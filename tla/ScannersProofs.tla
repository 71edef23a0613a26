--------------------------- MODULE ScannersProofs ---------------------------
(***************************************************************************)
(* Proofs about Scanners: for any number of Unpair() and Connect() calls,  *)
(* failing listeners and transitions the supervisor is behind by, what a   *)
(* scanner's object, its listener, its properties and its stored flag say  *)
(* of each other, between any two steps.                                   *)
(***************************************************************************)
EXTENDS Scanners, SequenceTheorems, TLAPS

NoOverlap == "overlap" \notin doubt
Orderly == doubt \cap {"overlap", "session_end"} = {}

\* The last transition the supervisor has taken.
Taken == IF spc \in {"promote", "emit"} THEN "done" ELSE prev

DoneQueued == \E i \in 1..Len(queue) : queue[i] = "done"

\* The machine's transitions: the supervisor is behind, and skips nothing; a
\* Done is followed by its undoing only.
TransitionsChain ==
    /\ mst = IF queue = <<>> THEN Taken ELSE queue[Len(queue)]
    /\ queue # <<>> /\ Taken = "done" => queue[1] = "none"
    /\ \A i \in 1..Len(queue) - 1 : queue[i] = "done" => queue[i + 1] = "none"
    /\ paired <=> mst = "done"
    /\ shown <=> prev = "done"
    /\ spc = "ensure" => prev = "done"

\* An object that is gone has no machine, no task and nothing to announce.
GoneIsGone ==
    /\ ~known => mst = "none" /\ ~listener /\ ~connected /\ spc = "recv" /\ queue = <<>>
    /\ \A u \in Unpairers : upc[u] # "idle" /\ u \notin stale => known
    /\ savedConn => saved

\* Without overlap one Unpair() runs, and nothing is about to listen.
UnpairRunsAlone ==
    NoOverlap =>
        /\ \A u, v \in Unpairers : upc[u] # "idle" /\ upc[v] # "idle" => u = v
        /\ Unpairing => /\ ~listener /\ spc = "recv" /\ ~DoneQueued
                        /\ \A c \in Connectors : cpc[c] = "idle"

\* Where an Unpair() is tells what it has undone.
UnpairIsOrderly ==
    Orderly =>
        \A u \in Unpairers :
            /\ upc[u] \in {"forget", "relisten", "clear"} => paired
            /\ upc[u] = "retire" => ~paired
            /\ u \in stale => upc[u] \in {"idle", "retire"}

\* Who listens, or is about to, does so for a paired scanner.
ListenersArePaired ==
    Orderly =>
        /\ listener \/ spc # "recv" \/ DoneQueued => paired
        /\ \A c \in Connectors : cpc[c] # "idle" => paired

\* The object's origin follows its pairing.
OriginFollows ==
    /\ Orderly /\ paired => origin = "persistent" \/ DonePending
    /\ NoOverlap /\ spc \in {"emit", "ensure"} => origin = "persistent"
    /\ doubt = {} /\ known /\ origin = "persistent"
         => paired \/ \E u \in Unpairers : upc[u] = "retire"

\* Connected follows the listener, or a failed one is about to say so.
ConnectedFollows ==
    doubt \cap {"overlap", "late_failure", "cut"} = {} =>
        /\ listener => connected /\ ~FailurePending
        /\ connected => listener \/ \E f \in Failures : fpc[f] = "announce"

\* What is stored is of a paired scanner, and says what Connected says.
StoreFollows ==
    doubt = {} =>
        /\ saved => paired
        /\ \A u \in Unpairers : upc[u] \in {"clear", "retire"} => ~saved
        /\ saved => (savedConn <=> connected) \/ FailurePending

ScannersInv ==
    /\ TypeOK /\ TransitionsChain /\ GoneIsGone /\ UnpairRunsAlone /\ UnpairIsOrderly
    /\ ListenersArePaired /\ OriginFollows /\ ConnectedFollows /\ StoreFollows

-----------------------------------------------------------------------------
(* What the queue of transitions becomes *)

\* What the supervisor takes from its queue, and what the machine adds.
LEMMA Taking ==
    ASSUME queue \in Seq(Transitions), queue # <<>>, Len(queue) <= QueueBound,
           queue' = Tail(queue)
    PROVE  /\ Head(queue) \in Transitions /\ Head(queue) = queue[1]
           /\ queue' \in Seq(Transitions) /\ Len(queue') <= QueueBound
           /\ Len(queue') = Len(queue) - 1 /\ Len(queue) \in Nat /\ Len(queue) > 0
           /\ \A i \in 1..Len(queue') : queue'[i] = queue[i + 1]
           /\ queue' = <<>> <=> Len(queue) = 1
<1>1. /\ Head(queue) \in Transitions /\ Head(queue) = queue[1]
      /\ queue' \in Seq(Transitions)
      /\ Len(queue') = Len(queue) - 1 /\ Len(queue) \in Nat /\ Len(queue) > 0
  OBVIOUS
<1>2. \A i \in 1..Len(queue') : queue'[i] = queue[i + 1]
  OBVIOUS
<1>3. queue' = <<>> <=> Len(queue) = 1
  <2>1. queue' = <<>> => Len(queue') = 0
    OBVIOUS
  <2>2. Len(queue') = 0 => queue' = <<>>
    BY <1>1, EmptySeq
  <2> QED BY <1>1, <2>1, <2>2
<1> QED BY <1>1, <1>2, <1>3, QueueAssumption

\* What the machine adds to it.
LEMMA Appending ==
    ASSUME queue \in Seq(Transitions), Len(queue) < QueueBound,
           NEW s \in Transitions, queue' = Append(queue, s)
    PROVE  /\ queue' \in Seq(Transitions) /\ Len(queue') <= QueueBound
           /\ Len(queue') = Len(queue) + 1 /\ Len(queue) \in Nat /\ queue' # <<>>
           /\ \A i \in 1..Len(queue) : queue'[i] = queue[i]
           /\ queue'[Len(queue) + 1] = s
BY QueueAssumption

-----------------------------------------------------------------------------
(* Every action keeps the invariant: one step per conjunct it disturbs, one for *)
(* those it leaves alone.                                                      *)

\* A discovery session touches no object when it starts.
LEMMA StartDiscoveryInv ==
    ASSUME ScannersInv, StartDiscovery
    PROVE  ScannersInv'
<1>1. TypeOK'
  BY DEF ScannersInv, TypeOK, StartDiscovery, entry, mach, super, store, calls
<1>2. /\ TransitionsChain' /\ GoneIsGone' /\ UnpairRunsAlone' /\ UnpairIsOrderly' /\ ListenersArePaired'
      /\ OriginFollows' /\ ConnectedFollows' /\ StoreFollows'
  BY DEF ScannersInv, TransitionsChain, GoneIsGone, UnpairRunsAlone, UnpairIsOrderly,
         ListenersArePaired, OriginFollows, ConnectedFollows, StoreFollows, Taken, NoOverlap,
         Unpairing, DoneQueued, Orderly, DonePending, FailurePending, StartDiscovery, entry,
         mach, super, store, calls
<1> QED BY <1>1, <1>2 DEF ScannersInv

\* A sighting can give an object back, with no machine's past to it.
LEMMA ObserveInv ==
    ASSUME ScannersInv, Observe
    PROVE  ScannersInv'
<1>1. TypeOK'
  BY DEF ScannersInv, TypeOK, Observe, mach, super, store, calls
<1>2. GoneIsGone'
  BY DEF ScannersInv, GoneIsGone, Observe, store
<1>3. OriginFollows'
  BY DEF ScannersInv, TransitionsChain, GoneIsGone, OriginFollows, Orderly, NoOverlap,
         DonePending, Observe, mach, super, calls
<1>4. /\ TransitionsChain' /\ UnpairRunsAlone' /\ UnpairIsOrderly' /\ ListenersArePaired'
      /\ ConnectedFollows' /\ StoreFollows'
  BY DEF ScannersInv, TransitionsChain, UnpairRunsAlone, UnpairIsOrderly, ListenersArePaired,
         ConnectedFollows, StoreFollows, Taken, NoOverlap, Unpairing, DoneQueued, Orderly,
         FailurePending, Observe, mach, super, store, calls
<1> QED BY <1>1, <1>2, <1>3, <1>4 DEF ScannersInv

\* A round that misses the scanner changes its Status alone.
LEMMA MarkUnseenOfflineInv ==
    ASSUME ScannersInv, MarkUnseenOffline
    PROVE  ScannersInv'
<1>1. TypeOK'
  BY DEF ScannersInv, TypeOK, MarkUnseenOffline, mach, super, store, calls
<1>2. /\ TransitionsChain' /\ GoneIsGone' /\ UnpairRunsAlone' /\ UnpairIsOrderly' /\ ListenersArePaired'
      /\ OriginFollows' /\ ConnectedFollows' /\ StoreFollows'
  BY DEF ScannersInv, TransitionsChain, GoneIsGone, UnpairRunsAlone, UnpairIsOrderly,
         ListenersArePaired, OriginFollows, ConnectedFollows, StoreFollows, Taken, NoOverlap,
         Unpairing, DoneQueued, Orderly, DonePending, FailurePending, MarkUnseenOffline, mach,
         super, store, calls
<1> QED BY <1>1, <1>2 DEF ScannersInv

\* The end of a session takes an unpaired object, and all that goes with it.
LEMMA EndDiscoveryInv ==
    ASSUME ScannersInv, EndDiscovery
    PROVE  ScannersInv'
<1> USE QueueAssumption DEF Opens, Window, calls, mach, store, super
<1>1. TypeOK'
  <2>1. CASE known /\ origin = "discovered"
    <3>1. /\ known' = FALSE /\ seen' = FALSE /\ listener' = FALSE /\ connected' = FALSE
          /\ paired' = FALSE /\ shown' = FALSE
          /\ UNCHANGED <<saved, savedConn, was, cpc, fpc>> /\ session' \in BOOLEAN
      BY <2>1 DEF EndDiscovery, Remove, ScannersInv, TypeOK
    <3>2. /\ origin' = "discovered" /\ status' = "online" /\ mst' = "none" /\ prev' = "none"
          /\ queue' \in Seq(Transitions) /\ Len(queue') <= QueueBound /\ spc' = "recv"
      BY <2>1 DEF EndDiscovery, Remove, Transitions
    <3>3. upc' \in [Unpairers -> {"idle", "check", "forget", "relisten", "clear", "retire"}]
      BY <2>1 DEF EndDiscovery, StaleCalls, ScannersInv, TypeOK
    <3>4. stale' \subseteq Unpairers /\ doubt' \subseteq Windows
      BY <2>1 DEF EndDiscovery, StaleCalls, Windows, ScannersInv, TypeOK
    <3> QED BY <3>1, <3>2, <3>3, <3>4 DEF Transitions, ScannersInv, TypeOK
  <2>2. CASE ~(known /\ origin = "discovered")
    BY <2>2 DEF EndDiscovery, ScannersInv, TypeOK
  <2> QED BY <2>1, <2>2
<1>2. TransitionsChain'
  BY DEF ScannersInv, TransitionsChain, Taken, EndDiscovery, Remove
<1>3. GoneIsGone' /\ UnpairRunsAlone'
  BY DEF ScannersInv, GoneIsGone, UnpairRunsAlone, EndDiscovery, Remove, StaleCalls, NoOverlap,
         Unpairing, DoneQueued
<1>4. UnpairIsOrderly'
  BY DEF ScannersInv, TypeOK, UnpairIsOrderly, Orderly, EndDiscovery, Remove, StaleCalls
<1>5. ListenersArePaired'
  BY DEF ScannersInv, ListenersArePaired, Orderly, DoneQueued, EndDiscovery, Remove
<1>6. OriginFollows'
  BY DEF ScannersInv, OriginFollows, Orderly, NoOverlap, DonePending, EndDiscovery, Remove
<1>7. ConnectedFollows' /\ StoreFollows'
  BY DEF ScannersInv, ConnectedFollows, StoreFollows, FailurePending, EndDiscovery, Remove
<1> QED BY <1>1, <1>2, <1>3, <1>4, <1>5, <1>6, <1>7 DEF ScannersInv

\* A new attempt starts from an unpaired machine: no Done is behind it in the queue.
LEMMA PairInv ==
    ASSUME ScannersInv, Pair
    PROVE  ScannersInv'
<1>1. TypeOK'
  BY QueueAssumption DEF ScannersInv, TypeOK, Pair, Transition, Room, entry, super, store,
         calls, Opens, Window, Transitions, Windows
<1>2. TransitionsChain'
  BY DEF ScannersInv, TransitionsChain, Taken, Pair, Transition, super
<1>3. GoneIsGone'
  BY DEF ScannersInv, GoneIsGone, Pair, entry, store
<1>4. UnpairRunsAlone'
  BY DEF ScannersInv, UnpairRunsAlone, NoOverlap, Unpairing, Pair, calls, Opens, Window
<1>5. UnpairIsOrderly' /\ ListenersArePaired'
  BY DEF ScannersInv, UnpairIsOrderly, ListenersArePaired, Orderly, Pair, calls, Opens,
         DoneQueued, Transition, entry, super, Window
<1>6. OriginFollows'
  BY DEF ScannersInv, OriginFollows, NoOverlap, Pair, entry, super, calls, Opens
<1>7. ConnectedFollows'
  BY DEF ScannersInv, ConnectedFollows, FailurePending, Pair, entry, calls, Opens
<1>8. StoreFollows'
  BY DEF ScannersInv, StoreFollows, Pair, store, Opens
<1> QED BY <1>1, <1>2, <1>3, <1>4, <1>5, <1>6, <1>7, <1>8 DEF ScannersInv

\* The driver's Done reaches the queue with `paired`, before the object is persistent.
LEMMA PairDoneInv ==
    ASSUME ScannersInv, PairDone
    PROVE  ScannersInv'
<1>1. TypeOK'
  BY QueueAssumption DEF ScannersInv, TypeOK, PairDone, Transition, Room, entry, super, calls,
         Opens, Window, Transitions, Windows
<1>2. TransitionsChain' /\ ListenersArePaired'
  BY DEF ScannersInv, TransitionsChain, ListenersArePaired, Taken, PairDone, Transition, super
<1>3. GoneIsGone' /\ OriginFollows'
  BY DEF ScannersInv, GoneIsGone, OriginFollows, PairDone, entry, NoOverlap, DonePending,
         Transition, super, Opens, Window
<1>4. UnpairRunsAlone'
  BY DEF ScannersInv, UnpairRunsAlone, NoOverlap, Unpairing, PairDone, calls, Opens, Window
<1>5. UnpairIsOrderly' /\ StoreFollows'
  BY DEF ScannersInv, TransitionsChain, GoneIsGone, UnpairIsOrderly, ListenersArePaired,
         ConnectedFollows, StoreFollows, Orderly, PairDone, calls, Opens, Window, Unpairing,
         FailurePending
<1>6. ConnectedFollows'
  BY DEF ScannersInv, ConnectedFollows, FailurePending, PairDone, entry, calls, Opens
<1> QED BY <1>1, <1>2, <1>3, <1>4, <1>5, <1>6 DEF ScannersInv

\* An attempt that fails was not paired when it started.
LEMMA PairEndInv ==
    ASSUME ScannersInv, PairEnd
    PROVE  ScannersInv'
<1>1. TypeOK'
  BY QueueAssumption DEF ScannersInv, TypeOK, PairEnd, Transition, Room, entry, super, store,
         calls, Transitions
<1>2. TransitionsChain'
  BY DEF ScannersInv, TransitionsChain, Taken, PairEnd, Transition, super
<1>3. GoneIsGone' /\ UnpairIsOrderly' /\ ConnectedFollows' /\ StoreFollows'
  BY DEF ScannersInv, GoneIsGone, UnpairIsOrderly, ConnectedFollows, StoreFollows, PairEnd,
         entry, store, Orderly, FailurePending, calls
<1>4. UnpairRunsAlone'
  BY DEF ScannersInv, UnpairRunsAlone, NoOverlap, Unpairing, DoneQueued, PairEnd, Transition,
         entry, super, calls
<1>5. ListenersArePaired'
  BY DEF ScannersInv, ListenersArePaired, Orderly, DoneQueued, PairEnd, Transition, entry,
         super, calls
<1>6. OriginFollows'
  BY DEF ScannersInv, OriginFollows, Orderly, NoOverlap, DonePending, PairEnd, Transition,
         entry, super, calls
<1> QED BY <1>1, <1>2, <1>3, <1>4, <1>5, <1>6 DEF ScannersInv

\* The supervisor takes one transition: the next one follows it in the chain.
LEMMA SuperviseRecvInv ==
    ASSUME ScannersInv, SuperviseRecv
    PROVE  ScannersInv'
<1> USE QueueAssumption DEF calls, entry, store
<1>1. TypeOK'
  <2>1. Head(queue) \in Transitions /\ queue' \in Seq(Transitions) /\ Len(queue') <= QueueBound
    BY Taking DEF SuperviseRecv, ScannersInv, TypeOK
  <2>2. spc' \in {"recv", "promote"} /\ prev' \in Transitions /\ shown' \in BOOLEAN
    BY <2>1 DEF SuperviseRecv, ScannersInv, TypeOK
  <2> QED BY <2>1, <2>2 DEF SuperviseRecv, ScannersInv, TypeOK
<1>2. TransitionsChain'
  <2>1. /\ Len(queue') = Len(queue) - 1 /\ Len(queue) \in Nat /\ Len(queue) > 0
        /\ \A i \in 1..Len(queue') : queue'[i] = queue[i + 1]
        /\ queue' = <<>> <=> Len(queue) = 1
    BY Taking DEF SuperviseRecv, ScannersInv, TypeOK
  <2>2. /\ Taken' = Head(queue) /\ Taken = prev /\ Head(queue) = queue[1]
    BY Taking DEF SuperviseRecv, Taken, ScannersInv, TypeOK
  <2>3. Head(queue) = "done" => prev # "done"
    BY <2>2 DEF SuperviseRecv, TransitionsChain, ScannersInv
  <2>4. mst' = IF queue' = <<>> THEN Taken' ELSE queue'[Len(queue')]
    BY <2>1, <2>2 DEF SuperviseRecv, TransitionsChain, ScannersInv
  <2>5. /\ queue' # <<>> /\ Taken' = "done" => queue'[1] = "none"
        /\ \A i \in 1..Len(queue') - 1 : queue'[i] = "done" => queue'[i + 1] = "none"
    BY <2>1, <2>2 DEF TransitionsChain, ScannersInv
  <2>6. Head(queue) \in Transitions /\ (prev = "done" => Head(queue) = "none")
    BY Taking, <2>2 DEF SuperviseRecv, TransitionsChain, ScannersInv, TypeOK
  <2>7. (shown' <=> prev' = "done") /\ (spc' = "ensure" => prev' = "done")
        /\ (paired' <=> mst' = "done")
    BY <2>3, <2>6 DEF SuperviseRecv, TransitionsChain, ScannersInv, Transitions
  <2> QED BY <2>4, <2>5, <2>7 DEF TransitionsChain
<1>3. GoneIsGone' /\ UnpairRunsAlone'
  BY DEF ScannersInv, GoneIsGone, UnpairRunsAlone, SuperviseRecv, NoOverlap, Unpairing,
         DoneQueued
<1>4. ListenersArePaired'
  BY DEF ScannersInv, ListenersArePaired, Orderly, DoneQueued, SuperviseRecv
<1>5. OriginFollows'
  <2>1. /\ Len(queue') = Len(queue) - 1 /\ Len(queue) \in Nat
        /\ \A i \in 1..Len(queue') : queue'[i] = queue[i + 1]
        /\ Head(queue) = queue[1]
    BY Taking DEF SuperviseRecv, ScannersInv, TypeOK
  <2>2. Head(queue) = "done" => prev # "done"
    BY <2>1 DEF SuperviseRecv, TransitionsChain, Taken, ScannersInv
  <2>3. DonePending => DonePending'
    <3>1. CASE Head(queue) = "done"
      BY <2>2, <3>1 DEF SuperviseRecv, DonePending
    <3>2. CASE Head(queue) # "done"
      <4>1. SUFFICES ASSUME NEW i \in 1..Len(queue), queue[i] = "done"
                     PROVE  DonePending'
        BY DEF SuperviseRecv, DonePending
      <4>2. i - 1 \in 1..Len(queue') /\ queue'[i - 1] = "done"
        BY <2>1, <3>2, <4>1
      <4> QED BY <4>2 DEF DonePending
    <3> QED BY <3>1, <3>2
  <2> QED BY <2>3 DEF SuperviseRecv, OriginFollows, Orderly, NoOverlap, ScannersInv
<1>6. UnpairIsOrderly' /\ ConnectedFollows' /\ StoreFollows'
  BY DEF ScannersInv, UnpairIsOrderly, ConnectedFollows, StoreFollows, Orderly, FailurePending,
         SuperviseRecv
<1> QED BY <1>1, <1>2, <1>3, <1>4, <1>5, <1>6 DEF ScannersInv

\* The object becomes persistent before Paired is signalled.
LEMMA PromoteInv ==
    ASSUME ScannersInv, Promote
    PROVE  ScannersInv'
<1>1. TypeOK'
  BY DEF ScannersInv, TypeOK, Promote, mach, store, calls
<1>2. TransitionsChain'
  BY DEF ScannersInv, TransitionsChain, Taken, Promote, mach
<1>3. GoneIsGone' /\ UnpairIsOrderly' /\ ConnectedFollows' /\ StoreFollows'
  BY DEF ScannersInv, GoneIsGone, UnpairIsOrderly, ConnectedFollows, StoreFollows, Promote,
         store, Orderly, FailurePending, mach, calls
<1>4. UnpairRunsAlone'
  BY DEF ScannersInv, UnpairRunsAlone, NoOverlap, Unpairing, Promote, calls
<1>5. ListenersArePaired' /\ OriginFollows'
  BY DEF ScannersInv, ListenersArePaired, OriginFollows, Orderly, Promote, mach
<1> QED BY <1>1, <1>2, <1>3, <1>4, <1>5 DEF ScannersInv

\* Paired is signalled: the Done is handled but for its listener.
LEMMA EmitInv ==
    ASSUME ScannersInv, Emit
    PROVE  ScannersInv'
<1>1. TypeOK'
  BY DEF ScannersInv, TypeOK, Emit, entry, mach, store, calls, Transitions
<1>2. TransitionsChain'
  BY DEF ScannersInv, TransitionsChain, Taken, Emit, mach
<1>3. GoneIsGone' /\ UnpairIsOrderly' /\ ConnectedFollows' /\ StoreFollows'
  BY DEF ScannersInv, GoneIsGone, UnpairIsOrderly, ConnectedFollows, StoreFollows, Emit, entry,
         store, Orderly, FailurePending, mach, calls
<1>4. UnpairRunsAlone'
  BY DEF ScannersInv, UnpairRunsAlone, NoOverlap, Unpairing, Emit, calls
<1>5. ListenersArePaired'
  BY DEF ScannersInv, ListenersArePaired, Orderly, Emit, mach
<1>6. OriginFollows'
  BY DEF ScannersInv, OriginFollows, NoOverlap, DonePending, Emit, entry, mach, calls
<1> QED BY <1>1, <1>2, <1>3, <1>4, <1>5, <1>6 DEF ScannersInv

\* The listener of a Done is started for a scanner still paired.
LEMMA SuperviseListenInv ==
    ASSUME ScannersInv, SuperviseListen
    PROVE  ScannersInv'
<1>1. TypeOK'
  BY DEF ScannersInv, TypeOK, SuperviseListen, EnsureListening, AnnounceConnected,
         SaveConnected, mach, calls, Opens, Window, Windows
<1>2. TransitionsChain'
  BY DEF ScannersInv, TransitionsChain, Taken, SuperviseListen, mach
<1>3. GoneIsGone'
  BY DEF ScannersInv, TypeOK, GoneIsGone, SuperviseListen, EnsureListening, AnnounceConnected,
         SaveConnected
<1>4. UnpairRunsAlone'
  BY DEF ScannersInv, UnpairRunsAlone, NoOverlap, Unpairing, SuperviseListen, EnsureListening,
         calls, Opens
<1>5. UnpairIsOrderly' /\ ListenersArePaired' /\ OriginFollows'
  BY DEF ScannersInv, UnpairIsOrderly, ListenersArePaired, OriginFollows, Orderly,
         SuperviseListen, EnsureListening, mach, calls, Opens, NoOverlap
<1>6. ConnectedFollows'
  BY DEF ScannersInv, ConnectedFollows, FailurePending, SuperviseListen, EnsureListening,
         AnnounceConnected, calls, Opens, Window
<1>7. StoreFollows'
  BY DEF ScannersInv, StoreFollows, FailurePending, SuperviseListen, EnsureListening,
         AnnounceConnected, SaveConnected, mach, calls, Opens
<1> QED BY <1>1, <1>2, <1>3, <1>4, <1>5, <1>6, <1>7 DEF ScannersInv

\* Connect() has checked `paired`: without overlap, nothing undoes that meanwhile.
LEMMA ConnectInv ==
    ASSUME ScannersInv, NEW c \in Connectors, Connect(c)
    PROVE  ScannersInv'
<1>1. TypeOK'
  BY DEF ScannersInv, TypeOK, Connect, entry, mach, super, store, Opens, Window, Windows
<1>2. UnpairRunsAlone'
  BY DEF ScannersInv, UnpairRunsAlone, NoOverlap, Unpairing, Connect, Opens, Window
<1>3. UnpairIsOrderly' /\ ListenersArePaired' /\ OriginFollows'
  BY DEF ScannersInv, UnpairIsOrderly, ListenersArePaired, OriginFollows, Orderly, Connect,
         mach, Opens, NoOverlap, DonePending, entry, super
<1>4. ConnectedFollows'
  BY DEF ScannersInv, ConnectedFollows, FailurePending, Connect, entry, Opens
<1>5. StoreFollows'
  BY DEF ScannersInv, StoreFollows, FailurePending, Connect, mach, store, Opens
<1>6. TransitionsChain' /\ GoneIsGone'
  BY DEF ScannersInv, TransitionsChain, GoneIsGone, Taken, Connect, entry, mach, super, store
<1> QED BY <1>1, <1>2, <1>3, <1>4, <1>5, <1>6 DEF ScannersInv

\* The listener Connect() starts is announced in the same step.
LEMMA ConnectListenInv ==
    ASSUME ScannersInv, NEW c \in Connectors, ConnectListen(c)
    PROVE  ScannersInv'
<1>1. TypeOK'
  BY DEF ScannersInv, TypeOK, ConnectListen, EnsureListening, AnnounceConnected, SaveConnected,
         mach, super, Opens, Window, Windows
<1>2. GoneIsGone'
  BY DEF ScannersInv, TypeOK, GoneIsGone, ConnectListen, EnsureListening, AnnounceConnected,
         SaveConnected, mach, super
<1>3. UnpairRunsAlone'
  BY DEF ScannersInv, UnpairRunsAlone, NoOverlap, Unpairing, ConnectListen, EnsureListening,
         Opens
<1>4. UnpairIsOrderly' /\ ListenersArePaired' /\ OriginFollows'
  BY DEF ScannersInv, UnpairIsOrderly, ListenersArePaired, OriginFollows, Orderly,
         ConnectListen, EnsureListening, mach, Opens, NoOverlap, DonePending, super
<1>5. ConnectedFollows'
  BY DEF ScannersInv, ConnectedFollows, FailurePending, ConnectListen, EnsureListening,
         AnnounceConnected, Opens, Window
<1>6. StoreFollows'
  BY DEF ScannersInv, StoreFollows, FailurePending, ConnectListen, EnsureListening,
         AnnounceConnected, SaveConnected, mach, Opens
<1>7. TransitionsChain'
  BY DEF ScannersInv, TransitionsChain, Taken, ConnectListen, mach, super
<1> QED BY <1>1, <1>2, <1>3, <1>4, <1>5, <1>6, <1>7 DEF ScannersInv

\* Disconnect() stops the listener and says so, in memory and in the store.
LEMMA DisconnectInv ==
    ASSUME ScannersInv, Disconnect
    PROVE  ScannersInv'
<1>1. TypeOK'
  BY DEF ScannersInv, TypeOK, Disconnect, StopListening, AnnounceConnected, SaveConnected, mach,
         super, calls
<1>2. GoneIsGone' /\ ConnectedFollows' /\ StoreFollows'
  BY DEF ScannersInv, GoneIsGone, ConnectedFollows, StoreFollows, Disconnect, StopListening,
         AnnounceConnected, SaveConnected, mach, calls
<1>3. UnpairRunsAlone'
  BY DEF ScannersInv, UnpairRunsAlone, NoOverlap, Unpairing, DoneQueued, Disconnect,
         StopListening, mach, super, calls
<1>4. ListenersArePaired'
  BY DEF ScannersInv, ListenersArePaired, Orderly, DoneQueued, Disconnect, StopListening, mach,
         super, calls
<1>5. TransitionsChain' /\ UnpairIsOrderly' /\ OriginFollows'
  BY DEF ScannersInv, TransitionsChain, UnpairIsOrderly, OriginFollows, Taken, Orderly,
         NoOverlap, DonePending, Disconnect, mach, super, calls
<1> QED BY <1>1, <1>2, <1>3, <1>4, <1>5 DEF ScannersInv

\* Unpair() takes the listener away first; without overlap nothing can restart it.
LEMMA UnpairInv ==
    ASSUME ScannersInv, NEW u \in Unpairers, Unpair(u)
    PROVE  ScannersInv'
<1>1. TypeOK'
  BY DEF ScannersInv, TypeOK, Unpair, Goto, StopListening, AnnounceConnected, SaveConnected,
         mach, super, Opens, Window, Windows
<1>2. GoneIsGone'
  BY DEF ScannersInv, GoneIsGone, Unpair, StopListening, AnnounceConnected, SaveConnected
<1>3. UnpairRunsAlone'
  BY DEF ScannersInv, UnpairRunsAlone, NoOverlap, Unpairing, DoneQueued, Unpair, Goto,
         StopListening, mach, super, Opens, Window, DonePending
<1>4. UnpairIsOrderly'
  BY DEF ScannersInv, UnpairIsOrderly, Orderly, Unpair, Goto, mach, Opens, Window
<1>5. ListenersArePaired'
  BY DEF ScannersInv, ListenersArePaired, Orderly, DoneQueued, Unpair, StopListening, mach,
         super, Opens
<1>6. OriginFollows'
  BY DEF ScannersInv, OriginFollows, Orderly, NoOverlap, Unpair, Goto, mach, super, Opens,
         Window
<1>7. ConnectedFollows'
  BY DEF ScannersInv, ConnectedFollows, Unpair, StopListening, AnnounceConnected
<1>8. StoreFollows'
  BY DEF ScannersInv, StoreFollows, Unpair, Goto, StopListening, AnnounceConnected,
         SaveConnected, mach, Opens, Window
<1>9. TransitionsChain'
  BY DEF ScannersInv, TransitionsChain, Taken, Unpair, mach, super
<1> QED BY <1>1, <1>2, <1>3, <1>4, <1>5, <1>6, <1>7, <1>8, <1>9 DEF ScannersInv

\* Unpair() goes on only for a paired scanner.
LEMMA UnpairCheckInv ==
    ASSUME ScannersInv, NEW u \in Unpairers, UnpairCheck(u)
    PROVE  ScannersInv'
<1>1. TypeOK'
  BY DEF ScannersInv, TypeOK, UnpairCheck, Goto, entry, mach, super, store
<1>2. GoneIsGone'
  BY DEF ScannersInv, GoneIsGone, UnpairCheck, Goto, entry, mach, super, store
<1>3. UnpairRunsAlone'
  BY DEF ScannersInv, UnpairRunsAlone, NoOverlap, Unpairing, DoneQueued, UnpairCheck, Goto,
         entry, mach, super
<1>4. UnpairIsOrderly' /\ OriginFollows'
  BY DEF ScannersInv, UnpairIsOrderly, OriginFollows, Orderly, UnpairCheck, Goto, mach,
         NoOverlap, DonePending, entry, super
<1>5. StoreFollows'
  BY DEF ScannersInv, StoreFollows, FailurePending, UnpairCheck, Goto, mach, store
<1>6. TransitionsChain' /\ ListenersArePaired' /\ ConnectedFollows'
  BY DEF ScannersInv, TransitionsChain, ListenersArePaired, ConnectedFollows, Taken, Orderly,
         DoneQueued, FailurePending, UnpairCheck, entry, mach, super
<1> QED BY <1>1, <1>2, <1>3, <1>4, <1>5, <1>6 DEF ScannersInv

\* The store forgets, or refuses and leaves what was there.
LEMMA UnpairForgetInv ==
    ASSUME ScannersInv, NEW u \in Unpairers, UnpairForget(u)
    PROVE  ScannersInv'
<1>1. TypeOK'
  BY DEF ScannersInv, TypeOK, UnpairForget, Goto, entry, mach, super, store
<1>2. GoneIsGone'
  BY DEF ScannersInv, TypeOK, GoneIsGone, UnpairForget, Goto, entry, mach, super, store
<1>3. UnpairRunsAlone'
  BY DEF ScannersInv, TypeOK, UnpairRunsAlone, NoOverlap, Unpairing, DoneQueued, UnpairForget,
         Goto, entry, mach, super
<1>4. UnpairIsOrderly' /\ OriginFollows'
  BY DEF ScannersInv, TypeOK, UnpairIsOrderly, OriginFollows, Orderly, UnpairForget, Goto, mach,
         NoOverlap, DonePending, entry, super
<1>5. StoreFollows'
  BY DEF ScannersInv, TypeOK, StoreFollows, FailurePending, UnpairForget, Goto, mach, store
<1>6. TransitionsChain' /\ ListenersArePaired' /\ ConnectedFollows'
  BY DEF ScannersInv, TransitionsChain, ListenersArePaired, ConnectedFollows, Taken, Orderly,
         DoneQueued, FailurePending, UnpairForget, entry, mach, super
<1> QED BY <1>1, <1>2, <1>3, <1>4, <1>5, <1>6 DEF ScannersInv

\* A refused Unpair() puts back the listener of a scanner that is still paired.
LEMMA UnpairRelistenInv ==
    ASSUME ScannersInv, NEW u \in Unpairers, UnpairRelisten(u)
    PROVE  ScannersInv'
<1>1. TypeOK'
  BY DEF ScannersInv, TypeOK, UnpairRelisten, Goto, EnsureListening, AnnounceConnected,
         SaveConnected, mach, super, Opens, Window, Windows
<1>2. GoneIsGone'
  BY DEF ScannersInv, TypeOK, GoneIsGone, UnpairRelisten, Goto, EnsureListening,
         AnnounceConnected, SaveConnected, mach, super
<1>3. UnpairRunsAlone'
  BY DEF ScannersInv, TypeOK, UnpairRunsAlone, NoOverlap, Unpairing, UnpairRelisten, Goto,
         EnsureListening, Opens
<1>4. UnpairIsOrderly'
  BY DEF ScannersInv, UnpairIsOrderly, Orderly, UnpairRelisten, Goto, EnsureListening,
         AnnounceConnected, SaveConnected, mach, Opens
<1>5. ListenersArePaired'
  BY DEF ScannersInv, UnpairIsOrderly, ListenersArePaired, Orderly, UnpairRelisten,
         EnsureListening, mach, Opens
<1>6. OriginFollows'
  BY DEF ScannersInv, OriginFollows, Orderly, NoOverlap, DonePending, UnpairRelisten, Goto,
         EnsureListening, AnnounceConnected, SaveConnected, mach, super, Opens
<1>7. ConnectedFollows'
  BY DEF ScannersInv, ConnectedFollows, FailurePending, UnpairRelisten, Goto, EnsureListening,
         AnnounceConnected, Opens, Window
<1>8. StoreFollows'
  BY DEF ScannersInv, StoreFollows, FailurePending, UnpairRelisten, Goto, EnsureListening,
         AnnounceConnected, SaveConnected, mach, Opens, Window
<1>9. TransitionsChain'
  BY DEF ScannersInv, TransitionsChain, Taken, UnpairRelisten, mach, super
<1> QED BY <1>1, <1>2, <1>3, <1>4, <1>5, <1>6, <1>7, <1>8, <1>9 DEF ScannersInv

\* The machine gives up `paired` after the store has.
LEMMA UnpairClearInv ==
    ASSUME ScannersInv, NEW u \in Unpairers, UnpairClear(u)
    PROVE  ScannersInv'
<1> USE QueueAssumption DEF entry, mach, store, super
<1>1. TypeOK'
  <2>1. queue' \in Seq(Transitions) /\ Len(queue') <= QueueBound /\ mst' \in Transitions
        /\ paired' \in BOOLEAN
    <3>1. CASE u \in stale
      BY <3>1 DEF UnpairClear, ScannersInv, TypeOK
    <3>2. CASE u \notin stale
      BY <3>2, Appending DEF UnpairClear, Transition, Room, Transitions, ScannersInv, TypeOK
    <3> QED BY <3>1, <3>2
  <2>2. upc' \in [Unpairers -> {"idle", "check", "forget", "relisten", "clear", "retire"}]
    BY DEF UnpairClear, Goto, ScannersInv, TypeOK
  <2> QED BY <2>1, <2>2 DEF UnpairClear, ScannersInv, TypeOK
<1>2. TransitionsChain'
  <2>1. CASE u \in stale
    BY <2>1 DEF UnpairClear, TransitionsChain, Taken, ScannersInv
  <2>2. CASE u \notin stale
    <3>1. mst' = "none" /\ ~paired' /\ queue' = Append(queue, "none") /\ Taken' = Taken
      BY <2>2 DEF UnpairClear, Transition, Taken
    <3>2. /\ Len(queue') = Len(queue) + 1 /\ Len(queue) \in Nat /\ queue' # <<>>
          /\ \A i \in 1..Len(queue) : queue'[i] = queue[i]
          /\ queue'[Len(queue) + 1] = "none"
      BY <3>1, Appending DEF Transitions, ScannersInv, TypeOK
    <3>3. Taken = "done" => queue'[1] = "none"
      BY <3>2 DEF TransitionsChain, ScannersInv, TypeOK
    <3>4. \A i \in 1..Len(queue') - 1 : queue'[i] = "done" => queue'[i + 1] = "none"
      BY <3>2 DEF TransitionsChain, ScannersInv
    <3> QED BY <3>1, <3>2, <3>3, <3>4 DEF UnpairClear, TransitionsChain, ScannersInv
  <2> QED BY <2>1, <2>2
<1>3. GoneIsGone' /\ UnpairIsOrderly' /\ StoreFollows'
  BY DEF ScannersInv, TypeOK, GoneIsGone, UnpairRunsAlone, UnpairIsOrderly, StoreFollows,
         UnpairClear, Goto, Orderly, NoOverlap
<1>4. UnpairRunsAlone'
  <2>1. ~DoneQueued => ~DoneQueued'
    <3>1. CASE u \in stale
      BY <3>1 DEF UnpairClear, DoneQueued
    <3>2. CASE u \notin stale
      BY <3>2, Appending DEF UnpairClear, Transition, DoneQueued, Transitions, ScannersInv, TypeOK
    <3> QED BY <3>1, <3>2
  <2>2. \A v \in Unpairers : upc'[v] # "idle" <=> upc[v] # "idle"
    BY DEF UnpairClear, Goto, ScannersInv, TypeOK
  <2> QED BY <2>1, <2>2 DEF UnpairClear, UnpairRunsAlone, NoOverlap, Unpairing, ScannersInv
<1>5. ListenersArePaired'
  BY DEF ScannersInv, UnpairRunsAlone, ListenersArePaired, Orderly, DoneQueued, UnpairClear,
         Transition, NoOverlap, Unpairing
<1>6. OriginFollows'
  BY DEF ScannersInv, TypeOK, OriginFollows, Orderly, NoOverlap, DonePending, UnpairClear, Goto
<1>7. ConnectedFollows'
  BY DEF ScannersInv, ConnectedFollows, FailurePending, UnpairClear
<1> QED BY <1>1, <1>2, <1>3, <1>4, <1>5, <1>6, <1>7 DEF ScannersInv

\* The object goes, or stays for the session as one discovery found.
LEMMA RetireInv ==
    ASSUME ScannersInv, NEW u \in Unpairers, Retire(u)
    PROVE  ScannersInv'
<1> USE QueueAssumption DEF mach, store, super
<1>1. TypeOK'
  <2>1. CASE known /\ ~seen
    <3>1. /\ known' = FALSE /\ seen' = FALSE /\ listener' = FALSE /\ connected' = FALSE
          /\ paired' = FALSE /\ shown' = FALSE
          /\ UNCHANGED <<saved, savedConn, was, cpc, fpc>> /\ session' \in BOOLEAN
      BY <2>1 DEF Retire, Remove, ScannersInv, TypeOK
    <3>2. /\ origin' = "discovered" /\ status' = "online" /\ mst' = "none" /\ prev' = "none"
          /\ queue' \in Seq(Transitions) /\ Len(queue') <= QueueBound /\ spc' = "recv"
      BY <2>1 DEF Retire, Remove, Transitions
    <3>3. upc' \in [Unpairers -> {"idle", "check", "forget", "relisten", "clear", "retire"}]
      BY <2>1 DEF Retire, StaleCalls, ScannersInv, TypeOK
    <3>4. stale' \subseteq Unpairers /\ doubt' \subseteq Windows
      BY <2>1 DEF Retire, StaleCalls, Windows, ScannersInv, TypeOK
    <3> QED BY <3>1, <3>2, <3>3, <3>4 DEF Transitions, ScannersInv, TypeOK
  <2>2. CASE ~(known /\ ~seen)
    BY <2>2 DEF Retire, Goto, ScannersInv, TypeOK
  <2> QED BY <2>1, <2>2
<1>2. TransitionsChain' /\ StoreFollows'
  BY DEF ScannersInv, TransitionsChain, StoreFollows, Taken, Retire, Remove
<1>3. GoneIsGone' /\ UnpairIsOrderly'
  BY DEF ScannersInv, TypeOK, GoneIsGone, UnpairIsOrderly, Retire, Goto, Remove, StaleCalls,
         Orderly
<1>4. UnpairRunsAlone'
  BY DEF ScannersInv, TypeOK, UnpairRunsAlone, NoOverlap, Unpairing, Retire, Goto, StaleCalls
<1>5. ListenersArePaired' /\ ConnectedFollows'
  BY DEF ScannersInv, UnpairRunsAlone, ListenersArePaired, ConnectedFollows, Orderly,
         DoneQueued, Retire, Remove, NoOverlap, Unpairing
<1>6. OriginFollows'
  BY DEF ScannersInv, UnpairRunsAlone, UnpairIsOrderly, OriginFollows, Orderly, NoOverlap,
         Retire, Remove, Unpairing
<1> QED BY <1>1, <1>2, <1>3, <1>4, <1>5, <1>6 DEF ScannersInv

\* A listener that gave up is no longer running, and has yet to say so.
LEMMA ListenerFailedInv ==
    ASSUME ScannersInv, NEW f \in Failures, ListenerFailed(f)
    PROVE  ScannersInv'
<1>1. TypeOK'
  BY DEF ScannersInv, TypeOK, ListenerFailed, mach, super, store
<1>2. GoneIsGone' /\ StoreFollows'
  BY DEF ScannersInv, GoneIsGone, StoreFollows, ListenerFailed, store, FailurePending, mach
<1>3. UnpairRunsAlone'
  BY DEF ScannersInv, UnpairRunsAlone, NoOverlap, Unpairing, ListenerFailed
<1>4. ListenersArePaired' /\ TransitionsChain' /\ UnpairIsOrderly' /\ OriginFollows'
  BY DEF ScannersInv, TransitionsChain, UnpairIsOrderly, ListenersArePaired, OriginFollows,
         Orderly, ListenerFailed, mach, Taken, NoOverlap, DonePending, super
<1>5. ConnectedFollows'
  BY DEF ScannersInv, TypeOK, ConnectedFollows, ListenerFailed
<1> QED BY <1>1, <1>2, <1>3, <1>4, <1>5 DEF ScannersInv

\* It says so in Connected.
LEMMA FailureAnnounceInv ==
    ASSUME ScannersInv, NEW f \in Failures, FailureAnnounce(f)
    PROVE  ScannersInv'
<1>1. TypeOK'
  BY DEF ScannersInv, TypeOK, FailureAnnounce, entry, mach, super, store
<1>2. GoneIsGone'
  BY DEF ScannersInv, GoneIsGone, FailureAnnounce, entry, mach, super, store
<1>3. ConnectedFollows'
  BY DEF ScannersInv, ConnectedFollows, FailurePending, FailureAnnounce, entry
<1>4. StoreFollows'
  BY DEF ScannersInv, StoreFollows, FailurePending, FailureAnnounce, mach, store
<1>5. /\ TransitionsChain' /\ UnpairRunsAlone' /\ UnpairIsOrderly'
      /\ ListenersArePaired' /\ OriginFollows'
  BY DEF ScannersInv, TransitionsChain, UnpairRunsAlone, UnpairIsOrderly, ListenersArePaired,
         OriginFollows, Taken, NoOverlap, Unpairing, DoneQueued, Orderly, DonePending,
         FailureAnnounce, entry, mach, super
<1> QED BY <1>1, <1>2, <1>3, <1>4, <1>5 DEF ScannersInv

\* And in the store, which may have forgotten the scanner.
LEMMA FailurePersistInv ==
    ASSUME ScannersInv, NEW f \in Failures, FailurePersist(f)
    PROVE  ScannersInv'
<1>1. TypeOK'
  BY DEF ScannersInv, TypeOK, FailurePersist, SaveConnected, entry, mach, super
<1>2. GoneIsGone'
  BY DEF ScannersInv, GoneIsGone, FailurePersist, SaveConnected, entry, mach, super
<1>3. ConnectedFollows'
  BY DEF ScannersInv, ConnectedFollows, FailurePending, FailurePersist, entry
<1>4. StoreFollows'
  BY DEF ScannersInv, TypeOK, ConnectedFollows, StoreFollows, FailurePending, FailurePersist,
         SaveConnected, mach
<1>5. /\ TransitionsChain' /\ UnpairRunsAlone' /\ UnpairIsOrderly'
      /\ ListenersArePaired' /\ OriginFollows'
  BY DEF ScannersInv, TransitionsChain, UnpairRunsAlone, UnpairIsOrderly, ListenersArePaired,
         OriginFollows, Taken, NoOverlap, Unpairing, DoneQueued, Orderly, DonePending,
         FailurePersist, entry, mach, super
<1> QED BY <1>1, <1>2, <1>3, <1>4, <1>5 DEF ScannersInv

\* A restart brings back what the store holds, as far as the backend follows.
LEMMA RestartInv ==
    ASSUME ScannersInv, NEW o \in Outcomes, Restart(o)
    PROVE  ScannersInv'
<1> USE QueueAssumption DEF Window
<1>1. TypeOK'
  <2>1. /\ {known, seen, listener, connected, paired, shown, saved, savedConn, session}' \subseteq BOOLEAN
    BY DEF Restart, ScannersInv, TypeOK
  <2>2. /\ origin' \in {"discovered", "persistent"} /\ status' \in {"online", "offline", "error"}
        /\ mst' \in Transitions /\ prev' = mst' /\ spc' = "recv" /\ doubt' \subseteq Windows
    BY DEF Restart, Transitions, Windows
  <2>3. queue' \in Seq(Transitions) /\ Len(queue') <= QueueBound
    BY DEF Restart
  <2>4. /\ upc' = [u \in Unpairers |-> "idle"] /\ was' = [u \in Unpairers |-> FALSE]
        /\ stale' = {} /\ cpc' = [c \in Connectors |-> "idle"]
        /\ fpc' = [f \in Failures |-> "idle"]
    BY DEF Restart
  <2> QED BY <2>1, <2>2, <2>3, <2>4 DEF TypeOK
<1>2. TransitionsChain'
  BY DEF ScannersInv, TransitionsChain, Taken, Restart
<1>3. GoneIsGone'
  BY DEF ScannersInv, GoneIsGone, Restart
<1>4. UnpairRunsAlone'
  BY DEF ScannersInv, UnpairRunsAlone, Unpairing, Restart
<1>5. UnpairIsOrderly'
  BY DEF ScannersInv, UnpairIsOrderly, Restart
<1>6. ListenersArePaired'
  BY DEF ScannersInv, TypeOK, ListenersArePaired, DoneQueued, Restart
<1>7. OriginFollows'
  BY DEF ScannersInv, OriginFollows, Restart
<1>8. ConnectedFollows'
  BY DEF ScannersInv, ConnectedFollows, FailurePending, Restart
<1>9. StoreFollows'
  BY DEF ScannersInv, StoreFollows, Restart
<1> QED BY <1>1, <1>2, <1>3, <1>4, <1>5, <1>6, <1>7, <1>8, <1>9 DEF ScannersInv

-----------------------------------------------------------------------------
(* The invariant, and what it says *)

\* It holds at startup of an empty store.
LEMMA InitInv == Init => ScannersInv
<1> SUFFICES ASSUME Init PROVE ScannersInv
  OBVIOUS
<1>1. TypeOK
  <2>1. queue \in Seq(Transitions) /\ Len(queue) <= QueueBound
    BY QueueAssumption DEF Init
  <2> QED BY <2>1 DEF Init, TypeOK, Transitions, Windows
<1>2. TransitionsChain
  BY DEF Init, TransitionsChain, Taken
<1>3. GoneIsGone /\ UnpairRunsAlone /\ UnpairIsOrderly
  BY DEF Init, GoneIsGone, UnpairRunsAlone, Unpairing, UnpairIsOrderly
<1>4. ListenersArePaired
  BY DEF Init, ListenersArePaired, DoneQueued
<1>5. OriginFollows /\ ConnectedFollows /\ StoreFollows
  BY DEF Init, OriginFollows, ConnectedFollows, StoreFollows
<1> QED BY <1>1, <1>2, <1>3, <1>4, <1>5 DEF ScannersInv

\* Every step of the registry, the object, the supervisor and a restart keeps it.
LEMMA StepInv == ScannersInv /\ [Next]_vars => ScannersInv'
<1> SUFFICES ASSUME ScannersInv, [Next]_vars PROVE ScannersInv'
  OBVIOUS
<1>1. CASE StartDiscovery \/ Observe \/ MarkUnseenOffline \/ EndDiscovery
  BY <1>1, StartDiscoveryInv, ObserveInv, MarkUnseenOfflineInv, EndDiscoveryInv
<1>2. CASE Pair \/ PairDone \/ PairEnd
  BY <1>2, PairInv, PairDoneInv, PairEndInv
<1>3. CASE Supervise
  BY <1>3, SuperviseRecvInv, PromoteInv, EmitInv, SuperviseListenInv DEF Supervise
<1>4. CASE \E c \in Connectors : Connect(c) \/ ConnectListen(c)
  BY <1>4, ConnectInv, ConnectListenInv
<1>5. CASE Disconnect
  BY <1>5, DisconnectInv
<1>6. CASE \E u \in Unpairers : Unpair(u) \/ UnpairStep(u)
  <2>1. PICK u \in Unpairers : Unpair(u) \/ UnpairStep(u)
    BY <1>6
  <2>2. CASE Unpair(u)
    BY <2>2, UnpairInv
  <2>3. CASE UnpairStep(u)
    BY <2>3, UnpairCheckInv, UnpairForgetInv, UnpairRelistenInv, UnpairClearInv, RetireInv
       DEF UnpairStep
  <2> QED BY <2>1, <2>2, <2>3
<1>7. CASE \E f \in Failures : ListenerFailed(f) \/ Failing(f)
  BY <1>7, ListenerFailedInv, FailureAnnounceInv, FailurePersistInv DEF Failing
<1>8. CASE \E o \in Outcomes : Restart(o)
  BY <1>8, RestartInv
<1>9. CASE UNCHANGED vars
  BY <1>9 DEF vars, ScannersInv, TypeOK, TransitionsChain, Taken, GoneIsGone,
       UnpairRunsAlone, NoOverlap, Unpairing, DoneQueued, UnpairIsOrderly, Orderly,
       ListenersArePaired, OriginFollows, DonePending, ConnectedFollows, StoreFollows,
       FailurePending
<1> QED BY <1>1, <1>2, <1>3, <1>4, <1>5, <1>6, <1>7, <1>8, <1>9 DEF Next

\* The invariant holds for ever.
LEMMA SpecInv == Spec => []ScannersInv
BY InitInv, StepInv, PTL DEF Spec

\* What it says of the object, its listener, its origin and its stored flag.
LEMMA InvAgrees == ScannersInv => ScannerAgrees
<1> SUFFICES ASSUME ScannersInv PROVE ScannerAgrees
  OBVIOUS
<1>1. ConnectionAgrees
  <2> SUFFICES ASSUME ~FailurePending PROVE ConnectionAgrees!2
    BY DEF ConnectionAgrees
  <2>1. doubt \cap {"overlap", "late_failure", "cut"} = {} => (connected <=> listener)
    BY DEF ScannersInv, TypeOK, ConnectedFollows, FailurePending
  <2>2. doubt = {} /\ saved /\ known => (savedConn <=> connected)
    BY DEF ScannersInv, StoreFollows
  <2> QED BY <2>1, <2>2
<1>2. ListenerIsPaired
  BY DEF ListenerIsPaired, ScannersInv, ListenersArePaired, Orderly
<1>3. PersistentIffPaired
  <2>1. paired => known
    BY DEF ScannersInv, TransitionsChain, GoneIsGone
  <2>2. doubt \cap {"overlap", "session_end"} = {} /\ paired
          => origin = "persistent" \/ DonePending
    BY DEF ScannersInv, OriginFollows, Orderly
  <2>3. doubt = {} /\ known /\ origin = "persistent" => paired \/ Unpairing
    BY DEF ScannersInv, OriginFollows, Unpairing
  <2> QED BY <2>1, <2>2, <2>3 DEF PersistentIffPaired
<1> QED BY <1>1, <1>2, <1>3 DEF ScannerAgrees, ScannersInv

\* What it says of a supervisor that has nothing left to receive.
LEMMA InvCatchesUp == ScannersInv => SignalsCatchUp
<1> SUFFICES ASSUME ScannersInv, spc = "recv", queue = <<>> PROVE shown = paired
  BY DEF SignalsCatchUp
<1>1. mst = prev /\ (paired <=> mst = "done") /\ (shown <=> prev = "done")
  BY DEF ScannersInv, TransitionsChain, Taken
<1>2. shown \in BOOLEAN /\ paired \in BOOLEAN
  BY DEF ScannersInv, TypeOK
<1> QED BY <1>1, <1>2

\* For any number of calls, failing listeners and transitions in flight: between
\* any two registry operations of scanners.rs and dbus/scanner.rs, Connected is
\* true exactly while a listener task runs, who listens is paired, a paired
\* object outlives the discovery session, and the store says what a restart
\* should bring back, but for the windows `doubt` names.
THEOREM ScannerAlwaysAgrees == Spec => []ScannerAgrees
BY SpecInv, InvAgrees, PTL

\* The supervisor of scanners.rs never leaves a scanner's Paired signalled as it
\* is not: with nothing left to receive, what it last said is where the machine is.
THEOREM SignalsAlwaysCatchUp == Spec => []SignalsCatchUp
BY SpecInv, InvCatchesUp, PTL
=============================================================================
