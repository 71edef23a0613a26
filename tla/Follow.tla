------------------------------- MODULE Follow -------------------------------
(***************************************************************************)
(* What a client that follows an object of the daemon is promised, as      *)
(* scanbus-client/src/watch.rs states it: the values it is told of are     *)
(* values the object has had, they never run ahead of the object, and they *)
(* never go back, "a client that already read `done`" is not "then told    *)
(* `pairing`".  It is not promised every value in between.                 *)
(*                                                                         *)
(* A value is a Rank, the position in the order the object runs through    *)
(* its values.                                                             *)
(***************************************************************************)
EXTENDS Integers

CONSTANTS
    Objects,    \* the objects followed
    LastRank    \* the rank of the last value an object can reach

VARIABLES
    truth,  \* truth[o]: the rank of the value o has
    told    \* told[o]: the rank of the last value the client was told

vars == <<truth, told>>

Init ==
    /\ truth = [o \in Objects |-> 0]
    /\ told = [o \in Objects |-> 0]

(* The object takes a later value. *)
Advance(o) ==
    /\ \E r \in truth[o] + 1 .. LastRank : truth' = [truth EXCEPT ![o] = r]
    /\ UNCHANGED told

(* The client is told a value the object has or has had since the last one. *)
Tell(o) ==
    /\ \E r \in told[o] + 1 .. truth[o] : told' = [told EXCEPT ![o] = r]
    /\ UNCHANGED truth

Next == \E o \in Objects : Advance(o) \/ Tell(o)

Spec == Init /\ [][Next]_vars

(* The client is never told of a value the object has not reached. *)
NeverAhead == \A o \in Objects : told[o] <= truth[o]
=============================================================================
