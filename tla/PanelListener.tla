--------------------------- MODULE PanelListener ---------------------------
(***************************************************************************)
(* The one socket every Brother sends its panel presses to, and the        *)
(* streams it feeds (scanbus-backend-brother/src/listener.rs).             *)
(*                                                                         *)
(* The socket lives as long as the receive task that owns it.  Calls are   *)
(* serialised by an async gate and change the table in critical sections;  *)
(* a Drop and a receive failure know the critical section and not the      *)
(* gate.  The presses themselves are left out.                             *)
(***************************************************************************)
EXTENDS Naturals, FiniteSets

CONSTANTS
    Scanners, Callers,
    Streams,    \* Subscriptions that exist at once, told apart by their epoch
    Tasks,      \* receive tasks that exist at once, each with its socket
    NoScanner, NoCaller, NoStream, NoTask

ASSUME ListenerAssumption ==
    /\ NoScanner \notin Scanners /\ NoCaller \notin Callers
    /\ NoStream \notin Streams /\ NoTask \notin Tasks

VARIABLES
    gate,      \* the caller that holds Listener.gate
    at,        \* where each call is
    op, arg,   \* what it was called for, and on which scanner
    held,      \* the handle it awaits, or has spawned and not recorded
    table,     \* State.subscribers: the stream that serves each scanner
    bound,     \* State.bound
    closing,   \* State.closing
    owner,     \* the scanner of each Subscription a consumer holds
    task,      \* what each receive task is doing
    refused,   \* history: a bind ran into a socket of our own
    doubt      \* history: the windows that opened, see Windows

calls == <<gate, at, op, arg, held>>
state == <<table, bound, closing>>
listenerVars == <<calls, state, owner, task, refused, doubt>>

\* "raced": a Drop or a failure closed the socket while a subscriber had taken
\* the parked handle and not yet joined the table.  "cut": a call was dropped while
\* it awaited a receive task.  "failed": a receive task failed, and gave up the
\* socket's slot before the socket.
Windows == {"raced", "cut", "failed"}

Subscribed == {s \in Scanners : table[s] # NoStream}

\* A socket is open until its task is dropped, whatever State says.
OpenSocket(t) == task[t] # "closed"

\* A subscriber that has taken the parked handle and not joined the table.
Joining == {c \in Callers : op[c] = "subscribe" /\ at[c] \notin {"idle", "enter"}}

FreeTask(t) ==
    /\ task[t] = "closed"
    /\ t \notin {bound, closing} /\ \A c \in Callers : held[c] # t

FreeStream(e) == owner[e] = NoScanner /\ \A s \in Scanners : table[s] # e

ListenerInit ==
    /\ gate = NoCaller
    /\ at = [c \in Callers |-> "idle"] /\ op = [c \in Callers |-> "none"]
    /\ arg = [c \in Callers |-> NoScanner] /\ held = [c \in Callers |-> NoTask]
    /\ table = [s \in Scanners |-> NoStream]
    /\ bound = NoTask /\ closing = NoTask
    /\ owner = [e \in Streams |-> NoScanner]
    /\ task = [t \in Tasks |-> "closed"]
    /\ refused = FALSE /\ doubt = {}

-----------------------------------------------------------------------------
(* Calls *)

Call(c, o, s) ==
    /\ at[c] = "idle"
    /\ o = "subscribe" =>
          \* bound: there is a Subscription to give it
          Cardinality({d \in Callers : at[d] # "idle" /\ op[d] = "subscribe"})
              < Cardinality({e \in Streams : FreeStream(e)})
    /\ at' = [at EXCEPT ![c] = "enter"]
    /\ op' = [op EXCEPT ![c] = o] /\ arg' = [arg EXCEPT ![c] = s]
    /\ UNCHANGED <<gate, held, state, owner, task, refused, doubt>>

\* The call is over; a guard it holds is dropped with it.
Return(c) ==
    /\ gate' = IF gate = c THEN NoCaller ELSE gate
    /\ at' = [at EXCEPT ![c] = "idle"] /\ held' = [held EXCEPT ![c] = NoTask]
    /\ op' = [op EXCEPT ![c] = "none"] /\ arg' = [arg EXCEPT ![c] = NoScanner]

\* Mutant: the slot is emptied and the task left running.
CloseGently == bound' = NoTask /\ UNCHANGED task

\* State::close.  An abort stops a task at its next await: one that has left its
\* loop has none.
Close ==
    /\ bound' = NoTask
    /\ task' = [t \in Tasks |->
                    IF t = bound /\ task[t] = "reading" THEN "aborted" ELSE task[t]]

\* subscribe: the gate, then the handle a Drop has parked.
EnterSubscribe(c) ==
    /\ at[c] = "enter" /\ op[c] = "subscribe" /\ gate = NoCaller
    /\ gate' = c
    /\ held' = [held EXCEPT ![c] = closing] /\ closing' = NoTask
    /\ at' = [at EXCEPT ![c] = "drain"]
    /\ UNCHANGED <<op, arg, table, bound, owner, task, refused, doubt>>

\* Mutant: a scanner that leaves takes the socket with it.
UnsubscribeAll(c) ==
    /\ at[c] = "enter" /\ op[c] = "unsubscribe" /\ gate = NoCaller
    /\ gate' = c
    /\ table' = [table EXCEPT ![arg[c]] = NoStream]
    /\ Close /\ closing' = NoTask
    /\ held' = [held EXCEPT ![c] = IF bound # NoTask THEN bound ELSE closing]
    /\ at' = [at EXCEPT ![c] = "drain"]
    /\ UNCHANGED <<op, arg, owner, refused, doubt>>

\* unsubscribe: it awaits the task of the socket it closes, or a parked one.
EnterUnsubscribe(c) ==
    /\ at[c] = "enter" /\ op[c] = "unsubscribe" /\ gate = NoCaller
    /\ gate' = c
    /\ table' = [table EXCEPT ![arg[c]] = NoStream]
    /\ closing' = NoTask
    /\ IF Subscribed \ {arg[c]} = {} /\ bound # NoTask
       THEN held' = [held EXCEPT ![c] = bound] /\ Close
       ELSE held' = [held EXCEPT ![c] = closing] /\ UNCHANGED <<bound, task>>
    /\ at' = [at EXCEPT ![c] = "drain"]
    /\ UNCHANGED <<op, arg, owner, refused, doubt>>

\* The handle resolves when the future, and the socket in it, is gone.
Drained(c) == at[c] = "drain" /\ held[c] \in {NoTask} \cup {t \in Tasks : ~OpenSocket(t)}

Unsubscribed(c) ==
    /\ Drained(c) /\ op[c] = "unsubscribe"
    /\ Return(c)
    /\ UNCHANGED <<state, owner, task, refused, doubt>>

\* Is there a socket?
Look(c) ==
    /\ Drained(c) /\ op[c] = "subscribe"
    /\ held' = [held EXCEPT ![c] = NoTask]
    /\ at' = [at EXCEPT ![c] = IF bound = NoTask THEN "bind" ELSE "insert"]
    /\ UNCHANGED <<gate, op, arg, state, owner, task, refused, doubt>>

Bind(c, t) ==
    /\ at[c] = "bind" /\ FreeTask(t)
    /\ \A u \in Tasks : ~OpenSocket(u)
    /\ task' = [task EXCEPT ![t] = "reading"]
    /\ held' = [held EXCEPT ![c] = t]
    /\ at' = [at EXCEPT ![c] = "record"]
    /\ UNCHANGED <<gate, op, arg, state, owner, refused, doubt>>

\* BindError: the port is another process's (brscan-skey), our own still, or anything
\* else; always possible.
BindFails(c) ==
    /\ at[c] = "bind"
    /\ refused' = (refused \/ \E t \in Tasks : OpenSocket(t))
    /\ Return(c)
    /\ UNCHANGED <<state, owner, task, doubt>>

\* The task was spawned before its handle is recorded.
Record(c) ==
    /\ at[c] = "record"
    /\ bound' = held[c] /\ held' = [held EXCEPT ![c] = NoTask]
    /\ at' = [at EXCEPT ![c] = "insert"]
    /\ UNCHANGED <<gate, op, arg, table, closing, owner, task, refused, doubt>>

Insert(c, e) ==
    /\ at[c] = "insert" /\ FreeStream(e)
    /\ table' = [table EXCEPT ![arg[c]] = e]
    /\ owner' = [owner EXCEPT ![e] = arg[c]]
    /\ Return(c)
    /\ UNCHANGED <<bound, closing, task, refused, doubt>>

\* The future of the call is dropped at an await, and its handle detached.
Cancel(c) ==
    /\ at[c] \in {"enter", "drain"}
    /\ Return(c)
    /\ doubt' = doubt \cup (IF held[c] # NoTask /\ OpenSocket(held[c]) THEN {"cut"} ELSE {})
    /\ UNCHANGED <<state, owner, task, refused>>

-----------------------------------------------------------------------------
(* Consumers and receive tasks *)

\* Mutant: the scanner's entry goes, whosever it is.
DropAny(e) ==
    /\ owner[e] # NoScanner
    /\ owner' = [owner EXCEPT ![e] = NoScanner]
    /\ table' = [table EXCEPT ![owner[e]] = NoStream]
    /\ IF Subscribed = {owner[e]}
       THEN Close /\ closing' = bound
       ELSE UNCHANGED <<bound, closing, task>>
    /\ UNCHANGED <<calls, refused, doubt>>

\* Mutant: the handle is dropped with the stream.
DropUnparked(e) ==
    /\ owner[e] # NoScanner
    /\ owner' = [owner EXCEPT ![e] = NoScanner]
    /\ IF table[owner[e]] # e
       THEN UNCHANGED <<state, task, doubt>>
       ELSE /\ table' = [table EXCEPT ![owner[e]] = NoStream]
            /\ IF Subscribed = {owner[e]}
               THEN /\ Close
                    /\ doubt' = doubt \cup (IF Joining # {} THEN {"raced"} ELSE {})
               ELSE UNCHANGED <<bound, task, doubt>>
            /\ UNCHANGED closing
    /\ UNCHANGED <<calls, refused>>

\* Subscription::drop, with the debug assertion compiled out.
DropStream(e) ==
    /\ owner[e] # NoScanner
    /\ owner' = [owner EXCEPT ![e] = NoScanner]
    /\ IF table[owner[e]] # e
       THEN UNCHANGED <<state, task, doubt>>
       ELSE /\ table' = [table EXCEPT ![owner[e]] = NoStream]
            /\ IF Subscribed = {owner[e]}
               THEN /\ Close /\ closing' = bound
                    /\ doubt' = doubt \cup (IF Joining # {} THEN {"raced"} ELSE {})
               ELSE UNCHANGED <<bound, closing, task, doubt>>
    /\ UNCHANGED <<calls, refused>>

\* recv_from fails and the loop is left.
ReceiveFails(t) ==
    /\ task[t] = "reading"
    /\ task' = [task EXCEPT ![t] = "failing"]
    /\ UNCHANGED <<calls, state, owner, refused, doubt>>

\* The end of receive(): every stream ends, and the slot is free.
ClearAll(t) ==
    /\ task[t] = "failing"
    /\ task' = [task EXCEPT ![t] = "ending"]
    /\ table' = [s \in Scanners |-> NoStream] /\ bound' = NoTask
    /\ doubt' = doubt \cup {"failed"} \cup (IF Joining # {} THEN {"raced"} ELSE {})
    /\ UNCHANGED <<calls, closing, owner, refused>>

\* The future is dropped, and its socket with it.
Gone(t) ==
    /\ task[t] \in {"aborted", "ending"}
    /\ task' = [task EXCEPT ![t] = "closed"]
    /\ UNCHANGED <<calls, state, owner, refused, doubt>>

ListenerNext ==
    \/ \E c \in Callers, o \in {"subscribe", "unsubscribe"}, s \in Scanners : Call(c, o, s)
    \/ \E c \in Callers :
         \/ EnterSubscribe(c) \/ EnterUnsubscribe(c) \/ Unsubscribed(c) \/ Look(c)
         \/ BindFails(c) \/ Record(c) \/ Cancel(c)
         \/ \E t \in Tasks : Bind(c, t)
         \/ \E e \in Streams : Insert(c, e)
    \/ \E e \in Streams : DropStream(e)
    \/ \E t \in Tasks : ReceiveFails(t) \/ ClearAll(t) \/ Gone(t)

\* The gate is a tokio mutex: first come, first served.  Everything else is a
\* task the runtime polls.
Fairness ==
    /\ \A c \in Callers :
         /\ SF_listenerVars(EnterSubscribe(c) \/ EnterUnsubscribe(c))
         /\ WF_listenerVars(Unsubscribed(c)) /\ WF_listenerVars(Look(c))
         /\ WF_listenerVars(Record(c))
         /\ WF_listenerVars(BindFails(c) \/ \E t \in Tasks : Bind(c, t))
         /\ WF_listenerVars(\E e \in Streams : Insert(c, e))
    /\ \A t \in Tasks : WF_listenerVars(ClearAll(t)) /\ WF_listenerVars(Gone(t))

ListenerSpec == ListenerInit /\ [][ListenerNext]_listenerVars /\ Fairness

-----------------------------------------------------------------------------
(* Properties *)

\* Types, and what the gate means: at most one call is past it, and holds it.
ListenerTypeOK ==
    /\ \A c \in Callers : at[c] \notin {"idle", "enter"} <=> gate = c
    /\ gate \in Callers \cup {NoCaller}
    /\ at \in [Callers -> {"idle", "enter", "drain", "bind", "record", "insert"}]
    /\ op \in [Callers -> {"none", "subscribe", "unsubscribe"}]
    /\ arg \in [Callers -> Scanners \cup {NoScanner}]
    /\ held \in [Callers -> Tasks \cup {NoTask}]
    /\ table \in [Scanners -> Streams \cup {NoStream}]
    /\ bound \in Tasks \cup {NoTask} /\ closing \in Tasks \cup {NoTask}
    /\ owner \in [Streams -> Scanners \cup {NoScanner}]
    /\ task \in [Tasks -> {"closed", "reading", "failing", "aborted", "ending"}]
    /\ refused \in BOOLEAN /\ doubt \subseteq Windows

\* "The socket exists exactly while this is non-empty" (the field subscribers):
\* a subscriber has a task that reads for it, and a socket has a subscriber, or
\* one that is about to join.
SocketWhileSubscribed ==
    /\ Subscribed # {} => bound # NoTask /\ task[bound] \in {"reading", "failing"}
    /\ bound # NoTask => Subscribed # {} \/ \E c \in Callers : at[c] = "insert"

\* It is so unless the last one left while another was joining.
ServedUnlessRaced == "raced" \in doubt \/ SocketWhileSubscribed

\* "No rebind is attempted while the previous socket may still be open", so that
\* a refused bind is somebody else's socket: whoever closes hands the task to
\* whoever binds next, unless a call was dropped or a socket failed in between.
RefusalIsForeign == refused => doubt # {}

\* Together: the table, the socket and the task that closes one agree, whichever
\* critical sections come in between.
SocketAgrees == ListenerTypeOK /\ ServedUnlessRaced /\ RefusalIsForeign

\* A stream whose owner still holds it is ended by a call for its scanner or
\* with the socket, never by the end of another stream.
StreamsEndForACause ==
    [][\A s \in Scanners :
         (table[s] # NoStream /\ table'[s] # table[s] /\ owner'[table[s]] = s) =>
            \/ table'[s] # NoStream
            \/ \E c \in Callers :
                  gate' = c /\ gate # c /\ op[c] = "unsubscribe" /\ arg[c] = s
            \/ \E t \in Tasks : task[t] = "failing" /\ task'[t] = "ending"]_listenerVars

\* Whatever the streams, the socket and other calls do, a call comes to its end:
\* a task that is awaited has been told to stop.
CallsReturn == \A c \in Callers : at[c] # "idle" ~> at[c] = "idle"
=============================================================================
