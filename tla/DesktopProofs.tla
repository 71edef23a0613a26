---------------------------- MODULE DesktopProofs ----------------------------
(***************************************************************************)
(* What holds of the desktop client for every instance: its options (types,*)
(* the table of the profiles, the dialog of a key, the edits that stand,   *)
(* and that the two sides agree once nothing is under way), and its mirror *)
(* of the daemon's tree, the notification of a job and the session it      *)
(* holds while it pairs.                                                   *)
(***************************************************************************)
EXTENDS Options, Mirror, TLAPS

Asked == [format : Spellings.format \cup {"unset", "any"},
          output_folder : Spellings.output_folder \cup {"unset", "any"}]
Sides == [options : [Kinds -> Maps], profile : Kinds \cup {"none"}, overrides : Maps]
Editors == [scope : {"closed", "profile", "button"}, kind : Kinds, stored : Maps]

USE DEF Kinds, Clients, Names

-----------------------------------------------------------------------------
(* What the operators of the model return *)

(* An edited map is a map. *)
LEMMA EditedMap ==
    ASSUME NEW m \in Maps, NEW n \in Names, NEW v \in Spellings[n] \cup {"unset"}
    PROVE  /\ [m EXCEPT ![n] = v] \in Maps
           /\ [m EXCEPT ![n] = v][n] = v
           /\ \A k \in Names \ {n} : [m EXCEPT ![n] = v][k] = m[k]
BY DEF Maps, Spellings

(* The two halves of a write fit each other. *)
LEMMA WriteParts ==
    ASSUME NEW w \in Writes
    PROVE  /\ w.property \in Properties
           /\ w.property \in Kinds \cup {"overrides"} => w.value \in Maps
           /\ w.property = "profile" => \E p \in Kinds \cup {"none"} : w.value = Assigned(p)
           /\ w = Write(w.property, w.value)
BY DEF Writes, Properties, Write

(* A write of a map, and of a profile. *)
LEMMA MapWrite ==
    ASSUME NEW p \in Kinds \cup {"overrides"}, NEW m \in Maps
    PROVE  Write(p, m) \in Writes
BY DEF Writes, Write, Properties

LEMMA ProfileWrite ==
    ASSUME NEW p \in Kinds \cup {"none"}
    PROVE  Write("profile", Assigned(p)) \in Writes
BY DEF Writes, Write

(* A side read at a property gives a value that fits the property. *)
LEMMA ReadsFits ==
    ASSUME NEW side \in Sides, NEW p \in Properties
    PROVE  /\ p \in Kinds \cup {"overrides"} => Reads(side, p) \in Maps
           /\ Write(p, Reads(side, p)) \in Writes
BY DEF Reads, Sides, Properties, Writes, Write

(* A side in which a property has changed is a side. *)
LEMMA WithFits ==
    ASSUME NEW side \in Sides, NEW w \in Writes
    PROVE  With(side, w.property, w.value) \in Sides
<1>1. CASE w.property \in Kinds
  BY <1>1, WriteParts DEF With, Sides
<1>2. CASE w.property = "profile"
  BY <1>2, WriteParts DEF With, Sides, Assigned
<1>3. CASE w.property = "overrides"
  BY <1>3, WriteParts DEF With, Sides
<1> QED BY <1>1, <1>2, <1>3, WriteParts DEF Properties

(* An editor that has rendered is closed, or what it was on what the side  *)
(* holds; a dialog that stays open fits the side.                          *)
LEMMA Rendering ==
    ASSUME NEW e \in Editors, NEW side \in Sides
    PROVE  LET r == Render(e, side) IN
           /\ r \in Editors
           /\ r.scope # "closed" => /\ r.scope = e.scope /\ r.kind = e.kind
                                    /\ Target(r) = Target(e)
           /\ r.scope = "button" => side.profile = r.kind
<1> DEFINE r == Render(e, side)
<1>1. CASE e.scope = "closed"
  BY <1>1 DEF Render, Editors, Closed, Maps, Empty, Spellings
<1>2. CASE e.scope = "profile"
  BY <1>2 DEF Render, Editors, Sides, Target
<1>3. CASE e.scope = "button" /\ side.profile = e.kind
  BY <1>3 DEF Render, Editors, Sides, Target
<1>4. CASE e.scope = "button" /\ side.profile # e.kind
  BY <1>4 DEF Render, Editors, Closed, Maps, Empty, Spellings
<1> QED BY <1>1, <1>2, <1>3, <1>4 DEF Editors

LEMMA Constants ==
    /\ Empty \in Maps /\ Closed \in Editors /\ Nothing \in Asked
    /\ \A kind \in Kinds : StoredDefaults(kind) \in Maps
BY DEF Empty, Maps, Closed, Editors, Nothing, Asked, StoredDefaults, Fallback, Spellings

(* What is still shown of what was asked. *)
LEMMA StillShownFits ==
    ASSUME meant \in Asked, NEW e \in Editors
    PROVE  /\ StillShown(e) \in Asked
           /\ e.scope = "closed" => StillShown(e) = Nothing
           /\ \A n \in Names : StillShown(e)[n] # "any"
                  => StillShown(e)[n] = meant[n] /\ e.stored[n] = meant[n]
BY DEF StillShown, Asked, Nothing, Spellings

LEMMA DaemonFits == ASSUME TypeOK PROVE Daemon \in Sides
BY DEF TypeOK, Daemon, Sides

(* What a call carries is a write. *)
LEMMA CallFits ==
    ASSUME TypeOK, NEW c \in Clients, call[c].at # "idle"
    PROVE  LET w == call[c].write IN
           /\ w \in Writes
           /\ w.property \in Properties
           /\ w.property \in Kinds \cup {"overrides"} => w.value \in Maps
           /\ w.property = "profile" => \E p \in Kinds \cup {"none"} : w.value = Assigned(p)
BY WriteParts DEF TypeOK

(* A setter that is applied leaves a daemon of the right type. *)
LEMMA MovedFits ==
    ASSUME TypeOK, NEW c \in Clients, call[c].at # "idle",
           Moved(call[c].write.property, call[c].write.value)
    PROVE  /\ options' \in [Kinds -> Maps]
           /\ key' \in [profile : Kinds \cup {"none"}, overrides : Maps]
<1> DEFINE p == call[c].write.property
<1>1. CASE p \in Kinds
  BY <1>1, CallFits DEF TypeOK, Moved
<1>2. CASE p = "profile"
  BY <1>2, CallFits DEF TypeOK, Moved, Assigned
<1>3. CASE p = "overrides"
  BY <1>3, CallFits DEF TypeOK, Moved
<1> QED BY <1>1, <1>2, <1>3, CallFits DEF Properties

-----------------------------------------------------------------------------
(* Types *)

LEMMA SetterTyped ==
    ASSUME TypeOK, NEW c \in Clients, Setter(c)
    PROVE  TypeOK'
<1> DEFINE w == call[c].write
<1> USE DEF Asked, Editors, Sides, daemon, desktop
<1>a. Superseded(c, w.property) \in Asked
  BY Constants DEF TypeOK, Superseded
<1>b. Render(editor, store) \in Editors
  BY Rendering DEF TypeOK
<1>1. CASE Set(c)
  <2>1. /\ options' \in [Kinds -> Maps]
        /\ key' \in [profile : Kinds \cup {"none"}, overrides : Maps]
    BY <1>1, MovedFits DEF Set
  <2>2. call' \in [Clients -> Calls]
    <3>1. [call[c] EXCEPT !.at = "moved"] \in Calls
      BY DEF TypeOK, Calls
    <3> QED BY <1>1, <3>1 DEF Set, TypeOK
  <2>3. \A d \in Clients : call'[d].at # "idle" => call'[d].write \in Writes
    <3> TAKE d \in Clients
    <3>1. call'[d].write = call[d].write /\ (d # c => call'[d].at = call[d].at)
      BY <1>1 DEF Set, TypeOK, Calls
    <3>2. call[c].at # "idle"
      BY <1>1 DEF Set
    <3> QED BY <3>1, <3>2 DEF TypeOK
  <2> QED BY <1>1, <1>a, <2>1, <2>2, <2>3 DEF TypeOK, Set
<1>2. CASE Refuse(c)
  <2>1. editor' \in Editors /\ meant' \in Asked /\ script' \in Seq(Writes)
    <3>1. CASE c = "gui"
      BY <1>2, <3>1, <1>b, Constants DEF Refuse, Answered, TypeOK
    <3>2. CASE c = "cli"
      BY <1>2, <3>2, Constants DEF Refuse, Answered, TypeOK
    <3> QED BY <3>1, <3>2
  <2> QED BY <1>2, <2>1 DEF TypeOK, Refuse, Calls, NoCall
<1>3. CASE MoveUnsaved(c)
  <2>1. editor' \in Editors /\ meant' \in Asked /\ script' \in Seq(Writes)
    <3>1. CASE c = "gui"
      BY <1>3, <3>1, <1>b, Constants DEF MoveUnsaved, Answered, TypeOK
    <3>2. CASE c = "cli"
      BY <1>3, <3>2, <1>a, Constants DEF MoveUnsaved, Answered, TypeOK
    <3> QED BY <3>1, <3>2
  <2>2. /\ options' \in [Kinds -> Maps]
        /\ key' \in [profile : Kinds \cup {"none"}, overrides : Maps]
    BY <1>3, MovedFits DEF MoveUnsaved
  <2>3. behind' \subseteq Properties
    BY <1>3, CallFits DEF MoveUnsaved, TypeOK
  <2>4. /\ call' \in [Clients -> Calls]
        /\ \A d \in Clients : call'[d].at # "idle" => call'[d].write \in Writes
    BY <1>3 DEF MoveUnsaved, TypeOK, Calls, NoCall
  <2> QED BY <1>3, <2>1, <2>2, <2>3, <2>4 DEF TypeOK, MoveUnsaved
<1>4. CASE ReadBack(c)
  <2>1. Write(w.property, Reads(Daemon, w.property)) \in Writes
    BY <1>4, CallFits, ReadsFits, DaemonFits DEF ReadBack
  <2>2. /\ call' \in [Clients -> Calls]
        /\ \A d \in Clients : call'[d].at # "idle" => call'[d].write \in Writes
    BY <1>4, <2>1 DEF ReadBack, TypeOK, Calls
  <2> QED BY <1>4, <2>2 DEF TypeOK, ReadBack
<1>5. CASE Announce(c)
  <2>1. wire' \in Seq(Writes) /\ behind' \subseteq Properties
    BY <1>5, CallFits DEF Announce, TypeOK
  <2>2. /\ call' \in [Clients -> Calls]
        /\ \A d \in Clients : call'[d].at # "idle" => call'[d].write \in Writes
    BY <1>5 DEF Announce, TypeOK, Calls, NoCall
  <2> QED BY <1>5, <2>1, <2>2 DEF TypeOK, Announce
<1> QED BY <1>1, <1>2, <1>3, <1>4, <1>5 DEF Setter

(* An edit: the editor keeps the map it sends. *)
LEMMA EditTyped ==
    ASSUME TypeOK, Edit
    PROVE  TypeOK'
<1> USE DEF Asked, Editors, Sides, daemon, desktop
<1>1. ASSUME NEW n \in Names, NEW v \in Spellings[n] \cup {"unset"},
             editor' = [editor EXCEPT !.stored = [editor.stored EXCEPT ![n] = v]],
             Emit([editor.stored EXCEPT ![n] = v], n), Change,
             UNCHANGED <<daemon, call, wire, store, script, behind>>
      PROVE  TypeOK'
  <2> DEFINE map == [editor.stored EXCEPT ![n] = v]
  <2>1. editor.stored \in Maps
    BY DEF TypeOK
  <2>2. map \in Maps /\ map[n] = v
    BY <2>1, EditedMap
  <2>3. editor' \in Editors
    BY <1>1, <2>2 DEF TypeOK
  <2>4. Target(editor) \in Kinds \cup {"overrides"}
    BY DEF Target, TypeOK
  <2>5. queue' \in Seq(Writes)
    BY <1>1, <2>2, <2>4, MapWrite DEF Emit, TypeOK
  <2>6. meant' \in Asked
    BY <1>1, <2>2 DEF Emit, TypeOK, Spellings
  <2> QED BY <1>1, <2>3, <2>5, <2>6, ChangesAssumption DEF TypeOK, Change
<1>2. ASSUME NEW n \in Names, Commit(n)
      PROVE  TypeOK'
  <2>1. PICK v \in Declared(editor.kind)[n] \ {"blank"} :
            /\ editor' = [editor EXCEPT !.stored = [editor.stored EXCEPT ![n] = v]]
            /\ Emit([editor.stored EXCEPT ![n] = v], n)
    BY <1>2 DEF Commit
  <2>2. v \in Spellings[n]
    BY <2>1 DEF Declared, Spellings
  <2> QED BY <1>1, <1>2, <2>1, <2>2 DEF Commit
<1>3. ASSUME NEW n \in Names, Clear(n)
      PROVE  TypeOK'
  BY <1>1, <1>3 DEF Clear
<1>4. CASE Assign
  <2>1. queue' \in Seq(Writes)
    BY <1>4, ProfileWrite DEF Assign, TypeOK
  <2> QED BY <1>4, <2>1, ChangesAssumption DEF TypeOK, Assign, Change
<1> QED BY <1>2, <1>3, <1>4 DEF Edit

(* The rest of the desktop client. *)
LEMMA DesktopTyped ==
    ASSUME TypeOK, Desktop
    PROVE  TypeOK'
<1> USE DEF Asked, Editors, Sides, daemon, desktop
<1>a. \A kind \in Kinds, scope \in {"profile", "button"} :
          Render([scope |-> scope, kind |-> kind, stored |-> Empty], store) \in Editors
  <2> TAKE kind \in Kinds, scope \in {"profile", "button"}
  <2>1. [scope |-> scope, kind |-> kind, stored |-> Empty] \in Editors
    BY Constants
  <2> QED BY <2>1, Rendering DEF TypeOK
<1>1. CASE Open
  BY <1>1, <1>a, Constants DEF Open, TypeOK
<1>2. CASE Close
  BY <1>2, Constants DEF Close, TypeOK
<1>3. CASE Edit
  BY <1>3, EditTyped
<1>4. CASE Send
  <2>1. Head(queue) \in Writes /\ Tail(queue) \in Seq(Writes)
    BY <1>4 DEF Send, TypeOK
  <2>2. call' \in [Clients -> Calls]
    BY <1>4, <2>1 DEF Send, TypeOK, Calls
  <2>3. \A d \in Clients : call'[d].at # "idle" => call'[d].write \in Writes
    BY <1>4, <2>1 DEF Send, TypeOK
  <2> QED BY <1>4, <2>1, <2>2, <2>3 DEF Send, TypeOK
<1>5. CASE Receive
  <2>1. Head(wire) \in Writes /\ Tail(wire) \in Seq(Writes)
    BY <1>5 DEF Receive, TypeOK
  <2>2. store' \in Sides
    BY <1>5, <2>1, WithFits DEF Receive, TypeOK
  <2>3. editor' \in Editors
    BY <1>5, <2>2, Rendering DEF Receive, TypeOK
  <2>4. meant' \in Asked
    BY <1>5, <2>3, StillShownFits DEF Receive, TypeOK
  <2> QED BY <1>5, <2>1, <2>2, <2>3, <2>4 DEF Receive, TypeOK
<1>6. CASE RenderAgain
  <2>1. editor' \in Editors
    BY <1>6, Rendering DEF RenderAgain, TypeOK
  <2>2. meant' \in Asked
    BY <1>6, <2>1, StillShownFits DEF RenderAgain, TypeOK
  <2> QED BY <1>6, <2>1, <2>2 DEF RenderAgain, TypeOK
<1> QED BY <1>1, <1>2, <1>3, <1>4, <1>5, <1>6 DEF Desktop

(* The command line. *)
LEMMA CommandLineTyped ==
    ASSUME TypeOK, CommandLine
    PROVE  TypeOK'
<1> USE DEF Asked, Editors, Sides, daemon, desktop
<1>a. \A n \in Names : \A v \in Spellings[n] : [Empty EXCEPT ![n] = v] \in Maps
  BY EditedMap, Constants
<1>1. CASE ProfileSet
  <2>1. PICK kind \in Kinds, n \in Names : \E v \in Spellings[n] :
            script' = <<Write(kind, [options[kind] EXCEPT ![n] = v])>>
    BY <1>1 DEF ProfileSet
  <2>2. PICK v \in Spellings[n] :
            script' = <<Write(kind, [options[kind] EXCEPT ![n] = v])>>
    BY <2>1
  <2>3. [options[kind] EXCEPT ![n] = v] \in Maps
    BY EditedMap DEF TypeOK
  <2>4. script' \in Seq(Writes)
    BY <2>2, <2>3, MapWrite
  <2> QED BY <1>1, <2>4, ChangesAssumption DEF ProfileSet, Change, TypeOK
<1>2. CASE ButtonSet
  <2>1. \A m \in Maps : Write("overrides", m) \in Writes
    BY MapWrite
  <2>2. script' \in Seq(Writes)
    <3>1. ASSUME NEW n \in Names, NEW v \in Spellings[n]
          PROVE  Write("overrides", [Empty EXCEPT ![n] = v]) \in Writes
      BY <1>a, <2>1
    <3>2. Write("overrides", Empty) \in Writes
      BY <2>1, Constants
    <3>3. CASE \E p \in Kinds : script' = <<Write("profile", Assigned(p))>>
      BY <3>3, ProfileWrite
    <3>4. CASE \E n \in Names : \E v \in Spellings[n] :
                  script' = <<Write("overrides", [Empty EXCEPT ![n] = v])>>
      BY <3>4, <3>1
    <3>5. CASE \E n \in Names : \E v \in Spellings[n] : \E p \in Kinds :
                  script' = <<Write("profile", Assigned(p)),
                              Write("overrides", [Empty EXCEPT ![n] = v])>>
      BY <3>5, <3>1, ProfileWrite
    <3>6. CASE script' = <<Write("profile", Assigned("none")), Write("overrides", Empty)>>
      BY <3>6, <3>2, ProfileWrite
    <3> QED BY <1>2, <3>3, <3>4, <3>5, <3>6 DEF ButtonSet
  <2> QED BY <1>2, <2>2, ChangesAssumption DEF ButtonSet, Change, TypeOK
<1>3. CASE WriteNext
  <2>1. Head(script) \in Writes /\ Tail(script) \in Seq(Writes)
    BY <1>3 DEF WriteNext, TypeOK
  <2>2. call' \in [Clients -> Calls]
    BY <1>3, <2>1 DEF WriteNext, TypeOK, Calls
  <2>3. \A d \in Clients : call'[d].at # "idle" => call'[d].write \in Writes
    BY <1>3, <2>1 DEF WriteNext, TypeOK
  <2> QED BY <1>3, <2>1, <2>2, <2>3 DEF WriteNext, TypeOK
<1> QED BY <1>1, <1>2, <1>3 DEF CommandLine

(* Every variable keeps its type, for any number of changes. *)
THEOREM TypeCorrect == Spec => []TypeOK
<1>1. Init => TypeOK
  <2> SUFFICES ASSUME Init PROVE TypeOK
    OBVIOUS
  <2>1. /\ options \in [Kinds -> Maps]
        /\ key \in [profile : Kinds \cup {"none"}, overrides : Maps]
    BY Constants DEF Init
  <2>2. call \in [Clients -> Calls] /\ \A c \in Clients : call[c].at = "idle"
    BY DEF Init, Calls, NoCall
  <2>3. store \in Sides
    BY <2>1 DEF Init, Daemon, Sides
  <2> QED BY <2>1, <2>2, <2>3, Constants, ChangesAssumption
      DEF Init, TypeOK, Sides, Editors, Asked
<1>2. TypeOK /\ [Next]_vars => TypeOK'
  <2> SUFFICES ASSUME TypeOK, [Next]_vars PROVE TypeOK'
    OBVIOUS
  <2>1. CASE UNCHANGED vars
    BY <2>1 DEF vars, TypeOK
  <2> QED BY <2>1, SetterTyped, DesktopTyped, CommandLineTyped DEF Next
<1> QED BY <1>1, <1>2, PTL DEF Spec

-----------------------------------------------------------------------------
(* The table of the profiles, and the dialog of a key *)

(* What a setter does to the daemon: nothing, or one accepted write. *)
LEMMA SetterMoves ==
    ASSUME NEW c \in Clients, Setter(c)
    PROVE  \/ UNCHANGED daemon
           \/ /\ call[c].at = "sent"
              /\ Accepts(call[c].write.property, call[c].write.value)
              /\ Moved(call[c].write.property, call[c].write.value)
BY DEF Setter, Set, Refuse, MoveUnsaved, ReadBack, Announce, daemon

(* Only a setter moves the daemon. *)
LEMMA ClientsDoNotMove ==
    ASSUME Desktop \/ CommandLine
    PROVE  UNCHANGED daemon
BY DEF Desktop, Edit, Open, Close, Commit, Clear, Assign, Send, Receive, RenderAgain,
       CommandLine, ProfileSet, ButtonSet, WriteNext, daemon

(* Profile1.Options passes its own table whoever wrote it, so that no      *)
(* processor refuses what the profile alone gives it.                      *)
THEOREM ProfilesStayValid == Spec => []ProfilesAreValid
<1>1. Init => ProfilesAreValid
  BY DEF Init, ProfilesAreValid, Validate, StoredDefaults, Fallback, Declared
<1>2. TypeOK /\ ProfilesAreValid /\ [Next]_vars => ProfilesAreValid'
  <2> SUFFICES ASSUME TypeOK, ProfilesAreValid, [Next]_vars PROVE ProfilesAreValid'
    OBVIOUS
  <2>1. CASE UNCHANGED options
    BY <2>1 DEF ProfilesAreValid
  <2>2. ASSUME NEW c \in Clients, Setter(c), options' # options
        PROVE  ProfilesAreValid'
    <3> DEFINE w == call[c].write
    <3>1. Accepts(w.property, w.value) /\ Moved(w.property, w.value)
      BY <2>2, SetterMoves DEF daemon
    <3>2. w.property \in Kinds /\ options' = [options EXCEPT ![w.property] = w.value]
      BY <2>2, <3>1 DEF Moved
    <3>3. Validate(w.property, w.value)
      BY <3>1, <3>2 DEF Accepts
    <3> QED BY <3>2, <3>3 DEF ProfilesAreValid, TypeOK
  <2> QED BY <2>1, <2>2, ClientsDoNotMove DEF Next, vars, daemon
<1> QED BY <1>1, <1>2, TypeCorrect, PTL DEF Spec

(* A key's dialog is open for the profile its key is shown to run, also    *)
(* when the profile moves while an edit of the dialog is on its way.       *)
THEOREM DialogStaysFitting == Spec => []DialogFits
<1>1. Init => DialogFits
  BY DEF Init, DialogFits, Closed
<1>2. TypeOK /\ DialogFits /\ [Next]_vars => DialogFits'
  <2> SUFFICES ASSUME TypeOK, DialogFits, [Next]_vars PROVE DialogFits'
    OBVIOUS
  <2> USE DEF Editors, Sides
  <2>1. CASE UNCHANGED <<editor, store>>
    BY <2>1 DEF DialogFits
  <2>2. CASE UNCHANGED store /\ editor' = Render(editor, store)
    BY <2>2, Rendering DEF DialogFits, TypeOK
  <2>3. ASSUME NEW c \in Clients, Setter(c)
        PROVE  DialogFits'
    BY <2>1, <2>2, <2>3
       DEF Setter, Set, Refuse, MoveUnsaved, ReadBack, Announce, Answered, desktop
  <2>4. CASE Open
    <3>1. PICK kind \in Kinds, scope \in {"profile", "button"} :
              editor' = Render([scope |-> scope, kind |-> kind, stored |-> Empty], store)
      BY <2>4 DEF Open
    <3>2. [scope |-> scope, kind |-> kind, stored |-> Empty] \in Editors
      BY Constants
    <3> QED BY <2>4, <3>1, <3>2, Rendering DEF Open, DialogFits, TypeOK
  <2>5. CASE Close
    BY <2>5 DEF Close, DialogFits, Closed
  <2>6. CASE Edit
    BY <2>6 DEF Edit, Commit, Clear, Assign, DialogFits, TypeOK
  <2>7. CASE Receive
    <3>1. Head(wire) \in Writes
      BY <2>7 DEF Receive, TypeOK
    <3>2. store' \in Sides
      BY <2>7, <3>1, WithFits DEF Receive, TypeOK
    <3> QED BY <2>7, <3>2, Rendering DEF Receive, DialogFits, TypeOK
  <2>8. CASE Send \/ RenderAgain
    BY <2>1, <2>2, <2>8 DEF Send, RenderAgain
  <2>9. CASE CommandLine \/ UNCHANGED vars
    BY <2>1, <2>9 DEF CommandLine, ProfileSet, ButtonSet, WriteNext, vars, desktop
  <2> QED BY <2>3, <2>4, <2>5, <2>6, <2>7, <2>8, <2>9 DEF Next, Desktop
<1> QED BY <1>1, <1>2, TypeCorrect, PTL DEF Spec

-----------------------------------------------------------------------------
(* Edits stand                                                             *)
(*                                                                         *)
(* EditsStand speaks of a moment when nothing is under way.  Before that,  *)
(* the newest map of the edited property is the last one queued, else the  *)
(* one being carried, else the daemon's; and what was asked is in it and   *)
(* in the editor, which is where the next edit takes it from.              *)

NoneQueued(T) == \A i \in 1..Len(queue) : queue[i].property # T
Carried(T) == call["gui"].at = "sent" /\ call["gui"].write.property = T

LastQueued(T, n, v) ==
    \E i \in 1..Len(queue) : /\ queue[i].property = T /\ queue[i].value[n] = v
                             /\ \A k \in 1..Len(queue) : k > i => queue[k].property # T

Newest(T, n, v) ==
    \/ LastQueued(T, n, v)
    \/ NoneQueued(T) /\ Carried(T) /\ call["gui"].write.value[n] = v
    \/ NoneQueued(T) /\ ~Carried(T) /\ Reads(Daemon, T)[n] = v

EditsArrive ==
    /\ editor.scope = "closed" => meant = Nothing
    /\ \A n \in Names : meant[n] # "any" => /\ editor.stored[n] = meant[n]
                                            /\ Newest(Target(editor), n, meant[n])

LEMMA TargetFits ==
    ASSUME NEW e \in Editors PROVE Target(e) \in Kinds \cup {"overrides"}
BY DEF Target, Editors

(* An edit is the last write queued, and says what its map says. *)
LEMMA NewestQueued ==
    ASSUME queue \in Seq(Writes), NEW w \in Writes, queue' = Append(queue, w),
           NEW n \in Names
    PROVE  Newest(w.property, n, w.value[n])'
<1>1. /\ Len(queue') = Len(queue) + 1 /\ Len(queue) \in Nat
      /\ queue'[Len(queue) + 1] = w
  OBVIOUS
<1> QED BY <1>1 DEF Newest, LastQueued

(* Taking a write off the queue leaves the newest map where it was. *)
LEMMA NewestSent ==
    ASSUME TypeOK, Send, NEW T \in Kinds \cup {"overrides"}, NEW n \in Names, NEW v,
           Newest(T, n, v)
    PROVE  Newest(T, n, v)'
<1>1. /\ queue \in Seq(Writes) /\ queue # <<>> /\ queue' = Tail(queue)
      /\ call'["gui"] = [at |-> "sent", write |-> Head(queue)]
      /\ ~Carried(T)
  BY DEF Send, TypeOK, Carried
<1>2. /\ Len(queue) \in Nat \ {0} /\ Len(queue') = Len(queue) - 1
      /\ \A i \in 1..Len(queue') : queue'[i] = queue[i + 1]
      /\ Head(queue) = queue[1]
  BY <1>1
<1>3. Reads(Daemon, T)' = Reads(Daemon, T)
  BY DEF Send, daemon, Daemon, Reads
<1>4. CASE LastQueued(T, n, v)
  <2>1. PICK i \in 1..Len(queue) :
            /\ queue[i].property = T /\ queue[i].value[n] = v
            /\ \A k \in 1..Len(queue) : k > i => queue[k].property # T
    BY <1>4 DEF LastQueued
  <2>2. CASE i = 1
    <3>1. NoneQueued(T)'
      BY <1>2, <2>1, <2>2 DEF NoneQueued
    <3> QED BY <1>1, <1>2, <2>1, <2>2, <3>1 DEF Newest, Carried
  <2>3. CASE i > 1
    <3>1. PICK j \in 1..Len(queue') : i = j + 1
      <4>1. i - 1 \in 1..Len(queue')
        BY <1>2, <2>1, <2>3
      <4> QED BY <4>1, <2>1
    <3>2. queue'[j] = queue[i]
      BY <1>2, <3>1
    <3>3. ASSUME NEW k \in 1..Len(queue'), k > j
          PROVE  queue'[k].property # T
      <4>1. k + 1 \in 1..Len(queue) /\ k + 1 > i
        BY <1>2, <3>1, <3>3
      <4> QED BY <4>1, <1>2, <2>1
    <3>4. LastQueued(T, n, v)'
      BY <2>1, <3>2, <3>3 DEF LastQueued
    <3> QED BY <3>4 DEF Newest
  <2> QED BY <2>2, <2>3
<1>5. CASE NoneQueued(T) /\ Reads(Daemon, T)[n] = v
  <2>1. NoneQueued(T)' /\ Head(queue).property # T
    BY <1>2, <1>5 DEF NoneQueued
  <2> QED BY <1>1, <1>3, <1>5, <2>1 DEF Newest, Carried
<1> QED BY <1>1, <1>4, <1>5 DEF Newest

(* A setter applied to one property leaves what the others read. *)
LEMMA MovedReads ==
    ASSUME TypeOK, NEW c \in Clients, call[c].at # "idle",
           Moved(call[c].write.property, call[c].write.value),
           NEW T \in Kinds \cup {"overrides"}
    PROVE  Reads(Daemon, T)' = IF call[c].write.property = T THEN call[c].write.value
                               ELSE Reads(Daemon, T)
<1> DEFINE w == call[c].write
<1>1. w.property \in Properties
  BY CallFits
<1>2. CASE w.property \in Kinds
  BY <1>2 DEF Moved, Reads, Daemon, TypeOK
<1>3. CASE w.property = "profile"
  BY <1>3 DEF Moved, Reads, Daemon, TypeOK
<1>4. CASE w.property = "overrides"
  BY <1>4 DEF Moved, Reads, Daemon, TypeOK
<1> QED BY <1>1, <1>2, <1>3, <1>4 DEF Properties

(* A setter of the desktop client's carries its map into the daemon, and   *)
(* one of another property, or of the command line's, leaves it alone.     *)
LEMMA NewestSet ==
    ASSUME TypeOK, NEW c \in Clients, Setter(c),
           NEW T \in Kinds \cup {"overrides"}, NEW n \in Names, NEW v,
           Newest(T, n, v),
           c = "gui" => Set(c) \/ ReadBack(c) \/ Announce(c),
           c = "cli" => UNCHANGED daemon \/ call[c].write.property # T
    PROVE  Newest(T, n, v)'
<1> DEFINE w == call[c].write
<1> USE DEF desktop
<1>1. UNCHANGED queue
  BY DEF Setter, Set, Refuse, MoveUnsaved, ReadBack, Announce
<1>2. (LastQueued(T, n, v)' <=> LastQueued(T, n, v)) /\ (NoneQueued(T)' <=> NoneQueued(T))
  BY <1>1 DEF LastQueued, NoneQueued
<1>3. UNCHANGED daemon => Reads(Daemon, T)' = Reads(Daemon, T)
  BY DEF daemon, Daemon, Reads
<1>4. CASE c = "cli"
  <2>1. call'["gui"] = call["gui"]
    BY <1>4 DEF Setter, Set, Refuse, MoveUnsaved, ReadBack, Announce, TypeOK
  <2>2. Reads(Daemon, T)' = Reads(Daemon, T)
    BY <1>3, <1>4, SetterMoves, MovedReads
  <2> QED BY <1>2, <2>1, <2>2 DEF Newest, Carried
<1>5. CASE c = "gui" /\ Set(c)
  <2>1. ~Carried(T)' /\ (Carried(T) <=> w.property = T)
    BY <1>5 DEF Set, Carried, TypeOK, Calls
  <2>2. Reads(Daemon, T)' = IF w.property = T THEN w.value ELSE Reads(Daemon, T)
    BY <1>5, MovedReads DEF Set
  <2> QED BY <1>2, <1>5, <2>1, <2>2 DEF Newest
<1>6. CASE c = "gui" /\ (ReadBack(c) \/ Announce(c))
  <2>1. ~Carried(T)' /\ ~Carried(T)
    BY <1>6 DEF ReadBack, Announce, Carried, TypeOK, Calls, NoCall
  <2>2. UNCHANGED daemon
    BY <1>6 DEF ReadBack, Announce
  <2> QED BY <1>2, <1>3, <2>1, <2>2 DEF Newest
<1> QED BY <1>4, <1>5, <1>6

(* What leaves the queue, the daemon and the call of the desktop client    *)
(* alone leaves the newest map alone.                                      *)
LEMMA NewestKept ==
    ASSUME UNCHANGED <<daemon, queue, call["gui"]>>, NEW T, NEW n, NEW v, Newest(T, n, v)
    PROVE  Newest(T, n, v)'
BY DEF Newest, LastQueued, NoneQueued, Carried, daemon, Daemon, Reads

LEMMA SetterArrives ==
    ASSUME TypeOK, EditsArrive, NEW c \in Clients, Setter(c)
    PROVE  EditsArrive'
<1> USE DEF desktop
<1>1. CASE meant' = Nothing
  BY <1>1 DEF EditsArrive, Nothing
<1>2. CASE meant' # Nothing
  <2>1. c = "gui" => Set(c) \/ ReadBack(c) \/ Announce(c)
    BY <1>2 DEF Setter, Refuse, MoveUnsaved, Answered
  <2>2. UNCHANGED <<editor, meant>>
    BY <1>2, <2>1 DEF Setter, Set, Refuse, MoveUnsaved, ReadBack, Announce, Answered,
       Superseded
  <2>3. editor.scope # "closed"
    BY <1>2, <2>2 DEF EditsArrive
  <2>4. c = "cli" => UNCHANGED daemon \/ call[c].write.property # Target(editor)
    BY <1>2, <2>3 DEF Setter, Set, Refuse, MoveUnsaved, ReadBack, Announce, Superseded,
       daemon
  <2>5. Target(editor) \in Kinds \cup {"overrides"} /\ Target(editor)' = Target(editor)
    BY <2>2, TargetFits DEF TypeOK, Editors, Target
  <2>6. ASSUME NEW n \in Names, meant'[n] # "any"
        PROVE  editor'.stored[n] = meant'[n] /\ Newest(Target(editor), n, meant[n])'
    <3>1. editor.stored[n] = meant[n] /\ Newest(Target(editor), n, meant[n])
      BY <2>2, <2>6 DEF EditsArrive
    <3>2. Newest(Target(editor), n, meant[n])'
      BY <2>1, <2>2, <2>4, <2>5, <3>1, NewestSet
    <3> QED BY <2>2, <3>1, <3>2
  <2> QED BY <2>2, <2>3, <2>6 DEF EditsArrive
<1> QED BY <1>1, <1>2

(* What still shows of what was asked still stands. *)
LEMMA RenderArrives ==
    ASSUME TypeOK, EditsArrive, UNCHANGED <<daemon, queue, call["gui"]>>,
           NEW side \in Sides, editor' = Render(editor, side), meant' = StillShown(editor')
    PROVE  EditsArrive'
<1>1. /\ editor' \in Editors
      /\ editor'.scope # "closed" => Target(editor') = Target(editor)
  BY Rendering DEF TypeOK, Editors
<1>2. /\ editor'.scope = "closed" => meant' = Nothing
      /\ \A n \in Names : meant'[n] # "any"
            => meant'[n] = meant[n] /\ editor'.stored[n] = meant[n]
  BY <1>1, StillShownFits DEF TypeOK, Asked
<1>3. ASSUME NEW n \in Names, meant'[n] # "any"
      PROVE  editor'.stored[n] = meant'[n] /\ Newest(Target(editor), n, meant[n])'
  <2>1. editor'.scope # "closed"
    BY <1>2, <1>3 DEF Nothing
  <2>2. Newest(Target(editor), n, meant[n])
    BY <1>2, <1>3 DEF EditsArrive
  <2>3. Target(editor)' = Target(editor) /\ meant'[n] = meant[n]
    BY <1>1, <1>2, <1>3, <2>1 DEF Target
  <2>4. Newest(Target(editor), n, meant[n])'
    BY <2>2, <2>3, NewestKept
  <2> QED BY <1>2, <1>3, <2>4
<1> QED BY <1>2, <1>3 DEF EditsArrive

(* An edit sends the map it leaves in the editor, so that an earlier edit  *)
(* of another option is in the newest map too.                             *)
LEMMA EditArrives ==
    ASSUME TypeOK, EditsArrive, Edit
    PROVE  EditsArrive'
<1> USE DEF Editors
<1>1. ASSUME NEW n \in Names, NEW v \in Spellings[n] \cup {"unset"},
             editor.scope # "closed",
             editor' = [editor EXCEPT !.stored = [editor.stored EXCEPT ![n] = v]],
             Emit([editor.stored EXCEPT ![n] = v], n)
      PROVE  EditsArrive'
  <2>1. editor.stored \in Maps
    BY DEF TypeOK
  <2>2. PICK m \in Maps : m = [editor.stored EXCEPT ![n] = v]
    BY <2>1, EditedMap
  <2>3. m[n] = v /\ \A k \in Names \ {n} : m[k] = editor.stored[k]
    BY <2>1, <2>2, EditedMap
  <2>4. PICK T \in Kinds \cup {"overrides"} : T = Target(editor)
    BY TargetFits DEF TypeOK
  <2>5. editor'.scope # "closed" /\ editor'.stored = m /\ Target(editor)' = T
    BY <1>1, <2>2, <2>4 DEF TypeOK, Target
  <2>6. PICK w \in Writes : w = Write(T, m) /\ w.property = T /\ w.value = m
    BY MapWrite DEF Write
  <2>7. queue \in Seq(Writes) /\ queue' = Append(queue, w)
    BY <1>1, <2>2, <2>4, <2>6 DEF Emit, TypeOK
  <2>8. \A k \in Names : Newest(T, k, m[k])'
    BY <2>6, <2>7, NewestQueued
  <2>9. ASSUME NEW k \in Names, meant'[k] # "any"
        PROVE  editor'.stored[k] = meant'[k] /\ Newest(Target(editor), k, meant[k])'
    <3>1. meant' = [meant EXCEPT ![n] = v]
      BY <1>1, <2>2, <2>3 DEF Emit
    <3>2. m[k] = meant'[k]
      BY <2>3, <2>9, <3>1 DEF EditsArrive, TypeOK
    <3> QED BY <2>5, <2>8, <3>2
  <2> QED BY <2>5, <2>9 DEF EditsArrive
<1>2. ASSUME NEW n \in Names, Commit(n)
      PROVE  EditsArrive'
  <2>1. PICK v \in Declared(editor.kind)[n] \ {"blank"} :
            /\ editor' = [editor EXCEPT !.stored = [editor.stored EXCEPT ![n] = v]]
            /\ Emit([editor.stored EXCEPT ![n] = v], n)
    BY <1>2 DEF Commit
  <2>2. v \in Spellings[n]
    BY <2>1 DEF Declared, Spellings
  <2> QED BY <1>1, <1>2, <2>1, <2>2 DEF Commit
<1>3. ASSUME NEW n \in Names, Clear(n)
      PROVE  EditsArrive'
  BY <1>1, <1>3 DEF Clear
<1>4. CASE Assign
  BY <1>4 DEF Assign, EditsArrive, Nothing
<1> QED BY <1>2, <1>3, <1>4 DEF Edit

(* What the user last asked of each option is what the daemon holds once   *)
(* the writes have been answered, for any number of edits queued behind    *)
(* one another and any interleaving with the other writers' signals.       *)
THEOREM EditsAlwaysStand == Spec => []EditsStand
<1>1. Init => EditsArrive
  BY DEF Init, EditsArrive, Nothing
<1>2. TypeOK /\ EditsArrive /\ [Next]_vars => EditsArrive'
  <2> SUFFICES ASSUME TypeOK, EditsArrive, [Next]_vars PROVE EditsArrive'
    OBVIOUS
  <2>1. CASE UNCHANGED <<daemon, queue, call["gui"], editor, meant>>
    <3>1. ASSUME NEW n \in Names, meant'[n] # "any"
          PROVE  editor'.stored[n] = meant'[n] /\ Newest(Target(editor), n, meant[n])'
      BY <2>1, <3>1, NewestKept DEF EditsArrive
    <3> QED BY <2>1, <3>1 DEF EditsArrive
  <2>2. ASSUME NEW c \in Clients, Setter(c)
        PROVE  EditsArrive'
    BY <2>2, SetterArrives
  <2>3. CASE Open \/ Close
    BY <2>3 DEF Open, Close, EditsArrive, Nothing
  <2>4. CASE Edit
    BY <2>4, EditArrives
  <2>5. CASE Send
    <3>1. UNCHANGED <<editor, meant>>
      BY <2>5 DEF Send
    <3>2. ASSUME NEW n \in Names, meant'[n] # "any"
          PROVE  editor'.stored[n] = meant'[n] /\ Newest(Target(editor), n, meant[n])'
      <4>1. Target(editor) \in Kinds \cup {"overrides"}
        BY TargetFits DEF TypeOK, Editors
      <4>2. editor.stored[n] = meant[n] /\ Newest(Target(editor), n, meant[n])
        BY <3>1, <3>2 DEF EditsArrive
      <4>3. Target(editor)' = Target(editor)
        BY <3>1 DEF Target
      <4>4. Newest(Target(editor), n, meant[n])'
        BY <2>5, <3>1, <4>1, <4>2, <4>3, NewestSent
      <4> QED BY <3>1, <4>2, <4>4
    <3> QED BY <3>1, <3>2 DEF EditsArrive
  <2>6. CASE Receive
    <3>1. Head(wire) \in Writes
      BY <2>6 DEF Receive, TypeOK
    <3>2. store' \in Sides
      BY <2>6, <3>1, WithFits DEF Receive, TypeOK, Sides
    <3> QED BY <2>6, <3>2, RenderArrives DEF Receive
  <2>7. CASE RenderAgain
    <3>1. store \in Sides
      BY DEF TypeOK, Sides
    <3> QED BY <2>7, <3>1, RenderArrives DEF RenderAgain
  <2>8. CASE CommandLine \/ UNCHANGED vars
    <3>1. UNCHANGED <<daemon, queue, editor, meant>>
      BY <2>8 DEF CommandLine, ProfileSet, ButtonSet, WriteNext, desktop, daemon, vars
    <3>2. call'["gui"] = call["gui"]
      BY <2>8 DEF CommandLine, ProfileSet, ButtonSet, WriteNext, vars, TypeOK
    <3> QED BY <2>1, <3>1, <3>2
  <2> QED BY <2>2, <2>3, <2>4, <2>5, <2>6, <2>7, <2>8 DEF Next, Desktop
<1>3. TypeOK /\ EditsArrive => EditsStand
  BY DEF EditsArrive, EditsStand, Newest, LastQueued, Carried
<1> QED BY <1>1, <1>2, <1>3, TypeCorrect, PTL DEF Spec

-----------------------------------------------------------------------------
(* The two sides agree                                                     *)
(*                                                                         *)
(* StoreCatchesUp speaks of a moment when nothing is under way.  Before    *)
(* that, the value a property has in the daemon is the last one on the     *)
(* wire, or the store's when the wire has none, or a setter is about to    *)
(* signal it.  A setter may also be about to signal an older value, which  *)
(* it read before another one moved the property; there is never more than *)
(* one of those, so that the other one's signal comes after it.            *)

NoneHeard(p) == \A i \in 1..Len(wire) : wire[i].property # p

LastHeard(p, v) ==
    \E i \in 1..Len(wire) : /\ wire[i].property = p /\ wire[i].value = v
                            /\ \A k \in 1..Len(wire) : k > i => wire[k].property # p

Heard(p, v) == LastHeard(p, v) \/ (NoneHeard(p) /\ Reads(store, p) = v)

Tells(c, p) ==
    /\ call[c].write.property = p
    /\ \/ call[c].at = "moved"
       \/ call[c].at = "read" /\ call[c].write.value = Reads(Daemon, p)

Stale(c, p) ==
    /\ call[c].write.property = p /\ call[c].at = "read"
    /\ call[c].write.value # Reads(Daemon, p)

(* The setters that are about to signal a property stay the same. *)
SettersKept(p) ==
    \A c \in Clients : /\ Tells(c, p) <=> Tells(c, p)'
                       /\ Stale(c, p) <=> Stale(c, p)'

OneStale(p) == \A c, d \in Clients : Stale(c, p) /\ Stale(d, p) => c = d
Arrives(p) == Settled(p) => \/ \E c \in Clients : Tells(c, p)
                            \/ Heard(p, Reads(Daemon, p))

SignalsArrive == \A p \in Properties : OneStale(p) /\ Arrives(p)

(* A property that has changed in a side reads what it was given, and the  *)
(* others read what they did.                                              *)
LEMMA WithReads ==
    ASSUME NEW side \in Sides, NEW w \in Writes, NEW p \in Properties
    PROVE  Reads(With(side, w.property, w.value), p)
               = IF w.property = p THEN w.value ELSE Reads(side, p)
<1>1. CASE w.property \in Kinds
  BY <1>1, WriteParts DEF With, Reads, Sides, Properties
<1>2. CASE w.property = "profile"
  BY <1>2, WriteParts DEF With, Reads, Sides, Properties, Assigned
<1>3. CASE w.property = "overrides"
  BY <1>3, WriteParts DEF With, Reads, Sides, Properties
<1> QED BY <1>1, <1>2, <1>3, WriteParts DEF Properties

(* The same of a setter that is applied, for every property. *)
LEMMA SetterReads ==
    ASSUME TypeOK, NEW c \in Clients, call[c].at # "idle",
           Moved(call[c].write.property, call[c].write.value), NEW p \in Properties
    PROVE  Reads(Daemon, p)' = IF call[c].write.property = p THEN call[c].write.value
                               ELSE Reads(Daemon, p)
<1> DEFINE w == call[c].write
<1>1. CASE p \in Kinds \cup {"overrides"}
  BY <1>1, MovedReads
<1>2. CASE p = "profile" /\ w.property = "profile"
  BY <1>2, CallFits DEF Moved, Reads, Daemon, TypeOK, Assigned
<1>3. CASE p = "profile" /\ w.property # "profile"
  BY <1>3, CallFits DEF Moved, Reads, Daemon, TypeOK, Properties
<1> QED BY <1>1, <1>2, <1>3 DEF Properties

(* A signal sent is the last one of its property, and of no other. *)
LEMMA HeardSent ==
    ASSUME wire \in Seq(Writes), NEW w \in Writes, wire' = Append(wire, w),
           UNCHANGED store, NEW p, NEW v,
           IF w.property = p THEN w.value = v ELSE Heard(p, v)
    PROVE  Heard(p, v)'
<1>1. /\ Len(wire) \in Nat /\ Len(wire') = Len(wire) + 1
      /\ wire'[Len(wire) + 1] = w
      /\ \A i \in 1..Len(wire) : wire'[i] = wire[i]
  OBVIOUS
<1>2. CASE w.property = p
  BY <1>1, <1>2 DEF Heard, LastHeard
<1>3. CASE w.property # p /\ LastHeard(p, v)
  <2>1. PICK i \in 1..Len(wire) :
            /\ wire[i].property = p /\ wire[i].value = v
            /\ \A k \in 1..Len(wire) : k > i => wire[k].property # p
    BY <1>3 DEF LastHeard
  <2>2. i \in 1..Len(wire') /\ wire'[i] = wire[i]
    BY <1>1
  <2>3. \A k \in 1..Len(wire') : k > i => wire'[k].property # p
    BY <1>1, <1>3, <2>1
  <2> QED BY <2>1, <2>2, <2>3 DEF Heard, LastHeard
<1>4. CASE w.property # p /\ NoneHeard(p) /\ Reads(store, p) = v
  <2>1. NoneHeard(p)'
    BY <1>1, <1>4 DEF NoneHeard
  <2> QED BY <1>4, <2>1 DEF Heard
<1> QED BY <1>2, <1>3, <1>4 DEF Heard

(* A signal applied leaves what will have been heard where it was. *)
LEMMA HeardReceived ==
    ASSUME TypeOK, Receive, NEW p \in Properties, NEW v, Heard(p, v)
    PROVE  Heard(p, v)'
<1> DEFINE w == Head(wire)
<1>1. /\ Len(wire) \in Nat \ {0} /\ Len(wire') = Len(wire) - 1
      /\ \A i \in 1..Len(wire') : wire'[i] = wire[i + 1]
      /\ w = wire[1] /\ w \in Writes
  BY DEF Receive, TypeOK
<1>2. Reads(store, p)' = IF w.property = p THEN w.value ELSE Reads(store, p)
  BY <1>1, WithReads DEF Receive, TypeOK, Sides, Reads
<1>3. CASE LastHeard(p, v)
  <2>1. PICK i \in 1..Len(wire) :
            /\ wire[i].property = p /\ wire[i].value = v
            /\ \A k \in 1..Len(wire) : k > i => wire[k].property # p
    BY <1>3 DEF LastHeard
  <2>2. CASE i = 1
    <3>1. NoneHeard(p)'
      BY <1>1, <2>1, <2>2 DEF NoneHeard
    <3> QED BY <1>1, <1>2, <2>1, <2>2, <3>1 DEF Heard
  <2>3. CASE i > 1
    <3>1. PICK j \in 1..Len(wire') : i = j + 1
      <4>1. i - 1 \in 1..Len(wire')
        BY <1>1, <2>1, <2>3
      <4> QED BY <4>1, <2>1
    <3>2. wire'[j] = wire[i]
      BY <1>1, <3>1
    <3>3. ASSUME NEW k \in 1..Len(wire'), k > j
          PROVE  wire'[k].property # p
      <4>1. k + 1 \in 1..Len(wire) /\ k + 1 > i
        BY <1>1, <3>1, <3>3
      <4> QED BY <4>1, <1>1, <2>1
    <3> QED BY <2>1, <3>2, <3>3 DEF Heard, LastHeard
  <2> QED BY <2>2, <2>3
<1>4. CASE NoneHeard(p) /\ Reads(store, p) = v
  <2>1. NoneHeard(p)' /\ w.property # p
    BY <1>1, <1>4 DEF NoneHeard
  <2> QED BY <1>2, <1>4, <2>1 DEF Heard
<1> QED BY <1>3, <1>4 DEF Heard

(* What changes neither what a property reads, nor its signals, nor a      *)
(* setter of it that has been applied, leaves the property as it was.      *)
LEMMA SignalKept ==
    ASSUME NEW p, OneStale(p), Arrives(p),
           Reads(Daemon, p)' = Reads(Daemon, p),
           Heard(p, Reads(Daemon, p)) => Heard(p, Reads(Daemon, p))',
           Settled(p)' => Settled(p),
           SettersKept(p)
    PROVE  OneStale(p)' /\ Arrives(p)'
BY DEF SettersKept, OneStale, Arrives

(* A call that is not a setter under way neither tells nor is stale. *)
LEMMA CallsKept ==
    ASSUME NEW p, Reads(Daemon, p)' = Reads(Daemon, p),
           \A c \in Clients : \/ call'[c] = call[c]
                              \/ /\ call[c].write.property = p
                                     => call[c].at \in {"idle", "sent"}
                                 /\ call'[c].write.property = p
                                     => call'[c].at \in {"idle", "sent"}
    PROVE  SettersKept(p)
BY DEF SettersKept, Tells, Stale

(* A setter: only its own property is touched, and either it is still to   *)
(* be signalled, or its signal is the last one, or the property is behind. *)
LEMMA SetterSignals ==
    ASSUME TypeOK, SignalsArrive, NEW c \in Clients, Setter(c), NEW p \in Properties
    PROVE  OneStale(p)' /\ Arrives(p)'
<1> DEFINE w == call[c].write
<1> USE DEF daemon, desktop
<1>a. /\ OneStale(p) /\ Arrives(p)
      /\ \A d \in Clients \ {c} : call'[d] = call[d]
  BY DEF SignalsArrive, Setter, Set, Refuse, MoveUnsaved, ReadBack, Announce, TypeOK
<1>b. UNCHANGED <<options, key>> => Reads(Daemon, p)' = Reads(Daemon, p)
  BY DEF Daemon, Reads
<1>c. UNCHANGED <<wire, store>> => (Heard(p, Reads(Daemon, p))
          /\ Reads(Daemon, p)' = Reads(Daemon, p) => Heard(p, Reads(Daemon, p))')
  BY DEF Heard, LastHeard, NoneHeard
<1>d. ~Stale(c, p)' => OneStale(p)'
  BY DEF OneStale
<1>1. CASE Set(c)
  <2>1. call'[c].at = "moved" /\ call'[c].write = w /\ call[c].at = "sent"
    BY <1>1 DEF Set, TypeOK, Calls
  <2>2. CASE w.property = p
    <3>1. Tells(c, p)' /\ ~Stale(c, p)'
      BY <2>1, <2>2 DEF Tells, Stale
    <3> QED BY <1>d, <3>1 DEF Arrives
  <2>3. CASE w.property # p
    <3>1. Reads(Daemon, p)' = Reads(Daemon, p)
      BY <1>1, <2>3, SetterReads DEF Set
    <3>2. SettersKept(p)
      BY <1>a, <2>1, <2>3, <3>1, CallsKept
    <3> QED BY <1>1, <1>a, <1>c, <3>1, <3>2, SignalKept DEF Set, Settled
  <2> QED BY <2>2, <2>3
<1>2. CASE Refuse(c)
  <2>1. call'[c].at = "idle" /\ call[c].at = "sent"
    BY <1>2 DEF Refuse, TypeOK, NoCall
  <2>2. Reads(Daemon, p)' = Reads(Daemon, p)
    BY <1>2, <1>b DEF Refuse
  <2>3. SettersKept(p)
    BY <1>a, <2>1, <2>2, CallsKept
  <2> QED BY <1>2, <1>a, <1>c, <2>2, <2>3, SignalKept DEF Refuse, Settled
<1>3. CASE MoveUnsaved(c)
  <2>1. call'[c].at = "idle" /\ call[c].at = "sent"
    BY <1>3 DEF MoveUnsaved, TypeOK, NoCall
  <2>2. CASE w.property = p
    <3>1. ~Settled(p)' /\ ~Stale(c, p)'
      BY <1>3, <2>1, <2>2 DEF MoveUnsaved, Settled, Stale
    <3> QED BY <1>d, <3>1 DEF Arrives
  <2>3. CASE w.property # p
    <3>1. Reads(Daemon, p)' = Reads(Daemon, p)
      BY <1>3, <2>1, <2>3, SetterReads DEF MoveUnsaved
    <3>2. SettersKept(p)
      BY <1>a, <2>1, <3>1, CallsKept
    <3>3. Settled(p)' => Settled(p)
      BY <1>3 DEF MoveUnsaved, Settled
    <3> QED BY <1>3, <1>a, <1>c, <3>1, <3>2, <3>3, SignalKept DEF MoveUnsaved
  <2> QED BY <2>2, <2>3
<1>4. CASE ReadBack(c)
  <2>1. /\ call[c].at = "moved"
        /\ call'[c] = [at |-> "read",
                       write |-> Write(w.property, Reads(Daemon, w.property))]
    BY <1>4 DEF ReadBack, TypeOK
  <2>2. Reads(Daemon, p)' = Reads(Daemon, p)
    BY <1>4, <1>b DEF ReadBack
  <2>3. CASE w.property = p
    <3>1. Tells(c, p)' /\ ~Stale(c, p)'
      BY <2>1, <2>2, <2>3 DEF Tells, Stale, Write
    <3> QED BY <1>d, <3>1 DEF Arrives
  <2>4. CASE w.property # p
    <3>1. call'[c].write.property # p
      BY <2>1, <2>4 DEF Write
    <3>2. SettersKept(p)
      BY <1>a, <2>2, <2>4, <3>1, CallsKept
    <3> QED BY <1>4, <1>a, <1>c, <2>2, <3>2, SignalKept DEF ReadBack, Settled
  <2> QED BY <2>3, <2>4
<1>5. CASE Announce(c)
  <2>1. /\ call[c].at = "read" /\ call'[c].at = "idle"
        /\ w \in Writes /\ wire \in Seq(Writes) /\ wire' = Append(wire, w)
        /\ UNCHANGED store
    BY <1>5, CallFits DEF Announce, TypeOK, NoCall
  <2>2. Reads(Daemon, p)' = Reads(Daemon, p)
    BY <1>5, <1>b DEF Announce
  <2>3. ~Stale(c, p)'
    BY <2>1 DEF Stale
  <2>4. CASE w.property = p /\ w.value = Reads(Daemon, p)
    <3>1. Heard(p, Reads(Daemon, p))'
      <4>1. PICK v : v = Reads(Daemon, p)
        OBVIOUS
      <4>2. Heard(p, v)'
        BY <2>1, <2>4, <4>1, HeardSent
      <4> QED BY <2>2, <4>1, <4>2 DEF Heard, LastHeard, NoneHeard
    <3> QED BY <1>d, <2>3, <3>1 DEF Arrives
  <2>5. CASE w.property = p /\ w.value # Reads(Daemon, p) /\ Follows(c, p)
    <3>1. PICK d \in Clients \ {c} :
              call[d].at \in {"moved", "read"} /\ call[d].write.property = p
      BY <2>5 DEF Follows
    <3>2. Stale(c, p) /\ ~Stale(d, p)
      BY <1>a, <2>1, <2>5, <3>1 DEF Stale, OneStale
    <3>3. Tells(d, p)
      BY <3>1, <3>2 DEF Tells, Stale
    <3>4. Tells(d, p)'
      BY <1>a, <2>2, <3>1, <3>3 DEF Tells
    <3> QED BY <1>d, <2>3, <3>4 DEF Arrives
  <2>6. CASE w.property = p /\ w.value # Reads(Daemon, p) /\ ~Follows(c, p)
    <3>1. ~Settled(p)'
      BY <1>5, <2>6 DEF Announce, Settled
    <3> QED BY <1>d, <2>3, <3>1 DEF Arrives
  <2>7. CASE w.property # p
    <3>1. SettersKept(p)
      BY <1>a, <2>1, <2>2, <2>7, CallsKept
    <3>2. Heard(p, Reads(Daemon, p)) => Heard(p, Reads(Daemon, p))'
      <4>1. PICK v : v = Reads(Daemon, p)
        OBVIOUS
      <4>2. Heard(p, v) => Heard(p, v)'
        BY <2>1, <2>7, HeardSent
      <4> QED BY <2>2, <4>1, <4>2 DEF Heard, LastHeard, NoneHeard
    <3>3. Settled(p)' => Settled(p)
      BY <1>5, <2>7 DEF Announce, Settled
    <3> QED BY <1>a, <2>2, <3>1, <3>2, <3>3, SignalKept
  <2> QED BY <2>4, <2>5, <2>6, <2>7
<1> QED BY <1>1, <1>2, <1>3, <1>4, <1>5 DEF Setter

(* Everything else: an event is applied, or no property is touched. *)
LEMMA OthersSignal ==
    ASSUME TypeOK, SignalsArrive, Desktop \/ CommandLine \/ UNCHANGED vars,
           NEW p \in Properties
    PROVE  OneStale(p)' /\ Arrives(p)'
<1> USE DEF daemon, desktop
<1>1. UNCHANGED <<options, key, behind>>
  BY DEF Desktop, Open, Close, Edit, Commit, Clear, Assign, Send, Receive, RenderAgain,
         CommandLine, ProfileSet, ButtonSet, WriteNext, vars
<1>2. Reads(Daemon, p)' = Reads(Daemon, p)
  BY <1>1 DEF Daemon, Reads
<1>3. \A c \in Clients : \/ call'[c] = call[c]
                         \/ call[c].at = "idle" /\ call'[c].at = "sent"
  BY DEF Desktop, Open, Close, Edit, Commit, Clear, Assign, Send, Receive, RenderAgain,
         CommandLine, ProfileSet, ButtonSet, WriteNext, vars, TypeOK
<1>4. SettersKept(p)
  BY <1>2, <1>3, CallsKept
<1>5. Heard(p, Reads(Daemon, p)) => Heard(p, Reads(Daemon, p))'
  <2>1. PICK v : v = Reads(Daemon, p)
    OBVIOUS
  <2>2. UNCHANGED <<wire, store>> \/ Receive
    BY DEF Desktop, Open, Close, Edit, Commit, Clear, Assign, Send, RenderAgain,
           CommandLine, ProfileSet, ButtonSet, WriteNext, vars
  <2>3. Heard(p, v) => Heard(p, v)'
    <3>1. CASE UNCHANGED <<wire, store>>
      BY <3>1 DEF Heard, LastHeard, NoneHeard, Reads
    <3>2. CASE Receive
      BY <3>2, HeardReceived
    <3> QED BY <2>2, <3>1, <3>2
  <2> QED BY <1>2, <2>1, <2>3 DEF Heard, LastHeard, NoneHeard
<1>6. OneStale(p) /\ Arrives(p) /\ (Settled(p)' => Settled(p))
  BY <1>1 DEF SignalsArrive, Settled
<1> QED BY <1>2, <1>4, <1>5, <1>6, SignalKept

(* With nothing under way the last signal of a property has been applied. *)
LEMMA QuietAgrees ==
    ASSUME TypeOK, SignalsArrive PROVE StoreCatchesUp
<1> SUFFICES ASSUME Quiet, NEW p \in Properties, Settled(p)
             PROVE  Reads(store, p) = Reads(Daemon, p)
  BY DEF StoreCatchesUp
<1>1. ~ \E c \in Clients : Tells(c, p)
  BY DEF Quiet, Tells
<1>2. Heard(p, Reads(Daemon, p))
  BY <1>1 DEF SignalsArrive, Arrives
<1> QED BY <1>2 DEF Quiet, Heard, LastHeard

(* The editor's chain of fallbacks and the daemon's, over the same maps. *)
LEMMA ChainsAgree ==
    ASSUME TypeOK, StoreCatchesUp PROVE ShownIsUsed
<1> SUFFICES ASSUME Comparable, NEW n \in Names
             PROVE  \/ ShownNow[n] = UsedNow[n]
                    \/ UsedNow[n] = "refused"
                    \/ BlankOverFolder(n)
  BY DEF ShownIsUsed
<1>1. PICK k \in Kinds : k = editor.kind
  BY DEF TypeOK
<1>2. store.options[k] = options[k] /\ store.overrides = key.overrides
  BY <1>1 DEF Comparable, StoreCatchesUp, Properties, Reads, Daemon
<1>3. CASE editor.scope = "profile"
  <2>1. editor.stored = options[k]
    BY <1>1, <1>2, <1>3 DEF Comparable, Target, Reads
  <2> QED BY <1>1, <1>3, <2>1 DEF ShownNow, UsedNow, Shown, Used, Resolve, IsSet, Empty
<1>4. CASE editor.scope = "button"
  <2>1. editor.stored = key.overrides
    BY <1>2, <1>4 DEF Comparable, Target, Reads
  <2> QED BY <1>1, <1>2, <1>4, <2>1
      DEF ShownNow, UsedNow, Shown, Used, Resolve, IsSet, BlankOverFolder
<1> QED BY <1>3, <1>4 DEF Comparable, TypeOK

(* The two sides and the editor agree once nothing is under way: the copy  *)
(* of the properties, and what the editor shows of an option against what  *)
(* the next scan uses, for any number of changes by both programs.         *)
THEOREM OptionsAlwaysAgree == Spec => []OptionsAgree
<1>1. TypeOK /\ Init => SignalsArrive
  <2> SUFFICES ASSUME TypeOK, Init PROVE SignalsArrive
    OBVIOUS
  <2>1. \A p \in Properties : NoneHeard(p) /\ Reads(store, p) = Reads(Daemon, p)
    BY DEF Init, NoneHeard
  <2>2. \A c \in Clients, p \in Properties : ~Stale(c, p)
    BY DEF Init, NoCall, Stale
  <2> QED BY <2>1, <2>2 DEF SignalsArrive, OneStale, Arrives, Heard
<1>2. TypeOK /\ SignalsArrive /\ [Next]_vars => SignalsArrive'
  BY SetterSignals, OthersSignal DEF SignalsArrive, Next
<1>3. TypeOK /\ SignalsArrive => StoreCatchesUp /\ ShownIsUsed
  BY QuietAgrees, ChainsAgree
<1> QED BY <1>1, <1>2, <1>3, TypeCorrect, ProfilesStayValid, DialogStaysFitting, PTL
    DEF Spec, OptionsAgree

HIDE DEF Kinds, Clients, Names

-----------------------------------------------------------------------------
(* The desktop client's mirror of the tree                                 *)
(*                                                                         *)
(* ClientAgrees speaks of a moment when every signal has been applied.     *)
(* Before that, the last signal still to come about a thing says what the  *)
(* tree says of it, or an owner signal is to come, after which the tree is *)
(* read again; with no such signal the mirror says it already.  This is    *)
(* kept apart for the presence of the scanner, its pairing state, the      *)
(* presence of its job and the job's state, because a signal of a state is *)
(* dropped by a mirror that has not the object.  It says nothing of where  *)
(* the mirror came from, so that a reading between two signals keeps it.   *)

OwnerComes == Signal("owner", TRUE)
OwnerGoes == Signal("owner", FALSE)
OwnerSignals == {OwnerComes, OwnerGoes}
ScannerSignals == {Signal("scanner", s) : s \in {"none", "done"}}
PairingSignals == {Signal("pairing", s) : s \in PairingStates}
ScannerGone == Signal("gone", "scanner")
JobGoes == Signal("gone", "job")
JobRuns == Signal("job", "running")
JobEnds == Signal("state", "ended")
Signals == OwnerSignals \cup ScannerSignals \cup PairingSignals
           \cup {ScannerGone, JobGoes, JobRuns, JobEnds}

(* The last signal of s about something is a good one; s has none. *)
ToldIn(s, about, good) ==
    \A i \in 1..Len(s) :
        s[i] \in about /\ (\A k \in 1..Len(s) : k > i => s[k] \notin about)
            => s[i] \in good
UntoldIn(s, about) == \A i \in 1..Len(s) : s[i] \notin about

AboutPresence == OwnerSignals \cup ScannerSignals \cup {ScannerGone}
AboutPairing == AboutPresence \cup PairingSignals
AboutJob == AboutPresence \cup {JobRuns, JobGoes}
AboutState == AboutJob \cup {JobEnds}

SaysPresence(s) ==
    OwnerSignals \cup IF s = "absent" THEN {ScannerGone} ELSE ScannerSignals
SaysPairing(s) == OwnerSignals \cup {Signal("scanner", s), Signal("pairing", s)}
SaysJob(j) ==
    OwnerSignals \cup IF j = "none" THEN ScannerSignals \cup {JobGoes} ELSE {JobRuns}
SaysState(j) ==
    OwnerSignals \cup IF j = "none" THEN ScannerSignals \cup {JobGoes}
                      ELSE IF j = "running" THEN {JobRuns} ELSE {JobEnds}

OwnerKnown == phase = "live" /\ UntoldIn(stream, OwnerSignals) => owner

PresenceKnown ==
    /\ ToldIn(stream, AboutPresence, SaysPresence(scanner))
    /\ phase = "live" /\ UntoldIn(stream, AboutPresence)
           => (mirror.scanner = "absent" <=> scanner = "absent")

PairingKnown ==
    scanner # "absent" /\ unsent = <<>> =>
        /\ ToldIn(stream, AboutPairing, SaysPairing(scanner))
        /\ phase = "live" /\ UntoldIn(stream, AboutPairing) => mirror.scanner = scanner

JobKnown ==
    scanner # "absent" /\ ~orphan =>
        /\ ToldIn(stream, AboutJob, SaysJob(job))
        /\ phase = "live" /\ UntoldIn(stream, AboutJob)
               => (mirror.job = "none" <=> job = "none")

StateKnown ==
    scanner # "absent" /\ ~orphan =>
        /\ ToldIn(stream, AboutState, SaysState(job))
        /\ phase = "live" /\ UntoldIn(stream, AboutState) => mirror.job = job

AllKnown == OwnerKnown /\ PresenceKnown /\ PairingKnown /\ JobKnown /\ StateKnown

(* The shape of the tree, and of what is on its way. *)
TreeStands ==
    /\ stream \in Seq(Signals)
    /\ unsent # <<>> => scanner # "absent" /\ unsent[Len(unsent)] = scanner
    /\ scanner = "absent" => job = "none" \/ orphan
    /\ ~owner => scanner = "absent" /\ job = "none"
    /\ phase = "waiting" => mirror = EmptyStore

(* What the kind of a signal says. *)
LEMMA SignalKinds ==
    ASSUME NEW m \in Signals
    PROVE  /\ m.kind \in {"owner", "scanner", "pairing", "gone", "job", "state"}
           /\ m \in OwnerSignals <=> m.kind = "owner"
           /\ m \in ScannerSignals <=> m.kind = "scanner"
           /\ m \in PairingSignals <=> m.kind = "pairing"
           /\ m = ScannerGone <=> m.kind = "gone" /\ m.value = "scanner"
           /\ m = JobGoes <=> m.kind = "gone" /\ m.value = "job"
           /\ m = JobRuns <=> m.kind = "job"
           /\ m = JobEnds <=> m.kind = "state"
           /\ m = OwnerComes => m.value
           /\ m = OwnerGoes => ~m.value
           /\ m.kind = "scanner" => m.value \in {"none", "done"}
           /\ m.kind = "pairing" => m.value \in PairingStates
           /\ m.kind = "gone" => m.value \in {"scanner", "job"}
           /\ m.kind = "job" => m.value = "running"
           /\ m.kind = "state" => m.value = "ended"
           /\ m = Signal(m.kind, m.value)
<1>1. OwnerComes.kind = "owner" /\ OwnerComes.value = TRUE
  BY DEF OwnerComes, Signal
<1>2. OwnerGoes.kind = "owner" /\ OwnerGoes.value = FALSE
  BY DEF OwnerGoes, Signal
<1>3. CASE m \in OwnerSignals
  <2>1. m.kind = "owner" /\ m = Signal(m.kind, m.value)
    BY <1>3, <1>1, <1>2 DEF OwnerSignals, OwnerComes, OwnerGoes, Signal
  <2>2. m \notin ScannerSignals \cup PairingSignals
    BY <2>1 DEF ScannerSignals, PairingSignals, Signal
  <2>3. m # ScannerGone /\ m # JobGoes /\ m # JobRuns /\ m # JobEnds
    BY <2>1 DEF ScannerGone, JobGoes, JobRuns, JobEnds, Signal
  <2> QED BY <1>1, <1>2, <1>3, <2>1, <2>2, <2>3
<1>4. CASE m \notin OwnerSignals
  <2>1. m # OwnerComes /\ m # OwnerGoes
    BY <1>4 DEF OwnerSignals
  <2> QED BY <1>4, <2>1
      DEF Signals, ScannerSignals, PairingSignals, ScannerGone, JobGoes, JobRuns, JobEnds,
          Signal
<1> QED BY <1>3, <1>4

(* The signals the daemon sends. *)
LEMMA SignalsSent ==
    /\ {OwnerComes, OwnerGoes} \subseteq OwnerSignals
    /\ \A s \in {"none", "done"} : Signal("scanner", s) \in ScannerSignals
    /\ \A s \in PairingStates : Signal("pairing", s) \in PairingSignals
    /\ OwnerSignals \cup ScannerSignals \cup PairingSignals \subseteq Signals
    /\ {ScannerGone, JobGoes, JobRuns, JobEnds} \subseteq Signals
BY DEF Signals, OwnerSignals, ScannerSignals, PairingSignals

(* What a signal is about. *)
LEMMA SignalsAbout ==
    ASSUME NEW m \in Signals
    PROVE  /\ m \in AboutPresence <=> \/ m.kind \in {"owner", "scanner"}
                                      \/ m = ScannerGone
           /\ m \in AboutPairing <=> \/ m.kind \in {"owner", "scanner", "pairing"}
                                     \/ m = ScannerGone
           /\ m \in AboutJob <=> m.kind \in {"owner", "scanner", "gone", "job"}
           /\ m \in AboutState <=> m.kind \in {"owner", "scanner", "gone", "job", "state"}
BY SignalKinds DEF AboutPresence, AboutPairing, AboutJob, AboutState

(* A signal said is the last one about what it is about. *)
LEMMA SaidLast ==
    ASSUME NEW s \in Seq(Signals), NEW m \in Signals, NEW A, NEW G, m \in A, m \in G
    PROVE  ToldIn(Append(s, m), A, G) /\ ~UntoldIn(Append(s, m), A)
<1>1. /\ Len(s) \in Nat /\ Len(Append(s, m)) = Len(s) + 1
      /\ Append(s, m)[Len(s) + 1] = m
  OBVIOUS
<1>2. Len(s) + 1 \in 1..Len(Append(s, m))
  BY <1>1
<1>3. ToldIn(Append(s, m), A, G)
  BY <1>1, <1>2 DEF ToldIn
<1> QED BY <1>1, <1>2, <1>3 DEF UntoldIn

(* It leaves what else was told as it was. *)
LEMMA SaidOther ==
    ASSUME NEW s \in Seq(Signals), NEW m \in Signals, NEW A, NEW G, m \notin A
    PROVE  /\ ToldIn(Append(s, m), A, G) <=> ToldIn(s, A, G)
           /\ UntoldIn(Append(s, m), A) <=> UntoldIn(s, A)
<1>1. /\ Len(s) \in Nat /\ Len(Append(s, m)) = Len(s) + 1
      /\ Append(s, m)[Len(s) + 1] = m
      /\ \A i \in 1..Len(s) : Append(s, m)[i] = s[i]
  OBVIOUS
<1>2. UntoldIn(Append(s, m), A) <=> UntoldIn(s, A)
  BY <1>1 DEF UntoldIn
<1>3. ASSUME NEW i \in 1..Len(s)
      PROVE  (\A k \in 1..Len(s) : k > i => s[k] \notin A)
             <=> (\A k \in 1..Len(Append(s, m)) : k > i => Append(s, m)[k] \notin A)
  BY <1>1
<1>4. ToldIn(Append(s, m), A, G) => ToldIn(s, A, G)
  <2> SUFFICES ASSUME ToldIn(Append(s, m), A, G), NEW i \in 1..Len(s), s[i] \in A,
                      \A k \in 1..Len(s) : k > i => s[k] \notin A
               PROVE  s[i] \in G
    BY DEF ToldIn
  <2>1. i \in 1..Len(Append(s, m)) /\ Append(s, m)[i] = s[i]
    BY <1>1
  <2>2. \A k \in 1..Len(Append(s, m)) : k > i => Append(s, m)[k] \notin A
    BY <1>3
  <2> QED BY <2>1, <2>2 DEF ToldIn
<1>5. ToldIn(s, A, G) => ToldIn(Append(s, m), A, G)
  <2> SUFFICES ASSUME ToldIn(s, A, G), NEW i \in 1..Len(Append(s, m)),
                      Append(s, m)[i] \in A,
                      \A k \in 1..Len(Append(s, m)) : k > i => Append(s, m)[k] \notin A
               PROVE  Append(s, m)[i] \in G
    BY DEF ToldIn
  <2>1. i \in 1..Len(s)
    BY <1>1
  <2> QED BY <1>1, <1>3, <2>1 DEF ToldIn
<1> QED BY <1>2, <1>4, <1>5

(* A signal taken: the rest still tells what it told, and if it tells      *)
(* nothing of it the one taken was the last.                               *)
LEMMA Taken ==
    ASSUME NEW s \in Seq(Signals), s # <<>>, NEW A, NEW G
    PROVE  /\ ToldIn(s, A, G) => ToldIn(Tail(s), A, G)
           /\ UntoldIn(Tail(s), A) /\ Head(s) \notin A => UntoldIn(s, A)
           /\ ToldIn(s, A, G) /\ UntoldIn(Tail(s), A) /\ Head(s) \in A => Head(s) \in G
<1>1. /\ Len(s) \in Nat \ {0} /\ Len(Tail(s)) = Len(s) - 1 /\ Head(s) = s[1]
      /\ \A i \in 1..Len(Tail(s)) : i + 1 \in 1..Len(s) /\ Tail(s)[i] = s[i + 1]
  OBVIOUS
<1>2. \A k \in 1..Len(s) : k = 1 \/ \E j \in 1..Len(Tail(s)) : k = j + 1
  <2> TAKE k \in 1..Len(s)
  <2>1. k # 1 => k - 1 \in 1..Len(Tail(s)) /\ k = (k - 1) + 1
    BY <1>1
  <2> QED BY <2>1
<1>3. \A k \in 1..Len(s) : k > 1 => \E j \in 1..Len(Tail(s)) : s[k] = Tail(s)[j]
  BY <1>1, <1>2
<1>4. ToldIn(s, A, G) => ToldIn(Tail(s), A, G)
  <2> SUFFICES ASSUME ToldIn(s, A, G), NEW i \in 1..Len(Tail(s)), Tail(s)[i] \in A,
                      \A k \in 1..Len(Tail(s)) : k > i => Tail(s)[k] \notin A
               PROVE  Tail(s)[i] \in G
    BY DEF ToldIn
  <2>1. ASSUME NEW k \in 1..Len(s), k > i + 1
        PROVE  s[k] \notin A
    <3>1. PICK j \in 1..Len(Tail(s)) : k = j + 1
      BY <1>1, <1>2, <2>1
    <3> QED BY <1>1, <2>1, <3>1
  <2> QED BY <1>1, <2>1 DEF ToldIn
<1>5. UntoldIn(Tail(s), A) /\ Head(s) \notin A => UntoldIn(s, A)
  BY <1>1, <1>3 DEF UntoldIn
<1>6. ToldIn(s, A, G) /\ UntoldIn(Tail(s), A) /\ Head(s) \in A => Head(s) \in G
  BY <1>1, <1>3 DEF UntoldIn, ToldIn
<1> QED BY <1>4, <1>5, <1>6

(* A stream that says nothing of A says nothing of a part of A.            *)
LEMMA UntoldPart ==
    ASSUME NEW s, NEW A, NEW B \in SUBSET A, UntoldIn(s, A)
    PROVE  UntoldIn(s, B)
BY DEF UntoldIn

(* What the daemon says of each of its steps. *)
LEMMA DaemonSays ==
    ASSUME stream \in Seq(Signals), unsent \in Seq(PairingStates)
    PROVE  /\ Start => \/ /\ scanner' = "absent"
                          /\ stream' = Append(stream, OwnerComes)
                       \/ /\ scanner' = "done"
                          /\ stream' = Append(Append(stream, Signal("scanner", "done")),
                                              OwnerComes)
           /\ Crash => stream' = Append(stream, OwnerGoes)
           /\ Discovered => stream' = Append(stream, Signal("scanner", "none"))
           /\ SessionOver /\ job = "none" => stream' = Append(stream, ScannerGone)
           /\ SessionOver /\ job # "none"
                  => stream' = Append(Append(stream, JobGoes), ScannerGone)
           /\ Supervise => /\ stream' = Append(stream, Signal("pairing", Head(unsent)))
                           /\ Head(unsent) \in PairingStates
           /\ JobMoves => \/ /\ job = "none" /\ job' = "running"
                             /\ orphan' <=> scanner = "absent"
                             /\ stream' = Append(stream, JobRuns)
                          \/ /\ job = "running" /\ job' = "ended" /\ orphan' = orphan
                             /\ stream' = Append(stream, JobEnds)
                          \/ /\ job = "ended" /\ job' = "none" /\ ~orphan'
                             /\ stream' = Append(stream, JobGoes)
<1>1. \A a : stream \o <<a>> = Append(stream, a)
  OBVIOUS
<1>2. \A a, b : stream \o <<a, b>> = Append(Append(stream, a), b)
  OBVIOUS
<1>3. \A a : Say(<<a>>) => stream' = Append(stream, a)
  BY <1>1 DEF Say
<1>4. \A a, b : Say(<<a, b>>) => stream' = Append(Append(stream, a), b)
  BY <1>2 DEF Say
<1>5. ASSUME Start
      PROVE  \/ /\ scanner' = "absent"
                /\ stream' = Append(stream, OwnerComes)
             \/ /\ scanner' = "done"
                /\ stream' = Append(Append(stream, Signal("scanner", "done")),
                                    OwnerComes)
  <2>1. PICK r \in {"absent", "done"} :
            /\ scanner' = r
            /\ Say(IF r = "absent" THEN <<OwnerComes>>
                   ELSE <<Signal("scanner", r), OwnerComes>>)
    BY <1>5 DEF Start, OwnerComes
  <2>2. CASE r = "absent"
    BY <1>3, <2>1, <2>2
  <2>3. CASE r = "done"
    BY <1>4, <2>1, <2>3
  <2> QED BY <2>1, <2>2, <2>3
<1>6. Crash => stream' = Append(stream, OwnerGoes)
  BY <1>3 DEF Crash, OwnerGoes
<1>7. Discovered => stream' = Append(stream, Signal("scanner", "none"))
  BY <1>3 DEF Discovered
<1>8. SessionOver /\ job = "none" => stream' = Append(stream, ScannerGone)
  BY <1>3 DEF SessionOver, ScannerGone
<1>9. SessionOver /\ job # "none" => stream' = Append(Append(stream, JobGoes), ScannerGone)
  BY <1>4 DEF SessionOver, ScannerGone, JobGoes
<1>10. Supervise => /\ stream' = Append(stream, Signal("pairing", Head(unsent)))
                    /\ Head(unsent) \in PairingStates
  BY <1>3 DEF Supervise
<1>11. ASSUME JobMoves
       PROVE  \/ /\ job = "none" /\ job' = "running"
                 /\ orphan' <=> scanner = "absent"
                 /\ stream' = Append(stream, JobRuns)
              \/ /\ job = "running" /\ job' = "ended" /\ orphan' = orphan
                 /\ stream' = Append(stream, JobEnds)
              \/ /\ job = "ended" /\ job' = "none" /\ ~orphan'
                 /\ stream' = Append(stream, JobGoes)
  BY <1>3, <1>11 DEF JobMoves, JobRuns, JobEnds, JobGoes
<1> QED BY <1>5, <1>6, <1>7, <1>8, <1>9, <1>10, <1>11

(* The stream stays one of signals, at most two longer. *)
LEMMA StreamGrows ==
    ASSUME stream \in Seq(Signals), unsent \in Seq(PairingStates), DaemonStep
    PROVE  /\ stream' \in Seq(Signals)
           /\ stream' = stream \/ (StreamHasRoom /\ Len(stream') <= Len(stream) + 2)
<1>1. ASSUME NEW a \in Signals
      PROVE  /\ Append(stream, a) \in Seq(Signals)
             /\ Len(Append(stream, a)) = Len(stream) + 1 /\ Len(stream) \in Nat
  OBVIOUS
<1>2. ASSUME NEW a \in Signals, NEW b \in Signals
      PROVE  /\ Append(Append(stream, a), b) \in Seq(Signals)
             /\ Len(Append(Append(stream, a), b)) = Len(stream) + 2
  OBVIOUS
<1>3. OwnerComes \in Signals /\ OwnerGoes \in Signals
  BY SignalsSent
<1>4. \A s \in {"none", "done"} : Signal("scanner", s) \in Signals
  BY SignalsSent
<1>5. \A s \in PairingStates : Signal("pairing", s) \in Signals
  BY SignalsSent
<1>6. ScannerGone \in Signals /\ JobGoes \in Signals /\ JobRuns \in Signals
      /\ JobEnds \in Signals
  BY SignalsSent
<1>7. CASE Start
  <2>1. StreamHasRoom
    BY <1>7 DEF Start
  <2>2. \/ stream' = Append(stream, OwnerComes)
        \/ stream' = Append(Append(stream, Signal("scanner", "done")), OwnerComes)
    BY <1>7, DaemonSays
  <2>3. Signal("scanner", "done") \in Signals
    BY <1>4
  <2>4. CASE stream' = Append(stream, OwnerComes)
    BY <1>1, <1>3, <2>1, <2>4
  <2>5. CASE stream' = Append(Append(stream, Signal("scanner", "done")), OwnerComes)
    BY <1>2, <1>3, <2>1, <2>3, <2>5
  <2> QED BY <2>2, <2>4, <2>5
<1>8. CASE Crash
  <2>1. StreamHasRoom /\ stream' = Append(stream, OwnerGoes)
    BY <1>8, DaemonSays DEF Crash
  <2> QED BY <1>1, <1>3, <2>1
<1>9. CASE Discovered
  <2>1. StreamHasRoom /\ stream' = Append(stream, Signal("scanner", "none"))
    BY <1>9, DaemonSays DEF Discovered
  <2> QED BY <1>1, <1>4, <2>1
<1>10. CASE SessionOver
  <2>1. StreamHasRoom
    BY <1>10 DEF SessionOver
  <2>2. \/ stream' = Append(stream, ScannerGone)
        \/ stream' = Append(Append(stream, JobGoes), ScannerGone)
    BY <1>10, DaemonSays
  <2> QED BY <1>1, <1>2, <1>6, <2>1, <2>2
<1>11. CASE Supervise
  <2>1. StreamHasRoom
    BY <1>11 DEF Supervise
  <2>2. PICK s \in PairingStates : stream' = Append(stream, Signal("pairing", s))
    BY <1>11, DaemonSays
  <2> QED BY <1>1, <1>5, <2>1, <2>2
<1>12. CASE JobMoves
  <2>1. StreamHasRoom
    BY <1>12 DEF JobMoves
  <2>2. PICK a \in {JobRuns, JobEnds, JobGoes} : stream' = Append(stream, a)
    BY <1>12, DaemonSays
  <2> QED BY <1>1, <1>6, <2>1, <2>2
<1>13. CASE ShareOrNot \/ PairingMoves
  BY <1>13 DEF ShareOrNot, PairingMoves
<1> QED BY <1>7, <1>8, <1>9, <1>10, <1>11, <1>12, <1>13 DEF DaemonStep

(* An owner signal ends the live loop; a lost owner empties the mirror and *)
(* drops the hold.                                                         *)
LEMMA OwnerEffect ==
    ASSUME NEW m \in OwnerSignals, OwnerChanged(m)
    PROVE  /\ phase' = "presence"
           /\ m = OwnerComes => UNCHANGED <<mirror, record, banner, leased, held, hold>>
           /\ m = OwnerGoes => ForgetAll /\ ~held' /\ ~hold' /\ ~leased'
           /\ m = OwnerComes \/ m = OwnerGoes
<1>1. m \in Signals /\ (m = OwnerComes \/ m = OwnerGoes)
  BY SignalsSent DEF OwnerSignals
<1>2. (m = OwnerComes => m.value) /\ (m = OwnerGoes => ~m.value)
  BY <1>1, SignalKinds
<1>3. phase' = "presence"
  BY DEF OwnerChanged
<1>4. m.value => UNCHANGED <<mirror, record, banner, leased, held, hold>>
  BY DEF OwnerChanged, leases
<1>5. ~m.value => ForgetAll /\ ~held' /\ ~hold' /\ ~leased'
  BY DEF OwnerChanged
<1> QED BY <1>1, <1>2, <1>3, <1>4, <1>5

-----------------------------------------------------------------------------
(* Types, and the shape of the tree *)

(* Applying a signal keeps the types of what it touches. *)
LEMMA ApplyTyped ==
    ASSUME MirrorTypeOK, NEW m \in Signals, m.kind # "owner", Apply(m)
    PROVE  /\ mirror' \in [scanner : PairingStates \cup {"absent"}, job : JobStates]
           /\ record' \in {"none", "fresh", "visible", "over"}
           /\ banner' \in {"none", "progress", "result"}
           /\ leased' \in BOOLEAN /\ held' \in BOOLEAN /\ hold' \in BOOLEAN
<1> USE DEF MirrorTypeOK, PairingStates, JobStates
<1>1. CASE m.kind = "scanner"
  BY <1>1, SignalKinds DEF Apply, StoreWithScanner, leases
<1>2. CASE m.kind = "pairing"
  <2>1. m.value \in PairingStates /\ UNCHANGED <<record, banner>>
    BY <1>2, SignalKinds DEF Apply
  <2>2. mirror' = mirror \/ mirror' = [mirror EXCEPT !.scanner = m.value]
    BY <1>2 DEF Apply
  <2>3. UNCHANGED leases \/ Released
    BY <1>2 DEF Apply
  <2>4. leased' \in BOOLEAN /\ held' \in BOOLEAN /\ hold' \in BOOLEAN
    BY <2>3 DEF Released, leases
  <2> QED BY <2>1, <2>2, <2>4
<1>3. CASE m = ScannerGone
  <2>1. m.kind = "gone" /\ m.value = "scanner"
    BY <1>3, SignalKinds
  <2> QED BY <2>1 DEF Apply, StoreWithoutScanner, EmptyStore, leases
<1>4. CASE m = JobGoes
  BY <1>4, SignalKinds DEF Apply, StoreWithoutJob, JobGone, Withdrawn, leases
<1>5. CASE m.kind = "job"
  BY <1>5, SignalKinds DEF Apply, StoreWithJob, leases
<1>6. CASE m.kind = "state"
  BY <1>6, SignalKinds DEF Apply, StoreWithState, leases
<1> QED BY <1>1, <1>2, <1>3, <1>4, <1>5, <1>6, SignalKinds

(* The daemon's steps keep the types: two signals at most a step, within   *)
(* the bound.                                                              *)
LEMMA DaemonTyped ==
    ASSUME MirrorTypeOK, TreeStands, DaemonStep
    PROVE  MirrorTypeOK'
<1>1. Len(stream') <= WireBound + 2
  <2>1. stream \in Seq(Signals) /\ unsent \in Seq(PairingStates)
    BY DEF TreeStands, MirrorTypeOK
  <2>2. Len(stream) \in Nat /\ WireBound \in Nat /\ Len(stream) <= WireBound + 2
    BY <2>1, WireAssumption DEF MirrorTypeOK
  <2>3. stream' \in Seq(Signals)
    BY <2>1, StreamGrows
  <2>4. Len(stream') \in Nat
    BY <2>3
  <2> QED BY <2>1, <2>2, <2>4, StreamGrows DEF StreamHasRoom
<1>2. unsent' \in Seq(PairingStates)
  <2>1. unsent \in Seq(PairingStates)
    BY DEF MirrorTypeOK
  <2>2. unsent' = <<>> => unsent' \in Seq(PairingStates)
    OBVIOUS
  <2>3. CASE PairingMoves
    BY <2>1, <2>3 DEF PairingMoves
  <2>4. CASE Supervise
    BY <2>1, <2>4 DEF Supervise
  <2>5. CASE ~PairingMoves /\ ~Supervise
    <3>1. unsent' = unsent \/ unsent' = <<>>
      BY <2>5 DEF DaemonStep, Start, Crash, ShareOrNot, Discovered, SessionOver, JobMoves
    <3> QED BY <2>1, <2>2, <3>1
  <2> QED BY <2>3, <2>4, <2>5
<1>3. /\ owner' \in BOOLEAN /\ orphan' \in BOOLEAN /\ sharing' \in BOOLEAN
      /\ leased' \in BOOLEAN /\ held' \in BOOLEAN /\ hold' \in BOOLEAN
  BY DEF MirrorTypeOK, DaemonStep, Start, Crash, ShareOrNot, Discovered, SessionOver,
         PairingMoves, Supervise, JobMoves, leases
<1>4. /\ scanner' \in PairingStates \cup {"absent"}
      /\ job' \in JobStates
  BY DEF MirrorTypeOK, DaemonStep, Start, Crash, ShareOrNot, Discovered, SessionOver,
         PairingMoves, Supervise, JobMoves, PairingStates, JobStates
<1>5. UNCHANGED client
  BY DEF DaemonStep, Start, Crash, ShareOrNot, Discovered, SessionOver, PairingMoves,
         Supervise, JobMoves
<1> QED BY <1>1, <1>2, <1>3, <1>4, <1>5 DEF MirrorTypeOK, client

(* So do the client's.                                                     *)
LEMMA ClientTyped ==
    ASSUME MirrorTypeOK, TreeStands, SessionStep \/ ShowProgress \/ Pair
    PROVE  MirrorTypeOK'
<1> USE DEF leases, tree, MirrorTypeOK
<1>0. stream \in Seq(Signals) /\ WireBound \in Nat
  BY WireAssumption DEF TreeStands
<1>1. EmptyStore \in [scanner : PairingStates \cup {"absent"}, job : JobStates]
  BY DEF EmptyStore, JobStates
<1>2. ForgetAll => /\ mirror' \in [scanner : PairingStates \cup {"absent"}, job : JobStates]
                   /\ record' = "none" /\ banner' \in {"none", "progress", "result"}
  BY <1>1 DEF ForgetAll, Withdrawn
<1>3. CASE Presence
  BY <1>2, <1>3 DEF Presence
<1>4. CASE Seed
  BY <1>4 DEF Seed, JobStates
<1>5. CASE SessionFails \/ ReleaseFails
  <2>1. Fail
    BY <1>5 DEF SessionFails, ReleaseFails
  <2>2. stream' = <<>>
    BY <2>1 DEF Fail
  <2>3. Len(stream') <= WireBound + 2
    BY <1>0, <2>2
  <2> QED BY <1>2, <2>1, <2>3 DEF Fail
<1>6. CASE Retry
  BY <1>6 DEF Retry
<1>7. CASE Wait
  <2>1. Len(stream') <= WireBound + 2
    BY <1>0, <1>7 DEF Wait
  <2> QED BY <1>7, <2>1 DEF Wait
<1>8. CASE Dispatch
  <2>1. Len(stream') <= WireBound + 2 /\ Head(stream) \in Signals
    BY <1>0, <1>8 DEF Dispatch
  <2>2. CASE Head(stream).kind = "owner"
    <3>1. Head(stream) \in OwnerSignals /\ OwnerChanged(Head(stream))
      BY <1>8, <2>1, <2>2, SignalKinds DEF Dispatch
    <3>2. \/ UNCHANGED <<mirror, record, banner>>
          \/ ForgetAll
      BY <3>1 DEF OwnerChanged
    <3>3. leased' \in BOOLEAN /\ held' \in BOOLEAN /\ hold' \in BOOLEAN
      BY <1>8, <3>1 DEF OwnerChanged, leases
    <3> QED BY <1>2, <1>8, <2>1, <3>1, <3>2, <3>3 DEF Dispatch, OwnerChanged
  <2>3. CASE Head(stream).kind # "owner"
    BY <1>8, <2>1, <2>3, ApplyTyped DEF Dispatch
  <2> QED BY <2>2, <2>3
<1>9. CASE Acquire
  <2>1. hold' \in BOOLEAN /\ leased' \in BOOLEAN /\ command' \in {"idle", "call"}
    BY <1>9 DEF Acquire
  <2>2. UNCHANGED <<tree, held, phase, mirror, record, banner, stream>>
    BY <1>9 DEF Acquire
  <2> QED BY <2>1, <2>2
<1>10. CASE CallPair
  <2>1. held' \in BOOLEAN /\ hold' \in BOOLEAN /\ leased' \in BOOLEAN
    BY <1>10 DEF CallPair, Released
  <2>2. scanner' \in PairingStates \cup {"absent"}
    BY <1>10 DEF CallPair, PairingStates
  <2>3. unsent' \in Seq(PairingStates)
    BY <1>10 DEF CallPair, PairingStates
  <2>4. /\ UNCHANGED <<owner, job, orphan, sharing, phase, mirror, record, banner, stream>>
        /\ command' = "idle"
    BY <1>10 DEF CallPair
  <2> QED BY <2>1, <2>2, <2>3, <2>4
<1>11. CASE ShowProgress
  BY <1>11 DEF ShowProgress
<1>12. CASE Pair
  BY <1>12 DEF Pair
<1> QED BY <1>3, <1>4, <1>5, <1>6, <1>7, <1>8, <1>9, <1>10, <1>11, <1>12 DEF SessionStep

(* What is left of a sequence ends as it did. *)
LEMMA TailEnds ==
    ASSUME NEW S, NEW u \in Seq(S), u # <<>>
    PROVE  /\ Len(u) = 1 => Tail(u) = <<>> /\ Head(u) = u[Len(u)]
           /\ Len(u) # 1 => /\ Tail(u) # <<>> /\ Len(Tail(u)) = Len(u) - 1
                            /\ Tail(u)[Len(Tail(u))] = u[Len(u)]
<1>1. Len(u) \in Nat \ {0} /\ Len(Tail(u)) = Len(u) - 1 /\ Head(u) = u[1]
  OBVIOUS
<1>2. \A i \in 1..(Len(u) - 1) : Tail(u)[i] = u[i + 1]
  OBVIOUS
<1>3. Tail(u) \in Seq(S)
  OBVIOUS
<1>4. \A t \in Seq(S) : t = <<>> <=> Len(t) = 0
  OBVIOUS
<1>5. Len(u) # 1 => Tail(u)[Len(Tail(u))] = u[Len(u)]
  BY <1>1, <1>2
<1> QED BY <1>1, <1>3, <1>4, <1>5

(* A pairing state reached is the last one to be announced. *)
LEMMA LastUnsent ==
    ASSUME unsent \in Seq(PairingStates)
    PROVE  /\ \A s \in PairingStates : /\ Append(unsent, s) # <<>>
                                       /\ Append(unsent, s)[Len(Append(unsent, s))] = s
           /\ unsent # <<>> /\ Tail(unsent) # <<>>
                  => Tail(unsent)[Len(Tail(unsent))] = unsent[Len(unsent)]
           /\ unsent # <<>> /\ Tail(unsent) = <<>> => Head(unsent) = unsent[Len(unsent)]
<1>1. ASSUME NEW s \in PairingStates
      PROVE  /\ Append(unsent, s) # <<>>
             /\ Append(unsent, s)[Len(Append(unsent, s))] = s
  OBVIOUS
<1> QED BY <1>1, TailEnds

(* Every step keeps the shape: an announced state is the last reached, and *)
(* a daemon without an owner has no objects.                               *)
LEMMA TreeStandsStep ==
    ASSUME MirrorTypeOK, TreeStands, [MirrorNext]_mirrorVars
    PROVE  TreeStands'
<1> USE DEF leases, tree, client
<1>0. stream \in Seq(Signals) /\ unsent \in Seq(PairingStates)
  BY DEF TreeStands, MirrorTypeOK
<1>1. DaemonStep => stream' \in Seq(Signals)
  BY <1>0, StreamGrows
<1>2. CASE Start
  BY <1>1, <1>2 DEF DaemonStep, Start, TreeStands
<1>3. CASE Crash
  BY <1>1, <1>3 DEF DaemonStep, Crash, TreeStands
<1>4. CASE ShareOrNot
  BY <1>4 DEF ShareOrNot, TreeStands
<1>5. CASE Discovered
  BY <1>1, <1>5 DEF DaemonStep, Discovered, TreeStands
<1>6. CASE SessionOver
  BY <1>1, <1>6 DEF DaemonStep, SessionOver, TreeStands
<1>7. CASE PairingMoves
  BY <1>0, <1>7, LastUnsent DEF PairingMoves, TreeStands, PairingStates
<1>8. CASE Supervise
  <2>1. Head(unsent) \in PairingStates
    BY <1>0, <1>8 DEF Supervise
  <2> QED BY <1>0, <1>1, <1>8, <2>1, LastUnsent DEF DaemonStep, Supervise, TreeStands
<1>9. CASE JobMoves
  <2>1. UNCHANGED scanner
    BY <1>9 DEF JobMoves
  <2>2. scanner = "absent" => job = "none" \/ orphan
    BY DEF TreeStands
  <2>3. \/ orphan' <=> scanner = "absent"
        \/ job = "running" /\ orphan' = orphan
        \/ job' = "none"
    BY <1>0, <1>9, DaemonSays
  <2>4. scanner' = "absent" => job' = "none" \/ orphan'
    BY <2>1, <2>2, <2>3
  <2> QED BY <1>1, <1>9, <2>4 DEF DaemonStep, JobMoves, TreeStands
<1>10. CASE Presence
  BY <1>10 DEF Presence, ForgetAll, TreeStands
<1>11. CASE Seed \/ Retry \/ Acquire \/ ShowProgress \/ Pair
  BY <1>11 DEF Seed, Retry, Acquire, ShowProgress, Pair, Live, TreeStands
<1>12. CASE SessionFails \/ ReleaseFails
  <2>1. stream' = <<>> /\ phase' = "backoff" /\ UNCHANGED tree
    BY <1>12 DEF SessionFails, ReleaseFails, Fail
  <2>2. stream' \in Seq(Signals)
    BY <2>1
  <2> QED BY <2>1, <2>2 DEF TreeStands
<1>13. CASE Wait
  BY <1>0, <1>13 DEF Wait, TreeStands
<1>14. CASE Dispatch
  BY <1>0, <1>14 DEF Dispatch, Live, OwnerChanged, TreeStands
<1>15. CASE CallPair
  BY <1>0, <1>15, LastUnsent DEF CallPair, TreeStands, PairingStates
<1>16. CASE UNCHANGED mirrorVars
  BY <1>16 DEF mirrorVars, TreeStands
<1> QED BY <1>2, <1>3, <1>4, <1>5, <1>6, <1>7, <1>8, <1>9, <1>10, <1>11, <1>12, <1>13,
           <1>14, <1>15, <1>16 DEF MirrorNext, DaemonStep, SessionStep

-----------------------------------------------------------------------------
(* What is still to come says what the tree says *)

(* What a signal does to the mirror. *)
LEMMA DispatchEffect ==
    ASSUME MirrorTypeOK, TreeStands, Dispatch
    PROVE  LET m == Head(stream) IN
           /\ m \in Signals /\ stream # <<>> /\ stream' = Tail(stream) /\ phase = "live"
           /\ m.kind = "owner" => phase' = "presence"
           /\ m.kind # "owner" => phase' = phase
           /\ m.kind = "scanner" => mirror'.scanner = m.value /\ mirror'.job = "none"
           /\ m.kind = "pairing" =>
                  /\ mirror'.scanner = IF mirror.scanner = "absent" THEN "absent"
                                       ELSE m.value
                  /\ mirror'.job = mirror.job
           /\ m = ScannerGone => mirror'.scanner = "absent" /\ mirror'.job = "none"
           /\ m = JobGoes => mirror'.scanner = mirror.scanner /\ mirror'.job = "none"
           /\ m = JobRuns =>
                  /\ mirror'.scanner = mirror.scanner
                  /\ mirror.scanner # "absent" => mirror'.job = "running"
           /\ m = JobEnds =>
                  /\ mirror'.scanner = mirror.scanner
                  /\ mirror'.job = IF mirror.job = "none" THEN "none" ELSE "ended"
<1> DEFINE m == Head(stream)
<1>1. m \in Signals /\ stream # <<>> /\ stream' = Tail(stream) /\ phase = "live"
  BY DEF Dispatch, Live, TreeStands
<1>2. m.kind = "owner" => phase' = "presence"
  BY DEF Dispatch, OwnerChanged
<1>3. m.kind # "owner" => phase' = phase /\ Apply(m)
  BY DEF Dispatch
<1>4. mirror \in [scanner : PairingStates \cup {"absent"}, job : JobStates]
  BY DEF MirrorTypeOK
<1>5. m.kind = "scanner" => mirror'.scanner = m.value /\ mirror'.job = "none"
  <2> SUFFICES ASSUME m.kind = "scanner" PROVE mirror' = StoreWithScanner(m.value)
    BY DEF StoreWithScanner
  <2> QED BY <1>3 DEF Apply
<1>6. m.kind = "pairing" =>
          /\ mirror'.scanner = IF mirror.scanner = "absent" THEN "absent" ELSE m.value
          /\ mirror'.job = mirror.job
  BY <1>1, <1>3, <1>4, SignalKinds DEF Apply
<1>7. m = ScannerGone => mirror'.scanner = "absent" /\ mirror'.job = "none"
  <2> SUFFICES ASSUME m = ScannerGone PROVE mirror' = EmptyStore
    BY DEF EmptyStore
  <2>1. m.kind = "gone" /\ m.value = "scanner"
    BY <1>1, SignalKinds
  <2> QED BY <1>3, <2>1 DEF Apply, StoreWithoutScanner
<1>8. m = JobGoes => mirror'.scanner = mirror.scanner /\ mirror'.job = "none"
  <2> SUFFICES ASSUME m = JobGoes PROVE mirror' = [mirror EXCEPT !.job = "none"]
    BY <1>4
  <2>1. m.kind = "gone" /\ m.value = "job"
    BY <1>1, SignalKinds
  <2> QED BY <1>3, <2>1 DEF Apply, StoreWithoutJob
<1>9. m = JobRuns => /\ mirror'.scanner = mirror.scanner
                     /\ mirror.scanner # "absent" => mirror'.job = "running"
  <2> SUFFICES ASSUME m = JobRuns PROVE mirror' = StoreWithJob("running")
    BY <1>4 DEF StoreWithJob
  <2>1. m.kind = "job" /\ m.value = "running"
    BY <1>1, SignalKinds
  <2> QED BY <1>3, <2>1 DEF Apply
<1>10. m = JobEnds => /\ mirror'.scanner = mirror.scanner
                      /\ mirror'.job = IF mirror.job = "none" THEN "none" ELSE "ended"
  <2> SUFFICES ASSUME m = JobEnds PROVE mirror' = StoreWithState("ended")
    BY <1>4 DEF StoreWithState
  <2>1. m.kind = "state" /\ m.value = "ended"
    BY <1>1, SignalKinds
  <2> QED BY <1>3, <2>1 DEF Apply
<1> QED BY <1>1, <1>2, <1>3, <1>5, <1>6, <1>7, <1>8, <1>9, <1>10

(* A signal applied: if it was the last about a thing, it said what the    *)
(* tree says, and the mirror takes it; if it was about another the mirror  *)
(* keeps what it has of the thing.                                         *)
LEMMA KnownApplied ==
    ASSUME MirrorTypeOK, TreeStands, AllKnown, Dispatch
    PROVE  AllKnown'
<1> DEFINE m == Head(stream)
<1>1. /\ UNCHANGED <<owner, scanner, job, orphan, unsent>>
      /\ stream \in Seq(Signals) /\ stream # <<>> /\ m \in Signals
      /\ stream' = Tail(stream) /\ phase = "live"
      /\ phase' = "live" => m.kind # "owner"
  BY DispatchEffect DEF Dispatch, tree, TreeStands
<1>2. OwnerKnown'
  <2> SUFFICES ASSUME phase' = "live", UntoldIn(Tail(stream), OwnerSignals) PROVE owner
    BY <1>1 DEF OwnerKnown
  <2>1. UntoldIn(stream, OwnerSignals)
    BY <1>1, Taken, SignalKinds
  <2> QED BY <1>1, <2>1 DEF AllKnown, OwnerKnown
<1>3. PresenceKnown'
  <2>1. ToldIn(stream, AboutPresence, SaysPresence(scanner))
    BY DEF AllKnown, PresenceKnown
  <2>2. ToldIn(Tail(stream), AboutPresence, SaysPresence(scanner))
    BY <1>1, <2>1, Taken
  <2>3. ASSUME phase' = "live", UntoldIn(Tail(stream), AboutPresence)
        PROVE  mirror'.scanner = "absent" <=> scanner = "absent"
    <3>1. CASE m \in AboutPresence
      <4>1. m \in SaysPresence(scanner)
        BY <1>1, <2>1, <2>3, <3>1, Taken
      <4>2. m \in IF scanner = "absent" THEN {ScannerGone} ELSE ScannerSignals
        BY <1>1, <2>3, <4>1, SignalKinds DEF SaysPresence
      <4> QED BY <1>1, <4>2, DispatchEffect, SignalKinds
    <3>2. CASE m \notin AboutPresence
      <4>1. UntoldIn(stream, AboutPresence)
        BY <1>1, <2>3, <3>2, Taken
      <4>2. mirror.scanner = "absent" <=> scanner = "absent"
        BY <1>1, <4>1 DEF AllKnown, PresenceKnown
      <4>3. m.kind = "pairing" \/ m = JobGoes \/ m = JobRuns \/ m = JobEnds
        BY <1>1, <3>2, SignalsAbout, SignalKinds
      <4>4. m.kind = "pairing" => m.value # "absent"
        BY <1>1, SignalKinds DEF PairingStates
      <4> QED BY <4>2, <4>3, <4>4, DispatchEffect
    <3> QED BY <3>1, <3>2
  <2> QED BY <1>1, <2>2, <2>3 DEF PresenceKnown
<1>4. PairingKnown'
  <2> SUFFICES ASSUME scanner # "absent", unsent = <<>>
               PROVE  /\ ToldIn(Tail(stream), AboutPairing, SaysPairing(scanner))
                      /\ phase' = "live" /\ UntoldIn(Tail(stream), AboutPairing)
                             => mirror'.scanner = scanner
    BY <1>1 DEF PairingKnown
  <2>1. ToldIn(stream, AboutPairing, SaysPairing(scanner))
    BY DEF AllKnown, PairingKnown
  <2>2. ToldIn(Tail(stream), AboutPairing, SaysPairing(scanner))
    BY <1>1, <2>1, Taken
  <2>3. ASSUME phase' = "live", UntoldIn(Tail(stream), AboutPairing)
        PROVE  mirror'.scanner = scanner
    <3>1. CASE m \in AboutPairing
      <4>1. m \in SaysPairing(scanner)
        BY <1>1, <2>1, <2>3, <3>1, Taken
      <4>2. m = Signal("scanner", scanner) \/ m = Signal("pairing", scanner)
        BY <1>1, <2>3, <4>1, SignalKinds DEF SaysPairing
      <4>3. CASE m = Signal("scanner", scanner)
        <5>1. m.kind = "scanner" /\ m.value = scanner
          BY <4>3 DEF Signal
        <5> QED BY <5>1, DispatchEffect
      <4>4. CASE m = Signal("pairing", scanner)
        <5>1. m.kind = "pairing" /\ m.value = scanner
          BY <4>4 DEF Signal
        <5>2. m \notin AboutPresence
          BY <1>1, <5>1, SignalsAbout, SignalKinds
        <5>3. UntoldIn(Tail(stream), AboutPresence)
          BY <2>3, UntoldPart DEF AboutPairing
        <5>4. UntoldIn(stream, AboutPresence)
          BY <1>1, <5>2, <5>3, Taken
        <5>5. mirror.scanner # "absent"
          BY <1>1, <5>4 DEF AllKnown, PresenceKnown
        <5> QED BY <5>1, <5>5, DispatchEffect
      <4> QED BY <4>2, <4>3, <4>4
    <3>2. CASE m \notin AboutPairing
      <4>1. UntoldIn(stream, AboutPairing)
        BY <1>1, <2>3, <3>2, Taken
      <4>2. mirror.scanner = scanner
        BY <1>1, <4>1 DEF AllKnown, PairingKnown
      <4>3. m = JobGoes \/ m = JobRuns \/ m = JobEnds
        BY <1>1, <3>2, SignalsAbout, SignalKinds
      <4> QED BY <4>2, <4>3, DispatchEffect
    <3> QED BY <3>1, <3>2
  <2> QED BY <2>2, <2>3
<1>5. JobKnown'
  <2> SUFFICES ASSUME scanner # "absent", ~orphan
               PROVE  /\ ToldIn(Tail(stream), AboutJob, SaysJob(job))
                      /\ phase' = "live" /\ UntoldIn(Tail(stream), AboutJob)
                             => (mirror'.job = "none" <=> job = "none")
    BY <1>1 DEF JobKnown
  <2>1. ToldIn(stream, AboutJob, SaysJob(job))
    BY DEF AllKnown, JobKnown
  <2>2. ToldIn(Tail(stream), AboutJob, SaysJob(job))
    BY <1>1, <2>1, Taken
  <2>3. ASSUME phase' = "live", UntoldIn(Tail(stream), AboutJob)
        PROVE  mirror'.job = "none" <=> job = "none"
    <3>1. CASE m \in AboutJob
      <4>1. m \in SaysJob(job)
        BY <1>1, <2>1, <2>3, <3>1, Taken
      <4>2. IF job = "none" THEN m.kind = "scanner" \/ m = JobGoes ELSE m = JobRuns
        BY <1>1, <2>3, <4>1, SignalKinds DEF SaysJob
      <4>3. CASE job = "none"
        BY <4>2, <4>3, DispatchEffect
      <4>4. CASE job # "none"
        <5>1. m \notin AboutPresence
          BY <1>1, <4>2, <4>4, SignalsAbout, SignalKinds
        <5>2. UntoldIn(Tail(stream), AboutPresence)
          BY <2>3, UntoldPart DEF AboutJob
        <5>3. UntoldIn(stream, AboutPresence)
          BY <1>1, <5>1, <5>2, Taken
        <5>4. mirror.scanner # "absent"
          BY <1>1, <5>3 DEF AllKnown, PresenceKnown
        <5> QED BY <4>2, <4>4, <5>4, DispatchEffect
      <4> QED BY <4>3, <4>4
    <3>2. CASE m \notin AboutJob
      <4>1. UntoldIn(stream, AboutJob)
        BY <1>1, <2>3, <3>2, Taken
      <4>2. mirror.job = "none" <=> job = "none"
        BY <1>1, <4>1 DEF AllKnown, JobKnown
      <4>3. m.kind = "pairing" \/ m = JobEnds
        BY <1>1, <3>2, SignalsAbout, SignalKinds
      <4> QED BY <4>2, <4>3, DispatchEffect
    <3> QED BY <3>1, <3>2
  <2> QED BY <2>2, <2>3
<1>6. StateKnown'
  <2> SUFFICES ASSUME scanner # "absent", ~orphan
               PROVE  /\ ToldIn(Tail(stream), AboutState, SaysState(job))
                      /\ phase' = "live" /\ UntoldIn(Tail(stream), AboutState)
                             => mirror'.job = job
    BY <1>1 DEF StateKnown
  <2>1. ToldIn(stream, AboutState, SaysState(job)) /\ job \in {"none", "running", "ended"}
    BY DEF AllKnown, StateKnown, MirrorTypeOK, JobStates
  <2>2. ToldIn(Tail(stream), AboutState, SaysState(job))
    BY <1>1, <2>1, Taken
  <2>3. ASSUME phase' = "live", UntoldIn(Tail(stream), AboutState)
        PROVE  mirror'.job = job
    <3>1. CASE m \in AboutState
      <4>1. m \in SaysState(job)
        BY <1>1, <2>1, <2>3, <3>1, Taken
      <4>2. /\ job = "none" => m.kind = "scanner" \/ m = JobGoes
            /\ job = "running" => m = JobRuns
            /\ job = "ended" => m = JobEnds
        BY <1>1, <2>3, <4>1, SignalKinds DEF SaysState
      <4>3. CASE job = "none"
        BY <4>2, <4>3, DispatchEffect
      <4>4. CASE job = "running"
        <5>1. m \notin AboutPresence
          BY <1>1, <4>2, <4>4, SignalsAbout, SignalKinds
        <5>2. UntoldIn(Tail(stream), AboutPresence)
          BY <2>3, UntoldPart DEF AboutJob, AboutState
        <5>3. UntoldIn(stream, AboutPresence)
          BY <1>1, <5>1, <5>2, Taken
        <5>4. mirror.scanner # "absent"
          BY <1>1, <5>3 DEF AllKnown, PresenceKnown
        <5> QED BY <4>2, <4>4, <5>4, DispatchEffect
      <4>5. CASE job = "ended"
        <5>1. m \notin AboutJob
          BY <1>1, <4>2, <4>5, SignalsAbout, SignalKinds
        <5>2. UntoldIn(Tail(stream), AboutJob)
          BY <2>3, UntoldPart DEF AboutState
        <5>3. UntoldIn(stream, AboutJob)
          BY <1>1, <5>1, <5>2, Taken
        <5>4. mirror.job # "none"
          BY <1>1, <4>5, <5>3 DEF AllKnown, JobKnown
        <5> QED BY <4>2, <4>5, <5>4, DispatchEffect
      <4> QED BY <2>1, <4>3, <4>4, <4>5
    <3>2. CASE m \notin AboutState
      <4>1. UntoldIn(stream, AboutState)
        BY <1>1, <2>3, <3>2, Taken
      <4>2. mirror.job = job
        BY <1>1, <4>1 DEF AllKnown, StateKnown
      <4>3. m.kind = "pairing"
        BY <1>1, <3>2, SignalsAbout, SignalKinds
      <4> QED BY <4>2, <4>3, DispatchEffect
    <3> QED BY <3>1, <3>2
  <2> QED BY <2>2, <2>3
<1> QED BY <1>2, <1>3, <1>4, <1>5, <1>6 DEF AllKnown

(* A step of the daemon's: what it says of a thing is what the thing has   *)
(* become, and it says nothing of a thing it leaves alone.                 *)
LEMMA KnownSaid ==
    ASSUME MirrorTypeOK, TreeStands, AllKnown, DaemonStep
    PROVE  AllKnown'
<1>0. /\ stream \in Seq(Signals) /\ unsent \in Seq(PairingStates)
      /\ UNCHANGED <<mirror, phase>>
  BY DEF TreeStands, MirrorTypeOK, DaemonStep, Start, Crash, ShareOrNot, Discovered,
         SessionOver, PairingMoves, Supervise, JobMoves, client
<1>1. ASSUME NEW s \in Seq(Signals), NEW m \in OwnerSignals, stream' = Append(s, m)
      PROVE  AllKnown'
  <2>1. m \in Signals
    BY SignalsSent
  <2>2. \A A, G : m \in A /\ m \in G => ToldIn(stream', A, G) /\ ~UntoldIn(stream', A)
    BY <1>1, <2>1, SaidLast
  <2>3. m \in AboutPresence /\ m \in AboutPairing /\ m \in AboutJob /\ m \in AboutState
    BY DEF AboutPresence, AboutPairing, AboutJob, AboutState
  <2>4. \A v : /\ m \in SaysPresence(v) /\ m \in SaysPairing(v)
               /\ m \in SaysJob(v) /\ m \in SaysState(v)
    BY DEF SaysPresence, SaysPairing, SaysJob, SaysState
  <2>5. OwnerKnown'
    BY <2>2 DEF OwnerKnown
  <2>6. PresenceKnown'
    BY <2>2, <2>3, <2>4 DEF PresenceKnown
  <2>7. PairingKnown'
    BY <2>2, <2>3, <2>4 DEF PairingKnown
  <2>8. JobKnown'
    BY <2>2, <2>3, <2>4 DEF JobKnown
  <2>9. StateKnown'
    BY <2>2, <2>3, <2>4 DEF StateKnown
  <2> QED BY <2>5, <2>6, <2>7, <2>8, <2>9 DEF AllKnown
<1>2. CASE Start
  <2>1. OwnerComes \in OwnerSignals /\ Signal("scanner", "done") \in Signals
    BY SignalsSent
  <2>2. Append(stream, Signal("scanner", "done")) \in Seq(Signals)
    BY <1>0, <2>1
  <2> QED BY <1>0, <1>1, <1>2, <2>1, <2>2, DaemonSays
<1>3. CASE Crash
  <2>1. OwnerGoes \in OwnerSignals
    BY SignalsSent
  <2> QED BY <1>0, <1>1, <1>3, <2>1, DaemonSays
<1>4. CASE ShareOrNot
  BY <1>0, <1>4
     DEF ShareOrNot, AllKnown, OwnerKnown, PresenceKnown, PairingKnown, JobKnown, StateKnown
<1>5. CASE Discovered
  <2> DEFINE m == Signal("scanner", "none")
  <2>1. /\ m \in Signals /\ m.kind = "scanner" /\ stream' = Append(stream, m)
        /\ scanner = "absent" /\ scanner' = "none"
        /\ UNCHANGED <<owner, job, orphan, unsent>>
    BY <1>0, <1>5, DaemonSays, SignalsSent DEF Discovered, Signal
  <2>2. job = "none" \/ orphan
    BY <2>1 DEF TreeStands
  <2>3. m \in ScannerSignals /\ m \notin OwnerSignals
    BY <2>1, SignalKinds
  <2>4. m \in AboutPresence /\ m \in AboutPairing /\ m \in AboutJob /\ m \in AboutState
    BY <2>3 DEF AboutPresence, AboutPairing, AboutJob, AboutState
  <2>5. \A A, G : m \in A /\ m \in G => ToldIn(stream', A, G) /\ ~UntoldIn(stream', A)
    BY <1>0, <2>1, SaidLast
  <2>6. /\ m \in SaysPresence("none") /\ m \in SaysPairing("none")
        /\ m \in SaysJob("none") /\ m \in SaysState("none")
    BY <2>3 DEF SaysPresence, SaysPairing, SaysJob, SaysState
  <2>7. OwnerKnown'
    BY <1>0, <2>1, <2>3, SaidOther DEF AllKnown, OwnerKnown
  <2>8. PresenceKnown' /\ PairingKnown'
    BY <2>1, <2>4, <2>5, <2>6 DEF PresenceKnown, PairingKnown
  <2>9. JobKnown' /\ StateKnown'
    BY <2>1, <2>2, <2>4, <2>5, <2>6 DEF JobKnown, StateKnown
  <2> QED BY <2>7, <2>8, <2>9 DEF AllKnown
<1>6. CASE SessionOver
  <2>1. PICK s \in Seq(Signals) : /\ stream' = Append(s, ScannerGone)
                                  /\ s = stream \/ s = Append(stream, JobGoes)
    <3>1. Append(stream, JobGoes) \in Seq(Signals)
      BY <1>0, SignalsSent
    <3> QED BY <1>0, <1>6, <3>1, DaemonSays
  <2>2. /\ ScannerGone \in Signals /\ JobGoes \in Signals
        /\ ScannerGone \notin OwnerSignals /\ JobGoes \notin OwnerSignals
    BY SignalsSent, SignalKinds
  <2>3. scanner' = "absent" /\ UNCHANGED owner
    BY <1>6 DEF SessionOver
  <2>4. OwnerKnown'
    <3>1. UntoldIn(s, OwnerSignals) <=> UntoldIn(stream, OwnerSignals)
      BY <1>0, <2>1, <2>2, SaidOther
    <3>2. UntoldIn(stream', OwnerSignals) <=> UntoldIn(s, OwnerSignals)
      BY <2>1, <2>2, SaidOther
    <3> QED BY <1>0, <2>3, <3>1, <3>2 DEF AllKnown, OwnerKnown
  <2>5. PresenceKnown'
    <3>1. ScannerGone \in AboutPresence /\ ScannerGone \in SaysPresence("absent")
      BY DEF AboutPresence, SaysPresence
    <3>2. /\ ToldIn(stream', AboutPresence, SaysPresence("absent"))
          /\ ~UntoldIn(stream', AboutPresence)
      BY <2>1, <2>2, <3>1, SaidLast
    <3> QED BY <2>3, <3>2 DEF PresenceKnown
  <2> QED BY <2>3, <2>4, <2>5 DEF AllKnown, PairingKnown, JobKnown, StateKnown
<1>7. CASE PairingMoves
  <2>1. /\ scanner # "absent" /\ scanner' # "absent" /\ unsent' # <<>>
        /\ UNCHANGED <<owner, job, orphan, stream>>
    BY <1>0, <1>7, LastUnsent DEF PairingMoves, PairingStates
  <2>2. SaysPresence(scanner)' = SaysPresence(scanner)
    BY <2>1 DEF SaysPresence
  <2> QED BY <1>0, <2>1, <2>2
      DEF AllKnown, OwnerKnown, PresenceKnown, PairingKnown, JobKnown, StateKnown
<1>8. CASE Supervise
  <2>1. PICK v \in PairingStates : /\ v = Head(unsent)
                                   /\ stream' = Append(stream, Signal("pairing", v))
    BY <1>0, <1>8, DaemonSays
  <2>2. PICK m \in Signals : /\ m = Signal("pairing", v) /\ m.kind = "pairing"
                             /\ stream' = Append(stream, m)
    BY <2>1, SignalsSent DEF Signal
  <2>3. unsent # <<>> /\ unsent' = Tail(unsent) /\ UNCHANGED <<owner, scanner, job, orphan>>
    BY <1>8 DEF Supervise
  <2>4. /\ m \notin OwnerSignals /\ m \notin AboutPresence
        /\ m \notin AboutJob /\ m \notin AboutState /\ m \in AboutPairing
    BY <2>2, SignalKinds, SignalsAbout
  <2>5. \A A, G : m \notin A => /\ ToldIn(stream', A, G) <=> ToldIn(stream, A, G)
                                /\ UntoldIn(stream', A) <=> UntoldIn(stream, A)
    BY <1>0, <2>2, SaidOther
  <2>6. OwnerKnown' /\ PresenceKnown'
    BY <1>0, <2>3, <2>4, <2>5 DEF AllKnown, OwnerKnown, PresenceKnown
  <2>7. JobKnown' /\ StateKnown'
    BY <1>0, <2>3, <2>4, <2>5 DEF AllKnown, JobKnown, StateKnown
  <2>8. PairingKnown'
    <3> SUFFICES ASSUME unsent' = <<>>
                 PROVE  /\ ToldIn(stream', AboutPairing, SaysPairing(scanner))
                        /\ ~UntoldIn(stream', AboutPairing)
      BY <2>3 DEF PairingKnown
    <3>1. v = scanner
      BY <1>0, <2>1, <2>3, LastUnsent DEF TreeStands
    <3>2. m \in SaysPairing(scanner)
      BY <2>2, <3>1 DEF SaysPairing
    <3> QED BY <1>0, <2>2, <2>4, <3>2, SaidLast
  <2> QED BY <2>6, <2>7, <2>8 DEF AllKnown
<1>9. CASE JobMoves
  <2>1. PICK m \in {JobRuns, JobEnds, JobGoes} :
            /\ stream' = Append(stream, m)
            /\ m = JobRuns => job = "none" /\ job' = "running"
            /\ m = JobEnds => job = "running" /\ job' = "ended" /\ orphan' = orphan
            /\ m = JobGoes => job' = "none"
    <3>1. JobRuns # JobEnds /\ JobRuns # JobGoes /\ JobEnds # JobGoes
      BY DEF JobRuns, JobEnds, JobGoes, Signal
    <3> QED BY <1>0, <1>9, <3>1, DaemonSays
  <2>2. m \in Signals /\ UNCHANGED <<owner, scanner, unsent>>
    BY <1>9, SignalsSent DEF JobMoves
  <2>3. /\ m \notin OwnerSignals /\ m \notin AboutPresence /\ m \notin AboutPairing
        /\ m \in AboutState /\ (m = JobEnds <=> m \notin AboutJob)
    BY <2>1, <2>2, SignalKinds, SignalsAbout
  <2>4. \A A, G : m \notin A => /\ ToldIn(stream', A, G) <=> ToldIn(stream, A, G)
                                /\ UntoldIn(stream', A) <=> UntoldIn(stream, A)
    BY <1>0, <2>1, <2>2, SaidOther
  <2>5. \A A, G : m \in A /\ m \in G => ToldIn(stream', A, G) /\ ~UntoldIn(stream', A)
    BY <1>0, <2>1, <2>2, SaidLast
  <2>6. OwnerKnown' /\ PresenceKnown' /\ PairingKnown'
    BY <1>0, <2>2, <2>3, <2>4 DEF AllKnown, OwnerKnown, PresenceKnown, PairingKnown
  <2>7. m \in SaysState(job')
    BY <2>1 DEF SaysState
  <2>8. StateKnown'
    BY <2>3, <2>5, <2>7 DEF StateKnown
  <2>9. JobKnown'
    <3>1. CASE m = JobEnds
      <4>1. SaysJob(job') = SaysJob(job) /\ job # "none" /\ job' # "none"
        BY <2>1, <3>1 DEF SaysJob
      <4> QED BY <1>0, <2>1, <2>2, <2>3, <2>4, <3>1, <4>1 DEF AllKnown, JobKnown
    <3>2. CASE m # JobEnds
      <4>1. m \in SaysJob(job')
        BY <2>1, <3>2 DEF SaysJob
      <4> QED BY <2>3, <2>5, <3>2, <4>1 DEF JobKnown
    <3> QED BY <3>1, <3>2
  <2> QED BY <2>6, <2>8, <2>9 DEF AllKnown
<1> QED BY <1>2, <1>3, <1>4, <1>5, <1>6, <1>7, <1>8, <1>9 DEF DaemonStep

(* The rest of the client: a reading of the tree needs no signal, signals  *)
(* that are dropped are so by a session that has not read it yet.          *)
LEMMA KnownRead ==
    ASSUME MirrorTypeOK, TreeStands, AllKnown,
           \/ SessionStep \/ ShowProgress \/ Pair
           \/ UNCHANGED mirrorVars
    PROVE  AllKnown'
<1> USE DEF AllKnown, OwnerKnown, PresenceKnown, PairingKnown, JobKnown, StateKnown
<1>0. stream \in Seq(Signals) /\ unsent \in Seq(PairingStates)
  BY DEF TreeStands, MirrorTypeOK
<1>1. CASE /\ UNCHANGED <<owner, scanner, job, orphan, unsent, stream>>
           /\ phase' = "live" => phase = "live" /\ UNCHANGED mirror
  BY <1>1
<1>2. CASE Presence \/ Retry \/ Acquire \/ ShowProgress \/ Pair \/ UNCHANGED mirrorVars
  BY <1>1, <1>2 DEF Presence, Retry, Acquire, ShowProgress, Pair, mirrorVars, tree
<1>3. CASE Seed
  <2>1. mirror' = [scanner |-> scanner, job |-> IF scanner = "absent" THEN "none" ELSE job]
    BY <1>3 DEF Seed
  <2>2. mirror'.scanner = scanner /\ (scanner # "absent" => mirror'.job = job)
    BY <2>1
  <2> QED BY <1>3, <2>2 DEF Seed, tree
<1>4. CASE SessionFails \/ ReleaseFails
  <2>1. phase' = "backoff" /\ stream' = <<>>
    BY <1>4 DEF SessionFails, ReleaseFails, Fail
  <2>2. \A A, G : ToldIn(stream', A, G)
    BY <2>1 DEF ToldIn
  <2> QED BY <2>1, <2>2
<1>5. CASE Wait
  <2>1. /\ phase' # "live" /\ stream # <<>> /\ stream' = Tail(stream)
        /\ UNCHANGED <<owner, scanner, job, orphan, unsent>>
    BY <1>5 DEF Wait, tree
  <2>2. \A A, G : ToldIn(stream, A, G) => ToldIn(stream', A, G)
    BY <1>0, <2>1, Taken
  <2> QED BY <2>1, <2>2
<1>6. CASE Dispatch
  <2> HIDE DEF AllKnown
  <2> QED BY <1>6, KnownApplied
<1>7. CASE CallPair
  <2>1. UNCHANGED <<owner, job, orphan, phase, mirror, stream>>
    BY <1>7 DEF CallPair
  <2>2. CASE UNCHANGED <<scanner, unsent>>
    BY <1>1, <2>1, <2>2
  <2>3. CASE scanner # "absent" /\ scanner' = "pairing" /\ unsent' # <<>>
    <3>1. SaysPresence(scanner)' = SaysPresence(scanner)
      BY <2>3 DEF SaysPresence
    <3> QED BY <2>1, <2>3, <3>1
  <2>4. \/ UNCHANGED <<scanner, unsent>>
        \/ scanner # "absent" /\ scanner' = "pairing" /\ unsent' # <<>>
    BY <1>0, <1>7, LastUnsent DEF CallPair, PairingStates
  <2> QED BY <2>2, <2>3, <2>4
<1> QED BY <1>2, <1>3, <1>4, <1>5, <1>6, <1>7 DEF SessionStep

(* With every signal applied the mirror is the tree. *)
LEMMA KnownAgrees ==
    ASSUME TreeStands, AllKnown PROVE MirrorAgrees
<1>1. stream = <<>> => \A A : UntoldIn(stream, A)
  BY DEF UntoldIn
<1>2. ASSUME phase = "live", AllHeard
      PROVE  /\ owner
             /\ mirror.scanner = scanner
             /\ scanner # "absent" /\ ~orphan => mirror.job = job
  BY <1>1, <1>2 DEF AllHeard, AllKnown, OwnerKnown, PresenceKnown, PairingKnown, StateKnown
<1> QED BY <1>2 DEF MirrorAgrees, TreeStands

-----------------------------------------------------------------------------
(* The notification of a job                                               *)
(*                                                                         *)
(* ProgressIsOfAJob speaks of a stream that is empty.  Before that, a      *)
(* record that is not over, and a start of a job that is still to come,    *)
(* are each followed by the end, the going or the owner's going before     *)
(* another start, or the job is running.  Outside a session there is no    *)
(* record: a new owner comes after the loss of the old one, with nothing   *)
(* but restored scanners between.                                          *)

Clean == record = "none" /\ banner # "progress"
OpenRecords == {"fresh", "visible"}
Closers == OwnerSignals \cup {JobEnds, JobGoes}

RunsOn(s, i, j) ==
    /\ \A k \in (i + 1)..Len(s) :
           s[k] = JobRuns => \E l \in (i + 1)..(k - 1) : s[l] \in Closers
    /\ (\A l \in (i + 1)..Len(s) : s[l] \notin Closers) => j = "running"

Runs(s, r, j) ==
    \A i \in 0..Len(s) :
        (IF i = 0 THEN r \in OpenRecords ELSE s[i] = JobRuns) => RunsOn(s, i, j)

Bare(s, k) == \A l \in 1..(k - 1) : s[l] \in ScannerSignals
Back(s, k) ==
    \E j \in 1..(k - 1) : /\ s[j] = OwnerGoes
                          /\ \A l \in (j + 1)..(k - 1) : s[l] \in ScannerSignals

Restarts ==
    \A k \in 1..Len(stream) :
        stream[k] = OwnerComes => Back(stream, k) \/ (Clean /\ Bare(stream, k))

Notes ==
    /\ phase # "live" => Clean
    /\ banner = "progress" => record = "visible"
    /\ Runs(stream, record, job)
    /\ Restarts
    /\ ~owner => \/ stream = <<>> /\ Clean
                 \/ stream # <<>> /\ stream[Len(stream)] = OwnerGoes

(* A signal said. *)
LEMMA RunsSaid ==
    ASSUME NEW s \in Seq(Signals), NEW m \in Signals, NEW r, NEW j, NEW j2, Runs(s, r, j),
           \/ m \in Closers
           \/ m \notin Closers /\ m # JobRuns /\ j2 = j
           \/ m = JobRuns /\ j # "running" /\ j2 = "running"
    PROVE  Runs(Append(s, m), r, j2)
<1> DEFINE t == Append(s, m)
<1>1. /\ Len(s) \in Nat /\ Len(t) = Len(s) + 1 /\ t[Len(s) + 1] = m
      /\ \A i \in 1..Len(s) : t[i] = s[i]
  OBVIOUS
<1>2. m \in Closers => m # JobRuns
  BY SignalKinds, SignalsSent DEF Closers
<1> SUFFICES ASSUME NEW i \in 0..Len(t), IF i = 0 THEN r \in OpenRecords ELSE t[i] = JobRuns
             PROVE  RunsOn(t, i, j2)
  BY DEF Runs
<1>3. CASE i = Len(s) + 1
  BY <1>1, <1>2, <1>3 DEF RunsOn
<1>4. CASE i \in 0..Len(s)
  <2>1. RunsOn(s, i, j)
    BY <1>1, <1>4 DEF Runs
  <2>2. CASE m \in Closers
    <3>1. ASSUME NEW k \in (i + 1)..Len(t), t[k] = JobRuns
          PROVE  \E l \in (i + 1)..(k - 1) : t[l] \in Closers
      <4>1. k \in (i + 1)..Len(s)
        BY <1>1, <1>2, <1>4, <2>2, <3>1
      <4>2. PICK l \in (i + 1)..(k - 1) : s[l] \in Closers
        BY <1>1, <1>4, <2>1, <3>1, <4>1 DEF RunsOn
      <4> QED BY <1>1, <1>4, <4>1, <4>2
    <3>2. Len(s) + 1 \in (i + 1)..Len(t)
      BY <1>1, <1>4
    <3> QED BY <1>1, <2>2, <3>1, <3>2 DEF RunsOn
  <2>3. CASE m \notin Closers /\ m # JobRuns /\ j2 = j
    <3>1. ASSUME NEW k \in (i + 1)..Len(t), t[k] = JobRuns
          PROVE  \E l \in (i + 1)..(k - 1) : t[l] \in Closers
      <4>1. k \in (i + 1)..Len(s)
        BY <1>1, <1>4, <2>3, <3>1
      <4>2. PICK l \in (i + 1)..(k - 1) : s[l] \in Closers
        BY <1>1, <1>4, <2>1, <3>1, <4>1 DEF RunsOn
      <4> QED BY <1>1, <1>4, <4>1, <4>2
    <3>2. (\A l \in (i + 1)..Len(t) : t[l] \notin Closers) => j = "running"
      <4> SUFFICES ASSUME \A l \in (i + 1)..Len(t) : t[l] \notin Closers
                   PROVE  j = "running"
        OBVIOUS
      <4>1. \A l \in (i + 1)..Len(s) : l \in (i + 1)..Len(t) /\ t[l] = s[l]
        BY <1>1, <1>4
      <4>2. \A l \in (i + 1)..Len(s) : s[l] \notin Closers
        BY <4>1
      <4> QED BY <2>1, <4>2 DEF RunsOn
    <3> QED BY <2>3, <3>1, <3>2 DEF RunsOn
  <2>4. CASE m = JobRuns /\ j # "running" /\ j2 = "running"
    <3>1. PICK e \in (i + 1)..Len(s) : s[e] \in Closers
      BY <2>1, <2>4 DEF RunsOn
    <3>2. ASSUME NEW k \in (i + 1)..Len(t), t[k] = JobRuns
          PROVE  \E l \in (i + 1)..(k - 1) : t[l] \in Closers
      <4>1. CASE k = Len(s) + 1
        BY <1>1, <1>4, <3>1, <4>1
      <4>2. CASE k \in (i + 1)..Len(s)
        <5>1. PICK l \in (i + 1)..(k - 1) : s[l] \in Closers
          BY <1>1, <1>4, <2>1, <3>2, <4>2 DEF RunsOn
        <5> QED BY <1>1, <1>4, <4>2, <5>1
      <4> QED BY <1>1, <1>4, <4>1, <4>2
    <3> QED BY <2>4, <3>2 DEF RunsOn
  <2> QED BY <2>2, <2>3, <2>4
<1> QED BY <1>1, <1>3, <1>4

(* A signal taken. *)
LEMMA RunsTaken ==
    ASSUME NEW s \in Seq(Signals), s # <<>>, NEW r, NEW r2, NEW j, Runs(s, r, j)
    PROVE  /\ r \in OpenRecords => Head(s) # JobRuns
           /\ (r2 \in OpenRecords => \/ Head(s) = JobRuns
                                     \/ r \in OpenRecords /\ Head(s) \notin Closers)
                  => Runs(Tail(s), r2, j)
<1> DEFINE t == Tail(s)
<1>1. /\ Len(s) \in Nat \ {0} /\ Len(t) = Len(s) - 1 /\ Head(s) = s[1]
      /\ \A i \in 1..Len(t) : i + 1 \in 1..Len(s) /\ t[i] = s[i + 1]
  OBVIOUS
<1>2. ASSUME r \in OpenRecords PROVE Head(s) # JobRuns
  <2>1. RunsOn(s, 0, j)
    BY <1>1, <1>2 DEF Runs
  <2>2. 1 \in (0 + 1)..Len(s) /\ \A l : l \notin (0 + 1)..(1 - 1)
    BY <1>1
  <2> QED BY <1>1, <2>1, <2>2 DEF RunsOn
<1>3. ASSUME NEW i \in 0..Len(t), RunsOn(s, i + 1, j)
      PROVE  RunsOn(t, i, j)
  <2>1. ASSUME NEW k \in (i + 1)..Len(t), t[k] = JobRuns
        PROVE  \E l \in (i + 1)..(k - 1) : t[l] \in Closers
    <3>1. k + 1 \in (i + 1 + 1)..Len(s) /\ s[k + 1] = JobRuns
      BY <1>1, <2>1
    <3>2. PICK l \in (i + 1 + 1)..(k + 1 - 1) : s[l] \in Closers
      BY <1>3, <3>1 DEF RunsOn
    <3>3. l - 1 \in (i + 1)..(k - 1) /\ t[l - 1] = s[l]
      BY <1>1, <2>1, <3>2
    <3> QED BY <3>2, <3>3
  <2>2. (\A l \in (i + 1)..Len(t) : t[l] \notin Closers) => j = "running"
    <3> SUFFICES ASSUME \A l \in (i + 1)..Len(t) : t[l] \notin Closers
                 PROVE  j = "running"
      OBVIOUS
    <3>1. \A l \in (i + 1 + 1)..Len(s) : l - 1 \in (i + 1)..Len(t) /\ t[l - 1] = s[l]
      BY <1>1
    <3>2. \A l \in (i + 1 + 1)..Len(s) : s[l] \notin Closers
      BY <3>1
    <3> QED BY <1>3, <3>2 DEF RunsOn
  <2> QED BY <2>1, <2>2 DEF RunsOn
<1>4. ASSUME RunsOn(s, 0, j), Head(s) \notin Closers
      PROVE  RunsOn(s, 1, j)
  <2>1. ASSUME NEW k \in (1 + 1)..Len(s), s[k] = JobRuns
        PROVE  \E l \in (1 + 1)..(k - 1) : s[l] \in Closers
    <3>1. k \in (0 + 1)..Len(s)
      BY <1>1, <2>1
    <3>2. PICK l \in (0 + 1)..(k - 1) : s[l] \in Closers
      BY <1>4, <2>1, <3>1 DEF RunsOn
    <3>3. l # 1
      BY <1>1, <1>4, <3>2
    <3> QED BY <2>1, <3>2, <3>3
  <2>2. (\A l \in (1 + 1)..Len(s) : s[l] \notin Closers) => j = "running"
    <3> SUFFICES ASSUME \A l \in (1 + 1)..Len(s) : s[l] \notin Closers
                 PROVE  j = "running"
      OBVIOUS
    <3>1. \A l \in (0 + 1)..Len(s) : l = 1 \/ l \in (1 + 1)..Len(s)
      BY <1>1
    <3>2. \A l \in (0 + 1)..Len(s) : s[l] \notin Closers
      BY <1>1, <1>4, <3>1
    <3> QED BY <1>4, <3>2 DEF RunsOn
  <2> QED BY <2>1, <2>2 DEF RunsOn
<1>5. ASSUME r2 \in OpenRecords => \/ Head(s) = JobRuns
                                   \/ r \in OpenRecords /\ Head(s) \notin Closers,
             NEW i \in 0..Len(t), IF i = 0 THEN r2 \in OpenRecords ELSE t[i] = JobRuns
      PROVE  RunsOn(t, i, j)
  <2>1. CASE i = 0 /\ Head(s) = JobRuns
    <3>1. RunsOn(s, i + 1, j)
      BY <1>1, <2>1 DEF Runs
    <3> QED BY <1>3, <3>1
  <2>2. CASE i = 0 /\ r \in OpenRecords /\ Head(s) \notin Closers
    <3>1. RunsOn(s, 0, j)
      BY <1>1, <2>2 DEF Runs
    <3>2. RunsOn(s, i + 1, j)
      BY <1>4, <2>2, <3>1
    <3> QED BY <1>3, <3>2
  <2>3. CASE i # 0
    <3>1. i + 1 \in 1..Len(s) /\ s[i + 1] = JobRuns
      BY <1>1, <1>5, <2>3
    <3>2. RunsOn(s, i + 1, j)
      BY <1>1, <3>1 DEF Runs
    <3> QED BY <1>3, <3>2
  <2> QED BY <1>5, <2>1, <2>2, <2>3
<1> QED BY <1>2, <1>5 DEF Runs

(* What comes before an owner does not change while signals are said, and  *)
(* is shorter by one when one is taken.                                    *)
LEMMA BackSaid ==
    ASSUME NEW s \in Seq(Signals), NEW m \in Signals, NEW k \in 1..Len(s)
    PROVE  /\ Append(s, m)[k] = s[k]
           /\ Bare(s, k) => Bare(Append(s, m), k)
           /\ Back(s, k) => Back(Append(s, m), k)
<1>1. /\ Len(s) \in Nat /\ \A i \in 1..Len(s) : Append(s, m)[i] = s[i]
  OBVIOUS
<1>2. \A l \in 1..(k - 1) : Append(s, m)[l] = s[l]
  BY <1>1
<1>3. Bare(s, k) => Bare(Append(s, m), k)
  BY <1>2 DEF Bare
<1>4. Back(s, k) => Back(Append(s, m), k)
  <2> SUFFICES ASSUME Back(s, k) PROVE Back(Append(s, m), k)
    OBVIOUS
  <2>1. PICK j \in 1..(k - 1) : /\ s[j] = OwnerGoes
                                /\ \A l \in (j + 1)..(k - 1) : s[l] \in ScannerSignals
    BY DEF Back
  <2>2. \A l \in (j + 1)..(k - 1) : l \in 1..(k - 1)
    OBVIOUS
  <2> QED BY <1>2, <2>1, <2>2 DEF Back
<1> QED BY <1>1, <1>3, <1>4

(* One taken: a new owner's loss comes before it still, or was just heard. *)
LEMMA BackTaken ==
    ASSUME NEW s \in Seq(Signals), s # <<>>, NEW k \in 1..Len(Tail(s))
    PROVE  /\ k + 1 \in 1..Len(s) /\ s[k + 1] = Tail(s)[k]
           /\ Bare(s, k + 1) => Bare(Tail(s), k) /\ Head(s) \in ScannerSignals
           /\ Back(s, k + 1) => \/ Back(Tail(s), k)
                                \/ Head(s) = OwnerGoes /\ Bare(Tail(s), k)
<1> DEFINE t == Tail(s)
<1>1. /\ Len(s) \in Nat \ {0} /\ Len(t) = Len(s) - 1 /\ Head(s) = s[1]
      /\ \A i \in 1..Len(t) : i + 1 \in 1..Len(s) /\ t[i] = s[i + 1]
  OBVIOUS
<1>2. \A l \in 1..(k - 1) : t[l] = s[l + 1] /\ l + 1 \in 1..(k + 1 - 1)
  BY <1>1
<1>3. Bare(s, k + 1) => Bare(t, k) /\ Head(s) \in ScannerSignals
  BY <1>1, <1>2 DEF Bare
<1>4. ASSUME Back(s, k + 1)
      PROVE  Back(t, k) \/ (Head(s) = OwnerGoes /\ Bare(t, k))
  <2>1. PICK j \in 1..(k + 1 - 1) :
            /\ s[j] = OwnerGoes
            /\ \A l \in (j + 1)..(k + 1 - 1) : s[l] \in ScannerSignals
    BY <1>4 DEF Back
  <2>2. CASE j = 1
    <3>1. \A l \in 1..(k - 1) : l + 1 \in (j + 1)..(k + 1 - 1)
      BY <2>2
    <3> QED BY <1>1, <1>2, <2>1, <2>2, <3>1 DEF Bare
  <2>3. CASE j > 1
    <3>1. j - 1 \in 1..(k - 1) /\ t[j - 1] = s[j]
      BY <1>1, <2>1, <2>3
    <3>2. \A l \in (j - 1 + 1)..(k - 1) : l \in 1..(k - 1) /\ l + 1 \in (j + 1)..(k + 1 - 1)
      BY <2>1, <2>3
    <3>3. \A l \in (j - 1 + 1)..(k - 1) : t[l] \in ScannerSignals
      BY <1>2, <2>1, <3>2
    <3> QED BY <2>1, <3>1, <3>3 DEF Back
  <2> QED BY <2>2, <2>3
<1> QED BY <1>1, <1>3, <1>4

(* What a signal does to the record and the notification. *)
LEMMA NoteEffect ==
    ASSUME MirrorTypeOK, TreeStands, Dispatch
    PROVE  LET m == Head(stream) IN
           /\ m \in Signals /\ stream # <<>> /\ stream' = Tail(stream) /\ phase = "live"
           /\ m \notin OwnerSignals => phase' = phase
           /\ m = OwnerComes => UNCHANGED <<record, banner>>
           /\ m = OwnerGoes => record' = "none" /\ banner' = Withdrawn
           /\ m \in ScannerSignals \cup PairingSignals \cup {ScannerGone}
                  => UNCHANGED <<record, banner>>
           /\ m = JobGoes => record' = "none" /\ banner' = Withdrawn
           /\ m = JobRuns => record' = "fresh" /\ banner' = banner
           /\ m = JobEnds => \/ record = "none" /\ UNCHANGED <<record, banner>>
                             \/ record' = "over" /\ banner' = "result"
<1> DEFINE m == Head(stream)
<1>1. m \in Signals /\ stream # <<>> /\ stream' = Tail(stream) /\ phase = "live"
  BY DEF Dispatch, Live, TreeStands
<1>2. m \in OwnerSignals => OwnerChanged(m)
  BY <1>1, SignalKinds DEF Dispatch
<1>3. m.kind # "owner" => phase' = phase /\ Apply(m)
  BY DEF Dispatch
<1>4. m = OwnerComes => UNCHANGED <<record, banner>>
  <2> SUFFICES ASSUME m = OwnerComes PROVE UNCHANGED <<record, banner>>
    OBVIOUS
  <2>1. m \in OwnerSignals
    BY SignalsSent
  <2> QED BY <1>2, <2>1, OwnerEffect
<1>5. m = OwnerGoes => record' = "none" /\ banner' = Withdrawn
  <2> SUFFICES ASSUME m = OwnerGoes PROVE ForgetAll
    BY DEF ForgetAll
  <2>1. m \in OwnerSignals
    BY SignalsSent
  <2> QED BY <1>2, <2>1, OwnerEffect
<1>6. m \in ScannerSignals \cup PairingSignals \cup {ScannerGone}
          => UNCHANGED <<record, banner>>
  <2> SUFFICES ASSUME m \in ScannerSignals \cup PairingSignals \cup {ScannerGone}
               PROVE  UNCHANGED <<record, banner>>
    OBVIOUS
  <2>1. \/ m.kind = "scanner"
        \/ m.kind = "pairing"
        \/ m.kind = "gone" /\ m.value = "scanner"
    BY <1>1, SignalKinds
  <2> QED BY <1>3, <2>1 DEF Apply
<1>7. m = JobGoes => record' = "none" /\ banner' = Withdrawn
  <2> SUFFICES ASSUME m = JobGoes PROVE JobGone
    BY DEF JobGone
  <2>1. m.kind = "gone" /\ m.value = "job"
    BY <1>1, SignalKinds
  <2> QED BY <1>3, <2>1 DEF Apply
<1>8. m = JobRuns => record' = "fresh" /\ banner' = banner
  <2> SUFFICES ASSUME m = JobRuns PROVE record' = "fresh" /\ banner' = banner
    OBVIOUS
  <2>1. m.kind = "job" /\ m.value = "running"
    BY <1>1, SignalKinds
  <2> QED BY <1>3, <2>1 DEF Apply
<1>9. m = JobEnds => \/ record = "none" /\ UNCHANGED <<record, banner>>
                     \/ record' = "over" /\ banner' = "result"
  <2> SUFFICES ASSUME m = JobEnds
               PROVE  \/ record = "none" /\ UNCHANGED <<record, banner>>
                      \/ record' = "over" /\ banner' = "result"
    OBVIOUS
  <2>1. m.kind = "state" /\ m.value = "ended"
    BY <1>1, SignalKinds
  <2> QED BY <1>3, <2>1 DEF Apply
<1>10. m \notin OwnerSignals => phase' = phase
  BY <1>1, <1>3, SignalKinds
<1> QED BY <1>1, <1>4, <1>5, <1>6, <1>7, <1>8, <1>9, <1>10

(* The daemon: a job starts only where none is, and a start of the daemon  *)
(* follows its loss.                                                       *)
LEMMA NotesSaid ==
    ASSUME MirrorTypeOK, TreeStands, Notes, DaemonStep
    PROVE  Notes'
<1>0. /\ stream \in Seq(Signals) /\ unsent \in Seq(PairingStates)
      /\ UNCHANGED <<phase, record, banner>> /\ Clean' = Clean
  BY DEF TreeStands, MirrorTypeOK, DaemonStep, Start, Crash, ShareOrNot, Discovered,
         SessionOver, PairingMoves, Supervise, JobMoves, client, Clean
<1>1. /\ OwnerComes \in Signals /\ OwnerGoes \in Signals /\ ScannerGone \in Signals
      /\ JobGoes \in Signals /\ JobRuns \in Signals /\ JobEnds \in Signals
      /\ \A s \in {"none", "done"} : Signal("scanner", s) \in Signals
      /\ \A s \in PairingStates : Signal("pairing", s) \in Signals
  BY SignalsSent
<1>2. /\ OwnerComes \in Closers /\ OwnerGoes \in Closers
      /\ JobGoes \in Closers /\ JobEnds \in Closers
      /\ JobRuns \notin Closers /\ ScannerGone \notin Closers /\ ScannerGone # JobRuns
  BY <1>1, SignalsSent, SignalKinds DEF Closers
<1>3. \A m \in ScannerSignals \cup PairingSignals : m \notin Closers /\ m # JobRuns
  BY SignalsSent, SignalKinds DEF Closers
<1>4. ASSUME NEW s \in Seq(Signals), NEW m \in Signals,
             \A k \in 1..Len(s) : s[k] = OwnerComes => Back(s, k) \/ (Clean /\ Bare(s, k)),
             m = OwnerComes => \/ Back(Append(s, m), Len(s) + 1)
                               \/ Clean /\ Bare(Append(s, m), Len(s) + 1)
      PROVE  \A k \in 1..Len(Append(s, m)) : Append(s, m)[k] = OwnerComes =>
                 Back(Append(s, m), k) \/ (Clean /\ Bare(Append(s, m), k))
  <2>1. Len(s) \in Nat /\ Len(Append(s, m)) = Len(s) + 1 /\ Append(s, m)[Len(s) + 1] = m
    OBVIOUS
  <2> TAKE k \in 1..Len(Append(s, m))
  <2>2. CASE k = Len(s) + 1
    BY <1>4, <2>1, <2>2
  <2>3. CASE k \in 1..Len(s)
    BY <1>4, <2>3, BackSaid
  <2> QED BY <2>1, <2>2, <2>3
<1>5. Runs(stream, record, job) /\ Restarts
  BY DEF Notes
<1>6. CASE Start
  <2>1. ~owner /\ owner' /\ UNCHANGED job
    BY <1>6 DEF Start
  <2>2. \/ stream = <<>> /\ Clean
        \/ stream # <<>> /\ stream[Len(stream)] = OwnerGoes
    BY <2>1 DEF Notes
  <2>3. PICK s \in Seq(Signals) :
            /\ stream' = Append(s, OwnerComes)
            /\ s = stream \/ s = Append(stream, Signal("scanner", "done"))
    <3>1. Append(stream, Signal("scanner", "done")) \in Seq(Signals)
      BY <1>0, <1>1
    <3> QED BY <1>0, <1>6, <3>1, DaemonSays
  <2>4. /\ Signal("scanner", "done") \in ScannerSignals
        /\ Signal("scanner", "done") # OwnerComes
    BY <1>1, SignalsSent, SignalKinds
  <2>5. Runs(s, record, job)
    BY <1>0, <1>1, <1>3, <1>5, <2>3, <2>4, RunsSaid
  <2>6. Runs(stream', record, job)
    BY <1>1, <1>2, <2>3, <2>5, RunsSaid
  <2>7. \A k \in 1..Len(s) : s[k] = OwnerComes => Back(s, k) \/ (Clean /\ Bare(s, k))
    <3>1. CASE s = stream
      BY <1>5, <3>1 DEF Restarts
    <3>2. CASE s = Append(stream, Signal("scanner", "done"))
      BY <1>0, <1>1, <1>4, <1>5, <2>4, <3>2 DEF Restarts
    <3> QED BY <2>3, <3>1, <3>2
  <2>8. \/ Back(stream', Len(s) + 1)
        \/ Clean /\ Bare(stream', Len(s) + 1)
    <3>1. /\ Len(stream) \in Nat /\ Len(s) \in Nat
          /\ \A l \in 1..Len(s) : stream'[l] = s[l]
      BY <1>0, <2>3
    <3>2. CASE s = stream
      <4>1. CASE stream = <<>> /\ Clean
        BY <3>2, <4>1 DEF Bare
      <4>2. CASE stream # <<>> /\ stream[Len(stream)] = OwnerGoes
        <5>1. Len(s) \in 1..(Len(s) + 1 - 1) /\ stream'[Len(s)] = OwnerGoes
          BY <1>0, <3>1, <3>2, <4>2
        <5>2. \A l \in (Len(s) + 1)..(Len(s) + 1 - 1) : stream'[l] \in ScannerSignals
          BY <3>1
        <5> QED BY <5>1, <5>2 DEF Back
      <4> QED BY <2>2, <4>1, <4>2
    <3>3. CASE s = Append(stream, Signal("scanner", "done"))
      <4>1. Len(s) = Len(stream) + 1 /\ s[Len(stream) + 1] \in ScannerSignals
            /\ \A l \in 1..Len(stream) : s[l] = stream[l]
        BY <1>0, <1>1, <2>4, <3>3
      <4>2. CASE stream = <<>> /\ Clean
        <5>1. \A l \in 1..(Len(s) + 1 - 1) : stream'[l] \in ScannerSignals
          BY <3>1, <4>1, <4>2
        <5> QED BY <4>2, <5>1 DEF Bare
      <4>3. CASE stream # <<>> /\ stream[Len(stream)] = OwnerGoes
        <5>1. Len(stream) \in 1..(Len(s) + 1 - 1) /\ stream'[Len(stream)] = OwnerGoes
          BY <1>0, <3>1, <4>1, <4>3
        <5>2. \A l \in (Len(stream) + 1)..(Len(s) + 1 - 1) : stream'[l] \in ScannerSignals
          BY <3>1, <4>1
        <5> QED BY <5>1, <5>2 DEF Back
      <4> QED BY <2>2, <4>2, <4>3
    <3> QED BY <2>3, <3>2, <3>3
  <2>9. Restarts'
    BY <1>0, <1>1, <1>4, <2>3, <2>7, <2>8 DEF Restarts
  <2> QED BY <1>0, <2>1, <2>6, <2>9 DEF Notes
<1>7. CASE Crash
  <2>1. stream' = Append(stream, OwnerGoes) /\ OwnerGoes # OwnerComes
    BY <1>0, <1>1, <1>7, DaemonSays, SignalKinds
  <2>2. Runs(stream', record, job')
    BY <1>0, <1>1, <1>2, <1>5, <2>1, RunsSaid
  <2>3. Restarts'
    BY <1>0, <1>1, <1>4, <1>5, <2>1 DEF Restarts
  <2>4. stream' # <<>> /\ stream'[Len(stream')] = OwnerGoes
    BY <1>0, <1>1, <2>1
  <2> QED BY <1>0, <2>2, <2>3, <2>4 DEF Notes
<1>8. CASE ShareOrNot \/ PairingMoves
  <2>1. UNCHANGED <<owner, job, stream>>
    BY <1>8 DEF ShareOrNot, PairingMoves
  <2>2. Restarts'
    BY <1>0, <1>5, <2>1 DEF Restarts
  <2> QED BY <1>0, <1>5, <2>1, <2>2 DEF Notes
<1>9. ASSUME NEW m \in Signals, m \notin Closers, m # JobRuns, stream' = Append(stream, m),
             owner, UNCHANGED <<owner, job>>
      PROVE  Notes'
  <2>1. Runs(stream', record, job')
    BY <1>0, <1>5, <1>9, RunsSaid
  <2>2. Restarts'
    BY <1>0, <1>2, <1>4, <1>5, <1>9 DEF Restarts
  <2> QED BY <1>0, <1>9, <2>1, <2>2 DEF Notes
<1>10. CASE Discovered
  <2>1. PICK m \in ScannerSignals : m \in Signals /\ stream' = Append(stream, m)
    BY <1>0, <1>1, <1>10, DaemonSays, SignalsSent
  <2> QED BY <1>3, <1>9, <1>10, <2>1 DEF Discovered
<1>11. CASE Supervise
  <2>1. PICK m \in PairingSignals : m \in Signals /\ stream' = Append(stream, m)
    BY <1>0, <1>1, <1>11, DaemonSays, SignalsSent
  <2>2. owner /\ UNCHANGED <<owner, job>>
    BY <1>11 DEF Supervise, TreeStands
  <2> QED BY <1>3, <1>9, <2>1, <2>2
<1>12. CASE SessionOver
  <2>1. owner /\ owner' = owner /\ job' = "none"
    BY <1>12 DEF SessionOver
  <2>2. CASE job = "none"
    BY <1>0, <1>1, <1>2, <1>9, <1>12, <2>1, <2>2, DaemonSays
  <2>3. CASE job # "none"
    <3>0. Append(stream, JobGoes) \in Seq(Signals)
      BY <1>0, <1>1
    <3>1. PICK s \in Seq(Signals) : /\ s = Append(stream, JobGoes)
                                    /\ stream' = Append(s, ScannerGone)
      BY <1>0, <1>12, <2>3, <3>0, DaemonSays
    <3>2. Runs(s, record, job')
      BY <1>0, <1>1, <1>2, <1>5, <3>1, RunsSaid
    <3>3. Runs(stream', record, job')
      BY <1>1, <1>2, <3>1, <3>2, RunsSaid
    <3>4. JobGoes # OwnerComes /\ ScannerGone # OwnerComes
      BY <1>1, SignalKinds, SignalsSent
    <3>5. \A k \in 1..Len(s) : s[k] = OwnerComes => Back(s, k) \/ (Clean /\ Bare(s, k))
      BY <1>0, <1>1, <1>4, <1>5, <3>1, <3>4 DEF Restarts
    <3>6. Restarts'
      BY <1>0, <1>1, <1>4, <3>1, <3>4, <3>5 DEF Restarts
    <3> QED BY <1>0, <2>1, <3>3, <3>6 DEF Notes
  <2> QED BY <2>2, <2>3
<1>13. CASE JobMoves
  <2>1. PICK m \in {JobRuns, JobEnds, JobGoes} :
            /\ stream' = Append(stream, m)
            /\ m = JobRuns => job = "none" /\ job' = "running"
    <3>1. JobRuns # JobEnds /\ JobRuns # JobGoes
      BY <1>2
    <3> QED BY <1>0, <1>13, <3>1, DaemonSays
  <2>2. Runs(stream', record, job')
    BY <1>0, <1>1, <1>2, <1>5, <2>1, RunsSaid
  <2>3. m # OwnerComes /\ m \in Signals
    BY <1>1, <2>1, SignalKinds, SignalsSent
  <2>4. Restarts'
    BY <1>0, <1>4, <1>5, <2>1, <2>3 DEF Restarts
  <2> QED BY <1>0, <1>13, <2>2, <2>4 DEF Notes, JobMoves
<1> QED BY <1>6, <1>7, <1>8, <1>10, <1>11, <1>12, <1>13 DEF DaemonStep

(* The notifier's events keep a progress notification with a visible       *)
(* record, and a record with a job.                                        *)
LEMMA NotesTaken ==
    ASSUME MirrorTypeOK, TreeStands, Notes, stream # <<>>, stream' = Tail(stream),
           UNCHANGED <<owner, job>>, phase' # "live" => Clean',
           banner' = "progress" => record' = "visible",
           record' \in OpenRecords => \/ Head(stream) = JobRuns
                                      \/ record \in OpenRecords /\ Head(stream) \notin Closers,
           Head(stream) = OwnerGoes => Clean',
           Head(stream) \in ScannerSignals /\ Clean => Clean'
    PROVE  Notes'
<1>0. stream \in Seq(Signals) /\ stream' \in Seq(Signals)
  BY DEF TreeStands
<1>1. Runs(stream', record', job')
  BY <1>0, RunsTaken DEF Notes
<1>2. Restarts'
  <2> SUFFICES ASSUME NEW k \in 1..Len(Tail(stream)), Tail(stream)[k] = OwnerComes
               PROVE  Back(Tail(stream), k) \/ (Clean' /\ Bare(Tail(stream), k))
    BY DEF Restarts
  <2>1. k + 1 \in 1..Len(stream) /\ stream[k + 1] = OwnerComes
    BY <1>0, BackTaken
  <2>2. Back(stream, k + 1) \/ (Clean /\ Bare(stream, k + 1))
    BY <2>1 DEF Notes, Restarts
  <2> QED BY <1>0, <2>2, BackTaken
<1>3. ~owner' => \/ stream' = <<>> /\ Clean'
                 \/ stream' # <<>> /\ stream'[Len(stream')] = OwnerGoes
  <2> SUFFICES ASSUME ~owner PROVE \/ stream' = <<>> /\ Clean'
                                   \/ stream' # <<>> /\ stream'[Len(stream')] = OwnerGoes
    OBVIOUS
  <2>1. stream[Len(stream)] = OwnerGoes
    BY DEF Notes
  <2>2. CASE Len(stream) = 1
    <3>1. stream' = <<>> /\ Head(stream) = OwnerGoes
      BY <1>0, <2>1, <2>2, TailEnds
    <3> QED BY <3>1
  <2>3. CASE Len(stream) # 1
    <3>1. stream' # <<>> /\ stream'[Len(stream')] = stream[Len(stream)]
      BY <1>0, <2>3, TailEnds
    <3> QED BY <2>1, <3>1
  <2> QED BY <2>2, <2>3
<1> QED BY <1>1, <1>2, <1>3 DEF Notes

(* The rest of the client: outside a session there is no record, and what  *)
(* ends a session closes the one there was.                                *)
LEMMA NotesKept ==
    ASSUME MirrorTypeOK, TreeStands, Notes,
           \/ SessionStep \/ ShowProgress \/ Pair
           \/ UNCHANGED mirrorVars
    PROVE  Notes'
<1>0. stream \in Seq(Signals)
  BY DEF TreeStands
<1>1. /\ phase # "live" => Clean
      /\ banner = "progress" => record = "visible"
      /\ Runs(stream, record, job) /\ Restarts
      /\ ~owner => \/ stream = <<>> /\ Clean
                   \/ stream # <<>> /\ stream[Len(stream)] = OwnerGoes
  BY DEF Notes
<1>2. Withdrawn # "progress"
  BY <1>1 DEF Withdrawn
<1>3. ForgetAll => Clean'
  BY <1>2 DEF ForgetAll, Clean
<1>4. ASSUME UNCHANGED <<owner, job, stream>>, phase' # "live" => Clean',
             banner' = "progress" => record' = "visible",
             record' \in OpenRecords => record \in OpenRecords, Clean => Clean'
      PROVE  Notes'
  <2>1. Runs(stream, record', job)
    BY <1>1, <1>4 DEF Runs
  <2>2. Restarts'
    BY <1>1, <1>4 DEF Restarts
  <2> QED BY <1>1, <1>4, <2>1, <2>2 DEF Notes
<1>5. CASE Presence \/ Retry \/ Acquire \/ CallPair \/ Pair \/ UNCHANGED mirrorVars
  <2>1. UNCHANGED <<owner, job, stream>>
    BY <1>5 DEF Presence, Retry, Acquire, CallPair, Pair, mirrorVars, tree
  <2>2. CASE UNCHANGED <<record, banner>>
    <3>1. Clean' = Clean
      BY <2>2 DEF Clean
    <3>2. phase' # "live" => phase # "live"
      BY <1>5 DEF Presence, Retry, Acquire, CallPair, Pair, mirrorVars, Live
    <3> QED BY <1>1, <1>4, <2>1, <2>2, <3>1, <3>2
  <2>3. CASE ForgetAll
    BY <1>3, <1>4, <2>1, <2>3 DEF Clean, OpenRecords
  <2> QED BY <1>5, <2>2, <2>3 DEF Presence, Retry, Acquire, CallPair, Pair, mirrorVars
<1>6. CASE Seed
  <2>1. Clean /\ UNCHANGED <<owner, job, stream, banner>> /\ record' = "none"
    BY <1>1, <1>6 DEF Seed, tree
  <2> QED BY <1>4, <2>1 DEF Clean, OpenRecords
<1>7. CASE ShowProgress
  <2>1. /\ UNCHANGED <<owner, job, stream, phase>>
        /\ record = "fresh" /\ record' = "visible"
    BY <1>7 DEF ShowProgress, tree
  <2> QED BY <1>1, <1>4, <2>1 DEF Clean, OpenRecords
<1>8. CASE SessionFails \/ ReleaseFails
  <2>1. stream' = <<>> /\ ForgetAll /\ UNCHANGED <<owner, job>>
    BY <1>8 DEF SessionFails, ReleaseFails, Fail, tree
  <2>2. Runs(stream', record', job') /\ Restarts'
    BY <2>1 DEF ForgetAll, OpenRecords, Runs, Restarts
  <2> QED BY <1>3, <2>1, <2>2 DEF Notes, Clean
<1>9. CASE Wait
  <2>1. /\ stream # <<>> /\ stream' = Tail(stream) /\ phase # "live"
        /\ UNCHANGED <<owner, job, record, banner>>
    BY <1>9 DEF Wait, tree
  <2>2. Clean /\ Clean'
    BY <1>1, <2>1 DEF Clean
  <2> QED BY <2>1, <2>2, NotesTaken DEF Clean, OpenRecords
<1>10. CASE Dispatch
  <2> DEFINE m == Head(stream)
  <2>1. /\ m \in Signals /\ stream # <<>> /\ stream' = Tail(stream) /\ phase = "live"
        /\ UNCHANGED <<owner, job>>
    BY <1>10, NoteEffect DEF Dispatch, tree
  <2>2. CASE m = OwnerComes
    <3>1. 1 \in 1..Len(stream) /\ stream[1] = OwnerComes
      BY <1>0, <2>1, <2>2
    <3>2. ~Back(stream, 1)
      BY DEF Back
    <3>3. Clean
      BY <1>1, <3>1, <3>2 DEF Restarts
    <3>4. UNCHANGED <<record, banner>>
      BY <1>10, <2>2, NoteEffect
    <3>5. Clean'
      BY <3>3, <3>4 DEF Clean
    <3> QED BY <2>1, <3>4, <3>5, NotesTaken DEF Clean, OpenRecords
  <2>3. CASE m = OwnerGoes \/ m = JobGoes
    <3>1. record' = "none" /\ banner' = Withdrawn
      BY <1>10, <2>3, NoteEffect
    <3>2. Clean'
      BY <1>2, <3>1 DEF Clean
    <3> QED BY <2>1, <3>2, NotesTaken DEF Clean, OpenRecords
  <2>4. CASE m \in ScannerSignals \cup PairingSignals \cup {ScannerGone}
    <3>1. UNCHANGED <<record, banner>>
      BY <1>10, <2>4, NoteEffect
    <3>2. m \notin Closers /\ m \notin OwnerSignals /\ m # OwnerGoes
      BY <2>1, <2>4, SignalKinds, SignalsSent DEF Closers
    <3>3. phase' = "live" /\ Clean' = Clean
      BY <1>10, <2>1, <3>1, <3>2, NoteEffect DEF Clean
    <3> QED BY <1>1, <2>1, <3>1, <3>2, <3>3, NotesTaken
  <2>5. CASE m = JobRuns
    <3>1. record' = "fresh" /\ banner' = banner
      BY <1>10, <2>5, NoteEffect
    <3>2. record \notin OpenRecords
      BY <1>0, <1>1, <2>1, <2>5, RunsTaken
    <3>3. banner # "progress"
      BY <1>1, <3>2 DEF OpenRecords
    <3>4. m \notin OwnerSignals /\ m \notin ScannerSignals /\ m # OwnerGoes
      BY <2>1, <2>5, SignalKinds, SignalsSent
    <3>5. phase' = "live"
      BY <1>10, <2>1, <3>4, NoteEffect
    <3> QED BY <2>1, <2>5, <3>1, <3>3, <3>4, <3>5, NotesTaken
  <2>6. CASE m = JobEnds
    <3>1. \/ record = "none" /\ UNCHANGED <<record, banner>>
          \/ record' = "over" /\ banner' = "result"
      BY <1>10, <2>6, NoteEffect
    <3>2. m \notin OwnerSignals /\ m \notin ScannerSignals /\ m # OwnerGoes
      BY <2>1, <2>6, SignalKinds, SignalsSent
    <3>3. phase' = "live"
      BY <1>10, <2>1, <3>2, NoteEffect
    <3> QED BY <1>1, <2>1, <3>1, <3>2, <3>3, NotesTaken DEF OpenRecords
  <2>7. \/ m = OwnerComes \/ m = OwnerGoes \/ m = JobGoes \/ m = JobRuns \/ m = JobEnds
        \/ m \in ScannerSignals \cup PairingSignals \cup {ScannerGone}
    BY <2>1 DEF Signals, OwnerSignals
  <2> QED BY <2>2, <2>3, <2>4, <2>5, <2>6, <2>7
<1> QED BY <1>5, <1>6, <1>7, <1>8, <1>9, <1>10 DEF SessionStep

(* With every signal applied a progress notification is of a running job. *)
LEMMA NotesAgree ==
    ASSUME Notes PROVE ProgressIsOfAJob
<1> SUFFICES ASSUME stream = <<>>, banner = "progress" PROVE job = "running"
  BY DEF ProgressIsOfAJob
<1>1. RunsOn(stream, 0, job)
  <2>1. record \in OpenRecords /\ 0 \in 0..Len(stream)
    BY DEF Notes, OpenRecords
  <2> QED BY <2>1 DEF Notes, Runs
<1> QED BY <1>1 DEF RunsOn

-----------------------------------------------------------------------------
(* The session held for a pairing                                          *)
(*                                                                         *)
(* The daemon counts a session of this client only while the client has    *)
(* one, for a path it holds; and, with no Pair command on its way, only    *)
(* while the pairing goes on or its end is still to be said or heard.      *)

EndComes(s) == \E i \in 1..Len(s) : s[i].kind = "pairing" /\ s[i].value # "pairing"
EndUnsent(u) == \E i \in 1..Len(u) : u[i] # "pairing"
PairingGoesOn == scanner = "pairing" \/ EndUnsent(unsent) \/ EndComes(stream)

Holds ==
    /\ hold => held
    /\ leased => hold /\ owner /\ phase \in {"live", "presence", "seeding"}
    /\ command # "idle" => phase = "live" /\ held
    /\ command = "acquire" => ~hold
    /\ leased /\ command = "idle" => PairingGoesOn

(* The end of a pairing is heard once only, and not forgotten before. *)
LEMMA EndStream ==
    ASSUME NEW s \in Seq(Signals)
    PROVE  /\ \A m \in Signals : EndComes(s) => EndComes(Append(s, m))
           /\ \A v \in PairingStates :
                  v # "pairing" => EndComes(Append(s, Signal("pairing", v)))
           /\ s # <<>> /\ EndComes(s)
                  /\ ~(Head(s).kind = "pairing" /\ Head(s).value # "pairing")
                  => EndComes(Tail(s))
<1>1. ASSUME NEW m \in Signals
      PROVE  /\ Len(s) \in Nat /\ Len(Append(s, m)) = Len(s) + 1
             /\ Append(s, m)[Len(s) + 1] = m
             /\ \A i \in 1..Len(s) : Append(s, m)[i] = s[i] /\ i \in 1..Len(Append(s, m))
             /\ Len(s) + 1 \in 1..Len(Append(s, m))
  OBVIOUS
<1>2. \A m \in Signals : EndComes(s) => EndComes(Append(s, m))
  BY <1>1 DEF EndComes
<1>3. ASSUME NEW v \in PairingStates, v # "pairing"
      PROVE  EndComes(Append(s, Signal("pairing", v)))
  <2>1. PICK m \in Signals : m = Signal("pairing", v)
    BY SignalsSent
  <2>2. m.kind = "pairing" /\ m.value # "pairing"
    BY <1>3, <2>1 DEF Signal
  <2> QED BY <1>1, <2>1, <2>2 DEF EndComes
<1>4. ASSUME s # <<>>, EndComes(s),
             ~(Head(s).kind = "pairing" /\ Head(s).value # "pairing")
      PROVE  EndComes(Tail(s))
  <2>1. PICK i \in 1..Len(s) : s[i].kind = "pairing" /\ s[i].value # "pairing"
    BY <1>4 DEF EndComes
  <2>2. i # 1 /\ Head(s) = s[1]
    BY <1>4, <2>1
  <2>3. i - 1 \in 1..Len(Tail(s)) /\ Tail(s)[i - 1] = s[i]
    BY <1>4, <2>2
  <2> QED BY <2>1, <2>3 DEF EndComes
<1> QED BY <1>2, <1>3, <1>4

(* The same of the states not announced yet. *)
LEMMA EndWaits ==
    ASSUME NEW u \in Seq(PairingStates)
    PROVE  /\ \A v \in PairingStates : EndUnsent(u) => EndUnsent(Append(u, v))
           /\ \A v \in PairingStates : v # "pairing" => EndUnsent(Append(u, v))
           /\ u # <<>> /\ EndUnsent(u) /\ Head(u) = "pairing" => EndUnsent(Tail(u))
<1>1. ASSUME NEW v \in PairingStates
      PROVE  /\ Len(u) \in Nat /\ Len(Append(u, v)) = Len(u) + 1
             /\ Append(u, v)[Len(u) + 1] = v
             /\ \A i \in 1..Len(u) : Append(u, v)[i] = u[i] /\ i \in 1..Len(Append(u, v))
             /\ Len(u) + 1 \in 1..Len(Append(u, v))
  OBVIOUS
<1>2. \A v \in PairingStates : EndUnsent(u) => EndUnsent(Append(u, v))
  BY <1>1 DEF EndUnsent
<1>3. \A v \in PairingStates : v # "pairing" => EndUnsent(Append(u, v))
  BY <1>1 DEF EndUnsent
<1>4. ASSUME u # <<>>, EndUnsent(u), Head(u) = "pairing"
      PROVE  EndUnsent(Tail(u))
  <2>1. PICK i \in 1..Len(u) : u[i] # "pairing"
    BY <1>4 DEF EndUnsent
  <2>2. i # 1
    BY <1>4, <2>1
  <2>3. i - 1 \in 1..Len(Tail(u)) /\ Tail(u)[i - 1] = u[i]
    BY <1>4, <2>2
  <2> QED BY <2>1, <2>3 DEF EndUnsent
<1> QED BY <1>2, <1>3, <1>4

(* The daemon: it ends no scanner's session while it counts one, and a     *)
(* pairing that ends is announced.                                         *)
LEMMA HoldsSaid ==
    ASSUME MirrorTypeOK, TreeStands, Holds, DaemonStep
    PROVE  Holds'
<1> USE DEF leases, client
<1>0. /\ stream \in Seq(Signals) /\ unsent \in Seq(PairingStates)
      /\ UNCHANGED <<held, hold, phase, command>>
  BY DEF TreeStands, MirrorTypeOK, DaemonStep, Start, Crash, ShareOrNot, Discovered,
         SessionOver, PairingMoves, Supervise, JobMoves
<1>1. ASSUME leased' = leased, leased => owner',
             leased /\ command = "idle" => PairingGoesOn'
      PROVE  Holds'
  BY <1>0, <1>1 DEF Holds
<1>2. leased => owner
  BY DEF Holds
<1>3. CASE Start
  BY <1>1, <1>2, <1>3 DEF Start
<1>4. CASE Crash
  BY <1>0, <1>4 DEF Crash, Holds
<1>5. CASE ShareOrNot
  <2>1. PairingGoesOn' <=> PairingGoesOn
    BY <1>5 DEF ShareOrNot, PairingGoesOn
  <2> QED BY <1>1, <1>2, <1>5, <2>1 DEF ShareOrNot, Holds
<1>6. CASE Discovered
  <2>1. PICK m \in Signals : stream' = Append(stream, m)
    BY <1>0, <1>6, DaemonSays, SignalsSent
  <2>2. PairingGoesOn => PairingGoesOn'
    BY <1>0, <1>6, <2>1, EndStream DEF Discovered, PairingGoesOn
  <2> QED BY <1>1, <1>2, <1>6, <2>2 DEF Discovered, Holds
<1>7. CASE SessionOver
  BY <1>1, <1>7 DEF SessionOver, Session
<1>8. CASE PairingMoves
  <2>1. PICK v \in PairingStates : /\ scanner = "pairing" => v # "pairing"
                                   /\ unsent' = Append(unsent, v)
    BY <1>8 DEF PairingMoves
  <2>2. PairingGoesOn => PairingGoesOn'
    BY <1>0, <1>8, <2>1, EndWaits DEF PairingMoves, PairingGoesOn
  <2> QED BY <1>1, <1>2, <1>8, <2>2 DEF PairingMoves, Holds
<1>9. CASE Supervise
  <2>1. /\ unsent # <<>> /\ unsent' = Tail(unsent) /\ UNCHANGED <<owner, scanner, leased>>
        /\ Head(unsent) \in PairingStates
        /\ stream' = Append(stream, Signal("pairing", Head(unsent)))
    BY <1>0, <1>9, DaemonSays DEF Supervise
  <2>2. Signal("pairing", Head(unsent)) \in Signals
    BY <2>1, SignalsSent
  <2>3. EndComes(stream) => EndComes(stream')
    BY <1>0, <2>1, <2>2, EndStream
  <2>4. EndUnsent(unsent) => EndUnsent(unsent') \/ EndComes(stream')
    BY <1>0, <2>1, EndStream, EndWaits
  <2>5. PairingGoesOn => PairingGoesOn'
    BY <2>1, <2>3, <2>4 DEF PairingGoesOn
  <2> QED BY <1>1, <1>2, <2>1, <2>5 DEF Holds
<1>10. CASE JobMoves
  <2>1. PICK m \in Signals : stream' = Append(stream, m)
    BY <1>0, <1>10, DaemonSays, SignalsSent
  <2>2. PairingGoesOn => PairingGoesOn'
    BY <1>0, <1>10, <2>1, EndStream DEF JobMoves, PairingGoesOn
  <2> QED BY <1>1, <1>2, <1>10, <2>2 DEF JobMoves, Holds
<1> QED BY <1>3, <1>4, <1>5, <1>6, <1>7, <1>8, <1>9, <1>10 DEF DaemonStep

(* The signal that a pairing ended gives the session back, and every other *)
(* signal leaves it, or takes it with the daemon.                          *)
LEMMA HoldsDispatched ==
    ASSUME MirrorTypeOK, TreeStands, Holds, Dispatch
    PROVE  Holds'
<1> DEFINE m == Head(stream)
<1>1. /\ stream \in Seq(Signals) /\ m \in Signals /\ stream # <<>> /\ stream' = Tail(stream)
      /\ phase = "live" /\ command = "idle" /\ command' = "idle"
      /\ UNCHANGED <<owner, scanner, unsent>>
  BY DEF Dispatch, Live, TreeStands, tree
<1>2. ASSUME ~held' \/ ~hold', ~hold', ~leased'
      PROVE  Holds'
  BY <1>1, <1>2 DEF Holds
<1>3. ASSUME ~(m.kind = "pairing" /\ m.value # "pairing"), UNCHANGED leases,
             phase' \in {"live", "presence"}
      PROVE  Holds'
  <2>1. EndComes(stream) => EndComes(stream')
    BY <1>1, <1>3, EndStream
  <2>2. PairingGoesOn => PairingGoesOn'
    BY <1>1, <2>1 DEF PairingGoesOn
  <2>3. leased => PairingGoesOn
    BY <1>1 DEF Holds
  <2>4. hold' = hold /\ held' = held /\ leased' = leased
    BY <1>3 DEF leases
  <2>5. (hold => held) /\ (leased => hold /\ owner)
    BY DEF Holds
  <2> QED BY <1>1, <1>3, <2>2, <2>3, <2>4, <2>5 DEF Holds
<1>4. CASE m \in OwnerSignals
  <2>1. m.kind = "owner" /\ OwnerChanged(m)
    BY <1>1, <1>4, SignalKinds DEF Dispatch
  <2> QED BY <1>2, <1>3, <1>4, <2>1, OwnerEffect DEF leases
<1>5. CASE m \notin OwnerSignals
  <2>1. m.kind # "owner" /\ phase' = phase /\ Apply(m)
    BY <1>1, <1>5, SignalKinds DEF Dispatch
  <2>2. CASE m.kind = "pairing"
    <3>1. CASE m.value = "pairing"
      <4>1. UNCHANGED leases
        BY <2>1, <2>2, <3>1 DEF Apply
      <4> QED BY <1>1, <1>3, <2>1, <3>1, <4>1
    <3>2. CASE m.value # "pairing"
      <4>1. Released
        BY <2>1, <2>2, <3>2 DEF Apply
      <4>2. ~held' /\ ~hold' /\ ~leased'
        BY <4>1 DEF Released, Holds
      <4> QED BY <1>2, <4>2
    <3> QED BY <3>1, <3>2
  <2>3. CASE m.kind # "pairing"
    <3>1. UNCHANGED leases
      BY <1>1, <2>1, <2>3, SignalKinds DEF Apply
    <3> QED BY <1>1, <1>3, <2>1, <2>3, <3>1
  <2> QED BY <2>2, <2>3
<1> QED BY <1>4, <1>5

(* The rest of the client: a path is held before the session is asked for, *)
(* and a failed session or a refused command leaves none.                  *)
LEMMA HoldsKept ==
    ASSUME MirrorTypeOK, TreeStands, Holds,
           \/ SessionStep \/ ShowProgress \/ Pair
           \/ UNCHANGED mirrorVars
    PROVE  Holds'
<1> USE DEF leases, tree
<1>0. stream \in Seq(Signals) /\ unsent \in Seq(PairingStates)
  BY DEF TreeStands, MirrorTypeOK
<1>1. UNCHANGED <<scanner, unsent, stream>> => PairingGoesOn' = PairingGoesOn
  BY DEF PairingGoesOn
<1>2. CASE Presence \/ Seed \/ Retry
  <2>1. UNCHANGED <<owner, scanner, unsent, stream, leased, held, hold>>
    BY <1>2 DEF Presence, Seed, Retry
  <2>2. command = "idle" /\ command' = "idle"
    BY <1>2 DEF Presence, Seed, Retry, Holds
  <2>3. leased => owner /\ phase \in {"live", "presence", "seeding"}
    BY DEF Holds
  <2>4. leased => phase' \in {"live", "presence", "seeding"}
    BY <1>2, <2>3 DEF Presence, Seed, Retry
  <2> QED BY <1>1, <2>1, <2>2, <2>4 DEF Holds
<1>3. CASE SessionFails \/ ReleaseFails
  BY <1>3 DEF SessionFails, ReleaseFails, Fail, Holds
<1>4. CASE Wait
  BY <1>4 DEF Wait, Holds
<1>5. CASE Dispatch
  BY <1>5, HoldsDispatched
<1>6. CASE Acquire
  <2>1. phase = "live" /\ held /\ ~hold /\ ~leased
    BY <1>6 DEF Acquire, Holds
  <2> QED BY <1>6, <2>1 DEF Acquire, Holds
<1>7. CASE CallPair
  <2>1. phase = "live" /\ held /\ (leased => hold /\ owner)
    BY <1>7 DEF CallPair, Holds
  <2>2. command' = "idle" /\ UNCHANGED <<owner, phase>>
    BY <1>7 DEF CallPair
  <2>3. CASE scanner' = "pairing" /\ UNCHANGED leases
    BY <2>1, <2>2, <2>3 DEF Holds, PairingGoesOn
  <2>4. CASE Released
    BY <2>1, <2>2, <2>4 DEF Holds, Released
  <2> QED BY <1>7, <2>3, <2>4 DEF CallPair
<1>8. CASE ShowProgress
  BY <1>1, <1>8 DEF ShowProgress, Holds
<1>9. CASE Pair
  BY <1>9 DEF Pair, Live, Holds
<1>10. CASE UNCHANGED mirrorVars
  BY <1>1, <1>10 DEF mirrorVars, Holds
<1> QED BY <1>2, <1>3, <1>4, <1>5, <1>6, <1>7, <1>8, <1>9, <1>10 DEF SessionStep

-----------------------------------------------------------------------------
(* The invariant, and what the desktop relies on *)

MirrorInv == MirrorTypeOK /\ TreeStands /\ AllKnown /\ Notes /\ Holds

(* The invariant holds of a client that starts with no daemon.             *)
LEMMA MirrorInvInit == MirrorInit => MirrorInv
<1> SUFFICES ASSUME MirrorInit PROVE MirrorInv
  OBVIOUS
<1> USE DEF MirrorInit
<1>1. MirrorTypeOK
  <2>1. Len(stream) <= WireBound + 2
    BY WireAssumption
  <2>2. mirror \in [scanner : PairingStates \cup {"absent"}, job : JobStates]
    <3>1. EmptyStore \in [scanner : PairingStates \cup {"absent"}, job : JobStates]
      BY DEF EmptyStore, JobStates
    <3> QED BY <3>1
  <2>3. unsent \in Seq(PairingStates)
    OBVIOUS
  <2> QED BY <2>1, <2>2, <2>3 DEF MirrorTypeOK, JobStates
<1>2. TreeStands
  BY DEF TreeStands
<1>3. AllKnown
  BY DEF AllKnown, OwnerKnown, PresenceKnown, PairingKnown, JobKnown, StateKnown, ToldIn
<1>4. Notes
  BY DEF Notes, Clean, Runs, Restarts, OpenRecords
<1>5. Holds
  BY DEF Holds
<1> QED BY <1>1, <1>2, <1>3, <1>4, <1>5 DEF MirrorInv

(* Every step keeps it.                                                    *)
LEMMA MirrorInvStep == MirrorInv /\ [MirrorNext]_mirrorVars => MirrorInv'
<1> SUFFICES ASSUME MirrorInv, [MirrorNext]_mirrorVars PROVE MirrorInv'
  OBVIOUS
<1>1. MirrorTypeOK /\ TreeStands /\ AllKnown /\ Notes /\ Holds
  BY DEF MirrorInv
<1>2. TreeStands'
  BY <1>1, TreeStandsStep
<1>3. CASE DaemonStep
  BY <1>1, <1>2, <1>3, DaemonTyped, KnownSaid, NotesSaid, HoldsSaid DEF MirrorInv
<1>4. CASE SessionStep \/ ShowProgress \/ Pair
  BY <1>1, <1>2, <1>4, ClientTyped, KnownRead, NotesKept, HoldsKept DEF MirrorInv
<1>5. CASE UNCHANGED mirrorVars
  <2>1. MirrorTypeOK'
    BY <1>1, <1>5 DEF MirrorTypeOK, mirrorVars
  <2> QED BY <1>1, <1>2, <1>5, <2>1, KnownRead, NotesKept, HoldsKept DEF MirrorInv
<1> QED BY <1>3, <1>4, <1>5 DEF MirrorNext

(* What the desktop shows, once it has applied every signal, is what the   *)
(* daemon has: the scanner, its pairing, the job under it and whether a    *)
(* progress notification is justified (Store::apply, NotificationEngine).  *)
THEOREM ClientAlwaysAgrees == MirrorSpec => []ClientAgrees
<1>1. MirrorInv => ClientAgrees
  BY KnownAgrees, NotesAgree DEF MirrorInv, ClientAgrees
<1> QED BY <1>1, MirrorInvInit, MirrorInvStep, PTL DEF MirrorSpec

(* The session a pairing was started with is given back: with nothing left *)
(* to hear, and no pairing, the daemon counts none (release_pairing_hold). *)
THEOREM HoldIsAlwaysGivenBack == MirrorSpec => []HoldIsGivenBack
<1>1. MirrorInv => HoldIsGivenBack
  BY DEF MirrorInv, Holds, HoldIsGivenBack, AllHeard, PairingGoesOn, EndComes, EndUnsent
<1> QED BY <1>1, MirrorInvInit, MirrorInvStep, PTL DEF MirrorSpec
=============================================================================
