------------------------------- MODULE Options -------------------------------
(***************************************************************************)
(* The options a scan runs with, and who edits them.                       *)
(*                                                                         *)
(*   scanbus-daemon/src/profiles.rs, profiles/options.rs                   *)
(*       the maps of Profile1.Options, their table, the maps a job merges  *)
(*   scanbus-daemon/src/dbus/profile.rs, dbus/button.rs                    *)
(*       the setters                                                       *)
(*   scanbus-gui/src/options.rs, buttons.rs, profiles.rs, bus.rs           *)
(*       the editor of one map, and the task that sends its writes         *)
(*   scanbus-cli/src/cmd/profile.rs, cmd/button.rs                         *)
(*       a command that reads, merges and writes                           *)
(*                                                                         *)
(* A write replaces a whole map, so whoever changes one option writes back *)
(* what it last knew of the others.  One key, two profiles, two options: a *)
(* closed set of spellings that differ between the profiles, and a folder, *)
(* which may be present and blank.  Of a daemon's property setter it is    *)
(* assumed (dbus/button.rs, "several can genuinely be in flight at once")  *)
(* that it runs, then reads the property again, then signals it.           *)
(***************************************************************************)
EXTENDS Naturals, Sequences

CONSTANT MaxChanges   \* bound: changes the users ask for, in all

ASSUME ChangesAssumption == MaxChanges \in Nat

VARIABLES
    options,   \* ProfileRegistry.options: a map for each profile
    key,       \* Button1's info: its profile and its ProfileOptions
    call,      \* the setter each client waits for
    wire,      \* PropertiesChanged signals on their way to the desktop client
    store,     \* its copy of the properties
    editor,    \* the open editor: what it edits, and the map as it shows it
    queue,     \* the writes its bus task has not sent yet
    script,    \* the writes a command line still has to make
    changes,   \* how many changes were asked for
    meant,     \* history: what the editor's user last asked of each option
    behind     \* history: properties whose last signal is not their value

daemon == <<options, key>>
desktop == <<store, editor, queue, meant>>
vars == <<options, key, call, wire, store, editor, queue, script,
          changes, meant, behind>>

-----------------------------------------------------------------------------
(* Maps, the table they are checked against, and how they are read *)

Kinds == {"image", "document"}
Clients == {"gui", "cli"}
Names == {"format", "output_folder"}
Spellings == [format |-> {"jpeg", "png", "pdf"}, output_folder |-> {"blank", "here"}]

(* An option a map does not hold reads "unset"; a folder of white space is *)
(* held, and read as "blank".                                              *)
Maps == [format : Spellings.format \cup {"unset"},
         output_folder : Spellings.output_folder \cup {"unset"}]
Empty == [format |-> "unset", output_folder |-> "unset"]

Declared(kind) ==
    [format |-> IF kind = "image" THEN {"jpeg", "png"} ELSE {"pdf"},
     output_folder |-> Spellings.output_folder]

Fallback(kind) ==
    [format |-> IF kind = "image" THEN "jpeg" ELSE "pdf",
     output_folder |-> "user directory"]

(* The folder is left unset, so that the daemon keeps resolving it. *)
StoredDefaults(kind) == [format |-> Fallback(kind).format, output_folder |-> "unset"]

(* validate: what a write to Profile1.Options has to pass. *)
Validate(kind, map) ==
    \A n \in Names : map[n] # "unset" => map[n] \in Declared(kind)[n]

(* resolve_options: what a key holds goes over what its profile holds. *)
Resolve(profile, overrides) ==
    [n \in Names |-> IF overrides[n] # "unset" THEN overrides[n] ELSE profile[n]]

(* string_value and output_dir: what a processor makes of the merged map. *)
Used(kind, map) ==
    [n \in Names |->
        IF map[n] \in {"unset", "blank"} THEN Fallback(kind)[n]
        ELSE IF map[n] \in Declared(kind)[n] THEN map[n] ELSE "refused"]

(* set_value: the editor takes a blank value for one that is not held. *)
IsSet(map, n) == map[n] \notin {"unset", "blank"}

(* effective: the chain of the editor and of OptionSchema. *)
Shown(kind, stored, inherited) ==
    [n \in Names |-> IF IsSet(stored, n) THEN stored[n]
                     ELSE IF IsSet(inherited, n) THEN inherited[n]
                     ELSE Fallback(kind)[n]]

-----------------------------------------------------------------------------
(* Properties on the bus, the editor and the writes *)

Properties == Kinds \cup {"profile", "overrides"}
Assigned(profile) == [profile |-> profile]
Write(property, value) == [property |-> property, value |-> value]
Writes == [property : Properties \ {"profile"}, value : Maps]
          \cup [property : {"profile"}, value : {Assigned(p) : p \in Kinds \cup {"none"}}]
NoWrite == [property |-> "none", value |-> Empty]
NoCall == [at |-> "idle", write |-> NoWrite]
Calls == [at : {"idle", "sent", "moved", "read"}, write : Writes \cup {NoWrite}]

(* What a property reads in the daemon, or in the store. *)
Reads(side, property) ==
    IF property \in Kinds THEN side.options[property]
    ELSE IF property = "profile" THEN Assigned(side.profile)
    ELSE side.overrides

Daemon == [options |-> options, profile |-> key.profile, overrides |-> key.overrides]

(* The same side once a property has changed there. *)
With(side, property, value) ==
    IF property \in Kinds THEN [side EXCEPT !.options[property] = value]
    ELSE IF property = "profile" THEN [side EXCEPT !.profile = value.profile]
    ELSE [side EXCEPT !.overrides = value]

Closed == [scope |-> "closed", kind |-> "image", stored |-> Empty]
Nothing == [format |-> "any", output_folder |-> "any"]

(* The property an editor writes. *)
Target(e) == IF e.scope = "button" THEN "overrides" ELSE e.kind

(* Every store event renders.  A dialog whose key no longer runs the       *)
(* profile it was opened for is closed.                                    *)
Render(e, side) ==
    IF e.scope = "profile" THEN [e EXCEPT !.stored = side.options[e.kind]]
    ELSE IF e.scope = "button" /\ side.profile = e.kind
         THEN [e EXCEPT !.stored = side.overrides]
    ELSE Closed

TypeOK ==
    /\ options \in [Kinds -> Maps]
    /\ key \in [profile : Kinds \cup {"none"}, overrides : Maps]
    /\ call \in [Clients -> Calls]
    /\ \A c \in Clients : call[c].at # "idle" => call[c].write \in Writes
    /\ wire \in Seq(Writes)
    /\ store \in [options : [Kinds -> Maps], profile : Kinds \cup {"none"},
                  overrides : Maps]
    /\ editor \in [scope : {"closed", "profile", "button"}, kind : Kinds, stored : Maps]
    /\ queue \in Seq(Writes) /\ script \in Seq(Writes)
    /\ changes \in 0..MaxChanges
    /\ meant \in [format : Spellings.format \cup {"unset", "any"},
                  output_folder : Spellings.output_folder \cup {"unset", "any"}]
    /\ behind \subseteq Properties

(* restore has given the key the profile it had when the daemon last ran. *)
Init ==
    /\ options = [kind \in Kinds |-> StoredDefaults(kind)]
    /\ key \in [profile : Kinds \cup {"none"}, overrides : {Empty}]
    /\ call = [c \in Clients |-> NoCall]
    /\ wire = <<>>
    /\ store = Daemon
    /\ editor = Closed
    /\ queue = <<>> /\ script = <<>>
    /\ changes = 0
    /\ meant = Nothing
    /\ behind = {}

Change == changes < MaxChanges /\ changes' = changes + 1

-----------------------------------------------------------------------------
(* The daemon: a setter, its signal and its answer *)

(* Under the lock of the map: the table for a profile's options; for a key *)
(* the backend may refuse, and its options pass no table.  The file is     *)
(* written last, and its failure leaves the property moved.                *)
Accepts(property, value) ==
    property \in Kinds => Validate(property, value)

Moved(property, value) ==
    IF property \in Kinds
    THEN options' = [options EXCEPT ![property] = value] /\ UNCHANGED key
    ELSE /\ key' = IF property = "profile" THEN [key EXCEPT !.profile = value.profile]
                   ELSE [key EXCEPT !.overrides = value]
         /\ UNCHANGED options

(* What the editor's user asked is superseded by another writer's map. *)
Superseded(c, property) ==
    IF c = "cli" /\ editor.scope # "closed" /\ property = Target(editor)
    THEN Nothing ELSE meant

Set(c) ==
    LET w == call[c].write IN
    /\ call[c].at = "sent"
    /\ Accepts(w.property, w.value)
    /\ Moved(w.property, w.value)
    /\ call' = [call EXCEPT ![c].at = "moved"]
    /\ meant' = Superseded(c, w.property)
    /\ UNCHANGED <<wire, store, editor, queue, script, changes, behind>>

(* An error answer: the desktop client toasts and renders again from a     *)
(* store that did not move; the command line makes no further write.       *)
Answered(c) ==
    IF c = "gui" THEN /\ editor' = Render(editor, store)
                      /\ meant' = Nothing /\ UNCHANGED script
    ELSE script' = <<>> /\ UNCHANGED editor

(* Mutant: the refusal is logged and nothing is rendered. *)
RefuseQuietly(c) ==
    LET w == call[c].write IN
    /\ call[c].at = "sent"
    /\ w.property \in Kinds => ~Validate(w.property, w.value)
    /\ call' = [call EXCEPT ![c] = NoCall]
    /\ meant' = Nothing /\ script' = <<>>
    /\ UNCHANGED <<daemon, wire, store, editor, queue, changes, behind>>

(* InvalidArgs from the table, or the backend's refusal of a key. *)
Refuse(c) ==
    LET w == call[c].write IN
    /\ call[c].at = "sent"
    /\ w.property \in Kinds => ~Validate(w.property, w.value)
    /\ call' = [call EXCEPT ![c] = NoCall]
    /\ Answered(c)
    /\ c = "cli" => UNCHANGED meant
    /\ UNCHANGED <<daemon, wire, store, queue, changes, behind>>

(* The map has moved and its file could not be written: an error is        *)
(* answered and nothing is signalled.                                      *)
MoveUnsaved(c) ==
    LET w == call[c].write IN
    /\ call[c].at = "sent"
    /\ Accepts(w.property, w.value)
    /\ Moved(w.property, w.value)
    /\ behind' = behind \cup {w.property}
    /\ call' = [call EXCEPT ![c] = NoCall]
    /\ Answered(c)
    /\ c = "cli" => meant' = Superseded(c, w.property)
    /\ UNCHANGED <<wire, store, queue, changes>>

(* The property is read again for the signal. *)
ReadBack(c) ==
    /\ call[c].at = "moved"
    /\ LET p == call[c].write.property IN
       call' = [call EXCEPT ![c] = [at |-> "read", write |-> Write(p, Reads(Daemon, p))]]
    /\ UNCHANGED <<daemon, wire, desktop, script, changes, behind>>

(* Whether another setter of the property has yet to signal it. *)
Follows(c, property) ==
    \E d \in Clients \ {c} :
        call[d].at \in {"moved", "read"} /\ call[d].write.property = property

(* The signal, then the answer, which waits for nothing else. *)
Announce(c) ==
    LET w == call[c].write IN
    /\ call[c].at = "read"
    /\ wire' = Append(wire, w)
    /\ behind' = IF w.value = Reads(Daemon, w.property) THEN behind \ {w.property}
                 ELSE IF Follows(c, w.property) THEN behind
                 ELSE behind \cup {w.property}
    /\ call' = [call EXCEPT ![c] = NoCall]
    /\ UNCHANGED <<daemon, desktop, script, changes>>

-----------------------------------------------------------------------------
(* The desktop client *)

(* open_options, and the page of a profile. *)
Open ==
    /\ editor.scope = "closed"
    /\ \E kind \in Kinds :
          \/ editor' = Render([scope |-> "profile", kind |-> kind, stored |-> Empty], store)
          \/ /\ store.profile = kind
             /\ editor' = Render([scope |-> "button", kind |-> kind, stored |-> Empty], store)
    /\ meant' = Nothing
    /\ UNCHANGED <<daemon, call, wire, store, queue, script, changes, behind>>

Close ==
    /\ editor.scope # "closed"
    /\ editor' = Closed /\ meant' = Nothing
    /\ UNCHANGED <<daemon, call, wire, store, queue, script, changes, behind>>

(* The map as it is edited is what is sent. *)
Emit(map, n) ==
    /\ queue' = Append(queue, Write(Target(editor), map))
    /\ meant' = [meant EXCEPT ![n] = map[n]]

(* A render that puts an option back takes from the user what was asked of *)
(* it: the next edit of another option would send the older value.         *)
StillShown(e) ==
    IF e.scope = "closed" THEN Nothing
    ELSE [format |-> IF e.stored.format = meant.format THEN meant.format ELSE "any",
          output_folder |-> IF e.stored.output_folder = meant.output_folder
                            THEN meant.output_folder ELSE "any"]

(* Mutant: the edited map is sent and not kept. *)
CommitOnce(n) ==
    /\ editor.scope # "closed"
    /\ \E v \in Declared(editor.kind)[n] \ {"blank"} :
          /\ editor.stored[n] # v
          /\ Emit([editor.stored EXCEPT ![n] = v], n)
    /\ Change
    /\ UNCHANGED <<daemon, call, wire, store, editor, script, behind>>

(* commit: a row was changed.  No widget offers a value the table refuses. *)
Commit(n) ==
    /\ editor.scope # "closed"
    /\ \E v \in Declared(editor.kind)[n] \ {"blank"} :
          LET map == [editor.stored EXCEPT ![n] = v] IN
          /\ editor.stored[n] # v
          /\ editor' = [editor EXCEPT !.stored = map]
          /\ Emit(map, n)
    /\ Change
    /\ UNCHANGED <<daemon, call, wire, store, script, behind>>

(* clear: Reset removes the option. *)
Clear(n) ==
    LET map == [editor.stored EXCEPT ![n] = "unset"] IN
    /\ editor.scope # "closed" /\ IsSet(editor.stored, n)
    /\ editor' = [editor EXCEPT !.stored = map]
    /\ Emit(map, n)
    /\ Change
    /\ UNCHANGED <<daemon, call, wire, store, script, behind>>

(* The profile menu of a key; nothing is shown before the daemon confirms. *)
Assign ==
    /\ \E p \in (Kinds \cup {"none"}) \ {store.profile} :
          queue' = Append(queue, Write("profile", Assigned(p)))
    /\ editor.scope = "closed"
    /\ Change
    /\ UNCHANGED <<daemon, call, wire, store, editor, script, meant, behind>>

(* The bus task: a command is carried through before anything else. *)
Send ==
    /\ call["gui"].at = "idle" /\ queue # <<>>
    /\ call' = [call EXCEPT !["gui"] = [at |-> "sent", write |-> Head(queue)]]
    /\ queue' = Tail(queue)
    /\ UNCHANGED <<daemon, wire, store, editor, script, changes, meant, behind>>

(* Mutant: an open dialog is left with the map it was opened with. *)
ReceiveBesideDialog ==
    /\ wire # <<>>
    /\ store' = With(store, Head(wire).property, Head(wire).value)
    /\ wire' = Tail(wire)
    /\ UNCHANGED <<daemon, call, editor, queue, script, changes, meant, behind>>

(* A signal reaches the store, and the store renders every view.  The wire *)
(* ends with the channel from the bus task to the views, so that one read  *)
(* before a command was taken may be applied while the command runs.       *)
Receive ==
    /\ wire # <<>>
    /\ store' = With(store, Head(wire).property, Head(wire).value)
    /\ wire' = Tail(wire)
    /\ editor' = Render(editor, store')
    /\ meant' = StillShown(editor')
    /\ UNCHANGED <<daemon, call, queue, script, changes, behind>>

(* Any other event of the store renders as well: a page of a job, say. *)
RenderAgain ==
    /\ editor.scope # "closed" /\ editor.stored # Reads(store, Target(editor))
    /\ editor' = Render(editor, store)
    /\ meant' = StillShown(editor')
    /\ UNCHANGED <<daemon, call, wire, store, queue, script, changes, behind>>

-----------------------------------------------------------------------------
(* The command line *)

Free == script = <<>> /\ call["cli"].at = "idle"

(* scanbus profile set: the map is read, and written back with the option. *)
ProfileSet ==
    /\ Free
    /\ \E kind \in Kinds, n \in Names : \E v \in Spellings[n] :
          script' = <<Write(kind, [options[kind] EXCEPT ![n] = v])>>
    /\ Change
    /\ UNCHANGED <<daemon, call, wire, desktop, behind>>

(* scanbus button set: a profile, options that replace the map, or both.   *)
(* scanbus button clear: neither is left.                                  *)
ButtonSet ==
    /\ Free
    /\ \/ \E p \in Kinds : script' = <<Write("profile", Assigned(p))>>
       \/ \E n \in Names : \E v \in Spellings[n] :
             LET map == Write("overrides", [Empty EXCEPT ![n] = v]) IN
             \/ script' = <<map>>
             \/ \E p \in Kinds : script' = <<Write("profile", Assigned(p)), map>>
       \/ script' = <<Write("profile", Assigned("none")), Write("overrides", Empty)>>
    /\ Change
    /\ UNCHANGED <<daemon, call, wire, desktop, behind>>

(* write_changes: the next write, once the one before has been answered. *)
WriteNext ==
    /\ script # <<>> /\ call["cli"].at = "idle"
    /\ call' = [call EXCEPT !["cli"] = [at |-> "sent", write |-> Head(script)]]
    /\ script' = Tail(script)
    /\ UNCHANGED <<daemon, wire, desktop, changes, behind>>

-----------------------------------------------------------------------------
(* Specification *)

Setter(c) == Set(c) \/ Refuse(c) \/ MoveUnsaved(c) \/ ReadBack(c) \/ Announce(c)
Edit == (\E n \in Names : Commit(n) \/ Clear(n)) \/ Assign
Desktop == Open \/ Close \/ Edit \/ Send \/ Receive \/ RenderAgain
CommandLine == ProfileSet \/ ButtonSet \/ WriteNext

Next == (\E c \in Clients : Setter(c)) \/ Desktop \/ CommandLine

Spec == Init /\ [][Next]_vars

(* The daemon's setters run to their end, the bus task takes its commands  *)
(* and signals, and the main loop the events: no user is obliged to act.   *)
FairSpec ==
    /\ Spec
    /\ \A c \in Clients : WF_vars(Setter(c))
    /\ WF_vars(Send)
    /\ WF_vars(Receive)

-----------------------------------------------------------------------------
(* Properties *)

(* Nothing of a property is under way: no write, no setter, no signal. *)
Quiet == /\ queue = <<>> /\ script = <<>> /\ wire = <<>>
         /\ \A c \in Clients : call[c].at = "idle"

Settled(property) == property \notin behind

(* A profile's map always passes its own table, whoever wrote it. *)
ProfilesAreValid == \A kind \in Kinds : Validate(kind, options[kind])

(* A key's dialog is open for the profile the key is shown to run: the     *)
(* Reset of a dialog never writes into another profile's options.          *)
DialogFits == editor.scope = "button" => store.profile = editor.kind

(* With nothing under way the desktop client holds what the daemon holds,  *)
(* but for a property whose last signal was lost or overtaken.             *)
StoreCatchesUp ==
    Quiet => \A p \in Properties : Settled(p) => Reads(store, p) = Reads(Daemon, p)

(* The two readings of a blank folder part when the level below has one. *)
BlankOverFolder(n) ==
    editor.scope = "button" /\ editor.stored[n] = "blank" /\ IsSet(options[editor.kind], n)

(* What the editor shows of each option, and what the next scan uses. *)
ShownNow ==
    Shown(editor.kind, editor.stored,
          IF editor.scope = "button" THEN store.options[editor.kind] ELSE Empty)
UsedNow ==
    Used(editor.kind,
         Resolve(options[editor.kind],
                 IF editor.scope = "button" THEN key.overrides ELSE Empty))

Comparable == /\ Quiet /\ editor.scope # "closed"
              /\ Settled(editor.kind) /\ Settled("overrides")
              /\ editor.stored = Reads(store, Target(editor))

(* What the editor shows of each option is what the next scan uses of it,  *)
(* or a scan refuses it: the editor walks the same chain as the daemon's   *)
(* merge and the processors' fallbacks, written a second time.             *)
ShownIsUsed ==
    Comparable => \A n \in Names : \/ ShownNow[n] = UsedNow[n]
                                  \/ UsedNow[n] = "refused"
                                  \/ BlankOverFolder(n)

(* docs/scanbus-dbus-api.md:188: a folder that is present and blank is     *)
(* treated like an absent one.  False of a key over a profile's folder.    *)
BlankIsAbsent ==
    Comparable => \A n \in Names : UsedNow[n] \in {ShownNow[n], "refused"}

(* The two sides and the editor agree. *)
OptionsAgree == TypeOK /\ ProfilesAreValid /\ DialogFits /\ StoreCatchesUp /\ ShownIsUsed

(* What the user last asked of each option is what the daemon holds once   *)
(* the writes have been answered.  Every write is a whole map, so a later  *)
(* edit must carry the earlier ones; it does, unless a render of the store *)
(* came between them, a refusal, or another program's write.               *)
EditsStand ==
    (queue = <<>> /\ call["gui"].at = "idle" /\ editor.scope # "closed")
        => \A n \in Names : meant[n] # "any"
                           => Reads(Daemon, Target(editor))[n] = meant[n]

Ahead == editor.scope # "closed" /\ editor.stored # Reads(store, Target(editor))
Rendered == editor.scope = "closed" \/ editor.stored = Reads(store, Target(editor))

(* An edit shown before it is answered gives way to a verdict: the store   *)
(* comes to hold it, or the editor goes back to what the store holds.      *)
VerdictIsShown == Ahead ~> Rendered

=============================================================================
