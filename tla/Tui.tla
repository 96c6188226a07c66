--------------------------------- MODULE Tui ---------------------------------
(***************************************************************************)
(* The terminal UI (internal/tui): the model that Update changes one       *)
(* message at a time, the commands whose goroutines send it their messages *)
(* in any order, and the listener of the daemon's events.                  *)
(*                                                                         *)
(* The keys are those of the Domains tab and of the dialogs, after the     *)
(* splash; the other tabs only show what is here.  A commit's edit of the  *)
(* hosts file, and its undoing, belong to its request (see Hosts).  Of a   *)
(* route there is one value, for its target, its share and whether it is   *)
(* enabled.                                                                *)
(***************************************************************************)
EXTENDS Integers, FiniteSets, Sequences

CONSTANTS
  TuiNames,      \* route names: integers, whose order is that of the list
  TuiValues,
  Absent,        \* no route, no name
  Cmds,          \* bound on the commands under way at once (model only)
  Listener,      \* the goroutine of SubscribeEvents
  MaxVersions,   \* bound on the lists of the daemon (model only)
  MaxInputs      \* bound on keys, other clients' changes and failures (model only)

TuiLists == [TuiNames -> TuiValues \cup {Absent}]
Senders == Cmds \cup {Listener}

ASSUME TuiAssumption ==
  /\ TuiNames \subseteq Int /\ IsFiniteSet(TuiNames)
  /\ Absent \notin TuiNames /\ Absent \notin TuiValues
  /\ Cmds \subseteq Nat /\ Listener \notin Cmds
  /\ MaxVersions \in Nat \ {0} /\ MaxInputs \in Nat

VARIABLES
  versions,   \* the daemon's lists so far; the last is the one it has
  linked,     \* the event stream is connected
  events,     \* how many events wait that make the listener load the list
  work,       \* [Senders -> a command or what the listener does]
  shown,      \* the version the Domains tab shows, 0 for no rows
  cursor,     \* the table's cursor
  dialog,     \* the top of the modals, with the name it shows
  busy,       \* the spinner turns
  quit,       \* tea.Quit
  inputs,     \* how many there have been
  behind,     \* history: why the list may be behind the daemon's
  shifted,    \* history: rows have come or gone since the dialog was opened
  hasty       \* history: the program ended by an answer to another question

daemonSide == <<versions, linked, events>>
listSide == <<shown, cursor, behind, shifted>>
tuiVars == <<daemonSide, work, listSide, dialog, busy, quit, inputs, hasty>>

Commits == {"add", "delete", "set"}
NoDialog == [kind |-> "none", on |-> Absent]
Nothing == [op |-> "none", step |-> "idle", on |-> Absent, val |-> Absent, at |-> 0,
            from |-> NoDialog, says |-> "none", why |-> {}]

Dialogs == [kind : {"none", "add", "edit", "delete", "quit", "help"}, on : TuiNames \cup {Absent}]

TuiTypeOK ==
  /\ versions \in Seq(TuiLists) /\ Len(versions) \in 1..MaxVersions
  /\ linked \in BOOLEAN
  /\ events \in Nat
  /\ \A w \in Senders :
       /\ work[w].op \in Commits \cup {"none", "refresh", "answer"}
       /\ work[w].step \in {"idle", "call", "load", "tell"}
       /\ work[w].on \in TuiNames \cup {Absent} /\ work[w].val \in TuiValues \cup {Absent}
       /\ work[w].at \in 0..Len(versions) /\ work[w].from \in Dialogs
       /\ work[w].says \in {"none", "list", "blank", "error", "yes", "no"}
       /\ work[w].why \subseteq {"shifted", "repeated"}
       /\ work[w].op = "delete" => work[w].on # Absent
  /\ shown \in 0..Len(versions) /\ cursor \in Nat /\ dialog \in Dialogs
  /\ inputs \in 0..MaxInputs /\ {busy, quit, shifted, hasty} \subseteq BOOLEAN
  /\ behind \subseteq {"overtaken", "failed", "lost"}

Now == Len(versions)
Routes == versions[Now]

\* The program starts while the daemon runs or not; RefreshNow is under way.
TuiInit ==
  /\ \E r \in TuiLists : versions = <<r>>
  /\ linked = FALSE /\ events = 0
  /\ \E w \in Cmds :
       /\ \A c \in Cmds : w <= c
       /\ work = [v \in Senders |-> IF v = w THEN [Nothing EXCEPT !.op = "refresh", !.step = "load"]
                                    ELSE Nothing]
  /\ shown = 0 /\ cursor = 0 /\ dialog = NoDialog
  /\ busy = FALSE /\ quit = FALSE /\ inputs = 0
  /\ behind = {} /\ shifted = FALSE /\ hasty = FALSE

-----------------------------------------------------------------------------
(* The rows.                                                               *)

Listed(v) == IF v = 0 THEN {} ELSE {n \in TuiNames : versions[v][n] # Absent}
Row(n, v) == Cardinality({m \in Listed(v) : m < n})

Clamped(c, v) == IF c < Cardinality(Listed(v)) \/ c = 0 THEN c ELSE Cardinality(Listed(v)) - 1

\* Selected: the route under the cursor, held within the list; none without rows.
Selected == {n \in Listed(shown) : Row(n, shown) = Clamped(cursor, shown)}

\* RoutesRefreshed (Domains.Update, refreshRows, the table's SetRows): version v,
\* or no rows after a failed load.
Show(v) ==
  /\ shown' = v
  /\ cursor' = IF Listed(v) = {} THEN 0 ELSE Clamped(cursor, v)
  /\ shifted' = (dialog.kind = "delete" /\ (shifted \/ Listed(v) # Listed(shown)))

-----------------------------------------------------------------------------
(* Keys.                                                                   *)

\* Where handleGlobalKey gets the key.
AtTable == dialog = NoDialog

Input == inputs < MaxInputs /\ inputs' = inputs + 1

Open(kind, on) ==
  /\ AtTable /\ Input
  /\ dialog' = [kind |-> kind, on |-> on] /\ shifted' = FALSE
  /\ UNCHANGED <<daemonSide, work, shown, cursor, behind, busy, quit, hasty>>

AskAbout(kind) == \E n \in Selected : Open(kind, n)

\* Mutant: the table gets its keys although a dialog is open.
MoveCursorAlways(c) ==
  /\ Input /\ c < Cardinality(Listed(shown)) /\ c # cursor /\ cursor' = c
  /\ UNCHANGED <<daemonSide, work, shown, behind, shifted, dialog, busy, quit, hasty>>

\* The keys of bubbles' table.
MoveCursor(c) ==
  /\ AtTable /\ Input /\ c < Cardinality(Listed(shown)) /\ c # cursor /\ cursor' = c
  /\ UNCHANGED <<daemonSide, work, shown, behind, shifted, dialog, busy, quit, hasty>>

\* A new command's place in the model: the first that is free.
Free(w) == /\ w \in Cmds /\ work[w] = Nothing
           /\ \A c \in Cmds : c < w => work[c] # Nothing
Start(w, job) == work' = [work EXCEPT ![w] = job]

\* toggleShare and toggleEnabled ask for the other value than the list shows.
Toggle(w, val) ==
  /\ AtTable /\ Input /\ Free(w)
  /\ \E n \in Selected :
       /\ val # versions[shown][n]
       /\ Start(w, [Nothing EXCEPT !.op = "set", !.step = "call", !.on = n, !.val = val])
  /\ busy' = TRUE
  /\ UNCHANGED <<daemonSide, listSide, dialog, quit, hasty>>

\* A dialog answers with a command of its own and stays until the message is
\* back: a second answer is possible.
Answer(w, kinds, says, on, val) ==
  /\ dialog.kind \in kinds /\ Input /\ Free(w)
  /\ Start(w, [Nothing EXCEPT !.op = "answer", !.step = "tell", !.on = on, !.val = val,
                              !.from = dialog, !.says = says])
  /\ UNCHANGED <<daemonSide, listSide, dialog, busy, quit, hasty>>

\* Enter, with a name, in the add dialog; a target may be wrong.
SubmitAdd(w, on, val) == Answer(w, {"add"}, "yes", on, val)
SubmitEdit(w, val)    == Answer(w, {"edit"}, "yes", dialog.on, val)
Confirm(w)            == Answer(w, {"delete", "quit"}, "yes", dialog.on, Absent)
\* Escape, a no, the end of the help.
Dismiss(w)            == Answer(w, {"add", "edit", "delete", "quit", "help"}, "no", dialog.on, Absent)

-----------------------------------------------------------------------------
(* Update: the messages.                                                   *)

\* handleModalResult.  A yes to whatever Confirm deletes the route selected now.
Commit(a) ==
  CASE a.from.kind = "add"  -> {[Nothing EXCEPT !.op = "add", !.step = "call", !.on = a.on, !.val = a.val]}
    [] a.from.kind = "edit" -> {[Nothing EXCEPT !.op = "set", !.step = "call", !.on = a.on, !.val = a.val]}
    [] OTHER -> {[Nothing EXCEPT !.op = "delete", !.step = "call", !.on = n, !.from = a.from,
                                 !.why = a.why \cup (IF shifted THEN {"shifted"} ELSE {})] : n \in Selected}

\* What other answers are still on their way come from this dialog, or from
\* earlier ones.
Repeat(job) == IF job.op = "answer" THEN [job EXCEPT !.why = {"repeated"}] ELSE job

\* Closed: the top dialog goes, whichever has sent the message.  If it is the
\* question whether to quit (pendingQuit), a yes of any Confirm ends the program.
ClosedArrives(w) ==
  LET a == work[w]
      commits == IF dialog.kind = "quit" \/ a.says = "no" THEN {} ELSE Commit(a)
  IN  /\ a.op = "answer"
      /\ dialog' = NoDialog
      /\ IF dialog = NoDialog \/ commits = {}
           THEN /\ work' = [v \in Senders |->
                              IF v = w THEN Nothing
                              ELSE IF dialog = NoDialog THEN work[v] ELSE Repeat(work[v])]
                /\ UNCHANGED busy
           ELSE /\ \E job \in commits :
                     work' = [v \in Senders |-> IF v = w THEN job ELSE Repeat(work[v])]
                /\ busy' = TRUE
      /\ quit' = (dialog.kind = "quit" /\ a.says = "yes" /\ a.from.kind \in {"quit", "delete"})
      /\ hasty' = (quit' /\ a.from.kind # "quit" /\ a.why = {})
      /\ shifted' = FALSE
      /\ UNCHANGED <<daemonSide, shown, cursor, behind, inputs>>

\* RoutesRefreshed with a list, older or newer than the one that is shown.
ListArrives(w) ==
  LET v == work[w].at
  IN  /\ work[w].says = "list"
      /\ Show(v) /\ busy' = FALSE
      /\ behind' = (IF v = Now THEN {} ELSE behind) \cup (IF v < shown THEN {"overtaken"} ELSE {})
      /\ work' = [work EXCEPT ![w] = Nothing]
      /\ UNCHANGED <<daemonSide, dialog, quit, inputs, hasty>>

\* RoutesRefreshed with an error: the tab forgets its routes.
BlankArrives(w) ==
  /\ work[w].says = "blank"
  /\ Show(0) /\ busy' = FALSE
  /\ behind' = behind \cup {"failed"}
  /\ work' = [work EXCEPT ![w] = Nothing]
  /\ UNCHANGED <<daemonSide, dialog, quit, inputs, hasty>>

\* Mutant: the failure is shown and the spinner turns on.
ErrorArrivesBusy(w) ==
  /\ work[w].says = "error"
  /\ work' = [work EXCEPT ![w] = Nothing]
  /\ UNCHANGED <<daemonSide, listSide, dialog, busy, quit, inputs, hasty>>

ErrorArrives(w) ==
  /\ work[w].says = "error"
  /\ busy' = FALSE
  /\ work' = [work EXCEPT ![w] = Nothing]
  /\ UNCHANGED <<daemonSide, listSide, dialog, quit, inputs, hasty>>

-----------------------------------------------------------------------------
(* The commands' goroutines and the listener.                              *)

Tell(w, says) == work' = [work EXCEPT ![w] = [@ EXCEPT !.step = "tell", !.says = says]]
Goes(w, step) == work' = [work EXCEPT ![w].step = step]
ScreenStays == UNCHANGED <<listSide, dialog, busy, quit, hasty>>

\* The daemon changes its list; its event reaches the client's channel unless
\* the stream is down, or is not yet registered, or the hub drops it.
Publish(n, val) ==
  /\ Now < MaxVersions
  /\ versions' = Append(versions, [Routes EXCEPT ![n] = val])

EventComes == linked /\ events' = events + 1 /\ UNCHANGED behind
EventIsLost == UNCHANGED events /\ behind' = behind \cup (IF linked THEN {"lost"} ELSE {})

\* Another client: the command line, the menu bar.
OtherClient(n, val) ==
  /\ Routes[n] # val /\ Publish(n, val) /\ Input
  /\ EventComes \/ EventIsLost
  /\ UNCHANGED <<linked, work, shown, cursor, shifted, dialog, busy, quit, hasty>>

Accepted(job) == Routes[job.on] = Absent <=> job.op = "add"
NewValue(job) == IF job.op = "delete" THEN Absent ELSE job.val

\* The answer may come too late: the five seconds began before the password was
\* asked for.
CallApplies(w) ==
  /\ work[w].step = "call" /\ Accepted(work[w])
  /\ Publish(work[w].on, NewValue(work[w]))
  /\ EventComes \/ EventIsLost
  /\ \/ Goes(w, "load") /\ UNCHANGED inputs
     \/ Tell(w, "error") /\ Input
  /\ UNCHANGED <<linked, shown, cursor, shifted, dialog, busy, quit, hasty>>

\* The user refuses the helper that edits the hosts file the password, and there
\* is no request; the daemon refuses; or it cannot be asked.
CallFails(w) ==
  /\ work[w].step = "call"
  /\ \/ (work[w].op # "set" \/ ~Accepted(work[w])) /\ UNCHANGED inputs
     \/ Input
  /\ Tell(w, "error")
  /\ UNCHANGED <<versions, linked, events>> /\ ScreenStays

\* LoadRoutes: the list as it is when the daemon reads it.
Load(w) ==
  /\ work[w].step = "load"
  /\ work' = [work EXCEPT ![w] = [@ EXCEPT !.step = "tell", !.says = "list", !.at = Now]]
  /\ UNCHANGED <<daemonSide, inputs>> /\ ScreenStays

\* After a commit the failed load is an error, in RefreshNow and in the listener
\* it is a RoutesRefreshed without routes.
LoadFails(w) ==
  /\ work[w].step = "load" /\ Input
  /\ Tell(w, IF work[w].op \in Commits THEN "error" ELSE "blank")
  /\ UNCHANGED <<versions, linked, events>> /\ ScreenStays

\* SubscribeEvents takes the next event that concerns the list, loads the list
\* and waits until Update has taken it.
Listen ==
  /\ work[Listener] = Nothing /\ events > 0 /\ events' = events - 1
  /\ Start(Listener, [Nothing EXCEPT !.op = "refresh", !.step = "load"])
  /\ UNCHANGED <<versions, linked, inputs>> /\ ScreenStays

-----------------------------------------------------------------------------
(* The daemon and its stream.                                              *)

Connect ==
  /\ ~linked /\ linked' = TRUE
  /\ events' = events + 1
  /\ UNCHANGED <<versions, inputs, work>> /\ ScreenStays

Disconnect ==
  /\ linked /\ linked' = FALSE /\ Input
  /\ UNCHANGED <<versions, events, work>> /\ ScreenStays

-----------------------------------------------------------------------------
Message(w) == ClosedArrives(w) \/ ListArrives(w) \/ BlankArrives(w) \/ ErrorArrives(w)
Request(w) == CallApplies(w) \/ CallFails(w) \/ Load(w) \/ LoadFails(w)

KeyStep ==
  \/ \E kind \in {"add", "quit", "help"} : Open(kind, Absent)
  \/ \E kind \in {"edit", "delete"} : AskAbout(kind)
  \/ \E c \in 0..Cardinality(TuiNames) : MoveCursor(c)
  \/ \E w \in Cmds, val \in TuiValues : Toggle(w, val)
  \/ \E w \in Cmds : Confirm(w) \/ Dismiss(w)
  \/ \E w \in Cmds, val \in TuiValues : SubmitEdit(w, val) \/ \E on \in TuiNames : SubmitAdd(w, on, val)

DaemonChanges ==
  \/ \E n \in TuiNames, val \in TuiValues \cup {Absent} : OtherClient(n, val)
  \/ Connect \/ Disconnect

\* With the program its goroutines end.
TuiNext ==
  /\ ~quit
  /\ \/ KeyStep
     \/ \E w \in Senders : Message(w) \/ Request(w)
     \/ Listen
     \/ DaemonChanges

TuiSpec == TuiInit /\ [][TuiNext]_tuiVars

-----------------------------------------------------------------------------
(* Properties.                                                             *)

\* An answer finds the dialog that was asked, unless it is the second to it; a
\* deletion is of the route its question named, unless the rows came or went
\* under the open dialog (modal_dispatch.go:58) or the answer was a second one;
\* and nothing but the quit dialog's answer, or a second one, ends the program.
AnswersMeetTheirQuestion ==
  /\ \A w \in Senders :
       /\ work[w].op = "answer" /\ work[w].why = {} => dialog = work[w].from
       /\ work[w].op = "delete" /\ work[w].why = {} => work[w].on = work[w].from.on
  /\ ~hasty

\* The dialog asks "Delete <domain>?" (program.go:340), so the one answer it gets
\* deletes that route.
DeletesWhatItNames ==
  \A w \in Senders :
    work[w].op = "delete" /\ work[w].from.kind = "delete" /\ "repeated" \notin work[w].why
      => work[w].on = work[w].from.on

Settled == linked /\ events = 0 /\ \A w \in Senders : work[w].op \in {"none", "answer"}

\* Connected and with no list on its way, the tab shows the daemon's routes
\* unless an older list overtook a newer one, the last load failed, or an event
\* of the connected stream was lost: what changed while it was down is caught up
\* on (runtime.go:223, program.go:218).
ListIsCurrent == Settled /\ behind = {} => shown # 0 /\ versions[shown] = Routes

\* The spinner turns only while a commit is under way: no way out of a command
\* leaves it turning (commit.go, program.go:230).
SpinnerMeansWork == busy => \E w \in Senders : work[w].op \in Commits

ScreenIsCurrent == ListIsCurrent /\ SpinnerMeansWork
=============================================================================
