-------------------------------- MODULE Hosts --------------------------------
(***************************************************************************)
(* The hosts file and the commands that edit it: `mkdev add` and           *)
(* `mkdev remove` (internal/cli/add.go, remove.go), the TUI's two          *)
(* (internal/tui/commit.go), the syncs of `mkdev install` and of the       *)
(* upgrade, and the cleaning of `mkdev uninstall`.  Each edit is a helper  *)
(* process (internal/cli/hostshelper.go, internal/hosts) that reads the    *)
(* file, changes its copy and renames it over the file; nothing locks the  *)
(* file.  A command edits the file first, then asks the daemon, and undoes *)
(* its edit when the daemon's answer is an error.                          *)
(*                                                                         *)
(* A line of the file is the set of domains it maps; lines that map no     *)
(* route's domain are left out.                                            *)
(***************************************************************************)
EXTENDS Naturals, FiniteSets

CONSTANTS
  Domains,      \* domains of routes
  Jobs,         \* processes that run a command
  UserLines,    \* lines the user may have written before
  MaxJobs       \* bound on commands (model only)

ASSUME HostsAssumption ==
  /\ \A line \in UserLines : line \subseteq Domains /\ line # {}
  /\ MaxJobs \in Nat

VARIABLES
  file,      \* /etc/hosts
  routes,    \* the store: [Domains -> its state]
  serving,   \* the daemon is up, and has the store open
  job,       \* [Jobs -> the command]
  started,   \* commands so far
  blame      \* history: [Domains -> what may have separated route and entry]

hostsVars == <<file, routes, serving, job, started, blame>>

Single == {"add", "remove"}
Batch == {"install", "upgrade", "uninstall"}
Reason == {"user", "overlap", "lost", "line", "undo", "late", "cut", "uninstall"}
Idle == [op |-> "none", pc |-> "idle", on |-> {}, rest |-> {}, copy |-> {}, did |-> FALSE]

HostsTypeOK ==
  /\ file \subseteq SUBSET Domains
  /\ routes \in [Domains -> {"none", "on", "off"}]
  /\ serving \in BOOLEAN /\ started \in 0..MaxJobs
  /\ \A j \in Jobs :
       /\ job[j].op \in Single \cup Batch \cup {"none"}
       /\ job[j].pc \in {"idle", "read", "write", "call", "undo read", "undo write"}
       /\ job[j].on \subseteq Domains /\ job[j].rest \subseteq Domains
       /\ job[j].copy \subseteq SUBSET Domains /\ job[j].did \in BOOLEAN
       /\ job[j].pc # "idle" => Cardinality(job[j].on) = 1 /\ job[j].op # "none"
  /\ blame \in [Domains -> SUBSET Reason]

Maps(f, d) == \E line \in f : d \in line
Agrees(f, r, d) == Maps(f, d) <=> r[d] # "none"

\* Some routes, each with the entry its add has left, beside the user's lines.
HostsInit ==
  /\ routes \in [Domains -> {"none", "on", "off"}]
  /\ \E user \in SUBSET UserLines :
       file = user \cup {{d} : d \in {e \in Domains : routes[e] # "none" /\ ~Maps(user, e)}}
  /\ serving \in BOOLEAN
  /\ job = [j \in Jobs |-> Idle] /\ started = 0
  /\ blame = [d \in Domains |-> IF Agrees(file, routes, d) THEN {} ELSE {"user"}]

-----------------------------------------------------------------------------
(* AddEntry and RemoveEntry (hosts.go), and the edit a helper is run for.  *)

AddEntry(f, d) == IF Maps(f, d) THEN f ELSE f \cup {{d}}
RemoveEntry(f, d) == {line \in f : d \notin line}

Undoing(j) == job[j].pc \in {"undo read", "undo write"}
Adds(j) == (job[j].op \in {"add", "install", "upgrade"}) # Undoing(j)
Edit(j, f) ==
  LET d == CHOOSE d \in Domains : d \in job[j].on
  IN  IF Adds(j) THEN AddEntry(f, d) ELSE RemoveEntry(f, d)

-----------------------------------------------------------------------------
(* The reasons an entry and its route may part.                            *)

\* When the last command has ended, what agrees again needs no reason.
Blame(why) ==
  blame' = [d \in Domains |->
              IF (\A j \in Jobs : job'[j].pc = "idle") /\ Agrees(file', routes', d) THEN {}
              ELSE blame[d] \cup why[d]]

Because(ds, reason) == [d \in Domains |-> IF d \in ds THEN {reason} ELSE {}]
Settle == Blame(Because({}, "cut"))
BlameFor(j, reason) == Blame(Because(job[j].on, reason))

-----------------------------------------------------------------------------
(* A command starts.                                                       *)

About(j) == job[j].on \cup job[j].rest

\* If another command is at work on one of the domains, what the two leave
\* behind depends on their order.
Begin(j, op, d, rest) ==
  /\ job[j].pc = "idle" /\ started < MaxJobs
  /\ started' = started + 1
  /\ job' = [job EXCEPT ![j] = [Idle EXCEPT !.op = op, !.pc = "read", !.on = {d}, !.rest = rest]]
  /\ UNCHANGED <<file, routes, serving>>
  /\ Blame(Because({e \in rest \cup {d} : \E k \in Jobs \ {j} : e \in About(k)}, "overlap"))

\* `mkdev add` and `mkdev remove` begin with the daemon's status.
BeginAdd(j, d) == serving /\ Begin(j, "add", d, {})
BeginRemove(j, d) == serving /\ Begin(j, "remove", d, {})

\* The TUI's two do not ask.
BeginCommitAdd(j, d) == Begin(j, "add", d, {})
BeginCommitDelete(j, d) == Begin(j, "remove", d, {})

BeginSingle(j, d) == BeginAdd(j, d) \/ BeginRemove(j, d) \/ BeginCommitAdd(j, d) \/ BeginCommitDelete(j, d)

HoldsStore(j) == job[j].op \in {"install", "uninstall"}

\* The domains of a batch: those of enabled routes for the install, of those
\* that are not mapped for the upgrade, of all routes for the uninstall.
BatchOf(op) ==
  {d \in Domains :
     CASE op = "install" -> routes[d] = "on"
       [] op = "upgrade" -> routes[d] = "on" /\ ~Maps(file, d)
       [] op = "uninstall" -> routes[d] # "none"}

\* syncHostsFromStore, missingHosts and the cleaning of the uninstall list the
\* routes from the store; the upgrade closes it before its first edit, the
\* other two keep it open.  None does anything while the daemon has it.
BeginBatch(j, op) ==
  /\ op \in Batch /\ BatchOf(op) # {}
  /\ ~serving /\ \A k \in Jobs : ~HoldsStore(k)
  /\ LET d == CHOOSE d \in BatchOf(op) : TRUE IN Begin(j, op, d, BatchOf(op) \ {d})

-----------------------------------------------------------------------------
(* The helper.                                                             *)

\* What comes after a helper: the request of a single command, the next domain
\* of a batch, the end.
After(j) ==
  LET next == CHOOSE d \in job[j].rest : TRUE
  IN  CASE job[j].op \in Single /\ ~Undoing(j) -> [job[j] EXCEPT !.pc = "call", !.copy = {}]
        [] job[j].rest # {} -> [job[j] EXCEPT !.pc = "read", !.on = {next}, !.rest = @ \ {next}, !.copy = {}]
        [] OTHER -> Idle

\* It reads the file, and ends here when its copy needs no change.
ReadHosts(j) ==
  /\ job[j].pc \in {"read", "undo read"}
  /\ job' = [job EXCEPT ![j] =
               IF Edit(j, file) = file THEN After(j)
               ELSE [@ EXCEPT !.copy = file, !.pc = IF Undoing(j) THEN "undo write" ELSE "write"]]
  /\ UNCHANGED <<file, routes, serving, started>>
  /\ Settle

\* The rename, whatever the file has become since the read.
WriteHosts(j) ==
  LET copy == job[j].copy
      next == Edit(j, copy)
      own  == CASE job[j].op = "uninstall" -> {"uninstall"}
                [] Undoing(j) /\ ~job[j].did -> {"undo"}
                [] OTHER -> {}
      others(d) == {r \in {"lost", "line"} :
                      \/ r = "lost" /\ Maps(file, d) # Maps(copy, d)
                      \/ r = "line" /\ Maps(copy, d) # Maps(next, d)}
  IN  /\ job[j].pc \in {"write", "undo write"}
      /\ file' = next
      /\ job' = [job EXCEPT ![j] = [After(j) EXCEPT !.did = job[j].op \in Single /\ ~Undoing(j)]]
      /\ UNCHANGED <<routes, serving, started>>
      /\ Blame([d \in Domains |-> IF d \in job[j].on THEN own ELSE others(d)])

\* The helper fails (no password, a bad domain or binary, a full disk) and the
\* file stays as it is.  A single command ends here, before its request or
\* with its undo undone; a batch goes on.
HelperFails(j) ==
  /\ job[j].pc \in {"read", "write", "undo read", "undo write"}
  /\ job' = [job EXCEPT ![j] = IF job[j].op \in Single THEN Idle ELSE After(j)]
  /\ UNCHANGED <<file, routes, serving, started>>
  /\ IF Undoing(j) THEN BlameFor(j, "cut") ELSE Settle

-----------------------------------------------------------------------------
(* The request of a single command.                                        *)

\* The daemon refuses to add what is there and to remove what is not.
Legal(j, d) == job[j].op = "add" <=> routes[d] = "none"

Apply(j) ==
  /\ job[j].pc = "call" /\ serving
  /\ \E d \in job[j].on :
       /\ Legal(j, d)
       /\ routes' = [routes EXCEPT ![d] = IF job[j].op = "add" THEN "on" ELSE "none"]
  /\ UNCHANGED <<file, serving, started>>

Answered(j) == Apply(j) /\ job' = [job EXCEPT ![j] = Idle] /\ Settle

\* The route changes but the client's 5 seconds, which began before the sudo
\* prompt, are over before the answer comes.
AnswerLate(j) ==
  /\ Apply(j)
  /\ job' = [job EXCEPT ![j].pc = "undo read"]
  /\ BlameFor(j, "late")

\* Mutant: the command ends without undoing its edit.
RequestFailsForGood(j) ==
  /\ job[j].pc = "call"
  /\ job' = [job EXCEPT ![j] = Idle]
  /\ UNCHANGED <<file, routes, serving, started>>
  /\ Settle

\* Refused, or the daemon is not there, or the 5 seconds are over already.
RequestFails(j) ==
  /\ job[j].pc = "call"
  /\ job' = [job EXCEPT ![j].pc = "undo read"]
  /\ UNCHANGED <<file, routes, serving, started>>
  /\ Settle

\* The user interrupts the command, or closes its terminal.
Interrupt(j) ==
  /\ job[j].pc # "idle"
  /\ job' = [job EXCEPT ![j] = Idle]
  /\ UNCHANGED <<file, routes, serving, started>>
  /\ IF job[j].op \in Single THEN BlameFor(j, "cut") ELSE Settle

-----------------------------------------------------------------------------
(* The daemon.                                                             *)

ServeOrStop ==
  /\ serving \/ \A j \in Jobs : ~HoldsStore(j)
  /\ serving' = ~serving
  /\ UNCHANGED <<file, routes, job, started, blame>>

\* A route is enabled or disabled: nothing edits the file for that.
ToggleRoute(d) ==
  /\ serving /\ routes[d] # "none"
  /\ routes' = [routes EXCEPT ![d] = IF @ = "on" THEN "off" ELSE "on"]
  /\ UNCHANGED <<file, serving, job, started, blame>>

HelperStep(j) == ReadHosts(j) \/ WriteHosts(j) \/ HelperFails(j)
CallStep(j) == Answered(j) \/ AnswerLate(j) \/ RequestFails(j)

HostsNext ==
  \/ \E j \in Jobs :
       \/ \E d \in Domains : BeginSingle(j, d)
       \/ \E op \in Batch : BeginBatch(j, op)
       \/ HelperStep(j) \/ CallStep(j) \/ Interrupt(j)
  \/ ServeOrStop
  \/ \E d \in Domains : ToggleRoute(d)

HostsSpec == HostsInit /\ [][HostsNext]_hostsVars

-----------------------------------------------------------------------------
(* Properties.                                                             *)

\* When no command is at work, the domain of a route is mapped and no other
\* domain is, unless one of these came between: the user's own line, two
\* commands on the same domain, a rename that undid another helper's
\* (hostshelper.go:36-44), a line of the user that mapped two domains and went
\* with one, an undo that took back or put back an entry the command had found
\* so (add.go:75, remove.go:64), an answer that came after the timeout, a
\* command cut off half-way or whose undo failed, or an uninstall.
HostsFollowRoutes ==
  (\A j \in Jobs : job[j].pc = "idle") =>
    \A d \in Domains : Agrees(file, routes, d) \/ blame[d] # {}
=============================================================================
