-------------------------------- MODULE BarLock ------------------------------
(***************************************************************************)
(* The lock file that keeps the menu bar to one instance                   *)
(* (internal/bar/lock.go), and `mkdev uninstall`'s bar.Stop                *)
(* (internal/bar/stop.go).  bar.lock is created with O_EXCL and then       *)
(* written, two steps; whoever finds it reads it, judges the pid and       *)
(* removes the file by its name, three more, and the file under that name  *)
(* may be another one by then.                                             *)
(*                                                                         *)
(* A bar is a slot with a new pid at every start.  A file is the bar that  *)
(* created it and what can be read in it.                                  *)
(***************************************************************************)
EXTENDS Naturals

CONSTANTS
  Bars,        \* slots for bar processes
  Stoppers,    \* processes that call bar.Stop
  NoFile,      \* there is no bar.lock
  Dead,        \* a pid no process has
  Foreign,     \* a pid that now belongs to another program
  MaxStarts    \* bound on starts of a bar (model only)

File == [pid : Bars \cup {Dead, Foreign}, written : BOOLEAN]

ASSUME BarLockAssumption ==
  /\ Bars \cap {NoFile, Dead, Foreign} = {} /\ Bars \cap Stoppers = {}
  /\ NoFile # Dead /\ NoFile # Foreign /\ Dead # Foreign /\ NoFile \notin File
  /\ MaxStarts \in Nat

VARIABLES
  lockfile,   \* bar.lock: NoFile, or its creator's pid and whether it is written
  bar,        \* [Bars -> the step of acquireLock and Run]
  tries,      \* [Bars -> rounds of acquireLock begun]
  stopper,    \* [Stoppers -> NoFile when idle, or the pid it has read]
  starts,     \* starts so far
  torn,       \* history: a live bar's lock was removed by somebody else
  crowded     \* history: [Bars -> did it meet another bar since its start]

barLockVars == <<lockfile, bar, tries, stopper, starts, torn, crowded>>

BarLockTypeOK ==
  /\ lockfile \in File \cup {NoFile}
  /\ bar \in [Bars -> {"off", "create", "write", "judge", "remove", "run", "quit"}]
  /\ tries \in [Bars -> 0..2]
  /\ stopper \in [Stoppers -> Bars \cup {NoFile, Dead, Foreign}]
  /\ starts \in 0..MaxStarts
  /\ torn \in BOOLEAN /\ crowded \in [Bars -> BOOLEAN]

\* The last bar may have left its lock behind.
BarLockInit ==
  /\ lockfile \in {NoFile} \cup [pid : {Dead, Foreign}, written : BOOLEAN]
  /\ bar = [b \in Bars |-> "off"] /\ tries = [b \in Bars |-> 0]
  /\ stopper = [s \in Stoppers |-> NoFile]
  /\ starts = 0 /\ torn = FALSE /\ crowded = [b \in Bars |-> FALSE]

On(b) == bar[b] # "off"
Move(b, step) == bar' = [bar EXCEPT ![b] = step]

\* Bars that are there together.
Crowd == crowded' = [b \in Bars |-> bar'[b] # "off" /\ (crowded[b] \/ \E c \in Bars \ {b} : bar'[c] # "off")]

\* The process is gone: its pid means nothing any more to one who has read it.
Ends(b) ==
  /\ Move(b, "off") /\ tries' = [tries EXCEPT ![b] = 0]
  /\ stopper' = [s \in Stoppers |-> IF stopper[s] = b THEN Dead ELSE stopper[s]]
  /\ UNCHANGED starts /\ Crowd

\* What the pid in the file is, seen from outside: empty until it is written.
\* A file that cannot be parsed is read as one whose bar is dead.
Seen == IF lockfile = NoFile \/ ~lockfile.written THEN Dead ELSE lockfile.pid

\* os.Remove(lockPath) by a process that is not its creator, or is.
Unlink(who) ==
  /\ lockfile' = NoFile
  /\ torn' = (torn \/ (lockfile # NoFile /\ lockfile.pid \in Bars \ {who}))

-----------------------------------------------------------------------------
(* acquireLock.                                                            *)

\* `mkdev bar`, by hand, at login or by SpawnIfNeeded, which looks at the lock
\* first (barLocked) and starts the process a while later.
StartBar(b) ==
  /\ ~On(b) /\ starts < MaxStarts
  /\ Move(b, "create") /\ tries' = [tries EXCEPT ![b] = 1] /\ starts' = starts + 1
  /\ UNCHANGED <<lockfile, stopper, torn>> /\ Crowd

\* Mutant: no O_EXCL.
CreateAnyway(b) ==
  /\ bar[b] = "create"
  /\ lockfile' = [pid |-> b, written |-> FALSE]
  /\ Move(b, "write")
  /\ UNCHANGED <<tries, stopper, starts, torn>> /\ Crowd

Create(b) ==
  /\ bar[b] = "create"
  /\ \/ /\ lockfile = NoFile
        /\ lockfile' = [pid |-> b, written |-> FALSE]
        /\ Move(b, "write")
     \/ /\ lockfile # NoFile
        /\ Move(b, "judge") /\ UNCHANGED lockfile
  /\ UNCHANGED <<tries, stopper, starts, torn>> /\ Crowd

\* The pid goes into the file that was created, whatever the name leads to now.
WriteLock(b) ==
  /\ bar[b] = "write"
  /\ lockfile' = IF lockfile # NoFile /\ lockfile.pid = b THEN [lockfile EXCEPT !.written = TRUE] ELSE lockfile
  /\ Move(b, "run")
  /\ UNCHANGED <<tries, stopper, starts, torn>> /\ Crowd

WriteLockFails(b) ==
  /\ bar[b] = "write"
  /\ Unlink(b) /\ Ends(b)

\* A live pid: ErrAlreadyRunning.
JudgeAlive(b) ==
  /\ bar[b] = "judge" /\ Seen # Dead
  /\ Ends(b)
  /\ UNCHANGED <<lockfile, torn>>

JudgeStale(b) ==
  /\ bar[b] = "judge" /\ Seen = Dead
  /\ Move(b, "remove")
  /\ UNCHANGED <<lockfile, tries, stopper, starts, torn>> /\ Crowd

\* Mutant: the stale file stays.
RetryOnly(b) ==
  /\ bar[b] = "remove" /\ tries[b] < 2
  /\ Move(b, "create") /\ tries' = [tries EXCEPT ![b] = @ + 1]
  /\ UNCHANGED <<lockfile, torn, stopper, starts>> /\ Crowd

RemoveStale(b) ==
  /\ bar[b] = "remove" /\ tries[b] < 2
  /\ Unlink(b)
  /\ Move(b, "create") /\ tries' = [tries EXCEPT ![b] = @ + 1]
  /\ UNCHANGED <<stopper, starts>> /\ Crowd

\* After two rounds: ErrAlreadyRunning, and the file is gone.
GiveUpLock(b) ==
  /\ bar[b] = "remove" /\ tries[b] = 2
  /\ Unlink(b) /\ Ends(b)

AcquireLock(b) ==
  \/ Create(b) \/ WriteLock(b) \/ WriteLockFails(b)
  \/ JudgeAlive(b) \/ JudgeStale(b) \/ RemoveStale(b) \/ GiveUpLock(b)

-----------------------------------------------------------------------------
(* The bar ends.                                                           *)

\* Quit, or the signal of bar.Stop.
QuitBar(b) ==
  /\ bar[b] = "run"
  /\ Move(b, "quit")
  /\ UNCHANGED <<lockfile, tries, stopper, starts, torn>> /\ Crowd

\* The deferred release removes the file by its name.
ReleaseLock(b) ==
  /\ bar[b] = "quit"
  /\ Unlink(b) /\ Ends(b)

\* Its lock stays, with a pid no process has.
CrashBar(b) ==
  /\ On(b)
  /\ lockfile' = IF lockfile # NoFile /\ lockfile.pid = b THEN [lockfile EXCEPT !.pid = Dead] ELSE lockfile
  /\ Ends(b)
  /\ UNCHANGED torn

-----------------------------------------------------------------------------
(* bar.Stop.                                                               *)

ReadPid(s) ==
  /\ stopper[s] = NoFile /\ lockfile # NoFile /\ lockfile.written
  /\ stopper' = [stopper EXCEPT ![s] = lockfile.pid]
  /\ UNCHANGED <<lockfile, bar, tries, starts, torn, crowded>>

\* No such process, or one that is no bar: the file goes.
StopClears(s) ==
  /\ stopper[s] \in {Dead, Foreign}
  /\ Unlink(s)
  /\ stopper' = [stopper EXCEPT ![s] = NoFile]
  /\ UNCHANGED <<bar, tries, starts, crowded>>

StopSignals(s) ==
  /\ stopper[s] \in Bars
  /\ bar' = [b \in Bars |-> IF b = stopper[s] /\ bar[b] = "run" THEN "quit" ELSE bar[b]]
  /\ stopper' = [stopper EXCEPT ![s] = NoFile]
  /\ UNCHANGED <<lockfile, tries, starts, torn, crowded>>

BarLockNext ==
  \/ \E b \in Bars :
       StartBar(b) \/ AcquireLock(b) \/ QuitBar(b) \/ ReleaseLock(b) \/ CrashBar(b)
  \/ \E s \in Stoppers : ReadPid(s) \/ StopClears(s) \/ StopSignals(s)

BarLockSpec == BarLockInit /\ [][BarLockNext]_barLockVars

-----------------------------------------------------------------------------
(* Properties.                                                             *)

\* README:127: two bars do not run at once, unless the lock of a live one was
\* removed: by one that read the file before its pid was in it, by one that
\* judged the file there was before, or by the release of a bar that had lost
\* its own (lock.go:25, lock.go:46).
OneBar ==
  torn \/ \A b, c \in Bars : (bar[b] = "run" /\ bar[c] = "run") => b = c

\* A bar that is turned away has met another one or a pid that belongs to
\* another program: a lock that a crash has left does not keep it out
\* (lock.go:24-50).
RefusalHasAReason ==
  [][\A b \in Bars : (JudgeAlive(b) \/ GiveUpLock(b)) =>
       crowded[b] \/ (lockfile # NoFile /\ lockfile.pid = Foreign)]_barLockVars

\* Both: the lock keeps out a second bar, and none but a second bar.
LockAdmitsOne == []OneBar /\ RefusalHasAReason
=============================================================================
