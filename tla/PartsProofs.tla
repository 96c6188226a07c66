----------------------------- MODULE PartsProofs -----------------------------
(***************************************************************************)
(* What holds, for all their constants, of what works beside the daemon or *)
(* keeps to itself: the lock of the menu bar, install and uninstall, the   *)
(* hosts file, the terminal UI, the statistics of the proxy; and of the    *)
(* five together.                                                          *)
(***************************************************************************)
EXTENDS MCParts, FiniteSetTheorems, TLAPS

-----------------------------------------------------------------------------
(* The lock of the menu bar.                                               *)

\* What a written, an abandoned and a fresh lock file are.
LEMMA Files ==
  /\ \A b \in Bars : /\ [pid |-> b, written |-> FALSE] \in File \ {NoFile}
                     /\ [pid |-> b, written |-> FALSE].pid = b
  /\ \A p \in {Dead, Foreign}, w \in BOOLEAN : [pid |-> p, written |-> w] \in File
  /\ \A f \in File :
       /\ f # NoFile /\ f.pid \in Bars \cup {Dead, Foreign} /\ f.written \in BOOLEAN
       /\ [f EXCEPT !.written = TRUE] \in File \ {NoFile} /\ [f EXCEPT !.written = TRUE].pid = f.pid
       /\ [f EXCEPT !.pid = Dead] \in File \ {NoFile} /\ [f EXCEPT !.pid = Dead].pid = Dead
<1>1. \A b \in Bars : [pid |-> b, written |-> FALSE] \in File /\ [pid |-> b, written |-> FALSE].pid = b
  BY DEF File
<1>2. \A p \in {Dead, Foreign}, w \in BOOLEAN : [pid |-> p, written |-> w] \in File
  BY DEF File
<1>3. ASSUME NEW f \in File
      PROVE  /\ f.pid \in Bars \cup {Dead, Foreign} /\ f.written \in BOOLEAN
             /\ [f EXCEPT !.written = TRUE] \in File /\ [f EXCEPT !.written = TRUE].pid = f.pid
             /\ [f EXCEPT !.pid = Dead] \in File /\ [f EXCEPT !.pid = Dead].pid = Dead
  BY DEF File
<1> QED BY <1>1, <1>2, <1>3, BarLockAssumption

\* Every variable of the lock has its type.
THEOREM BarLockTypeCorrect == BarLockSpec => []BarLockTypeOK
<1>1. BarLockInit => BarLockTypeOK
  <2> SUFFICES ASSUME BarLockInit PROVE BarLockTypeOK
    OBVIOUS
  <2>1. lockfile \in File \cup {NoFile}
    <3>1. lockfile \in [pid : {Dead, Foreign}, written : BOOLEAN] => lockfile \in File
      BY DEF File
    <3> QED BY <3>1 DEF BarLockInit
  <2>2. starts \in 0..MaxStarts /\ \A b \in Bars : tries[b] \in 0..2
    BY BarLockAssumption DEF BarLockInit
  <2> QED BY <2>1, <2>2 DEF BarLockInit, BarLockTypeOK
<1>2. BarLockTypeOK /\ [BarLockNext]_barLockVars => BarLockTypeOK'
  <2> SUFFICES ASSUME BarLockTypeOK, [BarLockNext]_barLockVars PROVE BarLockTypeOK'
    OBVIOUS
  <2>1. Crowd => crowded' \in [Bars -> BOOLEAN]
    <3> DEFINE meets(b) == bar'[b] # "off" /\ (crowded[b] \/ \E c \in Bars \ {b} : bar'[c] # "off")
    <3>1. \A b \in Bars : meets(b) \in BOOLEAN
      OBVIOUS
    <3> HIDE DEF meets
    <3>2. [b \in Bars |-> meets(b)] \in [Bars -> BOOLEAN]
      BY <3>1
    <3> QED BY <3>2 DEF Crowd, meets
  <2>2. ASSUME NEW w, Unlink(w) PROVE lockfile' \in File \cup {NoFile} /\ torn' \in BOOLEAN
    <3>1. (torn \/ (lockfile # NoFile /\ lockfile.pid \in Bars \ {w})) \in BOOLEAN
      OBVIOUS
    <3> QED BY <2>2, <3>1, Zenon DEF Unlink
  <2> USE DEF BarLockTypeOK, Move
  <2>3. ASSUME NEW b \in Bars, Ends(b)
        PROVE  /\ bar' \in [Bars -> {"off", "create", "write", "judge", "remove", "run", "quit"}]
               /\ tries' \in [Bars -> 0..2] /\ stopper' \in [Stoppers -> Bars \cup {NoFile, Dead, Foreign}]
               /\ starts' \in 0..MaxStarts /\ crowded' \in [Bars -> BOOLEAN]
    BY <2>1, <2>3 DEF Ends
  <2>4. ASSUME NEW b \in Bars, StartBar(b) PROVE BarLockTypeOK'
    BY <2>1, <2>4, BarLockAssumption DEF StartBar
  <2>5. ASSUME NEW b \in Bars, Create(b) \/ WriteLock(b) PROVE BarLockTypeOK'
    <3>1. lockfile' \in File \cup {NoFile}
      <4>1. CASE Create(b)
        BY <4>1, Files DEF Create
      <4>2. CASE WriteLock(b)
        BY <4>2, Files DEF WriteLock
      <4> QED BY <2>5, <4>1, <4>2
    <3> QED BY <2>1, <2>5, <3>1 DEF Create, WriteLock
  <2>6. ASSUME NEW b \in Bars, WriteLockFails(b) \/ ReleaseLock(b) \/ GiveUpLock(b) PROVE BarLockTypeOK'
    BY <2>2, <2>3, <2>6 DEF WriteLockFails, ReleaseLock, GiveUpLock
  <2>7. ASSUME NEW b \in Bars, JudgeAlive(b) PROVE BarLockTypeOK'
    BY <2>3, <2>7 DEF JudgeAlive
  <2>8. ASSUME NEW b \in Bars, JudgeStale(b) \/ QuitBar(b) PROVE BarLockTypeOK'
    BY <2>1, <2>8 DEF JudgeStale, QuitBar
  <2>9. ASSUME NEW b \in Bars, RemoveStale(b) PROVE BarLockTypeOK'
    <3>1. tries' \in [Bars -> 0..2]
      BY <2>9 DEF RemoveStale
    <3> QED BY <2>1, <2>2, <2>9, <3>1 DEF RemoveStale
  <2>10. ASSUME NEW b \in Bars, CrashBar(b) PROVE BarLockTypeOK'
    <3>1. lockfile' \in File \cup {NoFile}
      BY <2>10, Files DEF CrashBar
    <3> QED BY <2>3, <2>10, <3>1 DEF CrashBar
  <2>11. ASSUME NEW s \in Stoppers, ReadPid(s) PROVE BarLockTypeOK'
    <3>1. lockfile.pid \in Bars \cup {Dead, Foreign}
      BY <2>11, Files DEF ReadPid
    <3> QED BY <2>11, <3>1 DEF ReadPid
  <2>12. ASSUME NEW s \in Stoppers, StopClears(s) PROVE BarLockTypeOK'
    BY <2>2, <2>12 DEF StopClears
  <2>13. ASSUME NEW s \in Stoppers, StopSignals(s) PROVE BarLockTypeOK'
    BY <2>13 DEF StopSignals
  <2>14. CASE UNCHANGED barLockVars
    BY <2>14 DEF barLockVars
  <2> QED BY <2>4, <2>5, <2>6, <2>7, <2>8, <2>9, <2>10, <2>11, <2>12, <2>13, <2>14
          DEF BarLockNext, AcquireLock
<1> QED BY <1>1, <1>2, PTL DEF BarLockSpec

\* Until a live bar's lock is torn away, whoever has created the file and is
\* still there owns it.
HoldersOwn ==
  ~torn => \A b \in Bars : bar[b] \in {"write", "run", "quit"} => lockfile # NoFile /\ lockfile.pid = b

\* A pid in the file is that of a bar that has created it and is still there.
OwnersHold ==
  \A b \in Bars : lockfile # NoFile /\ lockfile.pid = b => bar[b] \in {"write", "run", "quit"}

\* Bars that are there together know it.
MeetingIsNoted == \A b, c \in Bars : b # c /\ On(b) /\ On(c) => crowded[b]

\* Whoever is alone finds no file when it comes back from having removed one.
SecondTryIsFree ==
  \A b \in Bars :
    /\ bar[b] \in {"judge", "remove"} /\ tries[b] = 2 => crowded[b]
    /\ bar[b] = "create" /\ tries[b] = 2 /\ ~crowded[b] => lockfile = NoFile

LockInv == HoldersOwn /\ OwnersHold /\ MeetingIsNoted /\ SecondTryIsFree

\* The lock's invariant holds at the start.
LEMMA LockInvInit == BarLockInit => LockInv
<1> SUFFICES ASSUME BarLockInit PROVE LockInv
  OBVIOUS
<1>1. OwnersHold
  <2> SUFFICES ASSUME NEW b \in Bars, lockfile # NoFile, lockfile.pid = b PROVE FALSE
    BY DEF OwnersHold
  <2>1. lockfile \in [pid : {Dead, Foreign}, written : BOOLEAN]
    BY DEF BarLockInit
  <2> QED BY <2>1, BarLockAssumption
<1> QED BY <1>1 DEF BarLockInit, LockInv, HoldersOwn, MeetingIsNoted, SecondTryIsFree, On

\* Unlink tears a lock unless it is the one of who unlinks.
LEMMA UnlinkKeeps ==
  ASSUME BarLockTypeOK, LockInv, NEW w, Unlink(w)
  PROVE  /\ lockfile' = NoFile
         /\ ~torn' => ~torn /\ \A c \in Bars \ {w} : bar[c] \notin {"write", "run", "quit"}
BY Files DEF Unlink, LockInv, HoldersOwn, BarLockTypeOK

\* A bar's step.  Only this bar moves, so the others' part of the invariant is
\* a matter of the file.
LEMMA BarStepKeeps ==
  ASSUME BarLockTypeOK, LockInv, NEW b \in Bars,
         StartBar(b) \/ AcquireLock(b) \/ QuitBar(b) \/ ReleaseLock(b) \/ CrashBar(b)
  PROVE  LockInv'
<1> USE DEF Move
<1>1. /\ \A c \in Bars \ {b} : bar'[c] = bar[c] /\ tries'[c] = tries[c]
      /\ \A c \in Bars : crowded'[c] <=>
           bar'[c] # "off" /\ (crowded[c] \/ \E d \in Bars \ {c} : bar'[d] # "off")
  BY DEF StartBar, AcquireLock, Create, WriteLock, WriteLockFails, JudgeAlive, JudgeStale,
         RemoveStale, GiveUpLock, QuitBar, ReleaseLock, CrashBar, Ends, Crowd, BarLockTypeOK
<1>2. MeetingIsNoted'
  BY <1>1 DEF MeetingIsNoted, On
<1>3. SecondTryIsFree'
  <2>1. ASSUME NEW c \in Bars \ {b}, bar'[c] # "off", bar[b] # "off" \/ bar'[b] # "off"
        PROVE  crowded'[c]
    BY <1>1, <2>1 DEF LockInv, MeetingIsNoted, On
  <2>2. bar[b] # "off" \/ bar'[b] # "off"
    BY DEF StartBar, AcquireLock, Create, WriteLock, WriteLockFails, JudgeAlive, JudgeStale,
           RemoveStale, GiveUpLock, QuitBar, ReleaseLock, CrashBar, BarLockTypeOK, On
  <2>3. /\ bar'[b] \in {"judge", "remove"} /\ tries'[b] = 2 => crowded'[b]
        /\ bar'[b] = "create" /\ tries'[b] = 2 /\ ~crowded'[b] => lockfile' = NoFile
    <3>1. CASE StartBar(b)
      BY <3>1 DEF StartBar, BarLockTypeOK
    <3>2. CASE Create(b)
      <4>1. bar'[b] \in {"write", "judge"} /\ tries' = tries
        BY <3>2 DEF Create, BarLockTypeOK
      <4>2. bar'[b] = "judge" /\ tries[b] = 2 => crowded[b]
        BY <3>2 DEF Create, BarLockTypeOK, LockInv, SecondTryIsFree
      <4> QED BY <1>1, <4>1, <4>2
    <3>3. CASE WriteLock(b) \/ QuitBar(b) \/ WriteLockFails(b) \/ ReleaseLock(b) \/ GiveUpLock(b)
               \/ JudgeAlive(b) \/ CrashBar(b)
      BY <3>3 DEF WriteLock, QuitBar, WriteLockFails, ReleaseLock, GiveUpLock, JudgeAlive, CrashBar,
                  Ends, BarLockTypeOK
    <3>4. CASE JudgeStale(b)
      BY <1>1, <3>4 DEF JudgeStale, BarLockTypeOK, LockInv, SecondTryIsFree
    <3>5. CASE RemoveStale(b)
      BY <3>5 DEF RemoveStale, Unlink, BarLockTypeOK
    <3> QED BY <3>1, <3>2, <3>3, <3>4, <3>5 DEF AcquireLock
  <2> QED BY <2>1, <2>2, <2>3 DEF SecondTryIsFree
<1>4. OwnersHold' /\ HoldersOwn'
  <2>1. CASE StartBar(b) \/ JudgeStale(b) \/ JudgeAlive(b)
    <3>1. /\ lockfile' = lockfile /\ torn' = torn
          /\ bar[b] \in {"off", "judge"} /\ bar'[b] \in {"create", "remove", "off"}
      BY <2>1 DEF StartBar, JudgeStale, JudgeAlive, Ends, BarLockTypeOK, On
    <3> QED BY <1>1, <3>1 DEF LockInv, HoldersOwn, OwnersHold
  <2>2. CASE Create(b)
    <3>1. CASE /\ lockfile = NoFile /\ lockfile' = [pid |-> b, written |-> FALSE]
               /\ bar' = [bar EXCEPT ![b] = "write"]
      <4>1. lockfile' # NoFile /\ lockfile'.pid = b /\ bar'[b] = "write" /\ torn' = torn
        BY <2>2, <3>1, Files DEF Create, BarLockTypeOK
      <4> QED BY <1>1, <3>1, <4>1 DEF LockInv, HoldersOwn, OwnersHold
    <3>2. CASE lockfile' = lockfile /\ bar' = [bar EXCEPT ![b] = "judge"]
      <4>1. bar[b] = "create" /\ bar'[b] = "judge" /\ torn' = torn
        BY <2>2, <3>2 DEF Create, BarLockTypeOK
      <4> QED BY <1>1, <3>2, <4>1 DEF LockInv, HoldersOwn, OwnersHold
    <3> QED BY <2>2, <3>1, <3>2 DEF Create
  <2>3. CASE WriteLock(b) \/ QuitBar(b)
    <3>1. /\ bar[b] \in {"write", "run"} /\ bar'[b] \in {"run", "quit"} /\ torn' = torn
          /\ lockfile' = lockfile \/ (lockfile # NoFile /\ lockfile' = [lockfile EXCEPT !.written = TRUE])
      BY <2>3 DEF WriteLock, QuitBar, BarLockTypeOK
    <3>2. (lockfile' = NoFile <=> lockfile = NoFile) /\ (lockfile # NoFile => lockfile'.pid = lockfile.pid)
      BY <3>1, Files DEF BarLockTypeOK
    <3> QED BY <1>1, <3>1, <3>2 DEF LockInv, HoldersOwn, OwnersHold
  <2>4. CASE WriteLockFails(b) \/ ReleaseLock(b) \/ GiveUpLock(b) \/ RemoveStale(b)
    <3>1. Unlink(b) /\ bar'[b] \in {"off", "create"}
      BY <2>4 DEF WriteLockFails, ReleaseLock, GiveUpLock, RemoveStale, Ends, BarLockTypeOK
    <3> QED BY <1>1, <3>1, UnlinkKeeps DEF HoldersOwn, OwnersHold
  <2>5. CASE CrashBar(b)
    <3>1. /\ torn' = torn /\ bar'[b] = "off"
          /\ lockfile' = IF lockfile # NoFile /\ lockfile.pid = b THEN [lockfile EXCEPT !.pid = Dead] ELSE lockfile
      BY <2>5 DEF CrashBar, Ends, BarLockTypeOK
    <3>2. CASE lockfile # NoFile /\ lockfile.pid = b
      <4>1. lockfile'.pid = Dead /\ Dead \notin Bars
        BY <3>1, <3>2, Files, BarLockAssumption DEF BarLockTypeOK
      <4> QED BY <1>1, <3>1, <3>2, <4>1 DEF LockInv, HoldersOwn, OwnersHold
    <3>3. CASE ~(lockfile # NoFile /\ lockfile.pid = b)
      BY <1>1, <3>1, <3>3 DEF LockInv, HoldersOwn, OwnersHold
    <3> QED BY <3>2, <3>3
  <2> QED BY <2>1, <2>2, <2>3, <2>4, <2>5 DEF AcquireLock
<1> QED BY <1>2, <1>3, <1>4 DEF LockInv

\* bar.Stop moves bars only from running to quitting, and the file away.
LEMMA StopStepKeeps ==
  ASSUME BarLockTypeOK, LockInv, NEW s \in Stoppers, ReadPid(s) \/ StopClears(s) \/ StopSignals(s)
  PROVE  LockInv'
<1>1. /\ tries' = tries /\ crowded' = crowded
      /\ \A b \in Bars : bar'[b] = bar[b] \/ (bar[b] = "run" /\ bar'[b] = "quit")
      /\ (lockfile' = lockfile /\ torn' = torn) \/ Unlink(s)
  BY DEF ReadPid, StopClears, StopSignals, BarLockTypeOK
<1>2. Unlink(s) => /\ lockfile' = NoFile
                   /\ ~torn' => ~torn /\ \A c \in Bars : bar[c] \notin {"write", "run", "quit"}
  BY UnlinkKeeps, BarLockAssumption
<1>3. MeetingIsNoted' /\ SecondTryIsFree'
  BY <1>1, <1>2 DEF LockInv, MeetingIsNoted, SecondTryIsFree, On
<1>4. OwnersHold' /\ HoldersOwn'
  BY <1>1, <1>2 DEF LockInv, HoldersOwn, OwnersHold
<1> QED BY <1>3, <1>4 DEF LockInv

\* The lock's invariant: a pid in the file is that of the bar that created it, for
\* as long as it is there and nobody has torn its lock away; bars that are there
\* together know it; and who is alone finds no file on its second try.
THEOREM LockInvCorrect == BarLockSpec => []LockInv
<1>1. BarLockTypeOK /\ LockInv /\ [BarLockNext]_barLockVars => LockInv'
  <2>1. LockInv /\ UNCHANGED barLockVars => LockInv'
    BY DEF barLockVars, LockInv, HoldersOwn, OwnersHold, MeetingIsNoted, SecondTryIsFree, On
  <2> QED BY <2>1, BarStepKeeps, StopStepKeeps DEF BarLockNext
<1> QED BY <1>1, LockInvInit, BarLockTypeCorrect, PTL DEF BarLockSpec

\* Whatever the interleaving of starts, stops and crashes of any number of bars:
\* two run at once only if somebody has removed a live one's lock, and a bar is
\* turned away only by another one or by a pid that now is another program's.
THEOREM LockAdmitsOneCorrect == BarLockSpec => LockAdmitsOne
<1>1. LockInv => OneBar
  BY DEF LockInv, HoldersOwn, OneBar
<1>2. BarLockTypeOK /\ LockInv /\ [BarLockNext]_barLockVars =>
        [\A b \in Bars : (JudgeAlive(b) \/ GiveUpLock(b)) =>
           crowded[b] \/ (lockfile # NoFile /\ lockfile.pid = Foreign)]_barLockVars
  <2> SUFFICES ASSUME BarLockTypeOK, LockInv, NEW b \in Bars, JudgeAlive(b) \/ GiveUpLock(b)
               PROVE  crowded[b] \/ (lockfile # NoFile /\ lockfile.pid = Foreign)
    OBVIOUS
  <2>1. CASE JudgeAlive(b)
    <3>1. bar[b] = "judge" /\ lockfile # NoFile /\ lockfile.pid # Dead
      BY <2>1 DEF JudgeAlive, Seen
    <3>2. lockfile.pid \in Bars \cup {Foreign}
      BY <3>1, Files DEF BarLockTypeOK
    <3>3. CASE lockfile.pid \in Bars
      BY <3>1, <3>3 DEF LockInv, OwnersHold, MeetingIsNoted, On
    <3> QED BY <3>1, <3>2, <3>3
  <2>2. CASE GiveUpLock(b)
    BY <2>2 DEF GiveUpLock, LockInv, SecondTryIsFree
  <2> QED BY <2>1, <2>2
<1>3. BarLockSpec => []OneBar
  BY <1>1, LockInvCorrect, PTL
<1>4. BarLockSpec => RefusalHasAReason
  BY <1>2, BarLockTypeCorrect, LockInvCorrect, PTL DEF BarLockSpec, RefusalHasAReason
<1> QED BY <1>3, <1>4 DEF LockAdmitsOne


-----------------------------------------------------------------------------
(* Install, upgrade and uninstall.  What a command has seen or done is so   *)
(* until it ends, for one command runs at a time; the daemon beside it      *)
(* changes the unit and the entry only.                                     *)

\* The steps of each command.
Places ==
  /\ cmd.name = "install" =>
       cmd.pc \in {"ca", "key", "check", "trust", "update", "unit", "enable", "auto", "marker"}
  /\ cmd.name = "upgrade" =>
       cmd.pc \in {"unit", "auto", "check", "trust", "update", "marker", "pending"}
  /\ cmd.name = "uninstall" =>
       cmd.pc \in {"disable", "remove unit", "remove auto", "untrust", "update", "purge", "wipe"}
  /\ cmd.name # "none" => last = "none"

\* A key is the key of the certificate beside it, or has lost its own, and only a
\* CA with a key becomes trusted.
CAInv ==
  /\ caKey \in {0, caCert} \/ orphan
  /\ orphan => caKey # 0
  /\ cmd.name = "install" /\ cmd.pc # "ca" => caCert # 0
  /\ cmd.name = "install" /\ cmd.pc \notin {"ca", "key"} => caKey # 0
  /\ cmd.name = "upgrade" /\ cmd.pc \in {"trust", "update"} => caCert # 0 /\ caKey # 0

\* Entry and trust agree but for the CAs noted, and no CA is trusted but the
\* one of the home directory and those noted.
TrustInv ==
  /\ \A ca \in CAs : ca \in loose \/ (ca \in stored <=> ca \in trusted)
  /\ trusted \subseteq loose \cup (IF caKey # 0 THEN {caCert} ELSE {})
  /\ os = "linux" => \A a, b \in stored : a = b
  /\ cmd.pc = "update" =>
       /\ os = "linux"
       /\ IF cmd.name = "uninstall" THEN stored = {} /\ trusted \subseteq loose ELSE stored = {caCert}

\* What the commands have brought about by the step they are at.
InstallInv ==
  /\ cmd.name = "install" /\ cmd.pc \in {"unit", "enable", "auto", "marker"}
       => caCert \in trusted \cup loose
  /\ cmd.name = "upgrade" /\ cmd.pc = "marker" /\ caCert # 0 /\ caKey # 0 => caCert \in trusted \cup loose
  /\ cmd.name = "upgrade" /\ cmd.pc = "pending" => trouble

UninstallInv ==
  /\ cmd.name = "uninstall" /\ ~trouble =>
       /\ cmd.pc # "disable" => daemon # "unit"
       /\ cmd.pc \notin {"disable", "remove unit"} => unit = 0
       /\ cmd.pc \notin {"disable", "remove unit", "remove auto"} => auto = 0
  /\ cmd.name = "uninstall" /\ cmd.pc \in {"purge", "wipe"} => trusted \subseteq loose
  /\ last = "uninstall" => trusted \subseteq loose

SetupInv ==
  /\ Places /\ CAInv /\ TrustInv /\ InstallInv /\ UninstallInv
  /\ TrustAfterSetup /\ UninstallIsComplete

\* Where a command goes, and what a name and a step say of it.
LEMMA CmdFacts ==
  ASSUME cmd \in [name : Commands, pc : Steps] \cup {AtRest}
  PROVE  /\ cmd = AtRest <=> cmd.name = "none"
         /\ cmd = AtRest => cmd.name = "none" /\ cmd.pc = "idle"
         /\ cmd # AtRest => cmd.name \in Commands /\ cmd.pc \in Steps
         /\ cmd.pc \in Steps => cmd # AtRest
<1>1. CASE cmd = AtRest
  BY <1>1 DEF AtRest, Steps
<1>2. CASE cmd \in [name : Commands, pc : Steps]
  <2>1. cmd.name \in Commands /\ cmd.pc \in Steps
    BY <1>2
  <2>2. cmd.name # "none"
    BY <2>1 DEF Commands
  <2>3. AtRest.name = "none"
    BY DEF AtRest
  <2> QED BY <2>1, <2>2, <2>3
<1> QED BY <1>1, <1>2

\* Where the command is.
LEMMA AtFacts ==
  ASSUME NEW n, NEW s, At(n, s)
  PROVE  cmd.name = n /\ cmd.pc = s
BY DEF At

\* A command goes on to its next step.
LEMMA GotoFacts ==
  ASSUME cmd \in [name : Commands, pc : Steps] \cup {AtRest}, cmd.pc \in Steps,
         NEW s \in Steps, Goto(s)
  PROVE  /\ cmd' \in [name : Commands, pc : Steps] \cup {AtRest}
         /\ cmd'.name = cmd.name /\ cmd'.pc = s
         /\ cmd # AtRest /\ UNCHANGED <<last, commands>>
<1>1. cmd # AtRest
  BY CmdFacts
<1> QED BY <1>1 DEF Goto

\* A command ends or gives up.
LEMMA EndFacts ==
  /\ End => cmd' = AtRest /\ last' = cmd.name /\ UNCHANGED commands
  /\ Abort => cmd' = AtRest /\ last' = "none" /\ UNCHANGED commands
  /\ AtRest.name = "none" /\ AtRest.pc = "idle"
BY DEF End, Abort, AtRest

\* A command begins at one of its steps.
LEMMA BeginFacts ==
  ASSUME NEW n \in Commands, NEW s \in Steps, BeginCommand(n, s)
  PROVE  /\ cmd' \in [name : Commands, pc : Steps] /\ cmd'.name = n /\ cmd'.pc = s
         /\ cmd = AtRest /\ last' = "none" /\ trouble' = FALSE /\ UNCHANGED faults
         /\ commands < MaxCommands /\ commands' = commands + 1
BY DEF BeginCommand

CmdTypeOK ==
  /\ cmd \in [name : Commands, pc : Steps] \cup {AtRest}
  /\ last \in Commands \cup {"none"}
  /\ commands \in 0..MaxCommands /\ faults \in 0..MaxFaults /\ trouble \in BOOLEAN

ThingsTypeOK ==
  /\ os \in Systems /\ binary \in Versions
  /\ caCert \in 0..MaxCAs /\ caKey \in 0..MaxCAs /\ made \in 0..MaxCAs /\ orphan \in BOOLEAN
  /\ stored \subseteq CAs /\ trusted \subseteq CAs /\ loose \subseteq CAs
  /\ unit \in {0} \cup Versions /\ auto \in {0} \cup Versions /\ marker \in {0} \cup Versions
  /\ pending \in BOOLEAN
  /\ daemon \in {"no", "unit", "hand"}

\* Faults are counted up to their bound.
LEMMA CountFacts ==
  ASSUME CmdTypeOK, NoFault \/ Fault
  PROVE  faults' \in 0..MaxFaults /\ trouble' \in BOOLEAN
<1>1. CASE NoFault
  BY <1>1 DEF CmdTypeOK, NoFault
<1>2. CASE Fault
  <2>1. faults \in 0..MaxFaults /\ MaxFaults \in Nat /\ faults < MaxFaults
    BY <1>2, SetupAssumption DEF CmdTypeOK, Fault
  <2>2. faults + 1 \in 0..MaxFaults
    BY <2>1
  <2> QED BY <1>2, <2>2 DEF Fault
<1> QED BY <1>1, <1>2

\* Where a command at step cmd.pc goes: to a step, or to its end.
GoesOn(s) ==
  IF s \in Steps THEN Goto(s) ELSE s = "idle" /\ (End \/ Abort)

\* A command that goes on keeps the types of its part.
LEMMA GoesType ==
  ASSUME CmdTypeOK, cmd.pc \in Steps, NoFault \/ Fault, NEW s, GoesOn(s)
  PROVE  CmdTypeOK'
<1>1. cmd # AtRest /\ cmd.name \in Commands
  BY CmdFacts DEF CmdTypeOK
<1>2. faults' \in 0..MaxFaults /\ trouble' \in BOOLEAN
  BY CountFacts
<1>3. CASE s \in Steps /\ Goto(s)
  BY <1>2, <1>3, GotoFacts DEF CmdTypeOK
<1>4. CASE End \/ Abort
  BY <1>1, <1>2, <1>4, EndFacts DEF CmdTypeOK
<1> QED BY <1>3, <1>4 DEF GoesOn

\* A command begins, goes on, ends, or is not what moves.
LEMMA Courses ==
  ASSUME CmdTypeOK, SetupNext
  PROVE  \/ \E n \in Commands, s \in Steps : BeginCommand(n, s)
         \/ cmd.pc \in Steps /\ (NoFault \/ Fault) /\ \E s : GoesOn(s)
         \/ UNCHANGED <<cmd, faults, commands>> /\ last' \in {last, "none"} /\ trouble' \in BOOLEAN
<1> USE AtFacts DEF GoesOn, Steps
<1> DEFINE Course == cmd.pc \in Steps /\ (NoFault \/ Fault) /\ \E s : GoesOn(s)
<1>1. ASSUME InstallCA \/ WriteKey \/ SkipService \/ EnableUnit PROVE Course
  BY <1>1 DEF InstallCA, WriteKey, SkipService, EnableUnit
<1>2. ASSUME CheckTrust PROVE Course
  <2>1. cmd.name \in Commands
    BY <1>2, CmdFacts DEF CheckTrust, CmdTypeOK
  <2> QED BY <1>2, <2>1 DEF CheckTrust, Commands
<1>3. ASSUME Trust \/ Update PROVE Course
  BY <1>3 DEF Trust, Update, AfterTrust
<1>4. ASSUME TrustFails PROVE Course
  <2>1. cmd.name \in Commands
    BY <1>4, CmdFacts DEF TrustFails, CmdTypeOK
  <2> QED BY <1>4, <2>1 DEF TrustFails, Commands
<1>5. ASSUME EntryStep PROVE Course
  BY <1>5 DEF EntryStep, PutUnit, InstallAutostart, WriteMarker
<1>6. ASSUME WritePending PROVE Course
  BY <1>6 DEF WritePending
<1>7. ASSUME DisableUnit \/ UninstallUnit \/ UninstallAutostart PROVE Course
  BY <1>7 DEF DisableUnit, UninstallUnit, UninstallAutostart
<1>8. ASSUME Untrust \/ PurgeFile \/ Purge \/ KeepHome PROVE Course
  BY <1>8 DEF Untrust, PurgeFile, Purge, Purging, KeepHome
<1>9. ASSUME InterruptCommand PROVE Course
  <2>1. cmd.pc \in Steps
    BY <1>9, CmdFacts DEF InterruptCommand, CmdTypeOK
  <2> QED BY <1>9, <2>1 DEF InterruptCommand
<1>10. ASSUME BeginInstall \/ BeginUpgrade \/ BeginUninstall
       PROVE  \E n \in Commands, s \in Steps : BeginCommand(n, s)
  BY <1>10 DEF BeginInstall, BeginUpgrade, BeginUninstall, Commands
<1>11. ASSUME ReplaceBinary \/ DaemonStep
       PROVE  UNCHANGED <<cmd, faults, commands>> /\ last' \in {last, "none"} /\ trouble' \in BOOLEAN
  <2>1. ASSUME NEW by, StartDaemon(by) PROVE trouble' \in BOOLEAN
    <3>1. (trouble \/ (cmd # AtRest /\ marker # binary)) \in BOOLEAN
      OBVIOUS
    <3> QED BY <2>1, <3>1, Zenon DEF StartDaemon
  <2> QED BY <1>11, <2>1 DEF ReplaceBinary, DaemonStep, StopDaemon, StartDaemon, countVars, CmdTypeOK
<1> QED BY <1>1, <1>2, <1>3, <1>4, <1>5, <1>6, <1>7, <1>8, <1>9, <1>10, <1>11
        DEF SetupNext, InstallStep, TrustStep, UpgradeStep, UninstallStep

\* Every step keeps the types of the command.
LEMMA CmdStep ==
  ASSUME CmdTypeOK, [SetupNext]_setupVars
  PROVE  CmdTypeOK'
<1>1. ASSUME NEW n \in Commands, NEW s \in Steps, BeginCommand(n, s) PROVE CmdTypeOK'
  <2>1. commands \in 0..MaxCommands /\ MaxCommands \in Nat /\ commands < MaxCommands
    BY <1>1, BeginFacts, SetupAssumption DEF CmdTypeOK
  <2>2. commands + 1 \in 0..MaxCommands
    BY <2>1
  <2>3. /\ cmd' \in [name : Commands, pc : Steps] /\ last' = "none" /\ trouble' = FALSE
        /\ UNCHANGED faults /\ commands' = commands + 1
    BY <1>1, BeginFacts
  <2> QED BY <2>2, <2>3 DEF CmdTypeOK
<1>2. ASSUME cmd.pc \in Steps, NoFault \/ Fault, NEW s, GoesOn(s) PROVE CmdTypeOK'
  BY <1>2, GoesType
<1>3. ASSUME UNCHANGED <<cmd, faults, commands>>, last' \in {last, "none"}, trouble' \in BOOLEAN
      PROVE  CmdTypeOK'
  BY <1>3 DEF CmdTypeOK
<1>4. CASE UNCHANGED setupVars
  BY <1>3, <1>4 DEF setupVars, countVars, CmdTypeOK
<1> QED BY <1>1, <1>2, <1>3, <1>4, Courses

\* The things the commands change keep their types; the CA that is trusted is
\* one that was made.
LEMMA ThingsStep ==
  ASSUME CmdTypeOK, ThingsTypeOK, CAInv, Places, [SetupNext]_setupVars
  PROVE  ThingsTypeOK'
<1> USE DEF ThingsTypeOK
<1>1. CASE InstallStep
  <2>1. CASE InstallCA
    <3>1. made < MaxCAs => made + 1 \in 0..MaxCAs
      BY SetupAssumption
    <3> QED BY <2>1, <3>1 DEF InstallCA, trustVars, entryVars, markVars
  <2> QED BY <1>1, <2>1 DEF InstallStep, BeginInstall, WriteKey, SkipService, EnableUnit, caVars, trustVars, entryVars, markVars
<1>2. CASE TrustStep
  <2>1. CASE Trust
    <3>1. caCert \in CAs
      <4>1. cmd.name \in {"install", "upgrade"}
        BY <2>1, CmdFacts DEF Trust, Places, CmdTypeOK, Commands, Steps
      <4>2. caCert # 0
        BY <2>1, <4>1 DEF Trust, CAInv
      <4> QED BY <4>2, SetupAssumption DEF CAs
    <3> QED BY <2>1, <3>1 DEF Trust, TrustInstall, PutAnchor, AddTrustedCert, AddToRootStore, caVars, entryVars, markVars
  <2>2. CASE Update
    BY <2>2 DEF Update, UpdateTrust, caVars, entryVars, markVars
  <2>3. CASE TrustFails
    BY <2>3 DEF TrustFails, caVars, entryVars, markVars
  <2> QED BY <1>2, <2>1, <2>2, <2>3 DEF TrustStep, CheckTrust, caVars, trustVars, entryVars, markVars
<1>3. CASE EntryStep
  BY <1>3 DEF EntryStep, PutUnit, InstallAutostart, WriteMarker, caVars, trustVars, entryVars, markVars
<1>4. CASE UpgradeStep
  <2>1. CASE WritePending
    <3>1. (pending \/ daemon = "no") \in BOOLEAN
      OBVIOUS
    <3>2. pending' \in BOOLEAN
      BY <2>1, <3>1, Zenon DEF WritePending
    <3> QED BY <2>1, <3>2 DEF WritePending, caVars, trustVars, entryVars
  <2> QED BY <1>4, <2>1 DEF UpgradeStep, BeginUpgrade, ReplaceBinary, Versions, caVars, trustVars, entryVars, markVars
<1>5. CASE UninstallStep
  <2>1. CASE Untrust
    <3>1. caCert # 0 => caCert \in CAs
      BY SetupAssumption DEF CAs
    <3>2. CASE UNCHANGED trustVars
      BY <2>1, <3>2 DEF Untrust, caVars, trustVars, entryVars, markVars
    <3>3. CASE caCert # 0 /\ TrustUninstall(caCert)
      BY <2>1, <3>1, <3>3 DEF Untrust, TrustUninstall, RemoveAnchor, RemoveTrustedCert, DeleteFromRootStore, caVars, entryVars, markVars
    <3> QED BY <2>1, <3>2, <3>3 DEF Untrust
  <2>2. 0 \in 0..MaxCAs
    BY SetupAssumption
  <2> QED BY <1>5, <2>1, <2>2 DEF UninstallStep, BeginUninstall, DisableUnit, UninstallUnit, UninstallAutostart, PurgeFile,
                     Purge, KeepHome, caVars, trustVars, entryVars, markVars
<1>6. CASE DaemonStep
  BY <1>6 DEF DaemonStep, StopDaemon, StartDaemon, Versions, caVars, trustVars, entryVars, markVars
<1>7. CASE InterruptCommand
  BY <1>7 DEF InterruptCommand, caVars, trustVars, entryVars, markVars
<1>8. CASE UNCHANGED setupVars
  BY <1>8 DEF setupVars, caVars, trustVars, entryVars, markVars
<1> QED BY <1>1, <1>2, <1>3, <1>4, <1>5, <1>6, <1>7, <1>8 DEF SetupNext

\* What the installed things are.
LEMMA ThingsFacts ==
  ASSUME ThingsTypeOK
  PROVE  /\ os \in {"linux", "darwin", "windows"}
         /\ stored \subseteq CAs /\ trusted \subseteq CAs /\ loose \subseteq CAs /\ 0 \notin CAs
         /\ caCert # 0 => caCert \in CAs
         /\ made + 1 # 0
BY SetupAssumption DEF ThingsTypeOK, CAs

\* What is to show of an uninstall that has been to the trust store.
LEMMA AtPurge ==
  ASSUME cmd'.name = "uninstall", cmd'.pc \in {"update", "purge"}, last' = "none", trusted' \subseteq loose',
         UNCHANGED <<unit, auto, daemon, trouble>>, ~trouble => daemon # "unit" /\ unit = 0 /\ auto = 0
  PROVE  UninstallInv'
<1>1. ~trouble' => daemon' # "unit" /\ unit' = 0 /\ auto' = 0
  OBVIOUS
<1> QED BY <1>1 DEF UninstallInv

\* Every step of every command keeps the invariant.
LEMMA SetupStep ==
  ASSUME CmdTypeOK, ThingsTypeOK, SetupInv, [SetupNext]_setupVars
  PROVE  SetupInv'
<1> USE CmdFacts, AtFacts, GotoFacts, EndFacts, BeginFacts
        DEF SetupInv, Places, CAInv, TrustInv, InstallInv, UninstallInv, TrustAfterSetup, UninstallIsComplete,
            CmdTypeOK, Commands, Steps, NoFault, Fault, caVars, trustVars, entryVars, markVars, countVars
<1>0. /\ os \in {"linux", "darwin", "windows"}
      /\ stored \subseteq CAs /\ trusted \subseteq CAs /\ loose \subseteq CAs /\ 0 \notin CAs
      /\ caCert # 0 => caCert \in CAs
  BY ThingsFacts
<1>1. CASE BeginInstall
  BY <1>1 DEF BeginInstall
<1>2. CASE InstallCA
  <2>1. /\ cmd.name = "install" /\ cmd.pc = "ca"
        /\ \/ cmd'.name = "install" /\ cmd'.pc = "key" /\ UNCHANGED last
           \/ cmd'.name = "install" /\ cmd'.pc = "check" /\ UNCHANGED last
           \/ cmd' = AtRest /\ last' = "none"
    BY <1>2 DEF InstallCA
  <2>2. Places'
    BY <1>2, <2>1 DEF InstallCA
  <2>3. CAInv'
    <3>1. made + 1 # 0
      BY ThingsFacts
    <3> QED BY <1>2, <2>1, <3>1 DEF InstallCA
  <2>4. TrustInv'
    <3>1. 0 \notin trusted
      BY <1>0
    <3> QED BY <1>2, <2>1, <3>1 DEF InstallCA
  <2>5. InstallInv'
    BY <1>2, <2>1 DEF InstallCA
  <2>6. UninstallInv'
    BY <1>2, <2>1 DEF InstallCA
  <2>7. TrustAfterSetup' /\ UninstallIsComplete'
    BY <1>2, <2>1 DEF InstallCA
  <2> QED BY <2>2, <2>3, <2>4, <2>5, <2>6, <2>7
<1>3. CASE WriteKey
  <2>1. /\ cmd.name = "install" /\ cmd.pc = "key"
        /\ \/ cmd'.name = "install" /\ cmd'.pc = "check" /\ UNCHANGED last
           \/ cmd' = AtRest /\ last' = "none"
    BY <1>3 DEF WriteKey
  <2>2. Places'
    BY <1>3, <2>1 DEF WriteKey
  <2>3. CAInv'
    <3>1. CASE caKey' = caCert /\ ~orphan'
      BY <1>3, <2>1, <3>1 DEF WriteKey
    <3>2. CASE cmd' = AtRest /\ UNCHANGED <<caCert, caKey, orphan>>
      BY <2>1, <3>2
    <3> QED BY <1>3, <2>1, <3>1, <3>2 DEF WriteKey
  <2>4. TrustInv'
    <3>1. 0 \notin trusted
      BY <1>0 DEF ThingsTypeOK
    <3> QED BY <1>3, <2>1, <3>1 DEF WriteKey
  <2>5. InstallInv'
    BY <1>3, <2>1 DEF WriteKey
  <2>6. UninstallInv'
    BY <1>3, <2>1 DEF WriteKey
  <2>7. TrustAfterSetup' /\ UninstallIsComplete'
    BY <1>3, <2>1 DEF WriteKey
  <2> QED BY <2>2, <2>3, <2>4, <2>5, <2>6, <2>7
<1>4. CASE SkipService
  <2>1. cmd.name = "install" /\ cmd.pc = "unit" /\ cmd'.name = "install" /\ cmd'.pc = "marker" /\ UNCHANGED last
    BY <1>4 DEF SkipService
  <2>2. Places'
    BY <1>4, <2>1 DEF SkipService
  <2>3. CAInv'
    BY <1>4, <2>1 DEF SkipService
  <2>4. TrustInv'
    BY <1>4, <2>1 DEF SkipService
  <2>5. InstallInv'
    BY <1>4, <2>1 DEF SkipService
  <2>6. UninstallInv'
    BY <1>4, <2>1 DEF SkipService
  <2>7. TrustAfterSetup' /\ UninstallIsComplete'
    BY <1>4, <2>1 DEF SkipService
  <2> QED BY <2>2, <2>3, <2>4, <2>5, <2>6, <2>7
<1>5. CASE EnableUnit
  BY <1>5 DEF EnableUnit
<1>6. CASE CheckTrust
  <2>1. /\ cmd.name \in Commands /\ cmd.pc = "check" /\ cmd'.name = cmd.name /\ UNCHANGED last
        /\ cmd'.pc \in {"unit", "trust", "marker", "check"}
    BY <1>6 DEF CheckTrust
  <2>2. Places'
    BY <1>6, <2>1 DEF CheckTrust
  <2>3. CAInv'
    BY <1>6, <2>1 DEF CheckTrust
  <2>4. TrustInv'
    BY <1>6, <2>1 DEF CheckTrust
  <2>5. InstallInv'
    <3>1. caCert # 0 => caCert \in CAs
      BY <1>0
    <3>2. caCert \in CAs /\ (IsInstalled(caCert) \/ IsTrusted(caCert)) => caCert \in trusted \cup loose
      BY <1>0 DEF IsInstalled, IsTrusted, AnchorIs, KeychainHas, SettingsHave, RootStoreHas
    <3>3. /\ cmd.name = "install" /\ cmd'.pc = "unit" => caCert # 0 /\ IsInstalled(caCert)
          /\ cmd.name = "install" => cmd'.pc \in {"unit", "trust"}
          /\ cmd.name = "upgrade" => cmd'.pc \in {"trust", "marker"}
          /\ cmd.name = "upgrade" /\ cmd'.pc = "marker" /\ caCert # 0 /\ caKey # 0 => IsTrusted(caCert)
      BY <1>6, <2>1 DEF CheckTrust
    <3> QED BY <1>6, <2>1, <3>1, <3>2, <3>3 DEF CheckTrust
  <2>6. UninstallInv'
    BY <1>6, <2>1 DEF CheckTrust
  <2>7. TrustAfterSetup' /\ UninstallIsComplete'
    BY <1>6, <2>1 DEF CheckTrust
  <2> QED BY <2>2, <2>3, <2>4, <2>5, <2>6, <2>7
<1>7. CASE Trust
  <2>1. /\ cmd.name \in {"install", "upgrade"} /\ cmd.pc = "trust" /\ cmd'.name = cmd.name /\ UNCHANGED last
        /\ os = "linux" => cmd'.pc = "update"
        /\ os # "linux" => cmd'.pc = (IF cmd.name = "install" THEN "unit" ELSE "marker")
    BY <1>7 DEF Trust, AfterTrust
  <2>2. caCert \in CAs /\ caKey # 0
    BY <1>0, <2>1
  <2>3. /\ os = "linux" => PutAnchor(caCert)
        /\ os = "darwin" => AddTrustedCert(caCert)
        /\ os = "windows" => AddToRootStore(caCert)
    BY <1>7, <1>0 DEF Trust, TrustInstall
  <2>4. UNCHANGED <<os, caCert, caKey, made, orphan, unit, auto, daemon, trouble>>
    BY <1>7 DEF Trust
  <2>5. trusted' \subseteq loose' \cup {caCert}
    BY <1>0, <2>2, <2>3 DEF PutAnchor, AddTrustedCert, AddToRootStore
  <2>6. ASSUME NEW ca \in CAs PROVE ca \in loose' \/ (ca \in stored' <=> ca \in trusted')
    BY <1>0, <2>2, <2>3 DEF PutAnchor, AddTrustedCert, AddToRootStore
  <2>7. os = "linux" => stored' = {caCert}
    BY <2>3 DEF PutAnchor
  <2>8. os # "linux" => caCert \in trusted'
    BY <1>0, <2>3 DEF AddTrustedCert, AddToRootStore
  <2>9. Places' /\ CAInv'
    BY <2>1, <2>2, <2>4
  <2>10. TrustInv'
    BY <2>1, <2>2, <2>4, <2>5, <2>6, <2>7
  <2>11. InstallInv'
    BY <2>1, <2>4, <2>8
  <2>12. UninstallInv'
    BY <2>1
  <2>13. TrustAfterSetup' /\ UninstallIsComplete'
    BY <2>1
  <2> QED BY <2>9, <2>10, <2>11, <2>12, <2>13
<1>8. CASE Update
  <2>1. /\ cmd.name \in Commands /\ cmd.pc = "update" /\ cmd'.name = cmd.name /\ UNCHANGED last
        /\ cmd.name = "uninstall" => cmd'.pc = "purge"
        /\ cmd.name = "install" => cmd'.pc = "unit"
        /\ cmd.name = "upgrade" => cmd'.pc = "marker"
    BY <1>8 DEF Update, AfterTrust
  <2>2. /\ os = "linux" /\ UNCHANGED <<os, caCert, caKey, made, orphan, unit, auto, daemon, trouble>>
        /\ trusted' = stored /\ loose' = {} /\ UNCHANGED stored
    BY <1>8 DEF Update, UpdateTrust
  <2>3. cmd.name # "uninstall" => caKey # 0 /\ caCert # 0 /\ stored = {caCert}
    BY <2>1
  <2>4. cmd.name = "uninstall" => stored = {}
    BY <2>1
  <2>5. Places' /\ CAInv'
    BY <2>1, <2>2
  <2>6. TrustInv'
    BY <2>1, <2>2, <2>3, <2>4
  <2>7. InstallInv'
    BY <2>1, <2>2, <2>3
  <2>8. UninstallInv'
    BY <2>1, <2>2, <2>4
  <2>9. TrustAfterSetup' /\ UninstallIsComplete'
    BY <2>1
  <2> QED BY <2>5, <2>6, <2>7, <2>8, <2>9
<1>9. CASE TrustFails
  <2>1. /\ cmd.name \in Commands /\ cmd.pc \in {"trust", "update", "untrust"}
        /\ \/ cmd' = AtRest /\ last' = "none" /\ cmd.name = "install"
           \/ cmd'.name = cmd.name /\ cmd'.pc = "pending" /\ UNCHANGED last /\ cmd.name = "upgrade"
           \/ cmd'.name = cmd.name /\ cmd'.pc = "purge" /\ UNCHANGED last /\ cmd.name = "uninstall"
    BY <1>9 DEF TrustFails
  <2>2. Places'
    BY <1>9, <2>1 DEF TrustFails
  <2>3. CAInv'
    BY <1>9, <2>1 DEF TrustFails
  <2>4. TrustInv'
    BY <1>9, <2>1 DEF TrustFails
  <2>5. InstallInv'
    BY <1>9, <2>1 DEF TrustFails
  <2>6. UninstallInv'
    <3>1. trusted \subseteq loose \cup {caCert}
      BY <1>0
    <3>2. cmd.name = "uninstall" => trusted' \subseteq loose'
      BY <1>9, <2>1, <3>1 DEF TrustFails
    <3>3. trouble' = TRUE
      BY <1>9 DEF TrustFails
    <3> QED BY <2>1, <3>2, <3>3
  <2>7. TrustAfterSetup' /\ UninstallIsComplete'
    BY <1>9, <2>1 DEF TrustFails
  <2> QED BY <2>2, <2>3, <2>4, <2>5, <2>6, <2>7
<1>10. CASE PutUnit
  BY <1>10 DEF PutUnit
<1>11. CASE InstallAutostart
  BY <1>11 DEF InstallAutostart
<1>12. CASE WriteMarker
  BY <1>12 DEF WriteMarker
<1>13. CASE BeginUpgrade
  BY <1>13 DEF BeginUpgrade
<1>14. CASE WritePending
  BY <1>14 DEF WritePending
<1>15. CASE ReplaceBinary
  BY <1>15 DEF ReplaceBinary
<1>16. CASE BeginUninstall
  BY <1>16 DEF BeginUninstall
<1>17. CASE DisableUnit
  BY <1>17 DEF DisableUnit
<1>18. CASE UninstallUnit
  <2>1. cmd.name = "uninstall" /\ cmd.pc = "remove unit" /\ cmd'.name = "uninstall" /\ cmd'.pc = "remove auto" /\ UNCHANGED last
    BY <1>18 DEF UninstallUnit
  <2>2. Places'
    BY <1>18, <2>1 DEF UninstallUnit
  <2>3. CAInv'
    BY <1>18, <2>1 DEF UninstallUnit
  <2>4. TrustInv'
    BY <1>18, <2>1 DEF UninstallUnit
  <2>5. InstallInv'
    BY <1>18, <2>1 DEF UninstallUnit
  <2>6. UninstallInv'
    <3>1. \/ unit' = 0 /\ UNCHANGED trouble
          \/ UNCHANGED unit /\ trouble' = TRUE
      BY <1>18 DEF UninstallUnit
    <3>2. UNCHANGED <<auto, daemon>>
      BY <1>18 DEF UninstallUnit
    <3> QED BY <2>1, <3>1, <3>2
  <2>7. TrustAfterSetup' /\ UninstallIsComplete'
    BY <1>18, <2>1 DEF UninstallUnit
  <2> QED BY <2>2, <2>3, <2>4, <2>5, <2>6, <2>7
<1>19. CASE UninstallAutostart
  <2>1. cmd.name = "uninstall" /\ cmd.pc = "remove auto" /\ cmd'.name = "uninstall" /\ cmd'.pc = "untrust" /\ UNCHANGED last
    BY <1>19 DEF UninstallAutostart
  <2>2. Places'
    BY <1>19, <2>1 DEF UninstallAutostart
  <2>3. CAInv'
    BY <1>19, <2>1 DEF UninstallAutostart
  <2>4. TrustInv'
    BY <1>19, <2>1 DEF UninstallAutostart
  <2>5. InstallInv'
    BY <1>19, <2>1 DEF UninstallAutostart
  <2>6. UninstallInv'
    <3>1. \/ auto' = 0 /\ UNCHANGED trouble
          \/ UNCHANGED auto /\ trouble' = TRUE
      BY <1>19 DEF UninstallAutostart
    <3>2. UNCHANGED <<unit, daemon>>
      BY <1>19 DEF UninstallAutostart
    <3> QED BY <2>1, <3>1, <3>2
  <2>7. TrustAfterSetup' /\ UninstallIsComplete'
    BY <1>19, <2>1 DEF UninstallAutostart
  <2> QED BY <2>2, <2>3, <2>4, <2>5, <2>6, <2>7
<1>20. CASE Untrust
  <2>1. /\ cmd.name = "uninstall" /\ cmd.pc = "untrust" /\ cmd'.name = "uninstall" /\ UNCHANGED last
        /\ cmd'.pc \in {"update", "purge"}
    BY <1>20 DEF Untrust
  <2>2. Places'
    BY <1>20, <2>1 DEF Untrust
  <2>3. CAInv'
    BY <1>20, <2>1 DEF Untrust
  <2>8. 0 \notin trusted /\ (caCert # 0 => caCert \in CAs)
    BY <1>0
  <2>11. ~trouble => daemon # "unit" /\ unit = 0 /\ auto = 0
    BY <2>1
  <2>9. ASSUME caCert # 0 /\ caKey # 0 /\ IsTrusted(caCert) PROVE TrustInv' /\ UninstallInv'
    <3>1. /\ os = "linux" => RemoveAnchor(caCert) /\ cmd'.pc = "update"
          /\ os = "darwin" => RemoveTrustedCert(caCert) /\ cmd'.pc = "purge"
          /\ os = "windows" => DeleteFromRootStore(caCert) /\ cmd'.pc = "purge"
      BY <1>0, <1>20, <2>9 DEF Untrust, TrustUninstall
    <3>2. caKey # 0 /\ trusted \subseteq loose \cup {caCert}
      BY <2>9
    <3>3. UNCHANGED <<os, caCert, caKey, orphan, unit, auto, daemon, trouble>>
      BY <1>20 DEF Untrust
    <3>4. trusted' \subseteq loose'
      BY <1>0, <3>1, <3>2 DEF RemoveAnchor, RemoveTrustedCert, DeleteFromRootStore
    <3>5. ASSUME NEW ca \in CAs PROVE ca \in loose' \/ (ca \in stored' <=> ca \in trusted')
      <4>1. os = "linux" /\ ca \in stored => ca = caCert
        BY <2>9, <2>8 DEF IsTrusted, AnchorIs
      <4> QED BY <1>0, <3>1, <3>2, <3>5, <4>1 DEF RemoveAnchor, RemoveTrustedCert, DeleteFromRootStore
    <3>6. os = "linux" => stored' = {}
      BY <3>1 DEF RemoveAnchor
    <3>7. TrustInv'
      <4>1. cmd'.pc = "update" => os = "linux" /\ stored' = {}
        BY <1>0, <3>1, <3>6
      <4> QED BY <2>1, <3>3, <3>4, <3>5, <3>6, <4>1
    <3>8. UninstallInv'
      <4>1. cmd'.pc \in {"update", "purge"} /\ last' = "none"
        BY <2>1
      <4> HIDE CmdFacts, AtFacts, GotoFacts, EndFacts, BeginFacts DEF UninstallInv, SetupInv, TrustInv, TrustAfterSetup, UninstallIsComplete
      <4> QED BY <2>1, <2>11, <3>3, <3>4, <4>1, AtPurge
    <3> QED BY <3>7, <3>8
  <2>10. ASSUME ~(caCert # 0 /\ caKey # 0 /\ IsTrusted(caCert)) PROVE TrustInv' /\ UninstallInv'
    <3>1. UNCHANGED <<os, caCert, caKey, orphan, stored, trusted, loose, unit, auto, daemon, trouble>> /\ cmd'.pc = "purge"
      BY <1>20, <2>10 DEF Untrust
    <3>2. trusted \subseteq loose
      <4>1. caKey = 0 => trusted \subseteq loose
        BY <2>8
      <4>2. caKey # 0 /\ caCert # 0 => ~IsTrusted(caCert)
        BY <2>10
      <4>3. caKey # 0 => caCert \in loose \/ caCert \notin trusted
        BY <1>0, <2>8, <4>2 DEF IsTrusted, AnchorIs, SettingsHave, RootStoreHas
      <4> QED BY <4>1, <4>2, <4>3
    <3>3. TrustInv'
      BY <2>1, <3>1, <3>2
    <3>4. UninstallInv'
      <4>1. last' = "none"
        BY <2>1
      <4> HIDE CmdFacts, AtFacts, GotoFacts, EndFacts, BeginFacts DEF UninstallInv, SetupInv, TrustInv, TrustAfterSetup, UninstallIsComplete
      <4> QED BY <2>1, <2>11, <3>1, <3>2, <4>1, AtPurge
    <3> QED BY <3>3, <3>4
  <2>4. TrustInv' /\ UninstallInv'
    BY <2>9, <2>10
  <2>5. InstallInv'
    BY <1>20, <2>1 DEF Untrust
  <2>6. UninstallInv'
    BY <2>4
  <2>7. TrustAfterSetup' /\ UninstallIsComplete'
    BY <1>20, <2>1 DEF Untrust
  <2> QED BY <2>2, <2>3, <2>4, <2>5, <2>6, <2>7
<1>21. CASE Purge
  BY <1>21 DEF Purge, Purging
<1>27. CASE PurgeFile
  <2>1. /\ cmd.name = "uninstall" /\ cmd.pc \in {"purge", "wipe"}
        /\ cmd'.name = "uninstall" /\ cmd'.pc = "wipe" /\ UNCHANGED last
    BY <1>27 DEF PurgeFile, Purging
  <2>2. trusted \subseteq loose /\ UNCHANGED <<os, stored, trusted, loose, unit, auto, daemon, trouble>>
    BY <1>27, <2>1 DEF PurgeFile
  <2>3. CAInv'
    <3>1. CASE caCert' = 0 /\ UNCHANGED caKey /\ (orphan' <=> caKey # 0)
      BY <2>1, <3>1
    <3>2. CASE caKey' = 0 /\ ~orphan'
      BY <2>1, <3>2
    <3>3. CASE UNCHANGED <<caCert, caKey, orphan>>
      BY <2>1, <3>3
    <3>4. \/ caCert' = 0 /\ UNCHANGED caKey /\ orphan' = (caKey # 0)
          \/ caKey' = 0 /\ orphan' = FALSE
          \/ UNCHANGED <<caCert, caKey, orphan>>
      BY <1>27, Zenon DEF PurgeFile
    <3> QED BY <3>1, <3>2, <3>3, <3>4
  <2>4. Places' /\ InstallInv'
    BY <2>1
  <2>5. TrustInv' /\ UninstallInv'
    BY <2>1, <2>2
  <2>6. TrustAfterSetup' /\ UninstallIsComplete'
    BY <2>1
  <2> QED BY <2>3, <2>4, <2>5, <2>6
<1>22. CASE KeepHome
  BY <1>22 DEF KeepHome
<1>23. CASE StopDaemon
  BY <1>23 DEF StopDaemon
<1>24. CASE InterruptCommand
  BY <1>24 DEF InterruptCommand
<1>25. ASSUME NEW by \in {"unit", "hand"}, StartDaemon(by) PROVE SetupInv'
  BY <1>25 DEF StartDaemon
<1>26. CASE UNCHANGED setupVars
  <2>1. UNCHANGED <<os, caCert, caKey, orphan, stored, trusted, loose, unit, auto, daemon, cmd, last, trouble>>
    BY <1>26 DEF setupVars
  <2>2. Places' /\ CAInv'
    BY <2>1
  <2>3. TrustInv' /\ InstallInv'
    BY <2>1
  <2>4. UninstallInv' /\ TrustAfterSetup' /\ UninstallIsComplete'
    BY <2>1
  <2> QED BY <2>2, <2>3, <2>4
<1> QED BY <1>1, <1>2, <1>3, <1>4, <1>5, <1>6, <1>7, <1>8, <1>9, <1>10, <1>11, <1>12, <1>13, <1>14, <1>15, <1>16, <1>17, <1>18, <1>19, <1>20, <1>21, <1>22, <1>23, <1>24, <1>25, <1>26, <1>27
   DEF SetupNext, InstallStep, TrustStep, EntryStep, UpgradeStep, UninstallStep, DaemonStep

\* The types in two parts, and the invariant at the start.
LEMMA SetupTypes ==
  /\ SetupTypeOK <=> CmdTypeOK /\ ThingsTypeOK
  /\ SetupInit => CmdTypeOK /\ ThingsTypeOK /\ SetupInv
<1>1. SetupTypeOK <=> CmdTypeOK /\ ThingsTypeOK
  BY DEF SetupTypeOK, CmdTypeOK, ThingsTypeOK
<1>2. ASSUME SetupInit PROVE CmdTypeOK /\ ThingsTypeOK /\ SetupInv
  <2>1. 0 \in 0..MaxCAs /\ 0 \in 0..MaxCommands /\ 0 \in 0..MaxFaults
    BY SetupAssumption
  <2>2. CmdTypeOK
    BY <1>2, <2>1 DEF SetupInit, CmdTypeOK
  <2>4. ThingsTypeOK
    <3>1. os \in Systems /\ daemon \in {"no", "unit", "hand"}
      BY <1>2 DEF SetupInit
    <3>4. binary \in Versions
      BY <1>2 DEF SetupInit, Versions
    <3>5. pending \in BOOLEAN /\ orphan \in BOOLEAN
      BY <1>2 DEF SetupInit
    <3>2. caCert \in 0..MaxCAs /\ caKey \in 0..MaxCAs /\ made \in 0..MaxCAs
      BY <1>2, <2>1 DEF SetupInit
    <3>3. /\ stored \subseteq CAs /\ trusted \subseteq CAs /\ loose \subseteq CAs
          /\ unit \in {0} \cup Versions /\ auto \in {0} \cup Versions /\ marker \in {0} \cup Versions
      BY <1>2 DEF SetupInit
    <3> QED BY <3>1, <3>2, <3>3, <3>4, <3>5 DEF ThingsTypeOK
  <2>3. SetupInv
    BY <1>2, EndFacts DEF SetupInit, SetupInv, Places, CAInv, TrustInv, InstallInv, UninstallInv,
                          TrustAfterSetup, UninstallIsComplete
  <2> QED BY <2>2, <2>3, <2>4
<1> QED BY <1>1, <1>2

\* The invariant of install, upgrade and uninstall: at each step of a command what
\* it has put in place or taken away is there or gone, or a fault is noted.
THEOREM SetupInvCorrect == SetupSpec => [](SetupTypeOK /\ SetupInv)
<1> DEFINE I == CmdTypeOK /\ ThingsTypeOK /\ SetupInv
<1>1. SetupInit => I
  BY SetupTypes
<1>2. I /\ [SetupNext]_setupVars => I'
  BY CmdStep, ThingsStep, SetupStep DEF SetupInv
<1>3. I => SetupTypeOK /\ SetupInv
  BY SetupTypes
<1> QED BY <1>1, <1>2, <1>3, PTL DEF SetupSpec

\* On every system, and whatever fails or is cut off: a CA that an install has
\* left, or an upgrade without a failure, is trusted and has its key, but for
\* the cases TrustAfterSetup names.
THEOREM SetupTrustCorrect == SetupSpec => []TrustAfterSetup
<1>1. SetupInv => TrustAfterSetup
  BY DEF SetupInv
<1> QED BY <1>1, SetupInvCorrect, PTL

\* An uninstall without a failure leaves no unit, no entry, no kept daemon and no
\* trust but in the CAs noted.
THEOREM UninstallCorrect == SetupSpec => []UninstallIsComplete
<1>1. SetupInv => UninstallIsComplete
  BY DEF SetupInv
<1> QED BY <1>1, SetupInvCorrect, PTL

-----------------------------------------------------------------------------
(* The hosts file.  A domain without a reason to differ is the business of  *)
(* one command at most, and where that command has come to says whether     *)
(* entry and route agree.                                                   *)

JobSet == [op : Single \cup Batch \cup {"none"},
           pc : {"idle", "read", "write", "call", "undo read", "undo write"},
           on : SUBSET Domains, rest : SUBSET Domains, copy : SUBSET (SUBSET Domains), did : BOOLEAN]

\* What a command may be at: single commands have one domain, batches neither
\* call nor undo, and nobody is about anything when idle.
JobShape(r) ==
  /\ r.pc = "idle" => r = Idle
  /\ r.pc # "idle" => r.op # "none" /\ \E d \in Domains : r.on = {d}
  /\ r.op \in Single => r.rest = {}
  /\ r.op \in Batch => r.pc \in {"read", "write"}
  /\ r.pc \in {"read", "write"} => ~r.did

JobInv == job \in [Jobs -> JobSet] /\ \A j \in Jobs : JobShape(job[j])

Clear(d) == blame[d] = {}

OneCommand(d) == \A j, k \in Jobs : d \in About(j) \cap About(k) => j = k

\* A single command that is past its own edit.
Halfway(j, d) == d \in job[j].on /\ job[j].op \in Single /\ job[j].pc \in {"call", "undo read", "undo write"}

Edited(j, d) ==
  /\ job[j].pc = "call" => (Maps(file, d) <=> job[j].op = "add")
  /\ job[j].did => (Maps(file, d) <=> job[j].op = "add")
  /\ job[j].did <=> ~Agrees(file, routes, d)

Place(j, d) ==
  /\ Halfway(j, d) => Edited(j, d)
  /\ d \in job[j].on /\ job[j].op \in Single /\ job[j].pc = "write" => (Maps(file, d) <=> job[j].op = "remove")
  /\ d \in About(j) /\ job[j].op \in {"install", "upgrade"} => routes[d] # "none"

ClearInv(d) ==
  /\ OneCommand(d)
  /\ (\A j \in Jobs : ~Halfway(j, d)) => Agrees(file, routes, d)
  /\ \A j \in Jobs : Place(j, d)

HostsInv == JobInv /\ \A d \in Domains : Clear(d) => ClearInv(d)

\* What an edit makes of the file.
LEMMA MapFacts ==
  ASSUME NEW f \in SUBSET (SUBSET Domains), NEW d \in Domains
  PROVE  /\ AddEntry(f, d) \in SUBSET (SUBSET Domains) /\ Maps(AddEntry(f, d), d)
         /\ AddEntry(f, d) = f <=> Maps(f, d)
         /\ RemoveEntry(f, d) \in SUBSET (SUBSET Domains) /\ ~Maps(RemoveEntry(f, d), d)
         /\ RemoveEntry(f, d) = f <=> ~Maps(f, d)
<1>1. AddEntry(f, d) \in SUBSET (SUBSET Domains) /\ Maps(AddEntry(f, d), d)
  BY DEF AddEntry, Maps
<1>2. AddEntry(f, d) = f <=> Maps(f, d)
  BY <1>1 DEF AddEntry
<1>3. RemoveEntry(f, d) \in SUBSET (SUBSET Domains) /\ ~Maps(RemoveEntry(f, d), d)
  BY DEF RemoveEntry, Maps
<1>4. ~Maps(f, d) => RemoveEntry(f, d) = f
  <2> SUFFICES ASSUME ~Maps(f, d) PROVE \A line : line \in RemoveEntry(f, d) <=> line \in f
    BY Zenon
  <2> QED BY DEF RemoveEntry, Maps
<1> QED BY <1>1, <1>2, <1>3, <1>4

\* Two truth values differ.
LEMMA Differ ==
  ASSUME NEW a \in BOOLEAN, NEW b \in BOOLEAN
  PROVE  (a # b) <=> (a <=> ~b)
OBVIOUS

\* The sides a command is on.
LEMMA AddsFacts ==
  ASSUME NEW j, job[j] \in JobSet
  PROVE  /\ Adds(j) \in BOOLEAN
         /\ Undoing(j) <=> job[j].pc \in {"undo read", "undo write"}
         /\ job[j].op \in {"install", "upgrade"} /\ ~Undoing(j) => Adds(j)
         /\ job[j].op \in Single /\ ~Undoing(j) => (Adds(j) <=> job[j].op = "add")
         /\ job[j].op \in Single /\ Undoing(j) => (Adds(j) <=> job[j].op = "remove")
<1>1. Adds(j) \in BOOLEAN
  <2>1. ((job[j].op \in {"add", "install", "upgrade"}) # Undoing(j)) \in BOOLEAN
    OBVIOUS
  <2> QED BY <2>1, Zenon DEF Adds
<1>2. Undoing(j) <=> job[j].pc \in {"undo read", "undo write"}
  BY DEF Undoing
<1>3. job[j].op \in {"install", "upgrade"} /\ ~Undoing(j) => Adds(j)
  BY DEF Adds, Undoing
<1>7. Adds(j) <=> (job[j].op \in {"add", "install", "upgrade"} <=> ~Undoing(j))
  <2>1. (job[j].op \in {"add", "install", "upgrade"}) \in BOOLEAN /\ Undoing(j) \in BOOLEAN
    BY DEF Undoing
  <2> QED BY <2>1, Differ DEF Adds
<1>4. job[j].op = "add" => (Adds(j) <=> ~Undoing(j))
  BY <1>7
<1>5. job[j].op = "remove" => (Adds(j) <=> Undoing(j))
  BY <1>7
<1>6. job[j].op = "remove" <=> job[j].op \in Single /\ job[j].op # "add"
  BY DEF Single
<1> QED BY <1>1, <1>2, <1>3, <1>4, <1>5, <1>6

\* What an edit of the hosts file does to the domain it is for.
LEMMA EditFacts ==
  ASSUME NEW j, NEW d \in Domains, NEW f \in SUBSET (SUBSET Domains), job[j] \in JobSet, job[j].on = {d}
  PROVE  /\ Edit(j, f) \in SUBSET (SUBSET Domains)
         /\ Maps(Edit(j, f), d) <=> Adds(j)
         /\ Edit(j, f) = f <=> (Maps(f, d) <=> Adds(j))
<1>1. (CHOOSE e \in Domains : e \in job[j].on) = d
  OBVIOUS
<1>2. Edit(j, f) = IF Adds(j) THEN AddEntry(f, d) ELSE RemoveEntry(f, d)
  BY <1>1 DEF Edit
<1>3. Adds(j) \in BOOLEAN
  BY AddsFacts
<1> QED BY <1>2, <1>3, MapFacts

\* A command that is not under way.
LEMMA IdleFacts ==
  /\ Idle \in JobSet /\ JobShape(Idle)
  /\ Idle.op = "none" /\ Idle.pc = "idle" /\ Idle.on = {} /\ Idle.rest = {} /\ Idle.copy = {} /\ Idle.did = FALSE
BY DEF Idle, JobSet, JobShape, Single, Batch

\* Where a job goes after its edit: to its request, to its next domain, or to its
\* end.
LEMMA AfterFacts ==
  ASSUME NEW j, job[j] \in JobSet, JobShape(job[j]), job[j].pc # "idle"
  PROVE  LET r == After(j)
         IN  /\ r \in JobSet
             /\ job[j].op \in Single /\ ~Undoing(j) =>
                  r.op = job[j].op /\ r.pc = "call" /\ r.on = job[j].on /\ r.rest = {} /\ r.did = job[j].did
             /\ job[j].op \in Single /\ Undoing(j) => r = Idle
             /\ job[j].op \in Batch =>
                  \/ /\ r.op = job[j].op /\ r.pc = "read" /\ r.did = job[j].did
                     /\ r.on \cup r.rest \subseteq job[j].rest /\ \E d \in Domains : r.on = {d}
                  \/ r = Idle
<1> DEFINE q == job[j]
<1> DEFINE next == CHOOSE d \in q.rest : TRUE
<1>1. q.op \in Single \cup Batch /\ q.rest \subseteq Domains /\ q \in JobSet
  BY DEF JobShape, JobSet
<1>2. CASE q.op \in Single /\ ~Undoing(j)
  <2>1. After(j) = [q EXCEPT !.pc = "call", !.copy = {}]
    <3>1. q.rest = {}
      BY <1>2 DEF JobShape
    <3> QED BY <1>2, <3>1 DEF After
  <2>2. q.op \notin Batch /\ q.rest = {}
    BY <1>2 DEF JobShape, Single, Batch
  <2> QED BY <1>1, <1>2, <2>1, <2>2 DEF JobSet
<1>3. CASE q.op \in Single /\ Undoing(j)
  <2>1. q.op \notin Batch /\ q.rest = {}
    BY <1>3 DEF JobShape, Single, Batch
  <2>2. After(j) = Idle
    BY <1>3, <2>1 DEF After
  <2> QED BY <1>3, <2>1, <2>2, IdleFacts
<1>4. CASE q.op \in Batch
  <2>1. q.op \notin Single
    BY <1>4 DEF Single, Batch
  <2>2. CASE q.rest # {}
    <3>1. next \in q.rest
      BY <2>2
    <3>2. After(j) = [q EXCEPT !.pc = "read", !.on = {next}, !.rest = @ \ {next}, !.copy = {}]
      BY <2>1, <2>2 DEF After
    <3> HIDE DEF next
    <3>3. /\ After(j) \in JobSet /\ After(j).op = q.op /\ After(j).pc = "read" /\ After(j).did = q.did
          /\ After(j).on = {next} /\ After(j).rest = q.rest \ {next}
      <4>1. {next} \in SUBSET Domains /\ q.rest \ {next} \in SUBSET Domains /\ {} \in SUBSET (SUBSET Domains)
        BY <1>1, <3>1
      <4> HIDE DEF q
      <4> QED BY <1>1, <3>2, <4>1 DEF JobSet
    <3> QED BY <1>1, <2>1, <3>1, <3>3
  <2>3. CASE q.rest = {}
    <3>1. After(j) = Idle
      BY <2>1, <2>3 DEF After
    <3> QED BY <2>1, <3>1, IdleFacts
  <2> QED BY <2>2, <2>3
<1> QED BY <1>1, <1>2, <1>3, <1>4

\* What a command does to itself it does to no other.
LEMMA JobFrame ==
  ASSUME JobInv, NEW j \in Jobs, NEW r \in JobSet, JobShape(r), job' = [job EXCEPT ![j] = r]
  PROVE  /\ JobInv' /\ job'[j] = r
         /\ \A k \in Jobs : k # j => job'[k] = job[k]
<1>1. /\ job' \in [Jobs -> JobSet] /\ job'[j] = r
      /\ \A k \in Jobs : k # j => job'[k] = job[k]
  BY DEF JobInv
<1> QED BY <1>1 DEF JobInv

\* What leaves a domain clear either agrees with no job under way, or was no blame
\* to it.
LEMMA BlameFacts ==
  ASSUME NEW why, Blame(why), NEW d \in Domains, Clear(d)'
  PROVE  \/ (\A j \in Jobs : job'[j].pc = "idle") /\ Agrees(file, routes, d)'
         \/ Clear(d) /\ why[d] = {}
BY DEF Blame, Clear, Agrees, Maps

\* With no command at work nothing but the agreement is to show.
LEMMA AllIdle ==
  ASSUME JobInv', NEW d \in Domains, \A j \in Jobs : job'[j].pc = "idle", Agrees(file, routes, d)'
  PROVE  ClearInv(d)'
<1>1. \A j \in Jobs : job'[j] = Idle
  BY DEF JobInv, JobShape
<1>2. \A j \in Jobs : job'[j].on = {} /\ job'[j].rest = {}
  BY <1>1, IdleFacts
<1> QED BY <1>2 DEF ClearInv, OneCommand, About, Place, Halfway

\* A step of a command that leaves the entry and the presence of the route as
\* they are.
LEMMA QuietStep ==
  ASSUME JobInv, NEW d \in Domains, ClearInv(d), NEW j \in Jobs,
         \A k \in Jobs : k # j => job'[k] = job[k],
         d \in About(j)' => d \in About(j),
         Maps(file, d)' <=> Maps(file, d), routes'[d] = "none" <=> routes[d] = "none",
         Place(j, d)', Halfway(j, d) /\ ~Halfway(j, d)' => Agrees(file, routes, d)
  PROVE  ClearInv(d)'
<1>1. Agrees(file, routes, d)' <=> Agrees(file, routes, d)
  BY DEF Agrees, Maps
<1>2. OneCommand(d)'
  <2> SUFFICES ASSUME NEW k \in Jobs, NEW l \in Jobs, d \in About(k)', d \in About(l)' PROVE k = l
    BY DEF OneCommand
  <2>1. d \in About(k) /\ d \in About(l)
    BY DEF About
  <2> QED BY <2>1 DEF ClearInv, OneCommand
<1>3. ASSUME NEW k \in Jobs, k # j PROVE Halfway(k, d)' <=> Halfway(k, d)
  BY <1>3 DEF Halfway
<1>4. ASSUME NEW k \in Jobs, k # j PROVE Place(k, d)'
  <2>1. Place(k, d) /\ job'[k] = job[k]
    BY <1>4 DEF ClearInv
  <2> QED BY <1>1, <1>3, <1>4, <2>1 DEF Place, Edited, About
<1>5. ASSUME \A k \in Jobs : ~Halfway(k, d)' PROVE Agrees(file, routes, d)'
  <2>1. CASE Halfway(j, d)
    BY <1>1, <1>5, <2>1
  <2>2. CASE ~Halfway(j, d)
    <3>1. \A k \in Jobs : ~Halfway(k, d)
      BY <1>3, <1>5, <2>2
    <3> QED BY <1>1, <3>1 DEF ClearInv
  <2> QED BY <2>1, <2>2
<1>6. (\A k \in Jobs : ~Halfway(k, d)') => Agrees(file, routes, d)'
  BY <1>5
<1>7. \A k \in Jobs : Place(k, d)'
  BY <1>4
<1> QED BY <1>2, <1>6, <1>7 DEF ClearInv

\* A step of the one command whose business the domain is.
LEMMA OwnStep ==
  ASSUME JobInv, NEW d \in Domains, ClearInv(d), NEW j \in Jobs, d \in About(j),
         \A k \in Jobs : k # j => job'[k] = job[k],
         Place(j, d)', ~Halfway(j, d)' => Agrees(file, routes, d)'
  PROVE  ClearInv(d)'
<1>1. \A k \in Jobs : k # j => d \notin About(k)'
  BY DEF ClearInv, OneCommand, About
<1>2. \A k \in Jobs : k # j => Place(k, d)'
  BY <1>1 DEF Place, Halfway, About
<1>3. OneCommand(d)'
  BY <1>1 DEF OneCommand
<1>4. \A k \in Jobs : Place(k, d)'
  BY <1>2
<1>5. (\A k \in Jobs : ~Halfway(k, d)') => Agrees(file, routes, d)'
  OBVIOUS
<1> QED BY <1>3, <1>4, <1>5 DEF ClearInv

\* The entry and the route of a command's domain agree until it is past its edit.
LEMMA AgreesTillEdited ==
  ASSUME NEW d \in Domains, ClearInv(d), NEW j \in Jobs, d \in About(j), ~Halfway(j, d)
  PROVE  Agrees(file, routes, d)
<1>1. \A k \in Jobs : ~Halfway(k, d)
  BY DEF ClearInv, OneCommand, About, Halfway
<1> QED BY <1>1 DEF ClearInv

\* What a command is when it is not idle.
LEMMA JobFacts ==
  ASSUME JobInv, NEW j \in Jobs, job[j].pc # "idle"
  PROVE  /\ job[j] \in JobSet /\ JobShape(job[j]) /\ job[j].op \in Single \cup Batch
         /\ \E e \in Domains : job[j].on = {e}
         /\ job[j].op \in Single => job[j].op \notin Batch /\ job[j].rest = {}
         /\ job[j].op \in Batch => job[j].op \notin Single /\ job[j].pc \in {"read", "write"} /\ ~Undoing(j)
         /\ job[j].pc \in {"call", "undo read", "undo write"} => job[j].op \in Single
         /\ job[j].copy \in SUBSET (SUBSET Domains) /\ job[j].did \in BOOLEAN
BY DEF JobInv, JobShape, JobSet, Single, Batch, Undoing

\* A command that goes on to what comes after its helper, as far as it concerns
\* a domain it has not edited, or is part of a batch.
LEMMA PlaceAfter ==
  ASSUME JobInv, NEW j \in Jobs, job[j].pc # "idle", NEW d \in Domains, Place(j, d),
         d \notin job[j].on \/ job[j].op \in Batch,
         job'[j].op = After(j).op, job'[j].pc = After(j).pc, job'[j].on = After(j).on,
         job'[j].rest = After(j).rest, routes'[d] = "none" <=> routes[d] = "none"
  PROVE  Place(j, d)' /\ ~Halfway(j, d)' /\ (d \in About(j)' => d \in About(j))
<1>0. job[j] \in JobSet /\ JobShape(job[j]) /\ job[j].op \in Single \cup Batch
  BY JobFacts
<1>1. CASE job[j].op \in Batch
  <2>1. job'[j].op \in Batch \/ (job'[j].op = "none" /\ job'[j].on = {} /\ job'[j].rest = {})
    BY <1>0, <1>1, AfterFacts, IdleFacts
  <2>2. job'[j].op \notin Single
    BY <2>1 DEF Single, Batch
  <2>3. job'[j].on \cup job'[j].rest \subseteq job[j].rest /\ (job'[j].op = job[j].op \/ job'[j].on \cup job'[j].rest = {})
    BY <1>0, <1>1, AfterFacts, IdleFacts
  <2>4. d \in About(j)' => d \in About(j)
    BY <2>3 DEF About
  <2>5. d \in About(j)' /\ job'[j].op \in {"install", "upgrade"} => routes'[d] # "none"
    BY <2>3, <2>4 DEF Place, About
  <2> QED BY <2>2, <2>4, <2>5 DEF Place, Halfway
<1>2. CASE job[j].op \in Single /\ d \notin job[j].on
  <2>1. job'[j].on \subseteq job[j].on /\ job'[j].rest = {}
    BY <1>0, <1>2, AfterFacts, IdleFacts
  <2> QED BY <1>2, <2>1 DEF Place, Halfway, About
<1> QED BY <1>0, <1>1, <1>2

\* A command that is idle has no place.
LEMMA PlaceIdle ==
  ASSUME NEW j \in Jobs, NEW d \in Domains, job'[j] = Idle
  PROVE  Place(j, d)' /\ ~Halfway(j, d)' /\ ~(d \in About(j)')
BY IdleFacts DEF Place, Halfway, About

\* A command begins.
LEMMA BeginKeeps ==
  ASSUME HostsInv, NEW j \in Jobs, NEW op \in Single \cup Batch, NEW e \in Domains, NEW rest \in SUBSET Domains,
         op \in Single => rest = {},
         op \in {"install", "upgrade"} => \A d \in rest \cup {e} : routes[d] # "none",
         Begin(j, op, e, rest)
  PROVE  HostsInv'
<1> DEFINE r == [Idle EXCEPT !.op = op, !.pc = "read", !.on = {e}, !.rest = rest]
<1> DEFINE why == Because({d \in rest \cup {e} : \E k \in Jobs \ {j} : d \in About(k)}, "overlap")
<1>1. r \in JobSet /\ JobShape(r) /\ r.op = op /\ r.pc = "read" /\ r.on = {e} /\ r.rest = rest /\ r.did = FALSE
  BY DEF Idle, JobSet, JobShape, Single, Batch
<1>2. job' = [job EXCEPT ![j] = r] /\ job[j].pc = "idle" /\ UNCHANGED <<file, routes>> /\ Blame(why)
  BY DEF Begin
<1> HIDE DEF r, why
<1>3. JobInv' /\ job'[j] = r /\ \A k \in Jobs : k # j => job'[k] = job[k]
  BY <1>1, <1>2, JobFrame DEF HostsInv
<1> SUFFICES ASSUME NEW d \in Domains, Clear(d)' PROVE ClearInv(d)'
  BY <1>3 DEF HostsInv
<1>4. Clear(d) /\ why[d] = {}
  BY <1>1, <1>2, <1>3, BlameFacts
<1>5. ClearInv(d) /\ JobInv
  BY <1>4 DEF HostsInv
<1>6. Agrees(file, routes, d)' <=> Agrees(file, routes, d)
  BY <1>2 DEF Agrees, Maps
<1>7. ~Halfway(j, d) /\ ~Halfway(j, d)'
  BY <1>1, <1>2, <1>3 DEF Halfway
<1>8. CASE d \in rest \cup {e}
  <2>1. \A k \in Jobs : k # j => d \notin About(k)
    BY <1>4, <1>8 DEF why, Because
  <2>2. \A k \in Jobs : k # j => d \notin About(k)' /\ ~Halfway(k, d) /\ Place(k, d)'
    BY <1>3, <2>1 DEF About, Halfway, Place
  <2>3. Agrees(file, routes, d)
    BY <1>5, <1>7, <2>2 DEF ClearInv
  <2>4. Place(j, d)'
    BY <1>1, <1>2, <1>3, <1>7, <1>8 DEF Place, About
  <2>5. OneCommand(d)'
    BY <2>2 DEF OneCommand
  <2> QED BY <1>6, <2>2, <2>3, <2>4, <2>5 DEF ClearInv
<1>9. CASE d \notin rest \cup {e}
  <2>1. d \notin About(j)' /\ Place(j, d)'
    BY <1>1, <1>3, <1>7, <1>9 DEF About, Place
  <2>2. Maps(file, d)' <=> Maps(file, d)
    BY <1>2 DEF Maps
  <2> QED BY <1>2, <1>3, <1>5, <1>7, <2>1, <2>2, QuietStep
<1> QED BY <1>8, <1>9

\* The helper has read the file.
LEMMA ReadKeeps ==
  ASSUME HostsInv, file \in SUBSET (SUBSET Domains), NEW j \in Jobs, ReadHosts(j)
  PROVE  HostsInv'
<1> DEFINE q == job[j]
<1> DEFINE w == [q EXCEPT !.copy = file, !.pc = IF Undoing(j) THEN "undo write" ELSE "write"]
<1> DEFINE r == IF Edit(j, file) = file THEN After(j) ELSE w
<1>1. q.pc \in {"read", "undo read"} /\ job' = [job EXCEPT ![j] = r] /\ UNCHANGED <<file, routes>> /\ Settle
  BY DEF ReadHosts
<1>2. JobInv
  BY DEF HostsInv
<1>3. q.pc # "idle" /\ q \in JobSet /\ JobShape(q)
  BY <1>1, <1>2, JobFacts
<1>4. /\ w \in JobSet /\ w.op = q.op /\ w.on = q.on /\ w.rest = q.rest /\ w.did = q.did
      /\ w.pc = IF Undoing(j) THEN "undo write" ELSE "write"
  <2> DEFINE pc == IF Undoing(j) THEN "undo write" ELSE "write"
  <2>1. pc \in {"read", "write", "call", "undo read", "undo write"} /\ w = [q EXCEPT !.copy = file, !.pc = pc]
    OBVIOUS
  <2> HIDE DEF pc
  <2>2. w \in JobSet /\ w.op = q.op /\ w.on = q.on /\ w.rest = q.rest /\ w.did = q.did /\ w.pc = pc
    <3> HIDE DEF w, q
    <3> QED BY <1>3, <2>1 DEF JobSet
  <2> QED BY <2>2 DEF pc
<1> HIDE DEF w, r
<1>5. JobShape(w)
  BY <1>1, <1>3, <1>4, AddsFacts DEF JobShape, Single, Batch
<1>6. r \in JobSet /\ JobShape(r)
  <2>1. After(j) \in JobSet /\ JobShape(After(j))
    <3>1. After(j) \in JobSet
      BY <1>3, AfterFacts
    <3>2. q.op \in Single \cup Batch /\ (q.op \in Single => q.op \notin Batch)
      BY <1>2, <1>3, JobFacts
    <3>3. q.op \in Single /\ ~Undoing(j) => JobShape(After(j))
      BY <1>2, <1>3, <3>2, AfterFacts, JobFacts DEF JobShape
    <3>4. q.op \in Single /\ Undoing(j) => JobShape(After(j))
      BY <1>3, AfterFacts, IdleFacts
    <3>5. q.op \in Batch => JobShape(After(j))
      BY <1>2, <1>3, <3>2, AfterFacts, IdleFacts, JobFacts DEF JobShape
    <3> QED BY <3>1, <3>2, <3>3, <3>4, <3>5
  <2> QED BY <1>4, <1>5, <2>1 DEF r
<1>7. JobInv' /\ job'[j] = r /\ \A k \in Jobs : k # j => job'[k] = job[k]
  BY <1>1, <1>2, <1>6, JobFrame
<1> SUFFICES ASSUME NEW d \in Domains, Clear(d)' PROVE ClearInv(d)'
  BY <1>7 DEF HostsInv
<1>8. CASE (\A k \in Jobs : job'[k].pc = "idle") /\ Agrees(file, routes, d)'
  BY <1>7, <1>8, AllIdle
<1>9. CASE Clear(d)
  <2>1. ClearInv(d) /\ Place(j, d)
    BY <1>9 DEF HostsInv, ClearInv
  <2>2. /\ Maps(file, d)' <=> Maps(file, d)
        /\ routes'[d] = "none" <=> routes[d] = "none"
        /\ Agrees(file, routes, d)' <=> Agrees(file, routes, d)
    BY <1>1 DEF Maps, Agrees
  <2>3. CASE d \notin q.on \/ q.op \in Batch
    <3>1. CASE r = After(j)
      <4>1. Place(j, d)' /\ ~Halfway(j, d)' /\ (d \in About(j)' => d \in About(j))
        BY <1>2, <1>3, <1>7, <2>1, <2>2, <2>3, <3>1, PlaceAfter
      <4>2. ~Halfway(j, d)
        BY <1>2, <1>3, <2>3, JobFacts DEF Halfway
      <4> QED BY <1>2, <1>7, <2>1, <2>2, <4>1, <4>2, QuietStep
    <3>2. CASE r = w
      <4>1. ~Halfway(j, d) /\ ~Halfway(j, d)' /\ (d \in About(j)' <=> d \in About(j))
        BY <1>2, <1>3, <1>4, <1>7, <2>3, <3>2, JobFacts DEF Halfway, About
      <4>2. d \in job'[j].on => job'[j].op \notin Single
        BY <1>2, <1>3, <1>4, <1>7, <2>3, <3>2, JobFacts
      <4>3. Place(j, d)'
        BY <1>4, <1>7, <2>1, <2>2, <3>2, <4>1, <4>2 DEF Place
      <4> QED BY <1>2, <1>7, <2>1, <2>2, <4>1, <4>3, QuietStep
    <3> QED BY <3>1, <3>2 DEF r
  <2>4. CASE d \in q.on /\ q.op \notin Batch
    <3>1. q.on = {d} /\ q.op \in Single /\ q.op \in {"add", "remove"} /\ d \in About(j)
      BY <1>2, <1>3, <2>4, JobFacts DEF About, Single
    <3>2. Edit(j, file) = file <=> (Maps(file, d) <=> Adds(j))
      BY <1>3, <3>1, EditFacts
    <3>3. /\ ~Undoing(j) => (Adds(j) <=> q.op = "add")
          /\ Undoing(j) => (Adds(j) <=> ~(q.op = "add"))
      BY <1>3, <3>1, AddsFacts
    <3>4. CASE q.pc = "read"
      <4>1. ~Undoing(j) /\ ~q.did /\ ~Halfway(j, d)
        BY <1>3, <3>4 DEF Undoing, JobShape, Halfway
      <4>2. Adds(j) <=> q.op = "add"
        BY <3>3, <4>1
      <4>3. Agrees(file, routes, d)
        BY <2>1, <3>1, <4>1, AgreesTillEdited
      <4>4. CASE r = After(j) /\ Edit(j, file) = file
        <5>1. r.op = q.op /\ r.pc = "call" /\ r.on = q.on /\ r.rest = {} /\ r.did = q.did
          BY <1>3, <3>1, <4>1, <4>4, AfterFacts
        <5>2. Edited(j, d)'
          BY <1>7, <2>2, <3>2, <4>1, <4>2, <4>3, <4>4, <5>1 DEF Edited
        <5>3. Place(j, d)'
          BY <1>7, <3>1, <5>1, <5>2 DEF Place
        <5> QED BY <1>2, <1>7, <2>1, <2>2, <3>1, <4>1, <5>3, QuietStep
      <4>5. CASE r = w /\ Edit(j, file) # file
        <5>1. Maps(file, d) <=> q.op = "remove"
          BY <3>1, <3>2, <4>2, <4>5
        <5>2. Place(j, d)'
          BY <1>4, <1>7, <2>2, <3>1, <4>1, <4>5, <5>1 DEF Place, Halfway
        <5> QED BY <1>2, <1>7, <2>1, <2>2, <3>1, <4>1, <5>2, QuietStep
      <4> QED BY <4>4, <4>5 DEF r
    <3>5. CASE q.pc = "undo read"
      <4>1. Undoing(j) /\ Halfway(j, d) /\ Edited(j, d)
        BY <2>1, <2>4, <3>1, <3>5 DEF Undoing, Halfway, Place
      <4>2. Adds(j) <=> ~(q.op = "add")
        BY <3>3, <4>1
      <4>3. CASE r = After(j) /\ Edit(j, file) = file
        <5>1. job'[j] = Idle
          BY <1>3, <1>7, <3>1, <4>1, <4>3, AfterFacts
        <5>2. ~q.did
          BY <3>2, <4>1, <4>2, <4>3 DEF Edited
        <5>3. Agrees(file, routes, d)
          BY <4>1, <5>2 DEF Edited
        <5> QED BY <1>2, <1>7, <2>1, <2>2, <5>1, <5>3, PlaceIdle, QuietStep
      <4>4. CASE r = w
        <5>1. job'[j].pc = "undo write" /\ job'[j].op = q.op /\ job'[j].on = q.on /\ job'[j].rest = q.rest /\ job'[j].did = q.did
          BY <1>4, <1>7, <4>1, <4>4
        <5>2. Halfway(j, d)' /\ Edited(j, d)'
          BY <2>2, <3>1, <4>1, <5>1 DEF Halfway, Edited
        <5>3. Place(j, d)'
          BY <3>1, <5>1, <5>2 DEF Place
        <5> QED BY <1>2, <1>7, <2>1, <2>2, <3>1, <5>2, <5>3, QuietStep
      <4> QED BY <4>3, <4>4 DEF r
    <3> QED BY <1>1, <3>4, <3>5
  <2> QED BY <2>3, <2>4
<1> QED BY <1>1, <1>8, <1>9, BlameFacts DEF Settle

\* What a command is after the rename.
Written(j) == [After(j) EXCEPT !.did = job[j].op \in Single /\ ~Undoing(j)]

\* A command that goes to what comes after its helper keeps its shape.
LEMMA AfterShape ==
  ASSUME JobInv, NEW j \in Jobs, job[j].pc # "idle"
  PROVE  LET r == Written(j)
         IN
         /\ r \in JobSet /\ JobShape(r) /\ r.did = (job[j].op \in Single /\ ~Undoing(j))
         /\ r.op = After(j).op /\ r.pc = After(j).pc /\ r.on = After(j).on /\ r.rest = After(j).rest
         /\ After(j) \in JobSet /\ JobShape(After(j))
<1> DEFINE a == After(j)
<1> DEFINE r == Written(j)
<1> DEFINE did == job[j].op \in Single /\ ~Undoing(j)
<1>0. r = [a EXCEPT !.did = did] /\ did \in BOOLEAN
  BY DEF Written
<1> HIDE DEF r
<1>1. job[j] \in JobSet /\ JobShape(job[j]) /\ a \in JobSet
  BY JobFacts, AfterFacts
<1>2. r \in JobSet /\ r.pc = a.pc /\ r.op = a.op /\ r.on = a.on /\ r.rest = a.rest /\ r.did = did
  <2> HIDE DEF a, did
  <2> QED BY <1>0, <1>1 DEF JobSet
<1>3. ASSUME job[j].op \in Single /\ ~Undoing(j) PROVE JobShape(r) /\ JobShape(a)
  <2>1. a.op = job[j].op /\ a.pc = "call" /\ a.on = job[j].on /\ a.rest = {}
    BY <1>1, <1>3, AfterFacts
  <2>2. job[j].op \notin Batch /\ job[j].op # "none" /\ \E d \in Domains : job[j].on = {d}
    BY <1>1, <1>3, JobFacts DEF JobShape
  <2> HIDE DEF a
  <2>3. JobShape(r) /\ JobShape(a)
    BY <1>2, <2>1, <2>2 DEF JobShape
  <2> QED BY <2>3 DEF a
<1>4. ASSUME a = Idle PROVE JobShape(r) /\ JobShape(a)
  <2>1. ~did
    BY <1>1, <1>4, AfterFacts, IdleFacts
  <2>3. did = FALSE
    BY <2>1
  <2>4. r = [Idle EXCEPT !.did = FALSE]
    BY <1>0, <1>4, <2>3, Zenon
  <2>2. r = Idle
    BY <2>4 DEF Idle
  <2> QED BY <1>4, <2>2, IdleFacts
<1>5. ASSUME job[j].op \in Batch /\ a # Idle PROVE JobShape(r) /\ JobShape(a)
  <2>1. a.op = job[j].op /\ a.pc = "read" /\ a.did = job[j].did /\ \E d \in Domains : a.on = {d}
    BY <1>1, <1>5, AfterFacts
  <2>2. job[j].op \notin Single /\ ~job[j].did /\ job[j].op # "none"
    BY <1>1, <1>5, JobFacts DEF JobShape
  <2>3. ~did
    BY <2>2
  <2> HIDE DEF a
  <2>4. JobShape(r) /\ JobShape(a)
    BY <1>2, <2>1, <2>2, <2>3 DEF JobShape
  <2> QED BY <2>4 DEF a
<1>6. job[j].op \in Single /\ Undoing(j) => a = Idle
  BY <1>1, AfterFacts
<1>7. job[j].op \in Single \cup Batch
  BY JobFacts
<1>8. JobShape(r) /\ JobShape(a)
  BY <1>3, <1>4, <1>5, <1>6, <1>7
<1> QED BY <1>1, <1>2, <1>8 DEF r

\* The helper renames its copy over the file.
LEMMA WriteKeeps ==
  ASSUME HostsInv, file \in SUBSET (SUBSET Domains), NEW j \in Jobs, WriteHosts(j)
  PROVE  HostsInv'
<1> DEFINE q == job[j]
<1> DEFINE copy == job[j].copy
<1> DEFINE next == Edit(j, copy)
<1> DEFINE did == job[j].op \in Single /\ ~Undoing(j)
<1> DEFINE r == Written(j)
<1> DEFINE own  == CASE job[j].op = "uninstall" -> {"uninstall"}
                     [] Undoing(j) /\ ~job[j].did -> {"undo"}
                     [] OTHER -> {}
<1> DEFINE others(d) == {s \in {"lost", "line"} :
                           \/ s = "lost" /\ Maps(file, d) # Maps(copy, d)
                           \/ s = "line" /\ Maps(copy, d) # Maps(next, d)}
<1> DEFINE why == [d \in Domains |-> IF d \in job[j].on THEN own ELSE others(d)]
<1>1. /\ q.pc \in {"write", "undo write"} /\ file' = next /\ job' = [job EXCEPT ![j] = r]
      /\ UNCHANGED routes /\ Blame(why)
  BY DEF WriteHosts, Written
<1>2. JobInv /\ q.pc # "idle" /\ did \in BOOLEAN
  BY <1>1 DEF HostsInv
<1>3. q \in JobSet /\ JobShape(q) /\ copy \in SUBSET (SUBSET Domains) /\ q.did \in BOOLEAN
  BY <1>2, JobFacts
<1>4. /\ r \in JobSet /\ JobShape(r) /\ r.did = did
      /\ r.op = After(j).op /\ r.pc = After(j).pc /\ r.on = After(j).on /\ r.rest = After(j).rest
  BY <1>2, AfterShape
<1> HIDE DEF r
<1>5. JobInv' /\ job'[j] = r /\ \A k \in Jobs : k # j => job'[k] = job[k]
  BY <1>1, <1>2, <1>4, JobFrame
<1> SUFFICES ASSUME NEW d \in Domains, Clear(d)' PROVE ClearInv(d)'
  BY <1>5 DEF HostsInv
<1> HIDE DEF why, next
<1>6. CASE (\A k \in Jobs : job'[k].pc = "idle") /\ Agrees(file, routes, d)'
  BY <1>5, <1>6, AllIdle
<1>7. CASE Clear(d) /\ why[d] = {}
  <2>1. ClearInv(d) /\ Place(j, d)
    BY <1>7 DEF HostsInv, ClearInv
  <2>2. routes'[d] = "none" <=> routes[d] = "none"
    BY <1>1
  <2>3. CASE d \notin q.on
    <3>1. others(d) = {}
      BY <1>7, <2>3 DEF why
    <3>2. Maps(file, d) = Maps(copy, d) /\ Maps(copy, d) = Maps(next, d)
      BY <3>1
    <3>3. Maps(file, d)' = Maps(next, d)
      BY <1>1 DEF Maps
    <3>4. Place(j, d)' /\ ~Halfway(j, d)' /\ (d \in About(j)' => d \in About(j))
      BY <1>2, <1>4, <1>5, <2>1, <2>2, <2>3, PlaceAfter
    <3>5. ~Halfway(j, d)
      BY <2>3 DEF Halfway
    <3> QED BY <1>2, <1>5, <2>1, <2>2, <3>2, <3>3, <3>4, <3>5, QuietStep
  <2>4. CASE d \in q.on
    <3>1. q.on = {d} /\ d \in About(j)
      BY <1>2, <2>4, JobFacts DEF About
    <3>2. own = {}
      BY <1>7, <2>4 DEF why
    <3>3. Maps(file, d)' <=> Adds(j)
      <4>1. Maps(next, d) <=> Adds(j)
        BY <1>3, <3>1, EditFacts DEF next
      <4> QED BY <1>1, <4>1 DEF Maps
    <3>4. q.op # "uninstall" /\ (Undoing(j) => q.did)
      BY <3>2
    <3>5. q.op \in Single \/ q.op \in {"install", "upgrade"}
      BY <1>2, <3>4, JobFacts DEF Batch
    <3>6. CASE q.op \in Single /\ ~Undoing(j)
      <4>1. q.pc = "write" /\ ~Halfway(j, d)
        BY <1>1, <3>6 DEF Undoing, Halfway
      <4>2. Agrees(file, routes, d) /\ (Maps(file, d) <=> q.op = "remove")
        BY <2>1, <2>4, <3>1, <3>6, <4>1, AgreesTillEdited DEF Place
      <4>3. r.op = q.op /\ r.pc = "call" /\ r.on = q.on /\ r.rest = {} /\ r.did = TRUE
        BY <1>3, <1>4, <3>6, <1>2, AfterFacts
      <4>4. Maps(file, d)' <=> q.op = "add"
        BY <1>3, <3>3, <3>6, AddsFacts
      <4>5. q.op = "remove" <=> ~(q.op = "add")
        BY <3>6 DEF Single
      <4>6. ~Agrees(file, routes, d)'
        BY <2>2, <4>2, <4>4, <4>5 DEF Agrees, Maps
      <4>7. Edited(j, d)'
        BY <1>5, <4>3, <4>4, <4>6 DEF Edited
      <4>8. Halfway(j, d)' /\ Place(j, d)'
        BY <1>5, <2>4, <3>6, <4>3, <4>7 DEF Halfway, Place, Single
      <4> QED BY <1>2, <1>5, <2>1, <3>1, <4>8, OwnStep
    <3>7. CASE q.op \in Single /\ Undoing(j)
      <4>1. job'[j] = Idle
        <5>1. r.pc = "idle"
          BY <1>2, <1>3, <1>4, <3>7, AfterFacts, IdleFacts
        <5> QED BY <1>4, <1>5, <5>1 DEF JobShape
      <4>2. Edited(j, d) /\ q.did
        BY <2>1, <2>4, <3>4, <3>7 DEF Place, Halfway, Undoing
      <4>3. ~Agrees(file, routes, d) /\ (Maps(file, d) <=> q.op = "add")
        BY <4>2 DEF Edited
      <4>4. Maps(file, d)' <=> q.op = "remove"
        BY <1>3, <3>3, <3>7, AddsFacts
      <4>5. q.op = "remove" <=> ~(q.op = "add")
        BY <3>7 DEF Single
      <4>6. Agrees(file, routes, d)'
        BY <2>2, <4>3, <4>4, <4>5 DEF Agrees, Maps
      <4> QED BY <1>2, <1>5, <2>1, <3>1, <4>1, <4>6, PlaceIdle, OwnStep
    <3>8. CASE q.op \in {"install", "upgrade"}
      <4>1. q.op \in Batch /\ ~Undoing(j)
        BY <1>2, <3>8, JobFacts DEF Batch
      <4>2. Maps(file, d)'
        BY <1>3, <3>3, <3>8, <4>1, AddsFacts
      <4>3. routes[d] # "none"
        BY <2>1, <3>1, <3>8 DEF Place
      <4>4. Agrees(file, routes, d)'
        BY <2>2, <4>2, <4>3 DEF Agrees, Maps
      <4>5. Place(j, d)' /\ ~Halfway(j, d)'
        BY <1>2, <1>4, <1>5, <2>1, <2>2, <4>1, PlaceAfter
      <4> QED BY <1>2, <1>5, <2>1, <3>1, <4>4, <4>5, OwnStep
    <3> QED BY <3>5, <3>6, <3>7, <3>8
  <2> QED BY <2>3, <2>4
<1> QED BY <1>1, <1>6, <1>7, BlameFacts

\* A helper fails.
LEMMA FailKeeps ==
  ASSUME HostsInv, NEW j \in Jobs, HelperFails(j)
  PROVE  HostsInv'
<1> DEFINE q == job[j]
<1> DEFINE r == IF q.op \in Single THEN Idle ELSE After(j)
<1>1. /\ q.pc \in {"read", "write", "undo read", "undo write"} /\ job' = [job EXCEPT ![j] = r]
      /\ UNCHANGED <<file, routes>>
      /\ IF Undoing(j) THEN BlameFor(j, "cut") ELSE Settle
  BY DEF HelperFails
<1>2. JobInv /\ q.pc # "idle"
  BY <1>1 DEF HostsInv
<1>3. r \in JobSet /\ JobShape(r)
  BY <1>2, AfterShape, IdleFacts
<1> HIDE DEF r
<1>4. JobInv' /\ job'[j] = r /\ \A k \in Jobs : k # j => job'[k] = job[k]
  BY <1>1, <1>2, <1>3, JobFrame
<1> SUFFICES ASSUME NEW d \in Domains, Clear(d)' PROVE ClearInv(d)'
  BY <1>4 DEF HostsInv
<1>5. CASE (\A k \in Jobs : job'[k].pc = "idle") /\ Agrees(file, routes, d)'
  BY <1>4, <1>5, AllIdle
<1>6. CASE Clear(d) /\ (Undoing(j) => d \notin q.on)
  <2>1. ClearInv(d) /\ Place(j, d)
    BY <1>6 DEF HostsInv, ClearInv
  <2>2. /\ Maps(file, d)' <=> Maps(file, d)
        /\ routes'[d] = "none" <=> routes[d] = "none"
    BY <1>1 DEF Maps
  <2>3. ~Halfway(j, d)
    BY <1>1, <1>6 DEF Halfway, Undoing
  <2>4. Place(j, d)' /\ ~Halfway(j, d)' /\ (d \in About(j)' => d \in About(j))
    <3>1. CASE q.op \in Single
      BY <1>4, <3>1, PlaceIdle DEF r
    <3>2. CASE q.op \notin Single
      <4>1. q.op \in Batch
        BY <1>2, <3>2, JobFacts
      <4> QED BY <1>2, <1>4, <2>1, <2>2, <3>2, <4>1, PlaceAfter DEF r
    <3> QED BY <3>1, <3>2
  <2> QED BY <1>2, <1>4, <2>1, <2>2, <2>3, <2>4, QuietStep
<1>7. Undoing(j) /\ d \in q.on => Because(q.on, "cut")[d] # {}
  BY DEF Because
<1> QED BY <1>1, <1>5, <1>6, <1>7, BlameFacts DEF Settle, BlameFor

\* The command ends where it is.
LEMMA InterruptKeeps ==
  ASSUME HostsInv, NEW j \in Jobs, Interrupt(j)
  PROVE  HostsInv'
<1> DEFINE q == job[j]
<1>1. /\ q.pc # "idle" /\ job' = [job EXCEPT ![j] = Idle] /\ UNCHANGED <<file, routes>>
      /\ IF q.op \in Single THEN BlameFor(j, "cut") ELSE Settle
  BY DEF Interrupt
<1>2. JobInv
  BY DEF HostsInv
<1>3. JobInv' /\ job'[j] = Idle /\ \A k \in Jobs : k # j => job'[k] = job[k]
  BY <1>1, <1>2, IdleFacts, JobFrame
<1> SUFFICES ASSUME NEW d \in Domains, Clear(d)' PROVE ClearInv(d)'
  BY <1>3 DEF HostsInv
<1>4. CASE (\A k \in Jobs : job'[k].pc = "idle") /\ Agrees(file, routes, d)'
  BY <1>3, <1>4, AllIdle
<1>5. CASE Clear(d) /\ (q.op \in Single => d \notin q.on)
  <2>1. ClearInv(d)
    BY <1>5 DEF HostsInv
  <2>2. /\ Maps(file, d)' <=> Maps(file, d)
        /\ routes'[d] = "none" <=> routes[d] = "none"
    BY <1>1 DEF Maps
  <2>3. ~Halfway(j, d)
    BY <1>5 DEF Halfway
  <2> QED BY <1>2, <1>3, <2>1, <2>2, <2>3, PlaceIdle, QuietStep
<1>6. q.op \in Single /\ d \in q.on => Because(q.on, "cut")[d] # {}
  BY DEF Because
<1> QED BY <1>1, <1>4, <1>5, <1>6, BlameFacts DEF Settle, BlameFor

\* The daemon has done what a single command asked for.
LEMMA AnsweredKeeps ==
  ASSUME HostsInv, routes \in [Domains -> {"none", "on", "off"}], NEW j \in Jobs, Answered(j) \/ AnswerLate(j)
  PROVE  HostsInv'
<1> DEFINE q == job[j]
<1>1. JobInv /\ q.pc = "call" /\ UNCHANGED file
  BY DEF HostsInv, Answered, AnswerLate, Apply
<1>2. q.op \in Single /\ q \in JobSet /\ JobShape(q)
  BY <1>1, JobFacts
<1>3. PICK e \in Domains : q.on = {e}
  BY <1>1, JobFacts
<1>4. Legal(j, e) /\ routes' = [routes EXCEPT ![e] = IF q.op = "add" THEN "on" ELSE "none"]
  BY <1>3 DEF Answered, AnswerLate, Apply
<1>5. \A d \in Domains : d # e => routes'[d] = routes[d]
  BY <1>4
<1>6. routes'[e] # "none" <=> q.op = "add"
  BY <1>4
<1>7. ASSUME Answered(j) PROVE HostsInv'
  <2>1. job' = [job EXCEPT ![j] = Idle] /\ Settle
    BY <1>7 DEF Answered
  <2>2. JobInv' /\ job'[j] = Idle /\ \A k \in Jobs : k # j => job'[k] = job[k]
    BY <1>1, <2>1, IdleFacts, JobFrame
  <2> SUFFICES ASSUME NEW d \in Domains, Clear(d)' PROVE ClearInv(d)'
    BY <2>2 DEF HostsInv
  <2>3. CASE (\A k \in Jobs : job'[k].pc = "idle") /\ Agrees(file, routes, d)'
    BY <2>2, <2>3, AllIdle
  <2>4. CASE Clear(d)
    <3>1. ClearInv(d) /\ Place(j, d)
      BY <2>4 DEF HostsInv, ClearInv
    <3>2. Maps(file, d)' <=> Maps(file, d)
      BY <1>1 DEF Maps
    <3>3. CASE d # e
      <4>1. ~Halfway(j, d) /\ (routes'[d] = "none" <=> routes[d] = "none")
        BY <1>3, <1>5, <3>3 DEF Halfway
      <4> QED BY <1>1, <2>2, <3>1, <3>2, <4>1, PlaceIdle, QuietStep
    <3>4. CASE d = e
      <4>1. d \in About(j) /\ Edited(j, d)
        BY <1>1, <1>2, <1>3, <3>1, <3>4 DEF About, Place, Halfway
      <4>2. Agrees(file, routes, d)'
        BY <1>1, <1>6, <3>2, <3>4, <4>1 DEF Edited, Agrees, Maps
      <4> QED BY <1>1, <2>2, <3>1, <4>1, <4>2, PlaceIdle, OwnStep
    <3> QED BY <3>3, <3>4
  <2> QED BY <2>1, <2>3, <2>4, BlameFacts DEF Settle
<1>8. ASSUME AnswerLate(j) PROVE HostsInv'
  <2> DEFINE r == [q EXCEPT !.pc = "undo read"]
  <2>1. job' = [job EXCEPT ![j] = r] /\ BlameFor(j, "late")
    BY <1>8 DEF AnswerLate
  <2>2. /\ r \in JobSet /\ r.pc = "undo read" /\ r.op = q.op /\ r.on = q.on /\ r.rest = q.rest
        /\ r.did = q.did
    <3> HIDE DEF q
    <3> QED BY <1>2 DEF JobSet
  <2> HIDE DEF r
  <2>3. JobShape(r)
    BY <1>1, <1>2, <1>3, <2>2 DEF JobShape, Single, Batch
  <2>4. JobInv' /\ job'[j] = r /\ \A k \in Jobs : k # j => job'[k] = job[k]
    BY <1>1, <2>1, <2>2, <2>3, JobFrame
  <2> SUFFICES ASSUME NEW d \in Domains, Clear(d)' PROVE ClearInv(d)'
    BY <2>4 DEF HostsInv
  <2>5. Clear(d) /\ Because(q.on, "late")[d] = {}
    BY <2>1, <2>2, <2>4, BlameFacts DEF BlameFor
  <2>6. d # e
    BY <1>3, <2>5 DEF Because
  <2>7. ClearInv(d) /\ Place(j, d)
    BY <2>5 DEF HostsInv, ClearInv
  <2>8. Maps(file, d)' <=> Maps(file, d)
    BY <1>1 DEF Maps
  <2>9. /\ ~Halfway(j, d) /\ ~Halfway(j, d)' /\ (d \in About(j)' <=> d \in About(j))
        /\ routes'[d] = "none" <=> routes[d] = "none"
    BY <1>3, <1>5, <2>2, <2>4, <2>6 DEF Halfway, About
  <2>10. Place(j, d)'
    BY <1>3, <2>2, <2>4, <2>6, <2>7, <2>9 DEF Place
  <2> QED BY <1>1, <2>4, <2>7, <2>8, <2>9, <2>10, QuietStep
<1> QED BY <1>7, <1>8

\* The request has failed and the command undoes its edit.
LEMMA RequestFailsKeeps ==
  ASSUME HostsInv, NEW j \in Jobs, RequestFails(j)
  PROVE  HostsInv'
<1> DEFINE q == job[j]
<1> DEFINE r == [q EXCEPT !.pc = "undo read"]
<1>1. JobInv /\ q.pc = "call" /\ job' = [job EXCEPT ![j] = r] /\ UNCHANGED <<file, routes>> /\ Settle
  BY DEF HostsInv, RequestFails
<1>2. q.op \in Single /\ q \in JobSet /\ JobShape(q) /\ \E e \in Domains : q.on = {e}
  BY <1>1, JobFacts
<1>3. /\ r \in JobSet /\ r.pc = "undo read" /\ r.op = q.op /\ r.on = q.on /\ r.rest = q.rest
      /\ r.did = q.did
  <2> HIDE DEF q
  <2> QED BY <1>2 DEF JobSet
<1> HIDE DEF r
<1>4. JobShape(r)
  BY <1>1, <1>2, <1>3 DEF JobShape, Single, Batch
<1>5. JobInv' /\ job'[j] = r /\ \A k \in Jobs : k # j => job'[k] = job[k]
  BY <1>1, <1>3, <1>4, JobFrame
<1> SUFFICES ASSUME NEW d \in Domains, Clear(d)' PROVE ClearInv(d)'
  BY <1>5 DEF HostsInv
<1>6. Clear(d)
  BY <1>1, <1>3, <1>5, BlameFacts DEF Settle
<1>7. ClearInv(d) /\ Place(j, d)
  BY <1>6 DEF HostsInv, ClearInv
<1>8. /\ Maps(file, d)' <=> Maps(file, d)
      /\ routes'[d] = "none" <=> routes[d] = "none"
      /\ Agrees(file, routes, d)' <=> Agrees(file, routes, d)
  BY <1>1 DEF Maps, Agrees
<1>9. (Halfway(j, d)' <=> Halfway(j, d)) /\ (d \in About(j)' <=> d \in About(j))
  BY <1>1, <1>3, <1>5 DEF Halfway, About
<1>10. Edited(j, d) => Edited(j, d)'
  BY <1>3, <1>5, <1>8 DEF Edited
<1>11. Place(j, d)'
  BY <1>3, <1>5, <1>7, <1>8, <1>9, <1>10 DEF Place
<1> QED BY <1>1, <1>5, <1>7, <1>8, <1>9, <1>11, QuietStep

\* What the daemon does by itself changes neither an entry nor whether there is
\* a route.
LEMMA DaemonKeeps ==
  ASSUME HostsInv, routes \in [Domains -> {"none", "on", "off"}],
         ServeOrStop \/ (\E e \in Domains : ToggleRoute(e)) \/ UNCHANGED hostsVars
  PROVE  HostsInv'
<1>1. UNCHANGED <<file, job, blame>>
  BY DEF ServeOrStop, ToggleRoute, hostsVars
<1>2. ASSUME NEW d \in Domains PROVE routes'[d] = "none" <=> routes[d] = "none"
  BY <1>2 DEF ServeOrStop, ToggleRoute, hostsVars
<1>3. JobInv'
  BY <1>1 DEF HostsInv, JobInv
<1>4. ASSUME NEW d \in Domains, Clear(d)' PROVE ClearInv(d)'
  <2>1. ClearInv(d)
    BY <1>1, <1>4 DEF HostsInv, Clear
  <2>2. (Agrees(file, routes, d)' <=> Agrees(file, routes, d)) /\ (Maps(file, d)' <=> Maps(file, d))
    BY <1>1, <1>2 DEF Agrees, Maps
  <2>3. OneCommand(d)'
    BY <1>1, <2>1 DEF ClearInv, OneCommand, About
  <2>4. ASSUME NEW j \in Jobs PROVE Place(j, d)' /\ (Halfway(j, d)' <=> Halfway(j, d))
    <3>1. Halfway(j, d)' <=> Halfway(j, d)
      BY <1>1 DEF Halfway
    <3>2. Edited(j, d)' <=> Edited(j, d)
      BY <1>1, <2>2 DEF Edited
    <3> QED BY <1>1, <1>2, <2>1, <2>2, <3>1, <3>2 DEF ClearInv, Place, About
  <2> QED BY <2>1, <2>2, <2>3, <2>4 DEF ClearInv
<1> QED BY <1>3, <1>4 DEF HostsInv

\* The types but for the commands'.
HostsTypes ==
  /\ file \in SUBSET (SUBSET Domains)
  /\ routes \in [Domains -> {"none", "on", "off"}]
  /\ serving \in BOOLEAN /\ started \in 0..MaxJobs
  /\ blame \in [Domains -> SUBSET Reason]

\* Blame keeps its type.
LEMMA BlameTypes ==
  ASSUME NEW why, Blame(why), \A d \in Domains : why[d] \in SUBSET Reason,
         blame \in [Domains -> SUBSET Reason]
  PROVE  blame' \in [Domains -> SUBSET Reason]
BY DEF Blame

\* A reason for some domains is one for each.
LEMMA BecauseTypes ==
  ASSUME NEW ds, NEW s \in Reason
  PROVE  \A d \in Domains : Because(ds, s)[d] \in SUBSET Reason
BY DEF Because

\* Every step keeps the types and the invariant.
LEMMA HostsStep ==
  ASSUME HostsTypes, HostsInv, [HostsNext]_hostsVars
  PROVE  HostsTypes' /\ HostsInv'
<1> USE DEF HostsTypes
<1>0. /\ {"user", "overlap", "lost", "line", "undo", "late", "cut", "uninstall"} \subseteq Reason
      /\ \A j \in Jobs : job[j].pc # "idle" => job[j].copy \in SUBSET (SUBSET Domains)
  BY JobFacts DEF Reason, HostsInv
<1>1. ASSUME NEW j \in Jobs, NEW op \in Single \cup Batch, NEW e \in Domains, NEW rest \in SUBSET Domains,
             Begin(j, op, e, rest)
      PROVE  HostsTypes'
  <2>1. started + 1 \in 0..MaxJobs
    <3>1. started < MaxJobs /\ started \in 0..MaxJobs /\ MaxJobs \in Nat
      BY <1>1, HostsAssumption DEF Begin
    <3> QED BY <3>1
  <2>2. blame' \in [Domains -> SUBSET Reason]
    BY <1>0, <1>1, BlameTypes, BecauseTypes DEF Begin
  <2> QED BY <1>1, <2>1, <2>2 DEF Begin
<1>2. ASSUME NEW j \in Jobs, NEW e \in Domains, BeginSingle(j, e) PROVE HostsTypes' /\ HostsInv'
  <2>1. PICK op \in Single : Begin(j, op, e, {})
    BY <1>2 DEF BeginSingle, BeginAdd, BeginRemove, BeginCommitAdd, BeginCommitDelete, Single
  <2>2. op \in Single \cup Batch /\ op \notin {"install", "upgrade"} /\ {} \in SUBSET Domains
    BY <2>1 DEF Single
  <2> QED BY <1>1, <2>1, <2>2, BeginKeeps
<1>3. ASSUME NEW j \in Jobs, NEW op \in Batch, BeginBatch(j, op) PROVE HostsTypes' /\ HostsInv'
  <2> DEFINE e == CHOOSE d \in BatchOf(op) : TRUE
  <2> DEFINE rest == BatchOf(op) \ {e}
  <2>1. e \in BatchOf(op) /\ Begin(j, op, e, rest)
    BY <1>3 DEF BeginBatch
  <2>2. BatchOf(op) \subseteq Domains
    BY DEF BatchOf
  <2>3. op \in {"install", "upgrade"} => \A d \in BatchOf(op) : routes[d] # "none"
    <3>1. op = "install" => \A d \in BatchOf(op) : routes[d] = "on"
      BY DEF BatchOf
    <3>2. op = "upgrade" => \A d \in BatchOf(op) : routes[d] = "on"
      BY DEF BatchOf
    <3> QED BY <3>1, <3>2
  <2>4. op \in Single \cup Batch /\ op \notin Single
    BY DEF Single, Batch
  <2> HIDE DEF e
  <2>5. e \in Domains /\ rest \in SUBSET Domains /\ rest \cup {e} = BatchOf(op)
    BY <2>1, <2>2
  <2> HIDE DEF rest
  <2>6. HostsInv'
    BY <2>1, <2>3, <2>4, <2>5, BeginKeeps
  <2> QED BY <1>1, <2>1, <2>4, <2>5, <2>6
<1>4. ASSUME NEW j \in Jobs, ReadHosts(j) PROVE HostsTypes' /\ HostsInv'
  <2>1. blame' \in [Domains -> SUBSET Reason]
    BY <1>0, <1>4, BlameTypes, BecauseTypes DEF ReadHosts, Settle
  <2> QED BY <1>4, <2>1, ReadKeeps DEF ReadHosts
<1>5. ASSUME NEW j \in Jobs, WriteHosts(j) PROVE HostsTypes' /\ HostsInv'
  <2>1. job[j].pc # "idle" /\ JobInv
    BY <1>5 DEF WriteHosts, HostsInv
  <2>2. PICK e \in Domains : job[j].on = {e}
    BY <2>1, JobFacts
  <2>3. job[j] \in JobSet /\ job[j].copy \in SUBSET (SUBSET Domains)
    BY <2>1, JobFacts
  <2>4. Edit(j, job[j].copy) \in SUBSET (SUBSET Domains)
    BY <2>2, <2>3, EditFacts
  <2> DEFINE copy == job[j].copy
  <2> DEFINE next == Edit(j, copy)
  <2> DEFINE own  == CASE job[j].op = "uninstall" -> {"uninstall"}
                       [] Undoing(j) /\ ~job[j].did -> {"undo"}
                       [] OTHER -> {}
  <2> DEFINE others(d) == {s \in {"lost", "line"} :
                             \/ s = "lost" /\ Maps(file, d) # Maps(copy, d)
                             \/ s = "line" /\ Maps(copy, d) # Maps(next, d)}
  <2> DEFINE why == [d \in Domains |-> IF d \in job[j].on THEN own ELSE others(d)]
  <2>5. Blame(why)
    BY <1>5 DEF WriteHosts
  <2>6. own \in SUBSET Reason
    BY <1>0
  <2>7. \A d \in Domains : others(d) \in SUBSET Reason
    BY <1>0
  <2> HIDE DEF own, others
  <2>8. \A d \in Domains : why[d] \in SUBSET Reason
    BY <2>6, <2>7
  <2> HIDE DEF why
  <2>9. blame' \in [Domains -> SUBSET Reason]
    BY <2>5, <2>8, BlameTypes
  <2> QED BY <1>5, <2>4, <2>9, WriteKeeps DEF WriteHosts
<1>6. ASSUME NEW j \in Jobs, HelperFails(j) PROVE HostsTypes' /\ HostsInv'
  <2>1. blame' \in [Domains -> SUBSET Reason]
    BY <1>0, <1>6, BlameTypes, BecauseTypes DEF HelperFails, Settle, BlameFor
  <2> QED BY <1>6, <2>1, FailKeeps DEF HelperFails
<1>7. ASSUME NEW j \in Jobs, CallStep(j) PROVE HostsTypes' /\ HostsInv'
  <2>1. blame' \in [Domains -> SUBSET Reason]
    BY <1>0, <1>7, BlameTypes, BecauseTypes DEF CallStep, Answered, AnswerLate, RequestFails, Settle, BlameFor
  <2>2. routes' \in [Domains -> {"none", "on", "off"}] /\ UNCHANGED <<file, serving, started>>
    BY <1>7 DEF CallStep, Answered, AnswerLate, RequestFails, Apply
  <2> QED BY <1>7, <2>1, <2>2, AnsweredKeeps, RequestFailsKeeps DEF CallStep
<1>8. ASSUME NEW j \in Jobs, Interrupt(j) PROVE HostsTypes' /\ HostsInv'
  <2>1. blame' \in [Domains -> SUBSET Reason]
    BY <1>0, <1>8, BlameTypes, BecauseTypes DEF Interrupt, Settle, BlameFor
  <2> QED BY <1>8, <2>1, InterruptKeeps DEF Interrupt
<1>9. ASSUME ServeOrStop \/ (\E e \in Domains : ToggleRoute(e)) \/ UNCHANGED hostsVars
      PROVE  HostsTypes' /\ HostsInv'
  <2>1. routes' \in [Domains -> {"none", "on", "off"}] /\ serving' \in BOOLEAN /\ UNCHANGED <<file, started, blame>>
    BY <1>9 DEF ServeOrStop, ToggleRoute, hostsVars
  <2> QED BY <1>9, <2>1, DaemonKeeps
<1> QED BY <1>2, <1>3, <1>4, <1>5, <1>6, <1>7, <1>8, <1>9 DEF HostsNext, HelperStep

\* At the start the file agrees with the routes.
LEMMA HostsStart ==
  ASSUME HostsInit
  PROVE  HostsTypes /\ HostsInv
<1>1. \A j \in Jobs : job[j] = Idle
  BY DEF HostsInit
<1>2. JobInv
  BY <1>1, IdleFacts DEF HostsInit, JobInv
<1>3. \A d \in Domains : blame[d] = IF Agrees(file, routes, d) THEN {} ELSE {"user"}
  BY DEF HostsInit
<1>4. ASSUME NEW d \in Domains, Clear(d) PROVE ClearInv(d)
  <2>1. Agrees(file, routes, d)
    BY <1>3, <1>4 DEF Clear
  <2>2. \A j \in Jobs : job[j].on = {} /\ job[j].rest = {}
    BY <1>1, IdleFacts
  <2> QED BY <2>1, <2>2 DEF ClearInv, OneCommand, About, Place, Halfway
<1>5. file \in SUBSET (SUBSET Domains)
  <2>1. PICK user \in SUBSET UserLines :
          file = user \cup {{d} : d \in {e \in Domains : routes[e] # "none" /\ ~Maps(user, e)}}
    BY DEF HostsInit
  <2>2. \A line \in user : line \subseteq Domains
    BY <2>1, HostsAssumption
  <2> QED BY <2>1, <2>2
<1>6. 0 \in 0..MaxJobs
  BY HostsAssumption
<1>7. blame \in [Domains -> SUBSET Reason]
  <2>1. blame = [d \in Domains |-> IF Agrees(file, routes, d) THEN {} ELSE {"user"}]
    BY DEF HostsInit
  <2> QED BY <2>1 DEF Reason
<1> QED BY <1>2, <1>4, <1>5, <1>6, <1>7 DEF HostsInit, HostsTypes, HostsInv

\* Every variable of the hosts file has its type.
THEOREM HostsTypeCorrect == HostsSpec => []HostsTypeOK
<1>1. HostsInit => HostsTypes /\ HostsInv
  BY HostsStart
<1>2. HostsTypes /\ HostsInv /\ [HostsNext]_hostsVars => (HostsTypes /\ HostsInv)'
  BY HostsStep
<1>3. ASSUME HostsTypes, HostsInv PROVE HostsTypeOK
  <2>1. ASSUME NEW j \in Jobs
        PROVE  /\ job[j].op \in Single \cup Batch \cup {"none"}
               /\ job[j].pc \in {"idle", "read", "write", "call", "undo read", "undo write"}
               /\ job[j].on \subseteq Domains /\ job[j].rest \subseteq Domains
               /\ job[j].copy \subseteq SUBSET Domains /\ job[j].did \in BOOLEAN
    BY <1>3, <2>1 DEF HostsInv, JobInv, JobSet
  <2>2. ASSUME NEW j \in Jobs, job[j].pc # "idle" PROVE Cardinality(job[j].on) = 1 /\ job[j].op # "none"
    <3>1. PICK d \in Domains : job[j].on = {d}
      BY <1>3, <2>2 DEF HostsInv, JobInv, JobShape
    <3>2. Cardinality({d}) = 1
      BY FS_Singleton
    <3> QED BY <1>3, <2>2, <3>1, <3>2 DEF HostsInv, JobInv, JobShape
  <2> QED BY <1>3, <2>1, <2>2 DEF HostsTypes, HostsTypeOK
<1> QED BY <1>1, <1>2, <1>3, PTL DEF HostsSpec

\* However the commands, their helpers and the daemon interleave, and whatever
\* fails: at rest an entry without its route, or a route without its entry, has
\* one of the reasons that HostsFollowRoutes names.
THEOREM HostsFollowRoutesCorrect == HostsSpec => []HostsFollowRoutes
<1>1. HostsInit => HostsTypes /\ HostsInv
  BY HostsStart
<1>2. HostsTypes /\ HostsInv /\ [HostsNext]_hostsVars => (HostsTypes /\ HostsInv)'
  BY HostsStep
<1>3. HostsInv => HostsFollowRoutes
  <2> SUFFICES ASSUME HostsInv, \A j \in Jobs : job[j].pc = "idle", NEW d \in Domains, blame[d] = {}
               PROVE  Agrees(file, routes, d)
    BY DEF HostsFollowRoutes
  <2>1. ClearInv(d)
    BY DEF HostsInv, Clear
  <2>2. \A j \in Jobs : ~Halfway(j, d)
    BY DEF Halfway
  <2> QED BY <2>1, <2>2 DEF ClearInv
<1> QED BY <1>1, <1>2, <1>3, PTL DEF HostsSpec

-----------------------------------------------------------------------------
(* The terminal UI.  An answer keeps the dialog it was given to for as long *)
(* as that dialog is open; and while the stream is connected and nothing    *)
(* has been noted, what the daemon has and the tab does not show is on its  *)
(* way.                                                                     *)

WorkSet == [op : Commits \cup {"none", "refresh", "answer"}, step : {"idle", "call", "load", "tell"},
            on : TuiNames \cup {Absent}, val : TuiValues \cup {Absent}, at : Nat, from : Dialogs,
            says : {"none", "list", "blank", "error", "yes", "no"}, why : SUBSET {"shifted", "repeated"}]

\* What a command's goroutine carries with it.
Sane(r) ==
  /\ r.step # "tell" => r.says = "none"
  /\ r.op = "answer" => r.says \in {"yes", "no"} /\ r.from.kind # "none"
  /\ r.op = "answer" /\ r.says = "yes" => r.from.kind \in {"add", "edit", "delete", "quit"}
  /\ r.op = "delete" => r.on # Absent
  /\ r.op = "delete" /\ r.why = {} => r.on = r.from.on

WorkInv ==
  /\ work \in [Senders -> WorkSet]
  /\ \A w \in Senders : Sane(work[w]) /\ work[w].at <= Now

TuiTypes ==
  /\ versions \in Seq(TuiLists) /\ Len(versions) \in 1..MaxVersions
  /\ linked \in BOOLEAN /\ events \in Nat
  /\ shown \in 0..Len(versions) /\ cursor \in Nat /\ dialog \in Dialogs
  /\ inputs \in 0..MaxInputs
  /\ busy \in BOOLEAN /\ quit \in BOOLEAN /\ shifted \in BOOLEAN /\ hasty \in BOOLEAN
  /\ behind \subseteq {"overtaken", "failed", "lost"}

\* A first answer meets its dialog, and the cursor is on the route that a
\* deletion was asked about until rows come or go.
Fresh(w) == work[w].op = "answer" /\ work[w].why = {}

DialogInv ==
  /\ \A w \in Senders : Fresh(w) => dialog = work[w].from
  /\ dialog.kind = "delete" /\ ~shifted => Selected \subseteq {dialog.on}
  /\ ~hasty

\* A load that will show the list of now, or note that it has failed.
Coming(w) ==
  /\ work[w].op = "refresh"
  /\ \/ work[w].step = "load"
     \/ work[w].says = "blank"
     \/ work[w].says = "list" /\ work[w].at = Now

ScreenInv ==
  /\ busy => \E w \in Senders : work[w].op \in Commits
  /\ linked /\ behind = {} => shown = Now \/ events > 0 \/ \E w \in Senders : Coming(w)

TuiInv == TuiTypes /\ WorkInv /\ DialogInv /\ ScreenInv

\* What is assumed of the constants.
LEMMA TuiConstants ==
  /\ TuiNames \subseteq Int /\ IsFiniteSet(TuiNames) /\ Absent \notin TuiNames /\ Absent \notin TuiValues
  /\ Listener \notin Cmds /\ MaxVersions \in Nat \ {0} /\ MaxInputs \in Nat
BY TuiAssumption

\* The records of the commands.
LEMMA NothingFacts ==
  /\ Nothing \in WorkSet /\ Sane(Nothing) /\ Nothing.at = 0 /\ Nothing.op = "none" /\ Nothing.why = {}
  /\ Nothing.step = "idle" /\ Nothing.says = "none" /\ Nothing.on = Absent /\ Nothing.val = Absent
  /\ NoDialog \in Dialogs /\ NoDialog.kind = "none"
BY DEF Nothing, WorkSet, Sane, NoDialog, Dialogs, Commits

\* The record of a load for an event, or of the first one.
LEMMA ListenRecord ==
  LET r == [Nothing EXCEPT !.op = "refresh", !.step = "load"]
  IN  r \in WorkSet /\ Sane(r) /\ r.at = 0 /\ r.op = "refresh" /\ r.step = "load"
BY DEF Nothing, NoDialog, WorkSet, Sane, Dialogs, Commits

\* A published list is added to those there are.
LEMMA PublishFacts ==
  ASSUME TuiTypes, NEW n, NEW val \in TuiValues \cup {Absent}, Publish(n, val)
  PROVE  /\ versions' \in Seq(TuiLists) /\ Now' = Now + 1 /\ Now' \in 1..MaxVersions /\ Now' \in Nat
         /\ \A v \in 1..Now : versions'[v] = versions[v]
<1>1. /\ versions \in Seq(TuiLists) /\ Len(versions) \in Nat /\ Len(versions) >= 1 /\ MaxVersions \in Nat
      /\ Len(versions) < MaxVersions
  BY TuiConstants DEF TuiTypes, Publish, Now
<1>2. Routes \in TuiLists
  BY <1>1 DEF Routes, Now
<1>3. [Routes EXCEPT ![n] = val] \in TuiLists
  BY <1>2 DEF TuiLists
<1> DEFINE r == [Routes EXCEPT ![n] = val]
<1>4. versions' = Append(versions, r)
  BY DEF Publish
<1> HIDE DEF r
<1> QED BY <1>1, <1>3, <1>4 DEF r, Now

\* The versions stay what they were.
LEMMA Kept ==
  ASSUME TuiTypes,
         UNCHANGED versions \/ \E n, val : val \in TuiValues \cup {Absent} /\ Publish(n, val)
  PROVE  /\ Now \in Nat /\ Now' \in Nat /\ Now >= 1 /\ Now <= Now' /\ Now' \in 1..MaxVersions
         /\ versions' \in Seq(TuiLists) /\ \A v \in 1..Now : versions'[v] = versions[v]
<1>1. Now \in Nat /\ Now >= 1
  BY DEF TuiTypes, Now
<1>2. CASE UNCHANGED versions
  BY <1>1, <1>2 DEF TuiTypes, Now
<1>3. CASE \E n, val : val \in TuiValues \cup {Absent} /\ Publish(n, val)
  BY <1>1, <1>3, PublishFacts
<1> QED BY <1>2, <1>3

\* A new list changes nothing of the older ones.
LEMMA ListedKept ==
  ASSUME TuiTypes, NEW v \in 0..Now, \A u \in 1..Now : versions'[u] = versions[u]
  PROVE  /\ Listed(v)' = Listed(v)
         /\ \A n : Row(n, v)' = Row(n, v)
         /\ \A c : Clamped(c, v)' = Clamped(c, v)
<1>1. Listed(v)' = Listed(v)
  <2>1. v = 0 \/ v \in 1..Now
    BY DEF TuiTypes, Now
  <2> QED BY <2>1 DEF Listed
<1>2. \A n : Row(n, v)' = Row(n, v)
  BY <1>1 DEF Row
<1>3. \A c : Clamped(c, v)' = Clamped(c, v)
  BY <1>1 DEF Clamped
<1> QED BY <1>1, <1>2, <1>3

\* Nor of the route under the cursor.
LEMMA SelectedKept ==
  ASSUME TuiTypes, \A u \in 1..Now : versions'[u] = versions[u], UNCHANGED <<shown, cursor>>
  PROVE  Selected' = Selected
<1>1. shown \in 0..Now
  BY DEF TuiTypes, Now
<1>2. /\ Listed(shown)' = Listed(shown)
      /\ \A n : Row(n, shown)' = Row(n, shown)
      /\ Clamped(cursor, shown)' = Clamped(cursor, shown)
  <2> DEFINE s == shown
  <2>1. \A v \in 0..Now : Listed(v)' = Listed(v)
    BY ListedKept
  <2>2. \A v \in 0..Now : \A n : Row(n, v)' = Row(n, v)
    BY ListedKept
  <2>3. \A v \in 0..Now : \A c : Clamped(c, v)' = Clamped(c, v)
    BY ListedKept
  <2>4. Listed(shown)' = Listed(shown)
    BY <1>1, <2>1 DEF Listed
  <2>5. \A n : Row(n, shown)' = Row(n, shown)
    BY <2>4 DEF Row
  <2>6. Clamped(cursor, shown)' = Clamped(cursor, shown)
    BY <2>4 DEF Clamped
  <2> QED BY <2>4, <2>5, <2>6
<1>3. ASSUME NEW n PROVE n \in Selected' <=> n \in Selected
  BY <1>2 DEF Selected
<1> QED BY <1>3, Zenon

\* One route is under the cursor.
LEMMA SelectedOne ==
  ASSUME NEW m \in Selected, NEW n \in Selected
  PROVE  m = n /\ m \in TuiNames
<1>1. /\ m \in Listed(shown) /\ n \in Listed(shown) /\ Row(m, shown) = Row(n, shown)
      /\ Listed(shown) \subseteq TuiNames
  BY DEF Selected, Listed
<1>2. IsFiniteSet(Listed(shown)) /\ m \in Int /\ n \in Int
  BY <1>1, TuiConstants, FS_Subset
<1>3. ASSUME NEW a \in Listed(shown), NEW b \in Listed(shown), Row(a, shown) = Row(b, shown), a < b
      PROVE  FALSE
  <2> DEFINE A == {x \in Listed(shown) : x < a}
  <2> DEFINE B == {x \in Listed(shown) : x < b}
  <2>1. a \in Int /\ b \in Int /\ \A x \in Listed(shown) : x \in Int
    BY <1>1, TuiConstants
  <2>7. ASSUME NEW x \in A PROVE x \in B
    <3>1. x \in Int /\ a \in Int /\ b \in Int /\ x < a /\ a < b /\ x \in Listed(shown)
      BY <1>3, <2>1, <2>7
    <3>2. x < b
      BY <3>1
    <3> QED BY <3>1, <3>2
  <2>8. a \in B /\ a \notin A
    <3>1. a \in Int /\ ~(a < a)
      BY <2>1
    <3> QED BY <1>3, <3>1
  <2>2. A \subseteq B /\ a \in B /\ a \notin A
    BY <2>7, <2>8
  <2>3. B \subseteq Listed(shown)
    OBVIOUS
  <2>4. Cardinality(A) = Cardinality(B)
    BY <1>3 DEF Row
  <2> HIDE DEF A, B
  <2>5. IsFiniteSet(B)
    BY <1>2, <2>3, FS_Subset
  <2>6. A = B
    BY <2>2, <2>4, <2>5, FS_Subset
  <2> QED BY <2>2, <2>6
<1>4. ~(m < n) /\ ~(n < m)
  BY <1>1, <1>3
<1> QED BY <1>1, <1>2, <1>4

\* A list is shown: the cursor stays on its route when no row comes or goes.
LEMMA ShowFacts ==
  ASSUME TuiTypes, UNCHANGED <<versions, dialog>>, NEW v \in 0..Now, Show(v)
  PROVE  /\ shown' \in 0..Now /\ cursor' \in Nat /\ shifted' \in BOOLEAN
         /\ dialog.kind = "delete" /\ ~shifted' => ~shifted /\ Selected' = Selected
<1> DEFINE L == Listed(v)
<1> DEFINE N == Cardinality(L)
<1>1. L \subseteq TuiNames /\ IsFiniteSet(L) /\ N \in Nat /\ (N = 0 <=> L = {}) /\ cursor \in Nat
  <2>1. L \subseteq TuiNames
    BY DEF Listed
  <2>2. IsFiniteSet(L)
    BY <2>1, TuiConstants, FS_Subset
  <2> HIDE DEF L
  <2> QED BY <2>1, <2>2, FS_CardinalityType, FS_EmptySet DEF TuiTypes
<1>2. shown' = v /\ cursor' = (IF L = {} THEN 0 ELSE Clamped(cursor, v))
  BY DEF Show
<1>3. /\ Clamped(cursor, v) = (IF cursor < N \/ cursor = 0 THEN cursor ELSE N - 1)
      /\ Clamped(cursor', v) = (IF cursor' < N \/ cursor' = 0 THEN cursor' ELSE N - 1)
  BY DEF Clamped
<1>4. cursor' \in Nat /\ (L # {} => cursor' = Clamped(cursor, v) /\ Clamped(cursor', v) = cursor')
  <2> HIDE DEF L, N
  <2> QED BY <1>1, <1>2, <1>3
<1>5. (dialog.kind = "delete" /\ (shifted \/ Listed(v) # Listed(shown))) \in BOOLEAN
  OBVIOUS
<1>6. shifted' \in BOOLEAN
  BY <1>5, Zenon DEF Show
<1>7. ASSUME dialog.kind = "delete", ~shifted' PROVE ~shifted /\ Selected' = Selected
  <2>1. ~shifted /\ L = Listed(shown)
    BY <1>7 DEF Show
  <2>2. Listed(v)' = L /\ \A n : Row(n, v)' = Row(n, v)
    BY DEF Listed, Clamped, Row
  <2>3. Listed(shown)' = L /\ \A n : Row(n, shown)' = Row(n, shown)
    BY <1>2, <2>1 DEF Listed, Row
  <2>4. L # {} => Clamped(cursor, shown)' = Clamped(cursor, shown)
    <3>1. Clamped(cursor, shown)' = Clamped(cursor', v)
      BY <1>2 DEF Clamped, Listed
    <3>2. Clamped(cursor, shown) = Clamped(cursor, v)
      BY <2>1 DEF Clamped
    <3> QED BY <1>4, <3>1, <3>2
  <2>5. ASSUME NEW n PROVE n \in Selected' <=> n \in Selected
    <3>1. n \in Selected' <=> n \in L /\ Row(n, shown)' = Clamped(cursor, shown)'
      BY <2>3 DEF Selected
    <3>2. n \in Selected <=> n \in L /\ Row(n, shown) = Clamped(cursor, shown)
      BY <2>1 DEF Selected
    <3> QED BY <2>3, <2>4, <3>1, <3>2
  <2> QED BY <2>1, <2>5, Zenon
<1> QED BY <1>2, <1>4, <1>6, <1>7

\* What a sender does to its record it does to no other's.
LEMMA WorkFrame ==
  ASSUME WorkInv, Now \in Nat, Now' \in Nat, Now <= Now', NEW w \in Senders, NEW r \in WorkSet, Sane(r), r.at <= Now',
         work' = [work EXCEPT ![w] = r]
  PROVE  /\ WorkInv' /\ work'[w] = r
         /\ \A v \in Senders : v # w => work'[v] = work[v]
<1>1. /\ work' \in [Senders -> WorkSet] /\ work'[w] = r
      /\ \A v \in Senders : v # w => work'[v] = work[v]
  BY DEF WorkInv
<1>2. ASSUME NEW v \in Senders, v # w PROVE Sane(work'[v]) /\ work'[v].at <= Now'
  <2>1. work[v].at \in Nat
    BY DEF WorkInv, WorkSet
  <2> QED BY <1>1, <1>2, <2>1 DEF WorkInv
<1> QED BY <1>1, <1>2 DEF WorkInv

\* One sender moves and the dialog stays: the answers meet it as before.
LEMMA DialogFrame ==
  ASSUME DialogInv, NEW w \in Senders, \A v \in Senders : v # w => work'[v] = work[v],
         UNCHANGED <<dialog, hasty>>, Fresh(w)' => dialog = work'[w].from,
         dialog.kind = "delete" /\ ~shifted' => ~shifted /\ Selected' = Selected
  PROVE  DialogInv'
<1>1. ASSUME NEW v \in Senders, Fresh(v)' PROVE dialog' = work'[v].from
  <2>1. CASE v = w
    BY <1>1, <2>1
  <2>2. CASE v # w
    <3>1. Fresh(v)
      BY <1>1, <2>2 DEF Fresh
    <3> QED BY <2>2, <3>1 DEF DialogInv
  <2> QED BY <2>1, <2>2
<1>2. dialog'.kind = "delete" /\ ~shifted' => Selected' \subseteq {dialog'.on}
  BY DEF DialogInv
<1> QED BY <1>1, <1>2 DEF DialogInv

\* A commit stays a commit while the spinner turns.
LEMMA BusyFrame ==
  ASSUME ScreenInv, NEW w \in Senders, \A v \in Senders : v # w => work'[v].op = work[v].op,
         busy' => busy \/ work'[w].op \in Commits,
         busy' /\ work[w].op \in Commits => work'[w].op \in Commits
  PROVE  busy' => \E v \in Senders : work'[v].op \in Commits
<1> SUFFICES ASSUME busy', work'[w].op \notin Commits PROVE \E v \in Senders : work'[v].op \in Commits
  OBVIOUS
<1>1. PICK v \in Senders : work[v].op \in Commits
  BY DEF ScreenInv
<1>2. v # w
  BY <1>1
<1> QED BY <1>1, <1>2

\* What is on its way stays so.
LEMMA ComingFrame ==
  ASSUME ScreenInv, NEW w \in Senders, \A v \in Senders : v # w => work'[v] = work[v],
         linked' /\ behind' = {} =>
           /\ linked /\ behind = {} /\ Now' = Now /\ events' = events /\ (shown = Now => shown' = Now)
           /\ Coming(w) => Coming(w)' \/ shown' = Now
  PROVE  linked' /\ behind' = {} => shown' = Now' \/ events' > 0 \/ \E v \in Senders : Coming(v)'
<1> SUFFICES ASSUME linked', behind' = {}, shown' # Now, ~(events' > 0)
             PROVE  \E v \in Senders : Coming(v)'
  OBVIOUS
<1>1. PICK v \in Senders : Coming(v)
  BY DEF ScreenInv
<1>2. CASE v = w
  BY <1>1, <1>2
<1>3. CASE v # w
  BY <1>1, <1>3 DEF Coming
<1> QED BY <1>2, <1>3

\* Inputs are counted up to their bound.
LEMMA InputFacts ==
  ASSUME TuiTypes, Input \/ UNCHANGED inputs
  PROVE  inputs' \in 0..MaxInputs
<1>1. inputs \in 0..MaxInputs /\ MaxInputs \in Nat
  BY TuiConstants DEF TuiTypes
<1> QED BY <1>1 DEF Input

\* No first answer waits while no dialog is open.
LEMMA NoneFresh ==
  ASSUME WorkInv, DialogInv, dialog = NoDialog, NEW w \in Senders
  PROVE  ~Fresh(w)
<1>1. NoDialog.kind = "none" /\ Sane(work[w])
  BY NothingFacts DEF WorkInv
<1>2. ASSUME Fresh(w) PROVE FALSE
  <2>1. work[w].from = NoDialog /\ work[w].op = "answer"
    BY <1>2 DEF DialogInv, Fresh
  <2>2. work[w].from.kind = "none"
    BY <1>1, <2>1
  <2> QED BY <1>1, <2>1, <2>2 DEF Sane
<1> QED BY <1>2

\* A dialog is opened.
LEMMA OpenKeeps ==
  ASSUME TuiInv, NEW kind \in {"add", "edit", "delete", "quit", "help"}, NEW on \in TuiNames \cup {Absent},
         kind = "delete" => on \in Selected, Open(kind, on)
  PROVE  TuiInv'
<1>1. /\ dialog = NoDialog /\ dialog' = [kind |-> kind, on |-> on] /\ shifted' = FALSE /\ Input
      /\ UNCHANGED <<versions, linked, events, work, shown, cursor, behind, busy, quit, hasty>>
  BY DEF Open, AtTable, daemonSide
<1>2. TuiTypes'
  <2>1. dialog' \in Dialogs /\ inputs' \in 0..MaxInputs
    BY <1>1, InputFacts DEF Dialogs, TuiInv
  <2> QED BY <1>1, <2>1 DEF TuiInv, TuiTypes
<1>3. WorkInv'
  BY <1>1 DEF TuiInv, WorkInv, Now
<1>4. DialogInv'
  <2>1. \A w \in Senders : ~Fresh(w)'
    BY <1>1, NoneFresh DEF Fresh, TuiInv
  <2>2. Selected' = Selected
    BY <1>1, SelectedKept DEF TuiInv
  <2>3. dialog'.kind = kind /\ dialog'.on = on
    BY <1>1
  <2>4. kind = "delete" => Selected' \subseteq {on}
    BY <2>2, SelectedOne
  <2> QED BY <1>1, <2>1, <2>3, <2>4 DEF DialogInv, TuiInv
<1>5. ScreenInv'
  BY <1>1 DEF TuiInv, ScreenInv, Coming, Now
<1> QED BY <1>2, <1>3, <1>4, <1>5 DEF TuiInv

\* Moving the cursor keeps the invariant: no dialog is open.
LEMMA MoveCursorKeeps ==
  ASSUME TuiInv, NEW c \in 0..Cardinality(TuiNames), MoveCursor(c)
  PROVE  TuiInv'
<1>1. /\ dialog = NoDialog /\ cursor' = c /\ Input
      /\ UNCHANGED <<versions, linked, events, work, shown, dialog, behind, shifted, busy, quit, hasty>>
  BY DEF MoveCursor, AtTable, daemonSide
<1>2. TuiTypes'
  <2>1. c \in Nat /\ inputs' \in 0..MaxInputs
    BY <1>1, InputFacts, TuiConstants, FS_CardinalityType DEF TuiInv
  <2> QED BY <1>1, <2>1 DEF TuiInv, TuiTypes
<1>3. WorkInv'
  BY <1>1 DEF TuiInv, WorkInv, Now
<1>4. DialogInv'
  <2>1. \A w \in Senders : ~Fresh(w)'
    BY <1>1, NoneFresh DEF Fresh, TuiInv
  <2> QED BY <1>1, <2>1, NothingFacts DEF DialogInv, TuiInv
<1>5. ScreenInv'
  BY <1>1 DEF TuiInv, ScreenInv, Coming, Now
<1> QED BY <1>2, <1>3, <1>4, <1>5 DEF TuiInv

\* A command starts: a commit, an answer, the listener's load.
LEMMA StartKeeps ==
  ASSUME TuiInv, NEW w \in Senders, work[w] = Nothing, NEW r \in WorkSet, Sane(r), r.at = 0,
         Start(w, r), r.op = "answer" => r.from = dialog,
         Input \/ UNCHANGED inputs, UNCHANGED <<versions, linked, listSide, dialog, quit, hasty>>,
         busy' \in BOOLEAN, busy' => busy \/ r.op \in Commits,
         events' \in Nat, events' = events \/ (r.op = "refresh" /\ r.step = "load")
  PROVE  TuiInv'
<1>1. UNCHANGED <<shown, cursor, behind, shifted>> /\ work' = [work EXCEPT ![w] = r] /\ Now' = Now
  BY DEF listSide, Start, Now
<1>2. TuiTypes'
  <2>1. inputs' \in 0..MaxInputs
    BY InputFacts DEF TuiInv
  <2> QED BY <1>1, <2>1 DEF TuiInv, TuiTypes
<1>3. WorkInv' /\ work'[w] = r /\ \A v \in Senders : v # w => work'[v] = work[v]
  <2>1. Now \in Nat /\ 0 <= Now
    BY DEF TuiInv, TuiTypes, Now
  <2>2. Now' \in Nat /\ Now <= Now' /\ r.at <= Now'
    BY <1>1, <2>1
  <2> QED BY <1>1, <2>1, <2>2, WorkFrame DEF TuiInv
<1>4. DialogInv'
  <2>1. Selected' = Selected
    BY <1>1, SelectedKept DEF TuiInv
  <2>2. Fresh(w)' => dialog = work'[w].from
    BY <1>3 DEF Fresh
  <2> QED BY <1>1, <1>3, <2>1, <2>2, DialogFrame DEF TuiInv
<1>5. work[w].op = "none" /\ ~Coming(w) /\ work[w].op \notin Commits
  BY NothingFacts DEF Coming, Commits
<1>6. busy' => \E v \in Senders : work'[v].op \in Commits
  BY <1>3, <1>5, BusyFrame DEF TuiInv
<1>7. linked' /\ behind' = {} => shown' = Now' \/ events' > 0 \/ \E v \in Senders : Coming(v)'
  <2>1. CASE events' = events
    BY <1>1, <1>3, <1>5, <2>1, ComingFrame DEF TuiInv
  <2>2. CASE r.op = "refresh" /\ r.step = "load"
    <3>1. Coming(w)'
      BY <1>3, <2>2 DEF Coming
    <3> QED BY <3>1
  <2> QED BY <2>1, <2>2
<1> QED BY <1>2, <1>3, <1>4, <1>6, <1>7 DEF TuiInv, ScreenInv

\* Asking for a toggle keeps the invariant.
LEMMA ToggleKeeps ==
  ASSUME TuiInv, NEW w \in Cmds, NEW val \in TuiValues, Toggle(w, val)
  PROVE  TuiInv'
<1>1. PICK n \in Selected : Start(w, [Nothing EXCEPT !.op = "set", !.step = "call", !.on = n, !.val = val])
  BY DEF Toggle
<1> DEFINE r == [Nothing EXCEPT !.op = "set", !.step = "call", !.on = n, !.val = val]
<1>2. n \in TuiNames
  BY SelectedOne
<1>3. r \in WorkSet /\ Sane(r) /\ r.at = 0 /\ r.op = "set" /\ r.op \in Commits
  BY <1>2 DEF Nothing, NoDialog, WorkSet, Sane, Dialogs, Commits
<1>4. Start(w, r)
  BY <1>1
<1> HIDE DEF r
<1>5. /\ w \in Senders /\ work[w] = Nothing /\ Input /\ busy' = TRUE
      /\ UNCHANGED <<versions, linked, listSide, dialog, quit, hasty, events>> /\ events' \in Nat
  BY DEF Toggle, Free, Senders, daemonSide, TuiInv, TuiTypes
<1> QED BY <1>3, <1>4, <1>5, StartKeeps

\* Answering a dialog keeps the invariant: the dialog is still the one on top.
LEMMA AnswerKeeps ==
  ASSUME TuiInv, NEW w \in Cmds, NEW kinds \in SUBSET {"add", "edit", "delete", "quit", "help"},
         NEW says \in {"yes", "no"}, says = "yes" => kinds \subseteq {"add", "edit", "delete", "quit"},
         NEW on \in TuiNames \cup {Absent}, NEW val \in TuiValues \cup {Absent}, Answer(w, kinds, says, on, val)
  PROVE  TuiInv'
<1> DEFINE r == [Nothing EXCEPT !.op = "answer", !.step = "tell", !.on = on, !.val = val,
                                !.from = dialog, !.says = says]
<1>1. dialog \in Dialogs /\ dialog.kind \in kinds /\ dialog.kind # "none"
  BY DEF Answer, TuiInv, TuiTypes
<1>2. r \in WorkSet /\ Sane(r) /\ r.at = 0 /\ r.op = "answer" /\ r.from = dialog
  BY <1>1 DEF Nothing, WorkSet, Sane, Commits
<1>3. /\ w \in Senders /\ work[w] = Nothing /\ Input /\ Start(w, r)
      /\ UNCHANGED <<versions, linked, listSide, dialog, busy, quit, hasty, events>>
      /\ events' \in Nat /\ busy' \in BOOLEAN
  BY DEF Answer, Free, Senders, daemonSide, TuiInv, TuiTypes
<1> HIDE DEF r
<1> QED BY <1>2, <1>3, StartKeeps

\* Taking an event keeps the invariant: the load it starts shows what is new.
LEMMA ListenKeeps ==
  ASSUME TuiInv, Listen
  PROVE  TuiInv'
<1> DEFINE r == [Nothing EXCEPT !.op = "refresh", !.step = "load"]
<1>1. r \in WorkSet /\ Sane(r) /\ r.at = 0 /\ r.op = "refresh" /\ r.step = "load"
  BY ListenRecord
<1>2. events \in Nat /\ events > 0 /\ events' = events - 1 /\ events' \in Nat
  <2>1. events \in Nat /\ events > 0 /\ events' = events - 1
    BY DEF Listen, TuiInv, TuiTypes
  <2> QED BY <2>1
<1>3. /\ Listener \in Senders /\ work[Listener] = Nothing /\ Start(Listener, r)
      /\ UNCHANGED <<versions, linked, listSide, dialog, busy, quit, hasty, inputs>> /\ busy' \in BOOLEAN
  BY DEF Listen, ScreenStays, Senders, TuiInv, TuiTypes
<1> HIDE DEF r
<1> QED BY <1>1, <1>2, <1>3, StartKeeps


\* A list arrives.
LEMMA ListArrivesKeeps ==
  ASSUME TuiInv, NEW w \in Senders, ListArrives(w)
  PROVE  TuiInv'
<1> DEFINE v == work[w].at
<1>1. /\ work[w].says = "list" /\ Show(v) /\ busy' = FALSE
      /\ behind' = (IF v = Now THEN {} ELSE behind) \cup (IF v < shown THEN {"overtaken"} ELSE {})
      /\ work' = [work EXCEPT ![w] = Nothing]
      /\ UNCHANGED <<versions, linked, events, dialog, quit, inputs, hasty>>
  BY DEF ListArrives, daemonSide
<1>2. Now \in Nat /\ Now >= 1 /\ Now' = Now /\ shown \in 0..Now
  BY <1>1 DEF TuiInv, TuiTypes, Now
<1>3. v \in Nat /\ v <= Now /\ v \in 0..Now
  <2>1. v \in Nat /\ v <= Now
    BY DEF TuiInv, WorkInv, WorkSet
  <2> QED BY <1>2, <2>1
<1> HIDE DEF v
<1>4. /\ shown' \in 0..Now /\ cursor' \in Nat /\ shifted' \in BOOLEAN /\ shown' = v
      /\ dialog.kind = "delete" /\ ~shifted' => ~shifted /\ Selected' = Selected
  BY <1>1, <1>3, ShowFacts DEF TuiInv, Show
<1>5. TuiTypes'
  <2>1. behind' \subseteq {"overtaken", "failed", "lost"}
    BY <1>1 DEF TuiInv, TuiTypes
  <2> QED BY <1>1, <1>4, <2>1 DEF TuiInv, TuiTypes, Now
<1>6. WorkInv' /\ work'[w] = Nothing /\ \A u \in Senders : u # w => work'[u] = work[u]
  <2>1. Now' \in Nat /\ Now <= Now' /\ Nothing.at <= Now'
    BY <1>2, NothingFacts
  <2> QED BY <1>1, <1>2, <2>1, NothingFacts, WorkFrame DEF TuiInv
<1>7. DialogInv'
  <2>1. ~Fresh(w)'
    BY <1>6, NothingFacts DEF Fresh
  <2> QED BY <1>1, <1>4, <1>6, <2>1, DialogFrame DEF TuiInv
<1>8. linked' /\ behind' = {} => shown' = Now' \/ events' > 0 \/ \E u \in Senders : Coming(u)'
  <2>1. CASE v = Now
    BY <1>2, <1>4, <2>1
  <2>2. CASE v # Now
    <3>1. behind' = {} => behind = {} /\ ~(v < shown)
      BY <1>1, <2>2
    <3>2. behind' = {} => shown # Now
      BY <1>2, <1>3, <2>2, <3>1
    <3>3. ~Coming(w)
      <4>1. work[w].step = "tell"
        BY <1>1 DEF TuiInv, WorkInv, Sane
      <4> QED BY <1>1, <2>2, <4>1 DEF Coming, v
    <3> QED BY <1>1, <1>2, <1>6, <3>1, <3>2, <3>3, ComingFrame DEF TuiInv
  <2> QED BY <2>1, <2>2
<1> QED BY <1>1, <1>5, <1>6, <1>7, <1>8 DEF TuiInv, ScreenInv

\* A failed load, or an error, arrives.
LEMMA BlankArrivesKeeps ==
  ASSUME TuiInv, NEW w \in Senders, BlankArrives(w)
  PROVE  TuiInv'
<1>1. /\ work[w].says = "blank" /\ Show(0) /\ busy' = FALSE /\ behind' = behind \cup {"failed"}
      /\ work' = [work EXCEPT ![w] = Nothing]
      /\ UNCHANGED <<versions, linked, events, dialog, quit, inputs, hasty>>
  BY DEF BlankArrives, daemonSide
<1>2. Now \in Nat /\ Now >= 1 /\ Now' = Now /\ 0 \in 0..Now
  BY <1>1 DEF TuiInv, TuiTypes, Now
<1>4. /\ shown' \in 0..Now /\ cursor' \in Nat /\ shifted' \in BOOLEAN
      /\ dialog.kind = "delete" /\ ~shifted' => ~shifted /\ Selected' = Selected
  BY <1>1, <1>2, ShowFacts DEF TuiInv
<1>5. TuiTypes'
  <2>1. behind' \subseteq {"overtaken", "failed", "lost"}
    BY <1>1 DEF TuiInv, TuiTypes
  <2> QED BY <1>1, <1>4, <2>1 DEF TuiInv, TuiTypes, Now
<1>6. WorkInv' /\ work'[w] = Nothing /\ \A u \in Senders : u # w => work'[u] = work[u]
  <2>1. Now' \in Nat /\ Now <= Now' /\ Nothing.at <= Now'
    BY <1>2, NothingFacts
  <2> QED BY <1>1, <1>2, <2>1, NothingFacts, WorkFrame DEF TuiInv
<1>7. DialogInv'
  <2>1. ~Fresh(w)'
    BY <1>6, NothingFacts DEF Fresh
  <2> QED BY <1>1, <1>4, <1>6, <2>1, DialogFrame DEF TuiInv
<1>8. ScreenInv'
  BY <1>1 DEF ScreenInv
<1> QED BY <1>5, <1>6, <1>7, <1>8 DEF TuiInv

\* An error that arrives keeps the invariant.
LEMMA ErrorArrivesKeeps ==
  ASSUME TuiInv, NEW w \in Senders, ErrorArrives(w)
  PROVE  TuiInv'
<1>1. /\ work[w].says = "error" /\ busy' = FALSE /\ work' = [work EXCEPT ![w] = Nothing]
      /\ UNCHANGED <<versions, linked, events, shown, cursor, behind, shifted, dialog, quit, inputs, hasty>>
  BY DEF ErrorArrives, daemonSide, listSide
<1>2. Now \in Nat /\ Now >= 1 /\ Now' = Now
  BY <1>1 DEF TuiInv, TuiTypes, Now
<1>3. TuiTypes'
  BY <1>1 DEF TuiInv, TuiTypes
<1>4. WorkInv' /\ work'[w] = Nothing /\ \A u \in Senders : u # w => work'[u] = work[u]
  <2>1. Now' \in Nat /\ Now <= Now' /\ Nothing.at <= Now'
    BY <1>2, NothingFacts
  <2> QED BY <1>1, <1>2, <2>1, NothingFacts, WorkFrame DEF TuiInv
<1>5. DialogInv'
  <2>1. ~Fresh(w)'
    BY <1>4, NothingFacts DEF Fresh
  <2>2. Selected' = Selected
    BY <1>1, SelectedKept DEF TuiInv
  <2> QED BY <1>1, <1>4, <2>1, <2>2, DialogFrame DEF TuiInv
<1>6. linked' /\ behind' = {} => shown' = Now' \/ events' > 0 \/ \E u \in Senders : Coming(u)'
  <2>1. ~Coming(w)
    BY <1>1 DEF TuiInv, WorkInv, Sane, Coming
  <2> QED BY <1>1, <1>2, <1>4, <2>1, ComingFrame DEF TuiInv
<1> QED BY <1>1, <1>3, <1>4, <1>5, <1>6 DEF TuiInv, ScreenInv

\* What an answer makes of the answers that are still on their way.
LEMMA RepeatFacts ==
  ASSUME NEW r \in WorkSet, Sane(r)
  PROVE  /\ Repeat(r) \in WorkSet /\ Sane(Repeat(r)) /\ Repeat(r).at = r.at /\ Repeat(r).op = r.op
         /\ r.op # "answer" => Repeat(r) = r
         /\ r.op = "answer" => Repeat(r).why # {}
<1>1. CASE r.op = "answer"
  <2>1. Repeat(r) = [r EXCEPT !.why = {"repeated"}]
    BY <1>1 DEF Repeat
  <2> QED BY <1>1, <2>1 DEF WorkSet, Sane
<1>2. CASE r.op # "answer"
  BY <1>2 DEF Repeat
<1> QED BY <1>1, <1>2

\* A commit is of what the answer says; a deletion on a first answer is of the
\* route that was asked about.
LEMMA CommitFacts ==
  ASSUME TuiInv, NEW w \in Senders, work[w].op = "answer", work[w].says = "yes", dialog.kind # "quit",
         NEW r \in Commit(work[w])
  PROVE  r \in WorkSet /\ Sane(r) /\ r.at = 0 /\ r.op \in Commits /\ r.op # "answer"
<1> DEFINE a == work[w]
<1>1. a \in WorkSet /\ Sane(a)
  BY DEF TuiInv, WorkInv
<1>2. a.on \in TuiNames \cup {Absent} /\ a.val \in TuiValues \cup {Absent} /\ a.from \in Dialogs
      /\ a.why \in SUBSET {"shifted", "repeated"} /\ a.op = "answer" /\ a.says = "yes"
  BY <1>1 DEF WorkSet
<1>3. a.from.kind \in {"add", "edit", "delete", "quit"}
  BY <1>1, <1>2 DEF Sane
<1>4. a.why = {} => dialog = a.from
  BY <1>2 DEF TuiInv, DialogInv, Fresh
<1> HIDE DEF a
<1>5. CASE a.from.kind = "add"
  <2>1. r = [Nothing EXCEPT !.op = "add", !.step = "call", !.on = a.on, !.val = a.val]
    BY <1>5 DEF Commit, a
  <2> QED BY <1>2, <2>1 DEF Nothing, NoDialog, WorkSet, Sane, Dialogs, Commits
<1>6. CASE a.from.kind = "edit"
  <2>1. r = [Nothing EXCEPT !.op = "set", !.step = "call", !.on = a.on, !.val = a.val]
    BY <1>6 DEF Commit, a
  <2> QED BY <1>2, <2>1 DEF Nothing, NoDialog, WorkSet, Sane, Dialogs, Commits
<1>7. CASE a.from.kind \in {"delete", "quit"}
  <2> DEFINE why == a.why \cup (IF shifted THEN {"shifted"} ELSE {})
  <2>1. PICK n \in Selected :
          r = [Nothing EXCEPT !.op = "delete", !.step = "call", !.on = n, !.from = a.from, !.why = why]
    BY <1>7 DEF Commit, a
  <2>2. n \in TuiNames /\ n # Absent
    BY SelectedOne, TuiConstants
  <2>3. why \in SUBSET {"shifted", "repeated"}
    BY <1>2
  <2>4. why = {} => n = a.from.on
    <3>1. ASSUME why = {} PROVE n = a.from.on
      <4>1. ~shifted /\ dialog = a.from
        BY <1>4, <3>1
      <4>2. dialog.kind = "delete"
        BY <1>7, <4>1
      <4> QED BY <4>1, <4>2 DEF TuiInv, DialogInv
    <3> QED BY <3>1
  <2> HIDE DEF why
  <2> QED BY <1>2, <2>1, <2>2, <2>3, <2>4 DEF Nothing, WorkSet, Sane, Commits
<1> QED BY <1>3, <1>5, <1>6, <1>7

\* A dialog's answer arrives.
LEMMA ClosedArrivesKeeps ==
  ASSUME TuiInv, NEW w \in Senders, ClosedArrives(w)
  PROVE  TuiInv'
<1> DEFINE a == work[w]
<1> DEFINE commits == IF dialog.kind = "quit" \/ a.says = "no" THEN {} ELSE Commit(a)
<1>1. /\ a.op = "answer" /\ dialog' = NoDialog /\ shifted' = FALSE
      /\ UNCHANGED <<versions, linked, events, shown, cursor, behind, inputs>>
      /\ quit' = (dialog.kind = "quit" /\ a.says = "yes" /\ a.from.kind \in {"quit", "delete"})
      /\ hasty' = (quit' /\ a.from.kind # "quit" /\ a.why = {})
  BY DEF ClosedArrives, daemonSide
<1>2. a \in WorkSet /\ Sane(a) /\ a.says \in {"yes", "no"}
  BY <1>1 DEF TuiInv, WorkInv, Sane
<1>3. ~hasty'
  <2>1. a.why = {} => dialog = a.from
    BY <1>1 DEF TuiInv, DialogInv, Fresh
  <2> QED BY <1>1, <2>1
<1>4. hasty' \in BOOLEAN /\ quit' \in BOOLEAN
  <2>1. (dialog.kind = "quit" /\ a.says = "yes" /\ a.from.kind \in {"quit", "delete"}) \in BOOLEAN
    OBVIOUS
  <2>2. (quit' /\ a.from.kind # "quit" /\ a.why = {}) \in BOOLEAN
    OBVIOUS
  <2> QED BY <1>1, <2>1, <2>2, Zenon
<1> DEFINE other(v) == IF dialog = NoDialog THEN work[v] ELSE Repeat(work[v])
<1>5. \E r \in WorkSet :
        /\ Sane(r) /\ r.at = 0 /\ r.op # "answer"
        /\ work' = [v \in Senders |-> IF v = w THEN r ELSE other(v)]
        /\ busy' \in BOOLEAN /\ (busy' => busy \/ r.op \in Commits)
  <2>1. CASE dialog = NoDialog \/ commits = {}
    <3>1. work' = [v \in Senders |-> IF v = w THEN Nothing ELSE other(v)] /\ UNCHANGED busy
      BY <2>1 DEF ClosedArrives
    <3>2. busy' \in BOOLEAN
      BY <3>1 DEF TuiInv, TuiTypes
    <3> QED BY <3>1, <3>2, NothingFacts
  <2>2. CASE ~(dialog = NoDialog \/ commits = {})
    <3>1. /\ \E s \in commits : work' = [v \in Senders |-> IF v = w THEN s ELSE Repeat(work[v])]
          /\ busy' = TRUE
      BY <2>2 DEF ClosedArrives
    <3>2. PICK r \in commits : work' = [v \in Senders |-> IF v = w THEN r ELSE Repeat(work[v])]
      BY <3>1
    <3>3. r \in Commit(work[w]) /\ a.says = "yes" /\ dialog.kind # "quit"
      BY <1>2, <2>2
    <3>4. r \in WorkSet /\ Sane(r) /\ r.at = 0 /\ r.op \in Commits /\ r.op # "answer"
      BY <1>1, <3>3, CommitFacts
    <3>5. work' = [v \in Senders |-> IF v = w THEN r ELSE other(v)]
      BY <2>2, <3>2
    <3> HIDE DEF other, commits, a
    <3> QED BY <3>1, <3>4, <3>5
  <2> QED BY <2>1, <2>2
<1>6. PICK r \in WorkSet :
        /\ Sane(r) /\ r.at = 0 /\ r.op # "answer"
        /\ work' = [v \in Senders |-> IF v = w THEN r ELSE other(v)]
        /\ busy' \in BOOLEAN /\ (busy' => busy \/ r.op \in Commits)
  BY <1>5
<1>7. ASSUME NEW v \in Senders
      PROVE  /\ other(v) \in WorkSet /\ Sane(other(v)) /\ other(v).at = work[v].at /\ other(v).op = work[v].op
             /\ work[v].op # "answer" => other(v) = work[v]
             /\ ~(other(v).op = "answer" /\ other(v).why = {})
  <2>1. work[v] \in WorkSet /\ Sane(work[v])
    BY DEF TuiInv, WorkInv
  <2>2. CASE dialog = NoDialog
    <3>1. ~Fresh(v)
      BY <2>2, NoneFresh DEF TuiInv
    <3> QED BY <2>1, <2>2, <3>1 DEF Fresh
  <2>3. CASE dialog # NoDialog
    BY <2>1, <2>3, RepeatFacts
  <2> QED BY <2>2, <2>3
<1> HIDE DEF other
<1>8. work'[w] = r /\ \A v \in Senders : v # w => work'[v] = other(v)
  BY <1>6
<1>9. Now' = Now /\ Now \in Nat /\ Now >= 1
  BY <1>1 DEF TuiInv, TuiTypes, Now
<1>10. TuiTypes'
  BY <1>1, <1>4, <1>6, NothingFacts DEF TuiInv, TuiTypes
<1>11. WorkInv'
  <2>1. work' \in [Senders -> WorkSet]
    BY <1>6, <1>7
  <2>2. ASSUME NEW v \in Senders PROVE Sane(work'[v]) /\ work'[v].at <= Now'
    <3>1. CASE v = w
      BY <1>6, <1>8, <1>9, <3>1
    <3>2. CASE v # w
      BY <1>7, <1>8, <1>9, <3>2 DEF TuiInv, WorkInv
    <3> QED BY <3>1, <3>2
  <2> QED BY <2>1, <2>2 DEF WorkInv
<1>12. DialogInv'
  <2>1. \A v \in Senders : ~Fresh(v)'
    BY <1>6, <1>7, <1>8 DEF Fresh
  <2> QED BY <1>1, <1>3, <2>1, NothingFacts DEF DialogInv
<1>13. busy' => \E v \in Senders : work'[v].op \in Commits
  <2>1. work[w].op \notin Commits
    BY <1>1 DEF Commits
  <2> QED BY <1>6, <1>7, <1>8, <2>1, BusyFrame DEF TuiInv
<1>14. linked' /\ behind' = {} => shown' = Now' \/ events' > 0 \/ \E v \in Senders : Coming(v)'
  <2> SUFFICES ASSUME linked', behind' = {}, shown' # Now', ~(events' > 0)
               PROVE  \E v \in Senders : Coming(v)'
    OBVIOUS
  <2>1. PICK v \in Senders : Coming(v)
    BY <1>1, <1>9 DEF TuiInv, ScreenInv
  <2>2. v # w /\ work[v].op # "answer"
    BY <1>1, <2>1 DEF Coming
  <2>3. Coming(v)'
    BY <1>7, <1>8, <1>9, <2>1, <2>2 DEF Coming
  <2> QED BY <2>3
<1> QED BY <1>10, <1>11, <1>12, <1>13, <1>14 DEF TuiInv, ScreenInv

\* A request that goes on is no answer, and has said nothing yet.
LEMMA UnderWay ==
  ASSUME NEW r \in WorkSet, Sane(r), r.step \in {"call", "load"}
  PROVE  r.op # "answer" /\ r.says = "none"
BY DEF Sane

\* A request goes on: w's record becomes r, the lists may grow, the screen stays.
LEMMA RequestKeeps ==
  ASSUME TuiInv, NEW w \in Senders, NEW r \in WorkSet, Sane(r), work[w].op # "answer", r.op = work[w].op,
         work' = [work EXCEPT ![w] = r], Input \/ UNCHANGED inputs,
         UNCHANGED versions \/ \E n, val : val \in TuiValues \cup {Absent} /\ Publish(n, val),
         UNCHANGED <<shown, cursor, shifted, dialog, busy, quit, hasty>>,
         linked' \in BOOLEAN, events' \in Nat, behind' \subseteq {"overtaken", "failed", "lost"},
         r.at <= Now',
         linked' /\ behind' = {} =>
           \/ events' > 0
           \/ /\ linked /\ behind = {} /\ UNCHANGED <<versions, events>>
              /\ Coming(w) => Coming(w)'
  PROVE  TuiInv'
<1>1. /\ Now \in Nat /\ Now' \in Nat /\ Now >= 1 /\ Now <= Now' /\ Now' \in 1..MaxVersions
      /\ versions' \in Seq(TuiLists) /\ \A v \in 1..Now : versions'[v] = versions[v]
  BY Kept DEF TuiInv
<1>2. TuiTypes'
  <2>1. inputs' \in 0..MaxInputs
    BY InputFacts DEF TuiInv
  <2>2. shown' \in 0..Len(versions')
    <3>1. shown \in 0..Now
      BY DEF TuiInv, TuiTypes, Now
    <3>2. shown \in 0..Now'
      BY <1>1, <3>1
    <3> QED BY <3>2 DEF Now
  <2>3. Len(versions') \in 1..MaxVersions
    BY <1>1 DEF Now
  <2> QED BY <1>1, <2>1, <2>2, <2>3 DEF TuiInv, TuiTypes
<1>3. WorkInv' /\ work'[w] = r /\ \A v \in Senders : v # w => work'[v] = work[v]
  BY <1>1, WorkFrame DEF TuiInv
<1>4. DialogInv'
  <2>1. Selected' = Selected
    BY <1>1, SelectedKept DEF TuiInv
  <2>2. ~Fresh(w)'
    BY <1>3 DEF Fresh
  <2> QED BY <1>3, <2>1, <2>2, DialogFrame DEF TuiInv
<1>5. busy' => \E v \in Senders : work'[v].op \in Commits
  BY <1>3, BusyFrame DEF TuiInv
<1>6. linked' /\ behind' = {} => shown' = Now' \/ events' > 0 \/ \E v \in Senders : Coming(v)'
  <2>1. CASE events' > 0
    BY <2>1
  <2>2. CASE ~(events' > 0)
    <3>1. linked' /\ behind' = {} =>
            linked /\ behind = {} /\ Now' = Now /\ events' = events /\ (Coming(w) => Coming(w)')
      BY <2>2 DEF Now
    <3> QED BY <1>3, <3>1, ComingFrame DEF TuiInv
  <2> QED BY <2>1, <2>2
<1> QED BY <1>2, <1>3, <1>4, <1>5, <1>6 DEF TuiInv, ScreenInv

\* What a sender's record is.
LEMMA WorkFacts ==
  ASSUME TuiInv, NEW w \in Senders
  PROVE  work[w] \in WorkSet /\ Sane(work[w]) /\ work[w].at \in Nat /\ work[w].at <= Now /\ Now \in Nat /\ Now >= 1
<1>1. work[w] \in WorkSet /\ Sane(work[w]) /\ work[w].at <= Now
  BY DEF TuiInv, WorkInv
<1>2. work[w].at \in Nat
  BY <1>1 DEF WorkSet
<1> QED BY <1>1, <1>2 DEF TuiInv, TuiTypes, Now

\* An event comes, or is lost with a note.
LEMMA EventFacts ==
  ASSUME TuiInv, EventComes \/ EventIsLost, UNCHANGED linked
  PROVE  /\ events' \in Nat /\ behind' \subseteq {"overtaken", "failed", "lost"} /\ linked' \in BOOLEAN
         /\ linked' /\ behind' = {} => events' > 0
<1>1. events \in Nat /\ behind \subseteq {"overtaken", "failed", "lost"} /\ linked \in BOOLEAN
  BY DEF TuiInv, TuiTypes
<1>2. CASE EventComes
  BY <1>1, <1>2 DEF EventComes
<1>3. CASE EventIsLost
  BY <1>1, <1>3 DEF EventIsLost
<1> QED BY <1>2, <1>3

\* A request the daemon grants keeps the invariant: its event comes or is noted.
LEMMA CallAppliesKeeps ==
  ASSUME TuiInv, NEW w \in Senders, CallApplies(w)
  PROVE  TuiInv'
<1> DEFINE a == work[w]
<1>1. /\ a.step = "call" /\ Publish(a.on, NewValue(a)) /\ (EventComes \/ EventIsLost)
      /\ UNCHANGED <<linked, shown, cursor, shifted, dialog, busy, quit, hasty>>
  BY DEF CallApplies
<1>2. a \in WorkSet /\ Sane(a) /\ a.at \in Nat /\ a.at <= Now /\ Now \in Nat
  BY WorkFacts
<1>3. NewValue(a) \in TuiValues \cup {Absent}
  <2> HIDE DEF a
  <2> QED BY <1>2 DEF WorkSet, NewValue
<1>4. Now' = Now + 1 /\ \E n, val : val \in TuiValues \cup {Absent} /\ Publish(n, val)
  BY <1>1, <1>3, PublishFacts DEF TuiInv
<1>5. /\ events' \in Nat /\ behind' \subseteq {"overtaken", "failed", "lost"} /\ linked' \in BOOLEAN
      /\ linked' /\ behind' = {} => events' > 0
  BY <1>1, EventFacts
<1>6. a.op # "answer" /\ a.at <= Now'
  <2> HIDE DEF a
  <2>1. a.op # "answer"
    BY <1>1, <1>2, UnderWay
  <2>2. a.at <= Now'
    BY <1>2, <1>4
  <2> QED BY <2>1, <2>2
<1>7. CASE Goes(w, "load") /\ UNCHANGED inputs
  <2> DEFINE r == [a EXCEPT !.step = "load"]
  <2>1. work' = [work EXCEPT ![w] = r]
    BY <1>7 DEF Goes
  <2>2. r \in WorkSet /\ Sane(r) /\ r.at = a.at /\ r.op = a.op
    <3> HIDE DEF a
    <3> QED BY <1>1, <1>2 DEF WorkSet, Sane
  <2> HIDE DEF r
  <2>3. r.at <= Now' /\ r.op = work[w].op
    BY <1>6, <2>2
  <2> QED BY <1>1, <1>4, <1>5, <1>6, <1>7, <2>1, <2>2, <2>3, RequestKeeps
<1>8. CASE Tell(w, "error") /\ Input
  <2> DEFINE r == [a EXCEPT !.step = "tell", !.says = "error"]
  <2>1. work' = [work EXCEPT ![w] = r]
    BY <1>8 DEF Tell
  <2>2. r \in WorkSet /\ Sane(r) /\ r.at = a.at /\ r.op = a.op
    <3> HIDE DEF a
    <3> QED BY <1>2, <1>6 DEF WorkSet, Sane
  <2> HIDE DEF r
  <2>3. r.at <= Now' /\ r.op = work[w].op
    BY <1>6, <2>2
  <2> QED BY <1>1, <1>4, <1>5, <1>6, <1>8, <2>1, <2>2, <2>3, RequestKeeps
<1> QED BY <1>7, <1>8 DEF CallApplies

\* A request that fails, or a load, keeps the invariant.
LEMMA CallFailsKeeps ==
  ASSUME TuiInv, NEW w \in Senders, CallFails(w) \/ Load(w) \/ LoadFails(w)
  PROVE  TuiInv'
<1> DEFINE a == work[w]
<1>1. /\ a.step \in {"call", "load"} /\ (Input \/ UNCHANGED inputs)
      /\ UNCHANGED <<versions, linked, events, shown, cursor, behind, shifted, dialog, busy, quit, hasty>>
  BY DEF CallFails, Load, LoadFails, ScreenStays, daemonSide, listSide
<1>2. a \in WorkSet /\ Sane(a) /\ a.at \in Nat /\ a.at <= Now /\ Now \in Nat /\ Now' = Now
  BY <1>1, WorkFacts DEF Now
<1>3. a.op # "answer" /\ a.says = "none"
  <2> HIDE DEF a
  <2> QED BY <1>1, <1>2, UnderWay
<1>4. linked' \in BOOLEAN /\ events' \in Nat /\ behind' \subseteq {"overtaken", "failed", "lost"}
  BY <1>1 DEF TuiInv, TuiTypes
<1> HIDE DEF a
<1>5. \E r \in WorkSet :
        /\ Sane(r) /\ r.op = a.op /\ r.at <= Now /\ work' = [work EXCEPT ![w] = r]
        /\ Coming(w) => r.step = "tell" /\ (r.says = "blank" \/ (r.says = "list" /\ r.at = Now))
  <2>1. CASE CallFails(w)
    <3> DEFINE r == [a EXCEPT !.step = "tell", !.says = "error"]
    <3>1. work' = [work EXCEPT ![w] = r] /\ a.step = "call"
      BY <2>1 DEF CallFails, Tell, a
    <3>2. r \in WorkSet /\ Sane(r) /\ r.at = a.at /\ r.op = a.op
      BY <1>2, <1>3 DEF WorkSet, Sane
    <3>3. ~Coming(w)
      BY <1>3, <3>1 DEF Coming, a
    <3>4. r.at <= Now
      BY <1>2, <3>2
    <3> HIDE DEF r
    <3> QED BY <3>1, <3>2, <3>3, <3>4
  <2>2. CASE Load(w)
    <3> DEFINE r == [a EXCEPT !.step = "tell", !.says = "list", !.at = Now]
    <3>1. work' = [work EXCEPT ![w] = r]
      BY <2>2 DEF Load, a
    <3>2. r \in WorkSet /\ Sane(r) /\ r.at = Now /\ r.op = a.op /\ r.says = "list" /\ r.step = "tell"
      BY <1>2, <1>3 DEF WorkSet, Sane
    <3>3. r.at <= Now
      BY <1>2, <3>2
    <3> HIDE DEF r
    <3> QED BY <3>1, <3>2, <3>3
  <2>3. CASE LoadFails(w)
    <3> DEFINE says == IF a.op \in Commits THEN "error" ELSE "blank"
    <3> DEFINE r == [a EXCEPT !.step = "tell", !.says = says]
    <3>1. work' = [work EXCEPT ![w] = r]
      BY <2>3 DEF LoadFails, Tell, a
    <3>2. says \in {"list", "blank", "error"}
      OBVIOUS
    <3>3. Coming(w) => says = "blank"
      BY DEF Coming, Commits, a
    <3> HIDE DEF says
    <3>4. r \in WorkSet /\ Sane(r) /\ r.at = a.at /\ r.op = a.op /\ r.says = says /\ r.step = "tell"
      BY <1>2, <1>3, <3>2 DEF WorkSet, Sane
    <3>5. r.at <= Now
      BY <1>2, <3>4
    <3> HIDE DEF r
    <3> QED BY <3>1, <3>3, <3>4, <3>5
  <2> QED BY <2>1, <2>2, <2>3
<1>6. PICK r \in WorkSet :
        /\ Sane(r) /\ r.op = a.op /\ r.at <= Now /\ work' = [work EXCEPT ![w] = r]
        /\ Coming(w) => r.step = "tell" /\ (r.says = "blank" \/ (r.says = "list" /\ r.at = Now))
  BY <1>5
<1>7. work'[w] = r
  BY <1>6 DEF TuiInv, WorkInv
<1>8. Coming(w) => Coming(w)'
  BY <1>2, <1>6, <1>7 DEF Coming, a
<1>9. work[w].op # "answer" /\ r.op = work[w].op /\ r.at <= Now'
  BY <1>2, <1>3, <1>6 DEF a
<1> QED BY <1>1, <1>4, <1>6, <1>8, <1>9, RequestKeeps

\* What the daemon and its other clients do.
LEMMA DaemonSideKeeps ==
  ASSUME TuiInv, DaemonChanges \/ UNCHANGED tuiVars
  PROVE  TuiInv'
<1>1. ASSUME UNCHANGED <<work, shown, cursor, shifted, dialog, busy, quit, hasty>>,
             Input \/ UNCHANGED inputs,
             UNCHANGED versions \/ \E n, val : val \in TuiValues \cup {Absent} /\ Publish(n, val),
             linked' \in BOOLEAN, events' \in Nat, behind' \subseteq {"overtaken", "failed", "lost"},
             linked' /\ behind' = {} => events' > 0 \/ (linked /\ behind = {} /\ UNCHANGED <<versions, events>>)
      PROVE  TuiInv'
  <2>1. /\ Now \in Nat /\ Now' \in Nat /\ Now >= 1 /\ Now <= Now' /\ Now' \in 1..MaxVersions
        /\ versions' \in Seq(TuiLists) /\ \A v \in 1..Now : versions'[v] = versions[v]
    BY <1>1, Kept DEF TuiInv
  <2>2. TuiTypes'
    <3>1. inputs' \in 0..MaxInputs
      BY <1>1, InputFacts DEF TuiInv
    <3>2. shown' \in 0..Len(versions')
      <4>1. shown \in 0..Now
        BY DEF TuiInv, TuiTypes, Now
      <4>2. shown \in 0..Now'
        BY <2>1, <4>1
      <4> QED BY <1>1, <4>2 DEF Now
    <3>3. Len(versions') \in 1..MaxVersions
      BY <2>1 DEF Now
    <3> QED BY <1>1, <2>1, <3>1, <3>2, <3>3 DEF TuiInv, TuiTypes
  <2>3. WorkInv'
    <3>1. ASSUME NEW w \in Senders PROVE Sane(work[w]) /\ work[w].at <= Now'
      <4>1. work[w].at \in Nat /\ work[w].at <= Now /\ Sane(work[w])
        BY WorkFacts
      <4> QED BY <2>1, <4>1
    <3> QED BY <1>1, <3>1 DEF TuiInv, WorkInv
  <2>4. DialogInv'
    <3>1. Selected' = Selected
      BY <1>1, <2>1, SelectedKept DEF TuiInv
    <3>2. DialogInv
      BY DEF TuiInv
    <3> QED BY <1>1, <3>1, <3>2 DEF DialogInv, Fresh
  <2>5. ScreenInv'
    BY <1>1 DEF TuiInv, ScreenInv, Coming, Now
  <2> QED BY <2>2, <2>3, <2>4, <2>5 DEF TuiInv
<1>2. /\ linked \in BOOLEAN /\ events \in Nat /\ events + 1 \in Nat /\ events + 1 > 0
      /\ behind \subseteq {"overtaken", "failed", "lost"}
  BY DEF TuiInv, TuiTypes
<1>3. ASSUME NEW n \in TuiNames, NEW val \in TuiValues \cup {Absent}, OtherClient(n, val) PROVE TuiInv'
  <2>1. /\ Publish(n, val) /\ Input /\ (EventComes \/ EventIsLost)
        /\ UNCHANGED <<linked, work, shown, cursor, shifted, dialog, busy, quit, hasty>>
    BY <1>3 DEF OtherClient
  <2>2. /\ events' \in Nat /\ behind' \subseteq {"overtaken", "failed", "lost"} /\ linked' \in BOOLEAN
        /\ linked' /\ behind' = {} => events' > 0
    BY <2>1, EventFacts
  <2> QED BY <1>1, <2>1, <2>2
<1>4. ASSUME Connect PROVE TuiInv'
  BY <1>1, <1>2, <1>4 DEF Connect, ScreenStays, listSide
<1>5. ASSUME Disconnect PROVE TuiInv'
  BY <1>1, <1>2, <1>5 DEF Disconnect, ScreenStays, listSide
<1>6. ASSUME UNCHANGED tuiVars PROVE TuiInv'
  BY <1>1, <1>2, <1>6 DEF tuiVars, daemonSide, listSide
<1> QED BY <1>3, <1>4, <1>5, <1>6 DEF DaemonChanges

\* Every step keeps the invariant.
LEMMA TuiStep ==
  ASSUME TuiInv, [TuiNext]_tuiVars
  PROVE  TuiInv'
<1>1. ASSUME KeyStep PROVE TuiInv'
  <2>1. ASSUME NEW kind \in {"add", "quit", "help"}, Open(kind, Absent) PROVE TuiInv'
    BY <2>1, OpenKeeps
  <2>2. ASSUME NEW kind \in {"edit", "delete"}, AskAbout(kind) PROVE TuiInv'
    <3>1. PICK n \in Selected : Open(kind, n)
      BY <2>2 DEF AskAbout
    <3>2. n \in TuiNames
      BY SelectedOne
    <3> QED BY <3>1, <3>2, OpenKeeps
  <2>3. ASSUME NEW w \in Cmds, Confirm(w) \/ Dismiss(w) PROVE TuiInv'
    <3>1. dialog.on \in TuiNames \cup {Absent}
      BY DEF TuiInv, TuiTypes, Dialogs
    <3>2. \/ Answer(w, {"delete", "quit"}, "yes", dialog.on, Absent)
          \/ Answer(w, {"add", "edit", "delete", "quit", "help"}, "no", dialog.on, Absent)
      BY <2>3 DEF Confirm, Dismiss
    <3> DEFINE K1 == {"delete", "quit"}
    <3> DEFINE K2 == {"add", "edit", "delete", "quit", "help"}
    <3>3. ASSUME Answer(w, K1, "yes", dialog.on, Absent) PROVE TuiInv'
      <4>1. K1 \in SUBSET {"add", "edit", "delete", "quit", "help"} /\ K1 \subseteq {"add", "edit", "delete", "quit"}
        OBVIOUS
      <4> HIDE DEF K1
      <4> QED BY <3>1, <3>3, <4>1, AnswerKeeps
    <3>4. ASSUME Answer(w, K2, "no", dialog.on, Absent) PROVE TuiInv'
      <4>1. K2 \in SUBSET {"add", "edit", "delete", "quit", "help"}
        OBVIOUS
      <4> HIDE DEF K2
      <4> QED BY <3>1, <3>4, <4>1, AnswerKeeps
    <3> QED BY <3>2, <3>3, <3>4
  <2>4. ASSUME NEW w \in Cmds, NEW val \in TuiValues, SubmitEdit(w, val) PROVE TuiInv'
    <3>1. dialog.on \in TuiNames \cup {Absent}
      BY DEF TuiInv, TuiTypes, Dialogs
    <3> DEFINE K == {"edit"}
    <3>2. Answer(w, K, "yes", dialog.on, val)
      BY <2>4 DEF SubmitEdit
    <3>3. K \in SUBSET {"add", "edit", "delete", "quit", "help"} /\ K \subseteq {"add", "edit", "delete", "quit"}
      OBVIOUS
    <3> HIDE DEF K
    <3> QED BY <3>1, <3>2, <3>3, AnswerKeeps
  <2>5. ASSUME NEW w \in Cmds, NEW val \in TuiValues, NEW on \in TuiNames, SubmitAdd(w, on, val) PROVE TuiInv'
    <3> DEFINE K == {"add"}
    <3>2. Answer(w, K, "yes", on, val)
      BY <2>5 DEF SubmitAdd
    <3>3. K \in SUBSET {"add", "edit", "delete", "quit", "help"} /\ K \subseteq {"add", "edit", "delete", "quit"}
      OBVIOUS
    <3> HIDE DEF K
    <3> QED BY <3>2, <3>3, AnswerKeeps
  <2> QED BY <1>1, <2>1, <2>2, <2>3, <2>4, <2>5, MoveCursorKeeps, ToggleKeeps DEF KeyStep
<1>2. ASSUME NEW w \in Senders, Message(w) \/ Request(w) PROVE TuiInv'
  BY <1>2, ClosedArrivesKeeps, ListArrivesKeeps, BlankArrivesKeeps, ErrorArrivesKeeps, CallAppliesKeeps, CallFailsKeeps
     DEF Message, Request
<1> QED BY <1>1, <1>2, ListenKeeps, DaemonSideKeeps DEF TuiNext

\* The invariant holds when the program starts.
LEMMA TuiStart ==
  ASSUME TuiInit
  PROVE  TuiInv
<1>1. PICK r \in TuiLists : versions = <<r>>
  BY DEF TuiInit
<1>2. versions \in Seq(TuiLists) /\ Len(versions) = 1 /\ Now = 1
  BY <1>1 DEF Now
<1>3. 1 \in 1..MaxVersions /\ 0 \in 0..MaxInputs
  BY TuiConstants
<1>4. TuiTypes
  <2>1. /\ linked \in BOOLEAN /\ busy \in BOOLEAN /\ quit \in BOOLEAN /\ shifted \in BOOLEAN /\ hasty \in BOOLEAN
        /\ behind \subseteq {"overtaken", "failed", "lost"}
    BY DEF TuiInit
  <2>2. events \in Nat /\ cursor \in Nat
    BY DEF TuiInit
  <2>3. shown \in 0..Len(versions) /\ Len(versions) \in 1..MaxVersions /\ inputs \in 0..MaxInputs
    BY <1>2, <1>3 DEF TuiInit
  <2>4. dialog \in Dialogs
    BY NothingFacts DEF TuiInit
  <2> QED BY <1>2, <2>1, <2>2, <2>3, <2>4 DEF TuiTypes
<1> DEFINE s == [Nothing EXCEPT !.op = "refresh", !.step = "load"]
<1>5. PICK w \in Cmds : work = [v \in Senders |-> IF v = w THEN s ELSE Nothing]
  BY DEF TuiInit
<1>6. s \in WorkSet /\ Sane(s) /\ s.at = 0 /\ s.op = "refresh"
  BY ListenRecord
<1> HIDE DEF s
<1>7. ASSUME NEW v \in Senders PROVE work[v] \in {s, Nothing}
  BY <1>5
<1>8. WorkInv
  <2>1. work \in [Senders -> WorkSet]
    BY <1>5, <1>6, NothingFacts
  <2>2. ASSUME NEW v \in Senders PROVE Sane(work[v]) /\ work[v].at <= Now
    BY <1>2, <1>6, <1>7, NothingFacts
  <2> QED BY <2>1, <2>2 DEF WorkInv
<1>9. DialogInv
  <2>1. \A v \in Senders : ~Fresh(v)
    BY <1>6, <1>7, NothingFacts DEF Fresh
  <2> QED BY <2>1, NothingFacts DEF DialogInv, TuiInit
<1>10. ScreenInv
  BY DEF ScreenInv, TuiInit
<1> QED BY <1>4, <1>8, <1>9, <1>10 DEF TuiInv

\* The invariant of the terminal UI: what the goroutines carry, what a first answer
\* meets, and what is on its way to the screen.
THEOREM TuiInvCorrect == TuiSpec => []TuiInv
BY TuiStart, TuiStep, PTL DEF TuiSpec

\* Every variable of the terminal UI has its type.
THEOREM TuiTypeCorrect == TuiSpec => []TuiTypeOK
<1>1. ASSUME TuiInv PROVE TuiTypeOK
  <2>1. TuiTypes
    BY <1>1 DEF TuiInv
  <2>2. ASSUME NEW w \in Senders
        PROVE  /\ work[w].op \in Commits \cup {"none", "refresh", "answer"}
               /\ work[w].step \in {"idle", "call", "load", "tell"}
               /\ work[w].on \in TuiNames \cup {Absent} /\ work[w].val \in TuiValues \cup {Absent}
               /\ work[w].at \in 0..Len(versions) /\ work[w].from \in Dialogs
               /\ work[w].says \in {"none", "list", "blank", "error", "yes", "no"}
               /\ work[w].why \subseteq {"shifted", "repeated"}
               /\ work[w].op = "delete" => work[w].on # Absent
    <3> DEFINE r == work[w]
    <3>1. r \in WorkSet /\ Sane(r) /\ r.at \in Nat /\ r.at <= Now /\ Now \in Nat
      BY <1>1, WorkFacts
    <3>2. r.at \in 0..Len(versions)
      BY <3>1 DEF Now
    <3> HIDE DEF r
    <3>3. /\ r.op \in Commits \cup {"none", "refresh", "answer"}
          /\ r.step \in {"idle", "call", "load", "tell"}
          /\ r.on \in TuiNames \cup {Absent} /\ r.val \in TuiValues \cup {Absent} /\ r.from \in Dialogs
          /\ r.says \in {"none", "list", "blank", "error", "yes", "no"}
          /\ r.why \subseteq {"shifted", "repeated"}
          /\ r.op = "delete" => r.on # Absent
      BY <3>1 DEF WorkSet, Sane
    <3> QED BY <3>2, <3>3 DEF r
  <2>3. {busy, quit, shifted, hasty} \subseteq BOOLEAN
    BY <2>1 DEF TuiTypes
  <2> QED BY <2>1, <2>2, <2>3 DEF TuiTypes, TuiTypeOK
<1> QED BY <1>1, TuiInvCorrect, PTL

\* Whatever order the messages come in: a first answer meets the dialog it was
\* given to, a deletion is of the route its question named but for the cases
\* noted, and only the quit dialog's answer, or a second one, ends the program.
THEOREM AnswersMeetTheirQuestionCorrect == TuiSpec => []AnswersMeetTheirQuestion
<1>1. ASSUME TuiInv PROVE AnswersMeetTheirQuestion
  BY <1>1, WorkFacts DEF TuiInv, DialogInv, Fresh, Sane, AnswersMeetTheirQuestion
<1> QED BY <1>1, TuiInvCorrect, PTL

\* Connected and settled, the tab shows the daemon's routes but for the cases
\* noted, and the spinner turns only for a commit.
THEOREM ScreenIsCurrentCorrect == TuiSpec => []ScreenIsCurrent
<1>1. ASSUME TuiInv PROVE ScreenIsCurrent
  <2>1. SpinnerMeansWork
    BY <1>1 DEF TuiInv, ScreenInv, SpinnerMeansWork
  <2>2. ASSUME Settled, behind = {} PROVE shown # 0 /\ versions[shown] = Routes
    <3>1. ~(events > 0) /\ \A w \in Senders : ~Coming(w)
      BY <1>1, <2>2 DEF Settled, Coming, TuiInv, TuiTypes
    <3>2. shown = Now
      BY <1>1, <2>2, <3>1 DEF Settled, TuiInv, ScreenInv
    <3>3. Now # 0
      BY <1>1 DEF TuiInv, TuiTypes, Now
    <3> QED BY <3>2, <3>3 DEF Routes
  <2> QED BY <2>1, <2>2 DEF ScreenIsCurrent, ListIsCurrent
<1> QED BY <1>1, TuiInvCorrect, PTL

-----------------------------------------------------------------------------
(* The statistics of the proxy.  A ring holds the last samples, each at the *)
(* remainder of its number; the bucket of a second of the window that ends  *)
(* with the last bump holds that second's requests unless it was spoilt.    *)

StatsTypes ==
  /\ now \in Seconds /\ rpsTs \in Seconds /\ total \in 0..MaxRequests
  /\ ring \in [StatsDomains -> [xs : [Slots -> 0..MaxRequests], n : Slots, full : BOOLEAN]]
  /\ rpsBuf \in [Buckets -> 0..MaxRequests]
  /\ lastReq \in [StatsDomains -> Seconds]
  /\ rec \in [Recorders -> [pc : {"idle", "clock", "bump", "touch"}, domain : StatsDomains, at : Seconds]]
  /\ samples \in [StatsDomains -> Seq(1..MaxRequests)]
  /\ hits \in [Seconds -> 0..MaxRequests]
  /\ overtaken \subseteq Seconds

\* The requests that have their number and are not counted yet.
Uncounted == {p \in Recorders : rec[p].pc \in {"clock", "bump"}}

\* With them no count comes to more than the requests there were.
CountInv ==
  /\ IsFiniteSet(Uncounted)
  /\ \A s \in Seconds : hits[s] + Cardinality(Uncounted) <= total
  /\ \A b \in Buckets : rpsBuf[b] + Cardinality(Uncounted) <= total

\* A ring r after the samples xs.
RingHolds(r, xs) ==
  /\ r.n = Len(xs) % SampleCap
  /\ r.full <=> Len(xs) >= SampleCap
  /\ \A i \in 1..Len(xs) : Len(xs) < i + SampleCap => r.xs[(i - 1) % SampleCap] = xs[i]

RingInv == \A d \in StatsDomains : RingHolds(ring[d], samples[d])

ClockInv ==
  /\ now >= Window
  /\ rpsTs = 0 \/ (Window <= rpsTs /\ rpsTs <= now)
  /\ \A p \in Recorders : rec[p].pc = "bump" => Window <= rec[p].at /\ rec[p].at <= now
  /\ \A d \in StatsDomains : lastReq[d] <= now
  /\ \A s \in Seconds : hits[s] > 0 => s <= now /\ (s <= rpsTs \/ s \in overtaken)
  /\ rpsTs = 0 => \A b \in Buckets : rpsBuf[b] = 0

WindowInv ==
  /\ \A t \in Seconds : t <= rpsTs /\ rpsTs < t + Window /\ t \notin overtaken => rpsBuf[t % Window] = hits[t]
  /\ \A t \in Seconds : t <= rpsTs /\ now < t + Window => rpsBuf[t % Window] <= hits[t]

SeenInv ==
  /\ \A d \in StatsDomains : lastReq[d] # 0 => Len(samples[d]) > 0
  /\ \A d \in StatsDomains :
       Len(samples[d]) > 0 => lastReq[d] # 0 \/ \E p \in Recorders : rec[p].pc # "idle" /\ rec[p].domain = d
  /\ \A p \in Recorders : rec[p].pc # "idle" => Len(samples[rec[p].domain]) > 0
  /\ \A s \in Seconds :
       hits[s] > 0 => (\E d \in StatsDomains : lastReq[d] >= s) \/ \E p \in Recorders : rec[p].pc = "touch"

StatsInv == StatsTypes /\ CountInv /\ RingInv /\ ClockInv /\ WindowInv /\ SeenInv

\* The remainders that a ring's places and a window's buckets are.
LEMMA Remainder ==
  ASSUME NEW c \in Nat \ {0}, NEW x \in Nat
  PROVE  x % c \in 0..(c - 1)
OBVIOUS

\* Division with remainder.
LEMMA Euclid ==
  ASSUME NEW c \in Nat \ {0}, NEW x \in Nat
  PROVE  \E q \in Nat : x = c * q + (x % c) /\ c * q \in Nat
<1> DEFINE p == x \div c
<1>1. p \in Nat /\ x = (c * p) + (x % c)
  OBVIOUS
<1> HIDE DEF p
<1>2. c * p \in Nat
  BY <1>1
<1> QED BY <1>1, <1>2

\* A larger multiple is larger by c at least.
LEMMA Multiples ==
  ASSUME NEW c \in Nat \ {0}, NEW q \in Nat, NEW p \in Nat, q < p
  PROVE  c * p >= c * q + c /\ c * p \in Nat /\ c * q \in Nat
<1> DEFINE d == p - q
<1>1. c * p = c * q + c * d
  OBVIOUS
<1>2. d \in Nat /\ d >= 1
  OBVIOUS
<1>3. c * d >= c /\ c * d \in Nat
  <2> HIDE DEF d
  <2> QED BY <1>2
<1>4. c * q \in Nat /\ c * p \in Nat
  OBVIOUS
<1> QED BY <1>1, <1>3, <1>4

\* There is one remainder.
LEMMA RemainderUnique ==
  ASSUME NEW c \in Nat \ {0}, NEW q \in Nat, NEW r \in 0..(c - 1), NEW x \in Nat, x = c * q + r
  PROVE  x % c = r
<1> DEFINE s == x % c
<1>1. PICK p \in Nat : x = c * p + s /\ c * p \in Nat
  BY Euclid
<1>2. s \in 0..(c - 1) /\ c * q \in Nat
  BY Remainder
<1> HIDE DEF s
<1>3. ~(q < p)
  <2> SUFFICES ASSUME q < p PROVE FALSE
    OBVIOUS
  <2>1. c * p >= c * q + c
    BY Multiples
  <2> QED BY <1>1, <1>2, <2>1
<1>4. ~(p < q)
  <2> SUFFICES ASSUME p < q PROVE FALSE
    OBVIOUS
  <2>1. c * q >= c * p + c
    BY Multiples
  <2> QED BY <1>1, <1>2, <2>1
<1>5. p = q
  BY <1>3, <1>4
<1> QED BY <1>1, <1>2, <1>5 DEF s

\* Two numbers less than c apart have different remainders.
LEMMA RemaindersDiffer ==
  ASSUME NEW c \in Nat \ {0}, NEW x \in Nat, NEW y \in Nat, x < y, y < x + c
  PROVE  x % c # y % c
<1> SUFFICES ASSUME x % c = y % c PROVE FALSE
  OBVIOUS
<1> DEFINE s == x % c
<1>1. PICK p \in Nat : x = c * p + s /\ c * p \in Nat
  BY Euclid
<1>2. PICK q \in Nat : y = c * q + (y % c) /\ c * q \in Nat
  BY Euclid
<1>3. s \in 0..(c - 1) /\ y = c * q + s
  BY <1>2, Remainder
<1> HIDE DEF s
<1>4. ~(q < p)
  <2> SUFFICES ASSUME q < p PROVE FALSE
    OBVIOUS
  <2>1. c * p >= c * q + c
    BY Multiples
  <2> QED BY <1>1, <1>2, <1>3, <2>1
<1>5. ~(p < q)
  <2> SUFFICES ASSUME p < q PROVE FALSE
    OBVIOUS
  <2>1. c * q >= c * p + c
    BY Multiples
  <2> QED BY <1>1, <1>2, <1>3, <2>1
<1>6. p = q
  BY <1>4, <1>5
<1> QED BY <1>1, <1>2, <1>3, <1>6

\* The remainder of a sum, taken step by step.
LEMMA RemainderAdds ==
  ASSUME NEW c \in Nat \ {0}, NEW x \in Nat, NEW y \in Nat
  PROVE  ((x % c) + y) % c = (x + y) % c
<1> DEFINE s == x % c
<1>1. PICK p \in Nat : x = c * p + s /\ c * p \in Nat
  BY Euclid
<1>2. s \in 0..(c - 1)
  BY Remainder
<1> HIDE DEF s
<1> DEFINE u == s + y
<1>3. u \in Nat
  BY <1>2
<1> DEFINE r == u % c
<1> HIDE DEF u
<1>4. PICK q \in Nat : u = c * q + r /\ c * q \in Nat
  BY <1>3, Euclid
<1>5. r \in 0..(c - 1)
  BY <1>3, Remainder
<1> HIDE DEF r
<1> DEFINE m == p + q
<1> DEFINE v == x + y
<1>6. c * m = c * p + c * q
  OBVIOUS
<1>7. m \in Nat /\ v \in Nat /\ r \in Nat
  BY <1>5
<1> HIDE DEF m
<1>8. v = c * m + r
  <2>1. v = c * p + u
    BY <1>1, <1>2 DEF u
  <2> HIDE DEF v
  <2> QED BY <1>1, <1>4, <1>6, <1>7, <2>1
<1> HIDE DEF v
<1>9. v % c = r
  BY <1>5, <1>7, <1>8, RemainderUnique
<1> QED BY <1>9 DEF r, u, s, v

\* A whole turn later the remainder is the same, and below c it is the number.
LEMMA RemainderTurns ==
  ASSUME NEW c \in Nat \ {0}, NEW x \in Nat
  PROVE  /\ (x + c) % c = x % c
         /\ x < c => x % c = x
         /\ x < c => ((x + 1) % c = 0 <=> x + 1 = c)
<1>1. x < c => x % c = x
  OBVIOUS
<1>2. c % c = 0
  OBVIOUS
<1>3. (x + c) % c = x % c
  <2>1. ((c % c) + x) % c = (c + x) % c
    BY RemainderAdds
  <2>2. (c % c) + x = x /\ c + x = x + c
    BY <1>2
  <2> QED BY <2>1, <2>2
<1>4. ASSUME x < c PROVE (x + 1) % c = 0 <=> x + 1 = c
  <2>1. CASE x + 1 = c
    BY <1>2, <2>1
  <2>2. CASE x + 1 # c
    <3>1. x + 1 < c /\ x + 1 \in Nat
      BY <1>4, <2>2
    <3>2. (x + 1) % c = x + 1
      BY <3>1
    <3> QED BY <2>2, <3>2
  <2> QED BY <2>1, <2>2
<1> QED BY <1>1, <1>3, <1>4

\* A sample goes into the ring.
LEMMA PushHolds ==
  ASSUME NEW r \in [xs : [Slots -> 0..MaxRequests], n : Slots, full : BOOLEAN],
         NEW xs \in Seq(1..MaxRequests), RingHolds(r, xs), NEW x \in 1..MaxRequests
  PROVE  /\ Push(r, x) \in [xs : [Slots -> 0..MaxRequests], n : Slots, full : BOOLEAN]
         /\ RingHolds(Push(r, x), Append(xs, x))
<1> DEFINE L == Len(xs)
<1> DEFINE next == (r.n + 1) % SampleCap
<1> DEFINE s == Push(r, x)
<1> DEFINE ys == Append(xs, x)
<1>1. /\ SampleCap \in Nat \ {0} /\ L \in Nat /\ r.n \in Slots /\ r.n \in Nat /\ r.n < SampleCap
      /\ r.full \in BOOLEAN /\ r.xs \in [Slots -> 0..MaxRequests] /\ r.n = L % SampleCap
  BY StatsAssumption DEF RingHolds, Slots
<1>2. next = (L + 1) % SampleCap /\ next \in Slots
  <2>1. next = (L + 1) % SampleCap
    <3> HIDE DEF L
    <3>1. ((L % SampleCap) + 1) % SampleCap = (L + 1) % SampleCap
      BY <1>1, RemainderAdds
    <3> QED BY <1>1, <3>1
  <2>2. L + 1 \in Nat
    BY <1>1
  <2> QED BY <1>1, <2>1, <2>2, Remainder DEF Slots
<1>3. s.xs = [r.xs EXCEPT ![r.n] = x] /\ s.n = next /\ s.full = (r.full \/ next = 0)
  BY DEF Push
<1>4. s \in [xs : [Slots -> 0..MaxRequests], n : Slots, full : BOOLEAN]
  BY <1>1, <1>2 DEF Push
<1>5. Len(ys) = L + 1 /\ \A i \in 1..(L + 1) : ys[i] = IF i = L + 1 THEN x ELSE xs[i]
  OBVIOUS
<1> HIDE DEF s, ys, L
<1>6. s.full <=> L + 1 >= SampleCap
  <2>1. r.full <=> L >= SampleCap
    BY DEF RingHolds, L
  <2>2. CASE L >= SampleCap
    BY <1>1, <1>3, <2>1, <2>2
  <2>3. CASE L < SampleCap
    <3>1. next = 0 <=> L + 1 = SampleCap
      BY <1>1, <1>2, <2>3, RemainderTurns
    <3>2. ~(L >= SampleCap) /\ (L + 1 >= SampleCap <=> L + 1 = SampleCap)
      BY <1>1, <2>3
    <3>3. s.full <=> next = 0
      BY <1>3, <2>1, <3>2
    <3> QED BY <3>1, <3>2, <3>3
  <2> QED BY <1>1, <2>2, <2>3
<1> HIDE DEF next
<1>7. ASSUME NEW i \in 1..(L + 1), L + 1 < i + SampleCap
      PROVE  s.xs[(i - 1) % SampleCap] = ys[i]
  <2>1. CASE i = L + 1
    <3>1. i - 1 = L /\ ys[i] = x
      BY <1>1, <1>5, <2>1
    <3> QED BY <1>1, <1>3, <3>1
  <2>2. CASE i # L + 1
    <3>1. i \in 1..L /\ i - 1 \in Nat /\ i - 1 < L /\ L < (i - 1) + SampleCap /\ L < i + SampleCap /\ ys[i] = xs[i]
      BY <1>1, <1>5, <1>7, <2>2
    <3>2. r.xs[(i - 1) % SampleCap] = xs[i]
      BY <3>1 DEF RingHolds, L
    <3>3. (i - 1) % SampleCap # r.n
      BY <1>1, <3>1, RemaindersDiffer
    <3>4. (i - 1) % SampleCap \in Slots
      BY <1>1, <3>1, Remainder DEF Slots
    <3> QED BY <1>1, <1>3, <3>1, <3>2, <3>3, <3>4
  <2> QED BY <2>1, <2>2
<1>8. RingHolds(s, ys)
  BY <1>2, <1>3, <1>5, <1>6, <1>7 DEF RingHolds
<1> QED BY <1>4, <1>8 DEF s, ys

\* Snapshot reads the last samples from a ring that holds them.
LEMMA SnapshotFacts ==
  ASSUME StatsTypes, RingInv, NEW d \in StatsDomains
  PROVE  LET k == Min({SampleCap, Len(samples[d])})
         IN  Snapshot(d) = SubSeq(samples[d], Len(samples[d]) - k + 1, Len(samples[d]))
<1> DEFINE r == ring[d]
<1> DEFINE xs == samples[d]
<1> DEFINE L == Len(xs)
<1> DEFINE k == Min({SampleCap, L})
<1> DEFINE count == IF r.full THEN SampleCap ELSE r.n
<1> DEFINE first == IF r.full THEN r.n ELSE 0
<1>1. /\ SampleCap \in Nat \ {0} /\ xs \in Seq(1..MaxRequests) /\ L \in Nat /\ r.n \in Slots /\ r.n \in Nat
      /\ RingHolds(r, xs)
  BY StatsAssumption DEF StatsTypes, RingInv, Slots
<1> HIDE DEF r, xs
<1>2. /\ r.n = L % SampleCap /\ (r.full <=> L >= SampleCap)
      /\ \A i \in 1..L : L < i + SampleCap => r.xs[(i - 1) % SampleCap] = xs[i]
  BY <1>1 DEF RingHolds
<1>3. k = (IF L >= SampleCap THEN SampleCap ELSE L)
  <2> HIDE DEF L
  <2>1. \E m \in {SampleCap, L} : \A y \in {SampleCap, L} : m <= y
    BY <1>1
  <2>2. k \in {SampleCap, L} /\ \A y \in {SampleCap, L} : k <= y
    BY <2>1 DEF Min
  <2> QED BY <1>1, <2>2
<1>4. count = k
  <2>1. L < SampleCap => L % SampleCap = L
    BY <1>1, RemainderTurns
  <2> QED BY <1>1, <1>2, <1>3, <2>1
<1> HIDE DEF L, k
<1>5. k \in Nat /\ k <= L /\ k <= SampleCap /\ L - k \in Nat
  BY <1>1, <1>3
<1>6. ASSUME NEW i \in 1..k
      PROVE  r.xs[(first + i - 1) % SampleCap] = xs[(L - k) + i]
  <2> DEFINE j == (L - k) + i
  <2>1. /\ i \in Nat /\ i >= 1 /\ i - 1 \in Nat /\ j \in 1..L /\ j - 1 \in Nat /\ j - 1 = (L - k) + (i - 1)
        /\ L < j + SampleCap
    BY <1>1, <1>5
  <2>2. (first + i - 1) % SampleCap = (j - 1) % SampleCap
    <3>1. CASE r.full
      <4>1. k = SampleCap /\ first = L % SampleCap
        BY <1>2, <1>3, <3>1
      <4>2. ((L % SampleCap) + (i - 1)) % SampleCap = (L + (i - 1)) % SampleCap
        BY <1>1, <2>1, RemainderAdds
      <4>3. ((j - 1) + SampleCap) % SampleCap = (j - 1) % SampleCap
        BY <1>1, <2>1, RemainderTurns
      <4>4. L + (i - 1) = (j - 1) + SampleCap
        BY <1>1, <2>1, <4>1
      <4>5. first + i - 1 = (L % SampleCap) + (i - 1)
        BY <1>1, <1>2, <2>1, <4>1
      <4> QED BY <4>2, <4>3, <4>4, <4>5
    <3>2. CASE ~r.full
      <4>1. k = L /\ first = 0
        BY <1>1, <1>2, <1>3, <3>2
      <4> QED BY <1>1, <2>1, <4>1
    <3> QED BY <3>1, <3>2
  <2>3. r.xs[(j - 1) % SampleCap] = xs[j]
    BY <1>2, <2>1
  <2> QED BY <2>2, <2>3
<1>7. Snapshot(d) = [i \in 1..k |-> r.xs[(first + i - 1) % SampleCap]]
  BY <1>4 DEF Snapshot, r
<1>8. SubSeq(xs, L - k + 1, L) = [i \in 1..k |-> xs[(L - k) + i]]
  <2>1. L - (L - k + 1) + 1 = k
    BY <1>1, <1>5
  <2> QED BY <1>1, <1>5, <2>1
<1>9. Snapshot(d) = SubSeq(xs, L - k + 1, L)
  BY <1>6, <1>7, <1>8
<1> QED BY <1>9 DEF L, k, xs

\* Facts that every step's proof needs.
LEMMA StatsFacts ==
  ASSUME StatsInv
  PROVE  /\ Window \in Nat \ {0} /\ MaxNow \in Nat /\ MaxRequests \in Nat
         /\ now \in Nat /\ now \in Seconds /\ now >= Window /\ rpsTs \in Nat /\ rpsTs <= now
         /\ total \in Nat /\ total <= MaxRequests
         /\ \A t \in Seconds : t \in Nat /\ t % Window \in Buckets /\ hits[t] \in Nat
         /\ \A b \in Buckets : rpsBuf[b] \in Nat
         /\ \A d \in StatsDomains : lastReq[d] \in Nat /\ Len(samples[d]) \in Nat
         /\ IsFiniteSet(Uncounted) /\ Cardinality(Uncounted) \in Nat
<1>1. Window \in Nat \ {0} /\ MaxNow \in Nat /\ MaxRequests \in Nat
  BY StatsAssumption
<1>2. /\ now \in Nat /\ now \in Seconds /\ now >= Window /\ rpsTs \in Nat /\ rpsTs <= now
      /\ total \in Nat /\ total <= MaxRequests
  BY <1>1 DEF StatsInv, StatsTypes, ClockInv, Seconds
<1>3. ASSUME NEW t \in Seconds PROVE t \in Nat /\ t % Window \in Buckets /\ hits[t] \in Nat
  <2>1. t \in Nat
    BY DEF Seconds
  <2>2. t % Window \in Buckets
    BY <1>1, <2>1, Remainder DEF Buckets
  <2>3. hits[t] \in Nat
    BY DEF StatsInv, StatsTypes
  <2> QED BY <2>1, <2>2, <2>3
<1>4. \A b \in Buckets : rpsBuf[b] \in Nat
  BY DEF StatsInv, StatsTypes
<1>5. \A d \in StatsDomains : lastReq[d] \in Nat /\ Len(samples[d]) \in Nat
  BY DEF StatsInv, StatsTypes, Seconds
<1>6. IsFiniteSet(Uncounted) /\ Cardinality(Uncounted) \in Nat
  BY FS_CardinalityType DEF StatsInv, CountInv
<1> QED BY <1>1, <1>2, <1>3, <1>4, <1>5, <1>6

RecSet == [pc : {"idle", "clock", "bump", "touch"}, domain : StatsDomains, at : Seconds]

\* A recorder goes on, and the others stay where they are.
LEMMA Recorded ==
  ASSUME StatsTypes, NEW p \in Recorders, NEW r \in RecSet, rec' = [rec EXCEPT ![p] = r]
  PROVE  /\ rec' \in [Recorders -> RecSet] /\ rec'[p] = r
         /\ \A q \in Recorders : q # p => rec'[q] = rec[q]
BY DEF StatsTypes, RecSet

\* The clock goes on.
LEMMA TickKeeps ==
  ASSUME StatsInv, StatsTick
  PROVE  StatsInv'
<1>1. /\ now < MaxNow /\ now' = now + 1
      /\ UNCHANGED <<total, ring, samples, rpsBuf, rpsTs, hits, overtaken, lastReq, rec>>
  BY DEF StatsTick, ringVars, bumpVars
<1>2. /\ now \in Nat /\ now' \in Nat /\ now' \in Seconds /\ now' > now /\ MaxNow \in Nat /\ now' >= Window
      /\ rpsTs \in Nat /\ Window \in Nat
  BY <1>1, StatsFacts DEF Seconds
<1>3. StatsTypes'
  BY <1>1, <1>2 DEF StatsInv, StatsTypes
<1>4. CountInv' /\ RingInv' /\ SeenInv'
  BY <1>1 DEF StatsInv, CountInv, Uncounted, RingInv, RingHolds, SeenInv
<1>5. ClockInv'
  <2>1. ASSUME NEW n \in Nat, n <= now PROVE n <= now'
    BY <1>2, <2>1
  <2>2. rpsTs' = 0 \/ (Window <= rpsTs' /\ rpsTs' <= now')
    BY <1>1, <1>2, <2>1 DEF StatsInv, ClockInv
  <2>3. ASSUME NEW p \in Recorders, rec'[p].pc = "bump" PROVE Window <= rec'[p].at /\ rec'[p].at <= now'
    <3>1. rec[p].at \in Nat
      BY DEF StatsInv, StatsTypes, Seconds
    <3> QED BY <1>1, <2>1, <2>3, <3>1 DEF StatsInv, ClockInv
  <2>4. \A d \in StatsDomains : lastReq'[d] <= now'
    BY <1>1, <2>1, StatsFacts DEF StatsInv, ClockInv
  <2>5. ASSUME NEW s \in Seconds, hits'[s] > 0 PROVE s <= now' /\ (s <= rpsTs' \/ s \in overtaken')
    <3>1. s \in Nat
      BY StatsFacts
    <3> QED BY <1>1, <2>1, <2>5, <3>1 DEF StatsInv, ClockInv
  <2>6. rpsTs' = 0 => \A b \in Buckets : rpsBuf'[b] = 0
    BY <1>1 DEF StatsInv, ClockInv
  <2> QED BY <1>2, <2>2, <2>3, <2>4, <2>5, <2>6 DEF ClockInv
<1>6. WindowInv'
  <2>1. ASSUME NEW t \in Seconds, t <= rpsTs', now' < t + Window PROVE rpsBuf'[t % Window] <= hits'[t]
    <3>1. t <= rpsTs /\ now < t + Window
      BY <1>1, <1>2, <2>1, StatsFacts
    <3> QED BY <1>1, <3>1 DEF StatsInv, WindowInv
  <2>2. \A t \in Seconds : t <= rpsTs' /\ rpsTs' < t + Window /\ t \notin overtaken' => rpsBuf'[t % Window] = hits'[t]
    BY <1>1 DEF StatsInv, WindowInv
  <2> QED BY <2>1, <2>2 DEF WindowInv
<1> QED BY <1>3, <1>4, <1>5, <1>6 DEF StatsInv

\* Record begins: the sample goes into the domain's ring.
LEMMA SampleKeeps ==
  ASSUME StatsInv, NEW p \in Recorders, NEW d \in StatsDomains, Sample(p, d)
  PROVE  StatsInv'
<1> DEFINE r == [pc |-> "clock", domain |-> d, at |-> 0]
<1> DEFINE c == Cardinality(Uncounted)
<1>1. /\ rec[p].pc = "idle" /\ total < MaxRequests /\ total' = total + 1
      /\ ring' = [ring EXCEPT ![d] = Push(ring[d], total')]
      /\ samples' = [samples EXCEPT ![d] = Append(samples[d], total')]
      /\ rec' = [rec EXCEPT ![p] = r]
      /\ UNCHANGED <<now, rpsBuf, rpsTs, hits, overtaken, lastReq>>
  BY DEF Sample, bumpVars
<1>2. total \in Nat /\ total' \in Nat /\ total' \in 1..MaxRequests /\ total' \in 0..MaxRequests
  BY <1>1, StatsFacts
<1>3. r \in RecSet /\ r.pc = "clock" /\ r.domain = d
  BY StatsAssumption DEF RecSet, Seconds
<1> HIDE DEF r
<1>4. rec' \in [Recorders -> RecSet] /\ rec'[p] = r /\ \A q \in Recorders : q # p => rec'[q] = rec[q]
  BY <1>1, <1>3, Recorded DEF StatsInv
<1>5. /\ ring[d] \in [xs : [Slots -> 0..MaxRequests], n : Slots, full : BOOLEAN]
      /\ samples[d] \in Seq(1..MaxRequests) /\ RingHolds(ring[d], samples[d])
  BY DEF StatsInv, StatsTypes, RingInv
<1> DEFINE s == Push(ring[d], total')
<1> DEFINE ys == Append(samples[d], total')
<1>6. s \in [xs : [Slots -> 0..MaxRequests], n : Slots, full : BOOLEAN] /\ RingHolds(s, ys)
  BY <1>2, <1>5, PushHolds
<1>7. ys \in Seq(1..MaxRequests) /\ Len(ys) > 0
  BY <1>2, <1>5
<1>8. ring' = [ring EXCEPT ![d] = s] /\ samples' = [samples EXCEPT ![d] = ys]
  BY <1>1
<1> HIDE DEF s, ys
<1>9. ring' \in [StatsDomains -> [xs : [Slots -> 0..MaxRequests], n : Slots, full : BOOLEAN]]
  BY <1>6, <1>8 DEF StatsInv, StatsTypes
<1>10. /\ samples' \in [StatsDomains -> Seq(1..MaxRequests)] /\ samples'[d] = ys /\ ring'[d] = s
       /\ \A e \in StatsDomains : e # d => samples'[e] = samples[e] /\ ring'[e] = ring[e]
  BY <1>7, <1>8 DEF StatsInv, StatsTypes
<1>11. StatsTypes'
  BY <1>1, <1>2, <1>4, <1>9, <1>10 DEF StatsInv, StatsTypes, RecSet
<1>12. RingInv'
  <2>1. ASSUME NEW e \in StatsDomains PROVE RingHolds(ring'[e], samples'[e])
    <3>1. CASE e = d
      BY <1>6, <1>10, <3>1
    <3>2. CASE e # d
      BY <1>10, <3>2 DEF StatsInv, RingInv
    <3> QED BY <3>1, <3>2
  <2> QED BY <2>1 DEF RingInv, RingHolds
<1>13. CountInv'
  <2>1. Uncounted' = Uncounted \cup {p} /\ p \notin Uncounted
    BY <1>1, <1>3, <1>4 DEF Uncounted
  <2>2. IsFiniteSet(Uncounted') /\ Cardinality(Uncounted') = c + 1 /\ c \in Nat
    BY <2>1, FS_AddElement, StatsFacts
  <2> HIDE DEF c
  <2>3. ASSUME NEW n \in Nat, n + c <= total PROVE n + (c + 1) <= total'
    BY <1>1, <1>2, <2>2, <2>3
  <2>4. ASSUME NEW t \in Seconds PROVE hits'[t] + Cardinality(Uncounted') <= total'
    <3>1. hits[t] \in Nat /\ hits[t] + c <= total
      BY StatsFacts DEF StatsInv, CountInv, c
    <3> QED BY <1>1, <2>2, <2>3, <3>1
  <2>5. ASSUME NEW b \in Buckets PROVE rpsBuf'[b] + Cardinality(Uncounted') <= total'
    <3>1. rpsBuf[b] \in Nat /\ rpsBuf[b] + c <= total
      BY StatsFacts DEF StatsInv, CountInv, c
    <3> QED BY <1>1, <2>2, <2>3, <3>1
  <2> QED BY <2>2, <2>4, <2>5 DEF CountInv
<1>14. ClockInv'
  <2>1. ASSUME NEW q \in Recorders, rec'[q].pc = "bump" PROVE Window <= rec'[q].at /\ rec'[q].at <= now'
    BY <1>1, <1>3, <1>4, <2>1 DEF StatsInv, ClockInv
  <2> QED BY <1>1, <2>1 DEF StatsInv, ClockInv
<1>15. WindowInv'
  BY <1>1 DEF StatsInv, WindowInv
<1>16. SeenInv'
  <2>1. ASSUME NEW e \in StatsDomains, lastReq'[e] # 0 PROVE Len(samples'[e]) > 0
    BY <1>1, <1>7, <1>10, <2>1 DEF StatsInv, SeenInv
  <2>2. ASSUME NEW e \in StatsDomains, Len(samples'[e]) > 0
        PROVE  lastReq'[e] # 0 \/ \E q \in Recorders : rec'[q].pc # "idle" /\ rec'[q].domain = e
    <3>1. CASE e = d
      BY <1>3, <1>4, <3>1
    <3>2. CASE e # d
      <4>1. lastReq[e] # 0 \/ \E q \in Recorders : rec[q].pc # "idle" /\ rec[q].domain = e
        BY <1>10, <2>2, <3>2 DEF StatsInv, SeenInv
      <4> QED BY <1>1, <1>4, <4>1
    <3> QED BY <3>1, <3>2
  <2>3. ASSUME NEW q \in Recorders, rec'[q].pc # "idle" PROVE Len(samples'[rec'[q].domain]) > 0
    <3>1. CASE q = p
      BY <1>3, <1>4, <1>7, <1>10, <3>1
    <3>2. CASE q # p
      <4>1. rec'[q] = rec[q] /\ rec[q].domain \in StatsDomains /\ Len(samples[rec[q].domain]) > 0
        BY <1>4, <2>3, <3>2 DEF StatsInv, StatsTypes, SeenInv
      <4> QED BY <1>7, <1>10, <4>1
    <3> QED BY <3>1, <3>2
  <2>4. ASSUME NEW t \in Seconds, hits'[t] > 0
        PROVE  (\E e \in StatsDomains : lastReq'[e] >= t) \/ \E q \in Recorders : rec'[q].pc = "touch"
    BY <1>1, <1>4, <2>4 DEF StatsInv, SeenInv
  <2> QED BY <2>1, <2>2, <2>3, <2>4 DEF SeenInv
<1> QED BY <1>11, <1>12, <1>13, <1>14, <1>15, <1>16 DEF StatsInv

\* A bump that is late, or the first, clears no bucket.
LEMMA NoneSkipped ==
  ASSUME StatsInv, NEW s \in Seconds, s < rpsTs \/ rpsTs = 0
  PROVE  Skipped(s) = {}
<1> DEFINE from == IF rpsTs = 0 THEN s ELSE rpsTs
<1>1. s \in Nat /\ Window \in Nat \ {0} /\ rpsTs \in Nat
  BY StatsFacts
<1>2. from \in Nat /\ s <= from
  BY <1>1
<1> HIDE DEF from
<1>3. ~(s >= from + Window) /\ (from + 1)..s = {}
  BY <1>1, <1>2
<1> QED BY <1>3 DEF Skipped, from

\* Another clears, of the window it ends, the buckets of the seconds since the
\* last bump.
LEMMA SinceSkipped ==
  ASSUME StatsInv, NEW s \in Seconds, rpsTs # 0, rpsTs <= s, NEW t \in Seconds, t <= s, s < t + Window
  PROVE  t % Window \in Skipped(s) <=> rpsTs < t
<1>1. s \in Nat /\ t \in Nat /\ Window \in Nat \ {0} /\ rpsTs \in Nat /\ t % Window \in Buckets
  BY StatsFacts
<1>2. CASE s >= rpsTs + Window
  <2>1. rpsTs < t
    BY <1>1, <1>2
  <2> QED BY <1>1, <1>2, <2>1 DEF Skipped
<1>3. CASE ~(s >= rpsTs + Window)
  <2>1. Skipped(s) = {u % Window : u \in (rpsTs + 1)..s}
    BY <1>3 DEF Skipped
  <2>2. ASSUME rpsTs < t PROVE t % Window \in Skipped(s)
    <3>1. t \in (rpsTs + 1)..s
      BY <1>1, <2>2
    <3> QED BY <2>1, <3>1
  <2>3. ASSUME ~(rpsTs < t), NEW u \in (rpsTs + 1)..s PROVE u % Window # t % Window
    <3>1. u \in Nat /\ t < u /\ u < t + Window
      BY <1>1, <2>3
    <3> QED BY <1>1, <3>1, RemaindersDiffer
  <2> QED BY <2>1, <2>2, <2>3
<1> QED BY <1>2, <1>3

\* The clock is read, of no use to anyone yet.
LEMMA ReadClockKeeps ==
  ASSUME StatsInv, NEW p \in Recorders, ReadClock(p)
  PROVE  StatsInv'
<1> DEFINE r == [rec[p] EXCEPT !.pc = "bump", !.at = now]
<1>1. /\ rec[p].pc = "clock" /\ rec' = [rec EXCEPT ![p] = r]
      /\ UNCHANGED <<now, total, ring, samples, rpsBuf, rpsTs, hits, overtaken, lastReq>>
  BY DEF ReadClock, ringVars, bumpVars
<1>2. r \in RecSet /\ r.pc = "bump" /\ r.domain = rec[p].domain /\ r.at = now
  <2>1. rec[p] \in RecSet /\ now \in Seconds
    BY DEF StatsInv, StatsTypes, RecSet
  <2> QED BY <2>1 DEF RecSet
<1> HIDE DEF r
<1>3. rec' \in [Recorders -> RecSet] /\ rec'[p] = r /\ \A q \in Recorders : q # p => rec'[q] = rec[q]
  BY <1>1, <1>2, Recorded DEF StatsInv
<1>4. StatsTypes'
  BY <1>1, <1>3 DEF StatsInv, StatsTypes, RecSet
<1>5. CountInv'
  <2>1. Uncounted' = Uncounted
    BY <1>1, <1>2, <1>3 DEF Uncounted
  <2> QED BY <1>1, <2>1 DEF StatsInv, CountInv
<1>6. RingInv' /\ WindowInv'
  BY <1>1 DEF StatsInv, RingInv, RingHolds, WindowInv
<1>7. ClockInv'
  <2>1. ASSUME NEW q \in Recorders, rec'[q].pc = "bump" PROVE Window <= rec'[q].at /\ rec'[q].at <= now'
    <3>1. CASE q = p
      <4>1. rec'[q].at = now /\ now' = now /\ now \in Nat /\ Window \in Nat /\ now >= Window
        BY <1>1, <1>2, <1>3, <3>1, StatsFacts
      <4> QED BY <4>1
    <3>2. CASE q # p
      BY <1>1, <1>3, <2>1, <3>2 DEF StatsInv, ClockInv
    <3> QED BY <3>1, <3>2
  <2> QED BY <1>1, <2>1 DEF StatsInv, ClockInv
<1>8. SeenInv'
  <2>1. ASSUME NEW e \in StatsDomains, Len(samples'[e]) > 0
        PROVE  lastReq'[e] # 0 \/ \E q \in Recorders : rec'[q].pc # "idle" /\ rec'[q].domain = e
    <3>1. lastReq[e] # 0 \/ \E q \in Recorders : rec[q].pc # "idle" /\ rec[q].domain = e
      BY <1>1, <2>1 DEF StatsInv, SeenInv
    <3> QED BY <1>1, <1>2, <1>3, <3>1
  <2>2. ASSUME NEW q \in Recorders, rec'[q].pc # "idle" PROVE Len(samples'[rec'[q].domain]) > 0
    <3>1. rec[q].pc # "idle" /\ rec'[q].domain = rec[q].domain
      BY <1>1, <1>2, <1>3, <2>2
    <3> QED BY <1>1, <3>1 DEF StatsInv, SeenInv
  <2>3. ASSUME NEW t \in Seconds, hits'[t] > 0
        PROVE  (\E e \in StatsDomains : lastReq'[e] >= t) \/ \E q \in Recorders : rec'[q].pc = "touch"
    BY <1>1, <1>3, <2>3 DEF StatsInv, SeenInv
  <2>4. \A e \in StatsDomains : lastReq'[e] # 0 => Len(samples'[e]) > 0
    BY <1>1 DEF StatsInv, SeenInv
  <2> QED BY <2>1, <2>2, <2>3, <2>4 DEF SeenInv
<1> QED BY <1>4, <1>5, <1>6, <1>7, <1>8 DEF StatsInv

\* The request is counted with the second its goroutine has read.
LEMMA BumpKeeps ==
  ASSUME StatsInv, NEW p \in Recorders, BumpRPS(p)
  PROVE  StatsInv'
<1> DEFINE s == rec[p].at
<1> DEFINE r == [rec[p] EXCEPT !.pc = "touch"]
<1> DEFINE c == Cardinality(Uncounted)
<1>1. /\ rec[p].pc = "bump" /\ rec' = [rec EXCEPT ![p] = r]
      /\ rpsBuf' = [Cleared(s) EXCEPT ![s % Window] = Cleared(s)[s % Window] + 1]
      /\ rpsTs' = s /\ hits' = [hits EXCEPT ![s] = hits[s] + 1]
      /\ overtaken' = overtaken \cup Overtaken(s)
      /\ UNCHANGED <<now, total, ring, samples, lastReq>>
  BY DEF BumpRPS, ringVars
<1>2. r \in RecSet /\ r.pc = "touch" /\ r.domain = rec[p].domain
  <2>1. rec[p] \in RecSet
    BY DEF StatsInv, StatsTypes, RecSet
  <2> QED BY <2>1 DEF RecSet
<1>3. rec' \in [Recorders -> RecSet] /\ rec'[p] = r /\ \A q \in Recorders : q # p => rec'[q] = rec[q]
  <2> HIDE DEF r
  <2> QED BY <1>1, <1>2, Recorded DEF StatsInv
<1>4. s \in Seconds /\ s \in Nat /\ Window <= s /\ s <= now /\ s % Window \in Buckets
  <2>1. s \in Seconds
    BY DEF StatsInv, StatsTypes
  <2> QED BY <1>1, <2>1, StatsFacts DEF StatsInv, ClockInv
<1> HIDE DEF s, r
<1>5. /\ Window \in Nat \ {0} /\ now \in Nat /\ rpsTs \in Nat /\ rpsTs <= now
      /\ total \in Nat /\ total <= MaxRequests /\ MaxRequests \in Nat
  BY StatsFacts
<1>6. ASSUME NEW b \in Buckets
      PROVE  rpsBuf'[b] = (IF b \in Skipped(s) THEN 0 ELSE rpsBuf[b]) + (IF b = s % Window THEN 1 ELSE 0)
  <2>1. Cleared(s)[b] = (IF b \in Skipped(s) THEN 0 ELSE rpsBuf[b]) /\ DOMAIN Cleared(s) = Buckets
    BY DEF Cleared
  <2>2. rpsBuf[b] \in Nat
    BY StatsFacts
  <2>3. rpsBuf'[b] = Cleared(s)[b] + (IF b = s % Window THEN 1 ELSE 0)
    BY <1>1, <2>1, <2>2
  <2> QED BY <2>1, <2>3
<1>7. \A t \in Seconds : hits'[t] = hits[t] + (IF t = s THEN 1 ELSE 0)
  <2>1. hits \in [Seconds -> 0..MaxRequests] /\ hits' = [hits EXCEPT ![s] = hits[s] + 1]
    BY <1>1 DEF StatsInv, StatsTypes
  <2>2. ASSUME NEW t \in Seconds PROVE hits'[t] = hits[t] + (IF t = s THEN 1 ELSE 0)
    BY <1>4, <2>1, StatsFacts
  <2> QED BY <2>2
<1>8. CountInv'
  <2>1. Uncounted' = Uncounted \ {p} /\ p \in Uncounted
    BY <1>1, <1>2, <1>3 DEF Uncounted
  <2>2. IsFiniteSet(Uncounted') /\ Cardinality(Uncounted') = c - 1 /\ c \in Nat
    BY <2>1, FS_RemoveElement, StatsFacts
  <2> HIDE DEF c
  <2>3. ASSUME NEW n \in Nat, n + c <= total, NEW m \in Nat, m <= n + 1 PROVE m + (c - 1) <= total
    BY <1>5, <2>2, <2>3
  <2>4. ASSUME NEW t \in Seconds PROVE hits'[t] + Cardinality(Uncounted') <= total'
    <3>1. hits[t] \in Nat /\ hits[t] + c <= total
      BY StatsFacts DEF StatsInv, CountInv, c
    <3>2. hits'[t] \in Nat /\ hits'[t] <= hits[t] + 1
      BY <1>7, <3>1
    <3> QED BY <1>1, <2>2, <2>3, <3>1, <3>2
  <2>5. ASSUME NEW b \in Buckets PROVE rpsBuf'[b] + Cardinality(Uncounted') <= total'
    <3>1. rpsBuf[b] \in Nat /\ rpsBuf[b] + c <= total
      BY StatsFacts DEF StatsInv, CountInv, c
    <3>2. rpsBuf'[b] \in Nat /\ rpsBuf'[b] <= rpsBuf[b] + 1
      BY <1>6, <3>1
    <3> QED BY <1>1, <2>2, <2>3, <3>1, <3>2
  <2> QED BY <2>2, <2>4, <2>5 DEF CountInv
<1>9. StatsTypes'
  <2>1. Cardinality(Uncounted') \in Nat
    BY <1>8, FS_CardinalityType DEF CountInv
  <2>2. ASSUME NEW n \in Nat, n + Cardinality(Uncounted') <= total PROVE n \in 0..MaxRequests
    BY <1>5, <2>1, <2>2
  <2>3. rpsBuf' \in [Buckets -> 0..MaxRequests]
    <3>1. DOMAIN rpsBuf' = Buckets /\ rpsBuf' = [b \in Buckets |-> rpsBuf'[b]]
      BY <1>1 DEF Cleared
    <3>2. ASSUME NEW b \in Buckets PROVE rpsBuf'[b] \in 0..MaxRequests
      <4>1. rpsBuf'[b] \in Nat
        BY <1>6, StatsFacts
      <4> QED BY <1>1, <1>8, <2>2, <4>1 DEF CountInv
    <3> QED BY <3>1, <3>2
  <2>4. hits' \in [Seconds -> 0..MaxRequests]
    <3>1. DOMAIN hits' = Seconds /\ hits' = [t \in Seconds |-> hits'[t]]
      BY <1>1 DEF StatsInv, StatsTypes
    <3>2. ASSUME NEW t \in Seconds PROVE hits'[t] \in 0..MaxRequests
      <4>1. hits'[t] \in Nat
        BY <1>7, StatsFacts
      <4> QED BY <1>1, <1>8, <2>2, <4>1 DEF CountInv
    <3> QED BY <3>1, <3>2
  <2>5. overtaken' \subseteq Seconds
    BY <1>1 DEF StatsInv, StatsTypes, Overtaken
  <2> QED BY <1>1, <1>3, <1>4, <2>3, <2>4, <2>5 DEF StatsInv, StatsTypes, RecSet
<1>10. RingInv'
  BY <1>1 DEF StatsInv, RingInv, RingHolds
<1>11. ClockInv'
  <2>1. rpsTs' = 0 \/ (Window <= rpsTs' /\ rpsTs' <= now')
    BY <1>1, <1>4
  <2>2. ASSUME NEW q \in Recorders, rec'[q].pc = "bump" PROVE Window <= rec'[q].at /\ rec'[q].at <= now'
    BY <1>1, <1>2, <1>3, <2>2 DEF StatsInv, ClockInv
  <2>3. ASSUME NEW t \in Seconds, hits'[t] > 0 PROVE t <= now' /\ (t <= rpsTs' \/ t \in overtaken')
    <3>1. t \in Nat
      BY StatsFacts
    <3>2. CASE t = s
      BY <1>1, <1>4, <3>2
    <3>3. CASE t # s
      <4>1. hits[t] > 0
        BY <1>7, <2>3, <3>3, StatsFacts
      <4>2. t <= now /\ (t <= rpsTs \/ t \in overtaken)
        BY <4>1 DEF StatsInv, ClockInv
      <4>3. ASSUME t <= rpsTs, ~(t <= s) PROVE t \in Overtaken(s)
        <5>1. s < rpsTs /\ t > s
          BY <1>4, <1>5, <3>1, <4>3
        <5> QED BY <4>3, <5>1 DEF Overtaken
      <4> QED BY <1>1, <4>2, <4>3
    <3> QED BY <3>2, <3>3
  <2>4. rpsTs' # 0
    BY <1>1, <1>4, <1>5
  <2> QED BY <1>1, <2>1, <2>2, <2>3, <2>4 DEF StatsInv, ClockInv
<1>12. ASSUME NEW t \in Seconds, t <= s, s < t + Window
       PROVE  /\ t # s => rpsBuf'[t % Window] = (IF t % Window \in Skipped(s) THEN 0 ELSE rpsBuf[t % Window])
                          /\ hits'[t] = hits[t]
              /\ t = s => rpsBuf'[t % Window] = (IF t % Window \in Skipped(s) THEN 0 ELSE rpsBuf[t % Window]) + 1
                          /\ hits'[t] = hits[t] + 1
  <2>1. t \in Nat /\ t % Window \in Buckets /\ rpsBuf[t % Window] \in Nat /\ hits[t] \in Nat
    BY StatsFacts
  <2>2. ASSUME t # s PROVE t % Window # s % Window
    <3>1. t < s
      BY <1>4, <1>12, <2>1, <2>2
    <3> QED BY <1>4, <1>5, <1>12, <2>1, <3>1, RemaindersDiffer
  <2> QED BY <1>6, <1>7, <2>1, <2>2
<1>13. ASSUME NEW t \in Seconds, t <= s, s < t + Window, t \notin overtaken'
       PROVE  rpsBuf'[t % Window] = hits'[t]
  <2>1. t \in Nat /\ t \notin overtaken /\ t \notin Overtaken(s) /\ hits[t] \in Nat /\ rpsBuf[t % Window] \in Nat
    BY <1>1, <1>13, StatsFacts
  <2>2. (IF t % Window \in Skipped(s) THEN 0 ELSE rpsBuf[t % Window]) = hits[t]
    <3>1. ~(hits[t] > 0) => hits[t] = 0
      BY <2>1
    <3>2. CASE rpsTs = 0
      <4>1. rpsBuf[t % Window] = 0
        BY <3>2, StatsFacts DEF StatsInv, ClockInv
      <4>2. ~(t <= rpsTs)
        BY <1>4, <1>5, <1>13, <2>1, <3>2
      <4>3. hits[t] = 0
        BY <2>1, <3>1, <4>2 DEF StatsInv, ClockInv
      <4> QED BY <4>1, <4>3
    <3>3. CASE rpsTs # 0 /\ s < rpsTs
      <4>1. Skipped(s) = {}
        BY <1>4, <3>3, NoneSkipped
      <4>2. t <= rpsTs /\ rpsTs < t + Window
        <5>1. t <= rpsTs
          BY <1>4, <1>5, <1>13, <2>1, <3>3
        <5>2. ~(t + Window <= rpsTs)
          BY <2>1, <3>3, <5>1 DEF Overtaken
        <5> QED BY <1>5, <2>1, <5>1, <5>2
      <4>3. rpsBuf[t % Window] = hits[t]
        BY <2>1, <4>2 DEF StatsInv, WindowInv
      <4> QED BY <4>1, <4>3
    <3>4. CASE rpsTs # 0 /\ rpsTs <= s
      <4>1. t % Window \in Skipped(s) <=> rpsTs < t
        BY <1>4, <1>13, <3>4, SinceSkipped
      <4>2. CASE rpsTs < t
        <5>1. ~(t <= rpsTs)
          BY <1>5, <2>1, <4>2
        <5>2. hits[t] = 0
          BY <2>1, <3>1, <5>1 DEF StatsInv, ClockInv
        <5> QED BY <4>1, <4>2, <5>2
      <4>3. CASE ~(rpsTs < t)
        <5>1. t <= rpsTs /\ rpsTs < t + Window
          BY <1>4, <1>5, <1>13, <2>1, <3>4, <4>3
        <5>2. rpsBuf[t % Window] = hits[t]
          BY <2>1, <5>1 DEF StatsInv, WindowInv
        <5> QED BY <4>1, <4>3, <5>2
      <4> QED BY <4>2, <4>3
    <3> QED BY <1>4, <1>5, <3>2, <3>3, <3>4
  <2> QED BY <1>12, <1>13, <2>1, <2>2
<1>14. ASSUME NEW t \in Seconds, t <= s, now < t + Window
       PROVE  rpsBuf'[t % Window] <= hits'[t]
  <2>1. t \in Nat /\ s < t + Window /\ rpsTs < t + Window /\ hits[t] \in Nat /\ rpsBuf[t % Window] \in Nat
    BY <1>4, <1>5, <1>14, StatsFacts
  <2>2. (IF t % Window \in Skipped(s) THEN 0 ELSE rpsBuf[t % Window]) <= hits[t]
    <3>1. CASE t <= rpsTs
      <4>1. rpsBuf[t % Window] <= hits[t]
        BY <1>14, <3>1 DEF StatsInv, WindowInv
      <4> QED BY <2>1, <4>1
    <3>2. CASE ~(t <= rpsTs) /\ rpsTs = 0
      <4>1. rpsBuf[t % Window] = 0
        BY <3>2, StatsFacts DEF StatsInv, ClockInv
      <4> QED BY <2>1, <4>1
    <3>3. CASE ~(t <= rpsTs) /\ rpsTs # 0
      <4>1. rpsTs < t /\ rpsTs <= s
        BY <1>4, <1>5, <1>14, <2>1, <3>3
      <4>2. t % Window \in Skipped(s)
        BY <1>4, <1>14, <2>1, <3>3, <4>1, SinceSkipped
      <4> QED BY <2>1, <4>2
    <3> QED BY <3>1, <3>2, <3>3
  <2> DEFINE n == IF t % Window \in Skipped(s) THEN 0 ELSE rpsBuf[t % Window]
  <2>3. n \in Nat /\ n <= hits[t]
    BY <2>1, <2>2
  <2>4. (t # s => rpsBuf'[t % Window] = n /\ hits'[t] = hits[t]) /\ (t = s => rpsBuf'[t % Window] = n + 1 /\ hits'[t] = hits[t] + 1)
    BY <1>12, <1>14, <2>1
  <2> HIDE DEF n
  <2> QED BY <2>1, <2>3, <2>4
<1>15. WindowInv'
  BY <1>1, <1>13, <1>14 DEF WindowInv
<1>16. SeenInv'
  <2>1. ASSUME NEW e \in StatsDomains, Len(samples'[e]) > 0
        PROVE  lastReq'[e] # 0 \/ \E q \in Recorders : rec'[q].pc # "idle" /\ rec'[q].domain = e
    <3>1. lastReq[e] # 0 \/ \E q \in Recorders : rec[q].pc # "idle" /\ rec[q].domain = e
      BY <1>1, <2>1 DEF StatsInv, SeenInv
    <3> QED BY <1>1, <1>2, <1>3, <3>1
  <2>2. ASSUME NEW q \in Recorders, rec'[q].pc # "idle" PROVE Len(samples'[rec'[q].domain]) > 0
    <3>1. rec[q].pc # "idle" /\ rec'[q].domain = rec[q].domain
      BY <1>1, <1>2, <1>3, <2>2
    <3> QED BY <1>1, <3>1 DEF StatsInv, SeenInv
  <2>3. ASSUME NEW t \in Seconds, hits'[t] > 0
        PROVE  (\E e \in StatsDomains : lastReq'[e] >= t) \/ \E q \in Recorders : rec'[q].pc = "touch"
    BY <1>2, <1>3
  <2>4. \A e \in StatsDomains : lastReq'[e] # 0 => Len(samples'[e]) > 0
    BY <1>1 DEF StatsInv, SeenInv
  <2> QED BY <2>1, <2>2, <2>3, <2>4 DEF SeenInv
<1> QED BY <1>8, <1>9, <1>10, <1>11, <1>15, <1>16 DEF StatsInv

\* The time of the domain's last request is now.
LEMMA TouchKeeps ==
  ASSUME StatsInv, NEW p \in Recorders, TouchLastReq(p)
  PROVE  StatsInv'
<1> DEFINE r == [rec[p] EXCEPT !.pc = "idle", !.at = 0]
<1> DEFINE d == rec[p].domain
<1>1. /\ rec[p].pc = "touch" /\ rec' = [rec EXCEPT ![p] = r] /\ lastReq' = [lastReq EXCEPT ![d] = now]
      /\ UNCHANGED <<now, total, ring, samples, rpsBuf, rpsTs, hits, overtaken>>
  BY DEF TouchLastReq, ringVars, bumpVars
<1>2. r \in RecSet /\ r.pc = "idle" /\ d \in StatsDomains
  <2>1. rec[p] \in RecSet /\ 0 \in Seconds
    BY StatsAssumption DEF StatsInv, StatsTypes, RecSet, Seconds
  <2> QED BY <2>1 DEF RecSet
<1> HIDE DEF r
<1>3. rec' \in [Recorders -> RecSet] /\ rec'[p] = r /\ \A q \in Recorders : q # p => rec'[q] = rec[q]
  BY <1>1, <1>2, Recorded DEF StatsInv
<1>4. /\ now \in Seconds /\ now \in Nat /\ now # 0
      /\ lastReq' \in [StatsDomains -> Seconds] /\ lastReq'[d] = now
      /\ \A e \in StatsDomains : e # d => lastReq'[e] = lastReq[e]
  <2>1. now \in Seconds /\ now \in Nat /\ now # 0
    BY StatsFacts
  <2> HIDE DEF d
  <2> QED BY <1>1, <1>2, <2>1 DEF StatsInv, StatsTypes
<1>5. Len(samples[d]) > 0
  BY <1>1 DEF StatsInv, SeenInv
<1> HIDE DEF d
<1>6. StatsTypes'
  BY <1>1, <1>3, <1>4 DEF StatsInv, StatsTypes, RecSet
<1>7. CountInv'
  <2>1. Uncounted' = Uncounted
    BY <1>1, <1>2, <1>3 DEF Uncounted
  <2> QED BY <1>1, <2>1 DEF StatsInv, CountInv
<1>8. RingInv' /\ WindowInv'
  BY <1>1 DEF StatsInv, RingInv, RingHolds, WindowInv
<1>9. ClockInv'
  <2>1. ASSUME NEW q \in Recorders, rec'[q].pc = "bump" PROVE Window <= rec'[q].at /\ rec'[q].at <= now'
    BY <1>1, <1>2, <1>3, <2>1 DEF StatsInv, ClockInv
  <2>2. ASSUME NEW e \in StatsDomains PROVE lastReq'[e] <= now'
    BY <1>1, <1>4 DEF StatsInv, ClockInv
  <2> QED BY <1>1, <2>1, <2>2 DEF StatsInv, ClockInv
<1>10. SeenInv'
  <2>1. ASSUME NEW e \in StatsDomains, lastReq'[e] # 0 PROVE Len(samples'[e]) > 0
    BY <1>1, <1>4, <1>5, <2>1 DEF StatsInv, SeenInv
  <2>2. ASSUME NEW e \in StatsDomains, Len(samples'[e]) > 0
        PROVE  lastReq'[e] # 0 \/ \E q \in Recorders : rec'[q].pc # "idle" /\ rec'[q].domain = e
    <3>1. CASE e = d
      BY <1>4, <3>1
    <3>2. CASE e # d
      <4>1. lastReq[e] # 0 \/ \E q \in Recorders : rec[q].pc # "idle" /\ rec[q].domain = e
        BY <1>1, <2>2 DEF StatsInv, SeenInv
      <4> QED BY <1>3, <1>4, <3>2, <4>1 DEF d
    <3> QED BY <3>1, <3>2
  <2>3. ASSUME NEW q \in Recorders, rec'[q].pc # "idle" PROVE Len(samples'[rec'[q].domain]) > 0
    BY <1>1, <1>2, <1>3, <2>3 DEF StatsInv, SeenInv
  <2>4. ASSUME NEW t \in Seconds, hits'[t] > 0 PROVE \E e \in StatsDomains : lastReq'[e] >= t
    <3>1. t <= now /\ t \in Nat
      BY <1>1, <2>4, StatsFacts DEF StatsInv, ClockInv
    <3>2. lastReq'[d] >= t
      BY <1>4, <3>1
    <3> QED BY <1>2, <3>2
  <2> QED BY <2>1, <2>2, <2>3, <2>4 DEF SeenInv
<1> QED BY <1>6, <1>7, <1>8, <1>9, <1>10 DEF StatsInv

\* NewStats has counted nothing.
LEMMA StatsStart ==
  ASSUME StatsInit
  PROVE  StatsInv
<1>1. /\ SampleCap \in Nat \ {0} /\ Window \in Nat \ {0} /\ MaxRequests \in Nat /\ MaxNow \in Nat /\ Window < MaxNow
      /\ StatsDomains # {}
  BY StatsAssumption
<1> DEFINE d == CHOOSE e \in StatsDomains : TRUE
<1>2. d \in StatsDomains
  BY <1>1
<1>3. rec \in [Recorders -> [pc : {"idle"}, domain : {d}, at : {0}]]
  BY DEF StatsInit
<1> HIDE DEF d
<1>4. ASSUME NEW p \in Recorders PROVE rec[p] \in RecSet /\ rec[p].pc = "idle"
  BY <1>1, <1>2, <1>3 DEF RecSet, Seconds
<1>5. rec \in [Recorders -> RecSet]
  BY <1>3, <1>4
<1>6. 0 \in Slots /\ 0 \in 0..MaxRequests /\ 0 \in Seconds /\ Window \in Seconds
  BY <1>1 DEF Slots, Seconds
<1>7. StatsTypes
  <2>1. ring \in [StatsDomains -> [xs : [Slots -> 0..MaxRequests], n : Slots, full : BOOLEAN]]
    BY <1>6 DEF StatsInit
  <2> QED BY <1>5, <1>6, <2>1 DEF StatsInit, StatsTypes, RecSet
<1>8. CountInv
  <2>1. Uncounted = {}
    BY <1>4 DEF Uncounted
  <2> QED BY <1>1, <2>1, FS_EmptySet DEF CountInv, StatsInit
<1>9. RingInv
  <2>1. ASSUME NEW e \in StatsDomains PROVE RingHolds(ring[e], samples[e])
    <3>1. Len(samples[e]) = 0 /\ ring[e].n = 0 /\ ring[e].full = FALSE
      BY DEF StatsInit
    <3>2. 0 % SampleCap = 0
      BY <1>1
    <3> QED BY <1>1, <3>1, <3>2 DEF RingHolds
  <2> QED BY <2>1 DEF RingInv
<1>10. ClockInv
  BY <1>1, <1>4, <1>6 DEF ClockInv, StatsInit
<1>11. WindowInv
  <2>1. ASSUME NEW t \in Seconds PROVE rpsBuf[t % Window] = 0 /\ hits[t] = 0
    <3>1. t % Window \in Buckets
      BY <1>1, Remainder DEF Buckets, Seconds
    <3> QED BY <3>1 DEF StatsInit
  <2> QED BY <2>1 DEF WindowInv
<1>12. SeenInv
  BY <1>4 DEF SeenInv, StatsInit
<1> QED BY <1>7, <1>8, <1>9, <1>10, <1>11, <1>12 DEF StatsInv

\* Behind what the readers get are the rings and what they hold.
THEOREM StatsInvCorrect == StatsSpec => []StatsInv
<1>1. ASSUME StatsInv, [StatsNext]_statsVars PROVE StatsInv'
  <2>1. CASE UNCHANGED statsVars
    BY <1>1, <2>1 DEF statsVars, ringVars, bumpVars, StatsInv, StatsTypes, CountInv, Uncounted, RingInv, RingHolds,
       ClockInv, WindowInv, SeenInv
  <2> QED BY <1>1, <2>1, TickKeeps, SampleKeeps, ReadClockKeeps, BumpKeeps, TouchKeeps DEF StatsNext, RecordStep
<1> QED BY <1>1, StatsStart, PTL DEF StatsSpec

\* Every variable of the statistics has its type; no count comes to more than
\* the requests there were.
THEOREM StatsTypeCorrect == StatsSpec => []StatsTypeOK
<1>1. ASSUME StatsInv PROVE StatsTypeOK
  BY <1>1 DEF StatsInv, StatsTypes, StatsTypeOK
<1> QED BY <1>1, StatsInvCorrect, PTL

\* However often the rings have wrapped and in whatever order the goroutines
\* come to them: Snapshot returns the latest samples, the window shows each
\* second's requests, and LastSeen is no earlier than they are.
THEOREM StatsAreRightCorrect == StatsSpec => []StatsAreRight
<1>1. ASSUME StatsInv PROVE SnapshotIsLatest
  BY <1>1, SnapshotFacts DEF StatsInv, SnapshotIsLatest
<1>2. ASSUME StatsInv PROVE CountsAreRight
  <2>1. now \in Nat /\ now <= MaxNow /\ MaxNow \in Nat /\ Window \in Nat \ {0} /\ now >= Window /\ rpsTs \in Nat /\ rpsTs <= now
    BY <1>2, StatsFacts DEF Seconds
  <2>2. ASSUME NEW at \in Window..now, NEW t \in Shown(at) PROVE t \in Seconds /\ t \in Nat
    BY <2>1 DEF Shown, Seconds
  <2>3. ASSUME NEW at \in Window..now, NEW t \in Shown(at), t <= rpsTs, rpsTs < t + Window, t \notin overtaken
        PROVE  RPS(at)[t] = hits[t]
    <3>1. ~(t + Window <= rpsTs) /\ t \in Seconds
      BY <2>1, <2>2, <2>3
    <3>2. RPS(at)[t] = rpsBuf[t % Window]
      BY <3>1 DEF RPS
    <3> QED BY <1>2, <2>3, <3>1, <3>2 DEF StatsInv, WindowInv
  <2>4. ASSUME NEW t \in Shown(now), t <= rpsTs PROVE RPS(now)[t] <= hits[t]
    <3>1. t \in Seconds /\ t \in Nat
      BY <2>1, <2>2
    <3>2. now < t + Window /\ ~(t + Window <= rpsTs)
      BY <2>1, <3>1 DEF Shown
    <3>3. RPS(now)[t] = rpsBuf[t % Window]
      BY <3>2 DEF RPS
    <3> QED BY <1>2, <2>4, <3>1, <3>2, <3>3 DEF StatsInv, WindowInv
  <2> QED BY <2>3, <2>4 DEF CountsAreRight
<1>3. ASSUME StatsInv PROVE LastSeenFollowsRequests
  <2> SUFFICES ASSUME \A p \in Recorders : rec[p].pc = "idle"
               PROVE  /\ \A d \in StatsDomains : lastReq[d] # 0 <=> samples[d] # <<>>
                      /\ \A s \in Seconds : hits[s] > 0 => \E d \in StatsDomains : lastReq[d] >= s
    BY DEF LastSeenFollowsRequests
  <2>1. ASSUME NEW d \in StatsDomains PROVE lastReq[d] # 0 <=> samples[d] # <<>>
    <3>1. samples[d] \in Seq(1..MaxRequests)
      BY <1>3 DEF StatsInv, StatsTypes
    <3>2. samples[d] # <<>> <=> Len(samples[d]) > 0
      BY <3>1
    <3> QED BY <1>3, <3>2 DEF StatsInv, SeenInv
  <2> QED BY <1>3, <2>1 DEF StatsInv, SeenInv
<1> QED BY <1>1, <1>2, <1>3, StatsInvCorrect, PTL DEF StatsAreRight

\* A second that has had no request yet is shown with the requests of the second
\* one window earlier, whose bucket no bump has cleared: what the readers get
\* wrong when no bump was late (stats.go:134-149).
IdleSecondsRepeat ==
  \A t \in Shown(now) :
    rpsTs < t /\ t - Window \in 0..rpsTs /\ t - Window \notin overtaken => RPS(now)[t] = hits[t - Window]

\* What an idle second shows, for every window and every order of the bumps.
THEOREM IdleSecondsRepeatCorrect == StatsSpec => []IdleSecondsRepeat
<1>1. ASSUME StatsInv PROVE IdleSecondsRepeat
  <2> SUFFICES ASSUME NEW t \in Shown(now), rpsTs < t, t - Window \in 0..rpsTs, t - Window \notin overtaken
               PROVE  RPS(now)[t] = hits[t - Window]
    BY DEF IdleSecondsRepeat
  <2> DEFINE u == t - Window
  <2>1. /\ now \in Nat /\ now <= MaxNow /\ MaxNow \in Nat /\ Window \in Nat \ {0} /\ rpsTs \in Nat /\ rpsTs <= now
        /\ now >= Window
    BY <1>1, StatsFacts DEF Seconds
  <2>2. t \in Nat /\ u \in Nat /\ u \in Seconds /\ t = u + Window /\ u <= rpsTs /\ rpsTs < u + Window
        /\ ~(t + Window <= rpsTs)
    BY <2>1 DEF Shown, Seconds
  <2>3. t % Window = u % Window
    <3> HIDE DEF u
    <3> QED BY <2>1, <2>2, RemainderTurns
  <2>4. RPS(now)[t] = rpsBuf[t % Window]
    BY <2>2 DEF RPS
  <2>5. rpsBuf[u % Window] = hits[u]
    BY <1>1, <2>2 DEF StatsInv, WindowInv
  <2> QED BY <2>3, <2>4, <2>5
<1> QED BY <1>1, StatsInvCorrect, PTL

-----------------------------------------------------------------------------
(* The five together.                                                      *)

\* In what MCParts composes each part behaves as it does alone, so what is
\* proved of a part holds there.
THEOREM PartsBehave == MCSpec => HostsSpec /\ BarLockSpec /\ SetupSpec /\ TuiSpec /\ StatsSpec
<1>1. MCInit => HostsInit /\ BarLockInit /\ SetupInit /\ TuiInit /\ StatsInit
  BY DEF MCInit
<1>2. [MCNext]_<<part, parts>> => [HostsNext]_hostsVars
  BY DEF MCNext, parts
<1>3. [MCNext]_<<part, parts>> => [BarLockNext]_barLockVars
  BY DEF MCNext, parts
<1>4. [MCNext]_<<part, parts>> => [SetupNext]_setupVars
  BY DEF MCNext, parts
<1>5. [MCNext]_<<part, parts>> => [TuiNext]_tuiVars
  BY DEF MCNext, parts
<1>6. [MCNext]_<<part, parts>> => [StatsNext]_statsVars
  BY DEF MCNext, parts
<1> QED BY <1>1, <1>2, <1>3, <1>4, <1>5, <1>6, PTL DEF MCSpec, HostsSpec, BarLockSpec, SetupSpec, TuiSpec, StatsSpec

\* All the variables of the five parts have their types.
THEOREM PartsTypeCorrect == MCSpec => []TypesOK
BY PartsBehave, HostsTypeCorrect, BarLockTypeCorrect, SetupInvCorrect, TuiTypeCorrect, StatsTypeCorrect, PTL DEF TypesOK
=============================================================================
