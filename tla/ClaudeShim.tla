------------------------------ MODULE ClaudeShim ------------------------------
(***************************************************************************)
(* The Claude shim: `install-shim` puts a wrapper in the place of the      *)
(* `claude` of a directory and keeps the real program beside it,           *)
(* `uninstall-shim` gives it back.  One step is one look at the files or   *)
(* one change of one file, and a command can be killed between two of      *)
(* them.  Claude's own installer puts new versions where it finds its old  *)
(* ones; another Claude may be further down the PATH.                      *)
(***************************************************************************)
EXTENDS Naturals

CONSTANTS
  None,        \* no file, no command
  Shim, Clsw,  \* a wrapper of agemux, of its predecessor clsw
  Linked,      \* a symbolic link to the claude elsewhere
  Loop,        \* a link from there to the claude here; a wrapper of nothing
  MaxUpdates,  \* versions that Claude's installer brings
  MaxCrashes   \* commands that are killed half way, or whose next operation fails

ASSUME BoundsAssumption == MaxUpdates \in Nat \ {0} /\ MaxCrashes \in Nat
ASSUME ContentsAssumption ==
  /\ {None, Shim, Clsw, Linked, Loop} \cap Nat = {}
  /\ {Shim, Clsw} \cap {Linked, Loop} = {} /\ Linked # Loop
  /\ None \notin {Shim, Clsw, Linked, Loop, "claude", "real", "legacy", "elsewhere"}

VARIABLES
  file,       \* claude, claude.agemux-real and claude.clsw-real of the directory
  backup,     \* claude.agemux-real.bak-<time>, by the seconds of their names
  elsewhere,  \* the claude of another directory of the PATH
  binFirst,   \* whether that directory comes after this one
  pc,         \* the next step of the command that runs, or "idle"
  cmd,        \* the command, and the file an uninstall restores
  fresh,      \* history: versions installed while a command runs
  ran,        \* history: what claude ran when the command began
  updates, crashes

vars == <<file, backup, elsewhere, binFirst, pc, cmd, fresh, ran, updates, crashes>>

Names == {"claude", "real", "legacy"}
Versions == 0..MaxUpdates
Seconds == 1..MaxUpdates
Managed == {Shim, Clsw}
\* A version of Claude, a wrapper or a link.  The version elsewhere is 0.
Content == Versions \cup Managed \cup {Linked, None}

FilesOK ==
  /\ file \in [Names -> Content] /\ file["real"] \notin Managed
  /\ backup \in [Seconds -> Content]
  /\ elsewhere \in {0, Loop, None} /\ binFirst \in BOOLEAN

TypeOK ==
  /\ FilesOK
  /\ pc \in {"idle", "inspect", "backup", "preserve", "migrate", "link", "write",
             "check", "remove", "restore"}
  /\ cmd \in [op : {"install", "uninstall", None}, force : BOOLEAN,
              from : {"real", "legacy", None}]
  /\ fresh \subseteq Versions /\ ran \in Content \cup {Loop}
  /\ updates \in 0..MaxUpdates /\ crashes \in 0..MaxCrashes

NoCommand == [op |-> None, force |-> FALSE, from |-> None]

----------------------------------------------------------------------------
(* Looking at files.                                                        *)

\* os.Stat follows links: one that leads nowhere is a file that does not exist.
Exists(n) == file[n] # None /\ (file[n] = Linked => elsewhere # None)

\* The other claude is a program, or a link to this directory's claude.
ExistsElsewhere == elsewhere = 0 \/ (elsewhere = Loop /\ Exists("claude"))

\* exec.LookPath("claude")
LookPath ==
  IF Exists("claude") /\ (binFirst \/ ~ExistsElsewhere) THEN "claude"
  ELSE IF ExistsElsewhere THEN "elsewhere"
  ELSE None

\* resolvedPath(target) = resolvedPath(shimPath)
SameFile(target) == target = "claude" \/ (target = "elsewhere" /\ elsewhere = Loop)

\* managedClaudeRealForShim: what agemux runs in the place of a wrapper.
RealForShim ==
  IF Exists("real") THEN "real" ELSE IF Exists("legacy") THEN "legacy" ELSE None

\* resolveClaudeBin: what agemux runs when it is to run claude.
ResolveClaudeBin ==
  LET found == LookPath IN
  IF Exists("claude")
  THEN IF file["claude"] \in Managed /\ RealForShim # None THEN RealForShim ELSE "claude"
  ELSE IF found = None THEN "claude" ELSE found

\* The program that is run in the end; a wrapper that has nothing to run, or
\* nothing but itself, is Loop.
Program(n) ==
  LET c == IF n = "elsewhere" \/ (n \in Names /\ file[n] = Linked)
           THEN elsewhere ELSE file[n] IN
  IF c \in Managed \cup {Loop} THEN Loop ELSE c

----------------------------------------------------------------------------
Init ==
  /\ elsewhere \in {0, Loop, None} /\ binFirst \in BOOLEAN
  /\ \/ \E c \in {1, None} : file = [claude |-> c, real |-> None, legacy |-> None]
     \/ file = [claude |-> Clsw, real |-> None, legacy |-> 1]
     \/ file = [claude |-> Clsw, real |-> None, legacy |-> None]
  /\ backup = [s \in Seconds |-> None]
  /\ pc = "idle" /\ cmd = NoCommand
  /\ fresh = {} /\ ran = None
  /\ updates = 1 /\ crashes = 0

others == <<elsewhere, binFirst, updates, crashes>>

\* rename(2)
Rename(from, to) == file' = [file EXCEPT ![to] = file[from], ![from] = None]

End == pc' = "idle" /\ cmd' = NoCommand /\ fresh' = {}

Begin(op, force, step) ==
  /\ pc = "idle"
  /\ pc' = step
  /\ cmd' = [op |-> op, force |-> force, from |-> None]
  /\ ran' = Program(ResolveClaudeBin)
  /\ UNCHANGED <<file, backup, fresh, others>>

BeginInstall == \E force \in BOOLEAN : Begin("install", force, "inspect")
BeginUninstall == Begin("uninstall", FALSE, "check")

----------------------------------------------------------------------------
(* commandInstallShim                                                       *)

\* A mutant: a wrapper is one, too.
AnyClaude == Exists("claude")

Foreign == Exists("claude") /\ file["claude"] \notin Managed
Installed == Exists("claude") /\ file["claude"] = Shim /\ ~cmd.force
Refused == Foreign /\ ~cmd.force

Inspect ==
  /\ pc = "inspect"
  /\ IF Installed \/ Refused THEN End
     ELSE /\ pc' = IF Foreign THEN "backup" ELSE "migrate"
          /\ UNCHANGED <<cmd, fresh>>
  /\ UNCHANGED <<file, backup, ran, others>>

\* A mutant: there is no backup of what is kept already.
BackUpNothing ==
  /\ pc = "backup"
  /\ IF Exists("real") THEN file' = [file EXCEPT !["real"] = None] ELSE UNCHANGED file
  /\ pc' = "preserve"
  /\ UNCHANGED <<backup, cmd, fresh, ran, others>>

\* The time of the name is that of the backup before or a later one.
BackUp ==
  /\ pc = "backup"
  /\ IF Exists("real")
     THEN /\ \E s \in Seconds :
               /\ \A t \in Seconds : backup[t] # None => t <= s
               /\ backup' = [backup EXCEPT ![s] = file["real"]]
          /\ file' = [file EXCEPT !["real"] = None]
     ELSE UNCHANGED <<file, backup>>
  /\ pc' = "preserve"
  /\ UNCHANGED <<cmd, fresh, ran, others>>

\* preserveRealClaude moves the claude that is there.
Preserve ==
  /\ pc = "preserve"
  /\ IF Exists("real") THEN UNCHANGED file ELSE Rename("claude", "real")
  /\ pc' = "link"
  /\ UNCHANGED <<backup, cmd, fresh, ran, others>>

\* A mutant: what clsw has kept is not looked for.
MigrateNothing ==
  /\ pc = "migrate" /\ pc' = "link"
  /\ UNCHANGED <<file, backup, cmd, fresh, ran, others>>

\* migrateLegacyClaudeReal
Migrate ==
  /\ pc = "migrate"
  /\ IF ~Exists("real") /\ Exists("legacy") THEN Rename("legacy", "real")
     ELSE UNCHANGED file
  /\ pc' = "link"
  /\ UNCHANGED <<backup, cmd, fresh, ran, others>>

\* Without a program to keep, the shim runs the claude of the PATH, unless that
\* is the shim itself.  Symlink fails if there is a link that leads nowhere.
Link ==
  /\ pc = "link"
  /\ IF Exists("real") THEN pc' = "write" /\ UNCHANGED <<file, cmd, fresh>>
     ELSE IF LookPath # None /\ ~SameFile(LookPath) /\ file["real"] = None
     THEN /\ file' = [file EXCEPT !["real"] = Linked]
          /\ pc' = "write" /\ UNCHANGED <<cmd, fresh>>
     ELSE UNCHANGED file /\ End
  /\ UNCHANGED <<backup, ran, others>>

\* The wrapper is renamed into its place.
Write ==
  /\ pc = "write"
  /\ file' = [file EXCEPT !["claude"] = Shim]
  /\ End
  /\ UNCHANGED <<backup, ran, others>>

----------------------------------------------------------------------------
(* commandUninstallShim                                                     *)

\* A mutant: what clsw has kept is not looked for.
CheckReal ==
  /\ pc = "check"
  /\ IF ~Exists("claude") \/ file["claude"] \notin Managed THEN End
     ELSE /\ cmd' = [cmd EXCEPT !.from = "real"]
          /\ pc' = "remove" /\ UNCHANGED fresh
  /\ UNCHANGED <<file, backup, ran, others>>

Check ==
  /\ pc = "check"
  /\ IF ~Exists("claude") \/ file["claude"] \notin Managed \/ RealForShim = None
     THEN End
     ELSE /\ cmd' = [cmd EXCEPT !.from = RealForShim]
          /\ pc' = "remove" /\ UNCHANGED fresh
  /\ UNCHANGED <<file, backup, ran, others>>

Remove ==
  /\ pc = "remove"
  /\ file' = [file EXCEPT !["claude"] = None]
  /\ pc' = "restore"
  /\ UNCHANGED <<backup, cmd, fresh, ran, others>>

Restore ==
  /\ pc = "restore"
  /\ Rename(cmd.from, "claude")
  /\ End
  /\ UNCHANGED <<backup, ran, others>>

----------------------------------------------------------------------------
Crash ==
  /\ pc # "idle" /\ crashes < MaxCrashes
  /\ crashes' = crashes + 1
  /\ End
  /\ UNCHANGED <<file, backup, elsewhere, binFirst, ran, updates>>

\* Claude's installer, at any time.
Update ==
  /\ updates < MaxUpdates
  /\ updates' = updates + 1
  /\ file' = [file EXCEPT !["claude"] = updates + 1]
  /\ fresh' = IF pc = "idle" THEN fresh ELSE fresh \cup {updates + 1}
  /\ UNCHANGED <<backup, elsewhere, binFirst, pc, cmd, ran, crashes>>

\* The other Claude is installed or removed.
Elsewhere ==
  /\ elsewhere \in {0, None} /\ pc = "idle"
  /\ elsewhere' = IF elsewhere = 0 THEN None ELSE 0
  /\ UNCHANGED <<file, backup, binFirst, pc, cmd, fresh, ran, updates, crashes>>

Install == BeginInstall \/ Inspect \/ BackUp \/ Preserve \/ Migrate \/ Link \/ Write
Uninstall == BeginUninstall \/ Check \/ Remove \/ Restore

Next == Install \/ Uninstall \/ Crash \/ Update \/ Elsewhere

Spec == Init /\ [][Next]_vars

----------------------------------------------------------------------------
(* Properties.                                                              *)

Kept == {file[n] : n \in Names} \cup {backup[t] : t \in Seconds}

\* Backups whose names are taken by another one, of the same second.
Overwritten == {backup[t] : t \in {u \in Seconds : backup'[u] # backup[u]}}

\* No step of an install or of an uninstall, and so no crash between two of
\* them, loses a Claude, but for one that is installed while the command runs
\* and a backup that another one overwrites within its second.
NothingLost ==
  [][updates' = updates => Kept \cap Versions \subseteq Kept' \cup fresh \cup Overwritten]_vars

\* There is a claude, and agemux finds a program to run for it.
Works == Program(ResolveClaudeBin) \notin {None, Loop}

\* There is none, but a program is kept that the next install puts back.
Aside == ~Exists("claude") /\ RealForShim # None

\* A claude that works goes on working, but for the gap between two moves of one
\* command: the old claude is kept already, or the wrapper removed, and nothing has
\* its place yet.  Where no other claude is on the PATH there is none in the gap,
\* and none after a kill in it until an install puts back what is kept.  A command
\* that is not killed leaves a claude that works, an uninstall the one that was run
\* before, unless that has changed meanwhile.
KeepsClaude ==
  [][/\ elsewhere' = elsewhere /\ (Works \/ Aside) => Works' \/ Aside'
     /\ elsewhere' = elsewhere /\ Works /\ ~Works' => pc' \in {"link", "restore"}
     /\ (/\ pc # "idle" /\ pc' = "idle" /\ crashes' = crashes /\ fresh = {}
         /\ ran \notin {None, Loop}) => Works'
     /\ pc = "restore" /\ pc' = "idle" /\ crashes' = crashes /\ fresh = {} =>
          Program("claude")' = ran]_vars

\* A forced install fails only where there is no Claude to be run, whatever an
\* earlier command has left behind.
ForcedSucceeds ==
  [][(/\ pc \in {"inspect", "link"} /\ pc' = "idle" /\ cmd.force
      /\ crashes' = crashes /\ fresh = {}) => ran \in {None, Loop}]_vars
===============================================================================
