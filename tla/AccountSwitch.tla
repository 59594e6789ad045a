----------------------------- MODULE AccountSwitch -----------------------------
(***************************************************************************)
(* The account switchers for Codex and Grok.  A CLI reads and refreshes    *)
(* one credentials file, auth.json; agemux keeps further accounts as       *)
(* auth.NAME.json beside it, remembers in a state file which of them is    *)
(* active, and copies files.  Switching, adding and storing happen under a *)
(* file lock; deleting does not, and the CLI knows nothing of the lock.    *)
(*                                                                         *)
(* One step is one look at the files, one file replaced by rename, or one  *)
(* removed.  The two switchers share their code line by line but for one   *)
(* call: listing Grok accounts first imports an auth.json without account. *)
(* The Windows executable has switchers of its own, which know neither the *)
(* lock nor the state file and only copy an account to auth.json.          *)
(***************************************************************************)
EXTENDS Naturals, FiniteSets

CONSTANTS
  Procs,       \* agemux invocations, each running one command after another
  Slots,       \* account names
  Logins,      \* logins that ever take place, each yielding credentials
  Email,       \* the identity a login's credentials show
  Anonymous,   \* the identity of credentials that show none
  None,        \* no file, no name, no command, no holder
  Stored,      \* the login each account holds at first, or None
  InUse,       \* the login auth.json holds at first, or None
  MaxVersion,  \* how often a CLI refreshes the credentials of a login
  MaxCommands, \* how many commands are run
  MaxCrashes   \* how many of them may be killed half way

ASSUME NoneAssumption ==
  None \notin Procs \cup Slots \cup Logins \cup [login : Logins, version : Nat]
ASSUME EmailAssumption == DOMAIN Email = Logins
ASSUME FilesAssumption ==
  Stored \in [Slots -> Logins \cup {None}] /\ InUse \in Logins \cup {None}
ASSUME BoundsAssumption ==
  MaxVersion \in Nat \ {0} /\ MaxCommands \in Nat /\ MaxCrashes \in Nat

VARIABLES
  provider,    \* which of the switchers
  active,      \* auth.json
  slot,        \* auth.NAME.json: account -> credentials, or None
  backups,     \* auth.backup-*.json
  state,       \* .agemux-current-account.json: an account, or None
  lock,        \* .agemux-accounts.lock: its holder, or None
  pc,          \* an invocation's next step
  job,         \* its command and what that has found out
  issued,      \* the latest version of a login's credentials, 0 for none
  waived,      \* history: logins whose credentials need not be kept
  commands,    \* commands run so far
  crashes      \* of them killed

files == <<active, slot, backups, state>>
counts == <<commands, crashes>>
vars == <<provider, files, lock, pc, job, issued, waived, counts>>

Steps == {"idle", "list", "listed", "import", "importState", "login", "save", "store",
          "lock", "syncRead", "syncCompare", "syncWrite", "read", "backup", "activate",
          "record", "remove", "relist", "relisted", "adopt", "clearActive", "clearState",
          "windowsRead", "windowsBackup", "windowsActivate"}

Locked == {"syncRead", "syncCompare", "syncWrite", "read", "backup", "activate", "record"}

Windows == {"windows codex", "windows grok"}
Providers == {"codex", "grok"} \cup Windows

Credentials == [login : Logins, version : 1..MaxVersion]
File == Credentials \cup {None}
Has(f) == f # None   \* the file is there

\* op: the command; name: the account it is about; current: whether that was
\* the current one when listed; cur: the credentials in hand; into: the account
\* they are synced to; own: what the command logged in or removed; seen
\* (history): auth.json when a switch made sure that it is kept.
Jobs == [op : {"switch", "new", "login", "delete", "list", None},
         name : Slots \cup {None}, current : BOOLEAN, cur : File,
         into : Slots \cup {None}, own : File, seen : File]
NoJob == [op |-> None, name |-> None, current |-> FALSE, cur |-> None,
          into |-> None, own |-> None, seen |-> None]

TypeOK ==
  /\ provider \in Providers
  /\ active \in File
  /\ slot \in [Slots -> File]
  /\ backups \subseteq Credentials
  /\ state \in Slots \cup {None}
  /\ lock \in Procs \cup {None}
  /\ pc \in [Procs -> Steps]
  /\ \A p \in Procs : lock = p => pc[p] \in Locked
  /\ job \in [Procs -> Jobs]
  /\ issued \in [Logins -> 0..MaxVersion]
  /\ waived \subseteq Logins
  /\ commands \in 0..MaxCommands
  /\ crashes \in 0..MaxCrashes

\* The logins that two accounts hold at first.
StoredTwice == {l \in Logins : \E m, n \in Slots : m # n /\ {Stored[m], Stored[n]} = {l}}

FirstOf(l) == IF l = None THEN None ELSE [login |-> l, version |-> 1]

Init ==
  /\ provider \in Providers
  /\ active = FirstOf(InUse)
  /\ slot = [n \in Slots |-> FirstOf(Stored[n])]
  /\ backups = {} /\ state = None /\ lock = None
  /\ pc = [p \in Procs |-> "idle"]
  /\ job = [p \in Procs |-> NoJob]
  /\ issued = [l \in Logins |-> IF l = InUse \/ \E n \in Slots : Stored[n] = l
                                THEN 1 ELSE 0]
  /\ waived = StoredTwice /\ commands = 0 /\ crashes = 0

----------------------------------------------------------------------------
Goto(p, step) == pc' = [pc EXCEPT ![p] = step]
Learn(p, j) == job' = [job EXCEPT ![p] = j]

\* A mutant: the lock is not let go.
EndLocked(p) ==
  /\ Goto(p, "idle") /\ Learn(p, NoJob)
  /\ UNCHANGED lock

\* The command returns; a deferred unlock lets go of the lock it may hold.
End(p) ==
  /\ Goto(p, "idle") /\ Learn(p, NoJob)
  /\ lock' = IF lock = p THEN None ELSE lock

SameIdentity(c, d) ==
  c = d \/ (Email[c.login] = Email[d.login] /\ Email[c.login] # Anonymous)

Accounts == {n \in Slots : Has(slot[n])}
Matches(c) == {n \in Accounts : SameIdentity(slot[n], c)}

\* A mutant: the state file is believed without a look at the identity.
ResolvedByName(c) == IF Has(c) /\ state \in Accounts THEN {state} ELSE {None}

\* resolveActiveCodexAccountPath: the accounts that credentials may be found to
\* be of; which of several equal files is found first depends on their names.
Resolved(c) ==
  LET equal == {n \in Accounts : slot[n] = c} IN
  IF ~Has(c) THEN {None}
  ELSE IF state \in Matches(c) THEN {state}
  ELSE IF equal # {} THEN equal
  ELSE IF Cardinality(Matches(c)) = 1 THEN Matches(c) ELSE {None}

Kept == {slot[n] : n \in Slots} \cup backups
LoginOf(f) == IF Has(f) THEN {f.login} ELSE {}

\* The other login that account n holds, if it is taken for that of c.
Mistaken(n, c) == {l \in LoginOf(slot[n]) \ {c.login} : SameIdentity(slot[n], c)}

\* The login of c, if it is in an account other than n.
Doubled(n, c) == {l \in {c.login} : \E m \in Accounts \ {n} : slot[m].login = l}

----------------------------------------------------------------------------
(* The command line, and the list every command but new starts from.        *)

Invoke(p) ==
  /\ pc[p] = "idle" /\ commands < MaxCommands /\ provider \notin Windows
  /\ commands' = commands + 1
  /\ \E o \in {"switch", "new", "login", "delete", "list"} :
       /\ Learn(p, [NoJob EXCEPT !.op = o])
       /\ Goto(p, IF o = "new" THEN "login" ELSE "list")
  /\ UNCHANGED <<provider, files, lock, issued, waived, crashes>>

\* importCurrentGrokAuthIfNeeded, in the list that opens a command and in the
\* one that follows a delete.
ImportNeeded == provider = "grok" /\ Accounts = {} /\ Has(active)

Import(p) ==
  /\ pc[p] \in {"list", "relist"} /\ ImportNeeded
  /\ \E n \in Slots : Learn(p, [job[p] EXCEPT !.cur = active, !.into = n])
  /\ Goto(p, "import")
  /\ UNCHANGED <<provider, files, lock, issued, waived, counts>>

\* That there is no account is not asked again: commands that start together
\* import the same credentials into accounts of different names.
ImportSave(p) ==
  /\ pc[p] = "import" /\ lock = None /\ ~Has(slot[job[p].into])
  /\ slot' = [slot EXCEPT ![job[p].into] = job[p].cur]
  /\ Goto(p, "importState")
  /\ waived' = waived \cup Doubled(job[p].into, job[p].cur)
  /\ UNCHANGED <<provider, active, backups, state, lock, job, issued, counts>>

\* saveGrokAccount does not replace an account.
ImportRefused(p) ==
  /\ pc[p] = "import" /\ lock = None /\ Has(slot[job[p].into])
  /\ End(p)
  /\ UNCHANGED <<provider, files, issued, waived, counts>>

ImportRecord(p) ==
  /\ pc[p] = "importState"
  /\ state' = job[p].into
  /\ Goto(p, IF Has(job[p].own) THEN "relist" ELSE "list")
  /\ UNCHANGED <<provider, active, slot, backups, lock, job, issued, waived, counts>>

\* A list begins with a look at auth.json; the accounts are read after it.
Look(p) ==
  /\ pc[p] \in {"list", "relist"} /\ ~ImportNeeded
  /\ Learn(p, [job[p] EXCEPT !.cur = active])
  /\ Goto(p, IF pc[p] = "list" THEN "listed" ELSE "relisted")
  /\ UNCHANGED <<provider, files, lock, issued, waived, counts>>

\* The user picks one of the accounts listed.
List(p) ==
  /\ pc[p] = "listed" /\ job[p].op # "list"
  /\ \E n \in Accounts, a \in Resolved(job[p].cur) :
       Learn(p, [job[p] EXCEPT !.name = n, !.current = (a = n), !.cur = None])
  /\ Goto(p, CASE job[p].op = "switch" -> "lock"
               [] job[p].op = "login"  -> "login"
               [] job[p].op = "delete" -> "remove")
  /\ UNCHANGED <<provider, files, lock, issued, waived, counts>>

ListOnly(p) ==
  /\ pc[p] = "listed" /\ (job[p].op = "list" \/ Accounts = {})
  /\ job[p].op # "login"
  /\ End(p)
  /\ UNCHANGED <<provider, files, issued, waived, counts>>

\* With no account to log in to, a login is that of a new one.
ListNew(p) ==
  /\ pc[p] = "listed" /\ Accounts = {} /\ job[p].op = "login"
  /\ Learn(p, [job[p] EXCEPT !.op = "new", !.cur = None])
  /\ Goto(p, "login")
  /\ UNCHANGED <<provider, files, lock, issued, waived, counts>>

----------------------------------------------------------------------------
(* new and login: a CLI logs in under a directory of its own.               *)

Login(p, l) ==
  /\ pc[p] = "login" /\ issued[l] = 0
  /\ issued' = [issued EXCEPT ![l] = 1]
  /\ \/ /\ job[p].op = "new"
        /\ \E n \in Slots \ Accounts :
             Learn(p, [job[p] EXCEPT !.name = n, !.cur = FirstOf(l), !.own = FirstOf(l)])
        /\ Goto(p, "save")
     \/ /\ job[p].op = "login" /\ Has(slot[job[p].name])
        /\ Learn(p, [job[p] EXCEPT !.cur = FirstOf(l), !.own = FirstOf(l)])
        /\ Goto(p, "store")
  /\ UNCHANGED <<provider, files, lock, waived, counts>>

LoginFails(p) ==
  /\ pc[p] = "login"
  /\ End(p)
  /\ UNCHANGED <<provider, files, issued, waived, counts>>

\* saveCodexAccount: the name may have been taken while the user logged in, and
\* then the login is lost.
Save(p) ==
  /\ pc[p] = "save" /\ lock = None
  /\ \/ /\ ~Has(slot[job[p].name])
        /\ slot' = [slot EXCEPT ![job[p].name] = job[p].cur]
        /\ Goto(p, "lock")
        /\ UNCHANGED <<job, lock, waived>>
     \/ /\ Has(slot[job[p].name])
        /\ End(p)
        /\ waived' = waived \cup {job[p].cur.login}
        /\ UNCHANGED slot
  /\ UNCHANGED <<provider, active, backups, state, issued, counts>>

\* reloginCodexAccount writes the account, and auth.json too if the account was
\* current when it was listed.
Store(p) ==
  /\ pc[p] = "store" /\ lock = None
  /\ slot' = [slot EXCEPT ![job[p].name] = job[p].cur]
  /\ waived' = waived \cup LoginOf(slot[job[p].name])
  /\ IF job[p].current THEN Goto(p, "activate") /\ lock' = p /\ UNCHANGED job
                       ELSE End(p)
  /\ UNCHANGED <<provider, active, backups, state, issued, counts>>

----------------------------------------------------------------------------
(* switchCodexAccount.                                                      *)

Lock(p) ==
  /\ pc[p] = "lock" /\ lock = None
  /\ lock' = p
  /\ Goto(p, "syncRead")
  /\ UNCHANGED <<provider, files, job, issued, waived, counts>>

\* syncActiveCodexAccount: what the CLI has refreshed goes to its account.
SyncRead(p) ==
  /\ pc[p] = "syncRead"
  /\ \E n \in Resolved(active) :
       /\ Learn(p, [job[p] EXCEPT !.cur = active, !.into = n])
       /\ Goto(p, IF n = None THEN "read" ELSE "syncCompare")
  /\ UNCHANGED <<provider, files, lock, issued, waived, counts>>

\* An account deleted meanwhile fails the command.
SyncCompare(p) ==
  /\ pc[p] = "syncCompare"
  /\ LET stored == slot[job[p].into] IN
     \/ ~Has(stored) /\ End(p)
     \/ /\ Has(stored)
        /\ Goto(p, IF stored = job[p].cur THEN "read" ELSE "syncWrite")
        /\ UNCHANGED <<job, lock>>
  /\ UNCHANGED <<provider, files, issued, waived, counts>>

\* The account may hold another login that shows the same identity, which is
\* lost, and then the login of auth.json may be in two accounts.
SyncWrite(p) ==
  /\ pc[p] = "syncWrite"
  /\ slot' = [slot EXCEPT ![job[p].into] = job[p].cur]
  /\ Goto(p, "read")
  /\ waived' = waived \cup Mistaken(job[p].into, job[p].cur)
                     \cup Doubled(job[p].into, job[p].cur)
  /\ UNCHANGED <<provider, active, backups, state, lock, job, issued, counts>>

Read(p) ==
  /\ pc[p] = "read"
  /\ IF Has(slot[job[p].name])
     THEN /\ Learn(p, [job[p] EXCEPT !.cur = slot[job[p].name]])
          /\ Goto(p, "backup")
          /\ UNCHANGED lock
     ELSE End(p)
  /\ UNCHANGED <<provider, files, issued, waived, counts>>

\* A mutant: nothing is backed up.
BackupForgotten(p) ==
  /\ pc[p] = "backup"
  /\ Learn(p, [job[p] EXCEPT !.seen = active])
  /\ Goto(p, "activate")
  /\ UNCHANGED <<provider, files, lock, issued, waived, counts>>

\* backupUntrackedActiveCodexAuth: an auth.json that no other file equals.
Backup(p) ==
  /\ pc[p] = "backup"
  /\ backups' = IF Has(active) /\ active # job[p].cur /\ \A n \in Slots : slot[n] # active
                THEN backups \cup {active} ELSE backups
  /\ Learn(p, [job[p] EXCEPT !.seen = active])
  /\ Goto(p, "activate")
  /\ UNCHANGED <<provider, active, slot, state, lock, issued, waived, counts>>

\* A delete or a login has decided earlier, and does not look again, that
\* auth.json may be replaced.
Activate(p) ==
  /\ pc[p] = "activate"
  /\ active' = job[p].cur
  /\ Goto(p, "record")
  /\ waived' = IF job[p].op \in {"delete", "login"}
               THEN waived \cup LoginOf(active) \cup LoginOf(job[p].cur) ELSE waived
  /\ UNCHANGED <<provider, slot, backups, state, lock, job, issued, counts>>

Record(p) ==
  /\ pc[p] = "record"
  /\ state' = job[p].name
  /\ End(p)
  /\ UNCHANGED <<provider, active, slot, backups, issued, waived, counts>>

----------------------------------------------------------------------------
(* deleteCodexAccount, which takes no lock.                                 *)

Remove(p) ==
  /\ pc[p] = "remove" /\ Has(slot[job[p].name])
  /\ slot' = [slot EXCEPT ![job[p].name] = None]
  /\ Learn(p, [job[p] EXCEPT !.own = slot[job[p].name]])
  /\ waived' = waived \cup {slot[job[p].name].login}
  /\ Goto(p, "relist")
  /\ UNCHANGED <<provider, active, backups, state, lock, issued, counts>>

RemoveFails(p) ==
  /\ pc[p] = "remove" /\ ~Has(slot[job[p].name])
  /\ End(p)
  /\ UNCHANGED <<provider, files, issued, waived, counts>>

\* Another account was current: the list only tells which.
Relist(p) ==
  /\ pc[p] = "relisted" /\ ~job[p].current
  /\ End(p)
  /\ UNCHANGED <<provider, files, issued, waived, counts>>

\* The first account listed takes over: a current one, else the first by name.
Choose(p) ==
  /\ pc[p] = "relisted" /\ job[p].current
  /\ \E a \in Resolved(job[p].cur), n \in Accounts :
       /\ a # None => n = a
       /\ Learn(p, [job[p] EXCEPT !.name = n, !.cur = None])
  /\ Goto(p, "adopt")
  /\ UNCHANGED <<provider, files, lock, issued, waived, counts>>

ChooseNone(p) ==
  /\ pc[p] = "relisted" /\ job[p].current /\ Accounts = {}
  /\ Learn(p, [job[p] EXCEPT !.cur = None])
  /\ Goto(p, "clearActive")
  /\ UNCHANGED <<provider, files, lock, issued, waived, counts>>

Adopt(p) ==
  /\ pc[p] = "adopt" /\ Has(slot[job[p].name])
  /\ Learn(p, [job[p] EXCEPT !.cur = slot[job[p].name]])
  /\ Goto(p, "activate")
  /\ UNCHANGED <<provider, files, lock, issued, waived, counts>>

AdoptFails(p) ==
  /\ pc[p] = "adopt" /\ ~Has(slot[job[p].name])
  /\ End(p)
  /\ UNCHANGED <<provider, files, issued, waived, counts>>

ClearActive(p) ==
  /\ pc[p] = "clearActive"
  /\ active' = None
  /\ Goto(p, "clearState")
  /\ waived' = waived \cup LoginOf(active)
  /\ UNCHANGED <<provider, slot, backups, state, lock, job, issued, counts>>

ClearState(p) ==
  /\ pc[p] = "clearState"
  /\ state' = None
  /\ End(p)
  /\ UNCHANGED <<provider, active, slot, backups, issued, waived, counts>>

----------------------------------------------------------------------------
(* The Windows executable: switchWindowsCodexAccount and its Grok sibling.  *)

\* `change` lists the accounts and picks one.
WindowsInvoke(p) ==
  /\ pc[p] = "idle" /\ commands < MaxCommands /\ provider \in Windows
  /\ commands' = commands + 1
  /\ \E n \in Accounts : Learn(p, [NoJob EXCEPT !.op = "switch", !.name = n])
  /\ Goto(p, "windowsRead")
  /\ UNCHANGED <<provider, files, lock, issued, waived, crashes>>

\* Only Codex has a backup made.
WindowsRead(p) ==
  /\ pc[p] = "windowsRead"
  /\ Learn(p, [job[p] EXCEPT !.cur = slot[job[p].name]])
  /\ Goto(p, IF provider = "windows codex" THEN "windowsBackup" ELSE "windowsActivate")
  /\ UNCHANGED <<provider, files, lock, issued, waived, counts>>

\* backupUntrackedWindowsCodexAuth
WindowsBackup(p) ==
  /\ pc[p] = "windowsBackup"
  /\ backups' = IF Has(active) /\ active # job[p].cur /\ active \notin Kept
                THEN backups \cup {active} ELSE backups
  /\ Learn(p, [job[p] EXCEPT !.seen = active])
  /\ Goto(p, "windowsActivate")
  /\ UNCHANGED <<provider, active, slot, state, lock, issued, waived, counts>>

WindowsActivate(p) ==
  /\ pc[p] = "windowsActivate" /\ provider = "windows codex"
  /\ active' = job[p].cur
  /\ End(p)
  /\ UNCHANGED <<provider, slot, backups, state, issued, waived, counts>>

\* What auth.json held is lost.
WindowsGrokActivate(p) ==
  /\ pc[p] = "windowsActivate" /\ provider = "windows grok"
  /\ active' = job[p].cur
  /\ End(p)
  /\ waived' = waived \cup LoginOf(active)
  /\ UNCHANGED <<provider, slot, backups, state, issued, counts>>

----------------------------------------------------------------------------
\* The CLI refreshes the credentials in auth.json, which ends the old version.
\* A refresh after a command has looked at auth.json for the last time, and
\* before it replaces it, is overtaken: nothing orders the two.
Refresh ==
  /\ Has(active)
  /\ LET l == active.login IN
       /\ active.version = issued[l] /\ issued[l] < MaxVersion
       /\ active' = [active EXCEPT !.version = @ + 1]
       /\ issued' = [issued EXCEPT ![l] = @ + 1]
       /\ waived' = IF \E p \in Procs : pc[p] \in {"activate", "windowsActivate"}
                    THEN waived \cup {l} ELSE waived
  /\ UNCHANGED <<provider, slot, backups, state, lock, pc, job, counts>>

\* A login that is not stored yet goes with its directory.
Crash(p) ==
  /\ pc[p] # "idle" /\ crashes < MaxCrashes
  /\ crashes' = crashes + 1
  /\ End(p)
  /\ waived' = IF pc[p] \in {"save", "store"} THEN waived \cup {job[p].cur.login}
                                              ELSE waived
  /\ UNCHANGED <<provider, files, issued, commands>>

ListStep(p) ==
  \/ Import(p) \/ ImportSave(p) \/ ImportRefused(p) \/ ImportRecord(p)
  \/ Look(p) \/ List(p) \/ ListOnly(p) \/ ListNew(p)
LoginStep(p) == (\E l \in Logins : Login(p, l)) \/ LoginFails(p) \/ Save(p) \/ Store(p)
SwitchStep(p) ==
  \/ Lock(p) \/ SyncRead(p) \/ SyncCompare(p) \/ SyncWrite(p) \/ Read(p)
  \/ Backup(p) \/ Activate(p) \/ Record(p)
DeleteStep(p) ==
  \/ Remove(p) \/ RemoveFails(p) \/ Relist(p) \/ Choose(p) \/ ChooseNone(p)
  \/ Adopt(p) \/ AdoptFails(p) \/ ClearActive(p) \/ ClearState(p)
WindowsStep(p) ==
  \/ WindowsInvoke(p) \/ WindowsRead(p) \/ WindowsBackup(p) \/ WindowsActivate(p)
  \/ WindowsGrokActivate(p)

Next ==
  \/ \E p \in Procs : \/ Invoke(p) \/ Crash(p) \/ WindowsStep(p)
                      \/ ListStep(p) \/ LoginStep(p) \/ SwitchStep(p) \/ DeleteStep(p)
  \/ Refresh

Spec == Init /\ [][Next]_vars

----------------------------------------------------------------------------
(* Properties.                                                              *)

InHand == {job[p].cur : p \in {q \in Procs : pc[q] \in {"save", "store"}}}

\* The latest credentials of every login are in some file, or on their way to
\* one: whatever a CLI refreshes survives switches, also several at a time and those
\* cut short. Not so once their account was deleted or logged in anew, or written
\* over by a switch that took another login of the same e-mail address for it, once
\* they were in two accounts, or met by a replacement that had been decided before;
\* and those of Grok on Windows make no backup.
NewestKept ==
  \A l \in Logins \ waived :
    issued[l] > 0 =>
      [login |-> l, version |-> issued[l]] \in Kept \cup {active} \cup InHand

\* A switch replaces auth.json only when another file holds the same, unless
\* that was refreshed, deleted or replaced since the switch looked; but for that of
\* Grok on Windows.
SwitchKeeps ==
  [][\A p \in Procs :
       /\ pc[p] \in {"activate", "windowsActivate"} /\ pc'[p] # pc[p]
       /\ job[p].op \in {"switch", "new"} /\ provider # "windows grok"
       /\ Has(active) /\ active = job[p].seen /\ active.login \notin waived
       => active \in Kept \cup {job[p].cur}]_vars

\* An account keeps its identity: credentials are never filed under an account
\* of somebody else, except when a user logs in to it as somebody else.
SlotKeepsOwner ==
  [][\A n \in Slots :
       Has(slot[n]) /\ Has(slot'[n]) =>
         \/ SameIdentity(slot[n], slot'[n])
         \/ \E p \in Procs : pc[p] = "store" /\ pc'[p] # "store" /\ job[p].name = n]_vars
================================================================================
