---------------------------- MODULE ClaudeAccounts ----------------------------
(***************************************************************************)
(* The Claude account manager.  An account is a Claude config directory;   *)
(* agemux keeps the list of accounts, the directories it has been told to  *)
(* ignore, the current account and two caches (auth status, quota) in four *)
(* files.  Invocations and the workers of a refresh load, change and       *)
(* replace those files under one file lock, each for as short as it can:   *)
(* a command is several such sections and works from what an earlier one   *)
(* has read.                                                               *)
(*                                                                         *)
(* One step is one section under the lock, or one file of it where it      *)
(* writes several; one directory made; one probe of the Claude CLI.        *)
(***************************************************************************)
EXTENDS Naturals, FiniteSets, FiniteSetsExt

CONSTANTS
  Procs,        \* agemux invocations, each running one command after another
  Dirs,         \* config directories, numbered in the order of a list
  Found,        \* those that match ~/.claude, ~/.claude-* and ~/.claude_*
  Reservable,   \* those among them that `new` may reserve
  Initial,      \* the sets of them that may be the accounts at first
  EnvDir,       \* CLAUDE_CONFIG_DIR of the invocations, or None
  Jobs,         \* AGEMUX_CLAUDE_REFRESH_JOBS of an invocation
  None,         \* no directory, no row, no command, no holder
  Commands,     \* the commands that are run
  MaxCommands,  \* how many of them
  MaxCrashes    \* how many of those may be killed half way

ASSUME DirsAssumption ==
  /\ Dirs \subseteq Nat /\ IsFiniteSet(Dirs)
  /\ Reservable \subseteq Found /\ Found \subseteq Dirs /\ Initial \subseteq SUBSET Dirs
  /\ EnvDir \in Dirs \cup {None}
ASSUME NoneAssumption == None \notin Dirs \cup Procs \cup (Procs \X Nat)
ASSUME ProcsAssumption == \A p \in Procs : p \notin Procs \X Nat
ASSUME BoundsAssumption == Jobs \in [Procs -> Nat] /\ MaxCommands \in Nat /\ MaxCrashes \in Nat

VARIABLES
  accounts,    \* accounts.json: accounts
  ignored,     \* accounts.json: ignored_config_dirs
  dirs,        \* a directory is missing, empty or holds a configuration
  current,     \* state.json: current_id
  cache,       \* auth.json and quotas.json: file -> account -> row
  lock,        \* the file lock: its holder, or None
  pc,          \* the next step of an invocation or a worker
  job,         \* its command and what that has found out
  written,     \* history: the rows as their writers left them
  counts       \* commands run and killed so far

files == <<accounts, ignored, current, cache>>
vars == <<files, dirs, lock, pc, job, written, counts>>

Slots(p) == 1..Max({Jobs[p], 1})
Workers == UNION {{p} \X Slots(p) : p \in Procs}
Actors == Procs \cup Workers
BossOf(w) == w[1]

Steps == {"idle", "list", "set", "remove", "forgetAuth", "forgetQuota", "forgetCurrent",
          "relist", "resolve", "persist", "add", "statusline", "reserve", "save", "reset",
          "login", "feed", "wait", "off", "ready", "auth", "usage", "load", "store"}
Locked == {"forgetAuth", "forgetQuota", "forgetCurrent", "save", "store"}
Aimed == {"set", "remove", "forgetAuth", "forgetQuota", "forgetCurrent", "persist", "add",
          "statusline", "save", "reset", "login", "auth", "usage", "load", "store"}
Rows == {"in", "out", "error", "quota", None}

\* op: the command; dir: the account it is about; list: the accounts it has
\* listed; file, row, copy: a cache, the row for it and the cache as loaded;
\* moved (history): the current account was set by others since it was read.
JobSet == [op : Commands \cup {"new", None}, dir : Dirs \cup {None}, list : SUBSET Dirs,
           file : {"auth", "quota"}, row : Rows, copy : [Dirs -> Rows], moved : BOOLEAN]
Empty == [d \in Dirs |-> None]
NoJob == [op |-> None, dir |-> None, list |-> {}, file |-> "auth", row |-> None,
          copy |-> Empty, moved |-> FALSE]

FilesOK ==
  /\ accounts \subseteq Dirs /\ ignored \subseteq Dirs
  /\ dirs \in [Dirs -> {"none", "empty", "config"}]
  /\ current \in Dirs \cup {None}
  /\ cache \in [{"auth", "quota"} -> [Dirs -> Rows]]

\* What a command has to know at a step: a directory, a list, a result.
JobsOK ==
  /\ job \in [Actors -> JobSet]
  /\ \A a \in Actors :
       /\ pc[a] \in Aimed => job[a].dir \in Dirs
       /\ pc[a] = "resolve" => job[a].list # {}
       /\ pc[a] \in {"load", "store"} /\ a \in Workers /\ job[a].file = "auth" =>
            job[a].row \in {"in", "out", "error"}

TypeOK ==
  /\ FilesOK
  /\ lock \in Actors \cup {None}
  /\ pc \in [Actors -> Steps]
  /\ \A a \in Actors : pc[a] \in Locked <=> lock = a
  /\ JobsOK
  /\ counts \in [commands : Nat, crashes : Nat]

Init ==
  /\ accounts \in Initial /\ ignored = {} /\ current = None
  /\ dirs = [d \in Dirs |-> IF d \in accounts THEN "config" ELSE "none"]
  /\ cache = [f \in {"auth", "quota"} |-> Empty]
  /\ lock = None
  /\ pc = [a \in Actors |-> IF a \in Procs THEN "idle" ELSE "off"]
  /\ job = [a \in Actors |-> NoJob]
  /\ written = cache
  /\ counts = [commands |-> 0, crashes |-> 0]

----------------------------------------------------------------------------
Goto(a, step) == pc' = [pc EXCEPT ![a] = step]
Learn(a, j) == job' = [job EXCEPT ![a] = j]
End(p) == Goto(p, "idle") /\ Learn(p, NoJob)

\* A mutant: ignored directories are found again.
ListedAnyway == accounts \cup {d \in Found : dirs[d] = "config"}

\* getAccounts: the accounts on disk and the config directories found.
Listed == accounts \cup {d \in Found \ ignored : dirs[d] = "config"}

\* A mutant: the remembered account is not looked up.
CurrentOfList(list) == Min(list)

\* currentAccountID: the remembered account, else that of the environment, else
\* the first of the list, where ~/.claude comes first.
CurrentOf(list) ==
  IF current \in list THEN current
  ELSE IF EnvDir \in list THEN EnvDir
  ELSE Min(list)

\* What the current account is set to, and who has to know that it was.
SetCurrent(a, d) ==
  /\ current' = d
  /\ job' = [b \in Actors |->
               IF b = a THEN NoJob
               ELSE IF pc[b] = "persist" THEN [job[b] EXCEPT !.moved = TRUE]
               ELSE job[b]]

----------------------------------------------------------------------------
(* The command line, and the list that most commands start from.            *)

Invoke(p) ==
  /\ pc[p] = "idle" /\ counts.commands < MaxCommands
  /\ counts' = [counts EXCEPT !.commands = @ + 1]
  /\ \E o \in Commands :
       \/ /\ o \in {"change", "delete", "refresh"}
          /\ Learn(p, [NoJob EXCEPT !.op = o]) /\ Goto(p, "list")
       \/ /\ o = "add"
          /\ \E d \in Dirs : Learn(p, [NoJob EXCEPT !.op = o, !.dir = d])
          /\ Goto(p, "add")
       \/ /\ o = "new"
          /\ Learn(p, [NoJob EXCEPT !.op = o]) /\ Goto(p, "reserve")
       \/ /\ o = "statusline"
          /\ \E d \in Dirs :
               /\ dirs[d] = "config"
               /\ Learn(p, [NoJob EXCEPT !.op = o, !.dir = d, !.file = "quota",
                                         !.row = "quota"])
          /\ Goto(p, "load")
  /\ UNCHANGED <<files, dirs, lock, written>>

\* A mutant: none, if the environment asks for none.
AsManyAsAsked(p, total) == Min({total, Jobs[p]})

\* refreshWorkerCount
WorkerCount(p, total) == Max({1, Min({total, Jobs[p]})})

\* The worker pool of a refresh begins.
StartWorkers(p, list) ==
  /\ pc' = [a \in Actors |->
              IF a = p THEN "feed"
              ELSE IF a \in Workers /\ a[1] = p /\ a[2] <= WorkerCount(p, Cardinality(list))
              THEN "ready" ELSE pc[a]]
  /\ Learn(p, [job[p] EXCEPT !.list = list])

\* getAccounts saves what it has found.
List(p) ==
  /\ pc[p] = "list" /\ lock = None /\ Listed # {}
  /\ accounts' = Listed
  /\ \/ /\ job[p].op \in {"change", "delete"}
        /\ \E d \in Listed : Learn(p, [job[p] EXCEPT !.dir = d])
        /\ Goto(p, IF job[p].op = "change" THEN "set" ELSE "remove")
     \/ /\ job[p].op = "refresh"
        /\ StartWorkers(p, Listed)
  /\ UNCHANGED <<ignored, current, cache, dirs, lock, written, counts>>

\* With no account, agemux starts a new one if it is run for its menu.
ListNone(p) ==
  /\ pc[p] = "list" /\ lock = None /\ Listed = {}
  /\ IF job[p].op = "refresh"
     THEN Learn(p, [NoJob EXCEPT !.op = "new"]) /\ Goto(p, "reserve")
     ELSE End(p)
  /\ UNCHANGED <<files, dirs, lock, written, counts>>

\* setCurrentAccount, at the end of a change and of a new login.
Set(p) ==
  /\ pc[p] = "set" /\ lock = None
  /\ SetCurrent(p, job[p].dir)
  /\ Goto(p, "idle")
  /\ UNCHANGED <<accounts, ignored, cache, dirs, lock, written, counts>>

----------------------------------------------------------------------------
(* commandDelete: removeAccount writes four files under the lock, then the  *)
(* current account is resolved and stored again.                            *)

RemoveAccount(p) ==
  /\ pc[p] = "remove" /\ lock = None
  /\ lock' = p
  /\ accounts' = accounts \ {job[p].dir}
  /\ ignored' = ignored \cup {job[p].dir}
  /\ Goto(p, "forgetAuth")
  /\ UNCHANGED <<current, cache, dirs, job, written, counts>>

\* A mutant: the cache is dropped.
ForgetAll(p, f) ==
  /\ cache' = [cache EXCEPT ![f] = Empty]
  /\ written' = [written EXCEPT ![f][job[p].dir] = None]

ForgetRow(p, f) ==
  /\ cache' = [cache EXCEPT ![f][job[p].dir] = None]
  /\ written' = [written EXCEPT ![f][job[p].dir] = None]

ForgetAuth(p) ==
  /\ pc[p] = "forgetAuth"
  /\ ForgetRow(p, "auth")
  /\ Goto(p, "forgetQuota")
  /\ UNCHANGED <<accounts, ignored, current, dirs, lock, job, counts>>

ForgetQuota(p) ==
  /\ pc[p] = "forgetQuota"
  /\ ForgetRow(p, "quota")
  /\ Goto(p, "forgetCurrent")
  /\ UNCHANGED <<accounts, ignored, current, dirs, lock, job, counts>>

ForgetCurrent(p) ==
  /\ pc[p] = "forgetCurrent"
  /\ current' = IF current = job[p].dir THEN None ELSE current
  /\ lock' = None
  /\ Goto(p, "relist")
  /\ UNCHANGED <<accounts, ignored, cache, dirs, job, written, counts>>

Relist(p) ==
  /\ pc[p] = "relist" /\ lock = None
  /\ accounts' = Listed
  /\ IF Listed = {} THEN End(p)
     ELSE Learn(p, [job[p] EXCEPT !.list = Listed]) /\ Goto(p, "resolve")
  /\ UNCHANGED <<ignored, current, cache, dirs, lock, written, counts>>

\* persistResolvedCurrentAccount is two sections: a read of the state ...
Resolve(p) ==
  /\ pc[p] = "resolve" /\ lock = None
  /\ Learn(p, [job[p] EXCEPT !.dir = CurrentOf(job[p].list)])
  /\ Goto(p, "persist")
  /\ UNCHANGED <<files, dirs, lock, written, counts>>

\* ... and a write of what was made of it.
Persist(p) ==
  /\ pc[p] = "persist" /\ lock = None
  /\ SetCurrent(p, job[p].dir)
  /\ Goto(p, "idle")
  /\ UNCHANGED <<accounts, ignored, cache, dirs, lock, written, counts>>

----------------------------------------------------------------------------
(* add and new.                                                             *)

\* A mutant: an added directory stays ignored.
AddIgnored(p) ==
  /\ pc[p] = "add" /\ lock = None /\ job[p].dir \notin accounts
  /\ accounts' = accounts \cup {job[p].dir}
  /\ Goto(p, "statusline")
  /\ UNCHANGED <<ignored, current, cache, dirs, lock, job, written, counts>>

Add(p) ==
  /\ pc[p] = "add" /\ lock = None /\ job[p].dir \notin accounts
  /\ accounts' = accounts \cup {job[p].dir}
  /\ ignored' = ignored \ {job[p].dir}
  /\ Goto(p, "statusline")
  /\ UNCHANGED <<current, cache, dirs, lock, job, written, counts>>

AddRefused(p) ==
  /\ pc[p] = "add" /\ lock = None /\ job[p].dir \in accounts
  /\ End(p)
  /\ UNCHANGED <<files, dirs, lock, written, counts>>

\* installStatusline makes the directory and its settings.
Statusline(p) ==
  /\ pc[p] = "statusline"
  /\ dirs' = [dirs EXCEPT ![job[p].dir] = "config"]
  /\ End(p)
  /\ UNCHANGED <<files, lock, written, counts>>

\* reserveNewConfigDir: the first directory that Mkdir makes.
Reserve(p) ==
  /\ pc[p] = "reserve" /\ lock = None
  /\ LET free == {d \in Reservable : dirs[d] = "none"} IN
       IF free = {} THEN End(p) /\ UNCHANGED <<dirs, lock>>
       ELSE /\ dirs' = [dirs EXCEPT ![Min(free)] = "empty"]
            /\ Learn(p, [job[p] EXCEPT !.dir = Min(free)])
            /\ lock' = p
            /\ Goto(p, "save")
  /\ UNCHANGED <<files, written, counts>>

\* createNewAccount.
SaveNew(p) ==
  /\ pc[p] = "save"
  /\ accounts' = accounts \cup {job[p].dir}
  /\ ignored' = ignored \ {job[p].dir}
  /\ lock' = None
  /\ Goto(p, "reset")
  /\ UNCHANGED <<current, cache, dirs, job, written, counts>>

\* resetAccountSettings replaces whatever settings the directory has.
Reset(p) ==
  /\ pc[p] = "reset"
  /\ dirs' = [dirs EXCEPT ![job[p].dir] = "config"]
  /\ Goto(p, "login")
  /\ UNCHANGED <<files, lock, job, written, counts>>

\* The Claude CLI logs in, or does not; only a login makes the account current.
Login(p) ==
  /\ pc[p] = "login"
  /\ \/ Goto(p, "set") /\ UNCHANGED job
     \/ End(p)
  /\ UNCHANGED <<files, dirs, lock, written, counts>>

----------------------------------------------------------------------------
(* updateAuth, updateQuota and clearQuota: the cache is loaded and replaced *)
(* under the lock, one row of it changed.                                   *)

\* A mutant: the cache is loaded before the lock is taken.
LoadUnlocked(a) ==
  /\ pc[a] = "load"
  /\ Learn(a, [job[a] EXCEPT !.copy = cache[job[a].file]])
  /\ lock' = IF lock = None THEN a ELSE lock
  /\ Goto(a, "store")
  /\ UNCHANGED <<files, dirs, written, counts>>

Load(a) ==
  /\ pc[a] = "load" /\ lock = None
  /\ lock' = a
  /\ Learn(a, [job[a] EXCEPT !.copy = cache[job[a].file]])
  /\ Goto(a, "store")
  /\ UNCHANGED <<files, dirs, written, counts>>

\* refreshAccount: an account that is logged in is asked for its usage, one
\* that is logged out loses its quota.
Proceed(w) ==
  CASE job[w].file = "quota" \/ job[w].row = "error" ->
         Goto(w, "ready") /\ Learn(w, NoJob)
    [] job[w].row = "in" ->
         Goto(w, "usage") /\ Learn(w, [job[w] EXCEPT !.row = None, !.copy = Empty])
    [] job[w].row = "out" ->
         Goto(w, "load") /\ Learn(w, [job[w] EXCEPT !.file = "quota", !.row = None,
                                                    !.copy = Empty])

Store(a) ==
  /\ pc[a] = "store"
  /\ cache' = [cache EXCEPT ![job[a].file] = [job[a].copy EXCEPT ![job[a].dir] = job[a].row]]
  /\ written' = [written EXCEPT ![job[a].file][job[a].dir] = job[a].row]
  /\ lock' = None
  /\ IF a \in Procs THEN End(a) ELSE Proceed(a)
  /\ UNCHANGED <<accounts, ignored, current, dirs, counts>>

----------------------------------------------------------------------------
(* refreshAll: one goroutine hands out the accounts of a list, the others   *)
(* probe them.                                                              *)

\* Goroutines that wait are alike: the first of them is served.
HandOut(w) ==
  LET p == BossOf(w) IN
  /\ \A s \in Slots(p) : pc[<<p, s>>] = "ready" => w[2] <= s
  /\ pc[w] = "ready" /\ pc[p] = "feed" /\ job[p].list # {}
  /\ job' = [job EXCEPT ![w] = [NoJob EXCEPT !.dir = Min(job[p].list)],
                        ![p].list = @ \ {Min(@)}]
  /\ Goto(w, "auth")
  /\ UNCHANGED <<files, dirs, lock, written, counts>>

CloseJobs(p) ==
  /\ pc[p] = "feed" /\ job[p].list = {}
  /\ Goto(p, "wait")
  /\ UNCHANGED <<files, dirs, lock, job, written, counts>>

Finish(w) ==
  /\ pc[w] = "ready" /\ pc[BossOf(w)] = "wait"
  /\ Goto(w, "off")
  /\ UNCHANGED <<files, dirs, lock, job, written, counts>>

Join(p) ==
  /\ pc[p] = "wait" /\ \A w \in Workers : BossOf(w) = p => pc[w] = "off"
  /\ End(p)
  /\ UNCHANGED <<files, dirs, lock, written, counts>>

\* refreshAuth: `claude auth status`, with a timeout.
ProbeAuth(w) ==
  /\ pc[w] = "auth"
  /\ \E r \in {"in", "out", "error"} :
       Learn(w, [job[w] EXCEPT !.file = "auth", !.row = r])
  /\ Goto(w, "load")
  /\ UNCHANGED <<files, dirs, lock, written, counts>>

\* refreshUsage: `claude -p /usage`, with a timeout; what came of it, usage or an
\* error, is the row.
ProbeUsage(w) ==
  /\ pc[w] = "usage"
  /\ Learn(w, [job[w] EXCEPT !.file = "quota", !.row = "quota"])
  /\ Goto(w, "load")
  /\ UNCHANGED <<files, dirs, lock, written, counts>>

----------------------------------------------------------------------------
\* An invocation is killed, with its workers; the lock goes with it.
Crash(p) ==
  /\ pc[p] # "idle" /\ counts.crashes < MaxCrashes
  /\ counts' = [counts EXCEPT !.crashes = @ + 1]
  /\ pc' = [a \in Actors |-> IF a = p THEN "idle"
                             ELSE IF a \in Workers /\ a[1] = p THEN "off" ELSE pc[a]]
  /\ job' = [a \in Actors |-> IF a = p \/ (a \in Workers /\ a[1] = p) THEN NoJob ELSE job[a]]
  /\ lock' = IF lock = p \/ (lock \in Workers /\ lock[1] = p) THEN None ELSE lock
  /\ UNCHANGED <<files, dirs, written>>

\* Its user sets up Claude in a directory of its own.
UserMakes(d) ==
  /\ d \in Found /\ dirs[d] = "none"
  /\ dirs' = [dirs EXCEPT ![d] = "config"]
  /\ UNCHANGED <<files, lock, pc, job, written, counts>>

DeleteStep(p) ==
  \/ RemoveAccount(p) \/ ForgetAuth(p) \/ ForgetQuota(p) \/ ForgetCurrent(p)
  \/ Relist(p) \/ Resolve(p) \/ Persist(p)
AddStep(p) == Add(p) \/ AddRefused(p) \/ Statusline(p)
NewStep(p) == Reserve(p) \/ SaveNew(p) \/ Reset(p) \/ Login(p)
FeedStep(p) == CloseJobs(p) \/ Join(p)
WorkerStep(w) == HandOut(w) \/ Finish(w) \/ ProbeAuth(w) \/ ProbeUsage(w)

Next ==
  \/ \E p \in Procs : \/ Invoke(p) \/ List(p) \/ ListNone(p) \/ Set(p) \/ Crash(p)
                      \/ DeleteStep(p) \/ AddStep(p) \/ NewStep(p) \/ FeedStep(p)
  \/ \E w \in Workers : WorkerStep(w)
  \/ \E a \in Actors : Load(a) \/ Store(a)
  \/ \E d \in Dirs : UserMakes(d)

Spec == Init /\ [][Next]_vars

\* Goroutines run, probes have timeouts, and the lock, which its holders let go
\* of without waiting for anything, is granted in turn.
Fairness ==
  /\ \A p \in Procs :
       WF_vars(FeedStep(p) \/ ForgetAuth(p) \/ ForgetQuota(p) \/ ForgetCurrent(p)
               \/ SaveNew(p) \/ Store(p))
  /\ \A w \in Workers : WF_vars(WorkerStep(w) \/ Store(w)) /\ SF_vars(Load(w))

FairSpec == Spec /\ Fairness

----------------------------------------------------------------------------
(* Properties.                                                              *)

\* A deleted account stays deleted although its directory remains and every
\* command lists the directories it finds: getAccounts trusts the accounts on
\* disk before the ignored ones, so an account that is both would be back.
DeletedStays == accounts \cap ignored = {}

\* Every row of a cache is the one its last writer left, whatever the workers,
\* the status lines and the deletes of several invocations write at once.
NoLostRow == cache = written

\* persistResolvedCurrentAccount: a delete changes the current account only if
\* that is not among those it has listed, or if somebody else sets it while the
\* delete is between its read of the state and its write.
DeleteSparesChoice ==
  [][\A p \in Procs :
       pc[p] = "persist" /\ pc'[p] = "idle" /\ current' # current =>
         current \notin job[p].list \/ job[p].moved]_vars

\* A refresh ends, however few workers it may have and whatever it probes.
RefreshEnds ==
  \A p \in Procs : pc[p] = "feed" ~> pc[p] = "idle"
===============================================================================
