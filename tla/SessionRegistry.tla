---------------------------- MODULE SessionRegistry ----------------------------
(***************************************************************************)
(* Who owns which conversation.  agemux keeps one row per named session in *)
(* sessions.json and lets several processes work on it at once: short      *)
(* lived command-line invocations (start, restart, kill, list, the         *)
(* interactive create) and one long lived runner per session, whose        *)
(* tracker claims the thread (a Codex or Grok conversation UUID) its agent *)
(* is on.  shpool, an external daemon, decides which names are live.       *)
(*                                                                         *)
(* One step is one section under the sessions.json lock (withMetaLock: the *)
(* file is read, changed and renamed inside it), one call to shpool, or    *)
(* one acquisition of a start or thread lock; everything else interleaves. *)
(* The model is of one provider: rows of another provider never meet in    *)
(* otherSessionThreadOwners.                                               *)
(***************************************************************************)
EXTENDS Naturals, FiniteSets

CONSTANTS
  Names,       \* session names
  Threads,     \* conversation UUIDs
  Clis,        \* agemux invocations, one command each; also their start tokens
  Runners,     \* `agemux run` processes, one per shpool session ever created
  None,        \* the zero value of a name, thread, token or pid; also "no row"
  Prefixed,    \* names isAgemuxSessionName accepts without a row
  FdVisible,   \* an agent's thread can be read off its process by others
  Commands,    \* the command lines an invocation may be given
  Initial,     \* runners of the fresh sessions that are already live
  MaxCrashes   \* how many invocations may be killed half way

Procs == Clis \cup Runners
Ops == {"start", "startfg", "restart", "kill", "list", "open"}

ASSUME NoneAssumption == None \notin Names \cup Threads \cup Clis \cup Runners
ASSUME ProcsAssumption == Clis \cap Runners = {}
ASSUME NamesAssumption == Prefixed \subseteq Names
ASSUME FdAssumption == FdVisible \in BOOLEAN
ASSUME CommandsAssumption ==
  /\ Commands \subseteq [op : Ops, name : Names, thread : Threads \cup {None}]
  /\ \A c \in Commands : c.op \notin {"start", "startfg"} => c.thread = None
ASSUME InitialAssumption ==
  /\ Initial \in [Names -> Runners \cup {None}]
  /\ \A n, m \in Names : n # m /\ Initial[n] = Initial[m] => Initial[n] = None
ASSUME BoundAssumption == MaxCrashes \in Nat

VARIABLES
  meta,        \* sessions.json: name -> row, or None
  live,        \* shpool: name -> the runner its session hosts, or None
  threadLock,  \* flock of withSessionThreadLock: thread -> holder, or None
  startLock,   \* flock of withStartLock: name -> holder, or None
  pc,          \* next step of an invocation, or of a runner's tracker
  op,          \* the command of an invocation
  name,        \* the session an invocation or a runner is about
  thread,      \* the thread an invocation resumes, or a tracker is claiming
  snap,        \* the shpool list a process is working from
  owners,      \* the other sessions found on `thread` so far
  run,         \* progress of a runner's main goroutine
  conf,        \* thread the agent was told to resume and has not left
  agent,       \* thread the agent has open, None before it opens one
  last,        \* trackSessionThreadID's lastThreadID
  claimed,     \* history: last, while the agent has not left that thread
  crashes      \* invocations killed so far

vars == <<meta, live, threadLock, startLock, pc, op, name, thread, snap, owners,
          run, conf, agent, last, claimed, crashes>>

registry == <<live, run, conf, agent, last, claimed>>   \* shpool and agents
request  == <<op, name, thread>>

Row == [resume : Threads \cup {None}, starting : BOOLEAN,
        token : Clis \cup {None}, pid : Runners \cup {None}]

BlankRow == [resume |-> None, starting |-> FALSE, token |-> None, pid |-> None]

\* Reading a field of a missing row gives its zero value, as a nil Go map does.
RowOf(n) == IF meta[n] = None THEN BlankRow ELSE meta[n]

LiveNames == {n \in Names : live[n] # None}

CliPcs == {"idle", "lock", "list", "collect", "discover", "decide", "reserve",
           "write", "attach", "orphan", "wait", "finalize", "cleanup",
           "cleanKill", "cleanDelete", "attached", "left", "register",
           "unregister", "require", "required", "identify", "kill", "forget",
           "ok", "failed", "crashed"}
TrackerPcs == {"off", "track", "lock", "list", "collect", "discover", "decide",
               "claim"}
RunStates == {"unused", "boot", "register", "clear", "spawn", "run", "closing",
              "exitList", "exitDelete", "exit", "gone"}

Ended == {"ok", "failed", "crashed"}

TypeOK ==
  /\ meta \in [Names -> Row \cup {None}]
  /\ live \in [Names -> Runners \cup {None}]
  /\ threadLock \in [Threads -> Procs \cup {None}]
  /\ startLock \in [Names -> Clis \cup {None}]
  /\ pc \in [Procs -> CliPcs \cup TrackerPcs]
  /\ \A p \in Clis : pc[p] \in CliPcs
  /\ \A r \in Runners : pc[r] \in TrackerPcs
  /\ op \in [Clis -> Ops \cup {None}]
  /\ name \in [Procs -> Names \cup {None}]
  /\ thread \in [Procs -> Threads \cup {None}]
  /\ snap \in [Procs -> SUBSET Names]
  /\ owners \in [Procs -> SUBSET Names]
  /\ run \in [Runners -> RunStates]
  /\ conf \in [Runners -> Threads \cup {None}]
  /\ agent \in [Runners -> Threads \cup {None}]
  /\ last \in [Runners -> Threads \cup {None}]
  /\ claimed \in [Runners -> Threads \cup {None}]
  /\ crashes \in 0..MaxCrashes

Hosts(r) == {n \in Names : Initial[n] = r}

Init ==
  /\ meta = [n \in Names |-> IF Initial[n] = None THEN None
                             ELSE [BlankRow EXCEPT !.pid = Initial[n]]]
  /\ live = Initial
  /\ threadLock = [t \in Threads |-> None]
  /\ startLock = [n \in Names |-> None]
  /\ pc = [p \in Procs |-> IF p \in Clis THEN "idle"
                           ELSE IF Hosts(p) = {} THEN "off" ELSE "track"]
  /\ op = [p \in Clis |-> None]
  /\ name = [p \in Procs |-> IF p \in Clis \/ Hosts(p) = {} THEN None
                             ELSE CHOOSE n \in Hosts(p) : TRUE]
  /\ thread = [p \in Procs |-> None]
  /\ snap = [p \in Procs |-> {}]
  /\ owners = [p \in Procs |-> {}]
  /\ run = [r \in Runners |-> IF Hosts(r) = {} THEN "unused" ELSE "run"]
  /\ conf = [r \in Runners |-> None]
  /\ agent = [r \in Runners |-> None]
  /\ last = [r \in Runners |-> None]
  /\ claimed = [r \in Runners |-> None]
  /\ crashes = 0

----------------------------------------------------------------------------
(* Steps shared by commands and trackers.                                   *)

Goto(p, step) == pc' = [pc EXCEPT ![p] = step]

Freed(lock, P) == [x \in DOMAIN lock |-> IF lock[x] \in P THEN None ELSE lock[x]]

\* A command returns: its deferred unlock releases the thread lock it may hold.
Finish(p, result) ==
  /\ Goto(p, result)
  /\ threadLock' = Freed(threadLock, {p})
  /\ snap' = [snap EXCEPT ![p] = {}]
  /\ owners' = [owners EXCEPT ![p] = {}]

\* agemuxSessions: the rows and names that survive a list taken as `listed`.
Kept(listed) == [n \in Names |-> IF n \in listed \/ RowOf(n).starting
                                 THEN meta[n] ELSE None]
Owned(listed) == {n \in listed : n \in Prefixed \/ meta[n] # None}

\* Processes that findAgentPID may take for the runner of n.
RunnersOf(n) == {r \in Runners : name[r] = n /\ run[r] \notin {"unused", "gone"}}

\* discoverThreadID(n), looking at runner r: None when it cannot tell.
Discovered(r) == IF FdVisible THEN agent[r] ELSE None

\* Does session n count as an owner of p's thread when findAgentPID picks r?
Counts(p, n, r) == IF Discovered(r) # None THEN Discovered(r) = thread[p]
                   ELSE n \in owners[p]
MayOwn(p, n)  == IF RunnersOf(n) = {} THEN n \in owners[p]
                 ELSE \E r \in RunnersOf(n) : Counts(p, n, r)
MustOwn(p, n) == IF RunnersOf(n) = {} THEN n \in owners[p]
                 ELSE \A r \in RunnersOf(n) : Counts(p, n, r)

\* Sessions other than p's that have reserved p's thread.
Reservers(p) == {n \in Names \ {name[p]} :
                   RowOf(n).starting /\ RowOf(n).resume = thread[p]}

----------------------------------------------------------------------------
(* An invocation reads its command line and runs to the first shared state. *)

FirstStep(c) == CASE c.op \in {"start", "startfg"} ->
                       IF c.thread = None THEN "reserve" ELSE "lock"
                  [] c.op = "open" -> "register"
                  [] OTHER -> "require"

\* create() makes a name from the clock, so nobody else uses it.
Fresh(c) == c.op = "open" => meta[c.name] = None /\ live[c.name] = None

Invoke(p) ==
  /\ pc[p] = "idle"
  /\ \E c \in Commands :
       /\ Fresh(c)
       /\ Goto(p, FirstStep(c))
       /\ op' = [op EXCEPT ![p] = c.op]
       /\ name' = [name EXCEPT ![p] = c.name]
       /\ thread' = [thread EXCEPT ![p] = c.thread]
  /\ UNCHANGED <<meta, threadLock, startLock, snap, owners, registry, crashes>>

----------------------------------------------------------------------------
(* otherSessionThreadOwners, under the thread lock, for commands and for    *)
(* trackers: list shpool; collect the rows (and drop dead ones); look at    *)
(* the processes of the listed sessions; add the reservations.              *)

\* A mutant: the flock does not exclude anybody.
LockThreadShared(p) ==
  /\ pc[p] = "lock"
  /\ threadLock' = [threadLock EXCEPT ![thread[p]] = p]
  /\ Goto(p, "list")
  /\ UNCHANGED <<meta, startLock, snap, owners, registry, request, crashes>>

LockThread(p) ==
  /\ pc[p] = "lock"
  /\ threadLock[thread[p]] = None
  /\ threadLock' = [threadLock EXCEPT ![thread[p]] = p]
  /\ Goto(p, "list")
  /\ UNCHANGED <<meta, startLock, snap, owners, registry, request, crashes>>

ListSessions(p) ==
  /\ pc[p] = "list"
  /\ snap' = [snap EXCEPT ![p] = LiveNames]
  /\ Goto(p, "collect")
  /\ UNCHANGED <<meta, threadLock, startLock, owners, registry, request, crashes>>

\* A mutant: a failed list counts as an empty one.
ListFailsOpen(p) ==
  /\ pc[p] = "list"
  /\ snap' = [snap EXCEPT ![p] = {}]
  /\ Goto(p, "collect")
  /\ UNCHANGED <<meta, threadLock, startLock, owners, registry, request, crashes>>

\* shpool list times out: a command fails, a tracker tries again later.
ListFails(p) ==
  /\ pc[p] \in {"list", "require"}
  /\ Finish(p, IF p \in Clis THEN "failed" ELSE "track")
  /\ UNCHANGED <<meta, startLock, registry, request, crashes>>

\* The sessions whose processes are still to be looked at.
Unseen(p, rest) == Goto(p, IF rest = {} THEN "decide" ELSE "discover")

\* `owners` first holds the names whose copied row names the thread.
Collect(p) ==
  /\ pc[p] = "collect"
  /\ meta' = Kept(snap[p])
  /\ snap' = [snap EXCEPT ![p] = Owned(snap[p])]
  /\ owners' = [owners EXCEPT ![p] =
                  {n \in Owned(snap[p]) : RowOf(n).resume = thread[p]}]
  /\ Unseen(p, Owned(snap[p]))
  /\ UNCHANGED <<threadLock, startLock, registry, request, crashes>>

\* One session after another; what its process says counts more than the copied
\* row.
Discover(p) ==
  /\ pc[p] = "discover"
  /\ \E n \in snap[p] :
       /\ snap' = [snap EXCEPT ![p] = @ \ {n}]
       /\ Unseen(p, snap[p] \ {n})
       /\ \/ n # name[p] /\ MayOwn(p, n) /\ owners' = [owners EXCEPT ![p] = @ \cup {n}]
          \/ (MustOwn(p, n) => n = name[p]) /\ owners' = [owners EXCEPT ![p] = @ \ {n}]
  /\ UNCHANGED <<meta, threadLock, startLock, registry, request, crashes>>

AfterDecide(p) == IF p \in Runners THEN "claim"
                  ELSE IF op[p] = "restart" THEN "require" ELSE "reserve"

\* A mutant: reservations are not consulted.
DecideFreeLiveOnly(p) ==
  /\ pc[p] = "decide"
  /\ owners[p] = {}
  /\ Goto(p, AfterDecide(p))
  /\ UNCHANGED <<meta, threadLock, startLock, snap, owners, registry, request, crashes>>

DecideFree(p) ==
  /\ pc[p] = "decide"
  /\ owners[p] = {} /\ Reservers(p) = {}
  /\ Goto(p, AfterDecide(p))
  /\ UNCHANGED <<meta, threadLock, startLock, snap, owners, registry, request, crashes>>

\* A command refuses to start a second agent on the thread.
DecideRefuse(p) ==
  /\ pc[p] = "decide" /\ p \in Clis
  /\ owners[p] \cup Reservers(p) # {}
  /\ Finish(p, "failed")
  /\ UNCHANGED <<meta, startLock, registry, request, crashes>>

\* A mutant: the duplicate goes on.
DecideConflictIgnored(r) ==
  /\ pc[r] = "decide" /\ r \in Runners
  /\ owners[r] \cup Reservers(r) # {}
  /\ Finish(r, "track")
  /\ UNCHANGED <<meta, startLock, registry, request, crashes>>

\* onConflict: the tracker stops, the agent gets SIGTERM, the runner closes.
DecideConflict(r) ==
  /\ pc[r] = "decide" /\ r \in Runners
  /\ owners[r] \cup Reservers(r) # {}
  /\ Finish(r, "off")
  /\ run' = [run EXCEPT ![r] = IF @ = "run" THEN "closing" ELSE @]
  /\ UNCHANGED <<meta, startLock, live, conf, agent, last, claimed, request, crashes>>

----------------------------------------------------------------------------
(* startNamedSessionPrepared.                                               *)

\* reserveNamedCodexStart: the start lock is taken, then shpool is listed.
Reserve(p) ==
  /\ pc[p] = "reserve" /\ startLock[name[p]] = None
  /\ live[name[p]] = None
  /\ startLock' = [startLock EXCEPT ![name[p]] = p]
  /\ Goto(p, "write")
  /\ UNCHANGED <<meta, threadLock, snap, owners, registry, request, crashes>>

\* The name is live, or the list fails.
ReserveRefused(p) ==
  /\ pc[p] = "reserve" /\ startLock[name[p]] = None
  /\ Finish(p, "failed")
  /\ UNCHANGED <<meta, startLock, registry, request, crashes>>

Reservation(p) ==
  [resume |-> thread[p], starting |-> TRUE, token |-> p, pid |-> None]

WriteReservation(p) ==
  /\ pc[p] = "write"
  /\ ~RowOf(name[p]).starting
  /\ meta' = [meta EXCEPT ![name[p]] = Reservation(p)]
  /\ startLock' = Freed(startLock, {p})
  /\ Goto(p, "attach")
  /\ UNCHANGED <<threadLock, snap, owners, registry, request, crashes>>

AlreadyStarting(p) ==
  /\ pc[p] = "write"
  /\ RowOf(name[p]).starting
  /\ startLock' = Freed(startLock, {p})
  /\ Finish(p, "failed")
  /\ UNCHANGED <<meta, registry, request, crashes>>

Foreground(p) == op[p] \in {"startfg", "open"}

AfterAttach(p) == IF pc[p] = "orphan" THEN "crashed"
                  ELSE IF Foreground(p) THEN "attached" ELSE "wait"

\* shpool attach creates the session, whose command is a new runner.
AttachCreates(p) ==
  /\ pc[p] \in {"attach", "orphan"}
  /\ live[name[p]] = None
  /\ \E r \in Runners :
       /\ run[r] = "unused"
       /\ live' = [live EXCEPT ![name[p]] = r]
       /\ run' = [run EXCEPT ![r] = "boot"]
       /\ name' = [name EXCEPT ![r] = name[p]]
  /\ Goto(p, AfterAttach(p))
  /\ UNCHANGED <<meta, threadLock, startLock, op, thread, snap, owners, conf,
                 agent, last, claimed, crashes>>

\* ... or joins the one that has the name.
AttachJoins(p) ==
  /\ pc[p] \in {"attach", "orphan"}
  /\ live[name[p]] # None
  /\ Goto(p, AfterAttach(p))
  /\ UNCHANGED <<meta, threadLock, startLock, snap, owners, registry, request, crashes>>

\* runCommand cannot put the session's command line together.
CommandFails(p) ==
  /\ pc[p] = "attach"
  /\ Goto(p, IF op[p] = "open" THEN "unregister" ELSE "cleanup")
  /\ UNCHANGED <<meta, threadLock, startLock, snap, owners, registry, request, crashes>>

\* shpool attach fails or times out, or the control channel is never ready.
StartFails(p) ==
  /\ pc[p] \in {"attach", "wait"}
  /\ Goto(p, IF Foreground(p) THEN "left" ELSE "cleanup")
  /\ UNCHANGED <<meta, threadLock, startLock, snap, owners, registry, request, crashes>>

\* waitForControlReady: the runner of that name answers on its socket.
ControlReady(p) ==
  /\ pc[p] = "wait"
  /\ live[name[p]] # None
  /\ run[live[name[p]]] = "run"
  /\ Goto(p, "finalize")
  /\ UNCHANGED <<meta, threadLock, startLock, snap, owners, registry, request, crashes>>

OwnsStart(p) == RowOf(name[p]).token = p

\* finalizeReservedStart: start lock and sessions.json lock, nothing between.
Finalize(p) ==
  /\ pc[p] = "finalize" /\ startLock[name[p]] = None
  /\ OwnsStart(p)
  /\ meta' = [meta EXCEPT ![name[p]] = [@ EXCEPT !.starting = FALSE, !.token = None]]
  /\ Finish(p, "ok")
  /\ UNCHANGED <<startLock, registry, request, crashes>>

FinalizeFails(p) ==
  /\ pc[p] = "finalize" /\ startLock[name[p]] = None
  /\ ~OwnsStart(p)
  /\ Goto(p, "cleanup")
  /\ UNCHANGED <<meta, threadLock, startLock, snap, owners, registry, request, crashes>>

\* shpool kill: the name is gone.  The signalled runner is gone too, or is
\* still in its deferred cleanup, which deleteSessionMetaIfOwned allows for.
EndSession(p, next) ==
  LET host == {live[name[p]]} \ {None} IN
  /\ live' = [live EXCEPT ![name[p]] = None]
  /\ agent' = [r \in Runners |-> IF r \in host THEN None ELSE agent[r]]
  /\ claimed' = [r \in Runners |-> IF r \in host THEN None ELSE claimed[r]]
  /\ \E gone \in SUBSET host :
       /\ run' = [r \in Runners |-> IF r \in gone THEN "gone"
                                    ELSE IF r \in host THEN "exitList" ELSE run[r]]
       /\ pc' = [q \in Procs |-> IF q = p THEN next
                                 ELSE IF q \in gone THEN "off" ELSE pc[q]]
       /\ threadLock' = Freed(threadLock, gone)
  /\ UNCHANGED <<conf, last>>

\* cleanupReservedStart, under the start lock from the check to the delete.
CleanupCheck(p) ==
  /\ pc[p] = "cleanup" /\ startLock[name[p]] = None
  /\ OwnsStart(p)
  /\ startLock' = [startLock EXCEPT ![name[p]] = p]
  /\ Goto(p, "cleanKill")
  /\ UNCHANGED <<meta, threadLock, snap, owners, registry, request, crashes>>

CleanupNotOwned(p) ==
  /\ pc[p] = "cleanup" /\ startLock[name[p]] = None
  /\ ~OwnsStart(p)
  /\ Finish(p, "failed")
  /\ UNCHANGED <<meta, startLock, registry, request, crashes>>

CleanupKill(p) ==
  /\ pc[p] = "cleanKill"
  /\ EndSession(p, "cleanDelete")
  /\ UNCHANGED <<meta, startLock, snap, owners, request, crashes>>

CleanupDelete(p) ==
  /\ pc[p] = "cleanDelete"
  /\ meta' = IF OwnsStart(p) THEN [meta EXCEPT ![name[p]] = None] ELSE meta
  /\ startLock' = Freed(startLock, {p})
  /\ Finish(p, "failed")
  /\ UNCHANGED <<registry, request, crashes>>

\* The reservation is older than startReservationTTL.  That is at least twice
\* the start timeout, so a background starter at work is never overtaken.
Expire(n) ==
  /\ RowOf(n).starting
  /\ RowOf(n).token # None => pc[RowOf(n).token] \in Ended \cup {"attached", "left"}
  /\ meta' = [meta EXCEPT ![n] = [@ EXCEPT !.starting = FALSE]]
  /\ UNCHANGED <<threadLock, startLock, pc, snap, owners, registry, request, crashes>>

----------------------------------------------------------------------------
(* Foreground: runAttachLoop returns, with or without an error.             *)

Detach(p) ==
  /\ pc[p] = "attached"
  /\ Finish(p, "ok")
  /\ UNCHANGED <<meta, startLock, registry, request, crashes>>

AttachLost(p) ==
  /\ pc[p] = "attached"
  /\ Goto(p, "left")
  /\ UNCHANGED <<meta, threadLock, startLock, snap, owners, registry, request, crashes>>

LeaveLive(p) ==
  /\ pc[p] = "left" /\ live[name[p]] # None
  /\ Finish(p, "failed")
  /\ UNCHANGED <<meta, startLock, registry, request, crashes>>

\* A list that fails counts as one without the session.
LeaveDead(p) ==
  /\ pc[p] = "left"
  /\ Goto(p, IF op[p] = "open" THEN "unregister" ELSE "cleanup")
  /\ UNCHANGED <<meta, threadLock, startLock, snap, owners, registry, request, crashes>>

\* execAttach's create path: registerSession without a reservation, ...
OpenRegister(p) ==
  /\ pc[p] = "register"
  /\ meta' = [meta EXCEPT ![name[p]] = RowOf(name[p])]
  /\ Goto(p, "attach")
  /\ UNCHANGED <<threadLock, startLock, snap, owners, registry, request, crashes>>

\* ... and deleteSessionMeta when the session did not survive.
OpenUnregister(p) ==
  /\ pc[p] = "unregister"
  /\ meta' = [meta EXCEPT ![name[p]] = None]
  /\ Finish(p, "failed")
  /\ UNCHANGED <<startLock, registry, request, crashes>>

----------------------------------------------------------------------------
(* list, kill and restart all begin with agemuxSessions.                    *)

RequireList(p) ==
  /\ pc[p] = "require"
  /\ snap' = [snap EXCEPT ![p] = LiveNames]
  /\ Goto(p, "required")
  /\ UNCHANGED <<meta, threadLock, startLock, owners, registry, request, crashes>>

\* requireAgemuxSession finds the session; a restart needs its row besides.
Found(p) ==
  /\ name[p] \in Owned(snap[p])
  /\ op[p] = "restart" /\ thread[p] = None => meta[name[p]] # None

RequireFound(p) ==
  /\ pc[p] = "required"
  /\ op[p] # "list" /\ Found(p)
  /\ meta' = Kept(snap[p])
  /\ snap' = [snap EXCEPT ![p] = {}]
  /\ Goto(p, IF op[p] = "restart" /\ thread[p] = None THEN "identify" ELSE "kill")
  /\ UNCHANGED <<threadLock, startLock, owners, registry, request, crashes>>

\* A list is printed, or there is no such live session.
RequireOver(p) ==
  /\ pc[p] = "required"
  /\ op[p] = "list" \/ ~Found(p)
  /\ meta' = Kept(snap[p])
  /\ Finish(p, IF op[p] = "list" THEN "ok" ELSE "failed")
  /\ UNCHANGED <<startLock, registry, request, crashes>>

\* restartCodexSession resumes only a thread it can read off the process.
Identify(p) ==
  /\ pc[p] = "identify"
  /\ \E r \in RunnersOf(name[p]) :
       /\ Discovered(r) # None
       /\ thread' = [thread EXCEPT ![p] = Discovered(r)]
  /\ Goto(p, "lock")
  /\ UNCHANGED <<meta, threadLock, startLock, snap, owners, registry, op, name, crashes>>

IdentifyFails(p) ==
  /\ pc[p] = "identify"
  /\ RunnersOf(name[p]) # {} => \E r \in RunnersOf(name[p]) : Discovered(r) = None
  /\ Finish(p, "failed")
  /\ UNCHANGED <<meta, startLock, registry, request, crashes>>

\* killSession.  A name no longer live is still killed by the repair path.
Kill(p) ==
  /\ pc[p] = "kill"
  /\ EndSession(p, "forget")
  /\ UNCHANGED <<meta, startLock, snap, owners, request, crashes>>

KillFails(p) ==
  /\ pc[p] = "kill"
  /\ Finish(p, "failed")
  /\ UNCHANGED <<meta, startLock, registry, request, crashes>>

\* The row goes whoever owns it by now; a restart goes on to reserve.
ForgetKilled(p) ==
  /\ pc[p] = "forget" /\ op[p] = "kill"
  /\ meta' = [meta EXCEPT ![name[p]] = None]
  /\ Finish(p, "ok")
  /\ UNCHANGED <<startLock, registry, request, crashes>>

\* A mutant: a restart gives the thread back before it starts the session again.
ForgetRestartedUnlocked(p) ==
  /\ pc[p] = "forget" /\ op[p] # "kill"
  /\ meta' = [meta EXCEPT ![name[p]] = None]
  /\ Finish(p, "reserve")
  /\ UNCHANGED <<startLock, registry, request, crashes>>

ForgetRestarted(p) ==
  /\ pc[p] = "forget" /\ op[p] # "kill"
  /\ meta' = [meta EXCEPT ![name[p]] = None]
  /\ Goto(p, "reserve")
  /\ UNCHANGED <<threadLock, startLock, snap, owners, registry, request, crashes>>

\* SIGKILL, or Ctrl-C: flocks are released, a shpool child lives on.
Crash(p) ==
  /\ pc[p] \notin Ended \cup {"idle", "orphan"}
  /\ crashes < MaxCrashes
  /\ crashes' = crashes + 1
  /\ Finish(p, IF pc[p] = "attach" THEN "orphan" ELSE "crashed")
  /\ startLock' = Freed(startLock, {p})
  /\ UNCHANGED <<meta, registry, request>>

----------------------------------------------------------------------------
(* runAgentSession, the runner's main goroutine.                            *)

\* The row is read without a lock; renames make the read atomic.
Boot(r) ==
  /\ run[r] = "boot"
  /\ conf' = [conf EXCEPT ![r] = RowOf(name[r]).resume]
  /\ run' = [run EXCEPT ![r] = "register"]
  /\ UNCHANGED <<meta, threadLock, startLock, pc, snap, owners, live, agent, last,
                 claimed, request, crashes>>

\* registerSession merges its fields into the row, and so does a title ...
Register(r) ==
  /\ run[r] = "register"
  /\ meta' = [meta EXCEPT ![name[r]] = RowOf(name[r])]
  /\ run' = [run EXCEPT ![r] = "clear"]
  /\ UNCHANGED <<threadLock, startLock, pc, snap, owners, live, conf, agent, last,
                 claimed, request, crashes>>

\* ... and then the row is not starting any more.
ClearStarting(r) ==
  /\ run[r] = "clear"
  /\ meta' = [meta EXCEPT ![name[r]] = [RowOf(name[r]) EXCEPT !.starting = FALSE]]
  /\ run' = [run EXCEPT ![r] = "spawn"]
  /\ UNCHANGED <<threadLock, startLock, pc, snap, owners, live, conf, agent, last,
                 claimed, request, crashes>>

\* The agent starts in its pty, its pid is recorded, the tracker goes to work.
Spawn(r) ==
  /\ run[r] = "spawn"
  /\ meta' = [meta EXCEPT ![name[r]] = [RowOf(name[r]) EXCEPT !.pid = r]]
  /\ run' = [run EXCEPT ![r] = "run"]
  /\ Goto(r, "track")
  /\ UNCHANGED <<threadLock, startLock, snap, owners, live, conf, agent, last,
                 claimed, request, crashes>>

\* The runner's process ends; the kernel drops its locks, shpool its session.
ProcessGone(r) ==
  /\ run' = [run EXCEPT ![r] = "gone"]
  /\ Goto(r, "off")
  /\ threadLock' = Freed(threadLock, {r})
  /\ live' = Freed(live, {r})
  /\ UNCHANGED <<conf, agent, last, claimed>>

\* No agent binary, no pty: an error before the deferred cleanup is armed.
BootFails(r) ==
  /\ run[r] \in {"boot", "register", "clear", "spawn"}
  /\ ProcessGone(r)
  /\ UNCHANGED <<meta, startLock, snap, owners, request, crashes>>

\* The agent opens the thread it was told to resume, or one its user picks.
AgentOpens(r, t) ==
  /\ run[r] = "run" /\ agent[r] = None
  /\ conf[r] \in {None, t}
  /\ agent' = [agent EXCEPT ![r] = t]
  /\ UNCHANGED <<meta, threadLock, startLock, pc, snap, owners, live, run, conf,
                 last, claimed, request, crashes>>

\* Its user moves on to another thread inside the agent.
AgentSwitches(r, t) ==
  /\ run[r] = "run" /\ agent[r] \notin {None, t}
  /\ agent' = [agent EXCEPT ![r] = t]
  /\ conf' = [conf EXCEPT ![r] = None]
  /\ claimed' = [claimed EXCEPT ![r] = None]
  /\ UNCHANGED <<meta, threadLock, startLock, pc, snap, owners, live, run, last,
                 request, crashes>>

AgentExits(r) ==
  /\ run[r] \in {"run", "closing"}
  /\ run' = [run EXCEPT ![r] = "exitList"]
  /\ agent' = [agent EXCEPT ![r] = None]
  /\ claimed' = [claimed EXCEPT ![r] = None]
  /\ UNCHANGED <<meta, threadLock, startLock, pc, snap, owners, live, conf, last,
                 request, crashes>>

\* deleteSessionMetaIfOwned: the row stays while shpool lists the name, or
\* cannot say, ...
ExitKeepsRow(r) ==
  /\ run[r] = "exitList"
  /\ run' = [run EXCEPT ![r] = "exit"]
  /\ UNCHANGED <<meta, threadLock, startLock, pc, snap, owners, live, conf, agent,
                 last, claimed, request, crashes>>

ExitUnlisted(r) ==
  /\ run[r] = "exitList" /\ live[name[r]] = None
  /\ run' = [run EXCEPT ![r] = "exitDelete"]
  /\ UNCHANGED <<meta, threadLock, startLock, pc, snap, owners, live, conf, agent,
                 last, claimed, request, crashes>>

\* A mutant: the row is dropped whichever runner it belongs to.
ExitDeletesAnyRow(r) ==
  /\ run[r] = "exitDelete"
  /\ meta' = [meta EXCEPT ![name[r]] = None]
  /\ run' = [run EXCEPT ![r] = "exit"]
  /\ UNCHANGED <<threadLock, startLock, pc, snap, owners, live, conf, agent, last,
                 claimed, request, crashes>>

\* ... and goes only if it is still this runner's.
ExitDeletesRow(r) ==
  /\ run[r] = "exitDelete"
  /\ meta' = IF RowOf(name[r]).pid = r THEN [meta EXCEPT ![name[r]] = None] ELSE meta
  /\ run' = [run EXCEPT ![r] = "exit"]
  /\ UNCHANGED <<threadLock, startLock, pc, snap, owners, live, conf, agent, last,
                 claimed, request, crashes>>

Exit(r) ==
  /\ run[r] = "exit"
  /\ ProcessGone(r)
  /\ UNCHANGED <<meta, startLock, snap, owners, request, crashes>>

----------------------------------------------------------------------------
(* trackSessionThreadID: every two seconds, while its context is live.      *)

\* A mutant: the tracker claims without the owners check.
TrackClaims(r) ==
  /\ pc[r] = "track" /\ run[r] \in {"run", "closing"}
  /\ agent[r] \notin {None, last[r]}
  /\ thread' = [thread EXCEPT ![r] = agent[r]]
  /\ Goto(r, "claim")
  /\ UNCHANGED <<meta, threadLock, startLock, snap, owners, registry, op, name, crashes>>

Track(r) ==
  /\ pc[r] = "track" /\ run[r] \in {"run", "closing"}
  /\ agent[r] \notin {None, last[r]}
  /\ thread' = [thread EXCEPT ![r] = agent[r]]
  /\ Goto(r, "lock")
  /\ UNCHANGED <<meta, threadLock, startLock, snap, owners, registry, op, name, crashes>>

\* A mutant: the tracker keeps the lock of the thread it has claimed.
ClaimKeepsLock(r) ==
  /\ pc[r] = "claim"
  /\ meta' = IF RowOf(name[r]).pid = r
             THEN [meta EXCEPT ![name[r]] = [@ EXCEPT !.resume = thread[r]]] ELSE meta
  /\ last' = [last EXCEPT ![r] = thread[r]]
  /\ claimed' = [claimed EXCEPT ![r] = IF agent[r] = thread[r] THEN thread[r] ELSE None]
  /\ Goto(r, "track")
  /\ UNCHANGED <<threadLock, snap, owners, startLock, live, run, conf, agent, request,
                 crashes>>

\* updateTrackedCodexThreadID, whose row must still be this agent's.
Claim(r) ==
  /\ pc[r] = "claim"
  /\ meta' = IF RowOf(name[r]).pid = r
             THEN [meta EXCEPT ![name[r]] = [@ EXCEPT !.resume = thread[r]]] ELSE meta
  /\ last' = [last EXCEPT ![r] = thread[r]]
  /\ claimed' = [claimed EXCEPT ![r] = IF agent[r] = thread[r] THEN thread[r] ELSE None]
  /\ Finish(r, "track")
  /\ UNCHANGED <<startLock, live, run, conf, agent, request, crashes>>

----------------------------------------------------------------------------
OwnersCheck(p) ==
  \/ LockThread(p) \/ ListSessions(p) \/ ListFails(p) \/ Collect(p) \/ Discover(p)
  \/ DecideFree(p)

Start(p) ==
  \/ Reserve(p) \/ ReserveRefused(p) \/ WriteReservation(p) \/ AlreadyStarting(p)
  \/ CommandFails(p) \/ AttachCreates(p) \/ AttachJoins(p) \/ StartFails(p)
  \/ ControlReady(p) \/ Finalize(p) \/ FinalizeFails(p)
  \/ CleanupCheck(p) \/ CleanupNotOwned(p) \/ CleanupKill(p) \/ CleanupDelete(p)

Attached(p) ==
  \/ Detach(p) \/ AttachLost(p) \/ LeaveLive(p) \/ LeaveDead(p)
  \/ OpenRegister(p) \/ OpenUnregister(p)

Manage(p) ==
  \/ RequireList(p) \/ RequireFound(p) \/ RequireOver(p) \/ Identify(p)
  \/ IdentifyFails(p) \/ Kill(p) \/ KillFails(p) \/ ForgetKilled(p)
  \/ ForgetRestarted(p)

CliStep(p) == OwnersCheck(p) \/ DecideRefuse(p) \/ Start(p) \/ Attached(p) \/ Manage(p)

MainStep(r) ==
  \/ Boot(r) \/ Register(r) \/ ClearStarting(r) \/ Spawn(r) \/ BootFails(r)
  \/ ExitKeepsRow(r) \/ ExitUnlisted(r) \/ ExitDeletesRow(r) \/ Exit(r)

AgentStep(r) ==
  \/ AgentExits(r)
  \/ \E t \in Threads : AgentOpens(r, t) \/ AgentSwitches(r, t)

TrackerStep(r) == OwnersCheck(r) \/ DecideConflict(r) \/ Track(r) \/ Claim(r)

Next ==
  \/ \E p \in Clis : Invoke(p) \/ CliStep(p) \/ Crash(p)
  \/ \E r \in Runners : MainStep(r) \/ AgentStep(r) \/ TrackerStep(r)
  \/ \E n \in Names : Expire(n)

Spec == Init /\ [][Next]_vars

\* Processes keep running, a blocked flock is granted in turn, shpool lists
\* succeed again and again, and an agent that got SIGTERM exits.  Nothing
\* makes users open, leave or detach, agents exit or invocations crash.
TakesStartLock(p) ==
  Reserve(p) \/ ReserveRefused(p) \/ Finalize(p) \/ FinalizeFails(p)
    \/ CleanupCheck(p) \/ CleanupNotOwned(p)

Fairness ==
  /\ \A p \in Clis : /\ WF_vars(OwnersCheck(p) \/ DecideRefuse(p) \/ Start(p) \/ Manage(p))
                     /\ SF_vars(LockThread(p))
                     /\ SF_vars(TakesStartLock(p))
  /\ \A r \in Runners : /\ WF_vars(MainStep(r)) /\ WF_vars(TrackerStep(r))
                        /\ SF_vars(LockThread(r)) /\ SF_vars(ListSessions(r))
                        /\ WF_vars(run[r] = "closing" /\ AgentExits(r))

FairSpec == Spec /\ Fairness

----------------------------------------------------------------------------
(* Properties.                                                              *)

\* A session holds a thread when its row names the thread and either the
\* reservation of its start is active, or its tracker has claimed the thread
\* and its agent has not left it since.
Holds(n, t) ==
  /\ meta[n] # None /\ meta[n].resume = t
  /\ meta[n].starting \/ (live[n] # None /\ claimed[live[n]] = t)

\* otherSessionThreadOwners under the thread lock: whatever lists, kills,
\* crashes and expiries happen meanwhile, a thread never has two holders.
HolderExclusive ==
  \A t \in Threads : \A n, m \in Names : Holds(n, t) /\ Holds(m, t) => n = m

\* The detailed protocol implements the promise.
Ownership == INSTANCE ThreadOwnership
               WITH holders <- [t \in Threads |-> {n \in Names : Holds(n, t)}]
OwnershipSpec == Ownership!Spec

\* A row comes to name a thread only while that thread's lock is held for the
\* row's own session, by the command that starts it or by its tracker.
ClaimsAreLocked ==
  [][\A n \in Names, t \in Threads :
       RowOf(n)'.resume = t /\ RowOf(n).resume # t =>
         (threadLock[t] # None /\ name[threadLock[t]] = n)]_vars

\* A session runs a thread when its agent resumed it on being told to, or its
\* tracker claimed it, and the agent has stayed on it.
Runs(n, t) ==
  /\ live[n] # None
  /\ agent[live[n]] = t
  /\ t \in {conf[live[n]], claimed[live[n]]}

\* README, Usage: resume starts and restarts are serialized by UUID and refuse
\* a session already owned by another session; duplicate pickers do not claim.
OneAgentPerThread ==
  \A t \in Threads : \A n, m \in Names : Runs(n, t) /\ Runs(m, t) => n = m

\* deleteSessionMetaIfOwned: an older runner's cleanup never takes the row of
\* the session that has replaced it and is running.
OlderRunnerSparesReplacement ==
  [][\A r \in Runners :
       run[r] = "exitDelete" /\ run'[r] = "exit"
         /\ meta[name[r]] # None /\ meta'[name[r]] = None =>
       (live[name[r]] = None \/ run[live[name[r]]] \notin {"run", "closing"})]_vars

\* Commands that work in the background end, whoever else takes the locks.
CommandsEnd ==
  \A p \in Clis : pc[p] # "idle" /\ ~Foreground(p) ~> pc[p] \in Ended

\* README, Usage: of two sessions on one thread, one is closed.
SharedThread(n, m) ==
  /\ live[n] # None /\ live[m] # None
  /\ agent[live[n]] # None /\ agent[live[n]] = agent[live[m]]

DuplicatesEnd ==
  \A n, m \in Names : n # m => (SharedThread(n, m) ~> ~SharedThread(n, m))

----------------------------------------------------------------------------
(* The inductive invariant behind HolderExclusive.                          *)

\* A process has a session as soon as it does anything.
NamesKnown ==
  /\ \A p \in Clis : pc[p] # "idle" => name[p] \in Names
  /\ \A r \in Runners : run[r] # "unused" => name[r] \in Names

\* A runner lives in the session of its name, and its agent nowhere else.
AgentsHosted ==
  /\ \A n \in Names : live[n] # None =>
       name[live[n]] = n /\ run[live[n]] \notin {"unused", "gone"}
  /\ \A r \in Runners :
       run[r] \in {"boot", "register", "clear", "spawn", "run", "closing"}
         => live[name[r]] = r
  /\ \A r \in Runners : agent[r] # None => run[r] \in {"run", "closing"}
  /\ \A r \in Runners : claimed[r] \in {None, agent[r]}
  /\ \A r \in Runners : run[r] = "unused" => pc[r] = "off"

\* Between taking the thread lock and deciding, and between a favourable
\* decision and the row it leads to.
Checking(p) == pc[p] \in {"list", "collect", "discover", "decide"}
Cleared(p) ==
  \/ pc[p] = "claim"
  \/ /\ thread[p] # None
     /\ pc[p] \in {"reserve", "write", "require", "required", "kill", "forget"}

LocksHeld ==
  \A p \in Procs :
    /\ pc[p] = "lock" => thread[p] # None
    /\ Checking(p) \/ Cleared(p) => thread[p] # None /\ threadLock[thread[p]] = p

\* Holding by claim, the way of holding that only the list of live sessions
\* can tell.
HoldsClaim(n, t) ==
  /\ meta[n] # None /\ meta[n].resume = t
  /\ live[n] # None /\ claimed[live[n]] = t

\* The owners check misses nobody: a session that holds p's thread is in the
\* list, then among the owners, and once p is cleared there is none.
MissesNobody(p) ==
  \A n \in Names \ {name[p]} :
    /\ pc[p] = "collect" /\ HoldsClaim(n, thread[p]) => n \in snap[p]
    /\ pc[p] \in {"discover", "decide"} /\ HoldsClaim(n, thread[p]) => n \in owners[p]
    /\ Cleared(p) => ~Holds(n, thread[p])

IInv ==
  /\ TypeOK /\ NamesKnown /\ AgentsHosted /\ LocksHeld
  /\ \A p \in Procs : MissesNobody(p)
  /\ HolderExclusive
================================================================================
