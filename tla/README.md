# A verification of agemux

agemux runs coding agents (Codex, Grok, Claude) in named, persistent terminal
sessions.  Sessions live in shpool, an external daemon; agemux keeps one row
per session in `sessions.json`, one `agemux run` process (the *runner*) inside
each session, and lets any number of short command-line invocations work on
the same rows at the same time.  Its hardest promise is about conversations: a
Codex or Grok thread, known by its UUID, is never worked on by two sessions.

This directory holds TLA+ models of agemux, TLC configurations that check them
on small instances and TLAPS proofs for instances of every size.
`PROJECT.json` maps every definition to its lines of source.

## Inventory

| Component | State | Operations | Hard about it |
|---|---|---|---|
| Session registry (`main.go` 730–1000, 1546–2080, 3733–3886, 4239–4390, 5203–5400) | `sessions.json`; shpool's sessions; a flock per name and per thread; the tracker's last thread | start, restart, kill, list, interactive create, attach; a runner's boot, register, track, exit | every invocation and every runner is a process; reads and writes of the rows, lists of shpool and looks at processes interleave; reservations outlive crashes |
| Codex bridge (`codex_daemon.go`) | connections, pending requests, last thread | accept, relay, observe, register, stop | two goroutines per connection, answers out of order, ids shared by connections |
| PTY writer (`main.go` 103–271) | queue, permit, stored error | EnqueueTimeout, run, Write | deadlines, a full pty, cancellation racing results |
| Control socket, output ring (`main.go` 291–333, 5035–5201) | socket file, ring of recent output | info, keys, send, capture | a file that runners of one name share, one after another and around a kill at once |
| Attach loop, terminal modes (`main.go` 396–452, 1586–1684, `internal/terminalstate`) | modes of the user's terminal, reconnect count | attach, reconnect, open and close a screen, restore on a signal | the signal handler and the main goroutine both put the terminal back; a session taken by another terminal between probe and reconnect |
| Codex and Grok account switchers (`main.go` 2476–2600, 3404–3617; `grok_accounts.go`; `main_windows.go`) | active auth file, stored auth files, state file | switch, sync, backup, import, delete, relogin | several files and no transaction; the agent itself refreshes the active file |
| Claude accounts (`internal/claudeaccounts`) | accounts, ignored directories, current account, auth and quota caches | new, add, change, delete, refresh, status line | a command is several sections under the lock and works from what an earlier one read; read-modify-write of caches by many workers and processes |
| Claude shim (same package) | claude, its saved copies | install, migrate, uninstall | file moves that are cut short, updates in between |
| Claude environment snapshots (`main.go` 1319–1535) | secret files named after sessions | write, source, remove, sweep | several parties remove the same name |
| Terminal keys (`internal/termkey`) | unread bytes | read, drain | sequences split over reads; an Escape that may begin one |
| Menus (`main.go` 4540–4900), account pickers | selection, confirmation | keys, actions | a reader for each screen |
| Tables, drawing, installers | | | not a protocol |

How they interact: invocations and runners share `sessions.json` (under one
flock, replaced by rename), shpool (by its command line), flocks per session
name and per thread, and the process table.  Inside a runner the tracker asks
the bridge's observer (or the agent's open files) for the thread and may cancel
the runner's context; the control socket and stdin meet in the PTY writer,
whose error cancels the same context.

What makes them correct: one holder per thread; cleanups that spare what
replaced them; commands that end; a thread attributed to the request that
asked for it; answers that say what happened to the bytes; credentials that are
never lost, filed under another name or handed to another start's agent; caches
without lost updates; a claude that works whenever no command is between two of its
moves, and a kept one to put back there; a start that reports success for the session
it made; a terminal left as it was.

## Modules

| Module | What it is |
|---|---|
| `ThreadOwnership` | what agemux promises: a thread has at most one holder, and a session gains it only while nobody else holds it |
| `SessionRegistry` | the protocol that keeps the promise; refines `ThreadOwnership` |
| `MCSessionRegistry` | its small instances |
| `LatestThread` | what a runner may believe of its Codex's thread: it is that of the latest launch that was answered and not given up |
| `CodexBridge`, `MCCodexBridge` | how a runner learns the thread from a shared daemon; refines `LatestThread` |
| `MessageDelivery` | what `agemux send` promises: to its sender a message is written in full at one moment of the call, or never |
| `PtyWriter`, `MCPtyWriter` | how messages and pastes reach an agent; refines `MessageDelivery` |
| `AccountSwitch`, `MCAccountSwitch` | which credentials the Codex and Grok CLIs and the account files hold |
| `ClaudeAccounts`, `MCClaudeAccounts` | the Claude account manager: four files, one lock, the workers of a refresh |
| `ClaudeShim`, `MCClaudeShim` | the wrapper around claude and the program it keeps |
| `SessionLaunch`, `MCSessionLaunch` | a background start from its reservation to its answer: credentials file, runner, control socket |
| `TermKey` | the key reader of the menus |
| `Interactive`, `MCInteractive` | menu, picker and attach loop on one terminal; extends `TermKey` |
| `SessionRegistryProofs`, `CodexBridgeProofs`, `SessionLaunchProofs`, `ClaudeAccountsProofs`, `PtyWriterProofs`, `AccountSwitchProofs`, `InteractiveProofs`, `ClaudeShimProofs` | theorems about the module they are named after, and their proofs |

### SessionRegistry

One action is one section under the `sessions.json` lock, one call to shpool or
one acquisition of a start or thread lock.  `withMetaLock` reads, changes and
renames the file inside its flock, so a section is atomic to everybody.
Everything between sections interleaves, which is where the code's checks can
go stale: `snap` is the shpool list a process works from, `owners` what
`otherSessionThreadOwners` has found so far, `thread` the thread it read
earlier.

* Rows keep the fields the protocol reads: the resumed or claimed thread,
  `starting_at` as a Boolean, the start token, the agent's pid.  A missing row
  reads as zero values (`RowOf`), as a nil Go map does.
* Every invocation runs one command, so its identity serves as its start token.
* `Expire` is guarded by an assumption: a reservation does not run out while its
  starter is between reserving and finalizing.  The code knows only the wall clock
  (`startReservationActive`, `main.go:831`–845); `startReservationTTL` is at least a
  minute and at least twice the start timeout, so a starter at work is in time.  One
  that is stopped for longer (SIGSTOP, a laptop asleep) can lose its reservation; that
  is not modelled.
* A list of shpool can fail wherever one is taken: `ListFails` where the code gives up
  or tries again, `LeaveDead` where it ignores the error and takes the session for
  dead (`main.go:1561`, 1912).
* A look at the processes is one session after another (`Discover`), and agents and
  runners come, go and move in between.  A runner writes its row twice before its
  agent starts (`Register`, `ClearStarting`).
* `Crash` is SIGKILL or Ctrl-C: flocks go, rows stay, and an attach that had
  been started lives on as an orphan of the invocation and may still create its
  session.
* shpool is external.  Killing a session takes it off the list; its runner is
  gone at once or is still in its deferred cleanup, as the comment at
  `main.go:2035` says.  SIGHUP ends a runner without its deferred cleanup
  because the handler raises the signal again.
* `findAgentPID` takes any runner process of the name, so `Discover` chooses
  among `RunnersOf`.  With `FdVisible = FALSE` (Codex behind its daemon) other
  processes cannot read the thread and the row copied by `Collect` counts.
* The agent and its user are external: an agent opens what it was told to
  resume, or anything when it was told nothing, and may move on at any time.
* One provider is modelled: rows of another never meet in
  `otherSessionThreadOwners`.  Titles, renames and the other fields of a row,
  the random session id of a fresh Grok start, reconnects of an attached
  terminal, and the clash of a session name with the name of a thread lock are
  left out.

`Holds(n, t)` says when a session holds a thread: its row names the thread and
its start is still reserved, or its tracker claimed the thread and its agent
has stayed on it (`claimed` is a history variable for that).

### CodexBridge

One action is one critical section of the observer or the bridge, one socket
opened or closed, or one message flushed.  Only launch requests (`thread/start`,
`resume`, `fork`) and their answers are messages; whatever else is relayed
changes no state.  Ids are counted per connection from 1, so the two
connections use the same ids, as the comment at `codex_daemon.go:31` says they
do.  `EndRequests` may end a relay at any read: the client is gone, or a
request cannot carry its permissions.  `told` and `answered` are history
variables that relate the observer to what client and daemon have seen.

`LatestThread` has neither connections nor ids: its launches are the observer's
sequences (`next`), its current answer is the pair of `applied` and `thread`, and
launches may be given up only while `MaxPending` of them are unanswered.  A handler
that ends forgets what it waited for; nobody will answer that, so `LatestThread` does
not see it.

### PtyWriter

One action is one channel operation, one `write(2)`, one `poll(2)` or one access
to the stored error.  Where a Go `select` has several ready cases the model
takes any.  Messages have `Size` pieces and `write(2)` takes any number of
them, including none and fewer than it was given, or fails (`WriteFails`: any error but
EAGAIN and EINTR, and `io.ErrShortWrite`); `late` is a timer that has fired and a deadline that has passed.  The
pty may refuse bytes for ever.

`MessageDelivery` has no queue, permit, deadline or pieces.  A message is begun when
its first piece is in the pty and delivered with the last, and nothing is begun any
more once an error is stored or the session is done.

### AccountSwitch

The Codex and the Grok switcher are one module with a variable `provider`,
because their code differs in one call: `listGrokAccounts` imports an
`auth.json` that has no account (`Import`).  Two further values of `provider` are
the switchers of the Windows executable, which have only `change`: they read an
account and replace `auth.json` with it, without lock, sync or state file, and
only the Codex one makes a backup first.  One action is one look at a
file, one rename or one removal, so a command can be overtaken between any two
of them by another command, by the CLI (`Refresh`), or by being killed
(`Crash`).  `flock` stands around `Save`, `Store` and the steps from `SyncRead`
to `Record`; a delete and the CLI ignore it, as in the code.

* Credentials are a login and a version: `Refresh` makes a new version in
  `auth.json` and voids the old one.  `Email` says which identity a login's
  token shows; `Anonymous` is a token without an e-mail address, which only
  byte equality can match.
* A name of a new account is any free one at the end of the login (the prompt
  offers no other); `Save` looks again, under the lock.
* A list looks at `auth.json` (`Look`) and later at the accounts and the state file
  (`List`).  Those two are read at one moment: only whether the account picked is the
  current one depends on the state file, and what a delete or relogin replaces by that is
  waived below.
* A sync writes only when the account's bytes differ and fails when the account has gone
  (`SyncCompare`).
* `Resolved` is a set: several equal files are tried in the order of their
  names, which the model does not fix.
* `waived` is a history variable with the logins `NewestKept` makes no promise
  about, because the code loses them:
  - a sync took another login of the same e-mail address for theirs and wrote over their
    account (`Mistaken`; hazard at `main.go:3500`);
  - they are in two accounts, of which a sync keeps only one up to date (`StoredTwice`
    at first, `Doubled` by a sync, or by two lists that import at once);
  - their account was deleted or logged in anew, their new login failed to be stored,
    or a delete or relogin replaced them in `auth.json`, which the code does without a
    sync or a backup;
  - a refresh came between a command's last look at `auth.json` and its replacement, or
    a Grok switch on Windows replaced them.

### ClaudeAccounts

One action is one section under the file lock (`withLock`), one file of it where
a crash between two of them shows (`ForgetAuth` to `ForgetCurrent`, `SaveNew`,
`Load`/`Store`), one directory made, or one probe of the Claude CLI.  What a
command carries from one section to the next is in `job`.

* Directories are numbers in the order of a list, so that "the first account" is
  `Min`.  `Found` are those that `discoverConfigDirs` globs, `Reservable` those
  that `new` may make.
* `getAccounts` saves what it lists; the rows in `accounts.json` count before the
  ignored directories do, as in `readAccountsUnlocked` and `getAccounts`.
* A refresh is a feeding goroutine (the command itself) and `WorkerCount` workers.
  Channel receives by identical goroutines are taken by the first that waits,
  which is a symmetry, not a restriction.  A probe gives any answer; its timeout
  makes it end.
* `status line` is what a running agent calls: one merge into the quota cache.
* `written` is a history variable: the caches as the last writer of each row left
  them.  `moved` records that the current account was set by somebody else
  between a delete's read of the state and its last write.

Left out: normalisation of paths, sorting, labels, the formats of the probes'
output, the interactive menu (its keys do what the commands do).

### ClaudeShim

One action is one look at the files or one rename, link or removal.  Contents are
versions of Claude, the wrappers of agemux and of its predecessor clsw, or a link
to the claude further down the PATH (`elsewhere`, which may itself be a link back
to this one).  `Exists` follows links as `os.Stat` does, `LookPath` the PATH in
either order, `ResolveClaudeBin` is what agemux runs.  `Update` is Claude's own
installer, at any moment.  Two commands at once are not modelled.

* A claude `Works` if there is one and it runs a program: neither nothing nor a wrapper
  that calls itself.  `Aside`: there is none, but a kept one that an install puts back.
  The step from the one to the other is the gap between two moves, of an install
  (`claudeaccounts.go:2177` or 2228 to 2282) and of an uninstall (2318 to 2321).
* The name of a backup has its second in it (`Seconds`): two in one second have the same
  name, and `os.Rename` lets the later replace the earlier (`Overwritten`).
* What counts is what agemux runs (`ResolveClaudeBin`).  A shell that runs the wrapper of
  clsw itself between `Migrate` and `Write` finds that its program was moved; that wrapper
  is not part of the repository.

### SessionLaunch

`SessionRegistry` has the rows of many names; this module has one name and what
a start and its runner pass through files: the credentials snapshot and the
control socket.  A run of shpool is first the shell script (`Source`,
`RemoveSourced`) and then the runner (`Boot` to `TidyRun`).  `Interrupt` and `Die`
are a Ctrl-C: its handler cleans up in a goroutine of its own while the start goes on
until the process dies.  `KillSession` sends SIGHUP; the runner goes on until `HangUp`.

* A start lists the sessions (`Look`) and then reads the row (`Reserve`), both under the
  start lock of the name, which a finalize and a cleanup take too (`Unlocked`) and a runner
  does not: `Boot` can end the reservation that the start would have seen.
* A start that is killed leaves the `shpool attach` it has begun, which may still make the
  session (`orphan`).  A snapshot that cannot be written undoes the start
  (`WriteFails`), and the kill of an undo may fail.
* `Boot` is `registerSession` and the update after it (`main.go:5241`, 5247), `Own` the
  one with the agent's pid (5294).  The first of the three writes no field that this
  module has: a missing row reads as zero values.
* Reservations do not expire here (`main.go:831`–845): `SessionRegistry` has that.
* A timeout of `shpool attach` leaves the session made or not made; the wait for
  the control socket may end at any time.
* `crowded` (history) are runners that booted while a killed one of the name had
  not ended; `left` (history) says that somebody was killed who would have
  removed what is left; `displaced` (history) are the starts whose reservation
  somebody else has ended, by a kill or by the registration of another start's
  runner; `overtaken` (history) are the starts that reserved although a session of the
  name was live by then.  `Reachable`, `SuccessIsOwn`, `EnvOwn` and `NothingLeft` except
  exactly those, each what its comment names.

### TermKey and Interactive

`TermKey` is the reader: `Press` appends the bytes of a key to `wire`, `Fill` is
one read(2) of any prefix, `ReturnKey` a complete key, `GiveUp` the timeout of
`finishEscapeSequence`, `Forget` a reader thrown away, with the bytes `Drain` has
read.  `wire` merges what the user has typed and what has arrived: a read takes
any part of it.  A byte is a model value; encodings and classes of bytes (the
introducers, the final bytes 0x40–0x7e, a two-byte letter) are those that
`nextKey` and `incompleteEscapeSequence` tell apart.

`Interactive` is one agemux in the foreground.  `term` is the set of ways in
which the terminal differs from what it was; every write of modes is an action,
the client that shpool runs in between writes what it likes, and `CloseStep` is
the body of `Session.Close`, which main or the handler runs once and the other
waits for.  A client restores raw mode itself when it ends.

* `late` (history): something was put into another mode after the signal; the
  code cannot undo that.  `slow`: a key was interrupted for longer than the
  timeout.  `dropped`: bytes were thrown away in the middle of a key.
* A signal ends the history of keys: nobody reads them any more.
* The session changes hands (`Elsewhere`) only where it is looked at; what the menu
  acts on next need not be the session of the last action, so `Begin` forgets it.
* The terminal may refuse raw mode or the menu's flags (`ScreenFails`), and a list, a
  read or what was picked may fail (`MenuFails`): agemux ends, with its screens closed.
* The menu has three rows of actions and one session; its restart key, its shortcuts to
  rows and the movement in its grid (`main.go:4623`–4676) are left out.

## What is checked

All runs but the last state what holds.  They take between a few seconds and about
three minutes with two workers; `session_launch`, `interactive`, `codex_bridge` and
`claude_accounts` are the long ones.

| Run | Properties | Question | Instance | States |
|---|---|---|---|---|
| `registry_restart` | `OwnershipSpec`, `OlderRunnerSparesReplacement` | does a restart racing a start of another session refine `ThreadOwnership` and spare the replaced row? | 2 names, 1 thread, 2 invocations, 3 runners, one session live | 866 000 |
| `registry_crash` | `IInv` (with `TypeOK`) | is the proofs' inductive invariant true of starts, kills, restarts and a crash? | 2 names, 1 thread, 2 invocations, 2 runners, 1 crash | 99 000 |
| `registry_switch` | `HolderExclusive`, `ClaimsAreLocked` | are claims exclusive and under the lock when agents move between threads nobody else can see? | 2 names, 2 threads, 1 invocation, 2 runners | 484 000 |
| `registry_fair` | `CommandsEnd`, `DuplicatesEnd` | do commands end, and does one of two sessions on a thread? | 2 names, 1 thread, 1 invocation, 3 runners | 15 000 |
| `codex_bridge` | `TypeOK`, `LatestSpec`, `NeverBehindClient`, `NothingLeft`, `ClosedEnds` | does the bridge refine `LatestThread`, is nothing left of a connection, and does every handler end? | 2 connections, 1 thread, 3 requests, 2 remembered | 230 000 |
| `pty_writer` | `TypeOK`, `Acknowledged`, `Unspliced`, `DeliverySpec`, `EnqueueReturns`, `TornCloses` | are answers true, messages whole, does the writer refine `MessageDelivery`, and does everybody get an answer? | 2 sends and 2 pastes of 2 pieces | 119 000 |
| `accounts` | `TypeOK`, `NewestKept`, `SwitchKeeps`, `SlotKeepsOwner` | do switches keep the newest credentials, and accounts their owner? | 2 accounts, 3 logins (two of one e-mail address, one anonymous), 2 versions, 2 invocations, 3 commands, 1 crash | 1 059 000 |
| `claude_accounts` | `TypeOK`, `DeletedStays`, `NoLostRow`, `DeleteSparesChoice`, `RefreshEnds` | are rows and choices of others spared, and does a refresh end? | 3 directories (one to reserve), two of them accounts at first or none, 2 invocations, one of them with `AGEMUX_CLAUDE_REFRESH_JOBS=0`, 2 commands, 1 crash | 293 000 |
| `claude_shim` | `TypeOK`, `NothingLost`, `KeepsClaude`, `ForcedSucceeds` | is there a claude to run but in the gap between two moves, one to put back in the gap, and every version still somewhere? | 3 updates, 2 crashes | 130 000 |
| `session_launch` | `TypeOK`, `EnvOwn`, `NothingLeft`, `SuccessIsOwn`, `Reachable` | whose credentials, whose answer, whose socket? | 2 starts, 1 kill, 2 runs, 1 Ctrl-C or SIGKILL | 4 493 000 |
| `interactive` | `TypeOK`, `KeysWhole`, `TerminalClean`, `NoSteal` | are keys whole, is the terminal clean, is nobody's session taken? | 7 kinds of key, 3 keys typed ahead, 2 reconnects, 1 signal | 2 922 000 |
| `registry_stale_list` | `OneAgentPerThread` | a violation: see Findings | 2 names, 1 thread, 2 invocations, 2 runners | |

Bounds.  Exclusion is about two sessions and one thread; a second thread
matters only when agents move, which `registry_switch` has.  Three runners
allow a session, its replacement and a competitor.  The code's limit of 128
pending requests is `MaxPending = 2`, so that three requests overflow it; one
thread is enough there, since threads are stored and never compared.  Two
pieces are the least that can be torn.  Three commands, two of them at a
time, let a third meet what two have left behind (a state file that names
another account than the active one, deleted and re-created names); two
versions are the least that can be out of date.  Of Claude's directories one is
`~/.claude`, one may be reserved and one is neither; two commands, each of several
sections, meet in every order, and the workers of a refresh count besides.  A
refresh has one worker for each invocation: two invocations give two writers, and
`Jobs = 0` is the boundary of `refreshWorkerCount`.  Three new versions of Claude
let one come before, in and after a command that follows a broken one.  Two runs
are the least that share a socket; a third start would find what the second one
finds.  Three keys let a sequence stand between two others; two reconnects are the
least after which the count matters.  `MaxCrashes`, `MaxRequests`,
`Pastes`, `MaxVersion`, `MaxUpdates`, `MaxFaults`, `MaxKeys` and `MaxCommands` bound the environment, not the code.
Symmetry (over invocations and runners that are alike) is used in
safety runs only.
`CHECK_DEADLOCK FALSE` stands in every configuration because every system here
may stop: invocations have run, sends are answered, connections closed.

Fairness.  Processes and goroutines keep running: weak fairness of their steps.
A flock blocked in `Lock` is granted in turn though others take it in between:
strong fairness of taking a thread or start lock, and, for the workers of a Claude
refresh, of taking the file lock.  A `shpool list` that failed
is tried again by trackers and succeeds now and then: strong fairness of
`ListSessions`.  Timers fire.  A peer of the
bridge whose socket is open reads what it is sent: weak fairness of the bridge's
forwarding assumes that, because the relay (`codex_daemon.go:473`–501) sets no deadline
for a write, and a peer that stops reading without closing would hold it for ever.
Nothing makes a user attach, leave or open something, an agent exit or read its pty, or
a peer close its socket; so
`CommandsEnd` excepts commands attached to a terminal, and since a foreground
start keeps its thread lock while attached (`main.go:1836`) they are not among
the commands of the fair runs.

### Findings

One run states what the documentation says, and TLC refutes it.

* `registry_stale_list`: `agemuxSessions` (`main.go:908`) applies a list taken
  before it had the lock.  A session that went live and finished its start in
  between loses its row; if its name has no agemux prefix, nobody sees it as an
  owner any more and its thread is started again.

This does not contradict the exclusion that is proved: a session whose row is
gone *holds* nothing in the sense of `Holds`.  The proofs show what the thread
lock achieves for the rows, the finding where rows and sessions part.

The models have further behaviour that a reader may not expect, which no run
states; `PROJECT.json` has most of it under its hazards.

* Two starts of one name: the look at shpool comes first and the look at the row second
  (`main.go:1961`, 1972), so a session that goes live in between, and whose runner has
  ended the reservation, is noticed by neither; the second start joins the other's
  session and reports success.  `SuccessIsOwn` excepts exactly such starts (`overtaken`)
  and says that the other one fails then.
* A session started with `--resume` can lose its thread to a picker session that
  claims it first, and is then closed as the duplicate (`main.go:5305`).
* A new login for the e-mail address of an `auth.json` that is not stored yet is
  overwritten by the sync of the switch that follows it (`main.go:3500`, 3534).  The run
  `accounts` has two such logins; `NewestKept` waives the one that is overwritten, at the
  step that does it, and no other.
* An install or uninstall of the shim that is killed between its two moves leaves no
  `claude` (`claudeaccounts.go:2177` or 2228 to 2282, 2318 to 2321); where no other one is
  on the PATH there is none until an install puts back what is kept.  `KeepsClaude` says
  that this is the only gap, and that there is something kept in it.
* Two forced installs within a second, with an update between them, give their backups one
  name (`claudeaccounts.go:2222`), and the second replaces the first.
* A Grok switch on Windows replaces what the CLI has refreshed without a backup
  (`main_windows.go:348`).
* An old start or runner of a name removes the credentials file of the name,
  whoever's it is: a new start can lose its file before it is read, and its
  session ends at once.  `EnvOwn` says that no agent runs with the wrong ones
  unless somebody else has ended a reservation.
* A kill takes a session down and then deletes the row it finds (`main.go:4349`),
  also one that a start has reserved in between.  With the reservation goes what
  keeps a third start out, and two starts can then overwrite each other's
  credentials file.
* A delete of a Claude account stores the current account it has read one section
  earlier (`claudeaccounts.go:1742`), over a choice made in between.
* Two lists of Grok accounts that run while there is none both import `auth.json`
  (`grok_accounts.go:582`): one login, two accounts, and a switch keeps only one of
  them up to date.
* A session that has gone by the time of a reconnect is made anew by it, empty
  (`main.go:1607`).

With two threads `DuplicatesEnd` would fail too: `lastThreadID`
(`main.go:4309`) is not reset when an agent leaves a thread, so an agent that
leaves and comes back between two looks of its tracker is not checked again.
The run therefore has one thread; the hazard is recorded.

Deleting the last Grok account does not delete it: the list that follows the
removal (`grok_accounts.go:325`) imports `auth.json` as a new account.  The
model has this behaviour, no run is about it.

## What is proved

For any sets of names, threads, processes, accounts and messages and any values
of the bounds, every safety and every action property that the passing runs
check is a theorem.  The assumptions are the `ASSUME`s of the
modules, which only say that values that mean different things differ (`None` is not
an element of the other sets, an invocation is not a runner, versions are not
wrappers), that initial values and commands are well formed and that bounds are
numbers; TLC evaluates them in every run.  One theorem has a further hypothesis,
without which it is false: `WholeKeys` has `Unambiguous`, explained below.  Each proof follows one scheme: an inductive invariant
`IInv`, the type invariant and what the property needs besides, is established by
`Init`, kept by each action in a step of its own, and implies the property;
an action property follows from `IInv` in the state before the step.  The comment
above each conjunct says what it is for.

### `SessionRegistryProofs`

* `Invariant`: `Spec => []IInv`, from which `TypeCorrect` (`TypeOK`) and
  `Exclusion` (`HolderExclusive`) follow;
* `LockedClaims`: a row comes to name a thread only under that thread's lock,
  held for the row's own session (`ClaimsAreLocked`);
* `SparesReplacement`: however late a killed runner cleans up, it deletes no row that
  another runner has registered in (`OlderRunnerSparesReplacement`);
* `Implements`: `SessionRegistry` implements `ThreadOwnership`
  (`OwnershipSpec`), and `OneHolder`: the abstract promise gives every thread at most
  one holder;
* `NoDeadlock` (`ShortWaits`): whoever has a start or thread lock that somebody waits
  for is still at work, and waits are at most two long.  A command takes its start
  lock inside its thread lock and never the other way about, and nobody begins or
  ends with a lock (`LocksOwned`).

`HolderExclusive` is not inductive: a process in the middle of its owners check
relies on a list, on copied rows and on what processes said, all of which may be
out of date.  `IInv` adds

* `NamesKnown`, `AgentsHosted`: a runner that has not finished is hosted by the
  session of its name, so that a claimed thread belongs to a live session;
* `LocksHeld`: from its list to its decision, and from a favourable decision to
  the row it leads to, a process holds the lock of its thread;
* `MissesNobody`: at each stage of the check every other session that holds the
  thread by claim is still in what the process has (the list, then the owners).
  Nobody can begin to hold the thread meanwhile, because that takes the lock
  (`NoGainElsewhere`); those who held it already stay visible (`ListSees`,
  `CollectSees`, `DiscoverSees`); reservations, which no list shows, are read
  last and under the same lock (`DecideClears`).

`StepsOf` sorts every step of the system into gaining nothing, gaining for its
own session, or advancing in a check; the invariant's last two parts are proved
from those kinds alone.

### `CodexBridgeProofs`

`AttributedThread`, `ObserverKeepsUp`, `ConnectionsCleanUp`: the observer's thread is
the daemon's answer to the request it is credited to, `current()` is never behind
what the client was told, and a handler that has ended leaves nothing.  The
invariant says what there is of a connection in each phase of its handler
(`Phases`); that a request which was observed and is unanswered is still pending
under its own id and sequence, or was dropped from a full table (`Requested`), which
needs ids that are used once and sequences that do not outrun the requests
(`Counted`); and that an answer is applied before it is relayed (`Heard`).

`LearnsLatest` (`LatestSpec`): the bridge implements `LatestThread`.  A sequence that
is waited for belongs to one request and is neither dropped nor answered
(`Remembered`), and no two requests on their way share one, nor one with an answer
(`Numbered`); so the waiting requests inject into the unanswered launches, and a full
table means that `MaxPending` launches are unanswered.  `ThreadIsLatest` carries the
promise of `LatestThread` over: the observer's thread is an answer, and of the
answers to launches that were not given up it is the latest.

`StopReaches` (`ClosingReaches`): after a stop both sides of every connection that has
got past its registration are closed, and a relay that has ended has closed the socket
that the other one reads.  It needs to know what is in `active` when (`Swept`).

### `SessionLaunchProofs`

`OwnCredentials`, `StartsCleanUp`, `OwnSuccess`, `RunnerReachable`.  Neither the
credentials file nor the socket has an owner the code could check.  What orders
their users is the row and shpool: a start that writes the file owns the row
(`Reserved`), so the file is its own or that of a start that has lost its reservation
(`Fresh`); a run that is neither killed nor over is the session (`Listed`), and
the row names that session's start or nobody (`Token`), so the answer that a start
takes for its own is (`Answer`); and of the runs that were not killed only one is
beyond its dial (`Alone`).

`OwnSuccess` has two halves.  The answer comes from the start's own session, unless that
start is `overtaken`, its creator lost its reservation, or the session has been
killed.  And no two starts succeed on one session that was not killed: what the lock of
the name orders (`Exclusive`) is that a session which went live since a start's look still
has its own start's reservation or a runner that has ended it (`Looked`); so once a start
has succeeded on a session, nobody reserves while it lives (`Settled`), and whoever else
is answered by it does not own the row (`Uncontested`).

### `ClaudeAccountsProofs`

`RowsKept`, `DeletedForGood`, `ChoiceSpared`: no cache loses a row to a concurrent
writer, a deleted account is not found again, and a delete changes the current
account only where it may.  `TypeOK` says that exactly the holder of the file lock
is at a step that needs it; `Copies` that what was loaded is still what the cache holds,
and `Choice` what a delete still knows in its second section.

`PoolAlwaysServes` (`PoolServes`): while a refresh hands out accounts it has a worker
that has not left, whatever `AGEMUX_CLAUDE_REFRESH_JOBS` asks for, and no worker
outlives its refresh.  The first worker is the witness (`Pool`).

### `PtyWriterProofs`

`TrueAnswers` (`Acknowledged`): a sender is told that its message was sent exactly
if it is whole in the pty.  `WholeMessages` (`Unspliced`): nothing gets inside one.
Who writes has the permit (`Permits`); a request without a result is written by
nobody but `run`, while it is the current one (`Tracked`); and what is written of
the current one is the end of the stream (`Streamed`).

`Delivers` (`DeliverySpec`): the writer implements `MessageDelivery`.  Besides `IInv`
this needs only that `run` takes nothing once an error is stored (`Stopping`, proved as
`StoppedForGood`): each piece that `run` writes is then a write of the one message in
progress, each answer says what is in the pty, and pastes, deadlines and the queue are
not seen.  `OneTornMessage`: at most one message is ever there in part.

`NoneStranded` (`NobodyStranded`): a sender that waits has its answer, or its request is
in the queue or in the hands of `run`, which can go on by itself or will once the
deadline of its message has passed.

### `AccountSwitchProofs`

`SwitchesKeep` (`SwitchKeeps`) and `AccountsKeepOwner` (`SlotKeepsOwner`), for all four
switchers: what an invocation knows at each step (`Located`), and that while it
holds the lock the others only delete accounts (`Guarded`), so that the account it
syncs to is still of the same person (`Owner`) and what it is about to replace is
still in another file (`Covered`).

`NewestSafe` (`NewestKept`) is for any assignment of e-mail addresses and any accounts at
first, also several of one address and several that hold one login.  What is overwritten
because of that is waived at the step that overwrites it, so the theorem says that a login
is lost in no other way.  `KInv` adds that
no credentials are newer than the latest (`Versions`), a login that is not waived is in one
account (`Unique`), no account is ahead of `auth.json` for the login that holds (`Older`),
a new login is nowhere yet (`Fresh`), and what a sync, a switch and an import are about
to write is not older than what they replace (`Synced`, `Chosen`, `Imported`).

### `InteractiveProofs`

`TerminalRestored` (`TerminalClean`): who has put the terminal into a mode is still
there to put it back (`Undone`), which rests on whose interval is open
(`OnScreen`).  `NoTheft` (`NoSteal`): only the first attempt has the argument that
takes a session, for any number of reconnects (`Attempts`).

`WholeKeys` (`KeysWhole`): what the reader returns are the keys that were typed, for any
keys, any number of them and any way to cut their bytes into reads.  `KeyEnds` says that a
key ends in its encoding where the reader says that it does, whatever follows it; that
what is read of many keys is the beginning of what was typed needs an induction on
their number, which is taken over sets of numbers (`UpTo`, from `Least`, from the
library's fact that the order of the naturals is well founded), because a schema with an
operator for a parameter cannot be instantiated.  The hypothesis `Unambiguous` is that
Escape is not itself a key, or that no key is one of the introducers `[` and `O`: Escape
typed alone and one of those typed at once after it are the same bytes as the beginning
of an arrow key, and no reader can tell them apart.  The run has Escape as a key and no
introducer, the other half is covered by the theorem alone.

### `ClaudeShimProofs`

`LosesNothing` (`NothingLost`), `ClaudeKept` (`KeepsClaude`), `ForceSucceeds`
(`ForcedSucceeds`).  Every step of a command relies on what an earlier one has
seen, unless an installer came between (`Seen`, `Ran`), and on where earlier commands
that were killed can have left links (`Links`).  `ClaudeKept` rests on one fact: a
claude works if and only if there is a program behind it (`Backed`) and it is there to
be found (`WorksIff`); moves keep the first, and the second fails in the gap only.

### What the proofs found

Three invariants that the runs had not refuted were not true, and the model or the
property was put right: `EnvOwn` needs to except displaced reservations (a kill
forgets one made since), `DeleteSparesChoice` held on the small instance only
because a fourth command is needed to break its earlier form, and `NewestKept`
needs to except a login that two lists import at once.

### Only model-checked

* Liveness: `CommandsEnd`, `DuplicatesEnd`, `ClosedEnds`, `EnqueueReturns`,
  `TornCloses`, `RefreshEnds`.  Fairness and `ENABLED` are out of the prover's reach.

What can be said of them without fairness is proved: nobody waits for what cannot come.
`NoDeadlock` is that part of `CommandsEnd`, `StopReaches` of `ClosedEnds`, `NoneStranded`
of `EnqueueReturns` and `PoolAlwaysServes` of `RefreshEnds`.  That those who can go on
do so is what TLC checks.

## Plan

All modules of the plan are written; the safety and action properties and the three
refinements are proved.  What could follow:

1. what `NothingLeft` of `SessionLaunch` gives `SessionRegistry`, whose `Finalize` and
   `Tidy` it details: the two modules share no variables yet;
2. an abstract specification for `AccountSwitch`, in which a switch is one step; the
   losses that `NewestKept` excepts are what stands in its way.

## Not modelled

* Drawing, tables, help and prompts: output without state.
* The ring of recent output and its tail: one mutex around a slice; no order of
  steps can break it.
* The parsing of Grok's and Codex's files, of probes' output and of requests:
  modelled by its outcome.
* Titles, rename and the other fields of a row, which the protocol does not read.
* Of the Windows executable, everything but the two account switchers: it has no
  sessions.
* Installers, packaging and the smoke test.
