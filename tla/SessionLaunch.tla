----------------------------- MODULE SessionLaunch -----------------------------
(***************************************************************************)
(* How a Claude session of one name is launched in the background: the     *)
(* start reserves the name and writes the caller's credentials into a      *)
(* snapshot file named after the session; shpool runs a shell that sources *)
(* and removes the file and becomes the runner; the runner opens a control *)
(* socket, also named after the session; the start waits until that        *)
(* answers.  File and socket are names that starts and runners of the same *)
(* session share, one after another and, around a kill, at the same time.  *)
(***************************************************************************)
EXTENDS FiniteSets, Naturals

CONSTANTS
  Starts, Kills,  \* invocations: of `start`, of `kill`
  Runs,           \* what shpool runs: first the shell, then the runner
  None,           \* nobody
  MaxFaults       \* Ctrl-C of invocations, SIGKILL of invocations and runners, in all

ASSUME ProcsAssumption ==
  /\ Starts \cap Kills = {}
  /\ None \notin Starts \cup Kills \cup Runs
ASSUME BoundsAssumption == MaxFaults \in Nat

VARIABLES
  row,       \* the row of the name in sessions.json, zero values if there is none
  session,   \* the run of the session that shpool lists
  snapshot,  \* the start whose credentials the snapshot file holds
  socket,    \* the run that listens, or has listened, on the socket file
  pc,        \* the next step of an invocation
  sig,       \* whether a signal has made an invocation clean up
  phase,     \* the next step of a run
  by,        \* the start that created a run
  env,       \* the credentials a run has sourced
  hup,       \* runs whose session was killed
  answered,  \* history: the run that answered a start's last capture
  left,      \* history: somebody was killed who may have left something
  crowded,   \* history: runs that found a killed one still alive
  displaced, \* history: starts whose reservation somebody else has ended
  overtaken, \* history: starts that reserved although the session is live
  mishaps    \* signals and crashes so far

vars == <<row, session, snapshot, socket, pc, sig, phase, by, env, hup, answered, left,
          crowded, displaced, overtaken, mishaps>>
shared == <<row, session, snapshot, socket>>
invocations == <<pc, sig, answered>>
runs == <<phase, by, env, hup, crowded>>
faults == <<left, displaced, overtaken, mishaps>>

Procs == Starts \cup Kills
NoRow == [starting |-> FALSE, token |-> None, runner |-> None]

CliPcs == {"look", "reserve", "register", "write", "attach", "orphan", "ready", "again",
           "finalize", "tidy", "giveup", "undo", "drop", "list", "kill", "forget", "done"}
Phases == {"off", "source", "remove", "boot", "own", "dial", "unlink", "listen", "serve",
           "close", "unlink again", "disown", "tidy", "gone"}

FilesOK ==
  /\ row \in [starting : BOOLEAN, token : Starts \cup {None}, runner : Runs \cup {None}]
  /\ row.starting => row.token # None
  /\ snapshot \in Starts \cup {None}
  /\ socket \in Runs \cup {None}

InvocationsOK ==
  /\ pc \in [Procs -> CliPcs]
  /\ sig \in [Procs -> {"none", "cleaned"}]
  /\ answered \in [Starts -> Runs \cup {None}]

RunsOK ==
  /\ session \in Runs \cup {None}
  /\ session # None => phase[session] \notin {"off", "gone"} /\ session \notin hup
  /\ phase \in [Runs -> Phases]
  /\ by \in [Runs -> Starts \cup {None}] /\ env \in [Runs -> Starts \cup {None}]
  /\ hup \subseteq Runs /\ crowded \subseteq Runs

FaultsOK ==
  /\ left \in BOOLEAN /\ displaced \subseteq Starts /\ overtaken \subseteq Starts
  /\ mishaps \in 0..MaxFaults

TypeOK == FilesOK /\ InvocationsOK /\ RunsOK /\ FaultsOK

Init ==
  /\ row = NoRow /\ session = None /\ snapshot = None /\ socket = None
  /\ pc = [p \in Procs |-> IF p \in Starts THEN "look" ELSE "list"]
  /\ sig = [p \in Procs |-> "none"]
  /\ phase = [r \in Runs |-> "off"]
  /\ by = [r \in Runs |-> None] /\ env = [r \in Runs |-> None]
  /\ hup = {} /\ crowded = {} /\ displaced = {} /\ overtaken = {}
  /\ answered = [p \in Starts |-> None]
  /\ left = FALSE
  /\ mishaps = 0

----------------------------------------------------------------------------
Goto(p, step) == pc' = [pc EXCEPT ![p] = step]
Become(r, step) == phase' = [phase EXCEPT ![r] = step]

\* removeClaudeProviderEnvSnapshot removes the file of the name, whoever's it is.
RemoveSnapshot == snapshot' = None

\* Until the runner of a session that was killed has seen the signal it goes on.
\* The shell, which does not handle it, ends at once.
KillSession ==
  /\ session' = None
  /\ hup' = IF session = None THEN hup ELSE hup \cup {session}
  /\ phase' = IF session # None /\ phase[session] \in {"source", "remove"}
              THEN [phase EXCEPT ![session] = "gone"] ELSE phase

----------------------------------------------------------------------------
(* start: startNamedSessionPrepared                                         *)

\* withStartLock: a start holds the lock of the name from its look at the sessions to
\* its reservation, and while it undoes that.
Unlocked == \A p \in Starts : pc[p] \notin {"reserve", "drop"}

\* reserveNamedCodexStart lists the sessions ...
Look(p) ==
  /\ pc[p] = "look" /\ Unlocked
  /\ Goto(p, IF session = None THEN "reserve" ELSE "done")
  /\ UNCHANGED <<shared, sig, answered, runs, faults>>

Take(p) ==
  /\ row' = [starting |-> TRUE, token |-> p, runner |-> None]
  /\ overtaken' = IF session = None THEN overtaken ELSE overtaken \cup {p}
  /\ Goto(p, "register")

\* A mutant: another start of the name may be under way.
ReserveAnyway(p) ==
  /\ pc[p] = "reserve"
  /\ Take(p)
  /\ UNCHANGED <<session, snapshot, socket, sig, answered, runs, left, displaced, mishaps>>

\* ... and then reads the row, which the runner of a session that has gone live
\* since, and that knows nothing of the lock, says is not starting any more.
Reserve(p) ==
  /\ pc[p] = "reserve"
  /\ IF row.starting THEN Goto(p, "done") /\ UNCHANGED <<row, overtaken>> ELSE Take(p)
  /\ UNCHANGED <<session, snapshot, socket, sig, answered, runs, left, displaced, mishaps>>

\* writeClaudeProviderEnvSnapshot tells the signal handler about the file ...
Register(p) ==
  /\ pc[p] = "register"
  /\ Goto(p, "write")
  /\ UNCHANGED <<shared, sig, answered, runs, faults>>

\* ... and renames it into its place.
WriteSnapshot(p) ==
  /\ pc[p] = "write"
  /\ snapshot' = p
  /\ left' = (left \/ sig[p] = "cleaned")
  /\ Goto(p, "attach")
  /\ UNCHANGED <<row, session, socket, sig, answered, runs, displaced, overtaken, mishaps>>

\* A file that cannot be written is forgotten, and the start is undone.
WriteFails(p) ==
  /\ pc[p] = "write"
  /\ Goto(p, "undo")
  /\ UNCHANGED <<shared, sig, answered, runs, faults>>

\* shpool attach --background makes a session or joins the one there is; it can
\* fail or be timed out before or after that.  It outlives a start that is killed.
Attach(p) ==
  /\ pc[p] \in {"attach", "orphan"}
  /\ \/ /\ session = None
        /\ \E r \in Runs :
             /\ phase[r] = "off"
             /\ session' = r
             /\ by' = [by EXCEPT ![r] = p]
             /\ Become(r, "source")
     \/ session # None /\ UNCHANGED <<session, by, phase>>
  /\ IF pc[p] = "orphan" THEN Goto(p, "done") ELSE Goto(p, "ready") \/ Goto(p, "giveup")
  /\ UNCHANGED <<row, snapshot, socket, sig, answered, env, hup, crowded, faults>>

AttachFails(p) ==
  /\ pc[p] \in {"attach", "orphan"}
  /\ Goto(p, IF pc[p] = "orphan" THEN "done" ELSE "giveup")
  /\ UNCHANGED <<shared, sig, answered, runs, faults>>

\* A capture is answered by whoever listens on the socket.
Listening == {r \in Runs : phase[r] \in {"serve", "close"}}

\* waitForControlReady: one capture and, after a while, another one.
Capture(p) ==
  /\ pc[p] \in {"ready", "again"} /\ socket \in Listening
  /\ answered' = [answered EXCEPT ![p] = socket]
  /\ Goto(p, IF pc[p] = "ready" THEN "again" ELSE "finalize")
  /\ UNCHANGED <<shared, sig, runs, faults>>

\* It gives up if the session has gone, and in the end.
NotReady(p) ==
  /\ pc[p] \in {"ready", "again"} /\ socket \notin Listening
  /\ Goto(p, "giveup") \/ (session # None /\ Goto(p, "ready"))
  /\ UNCHANGED <<shared, sig, answered, runs, faults>>

\* A mutant: nobody else can have started the name meanwhile.
FinalizeAnyway(p) ==
  /\ pc[p] = "finalize" /\ Unlocked
  /\ row' = [row EXCEPT !.starting = FALSE, !.token = None]
  /\ Goto(p, "tidy")
  /\ UNCHANGED <<session, snapshot, socket, sig, answered, runs, faults>>

\* A mutant: the row goes on starting.
FinalizeToken(p) ==
  /\ pc[p] = "finalize" /\ Unlocked
  /\ IF row.token = p
     THEN row' = [row EXCEPT !.token = None] /\ Goto(p, "tidy")
     ELSE Goto(p, "giveup") /\ UNCHANGED row
  /\ UNCHANGED <<session, snapshot, socket, sig, answered, runs, faults>>

\* finalizeReservedStart
Finalize(p) ==
  /\ pc[p] = "finalize" /\ Unlocked
  /\ IF row.token = p
     THEN row' = [row EXCEPT !.starting = FALSE, !.token = None] /\ Goto(p, "tidy")
     ELSE Goto(p, "giveup") /\ UNCHANGED row
  /\ UNCHANGED <<session, snapshot, socket, sig, answered, runs, faults>>

\* What counts is the answer a start succeeds with.
Unanswered(p) == answered' = [answered EXCEPT ![p] = None]

\* A mutant: a start that has failed leaves the file to the runner.
TidySuccess(p) ==
  /\ pc[p] \in {"tidy", "giveup"}
  /\ IF pc[p] = "tidy"
     THEN RemoveSnapshot /\ Goto(p, "done") /\ UNCHANGED answered
     ELSE UNCHANGED snapshot /\ Goto(p, "undo") /\ Unanswered(p)
  /\ UNCHANGED <<row, session, socket, sig, runs, faults>>

\* Whatever has come of it, the start removes the snapshot.
Tidy(p) ==
  /\ pc[p] \in {"tidy", "giveup"}
  /\ RemoveSnapshot
  /\ IF pc[p] = "tidy" THEN Goto(p, "done") /\ UNCHANGED answered
                        ELSE Goto(p, "undo") /\ Unanswered(p)
  /\ UNCHANGED <<row, session, socket, sig, runs, faults>>

\* cleanupReservedStart: only a start that owns the row kills and drops it; that the
\* kill may fail is ignored.
Undo(p) ==
  /\ pc[p] = "undo" /\ Unlocked
  /\ Goto(p, IF row.token = p THEN "drop" ELSE "done")
  /\ (row.token = p /\ KillSession) \/ UNCHANGED <<session, hup, phase>>
  /\ UNCHANGED <<row, snapshot, socket, sig, answered, by, env, crowded, faults>>

Drop(p) ==
  /\ pc[p] = "drop"
  /\ row' = IF row.token = p THEN NoRow ELSE row
  /\ Goto(p, "done")
  /\ UNCHANGED <<session, snapshot, socket, sig, answered, runs, faults>>

----------------------------------------------------------------------------
(* kill: killSession                                                        *)

List(k) ==
  /\ pc[k] = "list"
  /\ Goto(k, IF session = None THEN "done" ELSE "kill")
  /\ UNCHANGED <<shared, sig, answered, runs, faults>>

Kill(k) ==
  /\ pc[k] = "kill"
  /\ KillSession
  /\ Goto(k, IF session = None THEN "done" ELSE "forget")
  /\ UNCHANGED <<row, snapshot, socket, sig, answered, by, env, crowded, faults>>

\* The row is deleted without a look at it: a start may have reserved it since the
\* session was killed.
Forget(k) ==
  /\ pc[k] = "forget"
  /\ row' = NoRow
  /\ displaced' = IF row.starting THEN displaced \cup {row.token} ELSE displaced
  /\ Goto(k, "done")
  /\ UNCHANGED <<session, snapshot, socket, sig, answered, runs, left, overtaken, mishaps>>

----------------------------------------------------------------------------
(* A start is interrupted: a goroutine cleans up and ends the process, while *)
(* the start goes on.                                                        *)

\* cleanupPendingClaudeProviderEnvSnapshots and runProcessExitCleanup remove a
\* file that was registered and not removed yet: none if it could not be written.
Interrupt(p) ==
  /\ pc[p] \notin {"look", "reserve", "orphan", "done"}
  /\ sig[p] = "none" /\ mishaps < MaxFaults
  /\ sig' = [sig EXCEPT ![p] = "cleaned"]
  /\ mishaps' = mishaps + 1
  /\ \/ pc[p] \in {"register", "undo", "drop"} /\ UNCHANGED snapshot
     \/ pc[p] # "register" /\ RemoveSnapshot
  /\ UNCHANGED <<row, session, socket, pc, answered, runs, left, displaced, overtaken>>

\* The process ends; shpool attach, which it waits for, may go on.
Ends(p) ==
  /\ Goto(p, "done") \/ (pc[p] = "attach" /\ Goto(p, "orphan"))
  /\ Unanswered(p)

Die(p) ==
  /\ sig[p] = "cleaned" /\ pc[p] \notin {"orphan", "done"}
  /\ Ends(p)
  /\ left' = (left \/ row.token = p)
  /\ UNCHANGED <<shared, sig, runs, displaced, overtaken, mishaps>>

Crash(p) ==
  /\ pc[p] \notin {"look", "reserve", "orphan", "done"} /\ mishaps < MaxFaults
  /\ mishaps' = mishaps + 1
  /\ Ends(p)
  /\ left' = TRUE
  /\ UNCHANGED <<shared, sig, runs, displaced, overtaken>>

----------------------------------------------------------------------------
(* What shpool runs: the script of wrapClaudeProviderEnv ...                *)

Exit(r) == Become(r, "gone") /\ session' = IF session = r THEN None ELSE session

\* Without a file to read, the script ends.
Source(r) ==
  /\ phase[r] = "source"
  /\ env' = [env EXCEPT ![r] = snapshot]
  /\ IF snapshot = None THEN Exit(r) ELSE Become(r, "remove") /\ UNCHANGED session
  /\ UNCHANGED <<row, snapshot, socket, invocations, by, hup, crowded, faults>>

RemoveSourced(r) ==
  /\ phase[r] = "remove"
  /\ RemoveSnapshot
  /\ Become(r, "boot")
  /\ UNCHANGED <<row, session, socket, invocations, by, env, hup, crowded, faults>>

(* ... and the runner, runAgentSession.                                     *)

\* registerSession and the update that follows it leave the start token; they end
\* the reservation in the row, whoever's it is ...
Boot(r) ==
  /\ phase[r] = "boot"
  /\ row' = [row EXCEPT !.starting = FALSE]
  /\ displaced' = IF row.starting /\ row.token # by[r] THEN displaced \cup {row.token}
                                                       ELSE displaced
  /\ Become(r, "own")
  /\ UNCHANGED <<session, snapshot, socket, invocations, by, env, hup, crowded, left,
                 overtaken, mishaps>>

\* ... and when the agent runs the row is the runner's.
Own(r) ==
  /\ phase[r] = "own"
  /\ row' = [row EXCEPT !.runner = r]
  /\ Become(r, "dial")
  /\ UNCHANGED <<session, snapshot, socket, invocations, by, env, hup, crowded, faults>>

\* startControlServer: somebody who answers is not replaced, the agent is killed.
Dial(r) ==
  /\ phase[r] = "dial"
  /\ Become(r, IF socket \in Listening THEN "disown" ELSE "unlink")
  /\ crowded' = IF \E q \in hup : phase[q] # "gone" THEN crowded \cup {r} ELSE crowded
  /\ UNCHANGED <<shared, invocations, by, env, hup, faults>>

\* A mutant: a socket that nobody listens on is left where it is.
UnlinkNothing(r) ==
  /\ phase[r] = "unlink"
  /\ Become(r, "listen")
  /\ UNCHANGED <<shared, invocations, by, env, hup, crowded, faults>>

Unlink(r) ==
  /\ phase[r] = "unlink"
  /\ socket' = None
  /\ Become(r, "listen")
  /\ UNCHANGED <<row, session, snapshot, invocations, by, env, hup, crowded, faults>>

\* bind(2) fails where there is a file.
Listen(r) ==
  /\ phase[r] = "listen"
  /\ IF socket = None THEN socket' = r /\ Become(r, "serve")
     ELSE Become(r, "disown") /\ UNCHANGED socket
  /\ UNCHANGED <<row, session, snapshot, invocations, by, env, hup, crowded, faults>>

\* The agent exits, or its terminal is closed.
AgentEnds(r) ==
  /\ phase[r] = "serve"
  /\ Become(r, "close")
  /\ UNCHANGED <<shared, invocations, by, env, hup, crowded, faults>>

\* A listener that is closed unlinks the file by its name; then the cleanup does.
Close(r) ==
  /\ phase[r] \in {"close", "unlink again"}
  /\ socket' = None
  /\ Become(r, IF phase[r] = "close" THEN "unlink again" ELSE "disown")
  /\ UNCHANGED <<row, session, snapshot, invocations, by, env, hup, crowded, faults>>

\* deleteSessionMetaIfOwned keeps the row of a session that is still listed.  A start
\* may have reserved the row before the runner made it its own.
Disown(r) ==
  /\ phase[r] = "disown"
  /\ IF session = None /\ row.runner = r
     THEN /\ row' = NoRow
          /\ displaced' = IF row.starting THEN displaced \cup {row.token} ELSE displaced
     ELSE UNCHANGED <<row, displaced>>
  /\ Become(r, "tidy")
  /\ UNCHANGED <<session, snapshot, socket, invocations, by, env, hup, crowded, left,
                 overtaken, mishaps>>

TidyRun(r) ==
  /\ phase[r] = "tidy"
  /\ RemoveSnapshot
  /\ Exit(r)
  /\ UNCHANGED <<row, socket, invocations, by, env, hup, crowded, faults>>

\* SIGHUP: the handler removes the snapshot and ends the runner, nothing else.
HangUp(r) ==
  /\ r \in hup /\ phase[r] # "gone"
  /\ RemoveSnapshot
  /\ Exit(r)
  /\ UNCHANGED <<row, socket, invocations, by, env, hup, crowded, faults>>

CrashRun(r) ==
  /\ phase[r] \notin {"off", "gone"} /\ mishaps < MaxFaults
  /\ mishaps' = mishaps + 1
  /\ Exit(r)
  /\ left' = TRUE
  /\ UNCHANGED <<row, snapshot, socket, invocations, by, env, hup, crowded, displaced,
                 overtaken>>

----------------------------------------------------------------------------
StartStep(p) ==
  \/ Look(p) \/ Reserve(p) \/ Register(p) \/ WriteSnapshot(p) \/ WriteFails(p)
  \/ Attach(p) \/ AttachFails(p)
  \/ Capture(p) \/ NotReady(p) \/ Finalize(p) \/ Tidy(p) \/ Undo(p) \/ Drop(p)
KillStep(k) == List(k) \/ Kill(k) \/ Forget(k)
RunStep(r) ==
  \/ Source(r) \/ RemoveSourced(r) \/ Boot(r) \/ Own(r) \/ Dial(r) \/ Unlink(r) \/ Listen(r)
  \/ AgentEnds(r) \/ Close(r) \/ Disown(r) \/ TidyRun(r) \/ HangUp(r) \/ CrashRun(r)

Next ==
  \/ \E p \in Starts : StartStep(p) \/ Interrupt(p) \/ Die(p) \/ Crash(p)
  \/ \E k \in Kills : KillStep(k)
  \/ \E r \in Runs : RunStep(r)

Spec == Init /\ [][Next]_vars

----------------------------------------------------------------------------
(* Properties.                                                              *)

\* An agent runs with the credentials of the start that created its session,
\* although every start of the name writes them to the same file.  That takes a
\* reservation that keeps other starts out: a kill can forget it, and a runner that
\* was killed and boots before it sees the signal ends it.
EnvOwn ==
  \A r \in Runs :
    env[r] \in {None, by[r]} \/ by[r] \in displaced \/ env[r] \in displaced

\* A start that has ended has left no reservation, and there are credentials in the
\* file only while the start that wrote them is still to remove it, unless somebody
\* was killed who would have.
NothingLeft ==
  \/ left
  \/ /\ row.token # None => pc[row.token] \notin {"look", "reserve", "orphan", "done"}
     /\ snapshot # None =>
          pc[snapshot] \in {"attach", "ready", "again", "finalize", "tidy", "giveup"}

\* A start that succeeds was answered by the session it has created, unless one went
\* live between its look at the sessions and its reservation, or the start that has
\* created it lost its reservation and went on.  And whoever created it, no other
\* start has succeeded on the same session, so that the one that is overtaken has
\* failed.  Only the runner of a session that was killed can still answer anybody.
SuccessIsOwn ==
  [][\A p \in Starts :
       pc[p] = "finalize" /\ pc'[p] = "tidy" =>
         LET r == answered[p] IN
         \/ r \in hup
         \/ /\ by[r] = p \/ p \in overtaken \/ by[r] \in displaced
            /\ \A q \in Starts \ {p} : answered[q] = r => pc[q] \notin {"tidy", "done"}]_vars

\* A runner opens its socket, whatever its predecessors have left of theirs, and
\* is reached by the name of its session from then on, unless one of them was
\* killed and has not ended in time.
Reachable ==
  [][\A r \in Runs \ (hup' \cup crowded') :
       /\ phase[r] \in {"dial", "listen"} => phase'[r] # "disown"
       /\ phase'[r] = "serve" => socket' = r]_vars
===============================================================================
