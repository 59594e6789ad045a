-------------------------- MODULE SessionLaunchProofs --------------------------
(***************************************************************************)
(* That the credentials of a start reach no agent but its own, that ended  *)
(* starts leave nothing behind, that a success is answered by the start's  *)
(* own session or by nobody else's success, and that a runner can be       *)
(* reached, for any number of starts, kills, runs, signals and crashes.    *)
(*                                                                         *)
(* File and socket have no owner that the code could check.  What orders   *)
(* their users is the reservation in the row (Reserved: a start between    *)
(* its reservation and its attach owns the row), the session shpool lists  *)
(* (Listed: a run that is neither killed nor over is the session) and,     *)
(* between the list a start reads and the row it reserves, the lock of the *)
(* name (Looked, Settled: what has gone live meanwhile is still in the row *)
(* or has been overtaken, and its start cannot have succeeded).            *)
(***************************************************************************)
EXTENDS SessionLaunch, TLAPS

Writing == {"register", "write", "attach", "orphan"}
Reserving == {"look", "reserve"}
Tidying == {"attach", "ready", "again", "finalize", "tidy", "giveup"}
Live(r) == phase[r] \notin {"off", "gone"}
Succeeded(p, r) == answered[p] = r /\ pc[p] \in {"tidy", "done"}

\* A run that is neither killed nor over is the session, and the shell of one that
\* is killed is over.
Listed ==
  \A r \in Runs :
    /\ Live(r) => r \in hup \/ session = r
    /\ phase[r] \in {"off", "source", "remove"} => r \notin hup

\* Runs are made by starts that have attached, one by each.
Made ==
  /\ \A r \in Runs :
       /\ phase[r] # "off" => by[r] \in Starts /\ pc[by[r]] \notin Writing \cup Reserving
       /\ phase[r] \in {"off", "source"} => env[r] = None
  /\ \A r, s \in Runs : phase[r] # "off" /\ phase[s] # "off" /\ by[r] = by[s] => r = s

\* The lock of the name.
Exclusive ==
  \A p, q \in Starts : pc[p] \in {"reserve", "drop"} /\ pc[q] \in {"reserve", "drop"} => p = q

\* Until it attaches, a start owns the row, unless its reservation was ended.
Reserved ==
  \A p \in Starts :
    pc[p] \in Writing /\ p \notin displaced => row.starting /\ row.token = p

\* A session that has gone live since a start has looked at the list has its own
\* start's reservation in the row until its runner ends that.
Looked ==
  (\E q \in Starts : pc[q] = "reserve") /\ session # None =>
    \/ phase[session] \notin {"source", "remove", "boot"}
    \/ by[session] \in displaced
    \/ row.starting /\ row.token = by[session]

\* A reservation's snapshot is overwritten only by starts that have lost theirs.
Fresh ==
  /\ \A p \in Starts :
       pc[p] \in {"attach", "orphan"} /\ p \notin displaced
         => snapshot \in {None, p} \cup displaced
  /\ \A r \in Runs : phase[r] = "source" /\ by[r] \notin displaced =>
       /\ snapshot \in {None, by[r]} \cup displaced
       /\ \A p \in Starts \ displaced : pc[p] \notin Writing

\* Whose token is in the row, and whose credentials are in the file.
Kept ==
  /\ row.token # None =>
       /\ pc[row.token] \notin {"look", "reserve", "tidy"}
       /\ pc[row.token] \in {"orphan", "done"} => left
  /\ snapshot # None =>
       left \/ (pc[snapshot] \in Tidying /\ sig[snapshot] # "cleaned")

\* While a session lives that was made under a reservation, the row names no other,
\* but for one that was made in spite of the session.
Token ==
  session # None =>
    row.token \in {None, by[session]} \cup overtaken \/ by[session] \in displaced

\* Who answers a start that still owns the row.
Answer ==
  \A p \in Starts :
    /\ answered[p] # None =>
         /\ phase[answered[p]] # "off"
         /\ pc[p] \in {"ready", "again", "finalize", "giveup", "tidy", "done"}
    /\ pc[p] \in {"again", "finalize"} => answered[p] # None
    /\ pc[p] \in {"again", "finalize"} /\ row.token = p =>
         \/ by[answered[p]] = p \/ answered[p] \in hup \/ by[answered[p]] \in displaced
         \/ p \in overtaken

\* Once a start has succeeded on a session, nobody reserves the name while it lives ...
Settled ==
  \A p \in Starts, r \in Runs \ hup :
    Succeeded(p, r) /\ Live(r) => row.token = None /\ \A q \in Starts : pc[q] # "reserve"

\* ... and nobody that it answers owns the row.
Uncontested ==
  \A p, q \in Starts, r \in Runs \ hup :
    Succeeded(p, r) /\ answered[q] = r /\ pc[q] \in {"again", "finalize"} => row.token # q

\* Beyond its dial, a run that found no killed one alive has the socket to itself.
Alone ==
  \A r \in Runs \ (hup \cup crowded) :
    /\ phase[r] \in {"unlink", "listen", "serve"} => \A q \in hup : phase[q] = "gone"
    /\ phase[r] = "listen" => socket = None
    /\ phase[r] = "serve" => socket = r

IInv ==
  /\ TypeOK /\ Listed /\ Made /\ Exclusive /\ Reserved /\ Looked /\ Fresh /\ Kept /\ Token
  /\ Answer /\ Settled /\ Uncontested /\ Alone /\ EnvOwn

----------------------------------------------------------------------------
\* The row stays a row under the updates the code makes.
LEMMA RowUpdates ==
  ASSUME FilesOK
  PROVE  LET Rows == [starting : BOOLEAN, token : Starts \cup {None},
                      runner : Runs \cup {None}] IN
         /\ NoRow \in Rows
         /\ \A p \in Starts : [starting |-> TRUE, token |-> p, runner |-> None] \in Rows
         /\ [row EXCEPT !.starting = FALSE, !.token = None] \in Rows
         /\ [row EXCEPT !.starting = FALSE] \in Rows
         /\ \A r \in Runs : [row EXCEPT !.runner = r] \in Rows
  BY DEF FilesOK, NoRow

\* What a killed session leaves of the types.
LEMMA KillType ==
  ASSUME RunsOK, KillSession
  PROVE  session' = None /\ hup' \subseteq Runs /\ phase' \in [Runs -> Phases]
  BY DEF RunsOK, KillSession, Phases

\* What a run leaves of the types when it ends.
LEMMA ExitType ==
  ASSUME RunsOK, NEW r \in Runs, Exit(r), UNCHANGED hup
  PROVE  /\ session' \in Runs \cup {None} /\ phase' \in [Runs -> Phases]
         /\ session' # None => phase'[session'] \notin {"off", "gone"} /\ session' \notin hup'
<1>1. CASE session = r
  BY <1>1, ProcsAssumption DEF RunsOK, Exit, Become, Phases
<1>2. CASE session # r
  BY <1>2, ProcsAssumption DEF RunsOK, Exit, Become, Phases
<1> QED
  BY <1>1, <1>2

\* The files.
LEMMA FilesStep == ASSUME FilesOK, InvocationsOK, RunsOK, [Next]_vars PROVE FilesOK'
<1> USE DEF shared, invocations, runs, faults, RemoveSnapshot
<1>1. ASSUME NEW p \in Starts, Reserve(p) PROVE FilesOK'
  <2>1. \/ UNCHANGED row
        \/ row' = [starting |-> TRUE, token |-> p, runner |-> None]
    BY <1>1 DEF Reserve, Take
  <2>2. row' \in [starting : BOOLEAN, token : Starts \cup {None}, runner : Runs \cup {None}]
    BY <2>1, RowUpdates DEF FilesOK
  <2>3. row'.starting => row'.token # None
    BY <2>1, ProcsAssumption DEF FilesOK
  <2> QED
    BY <1>1, <2>2, <2>3 DEF Reserve, Take, FilesOK
<1>2. ASSUME NEW p \in Starts, Finalize(p) PROVE FilesOK'
  <2>1. \/ UNCHANGED row
        \/ row' = [row EXCEPT !.starting = FALSE, !.token = None]
    BY <1>2 DEF Finalize
  <2>2. row' \in [starting : BOOLEAN, token : Starts \cup {None}, runner : Runs \cup {None}]
    BY <2>1, RowUpdates DEF FilesOK
  <2>3. row'.starting => row'.token # None
    BY <2>1 DEF FilesOK
  <2> QED
    BY <1>2, <2>2, <2>3 DEF Finalize, FilesOK
<1>3. ASSUME NEW p \in Starts, Drop(p) PROVE FilesOK'
  BY <1>3, RowUpdates DEF Drop, NoRow, FilesOK
<1>4. ASSUME NEW k \in Kills, Forget(k) PROVE FilesOK'
  BY <1>4, RowUpdates DEF Forget, NoRow, FilesOK
<1>5. ASSUME NEW r \in Runs, Boot(r) PROVE FilesOK'
  <2>1. row' = [row EXCEPT !.starting = FALSE]
    BY <1>5 DEF Boot
  <2>2. row' \in [starting : BOOLEAN, token : Starts \cup {None}, runner : Runs \cup {None}]
    BY <2>1, RowUpdates
  <2>3. ~row'.starting
    BY <2>1 DEF FilesOK
  <2> QED
    BY <1>5, <2>2, <2>3 DEF Boot, FilesOK
<1>6. ASSUME NEW r \in Runs, Disown(r) PROVE FilesOK'
  BY <1>6, RowUpdates DEF Disown, NoRow, FilesOK
<1>7. ASSUME NEW p \in Starts,
             \/ Look(p) \/ WriteFails(p) \/ Register(p) \/ Attach(p) \/ AttachFails(p)
             \/ Capture(p)
             \/ NotReady(p) \/ Undo(p) \/ Die(p) \/ Crash(p)
      PROVE  FilesOK'
  BY <1>7 DEF Look, WriteFails, Register, Attach, AttachFails, Capture, NotReady, Undo, Die,
    Crash, FilesOK
<1>8. ASSUME NEW p \in Starts, WriteSnapshot(p) \/ Tidy(p) \/ Interrupt(p) PROVE FilesOK'
  BY <1>8 DEF WriteSnapshot, Tidy, Interrupt, FilesOK
<1>9. ASSUME NEW k \in Kills, List(k) \/ Kill(k) PROVE FilesOK'
  BY <1>9 DEF List, Kill, FilesOK
<1>10. ASSUME NEW r \in Runs,
             Dial(r) \/ AgentEnds(r) \/ CrashRun(r) \/ Source(r)
      PROVE  FilesOK'
  BY <1>10 DEF Dial, AgentEnds, CrashRun, Source, FilesOK
<1>11. ASSUME NEW r \in Runs,
             \/ RemoveSourced(r) \/ Unlink(r) \/ Listen(r) \/ Close(r)
             \/ TidyRun(r) \/ HangUp(r)
      PROVE  FilesOK'
  BY <1>11 DEF RemoveSourced, Unlink, Listen, Close, TidyRun, HangUp, FilesOK
<1>12. ASSUME NEW r \in Runs, Own(r) PROVE FilesOK'
  <2>1. row' = [row EXCEPT !.runner = r]
    BY <1>12 DEF Own
  <2>2. row' \in [starting : BOOLEAN, token : Starts \cup {None}, runner : Runs \cup {None}]
    BY <2>1, RowUpdates
  <2>3. row'.starting => row'.token # None
    BY <2>1 DEF FilesOK
  <2> QED
    BY <1>12, <2>2, <2>3 DEF Own, FilesOK
<1>13. CASE UNCHANGED vars
  BY <1>13 DEF vars, FilesOK
<1> QED
  BY <1>1, <1>2, <1>3, <1>4, <1>5, <1>6, <1>7, <1>8, <1>9, <1>10, <1>11, <1>12, <1>13
    DEF Next, StartStep, KillStep, RunStep

\* The invocations.
LEMMA InvocationsStep == ASSUME TypeOK, [Next]_vars PROVE InvocationsOK'
<1> USE DEF TypeOK, InvocationsOK, Goto, Procs, CliPcs, shared, invocations
<1>1. ASSUME NEW p \in Starts, Reserve(p) PROVE InvocationsOK'
  BY <1>1 DEF Reserve, Take
<1>2. ASSUME NEW p \in Starts, Register(p) PROVE InvocationsOK'
  BY <1>2 DEF Register
<1>3. ASSUME NEW p \in Starts, WriteSnapshot(p) PROVE InvocationsOK'
  BY <1>3 DEF WriteSnapshot
<1>4. ASSUME NEW p \in Starts, Attach(p) PROVE InvocationsOK'
  BY <1>4 DEF Attach
<1>5. ASSUME NEW p \in Starts, AttachFails(p) PROVE InvocationsOK'
  BY <1>5 DEF AttachFails
<1>6. ASSUME NEW p \in Starts, Capture(p) PROVE InvocationsOK'
  <2>1. answered' \in [Starts -> Runs \cup {None}]
    BY <1>6 DEF Capture, FilesOK
  <2>2. Goto(p, "again") \/ Goto(p, "finalize")
    BY <1>6 DEF Capture
  <2>3. sig' = sig
    BY <1>6 DEF Capture
  <2> QED
    BY <2>1, <2>2, <2>3
<1>7. ASSUME NEW p \in Starts, NotReady(p) PROVE InvocationsOK'
  BY <1>7 DEF NotReady
<1>8. ASSUME NEW p \in Starts, Finalize(p) PROVE InvocationsOK'
  BY <1>8 DEF Finalize
<1>9. ASSUME NEW p \in Starts, Tidy(p) PROVE InvocationsOK'
  BY <1>9 DEF Tidy, Unanswered
<1>10. ASSUME NEW p \in Starts, Undo(p) PROVE InvocationsOK'
  BY <1>10 DEF Undo
<1>11. ASSUME NEW p \in Starts, Drop(p) PROVE InvocationsOK'
  BY <1>11 DEF Drop
<1>12. ASSUME NEW p \in Starts, Interrupt(p) PROVE InvocationsOK'
  BY <1>12 DEF Interrupt
<1>13. ASSUME NEW p \in Starts, Look(p) \/ WriteFails(p) PROVE InvocationsOK'
  BY <1>13 DEF Look, WriteFails
<1>14. ASSUME NEW p \in Starts, Die(p) PROVE InvocationsOK'
  BY <1>14 DEF Die, Ends, Unanswered
<1>15. ASSUME NEW p \in Starts, Crash(p) PROVE InvocationsOK'
  BY <1>15 DEF Crash, Ends, Unanswered
<1>16. ASSUME NEW k \in Kills, List(k) PROVE InvocationsOK'
  BY <1>16 DEF List
<1>17. ASSUME NEW k \in Kills, Kill(k) PROVE InvocationsOK'
  BY <1>17 DEF Kill
<1>18. ASSUME NEW k \in Kills, Forget(k) PROVE InvocationsOK'
  BY <1>18 DEF Forget
<1>19. ASSUME NEW r \in Runs,
             \/ Source(r) \/ RemoveSourced(r) \/ Boot(r) \/ Own(r) \/ Dial(r) \/ Unlink(r)
             \/ Listen(r) \/ AgentEnds(r) \/ Close(r) \/ Disown(r) \/ TidyRun(r)
             \/ HangUp(r) \/ CrashRun(r)
      PROVE  InvocationsOK'
  BY <1>19 DEF Source, RemoveSourced, Boot, Own, Dial, Unlink, Listen, AgentEnds, Close,
    Disown, TidyRun, HangUp, CrashRun
<1>20. CASE UNCHANGED vars
  BY <1>20 DEF vars
<1> QED
  BY <1>1, <1>2, <1>3, <1>4, <1>5, <1>6, <1>7, <1>8, <1>9, <1>10, <1>11, <1>12, <1>13,
    <1>14, <1>15, <1>16, <1>17, <1>18, <1>19, <1>20 DEF Next, StartStep, KillStep,
    RunStep

\* shpool and what it runs; Listed says that no run is there when a new one is made.
LEMMA RunsStep == ASSUME TypeOK, Listed, [Next]_vars PROVE RunsOK'
<1>0. RunsOK
  BY DEF TypeOK
<1>1. ASSUME NEW p \in Starts, Attach(p) PROVE RunsOK'
  <2>1. CASE UNCHANGED <<session, by, phase>>
    BY <1>0, <1>1, <2>1 DEF Attach, RunsOK
  <2>2. ASSUME NEW r \in Runs, phase[r] = "off", session' = r,
               by' = [by EXCEPT ![r] = p], Become(r, "source")
        PROVE  RunsOK'
    <3>1. r \notin hup
      BY <2>2 DEF Listed
    <3> QED
      BY <1>0, <1>1, <2>2, <3>1 DEF Attach, Become, RunsOK, Phases
  <2> QED
    BY <1>1, <2>1, <2>2 DEF Attach
<1>2. ASSUME NEW k \in Kills, Kill(k) PROVE RunsOK'
  BY <1>0, <1>2, KillType DEF Kill, RunsOK
<1>3. ASSUME NEW r \in Runs, Source(r) PROVE RunsOK'
  <2>1. Exit(r) \/ (Become(r, "remove") /\ UNCHANGED session)
    BY <1>3 DEF Source
  <2>2. env' \in [Runs -> Starts \cup {None}]
    BY <1>0, <1>3 DEF Source, RunsOK, FilesOK, TypeOK
  <2>3. CASE Exit(r)
    BY <1>0, <1>3, <2>2, <2>3, ExitType DEF Source, RunsOK
  <2>4. CASE Become(r, "remove") /\ UNCHANGED session
    BY <1>0, <1>3, <2>2, <2>4 DEF Source, Become, RunsOK, Phases
  <2> QED
    BY <2>1, <2>3, <2>4
<1>4. ASSUME NEW r \in Runs, Listen(r) PROVE RunsOK'
  <2>1. Become(r, "serve") \/ Become(r, "disown")
    BY <1>4 DEF Listen
  <2> QED
    BY <1>0, <1>4, <2>1 DEF Listen, Become, RunsOK, Phases
<1>5. ASSUME NEW p \in Starts,
             \/ Look(p) \/ WriteFails(p) \/ Reserve(p) \/ Register(p)
             \/ WriteSnapshot(p) \/ AttachFails(p)
             \/ Capture(p) \/ NotReady(p) \/ Finalize(p) \/ Tidy(p) \/ Drop(p)
             \/ Interrupt(p) \/ Die(p) \/ Crash(p)
      PROVE  RunsOK'
  BY <1>5, <1>0 DEF Look, WriteFails, Reserve, Register, WriteSnapshot, AttachFails,
    Capture, NotReady,
    Finalize, Tidy, Drop, Interrupt, Die, Crash, shared, runs, RunsOK
<1>6. ASSUME NEW k \in Kills, List(k) \/ Forget(k) PROVE RunsOK'
  BY <1>6, <1>0 DEF List, Forget, shared, runs, RunsOK
<1>7. ASSUME NEW p \in Starts, Undo(p) PROVE RunsOK'
  <2>1. KillSession \/ UNCHANGED <<session, hup, phase>>
    BY <1>7 DEF Undo
  <2> QED
    BY <1>0, <1>7, <2>1, KillType DEF Undo, RunsOK
<1>8. ASSUME NEW r \in Runs,
             \/ RemoveSourced(r) \/ Boot(r) \/ Own(r) \/ Dial(r) \/ Unlink(r)
             \/ AgentEnds(r)
             \/ Close(r) \/ Disown(r)
      PROVE  RunsOK'
  <2>1. \E step \in Phases \ {"off", "gone"} : Become(r, step)
    BY <1>8 DEF RemoveSourced, Boot, Own, Dial, Unlink, AgentEnds, Close, Disown, Phases
  <2>2. UNCHANGED <<session, by, env, hup>> /\ crowded' \subseteq Runs
    BY <1>0, <1>8 DEF RemoveSourced, Boot, Own, Dial, Unlink, AgentEnds, Close, Disown,
      shared,
      RunsOK
  <2> QED
    BY <1>0, <2>1, <2>2 DEF Become, RunsOK
<1>9. ASSUME NEW r \in Runs, TidyRun(r) \/ HangUp(r) \/ CrashRun(r) PROVE RunsOK'
  <2>1. Exit(r) /\ UNCHANGED <<by, env, hup, crowded>>
    BY <1>9 DEF TidyRun, HangUp, CrashRun
  <2> QED
    BY <1>0, <2>1, ExitType DEF RunsOK
<1>10. CASE UNCHANGED vars
  BY <1>10, <1>0 DEF vars, shared, runs, RunsOK
<1> QED
  BY <1>1, <1>2, <1>3, <1>4, <1>5, <1>6, <1>7, <1>8, <1>9, <1>10 DEF Next, StartStep,
    KillStep, RunStep

\* The histories and the bounds.
LEMMA FaultsStep == ASSUME TypeOK, [Next]_vars PROVE FaultsOK'
<1>0. FaultsOK /\ FilesOK
  BY DEF TypeOK
<1>1. ASSUME NEW p \in Starts, Interrupt(p) PROVE FaultsOK'
  <2>1. mishaps' \in 0..MaxFaults
    <3>1. mishaps \in 0..MaxFaults /\ mishaps < MaxFaults
      BY <1>0, <1>1 DEF Interrupt, FaultsOK
    <3>2. mishaps + 1 \in 0..MaxFaults
      BY <3>1, BoundsAssumption
    <3> QED
      BY <1>0, <1>1, <3>2 DEF Interrupt, FaultsOK
  <2> QED
    BY <1>0, <1>1, <2>1 DEF Interrupt, FaultsOK
<1>2. ASSUME NEW p \in Starts, Crash(p) PROVE FaultsOK'
  <2>1. mishaps' \in 0..MaxFaults
    <3>1. mishaps \in 0..MaxFaults /\ mishaps < MaxFaults
      BY <1>0, <1>2 DEF Crash, FaultsOK
    <3>2. mishaps + 1 \in 0..MaxFaults
      BY <3>1, BoundsAssumption
    <3> QED
      BY <1>0, <1>2, <3>2 DEF Crash, FaultsOK
  <2> QED
    BY <1>0, <1>2, <2>1 DEF Crash, FaultsOK
<1>3. ASSUME NEW k \in Kills, Forget(k) PROVE FaultsOK'
  BY <1>0, <1>3 DEF Forget, FaultsOK, FilesOK
<1>4. ASSUME NEW r \in Runs, Boot(r) PROVE FaultsOK'
  BY <1>0, <1>4 DEF Boot, FaultsOK, FilesOK
<1>a. ASSUME NEW r \in Runs, Disown(r) PROVE FaultsOK'
  BY <1>0, <1>a DEF Disown, FaultsOK, FilesOK
<1>b. ASSUME NEW p \in Starts, Reserve(p) PROVE FaultsOK'
  BY <1>0, <1>b DEF Reserve, Take, FaultsOK
<1>5. ASSUME NEW r \in Runs, CrashRun(r) PROVE FaultsOK'
  <2>1. mishaps' \in 0..MaxFaults
    <3>1. mishaps \in 0..MaxFaults /\ mishaps < MaxFaults
      BY <1>0, <1>5 DEF CrashRun, FaultsOK
    <3>2. mishaps + 1 \in 0..MaxFaults
      BY <3>1, BoundsAssumption
    <3> QED
      BY <1>0, <1>5, <3>2 DEF CrashRun, FaultsOK
  <2> QED
    BY <1>0, <1>5, <2>1 DEF CrashRun, FaultsOK
<1>6. ASSUME NEW p \in Starts,
             \/ Look(p) \/ WriteFails(p) \/ Register(p) \/ WriteSnapshot(p) \/ Attach(p)
             \/ AttachFails(p) \/ Capture(p) \/ NotReady(p) \/ Finalize(p)
             \/ Tidy(p) \/ Undo(p) \/ Drop(p) \/ Die(p)
      PROVE  FaultsOK'
  BY <1>6, <1>0 DEF Look, WriteFails, Register, WriteSnapshot, Attach, AttachFails, Capture,
    NotReady, Finalize, Tidy, Undo, Drop, Die, faults, FaultsOK
<1>7. ASSUME NEW k \in Kills, List(k) \/ Kill(k) PROVE FaultsOK'
  BY <1>7, <1>0 DEF List, Kill, faults, FaultsOK
<1>8. ASSUME NEW r \in Runs,
             \/ Source(r) \/ RemoveSourced(r) \/ Own(r) \/ Dial(r) \/ Unlink(r) \/ Listen(r)
             \/ AgentEnds(r) \/ Close(r) \/ TidyRun(r) \/ HangUp(r)
      PROVE  FaultsOK'
  BY <1>8, <1>0 DEF Source, RemoveSourced, Own, Dial, Unlink, Listen, AgentEnds, Close,
    TidyRun, HangUp, faults, FaultsOK
<1>9. CASE UNCHANGED vars
  BY <1>9, <1>0 DEF vars, faults, FaultsOK
<1> QED
  BY <1>a, <1>b, <1>1, <1>2, <1>3, <1>4, <1>5, <1>6, <1>7, <1>8, <1>9 DEF Next, StartStep,
    KillStep,
    RunStep

\* shpool lists nobody after a kill; the killed run is marked or, if it is still the
\* shell, over.
LEMMA KillListed == ASSUME TypeOK, Listed, KillSession PROVE Listed'
<1>1. phase \in [Runs -> Phases] /\ hup \subseteq Runs /\ session \in Runs \cup {None}
  BY DEF TypeOK, RunsOK
<1>2. session # None => phase[session] # "off"
  BY DEF TypeOK, RunsOK
<1>3. CASE session = None
  BY <1>1, <1>3 DEF KillSession, Listed, Live
<1>4. CASE session # None
  BY <1>1, <1>2, <1>4 DEF KillSession, Listed, Live
<1> QED
  BY <1>3, <1>4

\* A run that was killed had been made.
LEMMA Hung == ASSUME Listed, NEW r \in Runs, r \in hup PROVE phase[r] # "off"
  BY DEF Listed

\* A new run is made while no session is listed, and what takes a session off the
\* list ends or kills its run.
LEMMA ListedStep ==
  ASSUME TypeOK, Listed, [Next]_vars
  PROVE  Listed'
<1>0. phase \in [Runs -> Phases] /\ hup \subseteq Runs /\ session \in Runs \cup {None}
  BY DEF TypeOK, RunsOK
<1>1. ASSUME NEW p \in Starts, Attach(p) PROVE Listed'
  <2>1. CASE UNCHANGED <<session, by, phase>>
    BY <1>1, <2>1 DEF Attach, Listed, Live
  <2>2. ASSUME NEW r \in Runs, session = None, phase[r] = "off", session' = r,
               Become(r, "source")
        PROVE  Listed'
    <3>1. hup' = hup
      BY <1>1 DEF Attach
    <3> QED
      BY <1>0, <2>2, <3>1, ProcsAssumption DEF Become, Listed, Live
  <2> QED
    BY <1>1, <2>1, <2>2 DEF Attach
<1>2. ASSUME NEW k \in Kills, Kill(k) PROVE Listed'
  BY <1>2, KillListed DEF Kill
<1>3. ASSUME NEW r \in Runs, Source(r) PROVE Listed'
  <2>1. hup' = hup /\ phase[r] = "source"
    BY <1>3 DEF Source
  <2>2. CASE Exit(r)
    BY <1>0, <2>1, <2>2 DEF Exit, Become, Listed, Live
  <2>3. CASE Become(r, "remove") /\ UNCHANGED session
    BY <1>0, <2>1, <2>3 DEF Become, Listed, Live
  <2> QED
    BY <1>3, <2>2, <2>3 DEF Source
<1>4. ASSUME NEW r \in Runs, Listen(r) PROVE Listed'
  <2>1. Become(r, "serve") \/ Become(r, "disown")
    BY <1>4 DEF Listen
  <2> QED
    BY <1>0, <1>4, <2>1 DEF Listen, Become, Listed, Live
<1>5. ASSUME NEW p \in Starts,
             \/ Look(p) \/ WriteFails(p) \/ Reserve(p) \/ Register(p)
             \/ WriteSnapshot(p) \/ AttachFails(p)
             \/ Capture(p) \/ NotReady(p) \/ Finalize(p) \/ Tidy(p) \/ Drop(p)
             \/ Interrupt(p) \/ Die(p) \/ Crash(p)
      PROVE  Listed'
  BY <1>5 DEF Look, WriteFails, Reserve, Register, WriteSnapshot, AttachFails, Capture,
    NotReady,
    Finalize, Tidy, Drop, Interrupt, Die, Crash, shared, runs, Listed, Live
<1>6. ASSUME NEW k \in Kills, List(k) \/ Forget(k) PROVE Listed'
  BY <1>6 DEF List, Forget, shared, runs, Listed, Live
<1>7. ASSUME NEW p \in Starts, Undo(p) PROVE Listed'
  <2>1. KillSession \/ UNCHANGED <<session, hup, phase>>
    BY <1>7 DEF Undo
  <2> QED
    BY <1>0, <2>1, KillListed DEF Listed, Live
<1>8. ASSUME NEW r \in Runs,
             \/ RemoveSourced(r) \/ Boot(r) \/ Own(r) \/ Dial(r) \/ Unlink(r)
             \/ AgentEnds(r)
             \/ Close(r) \/ Disown(r)
      PROVE  Listed'
  <2>1. \E step \in Phases \ {"off", "source", "remove", "gone"} : Become(r, step)
    BY <1>8 DEF RemoveSourced, Boot, Own, Dial, Unlink, AgentEnds, Close, Disown, Phases
  <2>2. UNCHANGED <<session, hup>> /\ Live(r)
    BY <1>8 DEF RemoveSourced, Boot, Own, Dial, Unlink, AgentEnds, Close, Disown, shared,
      Live
  <2> QED
    BY <1>0, <2>1, <2>2 DEF Become, Listed, Live
<1>9. ASSUME NEW r \in Runs, TidyRun(r) \/ HangUp(r) \/ CrashRun(r) PROVE Listed'
  <2>1. Exit(r) /\ UNCHANGED hup
    BY <1>9 DEF TidyRun, HangUp, CrashRun
  <2> QED
    BY <1>0, <2>1 DEF Exit, Become, Listed, Live
<1>10. CASE UNCHANGED vars
  BY <1>10 DEF vars, shared, runs, Listed, Live
<1> QED
  BY <1>1, <1>2, <1>3, <1>4, <1>5, <1>6, <1>7, <1>8, <1>9, <1>10 DEF Next, StartStep,
    KillStep, RunStep

\* A run is made by a start that goes on from its attach, and reads the file once.
LEMMA MadeStep ==
  ASSUME TypeOK, Listed, Made, [Next]_vars
  PROVE  Made'
<1>0. /\ phase \in [Runs -> Phases] /\ by \in [Runs -> Starts \cup {None}]
      /\ env \in [Runs -> Starts \cup {None}] /\ pc \in [Procs -> CliPcs]
      /\ Starts \subseteq Procs /\ Kills \subseteq Procs /\ Starts \cap Kills = {}
  BY ProcsAssumption DEF TypeOK, RunsOK, InvocationsOK, Procs
\* Enough for an invocation that makes no run.
<1>a. ASSUME UNCHANGED <<phase, by, env>>,
             \A q \in Starts : pc[q] \notin Writing \cup Reserving
                                 => pc'[q] \notin Writing \cup Reserving
      PROVE  Made'
  BY <1>a DEF Made
\* Enough for a run that goes on.
<1>b. ASSUME UNCHANGED <<pc, by>>, NEW r \in Runs, phase[r] # "off",
             env' = env \/ (phase[r] = "source" /\ \E e : env' = [env EXCEPT ![r] = e]),
             \E step \in Phases \ {"off", "source"} : Become(r, step)
      PROVE  Made'
  BY <1>0, <1>b DEF Made, Become
<1>1. ASSUME NEW p \in Starts, Attach(p) PROVE Made'
  <2>1. pc[p] \in Writing /\ (Goto(p, "ready") \/ Goto(p, "giveup") \/ Goto(p, "done"))
    BY <1>1 DEF Attach, Writing
  <2>2. env' = env /\ pc'[p] \notin Writing \cup Reserving
        /\ \A q \in Starts : q # p => pc'[q] = pc[q]
    BY <1>0, <1>1, <2>1 DEF Attach, Goto, Writing, Reserving
  <2>3. CASE UNCHANGED <<session, by, phase>>
    BY <1>0, <2>2, <2>3 DEF Made
  <2>4. ASSUME NEW r \in Runs, phase[r] = "off", by' = [by EXCEPT ![r] = p],
               Become(r, "source")
        PROVE  Made'
    <3>1. \A s \in Runs : phase[s] # "off" => by[s] # p
      BY <2>1 DEF Made
    <3>2. \A s \in Runs : s # r => phase'[s] = phase[s] /\ by'[s] = by[s]
      BY <1>0, <2>4 DEF Become
    <3>3. by'[r] = p
      BY <1>0, <2>4
    <3> QED
      BY <1>0, <2>2, <2>4, <3>1, <3>2, <3>3 DEF Made
  <2> QED
    BY <1>1, <2>3, <2>4 DEF Attach
<1>2. ASSUME NEW p \in Starts, Undo(p) PROVE Made'
  <2>1. KillSession \/ UNCHANGED <<session, hup, phase>>
    BY <1>2 DEF Undo
  <2>2. UNCHANGED <<by, env>> /\ (Goto(p, "drop") \/ Goto(p, "done"))
    BY <1>2 DEF Undo
  <2>3. \A q \in Starts : pc[q] \notin Writing \cup Reserving
                            => pc'[q] \notin Writing \cup Reserving
    BY <1>0, <2>2 DEF Goto, Writing, Reserving
  <2>4. \A r \in Runs : /\ phase'[r] # "off" => phase[r] # "off"
                        /\ phase'[r] \in {"off", "source"} => phase[r] \in {"off", "source"}
    BY <1>0, <2>1 DEF KillSession
  <2> QED
    BY <2>2, <2>3, <2>4 DEF Made
<1>3. ASSUME NEW k \in Kills, Kill(k) PROVE Made'
  <2>1. KillSession /\ UNCHANGED <<by, env>>
    BY <1>3 DEF Kill
  <2>3. \A q \in Starts : pc'[q] = pc[q]
    BY <1>0, <1>3 DEF Kill, Goto
  <2>4. \A r \in Runs : /\ phase'[r] # "off" => phase[r] # "off"
                        /\ phase'[r] \in {"off", "source"} => phase[r] \in {"off", "source"}
    BY <1>0, <2>1 DEF KillSession
  <2> QED
    BY <2>1, <2>3, <2>4 DEF Made
<1>4. ASSUME NEW r \in Runs, Source(r) PROVE Made'
  <2>1. UNCHANGED <<pc, by>> /\ phase[r] = "source" /\ env' = [env EXCEPT ![r] = snapshot]
    BY <1>4 DEF Source, invocations
  <2>2. Become(r, "gone") \/ Become(r, "remove")
    BY <1>4 DEF Source, Exit
  <2> QED
    BY <1>b, <2>1, <2>2 DEF Phases
<1>5. ASSUME NEW r \in Runs, Listen(r) PROVE Made'
  <2>1. Become(r, "serve") \/ Become(r, "disown")
    BY <1>5 DEF Listen
  <2>2. UNCHANGED <<pc, by, env>> /\ phase[r] = "listen"
    BY <1>5 DEF Listen, invocations
  <2> QED
    BY <1>b, <2>1, <2>2 DEF Phases
<1>6. ASSUME NEW p \in Starts,
             \/ Register(p) \/ WriteFails(p) \/ WriteSnapshot(p) \/ AttachFails(p)
             \/ Capture(p)
             \/ Tidy(p) \/ Drop(p) \/ Die(p) \/ Crash(p)
      PROVE  Made'
  <2>1. UNCHANGED <<phase, by, env>>
    BY <1>6 DEF Register, WriteFails, WriteSnapshot, AttachFails, Capture, Tidy, Drop, Die,
      Crash, runs
  <2>2. \E step \in CliPcs : Goto(p, step) /\ (step \in Writing => pc[p] \in Writing)
                             /\ step \notin Reserving
    BY <1>6 DEF Register, WriteFails, WriteSnapshot, AttachFails, Capture, Tidy, Drop, Die,
      Crash, Ends, CliPcs, Writing, Reserving
  <2> QED
    BY <1>0, <1>a, <2>1, <2>2 DEF Goto, Writing, Reserving
<1>7. ASSUME NEW p \in Starts, Reserve(p) \/ NotReady(p) \/ Finalize(p) PROVE Made'
  <2>1. UNCHANGED <<phase, by, env>>
    BY <1>7 DEF Reserve, NotReady, Finalize, runs
  <2>2. \E step \in CliPcs : Goto(p, step) /\ (step \in Writing => pc[p] = "reserve")
                             /\ step \notin Reserving
    BY <1>7 DEF Reserve, Take, NotReady, Finalize, CliPcs, Writing, Reserving
  <2> QED
    BY <1>0, <1>a, <2>1, <2>2 DEF Goto, Writing, Reserving
<1>c. ASSUME NEW p \in Starts, Look(p) PROVE Made'
  <2>1. UNCHANGED <<phase, by, env>> /\ pc[p] = "look" /\ \E step \in CliPcs : Goto(p, step)
    BY <1>c DEF Look, runs, CliPcs
  <2> QED
    BY <1>0, <1>a, <2>1 DEF Goto, Writing, Reserving
<1>8. ASSUME NEW p \in Starts, Interrupt(p) PROVE Made'
  BY <1>8, <1>a DEF Interrupt, runs
<1>9. ASSUME NEW k \in Kills, List(k) \/ Forget(k) PROVE Made'
  <2>1. UNCHANGED <<phase, by, env>> /\ \E step \in CliPcs : Goto(k, step)
    BY <1>9 DEF List, Forget, runs, CliPcs
  <2> QED
    BY <1>0, <1>a, <2>1 DEF Goto
<1>10. ASSUME NEW r \in Runs,
             \/ RemoveSourced(r) \/ Boot(r) \/ Own(r) \/ Dial(r) \/ Unlink(r)
             \/ AgentEnds(r)
             \/ Close(r) \/ Disown(r) \/ TidyRun(r) \/ HangUp(r) \/ CrashRun(r)
      PROVE  Made'
  <2>1. UNCHANGED <<pc, by, env>>
    BY <1>10 DEF RemoveSourced, Boot, Own, Dial, Unlink, AgentEnds, Close, Disown, TidyRun,
      HangUp,
      CrashRun, invocations
  <2>2. \E step \in Phases \ {"off", "source"} : Become(r, step)
    BY <1>10 DEF RemoveSourced, Boot, Own, Dial, Unlink, AgentEnds, Close, Disown, TidyRun,
      HangUp,
      CrashRun, Exit, Phases
  <2>3. phase[r] # "off"
    BY <1>10, Hung DEF RemoveSourced, Boot, Own, Dial, Unlink, AgentEnds, Close, Disown,
      TidyRun,
      HangUp, CrashRun
  <2> QED
    BY <1>b, <2>1, <2>2, <2>3
<1>11. CASE UNCHANGED vars
  BY <1>11 DEF vars, Made, runs
<1> QED
  BY <1>c, <1>1, <1>2, <1>3, <1>4, <1>5, <1>6, <1>7, <1>8, <1>9, <1>10, <1>11 DEF Next,
    StartStep, KillStep, RunStep

\* The lock keeps everybody else out between a look and a reservation, and between a
\* kill and the drop that follows it.
LEMMA ExclusiveStep ==
  ASSUME TypeOK, Exclusive, [Next]_vars
  PROVE  Exclusive'
<1>0. /\ pc \in [Procs -> CliPcs] /\ Starts \subseteq Procs /\ Starts \cap Kills = {}
      /\ Kills \subseteq Procs
  BY ProcsAssumption DEF TypeOK, InvocationsOK, Procs
<1> DEFINE Locking == {"reserve", "drop"}
\* Enough for a step of somebody who does not take the lock.
<1>a. ASSUME NEW p \in Procs, pc' = pc \/ \E step \in CliPcs \ Locking : Goto(p, step)
      PROVE  Exclusive'
  BY <1>0, <1>a DEF Goto, Exclusive
\* Who takes it finds it free.
<1>b. ASSUME NEW p \in Starts, Unlocked, \E step \in CliPcs : Goto(p, step)
      PROVE  Exclusive'
  BY <1>0, <1>b DEF Goto, Exclusive, Unlocked
<1>1. ASSUME NEW p \in Starts, Look(p) \/ Undo(p) PROVE Exclusive'
  BY <1>b, <1>1 DEF Look, Undo, CliPcs
<1>2. ASSUME NEW p \in Starts,
             \/ Reserve(p) \/ Register(p) \/ WriteFails(p) \/ WriteSnapshot(p) \/ Attach(p)
             \/ AttachFails(p) \/ Capture(p) \/ NotReady(p) \/ Finalize(p) \/ Tidy(p)
             \/ Drop(p) \/ Interrupt(p) \/ Die(p) \/ Crash(p)
      PROVE  Exclusive'
  <2>1. pc' = pc \/ \E step \in CliPcs \ Locking : Goto(p, step)
    BY <1>2 DEF Reserve, Take, Register, WriteFails, WriteSnapshot, Attach, AttachFails,
      Capture, NotReady, Finalize, Tidy, Drop, Interrupt, Die, Crash, Ends, CliPcs
  <2> QED
    BY <1>0, <1>a, <2>1
<1>3. ASSUME NEW k \in Kills, List(k) \/ Kill(k) \/ Forget(k) PROVE Exclusive'
  <2>1. \E step \in CliPcs \ Locking : Goto(k, step)
    BY <1>3 DEF List, Kill, Forget, CliPcs
  <2> QED
    BY <1>0, <1>a, <2>1
<1>4. ASSUME NEW r \in Runs, RunStep(r) PROVE Exclusive'
  <2>1. pc' = pc
    BY <1>4 DEF RunStep, Source, RemoveSourced, Boot, Own, Dial, Unlink, Listen, AgentEnds,
      Close, Disown, TidyRun, HangUp, CrashRun, invocations
  <2> QED
    BY <2>1 DEF Exclusive
<1>5. CASE UNCHANGED vars
  BY <1>5 DEF vars, Exclusive
<1> QED
  BY <1>1, <1>2, <1>3, <1>4, <1>5 DEF Next, StartStep, KillStep

\* A reservation ends in the row only by its own start, or is displaced.
LEMMA ReservedStep ==
  ASSUME TypeOK, Made, Reserved, [Next]_vars
  PROVE  Reserved'
<1>0. /\ pc \in [Procs -> CliPcs] /\ Starts \subseteq Procs /\ Starts \cap Kills = {}
      /\ Kills \subseteq Procs /\ None \notin Starts \cup Runs
      /\ row.starting => row.token \in Starts
  BY ProcsAssumption DEF TypeOK, FilesOK, InvocationsOK, Procs
<1>a. row \in [starting : BOOLEAN, token : Starts \cup {None}, runner : Runs \cup {None}]
  BY DEF TypeOK, FilesOK
\* Enough for a step that leaves the reservation alone.
<1>b. ASSUME UNCHANGED <<row, displaced>>,
             \A q \in Starts : pc'[q] \in Writing => pc[q] \in Writing
      PROVE  Reserved'
  BY <1>b DEF Reserved
<1>1. ASSUME NEW p \in Starts, Reserve(p) PROVE Reserved'
  <2>1. CASE UNCHANGED row /\ Goto(p, "done")
    BY <1>0, <1>b, <1>1, <2>1 DEF Reserve, Goto, faults, Writing
  <2>2. CASE ~row.starting /\ row' = [starting |-> TRUE, token |-> p, runner |-> None]
               /\ Goto(p, "register")
    BY <1>0, <1>1, <2>2 DEF Reserve, Goto, Reserved, Writing
  <2> QED
    BY <1>1, <2>1, <2>2 DEF Reserve, Take
<1>2. ASSUME NEW p \in Starts, Finalize(p) PROVE Reserved'
  <2>1. CASE row.token = p
    <3>1. pc[p] \notin Writing /\ displaced' = displaced /\ Goto(p, "tidy")
          /\ row' = [row EXCEPT !.starting = FALSE, !.token = None]
      BY <1>2, <2>1 DEF Finalize, faults, Writing
    <3> QED
      BY <1>0, <1>a, <2>1, <3>1 DEF Goto, Reserved, Writing
  <2>2. CASE row.token # p
    BY <1>0, <1>b, <1>2, <2>2 DEF Finalize, Goto, faults, Writing
  <2> QED
    BY <2>1, <2>2
<1>3. ASSUME NEW p \in Starts, Drop(p) PROVE Reserved'
  <2>1. pc[p] \notin Writing /\ displaced' = displaced /\ Goto(p, "done")
    BY <1>3 DEF Drop, faults, Writing
  <2>2. row' = IF row.token = p THEN NoRow ELSE row
    BY <1>3 DEF Drop
  <2> QED
    BY <1>0, <2>1, <2>2 DEF Goto, Reserved, Writing, NoRow
<1>4. ASSUME NEW k \in Kills, Forget(k) PROVE Reserved'
  <2>1. /\ row' = NoRow /\ Goto(k, "done")
        /\ displaced' = IF row.starting THEN displaced \cup {row.token} ELSE displaced
    BY <1>4 DEF Forget
  <2> QED
    BY <1>0, <2>1 DEF Goto, Reserved, NoRow
<1>5. ASSUME NEW r \in Runs, Boot(r) PROVE Reserved'
  <2>1. /\ row' = [row EXCEPT !.starting = FALSE] /\ pc' = pc
        /\ displaced' = IF row.starting /\ row.token # by[r] THEN displaced \cup {row.token}
                                                             ELSE displaced
        /\ pc[by[r]] \notin Writing
    BY <1>5 DEF Boot, invocations, Made
  <2> QED
    BY <1>0, <1>a, <2>1 DEF Reserved
<1>6. ASSUME NEW r \in Runs, Disown(r) PROVE Reserved'
  <2>1. CASE UNCHANGED <<row, displaced>>
    BY <1>6, <1>b, <2>1 DEF Disown, invocations
  <2>2. CASE /\ row' = NoRow
             /\ displaced' = IF row.starting THEN displaced \cup {row.token} ELSE displaced
    BY <1>0, <1>6, <2>2 DEF Disown, invocations, Reserved, NoRow
  <2> QED
    BY <1>6, <2>1, <2>2 DEF Disown
<1>7. ASSUME NEW p \in Starts,
             \/ Look(p) \/ WriteFails(p) \/ Register(p) \/ WriteSnapshot(p)
             \/ AttachFails(p) \/ Attach(p)
             \/ Capture(p) \/ NotReady(p) \/ Tidy(p) \/ Undo(p) \/ Interrupt(p)
             \/ Die(p) \/ Crash(p)
      PROVE  Reserved'
  <2>1. UNCHANGED <<row, displaced>>
    BY <1>7 DEF Look, WriteFails, Register, WriteSnapshot, AttachFails, Attach, Capture,
      NotReady, Tidy, Undo, Interrupt, Die, Crash, shared, faults
  <2>2. pc' = pc \/ \E step \in CliPcs : Goto(p, step)
                                      /\ (step \in Writing => pc[p] \in Writing)
    BY <1>7 DEF Look, WriteFails, Register, WriteSnapshot, AttachFails, Attach, Capture,
      NotReady, Tidy, Undo, Interrupt, Die, Crash, Ends, CliPcs, Writing
  <2> QED
    BY <1>0, <1>b, <2>1, <2>2 DEF Goto
<1>8. ASSUME NEW k \in Kills, List(k) \/ Kill(k) PROVE Reserved'
  <2>1. UNCHANGED <<row, displaced>> /\ \E step \in CliPcs : Goto(k, step)
    BY <1>8 DEF List, Kill, shared, faults, CliPcs
  <2> QED
    BY <1>0, <1>b, <2>1 DEF Goto
<1>9. ASSUME NEW r \in Runs,
             \/ Source(r) \/ RemoveSourced(r) \/ Dial(r) \/ Unlink(r) \/ Listen(r)
             \/ AgentEnds(r) \/ Close(r) \/ TidyRun(r) \/ HangUp(r) \/ CrashRun(r)
      PROVE  Reserved'
  <2>1. UNCHANGED <<row, displaced, pc>>
    BY <1>9 DEF Source, RemoveSourced, Dial, Unlink, Listen, AgentEnds, Close, TidyRun,
      HangUp, CrashRun, shared, faults, invocations
  <2> QED
    BY <1>b, <2>1
<1>10. ASSUME NEW r \in Runs, Own(r) PROVE Reserved'
  <2>1. row' = [row EXCEPT !.runner = r] /\ UNCHANGED <<displaced, pc>>
    BY <1>10 DEF Own, faults, invocations
  <2> QED
    BY <1>a, <2>1 DEF Reserved
<1>11. CASE UNCHANGED vars
  BY <1>11 DEF vars, Reserved
<1> QED
  BY <1>1, <1>2, <1>3, <1>4, <1>5, <1>6, <1>7, <1>8, <1>9, <1>10, <1>11 DEF Next,
    StartStep, KillStep, RunStep

\* What goes live while a start is about to reserve does so under a reservation that
\* only its own runner, or somebody who displaces it, takes from the row.
LEMMA LookedStep ==
  ASSUME TypeOK, Listed, Made, Exclusive, Reserved, Looked, [Next]_vars
  PROVE  Looked'
<1> DEFINE Early == {"source", "remove", "boot"}
<1>0. /\ pc \in [Procs -> CliPcs] /\ Starts \subseteq Procs /\ Starts \cap Kills = {}
      /\ Kills \subseteq Procs /\ None \notin Starts \cup Runs
      /\ phase \in [Runs -> Phases] /\ by \in [Runs -> Starts \cup {None}]
      /\ session \in Runs \cup {None} /\ (session # None => phase[session] # "off")
      /\ row \in [starting : BOOLEAN, token : Starts \cup {None}, runner : Runs \cup {None}]
  BY ProcsAssumption DEF TypeOK, FilesOK, RunsOK, InvocationsOK, Procs
\* Enough for a step that makes no session and ends no reservation.
<1>a. ASSUME session' \in {session, None}, displaced \subseteq displaced',
             row'.starting = row.starting, row'.token = row.token,
             \A q \in Starts : pc'[q] = "reserve" => pc[q] = "reserve",
             \A r \in Runs : phase'[r] \in Early => phase[r] \in Early /\ by'[r] = by[r]
      PROVE  Looked'
  BY <1>0, <1>a DEF Looked
\* What a run that goes on leaves of this.
<1>b. ASSUME NEW r \in Runs, by' = by,
             \E step \in Phases : Become(r, step) /\ (step \in Early => phase[r] \in Early)
      PROVE  \A q \in Runs : phase'[q] \in Early => phase[q] \in Early /\ by'[q] = by[q]
  BY <1>0, <1>b DEF Become
<1>1. ASSUME NEW p \in Starts, Look(p) PROVE Looked'
  <2>1. UNCHANGED <<row, session, displaced, phase, by>>
    BY <1>1 DEF Look, shared, runs, faults
  <2>2. CASE session = None
    BY <2>1, <2>2 DEF Looked
  <2>3. CASE session # None
    BY <1>0, <1>1, <1>a, <2>1, <2>3 DEF Look, Goto
  <2> QED
    BY <2>2, <2>3
<1>2. ASSUME NEW p \in Starts, Reserve(p) PROVE Looked'
  <2>1. pc[p] = "reserve" /\ (Goto(p, "register") \/ Goto(p, "done"))
    BY <1>2 DEF Reserve, Take
  <2>2. \A q \in Starts : pc'[q] # "reserve"
    BY <1>0, <2>1 DEF Exclusive, Goto
  <2> QED
    BY <2>2 DEF Looked
<1>3. ASSUME NEW p \in Starts, Attach(p) PROVE Looked'
  <2>1. /\ UNCHANGED <<row, displaced>> /\ pc[p] \in Writing
        /\ Goto(p, "ready") \/ Goto(p, "giveup") \/ Goto(p, "done")
    BY <1>3 DEF Attach, faults, Writing
  <2>2. \A q \in Starts : pc'[q] = "reserve" => pc[q] = "reserve"
    BY <1>0, <2>1 DEF Goto
  <2>3. CASE UNCHANGED <<session, by, phase>>
    BY <1>a, <2>1, <2>2, <2>3
  <2>4. ASSUME NEW r \in Runs, session' = r, by' = [by EXCEPT ![r] = p]
        PROVE  Looked'
    <3>1. by'[session'] = p
      BY <1>0, <2>4
    <3>2. p \in displaced \/ (row.starting /\ row.token = p)
      BY <2>1 DEF Reserved
    <3> QED
      BY <2>1, <3>1, <3>2 DEF Looked
  <2> QED
    BY <1>3, <2>3, <2>4 DEF Attach
<1>4. ASSUME NEW p \in Starts, Finalize(p) \/ Drop(p) PROVE Looked'
  <2>1. \A q \in Starts : pc[q] # "reserve"
    BY <1>4 DEF Finalize, Drop, Unlocked, Exclusive
  <2>2. Goto(p, "tidy") \/ Goto(p, "giveup") \/ Goto(p, "done")
    BY <1>4 DEF Finalize, Drop
  <2>3. \A q \in Starts : pc'[q] # "reserve"
    BY <1>0, <2>1, <2>2 DEF Goto
  <2> QED
    BY <2>3 DEF Looked
<1>5. ASSUME NEW k \in Kills, Forget(k) PROVE Looked'
  <2>1. /\ displaced' = IF row.starting THEN displaced \cup {row.token} ELSE displaced
        /\ UNCHANGED <<session, phase, by>>
        /\ \A q \in Starts : pc'[q] = pc[q]
    BY <1>0, <1>5 DEF Forget, runs, Goto
  <2> QED
    BY <2>1 DEF Looked
<1>6. ASSUME NEW r \in Runs, Boot(r) PROVE Looked'
  <2>1. /\ UNCHANGED <<session, by, pc>> /\ Become(r, "own") /\ phase[r] = "boot"
        /\ displaced' = IF row.starting /\ row.token # by[r] THEN displaced \cup {row.token}
                                                             ELSE displaced
    BY <1>6 DEF Boot, invocations
  <2>2. CASE session = r
    BY <1>0, <2>1, <2>2 DEF Become, Looked
  <2>3. CASE session # r /\ session # None
    <3>1. by[session] # by[r] /\ phase'[session] = phase[session]
      BY <1>0, <2>1, <2>3 DEF Made, Become
    <3> QED
      BY <2>1, <3>1 DEF Looked
  <2>4. CASE session = None
    BY <2>1, <2>4 DEF Looked
  <2> QED
    BY <2>2, <2>3, <2>4
<1>7. ASSUME NEW r \in Runs, Own(r) PROVE Looked'
  <2>1. /\ UNCHANGED <<session, by, pc, displaced>> /\ Become(r, "dial")
        /\ row' = [row EXCEPT !.runner = r]
    BY <1>7 DEF Own, invocations, faults
  <2>2. row'.starting = row.starting /\ row'.token = row.token
    BY <1>0, <2>1
  <2>3. \A q \in Runs : phase'[q] \in Early => phase[q] \in Early /\ by'[q] = by[q]
    BY <1>b, <2>1 DEF Phases
  <2> QED
    BY <1>a, <2>1, <2>2, <2>3
<1>8. ASSUME NEW r \in Runs, Disown(r) PROVE Looked'
  <2>1. UNCHANGED <<session, by, pc>> /\ Become(r, "tidy")
    BY <1>8 DEF Disown, invocations
  <2>2. CASE session = None
    BY <2>1, <2>2 DEF Looked
  <2>3. CASE session # None
    <3>1. UNCHANGED <<row, displaced>>
      BY <1>8, <2>3 DEF Disown
    <3>2. \A q \in Runs : phase'[q] \in Early => phase[q] \in Early /\ by'[q] = by[q]
      BY <1>b, <2>1 DEF Phases
    <3> QED
      BY <1>a, <2>1, <3>1, <3>2
  <2> QED
    BY <2>2, <2>3
<1>9. ASSUME NEW p \in Starts,
             \/ Register(p) \/ WriteFails(p) \/ WriteSnapshot(p) \/ AttachFails(p)
             \/ Capture(p) \/ NotReady(p) \/ Tidy(p) \/ Interrupt(p) \/ Die(p) \/ Crash(p)
      PROVE  Looked'
  <2>1. UNCHANGED <<row, session, displaced, phase, by>>
    BY <1>9 DEF Register, WriteFails, WriteSnapshot, AttachFails, Capture, NotReady, Tidy,
      Interrupt, Die, Crash, shared, runs, faults
  <2>2. pc' = pc \/ \E step \in CliPcs \ {"reserve"} : Goto(p, step)
    BY <1>9 DEF Register, WriteFails, WriteSnapshot, AttachFails, Capture, NotReady, Tidy,
      Interrupt, Die, Crash, Ends, CliPcs
  <2>3. \A q \in Starts : pc'[q] = "reserve" => pc[q] = "reserve"
    BY <1>0, <2>2 DEF Goto
  <2> QED
    BY <1>a, <2>1, <2>3
<1>10. ASSUME NEW p \in Starts, Undo(p) PROVE Looked'
  <2>1. UNCHANGED <<row, displaced, by>> /\ (Goto(p, "drop") \/ Goto(p, "done"))
    BY <1>10 DEF Undo, faults
  <2>2. \A q \in Starts : pc'[q] = "reserve" => pc[q] = "reserve"
    BY <1>0, <2>1 DEF Goto
  <2>3. session' = None \/ UNCHANGED <<session, phase>>
    BY <1>10 DEF Undo, KillSession
  <2> QED
    BY <1>a, <2>1, <2>2, <2>3 DEF Looked
<1>11. ASSUME NEW k \in Kills, List(k) \/ Kill(k) PROVE Looked'
  <2>1. UNCHANGED <<row, displaced, by>> /\ \A q \in Starts : pc'[q] = pc[q]
    BY <1>0, <1>11 DEF List, Kill, shared, runs, faults, Goto
  <2>2. session' = None \/ UNCHANGED <<session, phase>>
    BY <1>11 DEF List, Kill, KillSession, shared, runs
  <2> QED
    BY <1>a, <2>1, <2>2 DEF Looked
<1>12. ASSUME NEW r \in Runs,
             \/ Source(r) \/ RemoveSourced(r) \/ Dial(r) \/ Unlink(r) \/ Listen(r)
             \/ AgentEnds(r) \/ Close(r) \/ TidyRun(r) \/ HangUp(r) \/ CrashRun(r)
      PROVE  Looked'
  <2>1. UNCHANGED <<row, by, displaced, pc>> /\ session' \in {session, None}
    BY <1>12 DEF Source, RemoveSourced, Dial, Unlink, Listen, AgentEnds, Close, TidyRun,
      HangUp, CrashRun, Exit, shared, faults, invocations
  <2>2. \E step \in Phases : Become(r, step) /\ (step \in Early => phase[r] \in Early)
    BY <1>12 DEF Source, RemoveSourced, Dial, Unlink, Listen, AgentEnds, Close, TidyRun,
      HangUp, CrashRun, Exit, Phases
  <2>3. \A q \in Runs : phase'[q] \in Early => phase[q] \in Early /\ by'[q] = by[q]
    BY <1>b, <2>1, <2>2
  <2> QED
    BY <1>a, <2>1, <2>3
<1>13. CASE UNCHANGED vars
  BY <1>13 DEF vars, Looked
<1> QED
  BY <1>1, <1>2, <1>3, <1>4, <1>5, <1>6, <1>7, <1>8, <1>9, <1>10, <1>11, <1>12, <1>13
    DEF Next, StartStep, KillStep, RunStep

\* Between the rename of a start's snapshot and the read of its session nobody else
\* writes the file, unless one of the two starts was displaced.
LEMMA FreshStep ==
  ASSUME TypeOK, Listed, Made, Reserved, Looked, Fresh, [Next]_vars
  PROVE  Fresh'
<1> DEFINE Attaching == {"attach", "orphan"}
<1>0. /\ pc \in [Procs -> CliPcs] /\ Starts \subseteq Procs /\ Starts \cap Kills = {}
      /\ Kills \subseteq Procs /\ None \notin Starts \cup Runs
      /\ phase \in [Runs -> Phases] /\ by \in [Runs -> Starts \cup {None}]
      /\ hup \subseteq Runs
  BY ProcsAssumption DEF TypeOK, RunsOK, InvocationsOK, Procs
\* Enough for a step that writes nothing.
<1>a. ASSUME snapshot' \in {snapshot, None}, displaced \subseteq displaced',
             \A q \in Starts : /\ pc'[q] \in Writing => pc[q] \in Writing
                               /\ pc'[q] \in Attaching => pc[q] \in Attaching,
             \A r \in Runs : phase'[r] = "source" => phase[r] = "source" /\ by'[r] = by[r]
      PROVE  Fresh'
  BY <1>0, <1>a DEF Fresh
\* A run that has been made is past its shell or was there before.
<1>b. ASSUME NEW r \in Runs, phase[r] # "off", by' = by,
             \E step \in Phases \ {"source"} : Become(r, step)
      PROVE  \A q \in Runs : phase'[q] = "source" => phase[q] = "source" /\ by'[q] = by[q]
  BY <1>0, <1>b DEF Become
<1>1. ASSUME NEW p \in Starts, Reserve(p) PROVE Fresh'
  <2>1. UNCHANGED <<displaced, phase, by, snapshot>>
    BY <1>1 DEF Reserve, runs
  <2>2. CASE Goto(p, "done")
    BY <1>0, <1>a, <2>1, <2>2 DEF Goto, Writing
  <2>3. CASE ~row.starting /\ Goto(p, "register")
    <3>1. \A r \in Runs : phase[r] = "source" => by[r] \in displaced
      BY <1>0, <1>1, <2>3 DEF Listed, Live, Looked, Reserve
    <3> QED
      BY <1>0, <2>1, <2>3, <3>1 DEF Fresh, Goto
  <2> QED
    BY <1>1, <2>2, <2>3 DEF Reserve, Take
<1>2. ASSUME NEW p \in Starts, WriteSnapshot(p) PROVE Fresh'
  <2>1. /\ UNCHANGED <<displaced, phase, by>> /\ snapshot' = p
        /\ pc[p] = "write" /\ Goto(p, "attach")
    BY <1>2 DEF WriteSnapshot, runs
  <2>2. \A q \in Starts : q # p /\ pc[q] \in Writing /\ q \notin displaced => p \in displaced
    BY <2>1 DEF Reserved, Writing
  <2>3. \A r \in Runs : phase[r] = "source" /\ by[r] \notin displaced => p \in displaced
    BY <2>1 DEF Fresh, Writing
  <2> QED
    BY <1>0, <2>1, <2>2, <2>3 DEF Fresh, Goto, Writing
<1>3. ASSUME NEW p \in Starts, Attach(p) PROVE Fresh'
  <2>1. /\ UNCHANGED <<displaced, snapshot>> /\ pc[p] \in Attaching
        /\ Goto(p, "ready") \/ Goto(p, "giveup") \/ Goto(p, "done")
    BY <1>3 DEF Attach, faults
  <2>2. \A q \in Starts : /\ pc'[q] \in Writing => pc[q] \in Writing /\ q # p
                          /\ pc'[q] \in Attaching => pc[q] \in Attaching
    BY <1>0, <2>1 DEF Goto, Writing
  <2>3. CASE UNCHANGED <<session, by, phase>>
    BY <1>a, <2>1, <2>2, <2>3
  <2>4. ASSUME NEW r \in Runs, session = None, by' = [by EXCEPT ![r] = p],
               Become(r, "source")
        PROVE  Fresh'
    <3>1. \A q \in Runs : phase[q] # "source"
      BY <1>0, <2>4 DEF Listed, Live
    <3>2. \A q \in Runs : phase'[q] = "source" => q = r
      BY <1>0, <2>4, <3>1 DEF Become
    <3>3. p \notin displaced => \A q \in Starts \ displaced : pc'[q] \notin Writing
      BY <2>1, <2>2 DEF Reserved, Writing
    <3> QED
      BY <1>0, <2>1, <2>2, <2>4, <3>2, <3>3 DEF Fresh
  <2> QED
    BY <1>3, <2>3, <2>4 DEF Attach
<1>4. ASSUME NEW p \in Starts, Undo(p) PROVE Fresh'
  <2>1. UNCHANGED <<displaced, by, snapshot>> /\ (Goto(p, "drop") \/ Goto(p, "done"))
    BY <1>4 DEF Undo, faults
  <2>2. \A q \in Starts : /\ pc'[q] \in Writing => pc[q] \in Writing
                          /\ pc'[q] \in Attaching => pc[q] \in Attaching
    BY <1>0, <2>1 DEF Goto, Writing
  <2>3. \A q \in Runs : phase'[q] = "source" => phase[q] = "source"
    BY <1>0, <1>4 DEF Undo, KillSession
  <2> QED
    BY <1>a, <2>1, <2>2, <2>3
<1>5. ASSUME NEW k \in Kills, Kill(k) PROVE Fresh'
  <2>1. UNCHANGED <<displaced, by, snapshot>>
    BY <1>5 DEF Kill, faults
  <2>2. \A q \in Starts : pc'[q] = pc[q]
    BY <1>0, <1>5 DEF Kill, Goto
  <2>3. \A q \in Runs : phase'[q] = "source" => phase[q] = "source"
    BY <1>0, <1>5 DEF Kill, KillSession
  <2> QED
    BY <1>a, <2>1, <2>2, <2>3
<1>6. ASSUME NEW k \in Kills, List(k) \/ Forget(k) PROVE Fresh'
  <2>1. UNCHANGED <<phase, by, snapshot>> /\ displaced \subseteq displaced'
    BY <1>6 DEF List, Forget, faults, runs, shared
  <2>2. \A q \in Starts : pc'[q] = pc[q]
    BY <1>0, <1>6 DEF List, Forget, Goto
  <2> QED
    BY <1>a, <2>1, <2>2
<1>7. ASSUME NEW p \in Starts,
             \/ Look(p) \/ WriteFails(p) \/ Register(p) \/ AttachFails(p) \/ Capture(p)
             \/ NotReady(p)
             \/ Finalize(p) \/ Tidy(p) \/ Drop(p) \/ Interrupt(p)
             \/ Die(p) \/ Crash(p)
      PROVE  Fresh'
  <2>1. UNCHANGED <<displaced, phase, by>> /\ snapshot' \in {snapshot, None}
    BY <1>7 DEF Look, WriteFails, Register, AttachFails, Capture, NotReady, Finalize, Tidy,
      Drop, Interrupt, Die, Crash, shared, faults, runs, RemoveSnapshot
  <2>2. pc' = pc \/ \E step \in CliPcs :
          /\ Goto(p, step)
          /\ step \in Writing => pc[p] \in Writing
          /\ step \in Attaching => pc[p] \in Attaching
    BY <1>7 DEF Look, WriteFails, Register, AttachFails, Capture, NotReady, Finalize, Tidy,
      Drop, Interrupt, Die, Crash, Ends, CliPcs, Writing
  <2>3. \A q \in Starts : /\ pc'[q] \in Writing => pc[q] \in Writing
                          /\ pc'[q] \in Attaching => pc[q] \in Attaching
    BY <1>0, <2>2 DEF Goto, Writing
  <2> QED
    BY <1>a, <2>1, <2>3
<1>8. ASSUME NEW r \in Runs,
             \/ RemoveSourced(r) \/ Boot(r) \/ Own(r) \/ Dial(r) \/ Unlink(r)
             \/ AgentEnds(r)
             \/ Close(r) \/ Disown(r) \/ TidyRun(r) \/ HangUp(r) \/ CrashRun(r)
             \/ Listen(r) \/ Source(r)
      PROVE  Fresh'
  <2>1. /\ UNCHANGED <<pc, by>> /\ displaced \subseteq displaced'
        /\ snapshot' \in {snapshot, None}
    BY <1>8 DEF RemoveSourced, Boot, Own, Dial, Unlink, AgentEnds, Close, Disown, TidyRun,
      HangUp, CrashRun, Listen, Source, invocations, faults, shared, RemoveSnapshot
  <2>2. phase[r] # "off"
    BY <1>8, Hung DEF RemoveSourced, Boot, Own, Dial, Unlink, AgentEnds, Close, Disown,
      TidyRun,
      HangUp, CrashRun, Listen, Source
  <2>3. \E step \in Phases \ {"source"} : Become(r, step)
    BY <1>8 DEF RemoveSourced, Boot, Own, Dial, Unlink, AgentEnds, Close, Disown, TidyRun,
      HangUp, CrashRun, Listen, Source, Exit, Phases
  <2>4. \A q \in Runs : phase'[q] = "source" => phase[q] = "source" /\ by'[q] = by[q]
    BY <1>b, <2>1, <2>2, <2>3
  <2> QED
    BY <1>a, <2>1, <2>4
<1>9. CASE UNCHANGED vars
  BY <1>9 DEF vars, Fresh, shared, runs, faults, invocations
<1> QED
  BY <1>1, <1>2, <1>3, <1>4, <1>5, <1>6, <1>7, <1>8, <1>9 DEF Next, StartStep, KillStep,
    RunStep

\* Only the read of the file sets a run's credentials, and it sets its start's.
LEMMA EnvOwnStep ==
  ASSUME TypeOK, Made, Fresh, EnvOwn, [Next]_vars
  PROVE  EnvOwn'
<1>0. env \in [Runs -> Starts \cup {None}] /\ by \in [Runs -> Starts \cup {None}]
  BY DEF TypeOK, RunsOK
\* Enough for a step that sets nothing.
<1>a. ASSUME UNCHANGED <<env, by>>, displaced \subseteq displaced' PROVE EnvOwn'
  BY <1>a DEF EnvOwn
<1>1. ASSUME NEW p \in Starts, Attach(p) PROVE EnvOwn'
  <2>1. UNCHANGED <<env, displaced>>
    BY <1>1 DEF Attach, faults
  <2>2. by' = by \/ \E r \in Runs : phase[r] = "off" /\ by' = [by EXCEPT ![r] = p]
    BY <1>1 DEF Attach
  <2>3. \A r \in Runs : phase[r] = "off" => env[r] = None
    BY DEF Made
  <2> QED
    BY <1>0, <1>a, <2>1, <2>2, <2>3 DEF EnvOwn
<1>2. ASSUME NEW r \in Runs, Source(r) PROVE EnvOwn'
  <2>1. /\ UNCHANGED <<by, displaced>> /\ env' = [env EXCEPT ![r] = snapshot]
        /\ by[r] \notin displaced => snapshot \in {None, by[r]} \cup displaced
    BY <1>2 DEF Source, faults, Fresh
  <2> QED
    BY <1>0, <2>1 DEF EnvOwn
<1>3. ASSUME NEW p \in Starts,
             \/ Look(p) \/ WriteFails(p) \/ Reserve(p) \/ Register(p)
             \/ WriteSnapshot(p) \/ AttachFails(p)
             \/ Capture(p) \/ NotReady(p) \/ Finalize(p) \/ Tidy(p) \/ Undo(p)
             \/ Drop(p) \/ Interrupt(p) \/ Die(p) \/ Crash(p)
      PROVE  EnvOwn'
  BY <1>3, <1>a DEF Look, WriteFails, Reserve, Register, WriteSnapshot, AttachFails,
    Capture, NotReady,
    Finalize, Tidy, Undo, Drop, Interrupt, Die, Crash, runs, faults
<1>4. ASSUME NEW k \in Kills, List(k) \/ Kill(k) \/ Forget(k) PROVE EnvOwn'
  BY <1>4, <1>a DEF List, Kill, Forget, runs, faults
<1>5. ASSUME NEW r \in Runs,
             \/ RemoveSourced(r) \/ Boot(r) \/ Own(r) \/ Dial(r) \/ Unlink(r) \/ Listen(r)
             \/ AgentEnds(r) \/ Close(r) \/ Disown(r) \/ TidyRun(r) \/ HangUp(r)
             \/ CrashRun(r)
      PROVE  EnvOwn'
  BY <1>5, <1>a DEF RemoveSourced, Boot, Own, Dial, Unlink, Listen, AgentEnds, Close,
    Disown,
    TidyRun, HangUp, CrashRun, runs, faults
<1>6. CASE UNCHANGED vars
  BY <1>6 DEF vars, EnvOwn
<1> QED
  BY <1>1, <1>2, <1>3, <1>4, <1>5, <1>6 DEF Next, StartStep, KillStep, RunStep

\* A start gives up its token before it ends and removes the file after it has
\* written it, unless it is killed; who writes after the signal was handled is lost.
LEMMA KeptStep ==
  ASSUME TypeOK, Kept, [Next]_vars
  PROVE  Kept'
<1>0. /\ pc \in [Procs -> CliPcs] /\ sig \in [Procs -> {"none", "cleaned"}]
      /\ Starts \subseteq Procs /\ Starts \cap Kills = {}
      /\ Kills \subseteq Procs /\ None \notin Starts \cup Runs
      /\ row.token \in Starts \cup {None} /\ snapshot \in Starts \cup {None}
      /\ row \in [starting : BOOLEAN, token : Starts \cup {None}, runner : Runs \cup {None}]
  BY ProcsAssumption DEF TypeOK, FilesOK, InvocationsOK, Procs
\* Enough for a step that leaves the invocations where they are.
<1>a. ASSUME \A q \in Starts : pc'[q] = pc[q] /\ sig'[q] = sig[q], left => left',
             row'.token \in {row.token, None}, snapshot' \in {snapshot, None}
      PROVE  Kept'
  BY <1>0, <1>a DEF Kept
<1>1. ASSUME NEW p \in Starts, Reserve(p) PROVE Kept'
  <2>1. UNCHANGED <<snapshot, sig, left>> /\ pc[p] = "reserve"
    BY <1>1 DEF Reserve
  <2>2. CASE UNCHANGED row /\ Goto(p, "done")
    BY <1>0, <2>1, <2>2 DEF Goto, Kept, Tidying
  <2>3. CASE row' = [starting |-> TRUE, token |-> p, runner |-> None] /\ Goto(p, "register")
    BY <1>0, <2>1, <2>3 DEF Goto, Kept, Tidying
  <2> QED
    BY <1>1, <2>2, <2>3 DEF Reserve, Take
<1>2. ASSUME NEW p \in Starts, WriteSnapshot(p) PROVE Kept'
  <2>1. /\ UNCHANGED <<row, sig>> /\ snapshot' = p /\ Goto(p, "attach")
        /\ left' = (left \/ sig[p] = "cleaned")
    BY <1>2 DEF WriteSnapshot
  <2> QED
    BY <1>0, <2>1 DEF Goto, Kept, Tidying
<1>3. ASSUME NEW p \in Starts, Finalize(p) PROVE Kept'
  <2>1. UNCHANGED <<snapshot, sig, left>> /\ pc[p] = "finalize"
    BY <1>3 DEF Finalize, faults
  <2>2. CASE row.token = p /\ row' = [row EXCEPT !.starting = FALSE, !.token = None]
               /\ Goto(p, "tidy")
    BY <1>0, <2>1, <2>2 DEF Goto, Kept, Tidying
  <2>3. CASE UNCHANGED row /\ Goto(p, "giveup")
    BY <1>0, <2>1, <2>3 DEF Goto, Kept, Tidying
  <2> QED
    BY <1>3, <2>2, <2>3 DEF Finalize
<1>4. ASSUME NEW p \in Starts, Tidy(p) PROVE Kept'
  <2>1. UNCHANGED <<row, sig, left>> /\ snapshot' = None
    BY <1>4 DEF Tidy, faults, RemoveSnapshot
  <2>2. \/ pc[p] = "tidy" /\ Goto(p, "done")
        \/ Goto(p, "undo")
    BY <1>4 DEF Tidy
  <2> QED
    BY <1>0, <2>1, <2>2 DEF Goto, Kept
<1>5. ASSUME NEW p \in Starts, Undo(p) PROVE Kept'
  <2>1. UNCHANGED <<row, snapshot, sig, left>> /\ pc[p] = "undo"
    BY <1>5 DEF Undo, faults
  <2>2. Goto(p, "drop") \/ (row.token # p /\ Goto(p, "done"))
    BY <1>5 DEF Undo
  <2> QED
    BY <1>0, <2>1, <2>2 DEF Goto, Kept, Tidying
<1>6. ASSUME NEW p \in Starts, Drop(p) PROVE Kept'
  <2>1. UNCHANGED <<snapshot, sig, left>> /\ pc[p] = "drop" /\ Goto(p, "done")
    BY <1>6 DEF Drop, faults
  <2>2. row'.token = IF row.token = p THEN None ELSE row.token
    BY <1>6 DEF Drop, NoRow
  <2> QED
    BY <1>0, <2>1, <2>2 DEF Goto, Kept, Tidying
<1>7. ASSUME NEW p \in Starts, Interrupt(p) PROVE Kept'
  <2>1. UNCHANGED <<row, pc, left>> /\ sig' = [sig EXCEPT ![p] = "cleaned"]
    BY <1>7 DEF Interrupt
  <2>2. \/ pc[p] \in {"register", "undo", "drop"} /\ snapshot' = snapshot
        \/ snapshot' = None
    BY <1>7 DEF Interrupt, RemoveSnapshot
  <2> QED
    BY <1>0, <2>1, <2>2 DEF Kept, Tidying
<1>8. ASSUME NEW p \in Starts, Look(p) PROVE Kept'
  <2>1. UNCHANGED <<row, snapshot, sig, left>> /\ pc[p] = "look"
    BY <1>8 DEF Look, shared, faults
  <2>2. Goto(p, "reserve") \/ Goto(p, "done")
    BY <1>8 DEF Look
  <2> QED
    BY <1>0, <2>1, <2>2 DEF Goto, Kept, Tidying
<1>9. ASSUME NEW p \in Starts, Die(p) PROVE Kept'
  <2>1. /\ UNCHANGED <<row, snapshot, sig>> /\ sig[p] = "cleaned"
        /\ Goto(p, "done") \/ Goto(p, "orphan")
        /\ left' = (left \/ row.token = p)
    BY <1>9 DEF Die, Ends, shared
  <2> QED
    BY <1>0, <2>1 DEF Goto, Kept, Tidying
<1>10. ASSUME NEW p \in Starts, Crash(p) PROVE Kept'
  <2>1. /\ UNCHANGED <<row, snapshot, sig>> /\ left'
        /\ Goto(p, "done") \/ Goto(p, "orphan")
    BY <1>10 DEF Crash, Ends, shared
  <2> QED
    BY <1>0, <2>1 DEF Goto, Kept
<1>11. ASSUME NEW r \in Runs, Boot(r) \/ Own(r) PROVE Kept'
  <2>1. /\ UNCHANGED <<snapshot, pc, sig, left>>
        /\ row' = [row EXCEPT !.starting = FALSE] \/ row' = [row EXCEPT !.runner = r]
    BY <1>11 DEF Boot, Own, invocations, faults
  <2>2. row'.token = row.token
    BY <1>0, <2>1
  <2> QED
    BY <1>a, <2>1, <2>2
<1>12. ASSUME NEW r \in Runs, Disown(r) PROVE Kept'
  <2>1. /\ UNCHANGED <<snapshot, pc, sig, left>>
        /\ row' \in {row, NoRow}
    BY <1>12 DEF Disown, invocations, faults
  <2> QED
    BY <1>a, <2>1 DEF NoRow
<1>13. ASSUME NEW k \in Kills, List(k) \/ Kill(k) \/ Forget(k) PROVE Kept'
  <2>1. UNCHANGED <<snapshot, sig, left>> /\ row' \in {row, NoRow}
    BY <1>13 DEF List, Kill, Forget, shared, faults
  <2>2. \A q \in Starts : pc'[q] = pc[q]
    BY <1>0, <1>13 DEF List, Kill, Forget, Goto
  <2> QED
    BY <1>a, <2>1, <2>2 DEF NoRow
<1>14. ASSUME NEW r \in Runs, TidyRun(r) \/ HangUp(r) PROVE Kept'
  <2>1. UNCHANGED <<row, pc, sig, left>> /\ snapshot' = None
    BY <1>14 DEF TidyRun, HangUp, invocations, faults, RemoveSnapshot
  <2> QED
    BY <1>a, <2>1
<1>15. ASSUME NEW p \in Starts,
             \/ Register(p) \/ WriteFails(p) \/ Attach(p) \/ AttachFails(p) \/ Capture(p)
             \/ NotReady(p)
      PROVE  Kept'
  <2>1. UNCHANGED <<row, snapshot, sig, left>>
    BY <1>15 DEF Register, WriteFails, Attach, AttachFails, Capture, NotReady, shared,
      faults
  <2>2. \E step \in CliPcs :
          /\ Goto(p, step) /\ step \notin {"look", "reserve", "tidy", "orphan"}
          /\ step = "done" => pc[p] = "orphan"
          /\ pc[p] \in Tidying => step \in Tidying
    BY <1>15 DEF Register, WriteFails, Attach, AttachFails, Capture, NotReady, CliPcs,
      Tidying
  <2> QED
    BY <1>0, <2>1, <2>2 DEF Goto, Kept
<1>16. ASSUME NEW r \in Runs,
             \/ Source(r) \/ RemoveSourced(r) \/ Dial(r) \/ Unlink(r) \/ Listen(r)
             \/ AgentEnds(r) \/ Close(r) \/ CrashRun(r)
      PROVE  Kept'
  <2>1. UNCHANGED <<row, pc, sig>> /\ snapshot' \in {snapshot, None}
    BY <1>16 DEF Source, RemoveSourced, Dial, Unlink, Listen, AgentEnds, Close, CrashRun,
      invocations, faults, shared, RemoveSnapshot
  <2>2. left' = left \/ left' = TRUE
    BY <1>16 DEF Source, RemoveSourced, Dial, Unlink, Listen, AgentEnds, Close, CrashRun,
      faults
  <2> QED
    BY <1>a, <2>1, <2>2
<1>17. CASE UNCHANGED vars
  BY <1>17 DEF vars, Kept
<1> QED
  BY <1>1, <1>2, <1>3, <1>4, <1>5, <1>6, <1>7, <1>8, <1>9, <1>10, <1>11, <1>12, <1>13,
    <1>14, <1>15, <1>16, <1>17 DEF Next, StartStep, KillStep, RunStep

\* A session is made under the reservation that is in the row or by a start that has
\* lost its own, and while it lives nobody else reserves the name.
LEMMA TokenStep ==
  ASSUME TypeOK, Made, Reserved, Token, [Next]_vars
  PROVE  Token'
<1>0. /\ row \in [starting : BOOLEAN, token : Starts \cup {None}, runner : Runs \cup {None}]
      /\ by \in [Runs -> Starts \cup {None}] /\ session \in Runs \cup {None}
      /\ None \notin Starts \cup Runs
  BY ProcsAssumption DEF TypeOK, FilesOK, RunsOK
\* Enough for a step that makes no session and reserves nothing.
<1>a. ASSUME by' = by, session' \in {session, None}, row'.token \in {row.token, None},
             displaced \subseteq displaced', overtaken \subseteq overtaken'
      PROVE  Token'
  BY <1>a DEF Token
<1>1. ASSUME NEW p \in Starts, Reserve(p) PROVE Token'
  <2>1. UNCHANGED <<session, by, displaced>>
    BY <1>1 DEF Reserve, runs
  <2>2. CASE UNCHANGED <<row, overtaken>>
    BY <1>a, <2>1, <2>2
  <2>3. CASE Take(p)
    <3>1. session # None => p \in overtaken'
      BY <2>3 DEF Take
    <3>2. row'.token = p
      BY <2>3 DEF Take
    <3> QED
      BY <2>1, <3>1, <3>2 DEF Token
  <2> QED
    BY <1>1, <2>2, <2>3 DEF Reserve
<1>2. ASSUME NEW p \in Starts, Attach(p) PROVE Token'
  <2>1. UNCHANGED <<row, displaced, overtaken>> /\ pc[p] \in Writing
    BY <1>2 DEF Attach, faults, Writing
  <2>2. CASE UNCHANGED <<session, by, phase>>
    BY <1>a, <2>1, <2>2
  <2>3. ASSUME NEW r \in Runs, session' = r, by' = [by EXCEPT ![r] = p]
        PROVE  Token'
    <3>1. by'[session'] = p
      BY <1>0, <2>3
    <3>2. p \in displaced \/ row.token = p
      BY <2>1 DEF Reserved
    <3> QED
      BY <2>1, <3>1, <3>2 DEF Token
  <2> QED
    BY <1>2, <2>2, <2>3 DEF Attach
<1>3. ASSUME NEW p \in Starts, Undo(p) PROVE Token'
  <2>1. UNCHANGED <<row, by, displaced, overtaken>> /\ session' \in {session, None}
    BY <1>3 DEF Undo, KillSession, faults
  <2> QED
    BY <1>a, <2>1
<1>4. ASSUME NEW r \in Runs, Boot(r) \/ Own(r) PROVE Token'
  <2>1. /\ UNCHANGED <<session, by, overtaken>> /\ displaced \subseteq displaced'
        /\ row' = [row EXCEPT !.starting = FALSE] \/ row' = [row EXCEPT !.runner = r]
    BY <1>4 DEF Boot, Own, faults
  <2>2. row'.token = row.token
    BY <1>0, <2>1
  <2> QED
    BY <1>a, <2>1, <2>2
<1>5. ASSUME NEW r \in Runs, Disown(r) PROVE Token'
  <2>1. /\ UNCHANGED <<session, by, overtaken>> /\ row' \in {row, NoRow}
        /\ displaced \subseteq displaced'
    BY <1>5 DEF Disown
  <2> QED
    BY <1>a, <2>1 DEF NoRow
<1>6. ASSUME NEW p \in Starts,
             \/ Look(p) \/ WriteFails(p) \/ Register(p) \/ WriteSnapshot(p)
             \/ AttachFails(p) \/ Capture(p)
             \/ NotReady(p) \/ Tidy(p) \/ Interrupt(p) \/ Die(p)
             \/ Crash(p)
      PROVE  Token'
  <2>1. UNCHANGED <<row, session, by, displaced, overtaken>>
    BY <1>6 DEF Look, WriteFails, Register, WriteSnapshot, AttachFails, Capture, NotReady,
      Tidy, Interrupt,
      Die, Crash, shared, runs, faults
  <2> QED
    BY <1>a, <2>1
<1>7. ASSUME NEW k \in Kills, Kill(k) \/ List(k) \/ Forget(k) PROVE Token'
  <2>1. /\ by' = by /\ session' \in {session, None} /\ row' \in {row, NoRow}
        /\ displaced \subseteq displaced' /\ overtaken' = overtaken
    BY <1>7 DEF Kill, List, Forget, KillSession, shared, runs, faults
  <2> QED
    BY <1>a, <2>1 DEF NoRow
<1>8. ASSUME NEW r \in Runs,
             \/ RemoveSourced(r) \/ Dial(r) \/ Unlink(r) \/ Listen(r)
             \/ AgentEnds(r) \/ Close(r) \/ TidyRun(r) \/ HangUp(r) \/ CrashRun(r)
             \/ Source(r)
      PROVE  Token'
  <2>1. UNCHANGED <<row, by, displaced, overtaken>> /\ session' \in {session, None}
    BY <1>8 DEF RemoveSourced, Dial, Unlink, Listen, AgentEnds, Close, TidyRun, HangUp,
      CrashRun, Source, Exit, shared, faults
  <2> QED
    BY <1>a, <2>1
<1>9. ASSUME NEW p \in Starts, Finalize(p) \/ Drop(p) PROVE Token'
  <2>1. UNCHANGED <<session, by, displaced, overtaken>>
    BY <1>9 DEF Finalize, Drop, runs, faults
  <2>2. \/ row' \in {row, NoRow}
        \/ row' = [row EXCEPT !.starting = FALSE, !.token = None]
    BY <1>9 DEF Finalize, Drop
  <2>3. NoRow.token = None /\ [row EXCEPT !.starting = FALSE, !.token = None].token = None
    BY <1>0 DEF NoRow
  <2>4. row'.token \in {row.token, None}
    BY <2>2, <2>3
  <2> QED
    BY <1>a, <2>1, <2>4
<1>10. CASE UNCHANGED vars
  BY <1>10 DEF vars, Token
<1> QED
  BY <1>1, <1>2, <1>3, <1>4, <1>5, <1>6, <1>7, <1>8, <1>9, <1>10 DEF Next, StartStep,
    KillStep, RunStep

\* Who answers a start on the name of its session is that session, or was killed,
\* as long as the row is the start's.
LEMMA AnswerStep ==
  ASSUME TypeOK, Listed, Made, Token, Answer, [Next]_vars
  PROVE  Answer'
<1> DEFINE Answered == {"ready", "again", "finalize", "giveup", "tidy", "done"}
           Calm(q) ==
             /\ pc'[q] \in {"again", "finalize"} => pc'[q] = pc[q] /\ answered'[q] = answered[q]
             /\ \/ answered'[q] = None
                \/ answered'[q] = answered[q] /\ (pc[q] \in Answered => pc'[q] \in Answered)
<1>0. /\ pc \in [Procs -> CliPcs] /\ Starts \subseteq Procs /\ Starts \cap Kills = {}
      /\ Kills \subseteq Procs /\ None \notin Starts \cup Runs
      /\ row \in [starting : BOOLEAN, token : Starts \cup {None}, runner : Runs \cup {None}]
      /\ by \in [Runs -> Starts \cup {None}] /\ phase \in [Runs -> Phases]
      /\ answered \in [Starts -> Runs \cup {None}] /\ socket \in Runs \cup {None}
  BY ProcsAssumption DEF TypeOK, FilesOK, RunsOK, InvocationsOK, Procs
\* Enough for a step that gets no new answer.
<1>a. ASSUME hup \subseteq hup', displaced \subseteq displaced', overtaken \subseteq overtaken',
             row'.token \in {row.token, None},
             \A r \in Runs : phase[r] # "off" => phase'[r] # "off" /\ by'[r] = by[r],
             \A q \in Starts : Calm(q)
      PROVE  Answer'
  BY <1>0, <1>a DEF Answer
\* What a run that goes on leaves of this.
<1>b. ASSUME NEW r \in Runs, by' = by, \E step \in Phases \ {"off"} : Become(r, step)
      PROVE  \A q \in Runs : phase[q] # "off" => phase'[q] # "off" /\ by'[q] = by[q]
  BY <1>0, <1>b DEF Become
\* What a kill leaves of it.
<1>c. ASSUME by' = by, KillSession \/ UNCHANGED <<session, hup, phase>>
      PROVE  /\ hup \subseteq hup'
             /\ \A q \in Runs : phase[q] # "off" => phase'[q] # "off" /\ by'[q] = by[q]
  BY <1>0, <1>c DEF KillSession
\* An invocation that has no answer, or goes on to where it may have one.
<1>d. ASSUME NEW p \in Procs, answered' = answered,
             \E step \in CliPcs \ {"again", "finalize"} :
               Goto(p, step) /\ (pc[p] \in Answered => step \in Answered)
      PROVE  \A q \in Starts : Calm(q)
  BY <1>0, <1>d DEF Goto
<1>1. ASSUME NEW p \in Starts, Reserve(p) PROVE Answer'
  <2>1. UNCHANGED <<answered, hup, displaced, phase, by>> /\ pc[p] = "reserve"
    BY <1>1 DEF Reserve, runs
  <2>2. CASE UNCHANGED <<row, overtaken>> /\ Goto(p, "done")
    <3>1. \A q \in Starts : Calm(q)
      BY <1>d, <2>1, <2>2, <1>0 DEF CliPcs
    <3> QED
      BY <1>a, <2>1, <2>2, <3>1
  <2>3. CASE Take(p)
    <3>1. row'.token = p /\ overtaken \subseteq overtaken' /\ Goto(p, "register")
      BY <2>3 DEF Take
    <3>2. pc'[p] = "register" /\ \A q \in Starts : q # p => pc'[q] = pc[q] /\ row'.token # q
      BY <1>0, <3>1 DEF Goto
    <3>3. answered[p] = None
      BY <2>1 DEF Answer
    <3> QED
      BY <1>0, <2>1, <3>1, <3>2, <3>3 DEF Answer
  <2> QED
    BY <1>1, <2>2, <2>3 DEF Reserve
<1>2. ASSUME NEW p \in Starts, Attach(p) PROVE Answer'
  <2>1. /\ UNCHANGED <<answered, hup, displaced, overtaken, row>>
        /\ Goto(p, "ready") \/ Goto(p, "giveup") \/ Goto(p, "done")
    BY <1>2 DEF Attach, faults
  <2>2. \A q \in Starts : Calm(q)
    BY <1>0, <1>d, <2>1 DEF CliPcs
  <2>3. CASE UNCHANGED <<session, by, phase>>
    BY <1>a, <2>1, <2>2, <2>3
  <2>4. ASSUME NEW r \in Runs, phase[r] = "off", by' = [by EXCEPT ![r] = p],
               Become(r, "source")
        PROVE  Answer'
    <3>1. \A q \in Runs : phase[q] # "off" => phase'[q] # "off" /\ by'[q] = by[q]
      BY <1>0, <2>4 DEF Become
    <3> QED
      BY <1>a, <2>1, <2>2, <3>1
  <2> QED
    BY <1>2, <2>3, <2>4 DEF Attach
<1>3. ASSUME NEW p \in Starts, Capture(p) PROVE Answer'
  <2>1. /\ UNCHANGED <<hup, displaced, overtaken, row, phase, by, session>>
        /\ answered' = [answered EXCEPT ![p] = socket]
        /\ socket \in Listening
        /\ Goto(p, "again") \/ Goto(p, "finalize")
    BY <1>3 DEF Capture, shared, runs, faults
  <2>2. socket \in Runs /\ Live(socket) /\ phase[socket] # "off"
    BY <2>1 DEF Listening, Live
  <2>3. row.token = p =>
          by[socket] = p \/ socket \in hup \/ by[socket] \in displaced \/ p \in overtaken
    BY <1>0, <2>2 DEF Listed, Token
  <2>4. \A q \in Starts : q # p => pc'[q] = pc[q] /\ answered'[q] = answered[q]
    BY <1>0, <2>1 DEF Goto
  <2>5. answered'[p] = socket /\ pc'[p] \in {"again", "finalize"}
    BY <1>0, <2>1 DEF Goto
  <2> QED
    BY <1>0, <2>1, <2>2, <2>3, <2>4, <2>5 DEF Answer
<1>4. ASSUME NEW p \in Starts, Finalize(p) PROVE Answer'
  <2>1. UNCHANGED <<answered, hup, displaced, overtaken, phase, by>>
    BY <1>4 DEF Finalize, runs, faults
  <2>2. row' = row \/ row' = [row EXCEPT !.starting = FALSE, !.token = None]
    BY <1>4 DEF Finalize
  <2>3. row'.token \in {row.token, None}
    BY <1>0, <2>2
  <2>4. Goto(p, "tidy") \/ Goto(p, "giveup")
    BY <1>4 DEF Finalize
  <2>5. \A q \in Starts : Calm(q)
    BY <1>0, <1>d, <2>1, <2>4 DEF CliPcs
  <2> QED
    BY <1>a, <2>1, <2>3, <2>5
<1>5. ASSUME NEW p \in Starts, Tidy(p) PROVE Answer'
  <2>1. UNCHANGED <<hup, displaced, overtaken, row, phase, by>>
    BY <1>5 DEF Tidy, runs, faults
  <2>2. \/ answered' = answered /\ Goto(p, "done")
        \/ answered' = [answered EXCEPT ![p] = None] /\ Goto(p, "undo")
    BY <1>5 DEF Tidy, Unanswered
  <2>3. \A q \in Starts : Calm(q)
    BY <1>0, <2>2 DEF Goto
  <2> QED
    BY <1>a, <2>1, <2>3
<1>6. ASSUME NEW p \in Starts, Undo(p) PROVE Answer'
  <2>1. /\ UNCHANGED <<answered, by, displaced, overtaken, row>> /\ pc[p] = "undo"
        /\ KillSession \/ UNCHANGED <<session, hup, phase>>
        /\ Goto(p, "drop") \/ Goto(p, "done")
    BY <1>6 DEF Undo, faults
  <2>2. \A q \in Starts : Calm(q)
    BY <1>0, <1>d, <2>1 DEF CliPcs
  <2> QED
    BY <1>a, <1>c, <2>1, <2>2
<1>7. ASSUME NEW k \in Kills, Kill(k) PROVE Answer'
  <2>1. UNCHANGED <<answered, by, displaced, overtaken, row>> /\ KillSession
    BY <1>7 DEF Kill, faults
  <2>2. \A q \in Starts : pc'[q] = pc[q]
    BY <1>0, <1>7 DEF Kill, Goto
  <2> QED
    BY <1>a, <1>c, <2>1, <2>2
<1>8. ASSUME NEW r \in Runs, Boot(r) \/ Own(r) PROVE Answer'
  <2>1. /\ UNCHANGED <<answered, pc, hup, by, overtaken>> /\ displaced \subseteq displaced'
        /\ row' = [row EXCEPT !.starting = FALSE] \/ row' = [row EXCEPT !.runner = r]
        /\ Become(r, "own") \/ Become(r, "dial")
    BY <1>8 DEF Boot, Own, invocations, faults
  <2>2. row'.token = row.token
    BY <1>0, <2>1
  <2>3. \A q \in Runs : phase[q] # "off" => phase'[q] # "off" /\ by'[q] = by[q]
    BY <1>b, <2>1 DEF Phases
  <2> QED
    BY <1>a, <2>1, <2>2, <2>3
<1>9. ASSUME NEW r \in Runs, Disown(r) PROVE Answer'
  <2>1. /\ UNCHANGED <<answered, pc, hup, by, overtaken>> /\ displaced \subseteq displaced'
        /\ row' \in {row, NoRow} /\ Become(r, "tidy")
    BY <1>9 DEF Disown, invocations
  <2>3. \A q \in Runs : phase[q] # "off" => phase'[q] # "off" /\ by'[q] = by[q]
    BY <1>b, <2>1 DEF Phases
  <2> QED
    BY <1>a, <2>1, <2>3 DEF NoRow
<1>10. ASSUME NEW p \in Starts,
             \/ Look(p) \/ Register(p) \/ WriteFails(p) \/ WriteSnapshot(p)
             \/ AttachFails(p)
             \/ NotReady(p) \/ Drop(p)
      PROVE  Answer'
  <2>1. /\ UNCHANGED <<answered, hup, displaced, overtaken, phase, by>> /\ row' \in {row, NoRow}
    BY <1>10 DEF Look, Register, WriteFails, WriteSnapshot, AttachFails, NotReady, Drop,
      shared,
      runs, faults
  <2>2. \E step \in CliPcs \ {"again", "finalize"} :
          Goto(p, step) /\ (pc[p] \in Answered => step \in Answered)
    BY <1>10 DEF Look, Register, WriteFails, WriteSnapshot, AttachFails, NotReady, Drop,
      CliPcs
  <2>3. \A q \in Starts : Calm(q)
    BY <1>0, <1>d, <2>1, <2>2
  <2> QED
    BY <1>a, <2>1, <2>3 DEF NoRow
<1>11. ASSUME NEW p \in Starts, Interrupt(p) PROVE Answer'
  <2>1. UNCHANGED <<answered, hup, displaced, overtaken, phase, by, row, pc>>
    BY <1>11 DEF Interrupt, runs
  <2> QED
    BY <1>a, <2>1
<1>12. ASSUME NEW k \in Kills, List(k) \/ Forget(k) PROVE Answer'
  <2>1. /\ UNCHANGED <<answered, hup, phase, by, overtaken>> /\ displaced \subseteq displaced'
        /\ row' \in {row, NoRow}
    BY <1>12 DEF List, Forget, shared, runs, faults
  <2>2. \A q \in Starts : pc'[q] = pc[q]
    BY <1>0, <1>12 DEF List, Forget, Goto
  <2> QED
    BY <1>a, <2>1, <2>2 DEF NoRow
<1>13. ASSUME NEW r \in Runs,
             \/ RemoveSourced(r) \/ Dial(r) \/ Unlink(r) \/ Listen(r)
             \/ AgentEnds(r) \/ Close(r) \/ TidyRun(r) \/ HangUp(r) \/ CrashRun(r)
             \/ Source(r)
      PROVE  Answer'
  <2>1. UNCHANGED <<answered, pc, hup, by, displaced, overtaken, row>>
    BY <1>13 DEF RemoveSourced, Dial, Unlink, Listen, AgentEnds, Close, TidyRun, HangUp,
      CrashRun, Source, shared, faults, invocations
  <2>2. \E step \in Phases \ {"off"} : Become(r, step)
    BY <1>13 DEF RemoveSourced, Dial, Unlink, Listen, AgentEnds, Close, TidyRun, HangUp,
      CrashRun, Source, Exit, Phases
  <2>3. \A q \in Runs : phase[q] # "off" => phase'[q] # "off" /\ by'[q] = by[q]
    BY <1>b, <2>1, <2>2
  <2> QED
    BY <1>a, <2>1, <2>3
<1>14. ASSUME NEW p \in Starts, Die(p) \/ Crash(p) PROVE Answer'
  <2>1. /\ UNCHANGED <<hup, displaced, overtaken, row, phase, by>>
        /\ answered' = [answered EXCEPT ![p] = None]
        /\ Goto(p, "done") \/ Goto(p, "orphan")
    BY <1>14 DEF Die, Crash, Ends, Unanswered, shared, runs
  <2>2. \A q \in Starts : Calm(q)
    BY <1>0, <2>1 DEF Goto
  <2> QED
    BY <1>a, <2>1, <2>2
<1>15. CASE UNCHANGED vars
  BY <1>15 DEF vars, Answer, shared, runs, faults, invocations
<1> QED
  BY <1>1, <1>2, <1>3, <1>4, <1>5, <1>6, <1>7, <1>8, <1>9, <1>10, <1>11, <1>12, <1>13,
    <1>14, <1>15 DEF Next, StartStep, KillStep, RunStep

\* Nobody reserves the name of a session that has answered a start which succeeded,
\* so whoever it answers later has lost the row already.
LEMMA SettledStep ==
  ASSUME TypeOK, Listed, Answer, Settled, Uncontested, [Next]_vars
  PROVE  Settled' /\ Uncontested'
<1> DEFINE Ended == {"tidy", "done"}
           Asking == {"again", "finalize"}
           Still(q) ==
             /\ answered'[q] # None /\ pc'[q] \in Ended
                  => pc[q] \in Ended /\ answered'[q] = answered[q]
             /\ pc'[q] \in Asking => pc[q] \in Asking /\ answered'[q] = answered[q]
             /\ pc'[q] = "reserve" => pc[q] = "reserve"
<1>0. /\ pc \in [Procs -> CliPcs] /\ Starts \subseteq Procs /\ Starts \cap Kills = {}
      /\ Kills \subseteq Procs /\ None \notin Starts \cup Runs
      /\ row \in [starting : BOOLEAN, token : Starts \cup {None}, runner : Runs \cup {None}]
      /\ phase \in [Runs -> Phases] /\ session \in Runs \cup {None}
      /\ answered \in [Starts -> Runs \cup {None}] /\ socket \in Runs \cup {None}
  BY ProcsAssumption DEF TypeOK, FilesOK, RunsOK, InvocationsOK, Procs
\* Enough for a step that ends no start well and asks nobody.
<1>a. ASSUME hup \subseteq hup', row'.token \in {row.token, None},
             \A r \in Runs : phase[r] = "gone" => phase'[r] = "gone",
             \A q \in Starts : Still(q)
      PROVE  Settled' /\ Uncontested'
  <2>1. \A p \in Starts, r \in Runs : Succeeded(p, r)' => Succeeded(p, r) /\ phase[r] # "off"
    BY <1>0, <1>a DEF Succeeded, Answer
  <2>2. Settled'
    BY <1>0, <1>a, <2>1 DEF Settled, Live
  <2>3. Uncontested'
    BY <1>0, <1>a, <2>1 DEF Uncontested
  <2> QED
    BY <2>2, <2>3
\* What a run that goes on leaves of this.
<1>b. ASSUME NEW r \in Runs, phase[r] # "gone", \E step : Become(r, step)
      PROVE  \A q \in Runs : phase[q] = "gone" => phase'[q] = "gone"
  BY <1>0, <1>b DEF Become
\* A kill.
<1>c. ASSUME KillSession \/ UNCHANGED <<session, hup, phase>>
      PROVE  hup \subseteq hup' /\ \A q \in Runs : phase[q] = "gone" => phase'[q] = "gone"
  BY <1>0, <1>c DEF KillSession
\* An invocation that gets no answer and does not end by one.
<1>d. ASSUME NEW p \in Procs, answered' = answered,
             \E step \in CliPcs \ (Asking \cup {"reserve"}) :
               Goto(p, step) /\ (step \in Ended => pc[p] \in Ended \/ answered[p] = None)
      PROVE  \A q \in Starts : Still(q)
  BY <1>0, <1>d DEF Goto
<1>1. ASSUME NEW p \in Starts, Look(p) PROVE Settled' /\ Uncontested'
  <2>1. UNCHANGED <<row, session, answered, hup, phase>> /\ answered[p] = None
    BY <1>1 DEF Look, shared, runs, Answer
  <2>2. CASE Goto(p, "done")
    BY <1>0, <1>a, <1>d, <2>1, <2>2 DEF CliPcs
  <2>3. CASE session = None /\ Goto(p, "reserve")
    <3>1. \A r \in Runs \ hup : ~Live(r)
      BY <1>0, <2>3 DEF Listed
    <3>2. Settled'
      BY <2>1, <3>1 DEF Settled, Live
    <3>3. \A q \in Starts : /\ pc'[q] \in Ended => pc'[q] = pc[q]
                            /\ pc'[q] \in Asking => pc'[q] = pc[q]
      BY <1>0, <2>3 DEF Goto
    <3>4. Uncontested'
      BY <2>1, <3>3 DEF Uncontested, Succeeded
    <3> QED
      BY <3>2, <3>4
  <2> QED
    BY <1>1, <2>2, <2>3 DEF Look
<1>2. ASSUME NEW p \in Starts, Reserve(p) PROVE Settled' /\ Uncontested'
  <2>1. UNCHANGED <<answered, hup, phase>> /\ pc[p] = "reserve" /\ answered[p] = None
    BY <1>2 DEF Reserve, runs, Answer
  <2>2. CASE row' = row /\ Goto(p, "done")
    BY <1>0, <1>a, <1>d, <2>1, <2>2 DEF CliPcs
  <2>3. CASE Take(p)
    <3>1. row'.token = p /\ Goto(p, "register")
      BY <2>3 DEF Take
    <3>2. \A q \in Starts : /\ pc'[q] \in Ended \cup Asking => pc'[q] = pc[q] /\ q # p
      BY <1>0, <3>1 DEF Goto
    <3>3. \A q \in Starts, r \in Runs \ hup : Succeeded(q, r) => ~Live(r)
      BY <2>1 DEF Settled
    <3>4. Settled'
      BY <2>1, <3>2, <3>3 DEF Settled, Succeeded, Live
    <3>5. Uncontested'
      BY <3>1, <3>2 DEF Uncontested
    <3> QED
      BY <3>4, <3>5
  <2> QED
    BY <1>2, <2>2, <2>3 DEF Reserve
<1>3. ASSUME NEW p \in Starts, Capture(p) PROVE Settled' /\ Uncontested'
  <2>1. /\ UNCHANGED <<row, session, hup, phase>>
        /\ answered' = [answered EXCEPT ![p] = socket]
        /\ socket \in Listening
        /\ Goto(p, "again") \/ Goto(p, "finalize")
    BY <1>3 DEF Capture, shared, runs
  <2>2. socket \in Runs /\ Live(socket)
    BY <2>1 DEF Listening, Live
  <2>3. \A q \in Starts \ {p} : pc'[q] = pc[q] /\ answered'[q] = answered[q]
    BY <1>0, <2>1 DEF Goto
  <2>4. answered'[p] = socket /\ pc'[p] \in Asking
    BY <1>0, <2>1 DEF Goto
  <2>5. \A q \in Starts, r \in Runs : Succeeded(q, r)' => Succeeded(q, r) /\ q # p
    BY <2>3, <2>4 DEF Succeeded
  <2>6. Settled'
    BY <2>1, <2>3, <2>4, <2>5 DEF Settled, Live
  <2>7. Uncontested'
    <3> SUFFICES ASSUME NEW q \in Starts, NEW s \in Starts, NEW r \in Runs \ hup',
                        Succeeded(q, r)', answered'[s] = r, pc'[s] \in Asking
                 PROVE  row'.token # s
      BY DEF Uncontested
    <3>1. CASE s = p
      BY <1>0, <2>1, <2>2, <2>4, <2>5, <3>1 DEF Settled
    <3>2. CASE s # p
      BY <2>1, <2>3, <2>5, <3>2 DEF Uncontested
    <3> QED
      BY <3>1, <3>2
  <2> QED
    BY <2>6, <2>7
<1>4. ASSUME NEW p \in Starts, Finalize(p) PROVE Settled' /\ Uncontested'
  <2>1. UNCHANGED <<answered, hup, phase>> /\ pc[p] = "finalize"
        /\ \A q \in Starts : pc[q] # "reserve"
    BY <1>4 DEF Finalize, runs, Unlocked
  <2>2. CASE row' = row /\ Goto(p, "giveup")
    BY <1>0, <1>a, <1>d, <2>1, <2>2 DEF CliPcs
  <2>3. CASE row' = [row EXCEPT !.starting = FALSE, !.token = None] /\ Goto(p, "tidy")
    <3>1. row'.token = None /\ \A q \in Starts : pc'[q] # "reserve"
      BY <1>0, <2>1, <2>3 DEF Goto
    <3> QED
      BY <1>0, <3>1 DEF Settled, Uncontested
  <2> QED
    BY <1>4, <2>2, <2>3 DEF Finalize
<1>5. ASSUME NEW p \in Starts, Tidy(p) PROVE Settled' /\ Uncontested'
  <2>1. UNCHANGED <<hup, row, phase>>
    BY <1>5 DEF Tidy, runs
  <2>2. \/ answered' = answered /\ pc[p] = "tidy" /\ Goto(p, "done")
        \/ answered' = [answered EXCEPT ![p] = None] /\ Goto(p, "undo")
    BY <1>5 DEF Tidy, Unanswered
  <2>3. \A q \in Starts : Still(q)
    BY <1>0, <2>2 DEF Goto
  <2> QED
    BY <1>a, <2>1, <2>3
<1>6. ASSUME NEW p \in Starts, Undo(p) PROVE Settled' /\ Uncontested'
  <2>1. /\ UNCHANGED <<answered, row>> /\ answered[p] = None
        /\ KillSession \/ UNCHANGED <<session, hup, phase>>
        /\ Goto(p, "drop") \/ Goto(p, "done")
    BY <1>6 DEF Undo, Answer
  <2>2. \A q \in Starts : Still(q)
    BY <1>0, <1>d, <2>1 DEF CliPcs
  <2> QED
    BY <1>a, <1>c, <2>1, <2>2
<1>7. ASSUME NEW p \in Starts, Die(p) \/ Crash(p) PROVE Settled' /\ Uncontested'
  <2>1. /\ UNCHANGED <<hup, row, phase>>
        /\ answered' = [answered EXCEPT ![p] = None]
        /\ Goto(p, "done") \/ Goto(p, "orphan")
    BY <1>7 DEF Die, Crash, Ends, Unanswered, shared, runs
  <2>2. \A q \in Starts : Still(q)
    BY <1>0, <2>1 DEF Goto
  <2> QED
    BY <1>a, <2>1, <2>2
<1>8. ASSUME NEW p \in Starts,
             \/ Register(p) \/ WriteFails(p) \/ WriteSnapshot(p) \/ AttachFails(p)
             \/ NotReady(p) \/ Drop(p)
      PROVE  Settled' /\ Uncontested'
  <2>1. /\ UNCHANGED <<answered, hup, phase>> /\ row' \in {row, NoRow}
    BY <1>8 DEF Register, WriteFails, WriteSnapshot, AttachFails, NotReady, Drop, shared,
      runs
  <2>2. \E step \in CliPcs \ (Asking \cup {"reserve"}) :
          Goto(p, step) /\ (step \in Ended => pc[p] \in {"orphan", "drop"})
    BY <1>8 DEF Register, WriteFails, WriteSnapshot, AttachFails, NotReady, Drop, CliPcs
  <2>3. pc[p] \in {"orphan", "drop"} => answered[p] = None
    BY DEF Answer
  <2>4. \A q \in Starts : Still(q)
    BY <1>0, <1>d, <2>1, <2>2, <2>3
  <2> QED
    BY <1>a, <2>1, <2>4 DEF NoRow
<1>9. ASSUME NEW p \in Starts, Attach(p) PROVE Settled' /\ Uncontested'
  <2>1. /\ UNCHANGED <<answered, hup, row>> /\ answered[p] = None
        /\ Goto(p, "ready") \/ Goto(p, "giveup") \/ Goto(p, "done")
    BY <1>9 DEF Attach, Answer
  <2>2. \A q \in Starts : Still(q)
    BY <1>0, <1>d, <2>1 DEF CliPcs
  <2>3. phase' = phase \/ \E r \in Runs : phase[r] = "off" /\ Become(r, "source")
    BY <1>9 DEF Attach
  <2> QED
    BY <1>a, <1>b, <2>1, <2>2, <2>3
<1>10. ASSUME NEW p \in Starts, Interrupt(p) PROVE Settled' /\ Uncontested'
  BY <1>10, <1>a DEF Interrupt, runs
<1>11. ASSUME NEW k \in Kills, List(k) \/ Kill(k) \/ Forget(k) PROVE Settled' /\ Uncontested'
  <2>1. /\ answered' = answered /\ row' \in {row, NoRow}
        /\ KillSession \/ UNCHANGED <<session, hup, phase>>
    BY <1>11 DEF List, Kill, Forget, shared, runs
  <2>2. \A q \in Starts : pc'[q] = pc[q]
    BY <1>0, <1>11 DEF List, Kill, Forget, Goto
  <2> QED
    BY <1>a, <1>c, <2>1, <2>2 DEF NoRow
<1>12. ASSUME NEW r \in Runs, Boot(r) \/ Own(r) PROVE Settled' /\ Uncontested'
  <2>1. /\ UNCHANGED <<answered, pc, hup>> /\ phase[r] # "gone"
        /\ row' = [row EXCEPT !.starting = FALSE] \/ row' = [row EXCEPT !.runner = r]
        /\ \E step : Become(r, step)
    BY <1>12 DEF Boot, Own, invocations
  <2>2. row'.token = row.token
    BY <1>0, <2>1
  <2> QED
    BY <1>a, <1>b, <2>1, <2>2
<1>13. ASSUME NEW r \in Runs,
             \/ Source(r) \/ RemoveSourced(r) \/ Dial(r) \/ Unlink(r) \/ Listen(r)
             \/ AgentEnds(r) \/ Close(r) \/ Disown(r) \/ TidyRun(r) \/ HangUp(r)
             \/ CrashRun(r)
      PROVE  Settled' /\ Uncontested'
  <2>1. UNCHANGED <<answered, pc, hup>> /\ row' \in {row, NoRow} /\ phase[r] # "gone"
    BY <1>13 DEF Source, RemoveSourced, Dial, Unlink, Listen, AgentEnds, Close, Disown,
      TidyRun, HangUp, CrashRun, shared, invocations
  <2>2. \E step : Become(r, step)
    BY <1>13 DEF Source, RemoveSourced, Dial, Unlink, Listen, AgentEnds, Close, Disown,
      TidyRun, HangUp, CrashRun, Exit
  <2> QED
    BY <1>a, <1>b, <2>1, <2>2 DEF NoRow
<1>14. CASE UNCHANGED vars
  BY <1>14 DEF vars, Settled, Uncontested, Succeeded, Live
<1> QED
  BY <1>1, <1>2, <1>3, <1>4, <1>5, <1>6, <1>7, <1>8, <1>9, <1>10, <1>11, <1>12, <1>13,
    <1>14 DEF Next, StartStep, KillStep, RunStep

\* The name of the socket is used by live runs only, and beyond its dial a run that is
\* neither killed nor crowded is the only one.
LEMMA AloneStep ==
  ASSUME TypeOK, Listed, Alone, [Next]_vars
  PROVE  Alone'
<1>0. /\ phase \in [Runs -> Phases] /\ None \notin Runs /\ hup \subseteq Runs
      /\ session \in Runs \cup {None} /\ socket \in Runs \cup {None}
      /\ session # None => Live(session)
  BY ProcsAssumption DEF TypeOK, FilesOK, RunsOK, Live
<1> DEFINE Opening(r) == r \notin hup \cup crowded /\ phase[r] \in {"unlink", "listen", "serve"}
<1>a. \A r, q \in Runs : Opening(r) /\ Live(q) => q = r /\ session = r
  BY <1>0 DEF Alone, Listed, Live
<1>b. ASSUME UNCHANGED <<phase, hup, crowded, socket>> PROVE Alone'
  BY <1>b DEF Alone
\* A run that is not opening its socket is alone in going on, if it does.
<1>c. ASSUME NEW r \in Runs, Live(r), hup' = hup, crowded \subseteq crowded',
             \A q \in Runs \ {r} : q \in crowded' => q \in crowded,
             \E step \in Phases \ {"unlink", "listen", "serve"} : Become(r, step)
      PROVE  Alone'
  <2> SUFFICES ASSUME NEW q \in Runs \ (hup \cup crowded'),
                      phase'[q] \in {"unlink", "listen", "serve"}
               PROVE  FALSE
    BY <1>c DEF Alone
  <2>1. q # r /\ phase'[q] = phase[q]
    BY <1>0, <1>c DEF Become
  <2> QED
    BY <1>a, <1>c, <2>1
\* Nor does a kill leave one that is opening its socket.
<1>d. ASSUME KillSession \/ UNCHANGED <<session, hup, phase>>, UNCHANGED <<crowded, socket>>
      PROVE  Alone'
  <2>1. CASE UNCHANGED <<session, hup, phase>>
    BY <1>b, <1>d, <2>1
  <2>2. CASE KillSession
    <3> SUFFICES ASSUME NEW q \in Runs \ (hup' \cup crowded),
                        phase'[q] \in {"unlink", "listen", "serve"}
                 PROVE  FALSE \/ (session = None /\ UNCHANGED <<hup, phase>>)
      BY <1>b, <1>d DEF Alone
    <3>1. phase'[q] = phase[q] /\ q \notin hup
      BY <1>0, <2>2 DEF KillSession
    <3>2. session = q
      BY <1>a, <3>1 DEF Live
    <3> QED
      BY <1>0, <2>2, <3>2 DEF KillSession
  <2> QED
    BY <1>d, <2>1, <2>2
<1>1. ASSUME NEW p \in Starts, Attach(p) PROVE Alone'
  <2>1. UNCHANGED <<hup, crowded, socket>>
    BY <1>1 DEF Attach
  <2>2. CASE UNCHANGED <<session, by, phase>>
    BY <1>b, <2>1, <2>2
  <2>3. ASSUME NEW r \in Runs, session = None, Become(r, "source")
        PROVE  Alone'
    <3>1. \A q \in Runs : Opening(q) => FALSE
      BY <1>0, <1>a, <2>3 DEF Live
    <3>2. \A q \in Runs : phase'[q] \in {"unlink", "listen", "serve"} => phase'[q] = phase[q]
      BY <1>0, <2>3 DEF Become
    <3> QED
      BY <2>1, <3>1, <3>2 DEF Alone
  <2> QED
    BY <1>1, <2>2, <2>3 DEF Attach
<1>2. ASSUME NEW p \in Starts, Undo(p) PROVE Alone'
  <2>1. /\ KillSession \/ UNCHANGED <<session, hup, phase>>
        /\ UNCHANGED <<crowded, socket>>
    BY <1>2 DEF Undo
  <2> QED
    BY <1>d, <2>1
<1>3. ASSUME NEW k \in Kills, Kill(k) PROVE Alone'
  <2>1. KillSession /\ UNCHANGED <<crowded, socket>>
    BY <1>3 DEF Kill
  <2> QED
    BY <1>d, <2>1
<1>4. ASSUME NEW r \in Runs, Dial(r) PROVE Alone'
  <2>1. /\ UNCHANGED <<hup, socket>> /\ phase[r] = "dial" /\ Live(r)
        /\ crowded' = IF \E q \in hup : phase[q] # "gone" THEN crowded \cup {r} ELSE crowded
    BY <1>4 DEF Dial, shared, Live
  <2>2. CASE Become(r, "disown")
    BY <1>c, <2>1, <2>2 DEF Phases
  <2>3. CASE Become(r, "unlink")
    <3>1. \A q \in Runs \ {r} : Opening(q) => FALSE
      BY <1>a, <2>1
    <3>2. \A q \in Runs \ {r} : phase'[q] = phase[q]
      BY <1>0, <2>3 DEF Become
    <3>3. phase'[r] = "unlink"
      BY <1>0, <2>3 DEF Become
    <3>4. r \notin hup \cup crowded' => \A q \in hup : phase'[q] = "gone"
      BY <1>0, <2>1, <3>2
    <3> QED
      BY <2>1, <3>1, <3>2, <3>3, <3>4 DEF Alone
  <2> QED
    BY <1>4, <2>2, <2>3 DEF Dial
<1>5. ASSUME NEW r \in Runs, Unlink(r) PROVE Alone'
  <2>1. /\ UNCHANGED <<hup, crowded>> /\ phase[r] = "unlink" /\ Live(r)
        /\ Become(r, "listen") /\ socket' = None
    BY <1>5 DEF Unlink, Live
  <2>2. \A q \in Runs \ {r} : Opening(q) => FALSE
    BY <1>a, <2>1
  <2>3. phase'[r] = "listen" /\ \A q \in Runs \ {r} : phase'[q] = phase[q]
    BY <1>0, <2>1 DEF Become
  <2> QED
    BY <1>0, <2>1, <2>2, <2>3 DEF Alone
<1>6. ASSUME NEW r \in Runs, Listen(r) PROVE Alone'
  <2>1. UNCHANGED <<hup, crowded>> /\ phase[r] = "listen" /\ Live(r)
    BY <1>6 DEF Listen, Live
  <2>2. CASE Become(r, "disown")
    BY <1>c, <2>1, <2>2 DEF Phases
  <2>3. CASE socket' = r /\ Become(r, "serve")
    <3>1. \A q \in Runs \ {r} : Opening(q) => FALSE
      BY <1>a, <2>1
    <3>2. phase'[r] = "serve" /\ \A q \in Runs \ {r} : phase'[q] = phase[q]
      BY <1>0, <2>3 DEF Become
    <3> QED
      BY <1>0, <2>1, <2>3, <3>1, <3>2 DEF Alone
  <2> QED
    BY <1>6, <2>2, <2>3 DEF Listen
<1>7. ASSUME NEW r \in Runs, Close(r) PROVE Alone'
  <2>1. /\ UNCHANGED <<hup, crowded>> /\ Live(r)
        /\ Become(r, "unlink again") \/ Become(r, "disown")
    BY <1>7 DEF Close, Live
  <2> QED
    BY <1>c, <2>1 DEF Phases
<1>8. ASSUME NEW p \in Starts,
             \/ Look(p) \/ WriteFails(p) \/ Reserve(p) \/ Register(p)
             \/ WriteSnapshot(p) \/ AttachFails(p)
             \/ Capture(p) \/ NotReady(p) \/ Finalize(p) \/ Tidy(p) \/ Drop(p)
             \/ Interrupt(p) \/ Die(p) \/ Crash(p)
      PROVE  Alone'
  <2>1. UNCHANGED <<phase, hup, crowded, socket>>
    BY <1>8 DEF Look, WriteFails, Reserve, Register, WriteSnapshot, AttachFails, Capture,
      NotReady, Finalize,
      Tidy, Drop, Interrupt, Die, Crash, shared, runs
  <2> QED
    BY <1>b, <2>1
<1>9. ASSUME NEW k \in Kills, List(k) \/ Forget(k) PROVE Alone'
  <2>1. UNCHANGED <<phase, hup, crowded, socket>>
    BY <1>9 DEF List, Forget, shared, runs
  <2> QED
    BY <1>b, <2>1
<1>10. ASSUME NEW r \in Runs, TidyRun(r) \/ HangUp(r) \/ CrashRun(r) PROVE Alone'
  <2>1. hup' = hup /\ crowded' = crowded /\ Become(r, "gone") /\ Live(r)
    BY <1>10, Hung DEF TidyRun, HangUp, CrashRun, Exit, Live
  <2> QED
    BY <1>c, <2>1 DEF Phases
<1>11. ASSUME NEW r \in Runs,
             \/ Source(r) \/ RemoveSourced(r) \/ Boot(r) \/ Own(r) \/ AgentEnds(r)
             \/ Disown(r)
      PROVE  Alone'
  <2>1. /\ UNCHANGED <<hup, crowded>> /\ Live(r)
        /\ \E step \in Phases \ {"unlink", "listen", "serve"} : Become(r, step)
    BY <1>11 DEF Source, RemoveSourced, Boot, Own, AgentEnds, Disown, Exit, Live, Phases
  <2> QED
    BY <1>c, <2>1
<1>12. CASE UNCHANGED vars
  BY <1>12 DEF vars, Alone, shared, runs
<1> QED
  BY <1>1, <1>2, <1>3, <1>4, <1>5, <1>6, <1>7, <1>8, <1>9, <1>10, <1>11, <1>12 DEF Next,
    StartStep, KillStep, RunStep

----------------------------------------------------------------------------
\* A start gets from its last capture to success by the row alone.
LEMMA FinalizeOnly ==
  ASSUME TypeOK, [Next]_vars, NEW p \in Starts, pc[p] = "finalize", pc'[p] = "tidy"
  PROVE  row.token = p
<1>0. pc \in [Procs -> CliPcs] /\ Starts \subseteq Procs /\ Kills \subseteq Procs
      /\ Starts \cap Kills = {}
  BY ProcsAssumption DEF TypeOK, InvocationsOK, Procs
<1>1. ASSUME NEW q \in Procs, NEW step, Goto(q, step) PROVE q = p /\ step = "tidy"
  BY <1>0, <1>1 DEF Goto
<1>2. pc' # pc
  OBVIOUS
<1>3. PICK q \in Starts : StartStep(q) \/ Die(q) \/ Crash(q)
  <2>1. ASSUME NEW k \in Kills, KillStep(k) PROVE FALSE
    BY <1>0, <1>1, <2>1 DEF KillStep, List, Kill, Forget
  <2>2. ASSUME NEW r \in Runs, RunStep(r) PROVE FALSE
    BY <1>2, <2>2 DEF RunStep, invocations, Source, RemoveSourced, Boot, Own, Dial, Unlink,
      Listen, AgentEnds, Close, Disown, TidyRun, HangUp, CrashRun
  <2>3. ASSUME NEW q \in Starts, Interrupt(q) PROVE FALSE
    BY <1>2, <2>3 DEF Interrupt
  <2> QED
    BY <1>2, <2>1, <2>2, <2>3 DEF Next, vars
<1>4. Finalize(q)
  BY <1>0, <1>1, <1>3 DEF StartStep, Look, Reserve, Take, Register, WriteFails,
    WriteSnapshot, Attach, AttachFails,
    Capture, NotReady, Tidy, Undo, Drop, Die, Crash, Ends
<1> QED
  BY <1>0, <1>1, <1>4 DEF Finalize

\* A run that is alone, or not killed and not crowded by what it finds, finds no
\* listener when it dials and no file when it listens.
LEMMA OpensSocket ==
  ASSUME TypeOK, Listed, Alone, [Next]_vars, NEW r \in Runs \ (hup' \cup crowded'),
         phase[r] \in {"dial", "listen"}
  PROVE  phase'[r] # "disown"
<1>0. phase \in [Runs -> Phases] /\ None \notin Runs
  BY ProcsAssumption DEF TypeOK, RunsOK
<1> SUFFICES ASSUME phase'[r] = "disown" PROVE FALSE
  OBVIOUS
<1>1. ASSUME NEW q \in Runs, NEW step, Become(q, step) PROVE q = r /\ step = "disown"
  BY <1>0, <1>1 DEF Become
<1>2. ASSUME KillSession PROVE FALSE
  BY <1>0, <1>2 DEF KillSession
<1>3. phase' # phase
  OBVIOUS
<1>4. \E q \in Runs : RunStep(q)
  <2>1. ASSUME NEW p \in Starts, StartStep(p) PROVE FALSE
    BY <1>1, <1>2, <1>3, <2>1 DEF StartStep, runs, Look, WriteFails, Reserve, Register,
      WriteSnapshot, Attach,
      AttachFails, Capture, NotReady, Finalize, Tidy, Undo, Drop
  <2>2. ASSUME NEW k \in Kills, KillStep(k) PROVE FALSE
    BY <1>2, <1>3, <2>2 DEF KillStep, List, Kill, Forget, runs
  <2>3. ASSUME NEW p \in Starts, Interrupt(p) \/ Die(p) \/ Crash(p) PROVE FALSE
    BY <1>3, <2>3 DEF Interrupt, Die, Crash, runs
  <2> QED
    BY <1>3, <2>1, <2>2, <2>3 DEF Next, vars
<1>5. Dial(r) \/ Listen(r)
  <2>1. PICK q \in Runs : RunStep(q)
    BY <1>4
  <2>2. Dial(q) \/ Listen(q) \/ Close(q)
    BY <1>1, <2>1 DEF RunStep, Exit, Source, RemoveSourced, Boot, Own, Unlink, AgentEnds,
      Disown,
      TidyRun, HangUp, CrashRun
  <2>3. q = r
    BY <1>1, <2>2 DEF Dial, Listen, Close
  <2> QED
    BY <2>2, <2>3 DEF Close
<1>6. CASE Dial(r)
  <2>1. /\ socket \in Listening /\ r \notin hup
        /\ \A q \in hup : phase[q] = "gone"
    BY <1>1, <1>6 DEF Dial
  <2>2. socket \in Runs /\ Live(socket) /\ Live(r) /\ socket # r
    BY <1>6, <2>1 DEF Listening, Live, Dial
  <2> QED
    BY <1>0, <2>1, <2>2 DEF Listed, Live
<1>7. CASE Listen(r)
  <2>1. /\ socket # None /\ phase[r] = "listen" /\ r \notin hup \cup crowded
    BY <1>1, <1>7 DEF Listen
  <2> QED
    BY <2>1 DEF Alone
<1> QED
  BY <1>5, <1>6, <1>7

----------------------------------------------------------------------------
LEMMA Initially == ASSUME Init PROVE IInv
<1> USE ProcsAssumption, BoundsAssumption DEF Init
<1>1. FilesOK /\ FaultsOK
  <2>1. 0 \in 0..MaxFaults /\ 0 \in 0..MaxFaults
    BY BoundsAssumption
  <2>2. 0 \in 0..MaxFaults
    BY <2>1
  <2> QED
    BY <2>2 DEF FilesOK, FaultsOK, NoRow
<1>2. InvocationsOK
  BY DEF InvocationsOK, Procs, CliPcs
<1>3. RunsOK
  BY DEF RunsOK, Phases
<1>4. Listed /\ Made /\ Exclusive /\ Reserved /\ Looked /\ Fresh /\ Alone
  BY DEF Listed, Live, Made, Exclusive, Reserved, Looked, Fresh, Alone, Writing, NoRow,
    Procs
<1>5. Kept /\ Token /\ Answer /\ Settled /\ Uncontested /\ EnvOwn
  BY DEF Kept, Token, Answer, Settled, Uncontested, Succeeded, EnvOwn, NoRow, Procs
<1> QED
  BY <1>1, <1>2, <1>3, <1>4, <1>5 DEF IInv, TypeOK

LEMMA Inductive == IInv /\ [Next]_vars => IInv'
<1> SUFFICES ASSUME IInv, [Next]_vars PROVE IInv'
  OBVIOUS
<1> USE DEF IInv
<1>1. TypeOK'
  BY FilesStep, InvocationsStep, RunsStep, FaultsStep DEF TypeOK
<1>2. Listed' /\ Made' /\ Exclusive' /\ Reserved' /\ Looked'
  BY ListedStep, MadeStep, ExclusiveStep, ReservedStep, LookedStep
<1>3. Fresh' /\ EnvOwn'
  BY FreshStep, EnvOwnStep
<1>4. Kept' /\ Token' /\ Answer' /\ Settled' /\ Uncontested' /\ Alone'
  BY KeptStep, TokenStep, AnswerStep, SettledStep, AloneStep
<1> QED
  BY <1>1, <1>2, <1>3, <1>4

\* The state file, socket, row and session are ever in together.
THEOREM Invariant == Spec => []IInv
  BY Initially, Inductive, PTL DEF Spec

\* Types, and that shpool lists no session whose run is over or killed.
THEOREM TypeCorrect == Spec => []TypeOK
<1>1. IInv => TypeOK
  BY DEF IInv
<1> QED
  BY <1>1, Invariant, PTL

\* No agent runs with the credentials of another start than its session's, unless
\* the reservation of one of the two was ended by somebody else.
THEOREM OwnCredentials == Spec => []EnvOwn
<1>1. IInv => EnvOwn
  BY DEF IInv
<1> QED
  BY <1>1, Invariant, PTL

\* Unless somebody is killed, a start that has ended has no reservation, and the
\* credentials file is there only while its writer is still to remove it.
THEOREM StartsCleanUp == Spec => []NothingLeft
<1>1. IInv => NothingLeft
  <2> SUFFICES ASSUME IInv, ~left PROVE NothingLeft
    BY DEF NothingLeft
  <2> QED
    BY DEF IInv, Kept, Tidying, NothingLeft
<1> QED
  BY <1>1, Invariant, PTL

\* A start reports success only on the answer of its own session, of one that was
\* killed, of one whose start had lost its reservation, or of one that went live
\* between its look at the sessions and its reservation; and no two starts succeed on
\* a session that is not killed.
THEOREM OwnSuccess == Spec => SuccessIsOwn
<1>1. IInv /\ [Next]_vars =>
        [\A p \in Starts :
           pc[p] = "finalize" /\ pc'[p] = "tidy" =>
             LET r == answered[p] IN
             \/ r \in hup
             \/ /\ by[r] = p \/ p \in overtaken \/ by[r] \in displaced
                /\ \A q \in Starts \ {p} : answered[q] = r => pc[q] \notin {"tidy", "done"}]_vars
  <2> SUFFICES ASSUME IInv, [Next]_vars, NEW p \in Starts,
                      pc[p] = "finalize", pc'[p] = "tidy", answered[p] \notin hup
               PROVE  /\ by[answered[p]] = p \/ p \in overtaken \/ by[answered[p]] \in displaced
                      /\ \A q \in Starts \ {p} :
                           answered[q] = answered[p] => pc[q] \notin {"tidy", "done"}
    OBVIOUS
  <2>1. row.token = p
    BY FinalizeOnly DEF IInv
  <2>2. by[answered[p]] = p \/ p \in overtaken \/ by[answered[p]] \in displaced
    BY <2>1 DEF IInv, Answer
  <2>3. answered[p] \in Runs \ hup
    BY DEF IInv, TypeOK, InvocationsOK, Answer
  <2>4. \A q \in Starts : ~Succeeded(q, answered[p])
    BY <2>1, <2>3 DEF IInv, Uncontested
  <2> QED
    BY <2>2, <2>4 DEF Succeeded
<1> QED
  BY <1>1, Invariant, PTL DEF Spec, SuccessIsOwn

\* A runner that is neither killed nor has met a killed one still alive opens its
\* socket and is the one reached by the session's name.
THEOREM RunnerReachable == Spec => Reachable
<1>1. IInv /\ [Next]_vars =>
        [\A r \in Runs \ (hup' \cup crowded') :
           /\ phase[r] \in {"dial", "listen"} => phase'[r] # "disown"
           /\ phase'[r] = "serve" => socket' = r]_vars
  <2> SUFFICES ASSUME IInv, [Next]_vars, NEW r \in Runs \ (hup' \cup crowded')
               PROVE  /\ phase[r] \in {"dial", "listen"} => phase'[r] # "disown"
                      /\ phase'[r] = "serve" => socket' = r
    OBVIOUS
  <2>1. IInv'
    BY Inductive
  <2>2. phase'[r] = "serve" => socket' = r
    BY <2>1 DEF IInv, Alone
  <2>3. phase[r] \in {"dial", "listen"} => phase'[r] # "disown"
    BY OpensSocket DEF IInv
  <2> QED
    BY <2>2, <2>3
<1> QED
  BY <1>1, Invariant, PTL DEF Spec, Reachable
================================================================================
