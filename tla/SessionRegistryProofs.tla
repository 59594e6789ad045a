------------------------- MODULE SessionRegistryProofs -------------------------
(***************************************************************************)
(* That a thread never has two holders, for any numbers of sessions,       *)
(* threads, commands, runners and crashes, and that the protocol           *)
(* implements ThreadOwnership.                                             *)
(*                                                                         *)
(* Types and the shape of the state (who is hosted where, who holds which  *)
(* lock) come first, one step of the proof per action.  For the claims,    *)
(* every action is one of three kinds: it gains nothing, it gains threads  *)
(* for its own session only, or it moves a process forward in its owners   *)
(* check.  MissesNobody is then kept whatever the action was.              *)
(*                                                                         *)
(* SparesReplacement is about the pid in a row: only the runner of a       *)
(* session ever writes it, so an older one's cleanup finds somebody        *)
(* else's.  NoDeadlock is about the locks: who has which (LocksOwned).     *)
(***************************************************************************)
EXTENDS SessionRegistry, TLAPS

\* What RowOf returns is a row, whether sessions.json has one or not.
LEMMA RowType == ASSUME TypeOK, NEW n \in Names PROVE RowOf(n) \in Row
  BY NoneAssumption DEF TypeOK, RowOf, Row, BlankRow

\* Rows stay rows under the updates the code makes, and the row a command
\* reserves is one.
LEMMA RowUpdates ==
  ASSUME TypeOK, NEW n \in Names
  PROVE  /\ [RowOf(n) EXCEPT !.starting = FALSE] \in Row
         /\ \A r \in Runners : [RowOf(n) EXCEPT !.pid = r] \in Row
         /\ meta[n] # None =>
              /\ RowOf(n) = meta[n]
              /\ [meta[n] EXCEPT !.starting = FALSE] \in Row
              /\ [meta[n] EXCEPT !.starting = FALSE, !.token = None] \in Row
              /\ \A t \in Threads : [meta[n] EXCEPT !.resume = t] \in Row
         /\ RowOf(n).starting \/ RowOf(n).token # None \/ RowOf(n).pid # None
              => meta[n] # None
         /\ \A p \in Clis : thread[p] \in Threads \cup {None} => Reservation(p) \in Row
<1>1. BlankRow \in Row
  BY DEF Row, BlankRow
<1>2. meta[n] # None => meta[n] \in Row
  BY DEF TypeOK
<1>3. RowOf(n) \in Row
  BY <1>1, <1>2 DEF RowOf
<1>4. \A row \in Row :
        /\ [row EXCEPT !.starting = FALSE] \in Row
        /\ \A r \in Runners : [row EXCEPT !.pid = r] \in Row
        /\ [row EXCEPT !.starting = FALSE, !.token = None] \in Row
        /\ \A t \in Threads : [row EXCEPT !.resume = t] \in Row
  BY DEF Row
<1>5. \A p \in Clis : thread[p] \in Threads \cup {None} => Reservation(p) \in Row
  BY DEF Reservation, Row
<1>6. meta[n] = None => RowOf(n) = BlankRow
  BY DEF RowOf
<1>7. /\ ~BlankRow.starting /\ BlankRow.token = None /\ BlankRow.pid = None
  BY DEF BlankRow
<1> QED
  BY <1>2, <1>3, <1>4, <1>5, <1>6, <1>7 DEF RowOf

\* Letting go of locks frees those of the given processes and no others.
LEMMA FreedLocks ==
  ASSUME TypeOK, NEW P
  PROVE  /\ Freed(threadLock, P) \in [Threads -> Procs \cup {None}]
         /\ Freed(startLock, P) \in [Names -> Clis \cup {None}]
         /\ Freed(live, P) \in [Names -> Runners \cup {None}]
  BY DEF Freed, TypeOK

\* Returning from a command or a tracker round keeps the types.
LEMMA FinishType ==
  ASSUME TypeOK, NEW p \in Procs, NEW result, Finish(p, result),
         p \in Clis => result \in CliPcs,
         p \in Runners => result \in TrackerPcs
  PROVE  /\ threadLock' \in [Threads -> Procs \cup {None}]
         /\ pc' \in [Procs -> CliPcs \cup TrackerPcs]
         /\ \A q \in Clis : pc'[q] \in CliPcs
         /\ \A q \in Runners : pc'[q] \in TrackerPcs
         /\ snap' \in [Procs -> SUBSET Names]
         /\ owners' \in [Procs -> SUBSET Names]
  BY FreedLocks, ProcsAssumption DEF Finish, Goto, TypeOK, Procs

\* Every step keeps the types; it needs the shape for the fields that must not
\* be None where they are used.
LEMMA TypeStep == ASSUME TypeOK, NamesKnown, AgentsHosted, LocksHeld, [Next]_vars PROVE TypeOK'
<1> USE NoneAssumption, ProcsAssumption, RowType DEF Procs, registry, request,
     CliPcs, TrackerPcs, RunStates
<1>1. ASSUME NEW p \in Procs, LockThread(p) PROVE TypeOK'
  BY <1>1 DEF LockThread, Goto, TypeOK, NamesKnown
<1>2. ASSUME NEW p \in Procs, ListSessions(p) PROVE TypeOK'
  BY <1>2 DEF ListSessions, Goto, LiveNames, TypeOK, NamesKnown
<1>3. ASSUME NEW p \in Procs, DecideFree(p) PROVE TypeOK'
  BY <1>3 DEF DecideFree, Goto, AfterDecide, TypeOK, NamesKnown
<1>4. ASSUME NEW p \in Procs, ListFails(p) PROVE TypeOK'
  BY <1>4, FinishType DEF ListFails, TypeOK, NamesKnown
<1>5. ASSUME NEW p \in Procs, Collect(p) PROVE TypeOK'
  BY <1>5 DEF Collect, Unseen, Goto, Kept, Owned, TypeOK, NamesKnown
<1>6. ASSUME NEW p \in Procs, Discover(p) PROVE TypeOK'
  <2>1. PICK n \in snap[p] :
          /\ snap' = [snap EXCEPT ![p] = @ \ {n}]
          /\ owners' = [owners EXCEPT ![p] = @ \cup {n}]
               \/ owners' = [owners EXCEPT ![p] = @ \ {n}]
    BY <1>6 DEF Discover
  <2>2. \E c \in {"discover", "decide"} : pc' = [pc EXCEPT ![p] = c]
    BY <1>6 DEF Discover, Unseen, Goto
  <2>3. snap' \in [Procs -> SUBSET Names] /\ owners' \in [Procs -> SUBSET Names]
    BY <2>1 DEF TypeOK
  <2>4. /\ pc' \in [Procs -> CliPcs \cup TrackerPcs]
        /\ \A q \in Clis : pc'[q] \in CliPcs
        /\ \A q \in Runners : pc'[q] \in TrackerPcs
    BY <2>2 DEF TypeOK
  <2> QED
    BY <1>6, <2>3, <2>4 DEF Discover, TypeOK
<1>7. ASSUME NEW p \in Clis, Invoke(p) PROVE TypeOK'
  BY <1>7, CommandsAssumption DEF Invoke, Goto, FirstStep, TypeOK, NamesKnown, Ops
<1>8. ASSUME NEW p \in Clis, DecideRefuse(p) PROVE TypeOK'
  BY <1>8, FinishType DEF DecideRefuse, TypeOK, NamesKnown
<1>9. ASSUME NEW p \in Clis, Reserve(p) PROVE TypeOK'
  BY <1>9 DEF Reserve, Goto, TypeOK, NamesKnown
<1>10. ASSUME NEW p \in Clis, ReserveRefused(p) PROVE TypeOK'
  BY <1>10, FinishType DEF ReserveRefused, TypeOK, NamesKnown
<1>11. ASSUME NEW p \in Clis, WriteReservation(p) PROVE TypeOK'
  BY <1>11, FreedLocks, RowUpdates DEF WriteReservation, Goto, Reservation,
       TypeOK, NamesKnown
<1>12. ASSUME NEW p \in Clis, AlreadyStarting(p) PROVE TypeOK'
  BY <1>12, FinishType, FreedLocks DEF AlreadyStarting, TypeOK, NamesKnown
<1>13. ASSUME NEW p \in Clis, AttachCreates(p) PROVE TypeOK'
  BY <1>13 DEF AttachCreates, Goto, AfterAttach, TypeOK, NamesKnown
<1>14. ASSUME NEW p \in Clis, AttachJoins(p) PROVE TypeOK'
  BY <1>14 DEF AttachJoins, Goto, AfterAttach, TypeOK, NamesKnown
<1>15. ASSUME NEW p \in Clis, StartFails(p) PROVE TypeOK'
  BY <1>15 DEF StartFails, Goto, TypeOK, NamesKnown
<1>16. ASSUME NEW p \in Clis, ControlReady(p) PROVE TypeOK'
  BY <1>16 DEF ControlReady, Goto, TypeOK, NamesKnown
<1>17. ASSUME NEW p \in Clis, Finalize(p) PROVE TypeOK'
  <2>1. name[p] \in Names /\ meta[name[p]] # None
    BY <1>17, RowUpdates DEF Finalize, OwnsStart, NamesKnown
  <2>2. meta' \in [Names -> Row \cup {None}]
    BY <1>17, <2>1, RowUpdates DEF Finalize, TypeOK
  <2> QED
    BY <1>17, <2>2, FinishType DEF Finalize, TypeOK
<1>18. ASSUME NEW p \in Clis, FinalizeFails(p) PROVE TypeOK'
  BY <1>18 DEF FinalizeFails, Goto, TypeOK, NamesKnown
<1>19. ASSUME NEW p \in Clis, CleanupCheck(p) PROVE TypeOK'
  BY <1>19 DEF CleanupCheck, Goto, TypeOK, NamesKnown
<1>20. ASSUME NEW p \in Clis, CleanupNotOwned(p) PROVE TypeOK'
  BY <1>20, FinishType DEF CleanupNotOwned, TypeOK, NamesKnown
<1>21. ASSUME NEW p \in Clis, CleanupKill(p) PROVE TypeOK'
  BY <1>21, FreedLocks DEF CleanupKill, EndSession, TypeOK, NamesKnown
<1>22. ASSUME NEW p \in Clis, CleanupDelete(p) PROVE TypeOK'
  BY <1>22, FinishType, FreedLocks DEF CleanupDelete, TypeOK, NamesKnown
<1>23. ASSUME NEW p \in Clis, Detach(p) PROVE TypeOK'
  BY <1>23, FinishType DEF Detach, TypeOK, NamesKnown
<1>24. ASSUME NEW p \in Clis, AttachLost(p) PROVE TypeOK'
  BY <1>24 DEF AttachLost, Goto, TypeOK, NamesKnown
<1>25. ASSUME NEW p \in Clis, LeaveLive(p) PROVE TypeOK'
  BY <1>25, FinishType DEF LeaveLive, TypeOK, NamesKnown
<1>26. ASSUME NEW p \in Clis, LeaveDead(p) PROVE TypeOK'
  BY <1>26 DEF LeaveDead, Goto, TypeOK, NamesKnown
<1>27. ASSUME NEW p \in Clis, OpenRegister(p) PROVE TypeOK'
  BY <1>27 DEF OpenRegister, Goto, TypeOK, NamesKnown
<1>28. ASSUME NEW p \in Clis, OpenUnregister(p) PROVE TypeOK'
  BY <1>28, FinishType DEF OpenUnregister, TypeOK, NamesKnown
<1>29. ASSUME NEW p \in Clis, RequireList(p) PROVE TypeOK'
  BY <1>29 DEF RequireList, Goto, LiveNames, TypeOK, NamesKnown
<1>30. ASSUME NEW p \in Clis, RequireFound(p) PROVE TypeOK'
  BY <1>30 DEF RequireFound, Goto, Kept, Owned, TypeOK, NamesKnown
<1>31. ASSUME NEW p \in Clis, RequireOver(p) PROVE TypeOK'
  BY <1>31, FinishType DEF RequireOver, Kept, TypeOK, NamesKnown
<1>32. ASSUME NEW p \in Clis, Identify(p) PROVE TypeOK'
  BY <1>32 DEF Identify, Goto, Discovered, RunnersOf, TypeOK, NamesKnown
<1>33. ASSUME NEW p \in Clis, IdentifyFails(p) PROVE TypeOK'
  BY <1>33, FinishType DEF IdentifyFails, TypeOK, NamesKnown
<1>34. ASSUME NEW p \in Clis, Kill(p) PROVE TypeOK'
  BY <1>34, FreedLocks DEF Kill, EndSession, TypeOK, NamesKnown
<1>35. ASSUME NEW p \in Clis, KillFails(p) PROVE TypeOK'
  BY <1>35, FinishType DEF KillFails, TypeOK, NamesKnown
<1>36. ASSUME NEW p \in Clis, ForgetKilled(p) PROVE TypeOK'
  BY <1>36, FinishType DEF ForgetKilled, TypeOK, NamesKnown
<1>37. ASSUME NEW p \in Clis, ForgetRestarted(p) PROVE TypeOK'
  BY <1>37 DEF ForgetRestarted, Goto, TypeOK, NamesKnown
<1>38. ASSUME NEW p \in Clis, Crash(p) PROVE TypeOK'
  BY <1>38, BoundAssumption, FreedLocks, FinishType DEF Crash, TypeOK,
       NamesKnown, Ended
<1>39. ASSUME NEW p \in Runners, Boot(p) PROVE TypeOK'
  <2>1. RowOf(name[p]).resume \in Threads \cup {None}
    BY <1>39 DEF Boot, NamesKnown, Row
  <2> QED
    BY <1>39, <2>1 DEF Boot, TypeOK
<1>40. ASSUME NEW p \in Runners, Register(p) PROVE TypeOK'
  BY <1>40, RowUpdates DEF Register, TypeOK, NamesKnown
<1>56. ASSUME NEW p \in Runners, ClearStarting(p) PROVE TypeOK'
  BY <1>56, RowUpdates DEF ClearStarting, TypeOK, NamesKnown
<1>41. ASSUME NEW p \in Runners, Spawn(p) PROVE TypeOK'
  <2>1. meta' \in [Names -> Row \cup {None}]
    BY <1>41, RowUpdates DEF Spawn, NamesKnown, TypeOK
  <2>2. /\ pc' \in [Procs -> CliPcs \cup TrackerPcs]
        /\ \A q \in Clis : pc'[q] \in CliPcs
        /\ \A q \in Runners : pc'[q] \in TrackerPcs
    BY <1>41 DEF Spawn, Goto, TypeOK
  <2> QED
    BY <1>41, <2>1, <2>2 DEF Spawn, TypeOK
<1>42. ASSUME NEW p \in Runners, BootFails(p) PROVE TypeOK'
  BY <1>42, FreedLocks DEF BootFails, ProcessGone, Goto, TypeOK, NamesKnown
<1>43. ASSUME NEW p \in Runners, ExitKeepsRow(p) PROVE TypeOK'
  BY <1>43 DEF ExitKeepsRow, TypeOK, NamesKnown
<1>44. ASSUME NEW p \in Runners, ExitUnlisted(p) PROVE TypeOK'
  BY <1>44 DEF ExitUnlisted, TypeOK, NamesKnown
<1>45. ASSUME NEW p \in Runners, ExitDeletesRow(p) PROVE TypeOK'
  BY <1>45 DEF ExitDeletesRow, TypeOK, NamesKnown
<1>46. ASSUME NEW p \in Runners, Exit(p) PROVE TypeOK'
  BY <1>46, FreedLocks DEF Exit, ProcessGone, Goto, TypeOK, NamesKnown
<1>47. ASSUME NEW p \in Runners, AgentExits(p) PROVE TypeOK'
  BY <1>47 DEF AgentExits, TypeOK, NamesKnown
<1>48. ASSUME NEW p \in Runners, NEW t \in Threads, AgentOpens(p, t) PROVE TypeOK'
  BY <1>48 DEF AgentOpens, TypeOK, NamesKnown
<1>49. ASSUME NEW p \in Runners, NEW t \in Threads, AgentSwitches(p, t) PROVE TypeOK'
  BY <1>49 DEF AgentSwitches, TypeOK, NamesKnown
<1>50. ASSUME NEW p \in Runners, DecideConflict(p) PROVE TypeOK'
  BY <1>50, FinishType DEF DecideConflict, TypeOK, NamesKnown
<1>51. ASSUME NEW p \in Runners, Track(p) PROVE TypeOK'
  BY <1>51 DEF Track, Goto, TypeOK, NamesKnown
<1>52. ASSUME NEW p \in Runners, Claim(p) PROVE TypeOK'
  <2>1. name[p] \in Names /\ thread[p] \in Threads
    BY <1>52 DEF Claim, NamesKnown, AgentsHosted, LocksHeld, Cleared, TypeOK
  <2>2. meta' \in [Names -> Row \cup {None}]
    <3>1. RowOf(name[p]).pid = p => meta[name[p]] # None
      BY <2>1, RowUpdates
    <3>2. RowOf(name[p]).pid = p
            => [meta[name[p]] EXCEPT !.resume = thread[p]] \in Row
      BY <2>1, <3>1, RowUpdates
    <3> QED
      BY <1>52, <2>1, <3>2 DEF Claim, TypeOK
  <2> QED
    BY <1>52, <2>1, <2>2, FinishType DEF Claim, TypeOK
<1>53. ASSUME NEW n \in Names, Expire(n) PROVE TypeOK'
  BY <1>53, RowUpdates DEF Expire, TypeOK
<1>54. CASE UNCHANGED vars
  BY <1>54 DEF TypeOK, vars
<1>55. ASSUME NEW p \in Clis, CommandFails(p) PROVE TypeOK'
  BY <1>55 DEF CommandFails, Goto, TypeOK, NamesKnown
<1> QED
  BY <1>1, <1>2, <1>3, <1>4, <1>5, <1>6, <1>7, <1>8, <1>9, <1>10, <1>11, <1>12,
       <1>13, <1>14, <1>15, <1>16, <1>17, <1>18, <1>19, <1>20, <1>21, <1>22, <1>23,
       <1>24, <1>25, <1>26, <1>27, <1>28, <1>29, <1>30, <1>31, <1>32, <1>33, <1>34,
       <1>35, <1>36, <1>37, <1>38, <1>39, <1>40, <1>41, <1>42, <1>43, <1>44, <1>45,
       <1>46, <1>47, <1>48, <1>49, <1>50, <1>51, <1>52, <1>53, <1>54, <1>55, <1>56
       DEF Next,
       CliStep, OwnersCheck, Start, Attached, Manage, MainStep, AgentStep,
       TrackerStep

\* Every step keeps processes named, agents hosted and thread locks held by
\* those who check or have been cleared.
LEMMA ShapeStep ==
  ASSUME TypeOK, NamesKnown, AgentsHosted, LocksHeld, [Next]_vars
  PROVE  NamesKnown' /\ AgentsHosted' /\ LocksHeld'
<1> USE NoneAssumption, ProcsAssumption DEF Procs, registry, request, CliPcs,
     TrackerPcs, RunStates, TypeOK, NamesKnown, AgentsHosted, LocksHeld, Checking,
     Cleared
<1>1. ASSUME NEW p \in Procs, LockThread(p)
      PROVE  NamesKnown' /\ AgentsHosted' /\ LocksHeld'
  BY <1>1 DEF LockThread, Goto
<1>2. ASSUME NEW p \in Procs, ListSessions(p)
      PROVE  NamesKnown' /\ AgentsHosted' /\ LocksHeld'
  BY <1>2 DEF ListSessions, Goto
<1>3. ASSUME NEW p \in Procs, DecideFree(p)
      PROVE  NamesKnown' /\ AgentsHosted' /\ LocksHeld'
  BY <1>3 DEF DecideFree, Goto, AfterDecide
<1>4. ASSUME NEW p \in Procs, ListFails(p)
      PROVE  NamesKnown' /\ AgentsHosted' /\ LocksHeld'
  BY <1>4 DEF ListFails, Finish, Goto, Freed
<1>5. ASSUME NEW p \in Procs, Collect(p)
      PROVE  NamesKnown' /\ AgentsHosted' /\ LocksHeld'
  BY <1>5 DEF Collect, Unseen, Goto
<1>6. ASSUME NEW p \in Procs, Discover(p)
      PROVE  NamesKnown' /\ AgentsHosted' /\ LocksHeld'
  BY <1>6 DEF Discover, Unseen, Goto
<1>7. ASSUME NEW p \in Clis, Invoke(p)
      PROVE  NamesKnown' /\ AgentsHosted' /\ LocksHeld'
  BY <1>7, CommandsAssumption DEF Invoke, Goto, FirstStep, Ops
<1>8. ASSUME NEW p \in Clis, DecideRefuse(p)
      PROVE  NamesKnown' /\ AgentsHosted' /\ LocksHeld'
  BY <1>8 DEF DecideRefuse, Finish, Goto, Freed
<1>9. ASSUME NEW p \in Clis, Reserve(p)
      PROVE  NamesKnown' /\ AgentsHosted' /\ LocksHeld'
  BY <1>9 DEF Reserve, Goto
<1>10. ASSUME NEW p \in Clis, ReserveRefused(p)
      PROVE  NamesKnown' /\ AgentsHosted' /\ LocksHeld'
  BY <1>10 DEF ReserveRefused, Finish, Goto, Freed
<1>11. ASSUME NEW p \in Clis, WriteReservation(p)
      PROVE  NamesKnown' /\ AgentsHosted' /\ LocksHeld'
  BY <1>11 DEF WriteReservation, Goto
<1>12. ASSUME NEW p \in Clis, AlreadyStarting(p)
      PROVE  NamesKnown' /\ AgentsHosted' /\ LocksHeld'
  BY <1>12 DEF AlreadyStarting, Finish, Goto, Freed
<1>13. ASSUME NEW p \in Clis, AttachCreates(p)
      PROVE  NamesKnown' /\ AgentsHosted' /\ LocksHeld'
  BY SMTT(30), <1>13 DEF AttachCreates, Goto, AfterAttach
<1>14. ASSUME NEW p \in Clis, AttachJoins(p)
      PROVE  NamesKnown' /\ AgentsHosted' /\ LocksHeld'
  BY <1>14 DEF AttachJoins, Goto, AfterAttach
<1>15. ASSUME NEW p \in Clis, StartFails(p)
      PROVE  NamesKnown' /\ AgentsHosted' /\ LocksHeld'
  BY <1>15 DEF StartFails, Goto
<1>16. ASSUME NEW p \in Clis, ControlReady(p)
      PROVE  NamesKnown' /\ AgentsHosted' /\ LocksHeld'
  BY <1>16 DEF ControlReady, Goto
<1>17. ASSUME NEW p \in Clis, Finalize(p)
      PROVE  NamesKnown' /\ AgentsHosted' /\ LocksHeld'
  BY <1>17 DEF Finalize, Finish, Goto, Freed
<1>18. ASSUME NEW p \in Clis, FinalizeFails(p)
      PROVE  NamesKnown' /\ AgentsHosted' /\ LocksHeld'
  BY <1>18 DEF FinalizeFails, Goto
<1>19. ASSUME NEW p \in Clis, CleanupCheck(p)
      PROVE  NamesKnown' /\ AgentsHosted' /\ LocksHeld'
  BY <1>19 DEF CleanupCheck, Goto
<1>20. ASSUME NEW p \in Clis, CleanupNotOwned(p)
      PROVE  NamesKnown' /\ AgentsHosted' /\ LocksHeld'
  BY <1>20 DEF CleanupNotOwned, Finish, Goto, Freed
<1>21. ASSUME NEW p \in Clis, CleanupKill(p)
      PROVE  NamesKnown' /\ AgentsHosted' /\ LocksHeld'
  BY <1>21 DEF CleanupKill, EndSession, Freed
<1>22. ASSUME NEW p \in Clis, CleanupDelete(p)
      PROVE  NamesKnown' /\ AgentsHosted' /\ LocksHeld'
  BY <1>22 DEF CleanupDelete, Finish, Goto, Freed
<1>23. ASSUME NEW p \in Clis, Detach(p)
      PROVE  NamesKnown' /\ AgentsHosted' /\ LocksHeld'
  BY <1>23 DEF Detach, Finish, Goto, Freed
<1>24. ASSUME NEW p \in Clis, AttachLost(p)
      PROVE  NamesKnown' /\ AgentsHosted' /\ LocksHeld'
  BY <1>24 DEF AttachLost, Goto
<1>25. ASSUME NEW p \in Clis, LeaveLive(p)
      PROVE  NamesKnown' /\ AgentsHosted' /\ LocksHeld'
  BY <1>25 DEF LeaveLive, Finish, Goto, Freed
<1>26. ASSUME NEW p \in Clis, LeaveDead(p)
      PROVE  NamesKnown' /\ AgentsHosted' /\ LocksHeld'
  BY <1>26 DEF LeaveDead, Goto
<1>27. ASSUME NEW p \in Clis, OpenRegister(p)
      PROVE  NamesKnown' /\ AgentsHosted' /\ LocksHeld'
  BY <1>27 DEF OpenRegister, Goto
<1>28. ASSUME NEW p \in Clis, OpenUnregister(p)
      PROVE  NamesKnown' /\ AgentsHosted' /\ LocksHeld'
  BY <1>28 DEF OpenUnregister, Finish, Goto, Freed
<1>29. ASSUME NEW p \in Clis, RequireList(p)
      PROVE  NamesKnown' /\ AgentsHosted' /\ LocksHeld'
  BY <1>29 DEF RequireList, Goto
<1>30. ASSUME NEW p \in Clis, RequireFound(p)
      PROVE  NamesKnown' /\ AgentsHosted' /\ LocksHeld'
  BY <1>30 DEF RequireFound, Goto
<1>31. ASSUME NEW p \in Clis, RequireOver(p)
      PROVE  NamesKnown' /\ AgentsHosted' /\ LocksHeld'
  BY <1>31 DEF RequireOver, Finish, Goto, Freed
<1>32. ASSUME NEW p \in Clis, Identify(p)
      PROVE  NamesKnown' /\ AgentsHosted' /\ LocksHeld'
  BY <1>32 DEF Identify, Goto, Discovered, RunnersOf
<1>33. ASSUME NEW p \in Clis, IdentifyFails(p)
      PROVE  NamesKnown' /\ AgentsHosted' /\ LocksHeld'
  BY <1>33 DEF IdentifyFails, Finish, Goto, Freed
<1>34. ASSUME NEW p \in Clis, Kill(p)
      PROVE  NamesKnown' /\ AgentsHosted' /\ LocksHeld'
  BY <1>34 DEF Kill, EndSession, Freed
<1>35. ASSUME NEW p \in Clis, KillFails(p)
      PROVE  NamesKnown' /\ AgentsHosted' /\ LocksHeld'
  BY <1>35 DEF KillFails, Finish, Goto, Freed
<1>36. ASSUME NEW p \in Clis, ForgetKilled(p)
      PROVE  NamesKnown' /\ AgentsHosted' /\ LocksHeld'
  BY <1>36 DEF ForgetKilled, Finish, Goto, Freed
<1>37. ASSUME NEW p \in Clis, ForgetRestarted(p)
      PROVE  NamesKnown' /\ AgentsHosted' /\ LocksHeld'
  BY <1>37 DEF ForgetRestarted, Goto
<1>38. ASSUME NEW p \in Clis, Crash(p)
      PROVE  NamesKnown' /\ AgentsHosted' /\ LocksHeld'
  BY <1>38 DEF Crash, Finish, Goto, Freed, Ended
<1>39. ASSUME NEW p \in Runners, Boot(p)
      PROVE  NamesKnown' /\ AgentsHosted' /\ LocksHeld'
  BY <1>39 DEF Boot
<1>40. ASSUME NEW p \in Runners, Register(p)
      PROVE  NamesKnown' /\ AgentsHosted' /\ LocksHeld'
  BY <1>40 DEF Register
<1>56. ASSUME NEW p \in Runners, ClearStarting(p)
      PROVE  NamesKnown' /\ AgentsHosted' /\ LocksHeld'
  BY <1>56 DEF ClearStarting
<1>41. ASSUME NEW p \in Runners, Spawn(p)
      PROVE  NamesKnown' /\ AgentsHosted' /\ LocksHeld'
  BY <1>41 DEF Spawn, Goto
<1>42. ASSUME NEW p \in Runners, BootFails(p)
      PROVE  NamesKnown' /\ AgentsHosted' /\ LocksHeld'
  BY <1>42 DEF BootFails, ProcessGone, Goto, Freed
<1>43. ASSUME NEW p \in Runners, ExitKeepsRow(p)
      PROVE  NamesKnown' /\ AgentsHosted' /\ LocksHeld'
  BY <1>43 DEF ExitKeepsRow
<1>44. ASSUME NEW p \in Runners, ExitUnlisted(p)
      PROVE  NamesKnown' /\ AgentsHosted' /\ LocksHeld'
  BY <1>44 DEF ExitUnlisted
<1>45. ASSUME NEW p \in Runners, ExitDeletesRow(p)
      PROVE  NamesKnown' /\ AgentsHosted' /\ LocksHeld'
  BY <1>45 DEF ExitDeletesRow
<1>46. ASSUME NEW p \in Runners, Exit(p)
      PROVE  NamesKnown' /\ AgentsHosted' /\ LocksHeld'
  BY <1>46 DEF Exit, ProcessGone, Goto, Freed
<1>47. ASSUME NEW p \in Runners, AgentExits(p)
      PROVE  NamesKnown' /\ AgentsHosted' /\ LocksHeld'
  BY <1>47 DEF AgentExits
<1>48. ASSUME NEW p \in Runners, NEW t \in Threads, AgentOpens(p, t)
      PROVE  NamesKnown' /\ AgentsHosted' /\ LocksHeld'
  BY <1>48 DEF AgentOpens
<1>49. ASSUME NEW p \in Runners, NEW t \in Threads, AgentSwitches(p, t)
      PROVE  NamesKnown' /\ AgentsHosted' /\ LocksHeld'
  BY <1>49 DEF AgentSwitches
<1>50. ASSUME NEW p \in Runners, DecideConflict(p)
      PROVE  NamesKnown' /\ AgentsHosted' /\ LocksHeld'
  BY <1>50 DEF DecideConflict, Finish, Goto, Freed
<1>51. ASSUME NEW p \in Runners, Track(p)
      PROVE  NamesKnown' /\ AgentsHosted' /\ LocksHeld'
  BY <1>51 DEF Track, Goto
<1>52. ASSUME NEW p \in Runners, Claim(p)
      PROVE  NamesKnown' /\ AgentsHosted' /\ LocksHeld'
  BY <1>52 DEF Claim, Finish, Goto, Freed
<1>53. ASSUME NEW n \in Names, Expire(n)
      PROVE  NamesKnown' /\ AgentsHosted' /\ LocksHeld'
  BY <1>53 DEF Expire
<1>54. CASE UNCHANGED vars
  BY <1>54 DEF vars
<1>55. ASSUME NEW p \in Clis, CommandFails(p) 
      PROVE  NamesKnown' /\ AgentsHosted' /\ LocksHeld'
  BY <1>55 DEF CommandFails, Goto
<1> QED
  BY <1>1, <1>2, <1>3, <1>4, <1>5, <1>6, <1>7, <1>8, <1>9, <1>10, <1>11, <1>12,
       <1>13, <1>14, <1>15, <1>16, <1>17, <1>18, <1>19, <1>20, <1>21, <1>22, <1>23,
       <1>24, <1>25, <1>26, <1>27, <1>28, <1>29, <1>30, <1>31, <1>32, <1>33, <1>34,
       <1>35, <1>36, <1>37, <1>38, <1>39, <1>40, <1>41, <1>42, <1>43, <1>44, <1>45,
       <1>46, <1>47, <1>48, <1>49, <1>50, <1>51, <1>52, <1>53, <1>54, <1>55, <1>56
       DEF Next,
       CliStep, OwnersCheck, Start, Attached, Manage, MainStep, AgentStep,
       TrackerStep

--------------------------------------------------------------------------------
\* A step may let session n hold thread t, or its row name it.
Gains(n, t) ==
  \/ Holds(n, t)' /\ ~Holds(n, t)
  \/ HoldsClaim(n, t)' /\ ~HoldsClaim(n, t)
  \/ (RowOf(n).resume = t)' /\ RowOf(n).resume # t

\* ... but only its own session, and the thread it is cleared for.
GainsOnly(p) ==
  \A n \in Names, t \in Threads :
    Gains(n, t) => Cleared(p) /\ name[p] = n /\ thread[p] = t

\* A process that the step leaves where it was, or ends.
Bystander(q) ==
  \/ pc'[q] = "off"
  \/ /\ pc'[q] = pc[q] /\ thread'[q] = thread[q] /\ name'[q] = name[q]
     /\ snap'[q] = snap[q] /\ owners'[q] = owners[q]

\* A process that takes one step of the owners check, or acts on its outcome.
Advances(p) ==
  /\ pc'[p] = "collect" => ListSessions(p)
  /\ pc'[p] \in {"discover", "decide"} => Collect(p) \/ Discover(p)
  /\ Cleared(p)' => \/ DecideFree(p)
                    \/ Cleared(p) /\ thread'[p] = thread[p] /\ name'[p] = name[p]

StepOf(p) ==
  /\ GainsOnly(p)
  /\ Bystander(p) \/ Advances(p)
  /\ \A q \in Procs \ {p} : Bystander(q)

\* A reservation expires, or nothing happens at all.
Quiet ==
  /\ \A n \in Names, t \in Threads : ~Gains(n, t)
  /\ \A q \in Procs : Bystander(q)

\* Every step is of one of the kinds that MissesNobody needs: quiet, a gain of
\* its own process, or an advance in an owners check.
LEMMA StepsOf ==
  ASSUME TypeOK, NamesKnown, AgentsHosted, LocksHeld, [Next]_vars
  PROVE  Quiet \/ \E p \in Procs : StepOf(p)
<1> USE NoneAssumption, ProcsAssumption DEF Procs, registry, request, TypeOK,
     NamesKnown, AgentsHosted, LocksHeld, Cleared, StepOf, GainsOnly, Gains,
     Bystander, Advances, Holds, HoldsClaim, RowOf, BlankRow, Row
<1>1. ASSUME NEW p \in Procs, LockThread(p)
      PROVE  StepOf(p)
  BY <1>1 DEF LockThread, Goto
<1>2. ASSUME NEW p \in Procs, ListSessions(p)
      PROVE  StepOf(p)
  BY <1>2 DEF ListSessions, Goto
<1>3. ASSUME NEW p \in Procs, DecideFree(p)
      PROVE  StepOf(p)
  BY <1>3 DEF DecideFree, Goto, AfterDecide
<1>4. ASSUME NEW p \in Procs, ListFails(p)
      PROVE  StepOf(p)
  BY <1>4 DEF ListFails, Finish, Goto, Freed
<1>5. ASSUME NEW p \in Procs, Collect(p)
      PROVE  StepOf(p)
  BY <1>5 DEF Collect, Unseen, Goto, Kept
<1>6. ASSUME NEW p \in Procs, Discover(p)
      PROVE  StepOf(p)
  <2>1. /\ pc[p] = "discover"
        /\ \E c \in {"discover", "decide"} : pc' = [pc EXCEPT ![p] = c]
    BY <1>6 DEF Discover, Unseen, Goto
  <2>2. Advances(p)
    BY <1>6, <2>1
  <2>3. GainsOnly(p) /\ \A q \in Procs \ {p} : Bystander(q)
    BY <1>6, <2>1 DEF Discover
  <2> QED
    BY <2>2, <2>3
<1>7. ASSUME NEW p \in Clis, Invoke(p)
      PROVE  StepOf(p)
  BY <1>7, CommandsAssumption DEF Invoke, Goto, FirstStep, Ops
<1>8. ASSUME NEW p \in Clis, DecideRefuse(p)
      PROVE  StepOf(p)
  BY <1>8 DEF DecideRefuse, Finish, Goto, Freed
<1>9. ASSUME NEW p \in Clis, Reserve(p)
      PROVE  StepOf(p)
  BY <1>9 DEF Reserve, Goto
<1>10. ASSUME NEW p \in Clis, ReserveRefused(p)
      PROVE  StepOf(p)
  BY <1>10 DEF ReserveRefused, Finish, Goto, Freed
<1>11. ASSUME NEW p \in Clis, WriteReservation(p)
      PROVE  StepOf(p)
  BY <1>11 DEF WriteReservation, Goto, Reservation
<1>12. ASSUME NEW p \in Clis, AlreadyStarting(p)
      PROVE  StepOf(p)
  BY <1>12 DEF AlreadyStarting, Finish, Goto, Freed
<1>13. ASSUME NEW p \in Clis, AttachCreates(p)
      PROVE  StepOf(p)
  BY <1>13 DEF AttachCreates, Goto, AfterAttach
<1>14. ASSUME NEW p \in Clis, AttachJoins(p)
      PROVE  StepOf(p)
  BY <1>14 DEF AttachJoins, Goto, AfterAttach
<1>15. ASSUME NEW p \in Clis, StartFails(p)
      PROVE  StepOf(p)
  BY <1>15 DEF StartFails, Goto
<1>16. ASSUME NEW p \in Clis, ControlReady(p)
      PROVE  StepOf(p)
  BY <1>16 DEF ControlReady, Goto
<1>17. ASSUME NEW p \in Clis, Finalize(p)
      PROVE  StepOf(p)
  BY <1>17 DEF Finalize, Finish, OwnsStart, Goto, Freed
<1>18. ASSUME NEW p \in Clis, FinalizeFails(p)
      PROVE  StepOf(p)
  BY <1>18 DEF FinalizeFails, Goto
<1>19. ASSUME NEW p \in Clis, CleanupCheck(p)
      PROVE  StepOf(p)
  BY <1>19 DEF CleanupCheck, Goto
<1>20. ASSUME NEW p \in Clis, CleanupNotOwned(p)
      PROVE  StepOf(p)
  BY <1>20 DEF CleanupNotOwned, Finish, Goto, Freed
<1>21. ASSUME NEW p \in Clis, CleanupKill(p)
      PROVE  StepOf(p)
  BY <1>21 DEF CleanupKill, EndSession, Freed
<1>22. ASSUME NEW p \in Clis, CleanupDelete(p)
      PROVE  StepOf(p)
  BY <1>22 DEF CleanupDelete, Finish, Goto, Freed
<1>23. ASSUME NEW p \in Clis, Detach(p)
      PROVE  StepOf(p)
  BY <1>23 DEF Detach, Finish, Goto, Freed
<1>24. ASSUME NEW p \in Clis, AttachLost(p)
      PROVE  StepOf(p)
  BY <1>24 DEF AttachLost, Goto
<1>25. ASSUME NEW p \in Clis, LeaveLive(p)
      PROVE  StepOf(p)
  BY <1>25 DEF LeaveLive, Finish, Goto, Freed
<1>26. ASSUME NEW p \in Clis, LeaveDead(p)
      PROVE  StepOf(p)
  BY <1>26 DEF LeaveDead, Goto
<1>27. ASSUME NEW p \in Clis, OpenRegister(p)
      PROVE  StepOf(p)
  BY <1>27 DEF OpenRegister, Goto
<1>28. ASSUME NEW p \in Clis, OpenUnregister(p)
      PROVE  StepOf(p)
  BY <1>28 DEF OpenUnregister, Finish, Goto, Freed
<1>29. ASSUME NEW p \in Clis, RequireList(p)
      PROVE  StepOf(p)
  BY <1>29 DEF RequireList, Goto
<1>30. ASSUME NEW p \in Clis, RequireFound(p)
      PROVE  StepOf(p)
  BY <1>30 DEF RequireFound, Goto, Kept
<1>31. ASSUME NEW p \in Clis, RequireOver(p)
      PROVE  StepOf(p)
  BY <1>31 DEF RequireOver, Finish, Kept, Goto, Freed
<1>32. ASSUME NEW p \in Clis, Identify(p)
      PROVE  StepOf(p)
  BY <1>32 DEF Identify, Goto
<1>33. ASSUME NEW p \in Clis, IdentifyFails(p)
      PROVE  StepOf(p)
  BY <1>33 DEF IdentifyFails, Finish, Goto, Freed
<1>34. ASSUME NEW p \in Clis, Kill(p)
      PROVE  StepOf(p)
  BY <1>34 DEF Kill, EndSession, Freed
<1>35. ASSUME NEW p \in Clis, KillFails(p)
      PROVE  StepOf(p)
  BY <1>35 DEF KillFails, Finish, Goto, Freed
<1>36. ASSUME NEW p \in Clis, ForgetKilled(p)
      PROVE  StepOf(p)
  BY <1>36 DEF ForgetKilled, Finish, Goto, Freed
<1>37. ASSUME NEW p \in Clis, ForgetRestarted(p)
      PROVE  StepOf(p)
  BY <1>37 DEF ForgetRestarted, Goto
<1>38. ASSUME NEW p \in Clis, Crash(p)
      PROVE  StepOf(p)
  BY <1>38 DEF Crash, Finish, Goto, Freed, Ended
<1>39. ASSUME NEW p \in Runners, Boot(p)
      PROVE  StepOf(p)
  BY <1>39 DEF Boot
<1>40. ASSUME NEW p \in Runners, Register(p)
      PROVE  StepOf(p)
  BY <1>40 DEF Register
<1>56. ASSUME NEW p \in Runners, ClearStarting(p)
      PROVE  StepOf(p)
  BY <1>56 DEF ClearStarting
<1>41. ASSUME NEW p \in Runners, Spawn(p)
      PROVE  StepOf(p)
  BY <1>41 DEF Spawn, Goto
<1>42. ASSUME NEW p \in Runners, BootFails(p)
      PROVE  StepOf(p)
  BY <1>42 DEF BootFails, ProcessGone, Goto, Freed
<1>43. ASSUME NEW p \in Runners, ExitKeepsRow(p)
      PROVE  StepOf(p)
  BY <1>43 DEF ExitKeepsRow
<1>44. ASSUME NEW p \in Runners, ExitUnlisted(p)
      PROVE  StepOf(p)
  BY <1>44 DEF ExitUnlisted
<1>45. ASSUME NEW p \in Runners, ExitDeletesRow(p)
      PROVE  StepOf(p)
  BY <1>45 DEF ExitDeletesRow
<1>46. ASSUME NEW p \in Runners, Exit(p)
      PROVE  StepOf(p)
  BY <1>46 DEF Exit, ProcessGone, Goto, Freed
<1>47. ASSUME NEW p \in Runners, AgentExits(p)
      PROVE  StepOf(p)
  BY <1>47 DEF AgentExits
<1>48. ASSUME NEW p \in Runners, NEW t \in Threads, AgentOpens(p, t)
      PROVE  StepOf(p)
  BY <1>48 DEF AgentOpens
<1>49. ASSUME NEW p \in Runners, NEW t \in Threads, AgentSwitches(p, t)
      PROVE  StepOf(p)
  BY <1>49 DEF AgentSwitches
<1>50. ASSUME NEW p \in Runners, DecideConflict(p)
      PROVE  StepOf(p)
  BY <1>50 DEF DecideConflict, Finish, Goto, Freed
<1>51. ASSUME NEW p \in Runners, Track(p)
      PROVE  StepOf(p)
  BY <1>51 DEF Track, Goto
<1>52. ASSUME NEW p \in Runners, Claim(p)
      PROVE  StepOf(p)
  BY <1>52 DEF Claim, Finish, Goto, Freed
<1>53. ASSUME NEW n \in Names, Expire(n) PROVE Quiet
  BY <1>53 DEF Expire, Quiet
<1>54. CASE UNCHANGED vars
  BY <1>54 DEF vars, Quiet
<1>55. ASSUME NEW p \in Clis, CommandFails(p) 
      PROVE  StepOf(p)
  BY <1>55 DEF CommandFails, Goto
<1> HIDE DEF Procs, registry, request, TypeOK, NamesKnown, AgentsHosted,
     LocksHeld, Cleared, StepOf, GainsOnly, Gains, Bystander, Advances, Holds,
     HoldsClaim, RowOf, BlankRow, Row
<1> QED
  BY <1>1, <1>2, <1>3, <1>4, <1>5, <1>6, <1>7, <1>8, <1>9, <1>10, <1>11, <1>12,
       <1>13, <1>14, <1>15, <1>16, <1>17, <1>18, <1>19, <1>20, <1>21, <1>22, <1>23,
       <1>24, <1>25, <1>26, <1>27, <1>28, <1>29, <1>30, <1>31, <1>32, <1>33, <1>34,
       <1>35, <1>36, <1>37, <1>38, <1>39, <1>40, <1>41, <1>42, <1>43, <1>44, <1>45,
       <1>46, <1>47, <1>48, <1>49, <1>50, <1>51, <1>52, <1>53, <1>54, <1>55, <1>56
       DEF Next,
       CliStep, OwnersCheck, Start, Attached, Manage, MainStep, AgentStep,
       TrackerStep, Procs

\* The owners check of q, step by step.  A session that holds the thread is
\* live, so the list has it; ...
LEMMA ListSees ==
  ASSUME TypeOK, NEW q \in Procs, ListSessions(q) PROVE MissesNobody(q)'
<1>1. pc'[q] = "collect" /\ snap'[q] = LiveNames
  BY DEF ListSessions, Goto, TypeOK
<1>2. \A n \in Names : HoldsClaim(n, thread[q])' => n \in LiveNames
  BY DEF ListSessions, HoldsClaim, LiveNames, registry
<1> QED
  BY <1>1, <1>2 DEF MissesNobody, Cleared

\* ... its row survives, and the copy of the row names the thread; ...
LEMMA CollectSees ==
  ASSUME TypeOK, NEW q \in Procs, MissesNobody(q), Collect(q) PROVE MissesNobody(q)'
<1>1. /\ pc[q] = "collect" /\ pc'[q] \in {"discover", "decide"}
      /\ snap'[q] = Owned(snap[q])
      /\ owners'[q] = {n \in Owned(snap[q]) : RowOf(n).resume = thread[q]}
      /\ thread' = thread /\ name' = name
  BY DEF Collect, Unseen, Goto, TypeOK, request
<1>2. ASSUME NEW n \in Names \ {name[q]}, HoldsClaim(n, thread[q])'
      PROVE  n \in Owned(snap[q]) /\ RowOf(n).resume = thread[q]
  <2>1. meta'[n] # None /\ meta'[n] = meta[n] /\ HoldsClaim(n, thread[q])
    BY <1>1, <1>2 DEF Collect, Kept, HoldsClaim, registry
  <2>2. n \in snap[q]
    BY <1>1, <2>1 DEF MissesNobody
  <2> QED
    BY <2>1, <2>2 DEF Owned, RowOf, HoldsClaim
<1> QED
  BY <1>1, <1>2 DEF MissesNobody, Cleared

\* ... its process says the same or says nothing; ...
LEMMA DiscoverSees ==
  ASSUME TypeOK, AgentsHosted, LocksHeld, NEW q \in Procs, MissesNobody(q), Discover(q)
  PROVE  MissesNobody(q)'
<1>1. /\ pc[q] = "discover" /\ pc'[q] \in {"discover", "decide"}
      /\ thread' = thread /\ name' = name /\ meta' = meta /\ registry' = registry
      /\ \A n \in owners[q] \ {name[q]} : MustOwn(q, n) => n \in owners'[q]
  BY DEF Discover, Unseen, Goto, TypeOK, request, registry
<1>2. thread[q] # None
  BY <1>1 DEF LocksHeld, Checking
<1>3. ASSUME NEW n \in Names \ {name[q]}, HoldsClaim(n, thread[q]) PROVE n \in owners'[q]
  <2>1. n \in owners[q]
    BY <1>1, <1>3 DEF MissesNobody
  <2>2. ASSUME NEW r \in RunnersOf(n) PROVE Counts(q, n, r)
    <3>1. CASE agent[r] = None \/ ~FdVisible
      BY <2>1, <3>1 DEF Counts, Discovered
    <3>2. CASE agent[r] # None
      <4>1. live[n] = r
        BY <2>2, <3>2 DEF AgentsHosted, RunnersOf
      <4>2. agent[r] = thread[q]
        BY <1>2, <1>3, <4>1 DEF AgentsHosted, HoldsClaim, RunnersOf
      <4> QED
        BY <2>1, <4>2 DEF Counts, Discovered
    <3> QED
      BY <3>1, <3>2
  <2>3. MustOwn(q, n)
    BY <2>1, <2>2 DEF MustOwn
  <2> QED
    BY <1>1, <2>1, <2>3
<1>4. \A n \in Names : HoldsClaim(n, thread[q])' <=> HoldsClaim(n, thread[q])
  BY <1>1 DEF HoldsClaim, registry
<1> QED
  BY <1>1, <1>3, <1>4 DEF MissesNobody, Cleared

\* ... and with no owner and no reservation nobody else holds the thread.
LEMMA DecideClears ==
  ASSUME TypeOK, NEW q \in Procs, MissesNobody(q), DecideFree(q) PROVE MissesNobody(q)'
<1>1. /\ pc[q] = "decide" /\ pc'[q] \notin {"collect", "discover", "decide"}
      /\ owners[q] = {} /\ Reservers(q) = {}
      /\ thread' = thread /\ name' = name /\ meta' = meta /\ registry' = registry
  BY DEF DecideFree, Goto, AfterDecide, TypeOK, request, registry
<1>2. ASSUME NEW n \in Names \ {name[q]}, Holds(n, thread[q]) PROVE FALSE
  <2>1. ~HoldsClaim(n, thread[q])
    BY <1>1 DEF MissesNobody
  <2>2. RowOf(n).starting /\ RowOf(n).resume = thread[q]
    BY <1>2, <2>1 DEF Holds, HoldsClaim, RowOf
  <2> QED
    BY <1>1, <2>2 DEF Reservers
<1>3. \A n \in Names : Holds(n, thread[q])' <=> Holds(n, thread[q])
  BY <1>1 DEF Holds, registry
<1> QED
  BY <1>1, <1>2, <1>3 DEF MissesNobody

\* Nothing else that happens to a process lets it miss somebody, as long as no
\* other session comes to hold its thread.
LEMMA StillMissesNobody ==
  ASSUME TypeOK, LocksHeld, NEW q \in Procs, MissesNobody(q),
         \A n \in Names \ {name[q]}, t \in Threads :
           (Checking(q) \/ Cleared(q)) /\ t = thread[q] => ~Gains(n, t),
         Bystander(q) \/ Advances(q),
         ~ListSessions(q), ~Collect(q), ~Discover(q), ~DecideFree(q)
  PROVE  MissesNobody(q)'
<1>1. CASE pc'[q] = "off"
  BY <1>1 DEF MissesNobody, Cleared
<1>2. CASE /\ pc'[q] = pc[q] /\ thread'[q] = thread[q] /\ name'[q] = name[q]
           /\ snap'[q] = snap[q] /\ owners'[q] = owners[q]
  <2>1. ASSUME NEW n \in Names \ {name[q]}, Checking(q) \/ Cleared(q)
        PROVE  /\ Holds(n, thread[q])' => Holds(n, thread[q])
               /\ HoldsClaim(n, thread[q])' => HoldsClaim(n, thread[q])
    <3>1. thread[q] \in Threads
      BY <2>1 DEF LocksHeld, TypeOK
    <3>2. \A t \in Threads : t = thread[q] => ~Gains(n, t)
      BY <2>1
    <3> QED
      BY <1>2, <3>1, <3>2 DEF Gains, Holds, HoldsClaim
  <2>2. (Checking(q) \/ Cleared(q))' <=> Checking(q) \/ Cleared(q)
    BY <1>2 DEF Checking, Cleared
  <2> QED
    BY <1>2, <2>1, <2>2 DEF MissesNobody, Checking, Cleared
<1>3. CASE Advances(q)
  <2>1. CASE Cleared(q)'
    <3>1. Cleared(q) /\ thread'[q] = thread[q] /\ name'[q] = name[q]
      BY <1>3, <2>1 DEF Advances
    <3>2. pc'[q] \notin {"collect", "discover", "decide"}
      BY <2>1 DEF Cleared
    <3>3. thread[q] \in Threads
      BY <3>1 DEF LocksHeld, TypeOK
    <3>4. \A n \in Names \ {name[q]} : ~Holds(n, thread[q])'
      BY <3>1, <3>3 DEF Gains, Holds, MissesNobody
    <3> QED
      BY <3>1, <3>2, <3>4 DEF MissesNobody
  <2>2. CASE ~Cleared(q)'
    BY <1>3, <2>2 DEF Advances, MissesNobody
  <2> QED
    BY <2>1, <2>2
<1> QED
  BY <1>1, <1>2, <1>3 DEF Bystander

\* A gain is made under the thread's lock, which a process at work on the same
\* thread would hold.
LEMMA NoGainElsewhere ==
  ASSUME TypeOK, LocksHeld, NEW p \in Procs, StepOf(p), NEW q \in Procs,
         Checking(q) \/ Cleared(q), NEW n \in Names \ {name[q]},
         NEW t \in Threads, t = thread[q]
  PROVE  ~Gains(n, t)
<1>1. threadLock[t] = q
  BY DEF LocksHeld
<1>2. Gains(n, t) => Cleared(p) /\ name[p] = n /\ thread[p] = t
  BY DEF StepOf, GainsOnly
<1>3. Cleared(p) => threadLock[thread[p]] = p
  BY DEF LocksHeld
<1> QED
  BY <1>1, <1>2, <1>3

\* Every step keeps the owners checks complete, its own process's and those of
\* the others.
LEMMA MissesNobodyStep ==
  ASSUME IInv, [Next]_vars, NEW q \in Procs
  PROVE  MissesNobody(q)'
<1>1. TypeOK /\ NamesKnown /\ AgentsHosted /\ LocksHeld /\ MissesNobody(q)
  BY DEF IInv
<1>2. CASE ListSessions(q) \/ Collect(q) \/ Discover(q) \/ DecideFree(q)
  BY <1>1, <1>2, ListSees, CollectSees, DiscoverSees, DecideClears
<1>3. CASE ~ListSessions(q) /\ ~Collect(q) /\ ~Discover(q) /\ ~DecideFree(q)
  <2>1. Quiet \/ \E p \in Procs : StepOf(p)
    BY <1>1, StepsOf
  <2>2. Bystander(q) \/ Advances(q)
    BY <2>1 DEF Quiet, StepOf
  <2>3. \A n \in Names \ {name[q]}, t \in Threads :
          (Checking(q) \/ Cleared(q)) /\ t = thread[q] => ~Gains(n, t)
    BY <1>1, <2>1, NoGainElsewhere DEF Quiet
  <2> QED
    BY <1>1, <1>3, <2>2, <2>3, StillMissesNobody
<1> QED
  BY <1>2, <1>3

\* No step gives a thread a second holder: only a cleared process gains one.
LEMMA ExclusiveStep ==
  ASSUME IInv, [Next]_vars PROVE HolderExclusive'
<1>1. SUFFICES ASSUME NEW t \in Threads, NEW n \in Names, NEW m \in Names, n # m,
                      Holds(n, t)', Holds(m, t)', ~Holds(n, t)
               PROVE  FALSE
  BY DEF HolderExclusive, IInv
<1>2. Gains(n, t)
  BY <1>1 DEF Gains
<1>3. Quiet \/ \E p \in Procs : StepOf(p)
  BY StepsOf DEF IInv
<1>4. PICK p \in Procs : StepOf(p)
  BY <1>2, <1>3 DEF Quiet
<1>5. Cleared(p) /\ name[p] = n /\ thread[p] = t
  BY <1>2, <1>4 DEF StepOf, GainsOnly
<1>6. ~Holds(m, t)
  BY <1>1, <1>5 DEF IInv, MissesNobody
<1>7. Gains(m, t)
  BY <1>1, <1>6 DEF Gains
<1> QED
  BY <1>1, <1>4, <1>5, <1>7 DEF StepOf, GainsOnly

\* In the initial states nobody checks or holds anything.
LEMMA InitIInv == ASSUME Init PROVE IInv
<1> USE NoneAssumption, ProcsAssumption, InitialAssumption, BoundAssumption DEF Init
<1>1. \A r \in Runners : Hosts(r) # {} =>
        /\ name[r] \in Names /\ Initial[name[r]] = r
        /\ \A n \in Names : Initial[n] = r => n = name[r]
  BY DEF Hosts, Procs
<1>2. TypeOK
  <2>1. BlankRow \in Row /\ \A r \in Runners : [BlankRow EXCEPT !.pid = r] \in Row
    BY DEF BlankRow, Row
  <2>2. meta \in [Names -> Row \cup {None}]
    BY <2>1
  <2>3. name \in [Procs -> Names \cup {None}]
    BY DEF Hosts
  <2> QED
    BY <2>2, <2>3 DEF TypeOK, Procs, CliPcs, TrackerPcs, RunStates
<1>3. NamesKnown /\ AgentsHosted
  BY <1>1 DEF NamesKnown, AgentsHosted, Hosts, Procs
<1>4. LocksHeld /\ \A p \in Procs : MissesNobody(p)
  BY DEF LocksHeld, Checking, Cleared, MissesNobody, Procs
<1>5. \A t \in Threads, n \in Names : ~Holds(n, t)
  BY DEF Holds, BlankRow
<1> QED
  BY <1>2, <1>3, <1>4, <1>5 DEF IInv, HolderExclusive

\* The parts together are inductive.
LEMMA IInvStep == ASSUME IInv, [Next]_vars PROVE IInv'
<1>1. TypeOK' /\ NamesKnown' /\ AgentsHosted' /\ LocksHeld'
  BY TypeStep, ShapeStep DEF IInv
<1>2. \A p \in Procs : MissesNobody(p)'
  BY MissesNobodyStep
<1>3. HolderExclusive'
  BY ExclusiveStep
<1> QED
  BY <1>1, <1>2, <1>3 DEF IInv, Procs

\* The inductive invariant holds in every reachable state.
THEOREM Invariant == Spec => []IInv
<1>1. Init => IInv
  BY InitIInv
<1>2. IInv /\ [Next]_vars => IInv'
  BY IInvStep
<1> QED
  BY <1>1, <1>2, PTL DEF Spec

\* Every variable keeps its type, whatever the numbers of processes and names.
THEOREM TypeCorrect == Spec => []TypeOK
<1>1. IInv => TypeOK
  BY DEF IInv
<1> QED
  BY <1>1, Invariant, PTL

\* otherSessionThreadOwners under the thread lock: a thread never has two
\* holders, for any number of sessions, threads, commands and crashes.
THEOREM Exclusion == Spec => []HolderExclusive
<1>1. IInv => HolderExclusive
  BY DEF IInv
<1> QED
  BY <1>1, Invariant, PTL

\* updateMeta never makes a row name a thread except under that thread's lock,
\* held for the row's own session.
THEOREM LockedClaims == Spec => ClaimsAreLocked
<1>1. ASSUME IInv, [Next]_vars, NEW n \in Names, NEW t \in Threads,
             RowOf(n)'.resume = t, RowOf(n).resume # t
      PROVE  threadLock[t] # None /\ name[threadLock[t]] = n
  <2>1. Gains(n, t)
    BY <1>1 DEF Gains
  <2>2. PICK p \in Procs : StepOf(p)
    BY <1>1, <2>1, StepsOf DEF IInv, Quiet
  <2>3. Cleared(p) /\ name[p] = n /\ thread[p] = t
    BY <2>1, <2>2 DEF StepOf, GainsOnly
  <2>4. threadLock[t] = p
    BY <1>1, <2>3 DEF IInv, LocksHeld
  <2> QED
    BY <2>3, <2>4, NoneAssumption DEF Procs
<1>2. IInv /\ [Next]_vars =>
        [\A n \in Names, t \in Threads :
           RowOf(n)'.resume = t /\ RowOf(n).resume # t =>
             (threadLock[t] # None /\ name[threadLock[t]] = n)]_vars
  BY <1>1
<1> QED
  BY <1>2, Invariant, PTL DEF Spec, ClaimsAreLocked

\* What that promise amounts to: gaining only what nobody else holds keeps every thread
\* with one holder.
THEOREM OneHolder == Ownership!Spec => []Ownership!Exclusive
<1> DEFINE held == [t \in Threads |-> {n \in Names : Holds(n, t)}]
<1>1. Ownership!Init => Ownership!Exclusive
  BY DEF Ownership!Init, Ownership!Exclusive
<1>2. ASSUME Ownership!Exclusive, Ownership!Next \/ held' = held
      PROVE  Ownership!Exclusive'
  <2>1. ASSUME NEW n \in Names, NEW gained \in SUBSET Threads, Ownership!Gain(n, gained)
        PROVE  Ownership!Exclusive'
    <3>1. \A t \in gained, m \in Names : Holds(m, t)' => m = n
      BY ZenonT(40), <2>1 DEF Ownership!Gain
    <3>2. \A t \in Threads \ gained, m \in Names : Holds(m, t)' => Holds(m, t)
      BY <2>1 DEF Ownership!Gain
    <3>3. \A t \in Threads, m, k \in Names : Holds(m, t) /\ Holds(k, t) => m = k
      BY <1>2 DEF Ownership!Exclusive
    <3> QED
      BY <3>1, <3>2, <3>3 DEF Ownership!Exclusive
  <2>2. CASE held' = held
    <3>1. Ownership!Exclusive = \A t \in Threads : \A n, m \in held[t] : n = m
      BY DEF Ownership!Exclusive
    <3>2. Ownership!Exclusive' = \A t \in Threads : \A n, m \in held'[t] : n = m
      BY DEF Ownership!Exclusive
    <3> QED
      BY <1>2, <2>2, <3>1, <3>2
  <2> QED
    BY <1>2, <2>1, <2>2 DEF Ownership!Next
<1>3. Ownership!Exclusive /\ [Ownership!Next]_held => Ownership!Exclusive'
  BY <1>2
<1> QED
  BY <1>1, <1>3, PTL DEF Ownership!Spec

\* The protocol of locks, lists, reservations and trackers implements the
\* promise of ThreadOwnership: every step is a gain by one session, of threads
\* nobody else holds, or changes nothing.
THEOREM Implements == Spec => OwnershipSpec
<1> DEFINE held == [t \in Threads |-> {n \in Names : Holds(n, t)}]
<1>1. Init => Ownership!Init
  BY NoneAssumption DEF Init, Ownership!Init, Holds, BlankRow
<1>2. ASSUME IInv, IInv', [Next]_vars
      PROVE  Ownership!Next \/ held' = held
  <2>1. held' = [t \in Threads |-> {n \in Names : Holds(n, t)'}]
    OBVIOUS
  <2>2. ASSUME NEW n \in Names, NEW t \in Threads, Holds(n, t)', ~Holds(n, t)
        PROVE  Ownership!Gain(n, {t})
    <3>1. PICK p \in Procs : StepOf(p)
      BY <1>2, <2>2, StepsOf DEF IInv, Quiet, Gains
    <3>2. Cleared(p) /\ name[p] = n /\ thread[p] = t
      BY <2>2, <3>1 DEF StepOf, GainsOnly, Gains
    <3>3. held[t] \subseteq {n}
      BY <1>2, <3>2 DEF IInv, MissesNobody
    <3>4. held'[t] = {n}
      BY <1>2, <2>1, <2>2 DEF IInv, HolderExclusive
    <3>5. \A u \in Threads \ {t} : held'[u] \subseteq held[u]
      BY <2>1, <3>1, <3>2 DEF StepOf, GainsOnly, Gains
    <3> QED
      BY <2>1, <3>3, <3>4, <3>5 DEF Ownership!Gain
  <2>3. CASE ~\E n \in Names, t \in Threads : Holds(n, t)' /\ ~Holds(n, t)
    <3>1. \A t \in Threads : held'[t] \subseteq held[t]
      BY <2>1, <2>3
    <3>2. CASE Names = {}
      BY <2>1, <3>2
    <3>3. ASSUME NEW n \in Names PROVE Ownership!Next
      <4>1. Ownership!Gain(n, {})
        BY <2>1, <3>1 DEF Ownership!Gain
      <4> QED
        BY <4>1 DEF Ownership!Next
    <3> QED
      BY <3>2, <3>3
  <2> QED
    BY <2>2, <2>3 DEF Ownership!Next
<1>3. IInv /\ IInv' /\ [Next]_vars => [Ownership!Next]_held
  BY <1>2
<1> QED
  BY <1>1, <1>3, Invariant, PTL DEF Spec, OwnershipSpec, Ownership!Spec

\* The row of a session whose agent runs names its own runner, or nobody: there is
\* never an older runner's pid in it.
Registered ==
  \A n \in Names : live[n] # None /\ run[live[n]] \in {"run", "closing"} =>
    RowOf(n).pid \in {live[n], None}

\* A step that puts no runner to work and writes no pid into a row.
Recordless ==
  /\ \A n \in Names : live'[n] \in {live[n], None} \/ run'[live'[n]] = "boot"
  /\ \A r \in Runners : run'[r] \in {"run", "closing"} => run[r] \in {"run", "closing"}
  /\ \A n \in Names : RowOf(n)'.pid \in {RowOf(n).pid, None}

\* Only a runner's own deferred cleanup goes from the decision to delete the row to
\* the end.
Deletes ==
  \A r \in Runners : run[r] = "exitDelete" /\ run'[r] = "exit" => ExitDeletesRow(r)

\* Pids are written by Spawn alone, rows deleted in a deferred cleanup by
\* ExitDeletesRow alone.
LEMMA RecordlessSteps ==
  ASSUME TypeOK, NamesKnown, [Next]_vars
  PROVE  (Recordless \/ \E r \in Runners : Spawn(r)) /\ Deletes
<1> USE NoneAssumption, ProcsAssumption DEF Procs, registry, request
<1>1. ASSUME UNCHANGED <<meta, live, run>> PROVE Recordless /\ Deletes
  BY <1>1 DEF Recordless, Deletes, RowOf
<1>2. ASSUME UNCHANGED <<live, run>>,
             \A n \in Names : RowOf(n)'.pid \in {RowOf(n).pid, None}
      PROVE  Recordless /\ Deletes
  BY <1>2 DEF Recordless, Deletes
<1>3. ASSUME UNCHANGED meta,
             \A n \in Names : live'[n] \in {live[n], None} \/ run'[live'[n]] = "boot",
             \A r \in Runners : run'[r] \in {run[r]} \cup (RunStates \ {"run", "exit"}),
             \A r \in Runners : run'[r] = "closing" => run[r] \in {"run", "closing"}
      PROVE  Recordless /\ Deletes
  BY <1>3 DEF Recordless, Deletes, RowOf, RunStates
<1>4. ASSUME NEW p \in Procs, OwnersCheck(p) PROVE Recordless /\ Deletes
  <2>1. CASE Collect(p)
    <3>1. \A n \in Names : RowOf(n)'.pid \in {RowOf(n).pid, None}
      BY <2>1 DEF Collect, Kept, RowOf, BlankRow
    <3> QED
      BY <2>1, <3>1, <1>2 DEF Collect
  <2>2. CASE ~Collect(p)
    BY <1>4, <2>2, <1>1 DEF OwnersCheck, LockThread, ListSessions, ListFails, Discover,
      DecideFree
  <2> QED
    BY <2>1, <2>2
<1>5. ASSUME NEW p \in Clis,
             \/ Invoke(p) \/ DecideRefuse(p) \/ Reserve(p) \/ ReserveRefused(p)
             \/ AlreadyStarting(p) \/ CommandFails(p) \/ AttachJoins(p) \/ StartFails(p)
             \/ ControlReady(p) \/ FinalizeFails(p) \/ CleanupCheck(p)
             \/ CleanupNotOwned(p) \/ Detach(p) \/ AttachLost(p) \/ LeaveLive(p)
             \/ LeaveDead(p) \/ RequireList(p) \/ Identify(p) \/ IdentifyFails(p)
             \/ KillFails(p) \/ Crash(p)
      PROVE  Recordless /\ Deletes
  BY <1>5, <1>1 DEF Invoke, DecideRefuse, Reserve, ReserveRefused, AlreadyStarting,
    CommandFails, AttachJoins, StartFails, ControlReady, FinalizeFails, CleanupCheck,
    CleanupNotOwned, Detach, AttachLost, LeaveLive, LeaveDead, RequireList, Identify,
    IdentifyFails, KillFails, Crash
<1>6. ASSUME NEW p \in Clis, WriteReservation(p) PROVE Recordless /\ Deletes
  <2>1. \A n \in Names : RowOf(n)'.pid \in {RowOf(n).pid, None}
    BY <1>6 DEF WriteReservation, Reservation, RowOf, BlankRow, TypeOK, NamesKnown
  <2> QED
    BY <1>6, <2>1, <1>2 DEF WriteReservation
<1>7. ASSUME NEW p \in Clis, Finalize(p) PROVE Recordless /\ Deletes
  <2>1. \A n \in Names : RowOf(n)'.pid \in {RowOf(n).pid, None}
    BY <1>7 DEF Finalize, OwnsStart, RowOf, BlankRow, TypeOK, NamesKnown
  <2> QED
    BY <1>7, <2>1, <1>2 DEF Finalize
<1>8. ASSUME NEW p \in Clis, CleanupDelete(p) PROVE Recordless /\ Deletes
  <2>1. \A n \in Names : RowOf(n)'.pid \in {RowOf(n).pid, None}
    BY <1>8 DEF CleanupDelete, OwnsStart, RowOf, BlankRow, TypeOK, NamesKnown
  <2> QED
    BY <1>8, <2>1, <1>2 DEF CleanupDelete
<1>9. ASSUME NEW p \in Clis, OpenRegister(p) PROVE Recordless /\ Deletes
  <2>1. \A n \in Names : RowOf(n)'.pid \in {RowOf(n).pid, None}
    BY <1>9 DEF OpenRegister, RowOf, BlankRow, TypeOK, NamesKnown
  <2> QED
    BY <1>9, <2>1, <1>2 DEF OpenRegister
<1>10. ASSUME NEW p \in Clis, OpenUnregister(p) PROVE Recordless /\ Deletes
  <2>1. \A n \in Names : RowOf(n)'.pid \in {RowOf(n).pid, None}
    BY <1>10 DEF OpenUnregister, RowOf, BlankRow, TypeOK, NamesKnown
  <2> QED
    BY <1>10, <2>1, <1>2 DEF OpenUnregister
<1>11. ASSUME NEW p \in Clis, RequireFound(p) PROVE Recordless /\ Deletes
  <2>1. \A n \in Names : RowOf(n)'.pid \in {RowOf(n).pid, None}
    BY <1>11 DEF RequireFound, Kept, RowOf, BlankRow, TypeOK, NamesKnown
  <2> QED
    BY <1>11, <2>1, <1>2 DEF RequireFound
<1>12. ASSUME NEW p \in Clis, RequireOver(p) PROVE Recordless /\ Deletes
  <2>1. \A n \in Names : RowOf(n)'.pid \in {RowOf(n).pid, None}
    BY <1>12 DEF RequireOver, Kept, RowOf, BlankRow, TypeOK, NamesKnown
  <2> QED
    BY <1>12, <2>1, <1>2 DEF RequireOver
<1>13. ASSUME NEW p \in Clis, ForgetKilled(p) PROVE Recordless /\ Deletes
  <2>1. \A n \in Names : RowOf(n)'.pid \in {RowOf(n).pid, None}
    BY <1>13 DEF ForgetKilled, RowOf, BlankRow, TypeOK, NamesKnown
  <2> QED
    BY <1>13, <2>1, <1>2 DEF ForgetKilled
<1>14. ASSUME NEW p \in Clis, ForgetRestarted(p) PROVE Recordless /\ Deletes
  <2>1. \A n \in Names : RowOf(n)'.pid \in {RowOf(n).pid, None}
    BY <1>14 DEF ForgetRestarted, RowOf, BlankRow, TypeOK, NamesKnown
  <2> QED
    BY <1>14, <2>1, <1>2 DEF ForgetRestarted
<1>15. ASSUME NEW p \in Clis, AttachCreates(p) PROVE Recordless /\ Deletes
  BY <1>15, <1>3 DEF AttachCreates, TypeOK, NamesKnown, RunStates
<1>16. ASSUME NEW p \in Clis, CleanupKill(p) PROVE Recordless /\ Deletes
  BY <1>16, <1>3 DEF CleanupKill, EndSession, TypeOK, NamesKnown, RunStates
<1>17. ASSUME NEW p \in Clis, Kill(p) PROVE Recordless /\ Deletes
  BY <1>17, <1>3 DEF Kill, EndSession, TypeOK, NamesKnown, RunStates
<1>18. ASSUME NEW r \in Runners, Boot(r) PROVE Recordless /\ Deletes
  BY <1>18, <1>3 DEF Boot, TypeOK, RunStates
<1>19. ASSUME NEW r \in Runners, BootFails(r) PROVE Recordless /\ Deletes
  BY <1>19, <1>3 DEF BootFails, ProcessGone, Freed, TypeOK, RunStates
<1>20. ASSUME NEW r \in Runners, ExitKeepsRow(r) PROVE Recordless /\ Deletes
  BY <1>20 DEF ExitKeepsRow, Recordless, Deletes, RowOf, TypeOK
<1>21. ASSUME NEW r \in Runners, ExitUnlisted(r) PROVE Recordless /\ Deletes
  BY <1>21, <1>3 DEF ExitUnlisted, TypeOK, RunStates
<1>22. ASSUME NEW r \in Runners, Exit(r) PROVE Recordless /\ Deletes
  BY <1>22, <1>3 DEF Exit, ProcessGone, Freed, TypeOK, RunStates
<1>23. ASSUME NEW r \in Runners, AgentExits(r) PROVE Recordless /\ Deletes
  BY <1>23, <1>3 DEF AgentExits, TypeOK, RunStates
<1>24. ASSUME NEW r \in Runners, DecideConflict(r) PROVE Recordless /\ Deletes
  BY <1>24, <1>3 DEF DecideConflict, TypeOK, RunStates
<1>25. ASSUME NEW r \in Runners, Register(r) PROVE Recordless /\ Deletes
  <2>1. \A n \in Names : RowOf(n)'.pid \in {RowOf(n).pid, None}
    BY <1>25, RowType DEF Register, RowOf, BlankRow, Row, TypeOK, NamesKnown
  <2> QED
    BY <1>25, <2>1 DEF Register, Recordless, Deletes, TypeOK
<1>32. ASSUME NEW r \in Runners, ClearStarting(r) PROVE Recordless /\ Deletes
  <2>1. \A n \in Names : RowOf(n)'.pid \in {RowOf(n).pid, None}
    BY <1>32, RowType DEF ClearStarting, RowOf, BlankRow, Row, TypeOK, NamesKnown
  <2> QED
    BY <1>32, <2>1 DEF ClearStarting, Recordless, Deletes, TypeOK
<1>26. ASSUME NEW r \in Runners, Claim(r) PROVE Recordless /\ Deletes
  <2>1. \A n \in Names : RowOf(n)'.pid \in {RowOf(n).pid, None}
    BY <1>26 DEF Claim, RowOf, BlankRow, Row, TypeOK
  <2> QED
    BY <1>26, <2>1, <1>2 DEF Claim
<1>27. ASSUME NEW n \in Names, Expire(n) PROVE Recordless /\ Deletes
  <2>1. \A m \in Names : RowOf(m)'.pid \in {RowOf(m).pid, None}
    BY <1>27 DEF Expire, RowOf, BlankRow, Row, TypeOK
  <2> QED
    BY <1>27, <2>1, <1>2 DEF Expire
<1>28. ASSUME NEW r \in Runners, ExitDeletesRow(r) PROVE Recordless /\ Deletes
  <2>1. \A n \in Names : RowOf(n)'.pid \in {RowOf(n).pid, None}
    BY <1>28 DEF ExitDeletesRow, RowOf, BlankRow, TypeOK
  <2>2. UNCHANGED live /\ run' = [run EXCEPT ![r] = "exit"]
    BY <1>28 DEF ExitDeletesRow
  <2>3. Recordless
    BY <2>1, <2>2 DEF Recordless, TypeOK
  <2>4. Deletes
    BY <1>28, <2>2 DEF Deletes, TypeOK
  <2> QED
    BY <2>3, <2>4
<1>29. ASSUME NEW r \in Runners, Spawn(r) PROVE Deletes
  BY <1>29 DEF Spawn, Deletes, TypeOK
<1>30. ASSUME NEW r \in Runners, Track(r) \/ \E t \in Threads : AgentOpens(r, t) \/ AgentSwitches(r, t)
      PROVE  Recordless /\ Deletes
  BY <1>30, <1>1 DEF Track, AgentOpens, AgentSwitches
<1>31. CASE UNCHANGED vars
  BY <1>31, <1>1 DEF vars
<1> QED
  BY <1>4, <1>5, <1>6, <1>7, <1>8, <1>9, <1>10, <1>11, <1>12, <1>13, <1>14, <1>15, <1>16,
    <1>17, <1>18, <1>19, <1>20, <1>21, <1>22, <1>23, <1>24, <1>25, <1>26, <1>27, <1>28,
    <1>29, <1>30, <1>31, <1>32 DEF Next, CliStep, Start, Attached, Manage, MainStep, AgentStep,
    TrackerStep

\* Whatever happens to its session, no agent's row names an older runner.
LEMMA RegisteredStep ==
  ASSUME TypeOK, NamesKnown, AgentsHosted, Registered, [Next]_vars
  PROVE  Registered'
<1>1. ASSUME Recordless PROVE Registered'
  <2> SUFFICES ASSUME NEW n \in Names, live'[n] # None,
                      run'[live'[n]] \in {"run", "closing"}
               PROVE  RowOf(n)'.pid \in {live'[n], None}
    BY DEF Registered
  <2>1. live'[n] = live[n]
    BY <1>1 DEF Recordless
  <2>2. live[n] \in Runners
    BY <2>1 DEF TypeOK
  <2>3. run[live[n]] \in {"run", "closing"}
    BY <1>1, <2>1, <2>2 DEF Recordless
  <2>4. RowOf(n).pid \in {live[n], None}
    BY <2>1, <2>3 DEF Registered
  <2>5. RowOf(n)'.pid \in {RowOf(n).pid, None}
    BY <1>1 DEF Recordless
  <2> QED
    BY <2>1, <2>4, <2>5
<1>2. ASSUME NEW r \in Runners, Spawn(r) PROVE Registered'
  <2>1. name[r] \in Names /\ live[name[r]] = r
    BY <1>2 DEF Spawn, NamesKnown, AgentsHosted
  <2>2. \A n \in Names : live[n] = r => n = name[r]
    BY <1>2, NoneAssumption DEF AgentsHosted
  <2>3. /\ UNCHANGED live
        /\ \A q \in Runners \ {r} : run'[q] = run[q]
        /\ \A n \in Names \ {name[r]} : RowOf(n)' = RowOf(n)
    BY <1>2, <2>1 DEF Spawn, RowOf, TypeOK
  <2>4. ASSUME NEW n \in Names, n = name[r] PROVE RowOf(n)'.pid \in {r, None}
    <3>1. meta'[n] = [RowOf(n) EXCEPT !.pid = r]
      BY <1>2, <2>4 DEF Spawn, TypeOK
    <3>2. CASE meta'[n] = None
      BY <3>2 DEF RowOf, BlankRow
    <3>3. CASE meta'[n] # None
      BY <3>1, <3>3, RowType DEF RowOf, Row
    <3> QED
      BY <3>2, <3>3
  <2>5. ASSUME NEW n \in Names, live'[n] # None, run'[live'[n]] \in {"run", "closing"}
        PROVE  RowOf(n)'.pid \in {live'[n], None}
    <3>1. CASE n = name[r]
      BY <2>1, <2>3, <2>4, <3>1
    <3>2. CASE n # name[r]
      BY <2>2, <2>3, <2>5, <3>2 DEF Registered, TypeOK
    <3> QED
      BY <3>1, <3>2
  <2> QED
    BY <2>5 DEF Registered
<1> QED
  BY <1>1, <1>2, RecordlessSteps

\* A runner's deferred cleanup never takes the row of a session that has replaced
\* its own and is running, however late it comes.
THEOREM SparesReplacement == Spec => OlderRunnerSparesReplacement
<1>1. Init => Registered
  BY NoneAssumption, InitialAssumption DEF Init, Registered, RowOf, BlankRow
<1>2. IInv /\ Registered /\ [Next]_vars => Registered'
  BY RegisteredStep DEF IInv
<1>3. ASSUME IInv, Registered, [Next]_vars, NEW r \in Runners,
             run[r] = "exitDelete", run'[r] = "exit",
             meta[name[r]] # None, meta'[name[r]] = None
      PROVE  live[name[r]] = None \/ run[live[name[r]]] \notin {"run", "closing"}
  <2>1. ExitDeletesRow(r)
    BY <1>3, RecordlessSteps DEF IInv, Deletes
  <2>2. name[r] \in Names /\ RowOf(name[r]).pid = r
    BY <1>3, <2>1 DEF ExitDeletesRow, IInv, NamesKnown
  <2> QED
    BY <1>3, <2>2, NoneAssumption DEF Registered
<1>4. IInv /\ Registered /\ [Next]_vars =>
        [\A r \in Runners :
           run[r] = "exitDelete" /\ run'[r] = "exit"
             /\ meta[name[r]] # None /\ meta'[name[r]] = None =>
           (live[name[r]] = None \/ run[live[name[r]]] \notin {"run", "closing"})]_vars
  BY <1>3
<1> QED
  BY <1>1, <1>2, <1>4, Invariant, PTL DEF Spec, OlderRunnerSparesReplacement
----------------------------------------------------------------------------
(* Nobody waits in a circle.                                                *)

\* Where a command or a tracker may have a lock: a thread lock from the owners
\* check to the end, a start lock in the two sections that begin with it.
MayHoldThread(p) ==
  pc[p] \notin Ended \cup {"idle", "lock", "identify", "register", "orphan", "off", "track"}
HoldsStart(p) == pc[p] \in {"write", "cleanKill", "cleanDelete"}

\* A lock is held by somebody who knows what it is for; a tracker begins with no lock.
LocksOwned ==
  /\ \A t \in Threads : threadLock[t] # None =>
       thread[threadLock[t]] = t /\ MayHoldThread(threadLock[t])
  /\ \A n \in Names : startLock[n] # None =>
       name[startLock[n]] = n /\ HoldsStart(startLock[n])
  /\ \A r \in Runners :
       run[r] \in {"unused", "boot", "register", "clear", "spawn"} => pc[r] = "off"

\* Who has the lock that p waits for, if anybody.
WaitsFor(p) ==
  (IF pc[p] = "lock" THEN {threadLock[thread[p]]}
   ELSE IF pc[p] \in {"reserve", "finalize", "cleanup"} THEN {startLock[name[p]]}
   ELSE {}) \ {None}

\* Nobody waits for a process that has ended, and whoever waits for somebody who
\* waits in turn waits for somebody who does not.
ShortWaits ==
  \A p \in Procs : \A q \in WaitsFor(p) :
    /\ pc[q] \notin Ended \cup {"idle", "off"}
    /\ \A r \in WaitsFor(q) : WaitsFor(r) = {}

LEMMA LocksOwnedStep ==
  ASSUME TypeOK, NamesKnown, AgentsHosted, LocksHeld, LocksOwned, [Next]_vars
  PROVE  LocksOwned'
<1> USE NoneAssumption, ProcsAssumption DEF Procs, registry, request, Ended, LocksOwned,
     MayHoldThread, HoldsStart
<1>0. /\ threadLock \in [Threads -> Procs \cup {None}]
      /\ startLock \in [Names -> Clis \cup {None}]
      /\ pc \in [Procs -> CliPcs \cup TrackerPcs]
      /\ name \in [Procs -> Names \cup {None}]
      /\ thread \in [Procs -> Threads \cup {None}]
      /\ \A p \in Procs : pc[p] = "lock" => thread[p] \in Threads
      /\ \A p \in Clis : pc[p] # "idle" => name[p] \in Names
      /\ \A n \in Names : live[n] # None => live[n] \in Runners
      /\ run \in [Runners -> RunStates]
  BY DEF TypeOK, NamesKnown, AgentsHosted, LocksHeld
<1>1. ASSUME NEW p \in Procs,
             LockThread(p) \/ ListSessions(p) \/ ListFails(p) \/ Collect(p) \/ Discover(p)
               \/ DecideFree(p)
      PROVE  LocksOwned'
  BY <1>0, <1>1 DEF LockThread, ListSessions, ListFails, Collect, Discover, Unseen,
    DecideFree, AfterDecide, Finish, Goto, Freed
<1>2. ASSUME NEW p \in Clis, Invoke(p) \/ DecideRefuse(p) PROVE LocksOwned'
  BY <1>0, <1>2, CommandsAssumption DEF Invoke, FirstStep, DecideRefuse, Finish, Goto, Freed
<1>3. ASSUME NEW p \in Clis,
             Reserve(p) \/ ReserveRefused(p) \/ WriteReservation(p) \/ AlreadyStarting(p)
      PROVE  LocksOwned'
  BY <1>0, <1>3 DEF Reserve, ReserveRefused, WriteReservation, AlreadyStarting, Finish, Goto, Freed
<1>4. ASSUME NEW p \in Clis,
             CommandFails(p) \/ AttachJoins(p) \/ StartFails(p) \/ ControlReady(p)
      PROVE  LocksOwned'
  BY <1>0, <1>4 DEF CommandFails, AttachJoins, AfterAttach, StartFails, ControlReady, Goto
<1>5. ASSUME NEW p \in Clis, AttachCreates(p) PROVE LocksOwned'
  BY <1>0, <1>5 DEF AttachCreates, AfterAttach, Goto
<1>6. ASSUME NEW p \in Clis,
             Finalize(p) \/ FinalizeFails(p) \/ CleanupCheck(p) \/ CleanupNotOwned(p)
               \/ CleanupDelete(p)
      PROVE  LocksOwned'
  BY <1>0, <1>6 DEF Finalize, FinalizeFails, CleanupCheck, CleanupNotOwned, CleanupDelete, Finish,
    Goto, Freed
<1>7. ASSUME NEW p \in Clis, CleanupKill(p) \/ Kill(p) PROVE LocksOwned'
  BY <1>0, <1>7 DEF CleanupKill, Kill, EndSession, Freed
<1>8. ASSUME NEW p \in Clis, Attached(p) PROVE LocksOwned'
  BY <1>0, <1>8 DEF Attached, Detach, AttachLost, LeaveLive, LeaveDead, OpenRegister,
    OpenUnregister, Finish, Goto, Freed
<1>9. ASSUME NEW p \in Clis,
             RequireList(p) \/ RequireFound(p) \/ RequireOver(p) \/ KillFails(p)
               \/ ForgetKilled(p) \/ ForgetRestarted(p)
      PROVE  LocksOwned'
  BY <1>0, <1>9 DEF RequireList, RequireFound, RequireOver, KillFails, ForgetKilled,
    ForgetRestarted, Finish, Goto, Freed
<1>10. ASSUME NEW p \in Clis, Identify(p) \/ IdentifyFails(p) PROVE LocksOwned'
  BY <1>0, <1>10 DEF Identify, IdentifyFails, Finish, Goto, Freed
<1>11. ASSUME NEW p \in Clis, Crash(p) PROVE LocksOwned'
  BY <1>0, <1>11 DEF Crash, Finish, Goto, Freed
<1>12. ASSUME NEW r \in Runners, MainStep(r) PROVE LocksOwned'
  <2>1. ASSUME BootFails(r) \/ Exit(r) PROVE LocksOwned'
    BY <1>0, <2>1 DEF BootFails, Exit, ProcessGone, Goto, Freed
  <2>2. ASSUME Spawn(r) PROVE LocksOwned'
    BY <1>0, <2>2 DEF Spawn, Goto
  <2>3. ASSUME ~(BootFails(r) \/ Exit(r) \/ Spawn(r)) PROVE LocksOwned'
    BY <1>0, <1>12, <2>3 DEF MainStep, Boot, Register, ClearStarting, ExitKeepsRow,
      ExitUnlisted, ExitDeletesRow
  <2> QED BY <2>1, <2>2, <2>3
<1>13. ASSUME NEW r \in Runners, AgentStep(r) PROVE LocksOwned'
  BY <1>0, <1>13 DEF AgentStep, AgentExits, AgentOpens, AgentSwitches
<1>14. ASSUME NEW r \in Runners, DecideConflict(r) \/ Track(r) \/ Claim(r) PROVE LocksOwned'
  BY <1>0, <1>14 DEF DecideConflict, Track, Claim, Finish, Goto, Freed
<1>15. CASE (\E n \in Names : Expire(n)) \/ UNCHANGED vars
  BY <1>15 DEF Expire, vars
<1> QED
  BY <1>1, <1>2, <1>3, <1>4, <1>5, <1>6, <1>7, <1>8, <1>9, <1>10, <1>11, <1>12, <1>13, <1>14,
     <1>15 DEF Next, CliStep, OwnersCheck, Start, Manage, TrackerStep

\* A process that waits for a thread lock has no lock, and who has a start lock waits
\* for nobody: commands and trackers cannot stop each other.
THEOREM NoDeadlock == Spec => []ShortWaits
<1>1. Init => LocksOwned
  BY ProcsAssumption, NoneAssumption DEF Init, LocksOwned, Procs
<1>2. IInv /\ LocksOwned /\ [Next]_vars => LocksOwned'
  BY LocksOwnedStep DEF IInv
<1>3. IInv /\ LocksOwned => ShortWaits
  <2> SUFFICES ASSUME IInv, LocksOwned, NEW p \in Procs, NEW q \in WaitsFor(p)
               PROVE  /\ pc[q] \notin Ended \cup {"idle", "off"}
                      /\ \A r \in WaitsFor(q) : WaitsFor(r) = {}
    BY DEF ShortWaits
  <2>1. \A s \in Procs : pc[s] = "lock" => thread[s] \in Threads
    BY DEF IInv, TypeOK, LocksHeld
  <2>2. \A s \in Procs : pc[s] \in {"reserve", "finalize", "cleanup"} => name[s] \in Names
    BY DEF IInv, TypeOK, NamesKnown, TrackerPcs, Procs
  <2>3. q \in Procs /\ pc[q] \notin Ended \cup {"idle", "off", "lock"}
    <3>1. /\ threadLock \in [Threads -> Procs \cup {None}]
          /\ startLock \in [Names -> Clis \cup {None}]
      BY DEF IInv, TypeOK
    <3>2. CASE pc[p] = "lock"
      BY <2>1, <3>1, <3>2, NoneAssumption DEF WaitsFor, LocksOwned, MayHoldThread, Ended
    <3>3. CASE pc[p] \in {"reserve", "finalize", "cleanup"}
      BY <2>2, <3>1, <3>3, NoneAssumption DEF WaitsFor, LocksOwned, HoldsStart, Procs, Ended
    <3> QED BY <3>2, <3>3 DEF WaitsFor
  <2>4. \A r \in WaitsFor(q) : HoldsStart(r)
    BY <2>2, <2>3 DEF WaitsFor, LocksOwned
  <2> QED BY <2>3, <2>4 DEF HoldsStart, WaitsFor
<1> QED BY <1>1, <1>2, <1>3, Invariant, PTL DEF Spec
================================================================================
