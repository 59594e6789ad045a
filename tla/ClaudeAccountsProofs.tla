------------------------- MODULE ClaudeAccountsProofs -------------------------
(***************************************************************************)
(* That a deleted account stays deleted, that no row of a cache is lost    *)
(* and that a delete spares the choice of others, for any directories,     *)
(* invocations, workers, commands and crashes.                             *)
(*                                                                         *)
(* All of it rests on the file lock: who is between the load and the store *)
(* of a cache holds the lock and a true copy (Copies).  A delete's choice  *)
(* is not under the lock; Choice says what the two sections of it share.   *)
(***************************************************************************)
EXTENDS ClaudeAccounts, FiniteSetTheorems, WellFoundedInduction, TLAPS

\* Between load and store nobody else changes a cache.
Copies == \A a \in Actors : pc[a] = "store" => job[a].copy = cache[job[a].file]

\* A delete is about to store the account that is current, if it has listed it.
Choice ==
  \A p \in Procs :
    pc[p] = "persist" /\ ~job[p].moved /\ current \in job[p].list => current = job[p].dir

IInv == TypeOK /\ Copies /\ NoLostRow /\ DeletedStays /\ Choice

LocksOK ==
  /\ lock \in Actors \cup {None}
  /\ pc \in [Actors -> Steps]
  /\ \A a \in Actors : pc[a] \in Locked <=> lock = a

CountsOK == counts \in [commands : Nat, crashes : Nat]

----------------------------------------------------------------------------
(* Operators.                                                               *)

\* The least element of a set of numbers is one of them.
LEMMA MinIn ==
  ASSUME NEW S, S \subseteq Nat, S # {}
  PROVE  Min(S) \in S
<1> DEFINE R == {ss \in Nat \X Nat : ss[1] < ss[2]}
<1>1. IsWellFoundedOn(R, Nat)
  BY NatLessThanWellFounded DEF OpToRel
<1>2. PICK x \in S : \A y \in S : ~ (<<y, x>> \in R)
  BY <1>1, WFMin
<1>3. ASSUME NEW y \in S PROVE x =< y
  <2>1. x \in Nat /\ y \in Nat /\ <<y, x>> \notin R
    BY <1>2
  <2>2. <<y, x>> \in Nat \X Nat /\ <<y, x>>[1] = y /\ <<y, x>>[2] = x
    BY <2>1
  <2>3. ~ (y < x)
    BY <2>1, <2>2
  <2> QED BY <2>1, <2>3
<1>4. \E z \in S : \A y \in S : z =< y
  BY <1>3
<1> QED BY <1>4 DEF Min

\* Who the actors are.
LEMMA ActorsAre ==
  /\ None \notin Actors
  /\ \A p \in Procs : p \in Actors /\ p \notin Workers
  /\ \A w \in Workers : w \in Actors /\ w \notin Procs /\ w[1] \in Procs /\ BossOf(w) = w[1]
<1>1. ASSUME NEW p \in Procs PROVE Slots(p) \subseteq Nat
  <2>1. Jobs[p] \in Nat
    BY BoundsAssumption
  <2> DEFINE S == {Jobs[p], 1}
  <2>2. \E x \in S : \A y \in S : x >= y
    BY <2>1
  <2>3. Max(S) \in S
    BY <2>2 DEF Max
  <2> QED BY <2>1, <2>3 DEF Slots
<1>2. \A w \in Workers : \E p \in Procs : w \in {p} \X Slots(p)
  BY DEF Workers
<1>3. \A w \in Workers : w[1] \in Procs /\ w \in Procs \X Nat
  BY <1>1, <1>2
<1>4. \A w \in Workers : w # None /\ w \notin Procs
  BY <1>3, NoneAssumption, ProcsAssumption
<1> QED BY <1>3, <1>4, NoneAssumption DEF Actors, BossOf

LEMMA NoJobType == NoJob \in JobSet
  BY DEF NoJob, JobSet, Empty, Rows

\* What the steps make of a job.
LEMMA JobUpdates ==
  ASSUME NEW j \in JobSet
  PROVE  /\ \A o \in Commands : [j EXCEPT !.op = o] \in JobSet
         /\ \A d \in Dirs \cup {None} : [j EXCEPT !.dir = d] \in JobSet
         /\ \A d \in Dirs \cup {None} : [j EXCEPT !.dir = d].list = j.list
         /\ \A l \in SUBSET Dirs : [j EXCEPT !.list = l] \in JobSet
         /\ \A c \in [Dirs -> Rows] : [j EXCEPT !.copy = c] \in JobSet
         /\ [j EXCEPT !.moved = TRUE] \in JobSet
         /\ \A f \in {"auth", "quota"}, r \in Rows : [j EXCEPT !.file = f, !.row = r] \in JobSet
  BY DEF JobSet

\* The list and the current account are directories.
LEMMA ListType == ASSUME FilesOK PROVE Listed \subseteq Dirs
  BY DirsAssumption DEF FilesOK, Listed

LEMMA CurrentIn ==
  ASSUME NEW list, list \subseteq Dirs, list # {}
  PROVE  CurrentOf(list) \in list
<1>1. Min(list) \in list
  BY MinIn, DirsAssumption
<1> QED BY <1>1 DEF CurrentOf

----------------------------------------------------------------------------
(* Types.                                                                   *)

\* The files.
LEMMA FilesStep == ASSUME TypeOK, [Next]_vars PROVE FilesOK'
<1> USE DEF files
<1>0. /\ FilesOK /\ \A a \in Actors : job[a] \in JobSet
      /\ \A a \in Actors : pc[a] \in Aimed => job[a].dir \in Dirs
  BY DEF TypeOK, JobsOK
<1>1. ASSUME NEW p \in Procs,
             \/ Invoke(p) \/ ListNone(p) \/ Crash(p) \/ Resolve(p) \/ AddRefused(p)
             \/ Login(p) \/ CloseJobs(p) \/ Join(p)
      PROVE  FilesOK'
  BY <1>1, <1>0, ActorsAre DEF Invoke, ListNone, Crash, Resolve, AddRefused, Login,
    CloseJobs, Join, FilesOK
<1>2. ASSUME NEW p \in Procs, List(p) \/ Relist(p) PROVE FilesOK'
  BY <1>2, <1>0, ListType DEF List, Relist, FilesOK
<1>3. ASSUME NEW p \in Procs, Set(p) \/ Persist(p) PROVE FilesOK'
  BY <1>3, <1>0, ActorsAre DEF Set, Persist, SetCurrent, FilesOK, Aimed
<1>4. ASSUME NEW p \in Procs, RemoveAccount(p) \/ Add(p) \/ SaveNew(p) PROVE FilesOK'
  BY <1>4, <1>0, ActorsAre DEF RemoveAccount, Add, SaveNew, FilesOK, Aimed
<1>5. ASSUME NEW p \in Procs, ForgetAuth(p) \/ ForgetQuota(p) PROVE FilesOK'
  <2>1. PICK f \in {"auth", "quota"} : ForgetRow(p, f)
    BY <1>5 DEF ForgetAuth, ForgetQuota
  <2>2. [cache[f] EXCEPT ![job[p].dir] = None] \in [Dirs -> Rows]
    BY <1>0 DEF FilesOK, Rows
  <2>3. cache' = [cache EXCEPT ![f] = [cache[f] EXCEPT ![job[p].dir] = None]]
    BY <2>1, <1>0 DEF ForgetRow, FilesOK
  <2>4. cache' \in [{"auth", "quota"} -> [Dirs -> Rows]]
    BY <2>2, <2>3, <1>0 DEF FilesOK
  <2> QED BY <1>5, <2>4, <1>0 DEF ForgetAuth, ForgetQuota, FilesOK
<1>6. ASSUME NEW p \in Procs, ForgetCurrent(p) PROVE FilesOK'
  BY <1>6, <1>0, ActorsAre DEF ForgetCurrent, FilesOK
<1>7. ASSUME NEW p \in Procs, Statusline(p) \/ Reserve(p) \/ Reset(p) PROVE FilesOK'
  BY <1>7, <1>0, ActorsAre DEF Statusline, Reserve, Reset, FilesOK
<1>8. ASSUME NEW w \in Workers,
             HandOut(w) \/ Finish(w) \/ ProbeAuth(w) \/ ProbeUsage(w)
      PROVE  FilesOK'
  BY <1>8, <1>0, ActorsAre DEF HandOut, Finish, ProbeAuth, ProbeUsage, FilesOK
<1>9. ASSUME NEW a \in Actors, Load(a) PROVE FilesOK'
  BY <1>9, <1>0, ActorsAre DEF Load, FilesOK
<1>10. ASSUME NEW a \in Actors, Store(a) PROVE FilesOK'
  <2>1. [job[a].copy EXCEPT ![job[a].dir] = job[a].row] \in [Dirs -> Rows]
    BY <1>0 DEF JobSet
  <2>2. cache' \in [{"auth", "quota"} -> [Dirs -> Rows]]
    BY <1>10, <1>0, <2>1 DEF Store, FilesOK, JobSet
  <2> QED BY <1>10, <2>2, <1>0 DEF Store, FilesOK
<1>11. ASSUME NEW d \in Dirs, UserMakes(d) PROVE FilesOK'
  BY <1>11, <1>0, ActorsAre DEF UserMakes, FilesOK
<1>12. CASE UNCHANGED vars
  BY <1>12, <1>0, ActorsAre DEF vars, FilesOK
<1> QED
  BY <1>1, <1>2, <1>3, <1>4, <1>5, <1>6, <1>7, <1>8, <1>9, <1>10, <1>11, <1>12 DEF Next,
    DeleteStep, AddStep, NewStep, FeedStep, WorkerStep

\* What a step of one actor does to lock and program counters.
LEMMA Moved ==
  ASSUME LocksOK, NEW a \in Actors, NEW s \in Steps, Goto(a, s),
         \/ UNCHANGED lock /\ (pc[a] \in Locked <=> s \in Locked)
         \/ lock = None /\ lock' = a /\ s \in Locked
         \/ lock = a /\ lock' = None /\ s \notin Locked
  PROVE  LocksOK'
  BY ActorsAre DEF LocksOK, Goto

\* The steps of a process.
LEMMA LocksStep == ASSUME TypeOK, [Next]_vars PROVE LocksOK'
<1> USE DEF files, End
<1>0. LocksOK
  BY DEF TypeOK, LocksOK
<1>a. ASSUME NEW a \in Actors, NEW s \in Steps \ Locked, Goto(a, s), UNCHANGED lock,
             pc[a] \notin Locked
      PROVE  LocksOK'
  BY <1>a, <1>0, Moved
<1>b. ASSUME NEW a \in Actors, NEW s \in Steps \cap Locked, Goto(a, s), UNCHANGED lock,
             pc[a] \in Locked
      PROVE  LocksOK'
  BY <1>b, <1>0, Moved
<1>c. ASSUME NEW a \in Actors, NEW s \in Steps \cap Locked, Goto(a, s),
             lock = None, lock' = a
      PROVE  LocksOK'
  BY <1>c, <1>0, Moved
<1>d. ASSUME NEW a \in Actors, NEW s \in Steps \ Locked, Goto(a, s),
             pc[a] \in Locked, lock' = None
      PROVE  LocksOK'
  BY <1>d, <1>0, Moved DEF LocksOK
<1>1. ASSUME NEW p \in Procs,
             \/ Invoke(p) \/ ListNone(p) \/ Set(p) \/ Relist(p) \/ Resolve(p)
             \/ Persist(p) \/ Add(p) \/ AddRefused(p) \/ Statusline(p) \/ Reset(p)
             \/ Login(p) \/ CloseJobs(p) \/ Join(p)
      PROVE  LocksOK'
  <2>1. /\ UNCHANGED lock /\ pc[p] \notin Locked
        /\ \E s \in Steps \ Locked : Goto(p, s)
    BY <1>1 DEF Invoke, ListNone, Set, Relist, Resolve, Persist, Add, AddRefused,
      Statusline,
                 Reset, Login, CloseJobs, Join, Steps, Locked
  <2> QED BY <2>1, <1>a, ActorsAre
<1>2. ASSUME NEW p \in Procs, List(p) PROVE LocksOK'
  <2>1. CASE StartWorkers(p, Listed)
    BY <1>2, <2>1, <1>0, ActorsAre DEF List, StartWorkers, LocksOK, Steps, Locked
  <2>2. CASE ~StartWorkers(p, Listed)
    <3>1. /\ UNCHANGED lock /\ pc[p] \notin Locked
          /\ \E s \in Steps \ Locked : Goto(p, s)
      BY <1>2, <2>2 DEF List, Steps, Locked
    <3> QED BY <3>1, <1>a, ActorsAre
  <2> QED BY <2>1, <2>2
<1>3. ASSUME NEW p \in Procs, Crash(p) PROVE LocksOK'
  BY <1>3, <1>0, ActorsAre DEF Crash, LocksOK, Steps, Locked
<1>4. ASSUME NEW p \in Procs, RemoveAccount(p) \/ Reserve(p) PROVE LocksOK'
  <2>1. CASE UNCHANGED lock
    <3>1. /\ pc[p] \notin Locked
          /\ \E s \in Steps \ Locked : Goto(p, s)
      BY <1>4, <2>1, ActorsAre DEF RemoveAccount, Reserve, Steps, Locked
    <3> QED BY <3>1, <2>1, <1>a, ActorsAre
  <2>2. CASE ~UNCHANGED lock
    <3>1. /\ lock = None /\ lock' = p
          /\ \E s \in Steps \cap Locked : Goto(p, s)
      BY <1>4, <2>2 DEF RemoveAccount, Reserve, Steps, Locked
    <3> QED BY <3>1, <1>c, ActorsAre
  <2> QED BY <2>1, <2>2
<1>5. ASSUME NEW p \in Procs, ForgetAuth(p) \/ ForgetQuota(p) PROVE LocksOK'
  <2>1. /\ UNCHANGED lock /\ pc[p] \in Locked
        /\ \E s \in Steps \cap Locked : Goto(p, s)
    BY <1>5 DEF ForgetAuth, ForgetQuota, Steps, Locked
  <2> QED BY <2>1, <1>b, ActorsAre
<1>6. ASSUME NEW p \in Procs, ForgetCurrent(p) \/ SaveNew(p) PROVE LocksOK'
  <2>1. /\ pc[p] \in Locked /\ lock' = None
        /\ \E s \in Steps \ Locked : Goto(p, s)
    BY <1>6 DEF ForgetCurrent, SaveNew, Steps, Locked
  <2> QED BY <2>1, <1>d, ActorsAre
<1>7. ASSUME NEW w \in Workers,
             HandOut(w) \/ Finish(w) \/ ProbeAuth(w) \/ ProbeUsage(w)
      PROVE  LocksOK'
  <2>1. /\ UNCHANGED lock /\ pc[w] \notin Locked
        /\ \E s \in Steps \ Locked : Goto(w, s)
    BY <1>7 DEF HandOut, Finish, ProbeAuth, ProbeUsage, Steps, Locked
  <2> QED BY <2>1, <1>a, ActorsAre
<1>8. ASSUME NEW a \in Actors, Load(a) PROVE LocksOK'
  <2>1. "store" \in Steps \cap Locked
    BY DEF Steps, Locked
  <2> QED BY <1>8, <2>1, <1>c DEF Load
<1>9. ASSUME NEW a \in Actors, Store(a) PROVE LocksOK'
  <2>1. pc[a] \in Locked /\ lock' = None
    BY <1>9 DEF Store, Locked
  <2>2. CASE a \in Procs
    <3>1. "idle" \in Steps \ Locked /\ Goto(a, "idle")
      BY <1>9, <2>2 DEF Store, Steps, Locked
    <3> QED BY <2>1, <3>1, <1>d
  <2>3. CASE a \notin Procs
    <3>1. a \in Workers /\ Proceed(a)
      BY <1>9, <2>3 DEF Store, Actors
    <3>2. job[a].file = "auth" => job[a].row \in {"in", "out", "error"}
      BY <1>9, <3>1 DEF Store, TypeOK, JobsOK
    <3>3. job[a].file \in {"auth", "quota"}
      BY DEF TypeOK, JobsOK, JobSet
    <3>4. \E s \in Steps \ Locked : Goto(a, s)
      BY <3>1, <3>2, <3>3 DEF Proceed, Steps, Locked
    <3> QED BY <2>1, <3>4, <1>d
  <2> QED BY <2>2, <2>3
<1>10. ASSUME NEW d \in Dirs, UserMakes(d) PROVE LocksOK'
  BY <1>10, <1>0 DEF UserMakes, LocksOK
<1>11. CASE UNCHANGED vars
  BY <1>11, <1>0 DEF vars, LocksOK
<1> QED
  BY <1>1, <1>2, <1>3, <1>4, <1>5, <1>6, <1>7, <1>8, <1>9, <1>10, <1>11 DEF Next,
    DeleteStep, AddStep, NewStep, FeedStep, WorkerStep

\* What a step of one actor makes of its job.
LEMMA Learned ==
  ASSUME TypeOK, NEW a \in Actors, NEW s, NEW j \in JobSet, Goto(a, s), Learn(a, j),
         s \in Aimed => j.dir \in Dirs,
         s = "resolve" => j.list # {},
         s \in {"load", "store"} /\ a \in Workers /\ j.file = "auth" =>
           j.row \in {"in", "out", "error"}
  PROVE  JobsOK'
<1>1. /\ pc \in [Actors -> Steps] /\ JobsOK
  BY DEF TypeOK
<1>2. job' \in [Actors -> JobSet]
  BY <1>1 DEF Learn, JobsOK
<1>3. ASSUME NEW b \in Actors, b # a
      PROVE  pc'[b] = pc[b] /\ job'[b] = job[b]
  BY <1>1, <1>3 DEF Learn, Goto, JobsOK
<1>4. pc'[a] = s /\ job'[a] = j
  BY <1>1 DEF Learn, Goto, JobsOK
<1> QED BY <1>1, <1>2, <1>3, <1>4 DEF JobsOK

\* A job about another directory.
LEMMA DirUpdate ==
  ASSUME NEW j \in JobSet, NEW d \in Dirs
  PROVE  [j EXCEPT !.dir = d] \in JobSet /\ [j EXCEPT !.dir = d].dir = d
  BY DEF JobSet

\* A step that leaves its job as it is learns that job.
LEMMA Unlearned ==
  ASSUME JobsOK, NEW a \in Actors, UNCHANGED job
  PROVE  Learn(a, job[a])
  BY DEF JobsOK, Learn

\* The jobs.
LEMMA JobsStep == ASSUME TypeOK, [Next]_vars PROVE JobsOK'
<1> USE DEF files
<1>0. /\ FilesOK /\ JobsOK /\ \A a \in Actors : job[a] \in JobSet
      /\ \A a \in Actors : pc[a] \in Aimed => job[a].dir \in Dirs
      /\ pc \in [Actors -> Steps]
  BY DEF TypeOK, JobsOK
<1>a. ASSUME NEW a \in Actors, Goto(a, "idle"), Learn(a, NoJob) PROVE JobsOK'
  BY <1>a, Learned, NoJobType DEF Aimed
<1>b. ASSUME NEW a \in Actors, NEW s, Goto(a, s), UNCHANGED job,
             s \notin {"resolve", "load", "store"}, s \in Aimed => pc[a] \in Aimed
      PROVE  JobsOK'
  BY <1>b, <1>0, Learned, Unlearned
<1>1. ASSUME NEW p \in Procs, Invoke(p) PROVE JobsOK'
  <2>0. "idle" \notin Aimed
    BY DEF Aimed
  <2>1. ASSUME NEW o \in Commands, Learn(p, [NoJob EXCEPT !.op = o]),
               Goto(p, "list") \/ Goto(p, "reserve")
        PROVE  JobsOK'
    BY <2>1, <2>0, Learned, NoJobType, JobUpdates, ActorsAre DEF Aimed
  <2>2. ASSUME NEW d \in Dirs, NEW o \in Commands, Goto(p, "add"),
               Learn(p, [NoJob EXCEPT !.op = o, !.dir = d])
        PROVE  JobsOK'
    <3> DEFINE j == [NoJob EXCEPT !.op = o, !.dir = d]
    <3>1. j \in JobSet /\ j.dir = d
      BY NoJobType DEF JobSet
    <3> QED BY <2>2, <3>1, Learned, ActorsAre DEF Aimed
  <2>3. ASSUME NEW d \in Dirs, NEW o \in Commands, Goto(p, "load"),
               Learn(p, [NoJob EXCEPT !.op = o, !.dir = d, !.file = "quota", !.row = "quota"])
        PROVE  JobsOK'
    <3> DEFINE j == [NoJob EXCEPT !.op = o, !.dir = d, !.file = "quota", !.row = "quota"]
    <3>1. j \in JobSet /\ j.dir = d
      BY NoJobType DEF JobSet, Rows
    <3> QED BY <2>3, <3>1, Learned, ActorsAre DEF Aimed
  <2> QED BY <1>1, <2>1, <2>2, <2>3 DEF Invoke
<1>2. ASSUME NEW p \in Procs, List(p) PROVE JobsOK'
  <2>0. Listed \subseteq Dirs /\ p \in Actors /\ job[p] \in JobSet
    BY <1>0, ListType, ActorsAre
  <2>1. ASSUME NEW d \in Listed, Learn(p, [job[p] EXCEPT !.dir = d]),
               Goto(p, "set") \/ Goto(p, "remove")
        PROVE  JobsOK'
    <3> DEFINE j == [job[p] EXCEPT !.dir = d]
    <3>1. j \in JobSet /\ j.dir = d
      BY <2>0 DEF JobSet
    <3> QED BY <2>0, <2>1, <3>1, Learned
  <2>2. ASSUME StartWorkers(p, Listed) PROVE JobsOK'
    <3> DEFINE j == [job[p] EXCEPT !.list = Listed]
    <3>1. j \in JobSet
      BY <2>0, JobUpdates
    <3>2. job' \in [Actors -> JobSet] /\ \A b \in Actors : b # p => job'[b] = job[b]
      BY <2>0, <2>2, <3>1, <1>0 DEF StartWorkers, Learn, JobsOK
    <3>3. pc'[p] = "feed" /\ \A b \in Actors : b # p => pc'[b] \in {pc[b], "ready"}
      BY <2>0, <2>2, <1>0 DEF StartWorkers
    <3>4. \A b \in Actors : b # p /\ pc'[b] # "ready" => pc'[b] = pc[b]
      BY <3>3
    <3> QED BY <3>2, <3>3, <3>4, <1>0 DEF JobsOK, Aimed
  <2> QED BY <1>2, <2>1, <2>2 DEF List
<1>3. ASSUME NEW p \in Procs, ListNone(p) PROVE JobsOK'
  <2>1. CASE job[p].op = "refresh"
    <3> DEFINE j == [NoJob EXCEPT !.op = "new"]
    <3>1. j \in JobSet
      BY NoJobType DEF JobSet
    <3> QED BY <1>3, <2>1, <3>1, Learned, ActorsAre DEF ListNone, Aimed
  <2>2. CASE job[p].op # "refresh"
    BY <1>3, <2>2, <1>a, ActorsAre DEF ListNone, End
  <2> QED BY <2>1, <2>2
<1>4. ASSUME NEW p \in Procs, Set(p) \/ Persist(p) PROVE JobsOK'
  <2> DEFINE d == job[p].dir
  <2>1. SetCurrent(p, d) /\ Goto(p, "idle")
    BY <1>4 DEF Set, Persist
  <2>2. ASSUME NEW b \in Actors, b # p
        PROVE  /\ pc'[b] = pc[b] /\ job'[b] \in JobSet
               /\ job'[b].dir = job[b].dir /\ job'[b].list = job[b].list
               /\ job'[b].row = job[b].row /\ job'[b].file = job[b].file
    BY <2>1, <2>2, <1>0 DEF SetCurrent, Goto, JobSet
  <2>3. pc'[p] = "idle" /\ job'[p] = NoJob
    BY <2>1, <1>0, ActorsAre DEF SetCurrent, Goto
  <2>4. job' \in [Actors -> JobSet]
    <3>1. job' = [b \in Actors |-> job'[b]]
      BY <2>1 DEF SetCurrent
    <3> QED BY <3>1, <2>2, <2>3, NoJobType
  <2> QED BY <2>2, <2>3, <2>4, <1>0 DEF JobsOK, Aimed
<1>5. ASSUME NEW p \in Procs, Crash(p) PROVE JobsOK'
  <2>1. ASSUME NEW b \in Actors
        PROVE  \/ pc'[b] \in {"idle", "off"} /\ job'[b] = NoJob
               \/ pc'[b] = pc[b] /\ job'[b] = job[b]
    BY <1>5 DEF Crash
  <2>2. job' \in [Actors -> JobSet]
    <3>1. job' = [b \in Actors |-> job'[b]]
      BY <1>5 DEF Crash
    <3> QED BY <3>1, <2>1, <1>0, NoJobType
  <2> QED BY <2>1, <2>2, <1>0 DEF JobsOK, Aimed
<1>6. ASSUME NEW p \in Procs,
             \/ RemoveAccount(p) \/ ForgetAuth(p) \/ ForgetQuota(p)
             \/ ForgetCurrent(p) \/ Add(p) \/ SaveNew(p) \/ Reset(p)
             \/ CloseJobs(p)
      PROVE  JobsOK'
  <2>1. UNCHANGED job
    BY <1>6 DEF RemoveAccount, ForgetAuth, ForgetQuota, ForgetCurrent, Add, SaveNew, Reset,
      CloseJobs
  <2>2. \E s : /\ Goto(p, s) /\ s \notin {"resolve", "load", "store"}
               /\ s \in Aimed => pc[p] \in Aimed
    BY <1>6 DEF RemoveAccount, ForgetAuth, ForgetQuota, ForgetCurrent, Add, SaveNew, Reset,
      CloseJobs, Aimed
  <2> QED BY <2>1, <2>2, <1>b, ActorsAre
<1>7. ASSUME NEW p \in Procs, Relist(p) PROVE JobsOK'
  <2>0. Listed \subseteq Dirs /\ p \in Actors /\ job[p] \in JobSet
    BY <1>0, ListType, ActorsAre
  <2>1. CASE Listed = {}
    BY <1>7, <2>0, <2>1, <1>a DEF Relist, End
  <2>2. CASE Listed # {}
    <3> DEFINE j == [job[p] EXCEPT !.list = Listed]
    <3>1. j \in JobSet /\ j.list = Listed
      BY <2>0 DEF JobSet
    <3> QED BY <1>7, <2>0, <2>2, <3>1, Learned DEF Relist, Aimed
  <2> QED BY <2>1, <2>2
<1>8. ASSUME NEW p \in Procs, Resolve(p) PROVE JobsOK'
  <2>0. p \in Actors /\ job[p] \in JobSet /\ job[p].list # {} /\ job[p].list \subseteq Dirs
    BY <1>8, <1>0, ActorsAre DEF Resolve, JobsOK, JobSet
  <2>1. CurrentOf(job[p].list) \in Dirs
    BY <2>0, CurrentIn
  <2> DEFINE j == [job[p] EXCEPT !.dir = CurrentOf(job[p].list)]
  <2>2. j \in JobSet /\ j.dir = CurrentOf(job[p].list)
    BY <2>0, <2>1 DEF JobSet
  <2> QED BY <1>8, <2>0, <2>1, <2>2, Learned DEF Resolve
<1>9. ASSUME NEW p \in Procs, AddRefused(p) \/ Statusline(p) \/ Join(p) PROVE JobsOK'
  BY <1>9, <1>a, ActorsAre DEF AddRefused, Statusline, Join, End
<1>10. ASSUME NEW p \in Procs, Reserve(p) PROVE JobsOK'
  <2> DEFINE free == {d \in Reservable : dirs[d] = "none"}
             j == [job[p] EXCEPT !.dir = Min(free)]
  <2>1. CASE free = {}
    BY <1>10, <2>1, <1>a, ActorsAre DEF Reserve, End
  <2>2. CASE free # {}
    <3>0. free \subseteq Dirs /\ free \subseteq Nat
      BY DirsAssumption
    <3>1. Min(free) \in Dirs
      BY <2>2, <3>0, MinIn
    <3>2. j \in JobSet /\ j.dir = Min(free)
      BY <3>1, <1>0, ActorsAre, DirUpdate
    <3>3. Goto(p, "save") /\ Learn(p, j)
      BY <1>10, <2>2 DEF Reserve
    <3> QED BY <3>1, <3>2, <3>3, Learned, ActorsAre
  <2> QED BY <2>1, <2>2
<1>11. ASSUME NEW p \in Procs, Login(p) PROVE JobsOK'
  <2>1. CASE Goto(p, "set") /\ UNCHANGED job
    BY <1>11, <2>1, <1>b, ActorsAre DEF Login, Aimed
  <2>2. CASE End(p)
    BY <2>2, <1>a, ActorsAre DEF End
  <2> QED BY <1>11, <2>1, <2>2 DEF Login
<1>12. ASSUME NEW w \in Workers, HandOut(w) PROVE JobsOK'
  <2> DEFINE b == BossOf(w)
             d == Min(job[b].list)
             j == [NoJob EXCEPT !.dir = d]
             k == [job[b] EXCEPT !.list = @ \ {Min(@)}]
  <2>1. /\ b \in Actors /\ w \in Actors /\ b # w /\ job[b].list # {} /\ pc[b] = "feed"
        /\ job[b].list \subseteq Dirs
    BY <1>12, <1>0, ActorsAre DEF HandOut, JobSet
  <2>2. d \in Dirs
    BY <2>1, MinIn, DirsAssumption
  <2>3. j \in JobSet /\ j.dir = d /\ k \in JobSet
    BY <2>1, <2>2, <1>0, NoJobType DEF JobSet
  <2>4. /\ job' \in [Actors -> JobSet] /\ job'[w] = j
        /\ \A a \in Actors \ {w, b} : job'[a] = job[a]
    BY <1>12, <2>1, <2>3, <1>0 DEF HandOut, JobsOK
  <2>5. pc'[w] = "auth" /\ \A a \in Actors : a # w => pc'[a] = pc[a]
    BY <1>12, <2>1, <1>0 DEF HandOut, Goto
  <2>6. \A a \in Actors \ {w, b} : pc'[a] = pc[a] /\ job'[a] = job[a]
    BY <2>4, <2>5
  <2>7. pc'[b] = "feed" /\ b \in Actors
    BY <2>1, <2>5
  <2> HIDE DEF b, d, j, k
  <2> QED BY <2>2, <2>3, <2>4, <2>5, <2>6, <2>7, <1>0 DEF JobsOK, Aimed
<1>13. ASSUME NEW w \in Workers, Finish(w) PROVE JobsOK'
  BY <1>13, <1>b, ActorsAre DEF Finish, Aimed
<1>14. ASSUME NEW w \in Workers, ProbeAuth(w) PROVE JobsOK'
  <2>1. PICK r \in {"in", "out", "error"} : Learn(w, [job[w] EXCEPT !.file = "auth", !.row = r])
    BY <1>14 DEF ProbeAuth
  <2> DEFINE j == [job[w] EXCEPT !.file = "auth", !.row = r]
  <2>2. w \in Actors /\ job[w] \in JobSet /\ job[w].dir \in Dirs
    BY <1>14, <1>0, ActorsAre DEF ProbeAuth, Aimed
  <2>3. j \in JobSet /\ j.dir = job[w].dir /\ j.row = r
    BY <2>2 DEF JobSet, Rows
  <2>4. Goto(w, "load")
    BY <1>14 DEF ProbeAuth
  <2> QED BY <2>1, <2>2, <2>3, <2>4, Learned
<1>15. ASSUME NEW w \in Workers, ProbeUsage(w) PROVE JobsOK'
  <2> DEFINE j == [job[w] EXCEPT !.file = "quota", !.row = "quota"]
  <2>1. w \in Actors /\ job[w] \in JobSet /\ job[w].dir \in Dirs
    BY <1>15, <1>0, ActorsAre DEF ProbeUsage, Aimed
  <2>2. j \in JobSet /\ j.dir = job[w].dir /\ j.file = "quota"
    BY <2>1 DEF JobSet, Rows
  <2>3. Goto(w, "load") /\ Learn(w, j)
    BY <1>15 DEF ProbeUsage
  <2> QED BY <2>1, <2>2, <2>3, Learned
<1>16. ASSUME NEW a \in Actors, Load(a) PROVE JobsOK'
  <2> DEFINE j == [job[a] EXCEPT !.copy = cache[job[a].file]]
  <2>1. job[a] \in JobSet /\ job[a].dir \in Dirs
    BY <1>16, <1>0 DEF Load, Aimed
  <2>2. cache[job[a].file] \in [Dirs -> Rows]
    BY <2>1, <1>0 DEF FilesOK, JobSet
  <2>3. j \in JobSet /\ j.dir = job[a].dir /\ j.file = job[a].file /\ j.row = job[a].row
    BY <2>1, <2>2 DEF JobSet
  <2>4. Goto(a, "store") /\ Learn(a, j) /\ pc[a] = "load"
    BY <1>16 DEF Load
  <2>5. a \in Workers /\ j.file = "auth" => j.row \in {"in", "out", "error"}
    BY <2>3, <2>4, <1>0 DEF JobsOK
  <2> QED BY <2>1, <2>3, <2>4, <2>5, Learned
<1>17. ASSUME NEW a \in Actors, Store(a) PROVE JobsOK'
  <2>1. CASE a \in Procs
    BY <1>17, <2>1, <1>a DEF Store, End
  <2>2. CASE a \notin Procs
    <3>1. job[a] \in JobSet /\ job[a].dir \in Dirs /\ Proceed(a)
          /\ (job[a].file = "auth" => job[a].row \in {"in", "out", "error"})
      BY <1>17, <2>2, <1>0 DEF Store, Aimed, JobsOK, Actors
    <3>2. CASE Goto(a, "ready") /\ Learn(a, NoJob)
      BY <3>2, Learned, NoJobType DEF Aimed
    <3> DEFINE j == [job[a] EXCEPT !.row = None, !.copy = Empty]
               k == [job[a] EXCEPT !.file = "quota", !.row = None, !.copy = Empty]
    <3>3. /\ j \in JobSet /\ j.dir = job[a].dir
          /\ k \in JobSet /\ k.dir = job[a].dir /\ k.file = "quota"
      BY <3>1 DEF JobSet, Empty, Rows
    <3>4. CASE Goto(a, "usage") /\ Learn(a, j)
      BY <3>1, <3>3, <3>4, Learned
    <3>5. CASE Goto(a, "load") /\ Learn(a, k)
      BY <3>1, <3>3, <3>5, Learned
    <3>6. job[a].file \in {"auth", "quota"}
      BY <3>1 DEF JobSet
    <3> QED BY <3>1, <3>2, <3>4, <3>5, <3>6 DEF Proceed
  <2> QED BY <2>1, <2>2
<1>18. ASSUME NEW d \in Dirs, UserMakes(d) PROVE JobsOK'
  BY <1>18, <1>0 DEF UserMakes, JobsOK
<1>19. CASE UNCHANGED vars
  BY <1>19, <1>0 DEF vars, JobsOK
<1> QED
  BY <1>1, <1>2, <1>3, <1>4, <1>5, <1>6, <1>7, <1>8, <1>9, <1>10, <1>11, <1>12, <1>13,
    <1>14, <1>15, <1>16, <1>17, <1>18, <1>19 DEF Next, DeleteStep, AddStep, NewStep,
    FeedStep, WorkerStep

\* The bounds of the environment.
LEMMA CountsStep == ASSUME CountsOK, [Next]_vars PROVE CountsOK'
<1>1. \/ UNCHANGED counts
      \/ counts' = [counts EXCEPT !.commands = @ + 1]
      \/ counts' = [counts EXCEPT !.crashes = @ + 1]
  BY DEF Next, DeleteStep, AddStep, NewStep, FeedStep, WorkerStep, vars, Invoke, List,
    ListNone,
    Set, Crash, RemoveAccount, ForgetAuth, ForgetQuota, ForgetCurrent, Relist, Resolve, Persist,
    Add, AddRefused, Statusline, Reserve, SaveNew, Reset, Login, CloseJobs, Join, HandOut,
    Finish, ProbeAuth, ProbeUsage, Load, Store, UserMakes
<1> QED BY <1>1 DEF CountsOK

----------------------------------------------------------------------------
(* What each step does to caches, accounts and choices.                     *)

\* Under the lock there is one actor.
LEMMA Alone ==
  ASSUME TypeOK, NEW a \in Actors, pc[a] \in Locked
  PROVE  \A b \in Actors : pc[b] = "store" => b = a
  BY DEF TypeOK, Locked

\* A copy is true until it is stored.
LEMMA CopiesStep == ASSUME TypeOK, Copies, [Next]_vars PROVE Copies'
<1> USE DEF files
<1>0. /\ pc \in [Actors -> Steps] /\ job \in [Actors -> JobSet]
      /\ \A a \in Actors : job[a] \in JobSet
  BY DEF TypeOK, JobsOK
<1>a. ASSUME UNCHANGED cache,
             \A a \in Actors : pc'[a] = "store" =>
               pc[a] = "store" /\ job'[a].copy = job[a].copy /\ job'[a].file = job[a].file
      PROVE  Copies'
  BY <1>a DEF Copies
<1>b. ASSUME NEW a \in Actors, NEW s, s # "store", Goto(a, s), UNCHANGED cache,
             \A b \in Actors \ {a} : job'[b] = job[b]
      PROVE  Copies'
  BY <1>a, <1>b, <1>0 DEF Goto
<1>c. ASSUME NEW a \in Actors, NEW s, s # "store", Goto(a, s), pc[a] \in Locked
      PROVE  Copies'
  BY <1>c, <1>0, Alone DEF Goto, Copies
<1>1. ASSUME NEW p \in Procs,
             \/ Invoke(p) \/ ListNone(p) \/ RemoveAccount(p) \/ ForgetCurrent(p)
             \/ Relist(p) \/ Resolve(p) \/ Add(p) \/ AddRefused(p) \/ Statusline(p)
             \/ Reserve(p) \/ SaveNew(p) \/ Reset(p) \/ Login(p) \/ CloseJobs(p)
             \/ Join(p)
      PROVE  Copies'
  <2>1. \/ UNCHANGED job
        \/ \E j : Learn(p, j)
    BY <1>1 DEF Invoke, ListNone, RemoveAccount, ForgetCurrent, Relist, Resolve, Add,
      AddRefused,
                 Statusline, Reserve, SaveNew, Reset, Login, CloseJobs, Join, End
  <2>2. \A b \in Actors \ {p} : job'[b] = job[b]
    BY <2>1, <1>0 DEF Learn
  <2>3. UNCHANGED cache /\ \E s : s # "store" /\ Goto(p, s)
    BY <1>1 DEF Invoke, ListNone, RemoveAccount, ForgetCurrent, Relist, Resolve, Add,
      AddRefused,
                 Statusline, Reserve, SaveNew, Reset, Login, CloseJobs, Join, End
  <2> QED BY <2>2, <2>3, <1>b, ActorsAre
<1>2. ASSUME NEW p \in Procs, List(p) PROVE Copies'
  <2>1. \A b \in Actors \ {p} : job'[b] = job[b]
    BY <1>2, <1>0 DEF List, StartWorkers, Learn
  <2>2. CASE StartWorkers(p, Listed)
    <3>1. \A b \in Actors : pc'[b] \in {"feed", "ready", pc[b]}
      BY <2>2 DEF StartWorkers
    <3>2. pc'[p] = "feed"
      BY <2>2, ActorsAre DEF StartWorkers
    <3> QED BY <1>2, <2>1, <3>1, <3>2, <1>a DEF List
  <2>3. CASE ~StartWorkers(p, Listed)
    BY <1>2, <2>1, <2>3, <1>b, ActorsAre DEF List
  <2> QED BY <2>2, <2>3
<1>3. ASSUME NEW p \in Procs, Set(p) \/ Persist(p) PROVE Copies'
  <2>1. ASSUME NEW b \in Actors, b # p
        PROVE  job'[b].copy = job[b].copy /\ job'[b].file = job[b].file
    <3>1. job'[b] = job[b] \/ job'[b] = [job[b] EXCEPT !.moved = TRUE]
      BY <1>3, <2>1 DEF Set, Persist, SetCurrent
    <3> QED BY <3>1, <1>0 DEF JobSet
  <2>2. Goto(p, "idle") /\ UNCHANGED cache
    BY <1>3 DEF Set, Persist
  <2>3. pc'[p] = "idle" /\ \A b \in Actors \ {p} : pc'[b] = pc[b]
    BY <2>2, <1>0, ActorsAre DEF Goto
  <2> QED BY <2>1, <2>2, <2>3, <1>a
<1>4. ASSUME NEW p \in Procs, Crash(p) PROVE Copies'
  <2>1. \A b \in Actors : \/ pc'[b] \in {"idle", "off"}
                          \/ pc'[b] = pc[b] /\ job'[b] = job[b]
    BY <1>4 DEF Crash
  <2> QED BY <1>4, <2>1, <1>a DEF Crash
<1>5. ASSUME NEW p \in Procs, ForgetAuth(p) \/ ForgetQuota(p) PROVE Copies'
  <2>1. pc[p] \in Locked /\ \E s : s # "store" /\ Goto(p, s)
    BY <1>5 DEF ForgetAuth, ForgetQuota, Locked
  <2>2. \A b \in Actors : pc'[b] # "store"
    BY <2>1, <1>0, Alone, ActorsAre DEF Goto
  <2> QED BY <2>2 DEF Copies
<1>6. ASSUME NEW w \in Workers, HandOut(w) PROVE Copies'
  <2>1. /\ w \in Actors /\ BossOf(w) \in Actors /\ pc[BossOf(w)] = "feed"
        /\ Goto(w, "auth") /\ UNCHANGED cache
        /\ \A a \in Actors \ {w, BossOf(w)} : job'[a] = job[a]
    BY <1>6, <1>0, ActorsAre DEF HandOut
  <2>2. \A a \in Actors : pc'[a] = "store" => pc[a] = "store" /\ a \notin {w, BossOf(w)}
    BY <2>1, <1>0 DEF Goto
  <2> QED BY <2>1, <2>2, <1>a
<1>7. ASSUME NEW w \in Workers, Finish(w) \/ ProbeAuth(w) \/ ProbeUsage(w) PROVE Copies'
  <2>1. /\ w \in Actors /\ UNCHANGED cache /\ \E s : s # "store" /\ Goto(w, s)
        /\ \A a \in Actors \ {w} : job'[a] = job[a]
    BY <1>7, <1>0, ActorsAre DEF Finish, ProbeAuth, ProbeUsage, Learn
  <2> QED BY <2>1, <1>b
<1>8. ASSUME NEW a \in Actors, Load(a) PROVE Copies'
  <2>1. \A b \in Actors : b # a => pc'[b] = pc[b] /\ job'[b] = job[b]
    BY <1>8, <1>0 DEF Load, Goto, Learn
  <2>2. job'[a] = [job[a] EXCEPT !.copy = cache[job[a].file]] /\ UNCHANGED cache
    BY <1>8, <1>0 DEF Load, Learn
  <2>3. job'[a].copy = cache'[job'[a].file]
    BY <2>2, <1>0 DEF JobSet
  <2> QED BY <1>8, <2>1, <2>2, <2>3 DEF Copies
<1>9. ASSUME NEW a \in Actors, Store(a) PROVE Copies'
  <2>1. pc[a] \in Locked
    BY <1>9 DEF Store, Locked
  <2>2. \E s : s # "store" /\ Goto(a, s)
    <3>1. CASE a \in Procs
      BY <1>9, <3>1 DEF Store, End
    <3>2. CASE a \notin Procs
      <4>1. a \in Workers /\ Proceed(a)
        BY <1>9, <3>2 DEF Store, Actors
      <4>2. /\ job[a].file = "auth" => job[a].row \in {"in", "out", "error"}
            /\ job[a].file \in {"auth", "quota"}
        BY <1>9, <4>1 DEF Store, TypeOK, JobsOK, JobSet
      <4> QED BY <4>1, <4>2 DEF Proceed
    <3> QED BY <3>1, <3>2
  <2>3. \A b \in Actors : pc'[b] # "store"
    BY <2>1, <2>2, <1>0, Alone DEF Goto
  <2> QED BY <2>3 DEF Copies
<1>10. ASSUME NEW d \in Dirs, UserMakes(d) PROVE Copies'
  BY <1>10, <1>a DEF UserMakes
<1>11. CASE UNCHANGED vars
  BY <1>11, <1>a DEF vars
<1> QED
  BY <1>1, <1>2, <1>3, <1>4, <1>5, <1>6, <1>7, <1>8, <1>9, <1>10, <1>11 DEF Next,
    DeleteStep, AddStep, NewStep, FeedStep, WorkerStep

\* Rows are forgotten and stored one at a time.
LEMMA NoLostRowStep == ASSUME TypeOK, Copies, NoLostRow, [Next]_vars PROVE NoLostRow'
<1> USE DEF files
<1>1. ASSUME NEW p \in Procs,
             \/ List(p) \/ Invoke(p) \/ ListNone(p) \/ Set(p) \/ Crash(p)
             \/ RemoveAccount(p) \/ ForgetCurrent(p) \/ Relist(p) \/ Resolve(p)
             \/ Persist(p) \/ Add(p) \/ AddRefused(p) \/ Statusline(p)
             \/ Reserve(p) \/ SaveNew(p) \/ Reset(p) \/ Login(p) \/ CloseJobs(p)
             \/ Join(p)
      PROVE  NoLostRow'
  BY <1>1 DEF List, Invoke, ListNone, Set, Crash, RemoveAccount, ForgetCurrent, Relist,
    Resolve, Persist, Add, AddRefused, Statusline, Reserve, SaveNew, Reset, Login,
    CloseJobs, Join, NoLostRow
<1>2. ASSUME NEW p \in Procs, ForgetAuth(p) \/ ForgetQuota(p) PROVE NoLostRow'
  BY <1>2 DEF ForgetAuth, ForgetQuota, ForgetRow, NoLostRow
<1>3. ASSUME NEW w \in Workers,
             HandOut(w) \/ Finish(w) \/ ProbeAuth(w) \/ ProbeUsage(w)
      PROVE  NoLostRow'
  BY <1>3 DEF HandOut, Finish, ProbeAuth, ProbeUsage, NoLostRow
<1>4. ASSUME NEW a \in Actors, Load(a) PROVE NoLostRow'
  BY <1>4 DEF Load, NoLostRow
<1>5. ASSUME NEW a \in Actors, Store(a) PROVE NoLostRow'
  <2>1. job[a].copy = cache[job[a].file]
    BY <1>5 DEF Store, Copies
  <2> QED BY <1>5, <2>1 DEF Store, NoLostRow
<1>6. ASSUME NEW d \in Dirs, UserMakes(d) PROVE NoLostRow'
  BY <1>6 DEF UserMakes, NoLostRow
<1>7. CASE UNCHANGED vars
  BY <1>7 DEF vars, NoLostRow
<1> QED
  BY <1>1, <1>2, <1>3, <1>4, <1>5, <1>6, <1>7 DEF Next, DeleteStep, AddStep, NewStep,
    FeedStep, WorkerStep

\* Accounts come from the list, which spares the ignored, and by add and new,
\* which ignore no longer.
LEMMA DeletedStaysStep == ASSUME DeletedStays, [Next]_vars PROVE DeletedStays'
<1> USE DEF files
<1>1. ASSUME NEW p \in Procs,
             \/ Invoke(p) \/ ListNone(p) \/ Set(p) \/ Crash(p) \/ ForgetAuth(p)
             \/ ForgetQuota(p) \/ ForgetCurrent(p) \/ Resolve(p) \/ Persist(p)
             \/ AddRefused(p) \/ Statusline(p) \/ Reserve(p) \/ Reset(p)
             \/ Login(p) \/ CloseJobs(p) \/ Join(p)
      PROVE  DeletedStays'
  BY <1>1 DEF Invoke, ListNone, Set, Crash, ForgetAuth, ForgetQuota, ForgetCurrent,
    Resolve, Persist, AddRefused, Statusline, Reserve, Reset, Login, CloseJobs, Join,
    DeletedStays, Listed
<1>2. ASSUME NEW p \in Procs, List(p) \/ Relist(p) PROVE DeletedStays'
  BY <1>2 DEF List, Relist, DeletedStays, Listed
<1>3. ASSUME NEW p \in Procs, RemoveAccount(p) \/ Add(p) \/ SaveNew(p) PROVE DeletedStays'
  BY <1>3 DEF RemoveAccount, Add, SaveNew, DeletedStays, Listed
<1>4. ASSUME NEW w \in Workers,
             HandOut(w) \/ Finish(w) \/ ProbeAuth(w) \/ ProbeUsage(w)
      PROVE  DeletedStays'
  BY <1>4 DEF HandOut, Finish, ProbeAuth, ProbeUsage, DeletedStays, Listed
<1>5. ASSUME NEW a \in Actors, Load(a) \/ Store(a) PROVE DeletedStays'
  BY <1>5 DEF Load, Store, DeletedStays, Listed
<1>6. ASSUME NEW d \in Dirs, UserMakes(d) PROVE DeletedStays'
  BY <1>6 DEF UserMakes, DeletedStays, Listed
<1>7. CASE UNCHANGED vars
  BY <1>7 DEF vars, DeletedStays, Listed
<1> QED
  BY <1>1, <1>2, <1>3, <1>4, <1>5, <1>6, <1>7 DEF Next, DeleteStep, AddStep, NewStep,
    FeedStep, WorkerStep

\* From its read of the state to its write, a delete knows of every change.
LEMMA ChoiceStep == ASSUME TypeOK, Choice, [Next]_vars PROVE Choice'
<1> USE DEF files
<1>0. /\ pc \in [Actors -> Steps] /\ job \in [Actors -> JobSet]
      /\ \A a \in Actors : job[a] \in JobSet
  BY DEF TypeOK, JobsOK
<1>a. ASSUME current' \in {current, None},
             \A p \in Procs : pc'[p] = "persist" => pc[p] = "persist" /\ job'[p] = job[p]
      PROVE  Choice'
  <2> SUFFICES ASSUME NEW p \in Procs, pc'[p] = "persist", ~job'[p].moved,
                      current' \in job'[p].list
               PROVE  current' = job'[p].dir
    BY DEF Choice
  <2>1. None \notin job[p].list
    BY <1>0, NoneAssumption, ActorsAre DEF JobSet
  <2> QED BY <1>a, <2>1 DEF Choice
<1>b. ASSUME NEW a \in Actors, NEW s, s # "persist", Goto(a, s), current' \in {current, None},
             \A b \in Procs \ {a} : job'[b] = job[b]
      PROVE  Choice'
  BY <1>a, <1>b, <1>0, ActorsAre DEF Goto
<1>1. ASSUME NEW p \in Procs,
             \/ Invoke(p) \/ ListNone(p) \/ RemoveAccount(p) \/ ForgetAuth(p)
             \/ ForgetQuota(p) \/ ForgetCurrent(p) \/ Relist(p) \/ Add(p)
             \/ AddRefused(p) \/ Statusline(p) \/ Reserve(p) \/ SaveNew(p)
             \/ Reset(p) \/ Login(p) \/ CloseJobs(p) \/ Join(p)
      PROVE  Choice'
  <2>1. \/ UNCHANGED job
        \/ \E j : Learn(p, j)
    BY <1>1 DEF Invoke, ListNone, RemoveAccount, ForgetAuth, ForgetQuota, ForgetCurrent,
      Relist,
                 Add, AddRefused, Statusline, Reserve, SaveNew, Reset, Login, CloseJobs, Join, End
  <2>2. \A b \in Procs \ {p} : job'[b] = job[b]
    BY <2>1, <1>0, ActorsAre DEF Learn
  <2>3. current' \in {current, None} /\ \E s : s # "persist" /\ Goto(p, s)
    BY <1>1 DEF Invoke, ListNone, RemoveAccount, ForgetAuth, ForgetQuota, ForgetCurrent,
      Relist,
                 Add, AddRefused, Statusline, Reserve, SaveNew, Reset, Login, CloseJobs, Join, End
  <2> QED BY <2>2, <2>3, <1>b, ActorsAre
<1>2. ASSUME NEW p \in Procs, List(p) PROVE Choice'
  <2>1. \A b \in Procs \ {p} : job'[b] = job[b]
    BY <1>2, <1>0, ActorsAre DEF List, StartWorkers, Learn
  <2>2. CASE StartWorkers(p, Listed)
    <3>1. \A b \in Actors : pc'[b] \in {"feed", "ready", pc[b]}
      BY <2>2 DEF StartWorkers
    <3>2. pc'[p] = "feed"
      BY <2>2, ActorsAre DEF StartWorkers
    <3> QED BY <1>2, <2>1, <3>1, <3>2, <1>a, ActorsAre DEF List
  <2>3. CASE ~StartWorkers(p, Listed)
    BY <1>2, <2>1, <2>3, <1>b, ActorsAre DEF List
  <2> QED BY <2>2, <2>3
<1>3. ASSUME NEW p \in Procs, Set(p) \/ Persist(p) PROVE Choice'
  <2> SUFFICES ASSUME NEW b \in Procs, pc'[b] = "persist" PROVE job'[b].moved
    BY DEF Choice
  <2>1. Goto(p, "idle") /\ \E d : SetCurrent(p, d)
    BY <1>3 DEF Set, Persist
  <2>2. b # p /\ pc[b] = "persist" /\ b \in Actors
    BY <2>1, <1>0, ActorsAre DEF Goto
  <2>3. job'[b] = [job[b] EXCEPT !.moved = TRUE]
    BY <2>1, <2>2 DEF SetCurrent
  <2> QED BY <2>2, <2>3, <1>0 DEF JobSet
<1>4. ASSUME NEW p \in Procs, Crash(p) PROVE Choice'
  <2>1. \A b \in Actors : \/ pc'[b] \in {"idle", "off"}
                          \/ pc'[b] = pc[b] /\ job'[b] = job[b]
    BY <1>4 DEF Crash
  <2> QED BY <1>4, <2>1, <1>a, ActorsAre DEF Crash
<1>5. ASSUME NEW p \in Procs, Resolve(p) PROVE Choice'
  <2> DEFINE d == CurrentOf(job[p].list)
             j == [job[p] EXCEPT !.dir = d]
  <2>1. p \in Actors /\ Learn(p, j) /\ Goto(p, "persist") /\ UNCHANGED current
    BY <1>5, ActorsAre DEF Resolve
  <2>2. \A b \in Procs \ {p} : pc'[b] = pc[b] /\ job'[b] = job[b]
    BY <2>1, <1>0, ActorsAre DEF Goto, Learn
  <2>3. job'[p] = j /\ j.list = job[p].list /\ j.dir = d
    BY <2>1, <1>0 DEF Learn, JobSet
  <2>4. current \in job[p].list => current = d
    BY DEF CurrentOf
  <2> HIDE DEF d, j
  <2>5. current' \in job'[p].list => current' = job'[p].dir
    BY <2>1, <2>3, <2>4
  <2> QED BY <2>1, <2>2, <2>5 DEF Choice
<1>6. ASSUME NEW w \in Workers, HandOut(w) PROVE Choice'
  <2>1. /\ w \in Actors /\ w \notin Procs /\ BossOf(w) \in Procs /\ pc[BossOf(w)] = "feed"
        /\ Goto(w, "auth") /\ UNCHANGED current
        /\ \A a \in Actors \ {w, BossOf(w)} : job'[a] = job[a]
    BY <1>6, <1>0, ActorsAre DEF HandOut
  <2>2. \A b \in Procs : pc'[b] = "persist" => pc[b] = "persist" /\ b \notin {w, BossOf(w)}
    BY <2>1, <1>0, ActorsAre DEF Goto
  <2> QED BY <2>1, <2>2, <1>a, ActorsAre
<1>7. ASSUME NEW w \in Workers, Finish(w) \/ ProbeAuth(w) \/ ProbeUsage(w) PROVE Choice'
  <2>1. /\ w \in Actors /\ UNCHANGED current /\ \E s : s # "persist" /\ Goto(w, s)
        /\ \A a \in Actors \ {w} : job'[a] = job[a]
    BY <1>7, <1>0, ActorsAre DEF Finish, ProbeAuth, ProbeUsage, Learn
  <2> QED BY <2>1, <1>b, ActorsAre
<1>8. ASSUME NEW a \in Actors, Load(a) PROVE Choice'
  <2>1. \A b \in Actors : b # a => job'[b] = job[b]
    BY <1>8, <1>0 DEF Load, Learn
  <2>2. Goto(a, "store") /\ UNCHANGED current
    BY <1>8 DEF Load
  <2> QED BY <2>1, <2>2, <1>b, ActorsAre
<1>9. ASSUME NEW a \in Actors, Store(a) PROVE Choice'
  <2>1. \E s, j : s # "persist" /\ Goto(a, s) /\ Learn(a, j)
    <3>1. CASE a \in Procs
      BY <1>9, <3>1 DEF Store, End
    <3>2. CASE a \notin Procs
      <4>1. a \in Workers /\ Proceed(a)
        BY <1>9, <3>2 DEF Store, Actors
      <4>2. /\ job[a].file = "auth" => job[a].row \in {"in", "out", "error"}
            /\ job[a].file \in {"auth", "quota"}
        BY <1>9, <4>1 DEF Store, TypeOK, JobsOK, JobSet
      <4> QED BY <4>1, <4>2 DEF Proceed
    <3> QED BY <3>1, <3>2
  <2>2. \A b \in Procs \ {a} : job'[b] = job[b]
    BY <2>1, <1>0, ActorsAre DEF Learn
  <2> QED BY <1>9, <2>1, <2>2, <1>b DEF Store
<1>10. ASSUME NEW d \in Dirs, UserMakes(d) PROVE Choice'
  BY <1>10, <1>a DEF UserMakes
<1>11. CASE UNCHANGED vars
  BY <1>11, <1>a DEF vars
<1> QED
  BY <1>1, <1>2, <1>3, <1>4, <1>5, <1>6, <1>7, <1>8, <1>9, <1>10, <1>11 DEF Next,
    DeleteStep, AddStep, NewStep, FeedStep, WorkerStep

----------------------------------------------------------------------------
(* The invariant.                                                           *)

LEMMA Initially == ASSUME Init PROVE IInv
<1>1. /\ \A a \in Actors : pc[a] \in {"idle", "off"} /\ job[a] = NoJob
      /\ pc \in [Actors -> Steps] /\ job \in [Actors -> JobSet]
  BY NoJobType DEF Init, Steps
<1>2. FilesOK
  <2>1. Empty \in [Dirs -> Rows]
    BY DEF Empty, Rows
  <2> QED BY <2>1, DirsAssumption DEF Init, FilesOK
<1>3. TypeOK
  BY <1>1, <1>2, ActorsAre DEF Init, TypeOK, JobsOK, Locked, Aimed
<1>4. Copies /\ Choice
  BY <1>1, ActorsAre DEF Copies, Choice
<1>5. NoLostRow /\ DeletedStays
  BY DEF Init, NoLostRow, DeletedStays
<1> QED BY <1>3, <1>4, <1>5 DEF IInv

LEMMA Inductive == IInv /\ [Next]_vars => IInv'
<1> SUFFICES ASSUME IInv, [Next]_vars PROVE IInv'
  OBVIOUS
<1>1. TypeOK /\ Copies /\ NoLostRow /\ DeletedStays /\ Choice
  BY DEF IInv
<1>2. TypeOK'
  BY <1>1, FilesStep, LocksStep, JobsStep, CountsStep DEF TypeOK, LocksOK, CountsOK
<1>3. Copies' /\ NoLostRow'
  BY <1>1, CopiesStep, NoLostRowStep
<1>4. DeletedStays' /\ Choice'
  BY <1>1, DeletedStaysStep, ChoiceStep
<1> QED BY <1>2, <1>3, <1>4 DEF IInv

\* The inductive invariant holds in every reachable state.
THEOREM Invariant == Spec => []IInv
  BY Initially, Inductive, PTL DEF Spec

\* Types: who is at a step that needs the file lock holds it, and every step finds
\* the directory, the list or the result it needs.
THEOREM TypeCorrect == Spec => []TypeOK
<1>1. IInv => TypeOK
  BY DEF IInv
<1> QED BY <1>1, Invariant, PTL

\* readAccountsUnlocked and getAccounts: an account that was deleted is not found
\* again in the directory it leaves.
THEOREM DeletedForGood == Spec => []DeletedStays
<1>1. IInv => DeletedStays
  BY DEF IInv
<1> QED BY <1>1, Invariant, PTL

\* updateAuth, updateQuota, clearQuota: whatever workers, status lines and deletes
\* write at once, the caches hold what each of them left last.
THEOREM RowsKept == Spec => []NoLostRow
<1>1. IInv => NoLostRow
  BY DEF IInv
<1> QED BY <1>1, Invariant, PTL

\* Only a delete's last step takes it from "persist" to the end with another
\* current account.
LEMMA PersistOnly ==
  ASSUME TypeOK, [Next]_vars, NEW p \in Procs,
         pc[p] = "persist", pc'[p] = "idle", current' # current
  PROVE  Persist(p)
<1> USE DEF files, vars
<1>0. pc \in [Actors -> Steps] /\ p \in Actors /\ p \notin Workers
  BY ActorsAre DEF TypeOK
<1>1. ASSUME NEW q \in Procs, Set(q) \/ Persist(q) \/ ForgetCurrent(q) PROVE Persist(p)
  BY <1>0, <1>1, ActorsAre DEF Set, Persist, ForgetCurrent, Goto
<1>2. \E q \in Procs : Set(q) \/ Persist(q) \/ ForgetCurrent(q)
  BY DEF Next, DeleteStep, AddStep, NewStep, FeedStep, WorkerStep, Invoke, List, ListNone,
    Crash, RemoveAccount, ForgetAuth, ForgetQuota, Relist, Resolve, Add, AddRefused,
    Statusline, Reserve, SaveNew, Reset, Login, CloseJobs, Join, HandOut, Finish, ProbeAuth,
    ProbeUsage, Load, Store, UserMakes
<1> QED BY <1>1, <1>2

\* persistResolvedCurrentAccount: what a delete stores is what it has read, unless
\* the current account was none of its list or was set by somebody else meanwhile.
THEOREM ChoiceSpared == Spec => DeleteSparesChoice
<1> DEFINE Spares ==
      \A p \in Procs :
        pc[p] = "persist" /\ pc'[p] = "idle" /\ current' # current =>
          current \notin job[p].list \/ job[p].moved
<1>1. IInv /\ [Next]_vars => [Spares]_vars
  <2> SUFFICES ASSUME IInv, [Next]_vars PROVE Spares
    OBVIOUS
  <2> SUFFICES ASSUME NEW p \in Procs,
                      pc[p] = "persist", pc'[p] = "idle", current' # current
               PROVE  current \notin job[p].list \/ job[p].moved
    OBVIOUS
  <2>1. Persist(p)
    BY PersistOnly DEF IInv
  <2>2. current' = job[p].dir
    BY <2>1 DEF Persist, SetCurrent
  <2> QED BY <2>2 DEF IInv, Choice
<1> QED BY <1>1, Invariant, PTL DEF Spec, DeleteSparesChoice
----------------------------------------------------------------------------
(* The workers of a refresh.                                                *)

\* While a refresh has accounts to hand out there is a worker to take them, and no
\* worker is left behind by a refresh that has ended or was killed.
PoolServes ==
  /\ \A p \in Procs : pc[p] = "feed" => \E w \in Workers : BossOf(w) = p /\ pc[w] # "off"
  /\ \A w \in Workers : pc[w] # "off" => pc[BossOf(w)] \in {"feed", "wait"}

\* It is the first worker that never leaves early.
Pool ==
  /\ \A p \in Procs : pc[p] = "feed" => pc[<<p, 1>>] # "off"
  /\ \A w \in Workers : pc[w] # "off" => pc[BossOf(w)] \in {"feed", "wait"}

\* Whatever the environment asks for, a refresh has a first worker.
LEMMA FirstWorker ==
  ASSUME NEW p \in Procs
  PROVE  /\ <<p, 1>> \in Workers /\ BossOf(<<p, 1>>) = p
         /\ \A total \in Nat : 1 <= WorkerCount(p, total)
<1>0. Jobs[p] \in Nat
  BY BoundsAssumption
<1>1. ASSUME NEW a \in Nat, NEW b \in Nat PROVE Max({a, b}) \in Nat /\ a <= Max({a, b})
                                                 /\ b <= Max({a, b})
  <2>1. \E x \in {a, b} : \A y \in {a, b} : x >= y
    OBVIOUS
  <2> QED BY <2>1 DEF Max
<1>2. ASSUME NEW total \in Nat PROVE 1 <= WorkerCount(p, total)
  <2>1. Min({total, Jobs[p]}) \in {total, Jobs[p]}
    BY <1>0, MinIn
  <2> QED BY <1>0, <1>1, <2>1 DEF WorkerCount
<1>3. 1 \in Slots(p)
  BY <1>0, <1>1 DEF Slots
<1> QED BY <1>2, <1>3 DEF Workers, BossOf

LEMMA PoolStep == ASSUME TypeOK, Pool, [Next]_vars PROVE Pool'
<1> USE DEF files
<1>0. pc \in [Actors -> Steps] /\ \A p \in Procs : <<p, 1>> \in Workers /\ BossOf(<<p, 1>>) = p
  BY FirstWorker DEF TypeOK
\* A process takes a step of its own, or a worker does.
<1>a. ASSUME NEW p \in Procs, NEW s \in Steps \ {"feed"}, Goto(p, s),
             pc[p] \in {"feed", "wait"} => s = "wait" \/ \A w \in Workers : BossOf(w) = p => pc[w] = "off"
      PROVE  Pool'
  <2>1. \A w \in Workers : pc'[w] = pc[w]
    BY <1>a, ActorsAre DEF Goto
  <2>2. \A q \in Procs \ {p} : pc'[q] = pc[q]
    BY <1>a, ActorsAre DEF Goto
  <2>3. pc'[p] = s
    BY <1>0, <1>a, ActorsAre DEF Goto
  <2>4. ASSUME NEW w \in Workers, pc'[w] # "off" PROVE pc'[BossOf(w)] \in {"feed", "wait"}
    <3>1. pc[BossOf(w)] \in {"feed", "wait"} /\ BossOf(w) \in Procs
      BY <2>1, <2>4, ActorsAre DEF Pool
    <3> QED BY <1>a, <2>1, <2>2, <2>3, <2>4, <3>1
  <2>5. ASSUME NEW q \in Procs, pc'[q] = "feed" PROVE pc'[<<q, 1>>] # "off"
    BY <1>0, <1>a, <2>1, <2>2, <2>3, <2>5 DEF Pool
  <2> QED BY <2>4, <2>5 DEF Pool
<1>b. ASSUME NEW w \in Workers, NEW s, Goto(w, s), pc[w] # "off",
             s = "off" => pc[BossOf(w)] # "feed"
      PROVE  Pool'
  <2>1. \A p \in Procs : pc'[p] = pc[p]
    BY <1>b, ActorsAre DEF Goto
  <2>2. /\ \A v \in Workers \ {w} : pc'[v] = pc[v]
        /\ pc'[w] = s
    BY <1>0, <1>b, ActorsAre DEF Goto
  <2>3. \A v \in Workers : BossOf(v) \in Procs
    BY ActorsAre
  <2> QED BY <1>0, <1>b, <2>1, <2>2, <2>3 DEF Pool
<1>c. ASSUME UNCHANGED pc PROVE Pool'
  BY <1>c DEF Pool
<1>1. ASSUME NEW p \in Procs,
             \/ Invoke(p) \/ ListNone(p) \/ Set(p) \/ DeleteStep(p) \/ AddStep(p)
             \/ NewStep(p)
      PROVE  Pool'
  <2>1. pc[p] \notin {"feed", "wait"}
    BY <1>1 DEF Invoke, ListNone, Set, DeleteStep, RemoveAccount, ForgetAuth, ForgetQuota,
      ForgetCurrent, Relist, Resolve, Persist, AddStep, Add, AddRefused, Statusline, NewStep,
      Reserve, SaveNew, Reset, Login
  <2>2. \E s \in Steps \ {"feed"} : Goto(p, s)
    BY <1>1 DEF Invoke, ListNone, Set, DeleteStep, RemoveAccount, ForgetAuth, ForgetQuota,
      ForgetCurrent, Relist, Resolve, Persist, AddStep, Add, AddRefused, Statusline, NewStep,
      Reserve, SaveNew, Reset, Login, End, Steps
  <2> QED BY <1>a, <2>1, <2>2
<1>2. ASSUME NEW p \in Procs, List(p) PROVE Pool'
  <2>1. CASE StartWorkers(p, Listed)
    <3>1. pc'[p] = "feed" /\ \A q \in Procs \ {p} : pc'[q] = pc[q]
      BY <2>1, ActorsAre DEF StartWorkers
    <3>2. Cardinality(Listed) \in Nat
      BY ListType, DirsAssumption, FS_Subset, FS_CardinalityType DEF TypeOK
    <3>3. pc'[<<p, 1>>] = "ready"
      <4>1. 1 <= WorkerCount(p, Cardinality(Listed))
        BY <3>2, FirstWorker
      <4> QED BY <1>0, <2>1, <4>1, ActorsAre DEF StartWorkers
    <3>4. \A w \in Workers : pc'[w] = pc[w] \/ (BossOf(w) = p /\ pc'[w] = "ready")
      BY <2>1, ActorsAre DEF StartWorkers
    <3>5. \A w \in Workers : BossOf(w) \in Procs
      BY ActorsAre
    <3> QED BY <1>0, <3>1, <3>3, <3>4, <3>5 DEF Pool
  <2>2. CASE ~StartWorkers(p, Listed)
    <3>1. pc[p] = "list" /\ (Goto(p, "set") \/ Goto(p, "remove"))
      BY <1>2, <2>2 DEF List
    <3> QED BY <1>a, <3>1 DEF Steps
  <2> QED BY <2>1, <2>2
<1>3. ASSUME NEW p \in Procs, FeedStep(p) PROVE Pool'
  <2>1. CASE CloseJobs(p)
    BY <2>1, <1>a DEF CloseJobs, Steps
  <2>2. CASE Join(p)
    BY <2>2, <1>a DEF Join, End, Steps
  <2> QED BY <1>3, <2>1, <2>2 DEF FeedStep
<1>4. ASSUME NEW p \in Procs, Crash(p) PROVE Pool'
  <2>1. pc'[p] = "idle" /\ \A q \in Procs \ {p} : pc'[q] = pc[q]
    BY <1>4, ActorsAre DEF Crash
  <2>2. \A w \in Workers : pc'[w] = IF BossOf(w) = p THEN "off" ELSE pc[w]
    BY <1>4, ActorsAre DEF Crash, BossOf
  <2>3. \A w \in Workers : BossOf(w) \in Procs
    BY ActorsAre
  <2> QED BY <1>0, <2>1, <2>2, <2>3 DEF Pool
<1>5. ASSUME NEW w \in Workers, WorkerStep(w) PROVE Pool'
  <2>1. /\ pc[w] # "off"
        /\ \E s : Goto(w, s) /\ (s = "off" => pc[BossOf(w)] # "feed")
    BY <1>5 DEF WorkerStep, HandOut, Finish, ProbeAuth, ProbeUsage
  <2> QED BY <1>b, <2>1
<1>6. ASSUME NEW a \in Actors, Load(a) \/ Store(a) PROVE Pool'
  <2>1. CASE a \in Procs
    <3>1. pc[a] \in {"load", "store"} /\ \E s \in Steps \ {"feed"} : Goto(a, s)
      BY <1>6, <2>1 DEF Load, Store, End, Steps
    <3> QED BY <1>a, <2>1, <3>1
  <2>2. CASE a \in Workers
    <3>1. pc[a] \in {"load", "store"} /\ \E s : s # "off" /\ Goto(a, s)
      <4>1. CASE Load(a)
        BY <4>1 DEF Load
      <4>2. CASE Store(a)
        <5>1. /\ job[a].file = "auth" => job[a].row \in {"in", "out", "error"}
              /\ job[a].file \in {"auth", "quota"}
          BY <2>2, <4>2 DEF Store, TypeOK, JobsOK, JobSet
        <5> QED BY <2>2, <4>2, <5>1, ActorsAre DEF Store, Proceed
      <4> QED BY <1>6, <4>1, <4>2
    <3> QED BY <1>b, <2>2, <3>1
  <2> QED BY <2>1, <2>2 DEF Actors
<1>7. ASSUME NEW d \in Dirs, UserMakes(d) PROVE Pool'
  BY <1>7, <1>c DEF UserMakes
<1>8. CASE UNCHANGED vars
  BY <1>8, <1>c DEF vars
<1> QED BY <1>1, <1>2, <1>3, <1>4, <1>5, <1>6, <1>7, <1>8 DEF Next

\* refreshWorkerCount and refreshAll: the goroutine that hands accounts out never waits
\* for workers that do not exist, though the environment may ask for none.
THEOREM PoolAlwaysServes == Spec => []PoolServes
<1>1. Init => Pool
  BY FirstWorker, ActorsAre DEF Init, Pool
<1>2. IInv /\ Pool /\ [Next]_vars => Pool'
  BY PoolStep DEF IInv
<1>3. Pool => PoolServes
  BY FirstWorker DEF Pool, PoolServes
<1> QED BY <1>1, <1>2, <1>3, Invariant, PTL DEF Spec
================================================================================
