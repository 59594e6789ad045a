-------------------------- MODULE AccountSwitchProofs --------------------------
(***************************************************************************)
(* That a switch keeps what it replaces, that an account keeps its owner   *)
(* and that the newest credentials of every login survive, for any         *)
(* accounts, invocations, logins, commands and crashes.                    *)
(*                                                                         *)
(* While an invocation holds the lock, the others delete accounts at most  *)
(* (Guarded): so what a switch found out when it synced and backed up      *)
(* holds when it writes (Owner, Covered).  That what it writes is never    *)
(* older than what it replaces rests on auth.json being ahead of its       *)
(* account (Older) and a login being in one account (Unique).              *)
(***************************************************************************)
EXTENDS AccountSwitch, TLAPS

Opening == {"switch", "login", "delete", "list"}
Switching == {"switch", "new"}
Syncing == {"syncCompare", "syncWrite"}

\* What an invocation knows at its next step.
Phase(p) ==
  LET j == job[p] IN
  /\ pc[p] \in {"list", "listed"} => j.op \in Opening /\ j.own = None
  /\ pc[p] \in {"import", "importState"} =>
       /\ j.cur \in Credentials /\ j.into \in Slots
       /\ \/ j.op \in Opening /\ j.own = None
          \/ j.op = "delete" /\ j.own \in Credentials
  /\ pc[p] = "login" => j.op = "new" \/ (j.op = "login" /\ j.name \in Slots)
  /\ pc[p] = "save" => j.op = "new" /\ j.name \in Slots /\ j.cur \in Credentials
  /\ pc[p] = "store" => j.op = "login" /\ j.name \in Slots /\ j.cur \in Credentials
  /\ pc[p] \in {"lock", "syncRead", "syncCompare", "syncWrite", "read", "backup"} =>
       j.op \in Switching /\ j.name \in Slots
  /\ pc[p] \in Syncing => j.cur \in Credentials /\ j.into \in Slots
  /\ pc[p] \in {"backup", "activate", "windowsBackup", "windowsActivate"} =>
       j.cur \in Credentials
  /\ pc[p] \in {"activate", "record"} =>
       j.op \in Switching \cup {"login", "delete"} /\ j.name \in Slots
  /\ pc[p] \in {"remove", "relist", "relisted", "adopt", "clearActive", "clearState"} =>
       j.op = "delete"
  /\ pc[p] \in {"remove", "adopt"} => j.name \in Slots
  /\ pc[p] = "relist" => j.own \in Credentials
  /\ pc[p] \in {"windowsRead", "windowsBackup", "windowsActivate"} =>
       j.op = "switch" /\ j.name \in Slots

\* Who may be where: the switchers of Windows have steps of their own, and the
\* locked steps are the holder's, but for a delete's.
Place(p) ==
  /\ provider \in Windows =>
       pc[p] \in {"idle", "windowsRead", "windowsBackup", "windowsActivate"}
  /\ provider \notin Windows =>
       pc[p] \notin {"windowsRead", "windowsBackup", "windowsActivate"}
  /\ pc[p] \in Locked /\ job[p].op # "delete" => lock = p

\* On Windows nothing changes an account.
OnWindows(p) ==
  /\ pc[p] = "windowsRead" => Has(slot[job[p].name])
  /\ pc[p] \in {"windowsBackup", "windowsActivate"} => job[p].cur = slot[job[p].name]

Located == \A p \in Procs : Phase(p) /\ Place(p) /\ OnWindows(p)

\* The account a switch syncs to is still that of the credentials, or deleted.
Owner(p) ==
  pc[p] \in Syncing /\ Has(slot[job[p].into]) =>
    SameIdentity(slot[job[p].into], job[p].cur)

\* What a switch is about to replace is in another file.
Covered(p) ==
  /\ pc[p] \in {"activate", "windowsActivate"} /\ job[p].op \in Switching
  /\ provider # "windows grok" /\ Has(active) /\ active.login \notin waived
  => active \in Kept \cup {job[p].cur}

IInv == TypeOK /\ Located /\ (\A p \in Procs : Owner(p) /\ Covered(p))

Act(p) ==
  \/ Invoke(p) \/ Crash(p) \/ WindowsStep(p)
  \/ ListStep(p) \/ LoginStep(p) \/ SwitchStep(p) \/ DeleteStep(p)

----------------------------------------------------------------------------
(* Operators.                                                               *)

LEMMA NoneApart ==
  /\ None \notin Procs /\ None \notin Slots /\ None \notin Logins
  /\ None \notin Credentials
BY NoneAssumption, BoundsAssumption DEF Credentials

LEMMA FirstIsCredentials ==
  ASSUME NEW l \in Logins
  PROVE  /\ FirstOf(l) \in Credentials /\ Has(FirstOf(l))
         /\ FirstOf(l).login = l /\ FirstOf(l).version = 1
BY NoneApart, BoundsAssumption DEF FirstOf, Credentials, Has

\* The account that credentials are found to be of shows their identity.
LEMMA ResolvedMatches ==
  ASSUME NEW c, NEW n \in Resolved(c), n # None
  PROVE  Has(c) /\ n \in Slots /\ Has(slot[n]) /\ SameIdentity(slot[n], c)
<1>1. Has(c)
  BY DEF Resolved
<1>2. n \in Matches(c) \/ (n \in Accounts /\ slot[n] = c)
  BY <1>1, Zenon DEF Resolved
<1> QED BY <1>1, <1>2 DEF Matches, Accounts, SameIdentity

LEMMA FilesTyped ==
  ASSUME TypeOK
  PROVE  /\ provider \in Providers /\ active \in File /\ slot \in [Slots -> File]
         /\ backups \subseteq Credentials /\ state \in Slots \cup {None}
         /\ issued \in [Logins -> 0..MaxVersion] /\ waived \subseteq Logins
         /\ \A n \in Slots : slot[n] \in File
         /\ Has(active) => active \in Credentials
         /\ \A n \in Slots : Has(slot[n]) => slot[n] \in Credentials
BY DEF TypeOK, File, Has

LEMMA JobsTyped ==
  ASSUME TypeOK
  PROVE  /\ pc \in [Procs -> Steps] /\ job \in [Procs -> Jobs]
         /\ lock \in Procs \cup {None}
         /\ \A p \in Procs : job[p].name \in Slots \cup {None}
                          /\ job[p].cur \in File /\ job[p].own \in File
                          /\ job[p].into \in Slots \cup {None}
                          /\ job[p].op \in {"switch", "new", "login", "delete", "list", None}
BY DEF TypeOK, Jobs

\* What is learnt keeps a job a job.
LEMMA Learnt ==
  ASSUME NEW j \in Jobs
  PROVE  /\ NoJob \in Jobs
         /\ \A o \in {"switch", "new", "login", "delete", "list"} :
              [NoJob EXCEPT !.op = o] \in Jobs /\ [j EXCEPT !.op = o] \in Jobs
         /\ \A n \in Slots : [NoJob EXCEPT !.op = "switch", !.name = n] \in Jobs
         /\ \A f \in File : [j EXCEPT !.cur = f] \in Jobs
         /\ \A f \in File : [j EXCEPT !.own = f] \in Jobs
         /\ \A f \in File : [j EXCEPT !.seen = f] \in Jobs
         /\ \A n \in Slots \cup {None} : [j EXCEPT !.name = n] \in Jobs
         /\ \A f \in File, n \in Slots \cup {None} :
              [j EXCEPT !.cur = f, !.into = n] \in Jobs
         /\ \A n \in Slots, b \in BOOLEAN :
              [j EXCEPT !.name = n, !.current = b, !.cur = None] \in Jobs
         /\ \A n \in Slots : [j EXCEPT !.name = n, !.cur = None] \in Jobs
         /\ [j EXCEPT !.op = "new", !.cur = None] \in Jobs
         /\ \A f \in File : [j EXCEPT !.cur = f, !.own = f] \in Jobs
         /\ \A n \in Slots, f \in File : [j EXCEPT !.name = n, !.cur = f, !.own = f] \in Jobs
<1>1. NoJob \in Jobs
  BY DEF NoJob, Jobs, File
<1>2. \A k \in Jobs, o \in {"switch", "new", "login", "delete", "list"} :
        [k EXCEPT !.op = o] \in Jobs
  BY DEF Jobs
<1>3. \A n \in Slots : [NoJob EXCEPT !.op = "switch", !.name = n] \in Jobs
  BY <1>1 DEF Jobs
<1>4. \A f \in File : [j EXCEPT !.cur = f] \in Jobs /\ [j EXCEPT !.own = f] \in Jobs
                   /\ [j EXCEPT !.seen = f] \in Jobs /\ [j EXCEPT !.cur = f, !.own = f] \in Jobs
  BY DEF Jobs
<1>5. \A f \in File, n \in Slots \cup {None} : [j EXCEPT !.cur = f, !.into = n] \in Jobs
  BY DEF Jobs
<1>6. \A n \in Slots \cup {None} : [j EXCEPT !.name = n] \in Jobs
  BY DEF Jobs
<1>7. /\ \A n \in Slots, b \in BOOLEAN :
           [j EXCEPT !.name = n, !.current = b, !.cur = None] \in Jobs
      /\ \A n \in Slots : [j EXCEPT !.name = n, !.cur = None] \in Jobs
      /\ [j EXCEPT !.op = "new", !.cur = None] \in Jobs
  BY DEF Jobs, File
<1>8. \A n \in Slots, f \in File : [j EXCEPT !.name = n, !.cur = f, !.own = f] \in Jobs
  BY DEF Jobs
<1> QED BY <1>1, <1>2, <1>3, <1>4, <1>5, <1>6, <1>7, <1>8

----------------------------------------------------------------------------
(* Types and places.                                                        *)

\* A step of one invocation leaves the others where they are, and who holds the
\* lock keeps it.
LEMMA Frame ==
  ASSUME TypeOK, NEW p \in Procs, Phase(p), Place(p), Act(p)
  PROVE  /\ \A q \in Procs \ {p} :
              pc'[q] = pc[q] /\ job'[q] = job[q] /\ (lock' = q <=> lock = q)
         /\ provider' = provider
         /\ waived \subseteq waived'
         /\ provider \in Windows => slot' = slot
<1>0. pc \in [Procs -> Steps] /\ job \in [Procs -> Jobs]
  BY JobsTyped
<1>w. provider \in Windows =>
        pc[p] \in {"idle", "windowsRead", "windowsBackup", "windowsActivate"}
  BY DEF Place
<1>1. CASE Invoke(p) \/ Crash(p)
  BY <1>1, <1>0, <1>w, NoneApart DEF Invoke, Crash, End, Goto, Learn, files, counts,
    Windows
<1>2. CASE Import(p) \/ ImportSave(p) \/ ImportRefused(p) \/ ImportRecord(p)
  BY <1>2, <1>0, <1>w, NoneApart DEF Import, ImportSave, ImportRefused, ImportRecord,
    End, Goto, Learn, files, counts, Windows
<1>3. CASE Look(p) \/ List(p) \/ ListOnly(p) \/ ListNew(p)
  BY <1>3, <1>0, <1>w, NoneApart DEF Look, List, ListOnly, ListNew, End, Goto, Learn, files,
    counts, Windows
<1>4. CASE \/ (\E l \in Logins : Login(p, l)) \/ LoginFails(p) \/ Save(p)
           \/ Store(p)
  BY <1>4, <1>0, <1>w, NoneApart DEF Login, LoginFails, Save, Store, End, Goto, Learn,
    files, counts, Windows
<1>5. CASE Lock(p) \/ SyncRead(p) \/ SyncCompare(p) \/ SyncWrite(p) \/ Read(p)
  BY <1>5, <1>0, <1>w, NoneApart DEF Lock, SyncRead, SyncCompare, SyncWrite, Read, End, Goto, Learn,
    files, counts, Windows
<1>6. CASE Backup(p) \/ Activate(p) \/ Record(p)
  BY <1>6, <1>0, <1>w, NoneApart DEF Backup, Activate, Record, End, Goto, Learn, files,
    counts, Windows
<1>7. CASE Remove(p) \/ RemoveFails(p) \/ Relist(p) \/ Choose(p) \/ ChooseNone(p)
  BY <1>7, <1>0, <1>w, NoneApart DEF Remove, RemoveFails, Relist, Choose, ChooseNone,
    End, Goto, Learn, files, counts, Windows
<1>8. CASE Adopt(p) \/ AdoptFails(p) \/ ClearActive(p) \/ ClearState(p)
  BY <1>8, <1>0, <1>w, NoneApart DEF Adopt, AdoptFails, ClearActive, ClearState, End,
    Goto, Learn, files, counts, Windows
<1>9. CASE \/ WindowsInvoke(p) \/ WindowsRead(p) \/ WindowsBackup(p)
           \/ WindowsActivate(p) \/ WindowsGrokActivate(p)
  BY <1>9, <1>0, <1>w, NoneApart DEF WindowsInvoke, WindowsRead, WindowsBackup,
    WindowsActivate, WindowsGrokActivate, End, Goto, Learn, files, counts, Windows
<1> QED BY <1>1, <1>2, <1>3, <1>4, <1>5, <1>6, <1>7, <1>8, <1>9 DEF Act, ListStep,
  LoginStep, SwitchStep, DeleteStep, WindowsStep

LEMMA FilesStep ==
  ASSUME TypeOK, NEW p \in Procs, Phase(p), Act(p)
  PROVE  /\ active' \in File /\ slot' \in [Slots -> File]
         /\ backups' \subseteq Credentials /\ state' \in Slots \cup {None}
         /\ issued' \in [Logins -> 0..MaxVersion] /\ waived' \subseteq Logins
         /\ commands' \in 0..MaxCommands /\ crashes' \in 0..MaxCrashes
<1>0. /\ active \in File /\ slot \in [Slots -> File]
      /\ backups \subseteq Credentials /\ state \in Slots \cup {None}
      /\ issued \in [Logins -> 0..MaxVersion] /\ waived \subseteq Logins
      /\ commands \in 0..MaxCommands /\ crashes \in 0..MaxCrashes
  BY DEF TypeOK
<1>v. waived \subseteq Logins
  BY <1>0
<1>j. /\ job[p].cur \in File /\ job[p].name \in Slots \cup {None}
      /\ job[p].into \in Slots \cup {None}
  BY JobsTyped
<1>l. \A f \in File : LoginOf(f) \subseteq Logins
  BY DEF LoginOf, File, Has, Credentials
<1>d. /\ \A n \in Slots : Mistaken(n, job[p].cur) \subseteq Logins
      /\ job[p].cur \in Credentials =>
           \A n \in Slots : Doubled(n, job[p].cur) \subseteq Logins
  <2>1. ASSUME NEW n \in Slots PROVE Mistaken(n, job[p].cur) \subseteq Logins
    BY <1>0, <1>l DEF Mistaken
  <2>2. ASSUME NEW n \in Slots, job[p].cur \in Credentials
        PROVE  Doubled(n, job[p].cur) \subseteq Logins
    BY <2>2 DEF Doubled, Credentials
  <2> QED BY <2>1, <2>2
<1>1. CASE Invoke(p) \/ Crash(p)
  BY <1>1, <1>0, <1>j, <1>l, NoneApart, BoundsAssumption DEF Invoke, Crash, files,
    counts, Phase, File, Has, Credentials
<1>2. CASE Import(p) \/ ImportRefused(p) \/ ImportRecord(p)
  BY <1>2, <1>0, <1>j DEF Import, ImportRefused, ImportRecord, files, counts
<1>14. CASE ImportSave(p)
  <2>1. /\ pc[p] = "import"
        /\ slot' = [slot EXCEPT ![job[p].into] = job[p].cur]
        /\ waived' = waived \cup Doubled(job[p].into, job[p].cur)
        /\ UNCHANGED <<active, backups, state, issued, commands, crashes>>
    BY <1>14, Zenon DEF ImportSave, counts
  <2>2. job[p].into \in Slots /\ job[p].cur \in Credentials
    BY <2>1 DEF Phase
  <2>3. waived' \subseteq Logins
    <3> DEFINE D == Doubled(job[p].into, job[p].cur)
    <3>1. D \subseteq Logins
      BY <2>2, <1>d, Zenon
    <3>2. waived' = waived \cup D
      BY <2>1
    <3> HIDE DEF D
    <3> QED BY <3>1, <3>2, <1>v
  <2>4. slot' \in [Slots -> File]
    BY <2>1, <1>0, <1>j
  <2> QED BY <2>1, <2>3, <2>4, <1>0
<1>3. CASE Look(p) \/ List(p) \/ ListOnly(p) \/ ListNew(p)
  BY <1>3, <1>0, <1>j, <1>l, NoneApart, BoundsAssumption DEF Look, List, ListOnly, ListNew,
    files, counts, Phase, File, Has, Credentials
<1>4. CASE (\E l \in Logins : Login(p, l)) \/ LoginFails(p)
  <2>1. CASE \E l \in Logins : Login(p, l)
    <3>1. PICK l \in Logins : Login(p, l)
      BY <2>1
    <3>2. issued' = [issued EXCEPT ![l] = 1]
      BY <3>1, Zenon DEF Login
    <3>3. 1 \in 0..MaxVersion
      BY BoundsAssumption
    <3>4. UNCHANGED <<active, slot, backups, state, waived, commands, crashes>>
      BY <3>1, Zenon DEF Login, files, counts
    <3> QED BY <3>2, <3>3, <3>4, <1>0
  <2>2. CASE LoginFails(p)
    BY <2>2, <1>0 DEF LoginFails, files, counts
  <2> QED BY <1>4, <2>1, <2>2
<1>5. CASE Save(p) \/ Store(p)
  BY <1>5, <1>0, <1>j, <1>l, NoneApart, BoundsAssumption DEF Save, Store, files, counts,
    Phase, File, Has, Credentials
<1>6. CASE Lock(p) \/ SyncRead(p) \/ SyncCompare(p) \/ Read(p)
  BY <1>6, <1>0 DEF Lock, SyncRead, SyncCompare, Read, files, counts
<1>13. CASE SyncWrite(p)
  <2>1. /\ pc[p] = "syncWrite"
        /\ slot' = [slot EXCEPT ![job[p].into] = job[p].cur]
        /\ waived' = waived \cup Mistaken(job[p].into, job[p].cur)
                           \cup Doubled(job[p].into, job[p].cur)
        /\ UNCHANGED <<active, backups, state, issued, commands, crashes>>
    BY <1>13, Zenon DEF SyncWrite, counts
  <2>2. job[p].into \in Slots /\ job[p].cur \in Credentials
    BY <2>1 DEF Phase, Syncing
  <2>3. waived' \subseteq Logins
    <3> DEFINE D == Doubled(job[p].into, job[p].cur)
               M == Mistaken(job[p].into, job[p].cur)
    <3>1. D \subseteq Logins /\ M \subseteq Logins
      BY <2>2, <1>d, Zenon
    <3>2. waived' = waived \cup M \cup D
      BY <2>1
    <3> HIDE DEF D, M
    <3> QED BY <3>1, <3>2, <1>v
  <2>4. slot' \in [Slots -> File]
    BY <2>1, <1>0, <1>j
  <2> QED BY <2>1, <2>3, <2>4, <1>0
<1>7. CASE Backup(p) \/ Activate(p) \/ Record(p)
  BY <1>7, <1>0, <1>j, <1>l, NoneApart, BoundsAssumption DEF Backup, Activate, Record,
    files, counts, Phase, File, Has, Credentials
<1>8. CASE Remove(p) \/ RemoveFails(p) \/ Relist(p) \/ Choose(p) \/ ChooseNone(p)
  BY <1>8, <1>0, <1>j, <1>l, NoneApart, BoundsAssumption DEF Remove, RemoveFails,
    Relist, Choose, ChooseNone, files, counts, Phase, File, Has, Credentials
<1>9. CASE Adopt(p) \/ AdoptFails(p) \/ ClearActive(p) \/ ClearState(p)
  BY <1>9, <1>0, <1>j, <1>l, NoneApart, BoundsAssumption DEF Adopt, AdoptFails,
    ClearActive, ClearState, files, counts, Phase, File, Has, Credentials
<1>10. CASE WindowsInvoke(p) \/ WindowsRead(p)
  <2>1. CASE WindowsInvoke(p)
    <3>1. /\ commands < MaxCommands /\ commands' = commands + 1
          /\ UNCHANGED <<active, slot, backups, state, issued, waived, crashes>>
      BY <2>1, Zenon DEF WindowsInvoke, files
    <3> QED BY <3>1, <1>0, BoundsAssumption
  <2>2. CASE WindowsRead(p)
    BY <2>2, <1>0 DEF WindowsRead, files, counts
  <2> QED BY <1>10, <2>1, <2>2
<1>11. CASE WindowsBackup(p)
  BY <1>11, <1>0, <1>j, <1>l, NoneApart, BoundsAssumption DEF WindowsBackup, files,
    counts, Phase, File, Has, Credentials
<1>12. CASE WindowsActivate(p) \/ WindowsGrokActivate(p)
  BY <1>12, <1>0, <1>j, <1>l, NoneApart, BoundsAssumption DEF WindowsActivate,
    WindowsGrokActivate, files, counts, Phase, File, Has, Credentials
<1> QED BY <1>1, <1>2, <1>3, <1>4, <1>5, <1>6, <1>7, <1>8, <1>9, <1>10, <1>11, <1>12,
  <1>13, <1>14 DEF Act, ListStep, LoginStep, SwitchStep, DeleteStep, WindowsStep

LEMMA PlacesStep ==
  ASSUME TypeOK, NEW p \in Procs, Phase(p), Place(p), Act(p)
  PROVE  /\ pc' \in [Procs -> Steps]
         /\ lock' \in Procs \cup {None} /\ (lock' = p => pc'[p] \in Locked)
<1>0. /\ pc \in [Procs -> Steps] /\ lock \in Procs \cup {None}
      /\ (lock = p => pc[p] \in Locked)
  BY DEF TypeOK
<1>j. job[p].op \in {"switch", "new", "login", "delete", "list", None}
  BY JobsTyped
<1>h. pc[p] \in {"list", "listed"} => job[p].op \in Opening
  BY DEF Phase
<1>1. CASE Invoke(p) \/ Crash(p)
  BY <1>1, <1>0, <1>h, NoneApart DEF Invoke, Crash, End, Goto, Steps, Locked, Opening
<1>2. CASE Import(p) \/ ImportSave(p) \/ ImportRefused(p) \/ ImportRecord(p)
  BY <1>2, <1>0, <1>h, NoneApart DEF Import, ImportSave, ImportRefused, ImportRecord,
    End, Goto, Steps, Locked, Opening
<1>3. CASE Look(p) \/ List(p) \/ ListOnly(p) \/ ListNew(p)
  BY <1>3, <1>0, <1>h, NoneApart DEF Look, List, ListOnly, ListNew, End, Goto, Steps, Locked,
    Opening
<1>4. CASE (\E l \in Logins : Login(p, l)) \/ LoginFails(p)
  BY <1>4, <1>0, <1>h, NoneApart DEF Login, LoginFails, End, Goto, Steps, Locked,
    Opening
<1>5. CASE Save(p) \/ Store(p)
  BY <1>5, <1>0, <1>h, NoneApart DEF Save, Store, End, Goto, Steps, Locked, Opening
<1>6. CASE Lock(p) \/ SyncRead(p)
  BY <1>6, <1>0, <1>h, NoneApart DEF Lock, SyncRead, End, Goto, Steps, Locked, Opening
<1>7. CASE SyncCompare(p) \/ SyncWrite(p) \/ Read(p)
  BY <1>7, <1>0, <1>h, NoneApart DEF SyncCompare, SyncWrite, Read, End, Goto, Steps, Locked, Opening
<1>8. CASE Backup(p) \/ Activate(p) \/ Record(p)
  BY <1>8, <1>0, <1>h, NoneApart DEF Backup, Activate, Record, End, Goto, Steps, Locked,
    Opening
<1>9. CASE Remove(p) \/ RemoveFails(p) \/ Relist(p) \/ Choose(p) \/ ChooseNone(p)
  BY <1>9, <1>0, <1>h, NoneApart DEF Remove, RemoveFails, Relist, Choose, ChooseNone,
    End, Goto, Steps, Locked, Opening
<1>10. CASE Adopt(p) \/ AdoptFails(p) \/ ClearActive(p) \/ ClearState(p)
  BY <1>10, <1>0, <1>h, NoneApart DEF Adopt, AdoptFails, ClearActive, ClearState, End,
    Goto, Steps, Locked, Opening
<1>11. CASE WindowsInvoke(p) \/ WindowsRead(p)
  BY <1>11, <1>0, <1>h, NoneApart DEF WindowsInvoke, WindowsRead, End, Goto, Steps,
    Locked, Opening
<1>12. CASE WindowsBackup(p) \/ WindowsActivate(p) \/ WindowsGrokActivate(p)
  BY <1>12, <1>0, <1>h, NoneApart DEF WindowsBackup, WindowsActivate,
    WindowsGrokActivate, End, Goto, Steps, Locked, Opening
<1> QED BY <1>1, <1>2, <1>3, <1>4, <1>5, <1>6, <1>7, <1>8, <1>9, <1>10, <1>11, <1>12 DEF
  Act, ListStep, LoginStep, SwitchStep, DeleteStep, WindowsStep

LEMMA JobsStep ==
  ASSUME TypeOK, NEW p \in Procs, Phase(p), Act(p)
  PROVE  job' \in [Procs -> Jobs]
<1>0. job \in [Procs -> Jobs] /\ job[p] \in Jobs
  BY JobsTyped
<1>f. active \in File /\ \A n \in Slots : slot[n] \in File
  BY FilesTyped
<1>n. job[p].name \in Slots \cup {None}
  BY JobsTyped
<1>a. \A n \in Accounts : n \in Slots
  BY DEF Accounts
<1>r. \A f \in File : \A n \in Resolved(f) : n \in Slots \cup {None}
  BY ResolvedMatches
<1>l. \A l \in Logins : FirstOf(l) \in File
  BY FirstIsCredentials DEF File
<1>g. \A j \in Jobs : Learn(p, j) => job' \in [Procs -> Jobs]
  BY <1>0 DEF Learn
<1>k. NoJob \in Jobs /\ None \in File
  BY Learnt, <1>0 DEF File
<1>1. CASE Invoke(p) \/ Crash(p)
  BY <1>1, <1>0, <1>f, <1>n, <1>a, <1>r, <1>l, <1>g, <1>k DEF Invoke, Crash, Jobs, End,
    Phase
<1>2. CASE Import(p)
  BY <1>2, <1>0, <1>f, <1>n, <1>a, <1>r, <1>l, <1>g, <1>k DEF Import, Jobs, End, Phase
<1>3. CASE ImportSave(p) \/ ImportRefused(p) \/ ImportRecord(p)
  BY <1>3, <1>0, <1>f, <1>n, <1>a, <1>r, <1>l, <1>g, <1>k DEF ImportSave, ImportRefused,
    ImportRecord, Jobs, End, Phase
<1>4. CASE List(p)
  <2>1. PICK n \in Accounts, b \in BOOLEAN :
          Learn(p, [job[p] EXCEPT !.name = n, !.current = b, !.cur = None])
    BY <1>4, Zenon DEF List
  <2> QED BY <2>1, <1>0, <1>a, <1>g, Learnt, Zenon
<1>23. CASE Look(p)
  <2>1. Learn(p, [job[p] EXCEPT !.cur = active])
    BY <1>23, Zenon DEF Look
  <2> QED BY <2>1, <1>0, <1>f, <1>g, Learnt, Zenon
<1>5. CASE ListOnly(p) \/ ListNew(p)
  BY <1>5, <1>0, <1>f, <1>n, <1>a, <1>r, <1>l, <1>g, <1>k DEF ListOnly, ListNew, Jobs,
    End, Phase
<1>6. CASE (\E l \in Logins : Login(p, l)) \/ LoginFails(p)
  BY <1>6, <1>0, <1>f, <1>n, <1>a, <1>r, <1>l, <1>g, <1>k DEF Login, LoginFails, Jobs,
    End, Phase
<1>7. CASE Save(p) \/ Store(p)
  BY <1>7, <1>0, <1>f, <1>n, <1>a, <1>r, <1>l, <1>g, <1>k DEF Save, Store, Jobs, End,
    Phase
<1>8. CASE Lock(p)
  BY <1>8, <1>0, <1>f, <1>n, <1>a, <1>r, <1>l, <1>g, <1>k DEF Lock, Jobs, End, Phase
<1>9. CASE SyncRead(p)
  BY <1>9, <1>0, <1>f, <1>n, <1>a, <1>r, <1>l, <1>g, <1>k DEF SyncRead, Jobs, End, Phase
<1>10. CASE SyncCompare(p) \/ SyncWrite(p)
  BY <1>10, <1>0, <1>f, <1>n, <1>a, <1>r, <1>l, <1>g, <1>k DEF SyncCompare, SyncWrite,
    Jobs, End, Phase
<1>11. CASE Read(p)
  BY <1>11, <1>0, <1>f, <1>n, <1>a, <1>r, <1>l, <1>g, <1>k DEF Read, Jobs, End, Phase
<1>12. CASE Backup(p)
  BY <1>12, <1>0, <1>f, <1>n, <1>a, <1>r, <1>l, <1>g, <1>k DEF Backup, Jobs, End, Phase
<1>13. CASE Activate(p) \/ Record(p)
  BY <1>13, <1>0, <1>f, <1>n, <1>a, <1>r, <1>l, <1>g, <1>k DEF Activate, Record, Jobs,
    End, Phase
<1>14. CASE Remove(p)
  BY <1>14, <1>0, <1>f, <1>n, <1>a, <1>r, <1>l, <1>g, <1>k DEF Remove, Jobs, End, Phase
<1>15. CASE RemoveFails(p) \/ Relist(p) \/ ChooseNone(p)
  BY <1>15, <1>0, <1>f, <1>n, <1>a, <1>r, <1>l, <1>g, <1>k DEF RemoveFails, Relist,
    ChooseNone, Jobs, End, Phase
<1>16. CASE Choose(p)
  <2>1. PICK n \in Accounts : Learn(p, [job[p] EXCEPT !.name = n, !.cur = None])
    BY <1>16, Zenon DEF Choose
  <2> QED BY <2>1, <1>0, <1>a, <1>g, Learnt, Zenon
<1>17. CASE Adopt(p) \/ AdoptFails(p)
  BY <1>17, <1>0, <1>f, <1>n, <1>a, <1>r, <1>l, <1>g, <1>k DEF Adopt, AdoptFails, Jobs,
    End, Phase
<1>18. CASE ClearActive(p) \/ ClearState(p)
  BY <1>18, <1>0, <1>f, <1>n, <1>a, <1>r, <1>l, <1>g, <1>k DEF ClearActive, ClearState,
    Jobs, End, Phase
<1>19. CASE WindowsInvoke(p)
  BY <1>19, <1>0, <1>f, <1>n, <1>a, <1>r, <1>l, <1>g, <1>k DEF WindowsInvoke, Jobs, End,
    Phase
<1>20. CASE WindowsRead(p)
  BY <1>20, <1>0, <1>f, <1>n, <1>a, <1>r, <1>l, <1>g, <1>k DEF WindowsRead, Jobs, End,
    Phase
<1>21. CASE WindowsBackup(p)
  BY <1>21, <1>0, <1>f, <1>n, <1>a, <1>r, <1>l, <1>g, <1>k DEF WindowsBackup, Jobs, End,
    Phase
<1>22. CASE WindowsActivate(p) \/ WindowsGrokActivate(p)
  BY <1>22, <1>0, <1>f, <1>n, <1>a, <1>r, <1>l, <1>g, <1>k DEF WindowsActivate,
    WindowsGrokActivate, Jobs, End, Phase
<1> QED BY <1>1, <1>2, <1>3, <1>4, <1>5, <1>6, <1>7, <1>8, <1>9, <1>10, <1>11, <1>12,
  <1>13, <1>14, <1>15, <1>16, <1>17, <1>18, <1>19, <1>20, <1>21, <1>22, <1>23 DEF Act,
  ListStep, LoginStep, SwitchStep, DeleteStep, WindowsStep

LEMMA PhaseStep ==
  ASSUME TypeOK, NEW p \in Procs, Phase(p), Place(p), OnWindows(p), Act(p)
  PROVE  Phase(p)' /\ Place(p)' /\ OnWindows(p)'
<1>0. pc \in [Procs -> Steps] /\ job \in [Procs -> Jobs] /\ job[p] \in Jobs
  BY JobsTyped
<1>f. /\ (Has(active) => active \in Credentials)
      /\ \A n \in Slots : Has(slot[n]) => slot[n] \in Credentials
  BY FilesTyped
<1>n. /\ job[p].name \in Slots \cup {None} /\ job[p].own \in File
      /\ job[p].op \in {"switch", "new", "login", "delete", "list", None}
  BY JobsTyped
<1>a. \A n \in Accounts : n \in Slots /\ Has(slot[n])
  BY DEF Accounts
<1>r. \A n \in Resolved(active) : n # None => n \in Slots /\ Has(active)
  BY ResolvedMatches
<1>l. \A l \in Logins : FirstOf(l) \in Credentials
  BY FirstIsCredentials
<1>w. provider' = provider
  BY Frame
<1>e. ASSUME Goto(p, "idle") PROVE Phase(p)' /\ Place(p)' /\ OnWindows(p)'
  BY <1>e, <1>0, <1>w DEF Goto, Phase, Place, OnWindows, Windows, Locked, Syncing
<1>1. CASE Invoke(p)
  <2>1. PICK o \in {"switch", "new", "login", "delete", "list"} :
          /\ Learn(p, [NoJob EXCEPT !.op = o])
          /\ Goto(p, IF o = "new" THEN "login" ELSE "list")
    BY <1>1, Zenon DEF Invoke
  <2>2. job'[p] = [NoJob EXCEPT !.op = o] /\ pc'[p] = IF o = "new" THEN "login" ELSE "list"
    BY <2>1, <1>0 DEF Learn, Goto
  <2>3. job'[p].op = o /\ job'[p].own = None
    BY <2>2 DEF NoJob
  <2>4. provider \notin Windows
    BY <1>1, Zenon DEF Invoke
  <2> QED BY <2>1, <2>2, <2>3, <2>4, <1>w DEF Phase, Place, OnWindows, Opening,
    Switching, Syncing, Locked, Windows, Has
<1>2. CASE Import(p)
  BY <1>2, <1>0, <1>f, <1>n, <1>a, <1>r, <1>l, <1>w DEF Import, End, Goto, Learn, Jobs,
    NoJob, Phase, Place, OnWindows, Opening, Switching, Syncing, Locked, files, counts, Windows,
    ImportNeeded, File, Has
<1>3. CASE ImportSave(p)
  BY <1>3, <1>0, <1>f, <1>n, <1>a, <1>r, <1>l, <1>w DEF ImportSave, End, Goto, Learn,
    Jobs, NoJob, Phase, Place, OnWindows, Opening, Switching, Syncing, Locked, files, counts,
    Windows, ImportNeeded, File, Has
<1>4. CASE ImportRecord(p)
  BY <1>4, <1>0, <1>f, <1>n, <1>a, <1>r, <1>l, <1>w DEF ImportRecord, End, Goto, Learn,
    Jobs, NoJob, Phase, Place, OnWindows, Opening, Switching, Syncing, Locked, files, counts,
    Windows, ImportNeeded, File, Has
<1>26. CASE Look(p)
  <2>1. /\ job'[p].op = job[p].op /\ job'[p].own = job[p].own /\ lock' = lock
        /\ \/ pc[p] = "list" /\ pc'[p] = "listed"
           \/ pc[p] = "relist" /\ pc'[p] = "relisted"
    BY <1>26, <1>0 DEF Look, Learn, Goto, Jobs
  <2> QED BY <2>1, <1>w DEF Phase, Place, OnWindows, Opening, Switching, Syncing, Locked,
    Windows
<1>5. CASE List(p)
  <2>1. PICK n \in Accounts, b \in BOOLEAN :
          Learn(p, [job[p] EXCEPT !.name = n, !.current = b, !.cur = None])
    BY <1>5, Zenon DEF List
  <2>2. /\ job'[p].op = job[p].op /\ job'[p].name = n /\ n \in Slots
        /\ pc[p] = "listed" /\ job[p].op \in Opening \ {"list"}
        /\ pc'[p] = CASE job[p].op = "switch" -> "lock"
                      [] job[p].op = "login"  -> "login"
                      [] job[p].op = "delete" -> "remove"
    BY <2>1, <1>5, <1>0, <1>a DEF List, Learn, Goto, Jobs, Phase
  <2> QED BY <2>2, <1>w DEF Phase, Place, OnWindows, Opening, Switching, Syncing, Locked,
    Windows
<1>6. CASE ListNew(p)
  BY <1>6, <1>0, <1>f, <1>n, <1>a, <1>r, <1>l, <1>w DEF ListNew, End, Goto, Learn, Jobs,
    NoJob, Phase, Place, OnWindows, Opening, Switching, Syncing, Locked, files, counts, Windows,
    ImportNeeded, File, Has
<1>7. CASE (\E l \in Logins : Login(p, l))
  <2>1. PICK l \in Logins : Login(p, l)
    BY <1>7
  <2>2. pc[p] = "login"
    BY <2>1, Zenon DEF Login
  <2>3. CASE /\ job[p].op = "new"
             /\ \E n \in Slots \ Accounts :
                  Learn(p, [job[p] EXCEPT !.name = n, !.cur = FirstOf(l), !.own = FirstOf(l)])
             /\ Goto(p, "save")
    <3>1. PICK n \in Slots :
            Learn(p, [job[p] EXCEPT !.name = n, !.cur = FirstOf(l), !.own = FirstOf(l)])
      BY <2>3
    <3>2. /\ job'[p].op = "new" /\ job'[p].name = n /\ job'[p].cur = FirstOf(l)
          /\ pc'[p] = "save"
      BY <3>1, <2>3, <1>0 DEF Learn, Goto, Jobs
    <3> QED BY <3>2, <2>2, <1>l, <1>w DEF Phase, Place, OnWindows, Opening, Switching, Syncing,
      Locked, Windows, Has
  <2>4. CASE /\ job[p].op = "login" /\ Has(slot[job[p].name])
             /\ Learn(p, [job[p] EXCEPT !.cur = FirstOf(l), !.own = FirstOf(l)])
             /\ Goto(p, "store")
    <3>1. /\ job'[p].op = "login" /\ job'[p].name = job[p].name
          /\ job'[p].cur = FirstOf(l) /\ pc'[p] = "store"
      BY <2>4, <1>0 DEF Learn, Goto, Jobs
    <3> QED BY <3>1, <2>2, <2>4, <1>l, <1>w DEF Phase, Place, OnWindows, Opening,
      Switching, Syncing, Locked, Windows, Has
  <2> QED BY <2>1, <2>3, <2>4, Zenon DEF Login
<1>8. CASE Save(p)
  BY ZenonT(40), <1>8, <1>0, <1>f, <1>n, <1>a, <1>r, <1>l, <1>w DEF Save, End, Goto, Learn, Jobs,
    NoJob, Phase, Place, OnWindows, Opening, Switching, Syncing, Locked, files, counts, Windows,
    ImportNeeded, File, Has
<1>9. CASE Store(p)
  BY ZenonT(40), <1>9, <1>0, <1>f, <1>n, <1>a, <1>r, <1>l, <1>w DEF Store, End, Goto, Learn, Jobs,
    NoJob, Phase, Place, OnWindows, Opening, Switching, Syncing, Locked, files, counts, Windows,
    ImportNeeded, File, Has
<1>10. CASE Lock(p)
  BY <1>10, <1>0, <1>f, <1>n, <1>a, <1>r, <1>l, <1>w DEF Lock, End, Goto, Learn, Jobs,
    NoJob, Phase, Place, OnWindows, Opening, Switching, Syncing, Locked, files, counts, Windows,
    ImportNeeded, File, Has
<1>11. CASE SyncRead(p)
  <2>1. PICK n \in Resolved(active) :
          /\ Learn(p, [job[p] EXCEPT !.cur = active, !.into = n])
          /\ Goto(p, IF n = None THEN "read" ELSE "syncCompare")
    BY <1>11, Zenon DEF SyncRead
  <2>2. /\ job'[p].op = job[p].op /\ job'[p].name = job[p].name
        /\ job'[p].cur = active /\ job'[p].into = n
        /\ pc'[p] = IF n = None THEN "read" ELSE "syncCompare"
    BY <2>1, <1>0 DEF Learn, Goto, Jobs
  <2>3. pc[p] = "syncRead" /\ lock' = lock
    BY <1>11, Zenon DEF SyncRead
  <2> QED BY <2>1, <2>2, <2>3, <1>r, <1>f, <1>w DEF Phase, Place, OnWindows, Opening,
    Switching, Syncing, Locked, Windows, Has
<1>25. CASE SyncCompare(p)
  <2>1. CASE ~Has(slot[job[p].into])
    BY <2>1, <1>25, <1>e DEF SyncCompare, End
  <2>2. CASE Has(slot[job[p].into])
    <3>1. /\ job' = job /\ lock' = lock /\ pc[p] = "syncCompare"
          /\ pc'[p] \in {"read", "syncWrite"}
      BY <1>25, <2>2, <1>0 DEF SyncCompare, Goto
    <3> QED BY <3>1, <1>w DEF Phase, Place, OnWindows, Opening, Switching, Syncing,
      Locked, Windows, Has
  <2> QED BY <2>1, <2>2
<1>12. CASE SyncWrite(p)
  BY <1>12, <1>0, <1>f, <1>n, <1>a, <1>r, <1>l, <1>w DEF SyncWrite, End, Goto, Learn,
    Jobs, NoJob, Phase, Place, OnWindows, Opening, Switching, Syncing, Locked, files, counts,
    Windows, ImportNeeded, File, Has
<1>13. CASE Read(p)
  <2>1. CASE ~Has(slot[job[p].name])
    BY <2>1, <1>13, <1>e DEF Read, End
  <2>2. CASE Has(slot[job[p].name])
    <3>1. /\ job'[p].op = job[p].op /\ job'[p].name = job[p].name
          /\ job'[p].cur = slot[job[p].name] /\ pc'[p] = "backup"
          /\ pc[p] = "read" /\ lock' = lock
      BY <1>13, <2>2, <1>0 DEF Read, Learn, Goto, Jobs
    <3> QED BY <3>1, <2>2, <1>f, <1>w DEF Phase, Place, OnWindows, Opening, Switching, Syncing,
      Locked, Windows, Has
  <2> QED BY <2>1, <2>2
<1>14. CASE Backup(p)
  BY <1>14, <1>0, <1>f, <1>n, <1>a, <1>r, <1>l, <1>w DEF Backup, End, Goto, Learn, Jobs,
    NoJob, Phase, Place, OnWindows, Opening, Switching, Syncing, Locked, files, counts, Windows,
    ImportNeeded, File, Has
<1>15. CASE Activate(p)
  BY <1>15, <1>0, <1>f, <1>n, <1>a, <1>r, <1>l, <1>w DEF Activate, End, Goto, Learn,
    Jobs, NoJob, Phase, Place, OnWindows, Opening, Switching, Syncing, Locked, files, counts,
    Windows, ImportNeeded, File, Has
<1>16. CASE Remove(p)
  BY <1>16, <1>0, <1>f, <1>n, <1>a, <1>r, <1>l, <1>w DEF Remove, End, Goto, Learn, Jobs,
    NoJob, Phase, Place, OnWindows, Opening, Switching, Syncing, Locked, files, counts, Windows,
    ImportNeeded, File, Has
<1>17. CASE ChooseNone(p)
  BY <1>17, <1>0, <1>f, <1>n, <1>a, <1>l, <1>w DEF ChooseNone, End, Goto, Learn,
    Jobs, NoJob, Phase, Place, OnWindows, Opening, Switching, Syncing, Locked, files, counts,
    Windows, ImportNeeded, File, Has
<1>18. CASE Choose(p)
  <2>1. PICK n \in Accounts : Learn(p, [job[p] EXCEPT !.name = n, !.cur = None])
    BY <1>18, Zenon DEF Choose
  <2>2. job'[p].op = job[p].op /\ job'[p].name = n
    BY <2>1, <1>0 DEF Learn, Jobs
  <2>3. pc[p] = "relisted" /\ pc'[p] = "adopt"
    BY <1>18, <1>0 DEF Choose, Goto
  <2> QED BY <2>2, <2>3, <1>a, <1>w DEF Phase, Place, OnWindows, Opening, Switching, Syncing,
    Locked, Windows, Has
<1>19. CASE Adopt(p)
  BY <1>19, <1>0, <1>f, <1>n, <1>a, <1>r, <1>l, <1>w DEF Adopt, End, Goto, Learn, Jobs,
    NoJob, Phase, Place, OnWindows, Opening, Switching, Syncing, Locked, files, counts, Windows,
    ImportNeeded, File, Has
<1>20. CASE ClearActive(p)
  BY <1>20, <1>0, <1>f, <1>n, <1>a, <1>r, <1>l, <1>w DEF ClearActive, End, Goto, Learn,
    Jobs, NoJob, Phase, Place, OnWindows, Opening, Switching, Syncing, Locked, files, counts,
    Windows, ImportNeeded, File, Has
<1>21. CASE WindowsInvoke(p)
  BY ZenonT(40), <1>21, <1>0, <1>f, <1>n, <1>a, <1>r, <1>l, <1>w DEF WindowsInvoke, End, Goto,
    Learn, Jobs, NoJob, Phase, Place, OnWindows, Opening, Switching, Syncing, Locked, files,
    counts, Windows, ImportNeeded, File, Has
<1>22. CASE WindowsRead(p)
  BY <1>22, <1>0, <1>f, <1>n, <1>a, <1>r, <1>l, <1>w DEF WindowsRead, End, Goto, Learn,
    Jobs, NoJob, Phase, Place, OnWindows, Opening, Switching, Syncing, Locked, files, counts,
    Windows, ImportNeeded, File, Has
<1>23. CASE WindowsBackup(p)
  BY <1>23, <1>0, <1>f, <1>n, <1>a, <1>r, <1>l, <1>w DEF WindowsBackup, End, Goto,
    Learn, Jobs, NoJob, Phase, Place, OnWindows, Opening, Switching, Syncing, Locked, files,
    counts, Windows, ImportNeeded, File, Has
<1>24. CASE \/ Crash(p) \/ ImportRefused(p) \/ ListOnly(p) \/ LoginFails(p)
           \/ Record(p) \/ RemoveFails(p) \/ Relist(p) \/ AdoptFails(p)
           \/ ClearState(p) \/ WindowsActivate(p) \/ WindowsGrokActivate(p)
  BY <1>24, <1>e DEF End, Crash, ImportRefused, ListOnly, LoginFails, Record,
    RemoveFails, Relist, AdoptFails, ClearState, WindowsActivate, WindowsGrokActivate
<1> QED BY <1>1, <1>2, <1>3, <1>4, <1>5, <1>6, <1>7, <1>8, <1>9, <1>10, <1>11, <1>12,
  <1>13, <1>14, <1>15, <1>16, <1>17, <1>18, <1>19, <1>20, <1>21, <1>22, <1>23, <1>24, <1>25,
  <1>26 DEF Act, ListStep, LoginStep, SwitchStep, DeleteStep, WindowsStep

LEMMA InitLocated == Init => TypeOK /\ Located
<1> SUFFICES ASSUME Init PROVE TypeOK /\ Located
  OBVIOUS
<1>1. \A f \in Logins \cup {None} : FirstOf(f) \in File
  BY FirstIsCredentials DEF FirstOf, File
<1>2. TypeOK
  <2>1. \A n \in Slots : Stored[n] \in Logins \cup {None}
    BY FilesAssumption
  <2>2. active \in File /\ slot \in [Slots -> File]
    BY <1>1, <2>1, FilesAssumption DEF Init
  <2>w. waived \subseteq Logins
    BY DEF Init, StoredTwice
  <2>3. 0 \in 0..MaxVersion /\ 1 \in 0..MaxVersion
        /\ 0 \in 0..MaxCommands /\ 0 \in 0..MaxCrashes
    BY BoundsAssumption
  <2>4. issued \in [Logins -> 0..MaxVersion]
    BY <2>3 DEF Init
  <2>5. job \in [Procs -> Jobs]
    BY <1>1 DEF Init, NoJob, Jobs, File
  <2> QED BY <2>2, <2>w, <2>3, <2>4, <2>5, NoneApart DEF Init, TypeOK, Steps
<1>3. ASSUME NEW p \in Procs PROVE Phase(p) /\ Place(p) /\ OnWindows(p)
  BY <1>3 DEF Init, Phase, Place, OnWindows, Locked, Syncing
<1> QED BY <1>2, <1>3 DEF Located

LEMMA RefreshTyped ==
  ASSUME TypeOK, Refresh
  PROVE  /\ Has(active) /\ active \in Credentials
         /\ active' \in Credentials /\ active'.login = active.login
         /\ active.version = issued[active.login]
         /\ active'.version = issued[active.login] + 1
         /\ issued' = [issued EXCEPT ![active.login] = active.version + 1]
         /\ issued' \in [Logins -> 0..MaxVersion]
         /\ waived \subseteq waived' /\ waived' \subseteq Logins
<1>0. /\ issued \in [Logins -> 0..MaxVersion] /\ waived \subseteq Logins
      /\ Has(active) => active \in Credentials
  BY FilesTyped
<1>1. Has(active) /\ active.version = issued[active.login] /\ issued[active.login] < MaxVersion
  BY Zenon DEF Refresh
<1>2. active \in Credentials /\ active.login \in Logins /\ active.version \in 1..MaxVersion
  BY <1>0, <1>1 DEF Credentials
<1>3. active' = [active EXCEPT !.version = @ + 1]
  BY Zenon DEF Refresh
<1>4. active'.login = active.login /\ active'.version = active.version + 1
      /\ active' \in Credentials
  BY <1>1, <1>2, <1>3, BoundsAssumption DEF Credentials
<1>5. issued' = [issued EXCEPT ![active.login] = active.version + 1]
  BY <1>1 DEF Refresh
<1>6. issued' \in [Logins -> 0..MaxVersion]
  BY <1>0, <1>1, <1>2, <1>5, BoundsAssumption
<1>7. waived \subseteq waived' /\ waived' \subseteq Logins
  BY <1>0, <1>2 DEF Refresh
<1> QED BY <1>1, <1>2, <1>4, <1>5, <1>6, <1>7

LEMMA LocatedStep ==
  ASSUME TypeOK, Located, [Next]_vars
  PROVE  TypeOK' /\ Located'
<1>1. ASSUME NEW p \in Procs, Act(p) PROVE TypeOK' /\ Located'
  <2>0. Phase(p) /\ Place(p) /\ OnWindows(p)
    BY DEF Located
  <2>1. /\ \A q \in Procs \ {p} :
             pc'[q] = pc[q] /\ job'[q] = job[q] /\ (lock' = q <=> lock = q)
        /\ provider' = provider /\ (provider \in Windows => slot' = slot)
    BY <1>1, <2>0, Frame
  <2>2. TypeOK'
    <3>1. /\ active' \in File /\ slot' \in [Slots -> File]
          /\ backups' \subseteq Credentials /\ state' \in Slots \cup {None}
          /\ issued' \in [Logins -> 0..MaxVersion] /\ waived' \subseteq Logins
          /\ commands' \in 0..MaxCommands /\ crashes' \in 0..MaxCrashes
      BY <1>1, <2>0, FilesStep
    <3>2. /\ pc' \in [Procs -> Steps]
          /\ lock' \in Procs \cup {None} /\ (lock' = p => pc'[p] \in Locked)
      BY <1>1, <2>0, PlacesStep
    <3>3. job' \in [Procs -> Jobs]
      BY <1>1, <2>0, JobsStep
    <3>4. provider' \in Providers
      BY <2>1 DEF TypeOK
    <3>5. ASSUME NEW q \in Procs, lock' = q PROVE pc'[q] \in Locked
      <4>1. CASE q = p
        BY <4>1, <3>2, <3>5
      <4>2. CASE q # p
        <5>1. lock = q
          BY <3>5, <4>2, <2>1
        <5> QED BY <5>1, <4>2, <2>1 DEF TypeOK
      <4> QED BY <4>1, <4>2
    <3> QED BY <3>1, <3>2, <3>3, <3>4, <3>5 DEF TypeOK
  <2>3. ASSUME NEW q \in Procs PROVE (Phase(q) /\ Place(q) /\ OnWindows(q))'
    <3>1. CASE q = p
      BY <1>1, <2>0, <3>1, PhaseStep
    <3>2. CASE q # p
      <4>1. /\ Phase(q) /\ Place(q) /\ OnWindows(q)
            /\ pc'[q] = pc[q] /\ job'[q] = job[q] /\ (lock' = q <=> lock = q)
        BY <2>1, <3>2 DEF Located
      <4>2. Phase(q)'
        BY <4>1 DEF Phase
      <4>3. Place(q)'
        BY <4>1, <2>1 DEF Place
      <4>4. OnWindows(q)'
        <5>1. CASE provider \in Windows
          BY <5>1, <4>1, <2>1 DEF OnWindows
        <5>2. CASE provider \notin Windows
          BY <5>2, <4>1 DEF OnWindows, Place
        <5> QED BY <5>1, <5>2
      <4> QED BY <4>2, <4>3, <4>4
    <3> QED BY <3>1, <3>2
  <2> QED BY <2>2, <2>3 DEF Located
<1>2. ASSUME Refresh PROVE TypeOK' /\ Located'
  <2>1. UNCHANGED <<provider, slot, backups, state, lock, pc, job, commands, crashes>>
    BY <1>2, Zenon DEF Refresh, counts
  <2>2. active' \in File /\ issued' \in [Logins -> 0..MaxVersion] /\ waived' \subseteq Logins
    BY <1>2, RefreshTyped DEF File
  <2>3. TypeOK'
    BY <2>1, <2>2 DEF TypeOK
  <2>4. ASSUME NEW q \in Procs PROVE (Phase(q) /\ Place(q) /\ OnWindows(q))'
    <3>1. Phase(q) /\ Place(q) /\ OnWindows(q)
      BY DEF Located
    <3> QED BY <3>1, <2>1 DEF Phase, Place, OnWindows
  <2> QED BY <2>3, <2>4 DEF Located
<1>3. CASE UNCHANGED vars
  BY <1>3 DEF vars, files, counts, TypeOK, Located, Phase, Place, OnWindows
<1> QED BY <1>1, <1>2, <1>3 DEF Next, Act

----------------------------------------------------------------------------
(* Which steps matter.                                                      *)

\* Which steps change the files, and which lead to those that decide.
LEMMA Roads ==
  ASSUME TypeOK, NEW p \in Procs, Phase(p), Act(p)
  PROVE  /\ \/ slot' = slot
            \/ ImportSave(p) \/ Save(p) \/ Store(p) \/ SyncWrite(p) \/ Remove(p)
         /\ \/ active' = active
            \/ Activate(p) \/ ClearActive(p) \/ WindowsActivate(p) \/ WindowsGrokActivate(p)
         /\ issued' = issued \/ \E l \in Logins : Login(p, l)
         /\ backups \subseteq backups'
         /\ pc'[p] = "syncCompare" => SyncRead(p)
         /\ pc'[p] = "syncWrite" => SyncCompare(p)
         /\ pc'[p] = "backup" => Read(p)
         /\ pc'[p] = "activate" => Backup(p) \/ Store(p) \/ Adopt(p)
         /\ pc'[p] = "windowsActivate" => WindowsRead(p) \/ WindowsBackup(p)
         /\ pc'[p] = "import" => Import(p)
         /\ pc'[p] \in {"save", "store"} => \E l \in Logins : Login(p, l)
         /\ pc[p] \in {"save", "store"} => Save(p) \/ Store(p) \/ job[p].cur.login \in waived'
         /\ pc'[p] # pc[p]
<1>0. /\ pc \in [Procs -> Steps]
      /\ job[p].op \in {"switch", "new", "login", "delete", "list", None}
  BY JobsTyped
<1>h. pc[p] \in {"list", "listed"} => job[p].op \in Opening
  BY DEF Phase
<1>1. CASE Invoke(p) \/ Crash(p)
  BY <1>1, <1>0, <1>h DEF Invoke, Crash, End, Goto, files, Opening
<1>2. CASE Import(p) \/ ImportSave(p) \/ ImportRefused(p) \/ ImportRecord(p)
  BY <1>2, <1>0, <1>h DEF Import, ImportSave, ImportRefused, ImportRecord, End, Goto,
    files, Opening
<1>3. CASE List(p) \/ Look(p)
  BY <1>3, <1>0, <1>h DEF List, Look, End, Goto, files, Opening
<1>4. CASE ListOnly(p) \/ ListNew(p)
  BY <1>4, <1>0, <1>h DEF ListOnly, ListNew, End, Goto, files, Opening
<1>5. CASE (\E l \in Logins : Login(p, l)) \/ LoginFails(p)
  BY <1>5, <1>0, <1>h DEF Login, LoginFails, End, Goto, files, Opening
<1>6. CASE Save(p) \/ Store(p)
  BY <1>6, <1>0, <1>h DEF Save, Store, End, Goto, files, Opening
<1>7. CASE Lock(p) \/ SyncRead(p) \/ SyncCompare(p) \/ SyncWrite(p) \/ Read(p)
  BY <1>7, <1>0, <1>h DEF Lock, SyncRead, SyncCompare, SyncWrite, Read, End, Goto, files, Opening
<1>8. CASE Backup(p) \/ Activate(p) \/ Record(p)
  BY <1>8, <1>0, <1>h DEF Backup, Activate, Record, End, Goto, files, Opening
<1>9. CASE Remove(p) \/ RemoveFails(p) \/ Relist(p) \/ Choose(p) \/ ChooseNone(p)
  BY <1>9, <1>0, <1>h DEF Remove, RemoveFails, Relist, Choose, ChooseNone, End, Goto,
    files, Opening
<1>10. CASE Adopt(p) \/ AdoptFails(p) \/ ClearActive(p) \/ ClearState(p)
  BY <1>10, <1>0, <1>h DEF Adopt, AdoptFails, ClearActive, ClearState, End, Goto, files,
    Opening
<1>11. CASE \/ WindowsInvoke(p) \/ WindowsRead(p) \/ WindowsBackup(p)
           \/ WindowsActivate(p) \/ WindowsGrokActivate(p)
  BY <1>11, <1>0, <1>h DEF WindowsInvoke, WindowsRead, WindowsBackup, WindowsActivate,
    WindowsGrokActivate, End, Goto, files, Opening
<1> QED BY <1>1, <1>2, <1>3, <1>4, <1>5, <1>6, <1>7, <1>8, <1>9, <1>10, <1>11 DEF Act,
  ListStep, LoginStep, SwitchStep, DeleteStep, WindowsStep

----------------------------------------------------------------------------
(* What holds for all logins.                                               *)

\* While another holds the lock, a step deletes accounts at most.
LEMMA Guarded ==
  ASSUME TypeOK, NEW p \in Procs, Phase(p), Place(p), Act(p), lock \notin {p, None},
         NEW n \in Slots
  PROVE  \/ slot'[n] = slot[n]
         \/ slot'[n] = None /\ (Has(slot[n]) => slot[n].login \in waived')
<1>0. slot \in [Slots -> File]
  BY FilesTyped
<1>1. ~ ImportSave(p) /\ ~ Save(p) /\ ~ Store(p)
  BY DEF ImportSave, Save, Store
<1>2. ~ SyncWrite(p)
  BY DEF SyncWrite, Place, Phase, Locked, Switching
<1>3. CASE Remove(p)
  BY <1>3, <1>0 DEF Remove
<1> QED BY <1>1, <1>2, <1>3, Roads

LEMMA OwnerStep ==
  ASSUME TypeOK, Located, NEW p \in Procs, Act(p), NEW q \in Procs, Owner(q)
  PROVE  Owner(q)'
<1>0. /\ Phase(p) /\ Place(p) /\ Phase(q) /\ Place(q)
      /\ pc \in [Procs -> Steps] /\ job \in [Procs -> Jobs]
  BY JobsTyped DEF Located
<1>1. CASE q = p
  <2> SUFFICES ASSUME pc'[p] \in Syncing PROVE Owner(p)'
    BY <1>1 DEF Owner
  <2>1. CASE SyncRead(p)
    <3>1. PICK n \in Resolved(active) :
            /\ Learn(p, [job[p] EXCEPT !.cur = active, !.into = n])
            /\ Goto(p, IF n = None THEN "read" ELSE "syncCompare")
      BY <2>1, Zenon DEF SyncRead
    <3>2. job'[p].cur = active /\ job'[p].into = n /\ n # None
      BY <3>1, <1>0 DEF Learn, Goto, Jobs, Syncing
    <3>3. slot' = slot
      BY <2>1, Zenon DEF SyncRead, files
    <3> QED BY <3>2, <3>3, ResolvedMatches DEF Owner, SameIdentity
  <2>2. CASE SyncCompare(p)
    <3>1. pc[p] = "syncCompare" /\ slot' = slot /\ (job' = job \/ pc'[p] = "idle")
      BY <2>2, <1>0 DEF SyncCompare, End, Goto, files
    <3> QED BY <3>1, <1>1 DEF Owner, SameIdentity, Syncing
  <2> QED BY <2>1, <2>2, <1>0, Roads DEF Syncing
<1>2. CASE q # p
  <2> SUFFICES ASSUME pc[q] \in Syncing, Has(slot'[job[q].into])
               PROVE  SameIdentity(slot'[job[q].into], job[q].cur)
    BY <1>0, <1>2, Frame DEF Owner, SameIdentity
  <2>1. lock = q /\ job[q].into \in Slots
    BY <1>0 DEF Phase, Place, Locked, Switching, Syncing
  <2>2. slot'[job[q].into] = slot[job[q].into]
    BY <2>1, <1>0, <1>2, Guarded, NoneApart DEF Has
  <2> QED BY <2>2 DEF Owner, SameIdentity
<1> QED BY <1>1, <1>2

LEMMA CoveredStep ==
  ASSUME TypeOK, Located, NEW p \in Procs, Act(p), NEW q \in Procs, Covered(q)
  PROVE  Covered(q)'
<1>0. /\ Phase(p) /\ Place(p) /\ OnWindows(p) /\ Phase(q) /\ Place(q)
      /\ pc \in [Procs -> Steps] /\ job \in [Procs -> Jobs]
  BY JobsTyped DEF Located
<1>f. provider' = provider /\ waived \subseteq waived' /\ backups \subseteq backups'
  BY <1>0, Frame, Roads
<1> SUFFICES ASSUME pc'[q] \in {"activate", "windowsActivate"}, job'[q].op \in Switching,
                    provider # "windows grok", Has(active'), active'.login \notin waived'
             PROVE  active' \in Kept' \cup {job'[q].cur}
  BY <1>f DEF Covered
<1>1. CASE q = p
  <2>1. CASE Backup(p)
    <3>1. /\ active' = active /\ slot' = slot /\ job'[p].cur = job[p].cur
          /\ backups' = IF /\ Has(active) /\ active # job[p].cur
                           /\ \A n \in Slots : slot[n] # active
                        THEN backups \cup {active} ELSE backups
      BY <2>1, <1>0 DEF Backup, Learn, Jobs
    <3> QED BY <3>1, <1>1 DEF Kept
  <2>2. CASE WindowsBackup(p)
    <3>1. /\ active' = active /\ slot' = slot /\ job'[p].cur = job[p].cur
          /\ backups' = IF Has(active) /\ active # job[p].cur /\ active \notin Kept
                        THEN backups \cup {active} ELSE backups
      BY <2>2, <1>0 DEF WindowsBackup, Learn, Jobs
    <3> QED BY <3>1, <1>1 DEF Kept
  <2>3. CASE WindowsRead(p)
    <3>1. provider = "windows codex" \/ provider = "windows grok"
      BY <2>3, <1>0 DEF WindowsRead, Place, Windows
    <3> QED BY <3>1, <2>3, <1>0, <1>1 DEF WindowsRead, Goto
  <2>4. CASE Store(p)
    <3>1. pc[p] = "store" /\ (job'[p] = job[p] \/ pc'[p] = "idle")
      BY <2>4, <1>0 DEF Store, End, Goto
    <3> QED BY <3>1, <1>0, <1>1 DEF Phase, Switching
  <2>5. CASE Adopt(p)
    <3>1. pc[p] = "adopt" /\ job'[p].op = job[p].op
      BY <2>5, <1>0 DEF Adopt, Learn, Jobs
    <3> QED BY <3>1, <1>0, <1>1 DEF Phase, Switching
  <2> QED BY <1>0, <1>1, <2>1, <2>2, <2>3, <2>4, <2>5, Roads
<1>2. CASE q # p
  <2>0. pc'[q] = pc[q] /\ job'[q] = job[q]
    BY <1>0, <1>2, Frame
  <2>1. CASE active' = active
    <3>1. active \in Kept \cup {job[q].cur}
      BY <2>0, <2>1, <1>f DEF Covered
    <3>2. CASE active \in backups \cup {job[q].cur}
      BY <3>2, <2>0, <2>1, <1>f DEF Kept
    <3>3. ASSUME NEW n \in Slots, active = slot[n] PROVE active' \in Kept'
      <4>1. slot'[n] = slot[n] \/ (slot'[n] = None /\ slot[n].login \in waived')
        <5>1. CASE pc[q] = "activate"
          <6>1. lock = q
            BY <5>1, <2>0, <1>0 DEF Place, Locked, Switching
          <6> QED BY <6>1, <3>3, <2>1, <1>0, <1>2, Guarded, NoneApart DEF Has
        <5>2. CASE pc[q] = "windowsActivate"
          BY <5>2, <1>0, Frame DEF Place
        <5> QED BY <5>1, <5>2, <2>0
      <4>2. slot'[n] = active'
        BY <4>1, <3>3, <2>1
      <4> QED BY <4>2 DEF Kept
    <3> QED BY <3>1, <3>2, <3>3 DEF Kept
  <2>2. CASE Activate(p)
    <3>1. lock = q
      <4>1. pc[q] = "activate"
        BY <2>0, <2>2, <1>0 DEF Place, Activate
      <4> QED BY <4>1, <2>0, <1>0 DEF Place, Locked, Switching
    <3>2. pc[p] = "activate" /\ job[p].op = "delete"
      BY <3>1, <2>2, <1>0, <1>2 DEF Activate, Place, Locked
    <3>3. active'.login \in waived'
      BY <3>2, <2>2 DEF Activate, LoginOf
    <3> QED BY <3>3
  <2>3. CASE ClearActive(p)
    BY <2>3 DEF ClearActive, Has
  <2>4. CASE WindowsActivate(p)
    <3>1. active' = slot'[job[p].name] /\ job[p].name \in Slots
      BY <2>4, <1>0 DEF WindowsActivate, OnWindows, Phase
    <3> QED BY <3>1 DEF Kept
  <2>5. CASE WindowsGrokActivate(p)
    BY <2>5 DEF WindowsGrokActivate
  <2> QED BY <1>0, <2>1, <2>2, <2>3, <2>4, <2>5, Roads
<1> QED BY <1>1, <1>2

LEMMA StepKeeps ==
  ASSUME IInv, [Next]_vars
  PROVE  IInv'
<1>0. TypeOK /\ Located /\ \A q \in Procs : Owner(q) /\ Covered(q)
  BY DEF IInv
<1>1. TypeOK' /\ Located'
  BY <1>0, LocatedStep
<1>2. ASSUME NEW q \in Procs PROVE Owner(q)' /\ Covered(q)'
  <2>1. ASSUME NEW p \in Procs, Act(p) PROVE Owner(q)' /\ Covered(q)'
    BY <2>1, <1>0, OwnerStep, CoveredStep
  <2>2. CASE Refresh
    <3>1. UNCHANGED <<provider, slot, backups, pc, job>>
      BY <2>2, Zenon DEF Refresh
    <3>2. Owner(q)'
      BY <3>1, <1>0 DEF Owner, SameIdentity
    <3>3. pc[q] \in {"activate", "windowsActivate"} => active'.login \in waived'
      <4>1. active'.login = active.login
        BY <2>2, <1>0, RefreshTyped
      <4> QED BY <4>1, <2>2 DEF Refresh
    <3> QED BY <3>1, <3>2, <3>3 DEF Covered
  <2>3. CASE UNCHANGED vars
    <3>1. UNCHANGED <<provider, active, slot, backups, pc, job, waived>>
      BY <2>3, Zenon DEF vars, files
    <3>2. Owner(q)'
      BY <3>1, <1>0 DEF Owner, SameIdentity
    <3>3. Covered(q)'
      BY <3>1, <1>0 DEF Covered, Kept
    <3> QED BY <3>2, <3>3
  <2> QED BY <2>1, <2>2, <2>3 DEF Next, Act
<1> QED BY <1>1, <1>2 DEF IInv

\* The inductive invariant.
THEOREM Invariant == Spec => []IInv
<1>1. Init => IInv
  <2> SUFFICES ASSUME Init PROVE IInv
    OBVIOUS
  <2>1. TypeOK /\ Located
    BY InitLocated
  <2> QED BY <2>1 DEF IInv, Init, Owner, Covered, Syncing
<1>2. IInv /\ [Next]_vars => IInv'
  BY StepKeeps
<1> QED BY <1>1, <1>2, PTL DEF Spec

\* Files, invocations and what they have found out are what they are said to be.
THEOREM TypeCorrect == Spec => []TypeOK
<1>1. IInv => TypeOK
  BY DEF IInv
<1> QED BY <1>1, Invariant, PTL

\* A switch replaces auth.json only when another file holds the same: several
\* switches at a time, cut short or not, whatever the logins' identities.
THEOREM SwitchesKeep == Spec => SwitchKeeps
<1>1. IInv => \A p \in Procs : Covered(p)
  BY DEF IInv
<1>2. IInv /\ [Next]_vars =>
        [\A p \in Procs :
           /\ pc[p] \in {"activate", "windowsActivate"} /\ pc'[p] # pc[p]
           /\ job[p].op \in {"switch", "new"} /\ provider # "windows grok"
           /\ Has(active) /\ active = job[p].seen /\ active.login \notin waived
           => active \in Kept \cup {job[p].cur}]_vars
  BY <1>1 DEF Covered, Switching
<1> QED BY <1>2, Invariant, PTL DEF Spec, SwitchKeeps

\* Credentials are never filed under an account of somebody else, except by a
\* login to it.
THEOREM AccountsKeepOwner == Spec => SlotKeepsOwner
<1> DEFINE Kind == \A n \in Slots :
       Has(slot[n]) /\ Has(slot'[n]) =>
         \/ SameIdentity(slot[n], slot'[n])
         \/ \E p \in Procs : pc[p] = "store" /\ pc'[p] # "store" /\ job[p].name = n
<1>1. IInv /\ [Next]_vars => [Kind]_vars
  <2> SUFFICES ASSUME IInv, [Next]_vars PROVE Kind \/ UNCHANGED vars
    OBVIOUS
  <2>0. TypeOK /\ Located /\ (\A q \in Procs : Owner(q)) /\ slot \in [Slots -> File]
    BY FilesTyped DEF IInv
  <2>1. ASSUME NEW p \in Procs, Act(p) PROVE Kind
    <3>0. Phase(p) /\ Owner(p) /\ pc \in [Procs -> Steps]
      BY <2>0, JobsTyped DEF Located
    <3>1. CASE slot' = slot
      BY <3>1 DEF SameIdentity
    <3>2. CASE ImportSave(p) \/ Save(p)
      <4>1. \/ slot' = slot
            \/ ~Has(slot[job[p].into]) /\ slot' = [slot EXCEPT ![job[p].into] = job[p].cur]
            \/ ~Has(slot[job[p].name]) /\ slot' = [slot EXCEPT ![job[p].name] = job[p].cur]
        BY <3>2 DEF ImportSave, Save
      <4> QED BY <4>1, <2>0 DEF SameIdentity
    <3>3. CASE Store(p)
      <4>1. /\ slot' = [slot EXCEPT ![job[p].name] = job[p].cur]
            /\ pc[p] = "store" /\ pc'[p] # "store"
        BY <3>3, <3>0 DEF Store, End, Goto
      <4> QED BY <4>1, <2>0 DEF SameIdentity
    <3>4. CASE SyncWrite(p)
      <4>1. slot' = [slot EXCEPT ![job[p].into] = job[p].cur] /\ pc[p] = "syncWrite"
        BY <3>4 DEF SyncWrite
      <4> QED BY <4>1, <3>0, <2>0 DEF SameIdentity, Owner, Syncing
    <3>5. CASE Remove(p)
      BY <3>5, <2>0 DEF Remove, Has, SameIdentity
    <3> QED BY <2>1, <3>0, <2>0, <3>1, <3>2, <3>3, <3>4, <3>5, Roads
  <2>2. CASE Refresh
    BY <2>2 DEF Refresh, SameIdentity
  <2> QED BY <2>1, <2>2 DEF Next, Act
<1> QED BY <1>1, Invariant, PTL DEF Spec, SlotKeepsOwner

----------------------------------------------------------------------------
(* That the newest credentials survive.                                     *)

\* No credentials are newer than the latest.
Within(f, latest) == Has(f) => f.version <= latest[f.login]
Versions ==
  /\ Within(active, issued)
  /\ \A n \in Slots : Within(slot[n], issued)
  /\ \A p \in Procs : Within(job[p].cur, issued)

\* A login that is not stored yet is nowhere else.
Fresh(p) ==
  pc[p] \in {"save", "store"} =>
    LET l == job[p].cur.login IN
    /\ job[p].cur = FirstOf(l) /\ issued[l] = 1
    /\ l \notin LoginOf(active)
    /\ \A n \in Slots : l \notin LoginOf(slot[n])
    /\ \A q \in Procs \ {p} : l \notin LoginOf(job[q].cur)

\* A login is in one account.
Unique ==
  \A m, n \in Accounts :
    slot[m].login = slot[n].login /\ slot[n].login \notin waived => m = n

\* The account of what auth.json holds is not ahead of it.
Behind(f) == Has(active) /\ active.login = f.login => f.version <= active.version
Older == \A n \in Accounts : slot[n].login \notin waived => Behind(slot[n])

\* What a switch syncs is not ahead of auth.json, nor behind the account it goes
\* to if that is of the same login.
Synced(p) ==
  pc[p] \in Syncing /\ job[p].cur.login \notin waived =>
    LET c == slot[job[p].into] IN
    /\ Has(c) /\ c.login = job[p].cur.login => c.version <= job[p].cur.version
    /\ Behind(job[p].cur)

\* What a switch activates is in its account.
Chosen(p) ==
  /\ pc[p] \in {"backup", "activate"} /\ job[p].op \in Switching
  /\ job[p].cur.login \notin waived
  => slot[job[p].name] = job[p].cur

\* What is imported is not ahead of auth.json, or is imported already.
Imported(p) ==
  pc[p] = "import" /\ job[p].cur.login \notin waived =>
    \/ \E n \in Slots : job[p].cur.login \in LoginOf(slot[n])
    \/ Behind(job[p].cur)

KInv ==
  /\ IInv /\ Versions /\ Unique /\ Older
  /\ \A p \in Procs : Fresh(p) /\ Synced(p) /\ Chosen(p) /\ Imported(p)
  /\ NewestKept

LEMMA CredentialsTyped ==
  ASSUME NEW c \in Credentials
  PROVE  /\ c.login \in Logins /\ c.version \in Nat /\ 1 <= c.version
         /\ c = [login |-> c.login, version |-> c.version] /\ Has(c)
<1>1. c # None
  BY NoneApart
<1> QED BY <1>1, BoundsAssumption DEF Credentials, Has

\* All that the files and the invocations hold is credentials.
LEMMA AllTyped ==
  ASSUME TypeOK
  PROVE  /\ Has(active) => active \in Credentials
         /\ \A n \in Slots : Has(slot[n]) => slot[n] \in Credentials
         /\ \A p \in Procs : Has(job[p].cur) => job[p].cur \in Credentials
         /\ \A l \in Logins : issued[l] \in Nat
BY BoundsAssumption DEF TypeOK, Jobs, File, Has

\* A login is what its command has in hand.
LEMMA LoginLearns ==
  ASSUME TypeOK, NEW p \in Procs, NEW l \in Logins, Login(p, l)
  PROVE  job'[p].cur = FirstOf(l)
<1>0. job \in [Procs -> Jobs] /\ job[p] \in Jobs
  BY JobsTyped
<1>1. CASE \E n \in Slots \ Accounts :
             Learn(p, [job[p] EXCEPT !.name = n, !.cur = FirstOf(l), !.own = FirstOf(l)])
  BY <1>1, <1>0 DEF Learn, Jobs
<1>2. CASE Learn(p, [job[p] EXCEPT !.cur = FirstOf(l), !.own = FirstOf(l)])
  BY <1>2, <1>0 DEF Learn, Jobs
<1>3. \/ \E n \in Slots \ Accounts :
           Learn(p, [job[p] EXCEPT !.name = n, !.cur = FirstOf(l), !.own = FirstOf(l)])
      \/ Learn(p, [job[p] EXCEPT !.cur = FirstOf(l), !.own = FirstOf(l)])
  BY Zenon DEF Login
<1> QED BY <1>1, <1>2, <1>3

\* Where what the files and the invocations hold comes from.
LEMMA Sources ==
  ASSUME TypeOK, NEW p \in Procs, Phase(p), Act(p)
  PROVE  /\ active' \in {active, None, job[p].cur}
         /\ \A n \in Slots : slot'[n] \in {slot[n], None, job[p].cur}
         /\ \/ job'[p].cur \in {job[p].cur, active, None}
            \/ \E n \in Slots : job'[p].cur = slot[n]
            \/ \E l \in Logins : Login(p, l) /\ job'[p].cur = FirstOf(l)
<1>0. /\ job \in [Procs -> Jobs] /\ slot \in [Slots -> File]
  BY DEF TypeOK
<1>n. job[p].name \in Slots \cup {None}
  BY JobsTyped
<1>a. active' \in {active, None, job[p].cur}
  BY Roads DEF Activate, ClearActive, WindowsActivate, WindowsGrokActivate
<1>b. \A n \in Slots : slot'[n] \in {slot[n], None, job[p].cur}
  BY <1>0, Roads DEF ImportSave, Save, Store, SyncWrite, Remove
<1> SUFFICES \/ job'[p].cur \in {job[p].cur, active, None}
             \/ \E n \in Slots : job'[p].cur = slot[n]
             \/ \E l \in Logins : Login(p, l) /\ job'[p].cur = FirstOf(l)
  BY <1>a, <1>b
<1>e. Learn(p, NoJob) => job'[p].cur = None
  BY <1>0 DEF Learn, NoJob
<1>1. CASE Invoke(p) \/ WindowsInvoke(p)
  BY ZenonT(40), <1>1, <1>0, <1>n DEF Invoke, WindowsInvoke, End, Learn, Jobs, NoJob, Phase
<1>2. CASE Import(p)
  BY <1>2, <1>0, <1>n DEF Import, End, Learn, Jobs, NoJob, Phase
<1>3. CASE ImportSave(p) \/ ImportRecord(p)
  BY <1>3, <1>0, <1>n DEF ImportSave, ImportRecord, End, Learn, Jobs, NoJob, Phase
<1>4. CASE List(p)
  <2>1. PICK n \in Accounts, b \in BOOLEAN :
          Learn(p, [job[p] EXCEPT !.name = n, !.current = b, !.cur = None])
    BY <1>4, Zenon DEF List
  <2> QED BY <2>1, <1>0 DEF Learn, Jobs
<1>18. CASE Look(p)
  <2>1. Learn(p, [job[p] EXCEPT !.cur = active])
    BY <1>18, Zenon DEF Look
  <2> QED BY <2>1, <1>0 DEF Learn, Jobs
<1>5. CASE ListNew(p)
  BY <1>5, <1>0, <1>n DEF ListNew, End, Learn, Jobs, NoJob, Phase
<1>6. CASE (\E l \in Logins : Login(p, l))
  BY <1>6, LoginLearns
<1>7. CASE Save(p) \/ Store(p)
  BY <1>7, <1>0, <1>n DEF Save, Store, End, Learn, Jobs, NoJob, Phase
<1>8. CASE Lock(p) \/ SyncRead(p)
  BY <1>8, <1>0, <1>n DEF Lock, SyncRead, End, Learn, Jobs, NoJob, Phase
<1>9. CASE SyncWrite(p) \/ Read(p)
  BY <1>9, <1>0, <1>n DEF SyncWrite, Read, End, Learn, Jobs, NoJob, Phase
<1>10. CASE Backup(p) \/ WindowsBackup(p)
  BY <1>10, <1>0, <1>n DEF Backup, WindowsBackup, End, Learn, Jobs, NoJob, Phase
<1>11. CASE Activate(p)
  BY <1>11, <1>0, <1>n DEF Activate, End, Learn, Jobs, NoJob, Phase
<1>12. CASE Remove(p)
  BY <1>12, <1>0, <1>n DEF Remove, End, Learn, Jobs, NoJob, Phase
<1>13. CASE ChooseNone(p) \/ Choose(p)
  BY <1>13, <1>0, <1>n DEF ChooseNone, Choose, End, Learn, Jobs, NoJob, Phase
<1>14. CASE Adopt(p) \/ ClearActive(p)
  BY <1>14, <1>0, <1>n DEF Adopt, ClearActive, End, Learn, Jobs, NoJob, Phase
<1>17. CASE SyncCompare(p)
  <2>1. job' = job \/ Learn(p, NoJob)
    BY <1>17 DEF SyncCompare, End
  <2> QED BY <2>1, <1>e
<1>15. CASE WindowsRead(p)
  BY <1>15, <1>0, <1>n DEF WindowsRead, End, Learn, Jobs, NoJob, Phase
<1>16. CASE \/ Crash(p) \/ ImportRefused(p) \/ ListOnly(p) \/ LoginFails(p)
           \/ Record(p) \/ RemoveFails(p) \/ Relist(p) \/ AdoptFails(p)
           \/ ClearState(p) \/ WindowsActivate(p) \/ WindowsGrokActivate(p)
  BY <1>16, <1>e DEF End, Crash, ImportRefused, ListOnly, LoginFails, Record,
    RemoveFails, Relist, AdoptFails, ClearState, WindowsActivate, WindowsGrokActivate
<1> QED BY <1>1, <1>2, <1>3, <1>4, <1>5, <1>6, <1>7, <1>8, <1>9, <1>10, <1>11, <1>12,
  <1>13, <1>14, <1>15, <1>16, <1>17, <1>18 DEF Act, ListStep, LoginStep, SwitchStep, DeleteStep,
  WindowsStep

\* Steps never lower what is issued.
LEMMA IssuedGrows ==
  ASSUME TypeOK, NEW p \in Procs, Phase(p), Act(p), NEW l \in Logins
  PROVE  /\ issued[l] <= issued'[l]
         /\ issued'[l] = issued[l] \/ (Login(p, l) /\ issued[l] = 0 /\ issued'[l] = 1)
<1>0. issued \in [Logins -> 0..MaxVersion] /\ issued[l] \in Nat
  BY BoundsAssumption DEF TypeOK
<1>1. CASE issued' = issued
  BY <1>1, <1>0
<1>2. CASE \E m \in Logins : Login(p, m)
  <2>1. PICK m \in Logins : Login(p, m)
    BY <1>2
  <2>2. issued[m] = 0 /\ issued' = [issued EXCEPT ![m] = 1]
    BY <2>1, Zenon DEF Login
  <2> QED BY <2>1, <2>2, <1>0
<1> QED BY <1>1, <1>2, Roads

LEMMA VersionsStep ==
  ASSUME TypeOK, Versions, NEW p \in Procs, Phase(p), Place(p), Act(p)
  PROVE  Versions'
<1>1. ASSUME NEW f \in File, Within(f, issued) PROVE Within(f, issued')
  <2> SUFFICES ASSUME Has(f) PROVE f.version <= issued'[f.login]
    BY DEF Within
  <2>1. f \in Credentials /\ f.version <= issued[f.login]
    BY <1>1 DEF Within, File, Has
  <2>2. f.login \in Logins /\ f.version \in Nat /\ issued[f.login] \in Nat
    BY <2>1, CredentialsTyped, AllTyped
  <2>3. issued[f.login] <= issued'[f.login] /\ issued'[f.login] \in Nat
    BY <2>2, IssuedGrows
  <2> QED BY <2>1, <2>2, <2>3
<1>2. /\ active \in File /\ (\A n \in Slots : slot[n] \in File)
      /\ (\A q \in Procs : job[q].cur \in File)
  BY FilesTyped, JobsTyped
<1>3. Within(None, issued')
  BY DEF Within, Has
<1>4. /\ Within(active, issued')
      /\ \A n \in Slots : Within(slot[n], issued')
      /\ \A q \in Procs : Within(job[q].cur, issued')
  BY <1>1, <1>2 DEF Versions
<1>5. Within(active', issued') /\ \A n \in Slots : Within(slot'[n], issued')
  <2>1. /\ active' \in {active, None, job[p].cur}
        /\ \A n \in Slots : slot'[n] \in {slot[n], None, job[p].cur}
    BY Sources
  <2> QED BY <2>1, <1>3, <1>4
<1>6. ASSUME NEW l \in Logins, Login(p, l) PROVE Within(FirstOf(l), issued')
  <2>1. issued'[l] = 1
    <3>1. issued[l] = 0 /\ issued' = [issued EXCEPT ![l] = 1]
      BY <1>6, Zenon DEF Login
    <3> QED BY <3>1 DEF TypeOK
  <2> QED BY <2>1, FirstIsCredentials DEF Within
<1>7. Within(job'[p].cur, issued')
  <2>1. \/ job'[p].cur \in {job[p].cur, active, None}
        \/ \E n \in Slots : job'[p].cur = slot[n]
        \/ \E l \in Logins : Login(p, l) /\ job'[p].cur = FirstOf(l)
    BY Sources
  <2> QED BY <2>1, <1>3, <1>4, <1>6
<1>8. \A q \in Procs : Within(job'[q].cur, issued')
  BY <1>4, <1>7, Frame
<1> QED BY <1>5, <1>8 DEF Versions

LEMMA FreshStep ==
  ASSUME TypeOK, Versions, Located, NEW p \in Procs, Act(p),
         NEW q \in Procs, Fresh(q)
  PROVE  Fresh(q)'
<1>0. Phase(p) /\ Place(p) /\ job \in [Procs -> Jobs] /\ pc \in [Procs -> Steps]
  BY JobsTyped DEF Located
<1> SUFFICES ASSUME pc'[q] \in {"save", "store"}
             PROVE  LET l == job'[q].cur.login IN
                    /\ job'[q].cur = FirstOf(l) /\ issued'[l] = 1
                    /\ l \notin LoginOf(active')
                    /\ \A n \in Slots : l \notin LoginOf(slot'[n])
                    /\ \A r \in Procs \ {q} : l \notin LoginOf(job'[r].cur)
  BY DEF Fresh, LoginOf, Has
<1>s. /\ active' \in {active, None, job[p].cur}
      /\ \A n \in Slots : slot'[n] \in {slot[n], None, job[p].cur}
      /\ \/ job'[p].cur \in {job[p].cur, active, None}
         \/ \E n \in Slots : job'[p].cur = slot[n]
         \/ \E l \in Logins : Login(p, l) /\ job'[p].cur = FirstOf(l)
  BY <1>0, Sources
<1>o. \A r \in Procs \ {p} : pc'[r] = pc[r] /\ job'[r] = job[r]
  BY <1>0, Frame
<1>1. CASE q = p
  <2>1. PICK l \in Logins : Login(p, l)
    BY <1>0, <1>1, Roads
  <2>2. issued[l] = 0 /\ issued' = [issued EXCEPT ![l] = 1] /\ active' = active /\ slot' = slot
    BY <2>1, Zenon DEF Login, files
  <2>3. job'[p].cur = FirstOf(l)
    BY <2>1, <1>0, LoginLearns
  <2>4. FirstOf(l).login = l /\ issued'[l] = 1
    BY <2>2, FirstIsCredentials DEF TypeOK
  <2>5. ASSUME NEW f \in File, Within(f, issued) PROVE l \notin LoginOf(f)
    <3> SUFFICES ASSUME Has(f), f.login = l PROVE FALSE
      BY DEF LoginOf
    <3>1. f \in Credentials /\ f.version <= 0
      BY <2>2, <2>5 DEF Within, File, Has
    <3> QED BY <3>1, CredentialsTyped
  <2>6. /\ active \in File /\ (\A n \in Slots : slot[n] \in File)
        /\ (\A r \in Procs : job[r].cur \in File)
    BY FilesTyped, JobsTyped
  <2> QED BY <1>1, <1>o, <2>2, <2>3, <2>4, <2>5, <2>6 DEF Versions
<1>2. CASE q # p
  <2> DEFINE l == job[q].cur.login
  <2>1. pc'[q] = pc[q] /\ job'[q] = job[q] /\ pc[q] \in {"save", "store"}
    BY <1>2, <1>o
  <2>2. /\ job[q].cur = FirstOf(l) /\ issued[l] = 1 /\ l \notin LoginOf(active)
        /\ \A n \in Slots : l \notin LoginOf(slot[n])
        /\ \A r \in Procs \ {q} : l \notin LoginOf(job[r].cur)
    BY <2>1 DEF Fresh
  <2>3. l \in Logins
    BY <2>1, CredentialsTyped DEF Located, Phase
  <2>4. l \notin LoginOf(None)
    BY DEF LoginOf, Has
  <2>5. issued'[l] = 1
    BY <2>2, <2>3, <1>0, IssuedGrows
  <2>6. ASSUME NEW m \in Logins, Login(p, m) PROVE l \notin LoginOf(FirstOf(m))
    <3>1. issued[m] = 0
      BY <2>6, Zenon DEF Login
    <3>2. m # l
      BY <3>1, <2>2
    <3> QED BY <3>2, FirstIsCredentials DEF LoginOf
  <2>7. l \notin LoginOf(job'[p].cur)
    BY <1>s, <1>2, <2>2, <2>4, <2>6
  <2>8. l \notin LoginOf(active') /\ \A n \in Slots : l \notin LoginOf(slot'[n])
    BY <1>s, <1>2, <2>2, <2>4
  <2> HIDE DEF l
  <2>9. \A r \in Procs \ {q} : l \notin LoginOf(job'[r].cur)
    BY <2>2, <2>7, <1>o
  <2> QED BY <2>1, <2>2, <2>5, <2>8, <2>9 DEF l
<1> QED BY <1>1, <1>2

\* What the lemmas below share: the invariant before a step of p.
Before(p) ==
  /\ TypeOK /\ Located /\ Versions /\ Unique /\ Older
  /\ \A q \in Procs : Owner(q) /\ Covered(q) /\ Fresh(q)
                      /\ Synced(q) /\ Chosen(q) /\ Imported(q)
  /\ p \in Procs /\ Act(p)

LEMMA BeforeFacts ==
  ASSUME NEW p, Before(p)
  PROVE  /\ p \in Procs /\ Act(p) /\ TypeOK /\ Phase(p) /\ Place(p) /\ OnWindows(p)
         /\ Owner(p) /\ Covered(p) /\ Fresh(p) /\ Synced(p) /\ Chosen(p) /\ Imported(p)
         /\ pc \in [Procs -> Steps] /\ job \in [Procs -> Jobs] /\ slot \in [Slots -> File]
         /\ waived \subseteq waived'
         /\ \A q \in Procs : Phase(q) /\ Place(q)
<1>1. TypeOK /\ p \in Procs /\ Act(p) /\ Phase(p) /\ Place(p)
  BY DEF Before, Located
<1>2. waived \subseteq waived'
  BY <1>1, Frame
<1> QED BY <1>1, <1>2, JobsTyped, FilesTyped DEF Before, Located

\* An account whose login need be kept keeps it, and does not fall back.
LEMMA Stays ==
  ASSUME NEW p, Before(p),
         NEW n \in Slots, Has(slot[n]), slot[n].login \notin waived'
  PROVE  /\ Has(slot'[n]) /\ slot'[n].login = slot[n].login
         /\ slot[n].version <= slot'[n].version
<1>0. /\ p \in Procs /\ Phase(p) /\ Act(p) /\ Owner(p) /\ Synced(p) /\ TypeOK
      /\ waived \subseteq waived' /\ slot \in [Slots -> File]
  BY BeforeFacts
<1>c. slot[n] \in Credentials /\ slot[n].version \in Nat
  BY <1>0, FilesTyped, CredentialsTyped
<1>1. CASE slot'[n] = slot[n]
  BY <1>1, <1>c
<1>2. CASE ImportSave(p) \/ Save(p)
  <2>1. \/ slot' = slot
        \/ ~Has(slot[job[p].into]) /\ slot' = [slot EXCEPT ![job[p].into] = job[p].cur]
        \/ ~Has(slot[job[p].name]) /\ slot' = [slot EXCEPT ![job[p].name] = job[p].cur]
    BY <1>2 DEF ImportSave, Save
  <2> QED BY <2>1, <1>0, <1>1
<1>3. CASE Store(p)
  <2>1. /\ slot' = [slot EXCEPT ![job[p].name] = job[p].cur]
        /\ waived' = waived \cup LoginOf(slot[job[p].name])
    BY <1>3 DEF Store
  <2> QED BY <2>1, <1>0, <1>1 DEF LoginOf
<1>4. CASE SyncWrite(p)
  <2>1. /\ slot' = [slot EXCEPT ![job[p].into] = job[p].cur] /\ pc[p] = "syncWrite"
        /\ Mistaken(job[p].into, job[p].cur) \subseteq waived'
    BY <1>4 DEF SyncWrite
  <2>2. CASE n = job[p].into
    <3>1. job[p].cur \in Credentials
      BY <1>0, <2>1 DEF Phase, Syncing
    <3>2. SameIdentity(slot[n], job[p].cur)
      BY <2>1, <2>2, <1>0 DEF Owner, Syncing
    <3>3. slot[n].login = job[p].cur.login
      BY <3>2, <2>1, <2>2 DEF Mistaken, LoginOf
    <3>4. slot[n].version <= job[p].cur.version
      BY <3>3, <2>1, <2>2, <1>0 DEF Synced, Syncing
    <3> QED BY <3>1, <3>3, <3>4, <2>1, <2>2, <1>0, CredentialsTyped
  <2> QED BY <2>1, <2>2, <1>0, <1>1
<1>5. CASE Remove(p)
  BY <1>5, <1>0, <1>1 DEF Remove
<1> QED BY <1>0, <1>1, <1>2, <1>3, <1>4, <1>5, Roads

\* What comes into an account: what is imported, logged in to or synced.
LEMMA Comes ==
  ASSUME NEW p, Before(p),
         NEW n \in Slots, Has(slot'[n]), slot'[n] # slot[n], slot'[n].login \notin waived'
  PROVE  /\ slot'[n] = job[p].cur /\ job[p].cur \in Credentials
         /\ \A m \in Slots : m # n => slot'[m] = slot[m]
         /\ Behind(job[p].cur)
         /\ active' = active
         /\ \A m \in Slots \ {n} : slot'[n].login \notin LoginOf(slot[m])
<1>0. /\ p \in Procs /\ Phase(p) /\ Act(p) /\ TypeOK /\ slot \in [Slots -> File]
      /\ Synced(p) /\ Fresh(p) /\ Imported(p) /\ waived \subseteq waived'
  BY BeforeFacts
<1>1. CASE ImportSave(p)
  <2>1. /\ pc[p] = "import" /\ ~Has(slot[job[p].into]) /\ active' = active
        /\ slot' = [slot EXCEPT ![job[p].into] = job[p].cur]
        /\ waived' = waived \cup Doubled(job[p].into, job[p].cur)
    BY <1>1, Zenon DEF ImportSave
  <2>2. n = job[p].into /\ slot'[n] = job[p].cur /\ job[p].cur \in Credentials
    BY <2>1, <1>0 DEF Phase
  <2>3. \A m \in Slots : m # n => slot'[m] = slot[m]
    BY <2>1, <2>2, <1>0
  <2>4. \A m \in Slots : slot'[n].login \notin LoginOf(slot[m])
    BY <2>1, <2>2 DEF LoginOf, Accounts, Doubled
  <2>5. Behind(job[p].cur)
    BY <2>1, <2>2, <2>4, <1>0 DEF Imported
  <2> QED BY <2>1, <2>2, <2>3, <2>4, <2>5
<1>2. CASE Save(p) \/ Store(p)
  <2>1. /\ pc[p] \in {"save", "store"} /\ active' = active
        /\ slot' = [slot EXCEPT ![job[p].name] = job[p].cur]
    BY <1>2 DEF Save, Store
  <2>2. n = job[p].name /\ slot'[n] = job[p].cur /\ job[p].cur \in Credentials
    BY <2>1, <1>0 DEF Phase
  <2>3. \A m \in Slots : m # n => slot'[m] = slot[m]
    BY <2>1, <2>2, <1>0
  <2>4. /\ \A m \in Slots : slot'[n].login \notin LoginOf(slot[m])
        /\ slot'[n].login \notin LoginOf(active)
    BY <2>1, <2>2, <1>0 DEF Fresh
  <2> QED BY <2>1, <2>2, <2>3, <2>4 DEF Behind, LoginOf
<1>3. CASE SyncWrite(p)
  <2>1. /\ slot' = [slot EXCEPT ![job[p].into] = job[p].cur] /\ pc[p] = "syncWrite"
        /\ active' = active /\ Doubled(job[p].into, job[p].cur) \subseteq waived'
    BY <1>3 DEF SyncWrite
  <2>2. n = job[p].into /\ slot'[n] = job[p].cur /\ job[p].cur \in Credentials
    BY <2>1, <1>0 DEF Phase, Syncing
  <2>3. \A m \in Slots : m # n => slot'[m] = slot[m]
    BY <2>1, <2>2, <1>0
  <2>4. \A m \in Slots \ {n} : slot'[n].login \notin LoginOf(slot[m])
    BY <2>1, <2>2 DEF LoginOf, Accounts, Doubled
  <2>5. Behind(job[p].cur)
    BY <2>1, <2>2, <1>0 DEF Synced, Syncing
  <2> QED BY <2>1, <2>2, <2>3, <2>4, <2>5
<1>4. CASE Remove(p)
  BY <1>4, <1>0 DEF Remove, Has
<1> QED BY <1>0, <1>1, <1>2, <1>3, <1>4, Roads

LEMMA UniqueStep ==
  ASSUME NEW p, Before(p)
  PROVE  Unique'
<1> SUFFICES ASSUME NEW m \in Slots, NEW n \in Slots, Has(slot'[m]), Has(slot'[n]),
                    slot'[m].login = slot'[n].login, slot'[n].login \notin waived', m # n
             PROVE  FALSE
  BY DEF Unique, Accounts, Has
<1>0. Unique /\ waived \subseteq waived'
  BY BeforeFacts DEF Before
<1>1. ASSUME NEW i \in Slots, NEW j \in Slots, i # j, slot'[i] # slot[i], Has(slot'[i]),
             Has(slot'[j]), slot'[i].login = slot'[j].login, slot'[i].login \notin waived'
      PROVE  FALSE
  <2>1. slot'[j] = slot[j]
    BY <1>1, Comes
  <2>2. slot'[i].login \notin LoginOf(slot[j])
    BY <1>1, Comes
  <2> QED BY <1>1, <2>1, <2>2 DEF LoginOf
<1>2. CASE slot'[m] = slot[m] /\ slot'[n] = slot[n]
  BY <1>0, <1>2 DEF Unique, Accounts
<1> QED BY <1>1, <1>2

\* What replaces auth.json is in an account, but for what need not be kept.
LEMMA Replaced ==
  ASSUME NEW p, Before(p), active' # active, Has(active'), active'.login \notin waived'
  PROVE  \E n \in Slots : slot[n] = active' /\ slot' = slot
<1>0. /\ p \in Procs /\ Phase(p) /\ Act(p) /\ TypeOK /\ OnWindows(p) /\ Chosen(p)
      /\ waived \subseteq waived'
  BY BeforeFacts
<1>1. CASE Activate(p)
  <2>1. pc[p] = "activate" /\ active' = job[p].cur /\ slot' = slot
    BY <1>1 DEF Activate
  <2>2. job[p].op \in Switching
    <3>1. job[p].op \in {"delete", "login"} =>
            waived' = waived \cup LoginOf(active) \cup LoginOf(job[p].cur)
      BY <1>1 DEF Activate
    <3> QED BY <3>1, <2>1, <1>0 DEF Phase, LoginOf
  <2> QED BY <2>1, <2>2, <1>0 DEF Chosen, Phase
<1>2. CASE ClearActive(p)
  BY <1>2 DEF ClearActive, Has
<1>3. CASE WindowsActivate(p) \/ WindowsGrokActivate(p)
  <2>1. pc[p] = "windowsActivate" /\ active' = job[p].cur /\ slot' = slot
    BY <1>3 DEF WindowsActivate, WindowsGrokActivate
  <2> QED BY <2>1, <1>0 DEF Phase, OnWindows
<1> QED BY <1>0, <1>1, <1>2, <1>3, Roads

LEMMA OlderStep ==
  ASSUME NEW p, Before(p)
  PROVE  Older'
<1> SUFFICES ASSUME NEW n \in Slots, Has(slot'[n]), slot'[n].login \notin waived',
                    Has(active'), active'.login = slot'[n].login
             PROVE  slot'[n].version <= active'.version
  BY DEF Older, Accounts, Behind, Has
<1>0. /\ TypeOK /\ Unique /\ Older /\ waived \subseteq waived'
      /\ \A m \in Slots : Has(slot[m]) => slot[m] \in Credentials /\ slot[m].version \in Nat
  BY BeforeFacts, FilesTyped, CredentialsTyped DEF Before
<1>1. CASE slot'[n] # slot[n]
  BY <1>1, Comes DEF Behind
<1>2. CASE slot'[n] = slot[n] /\ active' = active
  BY <1>0, <1>2 DEF Older, Accounts, Behind
<1>3. CASE slot'[n] = slot[n] /\ active' # active
  <2>1. PICK m \in Slots : slot[m] = active'
    BY <1>3, Replaced
  <2>2. m = n
    BY <2>1, <1>0, <1>3 DEF Unique, Accounts
  <2> QED BY <2>1, <2>2, <1>3, <1>0
<1> QED BY <1>1, <1>2, <1>3

LEMMA SyncedStep ==
  ASSUME NEW p, Before(p), NEW q \in Procs
  PROVE  Synced(q)'
<1>0. /\ p \in Procs /\ TypeOK /\ Phase(p) /\ Place(p) /\ Act(p) /\ Phase(q) /\ Place(q)
      /\ pc \in [Procs -> Steps] /\ job \in [Procs -> Jobs] /\ waived \subseteq waived'
      /\ Older /\ Synced(q)
  BY BeforeFacts DEF Before
<1> SUFFICES ASSUME pc'[q] \in Syncing, job'[q].cur.login \notin waived'
             PROVE  LET c == slot'[job'[q].into] IN
                    /\ Has(c) /\ c.login = job'[q].cur.login
                       => c.version <= job'[q].cur.version
                    /\ Has(active') /\ active'.login = job'[q].cur.login
                       => job'[q].cur.version <= active'.version
  BY DEF Synced, Behind, Has
<1>1. CASE q = p /\ SyncRead(p)
  <2>1. PICK n \in Resolved(active) :
          /\ Learn(p, [job[p] EXCEPT !.cur = active, !.into = n])
          /\ Goto(p, IF n = None THEN "read" ELSE "syncCompare")
    BY <1>1, Zenon DEF SyncRead
  <2>2. job'[p].cur = active /\ job'[p].into = n /\ n # None
    BY <2>1, <1>0, <1>1 DEF Learn, Goto, Jobs, Syncing
  <2>3. slot' = slot /\ active' = active
    BY <1>1, Zenon DEF SyncRead, files
  <2>4. n \in Slots /\ Has(active)
    BY <2>2, ResolvedMatches
  <2>5. active.version \in Nat
    BY <2>4, <1>0, FilesTyped, CredentialsTyped
  <2>6. Has(slot[n]) /\ slot[n].login = active.login => slot[n].version <= active.version
    BY <1>0, <1>1, <2>2, <2>4 DEF Older, Accounts, Behind
  <2> QED BY <1>1, <2>2, <2>3, <2>5, <2>6
<1>2. CASE q = p /\ SyncCompare(p)
  <2>1. /\ pc[p] = "syncCompare" /\ slot' = slot /\ active' = active
        /\ job' = job \/ pc'[p] = "idle"
    BY <1>2, <1>0 DEF SyncCompare, End, Goto, files
  <2> QED BY <2>1, <1>0, <1>2 DEF Synced, Syncing, Behind
<1>3. CASE q # p
  <2> DEFINE c == slot[job[q].into]
  <2>1. pc[q] \in Syncing /\ job'[q] = job[q]
    BY <1>0, <1>3, Frame
  <2>2. lock = q /\ job[q].into \in Slots /\ job[q].cur \in Credentials
    BY <1>0, <2>1 DEF Phase, Place, Locked, Switching, Syncing
  <2>3. /\ Has(c) /\ c.login = job[q].cur.login => c.version <= job[q].cur.version
        /\ Behind(job[q].cur)
    BY <2>1, <1>0 DEF Synced
  <2>4. slot'[job[q].into] = c \/ ~Has(slot'[job[q].into])
    BY <2>2, <1>0, <1>3, Guarded, NoneApart DEF Has
  <2>5. active' = active \/ ~Has(active') \/ active'.login \in waived'
    <3>1. CASE Activate(p)
      <4>1. job[p].op = "delete" /\ active' = job[p].cur
        BY <3>1, <2>2, <1>0, <1>3 DEF Activate, Place, Locked
      <4> QED BY <4>1, <3>1 DEF Activate, LoginOf
    <3>2. CASE ClearActive(p)
      BY <3>2 DEF ClearActive, Has
    <3>3. CASE WindowsActivate(p) \/ WindowsGrokActivate(p)
      BY <3>3, <2>1, <1>0 DEF WindowsActivate, WindowsGrokActivate, Place, Windows, Syncing
    <3> QED BY <1>0, <3>1, <3>2, <3>3, Roads
  <2> HIDE DEF c
  <2> QED BY <2>1, <2>3, <2>4, <2>5 DEF Behind
<1> QED BY <1>0, <1>1, <1>2, <1>3, Roads DEF Syncing

LEMMA ChosenStep ==
  ASSUME NEW p, Before(p), NEW q \in Procs
  PROVE  Chosen(q)'
<1>0. /\ p \in Procs /\ TypeOK /\ Phase(p) /\ Place(p) /\ Act(p) /\ Phase(q) /\ Place(q)
      /\ pc \in [Procs -> Steps] /\ job \in [Procs -> Jobs] /\ waived \subseteq waived'
      /\ Chosen(q)
  BY BeforeFacts DEF Before
<1> SUFFICES ASSUME pc'[q] \in {"backup", "activate"}, job'[q].op \in Switching,
                    job'[q].cur.login \notin waived'
             PROVE  slot'[job'[q].name] = job'[q].cur
  BY DEF Chosen
<1>1. CASE q = p
  <2>1. CASE Read(p)
    <3>1. Has(slot[job[p].name]) /\ slot' = slot
      BY <2>1, <1>0, <1>1 DEF Read, End, Goto, files
    <3>2. job'[p].cur = slot[job[p].name] /\ job'[p].name = job[p].name
      BY <2>1, <3>1, <1>0 DEF Read, Learn, Jobs
    <3> QED BY <3>1, <3>2, <1>1
  <2>2. CASE Backup(p)
    <3>1. /\ pc[p] = "backup" /\ slot' = slot
          /\ job'[p].cur = job[p].cur /\ job'[p].name = job[p].name
          /\ job'[p].op = job[p].op
      BY <2>2, <1>0 DEF Backup, Learn, Jobs
    <3> QED BY <3>1, <1>0, <1>1 DEF Chosen
  <2>3. CASE Store(p)
    <3>1. pc[p] = "store" /\ (job'[p] = job[p] \/ pc'[p] = "idle")
      BY <2>3, <1>0 DEF Store, End, Goto
    <3> QED BY <3>1, <1>0, <1>1 DEF Phase, Switching
  <2>4. CASE Adopt(p)
    <3>1. pc[p] = "adopt" /\ job'[p].op = job[p].op
      BY <2>4, <1>0 DEF Adopt, Learn, Jobs
    <3> QED BY <3>1, <1>0, <1>1 DEF Phase, Switching
  <2> QED BY <1>0, <1>1, <2>1, <2>2, <2>3, <2>4, Roads
<1>2. CASE q # p
  <2>1. pc[q] \in {"backup", "activate"} /\ job'[q] = job[q]
    BY <1>0, <1>2, Frame
  <2>2. lock = q /\ job[q].name \in Slots /\ job[q].cur \in Credentials
    BY <1>0, <2>1 DEF Phase, Place, Locked, Switching
  <2>3. slot[job[q].name] = job[q].cur
    BY <2>1, <1>0 DEF Chosen
  <2> QED BY <2>1, <2>2, <2>3, <1>0, <1>2, Guarded, NoneApart, CredentialsTyped
<1> QED BY <1>1, <1>2

LEMMA ImportedStep ==
  ASSUME NEW p, Before(p), NEW q \in Procs
  PROVE  Imported(q)'
<1>0. /\ p \in Procs /\ TypeOK /\ Phase(p) /\ Place(p) /\ Act(p) /\ Phase(q)
      /\ pc \in [Procs -> Steps] /\ job \in [Procs -> Jobs] /\ waived \subseteq waived'
      /\ Imported(q)
  BY BeforeFacts DEF Before
<1> SUFFICES ASSUME pc'[q] = "import", job'[q].cur.login \notin waived',
                    Has(active'), active'.login = job'[q].cur.login,
                    \A n \in Slots : job'[q].cur.login \notin LoginOf(slot'[n])
             PROVE  job'[q].cur.version <= active'.version
  BY DEF Imported, Behind, LoginOf, Has
<1>1. CASE q = p
  <2>1. Import(p)
    BY <1>0, <1>1, Roads
  <2>2. Has(active) /\ active' = active /\ job'[p].cur = active
    BY <2>1, <1>0 DEF Import, ImportNeeded, Learn, Jobs, files
  <2>3. active.version \in Nat
    BY <2>2, <1>0, FilesTyped, CredentialsTyped
  <2> QED BY <1>1, <2>2, <2>3
<1>2. CASE q # p
  <2>1. pc[q] = "import" /\ job'[q] = job[q]
    BY <1>0, <1>2, Frame
  <2>2. ASSUME NEW n \in Slots, job[q].cur.login \in LoginOf(slot[n]) PROVE FALSE
    <3>1. Has(slot[n]) /\ slot[n].login = job[q].cur.login
      BY <2>2 DEF LoginOf
    <3>2. Has(slot'[n]) /\ slot'[n].login = slot[n].login
      BY <3>1, <2>1, Stays
    <3> QED BY <3>1, <3>2, <2>1 DEF LoginOf
  <2>3. Behind(job[q].cur)
    BY <2>1, <2>2, <1>0 DEF Imported
  <2>4. active' = active
    <3> SUFFICES ASSUME active' # active PROVE FALSE
      OBVIOUS
    <3>1. PICK n \in Slots : slot[n] = active'
      BY <2>1, Replaced
    <3> QED BY <3>1, <2>1, <2>2 DEF LoginOf
  <2> QED BY <2>1, <2>3, <2>4 DEF Behind
<1> QED BY <1>1, <1>2

LEMMA NewestStep ==
  ASSUME NEW p, Before(p), NewestKept, Versions', TypeOK'
  PROVE  NewestKept'
<1>0. /\ p \in Procs /\ TypeOK /\ Phase(p) /\ Place(p) /\ OnWindows(p) /\ Act(p)
      /\ pc \in [Procs -> Steps] /\ job \in [Procs -> Jobs] /\ slot \in [Slots -> File]
      /\ waived \subseteq waived' /\ backups \subseteq backups'
      /\ Covered(p) /\ Fresh(p)
  BY BeforeFacts, Roads
<1> SUFFICES ASSUME NEW l \in Logins, l \notin waived', issued'[l] > 0
             PROVE  [login |-> l, version |-> issued'[l]] \in Kept' \cup {active'} \cup InHand'
  BY DEF NewestKept
<1> DEFINE c == [login |-> l, version |-> issued'[l]]
<1>c. c.login = l /\ c.version = issued'[l]
  OBVIOUS
<1>1. CASE Login(p, l)
  <2>1. issued[l] = 0 /\ issued' = [issued EXCEPT ![l] = 1]
    BY <1>1, Zenon DEF Login
  <2>2. issued'[l] = 1
    BY <2>1, <1>0 DEF TypeOK
  <2>3. job'[p].cur = FirstOf(l) /\ FirstOf(l) = c
    BY <2>2, <1>0, <1>1, LoginLearns, NoneApart DEF FirstOf
  <2>4. pc'[p] \in {"save", "store"}
    BY <1>1, <1>0 DEF Login, Goto
  <2> HIDE DEF c
  <2>5. c \in InHand'
    BY <2>3, <2>4, <1>0 DEF InHand
  <2> QED BY <2>5 DEF c
<1>2. CASE ~ Login(p, l)
  <2>1. issued'[l] = issued[l] /\ issued[l] \in Nat
    BY <1>2, <1>0, IssuedGrows, AllTyped
  <2>2. c \in Kept \cup {active} \cup InHand
    BY <2>1, <1>0 DEF NewestKept
  <2> SUFFICES c \in Kept' \cup {active'} \cup InHand'
    BY DEF c
  <2> HIDE DEF c
  <2>3. ASSUME NEW n \in Slots, c = slot[n] PROVE c \in Kept'
    <3>1. Has(slot[n])
      <4>1. c # None
        <5>1. c \in [login : Logins, version : Nat]
          BY <2>1 DEF c
        <5> QED BY <5>1, NoneAssumption
      <4> QED BY <4>1, <2>3 DEF Has
    <3>2. /\ Has(slot'[n]) /\ slot'[n].login = l /\ issued'[l] <= slot'[n].version
      BY <3>1, <2>3, <1>c, Stays
    <3>3. slot'[n] \in Credentials
      BY <3>2 DEF TypeOK, File, Has
    <3>4. slot'[n].version <= issued'[l]
      BY <3>2 DEF Versions, Within
    <3>5. slot'[n].version = issued'[l]
      BY <3>2, <3>3, <3>4, <2>1, CredentialsTyped
    <3>6. slot'[n] = c
      BY <3>2, <3>3, <3>5, CredentialsTyped DEF c
    <3> QED BY <3>6 DEF Kept
  <2>4. CASE c \in Kept
    BY <2>3, <2>4, <1>0 DEF Kept
  <2>5. CASE c = active
    <3>1. Has(active) /\ active.login = l
      <4>1. c # None
        <5>1. c \in [login : Logins, version : Nat]
          BY <2>1 DEF c
        <5> QED BY <5>1, NoneAssumption
      <4> QED BY <4>1, <2>5, <1>c DEF Has
    <3>2. CASE active' = active
      BY <3>2, <2>5
    <3>3. CASE Activate(p)
      <4>1. pc[p] = "activate" /\ active' = job[p].cur /\ job[p].op \in Switching
        <5>1. /\ pc[p] = "activate" /\ active' = job[p].cur
              /\ job[p].op \in {"delete", "login"} =>
                  waived' = waived \cup LoginOf(active) \cup LoginOf(job[p].cur)
          BY <3>3 DEF Activate
        <5> QED BY <5>1, <3>1, <1>0 DEF Phase, LoginOf
      <4>2. provider # "windows grok"
        BY <4>1, <1>0 DEF Place, Windows
      <4>3. active \in Kept \cup {job[p].cur}
        BY <4>1, <4>2, <3>1, <1>0 DEF Covered
      <4> QED BY <4>1, <4>3, <2>4, <2>5
    <3>4. CASE ClearActive(p)
      BY <3>4, <3>1 DEF ClearActive, LoginOf
    <3>5. CASE WindowsActivate(p)
      <4>1. /\ pc[p] = "windowsActivate" /\ active' = job[p].cur
            /\ provider # "windows grok"
        BY <3>5 DEF WindowsActivate
      <4>2. active \in Kept \cup {job[p].cur}
        BY <4>1, <3>1, <1>0 DEF Covered, Phase, Switching
      <4> QED BY <4>1, <4>2, <2>4, <2>5
    <3>6. CASE WindowsGrokActivate(p)
      BY <3>6, <3>1 DEF WindowsGrokActivate, LoginOf
    <3> QED BY <1>0, <3>2, <3>3, <3>4, <3>5, <3>6, Roads
  <2>6. ASSUME NEW q \in Procs, pc[q] \in {"save", "store"}, c = job[q].cur
        PROVE  c \in Kept' \cup {active'} \cup InHand'
    <3>1. CASE q # p
      <4>1. pc'[q] = pc[q] /\ job'[q] = job[q]
        BY <3>1, <1>0, Frame
      <4> QED BY <4>1, <2>6 DEF InHand
    <3>2. CASE q = p
      <4>1. Save(p) \/ Store(p)
        BY <3>2, <2>6, <1>0, <1>c, Roads
      <4>2. job[p].name \in Slots
        BY <4>1, <1>0 DEF Save, Store, Phase
      <4>3. slot' = [slot EXCEPT ![job[p].name] = job[p].cur] \/ job[p].cur.login \in waived'
        BY <4>1 DEF Save, Store
      <4>4. slot'[job[p].name] = c
        BY <4>2, <4>3, <3>2, <2>6, <1>0, <1>c
      <4> QED BY <4>2, <4>4 DEF Kept
    <3> QED BY <3>1, <3>2
  <2>7. CASE c \in InHand
    BY <2>6, <2>7 DEF InHand
  <2> QED BY <2>2, <2>4, <2>5, <2>7
<1> QED BY <1>1, <1>2

LEMMA RefreshKeeps ==
  ASSUME KInv, Refresh
  PROVE  /\ Versions' /\ Unique' /\ Older' /\ NewestKept'
         /\ \A q \in Procs : Fresh(q)' /\ Synced(q)' /\ Chosen(q)' /\ Imported(q)'
<1>0. /\ TypeOK /\ Located /\ Versions /\ Unique /\ Older /\ NewestKept
      /\ \A q \in Procs : Fresh(q) /\ Synced(q) /\ Chosen(q) /\ Imported(q) /\ Phase(q)
  BY DEF KInv, IInv, Located
<1>1. /\ Has(active) /\ active \in Credentials
      /\ active' \in Credentials /\ active'.login = active.login
      /\ active.version = issued[active.login]
      /\ active'.version = issued[active.login] + 1
      /\ issued' = [issued EXCEPT ![active.login] = active.version + 1]
      /\ waived \subseteq waived'
  BY <1>0, RefreshTyped
<1>2. UNCHANGED <<slot, backups, pc, job>>
  BY Zenon DEF Refresh
<1>3. /\ active.login \in Logins /\ active.version \in Nat /\ Has(active')
      /\ active'.version = active.version + 1 /\ active.version <= active'.version
      /\ issued'[active.login] = active'.version
      /\ \A l \in Logins : l # active.login => issued'[l] = issued[l]
  BY <1>0, <1>1, CredentialsTyped DEF TypeOK
<1>4. Versions'
  <2>1. ASSUME NEW f \in File, Within(f, issued) PROVE Within(f, issued')
    <3> SUFFICES ASSUME Has(f) PROVE f.version <= issued'[f.login]
      BY DEF Within
    <3>1. f \in Credentials /\ f.version <= issued[f.login]
      BY <2>1 DEF Within, File, Has
    <3>2. f.login \in Logins /\ f.version \in Nat
      BY <3>1, CredentialsTyped
    <3> QED BY <3>1, <3>2, <1>1, <1>3
  <2>2. Within(active', issued')
    BY <1>1, <1>3 DEF Within
  <2>3. /\ (\A n \in Slots : slot[n] \in File)
        /\ (\A q \in Procs : job[q].cur \in File)
    BY <1>0, FilesTyped, JobsTyped
  <2>4. /\ \A n \in Slots : Within(slot[n], issued')
        /\ \A q \in Procs : Within(job[q].cur, issued')
    BY <2>1, <2>3, <1>0 DEF Versions
  <2> QED BY <2>2, <2>4, <1>2 DEF Versions
<1>5. Unique'
  BY <1>0, <1>1, <1>2 DEF Unique, Accounts
<1>6. ASSUME NEW f \in File, Has(f), Behind(f)
      PROVE  active'.login = f.login => f.version <= active'.version
  <2>1. f.version \in Nat
    BY <1>6, CredentialsTyped DEF File, Has
  <2> QED BY <2>1, <1>1, <1>3, <1>6 DEF Behind
<1>7. Older'
  <2>1. \A n \in Slots : slot[n] \in File
    BY <1>0, FilesTyped
  <2> QED BY <2>1, <1>0, <1>1, <1>2, <1>6 DEF Older, Accounts, Behind
<1>8. ASSUME NEW q \in Procs PROVE Fresh(q)' /\ Synced(q)' /\ Chosen(q)' /\ Imported(q)'
  <2>0. Fresh(q) /\ Synced(q) /\ Chosen(q) /\ Imported(q) /\ Phase(q)
    BY <1>0
  <2>1. Fresh(q)'
    <3> SUFFICES ASSUME pc[q] \in {"save", "store"} PROVE Fresh(q)'
      BY <1>2 DEF Fresh
    <3>1. job[q].cur \in Credentials /\ job[q].cur.login \in Logins
      BY <2>0, CredentialsTyped DEF Phase
    <3>2. job[q].cur.login # active.login
      BY <2>0, <1>1 DEF Fresh, LoginOf
    <3> QED BY <2>0, <3>1, <3>2, <1>1, <1>2, <1>3 DEF Fresh, LoginOf
  <2>2. Synced(q)'
    <3> SUFFICES ASSUME pc[q] \in Syncing PROVE Synced(q)'
      BY <1>2 DEF Synced
    <3>1. job[q].cur \in Credentials /\ job[q].cur \in File /\ Has(job[q].cur)
      BY <2>0, CredentialsTyped DEF Phase, File, Syncing
    <3> QED BY <2>0, <3>1, <1>1, <1>2, <1>6 DEF Synced, Behind
  <2>3. Chosen(q)'
    BY <2>0, <1>1, <1>2 DEF Chosen
  <2>4. Imported(q)'
    <3> SUFFICES ASSUME pc[q] = "import" PROVE Imported(q)'
      BY <1>2 DEF Imported
    <3>1. job[q].cur \in Credentials /\ job[q].cur \in File /\ Has(job[q].cur)
      BY <2>0, CredentialsTyped DEF Phase, File
    <3> QED BY <2>0, <3>1, <1>1, <1>2, <1>6 DEF Imported, Behind, LoginOf
  <2> QED BY <2>1, <2>2, <2>3, <2>4
<1>9. NewestKept'
  <2> SUFFICES ASSUME NEW l \in Logins, l \notin waived', issued'[l] > 0
               PROVE  [login |-> l, version |-> issued'[l]]
                        \in Kept' \cup {active'} \cup InHand'
    BY DEF NewestKept
  <2>1. CASE l = active.login
    <3>1. active' = [login |-> l, version |-> issued'[l]]
      BY <2>1, <1>1, <1>3, CredentialsTyped
    <3> QED BY <3>1
  <2>2. CASE l # active.login
    <3> DEFINE c == [login |-> l, version |-> issued'[l]]
    <3>1. issued'[l] = issued[l] /\ c.login = l
      BY <2>2, <1>3
    <3>2. c \in Kept \cup {active} \cup InHand
      BY <3>1, <1>0, <1>1 DEF NewestKept
    <3>3. Kept' = Kept /\ InHand' = InHand
      BY <1>2 DEF Kept, InHand
    <3> QED BY <2>2, <3>1, <3>2, <3>3
  <2> QED BY <2>1, <2>2
<1> QED BY <1>4, <1>5, <1>7, <1>8, <1>9

\* What a CLI refreshes survives switches, imports, deletes and logins, several at a
\* time and those cut short, and whatever e-mail addresses the logins show, unless
\* it was written over or lost in a way that NewestKept names.
THEOREM NewestSafe == Spec => []NewestKept
<1>1. Init => KInv
  <2> SUFFICES ASSUME Init PROVE KInv
    OBVIOUS
  <2>0. TypeOK /\ Located
    BY InitLocated
  <2>1. IInv
    BY <2>0 DEF IInv, Init, Owner, Covered, Syncing
  <2>2. /\ active = FirstOf(InUse) /\ (\A n \in Slots : slot[n] = FirstOf(Stored[n]))
        /\ InUse \in Logins \cup {None} /\ (\A n \in Slots : Stored[n] \in Logins \cup {None})
        /\ \A p \in Procs : pc[p] = "idle" /\ job[p] = NoJob
    BY FilesAssumption DEF Init
  <2>3. \A l \in Logins : FirstOf(l).login = l /\ FirstOf(l).version = 1 /\ Has(FirstOf(l))
    BY FirstIsCredentials
  <2>4. ~ Has(FirstOf(None))
    BY DEF FirstOf, Has
  <2>5. \A l \in Logins : issued[l] =
        IF l = InUse \/ \E n \in Slots : Stored[n] = l THEN 1 ELSE 0
    BY DEF Init
  <2>6. Versions
    <3>1. Within(active, issued) /\ \A n \in Slots : Within(slot[n], issued)
      BY <2>2, <2>3, <2>4, <2>5 DEF Within
    <3>2. \A p \in Procs : Within(job[p].cur, issued)
      BY <2>2 DEF Within, NoJob, Has
    <3> QED BY <3>1, <3>2 DEF Versions
  <2>7. Unique /\ Older
    <3>1. Older
      BY <2>2, <2>3, <2>4 DEF Older, Behind, Accounts
    <3>2. ASSUME NEW m \in Slots, NEW n \in Slots, Has(slot[m]), Has(slot[n]), m # n,
                 slot[m].login = slot[n].login
          PROVE  slot[n].login \in waived
      <4>1. Stored[m] = slot[n].login /\ Stored[n] = slot[n].login /\ Stored[n] \in Logins
        BY <3>2, <2>2, <2>3, <2>4
      <4> QED BY <4>1, <3>2 DEF Init, StoredTwice
    <3> QED BY <3>1, <3>2 DEF Unique, Accounts
  <2>8. \A p \in Procs : Fresh(p) /\ Synced(p) /\ Chosen(p) /\ Imported(p)
    BY <2>2 DEF Fresh, Synced, Chosen, Imported, Syncing
  <2>9. NewestKept
    <3> SUFFICES ASSUME NEW l \in Logins, issued[l] > 0
                 PROVE  [login |-> l, version |-> issued[l]] \in Kept \cup {active}
      BY DEF NewestKept
    <3>1. issued[l] = 1 /\ (l = InUse \/ \E n \in Slots : Stored[n] = l)
      BY <2>5
    <3>2. FirstOf(l) = [login |-> l, version |-> issued[l]]
      BY <3>1, NoneApart DEF FirstOf
    <3> QED BY <3>1, <3>2, <2>2 DEF Kept
  <2> QED BY <2>1, <2>6, <2>7, <2>8, <2>9 DEF KInv
<1>2. KInv /\ [Next]_vars => KInv'
  <2> SUFFICES ASSUME KInv, [Next]_vars PROVE KInv'
    OBVIOUS
  <2>0. /\ IInv /\ TypeOK /\ Located /\ Versions /\ NewestKept
        /\ \A q \in Procs : Fresh(q)
    BY DEF KInv, IInv
  <2>1. IInv' /\ TypeOK'
    <3>1. IInv'
      BY <2>0, StepKeeps
    <3> QED BY <3>1 DEF IInv
  <2>2. ASSUME NEW p \in Procs, Act(p) PROVE KInv'
    <3>1. Before(p)
      BY <2>2 DEF Before, KInv, IInv
    <3>2. Versions'
      BY <2>0, <2>2, VersionsStep DEF Located
    <3>3. Unique' /\ Older' /\ NewestKept'
      BY <3>1, <3>2, <2>0, <2>1, UniqueStep, OlderStep, NewestStep
    <3>4. \A q \in Procs : Fresh(q)'
      BY <2>0, <2>2, FreshStep
    <3>5. \A q \in Procs : Synced(q)' /\ Chosen(q)' /\ Imported(q)'
      BY <3>1, SyncedStep, ChosenStep, ImportedStep
    <3> QED BY <2>1, <3>2, <3>3, <3>4, <3>5 DEF KInv
  <2>3. CASE Refresh
    BY <2>1, <2>3, RefreshKeeps DEF KInv
  <2>4. CASE UNCHANGED vars
    <3>1. UNCHANGED <<active, slot, backups, pc, job, issued, waived>>
      BY <2>4, Zenon DEF vars, files
    <3>2. Versions' /\ Unique' /\ Older'
      BY <3>1 DEF KInv, Versions, Unique, Older, Accounts, Behind
    <3>3. NewestKept'
      BY <3>1 DEF KInv, NewestKept, Kept, InHand
    <3>4. \A q \in Procs : Fresh(q)' /\ Synced(q)' /\ Chosen(q)' /\ Imported(q)'
      BY <3>1 DEF KInv, Fresh, Synced, Chosen, Imported, Behind
    <3> QED BY <2>1, <3>2, <3>3, <3>4 DEF KInv
  <2> QED BY <2>2, <2>3, <2>4 DEF Next, Act
<1>3. KInv => NewestKept
  BY DEF KInv
<1> QED BY <1>1, <1>2, <1>3, PTL DEF Spec
================================================================================
