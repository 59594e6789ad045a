---------------------------- MODULE ClaudeShimProofs ----------------------------
(***************************************************************************)
(* That installs and uninstalls of the shim lose no Claude, keep one that  *)
(* works and succeed where there is one, for any number of versions and    *)
(* of commands that are killed half way.                                   *)
(*                                                                         *)
(* Each step of a command relies on what an earlier one has seen, though   *)
(* an installer may have come between (Seen, Ran), and on where the        *)
(* earlier commands can have left links (Links).                           *)
(***************************************************************************)
EXTENDS ClaudeShim, TLAPS

\* What the command that runs has seen to, or an installer has put there since.
Seen ==
  /\ pc \in {"backup", "preserve"} => Foreign
  /\ pc = "preserve" => ~Exists("real")
  /\ pc \in {"migrate", "link", "write", "remove", "restore"} =>
       ~Foreign \/ file["claude"] \in fresh
  /\ pc = "link" => Exists("real") \/ file["legacy"] = None
  /\ pc = "write" => Exists("real")
  /\ pc \in {"remove", "restore"} =>
       /\ cmd.from \in {"real", "legacy"}
       /\ cmd.from = "legacy" => file["real"] = None
       /\ Exists(cmd.from)

\* A link is made for want of a kept program, and to another one than the shim.
Links ==
  /\ file["legacy"] \in Versions \cup {None}
  /\ Linked \in {file["claude"], file["real"]} => file["legacy"] = None /\ elsewhere # Loop
  /\ file["claude"] = Linked => file["real"] = None

\* What the command is about to replace is still what claude ran.
Ran ==
  /\ pc = "idle" => fresh = {}
  /\ fresh = {} =>
       /\ pc \in {"inspect", "migrate", "check"} => ran = Program(ResolveClaudeBin)
       /\ pc = "link" /\ ~Exists("real") => ran = Program(ResolveClaudeBin)
       /\ pc \in {"remove", "restore"} => ran = Program(cmd.from)

IInv == TypeOK /\ Seen /\ Links /\ Ran

----------------------------------------------------------------------------
(* Types.                                                                   *)

\* Versions, wrappers, links and nothing are different things.
LEMMA Apart ==
  /\ None \notin Versions /\ None \notin Managed /\ None # Linked /\ None # Loop
  /\ Linked \notin Versions /\ Linked \notin Managed /\ Linked # Loop
  /\ Loop \notin Versions /\ Loop \notin Managed /\ Managed \cap Versions = {}
  /\ None \notin {"claude", "real", "legacy", "elsewhere"}
  /\ 0 \in Versions /\ 1 \in Versions /\ Shim \in Managed
<1>1. Versions \subseteq Nat /\ 0 \in Versions /\ 1 \in Versions
  BY BoundsAssumption DEF Versions
<1> QED BY <1>1, ContentsAssumption DEF Managed

\* The files one by one.
LEMMA FilesTyped ==
  ASSUME FilesOK
  PROVE  /\ file["claude"] \in Content /\ file["legacy"] \in Content
         /\ file["real"] \in Versions \cup {Linked, None}
         /\ "claude" \in Names /\ "real" \in Names /\ "legacy" \in Names
BY DEF FilesOK, Names, Content

\* Moving a file, taking it away and making it.
LEMMA FilesChange ==
  ASSUME FilesOK, NEW n \in Names, NEW m \in Names, NEW c \in Content
  PROVE  /\ [file EXCEPT ![n] = c] \in [Names -> Content]
         /\ [file EXCEPT ![n] = None] \in [Names -> Content]
         /\ [file EXCEPT ![m] = file[n], ![n] = None] \in [Names -> Content]
         /\ \A t \in Seconds : [backup EXCEPT ![t] = file[n]] \in [Seconds -> Content]
BY DEF FilesOK, Content

\* Every step keeps the kinds of files: what is kept beside claude is never a wrapper.
LEMMA FilesStep ==
  ASSUME TypeOK, Seen, Links, [Next]_vars
  PROVE  FilesOK'
<1>0. /\ FilesOK /\ "claude" \in Names /\ "real" \in Names /\ "legacy" \in Names
      /\ \A c : c \in Versions \/ c \in Managed \/ c \in {Linked, None} => c \in Content
      /\ DOMAIN file = Names
  BY DEF TypeOK, Names, Content, FilesOK
<1>1. updates \in Versions /\ (updates < MaxUpdates => updates + 1 \in Versions)
  BY BoundsAssumption DEF TypeOK, Versions
<1>2. ASSUME UNCHANGED <<file, backup, elsewhere, binFirst>> PROVE FilesOK'
  BY <1>0, <1>2 DEF FilesOK

<1>3. CASE BeginInstall
  BY <1>3, <1>2 DEF BeginInstall, Begin, others
<1>4. CASE BeginUninstall
  BY <1>4, <1>2 DEF BeginUninstall, Begin, others
<1>5. CASE Inspect
  BY <1>5, <1>2 DEF Inspect, Begin, others
<1>6. CASE BackUp
  BY <1>6, <1>0, <1>1, Apart, FilesChange DEF BackUp, FilesOK, others
<1>7. CASE Preserve
  <2>1. file["claude"] \notin Managed
    BY <1>7 DEF Preserve, Seen, Foreign
  <2>2. UNCHANGED file \/ Rename("claude", "real")
    BY <1>7 DEF Preserve
  <2>3. file' \in [Names -> Content] /\ file'["real"] \notin Managed
    BY <2>1, <2>2, <1>0, Apart, FilesChange DEF Rename, FilesOK
  <2> QED
    BY <1>7, <1>0, <2>3 DEF Preserve, others, FilesOK
<1>8. CASE Migrate
  <2>1. file["legacy"] \notin Managed
    BY Apart DEF Links
  <2>2. UNCHANGED file \/ Rename("legacy", "real")
    BY <1>8 DEF Migrate
  <2>3. file' \in [Names -> Content] /\ file'["real"] \notin Managed
    BY <2>1, <2>2, <1>0, Apart, FilesChange DEF Rename, FilesOK
  <2> QED
    BY <1>8, <1>0, <2>3 DEF Migrate, others, FilesOK
<1>9. CASE Link
  <2>1. UNCHANGED file \/ file' = [file EXCEPT !["real"] = Linked]
    BY <1>9 DEF Link
  <2>2. file' \in [Names -> Content] /\ file'["real"] \notin Managed
    BY <2>1, <1>0, Apart, FilesChange DEF FilesOK
  <2> QED
    BY <1>9, <1>0, <2>2 DEF Link, others, FilesOK
<1>10. CASE Write
  <2>1. file' \in [Names -> Content] /\ file'["real"] \notin Managed
    BY <1>10, <1>0, Apart, FilesChange DEF Write, FilesOK
  <2> QED
    BY <1>10, <1>0, <2>1 DEF Write, others, FilesOK
<1>11. CASE Check
  BY <1>11, <1>2 DEF Check, Begin, others
<1>12. CASE Remove
  <2>1. file' \in [Names -> Content] /\ file'["real"] \notin Managed
    BY <1>12, <1>0, Apart, FilesChange DEF Remove, FilesOK
  <2> QED
    BY <1>12, <1>0, <2>1 DEF Remove, others, FilesOK
<1>13. CASE Restore
  <2>1. cmd.from \in {"real", "legacy"}
    BY <1>13 DEF Restore, Seen
  <2>2. file' \in [Names -> Content]
    BY <1>13, <1>0, <2>1, FilesChange DEF Restore, Rename
  <2>3. file'["real"] \in {file["real"], None}
    BY <1>13, <1>0, <2>1, <2>2 DEF Restore, Rename
  <2>4. file'["real"] \notin Managed
    BY <1>0, <2>3, Apart DEF FilesOK
  <2> QED
    BY <1>13, <1>0, <2>2, <2>4 DEF Restore, others, FilesOK
<1>14. CASE Crash
  BY <1>14, <1>2 DEF Crash, Begin, others
<1>15. CASE Update
  <2>1. file' \in [Names -> Content] /\ file'["real"] \notin Managed
    BY <1>15, <1>0, <1>1, FilesChange DEF Update, FilesOK
  <2> QED
    BY <1>15, <1>0, <2>1 DEF Update, FilesOK
<1>16. CASE Elsewhere
  BY <1>16, <1>0 DEF Elsewhere, FilesOK
<1>17. CASE UNCHANGED vars
  BY <1>17, <1>2 DEF vars
<1> QED BY <1>3, <1>4, <1>5, <1>6, <1>7, <1>8, <1>9, <1>10, <1>11, <1>12, <1>13, <1>14,
  <1>15, <1>16, <1>17 DEF Next, Install, Uninstall

\* What claude runs is a version, nothing, or a wrapper of nothing.
LEMMA ResolveType ==
  ASSUME FilesOK
  PROVE  /\ ResolveClaudeBin \in {"claude", "real", "legacy", "elsewhere"}
         /\ Program(ResolveClaudeBin) \in Content \cup {Loop}
<1>1. ResolveClaudeBin \in {"claude", "real", "legacy", "elsewhere"}
  BY Apart DEF ResolveClaudeBin, LookPath, RealForShim
<1>2. \A n \in {"claude", "real", "legacy", "elsewhere"} :
        Program(n) \in Content \cup {Loop}
  BY FilesTyped, Apart DEF Program, FilesOK, Content, Names
<1> QED
  BY <1>1, <1>2

Command == [op : {"install", "uninstall", None}, force : BOOLEAN,
            from : {"real", "legacy", None}]

\* What commands are made of, and how an uninstall is told what to restore.
LEMMA CommandType ==
  /\ NoCommand \in Command
  /\ \A force \in BOOLEAN, op \in {"install", "uninstall"} :
       [op |-> op, force |-> force, from |-> None] \in Command
  /\ \A c \in Command, n \in {"real", "legacy", None} : [c EXCEPT !.from = n] \in Command
BY DEF NoCommand, Command

\* Every step keeps the types.
LEMMA TypeStep ==
  ASSUME TypeOK, Seen, Links, [Next]_vars
  PROVE  TypeOK'
<1> DEFINE Pcs == {"idle", "inspect", "backup", "preserve", "migrate", "link", "write",
                   "check", "remove", "restore"}
<1> DEFINE Rest == /\ pc \in Pcs /\ cmd \in Command /\ fresh \subseteq Versions
                   /\ ran \in Content \cup {Loop}
                   /\ updates \in 0..MaxUpdates /\ crashes \in 0..MaxCrashes
<1>0. FilesOK /\ Rest
  BY DEF TypeOK, Command
<1>1. Rest' /\ FilesOK' => TypeOK'
  BY DEF TypeOK, Command
<1>2. /\ NoCommand \in Command /\ "idle" \in Pcs
      /\ MaxUpdates \in Nat /\ MaxCrashes \in Nat
  BY CommandType, BoundsAssumption
<1>b. ASSUME NEW op \in {"install", "uninstall"}, NEW force \in BOOLEAN, NEW step \in Pcs,
             Begin(op, force, step)
      PROVE  Rest'
  BY <1>b, <1>0, ResolveType, CommandType DEF Begin, others

<1>3. ASSUME BeginInstall PROVE Rest'
  BY <1>3, <1>b DEF BeginInstall
<1>4. ASSUME BeginUninstall PROVE Rest'
  BY <1>4, <1>b DEF BeginUninstall
<1>5. ASSUME Inspect PROVE Rest'
  BY <1>5, <1>0, <1>2 DEF Inspect, End, others
<1>6. ASSUME BackUp PROVE Rest'
  BY <1>6, <1>0, <1>2 DEF BackUp, End, others
<1>7. ASSUME Preserve PROVE Rest'
  BY <1>7, <1>0, <1>2 DEF Preserve, End, others
<1>8. ASSUME Migrate PROVE Rest'
  BY <1>8, <1>0, <1>2 DEF Migrate, End, others
<1>9. ASSUME Link PROVE Rest'
  BY <1>9, <1>0, <1>2 DEF Link, End, others
<1>10. ASSUME Write PROVE Rest'
  BY <1>10, <1>0, <1>2 DEF Write, End, others
<1>11. ASSUME Check PROVE Rest'
  <2>1. RealForShim \in {"real", "legacy", None}
    BY DEF RealForShim
  <2>2. [cmd EXCEPT !.from = RealForShim] \in Command
    BY <1>0, <2>1, CommandType
  <2> QED
    BY <1>11, <1>0, <1>2, <2>2 DEF Check, End, others
<1>12. ASSUME Remove PROVE Rest'
  BY <1>12, <1>0, <1>2 DEF Remove, End, others
<1>13. ASSUME Restore PROVE Rest'
  BY <1>13, <1>0, <1>2 DEF Restore, End, others
<1>14. ASSUME Crash PROVE Rest'
  <2>1. crashes + 1 \in 0..MaxCrashes
    BY <1>14, <1>0, <1>2 DEF Crash
  <2> QED
    BY <1>14, <1>0, <1>2, <2>1 DEF Crash, End
<1>15. ASSUME Update PROVE Rest'
  <2>1. updates + 1 \in 0..MaxUpdates
    BY <1>15, <1>0, <1>2 DEF Update
  <2> QED
    BY <1>15, <1>0, <2>1 DEF Update, Versions
<1>16. ASSUME Elsewhere PROVE Rest'
  BY <1>16, <1>0 DEF Elsewhere
<1>17. ASSUME UNCHANGED vars PROVE Rest'
  BY <1>17, <1>0 DEF vars
<1> HIDE DEF Rest
<1> QED
  BY <1>1, <1>3, <1>4, <1>5, <1>6, <1>7, <1>8, <1>9, <1>10, <1>11, <1>12, <1>13,
    <1>14, <1>15, <1>16, <1>17, FilesStep DEF Next, Install, Uninstall

----------------------------------------------------------------------------
(* The invariant.                                                           *)

\* A link that a command makes leads to a program.
LEMMA LinkLeads ==
  ASSUME FilesOK, LookPath # None, ~SameFile(LookPath)
  PROVE  elsewhere = 0 /\ elsewhere # None /\ elsewhere # Loop
BY Apart DEF LookPath, SameFile, ExistsElsewhere

\* What a command has seen stays as it was, but for what an installer puts there.
LEMMA SeenStep ==
  ASSUME TypeOK, Seen, Links, [Next]_vars
  PROVE  Seen'
<1>0. /\ FilesOK /\ DOMAIN file = Names
      /\ "claude" \in Names /\ "real" \in Names /\ "legacy" \in Names
  BY FilesTyped DEF TypeOK, FilesOK
<1>1. ASSUME pc' \in {"idle", "inspect", "check"} PROVE Seen'
  BY <1>1 DEF Seen

<1>2. CASE BeginInstall
  BY <1>2, <1>1 DEF BeginInstall, Begin
<1>3. CASE BeginUninstall
  BY <1>3, <1>1 DEF BeginUninstall, Begin
<1>4. CASE Inspect
  BY <1>4, <1>1 DEF Inspect, End, others, Seen, Foreign, Exists
<1>5. CASE BackUp
  BY <1>5, <1>0 DEF BackUp, others, Seen, Foreign, Exists
<1>6. CASE Preserve
  <2>1. /\ file' = [file EXCEPT !["real"] = file["claude"], !["claude"] = None]
        /\ pc' = "link" /\ elsewhere' = elsewhere
    BY <1>6 DEF Preserve, Rename, others, Seen
  <2>2. file'["claude"] = None /\ file'["real"] = file["claude"]
    BY <1>0, <2>1
  <2>3. Exists("claude")
    BY <1>6 DEF Preserve, Seen, Foreign
  <2> QED
    BY <2>1, <2>2, <2>3 DEF Seen, Foreign, Exists
<1>7. CASE Migrate
  <2>1. /\ file'["claude"] = file["claude"]
        /\ Exists("real")' \/ file'["legacy"] = None
    BY <1>7, <1>0, Apart DEF Migrate, Rename, others, Exists, Links
  <2> QED
    BY <1>7, <2>1 DEF Migrate, others, Seen, Foreign, Exists
<1>8. CASE Link
  <2>1. CASE pc' = "idle"
    BY <2>1, <1>1
  <2>2. CASE pc' # "idle"
    <3>1. file'["claude"] = file["claude"] /\ Exists("real")' /\ pc' = "write"
      <4>1. CASE Exists("real")
        BY <1>8, <2>2, <4>1 DEF Link, End, others, Exists
      <4>2. CASE ~Exists("real")
        <5>1. /\ LookPath # None /\ ~SameFile(LookPath) /\ pc' = "write"
              /\ file' = [file EXCEPT !["real"] = Linked] /\ elsewhere' = elsewhere
          BY <1>8, <2>2, <4>2 DEF Link, End, others
        <5>2. elsewhere # None
          BY <1>0, <5>1, LinkLeads
        <5> QED
          BY <1>0, <5>1, <5>2, Apart DEF Exists
      <4> QED
        BY <4>1, <4>2
    <3> QED
      BY <1>8, <2>2, <3>1 DEF Link, End, others, Seen, Foreign, Exists
  <2> QED
    BY <2>1, <2>2
<1>9. CASE Write
  BY <1>9, <1>1 DEF Write, End
<1>10. CASE Check
  <2>1. CASE pc' = "idle"
    BY <2>1, <1>1
  <2>2. CASE pc' # "idle"
    <3>1. /\ UNCHANGED <<file, elsewhere>> /\ pc' = "remove"
          /\ file["claude"] \in Managed /\ cmd' = [cmd EXCEPT !.from = RealForShim]
          /\ RealForShim # None
      BY <1>10, <2>2 DEF Check, End, others
    <3>2. cmd'.from = RealForShim
      BY <3>1 DEF TypeOK
    <3>3. /\ RealForShim \in {"real", "legacy"}
          /\ RealForShim = "legacy" => ~Exists("real") /\ Exists("legacy")
          /\ Exists(RealForShim)
      BY <3>1 DEF RealForShim
    <3>4. RealForShim = "legacy" => file["real"] = None
      BY <3>3, <1>0, Apart DEF Exists, Links
    <3> QED
      BY <3>1, <3>2, <3>3, <3>4 DEF Seen, Foreign, Exists
  <2> QED
    BY <2>1, <2>2
<1>11. CASE Remove
  BY <1>11, <1>0, Apart DEF Remove, others, Seen, Foreign, Exists
<1>12. CASE Restore
  BY <1>12, <1>1 DEF Restore, End
<1>13. CASE Crash
  BY <1>13, <1>1 DEF Crash, End
<1>14. CASE Update
  <2>1. /\ file' = [file EXCEPT !["claude"] = updates + 1]
        /\ updates + 1 \in Versions /\ UNCHANGED <<pc, cmd, elsewhere>>
        /\ pc # "idle" => updates + 1 \in fresh'
    BY <1>14, BoundsAssumption DEF Update, Versions, TypeOK
  <2>2. /\ file'["claude"] = updates + 1 /\ file'["real"] = file["real"]
        /\ file'["legacy"] = file["legacy"]
    BY <1>0, <2>1
  <2>3. Foreign'
    BY <2>1, <2>2, Apart DEF Foreign, Exists
  <2> QED
    BY <2>1, <2>2, <2>3 DEF Seen, Exists
<1>15. CASE Elsewhere
  BY <1>15, <1>1 DEF Elsewhere
<1>16. CASE UNCHANGED vars
  BY <1>16 DEF vars, Seen, Foreign, Exists
<1> QED BY <1>2, <1>3, <1>4, <1>5, <1>6, <1>7, <1>8, <1>9, <1>10, <1>11, <1>12, <1>13,
  <1>14, <1>15, <1>16 DEF Next, Install, Uninstall

\* Links stay where they are of use.
LEMMA LinksStep ==
  ASSUME TypeOK, Seen, Links, [Next]_vars
  PROVE  Links'
<1>0. /\ FilesOK /\ DOMAIN file = Names
      /\ "claude" \in Names /\ "real" \in Names /\ "legacy" \in Names
  BY FilesTyped DEF TypeOK, FilesOK
<1>1. ASSUME UNCHANGED <<file, elsewhere>> PROVE Links'
  BY <1>1 DEF Links

<1>2. CASE BeginInstall
  BY <1>2, <1>1 DEF BeginInstall, Begin, End, others
<1>3. CASE BeginUninstall
  BY <1>3, <1>1 DEF BeginUninstall, Begin, End, others
<1>4. CASE Inspect
  BY <1>4, <1>1 DEF Inspect, Begin, End, others
<1>5. CASE BackUp
  BY <1>5, <1>0, Apart DEF BackUp, others, Links
<1>6. CASE Preserve
  <2>1. /\ file' = [file EXCEPT !["real"] = file["claude"], !["claude"] = None]
        /\ elsewhere' = elsewhere
    BY <1>6 DEF Preserve, Rename, others, Seen
  <2>2. /\ file'["claude"] = None /\ file'["real"] = file["claude"]
        /\ file'["legacy"] = file["legacy"]
    BY <1>0, <2>1
  <2> QED
    BY <2>1, <2>2, Apart DEF Links
<1>7. CASE Migrate
  <2>1. CASE ~Exists("real") /\ Exists("legacy")
    <3>1. /\ file'["claude"] = file["claude"] /\ file'["real"] = file["legacy"]
          /\ file'["legacy"] = None /\ elsewhere' = elsewhere
      BY <1>7, <1>0, <2>1 DEF Migrate, Rename, others
    <3>2. file["legacy"] \in Versions
      BY <2>1 DEF Links, Exists
    <3>3. Linked # file["claude"]
      BY <3>2, Apart DEF Links
    <3> QED
      BY <3>1, <3>2, <3>3, Apart DEF Links
  <2>2. CASE ~(~Exists("real") /\ Exists("legacy"))
    BY <1>7, <2>2, <1>1 DEF Migrate, others
  <2> QED
    BY <2>1, <2>2
<1>8. CASE Link
  <2>1. CASE UNCHANGED file
    BY <1>8, <2>1, <1>1 DEF Link, others
  <2>2. CASE ~UNCHANGED file
    <3>1. /\ ~Exists("real") /\ LookPath # None /\ ~SameFile(LookPath)
          /\ file["real"] = None /\ file' = [file EXCEPT !["real"] = Linked]
          /\ elsewhere' = elsewhere
      BY <1>8, <2>2 DEF Link, End, others
    <3>2. elsewhere # Loop /\ elsewhere # None
      BY <1>0, <3>1, LinkLeads
    <3>3. file["legacy"] = None
      BY <1>8, <3>1 DEF Link, Seen
    <3>4. file["claude"] # Linked
      <4>1. ~Foreign \/ file["claude"] \in Versions
        BY <1>8 DEF Link, Seen, TypeOK
      <4> QED
        BY <3>2, <4>1, Apart DEF Foreign, Exists
    <3> QED
      BY <1>0, <3>1, <3>2, <3>3, <3>4, Apart DEF Links
  <2> QED
    BY <2>1, <2>2
<1>9. CASE Write
  BY <1>9, <1>0, Apart DEF Write, others, Links
<1>10. CASE Check
  BY <1>10, <1>1 DEF Check, Begin, End, others
<1>11. CASE Remove
  BY <1>11, <1>0, Apart DEF Remove, others, Links
<1>12. CASE Restore
  <2>1. cmd.from \in {"real", "legacy"} /\ (cmd.from = "legacy" => file["real"] = None)
    BY <1>12 DEF Restore, Seen
  <2>2. /\ file' = [file EXCEPT !["claude"] = file[cmd.from], ![cmd.from] = None]
        /\ elsewhere' = elsewhere
    BY <1>12 DEF Restore, Rename, others
  <2>3. /\ file'["claude"] = file[cmd.from] /\ file'["real"] = None
        /\ file'["legacy"] \in {file["legacy"], None}
    BY <1>0, <2>1, <2>2
  <2> QED
    BY <2>1, <2>2, <2>3, Apart DEF Links
<1>13. CASE Crash
  BY <1>13, <1>1 DEF Crash, Begin, End, others
<1>14. CASE Update
  BY <1>14, <1>0, Apart, BoundsAssumption DEF Update, Links, Versions, TypeOK
<1>15. CASE Elsewhere
  BY <1>15, ContentsAssumption DEF Elsewhere, Links
<1>16. CASE UNCHANGED vars
  BY <1>16, <1>1 DEF vars
<1> QED BY <1>2, <1>3, <1>4, <1>5, <1>6, <1>7, <1>8, <1>9, <1>10, <1>11, <1>12, <1>13,
  <1>14, <1>15, <1>16 DEF Next, Install, Uninstall

\* What claude runs depends on the files and on the PATH alone.
LEMMA SameProgram ==
  ASSUME UNCHANGED <<file, elsewhere, binFirst>>
  PROVE  Program(ResolveClaudeBin)' = Program(ResolveClaudeBin)
BY DEF Program, ResolveClaudeBin, LookPath, ExistsElsewhere, RealForShim, Exists

\* Until an installer comes between, a command works on what claude ran.
LEMMA RanStep ==
  ASSUME TypeOK, Seen, Links, Ran, [Next]_vars
  PROVE  Ran'
<1>0. /\ FilesOK /\ DOMAIN file = Names
      /\ "claude" \in Names /\ "real" \in Names /\ "legacy" \in Names
  BY FilesTyped DEF TypeOK, FilesOK
<1>1. ASSUME pc' = "idle" /\ fresh' = {} PROVE Ran'
  BY <1>1 DEF Ran
<1>2. ASSUME UNCHANGED <<file, elsewhere, binFirst, pc, cmd, fresh, ran>> PROVE Ran'
  <2>1. Program(cmd.from)' = Program(cmd.from)
    BY <1>2 DEF Program
  <2>2. Exists("real")' = Exists("real")
    BY <1>2 DEF Exists
  <2> QED
    BY <1>2, <2>1, <2>2, SameProgram DEF Ran
<1>3. ASSUME pc' \notin {"idle", "inspect", "migrate", "check", "link", "remove", "restore"}
      PROVE  Ran'
  BY <1>3 DEF Ran

<1>4. CASE BeginInstall
  <2>1. /\ UNCHANGED <<file, elsewhere, binFirst, fresh>>
        /\ pc' \in {"inspect", "check"} /\ ran' = Program(ResolveClaudeBin)
    BY <1>4 DEF BeginInstall, Begin, others
  <2> QED
    BY <2>1, SameProgram DEF Ran
<1>5. CASE BeginUninstall
  <2>1. /\ UNCHANGED <<file, elsewhere, binFirst, fresh>>
        /\ pc' \in {"inspect", "check"} /\ ran' = Program(ResolveClaudeBin)
    BY <1>5 DEF BeginUninstall, Begin, others
  <2> QED
    BY <2>1, SameProgram DEF Ran
<1>6. CASE Inspect
  <2>1. /\ UNCHANGED <<file, elsewhere, binFirst, ran>>
        /\ \/ pc' = "idle" /\ fresh' = {}
           \/ pc' \in {"backup", "migrate"} /\ fresh' = fresh
    BY <1>6 DEF Inspect, End, others
  <2> QED
    BY <1>6, <2>1, SameProgram DEF Inspect, Ran
<1>7. CASE BackUp
  BY <1>7, <1>3 DEF BackUp
<1>8. CASE Preserve
  <2>1. /\ file' = [file EXCEPT !["real"] = file["claude"], !["claude"] = None]
        /\ pc' = "link" /\ UNCHANGED elsewhere /\ Exists("claude")
    BY <1>8 DEF Preserve, Rename, others, Seen, Foreign
  <2>2. Exists("real")'
    BY <1>0, <2>1 DEF Exists
  <2> QED
    BY <2>1, <2>2 DEF Ran
<1>9. CASE Migrate
  <2>1. CASE ~Exists("real") /\ Exists("legacy")
    <3>1. /\ file' = [file EXCEPT !["real"] = file["legacy"], !["legacy"] = None]
          /\ pc' = "link" /\ UNCHANGED elsewhere
      BY <1>9, <2>1 DEF Migrate, Rename, others
    <3>2. Exists("real")'
      BY <1>0, <2>1, <3>1 DEF Exists
    <3> QED
      BY <3>1, <3>2 DEF Ran
  <2>2. CASE ~(~Exists("real") /\ Exists("legacy"))
    <3>1. /\ UNCHANGED <<file, elsewhere, binFirst, fresh, ran>>
          /\ pc = "migrate" /\ pc' = "link"
      BY <1>9, <2>2 DEF Migrate, others
    <3> QED
      BY <3>1, SameProgram DEF Ran
  <2> QED
    BY <2>1, <2>2
<1>10. CASE Link
  BY <1>10, <1>1, <1>3 DEF Link, End
<1>11. CASE Write
  BY <1>11, <1>1 DEF Write, End
<1>12. CASE Check
  <2>1. CASE pc' = "idle"
    BY <1>12, <2>1, <1>1 DEF Check, End
  <2>2. CASE pc' # "idle"
    <3>1. /\ UNCHANGED <<file, elsewhere, binFirst, fresh, ran>>
          /\ pc = "check" /\ pc' = "remove" /\ cmd' = [cmd EXCEPT !.from = RealForShim]
          /\ Exists("claude") /\ file["claude"] \in Managed /\ RealForShim # None
      BY <1>12, <2>2 DEF Check, End, others
    <3>2. cmd'.from = RealForShim /\ ResolveClaudeBin = RealForShim
      BY <3>1 DEF TypeOK, ResolveClaudeBin
    <3>3. fresh' = {} => ran' = Program(RealForShim)
      BY <3>1, <3>2 DEF Ran
    <3>4. Program(cmd.from)' = Program(RealForShim)
      BY <3>1, <3>2 DEF Program
    <3> QED
      BY <3>1, <3>3, <3>4 DEF Ran
  <2> QED
    BY <2>1, <2>2
<1>13. CASE Remove
  <2>1. /\ file' = [file EXCEPT !["claude"] = None] /\ pc = "remove" /\ pc' = "restore"
        /\ UNCHANGED <<elsewhere, cmd, fresh, ran>> /\ cmd.from \in {"real", "legacy"}
    BY <1>13 DEF Remove, others, Seen
  <2>2. file'[cmd.from] = file[cmd.from]
    BY <1>0, <2>1
  <2>3. Program(cmd.from)' = Program(cmd.from)
    BY <2>1, <2>2 DEF Program
  <2> QED
    BY <2>1, <2>3 DEF Ran
<1>14. CASE Restore
  BY <1>14, <1>1 DEF Restore, End
<1>15. CASE Crash
  BY <1>15, <1>1 DEF Crash, End
<1>16. CASE Update
  <2>1. pc' = pc /\ fresh' = IF pc = "idle" THEN fresh ELSE fresh \cup {updates + 1}
    BY <1>16 DEF Update
  <2>2. CASE pc = "idle"
    BY <1>1, <2>1, <2>2 DEF Ran
  <2>3. CASE pc # "idle"
    BY <2>1, <2>3 DEF Ran
  <2> QED
    BY <2>2, <2>3
<1>17. CASE Elsewhere
  BY <1>17, <1>1 DEF Elsewhere, Ran
<1>18. CASE UNCHANGED vars
  BY <1>18, <1>2 DEF vars
<1> QED BY <1>4, <1>5, <1>6, <1>7, <1>8, <1>9, <1>10, <1>11, <1>12, <1>13, <1>14, <1>15,
  <1>16, <1>17, <1>18 DEF Next, Install, Uninstall

\* Everything the promises rest on holds at first ...
LEMMA InitIInv == ASSUME Init PROVE IInv
<1>1. 1 \in Versions /\ 0 \in Versions /\ 1 \in 0..MaxUpdates /\ 0 \in 0..MaxCrashes
  BY BoundsAssumption DEF Versions
<1>2. FilesOK
  <2>1. file \in [Names -> Content] /\ file["real"] \notin Managed
    BY <1>1, Apart DEF Init, Names, Content, Managed
  <2> QED
    BY <2>1 DEF Init, FilesOK, Content
<1>3. TypeOK
  BY <1>1, <1>2, CommandType DEF Init, TypeOK, Command, Content
<1>4. Seen /\ Ran
  BY DEF Init, Seen, Ran
<1>5. Links
  BY <1>1, Apart DEF Init, Links, Managed
<1> QED
  BY <1>3, <1>4, <1>5 DEF IInv

\* ... and for ever.
THEOREM Invariant == Spec => []IInv
<1>1. Init => IInv
  BY InitIInv
<1>2. IInv /\ [Next]_vars => IInv'
  BY TypeStep, SeenStep, LinksStep, RanStep DEF IInv
<1> QED
  BY <1>1, <1>2, PTL DEF Spec

\* Every variable keeps its type: what is kept beside claude is never a wrapper.
THEOREM TypeCorrect == Spec => []TypeOK
<1>1. IInv => TypeOK
  BY DEF IInv
<1> QED
  BY <1>1, Invariant, PTL

----------------------------------------------------------------------------
(* The promises.                                                            *)

\* Each file and each backup counts.
LEMMA KeptFiles ==
  ASSUME FilesOK, FilesOK', NEW c,
         \/ \E n \in Names : file'[n] = c
         \/ \E t \in Seconds : backup'[t] = c
  PROVE  c \in Kept'
BY DEF Kept

\* One step of a command loses no Claude.
LEMMA NothingLostStep ==
  ASSUME TypeOK, Seen, Links, TypeOK', [Next]_vars, updates' = updates
  PROVE  Kept \cap Versions \subseteq Kept' \cup fresh \cup Overwritten
<1>0. /\ FilesOK /\ FilesOK' /\ DOMAIN file = Names /\ updates \in Versions
      /\ "claude" \in Names /\ "real" \in Names /\ "legacy" \in Names
  BY FilesTyped DEF TypeOK, FilesOK, Versions
<1> DEFINE Goal == Kept \cap Versions \subseteq Kept' \cup fresh \cup Overwritten
<1>1. ASSUME UNCHANGED <<file, backup>> PROVE Goal
  BY <1>1 DEF Kept
\* It is enough to look at the files and the backups that the step overwrites.
<1>2. ASSUME \A n \in Names : file[n] \in Versions =>
               file[n] \in fresh \/ \E m \in Names : file'[m] = file[n],
             backup' = backup
      PROVE  Goal
  BY <1>2, <1>0, KeptFiles DEF Kept
<1>3. \A n \in Names : n \in {"claude", "real", "legacy"}
  BY DEF Names
<1>4. ASSUME pc \in {"write", "remove", "restore"}
      PROVE  file["claude"] \in Versions => file["claude"] \in fresh
  BY <1>4, Apart DEF Seen, Foreign, Exists

<1>5. ASSUME BeginInstall PROVE Goal
  BY <1>5, <1>1 DEF BeginInstall, Begin, others
<1>6. ASSUME BeginUninstall PROVE Goal
  BY <1>6, <1>1 DEF BeginUninstall, Begin, others
<1>7. ASSUME Inspect PROVE Goal
  BY <1>7, <1>1 DEF Inspect, Begin, others
<1>8. ASSUME BackUp PROVE Goal
  <2>1. CASE UNCHANGED <<file, backup>>
    BY <2>1, <1>1
  <2>2. CASE ~UNCHANGED <<file, backup>>
    <3>1. PICK u \in Seconds : backup' = [backup EXCEPT ![u] = file["real"]]
      BY <1>8, <2>2 DEF BackUp
    <3>2. file' = [file EXCEPT !["real"] = None]
      BY <1>8, <2>2 DEF BackUp
    <3>3. \A n \in Names : file[n] \in Kept'
      <4>1. /\ file'["claude"] = file["claude"] /\ file'["legacy"] = file["legacy"]
            /\ backup'[u] = file["real"]
        BY <1>0, <3>1, <3>2 DEF FilesOK
      <4> QED
        BY <1>0, <1>3, <4>1, KeptFiles
    <3>4. \A t \in Seconds : backup[t] \in Kept' \cup Overwritten
      <4>1. \A t \in Seconds : backup'[t] = backup[t] \/ backup'[t] # backup[t]
        OBVIOUS
      <4> QED
        BY <1>0, <4>1, KeptFiles DEF Overwritten
    <3> QED
      BY <3>3, <3>4 DEF Kept
  <2> QED
    BY <2>1, <2>2
<1>9. ASSUME Preserve PROVE Goal
  <2>1. CASE UNCHANGED file
    BY <1>9, <2>1, <1>1 DEF Preserve, others
  <2>2. CASE ~UNCHANGED file
    <3>1. /\ file' = [file EXCEPT !["real"] = file["claude"], !["claude"] = None]
          /\ backup' = backup /\ ~Exists("real")
      BY <1>9, <2>2 DEF Preserve, Rename, others
    <3>2. file["real"] \notin Versions
      BY <3>1, Apart DEF Exists
    <3>3. /\ file'["real"] = file["claude"]
          /\ \A n \in Names \ {"real", "claude"} : file'[n] = file[n]
      BY <1>0, <3>1
    <3> QED
      BY <1>0, <1>2, <3>1, <3>2, <3>3
  <2> QED
    BY <2>1, <2>2
<1>10. ASSUME Migrate PROVE Goal
  <2>1. CASE UNCHANGED file
    BY <1>10, <2>1, <1>1 DEF Migrate, others
  <2>2. CASE ~UNCHANGED file
    <3>1. /\ file' = [file EXCEPT !["real"] = file["legacy"], !["legacy"] = None]
          /\ backup' = backup /\ ~Exists("real")
      BY <1>10, <2>2 DEF Migrate, Rename, others
    <3>2. file["real"] \notin Versions
      BY <3>1, Apart DEF Exists
    <3>3. /\ file'["real"] = file["legacy"]
          /\ \A n \in Names \ {"real", "legacy"} : file'[n] = file[n]
      BY <1>0, <3>1
    <3> QED
      BY <1>0, <1>2, <3>1, <3>2, <3>3
  <2> QED
    BY <2>1, <2>2
<1>11. ASSUME Link PROVE Goal
  <2>1. CASE UNCHANGED file
    BY <1>11, <2>1, <1>1 DEF Link, others
  <2>2. CASE ~UNCHANGED file
    <3>1. /\ file' = [file EXCEPT !["real"] = Linked] /\ backup' = backup
          /\ file["real"] = None
      BY <1>11, <2>2 DEF Link, End, others
    <3>2. \A n \in Names \ {"real"} : file'[n] = file[n]
      BY <1>0, <3>1
    <3> QED
      BY <1>0, <1>2, <3>1, <3>2, Apart
  <2> QED
    BY <2>1, <2>2
<1>12. ASSUME Write PROVE Goal
  <2>1. \A n \in Names \ {"claude"} : file'[n] = file[n]
    BY <1>12, <1>0 DEF Write
  <2>2. file["claude"] \in Versions => file["claude"] \in fresh
    BY <1>12, <1>4 DEF Write
  <2> QED
    BY <1>12, <1>2, <2>1, <2>2 DEF Write, others
<1>13. ASSUME Check PROVE Goal
  BY <1>13, <1>1 DEF Check, Begin, others
<1>14. ASSUME Remove PROVE Goal
  <2>1. \A n \in Names \ {"claude"} : file'[n] = file[n]
    BY <1>14, <1>0 DEF Remove
  <2>2. file["claude"] \in Versions => file["claude"] \in fresh
    BY <1>14, <1>4 DEF Remove
  <2> QED
    BY <1>14, <1>2, <2>1, <2>2 DEF Remove, others
<1>15. ASSUME Restore PROVE Goal
  <2>1. cmd.from \in Names /\ cmd.from # "claude"
    BY <1>15, <1>0 DEF Restore, Seen
  <2>2. /\ file' = [file EXCEPT !["claude"] = file[cmd.from], ![cmd.from] = None]
        /\ backup' = backup
    BY <1>15 DEF Restore, Rename, others
  <2>3. /\ file'["claude"] = file[cmd.from]
        /\ \A n \in Names \ {"claude", cmd.from} : file'[n] = file[n]
    BY <1>0, <2>1, <2>2
  <2>4. file["claude"] \in Versions => file["claude"] \in fresh
    BY <1>15, <1>4 DEF Restore
  <2> QED
    BY <1>0, <1>2, <2>2, <2>3, <2>4
<1>16. ASSUME Crash PROVE Goal
  BY <1>16, <1>1 DEF Crash, Begin, others
<1>17. ASSUME Update PROVE Goal
  BY <1>17, BoundsAssumption DEF Update, TypeOK
<1>18. ASSUME Elsewhere PROVE Goal
  BY <1>18, <1>1 DEF Elsewhere
<1>19. ASSUME UNCHANGED vars PROVE Goal
  BY <1>19, <1>1 DEF vars
<1> QED BY <1>5, <1>6, <1>7, <1>8, <1>9, <1>10, <1>11, <1>12, <1>13, <1>14, <1>15,
  <1>16, <1>17, <1>18, <1>19 DEF Next, Install, Uninstall

\* No crash, and nothing else a command does, loses a Claude that was there before it
\* began, but for a backup that another one of the same second overwrites.
THEOREM LosesNothing == Spec => NothingLost
<1>1. IInv /\ IInv' /\ [Next]_vars =>
        [updates' = updates => Kept \cap Versions \subseteq Kept' \cup fresh \cup Overwritten]_vars
  BY NothingLostStep DEF IInv
<1> QED
  BY <1>1, Invariant, PTL DEF Spec, NothingLost

\* A wrapper has something to run.
Backed == file["claude"] \in Managed => RealForShim # None

\* Where there is no claude another one is on the PATH, or one is kept.
Found == Exists("claude") \/ elsewhere = 0 \/ RealForShim # None

\* agemux finds a program where a wrapper has one, or where there is another claude.
LEMMA WorksIff ==
  TypeOK /\ Links => (Works <=> Backed /\ (Exists("claude") \/ elsewhere = 0))
<1> SUFFICES ASSUME TypeOK, Links
             PROVE  Works <=> Backed /\ (Exists("claude") \/ elsewhere = 0)
  OBVIOUS
<1>0. FilesOK /\ "claude" \in Names /\ "real" \in Names /\ "legacy" \in Names
  BY FilesTyped DEF TypeOK
<1>e. elsewhere \notin Managed /\ \A c \in Versions : c \notin Managed /\ c # Loop /\ c # None
  BY <1>0, Apart DEF FilesOK
<1>1. CASE file["claude"] \in Managed
  <2>1. Exists("claude")
    BY <1>1, Apart DEF Exists
  <2>2. CASE RealForShim = None
    <3>1. ResolveClaudeBin = "claude"
      BY <2>2, <2>1 DEF ResolveClaudeBin
    <3>2. Program("claude") = Loop
      BY <1>0, <1>1, Apart DEF Program
    <3> QED
      BY <1>1, <2>2, <3>1, <3>2 DEF Works, Backed
  <2>3. CASE RealForShim # None
    <3>1. ResolveClaudeBin = RealForShim
      BY <1>1, <2>1, <2>3 DEF ResolveClaudeBin
    <3>2. RealForShim \in {"real", "legacy"} /\ Exists(RealForShim)
      BY <2>3 DEF RealForShim
    <3>3. \A n \in {"real", "legacy"} : Exists(n) => Program(n) \notin {None, Loop}
      BY <1>0, <1>e, FilesTyped, Apart DEF Program, Links, Exists
    <3> QED
      BY <2>1, <2>3, <3>1, <3>2, <3>3 DEF Works, Backed
  <2> QED
    BY <2>2, <2>3
<1>2. CASE file["claude"] \notin Managed
  <2>1. CASE Exists("claude")
    <3>1. ResolveClaudeBin = "claude"
      BY <1>2, <2>1 DEF ResolveClaudeBin
    <3>2. file["claude"] \in Versions \cup {Linked}
      BY <1>0, <1>2, <2>1, FilesTyped DEF Exists, Content
    <3>3. Program("claude") \notin {None, Loop}
      BY <1>0, <1>e, <2>1, <3>2, Apart DEF Program, Links, Exists
    <3> QED
      BY <1>2, <2>1, <3>1, <3>3 DEF Works, Backed
  <2>2. CASE ~Exists("claude")
    <3>1. file["claude"] = None \/ (file["claude"] = Linked /\ elsewhere = None)
      BY <2>2 DEF Exists
    <3>2. ResolveClaudeBin = IF elsewhere = 0 THEN "elsewhere" ELSE "claude"
      BY <2>2, Apart DEF ResolveClaudeBin, LookPath, ExistsElsewhere
    <3>3. Program("claude") = None /\ (elsewhere = 0 => Program("elsewhere") = 0)
      BY <1>0, <3>1, Apart DEF Program
    <3> QED
      BY <1>2, <2>2, <3>2, <3>3, Apart DEF Works, Backed
  <2> QED
    BY <2>1, <2>2
<1> QED
  BY <1>1, <1>2

\* Whoever has a claude that works, or one that is kept, is in this state.
LEMMA SoundIff == TypeOK /\ Links => (Works \/ Aside <=> Backed /\ Found)
<1>1. TypeOK /\ Aside => Backed
  BY Apart DEF Aside, Backed, Exists
<1> QED
  BY <1>1, WorksIff DEF Aside, Found

\* What a wrapper runs is there before the wrapper is, and as long; a claude is gone
\* only between two moves of a command, and then one is kept.
LEMMA SoundStep ==
  ASSUME TypeOK, Seen, Links, [Next]_vars, elsewhere' = elsewhere, Backed, Found
  PROVE  /\ Backed' /\ Found'
         /\ Exists("claude") => Exists("claude")' \/ pc' \in {"link", "restore"}
<1> DEFINE Goal == /\ Backed' /\ Found'
                   /\ Exists("claude") => Exists("claude")' \/ pc' \in {"link", "restore"}
<1>0. /\ FilesOK /\ DOMAIN file = Names
      /\ "claude" \in Names /\ "real" \in Names /\ "legacy" \in Names
  BY FilesTyped DEF TypeOK, FilesOK
<1>1. ASSUME UNCHANGED file PROVE Goal
  BY <1>1 DEF Backed, Found, RealForShim, Exists
\* A program is put in the place of claude.
<1>2. ASSUME file'["claude"] \notin Managed, Exists("claude")' PROVE Goal
  BY <1>2 DEF Backed, Found
\* A program is kept while claude is changed.
<1>3. ASSUME Exists("real")' \/ Exists("legacy")',
             \/ file'["claude"] = file["claude"]
             \/ Exists("claude")'
             \/ pc' \in {"link", "restore"}
      PROVE  Goal
  BY <1>3, Apart DEF Backed, Found, RealForShim, Exists

<1>4. CASE BeginInstall
  BY <1>4, <1>1 DEF BeginInstall, Begin, others
<1>5. CASE BeginUninstall
  BY <1>5, <1>1 DEF BeginUninstall, Begin, others
<1>6. CASE Inspect
  BY <1>6, <1>1 DEF Inspect, Begin, others
<1>7. CASE BackUp
  <2>1. file'["claude"] = file["claude"]
    BY <1>7, <1>0 DEF BackUp
  <2> QED
    BY <1>7, <2>1, <1>2 DEF BackUp, Seen, Foreign, Exists
<1>8. CASE Preserve
  <2>1. file' = [file EXCEPT !["real"] = file["claude"], !["claude"] = None]
    BY <1>8 DEF Preserve, Rename, Seen
  <2>2. Exists("claude") /\ pc' = "link"
    BY <1>8 DEF Preserve, Seen, Foreign
  <2>3. Exists("real")'
    BY <1>0, <2>1, <2>2 DEF Exists
  <2> QED
    BY <2>2, <2>3, <1>3
<1>9. CASE Migrate
  <2>1. CASE UNCHANGED file
    BY <2>1, <1>1
  <2>2. CASE ~UNCHANGED file
    <3>1. /\ file' = [file EXCEPT !["real"] = file["legacy"], !["legacy"] = None]
          /\ Exists("legacy")
      BY <1>9, <2>2 DEF Migrate, Rename
    <3>2. Exists("real")' /\ file'["claude"] = file["claude"]
      BY <1>0, <3>1 DEF Exists
    <3> QED
      BY <3>2, <1>3
  <2> QED
    BY <2>1, <2>2
<1>10. CASE Link
  <2>1. CASE UNCHANGED file
    BY <2>1, <1>1
  <2>2. CASE ~UNCHANGED file
    <3>1. /\ file' = [file EXCEPT !["real"] = Linked]
          /\ LookPath # None /\ ~SameFile(LookPath)
      BY <1>10, <2>2 DEF Link, End
    <3>2. Exists("real")' /\ file'["claude"] = file["claude"]
      BY <1>0, <3>1, LinkLeads, Apart DEF Exists
    <3> QED
      BY <3>2, <1>3
  <2> QED
    BY <2>1, <2>2
<1>11. CASE Write
  <2>1. file'["real"] = file["real"] /\ Exists("real") /\ file'["claude"] = Shim
    BY <1>11, <1>0 DEF Write, Seen
  <2> QED
    BY <2>1, <1>3, Apart DEF Exists
<1>12. CASE Check
  BY <1>12, <1>1 DEF Check, Begin, others
<1>13. CASE Remove
  <2>1. cmd.from \in {"real", "legacy"} /\ Exists(cmd.from) /\ pc' = "restore"
    BY <1>13 DEF Remove, Seen
  <2>2. file'["real"] = file["real"] /\ file'["legacy"] = file["legacy"]
    BY <1>13, <1>0 DEF Remove
  <2> QED
    BY <2>1, <2>2, <1>3 DEF Exists
<1>14. CASE Restore
  <2>1. cmd.from \in {"real", "legacy"} /\ Exists(cmd.from)
    BY <1>14 DEF Restore, Seen
  <2>2. file'["claude"] = file[cmd.from]
    BY <1>14, <1>0, <2>1 DEF Restore, Rename
  <2>3. file["real"] \notin Managed /\ file["legacy"] \notin Managed
    BY <1>0, Apart DEF FilesOK, Links
  <2> QED
    BY <2>1, <2>2, <2>3, <1>2 DEF Exists
<1>15. CASE Crash
  BY <1>15, <1>1 DEF Crash, Begin, others
<1>16. CASE Update
  <2>1. file'["claude"] = updates + 1 /\ updates + 1 \in Versions
    BY <1>16, <1>0, BoundsAssumption DEF Update, TypeOK, Versions
  <2> QED
    BY <2>1, <1>2, Apart DEF Exists
<1>17. CASE Elsewhere
  BY <1>17, ContentsAssumption DEF Elsewhere
<1>18. CASE UNCHANGED vars
  BY <1>18, <1>1 DEF vars
<1> QED BY <1>4, <1>5, <1>6, <1>7, <1>8, <1>9, <1>10, <1>11, <1>12, <1>13, <1>14, <1>15,
  <1>16, <1>17, <1>18 DEF Next, Install, Uninstall

\* What an uninstall puts back is what claude ran when it began.
LEMMA Restored ==
  ASSUME TypeOK, Seen, Ran, [Next]_vars,
         pc = "restore", pc' = "idle", crashes' = crashes, fresh = {}
  PROVE  Program("claude")' = ran
<1>0. /\ FilesOK /\ DOMAIN file = Names /\ "claude" \in Names
  BY FilesTyped DEF TypeOK, FilesOK
<1>1. Restore
  <2>1. ~Crash
    BY DEF Crash, TypeOK
  <2>2. pc' # pc
    OBVIOUS
  <2> QED
    BY <2>1, <2>2 DEF Next, Install, Uninstall, BeginInstall, BeginUninstall, Begin, Inspect,
      BackUp, Preserve, Migrate, Link, Write, Check, Remove, Update, Elsewhere, vars
<1>2. cmd.from \in {"real", "legacy"} /\ cmd.from \in Names
  BY DEF Seen, Names
<1>3. file'["claude"] = file[cmd.from] /\ elsewhere' = elsewhere
  BY <1>0, <1>1, <1>2 DEF Restore, Rename, others
<1>4. Program("claude")' = Program(cmd.from)
  BY <1>0, <1>2, <1>3 DEF Program
<1> QED
  BY <1>4 DEF Ran

\* A command that is not killed, and found a claude that works, leaves one.
LEMMA EndsWell ==
  ASSUME TypeOK, Seen, Links, Ran, Links', TypeOK', [Next]_vars,
         pc # "idle", pc' = "idle", crashes' = crashes, fresh = {}, ran \notin {None, Loop}
  PROVE  Backed' /\ (Exists("claude") \/ elsewhere = 0)'
<1>0. /\ FilesOK /\ DOMAIN file = Names
      /\ "claude" \in Names /\ "real" \in Names /\ "legacy" \in Names
  BY FilesTyped DEF TypeOK, FilesOK
<1>1. Inspect \/ Link \/ Write \/ Check \/ Restore
  <2>1. ~Crash
    BY DEF Crash, TypeOK
  <2> QED
    BY <2>1 DEF Next, Install, Uninstall, BeginInstall, BeginUninstall, Begin, BackUp,
      Preserve, Migrate, Remove, Update, Elsewhere, vars
<1>2. ASSUME UNCHANGED <<file, elsewhere>>, ran = Program(ResolveClaudeBin)
      PROVE  Backed' /\ (Exists("claude") \/ elsewhere = 0)'
  <2>1. Backed /\ (Exists("claude") \/ elsewhere = 0)
    BY <1>2, WorksIff DEF Works
  <2> QED
    BY <1>2, <2>1 DEF Backed, RealForShim, Exists
<1>3. CASE Inspect
  BY <1>3, <1>2 DEF Inspect, Ran, others
<1>4. CASE Link
  <2>1. UNCHANGED <<file, elsewhere>> /\ ~Exists("real") /\ pc = "link"
    BY <1>4 DEF Link, End, others
  <2> QED
    BY <2>1, <1>2 DEF Ran
<1>5. CASE Write
  <2>1. file'["real"] = file["real"] /\ Exists("real") /\ file'["claude"] = Shim
    BY <1>5, <1>0 DEF Write, Seen
  <2>2. elsewhere' = elsewhere
    BY <1>5 DEF Write, others
  <2>3. Exists("real")' /\ Exists("claude")'
    BY <2>1, <2>2, Apart DEF Exists
  <2> QED
    BY <2>3, Apart DEF Backed, RealForShim
<1>6. CASE Check
  BY <1>6, <1>2 DEF Check, Ran, others
<1>7. CASE Restore
  <2>1. cmd.from \in {"real", "legacy"} /\ Exists(cmd.from)
    BY <1>7 DEF Restore, Seen
  <2>2. file'["claude"] = file[cmd.from] /\ elsewhere' = elsewhere
    BY <1>7, <1>0, <2>1 DEF Restore, Rename, others
  <2>3. file["real"] \notin Managed /\ file["legacy"] \notin Managed
    BY <1>0, Apart DEF FilesOK, Links
  <2> QED
    BY <2>1, <2>2, <2>3 DEF Exists, Backed
<1> QED
  BY <1>1, <1>3, <1>4, <1>5, <1>6, <1>7

\* A claude that works goes on working but for the gap between two moves of a command,
\* when one is kept; a command that is not killed leaves one that works, and an
\* uninstall what was run before.
THEOREM ClaudeKept == Spec => KeepsClaude
<1> DEFINE
  Safe == elsewhere' = elsewhere /\ (Works \/ Aside) => Works' \/ Aside'
  Gap == elsewhere' = elsewhere /\ Works /\ ~Works' => pc' \in {"link", "restore"}
  Over == (/\ pc # "idle" /\ pc' = "idle" /\ crashes' = crashes /\ fresh = {}
           /\ ran \notin {None, Loop}) => Works'
  Back == pc = "restore" /\ pc' = "idle" /\ crashes' = crashes /\ fresh = {} =>
            Program("claude")' = ran
<1>1. (TypeOK /\ Links)' => (Works <=> Backed /\ (Exists("claude") \/ elsewhere = 0))'
  BY WorksIff, PTL
<1>2. (TypeOK /\ Links)' => (Works \/ Aside <=> Backed /\ Found)'
  BY SoundIff, PTL
<1>3. ASSUME IInv, IInv', [Next]_vars PROVE Safe /\ Gap /\ Over /\ Back
  <2>1. Safe
    BY <1>2, <1>3, SoundIff, SoundStep DEF IInv
  <2>2. Gap
    <3> SUFFICES ASSUME elsewhere' = elsewhere, Works, ~Works'
                 PROVE  pc' \in {"link", "restore"}
      OBVIOUS
    <3>1. Backed /\ Found /\ (Exists("claude") \/ elsewhere = 0)
      BY <1>3, WorksIff, SoundIff DEF IInv
    <3>2. /\ Backed'
          /\ Exists("claude") => Exists("claude")' \/ pc' \in {"link", "restore"}
      BY <1>3, <3>1, SoundStep DEF IInv
    <3>3. ~Exists("claude")' /\ elsewhere # 0
      BY <1>1, <1>3, <3>2 DEF IInv
    <3> QED
      BY <3>1, <3>2, <3>3
  <2>3. Over
    BY <1>1, <1>3, EndsWell DEF IInv
  <2>4. Back
    BY <1>3, Restored DEF IInv
  <2> QED
    BY <2>1, <2>2, <2>3, <2>4
<1>4. IInv /\ IInv' /\ [Next]_vars => [Safe /\ Gap /\ Over /\ Back]_vars
  BY <1>3
<1>5. [Safe /\ Gap /\ Over /\ Back]_vars =>
        [/\ elsewhere' = elsewhere /\ (Works \/ Aside) => Works' \/ Aside'
         /\ elsewhere' = elsewhere /\ Works /\ ~Works' => pc' \in {"link", "restore"}
         /\ (/\ pc # "idle" /\ pc' = "idle" /\ crashes' = crashes /\ fresh = {}
             /\ ran \notin {None, Loop}) => Works'
         /\ pc = "restore" /\ pc' = "idle" /\ crashes' = crashes /\ fresh = {} =>
              Program("claude")' = ran]_vars
  OBVIOUS
<1> HIDE DEF Safe, Gap, Over, Back
<1> QED
  BY <1>4, <1>5, Invariant, PTL DEF Spec, KeepsClaude

\* A forced install that gives up has found nothing to run.
LEMMA GivesUp ==
  ASSUME TypeOK, Seen, Links, Ran, [Next]_vars,
         pc \in {"inspect", "link"}, pc' = "idle", cmd.force,
         crashes' = crashes, fresh = {}
  PROVE  ran \in {None, Loop}
<1>0. /\ FilesOK /\ "claude" \in Names /\ "real" \in Names /\ "legacy" \in Names
  BY FilesTyped DEF TypeOK
<1>1. ~Crash /\ ~Inspect
  BY DEF Crash, TypeOK, Inspect, Installed, Refused
<1>2. Link
  BY <1>1 DEF Next, Install, Uninstall, BeginInstall, BeginUninstall, Begin, BackUp,
    Preserve, Migrate, Write, Check, Remove, Restore, Update, Elsewhere, vars
<1>3. /\ ~Exists("real")
      /\ LookPath = None \/ SameFile(LookPath) \/ file["real"] # None
  BY <1>2 DEF Link
<1>4. pc = "link" /\ ~Foreign /\ ~Exists("legacy") /\ ran = Program(ResolveClaudeBin)
  BY <1>2, <1>3 DEF Link, Seen, Ran, Exists
<1>5. RealForShim = None
  BY <1>3, <1>4 DEF RealForShim
<1>6. CASE Exists("claude")
  <2>1. file["claude"] \in Managed /\ ResolveClaudeBin = "claude"
    BY <1>4, <1>5, <1>6 DEF Foreign, ResolveClaudeBin
  <2> QED
    BY <1>0, <1>4, <2>1, Apart DEF Program
<1>7. CASE ~Exists("claude")
  <2>1. file["claude"] = None \/ (file["claude"] = Linked /\ elsewhere = None)
    BY <1>7 DEF Exists
  <2>2. CASE LookPath = None
    <3>1. ResolveClaudeBin = "claude"
      BY <1>7, <2>2 DEF ResolveClaudeBin
    <3> QED
      BY <1>0, <1>4, <2>1, <3>1, Apart DEF Program
  <2>3. CASE LookPath # None
    <3>1. LookPath = "elsewhere" /\ elsewhere = 0
      BY <1>7, <2>3 DEF LookPath, ExistsElsewhere
    <3>2. file["real"] # None
      BY <1>3, <3>1, Apart, ContentsAssumption DEF SameFile
    <3> QED
      BY <1>3, <3>1, <3>2, Apart DEF Exists
  <2> QED
    BY <2>2, <2>3
<1> QED
  BY <1>6, <1>7

\* A forced install fails only where there is no Claude to be run, whatever an earlier
\* command has left behind.
THEOREM ForceSucceeds == Spec => ForcedSucceeds
<1>1. IInv /\ [Next]_vars =>
        [(/\ pc \in {"inspect", "link"} /\ pc' = "idle" /\ cmd.force
          /\ crashes' = crashes /\ fresh = {}) => ran \in {None, Loop}]_vars
  BY GivesUp DEF IInv
<1> QED
  BY <1>1, Invariant, PTL DEF Spec, ForcedSucceeds
================================================================================
