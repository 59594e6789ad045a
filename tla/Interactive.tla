------------------------------ MODULE Interactive ------------------------------
(***************************************************************************)
(* One agemux in the foreground: the menu, the picker of accounts, the     *)
(* attach loop.  Each of them puts the user's terminal into other modes    *)
(* and must put it back, on every way out, while a signal handler does the *)
(* same from another goroutine.  The session that is attached lives in     *)
(* shpool, where other terminals attach to it.                             *)
(***************************************************************************)
EXTENDS TermKey

CONSTANTS
  Provider,      \* of the session: "codex", "claude" or "grok"
  MaxReconnects  \* maxAttachReconnects

ASSUME InteractiveAssumption ==
  Provider \in {"codex", "claude", "grok"} /\ MaxReconnects \in Nat

VARIABLES
  term,        \* how the terminal differs from what it was
  pc,          \* the next step of the main goroutine
  screen,      \* the screen it opens or shows: "menu" or "accounts"
  selected,    \* the row of the menu
  next,        \* what it does when the screen is closed
  interval,    \* the terminalstate.Session: not begun, open, the steps of Close
  active,      \* whether the package still refers to it
  sig,         \* the next step of the signal handler
  late,        \* history: the terminal was changed after the signal
  status,      \* the session in shpool; "mine" if our client attached last
  forced,      \* whether the arguments of shpool attach contain -f
  reconnects

attachVars == <<status, forced, reconnects>>
screenVars == <<screen, selected, next, interval, active>>
vars == <<keyVars, term, pc, screenVars, sig, late, attachVars>>

Mouse == "mouse"
Keyboard == "keyboard"  \* focus events, bracketed paste, the Kitty stack
Alternate == "alternate"

Steps == {"begin", "raw", "screen", "flags", "load", "menu", "confirm", "picker", "unflags",
          "close", "detach", "kill", "new", "check", "prepare", "setup", "spawn", "child",
          "exited 0", "exited 1", "exited 2", "poll", "finish", "end", "gone"}

ScreensOK ==
  /\ term \subseteq {"raw", "nonblock", Alternate, Mouse, Keyboard}
  /\ screen \in {"menu", "accounts"} /\ selected \in 0..3
  /\ next \in {"begin", "detach", "kill", "new", "check", "end"}
  /\ interval \in {"none", "open", "write", "restore", "release", "closed"}
  /\ active \in BOOLEAN /\ (active <=> interval \notin {"none", "closed"})
  /\ sig \in {"none", "look", "close", "reset", "kill"}
  /\ late \in BOOLEAN

AttachOK ==
  /\ status \in {"gone", "disconnected", "mine", "other"}
  /\ forced \in BOOLEAN /\ reconnects \in 0..MaxReconnects

TypeOK == KeysTypeOK /\ pc \in Steps /\ ScreensOK /\ AttachOK

\* The menu, or `attach [--force]`.
Init ==
  /\ KeysInit
  /\ term = {} /\ screen = "menu" /\ selected = 0 /\ next = "begin"
  /\ interval = "none" /\ active = FALSE
  /\ sig = "none" /\ late = FALSE
  /\ status = "other" /\ reconnects = 0
  /\ pc \in {"begin", "check"} /\ forced \in BOOLEAN /\ (forced => pc = "check")

----------------------------------------------------------------------------
At(step) == pc = step
Goto(step) == pc' = step

\* Writing to the terminal and changing its modes.
Modes(clean, dirty) ==
  /\ term' = (term \ clean) \cup dirty
  /\ late' = (late \/ (dirty # {} /\ sig # "none"))
Reset == {Keyboard}
ResetAttachment == {Alternate, Mouse, Keyboard}

----------------------------------------------------------------------------
(* Screens: terminalstate.BeginScreen and Close                             *)

\* The sessions are listed anew: the one picked next need not be the last one, and
\* is what it is when it is looked at (Elsewhere).
Begin ==
  /\ At("begin") /\ Goto("raw")
  /\ Modes(Reset, {})
  /\ status' = "other"
  /\ UNCHANGED <<keyVars, screenVars, sig, forced, reconnects>>

\* Under the package's lock.  A handler that still closes the last interval has
\* nothing left to do.
MakeRaw ==
  /\ At("raw") /\ Goto("screen")
  /\ Modes({}, {"raw"})
  /\ interval' = "open" /\ active' = TRUE
  /\ sig' = IF sig = "close" THEN "reset" ELSE sig
  /\ UNCHANGED <<keyVars, screen, selected, next, attachVars>>

\* The terminal refuses the raw mode, and no interval is opened, or standard input
\* the flags of the menu.  Either error ends agemux.
ScreenFails ==
  /\ \/ At("raw") /\ Goto("end")
     \/ At("flags") /\ Goto("close")
  /\ next' = "end"
  /\ UNCHANGED <<keyVars, term, screen, selected, interval, active, sig, late, attachVars>>

EnterScreen ==
  /\ At("screen") /\ Goto(IF screen = "menu" THEN "flags" ELSE "load")
  /\ Modes({}, {Alternate})
  /\ UNCHANGED <<keyVars, screenVars, sig, attachVars>>

\* The first who calls Close does the work, everybody else waits until it is done.
StartClose == interval = "open" /\ interval' = "write"

\* Leave the screen and reset, restore the modes, let go of the interval.
CloseStep ==
  /\ interval \in {"write", "restore", "release"}
  /\ CASE interval = "write" -> Modes({Alternate, Keyboard}, {}) /\ interval' = "restore"
       [] interval = "restore" -> Modes({"raw"}, {}) /\ interval' = "release"
       [] interval = "release" -> interval' = "closed" /\ UNCHANGED <<term, late>>
  /\ active' = (interval # "release")
  /\ UNCHANGED <<keyVars, pc, screen, selected, next, sig, attachVars>>

\* The menu's loop does not block in read(2): it redraws between two keys.
SetFlags ==
  /\ At("flags") /\ Goto("menu")
  /\ Modes({}, {"nonblock"})
  /\ UNCHANGED <<keyVars, screenVars, sig, attachVars>>

\* The accounts are refreshed, what was typed meanwhile is thrown away.
Load ==
  /\ At("load") /\ Goto("picker")
  /\ \E n \in 0..Len(wire) : Forget(n)
  /\ UNCHANGED <<term, screenVars, sig, late, attachVars>>

\* The deferred calls of tuiMenu, in their order; its reader is forgotten.
RestoreFlags ==
  /\ At("unflags") /\ Goto("close")
  /\ Modes({"nonblock"}, {})
  /\ Forget(0)
  /\ UNCHANGED <<screenVars, sig, attachVars>>

Close ==
  /\ At("close")
  /\ StartClose
  /\ UNCHANGED <<keyVars, term, pc, screen, selected, next, active, sig, late, attachVars>>

Closed ==
  /\ At("close") /\ interval = "closed"
  /\ Goto(next) /\ next' = "begin"
  /\ UNCHANGED <<keyVars, term, screen, selected, interval, active, sig, late, attachVars>>

----------------------------------------------------------------------------
(* The keys of a screen: tuiMenu, confirm and the picker                    *)

Leave(what, where) ==
  /\ Goto(IF screen = "menu" THEN "unflags" ELSE "close")
  /\ next' = what /\ screen' = where /\ selected' = 0
Stay(step) == Goto(step) /\ UNCHANGED <<next, screen, selected>>
Is(key, names) == \E k \in names \cap Keys : Encoding[k] = key

\* The menu has three rows of actions and one session.
MenuKey(key) ==
  \/ key = Up /\ selected' = (selected + 3) % 4 /\ UNCHANGED <<pc, next, screen>>
  \/ Is(key, {"q", "esc"}) /\ Leave("end", "menu")
  \/ Is(key, {"enter"}) /\ selected # 3 /\ (Leave("new", "menu") \/ Leave("begin", "accounts"))
  \/ Is(key, {"enter"}) /\ selected = 3 /\ Leave("check", "menu")
  \/ Is(key, {"d"}) /\ selected = 3 /\ Leave("detach", "menu")
  \/ Is(key, {"k"}) /\ selected = 3 /\ Stay("confirm")
  \/ key # Up /\ ~Is(key, {"q", "esc", "enter"}) /\ ~(Is(key, {"d", "k"}) /\ selected = 3)
     /\ Stay("menu")

ConfirmKey(key) ==
  \/ Is(key, {"y"}) /\ Leave("kill", "menu")
  \/ Is(key, {"esc", "enter"}) /\ Stay("menu")
  \/ ~Is(key, {"y", "esc", "enter"}) /\ Stay("confirm")

PickerKey(key) ==
  \/ Is(key, {"q", "esc", "enter"}) /\ Leave("begin", "menu")
  \/ ~Is(key, {"q", "esc", "enter"}) /\ Stay("picker")

HandleKey ==
  /\ \E n \in 1..Len(pending) :
       LET bytes == SubSeq(pending, 1, n)
           key == Normalize(bytes)
       IN /\ ReturnKey(bytes) \/ GiveUp(bytes)
          /\ \/ At("menu") /\ MenuKey(key)
             \/ At("confirm") /\ ConfirmKey(key)
             \/ At("picker") /\ PickerKey(key)
  /\ UNCHANGED <<term, interval, active, sig, late, attachVars>>

ReadMore ==
  /\ pc \in {"menu", "confirm", "picker"}
  /\ \E n \in 1..Len(wire) : Fill(n)
  /\ UNCHANGED <<term, pc, screenVars, sig, late, attachVars>>

\* The sessions cannot be listed, the keys not read, or what was picked cannot be done.
MenuFails ==
  /\ pc \in {"load", "menu", "picker"}
  /\ Leave("end", "menu")
  /\ UNCHANGED <<keyVars, term, interval, active, sig, late, attachVars>>

\* Keys are typed at a screen, or ahead of the next one.
Type ==
  /\ pc \in {"menu", "confirm", "picker", "load"}
  /\ \E k \in Keys : Press(k)
  /\ UNCHANGED <<term, pc, screenVars, sig, late, attachVars>>

----------------------------------------------------------------------------
(* The actions of the menu                                                  *)

\* An error ends agemux, otherwise the menu comes back.
Detach ==
  /\ At("detach")
  /\ \/ Goto("end") /\ UNCHANGED status
     \/ status # "gone" /\ status' = "disconnected" /\ Goto("begin")
  /\ UNCHANGED <<keyVars, term, screenVars, sig, late, forced, reconnects>>

Kill ==
  /\ At("kill")
  /\ \/ Goto("end") /\ status' \in {status, "gone"}
     \/ status # "gone" /\ status' = "gone" /\ Goto("begin")
  /\ UNCHANGED <<keyVars, term, screenVars, sig, late, forced, reconnects>>

\* Once a session is attached its client reads the terminal.
LeaveKeys ==
  /\ pressed' = <<>> /\ wire' = <<>> /\ pending' = <<>> /\ read' = <<>>
  /\ slow' = FALSE /\ dropped' = FALSE

\* create: a name that is not in use.
New ==
  /\ At("new") /\ (Goto("prepare") \/ Goto("end"))
  /\ LeaveKeys
  /\ status' = "gone"
  /\ UNCHANGED <<term, screenVars, sig, late, forced, reconnects>>

\* execAttach does not take a session away from another terminal unasked.
Check ==
  /\ At("check")
  /\ LeaveKeys
  /\ \/ Goto("end")
     \/ status # "gone" /\ (status \in {"mine", "other"} => forced) /\ Goto("prepare")
  /\ UNCHANGED <<term, screenVars, sig, late, attachVars>>

----------------------------------------------------------------------------
(* runAttachLoop                                                            *)

Prepare ==
  /\ At("prepare") /\ Goto("setup")
  /\ Modes(ResetAttachment, {})
  /\ UNCHANGED <<keyVars, screenVars, sig, attachVars>>

\* What the client must show that the agent asked for before it was attached.
Setup ==
  /\ At("setup") /\ Goto("spawn")
  /\ Modes({}, CASE Provider = "codex" -> {Keyboard}
                 [] Provider = "grok" -> {Alternate, Mouse, Keyboard}
                 [] OTHER -> {})
  /\ UNCHANGED <<keyVars, screenVars, sig, attachVars>>

\* shpool attach: it refuses a session that is attached, unless it is told to take
\* it, and makes one where there is none.
Spawn ==
  /\ At("spawn")
  /\ IF status \in {"mine", "other"} /\ ~forced
     THEN Goto("exited 1") /\ UNCHANGED status
     ELSE Goto("child") /\ status' = "mine"
  /\ UNCHANGED <<keyVars, term, screenVars, sig, late, forced, reconnects>>

\* The client and what the agent writes through it.
ChildWrites(mode) ==
  /\ At("child")
  /\ Modes({}, {mode})
  /\ UNCHANGED <<keyVars, pc, screenVars, sig, attachVars>>

\* It is detached or the agent ends; its transport breaks, or somebody else has
\* taken the session; it fails otherwise.  Raw mode is its own affair.
ChildExits(code) ==
  /\ At("child") /\ Goto(code)
  /\ Modes({"raw"}, {})
  /\ status' \in (IF code = "exited 0" /\ status = "mine" THEN {"disconnected", "gone"}
                  ELSE {status})
  /\ UNCHANGED <<keyVars, screenVars, sig, forced, reconnects>>

\* A mutant: nobody counts.
ExitedAgain ==
  /\ pc \in {"exited 0", "exited 1", "exited 2"}
  /\ Modes(ResetAttachment, {})
  /\ \E r \in {0, reconnects} :
       /\ Goto(IF At("exited 1") THEN "poll" ELSE "finish")
       /\ reconnects' = r
  /\ UNCHANGED <<keyVars, screenVars, sig, status, forced>>

\* Whatever the client has left on the terminal is undone.  A stable minute gives
\* the attempts back.
Exited ==
  /\ pc \in {"exited 0", "exited 1", "exited 2"}
  /\ Modes(ResetAttachment, {})
  /\ \E r \in {0, reconnects} :
       /\ Goto(IF At("exited 1") /\ r < MaxReconnects THEN "poll" ELSE "finish")
       /\ reconnects' = r
  /\ UNCHANGED <<keyVars, screenVars, sig, status, forced>>

\* A mutant: the next attempt has the arguments of the first one.
ReconnectAsBefore ==
  /\ At("poll") /\ status = "disconnected" /\ Goto("prepare")
  /\ reconnects' = reconnects + 1
  /\ UNCHANGED <<keyVars, term, screenVars, sig, late, status, forced>>

\* shouldReconnectAttach sees the session disconnected.
Reconnect ==
  /\ At("poll") /\ status = "disconnected" /\ Goto("prepare")
  /\ reconnects' = reconnects + 1
  /\ forced' = FALSE
  /\ UNCHANGED <<keyVars, term, screenVars, sig, late, status>>

\* It sees that there is no session, or sees it attached, or nothing at all, until
\* it has asked often enough.
NoReconnect ==
  /\ At("poll") /\ Goto("finish")
  /\ UNCHANGED <<keyVars, term, screenVars, sig, late, attachVars>>

Finish ==
  /\ At("finish") /\ Goto("end")
  /\ Modes(ResetAttachment, {})
  /\ UNCHANGED <<keyVars, screenVars, sig, attachVars>>

\* main finds no interval that is open.
End ==
  /\ At("end") /\ ~active
  /\ Goto("gone")
  /\ UNCHANGED <<keyVars, term, screenVars, sig, late, attachVars>>

----------------------------------------------------------------------------
(* The signal handler                                                       *)

\* From here on nobody asks whether keys are read as they were typed.
Signal ==
  /\ sig = "none" /\ ~At("gone")
  /\ sig' = "look"
  /\ dropped' = TRUE /\ slow' = FALSE /\ pressed' = <<>> /\ read' = <<>>
  /\ UNCHANGED <<wire, pending, term, pc, screenVars, late, attachVars>>

\* RestoreActive
LookActive ==
  /\ sig = "look" /\ ~At("gone")
  /\ sig' = IF active THEN "close" ELSE "reset"
  /\ UNCHANGED <<keyVars, term, pc, screenVars, late, attachVars>>

HandlerClose ==
  /\ sig = "close" /\ ~At("gone")
  /\ StartClose
  /\ UNCHANGED <<keyVars, term, pc, screen, selected, next, active, sig, late, attachVars>>

\* A mutant: who finds that the interval is being closed does not wait.
HandlerGoesOn ==
  /\ sig = "close" /\ ~At("gone") /\ interval # "open"
  /\ sig' = "reset"
  /\ UNCHANGED <<keyVars, term, pc, screenVars, late, attachVars>>

HandlerClosed ==
  /\ sig = "close" /\ ~At("gone") /\ interval = "closed"
  /\ sig' = "reset"
  /\ UNCHANGED <<keyVars, term, pc, screenVars, late, attachVars>>

\* The flags that standard input had, and whatever a client may have left.
HandlerReset ==
  /\ sig = "reset" /\ ~At("gone")
  /\ sig' = "kill"
  /\ Modes(ResetAttachment \cup {"nonblock"}, {})
  /\ UNCHANGED <<keyVars, pc, screenVars, attachVars>>

\* A client that outlives agemux goes on with the terminal.
HandlerKills ==
  /\ sig = "kill" /\ ~At("gone") /\ Goto("gone")
  /\ late' = (late \/ At("child"))
  /\ UNCHANGED <<keyVars, term, screenVars, sig, attachVars>>

----------------------------------------------------------------------------
(* shpool and the other terminals                                           *)

\* What happens to the session matters once it is looked at.
Elsewhere ==
  /\ pc \in {"detach", "kill", "check", "prepare", "spawn", "child", "poll"}
  /\ \/ status = "disconnected" /\ status' = "other"
     \/ status = "mine" /\ status' = "other"
     \/ status = "other" /\ status' = "disconnected"
     \/ status = "mine" /\ ~At("child") /\ status' = "disconnected"
     \/ status # "gone" /\ status' = "gone"
  /\ UNCHANGED <<keyVars, term, pc, screenVars, sig, late, forced, reconnects>>

----------------------------------------------------------------------------
Main ==
  \/ Begin \/ MakeRaw \/ EnterScreen \/ SetFlags \/ Load \/ RestoreFlags \/ Close \/ Closed
  \/ HandleKey \/ ReadMore \/ ScreenFails \/ MenuFails
  \/ Detach \/ Kill \/ New \/ Check
  \/ Prepare \/ Setup \/ Spawn \/ Exited \/ Reconnect \/ NoReconnect \/ Finish \/ End

Client ==
  \/ \E mode \in {"raw", Alternate, Mouse, Keyboard} : ChildWrites(mode)
  \/ \E code \in {"exited 0", "exited 1", "exited 2"} : ChildExits(code)

Handler ==
  \/ Signal \/ LookActive \/ HandlerClose \/ HandlerClosed \/ HandlerReset
  \/ HandlerKills

Next == Main \/ CloseStep \/ Client \/ Handler \/ Type \/ Elsewhere

Spec == Init /\ [][Next]_vars

----------------------------------------------------------------------------
(* Properties.                                                              *)

\* agemux ends with the terminal as it was, whichever of main and the signal
\* handler ends it and wherever the signal comes, unless something put it into
\* another mode after the signal.
TerminalClean == At("gone") /\ ~late => term = {}

\* A session that is attached in another terminal is taken away from it only by
\* the first attempt of an attach that was told to, never by a reconnect.
NoSteal ==
  [][status = "other" /\ status' = "mine" => forced /\ reconnects = 0]_vars
===============================================================================
