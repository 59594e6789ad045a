-------------------------------- MODULE TermKey --------------------------------
(***************************************************************************)
(* The key reader of the menus and pickers: a terminal sends the bytes of  *)
(* the keys a user presses in pieces of its own choice, one key may come   *)
(* in several reads and one read may bring several keys.  An Escape that   *)
(* begins a sequence is told from the Escape key by a pause.               *)
(***************************************************************************)
EXTENDS Naturals, Sequences, SequencesExt

CONSTANTS
  Keys,    \* the keys a user presses
  MaxKeys  \* how many of them, from one screen to the next

\* "lead" and "rest" are the bytes of a letter with an accent, never alone.
ASSUME KeysAssumption == MaxKeys \in Nat /\ Keys \cap {"lead", "rest"} = {}

VARIABLES
  pressed,  \* history: the keys pressed since the reader last had nothing
  wire,     \* bytes of them that nobody has read; some of them have arrived
  pending,  \* bytes the reader has read
  read,     \* history: the keys it has returned, as byte sequences
  slow,     \* history: a key was interrupted for longer than the timeout
  dropped   \* history: bytes have been thrown away in the middle of a key

keyVars == <<pressed, wire, pending, read, slow, dropped>>

\* What a terminal sends: a cursor key has three forms, a letter with an accent
\* two bytes.
Up == <<"esc", "[", "A">>
Encoding ==
  [k \in Keys |->
     CASE k = "up"      -> Up
       [] k = "app up"  -> <<"esc", "O", "A">>
       [] k = "ctrl up" -> <<"esc", "[", "semi", "5", "A">>
       [] k = "accent"  -> <<"lead", "rest">>
       [] OTHER         -> <<k>>]

Introducers == {"[", "O"}
Parameters == {"semi", "5"}
\* The bytes from 0x40 to 0x7e.
Final ==
  {"[", "O", "A"}
    \cup (Keys \ ({"up", "app up", "ctrl up", "accent", "esc", "enter"} \cup Parameters))
Bytes == UNION {ToSet(Encoding[k]) : k \in Keys}

KeysTypeOK ==
  /\ pressed \in Seq(Keys) /\ Len(pressed) <= MaxKeys
  /\ \A s \in {wire, pending} : s \in Seq(Bytes)
  /\ read \in Seq(Seq(Bytes)) /\ \A i \in DOMAIN read : read[i] # <<>>
  /\ slow \in BOOLEAN /\ dropped \in BOOLEAN

KeysInit ==
  /\ pressed = <<>> /\ wire = <<>>
  /\ pending = <<>> /\ read = <<>> /\ slow = FALSE /\ dropped = FALSE

----------------------------------------------------------------------------
(* What the reader makes of the bytes it has.                               *)

\* incompleteEscapeSequence
Incomplete(data) ==
  /\ data # <<>> /\ data[1] = "esc"
  /\ Len(data) > 1 => /\ data[2] \in Introducers
                      /\ \A i \in 3..Len(data) : data[i] \notin Final

\* A mutant: an Escape is the Escape key.
EscapeEnds(data, n) ==
  \/ data[1] # "lead" /\ n = 1
  \/ data[1] = "lead" /\ Len(data) > 1 /\ n = (IF data[2] = "rest" THEN 2 ELSE 1)

\* nextKey: the first n bytes are a key.
Ends(data, n) ==
  \/ data[1] \notin {"esc", "lead"} /\ n = 1
  \/ data[1] = "lead" /\ Len(data) > 1 /\ n = (IF data[2] = "rest" THEN 2 ELSE 1)
  \/ /\ data[1] = "esc" /\ Len(data) > 1
     /\ IF data[2] \notin Introducers THEN n = 1
        ELSE n > 2 /\ data[n] \in Final /\ \A i \in 3..n - 1 : data[i] \notin Final

Complete(data) == {n \in 1..Len(data) : Ends(data, n)}

\* normalizeKey: the three forms of a cursor key are one.
Normalize(key) ==
  IF /\ Len(key) > 2 /\ key[1] = "esc" /\ key[Len(key)] = "A"
     /\ \/ key[2] = "O" /\ Len(key) = 3
        \/ /\ key[2] = "["
           /\ LET params == SubSeq(key, 3, Len(key) - 1)
              IN params = <<>> \/ (params[1] = "semi" /\ ToSet(params) \subseteq Parameters)
  THEN Up ELSE key

----------------------------------------------------------------------------
(* The user.                                                                *)

Press(k) ==
  /\ Len(pressed) < MaxKeys /\ ~dropped
  /\ pressed' = Append(pressed, k)
  /\ wire' = wire \o Encoding[k]
  /\ UNCHANGED <<pending, read, slow, dropped>>

----------------------------------------------------------------------------
(* Reader.Read                                                              *)

Return(key) == read' = IF dropped THEN <<>> ELSE Append(read, key)

\* A complete key is returned before anything is read.
ReturnKey(key) ==
  \E n \in Complete(pending) :
    /\ key = SubSeq(pending, 1, n) /\ Return(key)
    /\ pending' = SubSeq(pending, n + 1, Len(pending))
    /\ UNCHANGED <<pressed, wire, slow, dropped>>

\* One read, by Read or by finishEscapeSequence: it takes what has arrived, the
\* buffer is larger than that.
Fill(n) ==
  /\ Complete(pending) = {}
  /\ pending' = pending \o SubSeq(wire, 1, n)
  /\ wire' = SubSeq(wire, n + 1, Len(wire))
  /\ UNCHANGED <<pressed, read, slow, dropped>>

\* finishEscapeSequence has waited long enough: what has come is a key.  That is
\* right for the Escape key only.
GiveUp(key) ==
  /\ Incomplete(pending)
  /\ key = pending /\ Return(key)
  /\ pending' = <<>>
  /\ LET i == Len(read) + 1
     IN slow' = (~dropped /\ (slow \/ ~(i \in DOMAIN pressed /\ Encoding[pressed[i]] = key)))
  /\ UNCHANGED <<pressed, wire, dropped>>

\* The screen is closed and its reader forgotten; Drain also throws away the n
\* bytes that have arrived.  The history begins again with the next key, unless
\* it is not known where that is.
Forget(n) ==
  LET rest == SubSeq(wire, n + 1, Len(wire))
      lost == dropped \/ pending # <<>> \/ n > 0
  IN /\ pending' = <<>>
     /\ wire' = rest
     /\ dropped' = (rest # <<>> /\ lost)
     /\ slow' = (rest # <<>> /\ ~lost /\ slow)
     /\ IF rest = <<>> \/ lost THEN pressed' = <<>> /\ read' = <<>>
                               ELSE UNCHANGED <<pressed, read>>

----------------------------------------------------------------------------
Sent(keys) == FlattenSeq([i \in DOMAIN keys |-> Encoding[keys[i]]])

\* However the bytes are split and batched, no byte is lost or read twice, and the
\* keys returned are the keys pressed, unless one was interrupted for longer than
\* the timeout or the reader was thrown away with bytes of it.
KeysWhole ==
  \/ dropped
  \/ slow /\ FlattenSeq(read) \o pending \o wire = Sent(pressed)
  \/ /\ ~slow /\ Len(read) <= Len(pressed)
     /\ \A i \in DOMAIN read : read[i] = Encoding[pressed[i]]
     /\ pending \o wire = Sent(SubSeq(pressed, Len(read) + 1, Len(pressed)))
===============================================================================
