--------------------------- MODULE InteractiveProofs ---------------------------
(***************************************************************************)
(* Proofs about one agemux in the foreground.  The terminal is restored on *)
(* every way out because whoever has put it into a mode is still there to  *)
(* put it back (Undone), which rests on whose interval it is that is open  *)
(* (OnScreen).  Keys are whole because no prefix of what is sent can be    *)
(* read in two ways (KeyEnds).  A reconnect does not steal a session       *)
(* because the argument that would allow it is gone after the first        *)
(* attempt (Attempts).                                                     *)
(***************************************************************************)
EXTENDS Interactive, SequenceTheorems, WellFoundedInduction, TLAPS

Opened == {"open", "write", "restore", "release"}
Screens == {"screen", "flags", "load", "menu", "confirm", "picker", "unflags", "close"}
Attached == {"spawn", "child", "exited 0", "exited 1", "exited 2"}

\* Only the first attempt is told to take the session, and after the last one
\* nobody asks whether there may be another.
Attempts == (forced => reconnects = 0) /\ (pc = "poll" => reconnects < MaxReconnects)

\* An interval that is not closed is that of the screen that is shown, whose flags
\* are the menu's affair, and before main closes it only the handler does.
OnScreen ==
  /\ interval \in Opened => pc \in Screens \cup {"gone"}
  /\ pc \in {"flags", "menu", "confirm"} => screen = "menu"
  /\ pc \in Screens \ {"close"} /\ sig \in {"none", "look"} => interval = "open"

\* Who has put the terminal into a mode is still there to put it back.
Undone ==
  ~late =>
    /\ "nonblock" \in term => pc \in {"menu", "confirm", "unflags"}
    /\ "raw" \in term => pc = "child" \/ interval \in {"open", "write", "restore"}
    /\ Alternate \in term => pc \in Attached \/ interval \in {"open", "write"}
    /\ Mouse \in term \/ Keyboard \in term => pc \in Attached
    /\ sig \in {"reset", "kill"} => interval \notin Opened
    /\ sig = "kill" => term \subseteq {"raw"}
    /\ pc = "gone" => term = {}

IInv == TypeOK /\ Attempts /\ OnScreen /\ Undone

----------------------------------------------------------------------------
(* The keys.                                                                *)

LEMMA FiveTyped ==
  ASSUME NEW S, NEW a, NEW b, NEW c, NEW d, NEW e,
         \A i \in DOMAIN <<a, b, c, d, e>> : <<a, b, c, d, e>>[i] \in S
  PROVE  <<a, b, c, d, e>> \in Seq(S) /\ <<a, b, c, d, e>> # <<>>
OBVIOUS

LEMMA EncodingTyped ==
  ASSUME NEW k \in Keys
  PROVE  Encoding[k] \in Seq(Bytes) /\ Encoding[k] # <<>>
<1>1. ToSet(Encoding[k]) \subseteq Bytes
  BY DEF Bytes
<1>2. ASSUME NEW s, s = Encoding[k],
             s = <<k>> \/ s = Up \/ s = <<"esc", "O", "A">>
             \/ s = <<"esc", "[", "semi", "5", "A">> \/ s = <<"lead", "rest">>
      PROVE  s \in Seq(Bytes) /\ s # <<>>
  <2>1. \A i \in DOMAIN s : s[i] \in Bytes
    BY <1>1, <1>2 DEF ToSet
  <2>2. CASE s = <<k>>
    BY <2>1, <2>2
  <2>3. CASE s = Up
    BY <2>1, <2>3 DEF Up
  <2>4. CASE s = <<"esc", "O", "A">>
    BY <2>1, <2>4
  <2>5. CASE s = <<"esc", "[", "semi", "5", "A">>
    BY <2>1, <2>5, FiveTyped, Zenon
  <2>6. CASE s = <<"lead", "rest">>
    BY <2>1, <2>6
  <2> QED BY <1>2, <2>2, <2>3, <2>4, <2>5, <2>6
<1>3. \/ Encoding[k] = <<k>> \/ Encoding[k] = Up \/ Encoding[k] = <<"esc", "O", "A">>
      \/ Encoding[k] = <<"esc", "[", "semi", "5", "A">> \/ Encoding[k] = <<"lead", "rest">>
  BY DEF Encoding
<1> QED BY <1>2, <1>3

LEMMA PartTyped ==
  ASSUME NEW S, NEW s \in Seq(S), NEW m \in Nat, NEW n \in Nat, m >= 1, n <= Len(s)
  PROVE  SubSeq(s, m, n) \in Seq(S)
BY SubSeqProperties

LEMMA PressTyped ==
  ASSUME KeysTypeOK, NEW k \in Keys, Press(k)
  PROVE  KeysTypeOK'
BY EncodingTyped, KeysAssumption DEF KeysTypeOK, Press

LEMMA ReturnTyped ==
  ASSUME KeysTypeOK, NEW key \in Seq(Bytes), key # <<>>, Return(key)
  PROVE  read' \in Seq(Seq(Bytes)) /\ \A i \in DOMAIN read' : read'[i] # <<>>
BY DEF KeysTypeOK, Return

LEMMA ReturnKeyTyped ==
  ASSUME KeysTypeOK, NEW key, ReturnKey(key)
  PROVE  KeysTypeOK'
<1>0. pending \in Seq(Bytes)
  BY DEF KeysTypeOK
<1>1. PICK n \in 1..Len(pending) :
        /\ key = SubSeq(pending, 1, n) /\ Return(key)
        /\ pending' = SubSeq(pending, n + 1, Len(pending))
        /\ UNCHANGED <<pressed, wire, slow, dropped>>
  BY Zenon DEF ReturnKey, Complete
<1>2. n \in Nat /\ n >= 1 /\ n <= Len(pending) /\ n + 1 \in Nat /\ Len(pending) \in Nat
  BY <1>0
<1>3. key \in Seq(Bytes) /\ key # <<>>
  BY SMTT(30), <1>0, <1>1, <1>2, SubSeqProperties, EmptySeq
<1>4. pending' \in Seq(Bytes)
  BY <1>0, <1>1, <1>2, PartTyped
<1> QED BY <1>1, <1>3, <1>4, ReturnTyped DEF KeysTypeOK

LEMMA GiveUpTyped ==
  ASSUME KeysTypeOK, NEW key, GiveUp(key)
  PROVE  KeysTypeOK'
<1>1. key \in Seq(Bytes) /\ key # <<>> /\ Return(key)
  BY DEF GiveUp, Incomplete, KeysTypeOK
<1>2. pending' = <<>> /\ UNCHANGED <<pressed, wire, dropped>> /\ slow' \in BOOLEAN
  BY DEF GiveUp, KeysTypeOK
<1> QED BY <1>1, <1>2, ReturnTyped DEF KeysTypeOK

LEMMA FillTyped ==
  ASSUME KeysTypeOK, NEW n \in 1..Len(wire), Fill(n)
  PROVE  KeysTypeOK'
<1>0. wire \in Seq(Bytes) /\ pending \in Seq(Bytes)
  BY DEF KeysTypeOK
<1>1. n \in Nat /\ n <= Len(wire) /\ n + 1 \in Nat /\ Len(wire) \in Nat
  BY <1>0
<1>2. SubSeq(wire, 1, n) \in Seq(Bytes) /\ SubSeq(wire, n + 1, Len(wire)) \in Seq(Bytes)
  BY <1>0, <1>1, PartTyped
<1> QED BY <1>0, <1>2 DEF KeysTypeOK, Fill

LEMMA ForgetTyped ==
  ASSUME KeysTypeOK, NEW n \in Nat, Forget(n)
  PROVE  KeysTypeOK'
<1>0. wire \in Seq(Bytes) /\ pending \in Seq(Bytes)
  BY DEF KeysTypeOK
<1>2. SubSeq(wire, n + 1, Len(wire)) \in Seq(Bytes)
  <2>1. n + 1 \in Nat /\ n + 1 >= 1 /\ Len(wire) \in Nat
    BY <1>0
  <2> QED BY <1>0, <2>1, PartTyped
<1>3. pending' = <<>> /\ wire' \in Seq(Bytes) /\ slow' \in BOOLEAN /\ dropped' \in BOOLEAN
  BY <1>2 DEF Forget, KeysTypeOK
<1>4. (pressed' = <<>> /\ read' = <<>>) \/ UNCHANGED <<pressed, read>>
  BY DEF Forget
<1>5. CASE UNCHANGED <<pressed, read>>
  BY <1>3, <1>5 DEF KeysTypeOK
<1>6. CASE pressed' = <<>> /\ read' = <<>>
  BY <1>3, <1>6, KeysAssumption DEF KeysTypeOK
<1> QED BY <1>4, <1>5, <1>6

LEMMA ClearTyped ==
  ASSUME KeysTypeOK, pressed' = <<>>, read' = <<>>, slow' = FALSE, dropped' \in BOOLEAN,
         wire' \in {wire, <<>>}, pending' \in {pending, <<>>}
  PROVE  KeysTypeOK'
<1>1. wire' \in Seq(Bytes) /\ pending' \in Seq(Bytes)
  BY EmptySeq DEF KeysTypeOK
<1>2. pressed' \in Seq(Keys) /\ Len(pressed') <= MaxKeys
  BY EmptySeq, KeysAssumption
<1>3. read' \in Seq(Seq(Bytes)) /\ \A i \in DOMAIN read' : read'[i] # <<>>
  BY EmptySeq
<1>4. slow' \in BOOLEAN
  OBVIOUS
<1> QED BY <1>1, <1>2, <1>3, <1>4 DEF KeysTypeOK

LEMMA KeysStep ==
  ASSUME KeysTypeOK, [Next]_vars
  PROVE  KeysTypeOK' 
<1>1. CASE Load
  <2>1. PICK i \in 0..Len(wire) : Forget(i)
    BY <1>1 DEF Load
  <2>2. i \in Nat
    BY DEF KeysTypeOK
  <2> QED BY <2>1, <2>2, ForgetTyped
<1>2. CASE RestoreFlags
  BY <1>2, ForgetTyped DEF RestoreFlags
<1>3. CASE HandleKey
  <2>1. PICK i \in 1..Len(pending) :
          ReturnKey(SubSeq(pending, 1, i)) \/ GiveUp(SubSeq(pending, 1, i))
    BY <1>3, Zenon DEF HandleKey
  <2> QED BY <2>1, ReturnKeyTyped, GiveUpTyped
<1>4. CASE ReadMore
  BY <1>4, FillTyped DEF ReadMore
<1>5. CASE Type
  BY <1>5, PressTyped DEF Type
<1>6. CASE New \/ Check
  BY <1>6, ClearTyped DEF New, Check, LeaveKeys
<1>7. CASE Signal
  BY <1>7, ClearTyped DEF Signal
<1>8. CASE \/ Begin \/ MakeRaw \/ EnterScreen \/ SetFlags \/ Close \/ Closed
          \/ ScreenFails \/ MenuFails \/ Detach \/ Kill
  <2>1. UNCHANGED keyVars
    BY <1>8 DEF Begin, MakeRaw, EnterScreen, SetFlags, Close, Closed, ScreenFails,
      MenuFails, Detach, Kill
  <2> QED BY <2>1 DEF keyVars, KeysTypeOK
<1>9. CASE \/ Prepare \/ Setup \/ Spawn \/ Exited \/ Reconnect \/ NoReconnect
          \/ Finish \/ End
  <2>1. UNCHANGED keyVars
    BY <1>9 DEF Prepare, Setup, Spawn, Exited, Reconnect, NoReconnect, Finish, End
  <2> QED BY <2>1 DEF keyVars, KeysTypeOK
<1>10. CASE \/ CloseStep \/ Client \/ LookActive \/ HandlerClose \/ HandlerClosed
          \/ HandlerReset \/ HandlerKills \/ Elsewhere
  <2>1. UNCHANGED keyVars
    BY <1>10 DEF CloseStep, Client, ChildWrites, ChildExits, LookActive, HandlerClose,
      HandlerClosed, HandlerReset, HandlerKills, Elsewhere
  <2> QED BY <2>1 DEF keyVars, KeysTypeOK
<1>11. CASE UNCHANGED vars
  BY <1>11 DEF vars, keyVars, KeysTypeOK
<1> QED BY <1>1, <1>2, <1>3, <1>4, <1>5, <1>6, <1>7, <1>8, <1>9, <1>10, <1>11 DEF Next,
  Main, Handler

----------------------------------------------------------------------------
(* Flattening.                                                              *)

\* f flattens the first n members of s.
Flattens(f, s, n) == f = [i \in 1..n |-> IF i = 1 THEN s[i] ELSE f[i - 1] \o s[i]]

LEMMA Least ==
  ASSUME NEW S, S \subseteq Nat, S # {}
  PROVE  \E m \in S : \A k \in S : m <= k
<1> DEFINE R == {ss \in Nat \X Nat : ss[1] < ss[2]}
<1>1. IsWellFoundedOn(R, Nat)
  BY NatLessThanWellFounded DEF OpToRel
<1>2. PICK m \in S : \A k \in S : ~ (<<k, m>> \in R)
  BY <1>1, WFMin
<1>3. ASSUME NEW k \in S PROVE m <= k
  <2>1. m \in Nat /\ k \in Nat /\ <<k, m>> \notin R
    BY <1>2
  <2>2. <<k, m>> \in Nat \X Nat /\ <<k, m>>[1] = k /\ <<k, m>>[2] = m
    BY <2>1
  <2>3. ~ (k < m)
    BY <2>1, <2>2
  <2> QED BY <2>1, <2>3
<1> QED BY <1>3

\* Induction, for sets.
LEMMA UpTo ==
  ASSUME NEW n \in Nat, NEW S, 0 \in S, \A k \in S : k < n => k + 1 \in S
  PROVE  0..n \subseteq S
<1> SUFFICES ASSUME (0..n) \ S # {} PROVE FALSE
  OBVIOUS
<1>0. (0..n) \ S \subseteq Nat
  OBVIOUS
<1>1. PICK m \in (0..n) \ S : \A k \in (0..n) \ S : m <= k
  BY <1>0, Least
<1>2. m # 0 /\ m \in Nat /\ m - 1 \in 0..n /\ m - 1 < n /\ ~ (m <= m - 1)
  OBVIOUS
<1>3. m - 1 \in S
  BY <1>1, <1>2
<1>4. (m - 1) + 1 \in S
  BY <1>2, <1>3
<1> QED BY <1>1, <1>2, <1>4

LEMMA FlatteningAt ==
  ASSUME NEW s, NEW n, NEW f, Flattens(f, s, n)
  PROVE  \A i \in 1..n : f[i] = (IF i = 1 THEN s[i] ELSE f[i - 1] \o s[i])
<1> DEFINE g == [i \in 1..n |-> IF i = 1 THEN s[i] ELSE f[i - 1] \o s[i]]
<1>1. f = g
  BY DEF Flattens
<1>2. \A i \in 1..n : g[i] = (IF i = 1 THEN s[i] ELSE f[i - 1] \o s[i])
  OBVIOUS
<1> HIDE DEF g
<1> QED BY <1>1, <1>2

LEMMA FlatteningStep ==
  ASSUME NEW s, NEW n \in Nat, NEW f, Flattens(f, s, n)
  PROVE  \E g : Flattens(g, s, n + 1)
<1> DEFINE g == [i \in 1..n + 1 |->
                   IF i <= n THEN f[i] ELSE IF i = 1 THEN s[i] ELSE f[i - 1] \o s[i]]
<1>1. \A i \in 1..n : f[i] = (IF i = 1 THEN s[i] ELSE f[i - 1] \o s[i])
  BY FlatteningAt
<1>2. \A i \in 1..n + 1 : i # 1 => i - 1 \in 1..n
  OBVIOUS
<1>3. \A i \in 1..n : g[i] = f[i]
  OBVIOUS
<1>4. \A i \in 1..n + 1 : g[i] = (IF i = 1 THEN s[i] ELSE g[i - 1] \o s[i])
  <2> SUFFICES ASSUME NEW i \in 1..n + 1
               PROVE  g[i] = (IF i = 1 THEN s[i] ELSE g[i - 1] \o s[i])
    OBVIOUS
  <2>1. CASE i <= n
    <3>1. i \in 1..n
      BY <2>1
    <3>2. i # 1 => g[i - 1] = f[i - 1]
      BY <1>2, <1>3
    <3> HIDE DEF g
    <3> QED BY <1>1, <1>3, <3>1, <3>2
  <2>2. CASE ~ (i <= n)
    <3>1. g[i] = IF i = 1 THEN s[i] ELSE f[i - 1] \o s[i]
      BY <2>2
    <3>2. i # 1 => g[i - 1] = f[i - 1]
      BY <1>2, <1>3
    <3> HIDE DEF g
    <3> QED BY <3>1, <3>2
  <2> QED BY <2>1, <2>2
<1>5. g = [i \in 1..n + 1 |-> IF i = 1 THEN s[i] ELSE g[i - 1] \o s[i]]
  <2>1. g = [i \in 1..n + 1 |-> g[i]]
    OBVIOUS
  <2> HIDE DEF g
  <2> QED BY <1>4, <2>1
<1>6. Flattens(g, s, n + 1)
  BY ONLY <1>5 DEF Flattens
<1> QED BY <1>6

LEMMA FlatteningExists ==
  ASSUME NEW s, NEW n \in Nat
  PROVE  \E f : Flattens(f, s, n)
<1> DEFINE S == {k \in 0..n : \E f : Flattens(f, s, k)}
<1>1. 0 \in S
  <2>1. \A f : [i \in 1..0 |-> IF i = 1 THEN s[i] ELSE f[i - 1] \o s[i]] = <<>>
    OBVIOUS
  <2>2. Flattens(<<>>, s, 0)
    BY <2>1 DEF Flattens
  <2> QED BY <2>2
<1>2. \A k \in S : k < n => k + 1 \in S
  BY FlatteningStep
<1>3. 0..n \subseteq S
  <2> HIDE DEF S
  <2> QED BY <1>1, <1>2, UpTo
<1> QED BY <1>3

LEMMA FlatteningIs ==
  ASSUME NEW s, Len(s) \in Nat, Len(s) # 0
  PROVE  \E f : Flattens(f, s, Len(s)) /\ FlattenSeq(s) = f[Len(s)]
<1> DEFINE F == CHOOSE f : f = [i \in 1..Len(s) |-> IF i = 1 THEN s[i] ELSE f[i - 1] \o s[i]]
<1>1. FlattenSeq(s) = F[Len(s)]
  BY DEF FlattenSeq
<1>2. PICK g : Flattens(g, s, Len(s))
  BY FlatteningExists
<1>3. Flattens(F, s, Len(s))
  BY <1>2 DEF Flattens
<1> QED BY <1>1, <1>3

\* What a flattening yields depends on what it flattens only, and is typed.
LEMMA FlatteningsAgree ==
  ASSUME NEW s, NEW t, NEW f, NEW g, NEW n \in Nat,
         Flattens(f, s, n), Flattens(g, t, n + 1), \A i \in 1..n : s[i] = t[i]
  PROVE  \A i \in 1..n : f[i] = g[i]
<1> DEFINE S == {k \in 0..n : \A i \in 1..k : f[i] = g[i]}
<1>0. /\ \A i \in 1..n : f[i] = (IF i = 1 THEN s[i] ELSE f[i - 1] \o s[i])
      /\ \A i \in 1..n : g[i] = (IF i = 1 THEN t[i] ELSE g[i - 1] \o t[i])
  <2>1. \A i \in 1..n : i \in 1..n + 1
    OBVIOUS
  <2> QED BY <2>1, FlatteningAt
<1>1. 0 \in S
  OBVIOUS
<1>2. ASSUME NEW k \in S, k < n PROVE k + 1 \in S
  <2>1. k + 1 \in 0..n /\ k + 1 \in 1..n /\ (k + 1 # 1 => k \in 1..k) /\ (k + 1) - 1 = k
    BY <1>2
  <2>2. f[k + 1] = g[k + 1]
    BY <1>0, <1>2, <2>1
  <2>3. \A i \in 1..k + 1 : i = k + 1 \/ i \in 1..k
    BY <1>2
  <2> QED BY <1>2, <2>1, <2>2, <2>3
<1>3. 0..n \subseteq S
  <2> HIDE DEF S
  <2> QED BY <1>1, <1>2, UpTo
<1> QED BY <1>3

LEMMA FlatteningTyped ==
  ASSUME NEW B, NEW s \in Seq(Seq(B)), NEW f, Flattens(f, s, Len(s))
  PROVE  \A i \in 1..Len(s) : f[i] \in Seq(B)
<1> DEFINE n == Len(s)
<1> DEFINE S == {k \in 0..n : \A i \in 1..k : f[i] \in Seq(B)}
<1>0. /\ n \in Nat
      /\ \A i \in 1..n : f[i] = (IF i = 1 THEN s[i] ELSE f[i - 1] \o s[i])
      /\ \A i \in 1..n : s[i] \in Seq(B)
  BY FlatteningAt
<1> HIDE DEF n
<1>1. 0 \in S
  BY <1>0
<1>2. ASSUME NEW k \in S, k < n PROVE k + 1 \in S
  <2>1. k + 1 \in 0..n /\ k + 1 \in 1..n /\ (k + 1 # 1 => k \in 1..k) /\ (k + 1) - 1 = k
    BY <1>0, <1>2
  <2>2. k + 1 = 1 \/ f[k] \in Seq(B)
    BY <1>2, <2>1
  <2>3. s[k + 1] \in Seq(B)
    BY <1>0, <2>1
  <2>4. f[k + 1] \in Seq(B)
    <3>1. CASE k + 1 = 1
      BY <1>0, <2>1, <2>3, <3>1
    <3>2. CASE k + 1 # 1
      <4>1. f[k + 1] = f[k] \o s[k + 1]
        BY <1>0, <2>1, <3>2
      <4> QED BY <2>2, <2>3, <3>2, <4>1, ConcatProperties
    <3> QED BY <3>1, <3>2
  <2>5. \A i \in 1..k + 1 : i = k + 1 \/ i \in 1..k
    BY <1>0, <1>2
  <2> QED BY <1>2, <2>1, <2>4, <2>5
<1>3. 0..n \subseteq S
  <2> HIDE DEF S
  <2> QED BY <1>0, <1>1, <1>2, UpTo
<1>4. n \in 0..n
  BY <1>0
<1>5. n \in S
  <2> HIDE DEF S
  <2> QED BY <1>3, <1>4
<1> QED BY <1>5 DEF n

LEMMA FlattenTyped ==
  ASSUME NEW B, NEW s \in Seq(Seq(B))
  PROVE  FlattenSeq(s) \in Seq(B)
<1>1. CASE Len(s) = 0
  BY <1>1, EmptySeq DEF FlattenSeq
<1>2. CASE Len(s) # 0
  <2>0. Len(s) \in Nat /\ Len(s) \in 1..Len(s)
    BY <1>2
  <2>1. PICK f : Flattens(f, s, Len(s)) /\ FlattenSeq(s) = f[Len(s)]
    BY <1>2, <2>0, FlatteningIs
  <2> QED BY <2>0, <2>1, FlatteningTyped
<1> QED BY <1>1, <1>2

LEMMA FlattenAppend ==
  ASSUME NEW B, NEW s \in Seq(Seq(B)), NEW x \in Seq(B)
  PROVE  FlattenSeq(Append(s, x)) = FlattenSeq(s) \o x
<1> DEFINE t == Append(s, x)
           n == Len(s)
<1>0. /\ n \in Nat /\ Len(t) = n + 1 /\ t[n + 1] = x /\ t \in Seq(Seq(B))
      /\ \A i \in 1..n : s[i] = t[i]
  BY AppendProperties
<1> HIDE DEF t
<1>1. PICK g : Flattens(g, t, n + 1) /\ FlattenSeq(t) = g[n + 1]
  BY SMTT(30), <1>0, FlatteningIs
<1>2. g[n + 1] = (IF n + 1 = 1 THEN t[n + 1] ELSE g[(n + 1) - 1] \o t[n + 1])
  <2>1. n + 1 \in 1..n + 1
    BY <1>0
  <2> QED BY <1>1, <2>1, FlatteningAt
<1>3. CASE n = 0
  <2>1. FlattenSeq(s) = <<>>
    BY <1>3, EmptySeq DEF FlattenSeq
  <2> QED BY <1>0, <1>1, <1>2, <1>3, <2>1, ConcatEmptySeq DEF t
<1>4. CASE n # 0
  <2>1. PICK f : Flattens(f, s, n) /\ FlattenSeq(s) = f[n]
    BY <1>0, <1>4, FlatteningIs
  <2>2. \A i \in 1..n : f[i] = g[i]
    <3> HIDE DEF n
    <3>1. n \in Nat
      BY <1>0
    <3>2. \A i \in 1..n : s[i] = t[i]
      BY <1>0
    <3>3. Flattens(f, s, n)
      BY <2>1
    <3>4. Flattens(g, t, n + 1)
      BY <1>1
    <3> HIDE DEF t
    <3> QED BY ONLY <3>1, <3>2, <3>3, <3>4, FlatteningsAgree
  <2>3. n \in 1..n /\ (n + 1) - 1 = n /\ n + 1 # 1
    BY <1>0, <1>4
  <2> QED BY <1>0, <1>1, <1>2, <2>1, <2>2, <2>3 DEF t
<1> QED BY <1>3, <1>4

----------------------------------------------------------------------------
(* What a terminal sends.                                                   *)

LEMMA EncodedTyped ==
  ASSUME NEW p \in Seq(Keys)
  PROVE  /\ [i \in DOMAIN p |-> Encoding[p[i]]] \in Seq(Seq(Bytes))
         /\ Len([i \in DOMAIN p |-> Encoding[p[i]]]) = Len(p)
         /\ \A i \in 1..Len(p) : [j \in DOMAIN p |-> Encoding[p[j]]][i] = Encoding[p[i]]
<1> DEFINE e == [i \in DOMAIN p |-> Encoding[p[i]]]
<1>1. DOMAIN p = 1..Len(p) /\ Len(p) \in Nat /\ \A i \in 1..Len(p) : p[i] \in Keys
  OBVIOUS
<1>2. \A i \in 1..Len(p) : Encoding[p[i]] \in Seq(Bytes)
  BY <1>1, EncodingTyped
<1>3. e = [i \in 1..Len(p) |-> Encoding[p[i]]]
  BY <1>1
<1>4. e \in [1..Len(p) -> Seq(Bytes)]
  BY <1>2, <1>3
<1>5. e \in Seq(Seq(Bytes)) /\ Len(e) = Len(p)
  BY <1>1, <1>4
<1>6. \A i \in 1..Len(p) : e[i] = Encoding[p[i]]
  BY <1>3
<1> QED BY <1>5, <1>6

LEMMA SentTyped ==
  ASSUME NEW p \in Seq(Keys)
  PROVE  Sent(p) \in Seq(Bytes)
BY EncodedTyped, FlattenTyped DEF Sent

LEMMA SentNothing == Sent(<<>>) = <<>>
<1> DEFINE e == [i \in DOMAIN <<>> |-> Encoding[<<>>[i]]]
<1>1. e \in Seq(Seq(Bytes)) /\ Len(e) = 0
  <2>1. <<>> \in Seq(Keys) /\ Len(<<>>) = 0
    BY EmptySeq
  <2> QED BY <2>1, EncodedTyped
<1>2. e = <<>>
  <2> HIDE DEF e
  <2> QED BY <1>1, EmptySeq
<1>3. FlattenSeq(<<>>) = <<>>
  BY EmptySeq DEF FlattenSeq
<1>4. Sent(<<>>) = FlattenSeq(e)
  BY DEF Sent
<1> QED BY <1>2, <1>3, <1>4

LEMMA SentAppend ==
  ASSUME NEW p \in Seq(Keys), NEW k \in Keys
  PROVE  Sent(Append(p, k)) = Sent(p) \o Encoding[k]
<1> DEFINE q == Append(p, k)
           e == [i \in DOMAIN p |-> Encoding[p[i]]]
           f == [i \in DOMAIN q |-> Encoding[q[i]]]
<1>1. /\ q \in Seq(Keys) /\ Len(q) = Len(p) + 1 /\ Len(p) \in Nat
      /\ \A i \in 1..Len(p) : q[i] = p[i]
      /\ q[Len(p) + 1] = k
  BY AppendProperties
<1> HIDE DEF q
<1>2. /\ e \in Seq(Seq(Bytes)) /\ Len(e) = Len(p)
      /\ \A i \in 1..Len(p) : e[i] = Encoding[p[i]]
  BY EncodedTyped
<1>3. /\ f \in Seq(Seq(Bytes)) /\ Len(f) = Len(p) + 1
      /\ \A i \in 1..Len(p) + 1 : f[i] = Encoding[q[i]]
  BY <1>1, EncodedTyped
<1>e. Sent(p) = FlattenSeq(e) /\ Sent(q) = FlattenSeq(f)
  BY DEF Sent
<1>4. Encoding[k] \in Seq(Bytes)
  BY EncodingTyped
<1> HIDE DEF e, f
<1> DEFINE g == Append(e, Encoding[k])
<1>5. /\ g \in Seq(Seq(Bytes)) /\ Len(g) = Len(p) + 1
      /\ \A i \in 1..Len(p) : g[i] = e[i]
      /\ g[Len(p) + 1] = Encoding[k]
  BY <1>2, <1>4, AppendProperties
<1>6. FlattenSeq(g) = FlattenSeq(e) \o Encoding[k]
  BY <1>2, <1>4, FlattenAppend
<1> HIDE DEF g
<1>7. \A i \in 1..Len(p) + 1 : f[i] = g[i]
  <2> TAKE i \in 1..Len(p) + 1
  <2>1. CASE i \in 1..Len(p)
    <3>1. f[i] = Encoding[q[i]] /\ q[i] = p[i] /\ e[i] = Encoding[p[i]] /\ g[i] = e[i]
      BY <2>1, <1>1, <1>2, <1>3, <1>5, Zenon
    <3> QED BY <3>1
  <2>2. CASE i = Len(p) + 1
    BY <2>2, <1>1, <1>3, <1>5
  <2> QED BY <2>1, <2>2, <1>1
<1>8. f = g
  BY <1>3, <1>5, <1>7, SeqEqual
<1> QED BY <1>6, <1>8, <1>e DEF q

\* The keys from a to b.
Part(p, a, b) == Sent(SubSeq(p, a, b))

LEMMA PartOf ==
  ASSUME NEW p \in Seq(Keys), NEW a \in 1..Len(p) + 1, NEW b \in 0..Len(p)
  PROVE  Part(p, a, b) \in Seq(Bytes) /\ SubSeq(p, a, b) \in Seq(Keys)
<1>1. \A i \in a..b : p[i] \in Keys
  OBVIOUS
<1>2. SubSeq(p, a, b) \in Seq(Keys)
  BY <1>1, SubSeqProperties
<1> QED BY <1>2, SentTyped DEF Part

LEMMA PartNone ==
  ASSUME NEW p \in Seq(Keys), NEW b \in 0..Len(p)
  PROVE  Part(p, b + 1, b) = <<>>
<1>1. SubSeq(p, b + 1, b) = <<>>
  BY SubSeqEmpty
<1> QED BY <1>1, SentNothing DEF Part

LEMMA PartNext ==
  ASSUME NEW p \in Seq(Keys), NEW a \in 1..Len(p) + 1, NEW b \in 0..Len(p),
         a <= b + 1, b < Len(p)
  PROVE  Part(p, a, b + 1) = Part(p, a, b) \o Encoding[p[b + 1]]
<1>1. p[b + 1] \in Keys
  OBVIOUS
<1>2. SubSeq(p, a, b) \in Seq(Keys)
  BY PartOf
<1>3. a \in 1..Len(p) /\ b + 1 \in a..Len(p) /\ (b + 1) - 1 = b
  OBVIOUS
<1>4. SubSeq(p, a, b + 1) = SubSeq(p, a, b) \o <<p[b + 1]>>
  BY <1>3, SubSeqRecursiveSecond
<1>5. SubSeq(p, a, b + 1) = Append(SubSeq(p, a, b), p[b + 1])
  BY <1>1, <1>2, <1>4, AppendIsConcat
<1> QED BY <1>1, <1>2, <1>5, SentAppend DEF Part

LEMMA Regrouped ==
  \A x, y, z \in Seq(Bytes) : (x \o y) \o z = x \o (y \o z)
<1>1. \A B : \A x, y, z \in Seq(B) : (x \o y) \o z = x \o (y \o z)
  BY ConcatAssociative
<1> QED BY ONLY <1>1

LEMMA PartsGrow ==
  ASSUME NEW p \in Seq(Keys), NEW a \in 1..Len(p) + 1, NEW i \in 0..Len(p), a <= i + 1,
         NEW b \in i..Len(p) - 1, Part(p, a, b) = Part(p, a, i) \o Part(p, i + 1, b)
  PROVE  Part(p, a, b + 1) = Part(p, a, i) \o Part(p, i + 1, b + 1)
<1>1. /\ b \in 0..Len(p) /\ b < Len(p) /\ a <= b + 1 /\ i + 1 \in 1..Len(p) + 1
      /\ i + 1 <= b + 1 /\ p[b + 1] \in Keys
  OBVIOUS
<1>2. Encoding[p[b + 1]] \in Seq(Bytes)
  BY <1>1, EncodingTyped
<1>3. Part(p, a, b + 1) = Part(p, a, b) \o Encoding[p[b + 1]]
  BY <1>1, PartNext
<1>4. Part(p, i + 1, b + 1) = Part(p, i + 1, b) \o Encoding[p[b + 1]]
  BY <1>1, PartNext
<1>5. Part(p, a, i) \in Seq(Bytes) /\ Part(p, i + 1, b) \in Seq(Bytes)
  BY <1>1, PartOf
<1>6. (Part(p, a, i) \o Part(p, i + 1, b)) \o Encoding[p[b + 1]]
        = Part(p, a, i) \o (Part(p, i + 1, b) \o Encoding[p[b + 1]])
  BY ONLY <1>2, <1>5, Regrouped, Zenon
<1> QED BY <1>3, <1>4, <1>6, Zenon

LEMMA PartsJoin ==
  ASSUME NEW p \in Seq(Keys), NEW a \in 1..Len(p) + 1, NEW i \in 0..Len(p), a <= i + 1
  PROVE  Part(p, a, Len(p)) = Part(p, a, i) \o Part(p, i + 1, Len(p))
<1> DEFINE n == Len(p) - i
           S == {m \in 0..n : Part(p, a, i + m) = Part(p, a, i) \o Part(p, i + 1, i + m)}
<1>0. n \in Nat /\ i \in Nat /\ Len(p) \in Nat /\ i + n = Len(p)
  OBVIOUS
<1>1. 0 \in S
  <2>1. Part(p, i + 1, i) = <<>> /\ Part(p, a, i) \in Seq(Bytes)
    BY PartNone, PartOf
  <2>2. i + 0 = i /\ 0 \in 0..n
    BY <1>0
  <2> QED BY <2>1, <2>2, ConcatEmptySeq
<1>2. ASSUME NEW m \in S, m < n PROVE m + 1 \in S
  <2>1. /\ i + m \in i..Len(p) - 1 /\ m + 1 \in 0..n /\ (i + m) + 1 = i + (m + 1)
        /\ Part(p, a, i + m) = Part(p, a, i) \o Part(p, i + 1, i + m)
    BY <1>0, <1>2
  <2>2. Part(p, a, (i + m) + 1) = Part(p, a, i) \o Part(p, i + 1, (i + m) + 1)
    BY <2>1, PartsGrow
  <2> QED BY <2>1, <2>2
<1>3. 0..n \subseteq S
  <2> HIDE DEF S, n
  <2> QED BY <1>0, <1>1, <1>2, UpTo
<1>4. n \in S
  <2>1. n \in 0..n
    BY <1>0
  <2> HIDE DEF S, n
  <2> QED BY <1>3, <2>1
<1> QED BY <1>0, <1>4

LEMMA PartOne ==
  ASSUME NEW p \in Seq(Keys), NEW a \in 1..Len(p)
  PROVE  Part(p, a, Len(p)) = Encoding[p[a]] \o Part(p, a + 1, Len(p))
<1>0. /\ a - 1 \in 0..Len(p) /\ a - 1 < Len(p) /\ (a - 1) + 1 = a /\ a \in 1..Len(p) + 1
      /\ a \in 0..Len(p) /\ a <= (a - 1) + 1 /\ a <= a + 1 /\ p[a] \in Keys
  OBVIOUS
<1>1. Part(p, a, a) = Part(p, a, a - 1) \o Encoding[p[a]]
  BY <1>0, PartNext
<1>2. Part(p, a, a - 1) = <<>>
  BY <1>0, PartNone
<1>3. Part(p, a, a) = Encoding[p[a]]
  BY <1>0, <1>1, <1>2, EncodingTyped, ConcatEmptySeq
<1>4. Part(p, a, Len(p)) = Part(p, a, a) \o Part(p, a + 1, Len(p))
  BY <1>0, PartsJoin
<1> QED BY <1>3, <1>4

\* Keys that were read one by one are a beginning of what was sent.
LEMMA ReadSent ==
  ASSUME NEW p \in Seq(Keys), NEW r \in Seq(Seq(Bytes)), Len(r) <= Len(p),
         \A i \in DOMAIN r : r[i] = Encoding[p[i]]
  PROVE  FlattenSeq(r) = Part(p, 1, Len(r))
<1> DEFINE q == SubSeq(p, 1, Len(r))
           e == [i \in DOMAIN q |-> Encoding[q[i]]]
<1>1. Len(r) \in Nat /\ DOMAIN r = 1..Len(r) /\ \A i \in 1..Len(r) : p[i] \in Keys
  OBVIOUS
<1>2. /\ q \in Seq(Keys) /\ Len(q) = Len(r)
      /\ \A i \in 1..Len(r) : q[i] = p[i]
  <2>1. /\ q \in Seq(Keys) /\ Len(q) = (IF 1 <= Len(r) THEN Len(r) - 1 + 1 ELSE 0)
        /\ \A i \in 1..Len(r) - 1 + 1 : q[i] = p[1 + i - 1]
    BY <1>1, SubSeqProperties
  <2> HIDE DEF q
  <2> QED BY <1>1, <2>1
<1> HIDE DEF q
<1>3. /\ e \in Seq(Seq(Bytes)) /\ Len(e) = Len(r)
      /\ \A i \in 1..Len(r) : e[i] = Encoding[q[i]]
  BY <1>2, EncodedTyped
<1>4. Sent(q) = FlattenSeq(e)
  BY DEF Sent
<1> HIDE DEF e
<1>5. \A i \in 1..Len(r) : e[i] = r[i]
  <2> TAKE i \in 1..Len(r)
  <2>1. e[i] = Encoding[q[i]] /\ q[i] = p[i] /\ r[i] = Encoding[p[i]]
    BY <1>1, <1>2, <1>3, Zenon
  <2> QED BY <2>1
<1>6. e = r
  BY <1>3, <1>5, SeqEqual
<1> QED BY <1>4, <1>6 DEF Part, q

----------------------------------------------------------------------------
(* What the reader makes of it.                                             *)

\* An Escape typed alone is not followed by a key that is the second byte of a
\* sequence: no reader can tell the two from the sequence.
Unambiguous == "esc" \notin Keys \/ Keys \cap Introducers = {}

LEMMA Cancelled ==
  \A B : \A x, y, z \in Seq(B) : x \o y = x \o z => y = z
BY ConcatSimplifications

\* Two sequences that go on to the same one agree as far as both go.
Agree(x, y, z, t) ==
  /\ Len(x) + Len(y) = Len(z) + Len(t)
  /\ \A i \in 1..Len(x) : x[i] = (IF i <= Len(z) THEN z[i] ELSE t[i - Len(z)])

LEMMA Overlap ==
  \A B : \A x, y, z, t \in Seq(B) : x \o y = z \o t => Agree(x, y, z, t)
<1> SUFFICES ASSUME NEW B, NEW x \in Seq(B), NEW y \in Seq(B), NEW z \in Seq(B),
                    NEW t \in Seq(B), x \o y = z \o t
             PROVE  Agree(x, y, z, t)
  OBVIOUS
<1>1. /\ Len(x) \in Nat /\ Len(y) \in Nat /\ Len(z) \in Nat /\ Len(t) \in Nat
  OBVIOUS
<1>2. /\ Len(x \o y) = Len(x) + Len(y)
      /\ \A i \in 1..Len(x) + Len(y) : (x \o y)[i] = IF i <= Len(x) THEN x[i] ELSE y[i - Len(x)]
  BY ConcatProperties
<1>3. /\ Len(z \o t) = Len(z) + Len(t)
      /\ \A i \in 1..Len(z) + Len(t) : (z \o t)[i] = IF i <= Len(z) THEN z[i] ELSE t[i - Len(z)]
  BY ConcatProperties
<1>4. \A i \in 1..Len(x) : i \in 1..Len(x) + Len(y) /\ i <= Len(x)
  BY <1>1
<1> QED BY <1>2, <1>3, <1>4 DEF Agree

LEMMA FirstOf ==
  \A B : \A x, y \in Seq(B) : x # <<>> => (x \o y)[1] = x[1] /\ x \o y # <<>>
OBVIOUS

\* What begins the next key does not go on with an Escape.
LEMMA NextKeyBegins ==
  ASSUME Unambiguous, "esc" \in Keys, NEW p \in Seq(Keys), NEW a \in 1..Len(p) + 1,
         Part(p, a, Len(p)) # <<>>
  PROVE  Part(p, a, Len(p))[1] \notin Introducers
<1>0. Len(p) \in Nat
  OBVIOUS
<1>1. a \in 1..Len(p)
  <2>1. CASE a = Len(p) + 1
    BY <1>0, <2>1, PartNone
  <2> QED BY <1>0, <2>1
<1> DEFINE k == p[a]
<1>2. k \in Keys /\ k \notin Introducers
  BY <1>1 DEF Unambiguous
<1>3. Part(p, a, Len(p)) = Encoding[k] \o Part(p, a + 1, Len(p))
  BY <1>1, PartOne
<1>4. Part(p, a + 1, Len(p)) \in Seq(Bytes)
  BY <1>0, <1>1, PartOf
<1> HIDE DEF k
<1>5. Encoding[k] \in Seq(Bytes) /\ Encoding[k] # <<>>
  BY <1>2, EncodingTyped
<1>6. Part(p, a, Len(p))[1] = Encoding[k][1]
  <2>1. (Encoding[k] \o Part(p, a + 1, Len(p)))[1] = Encoding[k][1]
    BY ONLY <1>4, <1>5, FirstOf, Zenon
  <2> QED BY <1>3, <2>1
<1>7. Encoding[k][1] \in {"esc", "lead", k}
  BY <1>2 DEF Encoding, Up
<1> QED BY <1>2, <1>6, <1>7 DEF Introducers

\* A sequence ends with the first byte that may end one.
LEMMA SequenceEnds ==
  ASSUME NEW d, Len(d) \in Nat, NEW n \in 1..Len(d), Ends(d, n),
         d[1] = "esc", d[2] \in Introducers,
         NEW m \in Nat, m > 2, Len(d) >= m => d[m] \in Final,
         \A i \in 3..m - 1 : Len(d) >= i => d[i] \notin Final
  PROVE  n = m
<1>1. n > 2 /\ d[n] \in Final /\ \A i \in 3..n - 1 : d[i] \notin Final
  BY DEF Ends
<1>2. ~ (n < m)
  <2> SUFFICES ASSUME n < m PROVE FALSE
    OBVIOUS
  <2>1. n \in 3..m - 1 /\ Len(d) >= n
    BY <1>1
  <2> QED BY <1>1, <2>1
<1>3. ~ (n > m)
  <2> SUFFICES ASSUME n > m PROVE FALSE
    OBVIOUS
  <2>1. m \in 3..n - 1 /\ Len(d) >= m
    BY <1>1
  <2> QED BY <1>1, <2>1
<1> QED BY <1>2, <1>3

\* d begins with the bytes of k.
LEMMA BeginsEnds ==
  ASSUME NEW k \in Keys, NEW e, e = Encoding[k], NEW d, Len(d) \in Nat, NEW n \in 1..Len(d),
         Ends(d, n), \A i \in 1..Len(d) : i <= Len(e) => d[i] = e[i],
         k = "esc" /\ Len(d) > 1 => d[2] \notin Introducers
  PROVE  n = Len(e)
<1>1. 1 \in 1..Len(d) /\ (Len(d) > 1 => 2 \in 1..Len(d)) /\ (Len(d) > 2 => 3 \in 1..Len(d))
      /\ (Len(d) > 3 => 4 \in 1..Len(d)) /\ (Len(d) > 4 => 5 \in 1..Len(d))
  OBVIOUS
<1>2. "A" \in Final /\ "semi" \notin Final /\ "5" \notin Final
  BY DEF Final, Parameters
<1>k. k \notin {"lead", "rest"}
  BY KeysAssumption
<1>5. CASE k \notin {"up", "app up", "ctrl up", "accent", "esc"}
  <2>1. e = <<k>>
    BY <1>5 DEF Encoding
  <2>2. Len(e) = 1 /\ e[1] = k
    BY <2>1
  <2>3. d[1] = k
    BY <1>1, <2>2
  <2>4. n = 1
    BY <1>5, <1>k, <2>3 DEF Ends
  <2> QED BY <2>2, <2>4
<1>6. CASE k = "accent"
  <2>1. e = <<"lead", "rest">>
    BY <1>6 DEF Encoding
  <2>2. Len(e) = 2 /\ e[1] = "lead" /\ e[2] = "rest"
    BY <2>1
  <2>3. d[1] = "lead" /\ (Len(d) > 1 => d[2] = "rest")
    BY <1>1, <2>2
  <2>4. n = 2
    BY <2>3 DEF Ends
  <2> QED BY <2>2, <2>4
<1>7. CASE k = "esc"
  <2>1. e = <<"esc">>
    BY <1>7 DEF Encoding
  <2>2. Len(e) = 1 /\ e[1] = "esc"
    BY <2>1
  <2>3. d[1] = "esc"
    BY <1>1, <2>2
  <2>4. n = 1
    BY <1>7, <2>3 DEF Ends
  <2> QED BY <2>2, <2>4
<1>8. CASE k = "up" \/ k = "app up"
  <2>1. e = <<"esc", "[", "A">> \/ e = <<"esc", "O", "A">>
    BY <1>8 DEF Encoding, Up
  <2>2. Len(e) = 3 /\ e[1] = "esc" /\ (e[2] = "[" \/ e[2] = "O") /\ e[3] = "A"
    BY ONLY <2>1
  <2>3. d[1] = "esc" /\ (Len(d) > 1 => d[2] = "[" \/ d[2] = "O") /\ (Len(d) > 2 => d[3] = "A")
    BY <1>1, <2>2
  <2>4. Len(d) > 1
    BY <2>3 DEF Ends
  <2>5. d[2] \in Introducers
    BY <2>3, <2>4 DEF Introducers
  <2>6. Len(d) >= 3 => d[3] \in Final
    BY <1>2, <2>3
  <2>7. \A i \in 3..3 - 1 : Len(d) >= i => d[i] \notin Final
    OBVIOUS
  <2>8. n = 3
    BY <2>3, <2>5, <2>6, <2>7, SequenceEnds
  <2> QED BY <2>2, <2>8
<1>9. CASE k = "ctrl up"
  <2>1. e = <<"esc", "[", "semi", "5", "A">>
    BY <1>9 DEF Encoding
  <2>2. Len(e) = 5 /\ e[1] = "esc" /\ e[2] = "[" /\ e[3] = "semi" /\ e[4] = "5" /\ e[5] = "A"
    BY ONLY <2>1
  <2>3. d[1] = "esc" /\ (Len(d) > 1 => d[2] = "[") /\ (Len(d) > 2 => d[3] = "semi")
        /\ (Len(d) > 3 => d[4] = "5") /\ (Len(d) > 4 => d[5] = "A")
    BY <1>1, <2>2
  <2>4. Len(d) > 1
    BY <2>3 DEF Ends
  <2>5. d[2] \in Introducers
    BY <2>3, <2>4 DEF Introducers
  <2>6. Len(d) >= 5 => d[5] \in Final
    BY <1>2, <2>3
  <2>7. \A i \in 3..5 - 1 : Len(d) >= i => d[i] \notin Final
    <3>1. \A i \in 3..5 - 1 : i = 3 \/ i = 4
      OBVIOUS
    <3>2. (Len(d) >= 3 => d[3] \notin Final) /\ (Len(d) >= 4 => d[4] \notin Final)
      BY <1>2, <2>3
    <3> QED BY <3>1, <3>2, Zenon
  <2>8. n = 5
    BY <2>3, <2>5, <2>6, <2>7, SequenceEnds
  <2> QED BY <2>2, <2>8
<1> QED BY <1>5, <1>6, <1>7, <1>8, <1>9

\* The bytes of a key end where the reader says.
MayFollow(w, k) == k = "esc" /\ w # <<>> => w[1] \notin Introducers
Starts(e, n, d) == n = Len(e) /\ \A i \in 1..n : d[i] = e[i]

LEMMA KeyEnds ==
  \A k \in Keys : \A e, w, d, v \in Seq(Bytes) : \A n \in Complete(d) :
    e = Encoding[k] /\ d \o v = e \o w /\ MayFollow(w, k) => Starts(e, n, d)
<1> TAKE k \in Keys
<1> TAKE e \in Seq(Bytes), w \in Seq(Bytes), d \in Seq(Bytes), v \in Seq(Bytes)
<1> TAKE n \in Complete(d)
<1> HAVE e = Encoding[k] /\ d \o v = e \o w /\ MayFollow(w, k)
<1>1. n \in 1..Len(d) /\ Ends(d, n)
  BY DEF Complete
<1>2. Len(d) \in Nat /\ Len(v) \in Nat /\ Len(w) \in Nat /\ Len(e) \in Nat
  OBVIOUS
<1>3. /\ Len(d) + Len(v) = Len(e) + Len(w)
      /\ \A i \in 1..Len(d) : d[i] = (IF i <= Len(e) THEN e[i] ELSE w[i - Len(e)])
  <2>1. Agree(d, v, e, w)
    BY Overlap, Zenon
  <2> QED BY <2>1 DEF Agree
<1>4. k = "esc" => Len(e) = 1
  <2>1. k = "esc" => e = <<"esc">>
    BY DEF Encoding
  <2> QED BY ONLY <2>1
<1>5. k = "esc" /\ Len(d) > 1 => d[2] \notin Introducers
  <2> SUFFICES ASSUME k = "esc", Len(d) > 1 PROVE d[2] \notin Introducers
    OBVIOUS
  <2>1. 2 \in 1..Len(d) /\ ~ (2 <= 1) /\ 2 - 1 = 1
    BY <1>2
  <2>2. d[2] = w[1]
    BY <1>3, <1>4, <2>1
  <2>3. Len(w) # 0
    BY SMTT(30), <1>2, <1>3, <1>4
  <2>4. w # <<>>
    BY <2>3
  <2> QED BY <2>2, <2>4 DEF MayFollow
<1>6. \A i \in 1..Len(d) : i <= Len(e) => d[i] = e[i]
  BY <1>3
<1>7. n = Len(e)
  BY <1>1, <1>2, <1>5, <1>6, BeginsEnds
<1>8. \A i \in 1..n : i \in 1..Len(d) /\ i <= n
  BY <1>1, <1>2
<1> QED BY <1>6, <1>7, <1>8 DEF Starts

----------------------------------------------------------------------------
(* Keys are whole.                                                          *)

LEMMA PartBefore ==
  ASSUME NEW p \in Seq(Keys), NEW k \in Keys, NEW a \in 1..Len(p) + 1
  PROVE  Part(Append(p, k), a, Len(p) + 1) = Part(p, a, Len(p)) \o Encoding[k]
<1> DEFINE q == Append(p, k)
           n == Len(p)
<1>1. /\ q \in Seq(Keys) /\ Len(q) = n + 1 /\ n \in Nat /\ q[n + 1] = k
      /\ \A i \in 1..n : q[i] = p[i]
  BY AppendProperties
<1>2. /\ a \in 1..Len(q) + 1 /\ n \in 0..Len(q) /\ a <= n + 1 /\ n < Len(q) /\ n \in 0..Len(p)
  BY <1>1
<1> HIDE DEF q, n
<1>3. Part(q, a, n + 1) = Part(q, a, n) \o Encoding[k]
  BY <1>1, <1>2, PartNext
<1>4. SubSeq(q, a, n) = SubSeq(p, a, n)
  <2>1. a \in Int /\ n \in Int /\ \A i \in a..n : q[i] \in Keys /\ p[i] \in Keys /\ q[i] = p[i]
    BY <1>1, <1>2 DEF n
  <2>2. /\ SubSeq(q, a, n) \in Seq(Keys)
        /\ Len(SubSeq(q, a, n)) = (IF a <= n THEN n - a + 1 ELSE 0)
        /\ \A i \in 1..n - a + 1 : SubSeq(q, a, n)[i] = q[a + i - 1]
    BY <2>1, SubSeqProperties
  <2>3. /\ SubSeq(p, a, n) \in Seq(Keys)
        /\ Len(SubSeq(p, a, n)) = (IF a <= n THEN n - a + 1 ELSE 0)
        /\ \A i \in 1..n - a + 1 : SubSeq(p, a, n)[i] = p[a + i - 1]
    BY <2>1, SubSeqProperties
  <2>4. \A i \in 1..n - a + 1 : a + i - 1 \in a..n
    BY <2>1
  <2>5. \A i \in 1..n - a + 1 : SubSeq(q, a, n)[i] = SubSeq(p, a, n)[i]
    BY <2>1, <2>2, <2>3, <2>4
  <2>6. \A i \in 1..Len(SubSeq(q, a, n)) : i \in 1..n - a + 1
    BY <2>1, <2>2
  <2> QED BY <2>2, <2>3, <2>5, <2>6, SeqEqual
<1> QED BY <1>3, <1>4 DEF Part, q, n

\* What has not been read yet.
Told ==
  /\ Len(read) <= Len(pressed)
  /\ \A i \in DOMAIN read : read[i] = Encoding[pressed[i]]
  /\ pending \o wire = Part(pressed, Len(read) + 1, Len(pressed))

Kept == (FlattenSeq(read) \o pending) \o wire = Sent(pressed)

LEMMA Whole == KeysWhole <=> dropped \/ (slow /\ Kept) \/ (~slow /\ Told)
BY DEF KeysWhole, Told, Kept, Part

LEMMA WholeNext ==
  ASSUME dropped' \/ (slow' /\ Kept') \/ (~slow' /\ Told')
  PROVE  KeysWhole'
BY DEF KeysWhole, Told, Kept, Part

LEMMA Bytewise ==
  ASSUME KeysTypeOK
  PROVE  /\ pressed \in Seq(Keys) /\ wire \in Seq(Bytes) /\ pending \in Seq(Bytes)
         /\ read \in Seq(Seq(Bytes)) /\ FlattenSeq(read) \in Seq(Bytes)
         /\ Len(pressed) \in Nat /\ Len(wire) \in Nat /\ Len(pending) \in Nat /\ Len(read) \in Nat
BY FlattenTyped DEF KeysTypeOK

\* As long as the keys are told apart no byte is lost.
LEMMA ToldKept ==
  ASSUME KeysTypeOK, Told
  PROVE  Kept
<1>1. FlattenSeq(read) = Part(pressed, 1, Len(read))
  BY Bytewise, ReadSent DEF Told
<1>2. Part(pressed, 1, Len(pressed))
        = Part(pressed, 1, Len(read)) \o Part(pressed, Len(read) + 1, Len(pressed))
  <2>1. 1 \in 1..Len(pressed) + 1 /\ Len(read) \in 0..Len(pressed) /\ 1 <= Len(read) + 1
    BY Bytewise DEF Told
  <2> QED BY <2>1, Bytewise, PartsJoin
<1>3. Part(pressed, 1, Len(pressed)) = Sent(pressed)
  BY Bytewise, SubSeqFull DEF Part
<1>4. (FlattenSeq(read) \o pending) \o wire = FlattenSeq(read) \o (pending \o wire)
  BY Bytewise, Regrouped, Zenon
<1> QED BY <1>1, <1>2, <1>3, <1>4, Zenon DEF Told, Kept

LEMMA PressWhole ==
  ASSUME KeysTypeOK, KeysWhole, NEW k \in Keys, Press(k)
  PROVE  KeysWhole'
<1>1. /\ pressed' = Append(pressed, k) /\ wire' = wire \o Encoding[k] /\ ~dropped
      /\ pending' = pending /\ read' = read /\ slow' = slow /\ dropped' = dropped
  BY DEF Press
<1>2. Encoding[k] \in Seq(Bytes) /\ Len(pressed') = Len(pressed) + 1
  BY <1>1, EncodingTyped, Bytewise
<1>3. CASE slow /\ Kept
  <2>1. FlattenSeq(read) \o pending \in Seq(Bytes)
    BY Bytewise, ConcatProperties
  <2>2. ((FlattenSeq(read) \o pending) \o wire) \o Encoding[k]
          = (FlattenSeq(read) \o pending) \o (wire \o Encoding[k])
    BY <1>2, <2>1, Bytewise, Regrouped, Zenon
  <2>3. Sent(pressed') = Sent(pressed) \o Encoding[k]
    BY <1>1, Bytewise, SentAppend
  <2>4. Kept'
    BY <1>1, <1>3, <2>2, <2>3, Zenon DEF Kept
  <2> QED BY <1>1, <1>3, <2>4, WholeNext
<1>4. CASE ~slow /\ Told
  <2>1. (pending \o wire) \o Encoding[k] = pending \o (wire \o Encoding[k])
    BY <1>2, Bytewise, Regrouped, Zenon
  <2>2. Len(read) + 1 \in 1..Len(pressed) + 1 /\ DOMAIN read = 1..Len(read)
    BY <1>4, Bytewise DEF Told
  <2>3. Part(pressed', Len(read) + 1, Len(pressed) + 1)
          = Part(pressed, Len(read) + 1, Len(pressed)) \o Encoding[k]
    BY <1>1, <2>2, Bytewise, PartBefore
  <2>4. pending' \o wire' = Part(pressed', Len(read') + 1, Len(pressed'))
    BY <1>1, <1>2, <1>4, <2>1, <2>3, Zenon DEF Told
  <2>5. Len(read') <= Len(pressed')
    BY <1>1, <1>2, <1>4, Bytewise DEF Told
  <2>6. \A i \in DOMAIN read' : read'[i] = Encoding[pressed'[i]]
    <3> SUFFICES ASSUME NEW i \in DOMAIN read PROVE read[i] = Encoding[pressed'[i]]
      BY <1>1
    <3>1. i \in 1..Len(pressed)
      BY <1>4, <2>2, Bytewise DEF Told
    <3>2. pressed'[i] = pressed[i]
      BY <1>1, <3>1, Bytewise, AppendProperties
    <3> QED BY <1>4, <3>2 DEF Told
  <2> QED BY <1>1, <1>4, <2>4, <2>5, <2>6, WholeNext DEF Told
<1> QED BY <1>1, <1>3, <1>4, Whole

\* Bytes that are returned as a key are no longer pending.
LEMMA ReturnKept ==
  ASSUME KeysTypeOK, Kept, ~dropped, NEW key \in Seq(Bytes), NEW rest \in Seq(Bytes),
         pending = key \o rest, Return(key), pending' = rest, UNCHANGED <<pressed, wire>>
  PROVE  Kept'
<1>1. read' = Append(read, key)
  BY DEF Return
<1>2. FlattenSeq(read') = FlattenSeq(read) \o key
  BY <1>1, Bytewise, FlattenAppend
<1>3. FlattenSeq(read) \o (key \o rest) = (FlattenSeq(read) \o key) \o rest
  <2>1. FlattenSeq(read) \in Seq(Bytes)
    BY Bytewise
  <2> QED BY ONLY key \in Seq(Bytes), rest \in Seq(Bytes), <2>1, Regrouped, Zenon
<1> QED BY <1>2, <1>3, Zenon DEF Kept

LEMMA ReturnTold ==
  ASSUME KeysTypeOK, Told, ~dropped, NEW key \in Seq(Bytes), NEW rest \in Seq(Bytes),
         pending = key \o rest, Return(key), pending' = rest, UNCHANGED <<pressed, wire>>,
         Len(read) + 1 \in DOMAIN pressed, key = Encoding[pressed[Len(read) + 1]]
  PROVE  Told'
<1> DEFINE a == Len(read) + 1
<1>1. /\ read' = Append(read, key) /\ pressed' = pressed /\ wire' = wire
      /\ a \in 1..Len(pressed) /\ a + 1 \in 1..Len(pressed) + 1
      /\ Len(pressed) \in 0..Len(pressed)
  BY Bytewise DEF Return
<1>2. /\ Len(read') = a /\ DOMAIN read' = 1..a /\ DOMAIN read = 1..Len(read)
      /\ \A i \in 1..Len(read) : read'[i] = read[i]
      /\ read'[a] = key
  <2>1. Append(read, key) \in Seq(Seq(Bytes))
    BY Bytewise, AppendProperties
  <2> QED BY <1>1, <2>1, Bytewise, AppendProperties
<1> HIDE DEF a
<1>3. \A i \in DOMAIN read' : read'[i] = Encoding[pressed'[i]]
  <2> TAKE i \in DOMAIN read'
  <2>1. CASE i \in 1..Len(read)
    BY <1>1, <1>2, <2>1, Zenon DEF Told
  <2>2. CASE i = a
    BY <1>1, <1>2, <2>2 DEF a
  <2> QED BY <1>2, <2>1, <2>2, Bytewise DEF a
<1>4. rest \o wire = Part(pressed, a + 1, Len(pressed))
  <2> DEFINE later == Part(pressed, a + 1, Len(pressed))
  <2>1. later \in Seq(Bytes)
    BY <1>1, Bytewise, PartOf
  <2>2. Part(pressed, a, Len(pressed)) = key \o later
    BY <1>1, Bytewise, PartOne DEF a
  <2> HIDE DEF later
  <2>3. (key \o rest) \o wire = key \o (rest \o wire)
    <3>1. wire \in Seq(Bytes)
      BY Bytewise
    <3> QED BY ONLY key \in Seq(Bytes), rest \in Seq(Bytes), <3>1, Regrouped, Zenon
  <2>4. rest \o wire \in Seq(Bytes)
    BY Bytewise, ConcatProperties
  <2>5. key \o (rest \o wire) = key \o later
    BY <2>2, <2>3, Zenon DEF Told, a
  <2>6. rest \o wire = later
    BY <2>1, <2>4, <2>5, Cancelled, Zenon
  <2> QED BY <2>6 DEF later
<1> QED BY <1>1, <1>2, <1>3, <1>4 DEF Told

LEMMA Split ==
  ASSUME NEW s \in Seq(Bytes), NEW n \in 0..Len(s)
  PROVE  /\ SubSeq(s, 1, n) \in Seq(Bytes) /\ SubSeq(s, n + 1, Len(s)) \in Seq(Bytes)
         /\ s = SubSeq(s, 1, n) \o SubSeq(s, n + 1, Len(s))
<1>1. /\ 1 \in 1..Len(s) + 1 /\ n \in 1 - 1..Len(s) /\ Len(s) \in n..Len(s)
      /\ \A i \in 1..n : s[i] \in Bytes
      /\ \A i \in n + 1..Len(s) : s[i] \in Bytes
  OBVIOUS
<1>2. SubSeq(s, 1, n) \in Seq(Bytes) /\ SubSeq(s, n + 1, Len(s)) \in Seq(Bytes)
  BY <1>1, SubSeqProperties
<1>3. SubSeq(s, 1, n) \o SubSeq(s, n + 1, Len(s)) = SubSeq(s, 1, Len(s))
  BY <1>1, ConcatAdjacentSubSeq
<1>4. SubSeq(s, 1, Len(s)) = s
  BY SubSeqFull
<1> QED BY <1>2, <1>3, <1>4

LEMMA Beginning ==
  ASSUME NEW s \in Seq(Bytes), NEW n \in 0..Len(s), NEW e \in Seq(Bytes), n = Len(e),
         \A i \in 1..n : s[i] = e[i]
  PROVE  SubSeq(s, 1, n) = e
<1>1. \A i \in 1..n : s[i] \in Bytes
  OBVIOUS
<1>2. /\ SubSeq(s, 1, n) \in Seq(Bytes) /\ Len(SubSeq(s, 1, n)) = (IF 1 <= n THEN n - 1 + 1 ELSE 0)
      /\ \A i \in 1..n - 1 + 1 : SubSeq(s, 1, n)[i] = s[1 + i - 1]
  BY <1>1, SubSeqProperties
<1>3. Len(SubSeq(s, 1, n)) = n /\ \A i \in 1..n : SubSeq(s, 1, n)[i] = e[i]
  BY <1>2
<1> QED BY <1>2, <1>3, SeqEqual

\* Told, a key that is complete is the next one that was pressed.
LEMMA NextKey ==
  ASSUME Unambiguous, KeysTypeOK, Told, NEW n \in Complete(pending)
  PROVE  /\ Len(read) + 1 \in DOMAIN pressed
         /\ SubSeq(pending, 1, n) = Encoding[pressed[Len(read) + 1]]
<1> DEFINE a == Len(read) + 1
           w == Part(pressed, a + 1, Len(pressed))
           k == pressed[a]
           e == Encoding[k]
<1>1. n \in 1..Len(pending) /\ a \in 1..Len(pressed) + 1
  BY Bytewise DEF Complete, Told
<1>2. a \in 1..Len(pressed)
  <2>1. CASE a = Len(pressed) + 1
    <3>1. Part(pressed, a, Len(pressed)) = <<>>
      BY <2>1, Bytewise, PartNone
    <3>2. pending \o wire = <<>>
      BY <3>1 DEF Told
    <3>3. pending = <<>>
      BY <3>2, Bytewise, ConcatEqualIffEmpty
    <3> QED BY <1>1, <3>3, Bytewise
  <2> QED BY <1>1, <2>1, Bytewise
<1>3. /\ a \in DOMAIN pressed /\ k \in Keys /\ a + 1 \in 1..Len(pressed) + 1
      /\ Len(pressed) \in 0..Len(pressed)
  BY <1>2, Bytewise
<1>4. w \in Seq(Bytes) /\ e \in Seq(Bytes) /\ pending \in Seq(Bytes) /\ wire \in Seq(Bytes)
  BY <1>3, Bytewise, PartOf, EncodingTyped
<1>5. pending \o wire = e \o w
  BY <1>2, Bytewise, PartOne DEF Told
<1>6. MayFollow(w, k)
  BY <1>3, Bytewise, NextKeyBegins DEF MayFollow
<1>7. e = Encoding[k]
  OBVIOUS
<1> HIDE DEF a, w, k, e
<1>8. Starts(e, n, pending)
  BY <1>3, <1>4, <1>5, <1>6, <1>7, KeyEnds, Zenon
<1>9. n \in 0..Len(pending)
  BY <1>1, Bytewise
<1>10. SubSeq(pending, 1, n) = e
  BY <1>4, <1>8, <1>9, Beginning DEF Starts
<1> QED BY <1>3, <1>10 DEF a, k, e

LEMMA ReturnKeyWhole ==
  ASSUME Unambiguous, KeysTypeOK, KeysWhole, NEW key, ReturnKey(key)
  PROVE  KeysWhole'
<1>1. PICK n \in Complete(pending) :
        /\ key = SubSeq(pending, 1, n) /\ Return(key)
        /\ pending' = SubSeq(pending, n + 1, Len(pending))
        /\ UNCHANGED <<pressed, wire, slow, dropped>>
  BY Zenon DEF ReturnKey
<1> DEFINE rest == SubSeq(pending, n + 1, Len(pending))
<1>2. key \in Seq(Bytes) /\ rest \in Seq(Bytes) /\ pending = key \o rest
  <2>1. n \in 0..Len(pending)
    BY Bytewise DEF Complete
  <2> QED BY <1>1, <2>1, Bytewise, Split
<1>3. Return(key) /\ pending' = rest /\ UNCHANGED <<pressed, wire, slow, dropped>>
  BY <1>1
<1> HIDE DEF rest
<1>4. CASE dropped
  BY <1>3, <1>4 DEF KeysWhole
<1>5. CASE ~dropped /\ slow /\ Kept
  <2>1. Kept'
    BY <1>2, <1>3, <1>5, ReturnKept
  <2> QED BY <1>3, <1>5, <2>1, WholeNext
<1>6. CASE ~dropped /\ ~slow /\ Told
  <2>1. Len(read) + 1 \in DOMAIN pressed /\ key = Encoding[pressed[Len(read) + 1]]
    BY <1>1, <1>6, NextKey
  <2>2. Told'
    BY <1>2, <1>3, <1>6, <2>1, ReturnTold
  <2> QED BY <1>3, <1>6, <2>2, WholeNext
<1> QED BY <1>4, <1>5, <1>6, Whole

LEMMA GiveUpWhole ==
  ASSUME KeysTypeOK, KeysWhole, NEW key, GiveUp(key)
  PROVE  KeysWhole'
<1>1. /\ key = pending /\ Return(key) /\ pending' = <<>>
      /\ UNCHANGED <<pressed, wire>> /\ dropped' = dropped
  BY DEF GiveUp
<1> DEFINE right == /\ Len(read) + 1 \in DOMAIN pressed
                    /\ Encoding[pressed[Len(read) + 1]] = key
<1>2. slow' = (~dropped /\ (slow \/ ~right))
  BY DEF GiveUp
<1>3. key \in Seq(Bytes) /\ <<>> \in Seq(Bytes) /\ pending = key \o <<>>
  BY <1>1, Bytewise, EmptySeq, ConcatEmptySeq
<1>4. CASE dropped
  BY <1>1, <1>4 DEF KeysWhole
<1>5. CASE ~dropped /\ Kept /\ slow'
  <2>1. Kept'
    BY <1>1, <1>3, <1>5, ReturnKept
  <2> QED BY <1>5, <2>1, WholeNext
<1>6. CASE ~dropped /\ ~slow /\ Told /\ right
  <2>1. Told'
    BY <1>1, <1>3, <1>6, ReturnTold
  <2> QED BY <1>2, <1>6, <2>1, WholeNext
<1>7. CASE ~dropped /\ ~slow /\ Told /\ ~right
  <2>1. Kept
    BY <1>7, ToldKept
  <2> QED BY <1>2, <1>5, <1>7, <2>1
<1> HIDE DEF right
<1> QED BY <1>2, <1>4, <1>5, <1>6, <1>7, Whole

LEMMA FillWhole ==
  ASSUME KeysTypeOK, KeysWhole, NEW n \in 1..Len(wire), Fill(n)
  PROVE  KeysWhole'
<1> DEFINE x == SubSeq(wire, 1, n)
           y == SubSeq(wire, n + 1, Len(wire))
<1>1. /\ pending' = pending \o x /\ wire' = y
      /\ UNCHANGED <<pressed, read, slow, dropped>>
  BY DEF Fill
<1>2. x \in Seq(Bytes) /\ y \in Seq(Bytes) /\ wire = x \o y
  <2>1. n \in 0..Len(wire)
    BY Bytewise
  <2> QED BY <2>1, Bytewise, Split
<1> HIDE DEF x, y
<1>3. pending' \o wire' = pending \o wire
  BY <1>1, <1>2, Bytewise, Regrouped, ZenonT(40)
<1>4. CASE dropped
  BY <1>1, <1>4 DEF KeysWhole
<1>5. CASE slow /\ Kept
  <2>1. FlattenSeq(read) \in Seq(Bytes) /\ pending \in Seq(Bytes) /\ wire \in Seq(Bytes)
    BY Bytewise
  <2>2. pending' \in Seq(Bytes) /\ wire' \in Seq(Bytes)
    BY <1>1, <1>2, <2>1, ConcatProperties
  <2>3. (FlattenSeq(read) \o pending') \o wire' = FlattenSeq(read) \o (pending' \o wire')
    BY ONLY <2>1, <2>2, Regrouped, ZenonT(40)
  <2>4. (FlattenSeq(read) \o pending) \o wire = FlattenSeq(read) \o (pending \o wire)
    BY ONLY <2>1, Regrouped, Zenon
  <2>5. Kept'
    BY <1>1, <1>3, <1>5, <2>3, <2>4, Zenon DEF Kept
  <2> QED BY <1>1, <1>5, <2>5, WholeNext
<1>6. CASE ~slow /\ Told
  <2>1. Told'
    BY <1>1, <1>3, <1>6 DEF Told
  <2> QED BY <1>1, <1>6, <2>1, WholeNext
<1> QED BY <1>4, <1>5, <1>6, Whole

\* The history begins again.
LEMMA AnewWhole ==
  ASSUME pressed' = <<>>, read' = <<>>, slow' = FALSE,
         dropped' \/ (wire' = <<>> /\ pending' = <<>>)
  PROVE  KeysWhole'
<1>1. CASE dropped'
  BY <1>1 DEF KeysWhole
<1>2. CASE wire' = <<>> /\ pending' = <<>>
  <2>1. Len(read') = 0 /\ Len(pressed') = 0 /\ DOMAIN read' = {}
    BY EmptySeq
  <2>2. Part(pressed', 0 + 1, 0) = <<>>
    <3>1. <<>> \in Seq(Keys) /\ 0 \in 0..Len(<<>>)
      BY EmptySeq
    <3> QED BY <3>1, PartNone
  <2>3. <<>> \o <<>> = <<>>
    BY EmptySeq, ConcatEmptySeq
  <2>4. Told'
    BY <1>2, <2>1, <2>2, <2>3 DEF Told
  <2> QED BY <2>4, WholeNext
<1> QED BY <1>1, <1>2

LEMMA ForgetWhole ==
  ASSUME KeysTypeOK, KeysWhole, NEW n \in Nat, Forget(n)
  PROVE  KeysWhole'
<1> DEFINE rest == SubSeq(wire, n + 1, Len(wire))
           lost == dropped \/ pending # <<>> \/ n > 0
<1>1. /\ pending' = <<>> /\ wire' = rest
      /\ dropped' = (rest # <<>> /\ lost) /\ slow' = (rest # <<>> /\ ~lost /\ slow)
      /\ rest = <<>> \/ lost => pressed' = <<>> /\ read' = <<>>
      /\ ~(rest = <<>> \/ lost) => UNCHANGED <<pressed, read>>
  BY DEF Forget
<1>2. CASE rest = <<>> \/ lost
  BY <1>1, <1>2, AnewWhole
<1>3. CASE ~(rest = <<>> \/ lost)
  <2>1. n = 0 /\ pending = <<>> /\ ~dropped
    BY <1>3
  <2>2. rest = wire
    BY <2>1, Bytewise, SubSeqFull
  <2>3. UNCHANGED <<pressed, read, wire, pending>>
    BY <1>1, <1>3, <2>1, <2>2
  <2>4. slow' = slow /\ dropped' = dropped
    <3>1. slow \in BOOLEAN /\ dropped \in BOOLEAN
      BY DEF KeysTypeOK
    <3> QED BY <1>1, <1>3, <2>1, <3>1
  <2> QED BY <2>3, <2>4 DEF KeysWhole
<1> QED BY <1>2, <1>3

LEMMA WholeStep ==
  ASSUME Unambiguous, KeysTypeOK, KeysWhole, [Next]_vars
  PROVE  KeysWhole'
<1>1. CASE Load
  <2>1. PICK i \in 0..Len(wire) : Forget(i)
    BY <1>1 DEF Load
  <2>2. i \in Nat
    BY Bytewise
  <2> QED BY <2>1, <2>2, ForgetWhole
<1>2. CASE RestoreFlags
  BY <1>2, ForgetWhole DEF RestoreFlags
<1>3. CASE HandleKey
  <2>1. PICK i \in 1..Len(pending) :
          ReturnKey(SubSeq(pending, 1, i)) \/ GiveUp(SubSeq(pending, 1, i))
    BY <1>3, Zenon DEF HandleKey
  <2> QED BY <2>1, ReturnKeyWhole, GiveUpWhole
<1>4. CASE ReadMore
  BY <1>4, FillWhole DEF ReadMore
<1>5. CASE Type
  BY <1>5, PressWhole DEF Type
<1>6. CASE New \/ Check
  BY <1>6, AnewWhole DEF New, Check, LeaveKeys
<1>7. CASE Signal
  BY <1>7, AnewWhole DEF Signal
<1>8. CASE \/ Begin \/ MakeRaw \/ EnterScreen \/ SetFlags \/ Close \/ Closed
          \/ ScreenFails \/ MenuFails \/ Detach \/ Kill
  <2>1. UNCHANGED keyVars
    BY <1>8 DEF Begin, MakeRaw, EnterScreen, SetFlags, Close, Closed, ScreenFails,
      MenuFails, Detach, Kill
  <2> QED BY <2>1 DEF keyVars, KeysWhole
<1>9. CASE \/ Prepare \/ Setup \/ Spawn \/ Exited \/ Reconnect \/ NoReconnect
          \/ Finish \/ End
  <2>1. UNCHANGED keyVars
    BY <1>9 DEF Prepare, Setup, Spawn, Exited, Reconnect, NoReconnect, Finish, End
  <2> QED BY <2>1 DEF keyVars, KeysWhole
<1>10. CASE \/ CloseStep \/ Client \/ LookActive \/ HandlerClose \/ HandlerClosed
          \/ HandlerReset \/ HandlerKills \/ Elsewhere
  <2>1. UNCHANGED keyVars
    BY <1>10 DEF CloseStep, Client, ChildWrites, ChildExits, LookActive, HandlerClose,
      HandlerClosed, HandlerReset, HandlerKills, Elsewhere
  <2> QED BY <2>1 DEF keyVars, KeysWhole
<1>11. CASE UNCHANGED vars
  BY <1>11 DEF vars, keyVars, KeysWhole
<1> QED BY <1>1, <1>2, <1>3, <1>4, <1>5, <1>6, <1>7, <1>8, <1>9, <1>10, <1>11 DEF Next,
  Main, Handler

----------------------------------------------------------------------------
(* The terminal.                                                            *)

LEMMA StepsStep ==
  ASSUME pc \in Steps, ScreensOK, [Next]_vars
  PROVE  pc' \in Steps
<1>1. CASE Begin \/ MakeRaw \/ EnterScreen \/ SetFlags \/ Load \/ RestoreFlags
  BY <1>1 DEF Begin, MakeRaw, EnterScreen, SetFlags, Load, RestoreFlags, Goto, Steps,
    ScreensOK, screenVars
<1>2. CASE Close \/ Closed \/ ReadMore
  BY <1>2 DEF Close, Closed, ReadMore, Goto, Steps, ScreensOK, screenVars, StartClose
<1>3. CASE HandleKey
  BY <1>3 DEF HandleKey, Goto, Steps, Leave, Stay, MenuKey, ConfirmKey, PickerKey,
    ScreensOK
<1>4. CASE ScreenFails \/ MenuFails \/ Detach \/ Kill \/ New \/ Check
  BY <1>4 DEF ScreenFails, MenuFails, Detach, Kill, New, Check, Goto, Steps, Leave,
    ScreensOK,
    screenVars
<1>5. CASE \/ Prepare \/ Setup \/ Spawn \/ Exited \/ Reconnect \/ NoReconnect
          \/ Finish \/ End
  BY <1>5 DEF Prepare, Setup, Spawn, Exited, Reconnect, NoReconnect, Finish, End, Goto,
    Steps, ScreensOK, screenVars
<1>6. CASE CloseStep \/ Client
  BY <1>6 DEF CloseStep, Client, Goto, Steps, ScreensOK, ChildWrites, ChildExits,
    screenVars
<1>7. CASE \/ Signal \/ LookActive \/ HandlerClose \/ HandlerClosed
          \/ HandlerReset \/ HandlerKills
  BY <1>7 DEF Signal, LookActive, HandlerClose, HandlerClosed, HandlerReset,
    HandlerKills, Goto, Steps, ScreensOK, screenVars, StartClose
<1>8. CASE Type \/ Elsewhere
  BY <1>8 DEF Type, Elsewhere, Steps, ScreensOK, screenVars
<1>9. CASE UNCHANGED vars
  BY <1>9 DEF vars, Steps, ScreensOK, screenVars
<1> QED BY <1>1, <1>2, <1>3, <1>4, <1>5, <1>6, <1>7, <1>8, <1>9 DEF Next, Main, Handler

LEMMA Counted ==
  ASSUME AttachOK, Attempts, NEW r \in {0, reconnects}
  PROVE  r \in 0..MaxReconnects /\ (forced => r = 0)
BY InteractiveAssumption DEF AttachOK, Attempts

LEMMA OneMore ==
  ASSUME AttachOK, Attempts, pc = "poll"
  PROVE  reconnects + 1 \in 0..MaxReconnects
BY InteractiveAssumption DEF AttachOK, Attempts

LEMMA AttachStep ==
  ASSUME AttachOK, ScreensOK, Attempts, [Next]_vars
  PROVE  AttachOK' /\ Attempts'
<1>m. MaxReconnects \in Nat
  BY InteractiveAssumption
<1>h. HandleKey => pc' # "poll" /\ UNCHANGED attachVars
  BY DEF HandleKey, MenuKey, ConfirmKey, PickerKey, Leave, Stay, Goto, At
<1>n. next # "poll"
  BY DEF ScreensOK
<1>1. CASE Begin \/ MakeRaw \/ EnterScreen \/ SetFlags \/ Load \/ RestoreFlags
  BY <1>1, <1>m, <1>n DEF Begin, MakeRaw, EnterScreen, SetFlags, Load, RestoreFlags, At,
    Goto, AttachOK, Attempts, attachVars
<1>2. CASE Close \/ Closed \/ ReadMore
  BY <1>2, <1>m, <1>n DEF Close, Closed, ReadMore, At, Goto, AttachOK, Attempts,
    attachVars
<1>3. CASE HandleKey
  BY <1>3, <1>h DEF AttachOK, Attempts, attachVars
<1>4. CASE ScreenFails \/ MenuFails
  BY <1>4, <1>m, <1>n DEF ScreenFails, MenuFails, At, Goto, AttachOK, Attempts, Leave,
    attachVars
<1>5. CASE Detach
  BY <1>5, <1>m, <1>n DEF Detach, At, Goto, AttachOK, Attempts
<1>6. CASE Kill
  BY <1>6, <1>m, <1>n DEF Kill, At, Goto, AttachOK, Attempts
<1>7. CASE New \/ Check
  BY <1>7, <1>m, <1>n DEF New, Check, At, Goto, AttachOK, Attempts, attachVars
<1>8. CASE Prepare \/ Setup
  BY <1>8, <1>m, <1>n DEF Prepare, Setup, At, Goto, AttachOK, Attempts, attachVars
<1>9. CASE Spawn
  BY <1>9, <1>m, <1>n DEF Spawn, At, Goto, AttachOK, Attempts
<1>10. CASE Exited
  <2>1. PICK r \in {0, reconnects} :
          /\ Goto(IF At("exited 1") /\ r < MaxReconnects THEN "poll" ELSE "finish")
          /\ reconnects' = r
    BY <1>10, Zenon DEF Exited
  <2>2. status' = status /\ forced' = forced
    BY <1>10, Zenon DEF Exited
  <2>3. r \in 0..MaxReconnects /\ (forced => r = 0)
    BY Counted
  <2>4. pc' = "poll" => r < MaxReconnects
    BY <2>1 DEF Goto
  <2> QED BY <2>1, <2>2, <2>3, <2>4 DEF AttachOK, Attempts
<1>11. CASE Reconnect
  <2>1. pc = "poll" /\ pc' = "prepare" /\ reconnects' = reconnects + 1 /\ status' = status
        /\ forced' = FALSE
    BY <1>11 DEF Reconnect, At, Goto
  <2>2. reconnects + 1 \in 0..MaxReconnects
    BY <2>1, OneMore
  <2> QED BY <2>1, <2>2 DEF AttachOK, Attempts
<1>12. CASE NoReconnect
  BY <1>12, <1>m, <1>n DEF NoReconnect, At, Goto, AttachOK, Attempts, attachVars
<1>13. CASE Finish \/ End
  BY <1>13, <1>m, <1>n DEF Finish, End, At, Goto, AttachOK, Attempts, attachVars
<1>14. CASE CloseStep
  BY <1>14, <1>m, <1>n DEF CloseStep, AttachOK, Attempts, attachVars
<1>15. CASE Client
  <2>1. /\ pc' = pc \/ pc' \in {"exited 0", "exited 1", "exited 2"}
        /\ forced' = forced /\ reconnects' = reconnects
        /\ status' \in {status, "disconnected", "gone"}
    BY <1>15 DEF Client, ChildWrites, ChildExits, Goto, attachVars
  <2> QED BY <2>1 DEF AttachOK, Attempts
<1>16. CASE \/ Signal \/ LookActive \/ HandlerClose \/ HandlerClosed
          \/ HandlerReset \/ HandlerKills
  BY <1>16, <1>m, <1>n DEF Signal, LookActive, HandlerClose, HandlerClosed,
    HandlerReset, HandlerKills, At, Goto, AttachOK, Attempts, attachVars
<1>17. CASE Type \/ Elsewhere
  BY <1>17, <1>m, <1>n DEF Type, Elsewhere, At, AttachOK, Attempts, attachVars
<1>18. CASE UNCHANGED vars
  BY <1>18, <1>m, <1>n DEF vars, AttachOK, Attempts, attachVars
<1> QED BY <1>1, <1>2, <1>3, <1>4, <1>5, <1>6, <1>7, <1>8, <1>9, <1>10, <1>11, <1>12,
  <1>13, <1>14, <1>15, <1>16, <1>17, <1>18 DEF Next, Main, Handler

LEMMA ModesStep ==
  ASSUME ScreensOK, [Next]_vars
  PROVE  /\ term' \subseteq {"raw", "nonblock", Alternate, Mouse, Keyboard}
         /\ late' \in BOOLEAN
<1>0. term \subseteq {"raw", "nonblock", Alternate, Mouse, Keyboard} /\ late \in BOOLEAN
  BY DEF ScreensOK
<1>m. \A clean, dirty : Modes(clean, dirty)
          /\ dirty \subseteq {"raw", "nonblock", Alternate, Mouse, Keyboard} =>
        /\ term' \subseteq {"raw", "nonblock", Alternate, Mouse, Keyboard}
        /\ late' \in BOOLEAN
  BY <1>0 DEF Modes
<1>1. CASE Begin \/ MakeRaw \/ EnterScreen \/ SetFlags
  BY <1>1, <1>0, <1>m DEF Begin, MakeRaw, EnterScreen, SetFlags
<1>2. CASE RestoreFlags \/ Prepare \/ Setup \/ Finish
  BY <1>2, <1>0, <1>m DEF RestoreFlags, Prepare, Setup, Finish
<1>3. CASE Exited \/ HandlerReset \/ HandlerKills
  BY <1>3, <1>0, <1>m DEF Exited, HandlerReset, HandlerKills
<1>4. CASE Load \/ Close \/ Closed \/ HandleKey \/ ReadMore \/ ScreenFails \/ MenuFails
  BY <1>4, <1>0, <1>m DEF Load, Close, Closed, HandleKey, ReadMore, ScreenFails, MenuFails
<1>5. CASE Detach \/ Kill \/ New \/ Check \/ Spawn
  BY <1>5, <1>0, <1>m DEF Detach, Kill, New, Check, Spawn
<1>6. CASE Reconnect \/ NoReconnect \/ End
  BY <1>6, <1>0, <1>m DEF Reconnect, NoReconnect, End
<1>7. CASE CloseStep
  BY <1>7, <1>0, <1>m DEF CloseStep
<1>8. CASE Client
  BY <1>8, <1>0, <1>m DEF Client, ChildWrites, ChildExits
<1>9. CASE Signal \/ LookActive \/ HandlerClose \/ HandlerClosed
  BY <1>9, <1>0, <1>m DEF Signal, LookActive, HandlerClose, HandlerClosed
<1>10. CASE Type \/ Elsewhere
  BY <1>10, <1>0, <1>m DEF Type, Elsewhere
<1>11. CASE UNCHANGED vars
  BY <1>11, <1>0, <1>m DEF vars
<1> QED BY <1>1, <1>2, <1>3, <1>4, <1>5, <1>6, <1>7, <1>8, <1>9, <1>10, <1>11 DEF Next,
  Main, Handler

LEMMA RowsStep ==
  ASSUME ScreensOK, [Next]_vars
  PROVE  /\ screen' \in {"menu", "accounts"} /\ selected' \in 0..3
         /\ next' \in {"begin", "detach", "kill", "new", "check", "end"}
<1>0. /\ screen \in {"menu", "accounts"} /\ selected \in 0..3
      /\ next \in {"begin", "detach", "kill", "new", "check", "end"}
  BY DEF ScreensOK
<1>r. (selected + 3) % 4 \in 0..3
  BY <1>0
<1>1. CASE Begin \/ MakeRaw \/ EnterScreen \/ SetFlags \/ Load \/ RestoreFlags
  <2>1. UNCHANGED <<screen, selected, next>>
    BY <1>1 DEF Begin, MakeRaw, EnterScreen, SetFlags, Load, RestoreFlags, screenVars
  <2> QED BY <2>1, <1>0
<1>2. CASE Close \/ Closed \/ ReadMore
  BY <1>2, <1>0 DEF Close, Closed, ReadMore, screenVars
<1>3. CASE HandleKey
  <2>1. PICK key : MenuKey(key) \/ ConfirmKey(key) \/ PickerKey(key)
    BY <1>3 DEF HandleKey
  <2> QED BY <2>1, <1>0, <1>r DEF MenuKey, ConfirmKey, PickerKey, Leave, Stay
<1>4. CASE ScreenFails \/ MenuFails \/ Detach \/ Kill \/ New \/ Check
  BY <1>4, <1>0 DEF ScreenFails, MenuFails, Detach, Kill, New, Check, screenVars, Leave
<1>5. CASE \/ Prepare \/ Setup \/ Spawn \/ Exited \/ Reconnect \/ NoReconnect
          \/ Finish \/ End
  <2>1. UNCHANGED <<screen, selected, next>>
    BY <1>5 DEF Prepare, Setup, Spawn, Exited, Reconnect, NoReconnect, Finish, End,
      screenVars
  <2> QED BY <2>1, <1>0
<1>6. CASE CloseStep \/ Client
  <2>1. UNCHANGED <<screen, selected, next>>
    BY <1>6 DEF CloseStep, Client, ChildWrites, ChildExits, screenVars
  <2> QED BY <2>1, <1>0
<1>7. CASE \/ Signal \/ LookActive \/ HandlerClose \/ HandlerClosed
          \/ HandlerReset \/ HandlerKills
  BY <1>7, <1>0 DEF Signal, LookActive, HandlerClose, HandlerClosed, HandlerReset,
    HandlerKills, screenVars
<1>8. CASE Type \/ Elsewhere
  BY <1>8, <1>0 DEF Type, Elsewhere, screenVars
<1>9. CASE UNCHANGED vars
  BY <1>9, <1>0 DEF vars, screenVars
<1> QED BY <1>1, <1>2, <1>3, <1>4, <1>5, <1>6, <1>7, <1>8, <1>9 DEF Next, Main, Handler

LEMMA IntervalStep ==
  ASSUME ScreensOK, [Next]_vars
  PROVE  /\ interval' \in {"none", "open", "write", "restore", "release", "closed"}
         /\ active' \in BOOLEAN /\ (active' <=> interval' \notin {"none", "closed"})
         /\ sig' \in {"none", "look", "close", "reset", "kill"}
<1>0. /\ interval \in {"none", "open", "write", "restore", "release", "closed"}
      /\ active \in BOOLEAN /\ (active <=> interval \notin {"none", "closed"})
      /\ sig \in {"none", "look", "close", "reset", "kill"}
  BY DEF ScreensOK
<1>1. CASE Begin \/ EnterScreen \/ SetFlags \/ Load \/ RestoreFlags
  <2>1. UNCHANGED <<interval, active, sig>>
    BY <1>1 DEF Begin, EnterScreen, SetFlags, Load, RestoreFlags, screenVars
  <2> QED BY <2>1, <1>0
<1>2. CASE MakeRaw
  <2>1. interval' = "open" /\ active' = TRUE /\ sig' \in {sig, "reset"}
    BY <1>2 DEF MakeRaw
  <2> QED BY <2>1, <1>0
<1>3. CASE Close
  BY <1>3, <1>0 DEF Close, StartClose
<1>4. CASE Closed \/ ReadMore
  BY <1>4, <1>0 DEF Closed, ReadMore, screenVars
<1>5. CASE HandleKey
  BY <1>5, <1>0 DEF HandleKey
<1>6. CASE ScreenFails \/ MenuFails \/ Detach \/ Kill \/ New \/ Check
  BY <1>6, <1>0 DEF ScreenFails, MenuFails, Detach, Kill, New, Check, screenVars, Leave
<1>7. CASE \/ Prepare \/ Setup \/ Spawn \/ Exited \/ Reconnect \/ NoReconnect
          \/ Finish \/ End
  <2>1. UNCHANGED <<interval, active, sig>>
    BY <1>7 DEF Prepare, Setup, Spawn, Exited, Reconnect, NoReconnect, Finish, End,
      screenVars
  <2> QED BY <2>1, <1>0
<1>8. CASE CloseStep
  <2>1. /\ sig' = sig /\ active' = (interval # "release")
        /\ \/ interval = "write" /\ interval' = "restore"
           \/ interval = "restore" /\ interval' = "release"
           \/ interval = "release" /\ interval' = "closed"
    BY <1>8 DEF CloseStep
  <2> QED BY <2>1, <1>0
<1>9. CASE Client
  <2>1. UNCHANGED <<interval, active, sig>>
    BY <1>9 DEF Client, ChildWrites, ChildExits, screenVars
  <2> QED BY <2>1, <1>0
<1>10. CASE \/ Signal \/ LookActive \/ HandlerClose \/ HandlerClosed
          \/ HandlerReset \/ HandlerKills
  BY <1>10, <1>0 DEF Signal, LookActive, HandlerClose, HandlerClosed, HandlerReset,
    HandlerKills, screenVars, StartClose
<1>11. CASE Type \/ Elsewhere
  BY <1>11, <1>0 DEF Type, Elsewhere, screenVars
<1>12. CASE UNCHANGED vars
  BY <1>12, <1>0 DEF vars, screenVars
<1> QED BY <1>1, <1>2, <1>3, <1>4, <1>5, <1>6, <1>7, <1>8, <1>9, <1>10, <1>11, <1>12 DEF
  Next, Main, Handler

LEMMA ScreensStep ==
  ASSUME ScreensOK, [Next]_vars
  PROVE  ScreensOK'
BY ModesStep, RowsStep, IntervalStep DEF ScreensOK

LEMMA OnScreenStep ==
  ASSUME ScreensOK, OnScreen, [Next]_vars
  PROVE  OnScreen'
<1>0. /\ interval \in {"none", "open", "write", "restore", "release", "closed"}
      /\ (active <=> interval \notin {"none", "closed"})
      /\ sig \in {"none", "look", "close", "reset", "kill"}
      /\ next \in {"begin", "detach", "kill", "new", "check", "end"}
  BY DEF ScreensOK
<1>1. CASE Begin
  BY <1>1, <1>0 DEF Begin, At, Goto, OnScreen, Opened, Screens, screenVars
<1>2. CASE MakeRaw
  BY <1>2, <1>0 DEF MakeRaw, At, Goto, OnScreen, Opened, Screens
<1>3. CASE EnterScreen
  BY <1>3, <1>0 DEF EnterScreen, At, Goto, OnScreen, Opened, Screens, screenVars
<1>4. CASE SetFlags
  BY <1>4, <1>0 DEF SetFlags, At, Goto, OnScreen, Opened, Screens, screenVars
<1>5. CASE Load
  BY <1>5, <1>0 DEF Load, At, Goto, OnScreen, Opened, Screens, screenVars
<1>6. CASE RestoreFlags
  BY <1>6, <1>0 DEF RestoreFlags, At, Goto, OnScreen, Opened, Screens, screenVars
<1>7. CASE Close
  BY <1>7, <1>0 DEF Close, At, OnScreen, Opened, Screens, StartClose
<1>8. CASE Closed
  BY <1>8, <1>0 DEF Closed, At, Goto, OnScreen, Opened, Screens
<1>9. CASE HandleKey
  <2>1. PICK key : \/ At("menu") /\ MenuKey(key)
                   \/ At("confirm") /\ ConfirmKey(key)
                   \/ At("picker") /\ PickerKey(key)
    BY <1>9, Zenon DEF HandleKey
  <2>2. UNCHANGED <<interval, active, sig>>
    BY <1>9, Zenon DEF HandleKey
  <2>3. /\ pc' \in {"unflags", "close", "confirm", "menu", "picker"}
        /\ pc' \in {"menu", "confirm"} => pc \in {"menu", "confirm"} /\ screen' = screen
    BY <2>1 DEF MenuKey, ConfirmKey, PickerKey, Leave, Stay, At, Goto
  <2>4. pc \in {"menu", "confirm", "picker"}
    BY <2>1 DEF At
  <2> QED BY <2>2, <2>3, <2>4, <1>0 DEF OnScreen, Opened, Screens
<1>10. CASE ReadMore
  BY <1>10, <1>0 DEF ReadMore, OnScreen, Opened, Screens, screenVars
<1>11. CASE ScreenFails \/ MenuFails
  BY <1>11, <1>0 DEF ScreenFails, MenuFails, At, Goto, OnScreen, Opened, Screens, Leave
<1>12. CASE Detach
  BY <1>12, <1>0 DEF Detach, At, Goto, OnScreen, Opened, Screens, screenVars
<1>13. CASE Kill
  BY <1>13, <1>0 DEF Kill, At, Goto, OnScreen, Opened, Screens, screenVars
<1>14. CASE New
  BY <1>14, <1>0 DEF New, At, Goto, OnScreen, Opened, Screens, screenVars
<1>15. CASE Check
  BY <1>15, <1>0 DEF Check, At, Goto, OnScreen, Opened, Screens, screenVars
<1>16. CASE Prepare
  BY <1>16, <1>0 DEF Prepare, At, Goto, OnScreen, Opened, Screens, screenVars
<1>17. CASE Setup
  BY <1>17, <1>0 DEF Setup, At, Goto, OnScreen, Opened, Screens, screenVars
<1>18. CASE Spawn
  BY <1>18, <1>0 DEF Spawn, At, Goto, OnScreen, Opened, Screens, screenVars
<1>19. CASE Exited
  BY <1>19, <1>0 DEF Exited, At, Goto, OnScreen, Opened, Screens, screenVars
<1>20. CASE Reconnect
  BY <1>20, <1>0 DEF Reconnect, At, Goto, OnScreen, Opened, Screens, screenVars
<1>21. CASE NoReconnect
  BY <1>21, <1>0 DEF NoReconnect, At, Goto, OnScreen, Opened, Screens, screenVars
<1>22. CASE Finish
  BY <1>22, <1>0 DEF Finish, At, Goto, OnScreen, Opened, Screens, screenVars
<1>23. CASE End
  BY <1>23, <1>0 DEF End, At, Goto, OnScreen, Opened, Screens, screenVars
<1>24. CASE CloseStep
  BY <1>24, <1>0 DEF CloseStep, OnScreen, Opened, Screens
<1>25. CASE Client
  BY <1>25, <1>0 DEF Client, At, Goto, OnScreen, Opened, Screens, screenVars,
    ChildWrites, ChildExits
<1>26. CASE Signal
  BY <1>26, <1>0 DEF Signal, At, OnScreen, Opened, Screens, screenVars
<1>27. CASE LookActive
  BY <1>27, <1>0 DEF LookActive, At, OnScreen, Opened, Screens, screenVars
<1>28. CASE HandlerClose
  BY <1>28, <1>0 DEF HandlerClose, At, OnScreen, Opened, Screens, StartClose
<1>29. CASE HandlerClosed
  BY <1>29, <1>0 DEF HandlerClosed, At, OnScreen, Opened, Screens, screenVars
<1>30. CASE HandlerReset
  BY <1>30, <1>0 DEF HandlerReset, At, OnScreen, Opened, Screens, screenVars
<1>31. CASE HandlerKills
  BY <1>31, <1>0 DEF HandlerKills, At, Goto, OnScreen, Opened, Screens, screenVars
<1>32. CASE Type
  BY <1>32, <1>0 DEF Type, OnScreen, Opened, Screens, screenVars
<1>33. CASE Elsewhere
  BY <1>33, <1>0 DEF Elsewhere, At, OnScreen, Opened, Screens, screenVars
<1>34. CASE UNCHANGED vars
  BY <1>34, <1>0 DEF vars, OnScreen, Opened, Screens, screenVars
<1> QED BY <1>1, <1>2, <1>3, <1>4, <1>5, <1>6, <1>7, <1>8, <1>9, <1>10, <1>11, <1>12,
  <1>13, <1>14, <1>15, <1>16, <1>17, <1>18, <1>19, <1>20, <1>21, <1>22, <1>23, <1>24,
  <1>25, <1>26, <1>27, <1>28, <1>29, <1>30, <1>31, <1>32, <1>33, <1>34 DEF Next, Main,
  Handler

LEMMA UndoneStep ==
  ASSUME pc \in Steps, ScreensOK, OnScreen, Undone, [Next]_vars
  PROVE  Undone'
<1>0. /\ interval \in {"none", "open", "write", "restore", "release", "closed"}
      /\ (active <=> interval \notin {"none", "closed"})
      /\ (interval \in Opened => pc \in Screens \cup {"gone"})
      /\ (pc \in {"menu", "confirm"} => screen = "menu")
      /\ (pc = "screen" /\ sig = "none" => interval = "open")
      /\ term \subseteq {"raw", "nonblock", Alternate, Mouse, Keyboard}
      /\ sig \in {"none", "look", "close", "reset", "kill"}
  BY DEF ScreensOK, OnScreen, Screens
<1>1. CASE Begin
  BY <1>1, <1>0 DEF Begin, At, Goto, Reset, screenVars, attachVars, Modes, Undone,
    Opened, Screens, Attached, Alternate, Mouse, Keyboard
<1>2. CASE MakeRaw
  BY <1>2, <1>0 DEF MakeRaw, At, Goto, attachVars, Modes, Undone, Opened, Screens,
    Attached, Alternate, Mouse, Keyboard
<1>3. CASE EnterScreen
  BY <1>3, <1>0 DEF EnterScreen, At, Goto, screenVars, attachVars, Modes, Undone,
    Opened, Screens, Attached, Alternate, Mouse, Keyboard
<1>4. CASE SetFlags
  BY <1>4, <1>0 DEF SetFlags, At, Goto, screenVars, attachVars, Modes, Undone, Opened,
    Screens, Attached, Alternate, Mouse, Keyboard
<1>5. CASE Load
  BY <1>5, <1>0 DEF Load, At, Goto, screenVars, attachVars, Undone, Opened, Screens,
    Attached, Alternate, Mouse, Keyboard
<1>6. CASE RestoreFlags
  BY <1>6, <1>0 DEF RestoreFlags, At, Goto, screenVars, attachVars, Modes, Undone,
    Opened, Screens, Attached, Alternate, Mouse, Keyboard
<1>7. CASE Close
  BY <1>7, <1>0 DEF Close, At, StartClose, attachVars, Undone, Opened, Screens,
    Attached, Alternate, Mouse, Keyboard
<1>8. CASE Closed
  BY <1>8, <1>0 DEF Closed, At, Goto, attachVars, Undone, Opened, Screens, Attached,
    Alternate, Mouse, Keyboard
<1>9. CASE HandleKey
  <2>1. PICK key : \/ At("menu") /\ MenuKey(key)
                   \/ At("confirm") /\ ConfirmKey(key)
                   \/ At("picker") /\ PickerKey(key)
    BY <1>9, Zenon DEF HandleKey
  <2>2. UNCHANGED <<term, interval, sig, late>>
    BY <1>9, Zenon DEF HandleKey
  <2>3. /\ pc' \in {"unflags", "close", "confirm", "menu", "picker"}
        /\ pc \in {"menu", "confirm"} => pc' \in {"unflags", "confirm", "menu"}
    BY <2>1, <1>0 DEF MenuKey, ConfirmKey, PickerKey, Leave, Stay, At, Goto
  <2>4. pc \in {"menu", "confirm", "picker"}
    BY <2>1 DEF At
  <2> QED BY <2>2, <2>3, <2>4 DEF Undone, Attached
<1>10. CASE ReadMore
  BY <1>10, <1>0 DEF ReadMore, screenVars, attachVars, Undone, Opened, Screens,
    Attached, Alternate, Mouse, Keyboard
<1>11. CASE ScreenFails \/ MenuFails
  BY <1>11, <1>0 DEF ScreenFails, MenuFails, Leave, At, Goto, attachVars, Undone, Opened,
    Screens,
    Attached, Alternate, Mouse, Keyboard
<1>12. CASE Detach
  BY <1>12, <1>0 DEF Detach, At, Goto, screenVars, Undone, Opened, Screens, Attached,
    Alternate, Mouse, Keyboard
<1>13. CASE Kill
  BY <1>13, <1>0 DEF Kill, At, Goto, screenVars, Undone, Opened, Screens, Attached,
    Alternate, Mouse, Keyboard
<1>14. CASE New
  BY <1>14, <1>0 DEF New, At, Goto, screenVars, Undone, Opened, Screens, Attached,
    Alternate, Mouse, Keyboard
<1>15. CASE Check
  BY <1>15, <1>0 DEF Check, At, Goto, screenVars, attachVars, Undone, Opened, Screens,
    Attached, Alternate, Mouse, Keyboard
<1>16. CASE Prepare
  BY <1>16, <1>0 DEF Prepare, At, Goto, ResetAttachment, screenVars, attachVars, Modes,
    Undone, Opened, Screens, Attached, Alternate, Mouse, Keyboard
<1>17. CASE Setup
  BY <1>17, <1>0 DEF Setup, At, Goto, screenVars, attachVars, Modes, Undone, Opened,
    Screens, Attached, Alternate, Mouse, Keyboard
<1>18. CASE Spawn
  BY <1>18, <1>0 DEF Spawn, At, Goto, screenVars, Undone, Opened, Screens, Attached,
    Alternate, Mouse, Keyboard
<1>19. CASE Exited
  BY <1>19, <1>0 DEF Exited, At, Goto, ResetAttachment, screenVars, Modes, Undone,
    Opened, Screens, Attached, Alternate, Mouse, Keyboard
<1>20. CASE Reconnect
  BY <1>20, <1>0 DEF Reconnect, At, Goto, screenVars, Undone, Opened, Screens, Attached,
    Alternate, Mouse, Keyboard
<1>21. CASE NoReconnect
  BY <1>21, <1>0 DEF NoReconnect, At, Goto, screenVars, attachVars, Undone, Opened,
    Screens, Attached, Alternate, Mouse, Keyboard
<1>22. CASE Finish
  BY <1>22, <1>0 DEF Finish, At, Goto, ResetAttachment, screenVars, attachVars, Modes,
    Undone, Opened, Screens, Attached, Alternate, Mouse, Keyboard
<1>23. CASE End
  BY <1>23, <1>0 DEF End, At, Goto, screenVars, attachVars, Undone, Opened, Screens,
    Attached, Alternate, Mouse, Keyboard
<1>24. CASE CloseStep
  BY <1>24, <1>0 DEF CloseStep, attachVars, Modes, Undone, Opened, Screens, Attached,
    Alternate, Mouse, Keyboard
<1>25. CASE Client
  <2>1. CASE \E mode \in {"raw", Alternate, Mouse, Keyboard} : ChildWrites(mode)
    <3>1. PICK mode \in {"raw", Alternate, Mouse, Keyboard} : ChildWrites(mode)
      BY <2>1
    <3> QED BY <3>1, <1>0 DEF ChildWrites, Modes, At, screenVars, Undone, Attached,
      Opened, Screens, Alternate, Mouse, Keyboard
  <2>2. CASE \E code \in {"exited 0", "exited 1", "exited 2"} : ChildExits(code)
    <3>0. PICK code \in {"exited 0", "exited 1", "exited 2"} : ChildExits(code)
      BY <2>2
    <3>1. /\ pc = "child" /\ pc' \in {"exited 0", "exited 1", "exited 2"}
          /\ term' = term \ {"raw"} /\ (late => late') /\ UNCHANGED <<interval, sig>>
      BY <3>0 DEF ChildExits, Modes, At, Goto, screenVars
    <3> QED BY <3>1, <1>0 DEF Undone, Attached, Alternate, Mouse, Keyboard
  <2> QED BY <1>25, <2>1, <2>2 DEF Client
<1>26. CASE Signal
  BY <1>26, <1>0 DEF Signal, At, screenVars, attachVars, Undone, Opened, Screens,
    Attached, Alternate, Mouse, Keyboard
<1>27. CASE LookActive
  BY <1>27, <1>0 DEF LookActive, At, screenVars, attachVars, Undone, Opened, Screens,
    Attached, Alternate, Mouse, Keyboard
<1>28. CASE HandlerClose
  BY <1>28, <1>0 DEF HandlerClose, At, StartClose, attachVars, Undone, Opened, Screens,
    Attached, Alternate, Mouse, Keyboard
<1>29. CASE HandlerClosed
  BY <1>29, <1>0 DEF HandlerClosed, At, screenVars, attachVars, Undone, Opened, Screens,
    Attached, Alternate, Mouse, Keyboard
<1>30. CASE HandlerReset
  BY <1>30, <1>0 DEF HandlerReset, At, ResetAttachment, screenVars, attachVars, Modes,
    Undone, Opened, Screens, Attached, Alternate, Mouse, Keyboard
<1>31. CASE HandlerKills
  BY <1>31, <1>0 DEF HandlerKills, At, Goto, screenVars, attachVars, Undone, Opened,
    Screens, Attached, Alternate, Mouse, Keyboard
<1>32. CASE Type
  BY <1>32, <1>0 DEF Type, screenVars, attachVars, Undone, Opened, Screens, Attached,
    Alternate, Mouse, Keyboard
<1>33. CASE Elsewhere
  BY <1>33, <1>0 DEF Elsewhere, At, screenVars, Undone, Opened, Screens, Attached,
    Alternate, Mouse, Keyboard
<1>34. CASE UNCHANGED vars
  BY <1>34 DEF vars, screenVars, Undone
<1> QED BY <1>1, <1>2, <1>3, <1>4, <1>5, <1>6, <1>7, <1>8, <1>9, <1>10, <1>11, <1>12,
  <1>13, <1>14, <1>15, <1>16, <1>17, <1>18, <1>19, <1>20, <1>21, <1>22, <1>23, <1>24,
  <1>25, <1>26, <1>27, <1>28, <1>29, <1>30, <1>31, <1>32, <1>33, <1>34 DEF Next, Main,
  Handler

----------------------------------------------------------------------------
(* The theorems.                                                            *)

LEMMA Initially == Init => IInv
<1> SUFFICES ASSUME Init PROVE IInv
  OBVIOUS
<1>1. KeysTypeOK
  <2>1. /\ pressed = <<>> /\ wire = <<>> /\ pending = <<>> /\ read = <<>>
        /\ slow = FALSE /\ dropped = FALSE
    BY DEF Init, KeysInit
  <2>2. pressed \in Seq(Keys) /\ wire \in Seq(Bytes) /\ pending \in Seq(Bytes)
    BY <2>1, EmptySeq
  <2>3. read \in Seq(Seq(Bytes)) /\ (\A i \in DOMAIN read : read[i] # <<>>)
    BY <2>1, EmptySeq
  <2>4. Len(pressed) <= MaxKeys
    BY <2>1, KeysAssumption
  <2> QED BY <2>1, <2>2, <2>3, <2>4 DEF KeysTypeOK
<1>2. pc \in Steps /\ ScreensOK
  <2>1. /\ term = {} /\ screen = "menu" /\ selected = 0 /\ next = "begin"
        /\ interval = "none" /\ active = FALSE /\ sig = "none" /\ late = FALSE
        /\ pc \in {"begin", "check"}
    BY DEF Init
  <2>2. active \in BOOLEAN /\ (active <=> interval \notin {"none", "closed"})
    <3>1. ~active /\ active \in BOOLEAN
      BY <2>1, Zenon
    <3>2. interval \in {"none", "closed"}
      BY <2>1, Zenon
    <3> QED BY <3>1, <3>2
  <2>3. selected \in 0..3
    BY <2>1
  <2>4. late \in BOOLEAN
    BY <2>1, Zenon
  <2> QED BY <2>1, <2>2, <2>3, <2>4 DEF Steps, ScreensOK
<1>3. AttachOK /\ Attempts
  BY InteractiveAssumption DEF Init, AttachOK, Attempts
<1>4. OnScreen /\ Undone
  BY DEF Init, OnScreen, Opened, Screens, Undone
<1> QED BY <1>1, <1>2, <1>3, <1>4 DEF IInv, TypeOK

LEMMA Inductive ==
  ASSUME IInv, [Next]_vars
  PROVE  IInv'
<1>1. KeysTypeOK /\ pc \in Steps /\ ScreensOK /\ AttachOK /\ Attempts /\ OnScreen /\ Undone
  BY DEF IInv, TypeOK
<1>2. KeysTypeOK'
  BY <1>1, KeysStep
<1>3. pc' \in Steps /\ ScreensOK'
  BY <1>1, StepsStep, ScreensStep
<1>4. AttachOK' /\ Attempts'
  BY <1>1, AttachStep
<1>5. OnScreen' /\ Undone'
  BY <1>1, OnScreenStep, UndoneStep
<1> QED BY <1>2, <1>3, <1>4, <1>5 DEF IInv, TypeOK

\* What the loop counts, the interval it shows and the modes it owes the terminal
\* stay as they are understood, whatever main, the signal handler, the client and
\* the other terminals do.
THEOREM Invariant == Spec => []IInv
BY Initially, Inductive, PTL DEF Spec

\* Every variable has the values it is meant to have: keys are sequences of bytes,
\* the row of the menu exists, the attempts are not more than there may be, and
\* the package refers to an interval exactly as long as it is not let go of.
THEOREM TypeCorrect == Spec => []TypeOK
<1>1. IInv => TypeOK
  BY DEF IInv
<1> QED BY <1>1, Invariant, PTL

\* Every way out, through main or through the signal handler and in whatever order
\* the two take their steps, leaves the terminal as it was before agemux, unless
\* it was put into another mode after the signal.
THEOREM TerminalRestored == Spec => []TerminalClean
<1>1. IInv => TerminalClean
  BY DEF IInv, Undone, TerminalClean, At
<1> QED BY <1>1, Invariant, PTL

\* However the terminal splits and batches what is typed, and whenever a screen
\* gives its reader up, the keys the reader returns are the keys that were pressed,
\* and those it has not returned are in its buffer or on the way.
THEOREM WholeKeys ==
  ASSUME Unambiguous
  PROVE  Spec => []KeysWhole
<1>1. Init => KeysWhole
  <2> SUFFICES ASSUME Init PROVE KeysWhole
    OBVIOUS
  <2>1. /\ pressed = <<>> /\ wire = <<>> /\ pending = <<>> /\ read = <<>>
        /\ slow = FALSE /\ dropped = FALSE
    BY DEF Init, KeysInit
  <2>2. Len(read) = 0 /\ Len(pressed) = 0 /\ DOMAIN read = {}
    BY <2>1, EmptySeq
  <2>3. Part(pressed, 0 + 1, 0) = <<>>
    <3>1. pressed \in Seq(Keys) /\ 0 \in 0..Len(pressed)
      BY <2>1, EmptySeq
    <3> QED BY <3>1, PartNone
  <2>4. pending \o wire = <<>>
    BY <2>1, EmptySeq, ConcatEmptySeq
  <2>5. Told
    BY <2>1, <2>2, <2>3, <2>4 DEF Told
  <2> QED BY <2>1, <2>5, Whole
<1>2. IInv /\ KeysWhole /\ [Next]_vars => KeysWhole'
  BY WholeStep DEF IInv, TypeOK
<1> QED BY <1>1, <1>2, Invariant, PTL DEF Spec

\* No reconnect, however often the transport breaks and whoever attaches in
\* between, takes a session away from another terminal: what takes it is the first
\* attempt of an attach with --force.
THEOREM NoTheft == Spec => NoSteal
<1>1. IInv /\ [Next]_vars => [status = "other" /\ status' = "mine" => forced /\ reconnects = 0]_vars
  <2> SUFFICES ASSUME IInv, [Next]_vars, status = "other", status' = "mine"
               PROVE  forced /\ reconnects = 0
    OBVIOUS
  <2>0. forced => reconnects = 0
    BY DEF IInv, Attempts
  <2>1. CASE Begin \/ MakeRaw \/ EnterScreen \/ SetFlags \/ Load \/ RestoreFlags
    BY <2>1 DEF Begin, MakeRaw, EnterScreen, SetFlags, Load, RestoreFlags, attachVars
  <2>2. CASE Close \/ Closed \/ ReadMore \/ ScreenFails \/ MenuFails
    BY <2>2 DEF Close, Closed, ReadMore, ScreenFails, MenuFails, attachVars
  <2>3. CASE HandleKey
    BY <2>3 DEF HandleKey, attachVars
  <2>4. CASE Detach \/ Kill \/ New \/ Check
    BY <2>4 DEF Detach, Kill, New, Check, attachVars
  <2>5. CASE Prepare \/ Setup
    BY <2>5 DEF Prepare, Setup, attachVars
  <2>6. CASE Spawn
    BY <2>6, <2>0 DEF Spawn
  <2>7. CASE Exited \/ Reconnect \/ NoReconnect \/ Finish \/ End
    BY <2>7 DEF Exited, Reconnect, NoReconnect, Finish, End, attachVars
  <2>8. CASE CloseStep
    BY <2>8 DEF CloseStep, attachVars
  <2>9. CASE Client
    BY <2>9 DEF Client, ChildWrites, ChildExits, attachVars
  <2>10. CASE \/ Signal \/ LookActive \/ HandlerClose \/ HandlerClosed
            \/ HandlerReset \/ HandlerKills
    BY <2>10 DEF Signal, LookActive, HandlerClose, HandlerClosed, HandlerReset,
      HandlerKills, attachVars
  <2>11. CASE Type \/ Elsewhere
    BY <2>11 DEF Type, Elsewhere, attachVars
  <2>12. CASE UNCHANGED vars
    BY <2>12 DEF vars, attachVars
  <2> QED BY <2>1, <2>2, <2>3, <2>4, <2>5, <2>6, <2>7, <2>8, <2>9, <2>10, <2>11, <2>12 DEF
    Next, Main, Handler
<1> QED BY <1>1, Invariant, PTL DEF Spec, NoSteal
================================================================================
