--------------------------- MODULE CodexBridgeProofs ---------------------------
(***************************************************************************)
(* That the observer's thread is one the daemon gave to the request it is  *)
(* credited to, that the observer is never behind the client, that the     *)
(* bridge implements LatestThread, that a connection leaves nothing behind *)
(* and that a stop and the end of a relay reach everybody they concern,    *)
(* for any connections, threads and bounds.                                *)
(*                                                                         *)
(* What makes the ids and sequences line up is Requested: a request that   *)
(* has been observed and is not answered yet is still pending under its    *)
(* own id and sequence, or was dropped.  It needs the ids of a connection  *)
(* to be used once, and the shape of a connection in every phase of its    *)
(* handler (Phases): a request relay cannot outlive it.  The refinement    *)
(* adds that sequences and requests correspond one to one (Remembered,     *)
(* Numbered), the end of waiting that a stop finds all that registered     *)
(* (Swept).                                                                *)
(***************************************************************************)
EXTENDS CodexBridge, FiniteSetTheorems, TLAPS

Observing == {c \in Conns : relay[c] = "observe"}

\* Every request read is in front of the observer or has been given a sequence,
\* so sequences never outrun the requests.
Counted ==
  /\ IsFiniteSet(Observing)
  /\ issued = next + Cardinality(Observing)
  /\ \A c \in Conns : ids[c] <= issued

BeforeRelays == {"idle", "dial", "register", "upgrade", "registerClient"}

\* What a connection has in each phase of its handler.
PhaseOf(c) ==
  /\ handler[c] \in {"idle", "dial"} => remote[c] = "none"
  /\ handler[c] \in {"idle", "dial", "register", "upgrade"} => client[c] = "none"
  /\ handler[c] \in {"idle", "dial", "register"} => <<c, "remote">> \notin active
  /\ handler[c] \in BeforeRelays => relay[c] = "off" /\ <<c, "client">> \notin active
  /\ handler[c] = "drain" => remote[c] = "closed" /\ client[c] = "closed"
  /\ handler[c] = "ended" => relay[c] \in {"off", "over"}

Phases == \A c \in Conns : PhaseOf(c)

\* The requests of a connection that were observed and are not answered.
Sent(c) == upstream[c] \cup (IF relay[c] = "forward" THEN {hand[c]} ELSE {})

RequestsOf(c) ==
  /\ \A r \in Sent(c) : r.id \in 1..ids[c] /\ r.order \in 1..next
  /\ \A r, s \in Sent(c) : r.id = s.id => r = s
  /\ relay[c] = "observe" => /\ hand[c].id = ids[c] /\ ids[c] # 0
                             /\ \A r \in Sent(c) : r.id # ids[c]
  /\ relay[c] = "forward" => hand[c] \notin upstream[c]
  /\ handler[c] # "ended" =>
       \A r \in Sent(c) : \/ pending[c][r.id] = r.order
                          \/ pending[c][r.id] = 0 /\ r.order \in dropped

Requested == \A c \in Conns : RequestsOf(c)

\* An answer on its way to the client has been taken into account.
Heard ==
  \A c \in Conns : answer[c] # Blank =>
    answer[c].order <= applied \/ answer[c].order \in dropped

IInv ==
  TypeOK /\ Counted /\ Phases /\ NothingLeft /\ Requested /\ Attributed /\ Heard
    /\ NeverBehindClient

----------------------------------------------------------------------------
\* A step of the handler or of the peers: it makes and answers no request, and
\* what it forgets belonged to a handler that ends.
Quiet ==
  /\ UNCHANGED <<next, applied, thread, upstream, issued, ids, history>>
  /\ answer' \in [Conns -> Answers \cup {Blank}]
  /\ pending' \in [Conns -> [Ids -> 0..MaxRequests]]
  /\ hand' \in [Conns -> Requests]
  /\ \A c \in Conns :
       /\ handler[c] = "ended" => handler'[c] = "ended"
       /\ pending'[c] = pending[c] \/ handler'[c] = "ended"
       /\ answer'[c] = answer[c] \/ answer'[c] = Blank
       /\ \/ relay'[c] = relay[c] /\ hand'[c] = hand[c]
          \/ relay[c] # "observe" /\ relay'[c] \in {"read", "over"}

----------------------------------------------------------------------------
\* While a relay has a request in front of the observer, there is a sequence
\* left for it, and the id of that request is in range.
LEMMA SequenceLeft ==
  ASSUME TypeOK, Counted, Requested, NEW c \in Conns, relay[c] = "observe"
  PROVE  next < issued /\ next + 1 \in 1..MaxRequests /\ hand[c].id \in Ids
<1>1. c \in Observing
  BY DEF Observing
<1>2. Cardinality(Observing) \in Nat /\ Cardinality(Observing) # 0
  BY <1>1, FS_CardinalityType, FS_EmptySet DEF Counted
<1>3. hand[c].id = ids[c] /\ ids[c] # 0 /\ ids[c] \in 0..MaxRequests
  BY DEF Requested, RequestsOf, TypeOK
<1>4. next < issued /\ next + 1 \in 1..MaxRequests
  BY <1>2, BoundsAssumption DEF Counted, TypeOK
<1> QED
  BY <1>3, <1>4, BoundsAssumption DEF Ids

\* What the observer keeps when it remembers a request is a table of sequences,
\* and a sequence it does not keep is dropped.
LEMMA RequestOnKeeps ==
  ASSUME TypeOK, NEW c \in Conns, NEW id \in Ids, RequestOn(c, id),
         next + 1 \in 1..MaxRequests
  PROVE  /\ next' = next + 1
         /\ pending' \in [Conns -> [Ids -> 0..MaxRequests]]
         /\ dropped' \subseteq 1..MaxRequests /\ dropped \subseteq dropped'
         /\ pending'[c][id] = next + 1
         /\ \A d \in Conns, i \in Ids : <<d, i>> # <<c, id>> =>
              \/ pending'[d][i] = pending[d][i]
              \/ pending'[d][i] = 0 /\ pending[d][i] \in dropped'
<1> DEFINE kept == IF Cardinality(Waiting) >= MaxPending THEN Forgotten ELSE pending
<1>1. kept \in [Conns -> [Ids -> 0..MaxRequests]]
  BY BoundsAssumption DEF TypeOK, Forgotten
<1>2. /\ pending' = [kept EXCEPT ![c][id] = next + 1]
      /\ dropped' = dropped \cup {pending[x[1]][x[2]] : x \in
                                    {w \in Waiting : kept[w[1]][w[2]] = 0}}
      /\ next' = next + 1
  BY DEF RequestOn
<1>3. \A d \in Conns, i \in Ids : kept[d][i] = pending[d][i] \/ kept[d][i] = 0
  BY DEF Forgotten
<1>4. \A d \in Conns, i \in Ids :
        kept[d][i] = 0 /\ pending[d][i] # 0 => pending[d][i] \in dropped'
  <2> SUFFICES ASSUME NEW d \in Conns, NEW i \in Ids,
                      kept[d][i] = 0, pending[d][i] # 0
               PROVE  pending[d][i] \in dropped'
    OBVIOUS
  <2> DEFINE w == <<d, i>>
  <2>1. w \in Waiting /\ w[1] = d /\ w[2] = i
    BY DEF Waiting
  <2>2. w \in {x \in Waiting : kept[x[1]][x[2]] = 0}
    BY <2>1
  <2> QED
    BY <1>2, <2>1, <2>2
<1>5. dropped' \subseteq 1..MaxRequests
  BY <1>2 DEF Waiting, TypeOK
<1>6. /\ pending' \in [Conns -> [Ids -> 0..MaxRequests]]
      /\ pending'[c][id] = next + 1
      /\ \A d \in Conns, i \in Ids : <<d, i>> # <<c, id>> => pending'[d][i] = kept[d][i]
  <2> HIDE DEF kept
  <2> QED BY <1>1, <1>2
<1> QED
  BY <1>2, <1>3, <1>4, <1>5, <1>6

\* The sequence an answer is credited to is that of its request: ids are not
\* shared between connections, nor used twice on one.
LEMMA ResponseOnKeeps ==
  ASSUME TypeOK, NEW c \in Conns, NEW id \in Ids, NEW t \in Threads \cup {None},
         ResponseOn(c, id, t)
  PROVE  /\ next' = next /\ dropped' = dropped
         /\ pending' \in [Conns -> [Ids -> 0..MaxRequests]]
         /\ applied' \in 0..MaxRequests /\ applied <= applied'
         /\ thread' \in Threads \cup {None}
         /\ \A d \in Conns, i \in Ids : <<d, i>> # <<c, id>> => pending'[d][i] = pending[d][i]
         /\ t # None => pending[c][id] <= applied'
         /\ \/ UNCHANGED <<applied, thread>>
            \/ applied' = pending[c][id] /\ thread' = t /\ t # None /\ pending[c][id] # 0
<1>1. pending[c][id] \in 0..MaxRequests /\ applied \in 0..MaxRequests
  BY DEF TypeOK
<1> QED
  BY <1>1, BoundsAssumption DEF ResponseOn, TypeOK

\* Types.  A request's id and sequence stay within the bounds because both count
\* requests read.
LEMMA TypeStep == ASSUME TypeOK, Counted, Requested, [Next]_vars PROVE TypeOK'
<1> USE DEF TypeOK, HandlerPcs, sockets, observer, history, Step, Close, Disconnect
<1>1. ASSUME NEW c \in Conns, Accept(c) PROVE TypeOK'
  BY <1>1 DEF Accept
<1>2. ASSUME NEW c \in Conns, Dial(c) PROVE TypeOK'
  BY <1>2 DEF Dial
<1>3. ASSUME NEW c \in Conns, DialFails(c) PROVE TypeOK'
  BY <1>3, BoundsAssumption DEF DialFails
<1>4. ASSUME NEW c \in Conns, RegisterRemote(c) PROVE TypeOK'
  BY <1>4 DEF RegisterRemote
<1>5. ASSUME NEW c \in Conns, RemoteTooLate(c) PROVE TypeOK'
  BY <1>5, BoundsAssumption DEF RemoteTooLate
<1>6. ASSUME NEW c \in Conns, Upgrade(c) PROVE TypeOK'
  BY <1>6 DEF Upgrade
<1>7. ASSUME NEW c \in Conns, UpgradeFails(c) PROVE TypeOK'
  BY <1>7, BoundsAssumption DEF UpgradeFails
<1>8. ASSUME NEW c \in Conns, RegisterClient(c) PROVE TypeOK'
  BY <1>8 DEF RegisterClient
<1>9. ASSUME NEW c \in Conns, ClientTooLate(c) PROVE TypeOK'
  BY <1>9, BoundsAssumption DEF ClientTooLate
<1>10. ASSUME NEW c \in Conns, ReadRequest(c) PROVE TypeOK'
  <2>1. ids[c] + 1 \in 0..MaxRequests /\ issued + 1 \in 0..MaxRequests
    BY <1>10, BoundsAssumption DEF ReadRequest, Counted
  <2>2. [id |-> ids[c] + 1, order |-> 0] \in Requests
    BY <2>1, BoundsAssumption DEF Requests
  <2> QED
    BY <1>10, <2>1, <2>2 DEF ReadRequest
<1>11. ASSUME NEW c \in Conns, ObserveRequest(c) PROVE TypeOK'
  <2>1. hand[c].id \in Ids /\ next + 1 \in 1..MaxRequests
    BY <1>11, SequenceLeft DEF ObserveRequest
  <2>2. RequestOn(c, hand[c].id)
    BY <1>11 DEF ObserveRequest
  <2>3. /\ next' = next + 1 /\ pending' \in [Conns -> [Ids -> 0..MaxRequests]]
        /\ dropped' \subseteq 1..MaxRequests
    BY <2>1, <2>2, RequestOnKeeps
  <2>4. UNCHANGED <<applied, thread>>
    BY <2>2 DEF RequestOn
  <2>5. hand' \in [Conns -> Requests]
    <3>1. \A r \in Requests, n \in 0..MaxRequests : [r EXCEPT !.order = n] \in Requests
      BY DEF Requests
    <3>2. next + 1 \in 0..MaxRequests /\ hand[c] \in Requests
      BY <2>1
    <3>3. [hand[c] EXCEPT !.order = next + 1] \in Requests
      BY <3>1, <3>2
    <3>4. hand' = [hand EXCEPT ![c] = [hand[c] EXCEPT !.order = next + 1]]
      BY <1>11, <2>3 DEF ObserveRequest
    <3> QED
      BY <3>3, <3>4
  <2> QED
    BY <1>11, <2>1, <2>3, <2>4, <2>5 DEF ObserveRequest
<1>12. ASSUME NEW c \in Conns, ForwardRequest(c) PROVE TypeOK'
  BY <1>12, BoundsAssumption DEF ForwardRequest, Requests, NoRequest
<1>13. ASSUME NEW c \in Conns, EndRequests(c) PROVE TypeOK'
  BY <1>13, BoundsAssumption DEF EndRequests, Requests, NoRequest
<1>14. ASSUME NEW c \in Conns, ReadAnswer(c) PROVE TypeOK'
  <2>1. PICK request \in upstream[c], t \in Threads \cup {None} :
          /\ ResponseOn(c, request.id, t)
          /\ upstream' = [upstream EXCEPT ![c] = @ \ {request}]
          /\ answer' = [answer EXCEPT ![c] =
                          IF t = None THEN Blank
                          ELSE [order |-> request.order, thread |-> t]]
          /\ answered' = answered \cup ({answer'[c]} \ {Blank})
    BY <1>14 DEF ReadAnswer
  <2>2. request \in Requests /\ request.id \in Ids /\ request.order \in 1..MaxRequests
    BY DEF Requested, RequestsOf, Sent, Ids, Requests
  <2>3. /\ UNCHANGED <<next, dropped>> /\ thread' \in Threads \cup {None}
        /\ pending' \in [Conns -> [Ids -> 0..MaxRequests]]
        /\ applied' \in 0..MaxRequests
    BY <2>1, <2>2, ResponseOnKeeps
  <2>4. t # None => [order |-> request.order, thread |-> t] \in Answers
    BY <2>2 DEF Answers
  <2>5. answer' \in [Conns -> Answers \cup {Blank}] /\ answered' \subseteq Answers
    BY <2>1, <2>4
  <2> QED
    BY <1>14, <2>1, <2>3, <2>5 DEF ReadAnswer
<1>15. ASSUME NEW c \in Conns, FlushAnswer(c) PROVE TypeOK'
  BY <1>15 DEF FlushAnswer
<1>16. ASSUME NEW c \in Conns, EndAnswers(c) PROVE TypeOK'
  BY <1>16 DEF EndAnswers
<1>17. ASSUME NEW c \in Conns, Leave(c) PROVE TypeOK'
  BY <1>17, BoundsAssumption DEF Leave
<1>18. ASSUME NEW c \in Conns, ClientLeaves(c) PROVE TypeOK'
  BY <1>18 DEF ClientLeaves
<1>19. ASSUME NEW c \in Conns, DaemonLeaves(c) PROVE TypeOK'
  BY <1>19 DEF DaemonLeaves
<1>20. ASSUME Stop PROVE TypeOK'
  BY <1>20 DEF Stop
<1>21. ASSUME UNCHANGED vars PROVE TypeOK'
  BY <1>21 DEF vars
<1> QED
  BY <1>1, <1>2, <1>3, <1>4, <1>5, <1>6, <1>7, <1>8, <1>9, <1>10, <1>11, <1>12, <1>13,
    <1>14, <1>15, <1>16, <1>17, <1>18, <1>19, <1>20, <1>21
  DEF Next, Connect, RelayRequests, RelayAnswers, Peers

\* The shape of a connection in each phase of its handler: nothing is registered
\* before it is opened or left registered after it is closed, and the handler
\* outlives the request relay.
LEMMA PhasesStep ==
  ASSUME TypeOK, Phases, [Next]_vars PROVE Phases'
<1> SUFFICES ASSUME NEW d \in Conns PROVE PhaseOf(d)'
  BY DEF Phases
<1> PhaseOf(d)
  BY DEF Phases
<1> /\ handler \in [Conns -> HandlerPcs]
    /\ relay \in [Conns -> {"off", "read", "observe", "forward", "over"}]
    /\ remote \in [Conns -> {"none", "open", "closed"}]
    /\ client \in [Conns -> {"none", "open", "closed"}]
  BY DEF TypeOK
<1> USE DEF HandlerPcs, PhaseOf, BeforeRelays, sockets, Step, Close
<1>1. ASSUME NEW c \in Conns, Accept(c) PROVE PhaseOf(d)'
  BY <1>1 DEF Accept
<1>2. ASSUME NEW c \in Conns, Dial(c) PROVE PhaseOf(d)'
  BY <1>2 DEF Dial
<1>3. ASSUME NEW c \in Conns, DialFails(c) PROVE PhaseOf(d)'
  BY <1>3 DEF DialFails
<1>4. ASSUME NEW c \in Conns, RegisterRemote(c) PROVE PhaseOf(d)'
  BY <1>4 DEF RegisterRemote
<1>5. ASSUME NEW c \in Conns, RemoteTooLate(c) PROVE PhaseOf(d)'
  BY <1>5 DEF RemoteTooLate
<1>6. ASSUME NEW c \in Conns, Upgrade(c) PROVE PhaseOf(d)'
  BY <1>6 DEF Upgrade
<1>7. ASSUME NEW c \in Conns, UpgradeFails(c) PROVE PhaseOf(d)'
  BY <1>7 DEF UpgradeFails
<1>8. ASSUME NEW c \in Conns, RegisterClient(c) PROVE PhaseOf(d)'
  BY <1>8 DEF RegisterClient
<1>9. ASSUME NEW c \in Conns, ClientTooLate(c) PROVE PhaseOf(d)'
  BY <1>9 DEF ClientTooLate
<1>10. ASSUME NEW c \in Conns, ReadRequest(c) PROVE PhaseOf(d)'
  BY <1>10 DEF ReadRequest
<1>11. ASSUME NEW c \in Conns, ObserveRequest(c) PROVE PhaseOf(d)'
  BY <1>11 DEF ObserveRequest
<1>12. ASSUME NEW c \in Conns, ForwardRequest(c) PROVE PhaseOf(d)'
  BY <1>12 DEF ForwardRequest
<1>13. ASSUME NEW c \in Conns, EndRequests(c) PROVE PhaseOf(d)'
  BY <1>13 DEF EndRequests
<1>14. ASSUME NEW c \in Conns, ReadAnswer(c) PROVE PhaseOf(d)'
  BY <1>14 DEF ReadAnswer
<1>15. ASSUME NEW c \in Conns, FlushAnswer(c) PROVE PhaseOf(d)'
  BY <1>15 DEF FlushAnswer
<1>16. ASSUME NEW c \in Conns, EndAnswers(c) PROVE PhaseOf(d)'
  BY <1>16 DEF EndAnswers
<1>17. ASSUME NEW c \in Conns, Leave(c) PROVE PhaseOf(d)'
  BY <1>17 DEF Leave
<1>18. ASSUME NEW c \in Conns, ClientLeaves(c) PROVE PhaseOf(d)'
  BY <1>18 DEF ClientLeaves
<1>19. ASSUME NEW c \in Conns, DaemonLeaves(c) PROVE PhaseOf(d)'
  BY <1>19 DEF DaemonLeaves
<1>20. ASSUME Stop PROVE PhaseOf(d)'
  BY <1>20 DEF Stop
<1>21. ASSUME UNCHANGED vars PROVE PhaseOf(d)'
  BY <1>21 DEF vars
<1> QED
  BY <1>1, <1>2, <1>3, <1>4, <1>5, <1>6, <1>7, <1>8, <1>9, <1>10, <1>11, <1>12, <1>13,
    <1>14, <1>15, <1>16, <1>17, <1>18, <1>19, <1>20, <1>21
  DEF Next, Connect, RelayRequests, RelayAnswers, Peers

\* Only five actions are not quiet.
LEMMA StepKinds ==
  ASSUME TypeOK, TypeOK', Phases, [Next]_vars
  PROVE  \/ \E c \in Conns : \/ ReadRequest(c) \/ ObserveRequest(c) \/ ForwardRequest(c)
                             \/ ReadAnswer(c) \/ FlushAnswer(c)
         \/ Quiet
<1> USE DEF TypeOK, HandlerPcs, Phases, BeforeRelays, sockets, observer, history, Step,
            Disconnect, Quiet
<1>1. ASSUME NEW c \in Conns, Accept(c) PROVE Quiet
  BY <1>1 DEF Accept
<1>2. ASSUME NEW c \in Conns, Dial(c) PROVE Quiet
  BY <1>2 DEF Dial
<1>3. ASSUME NEW c \in Conns, DialFails(c) PROVE Quiet
  BY <1>3 DEF DialFails
<1>4. ASSUME NEW c \in Conns, RegisterRemote(c) PROVE Quiet
  BY <1>4 DEF RegisterRemote
<1>5. ASSUME NEW c \in Conns, RemoteTooLate(c) PROVE Quiet
  BY <1>5 DEF RemoteTooLate
<1>6. ASSUME NEW c \in Conns, Upgrade(c) PROVE Quiet
  BY <1>6 DEF Upgrade
<1>7. ASSUME NEW c \in Conns, UpgradeFails(c) PROVE Quiet
  BY <1>7 DEF UpgradeFails
<1>8. ASSUME NEW c \in Conns, RegisterClient(c) PROVE Quiet
  <2>1. relay[c] = "off" /\ handler[c] # "ended"
    BY <1>8 DEF RegisterClient, PhaseOf
  <2> QED
    BY <1>8, <2>1 DEF RegisterClient
<1>9. ASSUME NEW c \in Conns, ClientTooLate(c) PROVE Quiet
  BY <1>9 DEF ClientTooLate
<1>10. ASSUME NEW c \in Conns, EndRequests(c) PROVE Quiet
  BY <1>10 DEF EndRequests
<1>11. ASSUME NEW c \in Conns, EndAnswers(c) PROVE Quiet
  BY <1>11 DEF EndAnswers
<1>12. ASSUME NEW c \in Conns, Leave(c) PROVE Quiet
  BY <1>12 DEF Leave
<1>13. ASSUME NEW c \in Conns, ClientLeaves(c) PROVE Quiet
  BY <1>13 DEF ClientLeaves
<1>14. ASSUME NEW c \in Conns, DaemonLeaves(c) PROVE Quiet
  BY <1>14 DEF DaemonLeaves
<1>15. ASSUME Stop PROVE Quiet
  BY <1>15 DEF Stop
<1>16. ASSUME UNCHANGED vars PROVE Quiet
  BY <1>16 DEF vars
<1> QED
  BY <1>1, <1>2, <1>3, <1>4, <1>5, <1>6, <1>7, <1>8, <1>9, <1>10, <1>11, <1>12, <1>13,
    <1>14, <1>15, <1>16
  DEF Next, Connect, RelayRequests, RelayAnswers, Peers

\* An ended handler has closed, unregistered and forgotten everything, and nobody
\* brings any of it back.
LEMMA NothingLeftStep ==
  ASSUME TypeOK, Counted, Requested, Phases, NothingLeft, [Next]_vars PROVE NothingLeft'
<1> DEFINE Left(d) == /\ \A i \in Ids : pending[d][i] = 0
                      /\ remote[d] # "open" /\ client[d] # "open"
                      /\ <<d, "remote">> \notin active /\ <<d, "client">> \notin active
<1> SUFFICES ASSUME NEW d \in Conns, handler[d]' = "ended" PROVE Left(d)'
  BY DEF NothingLeft
<1> handler[d] = "ended" => Left(d)
  BY DEF NothingLeft
<1> PhaseOf(d)
  BY DEF Phases
<1> /\ handler \in [Conns -> HandlerPcs]
    /\ relay \in [Conns -> {"off", "read", "observe", "forward", "over"}]
    /\ remote \in [Conns -> {"none", "open", "closed"}]
    /\ client \in [Conns -> {"none", "open", "closed"}]
    /\ pending \in [Conns -> [Ids -> 0..MaxRequests]]
  BY DEF TypeOK
<1> USE DEF HandlerPcs, PhaseOf, BeforeRelays, sockets, observer, Step, Close, Disconnect
<1>1. ASSUME NEW c \in Conns, Accept(c) PROVE Left(d)'
  BY <1>1 DEF Accept
<1>2. ASSUME NEW c \in Conns, Dial(c) PROVE Left(d)'
  BY <1>2 DEF Dial
<1>3. ASSUME NEW c \in Conns, DialFails(c) PROVE Left(d)'
  BY <1>3 DEF DialFails
<1>4. ASSUME NEW c \in Conns, RegisterRemote(c) PROVE Left(d)'
  BY <1>4 DEF RegisterRemote
<1>5. ASSUME NEW c \in Conns, RemoteTooLate(c) PROVE Left(d)'
  BY <1>5 DEF RemoteTooLate
<1>6. ASSUME NEW c \in Conns, Upgrade(c) PROVE Left(d)'
  BY <1>6 DEF Upgrade
<1>7. ASSUME NEW c \in Conns, UpgradeFails(c) PROVE Left(d)'
  BY <1>7 DEF UpgradeFails
<1>8. ASSUME NEW c \in Conns, RegisterClient(c) PROVE Left(d)'
  BY <1>8 DEF RegisterClient
<1>9. ASSUME NEW c \in Conns, ClientTooLate(c) PROVE Left(d)'
  BY <1>9 DEF ClientTooLate
<1>10. ASSUME NEW c \in Conns, ReadRequest(c) PROVE Left(d)'
  BY <1>10 DEF ReadRequest
<1>11. ASSUME NEW c \in Conns, ObserveRequest(c) PROVE Left(d)'
  <2>1. c # d \/ handler[d] # "ended"
    BY <1>11 DEF ObserveRequest
  <2>2. hand[c].id \in Ids /\ next + 1 \in 1..MaxRequests
    BY <1>11, SequenceLeft DEF ObserveRequest
  <2>3. \A i \in Ids : c # d => pending'[d][i] = pending[d][i] \/ pending'[d][i] = 0
    BY <1>11, <2>2, RequestOnKeeps DEF ObserveRequest
  <2> QED
    BY <1>11, <2>1, <2>3 DEF ObserveRequest
<1>12. ASSUME NEW c \in Conns, ForwardRequest(c) PROVE Left(d)'
  BY <1>12 DEF ForwardRequest
<1>13. ASSUME NEW c \in Conns, EndRequests(c) PROVE Left(d)'
  BY <1>13 DEF EndRequests
<1>14. ASSUME NEW c \in Conns, ReadAnswer(c) PROVE Left(d)'
  <2>1. c # d \/ handler[d] # "ended"
    BY <1>14 DEF ReadAnswer
  <2>2. \A i \in Ids : c # d => pending'[d][i] = pending[d][i]
    BY <1>14 DEF ReadAnswer, ResponseOn
  <2> QED
    BY <1>14, <2>1, <2>2 DEF ReadAnswer
<1>15. ASSUME NEW c \in Conns, FlushAnswer(c) PROVE Left(d)'
  BY <1>15 DEF FlushAnswer
<1>16. ASSUME NEW c \in Conns, EndAnswers(c) PROVE Left(d)'
  BY <1>16 DEF EndAnswers
<1>17. ASSUME NEW c \in Conns, Leave(c) PROVE Left(d)'
  BY <1>17 DEF Leave
<1>18. ASSUME NEW c \in Conns, ClientLeaves(c) PROVE Left(d)'
  BY <1>18 DEF ClientLeaves
<1>19. ASSUME NEW c \in Conns, DaemonLeaves(c) PROVE Left(d)'
  BY <1>19 DEF DaemonLeaves
<1>20. ASSUME Stop PROVE Left(d)'
  BY <1>20 DEF Stop
<1>21. ASSUME UNCHANGED vars PROVE Left(d)'
  BY <1>21 DEF vars
<1> QED
  BY <1>1, <1>2, <1>3, <1>4, <1>5, <1>6, <1>7, <1>8, <1>9, <1>10, <1>11, <1>12, <1>13,
    <1>14, <1>15, <1>16, <1>17, <1>18, <1>19, <1>20, <1>21
  DEF Next, Connect, RelayRequests, RelayAnswers, Peers

\* A request read is counted in front of the observer, one observed gets the next
\* sequence.
LEMMA CountedStep ==
  ASSUME TypeOK, TypeOK', Counted, Requested, Phases, [Next]_vars PROVE Counted'
<1>1. ASSUME NEW c \in Conns, ReadRequest(c) PROVE Counted'
  <2>1. c \notin Observing /\ Observing' = Observing \cup {c}
    BY <1>1 DEF ReadRequest, Observing, TypeOK
  <2>2. IsFiniteSet(Observing') /\ Cardinality(Observing') = Cardinality(Observing) + 1
    BY <2>1, FS_AddElement DEF Counted
  <2>3. Cardinality(Observing) \in Nat /\ next \in Nat /\ issued \in Nat
    BY FS_CardinalityType DEF Counted, TypeOK
  <2>4. issued' = issued + 1 /\ next' = next /\ ids' = [ids EXCEPT ![c] = @ + 1]
    BY <1>1 DEF ReadRequest, observer
  <2>5. \A d \in Conns : ids[d] \in Nat /\ ids[d] <= issued /\ ids'[d] <= issued'
    BY <2>3, <2>4 DEF Counted, TypeOK
  <2> QED
    BY <2>2, <2>3, <2>4, <2>5 DEF Counted
<1>2. ASSUME NEW c \in Conns, ObserveRequest(c) PROVE Counted'
  <2>1. c \in Observing /\ Observing' = Observing \ {c}
    BY <1>2 DEF ObserveRequest, Observing, TypeOK
  <2>2. IsFiniteSet(Observing') /\ Cardinality(Observing') = Cardinality(Observing) - 1
    BY <2>1, FS_RemoveElement DEF Counted
  <2>3. Cardinality(Observing) \in Nat /\ next \in Nat /\ issued \in Nat
    BY FS_CardinalityType DEF Counted, TypeOK
  <2>4. next' = next + 1 /\ UNCHANGED <<issued, ids>>
    BY <1>2 DEF ObserveRequest, RequestOn
  <2> QED
    BY <2>2, <2>3, <2>4 DEF Counted
<1>3. ASSUME \/ Quiet
             \/ \E c \in Conns : ForwardRequest(c) \/ ReadAnswer(c) \/ FlushAnswer(c)
      PROVE  Counted'
  <2>1. UNCHANGED <<issued, next, ids>>
    BY <1>3 DEF Quiet, ForwardRequest, ReadAnswer, FlushAnswer, observer, ResponseOn
  <2>2. Observing' = Observing
    BY <1>3 DEF Quiet, ForwardRequest, ReadAnswer, FlushAnswer, Observing, TypeOK
  <2> QED
    BY <2>1, <2>2 DEF Counted
<1> QED
  BY <1>1, <1>2, <1>3, StepKinds

\* What has been observed stays pending or is dropped until it is answered.
LEMMA RequestedStep ==
  ASSUME TypeOK, TypeOK', Counted, Phases, Requested, [Next]_vars PROVE Requested'
<1> SUFFICES ASSUME NEW d \in Conns PROVE RequestsOf(d)'
  BY DEF Requested
<1>0. /\ RequestsOf(d)
      /\ ids[d] \in Nat /\ next \in Nat /\ \A r \in Sent(d) : r \in Requests
      /\ \A c \in Conns : pending[c] \in [Ids -> 0..MaxRequests]
      /\ \A r \in Sent(d) : r.id \in Ids
  <2>1. ids[d] \in 0..MaxRequests /\ next \in 0..MaxRequests
    BY DEF TypeOK
  <2>2. RequestsOf(d)
    BY DEF Requested
  <2>3. \A r \in Sent(d) : r \in Requests
    BY DEF TypeOK, Sent
  <2>4. \A r \in Sent(d) : r.id \in Ids
    BY <2>1, <2>2, BoundsAssumption DEF RequestsOf, Ids
  <2> QED
    BY <2>1, <2>2, <2>3, <2>4, BoundsAssumption DEF TypeOK
\* Enough for a step that adds no request to the connection.
<1>1. ASSUME Sent(d)' \subseteq Sent(d), ids[d]' = ids[d], next <= next', next' \in Nat,
             upstream[d]' \subseteq upstream[d] \/ relay[d]' # "forward",
             relay[d]' \in {"observe", "forward"} =>
               relay[d]' = relay[d] /\ hand[d]' = hand[d],
             handler[d]' # "ended" =>
               /\ handler[d] # "ended"
               /\ \A r \in Sent(d)' : \/ pending'[d][r.id] = pending[d][r.id]
                                      \/ pending'[d][r.id] = 0 /\ pending[d][r.id] \in dropped',
             dropped \subseteq dropped'
      PROVE  RequestsOf(d)'
  BY <1>0, <1>1 DEF RequestsOf
<1>2. ASSUME NEW c \in Conns, ReadRequest(c) PROVE RequestsOf(d)'
  <2>1. CASE c = d
    <3>1. /\ Sent(d)' = Sent(d) /\ ids'[d] = ids[d] + 1 /\ next' = next
          /\ hand'[d].id = ids'[d] /\ UNCHANGED <<handler, pending, dropped>>
          /\ relay'[d] = "observe"
      BY <1>2, <2>1 DEF ReadRequest, Sent, TypeOK, observer, history
    <3>2. \A r \in Sent(d) : r.id \in 1..ids'[d] /\ r.id # ids'[d] /\ ids'[d] # 0
      BY <1>0, <3>1 DEF RequestsOf
    <3>3. ids'[d] # 0
      BY <1>0, <3>1
    <3> QED
      BY <1>0, <3>1, <3>2, <3>3 DEF RequestsOf
  <2>2. CASE c # d
    BY <1>0, <1>1, <1>2, <2>2 DEF ReadRequest, Sent, TypeOK, observer, history
  <2> QED
    BY <2>1, <2>2
<1>3. ASSUME NEW c \in Conns, ObserveRequest(c) PROVE RequestsOf(d)'
  <2>1. /\ hand[c].id \in Ids /\ next + 1 \in 1..MaxRequests
        /\ RequestOn(c, hand[c].id)
    BY <1>3, SequenceLeft DEF ObserveRequest
  <2>2. /\ next' = next + 1 /\ dropped \subseteq dropped'
        /\ pending'[c][hand[c].id] = next + 1
        /\ \A e \in Conns, i \in Ids : <<e, i>> # <<c, hand[c].id>> =>
              \/ pending'[e][i] = pending[e][i]
              \/ pending'[e][i] = 0 /\ pending[e][i] \in dropped'
    BY <2>1, RequestOnKeeps
  <2>3. CASE c = d
    <3> DEFINE new == hand'[d]
    <3>1. /\ relay[d] = "observe" /\ relay'[d] = "forward"
          /\ UNCHANGED <<handler, upstream, ids>>
      BY <1>3, <2>3 DEF ObserveRequest, TypeOK
    <3>2. new.id = hand[d].id /\ new.order = next + 1
      BY <1>3, <2>2, <2>3 DEF ObserveRequest, TypeOK, Requests
    <3>3. Sent(d)' = Sent(d) \cup {new}
      BY <3>1 DEF Sent
    <3>4. /\ hand[d].id = ids[d] /\ ids[d] # 0 /\ \A r \in Sent(d) : r.id # ids[d]
          /\ \A r \in Sent(d) : r.id \in 1..ids[d] /\ r.order \in 1..next
          /\ \A r, s \in Sent(d) : r.id = s.id => r = s
      BY <1>0, <3>1 DEF RequestsOf
    <3>5. \A r \in Sent(d)' : r.id \in 1..ids'[d] /\ r.order \in 1..next'
      BY <1>0, <2>2, <3>1, <3>2, <3>3, <3>4
    <3>6. /\ \A r, s \in Sent(d)' : r.id = s.id => r = s
          /\ new \notin upstream[d]
      BY <3>2, <3>3, <3>4 DEF Sent
    <3>7. \A r \in Sent(d)' : \/ pending'[d][r.id] = r.order
                              \/ pending'[d][r.id] = 0 /\ r.order \in dropped'
          \/ handler[d]' = "ended"
      BY <1>0, <2>2, <2>3, <3>1, <3>2, <3>3, <3>4 DEF RequestsOf
    <3> QED
      BY <3>1, <3>5, <3>6, <3>7 DEF RequestsOf
  <2>4. CASE c # d
    <3>1. /\ Sent(d)' = Sent(d) /\ relay'[d] = relay[d] /\ hand'[d] = hand[d]
          /\ UNCHANGED <<handler, ids, upstream>>
      BY <1>3, <2>4 DEF ObserveRequest, Sent, TypeOK
    <3>2. \A r \in Sent(d) : \/ pending'[d][r.id] = pending[d][r.id]
                             \/ pending'[d][r.id] = 0 /\ pending[d][r.id] \in dropped'
      BY <1>0, <2>2, <2>4
    <3>3. next <= next' /\ next' \in Nat
      BY <1>0, <2>2
    <3> QED
      BY <1>1, <2>2, <3>1, <3>2, <3>3
  <2> QED
    BY <2>3, <2>4
<1>4. ASSUME NEW c \in Conns, ForwardRequest(c) PROVE RequestsOf(d)'
  <2>1. /\ Sent(d)' = Sent(d)
        /\ \/ relay'[d] = relay[d] /\ hand'[d] = hand[d] /\ upstream'[d] = upstream[d]
           \/ relay'[d] = "read"
    BY <1>4 DEF ForwardRequest, Sent, TypeOK
  <2>2. UNCHANGED <<pending, next, handler, ids, dropped>>
    BY <1>4 DEF ForwardRequest, observer, history
  <2>3. \A r \in Sent(d)' : pending'[d][r.id] = pending[d][r.id]
    BY <2>2
  <2>4. /\ upstream[d]' \subseteq upstream[d] \/ relay[d]' # "forward"
        /\ relay[d]' \in {"observe", "forward"} => relay[d]' = relay[d] /\ hand[d]' = hand[d]
    BY <2>1, <2>2
  <2>5. /\ Sent(d)' \subseteq Sent(d) /\ ids[d]' = ids[d] /\ next <= next' /\ next' \in Nat
        /\ handler'[d] # "ended" => handler[d] # "ended"
        /\ dropped \subseteq dropped'
    BY <1>0, <2>1, <2>2
  <2> QED
    BY <1>1, <2>3, <2>4, <2>5
<1>5. ASSUME NEW c \in Conns, ReadAnswer(c) PROVE RequestsOf(d)'
  <2>1. PICK request \in upstream[c], t \in Threads \cup {None} :
          /\ ResponseOn(c, request.id, t)
          /\ upstream' = [upstream EXCEPT ![c] = @ \ {request}]
    BY <1>5 DEF ReadAnswer
  <2>2. /\ UNCHANGED <<next, dropped>>
        /\ pending' = [pending EXCEPT ![c][request.id] = 0]
    BY <2>1 DEF ResponseOn
  <2>3. UNCHANGED <<relay, hand, ids>> /\ (handler[d] = "ended" => handler'[d] = "ended")
    BY <1>5 DEF ReadAnswer, Step, TypeOK
  <2>4. CASE c = d
    <3>1. upstream'[d] = upstream[d] \ {request} /\ request \in upstream[d]
      BY <2>1, <2>4 DEF TypeOK
    <3>2. request \in Sent(d) /\ Sent(d)' \subseteq Sent(d)
      BY <2>3, <3>1 DEF Sent
    <3>3. request \notin Sent(d)'
      BY <1>0, <2>3, <3>1 DEF Sent, RequestsOf
    <3>4. \A r \in Sent(d)' : r.id # request.id
      BY <1>0, <3>2, <3>3 DEF RequestsOf
    <3>5. \A r \in Sent(d)' : pending'[d][r.id] = pending[d][r.id]
      BY <1>0, <2>2, <2>4, <3>2, <3>4 DEF TypeOK
    <3> QED
      BY <1>0, <1>1, <2>2, <2>3, <3>1, <3>2, <3>5
  <2>5. CASE c # d
    <3>1. Sent(d)' = Sent(d) /\ pending'[d] = pending[d] /\ upstream'[d] = upstream[d]
      BY <2>1, <2>2, <2>3, <2>5 DEF Sent, TypeOK
    <3> QED
      BY <1>0, <1>1, <2>2, <2>3, <3>1
  <2> QED
    BY <2>4, <2>5
<1>6. ASSUME NEW c \in Conns, FlushAnswer(c) PROVE RequestsOf(d)'
  <2>1. /\ UNCHANGED <<relay, hand, upstream, ids, pending, next, dropped>>
        /\ handler[d] = "ended" => handler'[d] = "ended"
    BY <1>6 DEF FlushAnswer, observer, Step, TypeOK
  <2>2. Sent(d)' = Sent(d)
    BY <2>1 DEF Sent
  <2> QED
    BY <1>0, <1>1, <2>1, <2>2
<1>7. ASSUME Quiet PROVE RequestsOf(d)'
  <2>1. Sent(d)' \subseteq Sent(d)
    BY <1>7 DEF Quiet, Sent
  <2>2. /\ UNCHANGED <<upstream, ids, next, dropped>>
        /\ handler[d] = "ended" => handler'[d] = "ended"
        /\ pending'[d] = pending[d] \/ handler'[d] = "ended"
        /\ \/ relay'[d] = relay[d] /\ hand'[d] = hand[d]
           \/ relay'[d] \in {"read", "over"}
    BY <1>7 DEF Quiet, history
  <2>3. handler'[d] # "ended" =>
          \A r \in Sent(d)' : pending'[d][r.id] = pending[d][r.id]
    BY <2>2
  <2>4. /\ upstream[d]' \subseteq upstream[d] \/ relay[d]' # "forward"
        /\ relay[d]' \in {"observe", "forward"} => relay[d]' = relay[d] /\ hand[d]' = hand[d]
    BY <2>1, <2>2
  <2>5. /\ Sent(d)' \subseteq Sent(d) /\ ids[d]' = ids[d] /\ next <= next' /\ next' \in Nat
        /\ handler'[d] # "ended" => handler[d] # "ended"
        /\ dropped \subseteq dropped'
    BY <1>0, <2>1, <2>2
  <2> QED
    BY <1>1, <2>3, <2>4, <2>5
<1> QED
  BY <1>2, <1>3, <1>4, <1>5, <1>6, <1>7, StepKinds

\* An answer is credited to its own request: its sequence is the one the request
\* still has, or it has been dropped and the observer stays where it is.
LEMMA AnswerStep ==
  ASSUME TypeOK, Requested, Attributed, NEW c \in Conns, ReadAnswer(c)
  PROVE  /\ applied <= applied' /\ applied' \in Nat /\ dropped' = dropped
         /\ answered \subseteq answered'
         /\ answer' = [answer EXCEPT ![c] = answer'[c]]
         /\ answer'[c] # Blank =>
              answer'[c].order <= applied' \/ answer'[c].order \in dropped'
         /\ \/ UNCHANGED <<applied, thread>>
            \/ /\ thread' # None
               /\ [order |-> applied', thread |-> thread'] \in answered'
<1>1. PICK request \in upstream[c], t \in Threads \cup {None} :
        /\ ResponseOn(c, request.id, t)
        /\ answer' = [answer EXCEPT ![c] =
                        IF t = None THEN Blank
                        ELSE [order |-> request.order, thread |-> t]]
        /\ answered' = answered \cup ({answer'[c]} \ {Blank})
  BY DEF ReadAnswer
<1>2. /\ request \in Sent(c) /\ handler[c] # "ended"
      /\ ids[c] \in 0..MaxRequests /\ next \in 0..MaxRequests
  BY <1>1 DEF Sent, ReadAnswer, TypeOK
<1>3. /\ request.id \in Ids /\ request.order \in Nat /\ request.order # 0
      /\ \/ pending[c][request.id] = request.order
         \/ pending[c][request.id] = 0 /\ request.order \in dropped
  BY <1>2, BoundsAssumption DEF Requested, RequestsOf, Ids
<1>4. /\ applied' \in Nat /\ applied \in Nat /\ applied <= applied' /\ dropped' = dropped
      /\ t # None => pending[c][request.id] <= applied'
      /\ \/ UNCHANGED <<applied, thread>>
         \/ /\ applied' = pending[c][request.id] /\ thread' = t /\ t # None
            /\ pending[c][request.id] # 0
  <2>1. applied' \in 0..MaxRequests /\ applied \in 0..MaxRequests
    BY <1>1, <1>3, ResponseOnKeeps DEF TypeOK
  <2> QED
    BY <1>1, <1>3, <2>1, ResponseOnKeeps, BoundsAssumption
<1>5. answer'[c] = IF t = None THEN Blank ELSE [order |-> request.order, thread |-> t]
  BY <1>1 DEF TypeOK
<1>6. t # None => answer'[c] # Blank /\ answer'[c].order = request.order
  BY <1>3, <1>5 DEF Blank
<1>7. /\ answered \subseteq answered'
      /\ answer' = [answer EXCEPT ![c] = answer'[c]]
      /\ t # None => answer'[c] \in answered'
  <2> DEFINE new == IF t = None THEN Blank ELSE [order |-> request.order, thread |-> t]
  <2>1. answer' = [answer EXCEPT ![c] = new] /\ answer'[c] = new
    BY <1>1, <1>5
  <2>2. answered' = answered \cup ({answer'[c]} \ {Blank})
    BY <1>1
  <2> HIDE DEF new
  <2>3. answer' = [answer EXCEPT ![c] = answer'[c]]
    BY <2>1
  <2>4. answered \subseteq answered'
    BY <2>2
  <2>5. t # None => answer'[c] \in answered'
    BY <1>6, <2>2
  <2> QED
    BY <2>3, <2>4, <2>5
<1>8. answer'[c] # Blank =>
        answer'[c].order <= applied' \/ answer'[c].order \in dropped'
  BY <1>3, <1>4, <1>5, <1>6
<1>9. \/ UNCHANGED <<applied, thread>>
      \/ thread' # None /\ [order |-> applied', thread |-> thread'] \in answered'
  BY <1>3, <1>4, <1>5, <1>7
<1> QED
  BY <1>4, <1>7, <1>8, <1>9

\* Crediting, and the answers the client has or is about to get.
LEMMA ClientStep ==
  ASSUME TypeOK, TypeOK', Counted, Phases, Requested, Attributed, Heard,
         NeverBehindClient, [Next]_vars
  PROVE  Attributed' /\ Heard' /\ NeverBehindClient'
<1>0. /\ applied \in Nat /\ applied' \in Nat
      /\ \A a \in told : a.order \in Nat
      /\ \A c \in Conns : answer[c] # Blank => answer[c].order \in Nat
  BY DEF TypeOK, Answers
\* Enough for a step that gets no new answer: what is on its way is what was.
<1>1. ASSUME UNCHANGED <<applied, thread, told>>, answered \subseteq answered',
             dropped \subseteq dropped',
             \A c \in Conns : answer'[c] = answer[c] \/ answer'[c] = Blank
      PROVE  Attributed' /\ Heard' /\ NeverBehindClient'
  BY <1>1 DEF Attributed, Heard, NeverBehindClient
<1>2. ASSUME NEW c \in Conns, ReadRequest(c) \/ ForwardRequest(c)
      PROVE  Attributed' /\ Heard' /\ NeverBehindClient'
  BY <1>1, <1>2 DEF ReadRequest, ForwardRequest, observer, history
<1>3. ASSUME NEW c \in Conns, ObserveRequest(c)
      PROVE  Attributed' /\ Heard' /\ NeverBehindClient'
  BY <1>1, <1>3 DEF ObserveRequest, RequestOn
<1>4. ASSUME NEW c \in Conns, ReadAnswer(c)
      PROVE  Attributed' /\ Heard' /\ NeverBehindClient'
  <2>1. told' = told
    BY <1>4 DEF ReadAnswer
  <2>2. Attributed'
    BY <1>4, AnswerStep DEF Attributed
  <2>3. Heard'
    <3>1. \A d \in Conns : answer'[d] = answer[d] \/ d = c
      BY <1>4, AnswerStep DEF TypeOK
    <3>2. \A d \in Conns : answer[d] # Blank =>
            answer[d].order <= applied' \/ answer[d].order \in dropped'
      BY <1>0, <1>4, AnswerStep DEF Heard
    <3> QED
      BY <1>4, <3>1, <3>2, AnswerStep DEF Heard
  <2>4. NeverBehindClient'
    BY <1>0, <1>4, <2>1, AnswerStep DEF NeverBehindClient
  <2> QED
    BY <2>2, <2>3, <2>4
<1>5. ASSUME NEW c \in Conns, FlushAnswer(c)
      PROVE  Attributed' /\ Heard' /\ NeverBehindClient'
  <2>1. /\ UNCHANGED <<applied, thread, answered, dropped>>
        /\ told' = told \cup ({answer[c]} \ {Blank})
        /\ answer' = [answer EXCEPT ![c] = Blank]
    BY <1>5 DEF FlushAnswer, observer
  <2>2. Attributed' /\ Heard'
    BY <2>1 DEF Attributed, Heard, TypeOK
  <2>3. NeverBehindClient'
    BY <1>0, <2>1 DEF Heard, NeverBehindClient
  <2> QED
    BY <2>2, <2>3
<1>6. CASE Quiet
  BY <1>1, <1>6 DEF Quiet, history
<1> QED
  BY <1>2, <1>3, <1>4, <1>5, <1>6, StepKinds

----------------------------------------------------------------------------
LEMMA Initially == ASSUME Init PROVE IInv
<1> USE DEF Init
<1>1. TypeOK
  <2>1. NoRequest \in Requests /\ 0 \in 0..MaxRequests
    BY BoundsAssumption DEF Requests, NoRequest
  <2> QED
    BY <2>1 DEF TypeOK, HandlerPcs
<1>2. Counted
  <2>1. Observing = {}
    BY DEF Observing
  <2> QED
    BY <2>1, FS_EmptySet DEF Counted
<1>3. Phases /\ NothingLeft
  BY DEF Phases, PhaseOf, NothingLeft
<1>4. Requested
  BY DEF Requested, RequestsOf, Sent
<1>5. Attributed /\ Heard /\ NeverBehindClient
  BY DEF Attributed, Heard, NeverBehindClient
<1> QED
  BY <1>1, <1>2, <1>3, <1>4, <1>5 DEF IInv

LEMMA Inductive == IInv /\ [Next]_vars => IInv'
<1> SUFFICES ASSUME IInv, [Next]_vars PROVE IInv'
  OBVIOUS
<1> USE DEF IInv
<1>1. TypeOK'
  BY TypeStep
<1>2. Counted'
  BY <1>1, CountedStep
<1>3. Phases' /\ NothingLeft'
  BY PhasesStep, NothingLeftStep
<1>4. Requested'
  BY <1>1, RequestedStep
<1>5. Attributed' /\ Heard' /\ NeverBehindClient'
  BY <1>1, ClientStep
<1> QED
  BY <1>1, <1>2, <1>3, <1>4, <1>5

\* The state a bridge and its observer are ever in: requests, sequences, answers
\* and the shape of every connection.
THEOREM Invariant == Spec => []IInv
  BY Initially, Inductive, PTL DEF Spec

\* Types: no request gets a sequence outside 1..MaxRequests.
THEOREM TypeCorrect == Spec => []TypeOK
<1>1. IInv => TypeOK
  BY DEF IInv
<1> QED
  BY <1>1, Invariant, PTL

\* The observer's thread is one the daemon answered the credited request with,
\* however many connections share ids and however answers are reordered.
THEOREM AttributedThread == Spec => []Attributed
<1>1. IInv => Attributed
  BY DEF IInv
<1> QED
  BY <1>1, Invariant, PTL

\* What the client has been told of a request later than the one applied was
\* forgotten on purpose: current() is never behind what the user sees.
THEOREM ObserverKeepsUp == Spec => []NeverBehindClient
<1>1. IInv => NeverBehindClient
  BY DEF IInv
<1> QED
  BY <1>1, Invariant, PTL

\* A handler that has ended left no pending request, open socket or entry in
\* `active`, and no relay of its connection can bring one back.
THEOREM ConnectionsCleanUp == Spec => []NothingLeft
<1>1. IInv => NothingLeft
  BY DEF IInv
<1> QED
  BY <1>1, Invariant, PTL
--------------------------------------------------------------------------------
\* stop closes what register has let in and register lets nothing in after it, and a
\* relay that ends closes the socket the other one reads: no handler is left waiting
\* for a peer.
ClosingReaches ==
  \A c \in Conns :
    /\ closed /\ handler[c] \in {"upgrade", "registerClient", "relay", "flush"} =>
         remote[c] = "closed"
    /\ closed /\ handler[c] \in {"relay", "flush"} => client[c] = "closed"
    /\ handler[c] \in {"relay", "flush"} /\ relay[c] = "over" => remote[c] = "closed"
    /\ handler[c] = "drain" => client[c] = "closed" /\ remote[c] = "closed"

\* Which sockets are in `active`, and that a stop has closed those.
Swept ==
  \A c \in Conns :
    /\ handler[c] \in {"upgrade", "registerClient", "relay", "flush"} =>
         <<c, "remote">> \in active
    /\ handler[c] \in {"relay", "flush"} => <<c, "client">> \in active
    /\ closed /\ <<c, "remote">> \in active => remote[c] = "closed"
    /\ closed /\ <<c, "client">> \in active => client[c] = "closed"
    /\ handler[c] \in {"relay", "flush"} /\ relay[c] = "over" => remote[c] = "closed"

LEMMA SweptStep == ASSUME TypeOK, Phases, Swept, [Next]_vars PROVE Swept'
<1> USE DEF Swept, sockets, Step, Close
<1>0. /\ handler \in [Conns -> HandlerPcs]
      /\ relay \in [Conns -> {"off", "read", "observe", "forward", "over"}]
      /\ remote \in [Conns -> {"none", "open", "closed"}]
      /\ client \in [Conns -> {"none", "open", "closed"}]
      /\ \A c \in Conns : PhaseOf(c)
  BY DEF TypeOK, Phases
<1>1. ASSUME NEW c \in Conns, Accept(c) \/ DialFails(c) PROVE Swept'
  BY <1>0, <1>1 DEF Accept, DialFails
<1>2. ASSUME NEW c \in Conns, Dial(c) \/ Upgrade(c) PROVE Swept'
  <2>1. CASE Dial(c)
    BY <1>0, <2>1 DEF Dial, PhaseOf
  <2>2. CASE Upgrade(c)
    BY <1>0, <2>2 DEF Upgrade, PhaseOf, BeforeRelays
  <2> QED BY <1>2, <2>1, <2>2
<1>3. ASSUME NEW c \in Conns, RegisterRemote(c) \/ RegisterClient(c) PROVE Swept'
  BY ZenonT(40), <1>0, <1>3 DEF RegisterRemote, RegisterClient, PhaseOf, BeforeRelays
<1>4. ASSUME NEW c \in Conns, RemoteTooLate(c) PROVE Swept'
  BY <1>0, <1>4 DEF RemoteTooLate, PhaseOf, BeforeRelays
<1>5. ASSUME NEW c \in Conns, UpgradeFails(c) PROVE Swept'
  BY <1>0, <1>5 DEF UpgradeFails, PhaseOf, BeforeRelays
<1>6. ASSUME NEW c \in Conns, ClientTooLate(c) PROVE Swept'
  BY <1>0, <1>6 DEF ClientTooLate, PhaseOf, BeforeRelays
<1>7. ASSUME NEW c \in Conns, RelayRequests(c) PROVE Swept'
  BY <1>0, <1>7 DEF RelayRequests, ReadRequest, ObserveRequest, ForwardRequest, EndRequests
<1>8. ASSUME NEW c \in Conns, RelayAnswers(c) PROVE Swept'
  BY ZenonT(40), <1>0, <1>8 DEF RelayAnswers, ReadAnswer, FlushAnswer, EndAnswers, Leave
<1>9. ASSUME NEW c \in Conns, Peers(c) PROVE Swept'
  BY <1>0, <1>9 DEF Peers, ClientLeaves, DaemonLeaves
<1>10. CASE Stop
  BY <1>0, <1>10 DEF Stop
<1>11. CASE UNCHANGED vars
  BY <1>11 DEF vars
<1> QED
  BY <1>1, <1>2, <1>3, <1>4, <1>5, <1>6, <1>7, <1>8, <1>9, <1>10, <1>11 DEF Next, Connect

\* What stop has closed stays closed to whoever registers, and each relay's end reaches
\* the other: the part of ClosedEnds that no fairness can mend.
THEOREM StopReaches == Spec => []ClosingReaches
<1>1. Init => Swept
  BY DEF Init, Swept
<1>2. IInv /\ Swept /\ [Next]_vars => Swept'
  BY SweptStep DEF IInv
<1>3. IInv /\ Swept => ClosingReaches
  BY DEF IInv, Phases, PhaseOf, Swept, ClosingReaches
<1> QED BY <1>1, <1>2, <1>3, Invariant, PTL DEF Spec
--------------------------------------------------------------------------------
(* The bridge implements LatestThread: sequences are numbers of launches.     *)

\* A sequence that is waited for is of one request, given out and neither dropped nor
\* answered.
Remembered ==
  \A c, d \in Conns, i, j \in Ids : pending[c][i] # 0 =>
    /\ pending[c][i] \in 1..next /\ pending[c][i] \notin dropped
    /\ \A a \in answered : a.order # pending[c][i]
    /\ pending[d][j] = pending[c][i] => d = c /\ j = i

\* Whatever has a sequence has one that was given out, two requests never the same,
\* and a request on its way none that is answered.
Numbered ==
  /\ dropped \subseteq 1..next
  /\ \A a \in answered : a.order \in 1..next
  /\ \A c \in Conns : answer[c] \in answered \cup {Blank}
  /\ \A c, d \in Conns : \A r \in Sent(c), s \in Sent(d) :
       r.order = s.order => c = d /\ r = s
  /\ \A c \in Conns : \A r \in Sent(c), a \in answered : a.order # r.order

\* Enough for a step that gives out no sequence and brings no answer.
LEMMA SequencesKept ==
  ASSUME Remembered, Numbered, UNCHANGED <<next, dropped, answered>>,
         \A c \in Conns : \/ pending'[c] = pending[c]
                          \/ \A i \in Ids : pending'[c][i] = 0,
         \A c \in Conns : Sent(c)' \subseteq Sent(c),
         \A c \in Conns : answer'[c] \in {answer[c], Blank}
  PROVE  Remembered' /\ Numbered'
<1>1. Remembered'
  <2> SUFFICES ASSUME NEW c \in Conns, NEW d \in Conns, NEW i \in Ids, NEW j \in Ids,
                      pending'[c][i] # 0
               PROVE  /\ pending'[c][i] \in 1..next /\ pending'[c][i] \notin dropped
                      /\ \A a \in answered : a.order # pending'[c][i]
                      /\ pending'[d][j] = pending'[c][i] => d = c /\ j = i
    BY DEF Remembered
  <2>1. pending'[c][i] = pending[c][i]
    OBVIOUS
  <2>2. pending'[d][j] = pending[d][j] \/ pending'[d][j] = 0
    OBVIOUS
  <2> QED BY <2>1, <2>2 DEF Remembered
<1>2. Numbered'
  BY DEF Numbered
<1> QED BY <1>1, <1>2

LEMMA ObserveSequenced ==
  ASSUME TypeOK, TypeOK', Counted, Requested, Remembered, Numbered, NEW c \in Conns,
         ObserveRequest(c)
  PROVE  Remembered' /\ Numbered'
<1> DEFINE id == hand[c].id
           new == hand'[c]
<1>1. id \in Ids /\ next + 1 \in 1..MaxRequests /\ next \in Nat /\ RequestOn(c, id)
  BY SequenceLeft DEF ObserveRequest, TypeOK
<1>2. /\ next' = next + 1 /\ pending'[c][id] = next + 1
      /\ \A d \in Conns, i \in Ids : <<d, i>> # <<c, id>> =>
           \/ pending'[d][i] = pending[d][i]
           \/ pending'[d][i] = 0 /\ pending[d][i] \in dropped'
  BY <1>1, RequestOnKeeps
<1>3. /\ UNCHANGED <<upstream, answered, answer>> /\ relay[c] = "observe"
      /\ relay' = [relay EXCEPT ![c] = "forward"]
      /\ hand' = [hand EXCEPT ![c].order = next']
  BY DEF ObserveRequest
\* What is dropped was waited for, and is waited for no longer.
<1>4. \A n \in dropped' \ dropped :
        /\ n \in 1..next
        /\ \A d \in Conns, i \in Ids : <<d, i>> # <<c, id>> => pending'[d][i] # n
  <2> DEFINE kept == IF Cardinality(Waiting) >= MaxPending THEN Forgotten ELSE pending
  <2>1. /\ pending' = [kept EXCEPT ![c][id] = next + 1]
        /\ dropped' = dropped \cup {pending[x[1]][x[2]] : x \in
                                      {w \in Waiting : kept[w[1]][w[2]] = 0}}
    BY <1>1 DEF RequestOn
  <2> SUFFICES ASSUME NEW n \in dropped' \ dropped
               PROVE  /\ n \in 1..next
                      /\ \A d \in Conns, i \in Ids :
                           <<d, i>> # <<c, id>> => pending'[d][i] # n
    OBVIOUS
  <2>2. PICK x \in Waiting : kept[x[1]][x[2]] = 0 /\ n = pending[x[1]][x[2]]
    BY <2>1
  <2>3. x[1] \in Conns /\ x[2] \in Ids /\ pending[x[1]][x[2]] # 0
    BY <2>2 DEF Waiting
  <2>4. n \in 1..next
    BY <2>2, <2>3 DEF Remembered
  <2>5. kept = Forgotten
    BY <2>2, <2>3
  <2>6. \A d \in Conns, i \in Ids : <<d, i>> # <<c, id>> => pending'[d][i] = Forgotten[d][i]
    <3>1. Forgotten \in [Conns -> [Ids -> {0}]]
      BY DEF Forgotten
    <3>2. pending' = [Forgotten EXCEPT ![c][id] = next + 1]
      BY <2>1, <2>5
    <3> QED BY <3>1, <3>2, <1>1
  <2>7. \A d \in Conns, i \in Ids : Forgotten[d][i] = 0
    BY DEF Forgotten
  <2> QED BY <2>4, <2>6, <2>7
<1>5. \A d \in Conns, i \in Ids : pending'[d][i] # 0 =>
        \/ d = c /\ i = id /\ pending'[d][i] = next + 1
        \/ <<d, i>> # <<c, id>> /\ pending'[d][i] = pending[d][i] /\ pending[d][i] \in 1..next
  BY <1>1, <1>2 DEF Remembered
<1>6. Remembered'
  <2> SUFFICES ASSUME NEW d \in Conns, NEW e \in Conns, NEW i \in Ids, NEW j \in Ids,
                      pending'[d][i] # 0
               PROVE  /\ pending'[d][i] \in 1..next' /\ pending'[d][i] \notin dropped'
                      /\ \A a \in answered' : a.order # pending'[d][i]
                      /\ pending'[e][j] = pending'[d][i] => e = d /\ j = i
    BY DEF Remembered
  <2>1. CASE d = c /\ i = id /\ pending'[d][i] = next + 1
    <3>1. next + 1 \in 1..next' /\ next + 1 \notin 1..next
      BY <1>1, <1>2
    <3>2. next + 1 \notin dropped'
      BY <1>4, <3>1 DEF Numbered
    <3>3. \A a \in answered' : a.order # next + 1
      BY <1>3, <3>1 DEF Numbered
    <3>4. pending'[e][j] = next + 1 => e = c /\ j = id
      BY <1>1, <1>5, <3>1
    <3> QED BY <2>1, <3>1, <3>2, <3>3, <3>4
  <2>2. CASE <<d, i>> # <<c, id>> /\ pending'[d][i] = pending[d][i] /\ pending[d][i] \in 1..next
    <3>1. pending'[d][i] \in 1..next'
      BY <1>1, <1>2, <2>2
    <3>2. pending'[d][i] \notin dropped'
      BY <1>4, <2>2 DEF Remembered
    <3>3. \A a \in answered' : a.order # pending'[d][i]
      BY <1>3, <2>2 DEF Remembered
    <3>4. pending'[e][j] = pending'[d][i] => e = d /\ j = i
      BY <1>1, <1>5, <2>2 DEF Remembered
    <3> QED BY <3>1, <3>2, <3>3, <3>4
  <2> QED BY <1>5, <2>1, <2>2
<1>7. Numbered'
  <2>1. dropped' \subseteq 1..next'
    <3>1. 1..next \subseteq 1..next'
      BY <1>1, <1>2
    <3>2. \A n \in dropped' : n \in dropped \/ n \in 1..next
      BY <1>4
    <3> QED BY <3>1, <3>2 DEF Numbered
  <2>2. \A a \in answered' : a.order \in 1..next'
    BY <1>1, <1>2, <1>3 DEF Numbered
  <2>3. \A d \in Conns : answer'[d] \in answered' \cup {Blank}
    BY <1>3 DEF Numbered
  <2>4. /\ Sent(c)' = Sent(c) \cup {new} /\ new.order = next + 1
        /\ \A d \in Conns : d # c => Sent(d)' = Sent(d)
    <3>1. Sent(c)' = Sent(c) \cup {new}
      BY <1>3 DEF Sent, TypeOK
    <3>2. new.order = next + 1
      BY <1>2, <1>3 DEF TypeOK, Requests
    <3>3. \A d \in Conns : d # c => Sent(d)' = Sent(d)
      BY <1>3 DEF Sent, TypeOK
    <3> QED BY <3>1, <3>2, <3>3
  <2>5. \A d \in Conns : \A r \in Sent(d) : r.order \in 1..next
    BY DEF Requested, RequestsOf
  <2>6. next + 1 \notin 1..next
    BY <1>1
  <2>7. \A d, e \in Conns : \A r \in Sent(d)', s \in Sent(e)' :
          r.order = s.order => d = e /\ r = s
    BY <2>4, <2>5, <2>6 DEF Numbered
  <2>8. \A d \in Conns : \A r \in Sent(d)', a \in answered' : a.order # r.order
    <3>1. answered' = answered /\ \A a \in answered : a.order # next + 1
      BY <1>3, <2>6 DEF Numbered
    <3>2. ASSUME NEW d \in Conns, NEW r \in Sent(d)', NEW a \in answered
          PROVE  a.order # r.order
      <4>1. CASE r \in Sent(d)
        BY <4>1 DEF Numbered
      <4>2. CASE r \notin Sent(d)
        <5>1. d = c /\ r = new
          BY <2>4, <4>2
        <5> QED BY <2>4, <3>1, <5>1
      <4> QED BY <4>1, <4>2
    <3> QED BY <3>1, <3>2
  <2> QED BY <2>1, <2>2, <2>3, <2>7, <2>8 DEF Numbered
<1> QED BY <1>6, <1>7

\* An answer takes the request off the connection, and its sequence with it.
LEMMA AnswerSequenced ==
  ASSUME TypeOK, Requested, Remembered, Numbered, NEW c \in Conns, ReadAnswer(c)
  PROVE  Remembered' /\ Numbered'
<1>1. PICK request \in upstream[c], t \in Threads \cup {None} :
        /\ ResponseOn(c, request.id, t)
        /\ upstream' = [upstream EXCEPT ![c] = @ \ {request}]
        /\ answer' = [answer EXCEPT ![c] =
                        IF t = None THEN Blank
                        ELSE [order |-> request.order, thread |-> t]]
        /\ answered' = answered \cup ({answer'[c]} \ {Blank})
  BY DEF ReadAnswer
<1>2. request \in Sent(c) /\ handler[c] # "ended"
  BY DEF Sent, ReadAnswer
<1>3. /\ request.id \in Ids /\ request.order \in 1..next
      /\ \/ pending[c][request.id] = request.order
         \/ pending[c][request.id] = 0 /\ request.order \in dropped
  <2>1. ids[c] \in 0..MaxRequests
    BY DEF TypeOK
  <2> QED BY <1>2, <2>1, BoundsAssumption DEF Requested, RequestsOf, Ids
<1>4. /\ UNCHANGED <<next, dropped, relay, hand>>
      /\ pending' = [pending EXCEPT ![c][request.id] = 0]
  BY <1>1 DEF ResponseOn, ReadAnswer
<1>5. \A d \in Conns, i \in Ids :
        \/ pending'[d][i] = pending[d][i] /\ <<d, i>> # <<c, request.id>>
        \/ pending'[d][i] = 0
  BY <1>3, <1>4 DEF TypeOK
<1>6. \A a \in answered' \ answered : a.order = request.order
  BY <1>1 DEF TypeOK
<1>7. Sent(c)' = Sent(c) \ {request} /\ \A d \in Conns : d # c => Sent(d)' = Sent(d)
  <2>1. upstream'[c] = upstream[c] \ {request}
    BY <1>1 DEF TypeOK
  <2>2. relay[c] = "forward" => hand[c] # request
    BY <1>1 DEF Requested, RequestsOf
  <2>3. \A d \in Conns : d # c => upstream'[d] = upstream[d]
    BY <1>1 DEF TypeOK
  <2> QED BY <1>4, <2>1, <2>2, <2>3 DEF Sent
<1>8. Remembered'
  <2> SUFFICES ASSUME NEW d \in Conns, NEW e \in Conns, NEW i \in Ids, NEW j \in Ids,
                      pending'[d][i] # 0
               PROVE  /\ pending'[d][i] \in 1..next' /\ pending'[d][i] \notin dropped'
                      /\ \A a \in answered' : a.order # pending'[d][i]
                      /\ pending'[e][j] = pending'[d][i] => e = d /\ j = i
    BY DEF Remembered
  <2>1. pending'[d][i] = pending[d][i] /\ <<d, i>> # <<c, request.id>>
    BY <1>5
  <2>2. pending[d][i] # request.order
    BY <1>3, <2>1 DEF Remembered
  <2>3. \A a \in answered' : a.order # pending'[d][i]
    BY <1>6, <2>1, <2>2 DEF Remembered
  <2>4. pending'[e][j] = pending'[d][i] => e = d /\ j = i
    BY <1>5, <2>1 DEF Remembered
  <2> QED BY <1>4, <2>1, <2>3, <2>4 DEF Remembered
<1>9. Numbered'
  <2>1. dropped' \subseteq 1..next'
    BY <1>4 DEF Numbered
  <2>2. \A a \in answered' : a.order \in 1..next'
    BY <1>3, <1>4, <1>6 DEF Numbered
  <2>3. \A d \in Conns : answer'[d] \in answered' \cup {Blank}
    <3>1. \A d \in Conns : d # c => answer'[d] = answer[d]
      BY <1>1 DEF TypeOK
    <3> QED BY <1>1, <3>1 DEF Numbered
  <2>4. \A d \in Conns : Sent(d)' \subseteq Sent(d)
    BY <1>7
  <2>5. \A d, e \in Conns : \A r \in Sent(d)', s \in Sent(e)' :
          r.order = s.order => d = e /\ r = s
    BY <2>4 DEF Numbered
  <2>6. \A d \in Conns : \A r \in Sent(d)', a \in answered' : a.order # r.order
    <3>1. \A d \in Conns : \A r \in Sent(d)' : r.order # request.order
      BY <1>2, <1>7 DEF Numbered
    <3> QED BY <1>6, <2>4, <3>1 DEF Numbered
  <2> QED BY <2>1, <2>2, <2>3, <2>5, <2>6 DEF Numbered
<1> QED BY <1>8, <1>9

LEMMA SequencedStep ==
  ASSUME TypeOK, TypeOK', Counted, Phases, NothingLeft', Requested, Remembered,
         Numbered, [Next]_vars
  PROVE  Remembered' /\ Numbered'
<1>1. ASSUME NEW c \in Conns, ReadRequest(c) PROVE Remembered' /\ Numbered'
  <2>1. /\ UNCHANGED <<next, dropped, answered, pending, upstream, answer>>
        /\ relay[c] = "read" /\ relay' = [relay EXCEPT ![c] = "observe"]
        /\ hand' = [hand EXCEPT ![c] = [id |-> ids[c] + 1, order |-> 0]]
    BY <1>1 DEF ReadRequest, observer, history
  <2>2. \A d \in Conns : Sent(d)' \subseteq Sent(d)
    BY <2>1 DEF Sent, TypeOK
  <2> QED BY <2>1, <2>2, SequencesKept
<1>2. ASSUME NEW c \in Conns, ForwardRequest(c) PROVE Remembered' /\ Numbered'
  <2>1. UNCHANGED <<next, dropped, answered, pending, answer>>
    BY <1>2 DEF ForwardRequest, observer, history
  <2>2. \A d \in Conns : Sent(d)' \subseteq Sent(d)
    BY <1>2 DEF ForwardRequest, Sent, TypeOK
  <2> QED BY <2>1, <2>2, SequencesKept
<1>3. ASSUME NEW c \in Conns, FlushAnswer(c) PROVE Remembered' /\ Numbered'
  <2>1. /\ UNCHANGED <<next, dropped, answered, pending, relay, hand, upstream>>
        /\ answer' = [answer EXCEPT ![c] = Blank]
    BY <1>3 DEF FlushAnswer, observer
  <2>2. \A d \in Conns : Sent(d)' = Sent(d) /\ answer'[d] \in {answer[d], Blank}
    BY <2>1 DEF Sent, TypeOK
  <2> QED BY <2>1, <2>2, SequencesKept
<1>4. ASSUME Quiet PROVE Remembered' /\ Numbered'
  <2>1. UNCHANGED <<next, dropped, answered, upstream>>
    BY <1>4 DEF Quiet, history
  <2>2. \A d \in Conns : Sent(d)' \subseteq Sent(d) /\ answer'[d] \in {answer[d], Blank}
    BY <1>4 DEF Quiet, Sent
  <2>3. \A d \in Conns : pending'[d] = pending[d] \/ \A i \in Ids : pending'[d][i] = 0
    BY <1>4 DEF Quiet, NothingLeft
  <2> QED BY <2>1, <2>2, <2>3, SequencesKept
<1> QED BY <1>1, <1>2, <1>3, <1>4, ObserveSequenced, AnswerSequenced, StepKinds

\* A step of LatestThread or one that it does not see.
LaunchNext ==
  Identity!Next \/ UNCHANGED <<next, answered, dropped, told, applied, thread>>

\* A request that is observed is a launch; the table is cleared only when MaxPending
\* launches are unanswered and none of them is given up yet.
LEMMA ObserveLaunches ==
  ASSUME TypeOK, Counted, Requested, Remembered, Numbered, NEW c \in Conns,
         ObserveRequest(c)
  PROVE  LaunchNext
<1> DEFINE id == hand[c].id
           kept == IF Cardinality(Waiting) >= MaxPending THEN Forgotten ELSE pending
           open == Identity!Unanswered \ dropped
           sequence == [x \in Waiting |-> pending[x[1]][x[2]]]
<1>1. /\ next' = next + 1 /\ next \in Nat
      /\ dropped' = dropped \cup {pending[x[1]][x[2]] : x \in
                                    {w \in Waiting : kept[w[1]][w[2]] = 0}}
      /\ UNCHANGED <<applied, thread, answered, told>>
  BY DEF ObserveRequest, RequestOn, TypeOK
<1>2. \A x \in Waiting : pending[x[1]][x[2]] \in open
  <2> SUFFICES ASSUME NEW x \in Waiting PROVE pending[x[1]][x[2]] \in open
    OBVIOUS
  <2>1. x[1] \in Conns /\ x[2] \in Ids /\ pending[x[1]][x[2]] # 0
    BY DEF Waiting
  <2> QED BY <2>1 DEF Remembered, Identity!Unanswered
<1>3. dropped' \subseteq dropped \cup Identity!Unanswered
  BY <1>1, <1>2
<1>4. ASSUME dropped' # dropped PROVE Cardinality(open) >= MaxPending
  <2>1. kept = Forgotten /\ Cardinality(Waiting) >= MaxPending
    <3>1. PICK x \in Waiting : kept[x[1]][x[2]] = 0
      BY <1>1, <1>4
    <3> QED BY <3>1 DEF Waiting
  <2>2. sequence \in Injection(Waiting, open)
    <3>1. sequence \in [Waiting -> open]
      BY <1>2
    <3>2. \A x, y \in Waiting : sequence[x] = sequence[y] => x = y
      <4> SUFFICES ASSUME NEW x \in Waiting, NEW y \in Waiting, sequence[x] = sequence[y]
                   PROVE  x = y
        OBVIOUS
      <4>1. /\ x \in Conns \X Ids /\ y \in Conns \X Ids
            /\ pending[x[1]][x[2]] # 0 /\ pending[y[1]][y[2]] = pending[x[1]][x[2]]
        BY DEF Waiting
      <4>2. y[1] = x[1] /\ y[2] = x[2]
        BY <4>1 DEF Remembered
      <4> QED BY <4>1, <4>2
    <3> QED BY <3>1, <3>2 DEF Injection, IsInjective
  <2>3. IsFiniteSet(open)
    <3>1. open \subseteq 1..next
      BY DEF Identity!Unanswered
    <3>2. IsFiniteSet(1..next)
      BY <1>1, FS_Interval
    <3> HIDE DEF open
    <3> QED BY <3>1, <3>2, FS_Subset
  <2>4. /\ IsFiniteSet(Waiting) /\ Cardinality(Waiting) <= Cardinality(open)
        /\ Cardinality(Waiting) \in Nat /\ Cardinality(open) \in Nat
    <3> HIDE DEF open, sequence
    <3>1. IsFiniteSet(Waiting) /\ Cardinality(Waiting) <= Cardinality(open)
      BY <2>2, <2>3, FS_Injection
    <3> QED BY <2>3, <3>1, FS_CardinalityType
  <2> QED BY <2>1, <2>4, BoundsAssumption
<1>5. Identity!Launch
  <2>1. Identity!Cardinality(open) = Cardinality(open)
    BY DEF Identity!Cardinality, Cardinality
  <2> QED BY <1>1, <1>3, <1>4, <2>1 DEF Identity!Launch
<1> QED BY <1>5 DEF LaunchNext, Identity!Next

\* An answer that names a thread is that of its request: the observer takes it for the
\* current one exactly if no later one was and the request was not given up.
LEMMA AnswerAnswers ==
  ASSUME TypeOK, Requested, Remembered, Numbered, NEW c \in Conns, ReadAnswer(c)
  PROVE  LaunchNext
<1>1. PICK request \in upstream[c], t \in Threads \cup {None} :
        /\ ResponseOn(c, request.id, t)
        /\ answer' = [answer EXCEPT ![c] =
                        IF t = None THEN Blank
                        ELSE [order |-> request.order, thread |-> t]]
        /\ answered' = answered \cup ({answer'[c]} \ {Blank})
  BY DEF ReadAnswer
<1> DEFINE n == request.order
           a == [order |-> n, thread |-> t]
<1>2. request \in Sent(c) /\ handler[c] # "ended" /\ told' = told
  BY DEF Sent, ReadAnswer
<1>3. /\ request.id \in Ids /\ n \in 1..next /\ next \in Nat
      /\ \/ pending[c][request.id] = n
         \/ pending[c][request.id] = 0 /\ n \in dropped
  <2>1. ids[c] \in 0..MaxRequests /\ next \in 0..MaxRequests
    BY DEF TypeOK
  <2> QED BY <1>2, <2>1, BoundsAssumption DEF Requested, RequestsOf, Ids
<1>4. UNCHANGED <<next, dropped>> /\ applied \in Nat
  BY <1>1 DEF ResponseOn, TypeOK
<1>5. answer'[c] = IF t = None THEN Blank ELSE a
  BY <1>1 DEF TypeOK
<1>6. CASE t = None
  BY <1>1, <1>2, <1>4, <1>5, <1>6 DEF ResponseOn, LaunchNext
<1>7. CASE t # None
  <2>1. a # Blank /\ answered' = answered \cup {a}
    <3>1. a.order # Blank.order
      BY <1>3 DEF Blank
    <3> QED BY <1>1, <1>5, <1>7, <3>1
  <2>2. n \in Identity!Unanswered
    BY <1>2, <1>3 DEF Numbered, Identity!Unanswered
  <2>3. IF n > applied /\ n \notin dropped THEN applied' = n /\ thread' = t
                                          ELSE UNCHANGED <<applied, thread>>
    <3>1. CASE pending[c][request.id] = n
      <4>1. n \notin dropped
        BY <1>3, <3>1 DEF Remembered
      <4> QED BY <1>1, <1>7, <3>1, <4>1 DEF ResponseOn
    <3>2. CASE pending[c][request.id] = 0 /\ n \in dropped
      BY <1>1, <1>4, <3>2 DEF ResponseOn
    <3> QED BY <1>3, <3>1, <3>2
  <2>4. [order |-> applied', thread |-> thread'] =
          IF n > applied /\ n \notin dropped THEN a ELSE [order |-> applied, thread |-> thread]
    BY <2>3
  <2>5. Identity!Answer(n, t)
    BY <1>2, <1>4, <2>1, <2>2, <2>4 DEF Identity!Answer
  <2> QED BY <1>3, <1>7, <2>5 DEF LaunchNext, Identity!Next
<1> QED BY <1>6, <1>7

LEMMA StepLaunches ==
  IInv /\ IInv' /\ Remembered /\ Numbered /\ [Next]_vars => LaunchNext
<1> SUFFICES ASSUME IInv, IInv', Remembered, Numbered, [Next]_vars PROVE LaunchNext
  OBVIOUS
<1> USE DEF IInv
<1>1. ASSUME NEW c \in Conns, FlushAnswer(c) PROVE LaunchNext
  <2>1. UNCHANGED <<next, answered, dropped, applied, thread>>
    BY <1>1 DEF FlushAnswer, observer
  <2>2. PICK x : x = answer[c]
    OBVIOUS
  <2>3. told' = told \/ (told' = told \cup {x} /\ x \in answered)
    BY <1>1, <2>2 DEF FlushAnswer, Numbered
  <2>4. CASE told' = told
    BY <2>1, <2>4 DEF LaunchNext
  <2>5. CASE told' = told \cup {x} /\ x \in answered
    <3>1. Identity!Tell(x)
      BY <2>1, <2>5 DEF Identity!Tell
    <3> QED BY <2>5, <3>1 DEF LaunchNext, Identity!Next
  <2> QED BY <2>3, <2>4, <2>5
<1>2. ASSUME NEW c \in Conns, ReadRequest(c) \/ ForwardRequest(c) PROVE LaunchNext
  BY <1>2 DEF ReadRequest, ForwardRequest, observer, history, LaunchNext
<1>3. CASE Quiet
  BY <1>3 DEF Quiet, history, LaunchNext
<1> QED BY <1>1, <1>2, <1>3, ObserveLaunches, AnswerAnswers, StepKinds

\* Sequences and requests correspond one to one at any moment.
THEOREM Sequenced == Spec => [](Remembered /\ Numbered)
<1>1. Init => Remembered /\ Numbered
  BY DEF Init, Remembered, Numbered, Sent
<1>2. IInv /\ IInv' /\ Remembered /\ Numbered /\ [Next]_vars => Remembered' /\ Numbered'
  BY SequencedStep DEF IInv
<1> QED BY <1>1, <1>2, Invariant, PTL DEF Spec

\* Many connections with ids of their own, requests and answers that overtake each
\* other, a bounded table: to the tracker it is one sequence of launches.
THEOREM LearnsLatest == Spec => LatestSpec
<1>1. Init => Identity!Init
  BY DEF Init, Identity!Init
<1>2. IInv /\ IInv' /\ Remembered /\ Numbered /\ [Next]_vars =>
        [Identity!Next]_Identity!vars
  BY StepLaunches DEF LaunchNext, Identity!vars
<1> QED BY <1>1, <1>2, Invariant, Sequenced, PTL DEF Spec, LatestSpec, Identity!Spec

\* What LatestThread promises holds of the observer: at any moment its thread is that
\* of the latest launch that was answered and not given up.
THEOREM ThreadIsLatest == Spec => []Identity!Latest
<1>0. Spec => []TypeOK
  BY TypeCorrect
<1>1. Identity!Init => Identity!Latest
  BY DEF Identity!Init, Identity!Latest
<1>2. TypeOK /\ TypeOK' /\ Numbered /\ Identity!Latest /\ [Identity!Next]_Identity!vars
        => Identity!Latest'
  <2> SUFFICES ASSUME TypeOK, TypeOK', Numbered, Identity!Latest,
                      [Identity!Next]_Identity!vars
               PROVE  Identity!Latest'
    OBVIOUS
  <2> USE DEF Identity!Latest
  <2>1. /\ applied \in Nat /\ \A a \in answered : a.order \in Nat
    <3>1. answered \subseteq Answers /\ applied \in 0..MaxRequests
      BY DEF TypeOK
    <3>2. \A a \in Answers : a.order \in 1..MaxRequests
      BY DEF Answers
    <3>3. 0..MaxRequests \subseteq Nat /\ 1..MaxRequests \subseteq Nat
      BY BoundsAssumption
    <3> QED BY <3>1, <3>2, <3>3
  <2>2. CASE Identity!Launch
    <3>1. UNCHANGED <<answered, applied, thread>> /\ dropped' \subseteq dropped \cup Identity!Unanswered
      BY <2>2 DEF Identity!Launch
    <3>2. \A a \in answered : a.order \notin Identity!Unanswered
      BY DEF Identity!Unanswered
    <3>3. dropped \subseteq dropped'
      BY <2>2 DEF Identity!Launch
    <3> QED BY <2>1, <3>1, <3>2, <3>3
  <2>3. ASSUME NEW n \in 1..next, NEW t \in Threads, Identity!Answer(n, t)
        PROVE  Identity!Latest'
    <3> DEFINE a == [order |-> n, thread |-> t]
    <3>1. /\ answered' = answered \cup {a} /\ dropped' = dropped
          /\ [order |-> applied', thread |-> thread'] =
               IF n > applied /\ n \notin dropped THEN a
               ELSE [order |-> applied, thread |-> thread]
      BY <2>3 DEF Identity!Answer
    <3>2. n \in Nat /\ a.order = n
      BY DEF TypeOK
    <3>3. CASE n > applied /\ n \notin dropped
      <4>1. [order |-> applied', thread |-> thread'] = a /\ applied' = n
        BY <3>1, <3>3
      <4> QED BY <2>1, <3>1, <3>2, <3>3, <4>1
    <3>4. CASE ~(n > applied /\ n \notin dropped)
      <4>1. /\ [order |-> applied', thread |-> thread'] = [order |-> applied, thread |-> thread]
            /\ applied' = applied
        BY <3>1, <3>4
      <4> QED BY <2>1, <3>1, <3>2, <3>4, <4>1
    <3> QED BY <3>3, <3>4
  <2>4. ASSUME NEW a \in answered, Identity!Tell(a) PROVE Identity!Latest'
    BY <2>4 DEF Identity!Tell
  <2>5. CASE UNCHANGED Identity!vars
    BY <2>5 DEF Identity!vars
  <2> QED BY <2>2, <2>3, <2>4, <2>5 DEF Identity!Next
<1> QED BY <1>0, <1>1, <1>2, Sequenced, LearnsLatest, PTL DEF LatestSpec, Identity!Spec
================================================================================
