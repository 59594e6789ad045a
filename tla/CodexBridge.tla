------------------------------ MODULE CodexBridge ------------------------------
(***************************************************************************)
(* How a runner learns which thread its Codex is on when all Codex         *)
(* processes share one daemon.  codexDaemonBridge relays every WebSocket   *)
(* connection of its Codex to the daemon, and codexIdentityObserver reads  *)
(* the launch requests (thread/start, resume, fork) and their answers off  *)
(* the two relay goroutines of each connection.  The tracker of            *)
(* SessionRegistry polls observer.current.                                 *)
(*                                                                         *)
(* Prompts, output and every other message pass unobserved and are left    *)
(* out.  One step is one critical section of the observer or the bridge,   *)
(* one connection opened, closed or found closed, or one message flushed.  *)
(***************************************************************************)
EXTENDS Naturals, FiniteSets

CONSTANTS
  Conns,        \* connections of the Codex client, in any order
  Threads,      \* thread UUIDs the daemon may answer with
  None,         \* no thread: an error, a subagent or an unreadable answer
  MaxRequests,  \* launch requests the client makes on all its connections
  MaxPending    \* observed and unanswered requests the observer remembers

ASSUME NoneAssumption == None \notin Threads
ASSUME BoundsAssumption == MaxRequests \in Nat /\ MaxPending \in Nat \ {0}

VARIABLES
  closed,      \* codexDaemonBridge.closed
  active,      \* codexDaemonBridge.active, as <<connection, side>>
  handler,     \* the HTTP handler of a connection, then its answer relay
  relay,       \* the request relay of a connection
  remote,      \* its WebSocket to the daemon
  client,      \* its WebSocket to the client
  pending,     \* observer: connection -> request id -> sequence, 0 for none
  next,        \* observer: the last sequence given out
  applied,     \* observer: the sequence whose answer set `thread`
  thread,      \* observer: what current() returns
  hand,        \* the request a relay is working on
  answer,      \* the message an answer relay is about to flush
  upstream,    \* requests the daemon has and has not answered
  issued,      \* launch requests made so far
  ids,         \* the last request id used on a connection
  answered,    \* history: requests the daemon answered with a thread
  told,        \* history: those whose answer has reached the client
  dropped      \* history: requests forgotten because MaxPending were waiting

observer == <<pending, next, applied, thread>>
sockets  == <<closed, active, remote, client>>
history  == <<answered, told, dropped>>
vars == <<sockets, handler, relay, observer, hand, answer, upstream, issued, ids,
          history>>

Ids == 1..MaxRequests
Requests == [id : 0..MaxRequests, order : 0..MaxRequests]   \* 0 for none
Answers == [order : 1..MaxRequests, thread : Threads]
NoRequest == [id |-> 0, order |-> 0]
Blank == [order |-> 0, thread |-> None]

HandlerPcs == {"idle", "dial", "register", "upgrade", "registerClient", "relay",
               "flush", "drain", "ended"}

TypeOK ==
  /\ closed \in BOOLEAN
  /\ active \subseteq Conns \X {"remote", "client"}
  /\ handler \in [Conns -> HandlerPcs]
  /\ relay \in [Conns -> {"off", "read", "observe", "forward", "over"}]
  /\ remote \in [Conns -> {"none", "open", "closed"}]
  /\ client \in [Conns -> {"none", "open", "closed"}]
  /\ pending \in [Conns -> [Ids -> 0..MaxRequests]]
  /\ next \in 0..MaxRequests
  /\ applied \in 0..MaxRequests
  /\ thread \in Threads \cup {None}
  /\ hand \in [Conns -> Requests]
  /\ answer \in [Conns -> Answers \cup {Blank}]
  /\ upstream \in [Conns -> SUBSET Requests]
  /\ issued \in 0..MaxRequests
  /\ ids \in [Conns -> 0..MaxRequests]
  /\ answered \subseteq Answers
  /\ told \subseteq Answers
  /\ dropped \subseteq 1..MaxRequests

Init ==
  /\ closed = FALSE /\ active = {}
  /\ handler = [c \in Conns |-> "idle"]
  /\ relay = [c \in Conns |-> "off"]
  /\ remote = [c \in Conns |-> "none"]
  /\ client = [c \in Conns |-> "none"]
  /\ pending = [c \in Conns |-> [i \in Ids |-> 0]]
  /\ next = 0 /\ applied = 0 /\ thread = None
  /\ hand = [c \in Conns |-> NoRequest]
  /\ answer = [c \in Conns |-> Blank]
  /\ upstream = [c \in Conns |-> {}]
  /\ issued = 0
  /\ ids = [c \in Conns |-> 0]
  /\ answered = {} /\ told = {} /\ dropped = {}

----------------------------------------------------------------------------
(* codexIdentityObserver.                                                   *)

Waiting == {x \in Conns \X Ids : pending[x[1]][x[2]] # 0}
Forgotten == [c \in Conns |-> [i \in Ids |-> 0]]

\* requestOn, for a request whose id nobody on the connection is waiting for.
RequestOn(c, id) ==
  LET kept == IF Cardinality(Waiting) >= MaxPending THEN Forgotten ELSE pending IN
  /\ next' = next + 1
  /\ pending' = [kept EXCEPT ![c][id] = next + 1]
  /\ dropped' = dropped \cup {pending[x[1]][x[2]] : x \in
                                {w \in Waiting : kept[w[1]][w[2]] = 0}}
  /\ UNCHANGED <<applied, thread>>

\* Mutants: an answer counts even if the answer to a later request has been
\* applied, or is matched by its id alone.
ResponseOnAnyOrder(c, id, t) ==
  LET sequence == pending[c][id] IN
  /\ pending' = [pending EXCEPT ![c][id] = 0]
  /\ IF sequence # 0 /\ t # None THEN thread' = t /\ applied' = sequence
                                 ELSE UNCHANGED <<thread, applied>>
  /\ UNCHANGED <<next, dropped>>

ResponseOnAnyConnection(c, id, t) ==
  LET others == {d \in Conns : pending[d][id] # 0}
      from   == IF others = {} THEN c ELSE CHOOSE d \in others : TRUE
      sequence == pending[from][id] IN
  /\ pending' = [pending EXCEPT ![from][id] = 0]
  /\ IF t # None /\ sequence > applied THEN thread' = t /\ applied' = sequence
                                       ELSE UNCHANGED <<thread, applied>>
  /\ UNCHANGED <<next, dropped>>

ResponseOn(c, id, t) ==
  LET sequence == pending[c][id] IN
  /\ pending' = [pending EXCEPT ![c][id] = 0]
  /\ IF t # None /\ sequence > applied THEN thread' = t /\ applied' = sequence
                                       ELSE UNCHANGED <<thread, applied>>
  /\ UNCHANGED <<next, dropped>>

\* disconnect: what the connection was waiting for never comes.
Disconnect(c) ==
  /\ pending' = [pending EXCEPT ![c] = [i \in Ids |-> 0]]
  /\ UNCHANGED <<next, applied, thread>>

----------------------------------------------------------------------------
(* The handler sets a connection up.                                        *)

Step(c, to) == handler' = [handler EXCEPT ![c] = to]
Close(conn, c) == [conn EXCEPT ![c] = "closed"]

Accept(c) ==
  /\ handler[c] = "idle" /\ ~closed
  /\ Step(c, "dial")
  /\ UNCHANGED <<sockets, relay, observer, hand, answer, upstream, issued, ids, history>>

Dial(c) ==
  /\ handler[c] = "dial"
  /\ remote' = [remote EXCEPT ![c] = "open"]
  /\ Step(c, "register")
  /\ UNCHANGED <<closed, active, client, relay, observer, hand, answer, upstream,
                 issued, ids, history>>

DialFails(c) ==
  /\ handler[c] = "dial"
  /\ Step(c, "ended")
  /\ Disconnect(c)
  /\ UNCHANGED <<sockets, relay, hand, answer, upstream, issued, ids, history>>

RegisterRemote(c) ==
  /\ handler[c] = "register" /\ ~closed
  /\ active' = active \cup {<<c, "remote">>}
  /\ Step(c, "upgrade")
  /\ UNCHANGED <<closed, remote, client, relay, observer, hand, answer, upstream,
                 issued, ids, history>>

\* The bridge was stopped while the handler dialled.
RemoteTooLate(c) ==
  /\ handler[c] = "register" /\ closed
  /\ remote' = Close(remote, c)
  /\ Disconnect(c)
  /\ Step(c, "ended")
  /\ UNCHANGED <<closed, active, client, relay, hand, answer, upstream, issued, ids,
                 history>>

Upgrade(c) ==
  /\ handler[c] = "upgrade"
  /\ client' = [client EXCEPT ![c] = "open"]
  /\ Step(c, "registerClient")
  /\ UNCHANGED <<closed, active, remote, relay, observer, hand, answer, upstream,
                 issued, ids, history>>

UpgradeFails(c) ==
  /\ handler[c] = "upgrade"
  /\ remote' = Close(remote, c)
  /\ active' = active \ {<<c, "remote">>}
  /\ Disconnect(c)
  /\ Step(c, "ended")
  /\ UNCHANGED <<closed, client, relay, hand, answer, upstream, issued, ids, history>>

RegisterClient(c) ==
  /\ handler[c] = "registerClient" /\ ~closed
  /\ active' = active \cup {<<c, "client">>}
  /\ relay' = [relay EXCEPT ![c] = "read"]
  /\ Step(c, "relay")
  /\ UNCHANGED <<closed, remote, client, observer, hand, answer, upstream, issued,
                 ids, history>>

ClientTooLate(c) ==
  /\ handler[c] = "registerClient" /\ closed
  /\ client' = Close(client, c)
  /\ remote' = Close(remote, c)
  /\ active' = active \ {<<c, "remote">>}
  /\ Disconnect(c)
  /\ Step(c, "ended")
  /\ UNCHANGED <<closed, relay, hand, answer, upstream, issued, ids, history>>

----------------------------------------------------------------------------
(* relayCodexRequests: a launch request is observed, then flushed.          *)

ReadRequest(c) ==
  /\ relay[c] = "read" /\ client[c] = "open" /\ issued < MaxRequests
  /\ hand' = [hand EXCEPT ![c] = [id |-> ids[c] + 1, order |-> 0]]
  /\ ids' = [ids EXCEPT ![c] = @ + 1]
  /\ issued' = issued + 1
  /\ relay' = [relay EXCEPT ![c] = "observe"]
  /\ UNCHANGED <<sockets, handler, observer, answer, upstream, history>>

ObserveRequest(c) ==
  /\ relay[c] = "observe"
  /\ RequestOn(c, hand[c].id)
  /\ hand' = [hand EXCEPT ![c].order = next']
  /\ relay' = [relay EXCEPT ![c] = "forward"]
  /\ UNCHANGED <<sockets, handler, answer, upstream, issued, ids, answered, told>>

\* A mutant: a request is sent and observed again.
ForwardRequestTwice(c) ==
  /\ relay[c] = "forward" /\ remote[c] = "open"
  /\ upstream' = [upstream EXCEPT ![c] = @ \cup {hand[c]}]
  /\ relay' = [relay EXCEPT ![c] = "observe"]
  /\ UNCHANGED <<sockets, handler, observer, hand, answer, issued, ids, history>>

ForwardRequest(c) ==
  /\ relay[c] = "forward" /\ remote[c] = "open"
  /\ upstream' = [upstream EXCEPT ![c] = @ \cup {hand[c]}]
  /\ hand' = [hand EXCEPT ![c] = NoRequest]
  /\ relay' = [relay EXCEPT ![c] = "read"]
  /\ UNCHANGED <<sockets, handler, observer, answer, issued, ids, history>>

\* A mutant: the daemon's side stays open.
EndRequestsSilently(c) ==
  /\ \/ relay[c] = "read"
     \/ relay[c] = "forward" /\ remote[c] = "closed"
  /\ relay' = [relay EXCEPT ![c] = "over"]
  /\ hand' = [hand EXCEPT ![c] = NoRequest]
  /\ UNCHANGED <<sockets, handler, observer, answer, upstream, issued, ids, history>>

\* The relay ends, and with it the daemon's side of the connection: the client
\* is gone, the daemon is, or a launch request cannot carry its permissions.
EndRequests(c) ==
  /\ \/ relay[c] = "read"
     \/ relay[c] = "forward" /\ remote[c] = "closed"
  /\ relay' = [relay EXCEPT ![c] = "over"]
  /\ hand' = [hand EXCEPT ![c] = NoRequest]
  /\ remote' = Close(remote, c)
  /\ UNCHANGED <<closed, active, client, handler, observer, answer, upstream, issued,
                 ids, history>>

----------------------------------------------------------------------------
(* relayCodexRPC: an answer is observed, then flushed.                      *)

\* The daemon answers the requests of a connection in any order.
ReadAnswer(c) ==
  /\ handler[c] = "relay" /\ remote[c] = "open"
  /\ \E request \in upstream[c], t \in Threads \cup {None} :
       /\ ResponseOn(c, request.id, t)
       /\ upstream' = [upstream EXCEPT ![c] = @ \ {request}]
       /\ answer' = [answer EXCEPT ![c] =
                       IF t = None THEN Blank
                       ELSE [order |-> request.order, thread |-> t]]
       /\ answered' = answered \cup ({answer'[c]} \ {Blank})
  /\ Step(c, "flush")
  /\ UNCHANGED <<sockets, relay, hand, issued, ids, told>>

FlushAnswer(c) ==
  /\ handler[c] = "flush" /\ client[c] = "open"
  /\ told' = told \cup ({answer[c]} \ {Blank})
  /\ answer' = [answer EXCEPT ![c] = Blank]
  /\ Step(c, "relay")
  /\ UNCHANGED <<sockets, relay, observer, hand, upstream, issued, ids, answered, dropped>>

EndAnswers(c) ==
  /\ \/ handler[c] = "relay" /\ remote[c] = "closed"
     \/ handler[c] = "flush" /\ client[c] = "closed"
  /\ client' = Close(client, c)
  /\ remote' = Close(remote, c)
  /\ answer' = [answer EXCEPT ![c] = Blank]
  /\ Step(c, "drain")
  /\ UNCHANGED <<closed, active, relay, observer, hand, upstream, issued, ids, history>>

\* A mutant: the handler does not wait for the other relay.
LeaveEarly(c) ==
  /\ handler[c] = "drain"
  /\ active' = active \ {<<c, "client">>, <<c, "remote">>}
  /\ Disconnect(c)
  /\ Step(c, "ended")
  /\ UNCHANGED <<closed, remote, client, relay, hand, answer, upstream, issued, ids,
                 history>>

\* The other relay is done: both sides are unregistered, the requests that
\* nobody will answer forgotten.
Leave(c) ==
  /\ handler[c] = "drain" /\ relay[c] = "over"
  /\ active' = active \ {<<c, "client">>, <<c, "remote">>}
  /\ Disconnect(c)
  /\ Step(c, "ended")
  /\ UNCHANGED <<closed, remote, client, relay, hand, answer, upstream, issued, ids,
                 history>>

----------------------------------------------------------------------------
\* stop: no connection registers any more, the registered ones are closed.
Stop ==
  /\ ~closed
  /\ closed' = TRUE
  /\ remote' = [c \in Conns |-> IF <<c, "remote">> \in active THEN "closed" ELSE remote[c]]
  /\ client' = [c \in Conns |-> IF <<c, "client">> \in active THEN "closed" ELSE client[c]]
  /\ UNCHANGED <<active, handler, relay, observer, hand, answer, upstream, issued,
                 ids, history>>

\* The peers of the bridge go away, the client on purpose or not.
ClientLeaves(c) ==
  /\ client[c] = "open"
  /\ client' = Close(client, c)
  /\ UNCHANGED <<closed, active, remote, handler, relay, observer, hand, answer,
                 upstream, issued, ids, history>>

DaemonLeaves(c) ==
  /\ remote[c] = "open"
  /\ remote' = Close(remote, c)
  /\ UNCHANGED <<closed, active, client, handler, relay, observer, hand, answer,
                 upstream, issued, ids, history>>

Connect(c) ==
  \/ Dial(c) \/ DialFails(c) \/ RegisterRemote(c) \/ RemoteTooLate(c)
  \/ Upgrade(c) \/ UpgradeFails(c) \/ RegisterClient(c) \/ ClientTooLate(c)

RelayRequests(c) ==
  ReadRequest(c) \/ ObserveRequest(c) \/ ForwardRequest(c) \/ EndRequests(c)
RelayAnswers(c) == ReadAnswer(c) \/ FlushAnswer(c) \/ EndAnswers(c) \/ Leave(c)
Peers(c) == ClientLeaves(c) \/ DaemonLeaves(c)

Next ==
  \/ \E c \in Conns : Accept(c) \/ Connect(c) \/ RelayRequests(c) \/ RelayAnswers(c)
                        \/ Peers(c)
  \/ Stop

Spec == Init /\ [][Next]_vars

\* The handler's dial and handshake have timeouts and its goroutines run; reads
\* on a closed connection fail.  Nothing makes a client write or a peer leave.
Fairness ==
  \A c \in Conns :
    /\ WF_vars(Connect(c))
    /\ WF_vars(ObserveRequest(c) \/ ForwardRequest(c))
    /\ WF_vars((client[c] = "closed" \/ remote[c] = "closed") /\ EndRequests(c))
    /\ WF_vars(FlushAnswer(c) \/ EndAnswers(c) \/ Leave(c))

FairSpec == Spec /\ Fairness

----------------------------------------------------------------------------
(* Properties.                                                              *)

\* The observer's thread is one the daemon gave to the request it is credited
\* to, whatever ids the connections share and whatever order answers come in.
Attributed ==
  IF thread = None THEN applied = 0
  ELSE [order |-> applied, thread |-> thread] \in answered

\* Whatever the client has been told the observer has taken into account: the
\* thread is that of the latest request with an answer, unless that request was
\* forgotten because MaxPending were waiting or has been overtaken.
NeverBehindClient ==
  \A a \in told : a.order > applied => a.order \in dropped

\* To the tracker it is as if there were one connection, no ids and no relays: the
\* observer's thread is the latest that the daemon has answered a launch with.
Identity ==
  INSTANCE LatestThread
    WITH launches <- next, missed <- dropped,
         current <- [order |-> applied, thread |-> thread]
LatestSpec == Identity!Spec

\* A connection leaves nothing behind: no pending request that would crowd out
\* another connection's, no open socket, no entry in `active`.
NothingLeft ==
  \A c \in Conns : handler[c] = "ended" =>
    /\ \A i \in Ids : pending[c][i] = 0
    /\ remote[c] # "open" /\ client[c] # "open"
    /\ <<c, "remote">> \notin active /\ <<c, "client">> \notin active

\* Once the bridge is stopped, or a side of a connection is closed, its handler
\* ends: register and stop cannot miss each other.
ClosedEnds ==
  \A c \in Conns :
    (closed \/ remote[c] = "closed" \/ client[c] = "closed")
      ~> handler[c] \in {"idle", "ended"}
================================================================================
