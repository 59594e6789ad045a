------------------------------- MODULE PtyWriter -------------------------------
(***************************************************************************)
(* Two things write to the pty of an agent: the control socket (`agemux    *)
(* send`, named keys) and the copy of the runner's own stdin.  ptyWriter   *)
(* queues control messages for one goroutine, gives each a deadline, and   *)
(* keeps the two writers apart with a permit.  The pty is nonblocking and  *)
(* an agent that does not read fills it up.                                *)
(*                                                                         *)
(* One step is one channel operation, one write(2) or one poll(2), one     *)
(* access to the stored error, or the end of the agent or of the session.  *)
(***************************************************************************)
EXTENDS Naturals, Sequences

CONSTANTS
  Senders,     \* control connections, one send each
  Size,        \* pieces in which a message or a paste can be written
  Pastes,      \* chunks that arrive on stdin
  None         \* no request

ASSUME SendersAssumption == None \notin Senders \cup {"control", "stdin"} /\ "stdin" \notin Senders
ASSUME SizeAssumption == Size \in Nat \ {0} /\ Pastes \in Nat

VARIABLES
  send,        \* a connection's progress through EnqueueTimeout
  late,        \* its timer has fired, its deadline has passed
  result,      \* its result channel, which has room for the one result
  queue,       \* ptyWriter.queue, which has room for one request
  cur,         \* the request run() is working on
  wpc,         \* progress of the goroutines that write: run() and io.Copy
  permit,      \* ptyWriter.permit: its holder, or None
  put,         \* how much of a message, or of the current paste, is written
  stream,      \* the pty's input: who wrote each piece
  pasted,      \* chunks read from stdin
  writeErr,    \* ptyWriter.writeErr is set
  done,        \* ptyWriter.done is closed
  ctx,         \* the session's context is cancelled
  gone         \* the agent's side of the pty is closed

clients == <<send, late>>
pty     == <<permit, put, stream>>
session == <<ctx, gone>>
vars == <<clients, result, queue, cur, wpc, pty, pasted, writeErr, done, session>>

Writers == {"control", "stdin"}
Sources == Senders \cup {"stdin"}
Answered == {"ok", "failed"}

TypeOK ==
  /\ send \in [Senders -> {"idle", "enqueue", "wait", "ok", "failed"}]
  /\ late \in [Senders -> BOOLEAN]
  /\ result \in [Senders -> {"none", "ok", "failed"}]
  /\ queue \in Senders \cup {None}
  /\ cur \in Senders \cup {None}
  /\ wpc \in [Writers -> {"select", "permit", "write", "poll", "fail", "quit", "over"}]
  /\ permit \in Writers \cup {None}
  /\ put \in [Sources -> 0..Size]
  /\ stream \in Seq(Sources)
  /\ pasted \in 0..Pastes
  /\ writeErr \in BOOLEAN /\ done \in BOOLEAN /\ ctx \in BOOLEAN /\ gone \in BOOLEAN

Init ==
  /\ send = [e \in Senders |-> "idle"]
  /\ late = [e \in Senders |-> FALSE]
  /\ result = [e \in Senders |-> "none"]
  /\ queue = None /\ cur = None
  /\ wpc = [w \in Writers |-> "select"]
  /\ permit = None
  /\ put = [s \in Sources |-> 0]
  /\ stream = <<>>
  /\ pasted = 0
  /\ writeErr = FALSE /\ done = FALSE /\ ctx = FALSE /\ gone = FALSE

----------------------------------------------------------------------------
(* EnqueueTimeout.                                                          *)

Return(e, answer) == send' = [send EXCEPT ![e] = answer]

\* The stored error is looked at first, then the timer is started.
Send(e) ==
  /\ send[e] = "idle"
  /\ Return(e, IF writeErr THEN "failed" ELSE "enqueue")
  /\ UNCHANGED <<late, result, queue, cur, wpc, pty, pasted, writeErr, done, session>>

Expire(e) ==
  /\ send[e] \in {"enqueue", "wait"} /\ ~late[e]
  /\ late' = [late EXCEPT ![e] = TRUE]
  /\ UNCHANGED <<send, result, queue, cur, wpc, pty, pasted, writeErr, done, session>>

Enqueue(e) ==
  /\ send[e] = "enqueue" /\ queue = None
  /\ queue' = e
  /\ Return(e, "wait")
  /\ UNCHANGED <<late, result, cur, wpc, pty, pasted, writeErr, done, session>>

\* No room in time, or nobody to take it: the request was never queued.
NotEnqueued(e) ==
  /\ send[e] = "enqueue" /\ (done \/ late[e])
  /\ Return(e, "failed")
  /\ UNCHANGED <<late, result, queue, cur, wpc, pty, pasted, writeErr, done, session>>

GetResult(e) ==
  /\ send[e] = "wait" /\ result[e] # "none"
  /\ Return(e, result[e])
  /\ UNCHANGED <<late, result, queue, cur, wpc, pty, pasted, writeErr, done, session>>

\* A mutant: done wins over a result that is ready.
GetDoneFirst(e) ==
  /\ send[e] = "wait" /\ done
  /\ Return(e, "failed")
  /\ UNCHANGED <<late, result, queue, cur, wpc, pty, pasted, writeErr, done, session>>

\* The select may see done although a result is ready, so it looks again.
GetDone(e) ==
  /\ send[e] = "wait" /\ done /\ result[e] = "none"
  /\ Return(e, "failed")
  /\ UNCHANGED <<late, result, queue, cur, wpc, pty, pasted, writeErr, done, session>>

----------------------------------------------------------------------------
(* write, called by run() and by io.Copy.                                   *)

At(w, step) == wpc' = [wpc EXCEPT ![w] = step]
Source(w) == IF w = "control" THEN cur ELSE "stdin"

\* Only a control message has a deadline.
Overdue(w) == w = "control" /\ late[cur]

\* A mutant: a write does not wait for the other one.
TakePermitAnyway(w) ==
  /\ wpc[w] = "permit"
  /\ permit' = w
  /\ At(w, "write")
  /\ UNCHANGED <<clients, result, queue, cur, put, stream, pasted, writeErr, done, session>>

TakePermit(w) ==
  /\ wpc[w] = "permit" /\ permit = None
  /\ permit' = w
  /\ At(w, "write")
  /\ UNCHANGED <<clients, result, queue, cur, put, stream, pasted, writeErr, done, session>>

\* A mutant: after a partial write the message is written from its start.
WriteFromStart(w) ==
  /\ wpc[w] = "write" /\ ~gone /\ put[Source(w)] < Size
  /\ \E n \in 1..Size :
       /\ put' = [put EXCEPT ![Source(w)] = @ + n]
       /\ stream' = stream \o [i \in 1..n |-> Source(w)]
  /\ UNCHANGED <<clients, result, queue, cur, wpc, permit, pasted, writeErr, done, session>>

WriteSome(w) ==
  /\ wpc[w] = "write" /\ ~gone
  /\ \E n \in 1..(Size - put[Source(w)]) :
       /\ put' = [put EXCEPT ![Source(w)] = @ + n]
       /\ stream' = stream \o [i \in 1..n |-> Source(w)]
  /\ UNCHANGED <<clients, result, queue, cur, wpc, permit, pasted, writeErr, done, session>>

\* EAGAIN: waitForFD polls unless the deadline has passed.
WouldBlock(w) ==
  /\ wpc[w] = "write" /\ ~gone /\ put[Source(w)] < Size /\ ~Overdue(w)
  /\ At(w, "poll")
  /\ UNCHANGED <<clients, result, queue, cur, pty, pasted, writeErr, done, session>>

PollReady(w) ==
  /\ wpc[w] = "poll"
  /\ At(w, "write")
  /\ UNCHANGED <<clients, result, queue, cur, pty, pasted, writeErr, done, session>>

\* A mutant: after a message that failed the next one is taken.
WrittenGoesOn(w, answer) ==
  /\ permit' = IF permit = w THEN None ELSE permit
  /\ result' = IF w = "control" THEN [result EXCEPT ![cur] = answer] ELSE result
  /\ cur' = IF w = "control" THEN None ELSE cur
  /\ At(w, "select")

\* write returns, and with it goes the permit it may hold; run() hands the
\* result over, io.Copy goes on or ends.
Written(w, answer) ==
  /\ permit' = IF permit = w THEN None ELSE permit
  /\ result' = IF w = "control" THEN [result EXCEPT ![cur] = answer] ELSE result
  /\ cur' = IF w = "control" /\ answer = "ok" THEN None ELSE cur
  /\ At(w, IF answer = "failed" THEN "fail" ELSE "select")

WriteDone(w) ==
  /\ wpc[w] = "write" /\ put[Source(w)] = Size
  /\ Written(w, "ok")
  /\ UNCHANGED <<clients, queue, put, stream, pasted, writeErr, done, session>>

WriteTimesOut(w) ==
  /\ wpc[w] \in {"permit", "write", "poll"} /\ Overdue(w)
  /\ wpc[w] = "write" => ~gone /\ put[Source(w)] < Size
  /\ Written(w, "failed")
  /\ UNCHANGED <<clients, queue, put, stream, pasted, writeErr, done, session>>

\* write(2) fails, as on a pty that nobody reads any more, or writes nothing
\* (io.ErrShortWrite).  A poll(2) that fails is taken with the write after it.
WriteFails(w) ==
  /\ wpc[w] = "write" /\ put[Source(w)] < Size
  /\ Written(w, "failed")
  /\ UNCHANGED <<clients, queue, put, stream, pasted, writeErr, done, session>>

----------------------------------------------------------------------------
(* run.                                                                     *)

Take ==
  /\ wpc["control"] = "select" /\ queue # None /\ ~late[queue]
  /\ cur' = queue
  /\ queue' = None
  /\ At("control", "permit")
  /\ UNCHANGED <<clients, result, pty, pasted, writeErr, done, session>>

\* The deadline passed while the request was queued: nothing is written.
TakeLate ==
  /\ wpc["control"] = "select" /\ queue # None /\ late[queue]
  /\ cur' = queue
  /\ queue' = None
  /\ result' = [result EXCEPT ![queue] = "failed"]
  /\ At("control", "fail")
  /\ UNCHANGED <<clients, pty, pasted, writeErr, done, session>>

RecordError ==
  /\ wpc["control"] = "fail"
  /\ writeErr' = TRUE
  /\ At("control", "quit")
  /\ UNCHANGED <<clients, result, queue, cur, pty, pasted, done, session>>

\* A mutant: nobody is told that the writer has stopped for good.
QuitSilently ==
  /\ wpc["control"] = "quit"
  /\ done' = TRUE
  /\ At("control", "over")
  /\ UNCHANGED <<clients, result, queue, cur, pty, pasted, writeErr, session>>

\* onError cancels the session, the deferred close tells the waiting senders.
Quit ==
  /\ wpc["control"] = "quit"
  /\ ctx' = TRUE
  /\ done' = TRUE
  /\ At("control", "over")
  /\ UNCHANGED <<clients, result, queue, cur, pty, pasted, writeErr, gone>>

\* A mutant: done is closed only after an error.
SeeCancelOnly ==
  /\ wpc["control"] = "select" /\ ctx
  /\ At("control", "over")
  /\ UNCHANGED <<clients, result, queue, cur, pty, pasted, writeErr, done, session>>

\* The context is done; a request in the queue stays there.
SeeCancel ==
  /\ wpc["control"] = "select" /\ ctx
  /\ done' = TRUE
  /\ At("control", "over")
  /\ UNCHANGED <<clients, result, queue, cur, pty, pasted, writeErr, session>>

----------------------------------------------------------------------------
(* io.Copy from stdin, the relay loop, the agent.                           *)

ReadStdin ==
  /\ wpc["stdin"] = "select" /\ pasted < Pastes
  /\ pasted' = pasted + 1
  /\ put' = [put EXCEPT !["stdin"] = 0]
  /\ At("stdin", "permit")
  /\ UNCHANGED <<clients, result, queue, cur, permit, stream, writeErr, done, session>>

\* Stdin ends, or could not be written: the session is cancelled.
StdinOver ==
  /\ wpc["stdin"] \in {"select", "fail"}
  /\ At("stdin", "over")
  /\ ctx' = TRUE
  /\ UNCHANGED <<clients, result, queue, cur, pty, pasted, writeErr, done, gone>>

\* SIGTERM, SIGHUP, or a tracker that closes a duplicate.
Interrupt ==
  /\ ~ctx
  /\ ctx' = TRUE
  /\ UNCHANGED <<clients, result, queue, cur, wpc, pty, pasted, writeErr, done, gone>>

AgentEnds ==
  /\ ~gone
  /\ gone' = TRUE
  /\ UNCHANGED <<clients, result, queue, cur, wpc, pty, pasted, writeErr, done, ctx>>

\* The relay loop sees the cancelled context and closes the pty, or sees the
\* pty's end and returns, which cancels the context.
RelayEnds ==
  /\ ctx # gone
  /\ ctx' = TRUE
  /\ gone' = TRUE
  /\ UNCHANGED <<clients, result, queue, cur, wpc, pty, pasted, writeErr, done>>

EnqueueStep(e) == Enqueue(e) \/ NotEnqueued(e) \/ GetResult(e) \/ GetDone(e)
WriteStep(w) ==
  TakePermit(w) \/ WriteSome(w) \/ WouldBlock(w) \/ WriteDone(w) \/ WriteTimesOut(w)
    \/ WriteFails(w)
RunStep == Take \/ TakeLate \/ RecordError \/ Quit \/ SeeCancel

Next ==
  \/ \E e \in Senders : Send(e) \/ Expire(e) \/ EnqueueStep(e)
  \/ \E w \in Writers : WriteStep(w) \/ PollReady(w)
  \/ RunStep \/ ReadStdin \/ StdinOver \/ Interrupt \/ AgentEnds \/ RelayEnds

Spec == Init /\ [][Next]_vars

\* Time passes and goroutines run, a ready channel is not passed over for
\* ever; an agent may never read its pty and a paste may wait for it for ever.
Fairness ==
  /\ \A e \in Senders : WF_vars(Expire(e)) /\ WF_vars(EnqueueStep(e))
  /\ \A w \in Writers : WF_vars(WriteStep(w))
  /\ WF_vars(RunStep)
  /\ WF_vars(wpc["stdin"] = "fail" /\ StdinOver)
  /\ WF_vars(RelayEnds)

FairSpec == Spec /\ Fairness

----------------------------------------------------------------------------
(* Properties.                                                              *)

\* EnqueueTimeout: a message reported sent is in the pty in full, and one that
\* was reported failed never gets there in full, not even later.
Acknowledged ==
  \A e \in Senders : send[e] \in Answered => (send[e] = "ok" <=> put[e] = Size)

\* write: no paste and no other message gets inside a message, and after a
\* message that was cut short no other message is written.
Unspliced ==
  \A i, k \in 1..Len(stream) : i < k /\ stream[i] \in Senders /\ stream[k] # stream[i] =>
    /\ \A j \in k..Len(stream) : stream[j] # stream[i]
    /\ stream[k] \in Senders => put[stream[i]] = Size

\* To a sender it is as if its message were written in one piece during its call:
\* what other senders, pastes and deadlines do in between cannot be told.
Delivery ==
  INSTANCE MessageDelivery
    WITH call <- [e \in Senders |-> IF send[e] \in {"enqueue", "wait"} THEN "called"
                                   ELSE send[e]],
         begun <- {e \in Senders : put[e] > 0},
         delivered <- {e \in Senders : put[e] = Size},
         stopped <- writeErr \/ done
DeliverySpec == Delivery!Spec

\* EnqueueTimeout returns, although it waits for its result without a timer and
\* a paste may hold the permit for ever.
EnqueueReturns ==
  \A e \in Senders : send[e] = "enqueue" ~> send[e] \in Answered

\* onError: half a message in the pty, whose end nobody will write, ends the
\* session.
TornCloses ==
  \A e \in Senders : send[e] = "failed" /\ put[e] > 0 ~> ctx
================================================================================
