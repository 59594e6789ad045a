------------------------------ MODULE PtyWriterProofs ------------------------------
(***************************************************************************)
(* That EnqueueTimeout answers truly, that messages are not spliced and    *)
(* that the writer implements MessageDelivery, for any number of senders   *)
(* and pastes and any size of message.                                     *)
(*                                                                         *)
(* Two things carry both: who writes has the permit, and a request whose   *)
(* result is not yet given is written by nobody but run(), while it is the *)
(* current one (Tracked).  So what has been written of the current message *)
(* is the end of the stream (Streamed), and every earlier message but a    *)
(* torn one, after which run() ends, is there in full.  The refinement adds *)
(* only that nothing is taken once an error is stored (Stopping).          *)
(***************************************************************************)
EXTENDS PtyWriter, SequenceTheorems, TLAPS

\* run() is at work on the request cur.
Working == wpc["control"] \in {"permit", "write", "poll"}

\* Who writes has the permit; a message is begun with it and fails only unfinished.
Permits ==
  /\ \A w \in Writers : wpc[w] \in {"write", "poll"} <=> permit = w
  /\ Working => cur \in Senders
  /\ wpc["control"] = "permit" => put[cur] = 0
  /\ wpc["control"] = "poll" => put[cur] < Size
  /\ done => wpc["control"] = "over"

\* Where a request is, what is written of it and what its sender has been told.
Tracked ==
  \A e \in Senders :
    /\ queue = e => put[e] = 0 /\ result[e] = "none" /\ cur # e /\ (send[e] = "wait" \/ done)
    /\ cur = e /\ Working => result[e] = "none" /\ send[e] = "wait"
    /\ send[e] \in {"idle", "enqueue"} =>
         put[e] = 0 /\ result[e] = "none" /\ queue # e /\ cur # e
    /\ put[e] > 0 /\ result[e] = "none" => cur = e /\ Working
    /\ result[e] = "ok" => put[e] = Size
    /\ result[e] = "failed" =>
         put[e] < Size /\ wpc["control"] \in {"fail", "quit", "over"}
    /\ send[e] = "ok" => result[e] = "ok"
    /\ send[e] = "failed" => put[e] < Size

\* Pieces in the pty are counted, and those of the current message are the last.
Streamed ==
  \A i \in 1..Len(stream) :
    /\ stream[i] \in Senders => put[stream[i]] > 0
    /\ Working /\ stream[i] = cur => \A k \in i..Len(stream) : stream[k] = cur

IInv == TypeOK /\ Permits /\ Tracked /\ Streamed /\ Unspliced

\* The types without the stream.
StateOK ==
  /\ send \in [Senders -> {"idle", "enqueue", "wait", "ok", "failed"}]
  /\ late \in [Senders -> BOOLEAN]
  /\ result \in [Senders -> {"none", "ok", "failed"}]
  /\ queue \in Senders \cup {None}
  /\ cur \in Senders \cup {None}
  /\ wpc \in [Writers -> {"select", "permit", "write", "poll", "fail", "quit", "over"}]
  /\ permit \in Writers \cup {None}
  /\ put \in [Sources -> 0..Size]

----------------------------------------------------------------------------
(* Operators.                                                               *)

\* A sequence to which an element is appended some times.
LEMMA Appended ==
  ASSUME NEW S, NEW s \in Seq(S), NEW x \in S, NEW n \in Nat
  PROVE  LET t == s \o [i \in 1..n |-> x] IN
         /\ t \in Seq(S) /\ Len(t) = Len(s) + n
         /\ \A i \in 1..Len(s) : t[i] = s[i]
         /\ \A i \in 1..Len(t) : i > Len(s) => t[i] = x
<1> DEFINE u == [i \in 1..n |-> x]
<1>1. u \in Seq(S) /\ Len(u) = n /\ \A i \in 1..n : u[i] = x
  OBVIOUS
<1> HIDE DEF u
<1>2. s \o u \in Seq(S) /\ Len(s \o u) = Len(s) + n
  BY <1>1
<1>3. \A i \in 1..Len(s) + n :
        (s \o u)[i] = IF i <= Len(s) THEN s[i] ELSE u[i - Len(s)]
  BY <1>1
<1>4. \A i \in 1..Len(s) + n : i > Len(s) => i - Len(s) \in 1..n
  BY DEF u
<1> QED BY <1>1, <1>2, <1>3, <1>4 DEF u

\* What is written, and by whom.
LEMMA Sourced ==
  ASSUME StateOK, Permits, NEW w \in Writers, wpc[w] \in {"permit", "write", "poll"}
  PROVE  /\ Source(w) \in Sources
         /\ w = "control" => Source(w) = cur /\ cur \in Senders /\ Working
         /\ w = "stdin" => Source(w) = "stdin"
  BY DEF StateOK, Permits, Working, Writers, Source, Sources

----------------------------------------------------------------------------
(* Types.                                                                   *)

LEMMA StateStep == ASSUME StateOK, Permits, [Next]_vars PROVE StateOK'
<1> USE SendersAssumption, SizeAssumption DEF clients, pty, session, At, Return, Writers
<1>1. ASSUME NEW e \in Senders,
             Send(e) \/ Expire(e) \/ Enqueue(e) \/ NotEnqueued(e) \/ GetDone(e)
      PROVE  StateOK'
  BY <1>1 DEF Send, Expire, Enqueue, NotEnqueued, GetDone, StateOK
<1>2. ASSUME NEW e \in Senders, GetResult(e) PROVE StateOK'
  BY <1>2 DEF GetResult, StateOK
<1>3. ASSUME NEW w \in Writers, TakePermit(w) \/ WouldBlock(w) \/ PollReady(w) PROVE StateOK'
  BY <1>3 DEF TakePermit, WouldBlock, PollReady, StateOK
<1>4. ASSUME NEW w \in Writers, WriteSome(w) PROVE StateOK'
  <2>1. Source(w) \in Sources
    BY <1>4, Sourced DEF WriteSome
  <2>2. PICK m \in 1..(Size - put[Source(w)]) : put' = [put EXCEPT ![Source(w)] = @ + m]
    BY <1>4 DEF WriteSome
  <2>3. put[Source(w)] \in 0..Size
    BY <2>1 DEF StateOK
  <2>4. put[Source(w)] + m \in 0..Size
    BY <2>2, <2>3
  <2>5. put' \in [Sources -> 0..Size]
    BY <2>1, <2>2, <2>4 DEF StateOK
  <2> QED BY <1>4, <2>5 DEF WriteSome, StateOK
<1>5. ASSUME NEW w \in Writers,
             WriteDone(w) \/ WriteTimesOut(w) \/ WriteFails(w)
      PROVE  StateOK'
  BY <1>5 DEF WriteDone, WriteTimesOut, WriteFails, Written, StateOK
<1>6. ASSUME Take \/ TakeLate \/ RecordError \/ Quit \/ SeeCancel PROVE StateOK'
  BY <1>6 DEF Take, TakeLate, RecordError, Quit, SeeCancel, StateOK
<1>7. ASSUME ReadStdin PROVE StateOK'
  BY <1>7 DEF ReadStdin, StateOK, Sources
<1>8. ASSUME StdinOver \/ Interrupt \/ AgentEnds \/ RelayEnds PROVE StateOK'
  BY <1>8 DEF StdinOver, Interrupt, AgentEnds, RelayEnds, StateOK
<1>9. CASE UNCHANGED vars
  BY <1>9 DEF vars, StateOK
<1> QED
  BY <1>1, <1>2, <1>3, <1>4, <1>5, <1>6, <1>7, <1>8, <1>9 DEF Next, EnqueueStep,
    WriteStep, RunStep

LEMMA TypeStep == ASSUME TypeOK, Permits, [Next]_vars PROVE TypeOK'
<1>1. StateOK'
  BY StateStep DEF TypeOK, StateOK
<1>2. stream' \in Seq(Sources)
  <2>1. ASSUME NEW w \in Writers, WriteSome(w) PROVE stream' \in Seq(Sources)
    <3>1. Source(w) \in Sources
      BY <2>1, Sourced DEF WriteSome, TypeOK, StateOK
    <3>2. PICK n \in 1..(Size - put[Source(w)]) : stream' = stream \o [i \in 1..n |-> Source(w)]
      BY <2>1 DEF WriteSome
    <3>3. n \in Nat
      BY <3>1, <3>2, SizeAssumption DEF TypeOK
    <3>4. stream \in Seq(Sources)
      BY DEF TypeOK
    <3> QED BY <3>1, <3>2, <3>3, <3>4, Appended
  <2>2. CASE UNCHANGED stream
    BY <2>2 DEF TypeOK
  <2>3. (\E w \in Writers : WriteSome(w)) \/ UNCHANGED stream
    BY DEF Next, EnqueueStep, WriteStep, RunStep, Send, Expire, Enqueue, NotEnqueued,
      GetResult,
      GetDone, TakePermit, WouldBlock, WriteDone, WriteTimesOut, WriteFails, PollReady, Take,
      TakeLate, RecordError, Quit, SeeCancel, ReadStdin, StdinOver, Interrupt, AgentEnds,
      RelayEnds, vars, clients, pty, session
  <2> QED BY <2>1, <2>2, <2>3
<1>3. pasted' \in 0..Pastes
  <2>1. UNCHANGED pasted \/ (pasted < Pastes /\ pasted' = pasted + 1)
    BY DEF Next, EnqueueStep, WriteStep, RunStep, Send, Expire, Enqueue, NotEnqueued,
      GetResult,
      GetDone, TakePermit, WriteSome, WouldBlock, WriteDone, WriteTimesOut, WriteFails,
      PollReady, Take, TakeLate, RecordError, Quit, SeeCancel, ReadStdin, StdinOver, Interrupt,
      AgentEnds, RelayEnds, vars, clients, pty, session
  <2> QED BY <2>1, SizeAssumption DEF TypeOK
<1>4. \A x \in {writeErr, done, ctx, gone} : x \in BOOLEAN
  BY DEF TypeOK
<1>5. /\ writeErr' \in {writeErr, TRUE} /\ done' \in {done, TRUE}
      /\ ctx' \in {ctx, TRUE} /\ gone' \in {gone, TRUE}
  BY Zenon DEF Next, EnqueueStep, WriteStep, RunStep, Send, Expire, Enqueue, NotEnqueued,
    GetResult,
    GetDone, TakePermit, WriteSome, WouldBlock, WriteDone, WriteTimesOut, WriteFails,
    PollReady, Take, TakeLate, RecordError, Quit, SeeCancel, ReadStdin, StdinOver, Interrupt,
    AgentEnds, RelayEnds, vars, clients, pty, session
<1> QED BY <1>1, <1>2, <1>3, <1>4, <1>5 DEF TypeOK, StateOK

----------------------------------------------------------------------------
(* The permit, and what is written of a message.                            *)

LEMMA PermitsStep == ASSUME StateOK, Permits, Tracked, [Next]_vars PROVE Permits'
<1> USE SendersAssumption, SizeAssumption
    DEF clients, pty, session, At, Writers, StateOK, Permits, Working
<1>1. ASSUME NEW e \in Senders,
             \/ Send(e) \/ Expire(e) \/ Enqueue(e) \/ NotEnqueued(e)
             \/ GetResult(e) \/ GetDone(e)
      PROVE  Permits'
  BY <1>1 DEF Send, Expire, Enqueue, NotEnqueued, GetResult, GetDone
<1>2. ASSUME NEW w \in Writers, TakePermit(w) PROVE Permits'
  BY <1>2 DEF TakePermit
<1>3. ASSUME NEW w \in Writers, WriteSome(w) PROVE Permits'
  <2>0. /\ UNCHANGED <<wpc, cur, permit, done>> /\ wpc[w] = "write"
        /\ \E m \in 1..(Size - put[Source(w)]) : put' = [put EXCEPT ![Source(w)] = @ + m]
    BY <1>3 DEF WriteSome
  <2>1. CASE w = "control"
    <3>1. wpc["control"] = "write"
      BY <2>0, <2>1
    <3> QED BY <2>0, <3>1
  <2>2. CASE w = "stdin"
    <3>1. \A e \in Senders : put'[e] = put[e]
      BY <2>0, <2>2 DEF Source
    <3> QED BY <2>0, <3>1
  <2> QED BY <2>1, <2>2
<1>4. ASSUME NEW w \in Writers, WouldBlock(w) PROVE Permits'
  BY <1>4 DEF WouldBlock, Source
<1>5. ASSUME NEW w \in Writers,
             WriteDone(w) \/ WriteFails(w) \/ WriteTimesOut(w)
      PROVE  Permits'
  BY <1>5 DEF WriteDone, WriteFails, WriteTimesOut, Written, Overdue, Answered
<1>6. ASSUME NEW w \in Writers, PollReady(w) PROVE Permits'
  BY <1>6 DEF PollReady
<1>7. ASSUME Take PROVE Permits'
  <2>1. put[queue] = 0
    BY <1>7 DEF Take, Tracked
  <2> QED BY <1>7, <2>1 DEF Take
<1>8. ASSUME TakeLate PROVE Permits'
  BY <1>8 DEF TakeLate
<1>9. ASSUME RecordError \/ Quit \/ SeeCancel PROVE Permits'
  BY <1>9 DEF RecordError, Quit, SeeCancel
<1>10. ASSUME ReadStdin PROVE Permits'
  <2>1. \A e \in Senders : put'[e] = put[e]
    BY <1>10 DEF ReadStdin, Sources
  <2> QED BY <1>10, <2>1 DEF ReadStdin
<1>11. ASSUME StdinOver \/ Interrupt \/ AgentEnds \/ RelayEnds PROVE Permits'
  BY <1>11 DEF StdinOver, Interrupt, AgentEnds, RelayEnds
<1>12. CASE UNCHANGED vars
  BY <1>12 DEF vars
<1> QED
  BY <1>1, <1>2, <1>3, <1>4, <1>5, <1>6, <1>7, <1>8, <1>9, <1>10, <1>11, <1>12 DEF Next,
    EnqueueStep, WriteStep, RunStep

LEMMA TrackedStep == ASSUME StateOK, Permits, Tracked, [Next]_vars PROVE Tracked'
<1> USE SendersAssumption, SizeAssumption
    DEF clients, pty, session, At, Return, Writers, Working
<1>0. /\ StateOK
      /\ Working => cur \in Senders
      /\ wpc["control"] = "permit" => put[cur] = 0
      /\ wpc["control"] = "poll" => put[cur] < Size
      /\ done => wpc["control"] = "over"
      /\ \A e \in Senders : put[e] \in 0..Size
  BY DEF Permits, StateOK, Sources
\* A step of a sender tells it something.
<1>a. ASSUME NEW e \in Senders, UNCHANGED <<result, queue, cur, wpc, put, done>>,
             \A d \in Senders \ {e} : send'[d] = send[d],
             send[e] \in {"idle", "enqueue", "wait"}, cur = e /\ Working => send[e] = "wait",
             \/ send'[e] = "enqueue" /\ send[e] = "idle"
             \/ send'[e] = "ok" /\ result[e] = "ok"
             \/ send'[e] = "failed" /\ ~(cur = e /\ Working) /\ (queue # e \/ done) /\ put[e] < Size
      PROVE  Tracked'
  BY <1>a, <1>0 DEF StateOK, Tracked
\* A step that moves only what the senders do not see.
<1>b. ASSUME UNCHANGED <<send, result, queue, cur, done>>,
             \A e \in Senders : put'[e] = put[e],
             wpc'["control"] = wpc["control"] \/ (Working /\ Working')
             \/ {wpc["control"], wpc'["control"]} \subseteq {"fail", "quit", "over"}
      PROVE  Tracked'
  BY <1>b DEF Tracked
<1>1. ASSUME NEW e \in Senders, Send(e) PROVE Tracked'
  BY <1>1, <1>a, <1>0 DEF Send, StateOK, Tracked
<1>2. ASSUME NEW e \in Senders, Expire(e) PROVE Tracked'
  BY <1>2, <1>b DEF Expire
<1>3. ASSUME NEW e \in Senders, Enqueue(e) PROVE Tracked'
  <2>1. /\ send' = [send EXCEPT ![e] = "wait"] /\ queue' = e
        /\ put[e] = 0 /\ result[e] = "none" /\ cur # e
        /\ UNCHANGED <<result, cur, wpc, put, done>>
    BY <1>3 DEF Enqueue, Tracked
  <2>2. \A d \in Senders \ {e} : send'[d] = send[d] /\ queue' # d
    BY <2>1, <1>0 DEF StateOK
  <2>3. send'[e] = "wait"
    BY <2>1, <1>0 DEF StateOK
  <2> QED BY <2>1, <2>2, <2>3 DEF Tracked
<1>4. ASSUME NEW e \in Senders, NotEnqueued(e) \/ GetResult(e) \/ GetDone(e) PROVE Tracked'
  <2>1. CASE NotEnqueued(e)
    <3>1. send[e] = "enqueue" /\ put[e] = 0 /\ queue # e /\ cur # e
      BY <2>1 DEF NotEnqueued, Tracked
    <3> QED BY <2>1, <3>1, <1>a, <1>0 DEF NotEnqueued, StateOK
  <2>2. CASE GetResult(e)
    <3>1. send[e] = "wait" /\ result[e] \in {"ok", "failed"}
      BY <2>2, <1>0 DEF GetResult, StateOK
    <3>2. result[e] = "failed" => put[e] < Size /\ ~Working /\ queue # e
      BY <3>1 DEF Tracked
    <3> QED BY <2>2, <3>1, <3>2, <1>a, <1>0 DEF GetResult, StateOK
  <2>3. CASE GetDone(e)
    <3>1. send[e] = "wait" /\ done /\ ~Working /\ put[e] < Size
      BY <2>3, <1>0 DEF GetDone, Tracked
    <3> QED BY <2>3, <3>1, <1>a, <1>0 DEF GetDone, StateOK
  <2> QED BY <1>4, <2>1, <2>2, <2>3
<1>5. ASSUME NEW w \in Writers, TakePermit(w) \/ WouldBlock(w) \/ PollReady(w) PROVE Tracked'
  <2>1. \/ wpc'["control"] = wpc["control"]
        \/ Working /\ Working'
    BY <1>5, <1>0 DEF TakePermit, WouldBlock, PollReady, StateOK
  <2> QED BY <1>5, <2>1, <1>b DEF TakePermit, WouldBlock, PollReady
<1>6. ASSUME NEW w \in Writers, WriteSome(w) PROVE Tracked'
  <2>0. /\ UNCHANGED <<send, result, queue, wpc, cur, permit, done>> /\ wpc[w] = "write"
        /\ \E m \in 1..(Size - put[Source(w)]) : put' = [put EXCEPT ![Source(w)] = @ + m]
    BY <1>6 DEF WriteSome
  <2>1. CASE w = "control"
    <3>1. Working /\ cur \in Senders /\ Source(w) = cur
      BY <2>0, <2>1, <1>0 DEF Source
    <3>2. \A e \in Senders \ {cur} : put'[e] = put[e]
      BY <2>0, <3>1, <1>0 DEF StateOK
    <3>3. result[cur] = "none" /\ send[cur] = "wait" /\ queue # cur
      BY <3>1 DEF Tracked
    <3> QED BY <2>0, <3>1, <3>2, <3>3 DEF Tracked
  <2>2. CASE w = "stdin"
    <3>1. \A e \in Senders : put'[e] = put[e]
      BY <2>0, <2>2, <1>0 DEF Source, StateOK
    <3> QED BY <2>0, <3>1, <1>b
  <2> QED BY <2>1, <2>2
<1>7. ASSUME NEW w \in Writers, WriteDone(w) PROVE Tracked'
  <2>1. CASE w = "control"
    <3>1. /\ cur \in Senders /\ Working /\ put[cur] = Size
          /\ result' = [result EXCEPT ![cur] = "ok"] /\ cur' = None
          /\ wpc' = [wpc EXCEPT !["control"] = "select"]
          /\ UNCHANGED <<send, queue, put, done>>
      BY <1>7, <2>1, <1>0 DEF WriteDone, Written, Source
    <3>2. /\ \A e \in Senders \ {cur} : result'[e] = result[e]
          /\ result'[cur] = "ok" /\ wpc'["control"] = "select"
      BY <3>1, <1>0 DEF StateOK
    <3>3. result[cur] = "none" /\ send[cur] = "wait" /\ queue # cur
      BY <3>1 DEF Tracked
    <3>4. \A e \in Senders \ {cur} : result[e] # "failed" /\ (put[e] > 0 => result[e] # "none")
      BY <3>1 DEF Tracked
    <3> QED BY <3>1, <3>2, <3>3, <3>4 DEF Tracked
  <2>2. CASE w = "stdin"
    <3>1. UNCHANGED <<send, result, queue, cur, done, put>> /\ wpc'["control"] = wpc["control"]
      BY <1>7, <2>2, <1>0 DEF WriteDone, Written, StateOK
    <3> QED BY <3>1, <1>b
  <2> QED BY <2>1, <2>2
<1>8. ASSUME NEW w \in Writers, WriteTimesOut(w) \/ WriteFails(w) PROVE Tracked'
  <2>1. CASE w = "control"
    <3>1. /\ cur \in Senders /\ Working /\ put[cur] < Size
          /\ result' = [result EXCEPT ![cur] = "failed"] /\ cur' = cur
          /\ wpc' = [wpc EXCEPT !["control"] = "fail"]
          /\ UNCHANGED <<send, queue, put, done>>
      BY <1>8, <2>1, <1>0 DEF WriteTimesOut, WriteFails, Written, Source
    <3>2. /\ \A e \in Senders \ {cur} : result'[e] = result[e]
          /\ result'[cur] = "failed" /\ wpc'["control"] = "fail"
      BY <3>1, <1>0 DEF StateOK
    <3>3. result[cur] = "none" /\ send[cur] = "wait" /\ queue # cur
      BY <3>1 DEF Tracked
    <3>4. \A e \in Senders \ {cur} : result[e] # "failed" /\ (put[e] > 0 => result[e] # "none")
      BY <3>1 DEF Tracked
    <3> QED BY <3>1, <3>2, <3>3, <3>4 DEF Tracked
  <2>2. CASE w = "stdin"
    <3>1. UNCHANGED <<send, result, queue, cur, done, put>> /\ wpc'["control"] = wpc["control"]
      BY <1>8, <2>2, <1>0 DEF WriteTimesOut, WriteFails, Written, StateOK
    <3> QED BY <3>1, <1>b
  <2> QED BY <2>1, <2>2
<1>9. ASSUME Take PROVE Tracked'
  <2>1. /\ queue \in Senders /\ ~Working /\ ~done /\ wpc["control"] = "select"
        /\ cur' = queue /\ queue' = None /\ wpc' = [wpc EXCEPT !["control"] = "permit"]
        /\ UNCHANGED <<send, result, put, done>>
    BY <1>9, <1>0 DEF Take, StateOK
  <2>2. wpc'["control"] = "permit"
    BY <2>1, <1>0 DEF StateOK
  <2>3. send[queue] = "wait" /\ result[queue] = "none"
    BY <2>1 DEF Tracked
  <2>4. \A e \in Senders : result[e] # "failed" /\ (put[e] > 0 => result[e] # "none")
    BY <2>1 DEF Tracked
  <2> QED BY <2>1, <2>2, <2>3, <2>4 DEF Tracked
<1>10. ASSUME TakeLate PROVE Tracked'
  <2>1. /\ queue \in Senders /\ ~Working /\ ~done /\ wpc["control"] = "select"
        /\ cur' = queue /\ queue' = None /\ wpc' = [wpc EXCEPT !["control"] = "fail"]
        /\ result' = [result EXCEPT ![queue] = "failed"]
        /\ UNCHANGED <<send, put, done>>
    BY <1>10, <1>0 DEF TakeLate, StateOK
  <2>2. /\ wpc'["control"] = "fail" /\ result'[queue] = "failed"
        /\ \A e \in Senders \ {queue} : result'[e] = result[e]
    BY <2>1, <1>0 DEF StateOK
  <2>3. send[queue] = "wait" /\ put[queue] = 0
    BY <2>1 DEF Tracked
  <2>4. \A e \in Senders : result[e] # "failed" /\ (put[e] > 0 => result[e] # "none")
    BY <2>1 DEF Tracked
  <2> QED BY <2>1, <2>2, <2>3, <2>4 DEF Tracked
<1>11. ASSUME RecordError \/ Quit PROVE Tracked'
  <2>1. /\ UNCHANGED <<send, result, queue, cur, put>> /\ done' \in {done, TRUE}
        /\ {wpc["control"], wpc'["control"]} \subseteq {"fail", "quit", "over"}
    BY <1>11, <1>0 DEF RecordError, Quit, StateOK
  <2>2. done' = done \/ done' = TRUE
    BY <2>1
  <2> QED BY <2>1, <2>2 DEF Tracked
<1>12. ASSUME SeeCancel PROVE Tracked'
  <2>1. /\ UNCHANGED <<send, result, queue, cur, put>> /\ done'
        /\ wpc["control"] = "select" /\ wpc'["control"] = "over"
    BY <1>12, <1>0 DEF SeeCancel, StateOK
  <2> QED BY <2>1 DEF Tracked
<1>13. ASSUME ReadStdin PROVE Tracked'
  <2>1. \A e \in Senders : put'[e] = put[e]
    BY <1>13, <1>0 DEF ReadStdin, Sources, StateOK
  <2>2. wpc'["control"] = wpc["control"]
    BY <1>13, <1>0 DEF ReadStdin, StateOK
  <2> QED BY <1>13, <2>1, <2>2, <1>b DEF ReadStdin
<1>14. ASSUME StdinOver \/ Interrupt \/ AgentEnds \/ RelayEnds PROVE Tracked'
  <2>1. wpc'["control"] = wpc["control"]
    BY <1>14, <1>0 DEF StdinOver, Interrupt, AgentEnds, RelayEnds, StateOK
  <2> QED BY <1>14, <2>1, <1>b DEF StdinOver, Interrupt, AgentEnds, RelayEnds
<1>15. CASE UNCHANGED vars
  BY <1>15 DEF vars, Tracked, StateOK
<1> QED
  BY <1>1, <1>2, <1>3, <1>4, <1>5, <1>6, <1>7, <1>8, <1>9, <1>10, <1>11, <1>12, <1>13,
    <1>14, <1>15 DEF Next, EnqueueStep, WriteStep, RunStep

----------------------------------------------------------------------------
(* The stream.                                                              *)

\* What a write adds to the stream.
LEMMA WrittenMore ==
  ASSUME TypeOK, Permits, NEW w \in Writers, WriteSome(w)
  PROVE  /\ stream' \in Seq(Sources) /\ Len(stream) \in Nat /\ Len(stream') \in Nat
         /\ Len(stream') > Len(stream)
         /\ \A i \in 1..Len(stream) : stream'[i] = stream[i]
         /\ \A i \in 1..Len(stream') : i > Len(stream) => stream'[i] = Source(w)
         /\ put'[Source(w)] > 0 /\ Source(w) \in Sources
         /\ \A s \in Sources \ {Source(w)} : put'[s] = put[s]
         /\ wpc[w] = "write" /\ UNCHANGED <<wpc, cur, permit, result>>
<1>1. Source(w) \in Sources
  BY Sourced DEF WriteSome, TypeOK, StateOK
<1>2. PICK n \in 1..(Size - put[Source(w)]) :
        /\ put' = [put EXCEPT ![Source(w)] = @ + n]
        /\ stream' = stream \o [i \in 1..n |-> Source(w)]
  BY DEF WriteSome
<1>3. put \in [Sources -> 0..Size] /\ stream \in Seq(Sources)
  BY DEF TypeOK
<1>4. n \in Nat /\ n > 0
  BY <1>1, <1>2, <1>3, SizeAssumption
<1>5. put'[Source(w)] = put[Source(w)] + n /\ \A s \in Sources \ {Source(w)} : put'[s] = put[s]
  BY <1>1, <1>2, <1>3
<1>6. put[Source(w)] \in Nat
  BY <1>1, <1>3
<1>7. /\ stream' \in Seq(Sources) /\ Len(stream') = Len(stream) + n
      /\ \A i \in 1..Len(stream) : stream'[i] = stream[i]
      /\ \A i \in 1..Len(stream') : i > Len(stream) => stream'[i] = Source(w)
  <2> DEFINE x == Source(w)
             t == stream \o [i \in 1..n |-> x]
  <2>1. x \in Sources /\ stream' = t
    BY <1>1, <1>2
  <2> HIDE DEF x
  <2>2. /\ t \in Seq(Sources) /\ Len(t) = Len(stream) + n
        /\ \A i \in 1..Len(stream) : t[i] = stream[i]
        /\ \A i \in 1..Len(t) : i > Len(stream) => t[i] = x
    BY <2>1, <1>3, <1>4, Appended
  <2> HIDE DEF t
  <2>3. /\ stream' \in Seq(Sources) /\ Len(stream') = Len(stream) + n
        /\ \A i \in 1..Len(stream) : stream'[i] = stream[i]
        /\ \A i \in 1..Len(stream') : i > Len(stream) => stream'[i] = x
    BY <2>1, <2>2
  <2> QED BY <2>3 DEF x
<1>8. Len(stream) \in Nat
  BY <1>3
<1>9. Len(stream') \in Nat /\ Len(stream') > Len(stream)
  BY <1>7, <1>8, <1>4
<1>10. put'[Source(w)] > 0
  BY <1>4, <1>5, <1>6
<1> QED BY <1>1, <1>5, <1>7, <1>8, <1>9, <1>10 DEF WriteSome

\* Every other step leaves the stream, and what is written of messages, alone.
LEMMA StreamAlone ==
  ASSUME TypeOK, Permits, [Next]_vars, \A w \in Writers : ~WriteSome(w)
  PROVE  /\ UNCHANGED stream /\ \A e \in Senders : put'[e] = put[e]
         /\ \/ Working' => Working /\ cur' = cur
            \/ wpc["control"] = "select" /\ cur' = queue /\ queue \in Senders
<1> USE SendersAssumption DEF clients, pty, session, At, Writers, TypeOK
<1>1. ASSUME NEW e \in Senders,
             \/ Send(e) \/ Expire(e) \/ Enqueue(e) \/ NotEnqueued(e)
             \/ GetResult(e) \/ GetDone(e)
      PROVE  /\ UNCHANGED stream /\ \A f \in Senders : put'[f] = put[f]
             /\ \/ Working' => Working /\ cur' = cur
                \/ wpc["control"] = "select" /\ cur' = queue /\ queue \in Senders
  BY <1>1 DEF Send, Expire, Enqueue, NotEnqueued, GetResult, GetDone, Working
<1>2. ASSUME NEW w \in Writers,
             TakePermit(w) \/ WouldBlock(w) \/ PollReady(w)
      PROVE  /\ UNCHANGED stream /\ \A e \in Senders : put'[e] = put[e]
             /\ \/ Working' => Working /\ cur' = cur
                \/ wpc["control"] = "select" /\ cur' = queue /\ queue \in Senders
  BY <1>2 DEF TakePermit, WouldBlock, PollReady, Working
<1>3. ASSUME NEW w \in Writers,
             WriteDone(w) \/ WriteTimesOut(w) \/ WriteFails(w)
      PROVE  /\ UNCHANGED stream /\ \A e \in Senders : put'[e] = put[e]
             /\ \/ Working' => Working /\ cur' = cur
                \/ wpc["control"] = "select" /\ cur' = queue /\ queue \in Senders
  BY <1>3 DEF WriteDone, WriteTimesOut, WriteFails, Written, Working
<1>4. ASSUME 
             Take \/ TakeLate
      PROVE  /\ UNCHANGED stream /\ \A e \in Senders : put'[e] = put[e]
             /\ \/ Working' => Working /\ cur' = cur
                \/ wpc["control"] = "select" /\ cur' = queue /\ queue \in Senders
  BY <1>4 DEF Take, TakeLate, Working
<1>5. ASSUME 
             \/ RecordError \/ Quit \/ SeeCancel \/ StdinOver \/ Interrupt
             \/ AgentEnds \/ RelayEnds
      PROVE  /\ UNCHANGED stream /\ \A e \in Senders : put'[e] = put[e]
             /\ \/ Working' => Working /\ cur' = cur
                \/ wpc["control"] = "select" /\ cur' = queue /\ queue \in Senders
  BY <1>5 DEF RecordError, Quit, SeeCancel, StdinOver, Interrupt, AgentEnds, RelayEnds,
    Working
<1>6. ASSUME 
             ReadStdin
      PROVE  /\ UNCHANGED stream /\ \A e \in Senders : put'[e] = put[e]
             /\ \/ Working' => Working /\ cur' = cur
                \/ wpc["control"] = "select" /\ cur' = queue /\ queue \in Senders
  BY <1>6 DEF ReadStdin, Working, Sources
<1>7. CASE UNCHANGED vars
  BY <1>7 DEF vars, Working
<1> QED
  BY <1>1, <1>2, <1>3, <1>4, <1>5, <1>6, <1>7 DEF Next, EnqueueStep, WriteStep, RunStep

\* The current message is the end of the stream: while it is not, its writer waits
\* for the permit and has written nothing of it.
LEMMA StreamedStep == ASSUME TypeOK, Permits, Tracked, Streamed, [Next]_vars PROVE Streamed'
<1>0. /\ stream \in Seq(Sources) /\ Len(stream) \in Nat /\ cur \in Senders \cup {None}
      /\ \A e \in Senders : put[e] \in Nat
      /\ \A i \in 1..Len(stream) : stream[i] \in Sources
  BY SizeAssumption DEF TypeOK, Sources
<1>1. ASSUME NEW w \in Writers, WriteSome(w) PROVE Streamed'
  <2>0. /\ Len(stream') \in Nat /\ Len(stream') > Len(stream)
        /\ \A i \in 1..Len(stream) : stream'[i] = stream[i]
        /\ \A i \in 1..Len(stream') : i > Len(stream) => stream'[i] = Source(w)
        /\ put'[Source(w)] > 0 /\ Source(w) \in Sources
        /\ \A s \in Sources \ {Source(w)} : put'[s] = put[s]
        /\ wpc[w] = "write" /\ UNCHANGED <<wpc, cur, permit, result>>
    BY <1>1, WrittenMore
  <2>1. Working' <=> Working
    BY <2>0 DEF Working
  <2>2. ASSUME NEW i \in 1..Len(stream'), stream'[i] \in Senders PROVE put'[stream'[i]] > 0
    <3>1. CASE stream'[i] = Source(w)
      BY <2>0, <3>1
    <3>2. CASE stream'[i] # Source(w)
      <4>1. i \in 1..Len(stream)
        BY <2>0, <3>2, <1>0
      <4>2. stream[i] \in Senders /\ stream[i] \in Sources \ {Source(w)}
        BY <2>0, <2>2, <3>2, <4>1, <1>0
      <4> QED BY <2>0, <4>1, <4>2 DEF Streamed
    <3> QED BY <3>1, <3>2
  <2>3. ASSUME NEW i \in 1..Len(stream'), Working', stream'[i] = cur', NEW k \in i..Len(stream')
        PROVE  stream'[k] = cur'
    <3>0. cur \in Senders /\ cur' = cur /\ Working
      BY <2>0, <2>1, <2>3 DEF Permits
    <3>1. CASE w = "control"
      <4>1. Source(w) = cur
        BY <3>1 DEF Source
      <4>2. CASE k > Len(stream)
        BY <2>0, <4>1, <4>2, <3>0, <1>0
      <4>3. CASE k <= Len(stream)
        <5>1. i \in 1..Len(stream) /\ k \in i..Len(stream) /\ k \in 1..Len(stream)
          BY <4>3, <1>0, <2>0
        <5>2. stream[i] = cur
          BY <5>1, <2>0, <2>3
        <5> QED BY <5>1, <5>2, <2>0, <3>0 DEF Streamed
      <4> QED BY <4>2, <4>3, <1>0, <2>0
    <3>2. CASE w = "stdin"
      <4>1. permit = "stdin" /\ Source(w) = "stdin" /\ wpc["control"] = "permit"
        BY <2>0, <3>0, <3>2, SendersAssumption DEF Permits, Working, Writers, Source
      <4>2. put[cur] = 0
        BY <4>1 DEF Permits
      <4>3. \A j \in 1..Len(stream) : stream[j] # cur
        BY <4>2, <3>0 DEF Streamed
      <4>4. stream'[i] # cur
        BY <4>1, <4>3, <2>0, <3>0, <1>0, SendersAssumption
      <4> QED BY <4>4, <3>0, <2>3
    <3> QED BY <3>1, <3>2 DEF Writers
  <2> QED BY <2>2, <2>3 DEF Streamed
<1>2. CASE \A w \in Writers : ~WriteSome(w)
  <2>0. /\ UNCHANGED stream /\ \A e \in Senders : put'[e] = put[e]
        /\ \/ Working' => Working /\ cur' = cur
           \/ wpc["control"] = "select" /\ cur' = queue /\ queue \in Senders
    BY <1>2, StreamAlone
  <2>1. CASE Working' => Working /\ cur' = cur
    BY <2>0, <2>1 DEF Streamed
  <2>2. CASE wpc["control"] = "select" /\ cur' = queue /\ queue \in Senders
    <3>1. put[queue] = 0
      BY <2>2 DEF Tracked
    <3>2. \A i \in 1..Len(stream) : stream[i] # queue
      BY <2>2, <3>1 DEF Streamed
    <3> QED BY <2>0, <2>2, <3>2 DEF Streamed
  <2> QED BY <2>0, <2>1, <2>2
<1> QED BY <1>1, <1>2

\* A message is begun only when every earlier one is there in full.
LEMMA UnsplicedStep ==
  ASSUME TypeOK, Permits, Tracked, Streamed, Unspliced, [Next]_vars
  PROVE  Unspliced'
<1>0. /\ stream \in Seq(Sources) /\ Len(stream) \in Nat
      /\ \A i \in 1..Len(stream) : stream[i] \in Sources
      /\ \A e \in Senders : e \in Sources
  BY DEF TypeOK, Sources
<1>1. ASSUME NEW w \in Writers, WriteSome(w) PROVE Unspliced'
  <2>0. /\ Len(stream') \in Nat /\ Len(stream') > Len(stream)
        /\ \A i \in 1..Len(stream) : stream'[i] = stream[i]
        /\ \A i \in 1..Len(stream') : i > Len(stream) => stream'[i] = Source(w)
        /\ \A s \in Sources \ {Source(w)} : put'[s] = put[s]
        /\ wpc[w] = "write"
    BY <1>1, WrittenMore
  <2> SUFFICES ASSUME NEW i \in 1..Len(stream'), NEW k \in 1..Len(stream'), i < k,
                      stream'[i] \in Senders, stream'[k] # stream'[i]
               PROVE  /\ \A j \in k..Len(stream') : stream'[j] # stream'[i]
                      /\ stream'[k] \in Senders => put'[stream'[i]] = Size
    BY DEF Unspliced
  <2>1. i \in 1..Len(stream) /\ stream'[i] = stream[i] /\ stream[i] \in Senders
    BY <2>0, <1>0
  <2> DEFINE a == stream[i]
  \* The message that is being written is another one.
  <2>2. a # Source(w)
    <3> SUFFICES ASSUME a = Source(w) PROVE FALSE
      OBVIOUS
    <3>1. w = "control" /\ Source(w) = cur /\ Working
      BY <2>0, <2>1, SendersAssumption DEF Writers, Source, Working
    <3>2. \A j \in i..Len(stream) : stream[j] = cur
      BY <2>1, <3>1 DEF Streamed
    <3>3. CASE k <= Len(stream)
      BY <2>0, <2>1, <3>1, <3>2, <3>3, <1>0
    <3>4. CASE k > Len(stream)
      BY <2>0, <2>1, <3>4
    <3> QED BY <3>3, <3>4, <1>0
  <2>3. put'[a] = put[a]
    BY <2>0, <2>1, <2>2, <1>0
  <2>4. CASE k <= Len(stream)
    <3>1. k \in 1..Len(stream) /\ stream'[k] = stream[k]
      BY <2>0, <2>4, <1>0
    <3>2. /\ \A j \in k..Len(stream) : stream[j] # a
          /\ stream[k] \in Senders => put[a] = Size
      BY <2>1, <3>1 DEF Unspliced
    <3>3. ASSUME NEW j \in k..Len(stream') PROVE stream'[j] # a
      <4>1. CASE j <= Len(stream)
        BY <2>0, <3>1, <3>2, <4>1, <1>0
      <4>2. CASE j > Len(stream)
        BY <2>0, <2>2, <3>1, <4>2, <1>0
      <4> QED BY <4>1, <4>2, <3>1, <2>0, <1>0
    <3> QED BY <2>1, <2>3, <3>1, <3>2, <3>3
  <2>5. CASE k > Len(stream)
    <3>1. \A j \in k..Len(stream') : stream'[j] = Source(w)
      BY <2>0, <2>5, <1>0
    <3>2. ASSUME Source(w) \in Senders PROVE put[a] = Size
      <4>1. w = "control" /\ Source(w) = cur /\ Working
        BY <2>0, <3>2, SendersAssumption DEF Writers, Source, Working
      <4>2. put[a] > 0
        BY <2>1 DEF Streamed
      <4>3. result[a] # "none"
        BY <2>1, <2>2, <4>1, <4>2 DEF Tracked
      <4>4. result[a] \in {"none", "ok", "failed"}
        BY <2>1 DEF TypeOK
      <4>5. result[a] # "failed"
        BY <2>1, <4>1 DEF Tracked, Working
      <4> QED BY <2>1, <4>3, <4>4, <4>5 DEF Tracked
    <3> QED BY <2>0, <2>1, <2>2, <2>3, <3>1, <3>2, <2>5
  <2> QED BY <2>4, <2>5, <1>0
<1>2. CASE \A w \in Writers : ~WriteSome(w)
  <2>1. UNCHANGED stream /\ \A e \in Senders : put'[e] = put[e]
    BY <1>2, StreamAlone
  <2> QED BY <2>1 DEF Unspliced
<1> QED BY <1>1, <1>2

----------------------------------------------------------------------------
(* The invariant.                                                           *)

LEMMA Initially == ASSUME Init PROVE IInv
<1> USE SendersAssumption, SizeAssumption DEF Init
<1>1. TypeOK
  <2>1. stream \in Seq(Sources) /\ put \in [Sources -> 0..Size] /\ pasted \in 0..Pastes
    OBVIOUS
  <2>2. /\ wpc \in [Writers -> {"select", "permit", "write", "poll", "fail", "quit", "over"}]
        /\ permit \in Writers \cup {None}
    OBVIOUS
  <2> QED BY <2>1, <2>2 DEF TypeOK
<1>2. Permits /\ Tracked
  BY DEF Permits, Tracked, Working, Writers, Sources
<1>3. Streamed /\ Unspliced
  BY DEF Streamed, Unspliced
<1> QED BY <1>1, <1>2, <1>3 DEF IInv

LEMMA Inductive == IInv /\ [Next]_vars => IInv'
<1> SUFFICES ASSUME IInv, [Next]_vars PROVE IInv'
  OBVIOUS
<1>1. TypeOK /\ Permits /\ Tracked /\ Streamed /\ Unspliced /\ StateOK
  BY DEF IInv, TypeOK, StateOK
<1>2. TypeOK' /\ Permits' /\ Tracked'
  BY <1>1, TypeStep, PermitsStep, TrackedStep
<1>3. Streamed' /\ Unspliced'
  BY <1>1, StreamedStep, UnsplicedStep
<1> QED BY <1>2, <1>3 DEF IInv

\* The inductive invariant holds in every reachable state.
THEOREM Invariant == Spec => []IInv
  BY Initially, Inductive, PTL DEF Spec

\* Types: neither writer puts more into the pty than its message has.
THEOREM TypeCorrect == Spec => []TypeOK
<1>1. IInv => TypeOK
  BY DEF IInv
<1> QED BY <1>1, Invariant, PTL

\* EnqueueTimeout: a sender that is told its message was sent finds it in the pty in
\* full, and one that is told it failed may send it again, for never will it be.
THEOREM TrueAnswers == Spec => []Acknowledged
<1>1. IInv => Acknowledged
  <2> SUFFICES ASSUME IInv, NEW e \in Senders, send[e] \in Answered
               PROVE  send[e] = "ok" <=> put[e] = Size
    BY DEF Acknowledged
  <2>1. put[e] \in 0..Size
    BY DEF IInv, TypeOK, Sources
  <2>2. /\ send[e] = "ok" => result[e] = "ok"
        /\ result[e] = "ok" => put[e] = Size
        /\ send[e] = "failed" => put[e] < Size
    BY DEF IInv, Tracked
  <2> QED BY <2>1, <2>2, SizeAssumption DEF Answered
<1> QED BY <1>1, Invariant, PTL

\* write and run: messages are whole or the last of their stream.
THEOREM WholeMessages == Spec => []Unspliced
<1>1. IInv => Unspliced
  BY DEF IInv
<1> QED BY <1>1, Invariant, PTL
----------------------------------------------------------------------------
(* A message is delivered at one moment of the call.                        *)

\* Once an error is stored run() takes nothing any more.
Stopping == writeErr => wpc["control"] \in {"quit", "over"}

LEMMA StoppingStep == ASSUME TypeOK, Permits, Stopping, [Next]_vars PROVE Stopping'
<1> USE DEF Stopping, clients, pty, session, At
<1>0. wpc \in [Writers -> {"select", "permit", "write", "poll", "fail", "quit", "over"}]
      /\ "control" \in Writers /\ writeErr \in BOOLEAN
  BY DEF TypeOK, Writers
<1>1. ASSUME NEW e \in Senders, Send(e) \/ Expire(e) \/ EnqueueStep(e) PROVE Stopping'
  BY <1>1 DEF Send, Expire, EnqueueStep, Enqueue, NotEnqueued, GetResult, GetDone
<1>2. ASSUME NEW w \in Writers, WriteStep(w) \/ PollReady(w) PROVE Stopping'
  <2>1. wpc[w] \in {"permit", "write", "poll"} /\ UNCHANGED writeErr
    BY <1>2 DEF WriteStep, TakePermit, WriteSome, WouldBlock, WriteDone, WriteTimesOut,
      WriteFails, PollReady, Written
  <2>2. \A v \in Writers \ {w} : wpc'[v] = wpc[v]
    BY <1>0, <1>2 DEF WriteStep, TakePermit, WriteSome, WouldBlock, WriteDone, WriteTimesOut,
      WriteFails, PollReady, Written
  <2> QED BY <1>0, <2>1, <2>2
<1>3. CASE RunStep
  BY <1>0, <1>3 DEF RunStep, Take, TakeLate, RecordError, Quit, SeeCancel
<1>4. CASE ReadStdin \/ StdinOver \/ Interrupt \/ AgentEnds \/ RelayEnds
  <2>1. wpc'["control"] = wpc["control"] /\ UNCHANGED writeErr
    BY <1>0, <1>4 DEF ReadStdin, StdinOver, Interrupt, AgentEnds, RelayEnds
  <2> QED BY <2>1
<1>5. CASE UNCHANGED vars
  BY <1>5 DEF vars
<1> QED BY <1>1, <1>2, <1>3, <1>4, <1>5 DEF Next

\* run: once an error is stored, which every sender looks at first, the goroutine is
\* on its way out, so that nothing is written after a refusal.
THEOREM StoppedForGood == Spec => []Stopping
<1>1. Init => Stopping
  BY DEF Init, Stopping
<1>2. IInv /\ Stopping /\ [Next]_vars => Stopping'
  BY StoppingStep DEF IInv
<1> QED BY <1>1, <1>2, Invariant, PTL DEF Spec

\* What a sender sees of the writer.
Calls == [e \in Senders |-> IF send[e] \in {"enqueue", "wait"} THEN "called" ELSE send[e]]
Begun == {e \in Senders : put[e] > 0}
Delivered == {e \in Senders : put[e] = Size}
Stopped == writeErr \/ done
seen == <<Calls, Begun, Delivered, Stopped>>

LEMMA SeenSame ==
  ASSUME UNCHANGED <<send, writeErr, done>>, \A e \in Senders : put'[e] = put[e]
  PROVE  UNCHANGED seen
BY DEF seen, Calls, Begun, Delivered, Stopped

\* A step of a sender.
LEMMA SenderDelivers ==
  ASSUME IInv, IInv', NEW e \in Senders, Send(e) \/ Expire(e) \/ EnqueueStep(e)
  PROVE  Delivery!Next \/ UNCHANGED seen
<1>0. /\ send \in [Senders -> {"idle", "enqueue", "wait", "ok", "failed"}]
      /\ UNCHANGED <<put, writeErr, done>>
      /\ Begun' = Begun /\ Delivered' = Delivered /\ Stopped' = Stopped
  BY DEF IInv, TypeOK, Send, Expire, EnqueueStep, Enqueue, NotEnqueued, GetResult, GetDone,
    pty, session, Begun, Delivered, Stopped
<1>1. ASSUME NEW from, NEW to, from # to, Calls[e] = from, send' = [send EXCEPT ![e] = to],
             to \in {"ok", "failed", "enqueue"}
      PROVE  Delivery!Becomes(e, from, IF to = "enqueue" THEN "called" ELSE to)
  <2>1. Calls' = [Calls EXCEPT ![e] = IF to = "enqueue" THEN "called" ELSE to]
    BY <1>0, <1>1 DEF Calls
  <2> QED BY <1>0, <1>1, <2>1 DEF Delivery!Becomes, Calls, Begun, Delivered, Stopped
<1>2. CASE Send(e)
  <2>1. Calls[e] = "idle"
    BY <1>2 DEF Send, Calls
  <2>2. CASE writeErr
    <3>1. send' = [send EXCEPT ![e] = "failed"] /\ Stopped
      BY <1>2, <2>2 DEF Send, Return, Stopped
    <3>2. Delivery!Becomes(e, "idle", "failed")
      BY <1>1, <2>1, <3>1
    <3> QED BY <3>1, <3>2 DEF Delivery!Next, Delivery!Refuse, Stopped
  <2>3. CASE ~writeErr
    <3>1. send' = [send EXCEPT ![e] = "enqueue"]
      BY <1>2, <2>3 DEF Send, Return
    <3>2. Delivery!Becomes(e, "idle", "called")
      BY <1>1, <2>1, <3>1
    <3> QED BY <3>2 DEF Delivery!Next, Delivery!Call
  <2> QED BY <2>2, <2>3
<1>3. CASE Expire(e) \/ Enqueue(e)
  <2>1. Calls' = Calls
    BY <1>0, <1>3 DEF Expire, Enqueue, Return, Calls
  <2> QED BY <1>0, <2>1 DEF seen
<1>4. CASE NotEnqueued(e) \/ GetResult(e) \/ GetDone(e)
  <2>1. PICK answer : answer \in {"ok", "failed"} /\ send' = [send EXCEPT ![e] = answer]
    <3>1. GetResult(e) => result[e] \in {"ok", "failed"}
      BY DEF GetResult, IInv, TypeOK
    <3> QED BY <1>4, <3>1 DEF NotEnqueued, GetResult, GetDone, Return
  <2>2. Calls[e] = "called"
    BY <1>4 DEF NotEnqueued, GetResult, GetDone, Calls
  <2>3. answer = (IF e \in Delivered THEN "ok" ELSE "failed")
    <3>1. send'[e] = answer /\ put'[e] = put[e]
      BY <1>0, <2>1
    <3>2. /\ answer = "ok" => result'[e] = "ok"
          /\ result'[e] = "ok" => put'[e] = Size
          /\ answer = "failed" => put'[e] < Size
      BY <3>1 DEF IInv, Tracked
    <3>3. answer = "failed" => put[e] # Size
      BY <3>1, <3>2, SizeAssumption
    <3> QED BY <2>1, <3>1, <3>2, <3>3 DEF Delivered
  <2>4. Delivery!Becomes(e, "called", answer)
    BY <1>1, <2>1, <2>2
  <2>5. Delivery!Answer(e)
    BY <2>3, <2>4 DEF Delivery!Answer, Delivery!Becomes, Delivered
  <2> QED BY <2>5 DEF Delivery!Next
<1> QED BY <1>2, <1>3, <1>4 DEF EnqueueStep

\* A step of whoever writes.
LEMMA WriterDelivers ==
  ASSUME IInv, IInv', Stopping, NEW w \in Writers, WriteStep(w) \/ PollReady(w)
  PROVE  Delivery!Next \/ UNCHANGED seen
<1>0. UNCHANGED <<send, writeErr, done>>
  BY DEF WriteStep, TakePermit, WriteSome, WouldBlock, WriteDone, WriteTimesOut, WriteFails,
    PollReady, Written, clients
<1>s. "stdin" \notin Senders /\ Writers = {"control", "stdin"}
  BY SendersAssumption DEF Writers
<1>1. CASE ~WriteSome(w)
  <2>1. UNCHANGED put
    BY <1>1 DEF WriteStep, TakePermit, WouldBlock, WriteDone, WriteTimesOut, WriteFails,
      PollReady, Written, pty
  <2> QED BY <1>0, <2>1, SeenSame
<1>2. CASE WriteSome(w) /\ w = "stdin"
  <2>1. \A e \in Senders : put'[e] = put[e]
    BY <1>s, <1>2 DEF WriteSome, Source, IInv, TypeOK, Sources
  <2> QED BY <1>0, <2>1, SeenSame
<1>3. CASE WriteSome(w) /\ w = "control"
  <2>1. wpc["control"] = "write" /\ cur \in Senders
    BY <1>3 DEF WriteSome, IInv, Permits, Working
  <2>2. PICK n \in 1..(Size - put[cur]) : put' = [put EXCEPT ![cur] = @ + n]
    BY <1>3 DEF WriteSome, Source
  <2>3. /\ put \in [Sources -> 0..Size] /\ put[cur] \in 0..Size /\ cur \in Sources
        /\ Size \in Nat /\ n \in Nat /\ n >= 1 /\ put[cur] < Size /\ put[cur] + n > 0
    BY <2>1, <2>2, SizeAssumption DEF IInv, TypeOK, Sources
  <2>4. put'[cur] = put[cur] + n /\ \A e \in Senders \ {cur} : put'[e] = put[e]
    BY <2>2, <2>3
  <2>5. send[cur] = "wait"
    BY <2>1 DEF IInv, Tracked, Working
  <2>6. Calls[cur] = "called" /\ Calls' = Calls /\ Stopped' = Stopped
    BY <1>0, <2>1, <2>5 DEF Calls, Stopped
  <2>7. ~Stopped
    BY <2>1 DEF Stopped, Stopping, IInv, Permits
  <2>8. cur \notin Delivered
    BY <2>3 DEF Delivered
  <2>9. Begun \subseteq Delivered \cup {cur}
    <3> SUFFICES ASSUME NEW e \in Begun, e # cur PROVE e \in Delivered
      OBVIOUS
    <3>1. e \in Senders /\ put[e] > 0
      BY DEF Begun
    <3>2. result[e] # "none" /\ result[e] # "failed"
      BY <2>1, <3>1 DEF IInv, Tracked
    <3>3. result[e] = "ok"
      BY <3>1, <3>2 DEF IInv, TypeOK
    <3> QED BY <3>1, <3>3 DEF IInv, Tracked, Delivered
  <2>10. Begun' = Begun \cup {cur}
    BY <2>1, <2>3, <2>4 DEF Begun
  <2>11. Delivered' \in {Delivered, Delivered \cup {cur}}
    BY <2>1, <2>4, <2>8 DEF Delivered
  <2>12. PICK e \in Senders : e = cur
    BY <2>1
  <2>13. Delivery!Write(e)
    BY <2>6, <2>7, <2>8, <2>9, <2>10, <2>11, <2>12 DEF Delivery!Write, Calls, Begun, Delivered,
      Stopped
  <2> QED BY <2>13 DEF Delivery!Next
<1> QED BY <1>s, <1>1, <1>2, <1>3

\* Any other step.
LEMMA OthersDeliver ==
  ASSUME IInv, RunStep \/ ReadStdin \/ StdinOver \/ Interrupt \/ AgentEnds \/ RelayEnds
  PROVE  Delivery!Next \/ UNCHANGED seen
<1>1. CASE RunStep
  <2>1. /\ UNCHANGED <<send, put>>
        /\ (UNCHANGED <<writeErr, done>> \/ Stopped')
    BY <1>1 DEF RunStep, Take, TakeLate, RecordError, Quit, SeeCancel, clients, pty, Stopped
  <2>2. UNCHANGED <<Calls, Begun, Delivered>>
    BY <2>1 DEF Calls, Begun, Delivered
  <2>3. CASE UNCHANGED <<writeErr, done>>
    BY <2>2, <2>3 DEF seen, Stopped
  <2>4. CASE Stopped' /\ Stopped
    BY <2>2, <2>4 DEF seen, Stopped
  <2>5. CASE Stopped' /\ ~Stopped
    <3>1. Delivery!Stop
      BY <2>2, <2>5 DEF Delivery!Stop, Calls, Begun, Delivered, Stopped
    <3> QED BY <3>1 DEF Delivery!Next
  <2> QED BY <2>1, <2>3, <2>4, <2>5
<1>2. CASE ReadStdin
  <2>1. \A e \in Senders : put'[e] = put[e]
    BY <1>2, SendersAssumption DEF ReadStdin, IInv, TypeOK, Sources
  <2> QED BY <1>2, <2>1, SeenSame DEF ReadStdin, clients
<1>3. CASE StdinOver \/ Interrupt \/ AgentEnds \/ RelayEnds
  <2>1. UNCHANGED <<send, put, writeErr, done>>
    BY <1>3 DEF StdinOver, Interrupt, AgentEnds, RelayEnds, clients, pty
  <2> QED BY <2>1, SeenSame
<1> QED BY <1>1, <1>2, <1>3

\* The queue, its deadlines, the permit and the writes that the kernel cuts into
\* pieces implement MessageDelivery: each write of run() is one of the message that
\* is in progress, every answer says what is in the pty.
THEOREM Delivers == Spec => DeliverySpec
<1>1. Init => Delivery!Init
  <2> SUFFICES ASSUME Init PROVE Delivery!Init
    OBVIOUS
  <2>1. \A e \in Senders : put[e] = 0 /\ send[e] = "idle"
    BY DEF Init, Sources
  <2>2. Begun = {} /\ Delivered = {} /\ Calls = [e \in Senders |-> "idle"]
    BY <2>1, SizeAssumption DEF Begun, Delivered, Calls
  <2>3. Stopped = FALSE
    BY DEF Init, Stopped
  <2> QED BY <2>2, <2>3 DEF Delivery!Init, Begun, Delivered, Calls, Stopped
<1>2. IInv /\ IInv' /\ Stopping /\ [Next]_vars => Delivery!Next \/ UNCHANGED seen
  <2>1. ASSUME UNCHANGED vars PROVE UNCHANGED seen
    BY <2>1, SeenSame DEF vars, clients, pty
  <2> QED BY <2>1, SenderDelivers, WriterDelivers, OthersDeliver DEF Next
<1>3. IInv /\ IInv' /\ Stopping /\ [Next]_vars => [Delivery!Next]_Delivery!vars
  BY <1>2 DEF seen, Calls, Begun, Delivered, Stopped, Delivery!vars
<1> QED
  BY <1>1, <1>3, Invariant, StoppedForGood, PTL DEF Spec, DeliverySpec, Delivery!Spec

\* At most one message is ever left in part in the pty, whoever sent it and however
\* many follow: what MessageDelivery promises holds of the writer.
THEOREM OneTornMessage == Spec => []Delivery!OneTorn
<1>1. Delivery!Init => Delivery!OneTorn
  BY DEF Delivery!Init, Delivery!OneTorn
<1>2. Delivery!OneTorn /\ [Delivery!Next]_Delivery!vars => Delivery!OneTorn'
  <2> SUFFICES ASSUME Delivery!OneTorn, [Delivery!Next]_Delivery!vars
               PROVE  Delivery!OneTorn'
    OBVIOUS
  <2>1. ASSUME UNCHANGED <<Begun, Delivered>> PROVE Delivery!OneTorn'
    BY <2>1 DEF Delivery!OneTorn, Begun, Delivered
  <2>2. ASSUME NEW e \in Senders, Delivery!Write(e) PROVE Delivery!OneTorn'
    <3>1. Begun' = Begun \cup {e} /\ Begun \subseteq Delivered \cup {e}
      BY <2>2 DEF Delivery!Write, Begun, Delivered
    <3>2. Delivered' = Delivered \/ Delivered' = Delivered \cup {e}
      BY <2>2 DEF Delivery!Write, Delivered
    <3>3. \A f \in Begun' \ Delivered' : f = e
      BY <3>1, <3>2
    <3> QED BY <3>3 DEF Delivery!OneTorn, Begun, Delivered
  <2>3. ASSUME NEW e \in Senders,
               Delivery!Call(e) \/ Delivery!Refuse(e) \/ Delivery!Answer(e)
        PROVE  UNCHANGED <<Begun, Delivered>>
    BY <2>3 DEF Delivery!Call, Delivery!Refuse, Delivery!Answer, Delivery!Becomes, Begun,
      Delivered
  <2>4. ASSUME Delivery!Stop PROVE UNCHANGED <<Begun, Delivered>>
    BY <2>4 DEF Delivery!Stop, Begun, Delivered
  <2>5. ASSUME UNCHANGED Delivery!vars PROVE UNCHANGED <<Begun, Delivered>>
    BY <2>5 DEF Delivery!vars, Begun, Delivered
  <2> QED BY <2>1, <2>2, <2>3, <2>4, <2>5 DEF Delivery!Next
<1> QED BY <1>1, <1>2, Delivers, PTL DEF DeliverySpec, Delivery!Spec
----------------------------------------------------------------------------
(* Nobody waits for what cannot come.                                       *)

\* run() has a step that waits for neither a peer nor a clock.
RunMoves ==
  \/ wpc["control"] = "select" /\ queue # None
  \/ wpc["control"] \in {"fail", "quit"}
  \/ Working /\ late[cur]

\* A sender that waits has its answer, or its request is in the queue or in the
\* hands of run(), which can go on as soon as the deadline of its message has passed.
NobodyStranded ==
  \A e \in Senders : send[e] = "wait" =>
    \/ result[e] # "none" \/ done
    \/ /\ queue = e \/ (cur = e /\ Working)
       /\ RunMoves \/ (Working /\ ~late[cur])

\* Who has the request of a sender that waits; run() does not end without telling.
Attended ==
  /\ wpc["control"] = "over" => done
  /\ \A e \in Senders : send[e] = "wait" =>
       result[e] # "none" \/ done \/ queue = e \/ (cur = e /\ Working)

LEMMA AttendedStep == ASSUME TypeOK, Permits, Attended, [Next]_vars PROVE Attended'
<1> USE SendersAssumption DEF Attended, Working, clients, pty, session, At
<1>0. /\ wpc \in [Writers -> {"select", "permit", "write", "poll", "fail", "quit", "over"}]
      /\ "control" \in Writers
      /\ send \in [Senders -> {"idle", "enqueue", "wait", "ok", "failed"}]
      /\ result \in [Senders -> {"none", "ok", "failed"}]
      /\ queue \in Senders \cup {None}
      /\ Working => cur \in Senders
  BY DEF TypeOK, Writers, Permits
<1>1. ASSUME NEW e \in Senders, Send(e) \/ Expire(e) \/ EnqueueStep(e) PROVE Attended'
  <2>1. UNCHANGED <<result, cur, wpc, done>> /\ \A f \in Senders \ {e} : send'[f] = send[f]
    BY <1>0, <1>1 DEF Send, Expire, EnqueueStep, Enqueue, NotEnqueued, GetResult, GetDone, Return
  <2>2. CASE Enqueue(e)
    BY <1>0, <2>1, <2>2 DEF Enqueue, Return
  <2>3. CASE ~Enqueue(e)
    <3>1. queue' = queue /\ (send'[e] = "wait" => send[e] = "wait")
      BY <1>0, <1>1, <2>3 DEF Send, Expire, EnqueueStep, NotEnqueued, GetResult, GetDone, Return
    <3> QED BY <2>1, <3>1
  <2> QED BY <2>2, <2>3
<1>2. ASSUME NEW w \in Writers, WriteStep(w) \/ PollReady(w) PROVE Attended'
  <2>1. UNCHANGED <<send, queue, done>>
    BY <1>2 DEF WriteStep, TakePermit, WriteSome, WouldBlock, WriteDone, WriteTimesOut,
      WriteFails, PollReady, Written
  <2>2. CASE w = "control"
    <3>1. cur \in Senders /\ wpc["control"] \in {"permit", "write", "poll"}
      BY <1>0, <1>2, <2>2 DEF WriteStep, TakePermit, WriteSome, WouldBlock, WriteDone,
        WriteTimesOut, WriteFails, PollReady
    <3>2. CASE cur' = cur /\ wpc'["control"] \in {"permit", "write", "poll"} /\ result' = result
      BY <1>0, <2>1, <3>1, <3>2
    <3>3. CASE \E answer \in {"ok", "failed"} : Written(w, answer)
      <4>1. PICK answer \in {"ok", "failed"} : Written("control", answer)
        BY <2>2, <3>3
      <4>2. result'[cur] = answer /\ \A f \in Senders \ {cur} : result'[f] = result[f]
        BY <1>0, <3>1, <4>1 DEF Written
      <4>3. wpc'["control"] \in {"fail", "select"}
        BY <1>0, <4>1 DEF Written
      <4> QED BY <1>0, <2>1, <3>1, <4>1, <4>2, <4>3
    <3> QED
      BY <1>0, <1>2, <2>2, <3>2, <3>3 DEF WriteStep, TakePermit, WriteSome, WouldBlock,
        WriteDone, WriteTimesOut, WriteFails, PollReady
  <2>3. CASE w # "control"
    <3>1. UNCHANGED <<result, cur>> /\ wpc'["control"] = wpc["control"]
      BY <1>0, <1>2, <2>3 DEF WriteStep, TakePermit, WriteSome, WouldBlock, WriteDone,
        WriteTimesOut, WriteFails, PollReady, Written
    <3> QED BY <2>1, <3>1
  <2> QED BY <2>2, <2>3
<1>3. CASE RunStep
  BY <1>0, <1>3 DEF RunStep, Take, TakeLate, RecordError, Quit, SeeCancel
<1>4. CASE ReadStdin \/ StdinOver \/ Interrupt \/ AgentEnds \/ RelayEnds
  <2>1. wpc'["control"] = wpc["control"] /\ UNCHANGED <<send, result, queue, cur, done>>
    BY <1>0, <1>4 DEF ReadStdin, StdinOver, Interrupt, AgentEnds, RelayEnds
  <2> QED BY <2>1
<1>5. CASE UNCHANGED vars
  BY <1>5 DEF vars
<1> QED BY <1>1, <1>2, <1>3, <1>4, <1>5 DEF Next

\* EnqueueTimeout waits for its result without a timer: run() has it, or has closed
\* done, whatever pastes, full ptys, deadlines and cancellations have come to.
THEOREM NoneStranded == Spec => []NobodyStranded
<1>1. Init => Attended
  BY DEF Init, Attended, Writers
<1>2. IInv /\ Attended /\ [Next]_vars => Attended'
  BY AttendedStep DEF IInv
<1>3. IInv /\ Attended => NobodyStranded
  <2> SUFFICES ASSUME IInv, Attended, NEW e \in Senders, send[e] = "wait", result[e] = "none", ~done
               PROVE  /\ queue = e \/ (cur = e /\ Working)
                      /\ RunMoves \/ (Working /\ ~late[cur])
    BY DEF NobodyStranded
  <2>1. wpc["control"] \in {"select", "permit", "write", "poll", "fail", "quit"}
    BY DEF IInv, TypeOK, Writers, Attended
  <2>2. queue = e \/ (cur = e /\ Working)
    BY DEF Attended
  <2>3. queue = e => queue # None
    BY SendersAssumption
  <2> QED BY <2>1, <2>2, <2>3 DEF RunMoves, Working
<1> QED BY <1>1, <1>2, <1>3, Invariant, PTL DEF Spec
================================================================================
