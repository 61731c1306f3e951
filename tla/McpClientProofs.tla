-------------------------- MODULE McpClientProofs --------------------------
(***************************************************************************)
(* Proofs about the MCP client, for every set of callers and every number  *)
(* of requests, processes and unread lines.                                *)
(***************************************************************************)
EXTENDS McpClient, TLAPS

(* Requests are numbered from 1; 0 stands for none *)
LEMMA RequestsAreNumbers ==
    Requests \subseteq Nat /\ Requests \subseteq 0..MaxRequests /\ 0..MaxRequests \subseteq Nat
BY BoundsAssumption DEF Requests

(* A line that is added comes last, after those already there *)
LEMMA AppendedFrame ==
    ASSUME NEW frames \in Seq(Frames), NEW frame \in Frames
    PROVE  /\ Append(frames, frame) \in Seq(Frames)
           /\ \A i \in 1..Len(Append(frames, frame)) :
                \/ Append(frames, frame)[i] = frame
                \/ i \in 1..Len(frames) /\ Append(frames, frame)[i] = frames[i]
<1>1. Append(frames, frame) \in Seq(Frames) /\ Len(Append(frames, frame)) = Len(frames) + 1
      /\ Len(frames) \in Nat
  OBVIOUS
<1>2. ASSUME NEW i \in 1..Len(Append(frames, frame)), i # Len(frames) + 1
      PROVE  i \in 1..Len(frames) /\ Append(frames, frame)[i] = frames[i]
  BY <1>1, <1>2
<1>3. Append(frames, frame)[Len(frames) + 1] = frame
  BY <1>1
<1> QED BY <1>1, <1>2, <1>3

(* The client starts with nothing pending *)
LEMMA InitClientInv == Init => ClientInv
<1> SUFFICES ASSUME Init PROVE ClientInv
  OBVIOUS
<1>1. TypeOK
  BY BoundsAssumption DEF Init, TypeOK
<1>2. Numbering /\ Honesty
  BY DEF Init, Numbering, Honesty, Answers, Requests
<1>3. OwnAnswer /\ OpenIsRegistered
  BY DEF Init, OwnAnswer, OpenIsRegistered, Answers
<1> QED BY <1>1, <1>2, <1>3 DEF ClientInv

(* A new request takes the next number, which nothing refers to yet. *)
LEMMA RegisterInv ==
    ASSUME ClientInv, NEW c \in Callers, FailToSerialize(c) \/ WriteRequest(c)
    PROVE  ClientInv'
<1> DEFINE n == request_id + 1
<1>1. /\ n \in Requests /\ request_id' = n
      /\ pending' = pending \cup {n} /\ future' = [future EXCEPT ![n] = "open"]
      /\ caller[c] = 0
      /\ UNCHANGED <<process, starts, reader, stopping, answer, stdout>>
  BY BoundsAssumption DEF ClientInv, TypeOK, FailToSerialize, WriteRequest, Register, Requests, served
<1>2. \/ /\ outcome' = [outcome EXCEPT ![n] = "raised"]
         /\ UNCHANGED <<caller, draining, unanswered>>
      \/ /\ caller' = [caller EXCEPT ![c] = n] /\ draining' = draining \cup {c}
         /\ unanswered' \in {unanswered, unanswered \cup {n}} /\ UNCHANGED outcome
  BY <1>1 DEF FailToSerialize, WriteRequest, Register, served
<1>3. /\ n > request_id /\ future[n] = "none" /\ outcome[n] = "none" /\ answer[n] = "none"
      /\ n \notin unanswered
  BY <1>1 DEF ClientInv, TypeOK, Numbering
<1> HIDE DEF n
<1>4. TypeOK'
  <2>1. request_id' \in 0..MaxRequests /\ pending' \subseteq Requests /\ unanswered' \subseteq Requests
    BY <1>1, <1>2, RequestsAreNumbers DEF ClientInv, TypeOK
  <2>2. /\ future' \in [Requests -> Answers \cup {"none", "open", "failed", "cancelled"}]
        /\ outcome' \in [Requests -> Answers \cup {"none", "raised", "cancelled"}]
    BY <1>1, <1>2 DEF ClientInv, TypeOK
  <2>3. caller' \in [Callers -> 0..MaxRequests] /\ draining' \subseteq Callers
    BY <1>1, <1>2, RequestsAreNumbers DEF ClientInv, TypeOK
  <2> QED BY <1>1, <2>1, <2>2, <2>3 DEF ClientInv, TypeOK
<1>5. Numbering'
  <2>1. pending' \cup unanswered' \subseteq 1..request_id'
    <3>1. request_id \in Nat /\ pending \cup unanswered \subseteq 1..request_id
      BY RequestsAreNumbers DEF ClientInv, TypeOK, Numbering
    <3> QED BY <1>1, <1>2, <3>1 DEF n
  <2>2. \A r \in Requests : r > request_id' =>
          future'[r] = "none" /\ outcome'[r] = "none" /\ answer'[r] = "none"
    <3> SUFFICES ASSUME NEW r \in Requests, r > request_id'
                 PROVE  future'[r] = "none" /\ outcome'[r] = "none" /\ answer'[r] = "none"
      OBVIOUS
    <3>1. r > request_id /\ r # n
      BY <1>1, RequestsAreNumbers DEF ClientInv, TypeOK, n
    <3>2. future[r] = "none" /\ outcome[r] = "none" /\ answer[r] = "none"
      BY <3>1 DEF ClientInv, Numbering
    <3> QED BY <1>1, <1>2, <3>1, <3>2 DEF ClientInv, TypeOK
  <2>3. \A d \in Callers : caller'[d] <= request_id'
    BY <1>1, <1>2 DEF ClientInv, TypeOK, Numbering, n
  <2>4. \A d, e \in Callers : caller'[d] = caller'[e] /\ caller'[d] # 0 => d = e
    BY <1>1, <1>2, <1>3 DEF ClientInv, TypeOK, Numbering
  <2>5. \A d \in Callers : caller'[d] # 0 => outcome'[caller'[d]] = "none"
    <3>1. \A d \in Callers : caller[d] # n /\ (caller[d] # 0 => caller[d] \in Requests)
      BY <1>3, RequestsAreNumbers, BoundsAssumption DEF ClientInv, TypeOK, Numbering, Requests
    <3> QED BY <1>1, <1>2, <1>3, <3>1 DEF ClientInv, TypeOK, Numbering
  <2>6. \A d \in draining' : caller'[d] # 0
    BY <1>1, <1>2 DEF ClientInv, TypeOK, Numbering, Requests
  <2> QED BY <2>1, <2>2, <2>3, <2>4, <2>5, <2>6 DEF Numbering
<1>6. Honesty'
  BY <1>1, <1>2, <1>3 DEF ClientInv, TypeOK, Honesty, Answers
<1>7. OwnAnswer' /\ OpenIsRegistered'
  BY <1>1, <1>2, <1>3 DEF ClientInv, TypeOK, OwnAnswer, OpenIsRegistered, Answers
<1> QED BY <1>4, <1>5, <1>6, <1>7 DEF ClientInv

(* A caller that ends gives back its number; what it returns is its answer. *)
LEMMA EndInv ==
    ASSUME ClientInv, NEW c \in Callers, NEW how \in Answers \cup {"raised", "cancelled"},
           caller[c] # 0, End(c, how), how \in Answers => how = answer[caller[c]],
           future' = future \/ future' = [future EXCEPT ![caller[c]] = "cancelled"],
           UNCHANGED <<process, starts, reader, stopping, request_id, pending, served>>
    PROVE  ClientInv'
<1>1. /\ caller' = [caller EXCEPT ![c] = 0] /\ draining' = draining \ {c}
      /\ outcome' = [outcome EXCEPT ![caller[c]] = how]
      /\ caller[c] \in Requests
      /\ UNCHANGED <<unanswered, answer, stdout>>
  BY BoundsAssumption DEF End, ClientInv, TypeOK, Requests, served
<1>2. TypeOK'
  <2>1. caller' \in [Callers -> 0..MaxRequests] /\ draining' \subseteq Callers
    BY <1>1, BoundsAssumption DEF ClientInv, TypeOK
  <2>2. /\ outcome' \in [Requests -> Answers \cup {"none", "raised", "cancelled"}]
        /\ future' \in [Requests -> Answers \cup {"none", "open", "failed", "cancelled"}]
    BY <1>1 DEF ClientInv, TypeOK
  <2> QED BY <1>1, <2>1, <2>2 DEF ClientInv, TypeOK
<1>3. Numbering'
  <2>1. \A d \in Callers \ {c} : caller[d] # 0 => caller[d] # caller[c]
    BY DEF ClientInv, Numbering
  <2>2. /\ pending' \cup unanswered' \subseteq 1..request_id'
        /\ \A d \in Callers : caller'[d] <= request_id'
        /\ \A d, e \in Callers : caller'[d] = caller'[e] /\ caller'[d] # 0 => d = e
        /\ \A d \in draining' : caller'[d] # 0
    BY <1>1 DEF ClientInv, TypeOK, Numbering
  <2>3. \A r \in Requests : r > request_id' =>
          future'[r] = "none" /\ outcome'[r] = "none" /\ answer'[r] = "none"
    <3>1. \A r \in Requests : r > request_id => r # caller[c]
      BY <1>1, RequestsAreNumbers DEF ClientInv, TypeOK, Numbering
    <3> QED BY <1>1, <3>1 DEF ClientInv, TypeOK, Numbering
  <2>4. \A d \in Callers : caller'[d] # 0 => outcome'[caller'[d]] = "none"
    BY <1>1, <2>1 DEF ClientInv, TypeOK, Numbering, Requests
  <2> QED BY <2>2, <2>3, <2>4 DEF Numbering
<1>4. Honesty' /\ OwnAnswer' /\ OpenIsRegistered'
  BY <1>1 DEF ClientInv, TypeOK, Honesty, OwnAnswer, OpenIsRegistered, Answers
<1> QED BY <1>2, <1>3, <1>4 DEF ClientInv

(* Whatever a caller does preserves the invariant (client.py:55-95) *)
LEMMA CallerInv ==
    ASSUME ClientInv, NEW c \in Callers, Caller(c)
    PROVE  ClientInv'
<1>1. CASE FailToSerialize(c) \/ WriteRequest(c)
  BY <1>1, RegisterInv
<1>2. CASE Drain(c)
  BY <1>2 DEF Drain, client, served, ClientInv, TypeOK, Numbering, Honesty, OwnAnswer, OpenIsRegistered
<1>3. CASE BreakPipe(c)
  <2>1. caller[c] # 0 /\ End(c, "raised") /\ future' = future
        /\ UNCHANGED <<process, starts, reader, stopping, request_id, pending, served>>
    BY <1>3 DEF BreakPipe, client, ClientInv, Numbering
  <2> QED BY <2>1, EndInv DEF Answers
<1>4. CASE Return(c)
  <2> DEFINE how == IF future[caller[c]] = "failed" THEN "raised" ELSE future[caller[c]]
  <2>1. caller[c] # 0 /\ End(c, how) /\ future' = future
        /\ UNCHANGED <<process, starts, reader, stopping, request_id, pending, served>>
    BY <1>4 DEF Return, client
  <2>2. caller[c] \in Requests
    BY <2>1, BoundsAssumption DEF ClientInv, TypeOK, Requests
  <2>3. how \in Answers \cup {"raised"} /\ (how \in Answers => how = answer[caller[c]])
    BY <1>4, <2>2 DEF Return, ClientInv, Honesty, Answers
  <2> HIDE DEF how
  <2> QED BY <2>1, <2>3, EndInv
<1>5. CASE Abandon(c)
  <2>1. /\ caller[c] # 0 /\ End(c, "cancelled")
        /\ future' = future \/ future' = [future EXCEPT ![caller[c]] = "cancelled"]
        /\ UNCHANGED <<process, starts, reader, stopping, request_id, pending, served>>
    BY <1>5 DEF Abandon
  <2> QED BY <2>1, EndInv DEF Answers
<1> QED BY <1>1, <1>2, <1>3, <1>4, <1>5 DEF Caller

(* The reader takes a line off the pipe and resolves what it names (client.py:30-53) *)
LEMMA ReaderInv ==
    ASSUME ClientInv, Read \/ ReaderFails
    PROVE  ClientInv'
<1> DEFINE frame == Head(stdout)
<1>1. /\ stdout # <<>> /\ stdout \in Seq(Frames) /\ stdout' = Tail(stdout)
      /\ UNCHANGED <<process, starts, stopping, request_id, caller, draining, outcome,
                     unanswered, answer>>
  BY DEF Read, ReaderFails, Reads, waits, ClientInv, TypeOK
<1>2. frame \in Frames /\ frame = stdout[1] /\ Len(stdout) \in Nat /\ 1 <= Len(stdout)
  BY <1>1
<1>3. /\ stdout' \in Seq(Frames)
      /\ \A i \in 1..Len(stdout') : i + 1 \in 1..Len(stdout) /\ stdout'[i] = stdout[i + 1]
  BY <1>1
<1>4. /\ pending' \subseteq pending
      /\ future' \in [Requests -> Answers \cup {"none", "open", "failed", "cancelled"}]
      /\ \A r \in Requests : \/ future'[r] = future[r] /\ (r \in pending => r \in pending' \/ future[r] # "open")
                             \/ future[r] = "open" /\ future'[r] = "failed"
                             \/ /\ future[r] = "open" /\ future'[r] \in Answers
                                /\ future'[r] = answer[r]
  <2>1. CASE Read
    <3>1. CASE frame.id \in pending
      <4>1. /\ pending' = pending \ {frame.id} /\ frame.id \in Requests
            /\ future' = IF future[frame.id] = "open"
                         THEN [future EXCEPT ![frame.id] = frame.says] ELSE future
        BY <2>1, <3>1 DEF Read, Resolved, ClientInv, TypeOK
      <4>2. frame.says \in Answers
        BY <1>2, <4>1, BoundsAssumption DEF Frames, Requests
      <4>3. frame.says = answer[frame.id]
        BY <1>2, <4>1, BoundsAssumption DEF ClientInv, Honesty, Requests
      <4> HIDE DEF frame
      <4> QED BY <4>1, <4>2, <4>3 DEF ClientInv, TypeOK, Answers
    <3>2. CASE frame.id \notin pending
      BY <2>1, <3>2 DEF Read, Resolved, ClientInv, TypeOK
    <3> QED BY <3>1, <3>2
  <2>2. CASE ReaderFails
    BY <2>2 DEF ReaderFails, ClientInv, TypeOK
  <2> QED BY <2>1, <2>2
<1> HIDE DEF frame
<1>5. TypeOK'
  <2>1. reader' \in {"none", "reading", "failed", "eof", "cancelled"}
    BY DEF Read, ReaderFails, ClientInv, TypeOK
  <2> QED BY <1>1, <1>3, <1>4, <2>1 DEF ClientInv, TypeOK
<1>6. Numbering'
  <2>1. \A r \in Requests : r > request_id' => future'[r] = "none"
    BY <1>1, <1>4 DEF ClientInv, Numbering
  <2> QED BY <1>1, <1>4, <2>1 DEF ClientInv, Numbering
<1>7. Honesty'
  <2>1. \A i \in 1..Len(stdout') : stdout'[i].id # 0 => answer'[stdout'[i].id] = stdout'[i].says
    BY <1>1, <1>3 DEF ClientInv, Honesty
  <2>2. \A r \in Requests : future'[r] \in Answers => future'[r] = answer'[r]
    BY <1>1, <1>4 DEF ClientInv, Honesty, Answers
  <2> QED BY <1>1, <2>1, <2>2 DEF ClientInv, Honesty
<1>8. OwnAnswer' /\ OpenIsRegistered'
  BY <1>1, <1>4 DEF ClientInv, OwnAnswer, OpenIsRegistered, Answers
<1> QED BY <1>5, <1>6, <1>7, <1>8 DEF ClientInv

(* The server answers each request at most once *)
LEMMA ServerInv ==
    ASSUME ClientInv, Server
    PROVE  ClientInv'
<1>1. ASSUME NEW r \in Requests, NEW says \in Answers, Reply(r, says) PROVE ClientInv'
  <2> DEFINE frame == [id |-> r, says |-> says]
  <2>1. /\ r \in unanswered /\ unanswered' = unanswered \ {r}
        /\ answer' = [answer EXCEPT ![r] = says] /\ stdout' = Append(stdout, frame)
        /\ UNCHANGED <<process, starts, reader, stopping, client, waits>>
    BY <1>1 DEF Reply, Say
  <2>2. answer[r] = "none" /\ r <= request_id
    BY <2>1 DEF ClientInv, TypeOK, Honesty, Numbering, Requests
  <2>3. frame \in Frames /\ frame.id = r /\ frame.says = says /\ stdout \in Seq(Frames)
    BY DEF Frames, ClientInv, TypeOK
  <2> HIDE DEF frame
  <2>4. /\ stdout' \in Seq(Frames)
        /\ \A i \in 1..Len(stdout') :
             stdout'[i] = frame \/ (i \in 1..Len(stdout) /\ stdout'[i] = stdout[i])
    <3> DEFINE longer == Append(stdout, frame)
    <3>1. /\ longer \in Seq(Frames)
          /\ \A i \in 1..Len(longer) :
             longer[i] = frame \/ (i \in 1..Len(stdout) /\ longer[i] = stdout[i])
      BY <2>3, AppendedFrame
    <3>2. stdout' = longer
      BY <2>1
    <3> HIDE DEF longer
    <3> QED BY <3>1, <3>2
  <2>5. TypeOK'
    BY <2>1, <2>4 DEF ClientInv, TypeOK, client, waits
  <2>6. Numbering'
    BY <2>1, <2>2 DEF ClientInv, TypeOK, Numbering, client, waits, Requests
  <2>7. Honesty'
    <3>1. \A q \in Requests : answer[q] # "none" => answer'[q] = answer[q]
      BY <2>1, <2>2 DEF ClientInv, TypeOK
    <3>2. \A i \in 1..Len(stdout') : stdout'[i].id # 0 => answer'[stdout'[i].id] = stdout'[i].says
      <4> SUFFICES ASSUME NEW i \in 1..Len(stdout'), stdout'[i].id # 0
                   PROVE  answer'[stdout'[i].id] = stdout'[i].says
        OBVIOUS
      <4>1. CASE stdout'[i] = frame
        BY <2>1, <2>3, <4>1 DEF ClientInv, TypeOK
      <4>2. CASE i \in 1..Len(stdout) /\ stdout'[i] = stdout[i]
        <5>1. stdout[i] \in Frames
          BY <2>3, <4>2
        <5>2. stdout[i].id \in Requests /\ stdout[i].says \in Answers
          BY <4>2, <5>1 DEF Frames
        <5>3. answer[stdout[i].id] = stdout[i].says
          BY <4>2 DEF ClientInv, Honesty
        <5> QED BY <3>1, <4>2, <5>2, <5>3 DEF Answers
      <4> QED BY <2>4, <4>1, <4>2
    <3>3. \A q \in Requests : future'[q] \in Answers => future'[q] = answer'[q]
      BY <2>1, <3>1 DEF ClientInv, Honesty, client, Answers
    <3> QED BY <2>1, <3>2, <3>3 DEF ClientInv, TypeOK, Honesty
  <2>8. OwnAnswer' /\ OpenIsRegistered'
    BY <2>1, <2>2 DEF ClientInv, TypeOK, OwnAnswer, OpenIsRegistered, client, waits, Answers
  <2> QED BY <2>5, <2>6, <2>7, <2>8 DEF ClientInv
<1>2. ASSUME NEW says \in {"else", "garbage"}, Chatter(says) PROVE ClientInv'
  <2> DEFINE frame == [id |-> 0, says |-> says]
  <2>1. /\ stdout' = Append(stdout, frame)
        /\ UNCHANGED <<process, starts, reader, stopping, client, waits, unanswered, answer>>
    BY <1>2 DEF Chatter, Say
  <2>2. frame \in Frames /\ frame.id = 0 /\ stdout \in Seq(Frames)
    BY DEF Frames, ClientInv, TypeOK
  <2> HIDE DEF frame
  <2>3. /\ stdout' \in Seq(Frames)
        /\ \A i \in 1..Len(stdout') :
             stdout'[i] = frame \/ (i \in 1..Len(stdout) /\ stdout'[i] = stdout[i])
    <3> DEFINE longer == Append(stdout, frame)
    <3>1. /\ longer \in Seq(Frames)
          /\ \A i \in 1..Len(longer) :
             longer[i] = frame \/ (i \in 1..Len(stdout) /\ longer[i] = stdout[i])
      BY <2>2, AppendedFrame
    <3>2. stdout' = longer
      BY <2>1
    <3> HIDE DEF longer
    <3> QED BY <3>1, <3>2
  <2>4. \A i \in 1..Len(stdout') : stdout'[i].id # 0 => answer[stdout'[i].id] = stdout'[i].says
    BY <2>2, <2>3 DEF ClientInv, Honesty
  <2> QED BY <2>1, <2>3, <2>4 DEF ClientInv, TypeOK, Numbering, Honesty, OwnAnswer, OpenIsRegistered,
                                  client, waits
<1>3. CASE Exit
  BY <1>3 DEF Exit, client, waits, served, ClientInv, TypeOK, Numbering, Honesty, OwnAnswer,
              OpenIsRegistered
<1> QED BY <1>1, <1>2, <1>3 DEF Server

(* Every step preserves the invariant *)
LEMMA NextClientInv == ClientInv /\ [Next]_vars => ClientInv'
<1> SUFFICES ASSUME ClientInv, [Next]_vars PROVE ClientInv'
  OBVIOUS
<1>1. CASE Start
  <2>1. starts' \in 0..MaxStarts /\ stdout' = <<>> /\ Len(stdout') = 0
    BY <1>1, BoundsAssumption DEF Start, ClientInv, TypeOK
  <2> QED BY <1>1, <2>1 DEF Start, client, waits, ClientInv, TypeOK, Numbering, Honesty, OwnAnswer,
                            OpenIsRegistered
<1>2. CASE Stop \/ Stopped \/ ReadEof \/ ReaderCancelled \/ UNCHANGED vars
  <2>1. UNCHANGED <<starts, client, waits, served>> /\ process' = process
    BY <1>2 DEF Stop, Stopped, ReadEof, ReaderCancelled, vars
  <2>2. /\ reader' \in {"none", "reading", "failed", "eof", "cancelled"}
        /\ stopping' \in {"no", "cancelling", "terminating"}
    BY <1>2 DEF Stop, Stopped, ReadEof, ReaderCancelled, vars, ClientInv, TypeOK
  <2> QED BY <2>1, <2>2 DEF client, waits, served, ClientInv, TypeOK, Numbering, Honesty, OwnAnswer,
                            OpenIsRegistered
<1>3. CASE Read \/ ReaderFails
  BY <1>3, ReaderInv
<1>4. CASE Server
  BY <1>4, ServerInv
<1>5. ASSUME NEW c \in Callers, Caller(c) PROVE ClientInv'
  BY <1>5, CallerInv
<1> QED BY <1>1, <1>2, <1>3, <1>4, <1>5 DEF Next, Reader
-----------------------------------------------------------------------------
(* The inductive invariant of the client and its server (client.py:18-110) *)
THEOREM ClientInvariance == Spec => []ClientInv
BY InitClientInv, NextClientInv, PTL DEF Spec

(* The client's and the server's state keep their types *)
THEOREM ClientTypes == Spec => []TypeOK
<1>1. ClientInv => TypeOK
  BY DEF ClientInv
<1> QED BY <1>1, ClientInvariance, PTL

(* A call returns what the server answered to its own request, in whichever *)
(* order the answers come (client.py:39-46, 60-61, 80).                     *)
THEOREM AnswersAreOwn == Spec => []OwnAnswer
<1>1. ClientInv => OwnAnswer
  BY DEF ClientInv
<1> QED BY <1>1, ClientInvariance, PTL

(* The reader, also that of a later process, finds every future somebody    *)
(* may wait for (client.py:43, 71-72).                                      *)
THEOREM WaitersAreFound == Spec => []OpenIsRegistered
<1>1. ClientInv => OpenIsRegistered
  BY DEF ClientInv
<1> QED BY <1>1, ClientInvariance, PTL

(* No future is resolved twice (client.py:45, 52) *)
THEOREM FuturesAreFinal == Spec => FuturesSettleOnce
<1>1. ClientInv /\ [Next]_vars =>
        [\A r \in Requests : future[r] \notin {"none", "open"} => future'[r] = future[r]]_vars
  <2> SUFFICES ASSUME ClientInv, Next, NEW r \in Requests, future[r] \notin {"none", "open"}
               PROVE  future'[r] = future[r]
    OBVIOUS
  <2>1. CASE Start \/ Stop \/ Stopped \/ ReadEof \/ ReaderCancelled \/ Server
    BY <2>1 DEF Start, Stop, Stopped, ReadEof, ReaderCancelled, Server, Reply, Chatter, Exit, client
  <2>2. CASE Read \/ ReaderFails
    BY <2>2 DEF Read, Resolved, ReaderFails, ClientInv, TypeOK
  <2>3. ASSUME NEW c \in Callers, FailToSerialize(c) \/ WriteRequest(c)
        PROVE  future'[r] = future[r]
    <3>1. future[r] = "none" \/ r # request_id + 1
      BY DEF ClientInv, TypeOK, Numbering
    <3> QED BY <2>3, <3>1 DEF FailToSerialize, WriteRequest, Register, ClientInv, TypeOK
  <2>4. ASSUME NEW c \in Callers, Drain(c) \/ BreakPipe(c) \/ Return(c) \/ Abandon(c)
        PROVE  future'[r] = future[r]
    BY <2>4 DEF Drain, BreakPipe, Return, Abandon, client, ClientInv, TypeOK
  <2> QED BY <2>1, <2>2, <2>3, <2>4 DEF Next, Reader, Caller
<1> QED BY <1>1, ClientInvariance, PTL DEF Spec, FuturesSettleOnce
-----------------------------------------------------------------------------
(* The refinement: every step is a step of RequestContract for one request, *)
(* the failure of all open ones, or none.  Beyond ClientInv it needs that   *)
(* every number that was given out has a future.                            *)
Registered == \A r \in Requests : r <= request_id => future[r] # "none"

LEMMA NextRegistered == ClientInv /\ Registered /\ [Next]_vars => Registered'
<1> SUFFICES ASSUME ClientInv, Registered, [Next]_vars, NEW r \in Requests, r <= request_id'
             PROVE  future'[r] # "none"
  BY DEF Registered
<1>0. request_id \in Nat /\ r \in Nat
      /\ future \in [Requests -> Answers \cup {"none", "open", "failed", "cancelled"}]
  BY RequestsAreNumbers DEF ClientInv, TypeOK
<1>1. ASSUME UNCHANGED <<request_id, future>> PROVE future'[r] # "none"
  BY <1>1 DEF Registered
<1>2. CASE Start \/ Stop \/ Stopped \/ ReadEof \/ ReaderCancelled \/ Server \/ UNCHANGED vars
  BY <1>1, <1>2 DEF Start, Stop, Stopped, ReadEof, ReaderCancelled, Server, Reply, Chatter, Exit,
                    client, vars
<1>3. CASE Read \/ ReaderFails
  <2>1. request_id' = request_id /\ future[r] # "none"
    BY <1>3 DEF Read, ReaderFails, Registered, waits
  <2>2. CASE Read
    <3>1. Head(stdout).says # "none" \/ future' = future
      BY <2>2 DEF Read, Reads, Resolved, ClientInv, TypeOK, Frames, Answers
    <3> QED BY <1>0, <2>1, <2>2, <3>1 DEF Read, Resolved
  <2>3. CASE ReaderFails
    BY <2>1, <2>3 DEF ReaderFails
  <2> QED BY <1>3, <2>2, <2>3
<1>4. ASSUME NEW c \in Callers, FailToSerialize(c) \/ WriteRequest(c) PROVE future'[r] # "none"
  <2>1. request_id' = request_id + 1 /\ future' = [future EXCEPT ![request_id'] = "open"]
    BY <1>4 DEF FailToSerialize, WriteRequest, Register
  <2>2. r = request_id' \/ r <= request_id
    BY <1>0, <2>1
  <2> QED BY <1>0, <2>1, <2>2 DEF Registered
<1>5. ASSUME NEW c \in Callers, Drain(c) \/ BreakPipe(c) \/ Return(c) \/ Abandon(c)
      PROVE  future'[r] # "none"
  BY <1>0, <1>1, <1>5 DEF Drain, BreakPipe, Return, Abandon, client, Registered
<1> QED BY <1>2, <1>3, <1>4, <1>5 DEF Next, Reader, Caller

LEMMA SameRequests ==
    /\ Contract!Requests = Requests /\ Contract!Answers = Answers
    /\ Contract!Nothing = [r \in Requests |-> "none"]
BY DEF Contract!Requests, Requests, Contract!Answers, Answers, Contract!Nothing

(* What a caller does to its request (client.py:55-95) *)
LEMMA CallerKeepsContract ==
    ASSUME ClientInv, Registered, NEW c \in Callers, Caller(c)
    PROVE  Contract!Next \/ UNCHANGED <<answer, future, outcome>>
<1>1. ASSUME FailToSerialize(c) \/ WriteRequest(c) PROVE Contract!Next
  <2> DEFINE r == request_id + 1
  <2>1. /\ r \in Requests /\ future' = [future EXCEPT ![r] = "open"] /\ answer' = answer
        /\ outcome' \in {outcome, [outcome EXCEPT ![r] = "raised"]}
    BY <1>1, BoundsAssumption DEF ClientInv, TypeOK, FailToSerialize, WriteRequest, Register, Requests,
                                  served
  <2>2. future[r] = "none"
    BY <2>1 DEF ClientInv, TypeOK, Numbering
  <2>3. \A q \in 1..(r - 1) : future[q] # "none"
    BY <2>1, BoundsAssumption DEF ClientInv, TypeOK, Registered, Requests
  <2>4. Contract!Make(r)
    BY <2>1, <2>2, <2>3 DEF Contract!Make
  <2> HIDE DEF r
  <2> QED BY <2>1, <2>4, SameRequests DEF Contract!Next
<1>2. CASE Drain(c)
  BY <1>2 DEF Drain, client, served
<1>3. ASSUME caller[c] # 0
      PROVE  /\ caller[c] \in Requests /\ future[caller[c]] # "none"
             /\ outcome[caller[c]] = "none"
  <2>1. caller[c] \in Requests /\ caller[c] <= request_id
    BY <1>3, BoundsAssumption DEF ClientInv, TypeOK, Numbering, Requests
  <2> QED BY <1>3, <2>1 DEF ClientInv, Numbering, Registered
<1>4. ASSUME NEW how \in Answers \cup {"raised"}, caller[c] # 0, End(c, how),
             how \in Answers => future[caller[c]] = how, UNCHANGED <<answer, future>>
      PROVE  Contract!Next
  <2>1. Contract!Tell(caller[c], how)
    BY <1>3, <1>4, SameRequests DEF End, Contract!Tell
  <2> QED BY <1>3, <1>4, <2>1, SameRequests DEF Contract!Next
<1>5. CASE BreakPipe(c)
  <2>1. caller[c] # 0 /\ End(c, "raised") /\ UNCHANGED <<answer, future>>
    BY <1>5 DEF BreakPipe, client, served, ClientInv, Numbering
  <2> QED BY <1>4, <2>1 DEF Answers
<1>6. CASE Return(c)
  <2> DEFINE how == IF future[caller[c]] = "failed" THEN "raised" ELSE future[caller[c]]
  <2>1. /\ caller[c] # 0 /\ End(c, how) /\ UNCHANGED <<answer, future>>
        /\ how \in Answers \cup {"raised"} /\ (how \in Answers => future[caller[c]] = how)
    BY <1>6 DEF Return, client, served, Answers
  <2> HIDE DEF how
  <2> QED BY <1>4, <2>1
<1>7. CASE Abandon(c)
  <2>1. Contract!GiveUp(caller[c])
    BY <1>3, <1>7 DEF Abandon, End, Contract!GiveUp, served
  <2>2. caller[c] \in Requests
    BY <1>3, <1>7 DEF Abandon
  <2> QED BY <2>1, <2>2, SameRequests DEF Contract!Next
<1> QED BY <1>1, <1>2, <1>5, <1>6, <1>7 DEF Caller

(* What the reader decides (client.py:33-53) *)
LEMMA ReaderKeepsContract ==
    ASSUME ClientInv, Read \/ ReaderFails
    PROVE  Contract!Next \/ UNCHANGED <<answer, future, outcome>>
<1>1. UNCHANGED <<answer, outcome>> /\ stdout # <<>> /\ stdout \in Seq(Frames)
  BY DEF Read, ReaderFails, Reads, waits, ClientInv, TypeOK
<1>2. CASE Read
  <2> DEFINE r == Head(stdout).id
  <2>1. CASE r \in pending /\ future[r] = "open"
    <3>1. r \in Requests /\ future' = [future EXCEPT ![r] = Head(stdout).says]
      BY <1>2, <2>1 DEF Read, Resolved, ClientInv, TypeOK
    <3>2. Head(stdout) = stdout[1] /\ 1 \in 1..Len(stdout) /\ stdout[1] \in Frames
      BY <1>1
    <3>3. Head(stdout).says \in Answers
      BY <3>1, <3>2, BoundsAssumption DEF Frames, Requests
    <3>4. Head(stdout).says = answer[r]
      BY <3>1, <3>2, BoundsAssumption DEF ClientInv, Honesty, Requests
    <3>5. Contract!Decide(r)
      BY <1>1, <2>1, <3>1, <3>3, <3>4 DEF Contract!Decide, Answers
    <3> HIDE DEF r
    <3> QED BY <3>1, <3>5, SameRequests DEF Contract!Next
  <2>2. CASE ~(r \in pending /\ future[r] = "open")
    BY <1>1, <1>2, <2>2 DEF Read, Resolved
  <2> QED BY <2>1, <2>2
<1>3. CASE ReaderFails
  <2>1. future' = [r \in Requests |-> IF future[r] = "open" THEN "failed" ELSE future[r]]
    BY <1>3 DEF ReaderFails, ClientInv, OpenIsRegistered
  <2> QED BY <1>1, <2>1, SameRequests DEF Contract!FailAll, Contract!Next
<1> QED BY <1>2, <1>3

LEMMA ContractStep ==
    ClientInv /\ Registered /\ [Next]_vars => [Contract!Next]_<<answer, future, outcome>>
<1> SUFFICES ASSUME ClientInv, Registered, [Next]_vars
             PROVE  Contract!Next \/ UNCHANGED <<answer, future, outcome>>
  OBVIOUS
<1>1. CASE Start \/ Stop \/ Stopped \/ ReadEof \/ ReaderCancelled \/ UNCHANGED vars
  BY <1>1 DEF Start, Stop, Stopped, ReadEof, ReaderCancelled, vars, client, waits, served
<1>2. CASE Read \/ ReaderFails
  BY <1>2, ReaderKeepsContract
<1>3. ASSUME NEW r \in Requests, NEW says \in Answers, Reply(r, says) PROVE Contract!Next
  <2>1. /\ r \in unanswered /\ answer' = [answer EXCEPT ![r] = says]
        /\ UNCHANGED <<future, outcome>>
    BY <1>3 DEF Reply, client, waits
  <2>2. answer[r] = "none" /\ future[r] # "none"
    BY <2>1, RequestsAreNumbers DEF ClientInv, TypeOK, Numbering, Honesty, Registered, Requests
  <2>3. Contract!Respond(r)
    BY <2>1, <2>2, SameRequests DEF Contract!Respond
  <2> QED BY <2>3, SameRequests DEF Contract!Next
<1>4. ASSUME NEW says \in {"else", "garbage"}, Chatter(says) PROVE UNCHANGED <<answer, future, outcome>>
  BY <1>4 DEF Chatter, client, waits
<1>5. CASE Exit
  BY <1>5 DEF Exit, client, waits, served
<1>6. ASSUME NEW c \in Callers, Caller(c)
      PROVE  Contract!Next \/ UNCHANGED <<answer, future, outcome>>
  BY <1>6, CallerKeepsContract
<1> QED BY <1>1, <1>2, <1>3, <1>4, <1>5, <1>6 DEF Next, Reader, Server

(* A request is decided once and its caller told once, what was decided for *)
(* this request, and a failure of the reader decides all that are open      *)
(* (client.py:39-53, 60-80).                                                *)
THEOREM ClientKeepsTheContract == Spec => ImplementsContract
<1>1. Init => Contract!Init /\ Registered
  BY RequestsAreNumbers, SameRequests DEF Init, Contract!Init, Registered, Requests
<1> QED BY <1>1, NextRegistered, ContractStep, ClientInvariance, PTL
        DEF Spec, ImplementsContract, Contract!Spec
=============================================================================
