------------------------------ MODULE McpClient ------------------------------
(***************************************************************************)
(* The stdio client of an MCP server                                       *)
(* (src/src/agent_runtime/mcp/client.py): callers write requests to a      *)
(* child process and wait, a reader task hands them the answers.           *)
(*                                                                         *)
(* A request is the number it is sent with.  An action of a caller, of the *)
(* reader or of stop() is what it does between two awaits.  The server and *)
(* the cancellation of a caller are external: the server answers in any    *)
(* order or never, says other things, and may exit at any time.            *)
(***************************************************************************)
EXTENDS Integers, Sequences

CONSTANTS
    Callers,       \* tasks that call tools
    MaxRequests,   \* bound: requests sent
    MaxStarts,     \* bound: server processes started
    MaxFrames      \* bound: lines of the server not yet read

ASSUME BoundsAssumption == MaxRequests \in Nat /\ MaxStarts \in Nat /\ MaxFrames \in Nat

Requests == 1..MaxRequests
Answers  == {"result", "error"}

(* A line of the server: an answer, a notification or an unknown identifier *)
(* (both without a request), or something that is not a JSON object         *)
Frames == [id : Requests, says : Answers] \cup [id : {0}, says : {"else", "garbage"}]

VARIABLES
    process, starts,           \* the child process, and how many there were
    reader,                    \* the task of _read_loop
    stopping,                  \* how far stop() is
    request_id, pending,       \* the last identifier, the keys of _pending_requests
    future,                    \* the future of each request
    caller, draining,          \* the request a caller waits for (0: none), and who drains
    outcome,                   \* what the call of a request returned or raised
    unanswered, answer, stdout \* the server: its requests, its answers, its output

client == <<request_id, pending, future>>
served == <<unanswered, answer, stdout>>
waits  == <<caller, draining, outcome>>
vars   == <<process, starts, reader, stopping, client, waits, served>>

Init ==
    /\ process = "none" /\ starts = 0
    /\ reader = "none"
    /\ stopping = "no"
    /\ request_id = 0 /\ pending = {}
    /\ future = [r \in Requests |-> "none"]
    /\ caller = [c \in Callers |-> 0] /\ draining = {}
    /\ outcome = [r \in Requests |-> "none"]
    /\ unanswered = {} /\ answer = [r \in Requests |-> "none"] /\ stdout = <<>>
-----------------------------------------------------------------------------
(* start: a new process and a new reader; what was pending stays pending *)
StartAfresh ==  \* mutant: what was pending is forgotten
    /\ process # "running" /\ stopping = "no" /\ reader # "reading"
    /\ starts < MaxStarts
    /\ starts' = starts + 1
    /\ process' = "running" /\ reader' = "reading"
    /\ unanswered' = {} /\ stdout' = <<>> /\ pending' = {}
    /\ UNCHANGED <<stopping, request_id, future, waits, answer>>

Start ==
    /\ process # "running" /\ stopping = "no" /\ reader # "reading"
    /\ starts < MaxStarts
    /\ starts' = starts + 1
    /\ process' = "running" /\ reader' = "reading"
    /\ unanswered' = {} /\ stdout' = <<>>
    /\ UNCHANGED <<stopping, client, waits, answer>>

(* _send_request: the request is numbered and its future registered; then  *)
(* it is serialised, which may fail, and written.  A caller that finds no  *)
(* process is refused, and nothing changes.                                *)
Register(c) ==
    /\ caller[c] = 0 /\ process # "none"
    /\ request_id < MaxRequests
    /\ request_id' = request_id + 1
    /\ pending' = pending \cup {request_id'}
    /\ future' = [future EXCEPT ![request_id'] = "open"]

FailToSerialize(c) ==
    /\ Register(c)
    /\ outcome' = [outcome EXCEPT ![request_id'] = "raised"]
    /\ UNCHANGED <<process, starts, reader, stopping, caller, draining, served>>

WriteRequest(c) ==
    /\ Register(c)
    /\ caller' = [caller EXCEPT ![c] = request_id']
    /\ draining' = draining \cup {c}
    /\ unanswered' = IF process = "running" THEN unanswered \cup {request_id'} ELSE unanswered
    /\ UNCHANGED <<process, starts, reader, stopping, outcome, answer, stdout>>

(* drain: the pipe takes the request, or turns out to be broken *)
Drain(c) ==
    /\ c \in draining
    /\ draining' = draining \ {c}
    /\ UNCHANGED <<process, starts, reader, stopping, client, caller, outcome, served>>

End(c, how) ==
    /\ caller' = [caller EXCEPT ![c] = 0]
    /\ draining' = draining \ {c}
    /\ outcome' = [outcome EXCEPT ![caller[c]] = how]

BreakPipe(c) ==
    /\ c \in draining /\ process = "exited"
    /\ End(c, "raised")
    /\ UNCHANGED <<process, starts, reader, stopping, client, served>>

(* The future is done: list_tools and call_tool return its result, and     *)
(* raise its exception or the server's error                               *)
Return(c) ==
    /\ caller[c] # 0 /\ c \notin draining
    /\ future[caller[c]] \in Answers \cup {"failed"}
    /\ End(c, IF future[caller[c]] = "failed" THEN "raised" ELSE future[caller[c]])
    /\ UNCHANGED <<process, starts, reader, stopping, client, served>>

(* A caller is cancelled, by a timeout of its own say, and its future with it *)
Abandon(c) ==
    /\ caller[c] # 0
    /\ End(c, "cancelled")
    /\ future' = IF c \notin draining /\ future[caller[c]] = "open"
                 THEN [future EXCEPT ![caller[c]] = "cancelled"] ELSE future
    /\ UNCHANGED <<process, starts, reader, stopping, request_id, pending, served>>
-----------------------------------------------------------------------------
(* _read_loop *)
Reads == reader = "reading" /\ stopping # "cancelling" /\ stdout # <<>>

ResolvedInOrder(frame) ==  \* mutant: answers are taken to come in the order of the requests
    IF frame.id \in pending
    THEN LET first == CHOOSE r \in pending : \A q \in pending : r <= q
         IN  /\ pending' = pending \ {first}
             /\ future' = IF future[first] = "open"
                          THEN [future EXCEPT ![first] = frame.says] ELSE future
    ELSE UNCHANGED <<pending, future>>

ResolvedTwice(frame) ==  \* mutant: the future is not asked whether it is done
    IF frame.id \in pending
    THEN /\ pending' = pending \ {frame.id}
         /\ future' = [future EXCEPT ![frame.id] = frame.says]
    ELSE UNCHANGED <<pending, future>>

ResolvedIfResult(frame) ==  \* mutant: only results are looked at
    IF frame.id \in pending /\ frame.says = "result"
    THEN /\ pending' = pending \ {frame.id}
         /\ future' = IF future[frame.id] = "open"
                      THEN [future EXCEPT ![frame.id] = frame.says] ELSE future
    ELSE UNCHANGED <<pending, future>>

Resolved(frame) ==
    IF frame.id \in pending
    THEN /\ pending' = pending \ {frame.id}
         /\ future' = IF future[frame.id] = "open"
                      THEN [future EXCEPT ![frame.id] = frame.says] ELSE future
    ELSE UNCHANGED <<pending, future>>

Read ==
    /\ Reads
    /\ Head(stdout).says # "garbage"
    /\ Resolved(Head(stdout))
    /\ stdout' = Tail(stdout)
    /\ UNCHANGED <<process, starts, reader, stopping, request_id, waits, unanswered, answer>>

ReaderFails ==
    /\ Reads
    /\ Head(stdout).says = "garbage"
    /\ reader' = "failed"
    /\ future' = [r \in Requests |->
                     IF r \in pending /\ future[r] = "open" THEN "failed" ELSE future[r]]
    /\ stdout' = Tail(stdout)
    /\ UNCHANGED <<process, starts, stopping, request_id, pending, waits, unanswered, answer>>

ReadEof ==
    /\ reader = "reading" /\ stopping # "cancelling"
    /\ process = "exited" /\ stdout = <<>>
    /\ reader' = "eof"
    /\ UNCHANGED <<process, starts, stopping, client, waits, served>>

(* stop: the reader is cancelled and awaited, the process told to end and awaited *)
Stop ==
    /\ stopping = "no" /\ process # "none"
    /\ stopping' = IF reader = "reading" THEN "cancelling" ELSE "terminating"
    /\ UNCHANGED <<process, starts, reader, client, waits, served>>

ReaderCancelled ==
    /\ stopping = "cancelling"
    /\ reader' = "cancelled" /\ stopping' = "terminating"
    /\ UNCHANGED <<process, starts, client, waits, served>>

Stopped ==
    /\ stopping = "terminating" /\ process = "exited"
    /\ stopping' = "no"
    /\ UNCHANGED <<process, starts, reader, client, waits, served>>
-----------------------------------------------------------------------------
(* The server *)
Say(frame) == Len(stdout) < MaxFrames /\ stdout' = Append(stdout, frame)

Reply(r, says) ==
    /\ process = "running" /\ r \in unanswered
    /\ Say([id |-> r, says |-> says])
    /\ unanswered' = unanswered \ {r}
    /\ answer' = [answer EXCEPT ![r] = says]
    /\ UNCHANGED <<process, starts, reader, stopping, client, waits>>

Chatter(says) ==
    /\ process = "running"
    /\ Say([id |-> 0, says |-> says])
    /\ UNCHANGED <<process, starts, reader, stopping, client, waits, unanswered, answer>>

Exit ==
    /\ process = "running"
    /\ process' = "exited"
    /\ UNCHANGED <<starts, reader, stopping, client, waits, served>>
-----------------------------------------------------------------------------
Server == \/ \E r \in Requests, says \in Answers : Reply(r, says)
          \/ \E says \in {"else", "garbage"} : Chatter(says)
          \/ Exit

Reader == Read \/ ReaderFails \/ ReadEof \/ ReaderCancelled

Caller(c) == \/ FailToSerialize(c) \/ WriteRequest(c) \/ Drain(c) \/ BreakPipe(c)
             \/ Return(c) \/ Abandon(c)

Next == Start \/ Stop \/ Stopped \/ Reader \/ Server \/ \E c \in Callers : Caller(c)

(* The event loop runs the reader and the callers that can go on; nobody   *)
(* has to call, and the server owes nothing.                               *)
Fairness == WF_vars(Reader) /\ \A c \in Callers : WF_vars(Drain(c)) /\ WF_vars(Return(c))

Spec == Init /\ [][Next]_vars /\ Fairness
-----------------------------------------------------------------------------
(* Properties *)

(* The types of the client's and the server's state *)
TypeOK ==
    /\ process \in {"none", "running", "exited"} /\ starts \in 0..MaxStarts
    /\ reader \in {"none", "reading", "failed", "eof", "cancelled"}
    /\ stopping \in {"no", "cancelling", "terminating"}
    /\ request_id \in 0..MaxRequests /\ pending \subseteq Requests
    /\ future \in [Requests -> Answers \cup {"none", "open", "failed", "cancelled"}]
    /\ caller \in [Callers -> 0..MaxRequests] /\ draining \subseteq Callers
    /\ outcome \in [Requests -> Answers \cup {"none", "raised", "cancelled"}]
    /\ unanswered \subseteq Requests /\ answer \in [Requests -> Answers \cup {"none"}]
    /\ stdout \in Seq(Frames)

(* A call returns what the server answered to its own request, in whichever *)
(* order the answers come, whoever gave up before and after any number of   *)
(* restarts (client.py:39-46, 60-61, 80).                                   *)
OwnAnswer ==
    \A r \in Requests : outcome[r] \in Answers => outcome[r] = answer[r]

(* Every future somebody may wait for can be found by the reader, also by   *)
(* the reader of a later process (client.py:43, 71-72).                     *)
OpenIsRegistered == \A r \in Requests : future[r] = "open" => r \in pending

(* A future is done once: resolving it again would raise in the reader and  *)
(* end it for everybody (client.py:45, 52).                                 *)
FuturesSettleOnce ==
    [][\A r \in Requests : future[r] \notin {"none", "open"} => future'[r] = future[r]]_vars

(* The contract of the client: see RequestContract.  A call is decided by   *)
(* its future.                                                              *)
Contract == INSTANCE RequestContract WITH decision <- future

ImplementsContract == Contract!Spec

(* The inductive strengthening: numbers are given out once, a caller waits  *)
(* for a request of its own that is not over, and whatever is in the pipe,  *)
(* in a future or returned is what the server answered.                     *)
Numbering ==
    /\ pending \cup unanswered \subseteq 1..request_id
    /\ \A r \in Requests : r > request_id =>
         future[r] = "none" /\ outcome[r] = "none" /\ answer[r] = "none"
    /\ \A c \in Callers : caller[c] <= request_id
    /\ \A c, d \in Callers : caller[c] = caller[d] /\ caller[c] # 0 => c = d
    /\ \A c \in Callers : caller[c] # 0 => outcome[caller[c]] = "none"
    /\ \A c \in draining : caller[c] # 0

Honesty ==
    /\ \A r \in unanswered : answer[r] = "none"
    /\ \A i \in 1..Len(stdout) : stdout[i].id # 0 => answer[stdout[i].id] = stdout[i].says
    /\ \A r \in Requests : future[r] \in Answers => future[r] = answer[r]

ClientInv == TypeOK /\ Numbering /\ Honesty /\ OwnAnswer /\ OpenIsRegistered

(* A call whose answer is in the pipe ends, unless the reader does          *)
(* (client.py:33-46, 80).                                                   *)
AnswersArrive == \A r \in Requests :
    (\E i \in 1..Len(stdout) : stdout[i].id = r) /\ (\E c \in Callers : caller[c] = r)
        ~> outcome[r] # "none" \/ reader # "reading" \/ stopping = "cancelling"

(* client.py:50 "Fail every pending future so a reader error cannot         *)
(* deadlock callers."                                                       *)
CallersAreReleased == reader = "failed" =>
    \A c \in Callers : caller[c] # 0 /\ c \notin draining => future[caller[c]] # "open"
=============================================================================
