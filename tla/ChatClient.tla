------------------------------ MODULE ChatClient ------------------------------
(***************************************************************************)
(* The browser's socket client, priv/ui/js/client.js: requests wait for    *)
(* the session, share a byte budget, and are each settled by an answer, a  *)
(* deadline, a refusal or the end of the socket.  A handler of the client  *)
(* runs to its end; only the walk over the waiting requests after "ready"  *)
(* calls onDebug in between, so there a caller's code may run.  The socket *)
(* and the server (one process, lib/wiregrid/transport/cowboy.ex) are the  *)
(* environment.                                                            *)
(***************************************************************************)
EXTENDS Integers, Sequences, FiniteSetsExt

CONSTANTS
  MaxPending,   \* handlers.maxPending
  MaxBuffered,  \* handlers.maxBufferedBytes
  MaxSeq,       \* 4294967295: the last request id before 1 comes again
  Sizes,        \* byte lengths of requests
  MaxCalls,     \* bound: calls altogether
  MaxFaults,    \* bound: sends that throw, frames the server refuses to read
  None

ASSUME ClientConstants ==
  /\ {MaxPending, MaxBuffered, MaxSeq, MaxCalls} \subseteq Nat \ {0}
  /\ MaxFaults \in Nat /\ Sizes \subseteq Nat \ {0} /\ MaxPending < MaxSeq
  /\ None \notin [call : Nat, size : Nat, sent : BOOLEAN] /\ None \notin Nat

VARIABLES
  socket,       \* readyState
  initialized, closed,
  ready,        \* the promise: "open", "ok" or "failed"
  seq,
  pending,      \* a Map of request ids; insertion order is the order of calls
  queuedBytes,
  flush,        \* the last call visited by the walk after "ready", or None
  buffered,     \* socket.bufferedAmount
  unsent,       \* requests in the socket's buffer
  up, down,     \* frames on their way to the server and back
  made,         \* calls so far; a call is known by its number
  outcome,      \* how each call ended
  stolen,       \* history: calls settled by the answer to another one
  wrapped,      \* history: the ids have started again from 1
  faults

book == <<seq, pending, queuedBytes, made, outcome, stolen, wrapped>>
net  == <<buffered, unsent, up, down>>
clientVars == <<socket, initialized, closed, ready, flush, book, net, faults>>

Ids   == 1 .. MaxSeq
Calls == 1 .. MaxCalls
Waiting(S) == {i \in S : pending[i] # None}
Unsent     == {i \in Waiting(Ids) : ~pending[i].sent}
UnsentBytes == MapThenSumSet(LAMBDA i : pending[i].size, Unsent)

ClientInit ==
  /\ socket = "connecting" /\ initialized = FALSE /\ closed = FALSE
  /\ ready = "open" /\ seq = 0 /\ pending = [i \in Ids |-> None]
  /\ queuedBytes = 0 /\ flush = None
  /\ buffered = 0 /\ unsent = <<>> /\ up = <<>> /\ down = <<>>
  /\ made = 0 /\ outcome = [c \in Calls |-> "none"]
  /\ stolen = {} /\ wrapped = FALSE /\ faults = 0

(* A task of the browser starts only when the walk is over.                *)
Idle == flush = None

-----------------------------------------------------------------------------
(* Mutant of Bytes: only a request that was never sent counts as queued;   *)
(* this one gives its bytes back also when it had been sent.               *)
MutantBytesTwice(item) == queuedBytes - item.size

Bytes(item) == IF item.sent THEN queuedBytes ELSE queuedBytes - item.size

(* Mutant of Settle: what was not sent yet stays for the walk to pass.     *)
MutantSettle(id, how) ==
  /\ pending' = [pending EXCEPT ![id] = IF @.sent THEN None ELSE @]
  /\ queuedBytes' = Bytes(pending[id])
  /\ outcome' = [outcome EXCEPT ![pending[id].call] = how]

Settle(id, how) ==
  /\ pending' = [pending EXCEPT ![id] = None]
  /\ queuedBytes' = Bytes(pending[id])
  /\ outcome' = [outcome EXCEPT ![pending[id].call] = how]

(* Mutant of Finish: who waits is left to its own deadline.                *)
MutantFinish ==
  /\ closed' = TRUE /\ ready' = IF ready = "open" THEN "failed" ELSE ready
  /\ UNCHANGED <<pending, queuedBytes, outcome>>

(* finish: everybody who waits is told, and nothing is accepted any more.  *)
Finish ==
  IF closed THEN UNCHANGED <<closed, ready, pending, queuedBytes, outcome>>
  ELSE /\ closed' = TRUE
       /\ ready' = IF ready = "open" THEN "failed" ELSE ready
       /\ pending' = [i \in Ids |-> None]
       /\ queuedBytes' = queuedBytes - UnsentBytes
       /\ outcome' = [c \in Calls |-> IF outcome[c] = "open" THEN "closed"
                                                           ELSE outcome[c]]

(* socket.close(): the close event comes later.                            *)
CloseSocket == socket' = IF socket = "closed" THEN "closed" ELSE "closing"

Fail ==
  /\ Finish
  /\ IF closed THEN UNCHANGED socket ELSE CloseSocket
  /\ UNCHANGED <<initialized, seq, flush, net, made, stolen, wrapped, faults>>

-----------------------------------------------------------------------------
(* The next id after seq, from 1 again at the end, that nobody waits for.  *)
NextId ==
  LET free  == {i \in Ids : pending[i] = None}
      later == {i \in free : i > seq}
  IN IF later # {} THEN Min(later) ELSE Min(free)

(* sendPending on request i of book p, when q bytes are queued.            *)
Send(i, item, q) ==
  LET c == item.call
  IN \/ /\ closed \/ socket # "open" \/ buffered + item.size > MaxBuffered
        /\ pending' = [pending EXCEPT ![i] = None]
        /\ queuedBytes' = q - item.size
        /\ outcome' = [outcome EXCEPT ![c] = "refused"]
        /\ UNCHANGED <<buffered, unsent, faults>>
     \/ /\ ~closed /\ socket = "open" /\ buffered + item.size <= MaxBuffered
        /\ queuedBytes' = q - item.size
        /\ \/ /\ pending' = [pending EXCEPT ![i] = [item EXCEPT !.sent = TRUE]]
              /\ buffered' = buffered + item.size
              /\ unsent' = Append(unsent, [id |-> i, call |-> c, size |-> item.size])
              /\ outcome' = [outcome EXCEPT ![c] = "open"]
              /\ UNCHANGED faults
           \/ /\ faults < MaxFaults /\ faults' = faults + 1   \* send throws
              /\ pending' = [pending EXCEPT ![i] = None]
              /\ outcome' = [outcome EXCEPT ![c] = "refused"]
              /\ UNCHANGED <<buffered, unsent>>

(* call: admission, an id, the byte budget, and on its way if there is a   *)
(* session already.                                                        *)
Refuse ==
  /\ outcome' = [outcome EXCEPT ![made + 1] = "refused"]
  /\ UNCHANGED <<pending, queuedBytes, buffered, unsent, faults>>

Call(size) ==
  LET item == [call |-> made + 1, size |-> size, sent |-> FALSE]
  IN /\ made < MaxCalls /\ flush # 0
     /\ made' = made + 1
     /\ IF closed \/ Cardinality(Waiting(Ids)) >= MaxPending
        THEN Refuse /\ UNCHANGED <<seq, wrapped>>
        ELSE /\ seq' = NextId /\ wrapped' = (wrapped \/ NextId <= seq)
             /\ \/ /\ queuedBytes + buffered + size > MaxBuffered
                   /\ Refuse
                \/ /\ queuedBytes + buffered + size <= MaxBuffered
                   /\ initialized
                   /\ Send(NextId, item, queuedBytes + size)
                \/ /\ queuedBytes + buffered + size <= MaxBuffered
                   /\ ~initialized
                   /\ pending' = [pending EXCEPT ![NextId] = item]
                   /\ queuedBytes' = queuedBytes + size
                   /\ outcome' = [outcome EXCEPT ![made + 1] = "open"]
                   /\ UNCHANGED <<buffered, unsent, faults>>
     /\ UNCHANGED <<socket, initialized, closed, ready, flush, up, down, stolen>>

(* close(), also from a callback of the walk.                              *)
Close ==
  /\ socket # "closed" /\ ~closed /\ flush # 0
  /\ Finish /\ CloseSocket
  /\ UNCHANGED <<initialized, seq, flush, net, made, stolen, wrapped, faults>>

-----------------------------------------------------------------------------
(* Events of the socket.                                                   *)
Open ==
  /\ Idle /\ socket = "connecting"
  /\ socket' = "open"
  /\ UNCHANGED <<initialized, closed, ready, flush, book, net, faults>>

Message(kind) == Idle /\ socket \in {"open", "closing"} /\ down # <<>> /\ Head(down).kind = kind
Receive == down' = Tail(down) /\ UNCHANGED <<buffered, unsent, up>>

(* "ready": whoever waits is sent, in a walk over the Map.                 *)
Ready ==
  /\ Message("ready") /\ Receive
  /\ IF closed \/ initialized
     THEN UNCHANGED <<initialized, ready, flush>>
     ELSE initialized' = TRUE /\ ready' = "ok" /\ flush' = 0
  /\ UNCHANGED <<socket, closed, book, faults>>

(* The walk goes on to the next in the order of insertion; who joins       *)
(* during the walk is met as well, and is sent already.                    *)
Visit ==
  LET next == {i \in Waiting(Ids) : pending[i].call > flush}
  IN /\ flush # None
     /\ IF next = {} THEN flush' = None /\ UNCHANGED <<book, net, faults>>
        ELSE \E i \in next :
          /\ \A j \in next : pending[i].call <= pending[j].call
          /\ flush' = pending[i].call
          /\ IF pending[i].sent THEN UNCHANGED <<book, net, faults>>
             ELSE /\ Send(i, pending[i], queuedBytes)
                  /\ UNCHANGED <<seq, up, down, made, stolen, wrapped>>
     /\ UNCHANGED <<socket, initialized, closed, ready>>

(* An answer settles the request that waits under its id.                  *)
Response ==
  LET m == Head(down)
  IN /\ Message("response") /\ Receive
     /\ IF closed \/ pending[m.id] = None
        THEN UNCHANGED book
        ELSE /\ Settle(m.id, IF m.ok THEN "answered" ELSE "rejected")
             /\ stolen' = IF pending[m.id].call = m.call THEN stolen
                                               ELSE stolen \cup {pending[m.id].call}
             /\ UNCHANGED <<seq, made, wrapped>>
     /\ UNCHANGED <<socket, initialized, closed, ready, flush, faults>>

(* An error without an id ends the handshake, and is dropped afterwards.   *)
Error ==
  /\ Message("error") /\ Receive
  /\ IF closed \/ initialized THEN UNCHANGED <<socket, closed, ready, book>>
     ELSE /\ Finish /\ CloseSocket
          /\ UNCHANGED <<seq, made, stolen, wrapped>>
  /\ UNCHANGED <<initialized, flush, faults>>

(* Deadlines: of a request, and of the handshake.                          *)
Timeout(id) ==
  /\ Idle /\ pending[id] # None
  /\ Settle(id, "timeout")
  /\ UNCHANGED <<socket, initialized, closed, ready, seq, flush, net, made,
                 stolen, wrapped, faults>>

ConnectTimeout == Idle /\ ~initialized /\ ~closed /\ Fail

SocketError == Idle /\ socket \in {"connecting", "open"} /\ ~closed /\ Fail

(* The close event; frames on their way are lost.                          *)
SocketClose ==
  /\ Idle /\ socket # "closed"
  /\ socket' = "closed" /\ Finish
  /\ buffered' = 0 /\ unsent' = <<>> /\ up' = <<>> /\ down' = <<>>
  /\ UNCHANGED <<initialized, seq, flush, made, stolen, wrapped, faults>>

-----------------------------------------------------------------------------
(* The environment.  The socket's buffer drains; the server greets the     *)
(* session or refuses it, and answers each frame in turn, unless it drops  *)
(* it for its rate (an error without an id).                               *)
Transmit ==
  /\ socket = "open" /\ unsent # <<>>
  /\ buffered' = buffered - Head(unsent).size
  /\ unsent' = Tail(unsent)
  /\ up' = Append(up, [id |-> Head(unsent).id, call |-> Head(unsent).call])
  /\ UNCHANGED <<socket, initialized, closed, ready, flush, book, down, faults>>

Greet(kind) ==
  /\ socket = "open" /\ ~initialized /\ down = <<>>
  /\ down' = <<[kind |-> kind, id |-> 0, call |-> 0, ok |-> kind = "ready"]>>
  /\ UNCHANGED <<socket, initialized, closed, ready, flush, book, buffered,
                 unsent, up, faults>>

Answer(kind, ok) ==
  /\ socket = "open" /\ up # <<>>
  /\ up' = Tail(up)
  /\ down' = Append(down, [kind |-> kind, id |-> Head(up).id,
                           call |-> Head(up).call, ok |-> ok])
  /\ UNCHANGED <<socket, initialized, closed, ready, flush, book, buffered, unsent>>

Serve ==
  \/ \E ok \in BOOLEAN : Answer("response", ok) /\ UNCHANGED faults
  \/ faults < MaxFaults /\ faults' = faults + 1 /\ Answer("error", FALSE)

-----------------------------------------------------------------------------
Deadline == \E i \in Ids : Timeout(i)

Events ==
  \/ Ready \/ Response \/ Error \/ Deadline \/ ConnectTimeout
  \/ SocketError \/ SocketClose

ClientNext ==
  \/ \E size \in Sizes : Call(size)
  \/ Close \/ Open \/ Events \/ Visit
  \/ Transmit \/ Serve \/ \E kind \in {"ready", "error"} : Greet(kind)

(* The timers of the browser run out, and a handler runs to its end.       *)
ClientFairness ==
  WF_clientVars(Visit) /\ WF_clientVars(Deadline)

ClientSpec == ClientInit /\ [][ClientNext]_clientVars /\ ClientFairness

-----------------------------------------------------------------------------
(* Properties.                                                             *)
Outcomes == {"none", "open", "answered", "rejected", "refused", "timeout", "closed"}
Frames   == [id : Ids, call : Calls]

ClientTypeOK ==
  /\ socket \in {"connecting", "open", "closing", "closed"}
  /\ {initialized, closed, wrapped} \subseteq BOOLEAN
  /\ ready \in {"open", "ok", "failed"} /\ seq \in 0 .. MaxSeq
  /\ pending \in [Ids -> [call : Calls, size : Sizes, sent : BOOLEAN] \cup {None}]
  /\ queuedBytes \in Nat /\ buffered \in Nat /\ made \in 0 .. MaxCalls
  /\ flush \in 0 .. MaxCalls \cup {None} /\ faults \in 0 .. MaxFaults
  /\ unsent \in Seq([id : Ids, call : Calls, size : Sizes])
  /\ up \in Seq(Frames)
  /\ down \in Seq([kind : {"ready", "response", "error"}, id : 0 .. MaxSeq,
                   call : 0 .. MaxCalls, ok : BOOLEAN])
  /\ outcome \in [Calls -> Outcomes] /\ stolen \subseteq Calls

(* docs/ui.md, maxBufferedBytes: the requests that wait for the session    *)
(* and the bytes in the socket's buffer share one budget; each request     *)
(* gives its bytes back once, however it ends.                             *)
BytesExact == queuedBytes = UnsentBytes /\ queuedBytes + buffered <= MaxBuffered

(* After the walk no request is left behind unsent: nobody would send it.  *)
NothingStuck == initialized /\ Idle => Unsent = {}

(* The open calls are those that wait, one each, and no more than allowed; *)
(* the end of the socket leaves none.                                      *)
OpenCalls ==
  /\ \A c \in Calls : outcome[c] = "open" <=> \E i \in Waiting(Ids) : pending[i].call = c
  /\ \A i, j \in Waiting(Ids) : pending[i].call = pending[j].call => i = j
  /\ Cardinality(Waiting(Ids)) <= MaxPending
  /\ closed => Waiting(Ids) = {}

(* An answer that comes after its request has timed out does not settle    *)
(* another one, until four thousand million ids later.                     *)
OwnAnswer == wrapped \/ stolen = {}

(* What the client keeps of its requests agrees with them at all times.    *)
ClientSafe == ClientTypeOK /\ BytesExact /\ NothingStuck /\ OpenCalls /\ OwnAnswer

(* A call that has ended is not sent any more.                             *)
InBuffer(c) == \E n \in DOMAIN unsent : unsent[n].call = c
NoLateSend ==
  [][\A c \in Calls : ~InBuffer(c) /\ InBuffer(c)' => outcome[c] \in {"none", "open"}]_clientVars

(* What the page relies on (ClientPromise): a session is awaited, there,   *)
(* then over; every call that is not refused at once is kept by an answer  *)
(* or broken, once, and none is left when the socket is over.              *)
Promise == INSTANCE ClientPromise WITH
  Promises <- Calls,
  life     <- IF closed THEN "over" ELSE IF initialized THEN "ready" ELSE "connecting",
  promise  <- [c \in Calls |->
                 CASE outcome[c] = "none"     -> "none"
                   [] outcome[c] = "open"     -> "asked"
                   [] outcome[c] = "answered" -> "kept"
                   [] OTHER                   -> "broken"]
KeepsPromise == Promise!PromiseSpec
===============================================================================
