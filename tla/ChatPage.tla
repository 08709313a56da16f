------------------------------- MODULE ChatPage -------------------------------
(***************************************************************************)
(* mountChat, priv/ui/js/mount.js: a panel that joins a socket client      *)
(* (ClientPromise), a composer (Composer) and a timeline.  The browser     *)
(* runs one task at a time; the continuations of promises that were        *)
(* settled in a task run before the next one, so every task waits until    *)
(* nothing is Due.                                                         *)
(***************************************************************************)
EXTENDS Composer, Sequences, SequencesExt

CONSTANTS
  Deliveries,   \* envelopes of the server
  Ephemeral,    \* the ones without a delivery id
  EventOf,      \* their event ids; one event may be delivered more than once
  NonceOf,      \* the events' nonces; a second message may have the nonce of a first
  MaxRows,      \* options.maxMessages
  PageInputs,   \* bounds on a page: changes of the field,
  PageSends     \* submissions

ASSUME PageConstants ==
  /\ Deliveries \subseteq DOMAIN EventOf /\ MaxRows \in Nat \ {0}
  /\ PageInputs \in Nat /\ PageSends \in 0 .. MaxSends

VARIABLES
  life, promise,   \* the client, see ClientPromise
  chain,           \* the promise "ready" of the page and what it waits for
  say,             \* onSubmit: what each submission waits for
  handler,         \* onEvent: how far each delivery is
  view,            \* event ids of the rows in the timeline
  hidden,          \* history: deliveries that bring no row,
  taken,           \* history: events whose row was there and was taken away
  banner, enabled, \* status.dataset.state; the field is not disabled
  closeSeen,       \* the socket's close event has come
  gone             \* destroyed

clientSide == <<life, promise>>
panel      == <<banner, enabled>>
listed     == <<view, hidden, taken>>
pageVars   == <<composerVars, clientSide, chain, say, handler, listed, panel, closeSeen, gone>>

Subscribe == <<"subscribe", 0>>
Say(k)    == <<"say", k>>
Ack(d)    == <<"ack", d>>
Requests  == {Subscribe} \cup {Say(k) : k \in 1 .. PageSends} \cup {Ack(d) : d \in Deliveries}
Client == INSTANCE ClientPromise WITH Promises <- Requests

PageInit ==
  /\ ComposerInit /\ Client!PromiseInit
  /\ chain = "session" /\ say = [k \in 1 .. PageSends |-> "none"]
  /\ handler = [d \in Deliveries |-> "none"] /\ view = <<>>
  /\ hidden = {} /\ taken = {}
  /\ banner = "connecting" /\ enabled = FALSE /\ closeSeen = FALSE /\ gone = FALSE

-----------------------------------------------------------------------------
(* client.call: refused at once, for its limits or the end of the socket.  *)
Asks(p) == Client!Asked(p) \/ Client!Declined(p)

Connected(active) ==
  /\ enabled' = active
  /\ banner' = IF active THEN "online" ELSE "offline"

Report ==
  /\ banner' = IF gone THEN banner ELSE "error"
  /\ UNCHANGED enabled

Settled(p) == promise[p] \in {"kept", "broken"}

(* Continuations that run before the next task.                            *)
Due ==
  \/ chain = "session" /\ life # "connecting"
  \/ chain = "subscribing" /\ Settled(Subscribe)
  \/ \E k \in DOMAIN say :
       \/ say[k] = "waiting" /\ chain \in {"done", "failed"}
       \/ say[k] = "saying" /\ Settled(Say(k))
       \/ sends[k].stage = "reporting"
  \/ \E d \in Deliveries : handler[d] = "acking" /\ Settled(Ack(d))

Task == ~Due

-----------------------------------------------------------------------------
(* ready: the session, the subscription, then the application's onReady.   *)
SessionThere ==
  /\ chain = "session" /\ life = "ready"
  /\ IF gone THEN chain' = "done" /\ UNCHANGED clientSide
             ELSE chain' = "subscribing" /\ Asks(Subscribe)
  /\ UNCHANGED <<composerVars, say, handler, listed, panel, closeSeen, gone>>

SessionFailed ==
  /\ chain = "session" /\ life = "over"
  /\ chain' = "failed" /\ Report
  /\ UNCHANGED <<composerVars, clientSide, say, handler, listed, closeSeen, gone>>

Subscribed ==
  /\ chain = "subscribing" /\ promise[Subscribe] = "kept"
  /\ IF gone THEN chain' = "done" /\ UNCHANGED panel
             ELSE chain' = "onReady" /\ Connected(TRUE)
  /\ UNCHANGED <<composerVars, clientSide, say, handler, listed, closeSeen, gone>>

NotSubscribed ==
  /\ chain = "subscribing" /\ promise[Subscribe] = "broken"
  /\ chain' = "failed" /\ Report
  /\ UNCHANGED <<composerVars, clientSide, say, handler, listed, closeSeen, gone>>

OnReadyEnds ==
  /\ Task /\ chain = "onReady"
  /\ \/ chain' = "done" /\ UNCHANGED panel
     \/ chain' = "failed" /\ Report
  /\ UNCHANGED <<composerVars, clientSide, say, handler, listed, closeSeen, gone>>

-----------------------------------------------------------------------------
(* The composer's onSubmit: await ready, say, and the panel is connected.  *)
Types(t) ==
  /\ Task /\ ~gone /\ inputs < PageInputs
  /\ ((enabled /\ Input(t)) \/ Assign(t))
  /\ UNCHANGED <<clientSide, chain, say, handler, listed, panel, closeSeen, gone>>

Submits(k) ==
  /\ Task /\ k <= PageSends /\ Submit(k)
  /\ say' = [say EXCEPT ![k] = "waiting"]
  /\ UNCHANGED <<clientSide, chain, handler, listed, panel, closeSeen, gone>>

Says(k) ==
  /\ say[k] = "waiting" /\ chain = "done"
  /\ say' = [say EXCEPT ![k] = "saying"] /\ Asks(Say(k))
  /\ UNCHANGED <<composerVars, chain, handler, listed, panel, closeSeen, gone>>

Accepted(k) ==
  /\ say[k] = "saying" /\ promise[Say(k)] = "kept"
  /\ say' = [say EXCEPT ![k] = "over"]
  /\ Resolve(k, TRUE)
  /\ IF gone THEN UNCHANGED panel ELSE Connected(TRUE)
  /\ UNCHANGED <<clientSide, chain, handler, listed, closeSeen, gone>>

(* Mutant of NotAccepted: a failed "ready" is nobody's answer.             *)
MutantNotAccepted(k) ==
  /\ say[k] = "saying" /\ promise[Say(k)] = "broken"
  /\ say' = [say EXCEPT ![k] = "over"]
  /\ Reject(k)
  /\ UNCHANGED <<clientSide, chain, handler, listed, panel, closeSeen, gone>>

NotAccepted(k) ==
  /\ \/ say[k] = "waiting" /\ chain = "failed"
     \/ say[k] = "saying" /\ promise[Say(k)] = "broken"
  /\ say' = [say EXCEPT ![k] = "over"]
  /\ Reject(k)
  /\ UNCHANGED <<clientSide, chain, handler, listed, panel, closeSeen, gone>>

ReportsSend(k) ==
  /\ Reported(k) /\ Report
  /\ UNCHANGED <<clientSide, chain, say, handler, listed, closeSeen, gone>>

-----------------------------------------------------------------------------
(* timeline.upsert: the row is there already, takes the place of the row    *)
(* with its nonce, or is the last one and the first may have to go.        *)
Shown(e) == \E i \in DOMAIN view : view[i] = e

Present(e) ==
  \/ Shown(e) /\ UNCHANGED <<view, taken>>
  \/ \E i \in DOMAIN view :
       /\ ~Shown(e) /\ NonceOf[view[i]] = NonceOf[e]
       /\ view' = [view EXCEPT ![i] = e] /\ taken' = (taken \ {e}) \cup {view[i]}
  \/ /\ \A i \in DOMAIN view : NonceOf[view[i]] # NonceOf[e]
     /\ IF Len(view) < MaxRows
        THEN view' = Append(view, e) /\ taken' = taken \ {e}
        ELSE view' = Append(Tail(view), e) /\ taken' = (taken \ {e}) \cup {Head(view)}

(* onEvent: mapped and shown, handled by the application, acknowledged if  *)
(* there is an id to acknowledge.                                          *)
Acks(d) ==
  IF d \in Ephemeral
  THEN handler' = [handler EXCEPT ![d] = "done"] /\ UNCHANGED clientSide
  ELSE handler' = [handler EXCEPT ![d] = "acking"] /\ Asks(Ack(d))

Deliver(d) ==
  /\ Task /\ life = "ready" /\ handler[d] = "none"
  /\ ~gone                            \* destroy has closed the client
  /\ \/ /\ hidden' = hidden \cup {d}               \* of another topic
        /\ Acks(d) /\ UNCHANGED <<view, taken, panel>>
     \/ /\ handler' = [handler EXCEPT ![d] = "handling"]
        /\ \/ hidden' = hidden \cup {d} /\ UNCHANGED <<view, taken>>   \* no message
           \/ Present(EventOf[d]) /\ UNCHANGED hidden
        /\ UNCHANGED <<clientSide, panel>>
     \/ /\ handler' = [handler EXCEPT ![d] = "failed"]  \* mapMessage throws
        /\ Report /\ UNCHANGED <<clientSide, listed>>
  /\ UNCHANGED <<composerVars, chain, say, closeSeen, gone>>

OnEventEnds(d) ==
  /\ Task /\ handler[d] = "handling"
  /\ \/ Acks(d) /\ UNCHANGED panel
     \/ /\ handler' = [handler EXCEPT ![d] = "failed"]
        /\ Report /\ UNCHANGED clientSide
  /\ UNCHANGED <<composerVars, chain, say, listed, closeSeen, gone>>

AckEnds(d) ==
  /\ handler[d] = "acking" /\ Settled(Ack(d))
  /\ IF promise[Ack(d)] = "kept"
     THEN handler' = [handler EXCEPT ![d] = "acked"] /\ UNCHANGED panel
     ELSE handler' = [handler EXCEPT ![d] = "failed"] /\ Report
  /\ UNCHANGED <<composerVars, clientSide, chain, say, listed, closeSeen, gone>>

(* chat.timeline.remove(id) and clear(), which the application calls.      *)
TakeRow(i) == view' = RemoveAt(view, i) /\ taken' = taken \cup {view[i]}
TakeAll    == view' = <<>> /\ taken' = taken \cup ToSet(view)

RowsTaken ==
  /\ Task /\ ~gone /\ view # <<>>
  /\ TakeAll \/ \E i \in DOMAIN view : TakeRow(i)
  /\ UNCHANGED <<composerVars, clientSide, chain, say, handler, hidden, panel, closeSeen, gone>>

-----------------------------------------------------------------------------
(* The client's own tasks.                                                 *)
ClientMoves ==
  /\ Task
  /\ \/ Client!Establish
     \/ \E p \in DOMAIN promise : Client!Kept(p) \/ Client!Broken(p)
     \/ Client!Over                                    \* chat.client.close()
  /\ UNCHANGED <<composerVars, chain, say, handler, listed, panel, closeSeen, gone>>

ClientFails ==
  /\ Task /\ Client!Over /\ Report
  /\ UNCHANGED <<composerVars, chain, say, handler, listed, closeSeen, gone>>

(* Mutant of CloseEvent: whoever saw the socket fail does not look again.  *)
MutantCloseEvent ==
  /\ Task /\ ~closeSeen /\ closeSeen' = TRUE
  /\ IF life = "over" THEN UNCHANGED <<clientSide, panel>> ELSE Client!Over /\ Connected(FALSE)
  /\ UNCHANGED <<composerVars, chain, say, handler, listed, gone>>

CloseEvent ==
  /\ Task /\ ~closeSeen /\ closeSeen' = TRUE
  /\ IF life = "over" THEN UNCHANGED clientSide ELSE Client!Over
  /\ \/ gone /\ UNCHANGED panel
     \/ ~gone /\ Connected(FALSE)
     \/ ~gone /\ enabled' = FALSE /\ banner' = "error"  \* onClose fails
  /\ UNCHANGED <<composerVars, chain, say, handler, listed, gone>>

DestroyPage ==
  /\ Task /\ ~gone /\ gone' = TRUE
  /\ Destroy /\ TakeAll
  /\ IF life = "over" THEN UNCHANGED clientSide ELSE Client!Over
  /\ UNCHANGED <<chain, say, handler, hidden, panel, closeSeen>>

-----------------------------------------------------------------------------
Continuations ==
  \/ SessionThere \/ SessionFailed \/ Subscribed \/ NotSubscribed
  \/ \E k \in DOMAIN say : Says(k) \/ Accepted(k) \/ NotAccepted(k) \/ ReportsSend(k)
  \/ \E d \in Deliveries : AckEnds(d)

PageNext ==
  \/ Continuations \/ OnReadyEnds
  \/ \E t \in AnyText : Types(t)
  \/ \E k \in DOMAIN say : Submits(k)
  \/ \E d \in Deliveries : Deliver(d) \/ OnEventEnds(d)
  \/ RowsTaken \/ ClientMoves \/ ClientFails \/ CloseEvent \/ DestroyPage

(* Continuations run; the session is there in time or the client fails     *)
(* (connectTimeoutMs); the client keeps its promise; onReady returns.      *)
PageFairness ==
  /\ WF_pageVars(Continuations) /\ WF_pageVars(OnReadyEnds)
  /\ WF_pageVars(life = "connecting" /\ (ClientMoves \/ ClientFails))
  /\ \A k \in 1 .. PageSends :
       WF_pageVars(ClientMoves /\ promise[Say(k)] = "asked" /\ promise'[Say(k)] # "asked")
  /\ WF_pageVars(ClientMoves /\ promise[Subscribe] = "asked" /\ promise'[Subscribe] # "asked")

PageSpec == PageInit /\ [][PageNext]_pageVars /\ PageFairness

-----------------------------------------------------------------------------
(* Properties.                                                             *)

(* docs/ui.md: the panel "waits for a session and subscription before      *)
(* enabling send".  While it can be written in, the subscription has been  *)
(* accepted and no close event has come; "online" is never shown           *)
(* otherwise.                                                              *)
EnabledMeans ==
  ~gone =>
    /\ enabled => promise[Subscribe] = "kept" /\ ~closeSeen
    /\ banner = "online" => enabled

(* docs/ui.md: the panel "acknowledges received deliveries, and            *)
(* deduplicates message events by their server event id", and an event     *)
(* that maps to no message is omitted.  A delivery that brings a message   *)
(* is acknowledged only when the row of that event is on display, once     *)
(* however often it was delivered, or was on display and made room for     *)
(* another one or was removed by the application: no message is            *)
(* acknowledged unseen.  A delivery without an id is never acknowledged,   *)
(* and no more rows than maxMessages are kept.                             *)
AckedShown ==
  /\ \A d \in Deliveries \ hidden :
       promise[Ack(d)] # "none" => Shown(EventOf[d]) \/ EventOf[d] \in taken
  /\ \A d \in Ephemeral \cap Deliveries : promise[Ack(d)] = "none"
  /\ \A i, j \in DOMAIN view : view[i] = view[j] => i = j
  /\ Len(view) <= MaxRows

PageSafe == EnabledMeans /\ AckedShown

(* Every submission ends, so the form can be used again.                   *)
SubmissionEnds ==
  \A k \in 1 .. PageSends : say[k] # "none" /\ InFlight(k) ~> ~InFlight(k)
===============================================================================
