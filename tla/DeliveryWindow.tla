--------------------------- MODULE DeliveryWindow ---------------------------
(***************************************************************************)
(* What the delivery path promises to a session: a bounded window of       *)
(* unacknowledged deliveries that opens and closes with the session        *)
(* (docs/architecture.md, "pressure and acknowledgements").  Nothing here  *)
(* says how senders, consumers and the Runtime share the work: admission,  *)
(* settlement and the end of a session are single steps.                   *)
(***************************************************************************)
EXTENDS Naturals, FiniteSets

CONSTANTS
  Sessions,    \* session ids
  Ids,         \* delivery ids
  Limit        \* most deliveries a session may have outstanding

VARIABLES
  used,        \* session ids handed out so far
  open,        \* sessions that are connected
  window       \* the outstanding deliveries of each session

wvars == <<used, open, window>>

Init ==
  /\ used = {} /\ open = {}
  /\ window = [s \in Sessions |-> {}]

Open(s) ==
  /\ s \notin used
  /\ used' = used \cup {s}
  /\ open' = open \cup {s}
  /\ UNCHANGED window

Admit(s, d) ==
  /\ s \in open
  /\ d \notin window[s]
  /\ Cardinality(window[s]) < Limit
  /\ window' = [window EXCEPT ![s] = @ \cup {d}]
  /\ UNCHANGED <<used, open>>

(* By an acknowledgement, or by the sender that finds it cannot deliver.   *)
Settle(s, d) ==
  /\ s \in open
  /\ d \in window[s]
  /\ window' = [window EXCEPT ![s] = @ \ {d}]
  /\ UNCHANGED <<used, open>>

Close(s) ==
  /\ s \in open
  /\ open' = open \ {s}
  /\ window' = [window EXCEPT ![s] = {}]
  /\ UNCHANGED used

Next ==
  \E s \in Sessions :
    \/ Open(s) \/ Close(s)
    \/ \E d \in Ids : Admit(s, d) \/ Settle(s, d)

Spec == Init /\ [][Next]_wvars
=============================================================================
