------------------------------- MODULE Timeline -------------------------------
(***************************************************************************)
(* The message list with an index, priv/ui/js/timeline.js: a Map from ids  *)
(* to rows in the order they are evicted, a Map from nonces to ids, and    *)
(* the container's rows.  Three copies of one list, that no operation may  *)
(* let drift apart: a row that is missing in an index is shown twice.      *)
(***************************************************************************)
EXTENDS Integers, Sequences, SequencesExt

CONSTANTS MaxMessages, RowIds, Nonces, NoNonce, MaxRendered

ASSUME TimelineConstants ==
  MaxMessages \in Nat \ {0} /\ NoNonce \notin RowIds \cup Nonces /\ MaxRendered \in Nat

VARIABLES
  messages,     \* the Map of ids: [key, node] in order
  nonces,       \* the Map of nonces
  dom,          \* the container's rows
  removed       \* destroyed

timelineVars == <<messages, nonces, dom, removed>>

R == INSTANCE TimelineRows WITH rows <- dom, open <- ~removed

Keys(m)        == {m[i].key : i \in DOMAIN m}
Slot(m, key)   == SelectInSeq(m, LAMBDA e : e.key = key)
Value(m, key)  == m[Slot(m, key)].node
Entry(node)    == [key |-> node.id, node |-> node]
Child(d, node) == SelectInSeq(d, LAMBDA r : r = node)
Hide(d, node)  == RemoveAt(d, Child(d, node))

(* forget and remember: what becomes of the nonces.                        *)
Forget(n, key, node) ==
  IF node.nonce # NoNonce /\ n[node.nonce] = key THEN [n EXCEPT ![node.nonce] = NoNonce] ELSE n
Remember(n, nonce, key) == IF nonce = NoNonce THEN n ELSE [n EXCEPT ![nonce] = key]

(* The three copies together, and a message's leaving all of them.         *)
List       == [messages |-> messages, nonces |-> nonces, dom |-> dom]
Becomes(l) == messages' = l.messages /\ nonces' = l.nonces /\ dom' = l.dom

Evict(l, key) ==
  LET node == Value(l.messages, key)
  IN [messages |-> RemoveAt(l.messages, Slot(l.messages, key)),
      nonces   |-> Forget(l.nonces, key, node),
      dom      |-> Hide(l.dom, node)]

(* trim: while there are too many messages the first one goes.             *)
Trim(l) ==
  LET over == IF Len(l.messages) > MaxMessages THEN Len(l.messages) - MaxMessages ELSE 0
      left[k \in 0 .. over] ==
        IF k = 0 THEN l ELSE Evict(left[k - 1], left[k - 1].messages[1].key)
  IN left[over]

-----------------------------------------------------------------------------
(* The constructor takes over the rows it finds, the last of each id.  A   *)
(* nonce belongs to one message.                                           *)
Rendered(s) ==
  /\ messages = [i \in DOMAIN s |-> Entry(s[i])]
  /\ dom = s
  /\ nonces = [x \in Nonces |->
       LET at == SelectInSeq(s, LAMBDA r : r.nonce = x) IN IF at = 0 THEN NoNonce ELSE s[at].id]

TimelineInit ==
  /\ removed = FALSE
  /\ \E len \in 0 .. MaxRendered :
     \E s \in [1 .. len -> [id : RowIds, nonce : Nonces \cup {NoNonce}]] :
       /\ \A i, j \in DOMAIN s : s[i].nonce = s[j].nonce => s[i].nonce = NoNonce \/ s[i].id = s[j].id
       /\ LET last == {i \in 1 .. len : \A j \in 1 .. len : s[j].id = s[i].id => j <= i}
              n    == Cardinality(last)
          IN \E at \in [1 .. n -> last] :
               /\ \A i, j \in 1 .. n : i < j => at[i] < at[j]
               /\ Rendered(R!TrimRows([i \in 1 .. n |-> s[at[i]]]))

(* upsert of a message whose row has the given id and nonce; "named" when  *)
(* the message brought the id, otherwise the id is new.                    *)
Lookup(nonce) == IF nonce = NoNonce THEN NoNonce ELSE nonces[nonce]

(* A message in the place of one that is there, or at the end.             *)
Replaced(l, oldId, node, n) ==
  [messages |-> [l.messages EXCEPT ![Slot(l.messages, oldId)] = Entry(node)],
   nonces   |-> Remember(n, node.nonce, node.id),
   dom      |-> [l.dom EXCEPT ![Child(l.dom, Value(l.messages, oldId))] = node]]

Added(l, node) ==
  [messages |-> Append(l.messages, Entry(node)),
   nonces   |-> Remember(l.nonces, node.nonce, node.id),
   dom      |-> Append(l.dom, node)]

(* The nonces without the one of the old row; set() of the same id deletes *)
(* it whoever it belongs to.                                               *)
Unlinked(n, oldId, old, id) ==
  IF oldId # id THEN Forget(n, oldId, old)
  ELSE IF old.nonce = NoNonce THEN n ELSE [n EXCEPT ![old.nonce] = NoNonce]

(* Mutant of Upsert: the row of the nonce stays when another one has the   *)
(* message's id.                                                           *)
MutantUpsert(id, nonce, named) ==
  LET oldId == IF id \in Keys(messages) THEN id ELSE Lookup(nonce)
      node  == R!Row(id, nonce)
  IN /\ ~removed /\ (named \/ id \notin Keys(messages))
     /\ UNCHANGED removed
     /\ Becomes(Trim(
          IF oldId = NoNonce THEN Added(List, node)
          ELSE Replaced(List, oldId, node, Unlinked(nonces, oldId, Value(messages, oldId), id))))

Upsert(id, nonce, named) ==
  LET oldId == IF id \in Keys(messages) THEN id ELSE Lookup(nonce)
      twin  == Lookup(nonce)
      node  == R!Row(id, nonce)
      l     == IF twin # NoNonce /\ twin # oldId       \* the optimistic row goes
               THEN Evict(List, twin) ELSE List
  IN /\ ~removed /\ (named \/ id \notin Keys(messages))
     /\ UNCHANGED removed
     /\ Becomes(Trim(
          IF oldId = NoNonce THEN Added(l, node)
          ELSE Replaced(l, oldId, node, Unlinked(l.nonces, oldId, Value(messages, oldId), id))))

(* Mutant of RemoveMessage: the nonce keeps pointing at the row.           *)
MutantRemoveMessage(id) ==
  /\ id \in Keys(messages)
  /\ Becomes([Evict(List, id) EXCEPT !.nonces = nonces])
  /\ UNCHANGED removed

RemoveMessage(id) ==
  /\ id \in Keys(messages)
  /\ Becomes(Evict(List, id))
  /\ UNCHANGED removed

Clear ==
  /\ LET left[k \in 0 .. Len(messages)] ==
           IF k = 0 THEN dom ELSE Hide(left[k - 1], messages[k].node)
     IN dom' = left[Len(messages)]
  /\ messages' = <<>> /\ nonces' = [x \in Nonces |-> NoNonce]
  /\ UNCHANGED removed

(* destroy leaves the rows on display, without an index.                   *)
Release ==
  /\ removed' = TRUE
  /\ messages' = <<>> /\ nonces' = [x \in Nonces |-> NoNonce]
  /\ UNCHANGED dom

TimelineNext ==
  \/ \E id \in RowIds, nonce \in Nonces \cup {NoNonce}, named \in BOOLEAN : Upsert(id, nonce, named)
  \/ \E id \in RowIds : RemoveMessage(id)
  \/ Clear \/ Release

-----------------------------------------------------------------------------
(* Properties.                                                             *)
TimelineTypeOK ==
  /\ dom \in Seq([id : RowIds, nonce : Nonces \cup {NoNonce}]) /\ removed \in BOOLEAN
  /\ messages \in Seq([key : RowIds, node : [id : RowIds, nonce : Nonces \cup {NoNonce}]])
  /\ nonces \in [Nonces -> RowIds \cup {NoNonce}]

(* docs/ui.md: the list "indexes ids and nonces" and keeps "display and    *)
(* eviction order".  Until destroy the indices say what is on display, in  *)
(* its order, and there is no row too many.                                *)
IndexExact ==
  ~removed =>
    /\ messages = [i \in DOMAIN dom |-> Entry(dom[i])]
    /\ \A i, j \in DOMAIN dom : dom[i].id = dom[j].id => i = j
    /\ \A x \in Nonces, id \in RowIds : nonces[x] = id <=> \E i \in DOMAIN dom : dom[i] = R!Row(id, x)
    /\ Len(dom) <= MaxMessages

(* Seen from outside it is the list that scans its rows (TimelineRows).    *)
ShowsRows == R!RowsSpec
===============================================================================
