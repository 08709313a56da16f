----------------------------- MODULE TimelineRows -----------------------------
(***************************************************************************)
(* A message list without an index, as the helpers of priv/ui/js/chat.js   *)
(* keep it: every operation scans the rows on display.  A row is an id and *)
(* the nonce its author's browser gave it, or NoNonce.  This is what the   *)
(* indexed list of Timeline must look like from outside.                   *)
(***************************************************************************)
EXTENDS Integers, Sequences, SequencesExt

CONSTANTS MaxMessages, RowIds, Nonces, NoNonce

VARIABLES rows, open

rowVars == <<rows, open>>

Row(id, nonce) == [id |-> id, nonce |-> nonce]

(* trimTimeline: the oldest rows go.                                       *)
TrimRows(s) ==
  IF Len(s) > MaxMessages THEN SubSeq(s, Len(s) - MaxMessages + 1, Len(s)) ELSE s

AppendRow(s, row) == TrimRows(Append(s, row))

(* replaceWith at the first match of querySelector, or append.             *)
Place(s, at, row) == IF at = 0 THEN Append(s, row) ELSE [s EXCEPT ![at] = row]

UpsertRow(s, row) == TrimRows(Place(s, SelectInSeq(s, LAMBDA r : r.id = row.id), row))

ReconcileRow(s, row) ==
  TrimRows(Place(s, SelectInSeq(s, LAMBDA r : r.nonce # NoNonce /\ r.nonce = row.nonce), row))

(* A message takes the place of the row with its id, or else of the row    *)
(* with its nonce; nothing else keeps either.                              *)
Show(s, row) ==
  IF \E i \in DOMAIN s : s[i].id = row.id
  THEN UpsertRow(RemoveAt(s, SelectInSeq(s, LAMBDA r : r.id # row.id /\ r.nonce # NoNonce
                                                        /\ r.nonce = row.nonce)), row)
  ELSE IF row.nonce = NoNonce THEN AppendRow(s, row) ELSE ReconcileRow(s, row)

RowsInit ==
  /\ open = TRUE /\ Len(rows) <= MaxMessages
  /\ \A i, j \in DOMAIN rows : i # j =>
       rows[i].id # rows[j].id /\ (rows[i].nonce = NoNonce \/ rows[i].nonce # rows[j].nonce)

Shown == \E id \in RowIds, nonce \in Nonces \cup {NoNonce} : rows' = Show(rows, Row(id, nonce))
Taken == \E id \in RowIds : rows' = RemoveAt(rows, SelectInSeq(rows, LAMBDA r : r.id = id))

(* After the end the rows stay as they are.                                *)
RowsNext ==
  \/ open /\ UNCHANGED open /\ (Shown \/ Taken \/ rows' = <<>>)
  \/ open /\ open' = FALSE /\ UNCHANGED rows

RowsSpec == RowsInit /\ [][RowsNext]_rowVars
================================================================================
