---------------------------- MODULE Expiry_proofs ----------------------------
(***************************************************************************)
(* Proofs about Expiry, for every number of keys, callers and calls:       *)
(*   Typed      the types, and what a call in progress has in its hands;   *)
(*   UsedExact  the accounting of slots;                                   *)
(*   Known      tokens tell apart the rows that calls are working on;      *)
(*   Kept       no accepted deadline is forgotten.                         *)
(* Each is inductive together with those before it.                        *)
(***************************************************************************)
EXTENDS Expiry, FiniteSetTheorems, TLAPS

(* What a caller or the service works on is a row.                         *)
TryPcs == {"lookup", "reserve", "undo", "claim", "give", "replace"}
RowPcs == TryPcs \cup {"drop_old"}
OldPcs == {"replace", "drop_old", "cancel"}

CallOK ==
  /\ call \in [Callers -> CallType]
  /\ \A c \in Callers :
       /\ call[c].pc \in RowPcs => call[c].row \in RowType
       /\ call[c].pc \in OldPcs => call[c].old \in RowType
ExpOK == exp \in ExpType /\ (exp.pc # "idle" => exp.row \in RowType)
IndexOK == /\ index \in [Keys -> RowType \cup {None}]
           /\ \A k \in Keys : index[k] # None => index[k].key = k
SetsOK  == {ordered, owed, lost, stranded} \subseteq SUBSET RowType
CountOK == {now, used, sequence, calls, surplus} \subseteq Nat

Typed == CallOK /\ ExpOK /\ IndexOK /\ SetsOK /\ CountOK

LEMMA TypedIsTypeOK == Typed => TypeOK
  BY DEF Typed, TypeOK, CallOK, ExpOK, IndexOK, SetsOK, CountOK

LEMMA NoneIsNoRow == None \notin RowType
  BY ExpiryConstants DEF RowType

LEMMA TypedInit == Init => Typed
  BY DEF Init, Typed, CallOK, ExpOK, IndexOK, SetsOK, CountOK, IdleCall,
         IdleExp, CallType, ExpType, RowPcs, TryPcs, OldPcs, RowType

-----------------------------------------------------------------------------
(* The record of a caller after each of its kinds of step.                 *)
LEMMA CallStill == ASSUME CallOK, UNCHANGED call PROVE CallOK'
  BY DEF CallOK

LEMMA CallSet ==
  ASSUME CallOK, NEW c \in Callers, NEW r \in CallType,
         r.pc \in RowPcs => r.row \in RowType,
         r.pc \in OldPcs => r.old \in RowType,
         call' = [call EXCEPT ![c] = r]
  PROVE  CallOK'
  BY DEF CallOK

LEMMA CallEnd == ASSUME CallOK, NEW c \in Callers, End(c) PROVE CallOK'
<1>1. IdleCall \in CallType /\ IdleCall.pc \notin RowPcs \cup OldPcs
  BY DEF IdleCall, CallType, RowPcs, TryPcs, OldPcs
<1> QED
  BY <1>1, CallSet DEF End

(* A step that only changes where the caller stands.                       *)
LEMMA CallGoto ==
  ASSUME CallOK, NEW c \in Callers, NEW pc,
         pc \in TryPcs \cup {"drop_old"},
         call[c].row \in RowType,
         pc \in OldPcs => call[c].old \in RowType,
         Step(c, pc)
  PROVE  CallOK'
<1> DEFINE r == [call[c] EXCEPT !.pc = pc]
<1>1. call[c] \in CallType
  BY DEF CallOK
<1>2. /\ r \in CallType /\ r.pc = pc /\ r.row = call[c].row
      /\ r.old = call[c].old
  BY <1>1 DEF CallType, TryPcs
<1>3. call' = [call EXCEPT ![c] = r]
  BY DEF Step
<1> HIDE DEF r
<1> QED
  BY <1>2, <1>3, CallSet

LEMMA TryTyped ==
  ASSUME CallOK, CountOK, NEW c \in Callers, NEW k \in Keys, NEW d \in Nat,
         NEW n \in Nat, NEW kept \in SUBSET RowType, Try(c, k, d, n, kept)
  PROVE  /\ CallOK' /\ ordered' \in SUBSET RowType /\ sequence' \in Nat
         /\ ordered' = kept \cup {Row(k, d, sequence + 1)}
         /\ call' = [call EXCEPT ![c] =
                       [pc |-> "lookup", row |-> Row(k, d, sequence + 1),
                        old |-> None, tries |-> n]]
<1> DEFINE row == Row(k, d, sequence + 1)
           r   == [pc |-> "lookup", row |-> row, old |-> None, tries |-> n]
<1>1. sequence + 1 \in Nat
  BY DEF CountOK
<1>2. row \in RowType
  BY <1>1 DEF Row, RowType
<1>3. r \in CallType /\ r.pc = "lookup" /\ r.row = row
  BY <1>2 DEF CallType
<1>4. /\ sequence' = sequence + 1 /\ ordered' = kept \cup {row}
      /\ call' = [call EXCEPT ![c] = r]
  BY DEF Try
<1>5. CallOK'
  <2> HIDE DEF r, row
  <2>1. r.pc \notin OldPcs
    BY <1>3 DEF OldPcs
  <2> QED
    BY <1>2, <1>3, <1>4, <2>1, CallSet
<1> QED
  BY <1>1, <1>2, <1>4, <1>5

LEMMA AgainTyped ==
  ASSUME CallOK, CountOK, SetsOK, NEW c \in Callers,
         call[c].row \in RowType, Again(c)
  PROVE  CallOK' /\ ordered' \in SUBSET RowType /\ sequence' \in Nat
<1> DEFINE row == call[c].row
<1>1. /\ row.key \in Keys /\ row.at \in Nat
      /\ ordered \ {row} \in SUBSET RowType
  BY DEF RowType, SetsOK
<1>2. CASE call[c].tries + 1 < MaxTries
  <2>1. call[c].tries + 1 \in Nat
    BY DEF CallOK, CallType
  <2>2. Try(c, row.key, row.at, call[c].tries + 1, ordered \ {row})
    BY <1>2 DEF Again
  <2> QED
    BY <1>1, <2>1, <2>2, TryTyped
<1>3. CASE ~(call[c].tries + 1 < MaxTries)
  <2>1. End(c) /\ ordered' = ordered \ {row} /\ sequence' = sequence
    BY <1>3 DEF Again
  <2> QED
    BY <1>1, <2>1, CallEnd DEF CountOK
<1> QED
  BY <1>2, <1>3

LEMMA ReleaseTyped ==
  ASSUME CountOK, NEW extra \in BOOLEAN, Release(extra)
  PROVE  used' \in Nat /\ surplus' \in Nat
<1>1. used \in Nat /\ surplus \in Nat
  BY DEF CountOK
<1>2. used' \in Nat
  BY <1>1 DEF Release
<1>3. CASE extra
  <2>1. surplus' = (surplus + 1) - (IF used = 0 /\ surplus + 1 > 0 THEN 1 ELSE 0)
    BY <1>3 DEF Release
  <2> QED BY <1>1, <1>2, <2>1
<1>4. CASE ~extra
  <2>1. surplus' = (surplus + 0) - (IF used = 0 /\ surplus + 0 > 0 THEN 1 ELSE 0)
    BY <1>4 DEF Release
  <2> QED BY <1>1, <1>2, <2>1
<1> QED
  BY <1>3, <1>4

LEMMA AcceptTyped ==
  ASSUME IndexOK, SetsOK, NEW c \in Callers, call[c].row \in RowType,
         NEW replaced, Accept(c, replaced)
  PROVE  /\ IndexOK' /\ owed' \in SUBSET RowType /\ lost' \in SUBSET RowType
<1> DEFINE row == call[c].row
<1>1. row.key \in Keys /\ row \in RowType
  BY DEF RowType
<1>2. index' = [index EXCEPT ![row.key] = row]
  BY DEF Accept
<1>3. IndexOK'
  BY <1>1, <1>2 DEF IndexOK
<1>4. owed' = (owed \ replaced) \cup {row} /\ lost' \subseteq lost \cup {row}
  BY DEF Accept
<1> QED
  BY <1>1, <1>3, <1>4 DEF SetsOK

(* The parts of Typed that a step leaves alone.                            *)
LEMMA ExpStill == ASSUME ExpOK, UNCHANGED exp PROVE ExpOK'
  BY DEF ExpOK

LEMMA IndexStill == ASSUME IndexOK, UNCHANGED index PROVE IndexOK'
  BY DEF IndexOK

LEMMA IndexDrop ==
  ASSUME IndexOK, NEW k \in Keys, index' = [index EXCEPT ![k] = None]
  PROVE  IndexOK'
  BY DEF IndexOK

(* What a call in progress has in its hands.                               *)
LEMMA CallHas ==
  ASSUME CallOK, NEW c \in Callers
  PROVE  /\ call[c].pc \in RowPcs => call[c].row \in RowType
         /\ call[c].pc \in OldPcs => call[c].old \in RowType
         /\ call[c] \in CallType
  BY DEF CallOK

LEMMA TypedCaller ==
  ASSUME Typed, NEW c \in Callers, CallStep(c)
  PROVE  Typed'
<1>0. CallOK /\ ExpOK /\ IndexOK /\ SetsOK /\ CountOK
  BY DEF Typed
<1>has. /\ call[c].pc \in RowPcs => call[c].row \in RowType
        /\ call[c].pc \in OldPcs => call[c].old \in RowType
  BY <1>0, CallHas
<1>1. CASE LookupIndex(c)
  <2> DEFINE found == index[call[c].row.key]
             pc    == IF found = None THEN "reserve" ELSE "replace"
             r     == [call[c] EXCEPT !.pc = pc, !.old = found]
  <2>1. call[c].row \in RowType
    BY <1>1, <1>has DEF LookupIndex, At, RowPcs, TryPcs
  <2>2. found \in RowType \cup {None}
    BY <1>0, <2>1 DEF IndexOK, RowType
  <2>3. call[c] \in CallType
    BY <1>0, CallHas
  <2>4. /\ r \in CallType /\ r.row = call[c].row /\ r.old = found
        /\ r.pc = pc
    BY <2>2, <2>3 DEF CallType
  <2>5. call' = [call EXCEPT ![c] = r]
    BY <1>1 DEF LookupIndex
  <2>6. pc \in OldPcs => found \in RowType
    BY <2>2 DEF OldPcs
  <2>7. CallOK'
    <3> HIDE DEF r, pc, found
    <3> QED BY <1>0, <2>1, <2>4, <2>5, <2>6, CallSet
  <2> QED
    BY <1>0, <1>1, <2>7, ExpStill, IndexStill
       DEF LookupIndex, Typed, SetsOK, CountOK, history
<1>2. CASE Reserve(c)
  <2>1. call[c].row \in RowType
    BY <1>2, <1>has DEF Reserve, At, RowPcs, TryPcs
  <2>2. PICK pc \in {"claim", "undo"} : Step(c, pc)
    BY <1>2 DEF Reserve
  <2>3. CallOK'
    BY <1>0, <2>1, <2>2, CallGoto DEF TryPcs, OldPcs
  <2> QED
    BY <1>0, <1>2, <2>3, ExpStill, IndexStill
       DEF Reserve, Typed, SetsOK, CountOK, history
<1>3. CASE UndoReserve(c)
  <2>1. CallOK'
    BY <1>0, <1>3, CallEnd DEF UndoReserve
  <2>2. used' \in Nat /\ surplus' \in Nat
    BY <1>0, <1>3, ReleaseTyped DEF UndoReserve
  <2> QED
    BY <1>0, <1>3, <2>1, <2>2, ExpStill, IndexStill
       DEF UndoReserve, Typed, SetsOK, CountOK
<1>4. CASE Claim(c)
  <2>1. call[c].row \in RowType
    BY <1>4, <1>has DEF Claim, At, RowPcs, TryPcs
  <2>2. CASE index[call[c].row.key] = None
    <3>1. Accept(c, {}) /\ End(c)
      BY <1>4, <2>2 DEF Claim
    <3>2. IndexOK' /\ owed' \in SUBSET RowType /\ lost' \in SUBSET RowType
      BY <1>0, <2>1, <3>1, AcceptTyped
    <3>3. CallOK'
      BY <1>0, <3>1, CallEnd
    <3> QED
      BY <1>0, <1>4, <3>2, <3>3, ExpStill DEF Claim, Typed, SetsOK, CountOK
  <2>3. CASE index[call[c].row.key] # None
    <3>1. Step(c, "give") /\ UNCHANGED <<index, owed, lost>>
      BY <1>4, <2>3 DEF Claim
    <3>2. CallOK'
      BY <1>0, <2>1, <3>1, CallGoto DEF TryPcs, OldPcs
    <3> QED
      BY <1>0, <1>4, <3>1, <3>2, ExpStill, IndexStill
         DEF Claim, Typed, SetsOK, CountOK
  <2> QED BY <2>2, <2>3
<1>5. CASE GiveSlot(c)
  <2>1. call[c].row \in RowType
    BY <1>5, <1>has DEF GiveSlot, At, RowPcs, TryPcs
  <2>2. CallOK' /\ ordered' \in SUBSET RowType /\ sequence' \in Nat
    BY <1>0, <1>5, <2>1, AgainTyped DEF GiveSlot
  <2>3. used' \in Nat /\ surplus' \in Nat
    BY <1>0, <1>5, ReleaseTyped DEF GiveSlot
  <2> QED
    BY <1>0, <1>5, <2>2, <2>3, ExpStill, IndexStill
       DEF GiveSlot, Typed, SetsOK, CountOK
<1>6. CASE Replace(c)
  <2>1. call[c].row \in RowType /\ call[c].old \in RowType
    BY <1>6, <1>has DEF Replace, At, RowPcs, TryPcs, OldPcs
  <2>2. CASE index[call[c].row.key] = call[c].old
    <3>1. Accept(c, {call[c].old}) /\ Step(c, "drop_old")
      BY <1>6, <2>2 DEF Replace
    <3>2. IndexOK' /\ owed' \in SUBSET RowType /\ lost' \in SUBSET RowType
      BY <1>0, <2>1, <3>1, AcceptTyped
    <3>3. CallOK'
      BY <1>0, <2>1, <3>1, CallGoto
    <3>4. UNCHANGED <<ordered, sequence>>
      BY <1>6, <2>2 DEF Replace
    <3> QED
      BY <1>0, <1>6, <3>2, <3>3, <3>4, ExpStill
         DEF Replace, Typed, SetsOK, CountOK
  <2>3. CASE index[call[c].row.key] # call[c].old
    <3>1. Again(c) /\ UNCHANGED <<index, owed, lost>>
      BY <1>6, <2>3 DEF Replace
    <3>2. CallOK' /\ ordered' \in SUBSET RowType /\ sequence' \in Nat
      BY <1>0, <2>1, <3>1, AgainTyped
    <3> QED
      BY <1>0, <1>6, <3>1, <3>2, ExpStill, IndexStill
         DEF Replace, Typed, SetsOK, CountOK
  <2> QED BY <2>2, <2>3
<1>7. CASE DropOld(c)
  <2>1. CallOK'
    BY <1>0, <1>7, CallEnd DEF DropOld
  <2> QED
    BY <1>0, <1>7, <2>1, ExpStill, IndexStill
       DEF DropOld, Typed, SetsOK, CountOK, history
<1>8. CASE FinishCancel(c)
  <2>1. CallOK'
    BY <1>0, <1>8, CallEnd DEF FinishCancel
  <2>2. used' \in Nat /\ surplus' \in Nat
    BY <1>0, <1>8, ReleaseTyped DEF FinishCancel
  <2> QED
    BY <1>0, <1>8, <2>1, <2>2, ExpStill, IndexStill
       DEF FinishCancel, Typed, SetsOK, CountOK
<1> QED
  BY <1>1, <1>2, <1>3, <1>4, <1>5, <1>6, <1>7, <1>8 DEF CallStep

LEMMA TypedService == ASSUME Typed, ExpStep PROVE Typed'
<1>0. CallOK /\ ExpOK /\ IndexOK /\ SetsOK /\ CountOK
  BY DEF Typed
<1>1. ASSUME NEW row \in ordered, TakeDue(row) PROVE Typed'
  <2>1. row \in RowType
    BY <1>0 DEF SetsOK
  <2>2. ExpOK'
    BY <1>1, <2>1 DEF TakeDue, ExpOK, ExpType
  <2> QED
    BY <1>0, <1>1, <2>2, CallStill, IndexStill
       DEF TakeDue, Typed, SetsOK, CountOK, history
<1>2. CASE CheckIndex
  <2>1. exp.row \in RowType /\ exp \in ExpType
    BY <1>0, <1>2 DEF CheckIndex, ExpOK
  <2>2. ExpOK'
    BY <1>2, <2>1 DEF CheckIndex, ExpOK, ExpType, IdleExp
  <2>3. stranded' \in SUBSET RowType
    BY <1>0, <1>2, <2>1 DEF CheckIndex, SetsOK
  <2> QED
    BY <1>0, <1>2, <2>2, <2>3, CallStill, IndexStill
       DEF CheckIndex, Typed, SetsOK, CountOK
<1>3. CASE DeleteIndex
  <2>1. exp.row \in RowType /\ exp \in ExpType
    BY <1>0, <1>3 DEF DeleteIndex, ExpOK
  <2>2. ExpOK'
    BY <1>3, <2>1 DEF DeleteIndex, ExpOK, ExpType
  <2>3. IndexOK'
    BY <1>0, <1>3, <2>1, IndexDrop DEF DeleteIndex, RowType
  <2> QED
    BY <1>0, <1>3, <2>2, <2>3, CallStill
       DEF DeleteIndex, Typed, SetsOK, CountOK, history
<1>4. CASE ReleaseAndDispatch
  <2>1. ExpOK'
    BY <1>4 DEF ReleaseAndDispatch, ExpOK, ExpType, IdleExp
  <2>2. used' \in Nat /\ surplus' \in Nat
    BY <1>0, <1>4, ReleaseTyped DEF ReleaseAndDispatch
  <2> QED
    BY <1>0, <1>4, <2>1, <2>2, CallStill, IndexStill
       DEF ReleaseAndDispatch, Typed, SetsOK, CountOK
<1> QED
  BY <1>1, <1>2, <1>3, <1>4 DEF ExpStep

LEMMA TypedNext == ASSUME Typed, [Next]_vars PROVE Typed'
<1>0. CallOK /\ ExpOK /\ IndexOK /\ SetsOK /\ CountOK
  BY DEF Typed
<1>1. CASE Tick
  BY <1>0, <1>1, CallStill, ExpStill, IndexStill
     DEF Tick, Typed, SetsOK, CountOK, history
<1>2. ASSUME NEW c \in Callers, NEW k \in Uses[c], Cancel(c, k) PROVE Typed'
  <2> DEFINE r == [IdleCall EXCEPT !.pc = "cancel", !.old = index[k]]
  <2>1. k \in Keys
    BY ExpiryConstants
  <2>2. index[k] \in RowType
    BY <1>0, <1>2, <2>1 DEF Cancel, IndexOK
  <2>3. r \in CallType /\ r.pc = "cancel" /\ r.old = index[k]
    BY <2>2 DEF CallType, IdleCall
  <2>4. call' = [call EXCEPT ![c] = r]
    BY <1>2 DEF Cancel
  <2>5. CallOK'
    <3> HIDE DEF r
    <3>1. r.pc \notin RowPcs
      BY <2>3 DEF RowPcs, TryPcs
    <3> QED BY <1>0, <2>2, <2>3, <2>4, <3>1, CallSet
  <2>6. IndexOK'
    BY <1>0, <1>2, <2>1, IndexDrop DEF Cancel
  <2> QED
    BY <1>0, <1>2, <2>5, <2>6, ExpStill
       DEF Cancel, Typed, SetsOK, CountOK
<1>3. ASSUME NEW c \in Callers, NEW k \in Uses[c], NEW ttl \in Ttls,
             Schedule(c, k, ttl)
      PROVE  Typed'
  <2>1. k \in Keys /\ now + ttl \in Nat /\ ordered \in SUBSET RowType
    BY <1>0, ExpiryConstants DEF CountOK, SetsOK
  <2>2. CallOK' /\ ordered' \in SUBSET RowType /\ sequence' \in Nat
    BY <1>0, <1>3, <2>1, TryTyped DEF Schedule
  <2> QED
    BY <1>0, <1>3, <2>2, ExpStill, IndexStill
       DEF Schedule, Typed, SetsOK, CountOK, history
<1>4. CASE UNCHANGED vars
  BY <1>0, <1>4, CallStill, ExpStill, IndexStill
     DEF vars, Typed, SetsOK, CountOK
<1> QED
  BY <1>1, <1>2, <1>3, <1>4, TypedCaller, TypedService DEF Next

(* Whatever races callers and the service run, every row is filed under    *)
(* its own key, and neither the entry count nor its surplus of releases    *)
(* goes below zero.                                                        *)
THEOREM ExpiryTypeCorrect == Spec => []TypeOK
<1>1. Typed /\ [Next]_vars => Typed'
  BY TypedNext
<1> QED
  BY <1>1, TypedInit, TypedIsTypeOK, PTL DEF Spec

-----------------------------------------------------------------------------
(* The accounting of slots.                                                *)
HoldPcs == {"undo", "claim", "give", "cancel"}
Spare == IF exp.pc = "release" THEN 1 ELSE 0

LEMMA CardPlus ==
  ASSUME NEW A, NEW B, IsFiniteSet(A), NEW x, x \notin A, B = A \cup {x}
  PROVE  Cardinality(B) = Cardinality(A) + 1
  BY FS_AddElement

LEMMA CardMinus ==
  ASSUME NEW A, NEW B, IsFiniteSet(A), NEW x, x \in A, B = A \ {x}
  PROVE  Cardinality(B) = Cardinality(A) - 1 /\ Cardinality(A) >= 1
<1>1. IsFiniteSet(B) /\ x \notin B /\ A = B \cup {x}
  BY FS_Subset
<1>2. Cardinality(A) = Cardinality(B) + 1
  BY <1>1, FS_AddElement
<1>3. Cardinality(B) \in Nat
  BY <1>1, FS_CardinalityType
<1> QED
  BY <1>2, <1>3

LEMMA Sizes ==
  /\ IsFiniteSet(Rows) /\ IsFiniteSet(Holding)
  /\ Cardinality(Rows) \in Nat /\ Cardinality(Holding) \in Nat
<1>1. Rows \subseteq Keys /\ Holding \subseteq Callers
  BY DEF Rows, Holding
<1> QED
  BY <1>1, ExpiryConstants, FS_Subset, FS_CardinalityType

(* What the caller's new record says of the slot in its hands.             *)
LEMMA HoldMove ==
  ASSUME CallOK, NEW c \in Callers, NEW r, call' = [call EXCEPT ![c] = r]
  PROVE  Holding' = IF r.pc \in HoldPcs THEN Holding \cup {c}
                                        ELSE Holding \ {c}
  BY DEF CallOK, Holding, HoldPcs

LEMMA HoldEnd ==
  ASSUME CallOK, NEW c \in Callers, End(c)
  PROVE  Holding' = Holding \ {c}
<1>1. IdleCall.pc \notin HoldPcs
  BY DEF IdleCall, HoldPcs
<1> QED
  BY <1>1, HoldMove DEF End

LEMMA HoldGoto ==
  ASSUME CallOK, NEW c \in Callers, NEW pc, Step(c, pc)
  PROVE  Holding' = IF pc \in HoldPcs THEN Holding \cup {c}
                                      ELSE Holding \ {c}
<1> DEFINE r == [call[c] EXCEPT !.pc = pc]
<1>1. call[c] \in CallType
  BY DEF CallOK
<1>2. r.pc = pc
  BY <1>1 DEF CallType
<1>3. call' = [call EXCEPT ![c] = r]
  BY DEF Step
<1> HIDE DEF r
<1> QED
  BY <1>2, <1>3, HoldMove

LEMMA HoldTry ==
  ASSUME CallOK, NEW c \in Callers, NEW k, NEW d, NEW n, NEW kept,
         Try(c, k, d, n, kept)
  PROVE  Holding' = Holding \ {c}
<1> DEFINE r == [pc |-> "lookup", row |-> Row(k, d, sequence + 1),
                 old |-> None, tries |-> n]
<1>1. call' = [call EXCEPT ![c] = r] /\ r.pc \notin HoldPcs
  BY DEF Try, HoldPcs
<1> HIDE DEF r
<1> QED
  BY <1>1, HoldMove

LEMMA HoldAgain ==
  ASSUME CallOK, NEW c \in Callers, Again(c)
  PROVE  Holding' = Holding \ {c}
  BY HoldTry, HoldEnd DEF Again

(* One slot given back takes one off what is accounted for, or cancels one *)
(* of the surplus; one given back twice changes only the split.            *)
LEMMA ReleaseOne ==
  ASSUME CountOK, Release(FALSE), used + surplus >= 1
  PROVE  used' + surplus' = (used + surplus) - 1
<1>1. used \in Nat /\ surplus \in Nat
  BY DEF CountOK
<1>2. /\ used' = IF used = 0 THEN 0 ELSE used - 1
      /\ surplus' = surplus - (IF used = 0 /\ surplus > 0 THEN 1 ELSE 0)
  BY <1>1 DEF Release
<1>3. CASE used = 0
  <2>1. used' = 0 /\ surplus' = surplus - 1
    BY <1>1, <1>2, <1>3
  <2> QED BY <1>1, <1>3, <2>1
<1>4. CASE used # 0
  <2>1. used' = used - 1 /\ surplus' = surplus
    BY <1>1, <1>2, <1>4
  <2> QED BY <1>1, <1>4, <2>1
<1> QED
  BY <1>3, <1>4

LEMMA ReleaseTwice ==
  ASSUME CountOK, Release(TRUE)
  PROVE  used' + surplus' = used + surplus
<1>1. used \in Nat /\ surplus \in Nat
  BY DEF CountOK
<1>2. CASE used = 0
  <2>1. used' = 0 /\ surplus' = (surplus + 1) - 1
    BY <1>1, <1>2 DEF Release
  <2> QED BY <1>1, <1>2, <2>1
<1>3. CASE used # 0
  <2>1. used' = used - 1 /\ surplus' = (surplus + 1) - 0
    BY <1>1, <1>3 DEF Release
  <2> QED BY <1>1, <1>3, <2>1
<1> QED
  BY <1>2, <1>3

(* The rows after the writes to the index.                                 *)
LEMMA RowsDrop ==
  ASSUME IndexOK, NEW k \in Keys, index' = [index EXCEPT ![k] = None]
  PROVE  Rows' = Rows \ {k}
  BY DEF IndexOK, Rows

LEMMA RowsAccept ==
  ASSUME IndexOK, NEW c \in Callers, call[c].row \in RowType,
         NEW replaced, Accept(c, replaced)
  PROVE  Rows' = Rows \cup {call[c].row.key}
<1>1. call[c].row.key \in Keys /\ call[c].row # None
  BY NoneIsNoRow DEF RowType
<1> QED
  BY <1>1 DEF Accept, IndexOK, Rows

LEMMA ExactInit == Init => UsedExact
<1> SUFFICES ASSUME Init PROVE UsedExact
  OBVIOUS
<1>1. Rows = {} /\ Holding = {}
  BY DEF Init, Rows, Holding, IdleCall
<1>2. used = 0 /\ surplus = 0 /\ exp.pc = "idle"
  BY DEF Init, IdleExp
<1> QED
  BY <1>1, <1>2, FS_EmptySet DEF UsedExact

(* The ways a step may move what is accounted for.                         *)
LEMMA ExactStill ==
  ASSUME UsedExact, UNCHANGED <<used, surplus>>, Rows' = Rows,
         Holding' = Holding, Spare' = Spare
  PROVE  UsedExact'
  BY DEF UsedExact, Spare

LEMMA ExactGiven ==
  ASSUME UsedExact, CountOK, Release(FALSE), Rows' = Rows, Spare' = Spare,
         NEW c \in Holding, Holding' = Holding \ {c}
  PROVE  UsedExact'
<1> DEFINE rows == Cardinality(Rows)  held == Cardinality(Holding)
           after == Cardinality(Holding')
<1>1. after = held - 1 /\ held >= 1 /\ rows \in Nat /\ held \in Nat
  BY Sizes, CardMinus
<1>2. Spare \in {0, 1} /\ used + surplus = rows + held + Spare
  BY DEF UsedExact, Spare
<1>3. used' + surplus' = (used + surplus) - 1
  BY <1>1, <1>2, ReleaseOne
<1>4. used' + surplus' = rows + after + Spare
  BY <1>1, <1>2, <1>3
<1> QED
  BY <1>4 DEF UsedExact, Spare

LEMMA ExactCaller ==
  ASSUME Typed, UsedExact, NEW c \in Callers, CallStep(c)
  PROVE  UsedExact'
<1>0. CallOK /\ ExpOK /\ IndexOK /\ SetsOK /\ CountOK
  BY DEF Typed
<1>has. /\ call[c].pc \in RowPcs => call[c].row \in RowType
        /\ call[c].pc \in OldPcs => call[c].old \in RowType
  BY <1>0, CallHas
<1>in. c \in Holding <=> call[c].pc \in HoldPcs
  BY DEF Holding, HoldPcs
<1>1. CASE LookupIndex(c)
  <2> DEFINE found == index[call[c].row.key]
             pc    == IF found = None THEN "reserve" ELSE "replace"
             r     == [call[c] EXCEPT !.pc = pc, !.old = found]
  <2>1. call[c] \in CallType
    BY <1>0, CallHas
  <2>2. r.pc \notin HoldPcs
    BY <2>1 DEF CallType, HoldPcs
  <2>3. call' = [call EXCEPT ![c] = r] /\ c \notin Holding
    BY <1>1, <1>in DEF LookupIndex, At, HoldPcs
  <2>4. Holding' = Holding
    <3> HIDE DEF r
    <3> QED BY <1>0, <2>2, <2>3, HoldMove
  <2> QED
    BY <1>1, <2>4, ExactStill DEF LookupIndex, Rows, Spare, history
<1>2. CASE Reserve(c)
  <2>1. c \notin Holding
    BY <1>2, <1>in DEF Reserve, At, HoldPcs
  <2>2. PICK pc \in {"claim", "undo"} : Step(c, pc)
    BY <1>2 DEF Reserve
  <2>3. Holding' = Holding \cup {c}
    BY <1>0, <2>2, HoldGoto DEF HoldPcs
  <2> DEFINE after == Cardinality(Holding')
  <2>4. after = Cardinality(Holding) + 1
    BY <2>1, <2>3, Sizes, CardPlus
  <2>5. used' = used + 1 /\ surplus' = surplus /\ Rows' = Rows /\ Spare' = Spare
    BY <1>2 DEF Reserve, Rows, Spare, history
  <2>6. used + surplus = Cardinality(Rows) + Cardinality(Holding) + Spare
    BY DEF UsedExact, Spare
  <2>7. Spare \in {0, 1} /\ used \in Nat /\ surplus \in Nat
    BY <1>0 DEF Spare, CountOK
  <2>8. (used + 1) + surplus = Cardinality(Rows) + after + Spare
    BY <2>4, <2>6, <2>7, Sizes
  <2> QED
    BY <2>5, <2>8 DEF UsedExact, Spare
<1>3. CASE UndoReserve(c)
  <2>1. c \in Holding
    BY <1>3, <1>in DEF UndoReserve, At, HoldPcs
  <2>2. Holding' = Holding \ {c} /\ Rows' = Rows /\ Spare' = Spare
    BY <1>0, <1>3, HoldEnd DEF UndoReserve, Rows, Spare
  <2> QED
    BY <1>0, <1>3, <2>1, <2>2, ExactGiven DEF UndoReserve
<1>4. CASE Claim(c)
  <2>1. call[c].row \in RowType
    BY <1>4, <1>has DEF Claim, At, RowPcs, TryPcs
  <2>2. c \in Holding
    BY <1>4, <1>in DEF Claim, At, HoldPcs
  <2>3. CASE index[call[c].row.key] = None
    <3> DEFINE k == call[c].row.key
               rows == Cardinality(Rows')  held == Cardinality(Holding')
    <3>1. Accept(c, {}) /\ End(c)
      BY <1>4, <2>3 DEF Claim
    <3>2. Rows' = Rows \cup {k}
      BY <1>0, <2>1, <3>1, RowsAccept
    <3>3. Holding' = Holding \ {c}
      BY <1>0, <3>1, HoldEnd
    <3>4. k \notin Rows
      BY <2>3 DEF Rows
    <3>5. rows = Cardinality(Rows) + 1
      BY <3>2, <3>4, Sizes, CardPlus
    <3>6. held = Cardinality(Holding) - 1
      BY <2>2, <3>3, Sizes, CardMinus
    <3>7. used' = used /\ surplus' = surplus /\ Spare' = Spare
      BY <1>4 DEF Claim, Spare
    <3>8. used + surplus = Cardinality(Rows) + Cardinality(Holding) + Spare
      BY DEF UsedExact, Spare
    <3>9. Spare \in {0, 1}
      BY DEF Spare
    <3>10. used + surplus = rows + held + Spare
      <4> HIDE DEF rows, held
      <4> QED BY <3>5, <3>6, <3>8, <3>9, Sizes
    <3> QED
      BY <3>7, <3>10 DEF UsedExact, Spare
  <2>4. CASE index[call[c].row.key] # None
    <3>1. Step(c, "give")
      BY <1>4, <2>4 DEF Claim
    <3>2. Holding' = Holding
      BY <1>0, <2>2, <3>1, HoldGoto DEF HoldPcs
    <3> QED
      BY <1>4, <2>4, <3>2, ExactStill DEF Claim, Rows, Spare
  <2> QED BY <2>3, <2>4
<1>5. CASE GiveSlot(c)
  <2>1. c \in Holding
    BY <1>5, <1>in DEF GiveSlot, At, HoldPcs
  <2>2. Holding' = Holding \ {c} /\ Rows' = Rows /\ Spare' = Spare
    BY <1>0, <1>5, HoldAgain DEF GiveSlot, Rows, Spare
  <2> QED
    BY <1>0, <1>5, <2>1, <2>2, ExactGiven DEF GiveSlot
<1>6. CASE Replace(c)
  <2>1. call[c].row \in RowType /\ call[c].old \in RowType
    BY <1>6, <1>has DEF Replace, At, RowPcs, TryPcs, OldPcs
  <2>2. c \notin Holding
    BY <1>6, <1>in DEF Replace, At, HoldPcs
  <2>3. CASE index[call[c].row.key] = call[c].old
    <3>1. Accept(c, {call[c].old}) /\ Step(c, "drop_old")
      BY <1>6, <2>3 DEF Replace
    <3>2. call[c].row.key \in Rows
      BY <2>1, <2>3, NoneIsNoRow DEF Rows, RowType
    <3>3. Rows' = Rows
      BY <1>0, <2>1, <3>1, <3>2, RowsAccept
    <3>4. Holding' = Holding
      BY <1>0, <2>2, <3>1, HoldGoto DEF HoldPcs
    <3> QED
      BY <1>6, <3>3, <3>4, ExactStill DEF Replace, Spare
  <2>4. CASE index[call[c].row.key] # call[c].old
    <3>1. Again(c) /\ Rows' = Rows
      BY <1>6, <2>4 DEF Replace, Rows
    <3>2. Holding' = Holding
      BY <1>0, <2>2, <3>1, HoldAgain
    <3> QED
      BY <1>6, <3>1, <3>2, ExactStill DEF Replace, Spare
  <2> QED BY <2>3, <2>4
<1>7. CASE DropOld(c)
  <2>1. c \notin Holding
    BY <1>7, <1>in DEF DropOld, At, HoldPcs
  <2>2. Holding' = Holding
    BY <1>0, <1>7, <2>1, HoldEnd DEF DropOld
  <2> QED
    BY <1>7, <2>2, ExactStill DEF DropOld, Rows, Spare, history
<1>8. CASE FinishCancel(c)
  <2>1. c \in Holding
    BY <1>8, <1>in DEF FinishCancel, At, HoldPcs
  <2>2. Holding' = Holding \ {c} /\ Rows' = Rows /\ Spare' = Spare
    BY <1>0, <1>8, HoldEnd DEF FinishCancel, Rows, Spare
  <2> QED
    BY <1>0, <1>8, <2>1, <2>2, ExactGiven DEF FinishCancel
<1> QED
  BY <1>1, <1>2, <1>3, <1>4, <1>5, <1>6, <1>7, <1>8 DEF CallStep

LEMMA ExactService == ASSUME Typed, UsedExact, ExpStep PROVE UsedExact'
<1>0. CallOK /\ ExpOK /\ IndexOK /\ SetsOK /\ CountOK
  BY DEF Typed
<1>sum. /\ used + surplus = Cardinality(Rows) + Cardinality(Holding) + Spare
        /\ Spare \in {0, 1}
  BY DEF UsedExact, Spare
<1>1. ASSUME NEW row \in ordered, TakeDue(row) PROVE UsedExact'
  <2>1. Rows' = Rows /\ Holding' = Holding /\ Spare' = Spare
    BY <1>1 DEF TakeDue, Rows, Holding, Spare
  <2> QED
    BY <1>1, <2>1, ExactStill DEF TakeDue, history
<1>2. CASE CheckIndex
  <2>1. Spare' = 0 /\ Spare = 0
    BY <1>0, <1>2 DEF CheckIndex, ExpOK, ExpType, IdleExp, Spare
  <2>2. Rows' = Rows /\ Holding' = Holding
    BY <1>2 DEF CheckIndex, Rows, Holding
  <2> QED
    BY <1>2, <2>1, <2>2, ExactStill DEF CheckIndex
<1>3. CASE DeleteIndex
  <2> DEFINE k == exp.row.key  rows == Cardinality(Rows')
  <2>1. k \in Keys /\ exp \in ExpType
    BY <1>0, <1>3 DEF DeleteIndex, ExpOK, RowType
  <2>2. Rows' = Rows \ {k} /\ Holding' = Holding
    BY <1>0, <1>3, <2>1, RowsDrop DEF DeleteIndex, Holding
  <2>3. used' = used /\ surplus' = surplus /\ Spare = 0
    BY <1>3 DEF DeleteIndex, history, Spare
  <2>4. CASE index[k] = None
    <3>1. Rows' = Rows /\ Spare' = 0
      BY <1>3, <2>1, <2>2, <2>4 DEF DeleteIndex, Rows, ExpType, Spare
    <3> QED BY <2>2, <2>3, <3>1, ExactStill
  <2>5. CASE index[k] # None
    <3>1. Spare' = 1 /\ k \in Rows
      BY <1>3, <2>1, <2>5 DEF DeleteIndex, Rows, ExpType, Spare
    <3>2. rows = Cardinality(Rows) - 1
      BY <2>2, <3>1, Sizes, CardMinus
    <3>3. used + surplus = rows + Cardinality(Holding) + 1
      <4> HIDE DEF rows
      <4> QED BY <1>sum, <2>3, <3>2, Sizes
    <3> QED
      BY <2>2, <2>3, <3>1, <3>3 DEF UsedExact, Spare
  <2> QED BY <2>4, <2>5
<1>4. CASE ReleaseAndDispatch
  <2>1. Rows' = Rows /\ Holding' = Holding /\ Spare' = 0
    BY <1>4 DEF ReleaseAndDispatch, Rows, Holding, Spare, IdleExp
  <2>2. CASE exp.pc = "release"
    <3>1. Release(FALSE) /\ Spare = 1
      BY <1>4, <2>2 DEF ReleaseAndDispatch, Spare
    <3>2. used + surplus >= 1
      BY <1>sum, <3>1, Sizes
    <3>3. used' + surplus' = (used + surplus) - 1
      BY <1>0, <3>1, <3>2, ReleaseOne
    <3>4. used' + surplus' = Cardinality(Rows) + Cardinality(Holding) + 0
      BY <1>sum, <3>1, <3>3, Sizes
    <3> QED BY <2>1, <3>4 DEF UsedExact, Spare
  <2>3. CASE exp.pc # "release"
    <3>1. Release(TRUE) /\ Spare = 0
      BY <1>4, <2>3 DEF ReleaseAndDispatch, Spare
    <3>2. used' + surplus' = used + surplus
      BY <1>0, <3>1, ReleaseTwice
    <3>3. used' + surplus' = Cardinality(Rows) + Cardinality(Holding) + 0
      BY <1>sum, <3>1, <3>2
    <3> QED BY <2>1, <3>3 DEF UsedExact, Spare
  <2> QED BY <2>2, <2>3
<1> QED
  BY <1>1, <1>2, <1>3, <1>4 DEF ExpStep

LEMMA ExactNext == ASSUME Typed, UsedExact, [Next]_vars PROVE UsedExact'
<1>0. CallOK /\ IndexOK /\ CountOK
  BY DEF Typed
<1>1. CASE Tick
  <2>1. Rows' = Rows /\ Holding' = Holding /\ Spare' = Spare
    BY <1>1 DEF Tick, Rows, Holding, Spare
  <2> QED BY <1>1, <2>1, ExactStill DEF Tick, history
<1>2. ASSUME NEW c \in Callers, NEW k \in Uses[c], Cancel(c, k)
      PROVE  UsedExact'
  <2> DEFINE r == [IdleCall EXCEPT !.pc = "cancel", !.old = index[k]]
             rows == Cardinality(Rows')  held == Cardinality(Holding')
  <2>1. k \in Keys /\ k \in Rows
    BY <1>2, ExpiryConstants DEF Cancel, Rows
  <2>2. Rows' = Rows \ {k}
    BY <1>0, <1>2, <2>1, RowsDrop DEF Cancel
  <2>3. call' = [call EXCEPT ![c] = r] /\ r.pc \in HoldPcs
    BY <1>2 DEF Cancel, IdleCall, HoldPcs
  <2>4. Holding' = Holding \cup {c} /\ c \notin Holding
    <3> HIDE DEF r
    <3>1. c \notin Holding
      BY <1>2 DEF Cancel, At, Holding
    <3> QED BY <1>0, <2>3, <3>1, HoldMove
  <2>5. rows = Cardinality(Rows) - 1
    BY <2>1, <2>2, Sizes, CardMinus
  <2>6. held = Cardinality(Holding) + 1
    BY <2>4, Sizes, CardPlus
  <2>7. used' = used /\ surplus' = surplus /\ Spare' = Spare
    BY <1>2 DEF Cancel, Spare
  <2>8. /\ used + surplus = Cardinality(Rows) + Cardinality(Holding) + Spare
        /\ Spare \in {0, 1}
    BY DEF UsedExact, Spare
  <2>9. used + surplus = rows + held + Spare
    <3> HIDE DEF rows, held
    <3> QED BY <2>5, <2>6, <2>8, Sizes
  <2> QED BY <2>7, <2>9 DEF UsedExact, Spare
<1>3. ASSUME NEW c \in Callers, NEW k \in Uses[c], NEW ttl \in Ttls,
             Schedule(c, k, ttl)
      PROVE  UsedExact'
  <2>1. Holding' = Holding \ {c} /\ c \notin Holding
    BY <1>0, <1>3, HoldTry DEF Schedule, At, Holding
  <2>2. Rows' = Rows /\ Spare' = Spare
    BY <1>3 DEF Schedule, Rows, Spare
  <2> QED BY <1>3, <2>1, <2>2, ExactStill DEF Schedule, history
<1>4. CASE UNCHANGED vars
  <2>1. Rows' = Rows /\ Holding' = Holding /\ Spare' = Spare
    BY <1>4 DEF vars, Rows, Holding, Spare
  <2> QED BY <1>4, <2>1, ExactStill DEF vars
<1> QED
  BY <1>1, <1>2, <1>3, <1>4, ExactCaller, ExactService DEF Next

(* The entry count of the expiry service differs from the deadlines it     *)
(* holds by exactly the slots in hands and the releases made twice: a lost *)
(* claim, a full service, a moved deadline and every other race of         *)
(* schedule, cancel and the tick leave no slot behind.                     *)
THEOREM EntryAccounting == Spec => []UsedExact
<1>1. (Typed /\ UsedExact) /\ [Next]_vars => (Typed /\ UsedExact)'
  BY TypedNext, ExactNext
<1> QED
  BY <1>1, TypedInit, ExactInit, PTL DEF Spec

-----------------------------------------------------------------------------
(* What keeps the promises: tokens tell the rows apart, so that a row that *)
(* is being entered is nobody else's, and one that is being withdrawn is   *)
(* no promise.                                                             *)
Trying(c)   == call[c].pc \in TryPcs
Dropping(c) == call[c].pc \in {"drop_old", "cancel"}

Tokens ==
  /\ \A row \in owed : row.token <= sequence
  /\ \A k \in Keys : index[k] # None => index[k].token <= sequence
  /\ \A c \in Callers : /\ Trying(c) => call[c].row.token <= sequence
                        /\ Dropping(c) => call[c].old.token <= sequence

Apart ==
  \A c \in Callers : Trying(c) =>
    /\ call[c].row \notin owed
    /\ \A k \in Keys : index[k] # call[c].row
    /\ \A d \in Callers : /\ Trying(d) /\ d # c => call[d].row # call[c].row
                          /\ Dropping(d) => call[d].old # call[c].row

Gone == \A c \in Callers : Dropping(c) => call[c].old \notin owed

Known == Tokens /\ Apart /\ Gone

Entering(c) == call[c].pc \in {"lookup", "reserve", "claim", "replace"}

(* A row on its way into the index is in the ordered table already, or the *)
(* service has just taken it from there.                                   *)
Placed ==
  \A c \in Callers :
    Entering(c) =>
      \/ call[c].row \in ordered \cup stranded
      \/ exp.pc = "check" /\ exp.row = call[c].row

(* A promise the service has taken as due is still in the index, and what  *)
(* it deletes in the place of another row is lost.                         *)
Caught == exp.pc = "check" /\ exp.row \in owed =>
            index[exp.row.key] = exp.row \/ exp.row \in lost
Displaced ==
  exp.pc = "delete" =>
    LET row == index[exp.row.key]
    IN  row # exp.row /\ row \in owed => row \in lost

Kept == Placed /\ Caught /\ Displaced /\ PromisesKept

(* The kinds of step a caller takes, as far as rows and promises go: one   *)
(* goes on with its row or withdraws it, one has a new row, one enters its *)
(* row in the index, one takes a row from there.                           *)
Others(c)   == \A d \in Callers : d # c => call'[d] = call[d]
Still       == UNCHANGED <<index, owed, lost, stranded, exp>>

Passes(c) ==
  /\ Others(c) /\ Still /\ sequence' = sequence
  /\ Trying(c)' => Trying(c) /\ call'[c].row = call[c].row
  /\ Dropping(c)' => Dropping(c) /\ call'[c].old = call[c].old
  /\ \/ ordered \subseteq ordered' /\ (Entering(c)' => Entering(c))
     \/ Trying(c) /\ ordered \ {call[c].row} \subseteq ordered' /\ ~Trying(c)'
     \/ Dropping(c) /\ ordered \ {call[c].old} \subseteq ordered' /\ ~Trying(c)'

Renews(c) ==
  /\ Others(c) /\ Still /\ sequence' = sequence + 1
  /\ call'[c].pc = "lookup" /\ call'[c].row.token = sequence + 1
  /\ call'[c].row \in ordered'
  /\ \/ ordered \subseteq ordered'
     \/ Trying(c) /\ ordered \ {call[c].row} \subseteq ordered'

Enters(c) ==
  LET row == call[c].row  found == index[row.key]
  IN /\ Others(c) /\ UNCHANGED <<ordered, stranded, exp, sequence>>
     /\ Entering(c) /\ ~Trying(c)'
     /\ Dropping(c)' => found # None /\ call'[c].old = found
     /\ Accept(c, {found})

Withdraws(c, k) ==
  /\ Others(c) /\ UNCHANGED <<ordered, lost, stranded, exp, sequence>>
  /\ index[k] # None /\ ~Trying(c)' /\ call'[c].old = index[k]
  /\ index' = [index EXCEPT ![k] = None] /\ owed' = owed \ {index[k]}

LEMMA CallIs ==
  ASSUME CallOK, NEW c \in Callers, NEW r, call' = [call EXCEPT ![c] = r]
  PROVE  Others(c) /\ call'[c] = r
  BY DEF CallOK, Others

LEMMA CallEnds ==
  ASSUME CallOK, NEW c \in Callers, End(c)
  PROVE  Others(c) /\ ~Trying(c)' /\ ~Dropping(c)'
<1>1. IdleCall.pc = "idle"
  BY DEF IdleCall
<1> QED
  BY <1>1, CallIs DEF End, Trying, Dropping, TryPcs

LEMMA CallGoes ==
  ASSUME CallOK, NEW c \in Callers, NEW pc, Step(c, pc)
  PROVE  /\ Others(c) /\ call'[c].pc = pc
         /\ call'[c].row = call[c].row /\ call'[c].old = call[c].old
<1> DEFINE r == [call[c] EXCEPT !.pc = pc]
<1>1. r.pc = pc /\ r.row = call[c].row /\ r.old = call[c].old
  BY DEF CallOK, CallType
<1>2. call' = [call EXCEPT ![c] = r]
  BY DEF Step
<1> HIDE DEF r
<1> QED
  BY <1>1, <1>2, CallIs

LEMMA TryRenews ==
  ASSUME CallOK, Still, NEW c \in Callers, NEW k, NEW d, NEW n, NEW kept,
         \/ ordered \subseteq kept
         \/ Trying(c) /\ ordered \ {call[c].row} \subseteq kept,
         Try(c, k, d, n, kept)
  PROVE  Renews(c)
<1> DEFINE row == Row(k, d, sequence + 1)
           r   == [pc |-> "lookup", row |-> row, old |-> None, tries |-> n]
<1>1. row.token = sequence + 1 /\ r.pc = "lookup" /\ r.row = row
  BY DEF Row
<1>2. /\ call' = [call EXCEPT ![c] = r] /\ sequence' = sequence + 1
      /\ ordered' = kept \cup {row}
  BY DEF Try
<1> HIDE DEF r, row
<1>3. Others(c) /\ call'[c] = r
  BY <1>2, CallIs
<1> QED
  BY <1>1, <1>2, <1>3 DEF Renews

LEMMA AgainMoves ==
  ASSUME CallOK, Still, NEW c \in Callers, Trying(c), Again(c)
  PROVE  Passes(c) \/ Renews(c)
<1> DEFINE row == call[c].row  kept == ordered \ {row}
<1>1. CASE call[c].tries + 1 < MaxTries
  <2>1. Try(c, row.key, row.at, call[c].tries + 1, kept)
    BY <1>1 DEF Again
  <2> QED BY <2>1, TryRenews
<1>2. CASE ~(call[c].tries + 1 < MaxTries)
  <2>1. End(c) /\ ordered' = kept /\ sequence' = sequence
    BY <1>2 DEF Again
  <2> QED BY <2>1, CallEnds DEF Passes
<1> QED BY <1>1, <1>2

LEMMA CallerMoves ==
  ASSUME Typed, NEW c \in Callers, CallStep(c)
  PROVE  Passes(c) \/ Renews(c) \/ Enters(c)
<1>0. CallOK /\ ExpOK /\ IndexOK /\ SetsOK /\ CountOK
  BY DEF Typed
<1>has. /\ call[c].pc \in RowPcs => call[c].row \in RowType
        /\ call[c].pc \in OldPcs => call[c].old \in RowType
  BY <1>0, CallHas
<1>1. CASE LookupIndex(c)
  <2> DEFINE found == index[call[c].row.key]
             pc    == IF found = None THEN "reserve" ELSE "replace"
             r     == [call[c] EXCEPT !.pc = pc, !.old = found]
  <2>1. call[c] \in CallType
    BY <1>0, CallHas
  <2>2. r.pc = pc /\ r.row = call[c].row
    BY <2>1 DEF CallType
  <2>3. call' = [call EXCEPT ![c] = r]
    BY <1>1 DEF LookupIndex
  <2>4. Others(c) /\ call'[c].pc = pc /\ call'[c].row = call[c].row
    <3> HIDE DEF r, pc
    <3> QED BY <1>0, <2>2, <2>3, CallIs
  <2>5. ~Dropping(c)' /\ Trying(c) /\ Entering(c)
    BY <1>1, <2>4 DEF LookupIndex, At, Dropping, Trying, Entering, TryPcs
  <2> QED
    BY <1>1, <2>4, <2>5 DEF LookupIndex, Passes, Still, history
<1>2. CASE Reserve(c)
  <2>1. PICK pc \in {"claim", "undo"} : Step(c, pc)
    BY <1>2 DEF Reserve
  <2>2. /\ Others(c) /\ call'[c].pc = pc
        /\ call'[c].row = call[c].row /\ call'[c].old = call[c].old
    BY <1>0, <2>1, CallGoes
  <2>3. ~Dropping(c)' /\ Trying(c) /\ Entering(c)
    BY <1>2, <2>2 DEF Reserve, At, Dropping, Trying, Entering, TryPcs
  <2> QED
    BY <1>2, <2>2, <2>3 DEF Reserve, Passes, Still, history
<1>3. CASE UndoReserve(c)
  <2>1. Trying(c)
    BY <1>3 DEF UndoReserve, At, Trying, TryPcs
  <2>2. Others(c) /\ ~Trying(c)' /\ ~Dropping(c)'
    BY <1>0, <1>3, CallEnds DEF UndoReserve
  <2> QED
    BY <1>3, <2>1, <2>2 DEF UndoReserve, Passes, Still
<1>4. CASE Claim(c)
  <2> DEFINE row == call[c].row
  <2>1. Trying(c) /\ Entering(c)
    BY <1>4 DEF Claim, At, Trying, Entering, TryPcs
  <2>2. CASE index[row.key] = None
    <3>1. Accept(c, {}) /\ End(c)
      BY <1>4, <2>2 DEF Claim
    <3>2. Others(c) /\ ~Trying(c)' /\ ~Dropping(c)'
      BY <1>0, <3>1, CallEnds
    <3>3. owed \ {} = owed \ {index[row.key]}
      BY <1>0, <2>2, NoneIsNoRow DEF SetsOK
    <3>4. Accept(c, {index[row.key]})
      BY <3>1, <3>3 DEF Accept
    <3>5. UNCHANGED <<ordered, stranded, exp, sequence>>
      BY <1>4 DEF Claim
    <3> QED BY <2>1, <3>2, <3>4, <3>5 DEF Enters
  <2>3. CASE index[row.key] # None
    <3>1. Step(c, "give") /\ Still
      BY <1>4, <2>3 DEF Claim, Still
    <3>2. /\ Others(c) /\ call'[c].pc = "give"
          /\ call'[c].row = call[c].row /\ call'[c].old = call[c].old
      BY <1>0, <3>1, CallGoes
    <3>3. ~Dropping(c)'
      BY <3>2 DEF Dropping
    <3> QED BY <1>4, <2>1, <3>1, <3>2, <3>3 DEF Claim, Passes
  <2> QED BY <2>2, <2>3
<1>5. CASE GiveSlot(c)
  <2>1. Trying(c) /\ Still /\ Again(c)
    BY <1>5 DEF GiveSlot, At, Trying, TryPcs, Still
  <2> QED BY <1>0, <2>1, AgainMoves
<1>6. CASE Replace(c)
  <2> DEFINE row == call[c].row  found == index[row.key]
  <2>1. Trying(c) /\ Entering(c) /\ call[c].old \in RowType
    BY <1>6, <1>has DEF Replace, At, Trying, Entering, TryPcs, OldPcs
  <2>2. CASE found = call[c].old
    <3>1. Accept(c, {found}) /\ Step(c, "drop_old")
      BY <1>6, <2>2 DEF Replace
    <3>2. /\ Others(c) /\ call'[c].pc = "drop_old"
          /\ call'[c].row = call[c].row /\ call'[c].old = call[c].old
      BY <1>0, <3>1, CallGoes
    <3>3. ~Trying(c)' /\ found # None /\ call'[c].old = found
      BY <2>1, <2>2, <3>2, NoneIsNoRow DEF Trying, TryPcs
    <3>4. UNCHANGED <<ordered, stranded, exp, sequence>>
      BY <1>6, <2>2 DEF Replace
    <3> QED BY <2>1, <3>1, <3>2, <3>3, <3>4 DEF Enters
  <2>3. CASE found # call[c].old
    <3>1. Again(c) /\ Still
      BY <1>6, <2>3 DEF Replace, Still
    <3> QED BY <1>0, <2>1, <3>1, AgainMoves
  <2> QED BY <2>2, <2>3
<1>7. CASE DropOld(c)
  <2>1. Dropping(c)
    BY <1>7 DEF DropOld, At, Dropping
  <2>2. Others(c) /\ ~Trying(c)' /\ ~Dropping(c)'
    BY <1>0, <1>7, CallEnds DEF DropOld
  <2> QED
    BY <1>7, <2>1, <2>2 DEF DropOld, Passes, Still, history
<1>8. CASE FinishCancel(c)
  <2>1. Dropping(c)
    BY <1>8 DEF FinishCancel, At, Dropping
  <2>2. Others(c) /\ ~Trying(c)' /\ ~Dropping(c)'
    BY <1>0, <1>8, CallEnds DEF FinishCancel
  <2> QED
    BY <1>8, <2>1, <2>2 DEF FinishCancel, Passes, Still
<1> QED
  BY <1>1, <1>2, <1>3, <1>4, <1>5, <1>6, <1>7, <1>8 DEF CallStep

-----------------------------------------------------------------------------
(* Known is inductive.                                                     *)
LEMMA RowsAreRows ==
  ASSUME CallOK, NEW c \in Callers
  PROVE  /\ Trying(c) => call[c].row \in RowType /\ call[c].row # None
         /\ Dropping(c) => call[c].old \in RowType
  BY NoneIsNoRow DEF CallOK, Trying, Dropping, RowPcs, OldPcs

LEMMA KnownStill ==
  ASSUME Known, CallOK, owed' \subseteq owed, sequence' = sequence,
         \A k \in Keys : index'[k] \in {None, index[k]},
         \A c \in Callers :
           /\ Trying(c)' => Trying(c) /\ call'[c].row = call[c].row
           /\ Dropping(c)' => Dropping(c) /\ call'[c].old = call[c].old
  PROVE  Known'
<1>1. Tokens'
  BY DEF Known, Tokens
<1>2. Apart'
  <2> SUFFICES ASSUME NEW c \in Callers, Trying(c)'
               PROVE  /\ call'[c].row \notin owed'
                      /\ \A k \in Keys : index'[k] # call'[c].row
                      /\ \A d \in Callers :
                           /\ Trying(d)' /\ d # c => call'[d].row # call'[c].row
                           /\ Dropping(d)' => call'[d].old # call'[c].row
    BY DEF Apart
  <2>1. Trying(c) /\ call'[c].row = call[c].row /\ call[c].row # None
    BY RowsAreRows
  <2> QED BY <2>1 DEF Known, Apart
<1>3. Gone'
  BY DEF Known, Gone
<1> QED BY <1>1, <1>2, <1>3 DEF Known

LEMMA KnownPasses ==
  ASSUME Known, CallOK, NEW c \in Callers, Passes(c)
  PROVE  Known'
<1>1. \A d \in Callers :
        /\ Trying(d)' => Trying(d) /\ call'[d].row = call[d].row
        /\ Dropping(d)' => Dropping(d) /\ call'[d].old = call[d].old
  BY DEF Passes, Others, Trying, Dropping
<1> QED BY <1>1, KnownStill DEF Passes, Still

LEMMA KnownRenews ==
  ASSUME Known, Typed, CallOK', NEW c \in Callers, Renews(c)
  PROVE  Known'
<1> DEFINE new == call'[c].row
<1>1. /\ new.token = sequence + 1 /\ sequence' = sequence + 1
      /\ ~Dropping(c)' /\ Trying(c)'
      /\ owed' = owed /\ index' = index
  BY DEF Renews, Still, Dropping, Trying, TryPcs
<1>2. \A d \in Callers : d # c => call'[d] = call[d]
  BY DEF Renews, Others
<1>3. /\ sequence \in Nat /\ \A row \in owed : row.token \in Nat
      /\ \A k \in Keys : index[k] # None => index[k].token \in Nat
      /\ \A d \in Callers : /\ Trying(d) => call[d].row.token \in Nat
                            /\ Dropping(d) => call[d].old.token \in Nat
  BY RowsAreRows DEF Typed, CountOK, SetsOK, IndexOK, RowType
<1>4. Tokens'
  <2>1. \A row \in owed' : row.token <= sequence'
    BY <1>1, <1>3 DEF Known, Tokens
  <2>2. \A k \in Keys : index'[k] # None => index'[k].token <= sequence'
    BY <1>1, <1>3 DEF Known, Tokens
  <2>3. ASSUME NEW d \in Callers
        PROVE  /\ Trying(d)' => call'[d].row.token <= sequence'
               /\ Dropping(d)' => call'[d].old.token <= sequence'
    <3>1. CASE d = c
      BY <1>1, <1>3, <3>1
    <3>2. CASE d # c
      <4>1. call'[d] = call[d]
        BY <1>2, <3>2
      <4> QED BY <1>1, <1>3, <4>1 DEF Known, Tokens, Trying, Dropping
    <3> QED BY <3>1, <3>2
  <2> QED BY <2>1, <2>2, <2>3 DEF Tokens
<1>5. /\ new \notin owed /\ \A k \in Keys : index[k] # None => index[k] # new
      /\ \A d \in Callers : /\ Trying(d) => call[d].row # new
                            /\ Dropping(d) => call[d].old # new
  <2>1. \A row : row.token \in Nat /\ row.token <= sequence => row # new
    BY <1>1, <1>3
  <2> HIDE DEF new
  <2> QED BY <1>3, <2>1 DEF Known, Tokens
<1>6. new # None
  BY <1>1, NoneIsNoRow DEF CallOK, Trying, RowPcs
<1>7. Apart'
  <2> SUFFICES ASSUME NEW e \in Callers, Trying(e)'
               PROVE  /\ call'[e].row \notin owed'
                      /\ \A k \in Keys : index'[k] # call'[e].row
                      /\ \A d \in Callers :
                           /\ Trying(d)' /\ d # e => call'[d].row # call'[e].row
                           /\ Dropping(d)' => call'[d].old # call'[e].row
    BY DEF Apart
  <2>1. CASE e = c
    <3> HIDE DEF new
    <3>1. call'[e].row = new
      BY <2>1 DEF new
    <3> QED BY <1>1, <1>2, <1>5, <1>6, <2>1, <3>1 DEF Trying, Dropping
  <2>2. CASE e # c
    <3>1. call'[e] = call[e] /\ Trying(e)
      BY <1>2, <2>2 DEF Trying
    <3>2. ASSUME NEW d \in Callers
          PROVE  /\ Trying(d)' /\ d # e => call'[d].row # call[e].row
                 /\ Dropping(d)' => call'[d].old # call[e].row
      <4>1. CASE d = c
        BY <1>1, <1>5, <3>1, <4>1
      <4>2. CASE d # c
        <5>1. call'[d] = call[d]
          BY <1>2, <4>2
        <5> QED BY <3>1, <5>1 DEF Known, Apart, Trying, Dropping
      <4> QED BY <4>1, <4>2
    <3> QED BY <1>1, <3>1, <3>2 DEF Known, Apart
  <2> QED BY <2>1, <2>2
<1>8. Gone'
  BY <1>1, <1>2 DEF Known, Gone, Dropping
<1> QED BY <1>4, <1>7, <1>8 DEF Known

LEMMA KnownEnters ==
  ASSUME Known, Typed, NEW c \in Callers, Enters(c)
  PROVE  Known'
<1> DEFINE row == call[c].row  found == index[row.key]
<1>1. /\ Trying(c) /\ ~Trying(c)' /\ sequence' = sequence
      /\ Dropping(c)' => found # None /\ call'[c].old = found
      /\ index' = [index EXCEPT ![row.key] = row]
      /\ owed' = (owed \ {found}) \cup {row}
  BY DEF Enters, Accept, Entering, Trying, TryPcs
<1>2. \A d \in Callers : d # c => call'[d] = call[d]
  BY DEF Enters, Others
<1>3. row \in RowType /\ row.key \in Keys /\ row # None
  BY <1>1, RowsAreRows DEF Typed, RowType
<1>4. \A k \in Keys : index'[k] = IF k = row.key THEN row ELSE index[k]
  BY <1>1, <1>3 DEF Typed, IndexOK
<1>5. /\ row \notin owed /\ found # row /\ row.token <= sequence
      /\ found # None => found.token <= sequence
      /\ \A d \in Callers : /\ Trying(d) /\ d # c => call[d].row # row
                            /\ Dropping(d) => call[d].old # row
  BY <1>1, <1>3 DEF Known, Apart, Tokens
<1> HIDE DEF row, found
<1>6. Tokens'
  <2>1. ASSUME NEW d \in Callers
        PROVE  /\ Trying(d)' => call'[d].row.token <= sequence'
               /\ Dropping(d)' => call'[d].old.token <= sequence'
    <3>1. CASE d = c
      BY <1>1, <1>5, <3>1
    <3>2. CASE d # c
      BY <1>1, <1>2, <3>2 DEF Known, Tokens, Trying, Dropping
    <3> QED BY <3>1, <3>2
  <2>2. \A r \in owed' : r.token <= sequence'
    BY <1>1, <1>5 DEF Known, Tokens
  <2>3. \A k \in Keys : index'[k] # None => index'[k].token <= sequence'
    BY <1>1, <1>4, <1>5 DEF Known, Tokens
  <2> QED BY <2>1, <2>2, <2>3 DEF Tokens
<1>7. Apart'
  <2> SUFFICES ASSUME NEW e \in Callers, Trying(e)'
               PROVE  /\ call'[e].row \notin owed'
                      /\ \A k \in Keys : index'[k] # call'[e].row
                      /\ \A d \in Callers :
                           /\ Trying(d)' /\ d # e => call'[d].row # call'[e].row
                           /\ Dropping(d)' => call'[d].old # call'[e].row
    BY DEF Apart
  <2>1. e # c
    BY <1>1
  <2>2. call'[e] = call[e] /\ Trying(e)
    BY <1>2, <2>1 DEF Trying
  <2>3. /\ call[e].row \notin owed /\ call[e].row # row /\ call[e].row # found
        /\ \A k \in Keys : index[k] # call[e].row
    BY <1>3, <1>5, <2>1, <2>2 DEF Known, Apart, found
  <2>4. ASSUME NEW d \in Callers
        PROVE  /\ Trying(d)' /\ d # e => call'[d].row # call[e].row
               /\ Dropping(d)' => call'[d].old # call[e].row
    <3>1. CASE d = c
      BY <1>1, <2>3, <3>1
    <3>2. CASE d # c
      <4>1. call'[d] = call[d]
        BY <1>2, <3>2
      <4> QED BY <2>2, <4>1 DEF Known, Apart, Trying, Dropping
    <3> QED BY <3>1, <3>2
  <2> QED BY <1>1, <1>4, <2>2, <2>3, <2>4
<1>8. Gone'
  <2> SUFFICES ASSUME NEW d \in Callers, Dropping(d)'
               PROVE  call'[d].old \notin owed'
    BY DEF Gone
  <2>1. CASE d = c
    BY <1>1, <1>5, <2>1
  <2>2. CASE d # c
    BY <1>1, <1>2, <1>5, <2>2 DEF Known, Gone, Dropping
  <2> QED BY <2>1, <2>2
<1> QED BY <1>6, <1>7, <1>8 DEF Known

LEMMA KnownWithdraws ==
  ASSUME Known, Typed, NEW c \in Callers, NEW k \in Keys, Withdraws(c, k)
  PROVE  Known'
<1> DEFINE found == index[k]
<1>1. /\ ~Trying(c)' /\ sequence' = sequence /\ call'[c].old = found
      /\ found # None /\ owed' = owed \ {found}
      /\ index' = [index EXCEPT ![k] = None]
  BY DEF Withdraws
<1>2. \A d \in Callers : d # c => call'[d] = call[d]
  BY DEF Withdraws, Others
<1>3. \A j \in Keys : index'[j] = IF j = k THEN None ELSE index[j]
  BY <1>1 DEF Typed, IndexOK
<1>4. /\ found.token <= sequence
      /\ \A e \in Callers : Trying(e) => call[e].row # found
  BY <1>1 DEF Known, Tokens, Apart
<1> HIDE DEF found
<1>5. Tokens'
  <2>1. ASSUME NEW d \in Callers
        PROVE  /\ Trying(d)' => call'[d].row.token <= sequence'
               /\ Dropping(d)' => call'[d].old.token <= sequence'
    <3>1. CASE d = c
      BY <1>1, <1>4, <3>1
    <3>2. CASE d # c
      BY <1>1, <1>2, <3>2 DEF Known, Tokens, Trying, Dropping
    <3> QED BY <3>1, <3>2
  <2> QED BY <1>1, <1>3, <2>1 DEF Known, Tokens
<1>6. Apart'
  <2> SUFFICES ASSUME NEW e \in Callers, Trying(e)'
               PROVE  /\ call'[e].row \notin owed'
                      /\ \A j \in Keys : index'[j] # call'[e].row
                      /\ \A d \in Callers :
                           /\ Trying(d)' /\ d # e => call'[d].row # call'[e].row
                           /\ Dropping(d)' => call'[d].old # call'[e].row
    BY DEF Apart
  <2>1. e # c
    BY <1>1
  <2>2. call'[e] = call[e] /\ Trying(e) /\ call[e].row # None
    BY <1>2, <2>1, RowsAreRows DEF Trying, Typed
  <2>3. ASSUME NEW d \in Callers
        PROVE  /\ Trying(d)' /\ d # e => call'[d].row # call[e].row
               /\ Dropping(d)' => call'[d].old # call[e].row
    <3>1. CASE d = c
      BY <1>1, <1>4, <2>2, <3>1
    <3>2. CASE d # c
      <4>1. call'[d] = call[d]
        BY <1>2, <3>2
      <4> QED BY <2>2, <4>1 DEF Known, Apart, Trying, Dropping
    <3> QED BY <3>1, <3>2
  <2> QED BY <1>1, <1>3, <2>2, <2>3 DEF Known, Apart
<1>7. Gone'
  <2> SUFFICES ASSUME NEW d \in Callers, Dropping(d)'
               PROVE  call'[d].old \notin owed'
    BY DEF Gone
  <2>1. CASE d = c
    BY <1>1, <2>1
  <2>2. CASE d # c
    BY <1>1, <1>2, <2>2 DEF Known, Gone, Dropping
  <2> QED BY <2>1, <2>2
<1> QED BY <1>5, <1>6, <1>7 DEF Known

LEMMA CancelWithdraws ==
  ASSUME Typed, NEW c \in Callers, NEW k \in Uses[c], Cancel(c, k)
  PROVE  k \in Keys /\ Withdraws(c, k) /\ call[c].pc = "idle"
<1> DEFINE r == [IdleCall EXCEPT !.pc = "cancel", !.old = index[k]]
<1>1. r.pc = "cancel" /\ r.old = index[k]
  BY DEF IdleCall
<1>2. call' = [call EXCEPT ![c] = r]
  BY DEF Cancel
<1> HIDE DEF r
<1>3. Others(c) /\ call'[c] = r
  BY <1>2, CallIs DEF Typed
<1>4. ~Trying(c)' /\ call'[c].old = index[k]
  BY <1>1, <1>3 DEF Trying, TryPcs
<1> QED
  BY <1>3, <1>4, ExpiryConstants DEF Cancel, Withdraws, At

LEMMA ScheduleRenews ==
  ASSUME Typed, NEW c \in Callers, NEW k, NEW ttl, Schedule(c, k, ttl)
  PROVE  Renews(c)
<1>1. Still /\ Try(c, k, now + ttl, 0, ordered)
  BY DEF Schedule, Still, history
<1> QED
  BY <1>1, TryRenews DEF Typed

LEMMA KnownQuiet ==
  ASSUME Known, CallOK, UNCHANGED <<call, sequence>>, owed' \subseteq owed,
         \A k \in Keys : index'[k] \in {None, index[k]}
  PROVE  Known'
<1>1. \A c \in Callers :
        /\ Trying(c)' => Trying(c) /\ call'[c].row = call[c].row
        /\ Dropping(c)' => Dropping(c) /\ call'[c].old = call[c].old
  BY DEF Trying, Dropping
<1> QED BY <1>1, KnownStill

LEMMA KnownNext == ASSUME Typed, Known, [Next]_vars PROVE Known'
<1>0. CallOK /\ CallOK' /\ IndexOK
  BY TypedNext DEF Typed
<1>1. ASSUME NEW c \in Callers, CallStep(c) PROVE Known'
  BY <1>0, <1>1, CallerMoves, KnownPasses, KnownRenews, KnownEnters
<1>2. ASSUME NEW c \in Callers, NEW k \in Uses[c], Cancel(c, k) PROVE Known'
  BY <1>2, CancelWithdraws, KnownWithdraws
<1>3. ASSUME NEW c \in Callers, NEW k \in Uses[c], NEW ttl \in Ttls,
             Schedule(c, k, ttl)
      PROVE  Known'
  BY <1>0, <1>3, ScheduleRenews, KnownRenews
<1>4. CASE ExpStep
  <2>1. CASE DeleteIndex
    BY <1>0, <2>1, KnownQuiet DEF DeleteIndex, IndexOK, history
  <2>2. CASE ReleaseAndDispatch
    BY <1>0, <2>2, KnownQuiet DEF ReleaseAndDispatch
  <2>3. CASE CheckIndex
    BY <1>0, <2>3, KnownQuiet DEF CheckIndex
  <2>4. ASSUME NEW row \in ordered, TakeDue(row) PROVE Known'
    BY <1>0, <2>4, KnownQuiet DEF TakeDue, history
  <2> QED BY <1>4, <2>1, <2>2, <2>3, <2>4 DEF ExpStep
<1>5. CASE Tick
  BY <1>0, <1>5, KnownQuiet DEF Tick, history
<1>6. CASE UNCHANGED vars
  BY <1>0, <1>6, KnownQuiet DEF vars
<1> QED BY <1>1, <1>2, <1>3, <1>4, <1>5, <1>6 DEF Next

-----------------------------------------------------------------------------
(* Kept is inductive.                                                      *)
LEMMA SafeStill ==
  ASSUME Kept, Still, \A row \in owed : row \in ordered => row \in ordered'
  PROVE  Caught' /\ Displaced' /\ PromisesKept'
<1>1. Caught'
  BY DEF Kept, Caught, Still
<1>2. Displaced'
  BY DEF Kept, Displaced, Still
<1>3. PromisesKept'
  BY DEF Kept, PromisesKept, Still
<1> QED BY <1>1, <1>2, <1>3

LEMMA KeptPasses ==
  ASSUME Kept, Known, NEW c \in Callers, Passes(c)
  PROVE  Kept'
<1>1. PICK gone : /\ ordered \ {gone} \subseteq ordered'
                  /\ \/ ordered \subseteq ordered' /\ (Entering(c)' => Entering(c))
                     \/ Trying(c) /\ gone = call[c].row /\ ~Trying(c)'
                     \/ Dropping(c) /\ gone = call[c].old /\ ~Trying(c)'
  BY DEF Passes
<1>2. \A row \in owed : row \in ordered => row \in ordered'
  BY <1>1 DEF Known, Apart, Gone
<1>3. Placed'
  <2> SUFFICES ASSUME NEW d \in Callers, Entering(d)'
               PROVE  \/ call'[d].row \in ordered' \cup stranded'
                      \/ exp'.pc = "check" /\ exp'.row = call'[d].row
    BY DEF Placed
  <2>1. Trying(d)' /\ stranded' = stranded /\ exp' = exp
    BY DEF Entering, Trying, TryPcs, Passes, Still
  <2>2. /\ Entering(d) /\ Trying(d) /\ call'[d].row = call[d].row
        /\ call[d].row \in ordered => call[d].row \in ordered'
    <3>1. CASE d = c
      BY <1>1, <2>1, <3>1 DEF Passes
    <3>2. CASE d # c
      <4>1. call'[d] = call[d]
        BY <3>2 DEF Passes, Others
      <4>2. Entering(d) /\ Trying(d)
        BY <2>1, <4>1 DEF Entering, Trying
      <4> QED BY <1>1, <3>2, <4>1, <4>2 DEF Known, Apart
    <3> QED BY <3>1, <3>2
  <2> QED BY <2>1, <2>2 DEF Kept, Placed
<1> QED BY <1>2, <1>3, SafeStill DEF Kept, Passes

LEMMA KeptRenews ==
  ASSUME Kept, Known, NEW c \in Callers, Renews(c)
  PROVE  Kept'
<1>1. \A row \in owed : row \in ordered => row \in ordered'
  BY DEF Renews, Known, Apart
<1>2. Placed'
  <2> SUFFICES ASSUME NEW d \in Callers, Entering(d)'
               PROVE  \/ call'[d].row \in ordered' \cup stranded'
                      \/ exp'.pc = "check" /\ exp'.row = call'[d].row
    BY DEF Placed
  <2>1. CASE d = c
    BY <2>1 DEF Renews
  <2>2. CASE d # c
    <3>1. call'[d] = call[d] /\ stranded' = stranded /\ exp' = exp
      BY <2>2 DEF Renews, Others, Still
    <3>2. Entering(d) /\ Trying(d)
      BY <3>1 DEF Entering, Trying, TryPcs
    <3>3. call[d].row \in ordered => call[d].row \in ordered'
      BY <2>2, <3>2 DEF Renews, Known, Apart
    <3> QED BY <3>1, <3>2, <3>3 DEF Kept, Placed
  <2> QED BY <2>1, <2>2
<1> QED BY <1>1, <1>2, SafeStill DEF Kept, Renews

LEMMA KeptEnters ==
  ASSUME Kept, Known, Typed, NEW c \in Callers, Enters(c)
  PROVE  Kept'
<1> DEFINE row == call[c].row  found == index[row.key]
<1>1. /\ Entering(c) /\ Trying(c) /\ ~Trying(c)'
      /\ UNCHANGED <<ordered, stranded, exp>>
      /\ index' = [index EXCEPT ![row.key] = row]
      /\ owed' = (owed \ {found}) \cup {row}
      /\ lost' = IF Doomed(row.key) THEN lost \cup {row} ELSE lost
  BY DEF Enters, Accept, Entering, Trying, TryPcs
<1>2. row \in RowType /\ row.key \in Keys
  BY <1>1, RowsAreRows DEF Typed, RowType
<1>3. \A k \in Keys : index'[k] = IF k = row.key THEN row ELSE index[k]
  BY <1>1, <1>2 DEF Typed, IndexOK
<1>4. /\ lost \subseteq lost'
      /\ \A r \in owed' : r = row \/ (r \in owed /\ r # found)
  BY <1>1
<1>5. /\ \A r \in owed : r.key \in Keys
      /\ exp.pc # "idle" => exp.row.key \in Keys
  BY DEF Typed, SetsOK, ExpOK, RowType
<1> HIDE DEF row, found
<1>6. Placed'
  <2> SUFFICES ASSUME NEW d \in Callers, Entering(d)'
               PROVE  \/ call'[d].row \in ordered' \cup stranded'
                      \/ exp'.pc = "check" /\ exp'.row = call'[d].row
    BY DEF Placed
  <2>1. d # c
    BY <1>1 DEF Entering, Trying, TryPcs
  <2>2. call'[d] = call[d]
    BY <2>1 DEF Enters, Others
  <2> QED BY <1>1, <2>2 DEF Kept, Placed, Entering
<1>7. Caught'
  <2> SUFFICES ASSUME exp.pc = "check", exp.row \in owed'
               PROVE  index'[exp.row.key] = exp.row \/ exp.row \in lost'
    BY <1>1 DEF Caught
  <2>1. CASE exp.row = row
    BY <1>2, <1>3, <2>1
  <2>2. CASE exp.row # row
    <3>1. /\ exp.row \in owed /\ exp.row # found
          /\ index[exp.row.key] = exp.row \/ exp.row \in lost
      BY <1>4, <2>2 DEF Kept, Caught
    <3>2. exp.row.key = row.key => index[exp.row.key] = found
      BY DEF found
    <3> QED BY <1>3, <1>4, <1>5, <3>1, <3>2
  <2> QED BY <2>1, <2>2
<1>8. Displaced'
  <2> SUFFICES ASSUME exp.pc = "delete",
                      index'[exp.row.key] # exp.row,
                      index'[exp.row.key] \in owed'
               PROVE  index'[exp.row.key] \in lost'
    BY <1>1 DEF Displaced
  <2>1. CASE exp.row.key = row.key
    BY <1>1, <1>2, <1>3, <2>1 DEF Doomed
  <2>2. CASE exp.row.key # row.key
    <3>1. index'[exp.row.key] = index[exp.row.key]
      BY <1>3, <1>5, <2>2
    <3>2. index[exp.row.key] # row
      BY <1>1, <1>5 DEF Known, Apart, row
    <3> QED BY <1>4, <3>1, <3>2 DEF Kept, Displaced
  <2> QED BY <2>1, <2>2
<1>9. PromisesKept'
  <2> SUFFICES ASSUME NEW r \in owed'
               PROVE  \/ index'[r.key] = r /\ r \in ordered' \cup stranded'
                      \/ exp'.pc # "idle" /\ exp'.row = r
                      \/ r \in lost'
    BY DEF PromisesKept
  <2>1. CASE r = row
    <3>1. row \in ordered \cup stranded \/ (exp.pc = "check" /\ exp.row = row)
      BY <1>1 DEF Kept, Placed, Entering, row
    <3> QED BY <1>1, <1>2, <1>3, <2>1, <3>1
  <2>2. CASE r # row
    <3>1. r \in owed /\ r # found
      BY <1>4, <2>2
    <3>2. \/ index[r.key] = r /\ r \in ordered \cup stranded
          \/ exp.pc # "idle" /\ exp.row = r
          \/ r \in lost
      BY <3>1 DEF Kept, PromisesKept
    <3>3. index[r.key] = r => index'[r.key] = r
      BY <1>3, <1>5, <3>1 DEF found
    <3> QED BY <1>1, <1>4, <3>2, <3>3
  <2> QED BY <2>1, <2>2
<1> QED BY <1>6, <1>7, <1>8, <1>9 DEF Kept

LEMMA KeptWithdraws ==
  ASSUME Kept, Known, Typed, NEW c \in Callers, NEW k \in Keys,
         Withdraws(c, k)
  PROVE  Kept'
<1>1. /\ ~Trying(c)' /\ UNCHANGED <<ordered, stranded, lost, exp>>
      /\ owed' = owed \ {index[k]} /\ index' = [index EXCEPT ![k] = None]
  BY DEF Withdraws
<1>2. \A j \in Keys : index'[j] = IF j = k THEN None ELSE index[j]
  BY <1>1 DEF Typed, IndexOK
<1>3. /\ \A r \in owed : r.key \in Keys /\ r # None
      /\ exp.pc # "idle" => exp.row.key \in Keys
  BY NoneIsNoRow DEF Typed, SetsOK, ExpOK, RowType
<1>4. \A r \in owed' : r \in owed /\ (index[r.key] = r => index'[r.key] = r)
  BY <1>1, <1>2, <1>3
<1>5. Placed'
  <2> SUFFICES ASSUME NEW d \in Callers, Entering(d)'
               PROVE  \/ call'[d].row \in ordered' \cup stranded'
                      \/ exp'.pc = "check" /\ exp'.row = call'[d].row
    BY DEF Placed
  <2>1. d # c
    BY <1>1 DEF Entering, Trying, TryPcs
  <2>2. call'[d] = call[d]
    BY <2>1 DEF Withdraws, Others
  <2> QED BY <1>1, <2>2 DEF Kept, Placed, Entering
<1>6. Caught'
  BY <1>1, <1>4 DEF Kept, Caught
<1>7. Displaced'
  <2> SUFFICES ASSUME exp.pc = "delete",
                      index'[exp.row.key] # exp.row,
                      index'[exp.row.key] \in owed'
               PROVE  index'[exp.row.key] \in lost'
    BY <1>1 DEF Displaced
  <2>1. index'[exp.row.key] = index[exp.row.key]
    BY <1>2, <1>3, <1>4
  <2> QED BY <1>1, <1>4, <2>1 DEF Kept, Displaced
<1>8. PromisesKept'
  BY <1>1, <1>4 DEF Kept, PromisesKept
<1> QED BY <1>5, <1>6, <1>7, <1>8 DEF Kept

(* Only the service takes a row from the ordered table unseen.             *)
LEMMA KeptService == ASSUME Kept, Typed, ExpStep PROVE Kept'
<1>0. /\ \A r \in owed : r.key \in Keys /\ r # None
      /\ exp.pc # "idle" => exp.row.key \in Keys
  BY NoneIsNoRow DEF Typed, SetsOK, ExpOK, RowType
<1>1. ASSUME NEW row \in ordered, TakeDue(row) PROVE Kept'
  <2>1. /\ ordered' = ordered \ {row} /\ exp.pc = "idle"
        /\ exp'.pc = "check" /\ exp'.row = row
        /\ UNCHANGED <<index, call, owed, lost, stranded>>
    BY <1>1 DEF TakeDue, history
  <2>2. Placed'
    BY <2>1 DEF Kept, Placed, Entering
  <2>3. Caught'
    BY <2>1 DEF Kept, Caught, PromisesKept
  <2>4. Displaced'
    BY <2>1 DEF Displaced
  <2>5. PromisesKept'
    BY <2>1 DEF Kept, PromisesKept
  <2> QED BY <2>2, <2>3, <2>4, <2>5 DEF Kept
<1>2. CASE CheckIndex
  <2> DEFINE row == exp.row
  <2>1. /\ exp.pc = "check" /\ UNCHANGED <<index, ordered, call, owed, lost>>
        /\ stranded \subseteq stranded'
        /\ Unsettled(row) => row \in stranded'
    BY <1>2 DEF CheckIndex
  <2>2. \/ index[row.key] = row /\ exp'.pc = "delete" /\ exp'.row = row
        \/ index[row.key] # row /\ exp'.pc = "idle"
    BY <1>2 DEF CheckIndex, IdleExp, Typed, ExpOK, ExpType
  <2>3. Placed'
    <3>1. \A c \in Callers : Entering(c) /\ call[c].row = row => Unsettled(row)
      BY DEF Entering, Unsettled
    <3> QED BY <2>1, <3>1 DEF Kept, Placed, Entering
  <2>4. Caught'
    BY <2>2 DEF Caught
  <2>5. Displaced'
    BY <2>1, <2>2 DEF Displaced
  <2>6. PromisesKept'
    BY <2>1, <2>2 DEF Kept, Caught, PromisesKept
  <2> QED BY <2>3, <2>4, <2>5, <2>6 DEF Kept
<1>3. CASE DeleteIndex
  <2> DEFINE row == exp.row  found == index[row.key]
  <2>1. /\ exp.pc = "delete" /\ UNCHANGED <<ordered, call, owed, lost, stranded>>
        /\ index' = [index EXCEPT ![row.key] = None]
    BY <1>3 DEF DeleteIndex, history
  <2>2. exp'.pc \in {"release", "release_again"} /\ exp'.row = row
    BY <1>3 DEF DeleteIndex, Typed, ExpOK, ExpType
  <2>3. \A k \in Keys : index'[k] = IF k = row.key THEN None ELSE index[k]
    BY <1>0, <2>1 DEF Typed, IndexOK
  <2>4. Placed'
    <3>1. \A c \in Callers : Entering(c) => call[c].row \in ordered \cup stranded
      BY <2>1 DEF Kept, Placed
    <3> QED BY <2>1, <3>1 DEF Placed, Entering
  <2>5. Caught' /\ Displaced'
    BY <2>2 DEF Caught, Displaced
  <2>6. PromisesKept'
    <3> SUFFICES ASSUME NEW r \in owed
                 PROVE  \/ index'[r.key] = r /\ r \in ordered' \cup stranded'
                        \/ exp'.pc # "idle" /\ exp'.row = r
                        \/ r \in lost'
      BY <2>1 DEF PromisesKept
    <3>1. CASE index[r.key] = r /\ r \in ordered \cup stranded /\ r # row
      <4>1. CASE r.key = row.key
        BY <2>1, <3>1, <4>1 DEF Kept, Displaced
      <4>2. CASE r.key # row.key
        BY <1>0, <2>1, <2>3, <3>1, <4>2
      <4> QED BY <4>1, <4>2
    <3>2. CASE r = row
      BY <2>2, <3>2
    <3>3. CASE r \in lost
      BY <2>1, <3>3
    <3> QED BY <3>1, <3>2, <3>3 DEF Kept, PromisesKept
  <2> QED BY <2>4, <2>5, <2>6 DEF Kept
<1>4. CASE ReleaseAndDispatch
  <2>1. /\ exp.pc \in {"release", "release_again"} /\ exp'.pc = "idle"
        /\ owed' = owed \ {exp.row}
        /\ UNCHANGED <<index, ordered, call, lost, stranded>>
    BY <1>4 DEF ReleaseAndDispatch, IdleExp
  <2>2. Placed'
    BY <2>1 DEF Kept, Placed, Entering
  <2>3. Caught' /\ Displaced'
    BY <2>1 DEF Caught, Displaced
  <2>4. PromisesKept'
    BY <2>1 DEF Kept, PromisesKept
  <2> QED BY <2>2, <2>3, <2>4 DEF Kept
<1> QED BY <1>1, <1>2, <1>3, <1>4 DEF ExpStep

LEMMA KeptNext == ASSUME Typed, Known, Kept, [Next]_vars PROVE Kept'
<1>1. ASSUME NEW c \in Callers, CallStep(c) PROVE Kept'
  BY <1>1, CallerMoves, KeptPasses, KeptRenews, KeptEnters
<1>2. ASSUME NEW c \in Callers, NEW k \in Uses[c], Cancel(c, k) PROVE Kept'
  BY <1>2, CancelWithdraws, KeptWithdraws
<1>3. ASSUME NEW c \in Callers, NEW k \in Uses[c], NEW ttl \in Ttls,
             Schedule(c, k, ttl)
      PROVE  Kept'
  BY <1>3, ScheduleRenews, KeptRenews
<1>4. CASE UNCHANGED <<index, ordered, call, exp, owed, lost, stranded>>
  <2>1. Placed'
    BY <1>4 DEF Kept, Placed, Entering
  <2> QED BY <1>4, <2>1, SafeStill DEF Kept, Still
<1>5. Tick \/ UNCHANGED vars =>
        UNCHANGED <<index, ordered, call, exp, owed, lost, stranded>>
  BY DEF Tick, vars, history
<1> QED BY <1>1, <1>2, <1>3, <1>4, <1>5, KeptService DEF Next

LEMMA PromisesInit == Init => Known /\ Kept
<1> SUFFICES ASSUME Init PROVE Known /\ Kept
  OBVIOUS
<1>1. \A c \in Callers : ~Trying(c) /\ ~Dropping(c) /\ ~Entering(c)
  BY DEF Init, IdleCall, Trying, Dropping, Entering, TryPcs
<1>2. /\ owed = {} /\ exp.pc = "idle"
      /\ \A k \in Keys : index[k] = None
  BY DEF Init, IdleExp
<1> QED
  BY <1>1, <1>2 DEF Known, Tokens, Apart, Gone, Kept, Placed, Caught,
                    Displaced, PromisesKept

(* No schedule that was accepted is forgotten, whatever calls and ticks it *)
(* meets: unless it is moved, cancelled or met it is in both tables of     *)
(* expiry.ex, in the service's hands, or a victim of one of the two races  *)
(* the history variables name.                                             *)
THEOREM DeadlinesKept == Spec => []PromisesKept
<1> DEFINE Inv == Typed /\ Known /\ Kept
<1>1. Init => Inv
  BY TypedInit, PromisesInit
<1>2. Inv /\ [Next]_vars => Inv'
  BY TypedNext, KnownNext, KeptNext
<1>3. Inv => PromisesKept
  BY DEF Kept
<1> QED
  BY <1>1, <1>2, <1>3, PTL DEF Spec
=============================================================================
