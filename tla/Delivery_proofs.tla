--------------------------- MODULE Delivery_proofs ---------------------------
(* Proofs about Delivery, for every number of sessions, callers, delivery  *)
(* ids, limits, kills and restarts.                                        *)
EXTENDS Delivery, FiniteSetTheorems, TLAPS

(* Adding or removing one element changes a cardinality by one.            *)
LEMMA CardPlus ==
  ASSUME NEW S, NEW x, IsFiniteSet(S), x \notin S
  PROVE  /\ IsFiniteSet(S \cup {x})
         /\ Cardinality(S \cup {x}) = Cardinality(S) + 1
         /\ Cardinality(S) \in Nat
  BY FS_AddElement, FS_CardinalityType

LEMMA CardMinus ==
  ASSUME NEW S, NEW x, IsFiniteSet(S), x \in S
  PROVE  /\ IsFiniteSet(S \ {x})
         /\ Cardinality(S \ {x}) = Cardinality(S) - 1
         /\ Cardinality(S) \in Nat
         /\ Cardinality(S) >= 1
<1>1. /\ IsFiniteSet(S \ {x}) /\ Cardinality(S \ {x}) = Cardinality(S) - 1
      /\ Cardinality(S) \in Nat
  BY FS_RemoveElement, FS_CardinalityType
<1>2. Cardinality(S) # 0
  BY FS_EmptySet
<1> QED
  BY <1>1, <1>2

LEMMA ProcsFinite == IsFiniteSet(Procs)
  BY ConstantsOK, FS_AddElement DEF Procs

(* A process that changes its record enters or leaves the slot holders.    *)
LEMMA SlotMoves ==
  ASSUME NEW p \in Procs, NEW r, DOMAIN proc = Procs, 
         proc' = [proc EXCEPT ![p] = r]
  PROVE  SlotHolders' = IF r.pc \in SlotPcs THEN SlotHolders \cup {p}
                                            ELSE SlotHolders \ {p}
<1>1. DOMAIN proc' = Procs /\ proc'[p] = r /\ \A q \in Procs : q # p => proc'[q] = proc[q]
  OBVIOUS
<1> QED BY <1>1 DEF SlotHolders

LEMMA SlotsFinite == IsFiniteSet(SlotHolders) /\ Cardinality(SlotHolders) \in Nat
  BY ProcsFinite, FS_Subset, FS_CardinalityType DEF SlotHolders

Slots == Cardinality(SlotHolders)

(* What the move of one process does to the number of slot holders.        *)
LEMMA SlotCount ==
  ASSUME NEW p \in Procs, NEW r, DOMAIN proc = Procs,
         proc' = [proc EXCEPT ![p] = r]
  PROVE  /\ Slots \in Nat /\ Slots' \in Nat
         /\ Slots' = Slots + (IF r.pc \in SlotPcs THEN 1 ELSE 0)
                           - (IF proc[p].pc \in SlotPcs THEN 1 ELSE 0)
<1>1. SlotHolders' = IF r.pc \in SlotPcs THEN SlotHolders \cup {p}
                                         ELSE SlotHolders \ {p}
  BY SlotMoves
<1>2. p \in SlotHolders <=> proc[p].pc \in SlotPcs
  BY DEF SlotHolders
<1>3. Slots \in Nat
  BY SlotsFinite DEF Slots
<1>4. CASE r.pc \in SlotPcs /\ proc[p].pc \in SlotPcs
  <2>1. SlotHolders' = SlotHolders
    BY <1>1, <1>2, <1>4
  <2> QED BY <2>1, <1>3, <1>4 DEF Slots
<1>5. CASE r.pc \in SlotPcs /\ proc[p].pc \notin SlotPcs
  <2>1. SlotHolders' = SlotHolders \cup {p} /\ p \notin SlotHolders
    BY <1>1, <1>2, <1>5
  <2>2. Slots' = Slots + 1
    BY <2>1, SlotsFinite, CardPlus DEF Slots
  <2> QED BY <2>2, <1>3, <1>5
<1>6. CASE r.pc \notin SlotPcs /\ proc[p].pc \in SlotPcs
  <2>1. SlotHolders' = SlotHolders \ {p} /\ p \in SlotHolders
    BY <1>1, <1>2, <1>6
  <2>2. Slots' = Slots - 1 /\ Slots >= 1
    BY <2>1, SlotsFinite, CardMinus DEF Slots
  <2> QED BY <2>2, <1>3, <1>6
<1>7. CASE r.pc \notin SlotPcs /\ proc[p].pc \notin SlotPcs
  <2>1. SlotHolders' = SlotHolders
    BY <1>1, <1>2, <1>7
  <2> QED BY <2>1, <1>3, <1>7 DEF Slots
<1> QED
  BY <1>4, <1>5, <1>6, <1>7

(* The type invariant.  Capacity stays a natural number because whoever    *)
(* takes a slot back holds one.                                            *)
LEMMA UndoHoldsSlot ==
  ASSUME TypeOK, CapacityExact, NEW p \in Callers, UndoReserve(p)
  PROVE  capacity - 1 \in Nat
<1>1. p \in SlotHolders
  BY DEF UndoReserve, SlotHolders, SlotPcs, Procs
<1>2. Cardinality(SlotHolders) \in Nat /\ Cardinality(SlotHolders) >= 1
  BY <1>1, SlotsFinite, CardMinus
<1>3. Cardinality(reservations) \in Nat
  BY FS_CardinalityType DEF TypeOK
<1> QED
  BY <1>2, <1>3 DEF TypeOK, CapacityExact

(* How the record of one process may change.                               *)
Fits(p, r) ==
  /\ r \in ProcType
  /\ p \in Callers => r.pc \in CallerPcs
  /\ p = Runtime => r.pc \in RuntimePcs
  /\ NeedsSession(r.pc) => r.s \in Sessions

LEMMA ProcMove ==
  ASSUME ProcOK, NEW p \in Procs, NEW r, Fits(p, r),
         proc' = [proc EXCEPT ![p] = r]
  PROVE  ProcOK'
  BY ConstantsOK DEF ProcOK, Fits, Procs

(* A reservation that takes its row writes two fields of its caller.       *)
LEMMA TwoFields ==
  ASSUME NEW f, NEW S, f \in [S -> ProcType], NEW p \in S, NEW a, NEW b
  PROVE  [f EXCEPT ![p].pc = a, ![p].id = b]
           = [f EXCEPT ![p] = [f[p] EXCEPT !.pc = a, !.id = b]]
<1>1. f[p] \in ProcType
  OBVIOUS
<1>2. f[p] = [pc |-> f[p].pc, s |-> f[p].s, class |-> f[p].class, mon |-> f[p].mon,
              id |-> f[p].id, evict |-> f[p].evict]
  BY <1>1 DEF ProcType
<1> QED BY <1>2

LEMMA InsertTakes ==
  ASSUME ProcOK, NEW p \in Procs, NEW d, InsertReservation(p, d),
         <<proc[p].s, d>> \notin reservations
  PROVE  /\ proc' = [proc EXCEPT ![p] = [proc[p] EXCEPT !.pc = "recheck", !.id = d]]
         /\ [proc[p] EXCEPT !.pc = "recheck", !.id = d].pc = "recheck"
<1>1. proc' = [proc EXCEPT ![p].pc = "recheck", ![p].id = d]
  BY ZenonT(20) DEF InsertReservation
<1>2. proc \in [Procs -> ProcType]
  BY DEF ProcOK
<1>3. [proc EXCEPT ![p].pc = "recheck", ![p].id = d]
        = [proc EXCEPT ![p] = [proc[p] EXCEPT !.pc = "recheck", !.id = d]]
  BY ONLY <1>2, p \in Procs, TwoFields
<1>4. [proc[p] EXCEPT !.pc = "recheck", !.id = d].pc = "recheck"
  <2>1. proc[p] \in ProcType
    BY <1>2
  <2> QED BY ONLY <2>1 DEF ProcType
<1> QED BY ONLY <1>1, <1>3, <1>4

LEMMA GotoMove ==
  ASSUME ProcOK, NEW p \in Procs, NEW pc, Goto(p, pc),
         p \in Callers => pc \in CallerPcs,
         p = Runtime => pc \in RuntimePcs,
         NeedsSession(pc) => NeedsSession(proc[p].pc)
  PROVE  ProcOK'
<1> DEFINE r == [proc[p] EXCEPT !.pc = pc]
<1>1. proc[p] \in ProcType /\ (NeedsSession(pc) => proc[p].s \in Sessions)
  BY DEF ProcOK
<1>2. pc \in CallerPcs \cup RuntimePcs
  BY DEF Procs
<1>3. r \in ProcType /\ r.pc = pc /\ r.s = proc[p].s
  BY <1>1, <1>2 DEF ProcType
<1>4. Fits(p, r)
  BY <1>1, <1>3 DEF Fits
<1>5. proc' = [proc EXCEPT ![p] = r]
  BY DEF Goto
<1> QED
  BY <1>4, <1>5, ProcMove

LEMMA FinishMove ==
  ASSUME ProcOK, NEW p \in Procs, Finish(p)
  PROVE  ProcOK'
<1>1. Fits(p, Idle)
  BY ConstantsOK DEF Fits, Idle, ProcType, CallerPcs, RuntimePcs, Classes,
                     NeedsSession
<1> QED
  BY <1>1, ProcMove DEF Finish

LEMMA CallerProcNext ==
  ASSUME TypeOK, NEW p \in Callers, CallerStep(p)
  PROVE  ProcOK'
<1> USE DEF NeedsSession, CallerPcs
<1>0. ProcOK /\ p \in Procs /\ p # Runtime /\ proc[p] \in ProcType
      /\ proc[p].pc \in CallerPcs
  BY ConstantsOK DEF TypeOK, ProcOK, Procs
<1>1. ASSUME NEW s \in Sessions, NEW c \in Classes, SendSession(p, s, c)
      PROVE  ProcOK'
  <2>1. Fits(p, [Idle EXCEPT !.pc = "reserve", !.s = s, !.class = c,
                             !.mon = monitor[s]])
    BY <1>0 DEF Fits, Idle, ProcType, Classes, TypeOK
  <2> QED BY <1>0, <1>1, <2>1, ProcMove DEF SendSession
<1>2. ASSUME NEW s \in Sessions, NEW d \in Ids, Ack(p, s, d)
      PROVE  ProcOK'
  <2>1. Fits(p, [Idle EXCEPT !.pc = "rollback", !.s = s])
    BY <1>0 DEF Fits, Idle, ProcType, Classes
  <2> QED BY <1>0, <1>2, <2>1, ProcMove DEF Ack
<1>3. ASSUME Reserve(p) \/ CountGone(p) PROVE ProcOK'
  BY <1>0, <1>3, GotoMove DEF Reserve, CountGone
<1>4. ASSUME UndoReserve(p) \/ IsolateSlow(p) \/ Kill(p) PROVE ProcOK'
  BY <1>0, <1>4, FinishMove DEF UndoReserve, IsolateSlow, Kill
<1>5. ASSUME CountPending(p) PROVE ProcOK'
  <2>1. CASE proc' = [proc EXCEPT ![p].pc = "rollback", ![p].evict = TRUE]
    <3> DEFINE r == [proc[p] EXCEPT !.pc = "rollback", !.evict = TRUE]
    <3>1. Fits(p, r)
      BY <1>0, <1>5 DEF Fits, ProcType, ProcOK, CountPending
    <3>2. proc' = [proc EXCEPT ![p] = r]
      BY <1>0, <2>1 DEF ProcOK
    <3> QED BY <1>0, <3>1, <3>2, ProcMove
  <2>2. CASE Goto(p, "rollback") \/ Goto(p, "insert")
    BY <1>0, <1>5, <2>2, GotoMove DEF CountPending
  <2> QED BY <1>5, <2>1, <2>2 DEF CountPending
<1>6. ASSUME NEW d \in Ids, InsertReservation(p, d) PROVE ProcOK'
  <2>1. CASE proc' = [proc EXCEPT ![p].pc = "recheck", ![p].id = d]
    <3> DEFINE r == [proc[p] EXCEPT !.pc = "recheck", !.id = d]
    <3>1. Fits(p, r)
      BY <1>0, <1>6 DEF Fits, ProcType, ProcOK, InsertReservation
    <3>2. proc' = [proc EXCEPT ![p] = r]
      BY <1>0, <2>1 DEF ProcOK
    <3> QED BY <1>0, <3>1, <3>2, ProcMove
  <2>2. CASE Goto(p, "rollback")
    BY <1>0, <1>6, <2>2, GotoMove DEF InsertReservation
  <2> QED BY <1>6, <2>1, <2>2 DEF InsertReservation
<1>7. ASSUME RecheckSession(p) \/ ReleaseReservation(p) PROVE ProcOK'
  <2>1. Finish(p) \/ Goto(p, "retract") \/ Goto(p, "rollback")
    BY <1>7 DEF RecheckSession, ReleaseReservation
  <2>2. NeedsSession(proc[p].pc)
    BY <1>7 DEF RecheckSession, ReleaseReservation
  <2> QED BY <1>0, <2>1, <2>2, FinishMove, GotoMove
<1> QED
  BY <1>1, <1>2, <1>3, <1>4, <1>5, <1>6, <1>7 DEF CallerStep, SendStep

LEMMA RuntimeProcNext ==
  ASSUME TypeOK,
         \/ \E s \in Sessions : SessionStep(s)
         \/ NewCounterRow \/ CleanupStep \/ Crash \/ RecoveryStep
  PROVE  ProcOK'
<1> USE DEF NeedsSession, RuntimePcs, RtIs, RtS
<1>0. /\ ProcOK /\ Runtime \in Procs /\ Runtime \notin Callers
      /\ proc[Runtime] \in ProcType /\ proc[Runtime].pc \in RuntimePcs
  BY ConstantsOK DEF TypeOK, ProcOK, Procs
<1>1. ASSUME NEW s \in Sessions, NEW pc \in {"new_row", "cleanup"},
             proc' = [proc EXCEPT ![Runtime] = [Idle EXCEPT !.pc = pc, !.s = s]]
      PROVE  ProcOK'
  <2>1. Fits(Runtime, [Idle EXCEPT !.pc = pc, !.s = s])
    BY <1>0, <1>1 DEF Fits, Idle, ProcType, Classes
  <2> QED BY <1>0, <1>1, <2>1, ProcMove
<1>2. ASSUME NEW s \in Sessions, SessionStep(s) PROVE ProcOK'
  <2>1. CASE OwnerExit(s) \/ LoseEviction(s)
    BY <1>0, <2>1 DEF OwnerExit, LoseEviction, ProcOK
  <2>2. CASE Connect(s)
    BY <1>1, <2>2 DEF Connect
  <2>3. CASE BeginCleanup(s)
    BY <1>1, <2>3 DEF BeginCleanup
  <2> QED BY <1>2, <2>1, <2>2, <2>3 DEF SessionStep, Disconnect, OwnerDown,
                                        EvictSlow
<1>3. ASSUME NewCounterRow \/ UnmarkSlow \/ RebuildMonitors PROVE ProcOK'
  BY <1>0, <1>3, FinishMove DEF NewCounterRow, UnmarkSlow, RebuildMonitors
<1>4. ASSUME ReleaseEnd \/ DropCounterRow \/ Reconcile PROVE ProcOK'
  BY <1>0, <1>4, GotoMove DEF ReleaseEnd, DropCounterRow, Reconcile
<1>5. ASSUME NEW pc \in {"release", "rollback"}, NEW e \in Ids \cup {0},
             NeedsSession(proc[Runtime].pc),
             proc' = [proc EXCEPT ![Runtime].pc = pc, ![Runtime].id = e]
      PROVE  ProcOK'
  <2> DEFINE r == [proc[Runtime] EXCEPT !.pc = pc, !.id = e]
  <2>1. Fits(Runtime, r)
    BY <1>0, <1>5 DEF Fits, ProcType, ProcOK
  <2>2. proc' = [proc EXCEPT ![Runtime] = r]
    BY <1>0, <1>5 DEF ProcOK
  <2> QED BY <1>0, <2>1, <2>2, ProcMove
<1>6. ASSUME NEW e \in Ids \cup {0}, FirstKey(e) \/ ReleaseNext(e)
      PROVE  ProcOK'
  BY <1>5, <1>6 DEF FirstKey, ReleaseNext
<1>7. ASSUME Crash PROVE ProcOK'
  <2>1. Fits(Runtime, [Idle EXCEPT !.pc = "down"])
    BY <1>0 DEF Fits, Idle, ProcType, Classes
  <2> QED BY <1>0, <1>7, <2>1, ProcMove DEF Crash
<1> QED
  BY <1>2, <1>3, <1>4, <1>6, <1>7 DEF CleanupStep, RecoveryStep


LEMMA GiveBackProcNext ==
  ASSUME TypeOK, NEW p \in Procs, GiveBack(p)
  PROVE  ProcOK'
<1> USE DEF NeedsSession, CallerPcs, RuntimePcs
<1>1. ProcOK /\ NeedsSession(proc[p].pc)
  BY DEF TypeOK, GiveBack, RollbackCount, ReleaseCapacity
<1>2. \/ Goto(p, "giveback") \/ Finish(p)
      \/ p = Runtime /\ Goto(p, "release")
      \/ p # Runtime /\ Goto(p, "isolate")
  BY DEF GiveBack, RollbackCount, ReleaseCapacity
<1> QED
  BY <1>1, <1>2, GotoMove, FinishMove, ConstantsOK DEF Procs

LEMMA ProcNext ==
  ASSUME TypeOK, [Next]_vars
  PROVE  ProcOK'
<1>1. CASE UNCHANGED vars
  BY <1>1 DEF vars, TypeOK, ProcOK
<1> QED
  BY <1>1, CallerProcNext, GiveBackProcNext, RuntimeProcNext DEF Next

(* The rest of the type invariant, with the records left closed.           *)
LEMMA TypeNext ==
  ASSUME TypeOK, CapacityExact, [Next]_vars
  PROVE  TypeOK'
<1>0. ProcOK'
  BY ProcNext
<1>. /\ proc[Runtime].s \in Sessions \/ ~NeedsSession(proc[Runtime].pc)
     /\ \A p \in Procs : NeedsSession(proc[p].pc) => proc[p].s \in Sessions
     /\ Callers \subseteq Procs /\ Runtime \in Procs
  BY DEF TypeOK, ProcOK, Procs
<1> USE <1>0 DEF TypeOK, NeedsSession
<1>1. ASSUME NEW p \in Callers, CallerStep(p) PROVE TypeOK'
  <2>1. ASSUME NEW s \in Sessions, NEW c \in Classes, SendSession(p, s, c)
        PROVE  TypeOK'
    BY <2>1 DEF SendSession
  <2>2. ASSUME NEW s \in Sessions, NEW d \in Ids, Ack(p, s, d) PROVE TypeOK'
    BY <2>2, FS_RemoveElement DEF Ack
  <2>3. CASE Reserve(p)
    BY <2>3 DEF Reserve
  <2>4. CASE UndoReserve(p)
    BY <2>4, UndoHoldsSlot DEF UndoReserve
  <2>5. CASE CountPending(p) \/ CountGone(p)
    BY <2>5 DEF CountPending, CountGone
  <2>6. ASSUME NEW d \in Ids, InsertReservation(p, d) PROVE TypeOK'
    BY <2>6, FS_AddElement DEF InsertReservation
  <2>7. CASE RecheckSession(p)
    BY <2>7 DEF RecheckSession
  <2>8. CASE ReleaseReservation(p)
    BY <2>8, FS_RemoveElement DEF ReleaseReservation
  <2>9. CASE IsolateSlow(p)
    BY <2>9 DEF IsolateSlow
  <2>10. CASE Kill(p)
    BY <2>10 DEF Kill, CountPcs
  <2> QED BY <1>1, <2>1, <2>2, <2>3, <2>4, <2>5, <2>6, <2>7, <2>8, <2>9, <2>10
             DEF CallerStep, SendStep
<1>2. ASSUME NEW p \in Procs, GiveBack(p) PROVE TypeOK'
  BY <1>2 DEF GiveBack, RollbackCount, ReleaseCapacity, Decrement
<1>3. ASSUME NEW s \in Sessions, SessionStep(s) PROVE TypeOK'
  BY <1>3 DEF SessionStep, Connect, Disconnect, OwnerDown, EvictSlow,
              BeginCleanup, OwnerExit, LoseEviction
<1>4. CASE NewCounterRow
  BY <1>4 DEF NewCounterRow, RtIs, RtS
<1>5. CASE CleanupStep
  <2>1. ASSUME NEW e \in Ids \cup {0}, FirstKey(e) PROVE TypeOK'
    BY <2>1 DEF FirstKey
  <2>2. ASSUME NEW e \in Ids \cup {0}, ReleaseNext(e) PROVE TypeOK'
    BY <2>2, FS_RemoveElement DEF ReleaseNext
  <2>3. CASE ReleaseEnd \/ DropCounterRow \/ UnmarkSlow
    BY <2>3 DEF ReleaseEnd, DropCounterRow, UnmarkSlow, RtIs, RtS
  <2> QED BY <1>5, <2>1, <2>2, <2>3 DEF CleanupStep
<1>6. CASE Crash
  BY <1>6 DEF Crash, RtIs, RtS, CountPcs
<1>7. CASE RecoveryStep
  BY <1>7 DEF RecoveryStep, Reconcile, RebuildMonitors, RtIs, Live
<1>8. CASE UNCHANGED vars
  BY <1>8 DEF vars
<1> QED
  BY <1>1, <1>2, <1>3, <1>4, <1>5, <1>6, <1>7, <1>8 DEF Next


-----------------------------------------------------------------------------
(* Exact accounting of the instance's capacity slots.                      *)

InSlot(pc) == IF pc \in SlotPcs THEN 1 ELSE 0
Res        == Cardinality(reservations)

LEMMA SlotMove ==
  ASSUME ProcOK, NEW p \in Procs, NEW r, proc' = [proc EXCEPT ![p] = r]
  PROVE  /\ Slots \in Nat /\ Slots' \in Nat
         /\ Slots' = Slots + InSlot(r.pc) - InSlot(proc[p].pc)
  BY SlotCount DEF ProcOK, InSlot

LEMMA SlotTo ==
  ASSUME ProcOK, NEW p \in Procs, NEW r, proc' = [proc EXCEPT ![p] = r],
         NEW n, InSlot(r.pc) = n, NEW m, InSlot(proc[p].pc) = m
  PROVE  Slots' = Slots + n - m /\ Slots \in Nat
  BY SlotMove

LEMMA SlotGoto ==
  ASSUME ProcOK, NEW p \in Procs, NEW pc, Goto(p, pc)
  PROVE  /\ Slots \in Nat /\ Slots' \in Nat
         /\ Slots' = Slots + InSlot(pc) - InSlot(proc[p].pc)
<1> DEFINE r == [proc[p] EXCEPT !.pc = pc]
<1>1. proc' = [proc EXCEPT ![p] = r] /\ r.pc = pc
  BY DEF Goto, ProcOK, ProcType
<1> QED
  BY <1>1, SlotMove

LEMMA SlotFinish ==
  ASSUME ProcOK, NEW p \in Procs, Finish(p)
  PROVE  /\ Slots \in Nat /\ Slots' \in Nat
         /\ Slots' = Slots - InSlot(proc[p].pc)
<1>1. InSlot(Idle.pc) = 0
  BY DEF InSlot, SlotPcs, Idle
<1>2. InSlot(proc[p].pc) \in Nat
  BY DEF InSlot
<1>3. /\ Slots \in Nat /\ Slots' \in Nat
      /\ Slots' = Slots + InSlot(Idle.pc) - InSlot(proc[p].pc)
  BY SlotMove DEF Finish
<1> QED
  BY <1>1, <1>2, <1>3

LEMMA SlotStill ==
  ASSUME UNCHANGED proc
  PROVE  Slots' = Slots
  BY DEF Slots, SlotHolders

LEMMA ResType ==
  ASSUME TypeOK
  PROVE  Res \in Nat
  BY FS_CardinalityType DEF TypeOK, Res

LEMMA ResTake ==
  ASSUME TypeOK, NEW key, reservations' = reservations \ {key}
  PROVE  Res' = IF key \in reservations THEN Res - 1 ELSE Res
<1>1. CASE key \in reservations
  BY <1>1, CardMinus DEF TypeOK, Res
<1>2. CASE key \notin reservations
  <2>1. reservations' = reservations
    BY <1>2
  <2> QED BY <1>2, <2>1 DEF Res
<1> QED
  BY <1>1, <1>2

LEMMA ResInsert ==
  ASSUME TypeOK, NEW key, reservations' = reservations \cup {key}
  PROVE  Res' = IF key \in reservations THEN Res ELSE Res + 1
<1>1. CASE key \notin reservations
  BY <1>1, CardPlus DEF TypeOK, Res
<1>2. CASE key \in reservations
  <2>1. reservations' = reservations
    BY <1>2
  <2> QED BY <1>2, <2>1 DEF Res
<1> QED
  BY <1>1, <1>2

LEMMA ResStill ==
  ASSUME UNCHANGED reservations
  PROVE  Res' = Res
  BY DEF Res

(* A step is balanced when the counter moves with what it accounts for.    *)
Balanced == capacity' = capacity + (Res' - Res) + (Slots' - Slots)
                                 + (leaked' - leaked)

LEMMA BalancedStep ==
  ASSUME TypeOK, TypeOK', CapacityExact, Balanced
  PROVE  CapacityExact'
<1>1. /\ capacity \in Int /\ capacity' \in Int /\ leaked \in Int
      /\ leaked' \in Int
  BY DEF TypeOK
<1>2. Res \in Int /\ Res' \in Int
  BY ResType, FS_CardinalityType DEF TypeOK, Res
<1>3. Slots \in Int /\ Slots' \in Int
  <2>1. IsFiniteSet(SlotHolders') 
    BY ProcsFinite, FS_Subset DEF SlotHolders
  <2> QED BY <2>1, SlotsFinite, FS_CardinalityType DEF Slots
<1>4. capacity = Res + Slots + leaked
  BY DEF CapacityExact, Res, Slots
<1>5. capacity' = Res' + Slots' + leaked'
  BY <1>1, <1>2, <1>3, <1>4 DEF Balanced
<1> QED
  BY <1>5 DEF CapacityExact, Res, Slots


LEMMA CallerBalanced ==
  ASSUME TypeOK, TypeOK', CapacityExact, NEW p \in Callers, CallerStep(p)
  PROVE  Balanced
<1>0. /\ ProcOK /\ p \in Procs /\ p # Runtime
      /\ Res \in Nat /\ capacity \in Nat /\ capacity' \in Nat /\ leaked \in Nat
  BY ResType, ConstantsOK DEF TypeOK, Procs
<1>1. /\ InSlot("idle") = 0 /\ InSlot("reserve") = 0 /\ InSlot("undo") = 1
      /\ InSlot("count") = 1 /\ InSlot("insert") = 1
      /\ InSlot("recheck") = 0 /\ InSlot("retract") = 0
      /\ InSlot("rollback") = 1 /\ InSlot("giveback") = 1
      /\ InSlot("isolate") = 0
  BY DEF InSlot, SlotPcs
<1>2. ASSUME NEW s \in Sessions, NEW c \in Classes, SendSession(p, s, c)
      PROVE  Balanced
  <2> DEFINE r == [Idle EXCEPT !.pc = "reserve", !.s = s, !.class = c,
                               !.mon = monitor[s]]
  <2>1. r.pc = "reserve" /\ proc[p].pc = "idle" /\ proc' = [proc EXCEPT ![p] = r]
    BY <1>2 DEF SendSession, Idle
  <2> HIDE DEF r
  <2>0. InSlot(r.pc) = 0 /\ InSlot(proc[p].pc) = 0
    BY ONLY <1>1, <2>1
  <2>2. Slots' = Slots + 0 - 0 /\ Slots \in Nat
    BY ONLY <1>0, <2>0, <2>1, SlotTo
  <2>3. Res' = Res /\ UNCHANGED <<capacity, leaked>>
    BY <1>2, ResStill DEF SendSession
  <2> QED BY <1>0, <2>2, <2>3 DEF Balanced
<1>3. ASSUME NEW s \in Sessions, NEW d \in Ids, Ack(p, s, d) PROVE Balanced
  <2> DEFINE r == [Idle EXCEPT !.pc = "rollback", !.s = s]
  <2>1. r.pc = "rollback" /\ proc[p].pc = "idle" /\ proc' = [proc EXCEPT ![p] = r]
    BY <1>3 DEF Ack, Idle
  <2> HIDE DEF r
  <2>0. InSlot(r.pc) = 1 /\ InSlot(proc[p].pc) = 0
    BY ONLY <1>1, <2>1
  <2>2. Slots' = Slots + 1 - 0 /\ Slots \in Nat
    BY ONLY <1>0, <2>0, <2>1, SlotTo
  <2>3. Res' = Res - 1 /\ UNCHANGED <<capacity, leaked>>
    BY <1>3, ResTake DEF Ack
  <2> QED BY <1>0, <2>2, <2>3 DEF Balanced
<1>4. CASE Reserve(p)
  <2>1. PICK pc \in {"count", "undo"} : Goto(p, pc)
    BY <1>4 DEF Reserve
  <2>2. Slots' = Slots + 1 - 0 /\ Slots \in Nat
    BY <1>0, <1>1, <1>4, <2>1, SlotGoto DEF Reserve
  <2>3. Res' = Res /\ capacity' = capacity + 1 /\ leaked' = leaked
    BY <1>4, ResStill DEF Reserve
  <2> QED BY <1>0, <2>2, <2>3 DEF Balanced
<1>5. CASE UndoReserve(p)
  <2>1. Slots' = Slots - 1 /\ Slots \in Nat
    BY <1>0, <1>1, <1>5, SlotFinish DEF UndoReserve
  <2>2. Res' = Res /\ capacity' = capacity - 1 /\ leaked' = leaked
    BY <1>5, ResStill DEF UndoReserve
  <2> QED BY <1>0, <2>1, <2>2 DEF Balanced
<1>6. CASE CountPending(p)
  <2>1. Res' = Res /\ capacity' = capacity /\ leaked' = leaked
    BY <1>6, ResStill DEF CountPending
  <2>2. CASE proc' = [proc EXCEPT ![p].pc = "rollback", ![p].evict = TRUE]
    <3> DEFINE r == [proc[p] EXCEPT !.pc = "rollback", !.evict = TRUE]
    <3>1. r.pc = "rollback" /\ proc' = [proc EXCEPT ![p] = r]
      BY <1>0, <2>2 DEF ProcOK, ProcType
    <3>2. InSlot(r.pc) = 1 /\ InSlot(proc[p].pc) = 1
      BY <1>1, <1>6, <3>1 DEF CountPending
    <3>3. /\ Slots' = Slots + InSlot(r.pc) - InSlot(proc[p].pc)
          /\ Slots \in Nat
      BY <1>0, <3>1, SlotMove
    <3>4. Slots' = Slots + 1 - 1 /\ Slots \in Nat
      BY <3>2, <3>3
    <3> QED BY <1>0, <2>1, <3>4 DEF Balanced
  <2>3. CASE Goto(p, "rollback") \/ Goto(p, "insert")
    <3>1. Slots' = Slots + 1 - 1 /\ Slots \in Nat
      BY <1>0, <1>1, <1>6, <2>3, SlotGoto DEF CountPending
    <3> QED BY <1>0, <2>1, <3>1 DEF Balanced
  <2> QED BY <1>6, <2>2, <2>3 DEF CountPending
<1>7. CASE CountGone(p)
  <2>1. Slots' = Slots + 1 - 1 /\ Slots \in Nat
    BY <1>0, <1>1, <1>7, SlotGoto DEF CountGone
  <2>2. Res' = Res /\ capacity' = capacity /\ leaked' = leaked
    BY <1>7, ResStill DEF CountGone
  <2> QED BY <1>0, <2>1, <2>2 DEF Balanced
<1>8. ASSUME NEW d \in Ids, InsertReservation(p, d) PROVE Balanced
  <2> DEFINE key == <<proc[p].s, d>>
  <2>1. /\ reservations' = reservations \cup {key} /\ proc[p].pc = "insert"
        /\ capacity' = capacity /\ leaked' = leaked
    BY <1>8 DEF InsertReservation
  <2>2. CASE key \in reservations
    <3>1. Slots' = Slots + 1 - 1 /\ Slots \in Nat
      BY <1>0, <1>1, <1>8, <2>1, <2>2, SlotGoto DEF InsertReservation
    <3>2. Res' = Res
      BY <2>1, <2>2, ResInsert
    <3> QED BY <1>0, <2>1, <3>1, <3>2 DEF Balanced
  <2>3. CASE key \notin reservations
    <3> DEFINE r == [proc[p] EXCEPT !.pc = "recheck", !.id = d]
    <3>1. r.pc = "recheck" /\ proc' = [proc EXCEPT ![p] = r]
      BY ONLY <1>0, <1>8, <2>3, InsertTakes
    <3> HIDE DEF r
    <3>4. InSlot(r.pc) = 0 /\ InSlot(proc[p].pc) = 1
      BY ONLY <1>1, <2>1, <3>1
    <3>2. Slots' = Slots + 0 - 1 /\ Slots \in Nat
      BY ONLY <1>0, <3>1, <3>4, SlotTo
    <3>3. Res' = Res + 1
      BY <2>1, <2>3, ResInsert
    <3> QED BY <1>0, <2>1, <3>2, <3>3 DEF Balanced
  <2> QED BY <2>2, <2>3
<1>9. CASE RecheckSession(p)
  <2>1. Slots' = Slots + 0 - 0 /\ Slots \in Nat
    <3>1. CASE Finish(p)
      <4>1. Slots' = Slots - 0 /\ Slots \in Nat
        BY <1>0, <1>1, <1>9, <3>1, SlotFinish DEF RecheckSession
      <4> QED BY <4>1
    <3>2. CASE Goto(p, "retract")
      BY <1>0, <1>1, <1>9, <3>2, SlotGoto DEF RecheckSession
    <3> QED BY <1>9, <3>1, <3>2 DEF RecheckSession
  <2>2. Res' = Res /\ capacity' = capacity /\ leaked' = leaked
    BY <1>9, ResStill DEF RecheckSession
  <2> QED BY <1>0, <2>1, <2>2 DEF Balanced
<1>10. CASE ReleaseReservation(p)
  <2> DEFINE key == <<proc[p].s, proc[p].id>>
  <2>1. /\ reservations' = reservations \ {key} /\ proc[p].pc = "retract"
        /\ capacity' = capacity /\ leaked' = leaked
    BY <1>10 DEF ReleaseReservation
  <2>2. CASE key \in reservations
    <3>1. Slots' = Slots + 1 - 0 /\ Slots \in Nat
      BY <1>0, <1>1, <1>10, <2>1, <2>2, SlotGoto DEF ReleaseReservation
    <3>2. Res' = Res - 1
      BY <2>1, <2>2, ResTake
    <3> QED BY <1>0, <2>1, <3>1, <3>2 DEF Balanced
  <2>3. CASE key \notin reservations
    <3>1. Slots' = Slots - 0 /\ Slots \in Nat
      BY <1>0, <1>1, <1>10, <2>1, <2>3, SlotFinish DEF ReleaseReservation
    <3>2. Res' = Res
      BY <2>1, <2>3, ResTake
    <3> QED BY <1>0, <2>1, <3>1, <3>2 DEF Balanced
  <2> QED BY <2>2, <2>3
<1>11. CASE IsolateSlow(p)
  <2>1. Slots' = Slots - 0 /\ Slots \in Nat
    BY <1>0, <1>1, <1>11, SlotFinish DEF IsolateSlow
  <2>2. Res' = Res /\ capacity' = capacity /\ leaked' = leaked
    BY <1>11, ResStill DEF IsolateSlow
  <2> QED BY <1>0, <2>1, <2>2 DEF Balanced
<1>12. CASE Kill(p)
  <2>1. /\ Slots' = Slots - InSlot(proc[p].pc) /\ Slots \in Nat
        /\ InSlot(proc[p].pc) \in Nat
    BY <1>0, <1>12, SlotFinish DEF Kill, InSlot
  <2>2. /\ Res' = Res /\ capacity' = capacity
        /\ leaked' = leaked + InSlot(proc[p].pc)
    BY <1>12, ResStill DEF Kill, InSlot
  <2> QED BY <1>0, <2>1, <2>2 DEF Balanced
<1> QED
  BY <1>2, <1>3, <1>4, <1>5, <1>6, <1>7, <1>8, <1>9, <1>10, <1>11, <1>12
     DEF CallerStep, SendStep


(* A process that gives a slot back holds one, so the clamp is idle.       *)
LEMMA GiveBackBalanced ==
  ASSUME TypeOK, TypeOK', CapacityExact, NEW p \in Procs, GiveBack(p)
  PROVE  Balanced
<1>0. /\ ProcOK
      /\ Res \in Nat /\ capacity \in Nat /\ capacity' \in Nat /\ leaked \in Nat
  BY ResType DEF TypeOK
<1>1. /\ InSlot("idle") = 0 /\ InSlot("isolate") = 0 /\ InSlot("release") = 0
      /\ InSlot("rollback") = 1 /\ InSlot("giveback") = 1
  BY DEF InSlot, SlotPcs
<1>2. CASE RollbackCount(p)
  <2>1. Slots' = Slots + 1 - 1 /\ Slots \in Nat
    BY <1>0, <1>1, <1>2, SlotGoto DEF RollbackCount
  <2>2. Res' = Res /\ capacity' = capacity /\ leaked' = leaked
    BY <1>2, ResStill DEF RollbackCount
  <2> QED BY <1>0, <2>1, <2>2 DEF Balanced
<1>3. CASE ReleaseCapacity(p)
  <2>1. p \in SlotHolders
    BY <1>3 DEF ReleaseCapacity, SlotHolders, SlotPcs
  <2>2. Slots \in Nat /\ Slots >= 1
    BY <2>1, SlotsFinite, CardMinus DEF Slots
  <2>3. capacity >= 1
    BY <1>0, <2>2 DEF CapacityExact, Res, Slots
  <2>4. capacity' = capacity - 1
    BY <1>0, <1>3, <2>3 DEF ReleaseCapacity, Decrement
  <2>5. Slots' = Slots - 1
    <3>1. CASE Finish(p)
      BY <1>0, <1>1, <1>3, <3>1, SlotFinish DEF ReleaseCapacity
    <3>2. ASSUME NEW pc \in {"release", "isolate"}, Goto(p, pc)
          PROVE  Slots' = Slots - 1
      <4>1. Slots' = Slots + 0 - 1
        BY <1>0, <1>1, <1>3, <3>2, SlotGoto DEF ReleaseCapacity
      <4> QED BY <2>2, <4>1
    <3> QED BY <1>3, <3>1, <3>2 DEF ReleaseCapacity
  <2>6. Res' = Res /\ leaked' = leaked
    BY <1>3, ResStill DEF ReleaseCapacity
  <2> QED BY <1>0, <2>2, <2>4, <2>5, <2>6 DEF Balanced
<1> QED
  BY <1>2, <1>3 DEF GiveBack

LEMMA RuntimeBalanced ==
  ASSUME TypeOK, TypeOK', CapacityExact,
         \/ \E s \in Sessions : SessionStep(s)
         \/ NewCounterRow \/ CleanupStep \/ Crash \/ RecoveryStep
  PROVE  Balanced
<1> USE DEF RtIs
<1>0. /\ ProcOK /\ Runtime \in Procs
      /\ Res \in Nat /\ capacity \in Nat /\ capacity' \in Nat /\ leaked \in Nat
  BY ResType DEF TypeOK, Procs
<1>1. /\ InSlot("idle") = 0 /\ InSlot("new_row") = 0 /\ InSlot("cleanup") = 0
      /\ InSlot("release") = 0 /\ InSlot("rollback") = 1
      /\ InSlot("drop_row") = 0 /\ InSlot("unmark") = 0 /\ InSlot("down") = 0
      /\ InSlot("rebuild") = 0
  BY DEF InSlot, SlotPcs
<1>2. ASSUME UNCHANGED <<reservations, capacity, leaked>>,
             Slots' = Slots + 0 - 0 \/ Slots' = Slots - 0 \/ Slots' = Slots,
             Slots \in Nat
      PROVE  Balanced
  <2>1. Res' = Res
    BY <1>2, ResStill
  <2> QED BY <1>0, <1>2, <2>1 DEF Balanced
<1>3. ASSUME NEW s \in Sessions, SessionStep(s) PROVE Balanced
  <2>1. CASE OwnerExit(s) \/ LoseEviction(s)
    BY <1>2, <2>1, SlotStill, SlotsFinite DEF OwnerExit, LoseEviction, Slots
  <2>2. ASSUME NEW pc \in {"new_row", "cleanup"}, proc[Runtime].pc = "idle",
               UNCHANGED <<reservations, capacity, leaked>>,
               proc' = [proc EXCEPT ![Runtime] = [Idle EXCEPT !.pc = pc, !.s = s]]
        PROVE  Balanced
    <3> DEFINE r == [Idle EXCEPT !.pc = pc, !.s = s]
    <3>1. InSlot(r.pc) = 0 /\ InSlot(proc[Runtime].pc) = 0
      BY <1>1, <2>2 DEF Idle
    <3>2. /\ Slots' = Slots + InSlot(r.pc) - InSlot(proc[Runtime].pc)
          /\ Slots \in Nat
      BY <1>0, <2>2, SlotMove
    <3>3. Slots' = Slots + 0 - 0 /\ Slots \in Nat
      BY <3>1, <3>2
    <3> QED BY <1>2, <2>2, <3>3
  <2>3. CASE Connect(s)
    BY <2>2, <2>3 DEF Connect
  <2>4. CASE BeginCleanup(s)
    BY <2>2, <2>4 DEF BeginCleanup
  <2> QED BY <1>3, <2>1, <2>3, <2>4 DEF SessionStep, Disconnect, OwnerDown,
                                        EvictSlow
<1>4. CASE NewCounterRow \/ UnmarkSlow \/ RebuildMonitors
  <2>1. Slots' = Slots - 0 /\ Slots \in Nat
    BY <1>0, <1>1, <1>4, SlotFinish DEF NewCounterRow, UnmarkSlow,
                                        RebuildMonitors
  <2> QED BY <1>2, <1>4, <2>1 DEF NewCounterRow, UnmarkSlow, RebuildMonitors
<1>5. CASE ReleaseEnd \/ DropCounterRow \/ Reconcile
  <2>1. Slots' = Slots + 0 - 0 /\ Slots \in Nat
    BY <1>0, <1>1, <1>5, SlotGoto DEF ReleaseEnd, DropCounterRow, Reconcile
  <2> QED BY <1>2, <1>5, <2>1 DEF ReleaseEnd, DropCounterRow, Reconcile
<1>6. ASSUME NEW pc \in {"release", "rollback"}, NEW e,
             InSlot(proc[Runtime].pc) = 0,
             proc' = [proc EXCEPT ![Runtime].pc = pc, ![Runtime].id = e]
      PROVE  Slots' = Slots + InSlot(pc) - 0 /\ Slots \in Nat
  <2> DEFINE r == [proc[Runtime] EXCEPT !.pc = pc, !.id = e]
  <2>1. r.pc = pc /\ proc' = [proc EXCEPT ![Runtime] = r]
    BY <1>0, <1>6 DEF ProcOK, ProcType
  <2>2. /\ Slots' = Slots + InSlot(r.pc) - InSlot(proc[Runtime].pc)
        /\ Slots \in Nat
    BY <1>0, <2>1, SlotMove
  <2> QED BY <1>6, <2>1, <2>2
<1>7. ASSUME NEW e \in Ids \cup {0}, FirstKey(e) PROVE Balanced
  <2>1. Slots' = Slots + InSlot("release") - 0 /\ Slots \in Nat
    BY <1>1, <1>6, <1>7 DEF FirstKey
  <2> QED BY <1>1, <1>2, <1>7, <2>1 DEF FirstKey
<1>8. ASSUME NEW e \in Ids \cup {0}, ReleaseNext(e) PROVE Balanced
  <2> DEFINE key == <<RtS, proc[Runtime].id>>
  <2>1. /\ reservations' = reservations \ {key} /\ proc[Runtime].pc = "release"
        /\ capacity' = capacity /\ leaked' = leaked
    BY <1>8 DEF ReleaseNext
  <2>2. CASE key \in reservations
    <3>1. Slots' = Slots + InSlot("rollback") - 0 /\ Slots \in Nat
      BY <1>1, <1>6, <1>8, <2>1, <2>2 DEF ReleaseNext
    <3>2. Res' = Res - 1
      BY <2>1, <2>2, ResTake
    <3> QED BY <1>0, <1>1, <2>1, <3>1, <3>2 DEF Balanced
  <2>3. CASE key \notin reservations
    <3>1. Slots' = Slots + InSlot("release") - 0 /\ Slots \in Nat
      BY <1>1, <1>6, <1>8, <2>1, <2>3 DEF ReleaseNext
    <3>2. Res' = Res
      BY <2>1, <2>3, ResTake
    <3> QED BY <1>0, <1>1, <2>1, <3>1, <3>2 DEF Balanced
  <2> QED BY <2>2, <2>3
<1>9. CASE Crash
  <2> DEFINE r == [Idle EXCEPT !.pc = "down"]
  <2>1. r.pc = "down"
    BY DEF Idle
  <2>2. /\ Slots' = Slots + 0 - InSlot(proc[Runtime].pc) /\ Slots \in Nat
        /\ InSlot(proc[Runtime].pc) \in Nat
    BY <1>0, <1>1, <1>9, <2>1, SlotMove DEF Crash, InSlot
  <2>3. /\ Res' = Res /\ capacity' = capacity
        /\ leaked' = leaked + InSlot(proc[Runtime].pc)
    BY <1>9, ResStill DEF Crash, InSlot
  <2> QED BY <1>0, <2>2, <2>3 DEF Balanced
<1> QED
  BY <1>3, <1>4, <1>5, <1>7, <1>8, <1>9 DEF CleanupStep, RecoveryStep

LEMMA CapacityNext ==
  ASSUME TypeOK, TypeOK', CapacityExact, [Next]_vars
  PROVE  CapacityExact'
<1>1. CASE UNCHANGED vars
  <2>1. UNCHANGED <<reservations, proc, capacity, leaked>>
    BY <1>1 DEF vars
  <2> QED BY <2>1 DEF CapacityExact, SlotHolders
<1>2. CASE Next
  BY <1>2, BalancedStep, CallerBalanced, GiveBackBalanced, RuntimeBalanced
     DEF Next
<1> QED
  BY <1>1, <1>2

LEMMA InitOK == Init => TypeOK /\ CapacityExact
<1> SUFFICES ASSUME Init PROVE TypeOK /\ CapacityExact
  OBVIOUS
<1>1. Idle \in ProcType
  BY DEF Idle, ProcType, CallerPcs, Classes
<1>2. \A p \in Procs : proc[p] = Idle /\ proc[p].pc = "idle"
  BY DEF Init, Idle
<1>3. ProcOK
  BY <1>1, <1>2 DEF Init, ProcOK, Procs, NeedsSession, CallerPcs, RuntimePcs
<1>4. reservations = {} /\ IsFiniteSet(reservations)
  BY FS_EmptySet DEF Init
<1>5. TypeOK
  BY <1>3, <1>4 DEF Init, TypeOK
<1>6. SlotHolders = {}
  BY <1>2 DEF SlotHolders, SlotPcs
<1>7. Cardinality({}) = 0
  BY FS_EmptySet
<1> QED
  BY <1>4, <1>5, <1>6, <1>7 DEF Init, CapacityExact

-----------------------------------------------------------------------------
(* Type correctness and the capacity account hold together: that the undo  *)
(* of a failed reservation stays a natural number needs the account.       *)
LEMMA TypeAndCapacity == Spec => [](TypeOK /\ CapacityExact)
<1>1. TypeOK /\ CapacityExact /\ [Next]_vars => (TypeOK /\ CapacityExact)'
  BY TypeNext, CapacityNext
<1> QED
  BY <1>1, InitOK, PTL DEF Spec

(* Every variable keeps its type, in particular the capacity counter never *)
(* goes below zero, for any number of sessions, processes and limits.      *)
THEOREM TypeCorrect == Spec => []TypeOK
  BY TypeAndCapacity, PTL

(* No interleaving of senders, acknowledgements, cleanups, deaths of       *)
(* callers and restarts of the Runtime frees a capacity slot twice or      *)
(* loses one that no death explains.                                       *)
THEOREM CapacityAccounting == Spec => []CapacityExact
  BY TypeAndCapacity, PTL
=============================================================================
