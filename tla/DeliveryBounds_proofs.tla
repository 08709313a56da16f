------------------------ MODULE DeliveryBounds_proofs ------------------------
(* Proofs that the delivery windows of Delivery are bounded, for every     *)
(* number of sessions, callers, delivery ids and limits.                   *)
EXTENDS Delivery_proofs

(* A process that changes its record, seen by its pc alone.                *)
LEMMA PcMove ==
  ASSUME ProcOK, NEW p \in Procs, NEW r, proc' = [proc EXCEPT ![p] = r],
         NEW q \in Procs
  PROVE  proc'[q] = IF q = p THEN r ELSE proc[q]
  BY DEF ProcOK

LEMMA PcGoto ==
  ASSUME ProcOK, NEW p \in Procs, NEW pc, Goto(p, pc), NEW q \in Procs
  PROVE  /\ proc'[q].pc = IF q = p THEN pc ELSE proc[q].pc
         /\ proc'[q].s = proc[q].s /\ proc'[q].id = proc[q].id
         /\ proc'[q].mon = proc[q].mon
  BY DEF ProcOK, ProcType, Goto

LEMMA PcFinish ==
  ASSUME ProcOK, NEW p \in Procs, Finish(p), NEW q \in Procs
  PROVE  /\ q = p => proc'[q] = Idle /\ proc'[q].pc = "idle"
         /\ q # p => proc'[q] = proc[q]
  BY DEF ProcOK, Finish, Idle

-----------------------------------------------------------------------------
(* The instance's window: reservations in the table and those a process is *)
(* still admitted to insert.                                               *)
AdmitPcs    == {"count", "insert"}
Admitting   == {p \in Procs : proc[p].pc \in AdmitPcs}
AdmitBound  == Cardinality(reservations) + Cardinality(Admitting)
                 <= MaxReservations

(* A step that lets nobody new in.                                         *)
NoneAdmitted == /\ reservations' \subseteq reservations
                /\ Admitting' \subseteq Admitting

LEMMA AdmitFinite == IsFiniteSet(Admitting) /\ Cardinality(Admitting) \in Nat
  BY ProcsFinite, FS_Subset, FS_CardinalityType DEF Admitting

LEMMA NoneAdmittedBound ==
  ASSUME TypeOK, AdmitBound, NoneAdmitted
  PROVE  AdmitBound'
<1>1. /\ Cardinality(reservations') <= Cardinality(reservations)
      /\ Cardinality(reservations') \in Nat /\ Cardinality(reservations) \in Nat
  BY FS_Subset, FS_CardinalityType DEF TypeOK, NoneAdmitted
<1>2. /\ Cardinality(Admitting') <= Cardinality(Admitting)
      /\ Cardinality(Admitting') \in Nat /\ Cardinality(Admitting) \in Nat
  BY AdmitFinite, FS_Subset, FS_CardinalityType DEF NoneAdmitted
<1> QED
  BY <1>1, <1>2, ConstantsOK DEF AdmitBound

LEMMA MoveNoneAdmitted ==
  ASSUME TypeOK, NEW p \in Procs, NEW r, proc' = [proc EXCEPT ![p] = r],
         r.pc \in AdmitPcs => proc[p].pc \in AdmitPcs,
         reservations' \subseteq reservations
  PROVE  NoneAdmitted
<1> ProcOK
  BY DEF TypeOK
<1> QED
  BY PcMove DEF NoneAdmitted, Admitting

LEMMA GotoNoneAdmitted ==
  ASSUME TypeOK, NEW p \in Procs, NEW pc, Goto(p, pc),
         pc \in AdmitPcs => proc[p].pc \in AdmitPcs,
         reservations' \subseteq reservations
  PROVE  NoneAdmitted
<1> ProcOK
  BY DEF TypeOK
<1> QED
  BY PcGoto DEF NoneAdmitted, Admitting

LEMMA FinishNoneAdmitted ==
  ASSUME TypeOK, NEW p \in Procs, Finish(p), reservations' \subseteq reservations
  PROVE  NoneAdmitted
<1> ProcOK
  BY DEF TypeOK
<1> QED
  BY PcFinish DEF NoneAdmitted, Admitting, AdmitPcs

(* The check after the increment: what is counted in capacity includes     *)
(* every admitted process.                                                 *)
LEMMA ReserveBound ==
  ASSUME TypeOK, TypeOK', CapacityExact', AdmitBound, NEW p \in Callers,
         Reserve(p)
  PROVE  AdmitBound'
<1>0. ProcOK /\ p \in Procs
  BY DEF TypeOK, Procs
<1>1. CASE capacity' <= MaxReservations
  <2>1. Admitting' \subseteq SlotHolders'
    BY DEF Admitting, SlotHolders, AdmitPcs, SlotPcs
  <2>2. IsFiniteSet(SlotHolders')
    BY ProcsFinite, FS_Subset DEF SlotHolders
  <2>3. /\ Cardinality(Admitting') <= Cardinality(SlotHolders')
        /\ Cardinality(Admitting') \in Nat /\ Cardinality(SlotHolders') \in Nat
    BY <2>1, <2>2, FS_Subset, FS_CardinalityType
  <2>4. Cardinality(reservations') \in Nat /\ leaked' \in Nat
    BY FS_CardinalityType DEF TypeOK
  <2> QED BY <1>1, <2>3, <2>4, ConstantsOK DEF AdmitBound, CapacityExact
<1>2. CASE ~(capacity' <= MaxReservations)
  <2>1. Goto(p, "undo") /\ reservations' = reservations
    BY <1>2 DEF Reserve
  <2>2. NoneAdmitted
    BY <1>0, <2>1, GotoNoneAdmitted DEF AdmitPcs
  <2> QED BY <2>2, NoneAdmittedBound
<1> QED
  BY <1>1, <1>2

LEMMA InsertBound ==
  ASSUME TypeOK, TypeOK', AdmitBound, NEW p \in Callers, NEW d \in Ids,
         InsertReservation(p, d)
  PROVE  AdmitBound'
<1> DEFINE key == <<proc[p].s, d>>
<1>0. ProcOK /\ p \in Procs
  BY DEF TypeOK, Procs
<1>1. CASE key \in reservations
  <2>1. Goto(p, "rollback") /\ reservations' \subseteq reservations
    BY <1>1 DEF InsertReservation
  <2>2. NoneAdmitted
    BY <1>0, <2>1, GotoNoneAdmitted DEF AdmitPcs
  <2> QED BY <2>2, NoneAdmittedBound
<1>2. CASE key \notin reservations
  <2> DEFINE r == [proc[p] EXCEPT !.pc = "recheck", !.id = d]
  <2>1. r.pc = "recheck" /\ proc' = [proc EXCEPT ![p] = r]
    BY ONLY <1>0, <1>2, InsertReservation(p, d), InsertTakes
  <2>2. Admitting' = Admitting \ {p} /\ p \in Admitting
    <3>1. \A q \in Procs : proc'[q] = IF q = p THEN r ELSE proc[q]
      BY <1>0, <2>1, PcMove
    <3>2. \A q \in Procs : q \in Admitting' <=> q # p /\ q \in Admitting
      BY <2>1, <3>1 DEF Admitting, AdmitPcs
    <3> QED BY <1>0, <3>2 DEF Admitting, AdmitPcs, InsertReservation
  <2>3. /\ Cardinality(Admitting') = Cardinality(Admitting) - 1
        /\ Cardinality(Admitting) \in Nat
    BY <2>2, AdmitFinite, CardMinus
  <2>4. /\ Cardinality(reservations') = Cardinality(reservations) + 1
        /\ Cardinality(reservations) \in Nat
    BY <1>2, CardPlus DEF TypeOK, InsertReservation
  <2> QED BY <2>3, <2>4, ConstantsOK DEF AdmitBound
<1> QED
  BY <1>1, <1>2

LEMMA CallerBound ==
  ASSUME TypeOK, TypeOK', CapacityExact', AdmitBound, NEW p \in Callers,
         CallerStep(p)
  PROVE  AdmitBound'
<1>0. ProcOK /\ p \in Procs
  BY DEF TypeOK, Procs
<1>1. ASSUME NEW s \in Sessions, NEW c \in Classes, SendSession(p, s, c)
      PROVE  NoneAdmitted
  <2> DEFINE r == [Idle EXCEPT !.pc = "reserve", !.s = s, !.class = c,
                               !.mon = monitor[s]]
  <2>1. r.pc \notin AdmitPcs
    BY DEF AdmitPcs, Idle
  <2>2. proc' = [proc EXCEPT ![p] = r] /\ reservations' \subseteq reservations
    BY <1>1 DEF SendSession
  <2> HIDE DEF r
  <2> QED BY <1>0, <2>1, <2>2, MoveNoneAdmitted
<1>2. ASSUME NEW s \in Sessions, NEW d \in Ids, Ack(p, s, d)
      PROVE  NoneAdmitted
  <2> DEFINE r == [Idle EXCEPT !.pc = "rollback", !.s = s]
  <2>1. r.pc \notin AdmitPcs
    BY DEF AdmitPcs, Idle
  <2>2. proc' = [proc EXCEPT ![p] = r] /\ reservations' \subseteq reservations
    BY <1>2 DEF Ack
  <2> HIDE DEF r
  <2> QED BY <1>0, <2>1, <2>2, MoveNoneAdmitted
<1>3. CASE UndoReserve(p) \/ CountGone(p) \/ RecheckSession(p)
           \/ ReleaseReservation(p) \/ IsolateSlow(p) \/ Kill(p)
  <2>1. /\ reservations' \subseteq reservations
        /\ Finish(p) \/ Goto(p, "giveback") \/ Goto(p, "retract")
                     \/ Goto(p, "rollback")
    BY <1>3 DEF UndoReserve, CountGone, RecheckSession, ReleaseReservation,
                IsolateSlow, Kill
  <2>2. ASSUME NEW pc \in {"giveback", "retract", "rollback"}, Goto(p, pc)
        PROVE  NoneAdmitted
    <3>1. pc \notin AdmitPcs
      BY DEF AdmitPcs
    <3> QED BY <1>0, <2>1, <2>2, <3>1, GotoNoneAdmitted
  <2> QED BY <1>0, <2>1, <2>2, FinishNoneAdmitted, NoneAdmittedBound
<1>4. CASE CountPending(p)
  <2>1. reservations' \subseteq reservations /\ proc[p].pc \in AdmitPcs
    BY <1>4 DEF CountPending, AdmitPcs
  <2>2. CASE proc' = [proc EXCEPT ![p].pc = "rollback", ![p].evict = TRUE]
    <3> DEFINE r == [proc[p] EXCEPT !.pc = "rollback", !.evict = TRUE]
    <3>1. proc' = [proc EXCEPT ![p] = r]
      BY <1>0, <2>2
    <3> HIDE DEF r
    <3> QED BY <1>0, <2>1, <3>1, MoveNoneAdmitted, NoneAdmittedBound
  <2>3. CASE Goto(p, "rollback") \/ Goto(p, "insert")
    BY <1>0, <2>1, <2>3, GotoNoneAdmitted, NoneAdmittedBound
  <2> QED BY <1>4, <2>2, <2>3 DEF CountPending
<1> QED
  BY <1>1, <1>2, <1>3, <1>4, NoneAdmittedBound, ReserveBound, InsertBound
     DEF CallerStep, SendStep

LEMMA GiveBackNoneAdmitted ==
  ASSUME TypeOK, NEW p \in Procs, GiveBack(p)
  PROVE  NoneAdmitted
<1>1. /\ reservations' \subseteq reservations
      /\ Finish(p) \/ Goto(p, "giveback") \/ Goto(p, "release")
                   \/ Goto(p, "isolate")
  BY DEF GiveBack, RollbackCount, ReleaseCapacity
<1> QED
  BY <1>1, GotoNoneAdmitted, FinishNoneAdmitted DEF AdmitPcs

LEMMA RuntimeNoneAdmitted ==
  ASSUME TypeOK,
         \/ \E s \in Sessions : SessionStep(s)
         \/ NewCounterRow \/ CleanupStep \/ Crash \/ RecoveryStep
  PROVE  NoneAdmitted
<1>0. ProcOK /\ Runtime \in Procs
  BY DEF TypeOK, Procs
<1>1. ASSUME NEW s \in Sessions, SessionStep(s) PROVE NoneAdmitted
  <2>1. CASE OwnerExit(s) \/ LoseEviction(s)
    <3>1. UNCHANGED <<proc, reservations>>
      BY <2>1 DEF OwnerExit, LoseEviction
    <3> QED BY <3>1 DEF NoneAdmitted, Admitting
  <2>2. ASSUME NEW pc \in {"new_row", "cleanup"}, reservations' = reservations,
               proc' = [proc EXCEPT ![Runtime] = [Idle EXCEPT !.pc = pc, !.s = s]]
        PROVE  NoneAdmitted
    <3> DEFINE r == [Idle EXCEPT !.pc = pc, !.s = s]
    <3>1. r.pc \notin AdmitPcs
      BY DEF AdmitPcs, Idle
    <3>2. proc' = [proc EXCEPT ![Runtime] = r]
      BY <2>2
    <3> HIDE DEF r
    <3> QED BY <1>0, <2>2, <3>1, <3>2, MoveNoneAdmitted
  <2>3. CASE Connect(s)
    BY <2>2, <2>3 DEF Connect
  <2>4. CASE BeginCleanup(s)
    BY <2>2, <2>4 DEF BeginCleanup
  <2> QED BY <1>1, <2>1, <2>3, <2>4 DEF SessionStep, Disconnect, OwnerDown,
                                        EvictSlow
<1>2. CASE NewCounterRow \/ UnmarkSlow \/ RebuildMonitors \/ ReleaseEnd
           \/ DropCounterRow \/ Reconcile
  <2>1. /\ reservations' = reservations
        /\ Finish(Runtime) \/ Goto(Runtime, "drop_row")
           \/ Goto(Runtime, "unmark") \/ Goto(Runtime, "rebuild")
    BY <1>2 DEF NewCounterRow, UnmarkSlow, RebuildMonitors, ReleaseEnd,
                DropCounterRow, Reconcile
  <2> QED BY <1>0, <2>1, GotoNoneAdmitted, FinishNoneAdmitted DEF AdmitPcs
<1>3. ASSUME NEW e \in Ids \cup {0}, FirstKey(e) \/ ReleaseNext(e)
      PROVE  NoneAdmitted
  <2>1. PICK pc \in {"release", "rollback"} :
          proc' = [proc EXCEPT ![Runtime].pc = pc, ![Runtime].id = e]
    BY <1>3 DEF FirstKey, ReleaseNext
  <2> DEFINE r == [proc[Runtime] EXCEPT !.pc = pc, !.id = e]
  <2>2. r.pc \notin AdmitPcs /\ proc' = [proc EXCEPT ![Runtime] = r]
    BY <1>0, <2>1 DEF ProcOK, ProcType, AdmitPcs
  <2>3. reservations' \subseteq reservations
    BY <1>3 DEF FirstKey, ReleaseNext
  <2> HIDE DEF r
  <2> QED BY <1>0, <2>2, <2>3, MoveNoneAdmitted
<1>4. CASE Crash
  <2> DEFINE r == [Idle EXCEPT !.pc = "down"]
  <2>1. r.pc \notin AdmitPcs
    BY DEF AdmitPcs, Idle
  <2>2. proc' = [proc EXCEPT ![Runtime] = r] /\ reservations' = reservations
    BY <1>4 DEF Crash
  <2> HIDE DEF r
  <2> QED BY <1>0, <2>1, <2>2, MoveNoneAdmitted
<1> QED
  BY <1>1, <1>2, <1>3, <1>4 DEF CleanupStep, RecoveryStep

LEMMA AdmitNext ==
  ASSUME TypeOK, TypeOK', CapacityExact', AdmitBound, [Next]_vars
  PROVE  AdmitBound'
<1>1. CASE UNCHANGED vars
  BY <1>1 DEF vars, AdmitBound, Admitting
<1>2. CASE Next
  BY <1>2, CallerBound, GiveBackNoneAdmitted, RuntimeNoneAdmitted,
     NoneAdmittedBound DEF Next
<1> QED
  BY <1>1, <1>2

(* However many processes race to reserve, and whatever the counter reads  *)
(* while failed reservations are undone, the instance never has more than  *)
(* max_delivery_reservations deliveries outstanding.                       *)
THEOREM InstanceIsBounded == Spec => []InstanceBound
<1>1. Init => AdmitBound
  <2> SUFFICES ASSUME Init PROVE AdmitBound
    OBVIOUS
  <2>1. reservations = {} /\ Admitting = {}
    BY DEF Init, Admitting, AdmitPcs, Idle
  <2> QED BY <2>1, FS_EmptySet, ConstantsOK DEF AdmitBound
<1>2. TypeOK /\ TypeOK' /\ CapacityExact' /\ AdmitBound /\ [Next]_vars
        => AdmitBound'
  BY AdmitNext
<1>3. TypeOK /\ AdmitBound => InstanceBound
  BY AdmitFinite, FS_CardinalityType, ConstantsOK
     DEF TypeOK, AdmitBound, InstanceBound
<1> QED
  BY <1>1, <1>2, <1>3, TypeAndCapacity, PTL DEF Spec
=============================================================================
