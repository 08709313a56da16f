----------------------- MODULE DeliverySessions_proofs -----------------------
(* Proofs about the deliveries of a single session in Delivery: its        *)
(* pending count is exact, its window is bounded and the end of a session  *)
(* leaves no reservation behind.                                           *)
EXTENDS DeliveryBounds_proofs

-----------------------------------------------------------------------------
(* The life of a session: an id is used once, and what the Runtime is      *)
(* cleaning up is no longer live.                                          *)
EndingPcs == {"cleanup", "release", "rollback", "giveback", "drop_row",
              "unmark"}

LifeInv ==
  /\ Live \subseteq born /\ rows \subseteq born
  /\ RtIs("new_row") => RtS \in Live
  /\ proc[Runtime].pc \in EndingPcs => RtS \in born \ Live

(* Not ended: not handed out yet, or live.  A session that ended stays so. *)
Untouched(s) == s \in Live \/ s \notin born

LEMMA CallerKeepsRuntime ==
  ASSUME TypeOK, NEW p \in Procs, p # Runtime, CallerStep(p) \/ GiveBack(p)
  PROVE  proc'[Runtime] = proc[Runtime] /\ UNCHANGED <<monitor, born, rows, epoch>>
<1>1. \E r : proc' = [proc EXCEPT ![p] = r]
  BY DEF CallerStep, GiveBack, SendSession, Ack, SendStep, Kill, Reserve,
         UndoReserve, CountPending, CountGone, InsertReservation,
         RecheckSession, ReleaseReservation, IsolateSlow, RollbackCount,
         ReleaseCapacity, Goto, Finish
<1>2. UNCHANGED <<monitor, born, rows, epoch>>
  BY DEF CallerStep, GiveBack, SendSession, Ack, SendStep, Kill, Reserve,
         UndoReserve, CountPending, CountGone, InsertReservation,
         RecheckSession, ReleaseReservation, IsolateSlow, RollbackCount,
         ReleaseCapacity
<1> QED
  BY <1>1, <1>2

LEMMA RuntimeFields ==
  ASSUME ProcOK, NEW pc, Goto(Runtime, pc)
  PROVE  proc'[Runtime].pc = pc /\ proc'[Runtime].s = proc[Runtime].s
  BY PcGoto DEF Procs

LEMMA LifeNext ==
  ASSUME TypeOK, LifeInv, [Next]_vars
  PROVE  LifeInv'
<1> USE DEF LifeInv, Live, RtIs, RtS
<1>0. ProcOK /\ Runtime \in Procs /\ monitor \in [Sessions -> Nat]
  BY DEF TypeOK, Procs
<1>1. CASE UNCHANGED vars
  BY <1>1 DEF vars
<1>2. ASSUME NEW p \in Callers, CallerStep(p) PROVE LifeInv'
  BY <1>2, CallerKeepsRuntime, ConstantsOK DEF Procs
<1>3. ASSUME NEW p \in Procs, p # Runtime, GiveBack(p) PROVE LifeInv'
  BY <1>3, CallerKeepsRuntime
<1>4. ASSUME UNCHANGED <<monitor, born, rows>>, NEW pc, NEW r,
             proc' = [proc EXCEPT ![Runtime] = r], r.pc = pc, r.s = RtS,
             pc # "new_row",
             pc \in EndingPcs => proc[Runtime].pc \in EndingPcs
      PROVE  LifeInv'
  BY <1>0, <1>4, PcMove
<1>5. ASSUME UNCHANGED <<monitor, born, rows>>, NEW pc, Goto(Runtime, pc),
             pc # "new_row",
             pc \in EndingPcs => proc[Runtime].pc \in EndingPcs
      PROVE  LifeInv'
  BY <1>0, <1>5, RuntimeFields
<1>6. ASSUME GiveBack(Runtime) PROVE LifeInv'
  <2>1. /\ UNCHANGED <<monitor, born, rows>>
        /\ proc[Runtime].pc \in EndingPcs
        /\ Goto(Runtime, "giveback") \/ Goto(Runtime, "release")
    BY <1>6 DEF GiveBack, RollbackCount, ReleaseCapacity, EndingPcs
  <2> QED BY <2>1, <1>5
<1>7. ASSUME NEW e \in Ids \cup {0}, FirstKey(e) \/ ReleaseNext(e)
      PROVE  LifeInv'
  <2>1. PICK pc \in {"release", "rollback"} :
          proc' = [proc EXCEPT ![Runtime].pc = pc, ![Runtime].id = e]
    BY <1>7 DEF FirstKey, ReleaseNext
  <2> DEFINE r == [proc[Runtime] EXCEPT !.pc = pc, !.id = e]
  <2>2. /\ r.pc = pc /\ r.s = RtS /\ proc' = [proc EXCEPT ![Runtime] = r]
        /\ pc # "new_row"
    BY <1>0, <2>1 DEF ProcOK, ProcType
  <2>3. UNCHANGED <<monitor, born, rows>> /\ proc[Runtime].pc \in EndingPcs
    BY <1>7 DEF FirstKey, ReleaseNext, EndingPcs
  <2> HIDE DEF r
  <2> QED BY <2>2, <2>3, <1>4
<1>8. CASE ReleaseEnd
  <2>1. /\ UNCHANGED <<monitor, born, rows>> /\ Goto(Runtime, "drop_row")
        /\ proc[Runtime].pc \in EndingPcs
    BY <1>8 DEF ReleaseEnd, EndingPcs
  <2> QED BY <2>1, <1>5
<1>9. CASE DropCounterRow
  <2>1. /\ UNCHANGED <<monitor, born>> /\ rows' \subseteq rows
        /\ proc[Runtime].pc \in EndingPcs
        /\ proc'[Runtime].pc = "unmark" /\ proc'[Runtime].s = RtS
    BY <1>0, <1>9, RuntimeFields DEF DropCounterRow, EndingPcs
  <2> QED BY <2>1
<1>10. ASSUME Finish(Runtime), monitor' \in [Sessions -> Nat], born' = born,
              Live' \subseteq born, rows' \subseteq born
       PROVE  LifeInv'
  <2>1. proc'[Runtime].pc = "idle"
    BY <1>0, <1>10, PcFinish
  <2> QED BY <1>10, <2>1 DEF EndingPcs
<1>11. CASE NewCounterRow \/ UnmarkSlow \/ RebuildMonitors
  <2>1. /\ Finish(Runtime) /\ born' = born
        /\ monitor' \in [Sessions -> Nat]
        /\ Live' \subseteq Live /\ rows' \subseteq rows \cup Live
    BY <1>0, <1>11 DEF NewCounterRow, UnmarkSlow, RebuildMonitors, TypeOK
  <2> QED BY <2>1, <1>10
<1>12. CASE Reconcile
  <2>1. /\ UNCHANGED <<monitor, born>> /\ rows' = Live
        /\ proc'[Runtime].pc = "rebuild"
    BY <1>0, <1>12, RuntimeFields DEF Reconcile
  <2> QED BY <2>1 DEF EndingPcs
<1>13. CASE Crash
  <2>1. proc'[Runtime] = [Idle EXCEPT !.pc = "down"]
    BY <1>0, <1>13 DEF Crash, ProcOK
  <2>2. proc'[Runtime].pc = "down"
    BY <2>1 DEF Idle
  <2>3. UNCHANGED <<monitor, born, rows>>
    BY <1>13 DEF Crash
  <2> QED BY <2>2, <2>3 DEF EndingPcs
<1>14. ASSUME NEW s \in Sessions, SessionStep(s) PROVE LifeInv'
  <2>1. CASE OwnerExit(s) \/ LoseEviction(s)
    BY <2>1 DEF OwnerExit, LoseEviction
  <2>2. CASE Connect(s)
    <3>1. proc'[Runtime].pc = "new_row" /\ proc'[Runtime].s = s
      <4>1. proc'[Runtime] = [Idle EXCEPT !.pc = "new_row", !.s = s]
        BY <1>0, <2>2 DEF Connect, ProcOK
      <4> QED BY <4>1 DEF Idle
    <3>2. /\ born' = born \cup {s} /\ rows' = rows
          /\ \A t \in Sessions : monitor'[t] = IF t = s THEN epoch
                                                        ELSE monitor[t]
      BY <1>0, <2>2 DEF Connect
    <3>3. s \in Live'
      BY <3>2 DEF TypeOK
    <3> QED BY <3>1, <3>2, <3>3 DEF EndingPcs
  <2>3. CASE BeginCleanup(s)
    <3>1. proc'[Runtime].pc = "cleanup" /\ proc'[Runtime].s = s
      <4>1. proc'[Runtime] = [Idle EXCEPT !.pc = "cleanup", !.s = s]
        BY <1>0, <2>3 DEF BeginCleanup, ProcOK
      <4> QED BY <4>1 DEF Idle
    <3>2. /\ UNCHANGED <<born, rows>> /\ s \in Live
          /\ \A t \in Sessions : monitor'[t] = IF t = s THEN 0
                                                        ELSE monitor[t]
      BY <1>0, <2>3 DEF BeginCleanup
    <3> QED BY <3>1, <3>2 DEF EndingPcs
  <2> QED BY <1>14, <2>1, <2>2, <2>3 DEF SessionStep, Disconnect, OwnerDown,
                                         EvictSlow
<1> QED
  BY <1>1, <1>2, <1>3, <1>6, <1>7, <1>8, <1>9, <1>11, <1>12, <1>13, <1>14
     DEF Next, CleanupStep, RecoveryStep

LEMMA LifeInit == Init => LifeInv
  BY ConstantsOK DEF Init, LifeInv, Live, RtIs, EndingPcs, Idle, Procs

-----------------------------------------------------------------------------
(* What a step does to one session: to its reservations, to the processes  *)
(* that hold a pending count of it, and to its counter row.                *)
SameWork(s) == /\ Held(s)' = Held(s)
               /\ CountHolders(s)' = CountHolders(s)
               /\ leakedOf'[s] = leakedOf[s]
SameRow(s)  == pending'[s] = pending[s] /\ (s \in rows' <=> s \in rows)

Quiet(s)   == SameWork(s) /\ SameRow(s)
GainRow(s) == /\ SameWork(s)
              /\ s \in Live /\ s \notin rows /\ s \in rows' /\ pending'[s] = 0
LoseRow(s) == /\ SameWork(s)
              /\ ~Untouched(s) /\ s \notin rows' /\ pending'[s] = 0
Enters(s, p) == /\ p \notin CountHolders(s)
                /\ CountHolders(s)' = CountHolders(s) \cup {p}
Leaves(s, p) == /\ p \in CountHolders(s)
                /\ CountHolders(s)' = CountHolders(s) \ {p}
Counted(s, p)  == /\ Enters(s, p) /\ Held(s)' = Held(s)
                  /\ s \in rows /\ s \in rows' /\ pending'[s] = pending[s] + 1
                  /\ leakedOf'[s] = leakedOf[s]
Inserted(s, p) == /\ Leaves(s, p) /\ SameRow(s) /\ leakedOf'[s] = leakedOf[s]
                  /\ \E d \in Ids \ Held(s) : Held(s)' = Held(s) \cup {d}
Taken(s, p)    == /\ Enters(s, p) /\ SameRow(s) /\ leakedOf'[s] = leakedOf[s]
                  /\ \E d \in Held(s) : Held(s)' = Held(s) \ {d}
Returned(s, p) == /\ Leaves(s, p) /\ Held(s)' = Held(s) /\ rows' = rows
                  /\ leakedOf'[s] = leakedOf[s]
                  /\ pending'[s] = IF s \in rows THEN Decrement(pending[s])
                                                 ELSE pending[s]
Died(s, p)     == /\ Leaves(s, p) /\ SameRow(s) /\ Held(s)' = Held(s)
                  /\ leakedOf'[s] = leakedOf[s] + 1

Shaped(s) ==
  \/ Quiet(s) \/ GainRow(s) \/ LoseRow(s)
  \/ \E p \in Procs : \/ Counted(s, p) \/ Inserted(s, p) \/ Taken(s, p)
                      \/ Returned(s, p) \/ Died(s, p)

LEMMA HeldFinite ==
  ASSUME TypeOK, NEW s \in Sessions
  PROVE  IsFiniteSet(Held(s)) /\ Cardinality(Held(s)) \in Nat
<1> DEFINE f == [d \in Held(s) |-> <<s, d>>]
<1>1. f \in Injection(Held(s), reservations)
  <2>1. f \in [Held(s) -> reservations]
    BY DEF Held
  <2>2. \A x, y \in Held(s) : f[x] = f[y] => x = y
    OBVIOUS
  <2> HIDE DEF f
  <2> QED BY <2>1, <2>2 DEF Injection, IsInjective
<1>2. IsFiniteSet(reservations)
  BY DEF TypeOK
<1> QED
  BY <1>1, <1>2, FS_Injection, FS_CardinalityType

LEMMA HeldTake ==
  ASSUME NEW s, NEW t, NEW d, reservations' = reservations \ {<<t, d>>}
  PROVE  Held(s)' = IF t = s THEN Held(s) \ {d} ELSE Held(s)
  BY DEF Held

LEMMA HeldInsert ==
  ASSUME NEW s, NEW t, NEW d \in Ids, reservations' = reservations \cup {<<t, d>>}
  PROVE  Held(s)' = IF t = s THEN Held(s) \cup {d} ELSE Held(s)
  BY DEF Held

LEMMA HeldStill ==
  ASSUME NEW s, reservations' = reservations
  PROVE  Held(s)' = Held(s)
  BY DEF Held

(* Whether a process record holds a pending count of session s.            *)
Counts(r, s) == r.pc \in CountPcs /\ r.s = s

LEMMA CountFinite ==
  ASSUME NEW s
  PROVE  IsFiniteSet(CountHolders(s)) /\ Cardinality(CountHolders(s)) \in Nat
  BY ProcsFinite, FS_Subset, FS_CardinalityType DEF CountHolders

LEMMA CountMove ==
  ASSUME ProcOK, NEW s, NEW p \in Procs, NEW r, proc' = [proc EXCEPT ![p] = r]
  PROVE  /\ CountHolders(s)' = IF Counts(r, s) THEN CountHolders(s) \cup {p}
                                               ELSE CountHolders(s) \ {p}
         /\ p \in CountHolders(s) <=> Counts(proc[p], s)
<1>1. \A q \in Procs : proc'[q] = IF q = p THEN r ELSE proc[q]
  BY PcMove
<1> QED
  BY <1>1 DEF CountHolders, Counts

LEMMA CountGoto ==
  ASSUME ProcOK, NEW s, NEW p \in Procs, NEW pc, Goto(p, pc)
  PROVE  /\ CountHolders(s)' = IF pc \in CountPcs /\ proc[p].s = s
                               THEN CountHolders(s) \cup {p}
                               ELSE CountHolders(s) \ {p}
         /\ p \in CountHolders(s) <=> Counts(proc[p], s)
<1>1. \A q \in Procs : /\ proc'[q].pc = IF q = p THEN pc ELSE proc[q].pc
                       /\ proc'[q].s = proc[q].s
  BY PcGoto
<1> QED
  BY <1>1 DEF CountHolders, Counts

LEMMA CountFinish ==
  ASSUME ProcOK, NEW s, NEW p \in Procs, Finish(p)
  PROVE  /\ CountHolders(s)' = CountHolders(s) \ {p}
         /\ p \in CountHolders(s) <=> Counts(proc[p], s)
<1>1. \A q \in Procs : /\ q = p => proc'[q].pc = "idle"
                       /\ q # p => proc'[q] = proc[q]
  BY PcFinish
<1> QED
  BY <1>1 DEF CountHolders, Counts, CountPcs

(* A process that held no count and holds none leaves the session alone.   *)
LEMMA QuietMove ==
  ASSUME TypeOK, NEW s, NEW p \in Procs, ~Counts(proc[p], s),
         UNCHANGED <<reservations, leakedOf, pending, rows>>,
         \/ Finish(p)
         \/ \E pc : Goto(p, pc) /\ pc \notin CountPcs
         \/ \E r : proc' = [proc EXCEPT ![p] = r] /\ ~Counts(r, s)
  PROVE  Quiet(s)
<1>0. ProcOK
  BY DEF TypeOK
<1>1. CountHolders(s)' = CountHolders(s) \ {p} /\ p \notin CountHolders(s)
  <2>1. CASE Finish(p)
    BY <1>0, <2>1, CountFinish
  <2>2. ASSUME NEW pc, Goto(p, pc), pc \notin CountPcs
        PROVE  CountHolders(s)' = CountHolders(s) \ {p} /\ p \notin CountHolders(s)
    BY <1>0, <2>2, CountGoto
  <2>3. ASSUME NEW r, proc' = [proc EXCEPT ![p] = r], ~Counts(r, s)
        PROVE  CountHolders(s)' = CountHolders(s) \ {p} /\ p \notin CountHolders(s)
    BY <1>0, <2>3, CountMove
  <2> QED BY <2>1, <2>2, <2>3
<1> QED
  BY <1>1, HeldStill DEF Quiet, SameWork, SameRow

LEMMA CallerShaped ==
  ASSUME TypeOK, NEW s \in Sessions, NEW p \in Callers, CallerStep(p)
  PROVE  Shaped(s)
<1>0. ProcOK /\ p \in Procs /\ p # Runtime
  BY ConstantsOK DEF TypeOK, Procs
<1>1. SUFFICES ASSUME ~Quiet(s)
               PROVE  \E q \in Procs : \/ Counted(s, q) \/ Inserted(s, q)
                                       \/ Taken(s, q) \/ Died(s, q)
  BY DEF Shaped
<1>2. ASSUME NEW t \in Sessions, NEW c \in Classes, SendSession(p, t, c)
      PROVE  FALSE
  <2> DEFINE r == [Idle EXCEPT !.pc = "reserve", !.s = t, !.class = c,
                               !.mon = monitor[t]]
  <2>1. ~Counts(r, s) /\ proc' = [proc EXCEPT ![p] = r]
    BY <1>2 DEF SendSession, Idle, Counts, CountPcs
  <2>2. /\ ~Counts(proc[p], s)
        /\ UNCHANGED <<reservations, leakedOf, pending, rows>>
    BY <1>2 DEF SendSession, Counts, CountPcs
  <2> HIDE DEF r
  <2> QED BY <1>0, <1>1, <2>1, <2>2, QuietMove
<1>3. ASSUME NEW t \in Sessions, NEW d \in Ids, Ack(p, t, d)
      PROVE  t = s /\ Taken(s, p)
  <2> DEFINE r == [Idle EXCEPT !.pc = "rollback", !.s = t]
  <2>1. (Counts(r, s) <=> t = s) /\ proc' = [proc EXCEPT ![p] = r]
    BY <1>3 DEF Ack, Idle, Counts, CountPcs
  <2>2. ~Counts(proc[p], s) /\ UNCHANGED <<leakedOf, pending, rows>>
    BY <1>3 DEF Ack, Counts, CountPcs
  <2>3. d \in Held(t) /\ reservations' = reservations \ {<<t, d>>}
    BY <1>3 DEF Ack, Held
  <2>4. Held(s)' = IF t = s THEN Held(s) \ {d} ELSE Held(s)
    BY <2>3, HeldTake
  <2> HIDE DEF r
  <2>5. /\ CountHolders(s)' = IF t = s THEN CountHolders(s) \cup {p}
                                       ELSE CountHolders(s) \ {p}
        /\ p \notin CountHolders(s)
    BY <1>0, <2>1, <2>2, CountMove
  <2>6. CASE t # s
    BY <1>1, <2>2, <2>4, <2>5, <2>6 DEF Quiet, SameWork, SameRow
  <2>7. CASE t = s
    BY <2>2, <2>3, <2>4, <2>5, <2>7 DEF Taken, Enters, SameRow
  <2> QED BY <2>6, <2>7
<1>4. CASE \/ Reserve(p) \/ UndoReserve(p) \/ CountGone(p)
           \/ RecheckSession(p) \/ IsolateSlow(p)
  <2>1. ~Counts(proc[p], s)
    BY <1>4 DEF Reserve, UndoReserve, CountGone, RecheckSession, IsolateSlow,
                Counts, CountPcs
  <2>2. /\ UNCHANGED <<reservations, leakedOf, pending, rows>>
        /\ \/ Finish(p)
           \/ Goto(p, "count") \/ Goto(p, "undo") \/ Goto(p, "giveback")
           \/ Goto(p, "retract")
    BY <1>4 DEF Reserve, UndoReserve, CountGone, RecheckSession, IsolateSlow
  <2>3. /\ "count" \notin CountPcs /\ "undo" \notin CountPcs
        /\ "giveback" \notin CountPcs /\ "retract" \notin CountPcs
    BY DEF CountPcs
  <2> QED BY <1>0, <1>1, <2>1, <2>2, <2>3, QuietMove
<1>5. CASE CountPending(p)
  <2>1. /\ ~Counts(proc[p], s) /\ proc[p].s \in rows
        /\ UNCHANGED <<reservations, leakedOf, rows>>
        /\ pending' = [pending EXCEPT ![proc[p].s] = pending[proc[p].s] + 1]
    BY <1>5 DEF CountPending, Counts, CountPcs
  <2>2. PICK r : /\ proc' = [proc EXCEPT ![p] = r] /\ r.pc \in CountPcs
                 /\ r.s = proc[p].s
    BY <1>0, <1>5 DEF CountPending, Goto, CountPcs, ProcOK, ProcType
  <2>3. /\ CountHolders(s)' = IF proc[p].s = s THEN CountHolders(s) \cup {p}
                                               ELSE CountHolders(s) \ {p}
        /\ p \notin CountHolders(s)
    <3>1. Counts(r, s) <=> proc[p].s = s
      BY <2>2 DEF Counts
    <3> QED BY <1>0, <2>1, <2>2, <3>1, CountMove
  <2>4. Held(s)' = Held(s)
    BY <2>1, HeldStill
  <2>5. CASE proc[p].s # s
    BY <1>1, <2>1, <2>3, <2>4, <2>5 DEF Quiet, SameWork, SameRow, TypeOK
  <2>6. CASE proc[p].s = s
    BY <1>0, <2>1, <2>3, <2>4, <2>6 DEF Counted, Enters, TypeOK
  <2> QED BY <2>5, <2>6
<1>6. ASSUME NEW d \in Ids, InsertReservation(p, d) PROVE Inserted(s, p)
  <2> DEFINE key == <<proc[p].s, d>>
  <2>1. /\ Counts(proc[p], s) <=> proc[p].s = s
        /\ UNCHANGED <<leakedOf, pending, rows>>
        /\ reservations' = reservations \cup {key}
    BY <1>6 DEF InsertReservation, Counts, CountPcs
  <2>2. CASE key \in reservations
    <3>1. Goto(p, "rollback") /\ reservations' = reservations
      BY <1>6, <2>2 DEF InsertReservation
    <3>2. /\ CountHolders(s)' = IF proc[p].s = s THEN CountHolders(s) \cup {p}
                                                 ELSE CountHolders(s) \ {p}
          /\ p \in CountHolders(s) <=> proc[p].s = s
      BY <1>0, <2>1, <3>1, CountGoto DEF CountPcs
    <3> QED BY <1>1, <2>1, <3>1, <3>2, HeldStill DEF Quiet, SameWork, SameRow
  <2>3. CASE key \notin reservations
    <3> DEFINE r == [proc[p] EXCEPT !.pc = "recheck", !.id = d]
    <3>6. r.pc = "recheck" /\ proc' = [proc EXCEPT ![p] = r]
      BY ONLY <1>0, <1>6, <2>3, InsertTakes
    <3> HIDE DEF r
    <3>1. ~Counts(r, s) /\ proc' = [proc EXCEPT ![p] = r]
      BY ONLY <3>6 DEF Counts, CountPcs
    <3>2. /\ CountHolders(s)' = CountHolders(s) \ {p}
          /\ p \in CountHolders(s) <=> proc[p].s = s
      BY <1>0, <2>1, <3>1, CountMove
    <3>3. Held(s)' = IF proc[p].s = s THEN Held(s) \cup {d} ELSE Held(s)
      BY <2>1, HeldInsert
    <3>4. CASE proc[p].s # s
      BY <1>1, <2>1, <3>2, <3>3, <3>4 DEF Quiet, SameWork, SameRow
    <3>5. CASE proc[p].s = s
      <4>1. d \notin Held(s)
        BY <2>3, <3>5 DEF Held
      <4> QED BY <2>1, <3>2, <3>3, <3>5, <4>1 DEF Inserted, Leaves, SameRow
    <3> QED BY <3>4, <3>5
  <2> QED BY <2>2, <2>3
<1>7. CASE ReleaseReservation(p)
  <2> DEFINE key == <<proc[p].s, proc[p].id>>
  <2>1. /\ ~Counts(proc[p], s)
        /\ UNCHANGED <<leakedOf, pending, rows>>
        /\ reservations' = reservations \ {key}
    BY <1>7 DEF ReleaseReservation, Counts, CountPcs
  <2>2. CASE key \notin reservations
    <3>1. Finish(p) /\ reservations' = reservations
      BY <1>7, <2>2 DEF ReleaseReservation
    <3> QED BY <1>0, <1>1, <2>1, <3>1, QuietMove
  <2>3. CASE key \in reservations
    <3>1. Goto(p, "rollback")
      BY <1>7, <2>3 DEF ReleaseReservation
    <3>2. /\ CountHolders(s)' = IF proc[p].s = s THEN CountHolders(s) \cup {p}
                                                 ELSE CountHolders(s) \ {p}
          /\ p \notin CountHolders(s)
      BY <1>0, <2>1, <3>1, CountGoto DEF CountPcs
    <3>3. Held(s)' = IF proc[p].s = s THEN Held(s) \ {proc[p].id} ELSE Held(s)
      BY <2>1, HeldTake
    <3>4. CASE proc[p].s # s
      BY <1>1, <2>1, <3>2, <3>3, <3>4 DEF Quiet, SameWork, SameRow
    <3>5. CASE proc[p].s = s
      <4>1. proc[p].id \in Held(s)
        BY <2>3, <3>5 DEF Held, TypeOK
      <4>2. Taken(s, p)
        BY <2>1, <3>2, <3>3, <3>5, <4>1 DEF Taken, Enters, SameRow
      <4> QED BY <1>0, <4>2
    <3> QED BY <3>4, <3>5
  <2> QED BY <2>2, <2>3
<1>8. CASE Kill(p)
  <2>1. /\ Finish(p) /\ UNCHANGED <<reservations, pending, rows>>
        /\ leakedOf' = IF proc[p].pc \in CountPcs
                       THEN [leakedOf EXCEPT ![proc[p].s] = leakedOf[proc[p].s] + 1]
                       ELSE leakedOf
    BY <1>8 DEF Kill
  <2>2. /\ CountHolders(s)' = CountHolders(s) \ {p}
        /\ p \in CountHolders(s) <=> Counts(proc[p], s)
    BY <1>0, <2>1, CountFinish
  <2>3. /\ leakedOf'[s] = IF Counts(proc[p], s) THEN leakedOf[s] + 1
                                                ELSE leakedOf[s]
    BY <2>1 DEF TypeOK, Counts
  <2>4. Held(s)' = Held(s)
    BY <2>1, HeldStill
  <2>5. CASE ~Counts(proc[p], s)
    BY <1>1, <2>1, <2>2, <2>3, <2>4, <2>5 DEF Quiet, SameWork, SameRow
  <2>6. CASE Counts(proc[p], s)
    BY <1>0, <2>1, <2>2, <2>3, <2>4, <2>6 DEF Died, Leaves, SameRow
  <2> QED BY <2>5, <2>6
<1> QED
  BY <1>0, <1>2, <1>3, <1>4, <1>5, <1>6, <1>7, <1>8 DEF CallerStep, SendStep

LEMMA GiveBackShaped ==
  ASSUME TypeOK, NEW s \in Sessions, NEW p \in Procs, GiveBack(p)
  PROVE  Shaped(s)
<1>0. ProcOK
  BY DEF TypeOK
<1>1. CASE RollbackCount(p)
  <2>1. /\ Goto(p, "giveback") /\ UNCHANGED <<reservations, leakedOf, rows>>
        /\ Counts(proc[p], s) <=> proc[p].s = s
        /\ pending' = IF proc[p].s \in rows
                      THEN [pending EXCEPT ![proc[p].s] = Decrement(pending[proc[p].s])]
                      ELSE pending
    BY <1>1 DEF RollbackCount, Counts, CountPcs
  <2>2. /\ CountHolders(s)' = CountHolders(s) \ {p}
        /\ p \in CountHolders(s) <=> proc[p].s = s
    BY <1>0, <2>1, CountGoto DEF CountPcs
  <2>3. Held(s)' = Held(s)
    BY <2>1, HeldStill
  <2>4. CASE proc[p].s # s
    <3>1. pending'[s] = pending[s]
      BY <2>1, <2>4 DEF TypeOK
    <3> QED BY <2>1, <2>2, <2>3, <2>4, <3>1 DEF Shaped, Quiet, SameWork, SameRow
  <2>5. CASE proc[p].s = s
    <3>1. pending'[s] = IF s \in rows THEN Decrement(pending[s]) ELSE pending[s]
      BY <2>1, <2>5 DEF TypeOK
    <3> QED BY <2>1, <2>2, <2>3, <2>5, <3>1 DEF Shaped, Returned, Leaves
  <2> QED BY <2>4, <2>5
<1>2. CASE ReleaseCapacity(p)
  <2>1. /\ ~Counts(proc[p], s)
        /\ UNCHANGED <<reservations, leakedOf, pending, rows>>
        /\ Finish(p) \/ Goto(p, "release") \/ Goto(p, "isolate")
    BY <1>2 DEF ReleaseCapacity, Counts, CountPcs
  <2>2. "release" \notin CountPcs /\ "isolate" \notin CountPcs
    BY DEF CountPcs
  <2> QED BY <1>0, <2>1, <2>2, QuietMove DEF Shaped
<1> QED
  BY <1>1, <1>2 DEF GiveBack

LEMMA RuntimeShaped ==
  ASSUME TypeOK, LifeInv, NEW s \in Sessions, s \notin rows => pending[s] = 0,
         \/ \E t \in Sessions : SessionStep(t)
         \/ NewCounterRow \/ CleanupStep \/ Crash \/ RecoveryStep
  PROVE  Shaped(s)
<1> USE DEF RtIs, RtS
<1>0. ProcOK /\ Runtime \in Procs
  BY DEF TypeOK, Procs
<1>1. SUFFICES ASSUME ~Quiet(s)
               PROVE  \/ GainRow(s) \/ LoseRow(s)
                      \/ Taken(s, Runtime) \/ Died(s, Runtime)
  BY <1>0 DEF Shaped
<1>2. ASSUME NEW pc, pc \notin CountPcs, Goto(Runtime, pc) \/ Finish(Runtime),
             proc[Runtime].pc \notin CountPcs,
             UNCHANGED <<reservations, leakedOf>>
      PROVE  SameWork(s)
  <2>1. ~Counts(proc[Runtime], s)
    BY <1>2 DEF Counts
  <2>2. /\ CountHolders(s)' = CountHolders(s) \ {Runtime}
        /\ Runtime \notin CountHolders(s)
    BY <1>0, <1>2, <2>1, CountGoto, CountFinish
  <2> QED BY <1>2, <2>2, HeldStill DEF SameWork
<1>3. ASSUME NEW t \in Sessions, SessionStep(t) PROVE FALSE
  <2>1. CASE OwnerExit(t) \/ LoseEviction(t)
    <3>1. UNCHANGED <<proc, reservations, leakedOf, pending, rows>>
      BY <2>1 DEF OwnerExit, LoseEviction
    <3> QED BY <1>1, <3>1 DEF Quiet, SameWork, SameRow, Held, CountHolders
  <2>2. ASSUME NEW pc \in {"new_row", "cleanup"}, proc[Runtime].pc = "idle",
               UNCHANGED <<reservations, leakedOf, pending, rows>>,
               proc' = [proc EXCEPT ![Runtime] = [Idle EXCEPT !.pc = pc, !.s = t]]
        PROVE  FALSE
    <3> DEFINE r == [Idle EXCEPT !.pc = pc, !.s = t]
    <3>1. ~Counts(r, s) /\ ~Counts(proc[Runtime], s)
      BY <2>2 DEF Counts, CountPcs, Idle
    <3>2. proc' = [proc EXCEPT ![Runtime] = r]
      BY <2>2
    <3> HIDE DEF r
    <3> QED BY <1>0, <1>1, <2>2, <3>1, <3>2, QuietMove
  <2>3. CASE Connect(t)
    BY <2>2, <2>3 DEF Connect
  <2>4. CASE BeginCleanup(t)
    BY <2>2, <2>4 DEF BeginCleanup
  <2> QED BY <1>3, <2>1, <2>3, <2>4 DEF SessionStep, Disconnect, OwnerDown,
                                        EvictSlow
<1>4. CASE UnmarkSlow \/ RebuildMonitors \/ ReleaseEnd
  <2>1. /\ SameRow(s)
        /\ \E pc \in {"idle", "drop_row"} : Goto(Runtime, pc) \/ Finish(Runtime)
        /\ proc[Runtime].pc \notin CountPcs
        /\ UNCHANGED <<reservations, leakedOf>>
    BY <1>4 DEF UnmarkSlow, RebuildMonitors, ReleaseEnd, SameRow, CountPcs
  <2>2. "idle" \notin CountPcs /\ "drop_row" \notin CountPcs
    BY DEF CountPcs
  <2> QED BY <1>1, <1>2, <2>1, <2>2 DEF Quiet
<1>5. CASE NewCounterRow
  <2>1. /\ Finish(Runtime) /\ proc[Runtime].pc \notin CountPcs
        /\ UNCHANGED <<reservations, leakedOf, pending>>
        /\ rows' = rows \cup {RtS} /\ RtS \in Live
    BY <1>5 DEF NewCounterRow, CountPcs, LifeInv
  <2>2. SameWork(s)
    <3>1. "idle" \notin CountPcs
      BY DEF CountPcs
    <3> QED BY <1>2, <2>1, <3>1
  <2>3. CASE s \notin rows /\ s = RtS
    BY <2>1, <2>2, <2>3 DEF GainRow
  <2>4. CASE s \in rows \/ s # RtS
    BY <1>1, <2>1, <2>2, <2>4 DEF Quiet, SameRow
  <2> QED BY <2>3, <2>4
<1>6. CASE DropCounterRow
  <2>1. /\ Goto(Runtime, "unmark") /\ proc[Runtime].pc \notin CountPcs
        /\ UNCHANGED <<reservations, leakedOf>>
        /\ rows' = rows \ {RtS} /\ RtS \in born \ Live
        /\ pending' = [pending EXCEPT ![RtS] = 0]
    BY <1>6 DEF DropCounterRow, CountPcs, LifeInv, EndingPcs
  <2>2. SameWork(s)
    <3>1. "unmark" \notin CountPcs
      BY DEF CountPcs
    <3> QED BY <1>2, <2>1, <3>1
  <2>3. CASE s = RtS
    BY <2>1, <2>2, <2>3 DEF LoseRow, Untouched, TypeOK
  <2>4. CASE s # RtS
    BY <1>1, <2>1, <2>2, <2>4 DEF Quiet, SameRow, TypeOK
  <2> QED BY <2>3, <2>4
<1>7. CASE Reconcile
  <2>1. /\ Goto(Runtime, "rebuild") /\ proc[Runtime].pc \notin CountPcs
        /\ UNCHANGED <<reservations, leakedOf>>
        /\ rows' = Live /\ rows \subseteq born
        /\ pending'[s] = IF s \in Live \cap rows THEN pending[s] ELSE 0
    BY <1>7 DEF Reconcile, CountPcs, LifeInv
  <2>2. SameWork(s)
    <3>1. "rebuild" \notin CountPcs
      BY DEF CountPcs
    <3> QED BY <1>2, <2>1, <3>1
  <2>3. CASE s \in Live
    BY <1>1, <2>1, <2>2, <2>3 DEF GainRow, Quiet, SameRow
  <2>4. CASE s \notin Live /\ s \in born
    BY <2>1, <2>2, <2>4 DEF LoseRow, Untouched
  <2>5. CASE s \notin Live /\ s \notin born
    BY <1>1, <2>1, <2>2, <2>5 DEF Quiet, SameRow
  <2> QED BY <2>3, <2>4, <2>5
<1>8. ASSUME NEW e \in Ids \cup {0}, FirstKey(e) PROVE FALSE
  <2> DEFINE r == [proc[Runtime] EXCEPT !.pc = "release", !.id = e]
  <2>1. /\ ~Counts(r, s) /\ proc' = [proc EXCEPT ![Runtime] = r]
        /\ ~Counts(proc[Runtime], s)
        /\ UNCHANGED <<reservations, leakedOf, pending, rows>>
    BY <1>0, <1>8 DEF FirstKey, Counts, CountPcs, ProcOK, ProcType
  <2> HIDE DEF r
  <2> QED BY <1>0, <1>1, <2>1, QuietMove
<1>9. ASSUME NEW e \in Ids \cup {0}, ReleaseNext(e) PROVE Taken(s, Runtime)
  <2> DEFINE key == <<RtS, proc[Runtime].id>>
             pc  == IF key \in reservations THEN "rollback" ELSE "release"
             r   == [proc[Runtime] EXCEPT !.pc = pc, !.id = e]
  <2>1. /\ proc' = [proc EXCEPT ![Runtime] = r]
        /\ Counts(r, s) <=> key \in reservations /\ RtS = s
        /\ ~Counts(proc[Runtime], s)
        /\ UNCHANGED <<leakedOf, pending, rows>>
        /\ reservations' = reservations \ {key}
    BY <1>0, <1>9 DEF ReleaseNext, Counts, CountPcs, ProcOK, ProcType
  <2> HIDE DEF r
  <2>2. /\ CountHolders(s)' = IF key \in reservations /\ RtS = s
                              THEN CountHolders(s) \cup {Runtime}
                              ELSE CountHolders(s) \ {Runtime}
        /\ Runtime \notin CountHolders(s)
    BY <1>0, <2>1, CountMove
  <2>3. Held(s)' = IF RtS = s THEN Held(s) \ {proc[Runtime].id} ELSE Held(s)
    BY <2>1, HeldTake
  <2>4. key \in reservations /\ RtS = s <=> RtS = s /\ proc[Runtime].id \in Held(s)
    BY DEF Held, TypeOK
  <2>5. CASE ~(key \in reservations /\ RtS = s)
    <3>1. Held(s)' = Held(s)
      BY <2>3, <2>4, <2>5
    <3> QED BY <1>1, <2>1, <2>2, <2>5, <3>1 DEF Quiet, SameWork, SameRow
  <2>6. CASE key \in reservations /\ RtS = s
    BY <2>1, <2>2, <2>3, <2>4, <2>6 DEF Taken, Enters, SameRow
  <2> QED BY <2>5, <2>6
<1>10. CASE Crash
  <2> DEFINE r == [Idle EXCEPT !.pc = "down"]
  <2>1. ~Counts(r, s)
    BY DEF Counts, CountPcs, Idle
  <2>2. /\ proc' = [proc EXCEPT ![Runtime] = r]
        /\ UNCHANGED <<reservations, pending, rows>>
        /\ leakedOf' = IF proc[Runtime].pc \in CountPcs
                       THEN [leakedOf EXCEPT ![RtS] = leakedOf[RtS] + 1]
                       ELSE leakedOf
    BY <1>10 DEF Crash
  <2> HIDE DEF r
  <2>3. /\ CountHolders(s)' = CountHolders(s) \ {Runtime}
        /\ Runtime \in CountHolders(s) <=> Counts(proc[Runtime], s)
    BY <1>0, <2>1, <2>2, CountMove
  <2>4. leakedOf'[s] = IF Counts(proc[Runtime], s) THEN leakedOf[s] + 1
                                                   ELSE leakedOf[s]
    BY <2>2 DEF TypeOK, Counts
  <2>5. Held(s)' = Held(s)
    BY <2>2, HeldStill
  <2>6. CASE ~Counts(proc[Runtime], s)
    BY <1>1, <2>2, <2>3, <2>4, <2>5, <2>6 DEF Quiet, SameWork, SameRow
  <2>7. CASE Counts(proc[Runtime], s)
    BY <2>2, <2>3, <2>4, <2>5, <2>7 DEF Died, Leaves, SameRow
  <2> QED BY <2>6, <2>7
<1> QED
  BY <1>3, <1>4, <1>5, <1>6, <1>7, <1>8, <1>9, <1>10 DEF CleanupStep,
     RecoveryStep

LEMMA NextShaped ==
  ASSUME TypeOK, LifeInv, NEW s \in Sessions, s \notin rows => pending[s] = 0,
         [Next]_vars
  PROVE  Shaped(s)
<1>1. CASE UNCHANGED vars
  BY <1>1 DEF vars, Shaped, Quiet, SameWork, SameRow, Held, CountHolders
<1>2. CASE Next
  BY <1>2, CallerShaped, GiveBackShaped, RuntimeShaped DEF Next
<1> QED
  BY <1>1, <1>2

LEMMA EndedStays ==
  ASSUME TypeOK, LifeInv, NEW s \in Sessions, [Next]_vars, Untouched(s)'
  PROVE  Untouched(s)
<1>0. ProcOK /\ Runtime \in Procs /\ monitor \in [Sessions -> Nat]
  BY DEF TypeOK, Procs
<1>1. CASE UNCHANGED <<monitor, born>>
  BY <1>1 DEF Untouched, Live
<1>2. ASSUME NEW t \in Sessions, Connect(t) PROVE Untouched(s)
  BY <1>0, <1>2 DEF Connect, Untouched, Live
<1>3. ASSUME NEW t \in Sessions, BeginCleanup(t) PROVE Untouched(s)
  BY <1>0, <1>3 DEF BeginCleanup, Untouched, Live
<1>4. CASE RebuildMonitors
  BY <1>0, <1>4 DEF RebuildMonitors, Untouched, Live
<1>5. ASSUME NEW p \in Procs, GiveBack(p) PROVE UNCHANGED <<monitor, born>>
  BY <1>5 DEF GiveBack, RollbackCount, ReleaseCapacity
<1>6. ASSUME NEW t \in Sessions, SessionStep(t)
      PROVE  \/ UNCHANGED <<monitor, born>>
             \/ Connect(t) \/ BeginCleanup(t)
  BY <1>6 DEF SessionStep, Disconnect, OwnerDown, EvictSlow, OwnerExit,
              LoseEviction
<1>7. NewCounterRow \/ CleanupStep \/ Crash \/ Reconcile
        => UNCHANGED <<monitor, born>>
  BY DEF NewCounterRow, CleanupStep, FirstKey, ReleaseNext, ReleaseEnd,
         DropCounterRow, UnmarkSlow, Crash, Reconcile
<1>8. ASSUME NEW p \in Callers, CallerStep(p) PROVE UNCHANGED <<monitor, born>>
  BY <1>8, CallerKeepsRuntime, ConstantsOK DEF Procs
<1> QED
  BY <1>1, <1>2, <1>3, <1>4, <1>5, <1>6, <1>7, <1>8
     DEF Next, RecoveryStep, vars

-----------------------------------------------------------------------------
(* The pending count of a session.  A counter row can only appear while    *)
(* nothing is outstanding, so it may start at zero.                        *)
Account(s) == Cardinality(Held(s)) + Cardinality(CountHolders(s)) + leakedOf[s]

PendInv(s) ==
  /\ s \in rows => pending[s] = Account(s)
  /\ s \notin rows => pending[s] = 0
  /\ s \notin rows /\ Untouched(s) => Account(s) = 0

LEMMA EntersCount ==
  ASSUME NEW s \in Sessions, NEW p, Enters(s, p)
  PROVE  Cardinality(CountHolders(s)') = Cardinality(CountHolders(s)) + 1
  BY CountFinite, CardPlus DEF Enters

LEMMA LeavesCount ==
  ASSUME NEW s \in Sessions, NEW p, Leaves(s, p)
  PROVE  /\ Cardinality(CountHolders(s)') = Cardinality(CountHolders(s)) - 1
         /\ Cardinality(CountHolders(s)) >= 1
  BY CountFinite, CardMinus DEF Leaves

LEMMA PendNext ==
  ASSUME TypeOK, LifeInv, NEW s \in Sessions, PendInv(s), [Next]_vars
  PROVE  PendInv(s)'
<1>0. /\ Cardinality(Held(s)) \in Nat /\ Cardinality(CountHolders(s)) \in Nat
      /\ pending[s] \in Nat /\ leakedOf[s] \in Nat
  BY HeldFinite, CountFinite DEF TypeOK
<1>1. Shaped(s)
  BY NextShaped DEF PendInv
<1>2. Untouched(s)' => Untouched(s)
  BY EndedStays
<1>3. CASE Quiet(s)
  <2>1. Account(s)' = Account(s)
    BY <1>3 DEF Account, Quiet, SameWork
  <2> QED BY <1>2, <1>3, <2>1 DEF PendInv, Quiet, SameRow
<1>4. CASE GainRow(s)
  <2>1. Account(s)' = Account(s)
    BY <1>4 DEF Account, GainRow, SameWork
  <2>2. Account(s) = 0
    BY <1>4 DEF GainRow, PendInv, Untouched
  <2> QED BY <1>4, <2>1, <2>2 DEF PendInv, GainRow
<1>5. CASE LoseRow(s)
  BY <1>2, <1>5 DEF PendInv, LoseRow
<1>6. ASSUME NEW p \in Procs, Counted(s, p) PROVE PendInv(s)'
  <2>1. Account(s)' = Account(s) + 1
    BY <1>0, <1>6, EntersCount DEF Account, Counted
  <2> QED BY <1>0, <1>6, <2>1 DEF PendInv, Counted
<1>7. ASSUME NEW p \in Procs, Inserted(s, p) PROVE PendInv(s)'
  <2>1. Cardinality(Held(s)') = Cardinality(Held(s)) + 1
    BY <1>7, HeldFinite, CardPlus DEF Inserted
  <2>2. Account(s)' = Account(s)
    BY <1>0, <1>7, <2>1, LeavesCount DEF Account, Inserted
  <2> QED BY <1>2, <1>7, <2>2 DEF PendInv, Inserted, SameRow
<1>8. ASSUME NEW p \in Procs, Taken(s, p) PROVE PendInv(s)'
  <2>1. Cardinality(Held(s)') = Cardinality(Held(s)) - 1
    BY <1>8, HeldFinite, CardMinus DEF Taken
  <2>2. Account(s)' = Account(s)
    BY <1>0, <1>8, <2>1, EntersCount DEF Account, Taken
  <2> QED BY <1>2, <1>8, <2>2 DEF PendInv, Taken, SameRow
<1>9. ASSUME NEW p \in Procs, Returned(s, p) PROVE PendInv(s)'
  <2>1. Account(s)' = Account(s) - 1 /\ Account(s) >= 1 /\ Account(s) \in Nat
    BY <1>0, <1>9, LeavesCount DEF Account, Returned
  <2> QED BY <1>0, <1>2, <1>9, <2>1 DEF PendInv, Returned, Decrement
<1>10. ASSUME NEW p \in Procs, Died(s, p) PROVE PendInv(s)'
  <2>1. Account(s)' = Account(s)
    BY <1>0, <1>10, LeavesCount DEF Account, Died
  <2> QED BY <1>2, <1>10, <2>1 DEF PendInv, Died, SameRow
<1> QED
  BY <1>1, <1>3, <1>4, <1>5, <1>6, <1>7, <1>8, <1>9, <1>10 DEF Shaped

LEMMA PendInit ==
  ASSUME Init, NEW s \in Sessions
  PROVE  PendInv(s)
<1>1. Held(s) = {} /\ CountHolders(s) = {} /\ leakedOf[s] = 0 /\ pending[s] = 0
  BY DEF Init, Held, CountHolders, CountPcs, Idle
<1> QED
  BY <1>1, FS_EmptySet DEF PendInv, Account, Init

SessionInv == /\ TypeOK /\ CapacityExact /\ LifeInv
              /\ \A s \in Sessions : PendInv(s)

LEMMA SessionInvariant == Spec => []SessionInv
<1>1. Init => SessionInv
  BY InitOK, LifeInit, PendInit DEF SessionInv
<1>2. SessionInv /\ [Next]_vars => SessionInv'
  BY TypeNext, CapacityNext, LifeNext, PendNext DEF SessionInv
<1> QED
  BY <1>1, <1>2, PTL DEF Spec

(* The pending count of every session that has a counter row is the number *)
(* of its reservations plus the calls in the middle of one, plus those     *)
(* that died there: what pending/2 and ack/3 report, and what decides      *)
(* about shedding and isolation, never drifts.                             *)
THEOREM PendingAccounting == Spec => []PendingExact
<1>1. SessionInv => PendingExact
  BY DEF SessionInv, PendInv, Account, PendingExact, LifeInv, TypeOK
<1> QED
  BY <1>1, SessionInvariant, PTL

-----------------------------------------------------------------------------
(* The window of a session: what is in the table and what the processes    *)
(* that passed the limits are about to insert.                             *)
Inserting(s) == {p \in Procs : proc[p].pc = "insert" /\ proc[p].s = s}
WindowInv(s) == Cardinality(Held(s)) + Cardinality(Inserting(s)) <= HardQueue

LEMMA InsertingFinite ==
  ASSUME NEW s
  PROVE  IsFiniteSet(Inserting(s)) /\ Cardinality(Inserting(s)) \in Nat
  BY ProcsFinite, FS_Subset, FS_CardinalityType DEF Inserting

LEMMA WindowShrinks ==
  ASSUME TypeOK, TypeOK', NEW s \in Sessions, WindowInv(s),
         Inserting(s)' \subseteq Inserting(s), reservations' \subseteq reservations
  PROVE  WindowInv(s)'
<1>1. Held(s)' \subseteq Held(s)
  BY DEF Held
<1>2. /\ Cardinality(Held(s)') <= Cardinality(Held(s))
      /\ Cardinality(Held(s)') \in Nat /\ Cardinality(Held(s)) \in Nat
  BY <1>1, HeldFinite, FS_Subset, FS_CardinalityType
<1>3. /\ Cardinality(Inserting(s)') <= Cardinality(Inserting(s))
      /\ Cardinality(Inserting(s)') \in Nat /\ Cardinality(Inserting(s)) \in Nat
  BY InsertingFinite, FS_Subset, FS_CardinalityType
<1> QED
  BY <1>2, <1>3, ConstantsOK DEF WindowInv

(* Only CountPending lets a process insert.                                *)
LEMMA CallerLeavesInsert ==
  ASSUME TypeOK, NEW s \in Sessions, NEW p \in Procs,
         CallerStep(p) \/ GiveBack(p), ~CountPending(p), p # Runtime
  PROVE  Inserting(s)' \subseteq Inserting(s) /\ p \notin Inserting(s)'
<1>0. ProcOK
  BY DEF TypeOK
<1>1. ASSUME NEW pc, pc # "insert", Goto(p, pc) \/ Finish(p)
      PROVE  Inserting(s)' \subseteq Inserting(s) /\ p \notin Inserting(s)'
  <2>1. \A q \in Procs : /\ proc'[p].pc # "insert"
                         /\ q # p => /\ proc'[q].pc = proc[q].pc
                                     /\ proc'[q].s = proc[q].s
    BY <1>0, <1>1, PcGoto, PcFinish
  <2> QED BY <2>1 DEF Inserting
<1>2. ASSUME NEW r, proc' = [proc EXCEPT ![p] = r], r.pc # "insert"
      PROVE  Inserting(s)' \subseteq Inserting(s) /\ p \notin Inserting(s)'
  <2>1. \A q \in Procs : proc'[q] = IF q = p THEN r ELSE proc[q]
    BY <1>0, <1>2, PcMove
  <2> QED BY <1>2, <2>1 DEF Inserting
<1>3. ASSUME NEW t \in Sessions, NEW c \in Classes, SendSession(p, t, c)
      PROVE  \E r : proc' = [proc EXCEPT ![p] = r] /\ r.pc # "insert"
  <2> DEFINE r == [Idle EXCEPT !.pc = "reserve", !.s = t, !.class = c,
                               !.mon = monitor[t]]
  <2>1. r.pc # "insert" /\ proc' = [proc EXCEPT ![p] = r]
    BY <1>3 DEF SendSession, Idle
  <2> QED BY <2>1
<1>4. ASSUME NEW t \in Sessions, NEW d \in Ids, Ack(p, t, d)
      PROVE  \E r : proc' = [proc EXCEPT ![p] = r] /\ r.pc # "insert"
  <2> DEFINE r == [Idle EXCEPT !.pc = "rollback", !.s = t]
  <2>1. r.pc # "insert" /\ proc' = [proc EXCEPT ![p] = r]
    BY <1>4 DEF Ack, Idle
  <2> QED BY <2>1
<1>5. ASSUME NEW d \in Ids, InsertReservation(p, d)
      PROVE  \E r : proc' = [proc EXCEPT ![p] = r] /\ r.pc # "insert"
  <2> DEFINE r == IF <<proc[p].s, d>> \in reservations
                  THEN [proc[p] EXCEPT !.pc = "rollback"]
                  ELSE [proc[p] EXCEPT !.pc = "recheck", !.id = d]
  <2>1. r.pc # "insert" /\ proc' = [proc EXCEPT ![p] = r]
    BY <1>0, <1>5 DEF InsertReservation, Goto, ProcOK, ProcType
  <2> QED BY <2>1
<1>6. ASSUME \/ Reserve(p) \/ UndoReserve(p) \/ CountGone(p)
             \/ RecheckSession(p) \/ ReleaseReservation(p) \/ IsolateSlow(p)
             \/ Kill(p) \/ GiveBack(p)
      PROVE  \E pc : pc # "insert" /\ (Goto(p, pc) \/ Finish(p))
  <2>1. \/ Finish(p)
        \/ Goto(p, "count") \/ Goto(p, "undo") \/ Goto(p, "giveback")
        \/ Goto(p, "retract") \/ Goto(p, "rollback") \/ Goto(p, "release")
        \/ Goto(p, "isolate")
    BY <1>6 DEF Reserve, UndoReserve, CountGone, RecheckSession,
                ReleaseReservation, IsolateSlow, Kill, GiveBack,
                RollbackCount, ReleaseCapacity
  <2>2. /\ "count" # "insert" /\ "undo" # "insert" /\ "giveback" # "insert"
        /\ "retract" # "insert" /\ "rollback" # "insert"
        /\ "release" # "insert" /\ "isolate" # "insert"
    OBVIOUS
  <2> QED BY <2>1, <2>2
<1> QED
  BY <1>1, <1>2, <1>3, <1>4, <1>5, <1>6 DEF CallerStep, SendStep

LEMMA RuntimeMoves ==
  ASSUME TypeOK, NEW q \in Procs, q # Runtime,
         \/ \E s \in Sessions : SessionStep(s)
         \/ NewCounterRow \/ CleanupStep \/ Crash \/ RecoveryStep
         \/ GiveBack(Runtime)
  PROVE  proc'[q] = proc[q]
<1>1. \/ proc' = proc
      \/ \E r : proc' = [proc EXCEPT ![Runtime] = r]
  BY DEF SessionStep, Connect, Disconnect, OwnerDown, EvictSlow, BeginCleanup,
         OwnerExit, LoseEviction, NewCounterRow, CleanupStep, FirstKey,
         ReleaseNext, ReleaseEnd, DropCounterRow, UnmarkSlow, Crash,
         RecoveryStep, Reconcile, RebuildMonitors, GiveBack, RollbackCount,
         ReleaseCapacity, Goto, Finish
<1> QED
  BY <1>1 DEF TypeOK, ProcOK

LEMMA RuntimeNeverInserts ==
  ASSUME TypeOK, TypeOK', NEW s \in Sessions,
         \A q \in Procs : q # Runtime => proc'[q] = proc[q]
  PROVE  Inserting(s)' \subseteq Inserting(s)
  BY DEF TypeOK, ProcOK, RuntimePcs, Inserting

(* The count that passes the hard limit includes the whole window.         *)
LEMMA CountWindow ==
  ASSUME SessionInv, SessionInv', NEW s \in Sessions, WindowInv(s),
         NEW p \in Callers, CountPending(p)
  PROVE  WindowInv(s)'
<1>0. /\ TypeOK /\ TypeOK' /\ ProcOK /\ p \in Procs
  BY DEF SessionInv, TypeOK, Procs
<1>1. reservations' = reservations /\ \A q \in Procs : q # p => proc'[q] = proc[q]
  BY <1>0 DEF CountPending, Goto, ProcOK
<1>2. CASE p \notin Inserting(s)'
  <2>1. Inserting(s)' \subseteq Inserting(s)
    BY <1>1, <1>2 DEF Inserting
  <2> QED BY <1>0, <1>1, <2>1, WindowShrinks
<1>3. CASE p \in Inserting(s)'
  <2>1. Goto(p, "insert")
    BY <1>0, <1>3 DEF CountPending, Inserting, Goto, ProcOK, ProcType
  <2>2. proc[p].s = s
    BY <1>0, <1>3, <2>1, PcGoto DEF Inserting
  <2>3. s \in rows' /\ pending'[s] <= HardQueue
    <3>1. s \in rows' /\ pending'[s] = pending[s] + 1
      BY <1>0, <2>2 DEF CountPending, TypeOK
    <3>2. pending[s] + 1 <= HardQueue
      BY <1>0, <2>1, <2>2 DEF CountPending, Goto, ProcOK, ProcType
    <3> QED BY <3>1, <3>2
  <2>4. pending'[s] = Account(s)'
    BY <2>3 DEF SessionInv, PendInv
  <2>5. /\ Cardinality(Inserting(s)') <= Cardinality(CountHolders(s)')
        /\ Cardinality(CountHolders(s)') \in Nat
        /\ Cardinality(Inserting(s)') \in Nat
    <3>1. Inserting(s)' \subseteq CountHolders(s)'
      BY DEF Inserting, CountHolders, CountPcs
    <3>2. IsFiniteSet(CountHolders(s)')
      BY ProcsFinite, FS_Subset DEF CountHolders
    <3> QED BY <3>1, <3>2, FS_Subset, FS_CardinalityType
  <2>6. Cardinality(Held(s)') \in Nat /\ leakedOf'[s] \in Nat
    <3>1. Held(s)' = Held(s)
      BY <1>1, HeldStill
    <3> QED BY <1>0, <3>1, HeldFinite DEF TypeOK
  <2> QED BY <2>3, <2>4, <2>5, <2>6, ConstantsOK DEF WindowInv, Account
<1> QED
  BY <1>2, <1>3

LEMMA InsertWindow ==
  ASSUME SessionInv, SessionInv', NEW s \in Sessions, WindowInv(s),
         NEW p \in Callers, NEW d \in Ids, InsertReservation(p, d)
  PROVE  WindowInv(s)'
<1>0. TypeOK /\ TypeOK' /\ ProcOK /\ p \in Procs /\ p # Runtime
  BY ConstantsOK DEF SessionInv, TypeOK, Procs
<1>1. ~CountPending(p)
  BY DEF CountPending, InsertReservation
<1>2. Inserting(s)' \subseteq Inserting(s) /\ p \notin Inserting(s)'
  BY <1>0, <1>1, CallerLeavesInsert DEF CallerStep, SendStep
<1>3. CASE reservations' \subseteq reservations
  BY <1>0, <1>2, <1>3, WindowShrinks
<1>4. CASE proc[p].s # s
  <2>1. Held(s)' = Held(s)
    BY <1>4, HeldInsert DEF InsertReservation
  <2>2. /\ Cardinality(Inserting(s)') <= Cardinality(Inserting(s))
        /\ Cardinality(Inserting(s)') \in Nat
        /\ Cardinality(Inserting(s)) \in Nat
    BY <1>2, InsertingFinite, FS_Subset, FS_CardinalityType
  <2> QED BY <1>0, <2>1, <2>2, HeldFinite, ConstantsOK DEF WindowInv
<1>5. CASE proc[p].s = s /\ <<s, d>> \notin reservations
  <2>1. Held(s)' = Held(s) \cup {d} /\ d \notin Held(s)
    BY <1>5, HeldInsert DEF InsertReservation, Held
  <2>2. /\ Cardinality(Held(s)') = Cardinality(Held(s)) + 1
        /\ Cardinality(Held(s)) \in Nat
    BY <1>0, <2>1, HeldFinite, CardPlus
  <2>3. p \in Inserting(s)
    BY <1>0, <1>5 DEF InsertReservation, Inserting
  <2>4. Inserting(s)' \subseteq Inserting(s) \ {p}
    BY <1>2
  <2>5. /\ Cardinality(Inserting(s)') <= Cardinality(Inserting(s) \ {p})
        /\ Cardinality(Inserting(s) \ {p}) = Cardinality(Inserting(s)) - 1
        /\ Cardinality(Inserting(s)') \in Nat
        /\ Cardinality(Inserting(s)) \in Nat
    BY <2>3, <2>4, InsertingFinite, CardMinus, FS_Subset, FS_CardinalityType
  <2> QED BY <2>2, <2>5, ConstantsOK DEF WindowInv
<1> QED
  BY <1>3, <1>4, <1>5 DEF InsertReservation

LEMMA WindowNext ==
  ASSUME SessionInv, SessionInv', NEW s \in Sessions, WindowInv(s), [Next]_vars
  PROVE  WindowInv(s)'
<1>0. TypeOK /\ TypeOK' /\ Runtime \notin Callers
  BY ConstantsOK DEF SessionInv
<1>1. CASE UNCHANGED vars
  <2>1. Inserting(s)' \subseteq Inserting(s) /\ reservations' \subseteq reservations
    BY <1>1 DEF vars, Inserting
  <2> QED BY <1>0, <2>1, WindowShrinks
<1>2. ASSUME NEW p \in Callers, CallerStep(p) PROVE WindowInv(s)'
  <2>1. CASE CountPending(p)
    BY <2>1, CountWindow
  <2>2. CASE \E d \in Ids : InsertReservation(p, d)
    BY <2>2, InsertWindow
  <2>3. CASE /\ ~CountPending(p)
             /\ ~\E d \in Ids : InsertReservation(p, d)
    <3>1. Inserting(s)' \subseteq Inserting(s)
      BY <1>0, <1>2, <2>3, CallerLeavesInsert DEF Procs
    <3>2. reservations' \subseteq reservations
      BY <1>2, <2>3 DEF CallerStep, SendStep, SendSession, Ack, Reserve,
         UndoReserve, CountGone, RecheckSession, ReleaseReservation,
         IsolateSlow, Kill
    <3> QED BY <1>0, <3>1, <3>2, WindowShrinks
  <2> QED BY <2>1, <2>2, <2>3
<1>3. ASSUME NEW p \in Procs, GiveBack(p) PROVE WindowInv(s)'
  <2>1. reservations' \subseteq reservations
    BY <1>3 DEF GiveBack, RollbackCount, ReleaseCapacity
  <2>2. Inserting(s)' \subseteq Inserting(s)
    <3>1. CASE p = Runtime
      BY <1>0, <1>3, <3>1, RuntimeMoves, RuntimeNeverInserts
    <3>2. CASE p # Runtime
      <4>1. ~CountPending(p)
        BY <1>3 DEF CountPending, GiveBack, RollbackCount, ReleaseCapacity
      <4> QED BY <1>0, <1>3, <3>2, <4>1, CallerLeavesInsert
    <3> QED BY <3>1, <3>2
  <2> QED BY <1>0, <2>1, <2>2, WindowShrinks
<1>4. ASSUME \/ \E t \in Sessions : SessionStep(t)
             \/ NewCounterRow \/ CleanupStep \/ Crash \/ RecoveryStep
      PROVE  WindowInv(s)'
  <2>1. reservations' \subseteq reservations
    BY <1>0, <1>4, RuntimeNoneAdmitted DEF NoneAdmitted
  <2>2. Inserting(s)' \subseteq Inserting(s)
    BY <1>0, <1>4, RuntimeMoves, RuntimeNeverInserts
  <2> QED BY <1>0, <2>1, <2>2, WindowShrinks
<1> QED
  BY <1>1, <1>2, <1>3, <1>4 DEF Next

WindowsInv == \A s \in Sessions : WindowInv(s)

LEMMA WindowInvariant == Spec => []WindowsInv
<1>1. Init => WindowsInv
  <2> SUFFICES ASSUME Init, NEW s \in Sessions PROVE WindowInv(s)
    BY DEF WindowsInv
  <2>1. Held(s) = {} /\ Inserting(s) = {}
    BY DEF Init, Held, Inserting, Idle
  <2> QED BY <2>1, FS_EmptySet, ConstantsOK DEF WindowInv
<1>2. SessionInv /\ SessionInv' /\ WindowsInv /\ [Next]_vars => WindowsInv'
  BY WindowNext DEF WindowsInv
<1> QED
  BY <1>1, <1>2, SessionInvariant, PTL DEF Spec

(* Backpressure: however many processes publish to a session at once, it   *)
(* never has more than hard_queue deliveries outstanding.                  *)
THEOREM SessionIsBounded == Spec => []SessionBound
<1>1. TypeOK /\ WindowsInv => SessionBound
  <2> SUFFICES ASSUME TypeOK, WindowsInv, NEW s \in Sessions
               PROVE  Cardinality(Held(s)) <= HardQueue
    BY DEF SessionBound
  <2>1. Cardinality(Held(s)) \in Nat /\ Cardinality(Inserting(s)) \in Nat
    BY HeldFinite, InsertingFinite
  <2> QED BY <2>1, ConstantsOK DEF WindowsInv, WindowInv
<1> QED
  BY <1>1, TypeCorrect, WindowInvariant, PTL

-----------------------------------------------------------------------------
(* A reservation that outlives its session is always on somebody's list.   *)
SenderAttends(p, s, d) == /\ proc[p].pc \in {"recheck", "retract"}
                          /\ proc[p].s = s /\ proc[p].id = d
RuntimeAttends(s, d) ==
  \/ RtIs("cleanup") /\ RtS = s
  \/ /\ proc[Runtime].pc \in {"release", "rollback", "giveback"}
     /\ RtS = s
     /\ proc[Runtime].id # 0 /\ proc[Runtime].id <= d

(* What a sender compares the session row with was the reference of a row. *)
MonInv == \A p \in Callers :
            proc[p].pc \in {"reserve", "count", "insert", "recheck"}
              => proc[p].mon # 0

LEMMA MonNext ==
  ASSUME TypeOK, MonInv, [Next]_vars
  PROVE  MonInv'
<1>0. ProcOK /\ Runtime \notin Callers /\ Callers \subseteq Procs
  BY ConstantsOK DEF TypeOK, Procs
<1>1. CASE UNCHANGED vars
  BY <1>1 DEF vars, MonInv
<1>2. ASSUME NEW p \in Callers, NEW r, proc' = [proc EXCEPT ![p] = r],
             r.pc \in {"reserve", "count", "insert", "recheck"} => r.mon # 0
      PROVE  MonInv'
  <2>1. \A q \in Procs : proc'[q] = IF q = p THEN r ELSE proc[q]
    BY <1>0, <1>2, PcMove
  <2> QED BY <1>0, <1>2, <2>1 DEF MonInv
<1>3. ASSUME NEW p \in Callers, Finish(p) PROVE MonInv'
  BY <1>2, <1>3 DEF Finish, Idle
<1>4. ASSUME NEW p \in Callers, NEW pc, Goto(p, pc),
             pc \in {"reserve", "count", "insert", "recheck"}
               => proc[p].pc \in {"reserve", "count", "insert", "recheck"}
      PROVE  MonInv'
  <2>1. \A q \in Procs : /\ proc'[q].pc = IF q = p THEN pc ELSE proc[q].pc
                         /\ proc'[q].mon = proc[q].mon
    BY <1>0, <1>4, PcGoto
  <2> QED BY <1>0, <1>4, <2>1 DEF MonInv
<1>5. ASSUME NEW p \in Callers, CallerStep(p) PROVE MonInv'
  <2>1. ASSUME NEW s \in Sessions, NEW c \in Classes, SendSession(p, s, c)
        PROVE  MonInv'
    <3> DEFINE r == [Idle EXCEPT !.pc = "reserve", !.s = s, !.class = c,
                                 !.mon = monitor[s]]
    <3>1. r.mon # 0 /\ proc' = [proc EXCEPT ![p] = r]
      BY <2>1 DEF SendSession, Idle, Live
    <3> HIDE DEF r
    <3> QED BY <1>2, <3>1
  <2>2. ASSUME NEW s \in Sessions, NEW d \in Ids, Ack(p, s, d)
        PROVE  MonInv'
    <3> DEFINE r == [Idle EXCEPT !.pc = "rollback", !.s = s]
    <3>1. r.pc = "rollback" /\ proc' = [proc EXCEPT ![p] = r]
      BY <2>2 DEF Ack, Idle
    <3> HIDE DEF r
    <3> QED BY <1>2, <3>1
  <2>3. CASE \/ UndoReserve(p) \/ CountGone(p) \/ RecheckSession(p)
             \/ ReleaseReservation(p) \/ IsolateSlow(p) \/ Kill(p)
             \/ Reserve(p)
    <3>1. \/ Finish(p) \/ Goto(p, "giveback") \/ Goto(p, "retract")
          \/ Goto(p, "rollback") \/ Goto(p, "undo")
          \/ proc[p].pc = "reserve" /\ Goto(p, "count")
      BY <2>3 DEF UndoReserve, CountGone, RecheckSession, ReleaseReservation,
                  IsolateSlow, Kill, Reserve
    <3> QED BY <1>3, <1>4, <3>1
  <2>4. CASE CountPending(p)
    <3>1. CASE proc' = [proc EXCEPT ![p].pc = "rollback", ![p].evict = TRUE]
      <4> DEFINE r == [proc[p] EXCEPT !.pc = "rollback", !.evict = TRUE]
      <4>1. r.pc = "rollback" /\ proc' = [proc EXCEPT ![p] = r]
        BY <1>0, <3>1 DEF ProcOK, ProcType
      <4> HIDE DEF r
      <4> QED BY <1>2, <4>1
    <3>2. CASE Goto(p, "rollback") \/ Goto(p, "insert")
      BY <1>4, <2>4, <3>2 DEF CountPending
    <3> QED BY <2>4, <3>1, <3>2 DEF CountPending
  <2>5. ASSUME NEW d \in Ids, InsertReservation(p, d) PROVE MonInv'
    <3>1. CASE Goto(p, "rollback")
      BY <1>4, <3>1
    <3>2. CASE proc' = [proc EXCEPT ![p].pc = "recheck", ![p].id = d]
      <4> DEFINE r == [proc[p] EXCEPT !.pc = "recheck", !.id = d]
      <4>1. r.mon = proc[p].mon /\ proc' = [proc EXCEPT ![p] = r]
        BY <1>0, <3>2 DEF ProcOK, ProcType
      <4>2. proc[p].mon # 0
        BY <2>5 DEF InsertReservation, MonInv
      <4> HIDE DEF r
      <4> QED BY <1>2, <4>1, <4>2
    <3> QED BY <2>5, <3>1, <3>2 DEF InsertReservation
  <2> QED BY <1>5, <2>1, <2>2, <2>3, <2>4, <2>5 DEF CallerStep, SendStep
<1>6. ASSUME NEW p \in Callers, GiveBack(p) PROVE MonInv'
  <2>1. Finish(p) \/ Goto(p, "giveback") \/ Goto(p, "release") \/ Goto(p, "isolate")
    BY <1>6 DEF GiveBack, RollbackCount, ReleaseCapacity
  <2> QED BY <1>3, <1>4, <2>1
<1>7. ASSUME \A q \in Procs : q # Runtime => proc'[q] = proc[q]
      PROVE  MonInv'
  BY <1>0, <1>7 DEF MonInv
<1>8. ASSUME \/ \E s \in Sessions : SessionStep(s)
             \/ NewCounterRow \/ CleanupStep \/ Crash \/ RecoveryStep
             \/ GiveBack(Runtime)
      PROVE  MonInv'
  BY <1>7, <1>8, RuntimeMoves
<1> QED
  BY <1>1, <1>5, <1>6, <1>8 DEF Next, Procs

(* Senders keep attending, except by taking the key themselves.            *)
LEMMA CallerAttends ==
  ASSUME TypeOK, MonInv, NEW p \in Callers, CallerStep(p) \/ GiveBack(p),
         Undisturbed', NEW s \in Sessions, NEW d \in Ids,
         <<s, d>> \in reservations', monitor[s] = 0,
         SenderAttends(p, s, d)
  PROVE  SenderAttends(p, s, d)'
<1>0. ProcOK /\ p \in Procs /\ kills \in Nat
  BY DEF TypeOK, Procs
<1>1. proc[p].pc \in {"recheck", "retract"} /\ proc[p].s = s /\ proc[p].id = d
  BY DEF SenderAttends
<1>2. RecheckSession(p) \/ ReleaseReservation(p) \/ Kill(p)
  BY <1>1 DEF CallerStep, GiveBack, SendStep, SendSession, Ack, Reserve,
     UndoReserve, CountPending, CountGone, InsertReservation, IsolateSlow,
     RollbackCount, ReleaseCapacity
<1>3. ~Kill(p)
  BY <1>0 DEF Kill, Undisturbed
<1>4. ~ReleaseReservation(p)
  BY <1>1 DEF ReleaseReservation
<1>5. RecheckSession(p) /\ proc[p].mon # 0
  BY <1>1, <1>2, <1>3, <1>4 DEF RecheckSession, MonInv
<1>6. Goto(p, "retract")
  BY <1>1, <1>5 DEF RecheckSession
<1> QED
  BY <1>0, <1>1, <1>6, PcGoto DEF SenderAttends

OrphanInv == Undisturbed => \A s \in Sessions, d \in Ids :
               <<s, d>> \in reservations /\ monitor[s] = 0
                 => \/ \E p \in Callers : SenderAttends(p, s, d)
                    \/ RuntimeAttends(s, d)

LEMMA OrphanNext ==
  ASSUME TypeOK, TypeOK', MonInv, OrphanInv, [Next]_vars
  PROVE  OrphanInv'
<1> SUFFICES ASSUME Undisturbed', NEW s \in Sessions, NEW d \in Ids,
                    <<s, d>> \in reservations', monitor'[s] = 0,
                    ~RuntimeAttends(s, d)'
             PROVE  \E p \in Callers : SenderAttends(p, s, d)'
  BY DEF OrphanInv
<1>0. /\ ProcOK /\ Runtime \notin Callers /\ Callers \subseteq Procs
      /\ Runtime \in Procs /\ monitor \in [Sessions -> Nat]
  BY ConstantsOK DEF TypeOK, Procs
<1>1. CASE UNCHANGED vars
  BY <1>1 DEF vars, OrphanInv, SenderAttends, RuntimeAttends, Undisturbed,
              RtIs, RtS
<1>2. ASSUME NEW p \in Callers, CallerStep(p) \/ GiveBack(p)
      PROVE  \E q \in Callers : SenderAttends(q, s, d)'
  <2>1. UNCHANGED <<monitor, epoch>> /\ proc'[Runtime] = proc[Runtime]
    BY <1>0, <1>2, CallerKeepsRuntime
  <2>2. kills' = kills
    <3>1. ~Kill(p)
      BY DEF Kill, Undisturbed, TypeOK
    <3> QED BY <1>2, <3>1 DEF CallerStep, GiveBack, SendStep, SendSession,
       Ack, Reserve, UndoReserve, CountPending, CountGone, InsertReservation,
       IsolateSlow, RecheckSession, ReleaseReservation, RollbackCount,
       ReleaseCapacity
  <2>3. Undisturbed /\ monitor[s] = 0 /\ ~RuntimeAttends(s, d)
    BY <2>1, <2>2 DEF Undisturbed, RuntimeAttends, RtIs, RtS
  <2>4. CASE <<s, d>> \in reservations
    <3>1. PICK q \in Callers : SenderAttends(q, s, d)
      BY <2>3, <2>4 DEF OrphanInv
    <3>2. CASE q = p
      BY <1>2, <2>3, <3>1, <3>2, CallerAttends
    <3>3. CASE q # p
      <4>1. \E r : proc' = [proc EXCEPT ![p] = r]
        BY <1>2 DEF CallerStep, GiveBack, SendSession, Ack, SendStep, Kill,
           Reserve, UndoReserve, CountPending, CountGone, InsertReservation,
           RecheckSession, ReleaseReservation, IsolateSlow, RollbackCount,
           ReleaseCapacity, Goto, Finish
      <4>2. proc'[q] = proc[q]
        BY <3>3, <4>1
      <4> QED BY <3>1, <4>2 DEF SenderAttends
    <3> QED BY <3>2, <3>3
  <2>5. CASE <<s, d>> \notin reservations
    <3>1. PICK e \in Ids : InsertReservation(p, e)
      BY <1>2, <2>5 DEF CallerStep, GiveBack, SendStep, SendSession, Ack,
         Reserve, UndoReserve, CountPending, CountGone, IsolateSlow,
         RecheckSession, ReleaseReservation, RollbackCount, ReleaseCapacity,
         Kill
    <3>2. e = d /\ proc[p].s = s
      BY <2>5, <3>1 DEF InsertReservation
    <3>3. proc' = [proc EXCEPT ![p].pc = "recheck", ![p].id = d]
      BY <2>5, <3>1, <3>2 DEF InsertReservation
    <3>4. /\ proc'[p].pc = "recheck" /\ proc'[p].s = s /\ proc'[p].id = d
      BY <1>0, <3>2, <3>3 DEF ProcOK, ProcType
    <3> QED BY <3>4 DEF SenderAttends
  <2> QED BY <2>4, <2>5
<1>3. ASSUME \/ \E t \in Sessions : SessionStep(t)
             \/ NewCounterRow \/ CleanupStep \/ Crash \/ RecoveryStep
             \/ GiveBack(Runtime)
      PROVE  \E q \in Callers : SenderAttends(q, s, d)'
  <2>1. \A q \in Callers : proc'[q] = proc[q]
    BY <1>0, <1>3, RuntimeMoves
  <2>2. reservations' \subseteq reservations
    BY <1>0, <1>3, RuntimeNoneAdmitted, GiveBackNoneAdmitted DEF NoneAdmitted
  <2>3. ~Crash
    BY DEF Crash, Undisturbed, TypeOK
  <2>4. Undisturbed
    BY <1>3, <2>3 DEF SessionStep, Connect, Disconnect, OwnerDown, EvictSlow,
       BeginCleanup, OwnerExit, LoseEviction, NewCounterRow, CleanupStep,
       FirstKey, ReleaseNext, ReleaseEnd, DropCounterRow, UnmarkSlow,
       RecoveryStep, Reconcile, RebuildMonitors, GiveBack, RollbackCount,
       ReleaseCapacity, Undisturbed
  <2>5. SUFFICES monitor[s] = 0 /\ ~RuntimeAttends(s, d)
    <3>1. ASSUME monitor[s] = 0, ~RuntimeAttends(s, d)
          PROVE  \E q \in Callers : SenderAttends(q, s, d)'
      <4>1. PICK q \in Callers : SenderAttends(q, s, d)
        BY <2>2, <2>4, <3>1 DEF OrphanInv
      <4> QED BY <2>1, <4>1 DEF SenderAttends
    <3> QED BY <3>1
  <2>6. ASSUME UNCHANGED monitor, proc[Runtime].pc \notin
               {"cleanup", "release", "rollback", "giveback"}
        PROVE  monitor[s] = 0 /\ ~RuntimeAttends(s, d)
    BY <2>6 DEF RuntimeAttends, RtIs
  <2>7. ASSUME NEW t \in Sessions, SessionStep(t)
        PROVE  monitor[s] = 0 /\ ~RuntimeAttends(s, d)
    <3>1. CASE OwnerExit(t) \/ LoseEviction(t)
      BY <3>1 DEF OwnerExit, LoseEviction, RuntimeAttends, RtIs, RtS
    <3>2. CASE Connect(t)
      <4>1. s # t \/ epoch = 0
        BY <1>0, <3>2 DEF Connect
      <4>2. s # t
        BY <4>1 DEF TypeOK
      <4> QED BY <1>0, <3>2, <4>2 DEF Connect, RuntimeAttends, RtIs
    <3>3. CASE BeginCleanup(t)
      <4>1. proc'[Runtime] = [Idle EXCEPT !.pc = "cleanup", !.s = t]
        BY <1>0, <3>3 DEF BeginCleanup, ProcOK
      <4>2. s # t
        BY <4>1 DEF RuntimeAttends, RtIs, RtS, Idle
      <4> QED BY <1>0, <3>3, <4>2 DEF BeginCleanup, RuntimeAttends, RtIs
    <3> QED BY <2>7, <3>1, <3>2, <3>3 DEF SessionStep, Disconnect, OwnerDown,
                                          EvictSlow
  <2>8. CASE NewCounterRow \/ DropCounterRow \/ UnmarkSlow \/ Reconcile
    BY <2>6, <2>8 DEF NewCounterRow, DropCounterRow, UnmarkSlow, Reconcile,
                      RtIs
  <2>9. CASE RebuildMonitors
    <3>1. monitor[s] = 0
      BY <1>0, <2>9 DEF RebuildMonitors, Live, TypeOK
    <3> QED BY <2>9, <3>1 DEF RebuildMonitors, RtIs, RuntimeAttends
  <2>10. CASE ReleaseEnd
    BY <2>10 DEF ReleaseEnd, RtIs, RuntimeAttends
  <2>11. ASSUME NEW e \in Ids \cup {0}, FirstKey(e)
         PROVE  monitor[s] = 0 /\ ~RuntimeAttends(s, d)
    <3>1. /\ monitor' = monitor /\ RtIs("cleanup") /\ reservations' = reservations
          /\ IsNextKey(RtS, 0, e)
      BY <2>11 DEF FirstKey
    <3>2. /\ proc'[Runtime].pc = "release" /\ proc'[Runtime].s = RtS
          /\ proc'[Runtime].id = e
      BY <1>0, <2>11 DEF FirstKey, ProcOK, ProcType, RtS
    <3>3. RtS # s
      <4> SUFFICES ASSUME RtS = s PROVE FALSE
        OBVIOUS
      <4>1. d \in KeysAfter(s, 0)
        BY <3>1, ConstantsOK DEF KeysAfter, Held
      <4>2. e # 0 /\ e <= d
        BY <3>1, <4>1, ConstantsOK DEF IsNextKey, KeysAfter, Held
      <4> QED BY <3>2, <4>2 DEF RuntimeAttends, RtS
    <3> QED BY <3>1, <3>3 DEF RuntimeAttends, RtIs, RtS
  <2>12. ASSUME NEW e \in Ids \cup {0}, ReleaseNext(e)
         PROVE  monitor[s] = 0 /\ ~RuntimeAttends(s, d)
    <3> DEFINE id == proc[Runtime].id
               pc == IF <<RtS, id>> \in reservations THEN "rollback"
                                                     ELSE "release"
    <3>1. /\ monitor' = monitor /\ RtIs("release")
          /\ reservations' = reservations \ {<<RtS, id>>}
          /\ IsNextKey(RtS, id, e) /\ id # 0
          /\ proc' = [proc EXCEPT ![Runtime].pc = pc, ![Runtime].id = e]
      BY <2>12 DEF ReleaseNext
    <3>2. /\ proc'[Runtime].pc \in {"release", "rollback"}
          /\ proc'[Runtime].s = RtS /\ proc'[Runtime].id = e
      BY <1>0, <3>1 DEF ProcOK, ProcType, RtS
    <3>3. ~(RtS = s /\ id <= d)
      <4> SUFFICES ASSUME RtS = s, id <= d PROVE FALSE
        OBVIOUS
      <4>1. id \in Nat /\ d \in Nat /\ id # d
        BY <1>0, <3>1, ConstantsOK DEF ProcOK, ProcType
      <4>2. d \in KeysAfter(s, id)
        BY <2>2, <4>1 DEF KeysAfter, Held
      <4>3. e # 0 /\ e <= d
        BY <3>1, <4>2, ConstantsOK DEF IsNextKey, KeysAfter, Held
      <4> QED BY <3>2, <4>3 DEF RuntimeAttends, RtS
    <3> QED BY <3>1, <3>3 DEF RuntimeAttends, RtIs, RtS
  <2>13. CASE GiveBack(Runtime)
    <3>1. /\ monitor' = monitor
          /\ proc[Runtime].pc \in {"rollback", "giveback"}
          /\ \/ Goto(Runtime, "giveback") \/ Goto(Runtime, "release")
      BY <2>13 DEF GiveBack, RollbackCount, ReleaseCapacity
    <3>2. /\ proc'[Runtime].pc \in {"giveback", "release"}
          /\ proc'[Runtime].s = proc[Runtime].s
          /\ proc'[Runtime].id = proc[Runtime].id
      BY <1>0, <3>1, PcGoto
    <3> QED BY <3>1, <3>2 DEF RuntimeAttends, RtIs, RtS
  <2> QED BY <1>3, <2>3, <2>7, <2>8, <2>9, <2>10, <2>11, <2>12, <2>13
             DEF CleanupStep, RecoveryStep
<1> QED
  BY <1>1, <1>2, <1>3 DEF Next, Procs

(* A session that ended leaves no reservation behind for good: as long as  *)
(* nothing crashed, every one that is still in the table is going to be    *)
(* taken by its own sender or by the cleanup that is under way.            *)
THEOREM NothingOrphaned == Spec => []NoOrphan
<1>1. Init => MonInv /\ OrphanInv
  BY ConstantsOK DEF Init, MonInv, OrphanInv, Idle, Procs
<1>2. TypeOK /\ TypeOK' /\ (MonInv /\ OrphanInv) /\ [Next]_vars
        => (MonInv /\ OrphanInv)'
  BY MonNext, OrphanNext
<1>3. OrphanInv => NoOrphan
  BY DEF OrphanInv, NoOrphan, Attended, SenderAttends, RuntimeAttends
<1> QED
  BY <1>1, <1>2, <1>3, TypeCorrect, PTL DEF Spec

-----------------------------------------------------------------------------
(* The refinement: every step is one of the abstract window's or none.     *)
View(s) == IF s \in Live THEN Held(s) ELSE {}

LEMMA StillStutters ==
  ASSUME UNCHANGED born, Live' = Live,
         \A s \in Live : Held(s)' = Held(s)
  PROVE  UNCHANGED Window!wvars
  BY DEF Window!wvars

LEMMA TakeMaps ==
  ASSUME TypeOK, UNCHANGED <<born, monitor>>, NEW t \in Sessions, NEW d,
         reservations' = reservations \ {<<t, d>>}
  PROVE  [Window!Next]_(Window!wvars)
<1>1. Live' = Live
  BY DEF Live
<1>2. \A s \in Sessions : Held(s)' = IF t = s THEN Held(s) \ {d} ELSE Held(s)
  BY HeldTake
<1>3. CASE t \in Live /\ d \in Held(t)
  <2>1. [s \in Sessions |-> View(s)]'
          = [[s \in Sessions |-> View(s)] EXCEPT ![t] = View(t) \ {d}]
    BY <1>1, <1>2, <1>3 DEF View
  <2>2. Window!Settle(t, d)
    BY <1>1, <1>3, <2>1 DEF Window!Settle, View
  <2> QED BY <1>3, <2>2 DEF Window!Next, Held
<1>4. CASE t \notin Live \/ d \notin Held(t)
  <2>1. \A s \in Live : Held(s)' = Held(s)
    BY <1>2, <1>4 DEF Live
  <2> QED BY <1>1, <2>1, StillStutters
<1> QED
  BY <1>3, <1>4

LEMMA SameCardinality == \A S : Window!Cardinality(S) = Cardinality(S)
  BY DEF Window!Cardinality, Cardinality

LEMMA InsertMaps ==
  ASSUME TypeOK, WindowsInv, NEW p \in Callers, NEW d \in Ids,
         InsertReservation(p, d)
  PROVE  [Window!Next]_(Window!wvars)
<1> DEFINE t == proc[p].s
<1>0. p \in Procs /\ t \in Sessions /\ proc[p].pc = "insert"
  BY DEF InsertReservation, TypeOK, ProcOK, Procs, NeedsSession
<1>1. Live' = Live /\ born' = born
  BY DEF Live, InsertReservation
<1>2. \A s \in Sessions : Held(s)' = IF t = s THEN Held(s) \cup {d} ELSE Held(s)
  BY HeldInsert DEF InsertReservation
<1>3. CASE t \in Live /\ d \notin Held(t)
  <2>1. Cardinality(Held(t)) < HardQueue
    <3>1. p \in Inserting(t)
      BY <1>0 DEF Inserting
    <3>2. Cardinality(Inserting(t)) >= 1 /\ Cardinality(Inserting(t)) \in Nat
      BY <3>1, InsertingFinite, CardMinus
    <3>3. Cardinality(Held(t)) + Cardinality(Inserting(t)) <= HardQueue
      BY <1>0 DEF WindowsInv, WindowInv
    <3> QED BY <1>0, <3>2, <3>3, HeldFinite, ConstantsOK
  <2>2. [s \in Sessions |-> View(s)]'
          = [[s \in Sessions |-> View(s)] EXCEPT ![t] = View(t) \cup {d}]
    BY <1>0, <1>1, <1>2, <1>3 DEF View
  <2>3. View(t) = Held(t) /\ [s \in Sessions |-> View(s)][t] = View(t)
    BY <1>0, <1>3 DEF View
  <2> HIDE DEF t
  <2>4. Window!Admit(t, d)
    BY <1>0, <1>1, <1>3, <2>1, <2>2, <2>3, SameCardinality
       DEF Window!Admit, View
  <2> QED BY <1>0, <2>4 DEF Window!Next
<1>4. CASE t \notin Live \/ d \in Held(t)
  <2>1. \A s \in Live : Held(s)' = Held(s)
    BY <1>2, <1>4 DEF Live
  <2> QED BY <1>1, <2>1, StillStutters
<1> QED
  BY <1>3, <1>4

LEMMA ConnectMaps ==
  ASSUME SessionInv, NEW t \in Sessions, Connect(t)
  PROVE  [Window!Next]_(Window!wvars)
<1>0. TypeOK /\ epoch # 0 /\ monitor \in [Sessions -> Nat]
  BY DEF SessionInv, TypeOK
<1>1. /\ Live' = Live \cup {t} /\ t \notin born /\ born' = born \cup {t}
      /\ \A s \in Sessions : Held(s)' = Held(s)
  BY <1>0, HeldStill DEF Connect, Live
<1>2. Held(t) = {}
  <2>1. Account(t) = 0
    BY <1>1 DEF SessionInv, PendInv, LifeInv, Untouched
  <2>2. Cardinality(Held(t)) = 0
    <3>1. /\ Cardinality(Held(t)) \in Nat /\ Cardinality(CountHolders(t)) \in Nat
          /\ leakedOf[t] \in Nat
      BY <1>0, HeldFinite, CountFinite DEF TypeOK
    <3>2. \A h, c, k \in Nat : h + c + k = 0 => h = 0
      OBVIOUS
    <3>3. Cardinality(Held(t)) + Cardinality(CountHolders(t)) + leakedOf[t] = 0
      BY <2>1 DEF Account
    <3> QED BY <3>1, <3>2, <3>3
  <2> QED BY <1>0, <2>2, HeldFinite, FS_EmptySet
<1>3. [s \in Sessions |-> View(s)]' = [s \in Sessions |-> View(s)]
  BY <1>1, <1>2 DEF View
<1>4. Window!Open(t)
  BY <1>1, <1>3 DEF Window!Open, View
<1> QED
  BY <1>4 DEF Window!Next

LEMMA CloseMaps ==
  ASSUME TypeOK, NEW t \in Sessions, BeginCleanup(t)
  PROVE  [Window!Next]_(Window!wvars)
<1>1. /\ Live' = Live \ {t} /\ t \in Live /\ born' = born
      /\ \A s \in Sessions : Held(s)' = Held(s)
  BY HeldStill DEF BeginCleanup, Live, TypeOK
<1>2. [s \in Sessions |-> View(s)]'
        = [[s \in Sessions |-> View(s)] EXCEPT ![t] = {}]
  BY <1>1 DEF View
<1>3. Window!Close(t)
  BY <1>1, <1>2 DEF Window!Close, View
<1> QED
  BY <1>3 DEF Window!Next

LEMMA StepMaps ==
  ASSUME SessionInv, WindowsInv, [Next]_vars
  PROVE  [Window!Next]_(Window!wvars)
<1>0. TypeOK /\ Runtime \in Procs
  BY DEF SessionInv, Procs
<1>1. ASSUME UNCHANGED <<born, monitor, reservations>>
      PROVE  [Window!Next]_(Window!wvars)
  <2>1. Live' = Live /\ \A s \in Live : Held(s)' = Held(s)
    BY <1>1 DEF Live, Held
  <2> QED BY <1>1, <2>1, StillStutters
<1>2. CASE UNCHANGED vars
  BY <1>1, <1>2 DEF vars
<1>3. ASSUME NEW p \in Callers, CallerStep(p)
      PROVE  [Window!Next]_(Window!wvars)
  <2>1. ASSUME NEW t \in Sessions, NEW d \in Ids, Ack(p, t, d)
        PROVE  [Window!Next]_(Window!wvars)
    BY <1>0, <2>1, TakeMaps DEF Ack
  <2>2. CASE ReleaseReservation(p)
    <3>1. proc[p].s \in Sessions
      BY <1>0, <2>2 DEF ReleaseReservation, TypeOK, ProcOK, Procs, NeedsSession
    <3> QED BY <1>0, <2>2, <3>1, TakeMaps DEF ReleaseReservation
  <2>3. CASE \/ \E s \in Sessions, c \in Classes : SendSession(p, s, c)
             \/ Reserve(p) \/ UndoReserve(p) \/ CountPending(p)
             \/ CountGone(p) \/ RecheckSession(p) \/ IsolateSlow(p) \/ Kill(p)
    BY <1>1, <2>3 DEF SendSession, Reserve, UndoReserve, CountPending,
       CountGone, RecheckSession, IsolateSlow, Kill
  <2> QED BY <1>0, <1>3, <2>1, <2>2, <2>3, InsertMaps DEF CallerStep, SendStep
<1>4. ASSUME NEW p \in Procs, GiveBack(p)
      PROVE  [Window!Next]_(Window!wvars)
  BY <1>1, <1>4 DEF GiveBack, RollbackCount, ReleaseCapacity
<1>5. ASSUME NEW t \in Sessions, SessionStep(t)
      PROVE  [Window!Next]_(Window!wvars)
  <2>1. CASE OwnerExit(t) \/ LoseEviction(t)
    BY <1>1, <2>1 DEF OwnerExit, LoseEviction
  <2> QED BY <1>0, <1>5, <2>1, ConnectMaps, CloseMaps
          DEF SessionStep, Disconnect, OwnerDown, EvictSlow
<1>6. CASE NewCounterRow \/ Crash \/ Reconcile \/ ReleaseEnd \/ DropCounterRow
           \/ UnmarkSlow \/ \E e \in Ids \cup {0} : FirstKey(e)
  BY <1>1, <1>6 DEF NewCounterRow, Crash, Reconcile, ReleaseEnd,
     DropCounterRow, UnmarkSlow, FirstKey
<1>7. ASSUME NEW e \in Ids \cup {0}, ReleaseNext(e)
      PROVE  [Window!Next]_(Window!wvars)
  <2>1. RtS \in Sessions
    BY <1>0, <1>7 DEF ReleaseNext, RtIs, RtS, TypeOK, ProcOK, NeedsSession
  <2> QED BY <1>0, <1>7, <2>1, TakeMaps DEF ReleaseNext
<1>8. CASE RebuildMonitors
  <2>1. Live' = Live /\ born' = born /\ \A s \in Live : Held(s)' = Held(s)
    BY <1>0, <1>8, HeldStill DEF RebuildMonitors, Live, TypeOK
  <2> QED BY <2>1, StillStutters
<1> QED
  BY <1>2, <1>3, <1>4, <1>5, <1>6, <1>7, <1>8 DEF Next, CleanupStep,
     RecoveryStep

(* Seen from its consumer, the lock-free delivery path is the bounded      *)
(* window of DeliveryWindow: admission, settlement and the end of a        *)
(* session are each one atomic step.                                       *)
THEOREM ImplementsWindow == Spec => WindowSpec
<1>1. Init => Window!Init
  BY DEF Init, Window!Init, Live, Held
<1>2. SessionInv /\ WindowsInv /\ [Next]_vars
        => [Window!Next]_(Window!wvars)
  BY StepMaps
<1> QED
  BY <1>1, <1>2, SessionInvariant, WindowInvariant, PTL
     DEF Spec, WindowSpec, Window!Spec
=============================================================================
