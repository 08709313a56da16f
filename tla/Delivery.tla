------------------------------ MODULE Delivery ------------------------------
(***************************************************************************)
(* The delivery hot path of Wiregrid and the part of the session lifecycle *)
(* it races with (lib/wiregrid/delivery.ex, capacity.ex, wiregrid_hot.erl, *)
(* session creation and cleanup in runtime.ex, recovery.ex).               *)
(*                                                                         *)
(* Any process may publish to a session or acknowledge one of its          *)
(* deliveries: both work directly on the ETS tables, with no lock.  The    *)
(* Runtime process ends sessions.  Every ETS operation is one step here,   *)
(* so the steps of all these processes interleave freely.                  *)
(***************************************************************************)
EXTENDS Naturals, FiniteSets

CONSTANTS
  Sessions,         \* session ids; an id is used for one session, ever
  Callers,          \* processes that publish or acknowledge
  Runtime,          \* the Runtime process of the instance
  NoSession,        \* placeholder in the record of an idle process
  Ids,              \* delivery ids, ordered as the ordered_set orders them
  SoftQueue,        \* cfg.soft_queue
  HardQueue,        \* cfg.hard_queue
  MaxReservations,  \* cfg.max_delivery_reservations
  ExitOwner,        \* cfg.slow_consumer_action = :exit_owner (else :disconnect)
  MaxKills,         \* bound: callers that die in the middle of a call
  MaxRestarts       \* bound: restarts of the Runtime process

ASSUME ConstantsOK ==
  /\ IsFiniteSet(Sessions) /\ IsFiniteSet(Callers)
  /\ Runtime \notin Callers
  /\ NoSession \notin Sessions
  /\ Ids \subseteq Nat \ {0}
  /\ SoftQueue \in Nat /\ HardQueue \in Nat /\ SoftQueue < HardQueue
  /\ MaxReservations \in Nat \ {0}
  /\ ExitOwner \in BOOLEAN
  /\ MaxKills \in Nat /\ MaxRestarts \in Nat

VARIABLES
  monitor,       \* sessions table: the row's monitor reference, 0 = no row
  born,          \* session ids handed out so far
  alive,         \* sessions whose owner process is alive
  rows,          \* session_counters: the ids that have a row
  pending,       \* position 2 of that row: deliveries counted; 0 if no row
  reservations,  \* delivery_reservations: the {session, delivery id} keys
  capacity,      \* the :delivery_reservations counter of the capacity table
  slow,          \* slow_evicting
  evictions,     \* tasks spawned to disconnect a slow session
  proc,          \* what each process is doing
  epoch,         \* monitor references given out by the current Runtime
  leaked,        \* history: capacity slots held by a process when it died
  leakedOf,      \* history: pending counts held by a process when it died
  kills          \* callers killed so far

vars == <<monitor, born, alive, rows, pending, reservations, capacity, slow,
          evictions, proc, epoch, leaked, leakedOf, kills>>

Procs   == Callers \cup {Runtime}
Classes == {"durable", "ephemeral"}

Live == {s \in Sessions : monitor[s] # 0}
Held(s) == {d \in Ids : <<s, d>> \in reservations}

(* Where a process stands in its call.                                     *)
CallerPcs  == {"idle", "reserve", "undo", "count", "insert", "recheck",
               "retract", "rollback", "giveback", "isolate"}
RuntimePcs == {"idle", "new_row", "cleanup", "release", "rollback",
               "giveback", "drop_row", "unmark", "down", "rebuild"}

Idle == [pc |-> "idle", s |-> NoSession, class |-> "durable", mon |-> 0,
         id |-> 0, evict |-> FALSE]

(* A capacity slot is held on behalf of a reservation that is in the table *)
(* or by a process at one of the first pcs; a pending count likewise.      *)
SlotPcs  == {"undo", "count", "insert", "rollback", "giveback"}
CountPcs == {"insert", "rollback"}

SlotHolders     == {p \in Procs : proc[p].pc \in SlotPcs}
CountHolders(s) == {p \in Procs : proc[p].pc \in CountPcs /\ proc[p].s = s}

Init ==
  /\ monitor      = [s \in Sessions |-> 0]
  /\ born         = {}
  /\ alive        = Sessions
  /\ rows         = {}
  /\ pending      = [s \in Sessions |-> 0]
  /\ reservations = {}
  /\ capacity     = 0
  /\ slow         = {}
  /\ evictions    = {}
  /\ proc         = [p \in Procs |-> Idle]
  /\ epoch        = 1
  /\ leaked       = 0
  /\ leakedOf     = [s \in Sessions |-> 0]
  /\ kills        = 0

-----------------------------------------------------------------------------
(* Steps shared by every process that returns what it took.                *)

Goto(p, pc) == proc' = [proc EXCEPT ![p].pc = pc]
Finish(p)   == proc' = [proc EXCEPT ![p] = Idle]

Decrement(n) == IF n = 0 THEN 0 ELSE n - 1

(* rollback_count: the counter row may be gone, then nothing happens.      *)
RollbackCount(p) ==
  /\ proc[p].pc = "rollback"
  /\ pending' = IF proc[p].s \in rows
                THEN [pending EXCEPT ![proc[p].s] = Decrement(@)]
                ELSE pending
  /\ Goto(p, "giveback")
  /\ UNCHANGED <<monitor, born, alive, rows, reservations, capacity, slow,
                 evictions, epoch, leaked, leakedOf, kills>>

(* Capacity.release, and on to what follows it in the caller's function.   *)
ReleaseCapacity(p) ==
  /\ proc[p].pc = "giveback"
  /\ capacity' = Decrement(capacity)
  /\ \/ p = Runtime /\ Goto(p, "release")
     \/ p # Runtime /\ proc[p].evict /\ Goto(p, "isolate")
     \/ p # Runtime /\ ~proc[p].evict /\ Finish(p)
  /\ UNCHANGED <<monitor, born, alive, rows, pending, reservations, slow,
                 evictions, epoch, leaked, leakedOf, kills>>

-----------------------------------------------------------------------------
(* Delivery.send_session_prevalidated, in the publishing process.          *)

(* The session row is read here and trusted until the recheck.             *)
SendSession(p, s, class) ==
  /\ proc[p].pc = "idle"
  /\ s \in Live
  /\ proc' = [proc EXCEPT ![p] = [Idle EXCEPT !.pc = "reserve", !.s = s,
                                              !.class = class,
                                              !.mon = monitor[s]]]
  /\ UNCHANGED <<monitor, born, alive, rows, pending, reservations, capacity,
                 slow, evictions, epoch, leaked, leakedOf, kills>>

(* Mutant of Reserve: the limit is compared with the count before.         *)
MutantReserveLate(p) ==
  /\ proc[p].pc = "reserve"
  /\ capacity' = capacity + 1
  /\ Goto(p, IF capacity <= MaxReservations THEN "count" ELSE "undo")
  /\ UNCHANGED <<monitor, born, alive, rows, pending, reservations, slow,
                 evictions, epoch, leaked, leakedOf, kills>>

(* Capacity.reserve adds first and looks at the result afterwards.         *)
Reserve(p) ==
  /\ proc[p].pc = "reserve"
  /\ capacity' = capacity + 1
  /\ Goto(p, IF capacity' <= MaxReservations THEN "count" ELSE "undo")
  /\ UNCHANGED <<monitor, born, alive, rows, pending, reservations, slow,
                 evictions, epoch, leaked, leakedOf, kills>>

UndoReserve(p) ==
  /\ proc[p].pc = "undo"
  /\ capacity' = capacity - 1
  /\ Finish(p)
  /\ UNCHANGED <<monitor, born, alive, rows, pending, reservations, slow,
                 evictions, epoch, leaked, leakedOf, kills>>

(* Mutant of CountPending: the limit is compared with the count before     *)
(* this delivery, one too late.                                            *)
MutantLateLimit(p) ==
  LET s == proc[p].s
      n == pending[s] + 1
  IN /\ proc[p].pc = "count"
     /\ s \in rows
     /\ pending' = [pending EXCEPT ![s] = n]
     /\ IF n - 1 > HardQueue
        THEN proc' = [proc EXCEPT ![p].pc = "rollback", ![p].evict = TRUE]
        ELSE Goto(p, IF n > SoftQueue /\ proc[p].class = "ephemeral"
                     THEN "rollback" ELSE "insert")
     /\ UNCHANGED <<monitor, born, alive, rows, reservations, capacity, slow,
                    evictions, epoch, leaked, leakedOf, kills>>

(* Mutant of CountPending: durable work is only held back by the soft      *)
(* limit's rule, which lets it pass.                                       *)
MutantDurablePasses(p) ==
  LET s == proc[p].s
      n == pending[s] + 1
  IN /\ proc[p].pc = "count"
     /\ s \in rows
     /\ pending' = [pending EXCEPT ![s] = n]
     /\ Goto(p, IF n > SoftQueue /\ proc[p].class = "ephemeral"
                THEN "rollback" ELSE "insert")
     /\ UNCHANGED <<monitor, born, alive, rows, reservations, capacity, slow,
                    evictions, epoch, leaked, leakedOf, kills>>

(* Mutant of CountPending: a refused delivery stays counted.               *)
MutantStaysCounted(p) ==
  LET s == proc[p].s
      n == pending[s] + 1
  IN /\ proc[p].pc = "count"
     /\ s \in rows
     /\ pending' = [pending EXCEPT ![s] = n]
     /\ IF n > HardQueue
        THEN proc' = [proc EXCEPT ![p].pc = "giveback", ![p].evict = TRUE]
        ELSE Goto(p, IF n > SoftQueue /\ proc[p].class = "ephemeral"
                     THEN "rollback" ELSE "insert")
     /\ UNCHANGED <<monitor, born, alive, rows, reservations, capacity, slow,
                    evictions, epoch, leaked, leakedOf, kills>>

(* Counting the delivery decides about it: above the hard limit it is      *)
(* refused and the consumer isolated, above the soft limit an ephemeral    *)
(* one is dropped.                                                         *)
CountPending(p) ==
  LET s == proc[p].s
      n == pending[s] + 1
  IN /\ proc[p].pc = "count"
     /\ s \in rows
     /\ pending' = [pending EXCEPT ![s] = n]
     /\ \/ /\ n > HardQueue
           /\ proc' = [proc EXCEPT ![p].pc = "rollback", ![p].evict = TRUE]
        \/ /\ n <= HardQueue
           /\ n > SoftQueue /\ proc[p].class = "ephemeral"
           /\ Goto(p, "rollback")
        \/ /\ n <= HardQueue
           /\ ~(n > SoftQueue /\ proc[p].class = "ephemeral")
           /\ Goto(p, "insert")
     /\ UNCHANGED <<monitor, born, alive, rows, reservations, capacity, slow,
                    evictions, epoch, leaked, leakedOf, kills>>

(* Mutant of CountGone: the error path forgets the capacity slot.          *)
MutantGoneKeepsSlot(p) ==
  /\ proc[p].pc = "count"
  /\ proc[p].s \notin rows
  /\ Finish(p)
  /\ UNCHANGED <<monitor, born, alive, rows, pending, reservations, capacity,
                 slow, evictions, epoch, leaked, leakedOf, kills>>

CountGone(p) ==
  /\ proc[p].pc = "count"
  /\ proc[p].s \notin rows
  /\ Goto(p, "giveback")
  /\ UNCHANGED <<monitor, born, alive, rows, pending, reservations, capacity,
                 slow, evictions, epoch, leaked, leakedOf, kills>>

(* ets:insert_new under a generated id, which may collide.                 *)
InsertReservation(p, d) ==
  LET key == <<proc[p].s, d>>
  IN /\ proc[p].pc = "insert"
     /\ reservations' = reservations \cup {key}
     /\ IF key \in reservations
        THEN Goto(p, "rollback")
        ELSE proc' = [proc EXCEPT ![p].pc = "recheck", ![p].id = d]
     /\ UNCHANGED <<monitor, born, alive, rows, pending, capacity, slow,
                    evictions, epoch, leaked, leakedOf, kills>>

(* Mutant of RecheckSession: no second lookup, the message just goes out.  *)
MutantNoRecheck(p) ==
  /\ proc[p].pc = "recheck"
  /\ Finish(p)
  /\ UNCHANGED <<monitor, born, alive, rows, pending, reservations, capacity,
                 slow, evictions, epoch, leaked, leakedOf, kills>>

(* The second lookup: the message goes out only if the row is the one that *)
(* was read first.                                                         *)
RecheckSession(p) ==
  /\ proc[p].pc = "recheck"
  /\ IF monitor[proc[p].s] = proc[p].mon THEN Finish(p) ELSE Goto(p, "retract")
  /\ UNCHANGED <<monitor, born, alive, rows, pending, reservations, capacity,
                 slow, evictions, epoch, leaked, leakedOf, kills>>

(* Mutant of ReleaseReservation: gives back whether or not its take found  *)
(* the key.                                                                *)
MutantReleaseTwice(p) ==
  /\ proc[p].pc = "retract"
  /\ reservations' = reservations \ {<<proc[p].s, proc[p].id>>}
  /\ Goto(p, "rollback")
  /\ UNCHANGED <<monitor, born, alive, rows, pending, capacity, slow,
                 evictions, epoch, leaked, leakedOf, kills>>

(* release_reservation: only the process whose take succeeds gives back.   *)
ReleaseReservation(p) ==
  LET key == <<proc[p].s, proc[p].id>>
  IN /\ proc[p].pc = "retract"
     /\ reservations' = reservations \ {key}
     /\ IF key \in reservations THEN Goto(p, "rollback") ELSE Finish(p)
     /\ UNCHANGED <<monitor, born, alive, rows, pending, capacity, slow,
                    evictions, epoch, leaked, leakedOf, kills>>

(* maybe_isolate_slow: the first sender to mark the session acts on it.    *)
IsolateSlow(p) ==
  LET s == proc[p].s
  IN /\ proc[p].pc = "isolate"
     /\ slow' = slow \cup {s}
     /\ alive' = IF s \notin slow /\ ExitOwner THEN alive \ {s} ELSE alive
     /\ evictions' = IF s \notin slow /\ ~ExitOwner
                     THEN evictions \cup {s} ELSE evictions
     /\ Finish(p)
     /\ UNCHANGED <<monitor, born, rows, pending, reservations, capacity,
                    epoch, leaked, leakedOf, kills>>

(* ack/3, ack_many/3 and ack/2 all come down to taking a key; a key that   *)
(* is not there is answered with :unknown_delivery and changes nothing.    *)
Ack(p, s, d) ==
  /\ proc[p].pc = "idle"
  /\ <<s, d>> \in reservations
  /\ reservations' = reservations \ {<<s, d>>}
  /\ proc' = [proc EXCEPT ![p] = [Idle EXCEPT !.pc = "rollback", !.s = s]]
  /\ UNCHANGED <<monitor, born, alive, rows, pending, capacity, slow,
                 evictions, epoch, leaked, leakedOf, kills>>

(* A calling process may die anywhere: nothing gives back what it held.    *)
Kill(p) ==
  /\ kills < MaxKills
  /\ proc[p].pc # "idle"
  /\ kills' = kills + 1
  /\ leaked' = leaked + (IF proc[p].pc \in SlotPcs THEN 1 ELSE 0)
  /\ leakedOf' = IF proc[p].pc \in CountPcs
                 THEN [leakedOf EXCEPT ![proc[p].s] = @ + 1] ELSE leakedOf
  /\ Finish(p)
  /\ UNCHANGED <<monitor, born, alive, rows, pending, reservations, capacity,
                 slow, evictions, epoch>>

-----------------------------------------------------------------------------
(* The Runtime process.                                                    *)

RtIs(pc) == proc[Runtime].pc = pc
RtS      == proc[Runtime].s

(* create_session makes the row visible before its counter row exists.     *)
Connect(s) ==
  /\ RtIs("idle")
  /\ s \notin born
  /\ s \in alive
  /\ monitor' = [monitor EXCEPT ![s] = epoch]
  /\ born' = born \cup {s}
  /\ proc' = [proc EXCEPT ![Runtime] = [Idle EXCEPT !.pc = "new_row", !.s = s]]
  /\ UNCHANGED <<alive, rows, pending, reservations, capacity, slow,
                 evictions, epoch, leaked, leakedOf, kills>>

NewCounterRow ==
  /\ RtIs("new_row")
  /\ rows' = rows \cup {RtS}
  /\ Finish(Runtime)
  /\ UNCHANGED <<monitor, born, alive, pending, reservations, capacity, slow,
                 evictions, epoch, leaked, leakedOf, kills>>

(* cleanup_session takes the row first; from here on the session is gone.  *)
BeginCleanup(s) ==
  /\ RtIs("idle")
  /\ s \in Live
  /\ monitor' = [monitor EXCEPT ![s] = 0]
  /\ proc' = [proc EXCEPT ![Runtime] = [Idle EXCEPT !.pc = "cleanup", !.s = s]]
  /\ UNCHANGED <<born, alive, rows, pending, reservations, capacity, slow,
                 epoch, leaked, leakedOf, kills>>

Disconnect(s) == BeginCleanup(s) /\ UNCHANGED evictions
OwnerDown(s)  == s \notin alive /\ BeginCleanup(s) /\ UNCHANGED evictions
EvictSlow(s)  == s \in evictions /\ evictions' = evictions \ {s}
                                 /\ BeginCleanup(s)

OwnerExit(s) ==
  /\ s \in alive
  /\ alive' = alive \ {s}
  /\ UNCHANGED <<monitor, born, rows, pending, reservations, capacity, slow,
                 evictions, proc, epoch, leaked, leakedOf, kills>>

(* The eviction task gets an error instead (unknown session, control plane *)
(* overloaded, Runtime down) and ignores it.                               *)
LoseEviction(s) ==
  /\ s \in evictions
  /\ evictions' = evictions \ {s}
  /\ UNCHANGED <<monitor, born, alive, rows, pending, reservations, capacity,
                 slow, proc, epoch, leaked, leakedOf, kills>>

(* ets:next: the smallest key of the session above d, 0 = end_of_table.    *)
KeysAfter(s, d) == {e \in Held(s) : e > d}
IsNextKey(s, d, e) ==
  \/ e = 0 /\ KeysAfter(s, d) = {}
  \/ e \in KeysAfter(s, d) /\ \A f \in KeysAfter(s, d) : e <= f

(* release_session: find the first key, then take keys one by one, having  *)
(* asked for the successor before each take.                               *)
FirstKey(e) ==
  /\ RtIs("cleanup")
  /\ IsNextKey(RtS, 0, e)
  /\ proc' = [proc EXCEPT ![Runtime].pc = "release", ![Runtime].id = e]
  /\ UNCHANGED <<monitor, born, alive, rows, pending, reservations, capacity,
                 slow, evictions, epoch, leaked, leakedOf, kills>>

(* Mutant of ReleaseNext: a key that an acknowledgement took meanwhile     *)
(* ends the loop.                                                          *)
MutantStopsEarly(e) ==
  LET key == <<RtS, proc[Runtime].id>>
  IN /\ RtIs("release")
     /\ proc[Runtime].id # 0
     /\ IsNextKey(RtS, proc[Runtime].id, e)
     /\ reservations' = reservations \ {key}
     /\ IF key \in reservations
        THEN proc' = [proc EXCEPT ![Runtime].pc = "rollback",
                                  ![Runtime].id = e]
        ELSE Goto(Runtime, "drop_row")
     /\ UNCHANGED <<monitor, born, alive, rows, pending, capacity, slow,
                    evictions, epoch, leaked, leakedOf, kills>>

ReleaseNext(e) ==
  LET d   == proc[Runtime].id
      key == <<RtS, d>>
  IN /\ RtIs("release")
     /\ d # 0
     /\ IsNextKey(RtS, d, e)
     /\ reservations' = reservations \ {key}
     /\ proc' = [proc EXCEPT ![Runtime].pc = IF key \in reservations
                                             THEN "rollback" ELSE "release",
                             ![Runtime].id = e]
     /\ UNCHANGED <<monitor, born, alive, rows, pending, capacity, slow,
                    evictions, epoch, leaked, leakedOf, kills>>

ReleaseEnd ==
  /\ RtIs("release")
  /\ proc[Runtime].id = 0
  /\ Goto(Runtime, "drop_row")
  /\ UNCHANGED <<monitor, born, alive, rows, pending, reservations, capacity,
                 slow, evictions, epoch, leaked, leakedOf, kills>>

DropCounterRow ==
  /\ RtIs("drop_row")
  /\ rows' = rows \ {RtS}
  /\ pending' = [pending EXCEPT ![RtS] = 0]
  /\ Goto(Runtime, "unmark")
  /\ UNCHANGED <<monitor, born, alive, reservations, capacity, slow,
                 evictions, epoch, leaked, leakedOf, kills>>

UnmarkSlow ==
  /\ RtIs("unmark")
  /\ slow' = slow \ {RtS}
  /\ Finish(Runtime)
  /\ UNCHANGED <<monitor, born, alive, rows, pending, reservations, capacity,
                 evictions, epoch, leaked, leakedOf, kills>>

(* The Runtime traps no exits: it may stop between any two of its steps.   *)
Crash ==
  /\ epoch <= MaxRestarts
  /\ ~RtIs("down")
  /\ leaked' = leaked + (IF proc[Runtime].pc \in SlotPcs THEN 1 ELSE 0)
  /\ leakedOf' = IF proc[Runtime].pc \in CountPcs
                 THEN [leakedOf EXCEPT ![RtS] = @ + 1] ELSE leakedOf
  /\ epoch' = epoch + 1
  /\ proc' = [proc EXCEPT ![Runtime] = [Idle EXCEPT !.pc = "down"]]
  /\ UNCHANGED <<monitor, born, alive, rows, pending, reservations, capacity,
                 slow, evictions, kills>>

(* Recovery.reconcile: slow marks are cleared, live sessions get a counter *)
(* row if they lack one, rows of sessions that are gone are dropped.       *)
(* Neither the reservations nor their capacity counter are looked at.      *)
Reconcile ==
  /\ RtIs("down")
  /\ slow' = {}
  /\ rows' = Live
  /\ pending' = [s \in Sessions |-> IF s \in Live \cap rows
                                    THEN pending[s] ELSE 0]
  /\ Goto(Runtime, "rebuild")
  /\ UNCHANGED <<monitor, born, alive, reservations, capacity, evictions,
                 epoch, leaked, leakedOf, kills>>

(* rebuild_monitors gives every live session a new monitor reference.      *)
RebuildMonitors ==
  /\ RtIs("rebuild")
  /\ monitor' = [s \in Sessions |-> IF s \in Live THEN epoch ELSE 0]
  /\ Finish(Runtime)
  /\ UNCHANGED <<born, alive, rows, pending, reservations, capacity, slow,
                 evictions, epoch, leaked, leakedOf, kills>>

-----------------------------------------------------------------------------
SendStep(p) ==
  \/ Reserve(p) \/ UndoReserve(p)
  \/ CountPending(p) \/ CountGone(p)
  \/ \E d \in Ids : InsertReservation(p, d)
  \/ RecheckSession(p) \/ ReleaseReservation(p) \/ IsolateSlow(p)

GiveBack(p) == RollbackCount(p) \/ ReleaseCapacity(p)

CallerStep(p) ==
  \/ \E s \in Sessions, c \in Classes : SendSession(p, s, c)
  \/ \E s \in Sessions, d \in Ids : Ack(p, s, d)
  \/ SendStep(p)
  \/ Kill(p)

CleanupStep ==
  \/ \E e \in Ids \cup {0} : FirstKey(e) \/ ReleaseNext(e)
  \/ ReleaseEnd \/ DropCounterRow \/ UnmarkSlow

RecoveryStep == Reconcile \/ RebuildMonitors

SessionStep(s) ==
  \/ Connect(s) \/ Disconnect(s) \/ OwnerExit(s) \/ OwnerDown(s)
  \/ EvictSlow(s) \/ LoseEviction(s)

Next ==
  \/ \E p \in Callers : CallerStep(p)
  \/ \E p \in Procs : GiveBack(p)
  \/ \E s \in Sessions : SessionStep(s)
  \/ NewCounterRow \/ CleanupStep \/ Crash \/ RecoveryStep

Spec == Init /\ [][Next]_vars

(* Every process that is scheduled keeps running; a dead owner is noticed. *)
Fairness ==
  /\ \A p \in Callers : WF_vars(SendStep(p))
  /\ \A p \in Procs : WF_vars(GiveBack(p))
  /\ WF_vars(NewCounterRow) /\ WF_vars(CleanupStep) /\ WF_vars(RecoveryStep)

FairSpec == Spec /\ Fairness

-----------------------------------------------------------------------------
(* Properties.                                                             *)

ProcType == [pc : CallerPcs \cup RuntimePcs, s : Sessions \cup {NoSession},
             class : Classes, mon : Nat, id : Ids \cup {0}, evict : BOOLEAN]

(* A process past its first step works on a session.                       *)
NeedsSession(pc) == pc \notin {"idle", "down", "rebuild"}

ProcOK ==
  /\ proc \in [Procs -> ProcType]
  /\ \A p \in Callers : proc[p].pc \in CallerPcs
  /\ proc[Runtime].pc \in RuntimePcs
  /\ \A p \in Procs : NeedsSession(proc[p].pc) => proc[p].s \in Sessions

(* Every variable has its type, and only the Runtime is at a Runtime pc.   *)
TypeOK ==
  /\ monitor \in [Sessions -> Nat]
  /\ born \in SUBSET Sessions /\ alive \in SUBSET Sessions
  /\ rows \in SUBSET Sessions
  /\ pending \in [Sessions -> Nat]
  /\ reservations \in SUBSET (Sessions \X Ids) /\ IsFiniteSet(reservations)
  /\ capacity \in Nat
  /\ slow \in SUBSET Sessions /\ evictions \in SUBSET Sessions
  /\ ProcOK
  /\ epoch \in Nat \ {0}
  /\ leaked \in Nat /\ leakedOf \in [Sessions -> Nat] /\ kills \in Nat

(* Every capacity slot has exactly one owner: a reservation in the table,  *)
(* a process between taking and giving back, or a process that died there. *)
(* So no race of senders, acknowledgements and cleanup frees a slot twice  *)
(* or loses one, and the clamp at zero in Capacity.release never hides it. *)
CapacityExact ==
  capacity = Cardinality(reservations) + Cardinality(SlotHolders) + leaked

(* The same for the pending count of each session that has a counter row:  *)
(* pending/2, which acks return and which decides about shedding, is the   *)
(* number of its reservations plus the calls in the middle of one.         *)
PendingExact ==
  \A s \in rows :
    pending[s] = Cardinality(Held(s)) + Cardinality(CountHolders(s))
                   + leakedOf[s]

(* Backpressure: however many processes publish at once, a session never   *)
(* has more than hard_queue deliveries outstanding (docs/architecture.md:  *)
(* 17, "every session has bounded delivery capacity").                     *)
SessionBound == \A s \in Sessions : Cardinality(Held(s)) <= HardQueue

(* The instance never has more than max_delivery_reservations outstanding, *)
(* whatever the counter itself reads while failed reservations are undone. *)
InstanceBound == Cardinality(reservations) <= MaxReservations

(* A reservation of a session that is gone still has a process that will   *)
(* release it: its sender, or the cleanup that has not reached its key.    *)
Attended(s, d) ==
  \/ \E p \in Callers : /\ proc[p].pc \in {"recheck", "retract"}
                        /\ proc[p].s = s /\ proc[p].id = d
  \/ RtIs("cleanup") /\ RtS = s
  \/ /\ proc[Runtime].pc \in {"release", "rollback", "giveback"}
     /\ RtS = s
     /\ proc[Runtime].id # 0 /\ proc[Runtime].id <= d

Undisturbed == kills = 0 /\ epoch = 1

NoOrphan ==
  Undisturbed =>
    \A s \in Sessions, d \in Ids :
      <<s, d>> \in reservations /\ monitor[s] = 0 => Attended(s, d)

(* Once every session has ended, the instance drains: Health.idle? reads   *)
(* zero delivery reservations (docs/operations.md:7).                      *)
AllEnded  == born = Sessions /\ Live = {}
EventuallyIdle == AllEnded ~> (capacity = 0)

-----------------------------------------------------------------------------
(* Seen from a live session, all these racing steps are the atomic bounded *)
(* window of DeliveryWindow: a delivery is admitted when its reservation   *)
(* is inserted, and the whole window closes when the session row is taken. *)
Window == INSTANCE DeliveryWindow
            WITH used <- born, open <- Live, Limit <- HardQueue,
                 window <- [s \in Sessions |-> IF s \in Live THEN Held(s)
                                                             ELSE {}]
WindowSpec == Window!Spec
=============================================================================
