-------------------------- MODULE Lifecycle_proofs ---------------------------
(***************************************************************************)
(* Proofs about Lifecycle, for any sessions, users, items, limits, clocks  *)
(* and any number of crashes and refused expiries.                         *)
(***************************************************************************)
EXTENDS Lifecycle, FiniteSetTheorems, TLAPS

(* Which requests and keys a step works on.                                *)
EdgePcs  == {"activate", "index", "count"}
UnedgePcs == {"unindex", "deactivate", "uncount"}
GracePcs == {"grace", "grace_insert"}
RoomEdges == Sessions \X Rooms

(* What a request is, step by step: an idle Runtime has forgotten the last *)
(* one, each step belongs to certain requests, and the edge a step works   *)
(* on is still on the request's list.                                      *)
OpOfPc ==
  /\ RtIs("idle") => rt = Ready
  /\ RtIs("down") => rt = [Ready EXCEPT !.pc = "down"]
  /\ rt.pc \in EdgePcs => Adding
  /\ rt.pc \in UnedgePcs => Removing
  /\ RtIs("metadata") => rt.op = "join"
  /\ RtIs("consume") => rt.op = "resume"
  /\ rt.pc \in {"create", "restore"} => rt.op = "resume" /\ rt.s \in Sessions
  /\ rt.pc \in GracePcs \cup {"snapshot", "snap_insert"} => rt.op = "cleanup"
  /\ rt.pc = "forget_grace" => rt.op = "expire"
  /\ rt.pc \in {"give_snap"} => rt.op = "none"
  /\ rt.pc = "give_grace" => rt.op \in {"none", "expire"}
  /\ rt.pc = "next" => Adding \/ Removing
CurOfPc ==
  /\ rt.pc \in EdgePcs \cup UnedgePcs \cup GracePcs \cup {"metadata", "consume"} =>
       rt.cur \in rt.todo
  /\ rt.op = "join" => rt.todo \subseteq RoomEdges
  /\ rt.op = "cleanup" => /\ rt.s \in Sessions
                          /\ \A e \in rt.todo : e[1] = rt.s
  /\ rt.op = "expire" => /\ rt.cur \in (Sessions \cup {None}) \X Rooms
                         /\ \A e \in rt.todo : e[2] = rt.cur[2]
Typed == TypeOK /\ OpOfPc /\ CurOfPc

(* The bit of the row that is written or removed next to it.               *)
Bit(e)  == <<e[2], Bucket[e[1]]>>
BitSet  == RtIs("index") => Bit(rt.cur) \in active
Findable == FanReachable /\ BitSet

(* A request that was taken up before the drain has ended by then.         *)
NoneAdds == draining => ~Adding

(* Tokens: whose snapshot there may be, and whose token was used.          *)
Gone == born \ live
TokenFree(s) == s \in Gone /\ s \notin DOMAIN snapshots /\ resumes[s] = 0
Tokens ==
  /\ live \subseteq born
  /\ DOMAIN snapshots \subseteq Gone
  /\ \A s \in Sessions : resumes[s] # 0 =>
       resumes[s] = 1 /\ s \in Gone /\ s \notin DOMAIN snapshots
  /\ rt.pc \in {"snapshot", "snap_insert"} => TokenFree(rt.s)
  /\ RtIs("create") => TokenFree(rt.old) /\ rt.s \notin born
  /\ rt.op = "cleanup" => rt.s \in Gone

(* The indices, at any step of a request: each differs from the edges by   *)
(* the edge in progress at most.                                           *)
Bits(E) == {Bit(e) : e \in E}
InHand(P, pc, c) == IF pc \in P THEN {c} ELSE {}
IndexedAt(pc, c, E, F, R, A) ==
  /\ pc \in EdgePcs => c \in E
  /\ pc \in UnedgePcs \cup GracePcs => c \notin E
  /\ F = (E \ InHand({"activate", "index"}, pc, c)) \cup InHand({"unindex"}, pc, c)
  /\ R = (E \ InHand(EdgePcs, pc, c)) \cup InHand(UnedgePcs, pc, c)
  /\ A = Bits(F) \cup Bits(InHand({"index", "deactivate"}, pc, c))
Indexed == RtIs("down") \/ IndexedAt(rt.pc, rt.cur, edges, fan, reverse, active)

(* The counts are those of the reverse index, and those of edges and       *)
(* users keep what is being taken back until it is.                        *)
SessRows(R, s, k) == {e \in R : e[1] = s /\ Kind[e[2]] = k}
ItemRows(R, x)    == {e \in R : e[2] = x}
KindRows(R, k)    == {e \in R : Kind[e[2]] = k}
UserRows(L, u)    == {s \in L : UserOf[s] = u}
Ending == IF rt.op = "cleanup" THEN {rt.s} ELSE {}
RowsCounted ==
  ~RtIs("down") =>
    /\ \A s \in Sessions, k \in Kinds :
         sessCount[s][k] = Cardinality(SessRows(reverse, s, k))
    /\ \A x \in Items : itemCount[x] = Cardinality(ItemRows(reverse, x))
    /\ \A k \in Kinds : edgeUsed[k] = Cardinality(KindRows(edges \cup reverse, k))
UsersCounted ==
  ~RtIs("down") =>
    \A u \in Users : userCount[u] = Cardinality(UserRows(live \cup Ending, u))

(* An edge of a session that is gone is on the list of its cleanup.        *)
Rooted ==
  ~RtIs("down") =>
    \A e \in edges : \/ e[1] \in live
                     \/ /\ rt.op = "cleanup" /\ e[1] = rt.s
                        /\ rt.pc \in {"snapshot", "snap_insert"} \/ e \in rt.todo

(* Every member of an expiring room is on the list of its expiry.          *)
Emptied ==
  rt.op = "expire" =>
    /\ \A e \in edges : e[2] = rt.cur[2] => e \in rt.todo
    /\ rt.pc \in {"forget_grace", "give_grace"} => rt.todo = {}
    /\ RtIs("give_grace") => \A key \in DOMAIN grace : key[2] # rt.cur[2]

(* What a sync has done so far, against what it found and what it is for:  *)
(* it grows by what it adds, then shrinks back to what there was, or to    *)
(* what was asked for.                                                     *)
SyncOps == {"sync", "rollback", "trim"}
Of(E, s, k) == {e \in E : e[1] = s /\ Kind[e[2]] = k}
Grows(pc, c, M, todo, added, before, desired, after) ==
  /\ M = before \cup added \cup InHand(EdgePcs, pc, c)
  /\ added \cup todo = desired \ before /\ added \cap todo = {}
  /\ after = before \ desired
Shrinks(pc, c, M, todo, target) ==
  /\ M = (target \cup todo) \ InHand(UnedgePcs, pc, c)
  /\ todo \cap target = {}
Syncs ==
  LET mine == Of(edges, rt.s, rt.k)
  IN rt.op \in SyncOps =>
       /\ Of(rt.before, rt.s, rt.k) = rt.before
       /\ Of(rt.desired, rt.s, rt.k) = rt.desired
       /\ rt.op = "sync" => Grows(rt.pc, rt.cur, mine, rt.todo, rt.added, rt.before,
                                  rt.desired, rt.after)
       /\ rt.op = "rollback" => Shrinks(rt.pc, rt.cur, mine, rt.todo, rt.before)
       /\ rt.op = "trim" => Shrinks(rt.pc, rt.cur, mine, rt.todo, rt.desired)
-----------------------------------------------------------------------------
(* Who writes what.                                                        *)
Inserts == \E e \in rt.todo : InsertEdge(e)
Takes   == \E e \in rt.todo : TakeEdge(e)
EdgeSteps == \/ Inserts \/ ActivateBucket \/ IndexEdge \/ CountEdge
             \/ Takes \/ UnindexEdge \/ DeactivateBucket \/ UncountEdge
             \/ Reconcile

(* Steps that leave Runtime where it is.                                   *)
Owners == \E s \in Sessions : OwnerExit(s)
Connects == \E s \in Sessions, b \in BOOLEAN : Connect(s, b)
Deadlines == \E s \in Sessions, r \in Rooms, ttl \in RoomTtls \cup {0} :
                SetRoomDeadline(s, r, IF ttl = 0 THEN 0 ELSE now + ttl)
Drains   == \E b \in DrainRequests : SetDraining(b)
TimersFire == \E k \in DOMAIN timers : ExpireTimer(k) \/ LoseTimer(k)
Outside == \/ Tick \/ Owners \/ Connects \/ Deadlines \/ Drains \/ TimersFire
           \/ UNCHANGED vars

(* Requests and messages that are taken up.                                *)
Started ==
  \E s \in Sessions :
    \/ \E X \in SUBSET Items : AddMany(s, X) \/ RemoveMany(s, X)
    \/ \E k \in Kinds, X \in SUBSET Items : Sync(s, k, X)
    \/ \E r \in Rooms : JoinWithMetadata(s, r)
    \/ \E old \in Sessions, r \in Rooms : ResumeRoom(old, s, r)
Ended    == \E s \in Sessions, b \in BOOLEAN : BeginCleanup(s, b)
Resumed  == \E old, s \in Sessions : Resume(old, s)
SnapMail == \E m \in casts : ExpireSnapshot(m[1][2], m[2])
GraceMail == \E m \in casts : ExpireGrace(m[1][2], m[1][3], m[2])
RoomMail == \E m \in casts : ExpireRoom(m[1][3], m[2])
TakenUp  == Started \/ Ended \/ Resumed \/ SnapMail \/ GraceMail \/ RoomMail

(* The steps between two edges of a request, and those after the last.     *)
Keeps   == \E e \in rt.todo : KeepEdge(e)
Refuses == \E e \in rt.todo : RefuseEdge(e)
BetweenEdges ==
  \/ Keeps \/ Refuses
  \/ InitializeMetadata \/ ConsumeGrace
  \/ ReserveSnapshot \/ StoreSnapshot \/ ReserveGrace \/ StoreGrace
  \/ FinishCleanup \/ CreateResumed \/ RestoreEdges \/ GiveSnapshotSlot
  \/ ForgetRoom \/ ForgetGrace \/ GiveGraceSlots \/ EndRequest

(* Next, sorted by what a step does to Runtime's request.                  *)
LEMMA Sorted ==
  ASSUME [Next]_vars
  PROVE  EdgeSteps \/ Outside \/ TakenUp \/ BetweenEdges \/ Crash
<1>1. CASE Request
  BY <1>1 DEF Request, Disconnect, OwnerDown, Outside, Connects, Deadlines,
              Drains, TakenUp, Started, Ended, Resumed
<1>2. CASE Mailed
  BY <1>2 DEF Mailed, TakenUp, SnapMail, GraceMail, RoomMail
<1>3. CASE RequestStep
  BY <1>3 DEF RequestStep, EdgeStep, EdgeSteps, Inserts, Takes, BetweenEdges,
              Keeps, Refuses
<1>4. CASE ~(Request \/ Mailed \/ RequestStep)
  BY <1>4 DEF Next, Timer, Outside, Owners, TimersFire, EdgeSteps
<1> QED BY <1>1, <1>2, <1>3, <1>4

(* The indices are written by the steps on one edge and by the recovery    *)
(* alone, snapshots, graces and rooms by a few steps each.                 *)
SnapSteps  == \/ Resumed \/ SnapMail
              \/ ReserveSnapshot \/ StoreSnapshot \/ CreateResumed \/ RestoreEdges
              \/ GiveSnapshotSlot
GraceSteps == \/ GraceMail
              \/ ConsumeGrace \/ ReserveGrace \/ StoreGrace \/ ForgetGrace \/ GiveGraceSlots
SessSteps  == \/ Owners \/ Connects \/ Ended
              \/ ReserveSnapshot \/ FinishCleanup \/ CreateResumed \/ Reconcile
RoomSteps  == Deadlines \/ InitializeMetadata \/ ForgetRoom
TimeSteps  == \/ TimersFire \/ Deadlines
              \/ Resumed \/ SnapMail \/ GraceMail \/ RoomMail
              \/ ConsumeGrace \/ StoreSnapshot \/ StoreGrace \/ CreateResumed \/ Crash
Unwritten ==
  /\ EdgeSteps  \/ UNCHANGED edgeVars
  /\ SnapSteps  \/ UNCHANGED snapVars
  /\ GraceSteps \/ UNCHANGED graceVars
  /\ SessSteps  \/ UNCHANGED sessVars
  /\ RoomSteps  \/ UNCHANGED roomState
  /\ TimeSteps  \/ UNCHANGED timeVars

LEMMA Writers ==
  ASSUME [Next]_vars
  PROVE  Unwritten
<1> USE DEF edgeVars, snapVars, graceVars, sessVars, timeVars, envVars, vars
<1>1. CASE EdgeSteps
  <2>1. UNCHANGED <<snapVars, graceVars, roomState, timeVars>>
    BY <1>1 DEF EdgeSteps, Inserts, Takes, InsertEdge, TakeEdge, ActivateBucket, IndexEdge, CountEdge,
                UnindexEdge, DeactivateBucket, UncountEdge, Reconcile
  <2>2. Reconcile \/ UNCHANGED sessVars
    BY <1>1 DEF EdgeSteps, Inserts, Takes, InsertEdge, TakeEdge, ActivateBucket, IndexEdge, CountEdge,
                UnindexEdge, DeactivateBucket, UncountEdge
  <2> QED BY ONLY <1>1, <2>1, <2>2 DEF Unwritten, SessSteps
<1>2. CASE Outside
  <2>1. UNCHANGED <<edgeVars, snapVars, graceVars>>
    BY <1>2 DEF Outside, Owners, Connects, Deadlines, Drains, TimersFire, Tick, OwnerExit, Connect, SetRoomDeadline, SetDraining,
                ExpireTimer, LoseTimer
  <2>2. SessSteps \/ UNCHANGED sessVars
    <3>1. SessSteps \/ Deadlines \/ Drains \/ TimersFire \/ Tick \/ UNCHANGED vars
      BY ONLY <1>2, Zenon DEF Outside, SessSteps
    <3>2. Deadlines \/ Drains \/ TimersFire \/ Tick \/ UNCHANGED vars => UNCHANGED sessVars
      BY DEF Deadlines, Drains, TimersFire, Tick, SetRoomDeadline, SetDraining, ExpireTimer,
             LoseTimer
    <3> QED BY ONLY <3>1, <3>2
  <2>3. RoomSteps \/ UNCHANGED roomState
    BY <1>2 DEF Outside, Owners, Connects, Deadlines, Drains, TimersFire, Tick, OwnerExit, Connect, SetDraining, ExpireTimer, LoseTimer,
                RoomSteps
  <2>4. TimeSteps \/ UNCHANGED timeVars
    BY <1>2 DEF Outside, Owners, Connects, Deadlines, Drains, TimersFire, Tick, OwnerExit, Connect, SetDraining, TimeSteps
  <2> QED BY ONLY <2>1, <2>2, <2>3, <2>4 DEF Unwritten
<1>3. CASE TakenUp
  <2>1. Started => UNCHANGED <<edgeVars, snapVars, graceVars, sessVars, roomState, timeVars>>
    <3>1. Started => \E r : Start(r)
      BY Zenon DEF Started, AddMany, RemoveMany, Sync, JoinWithMetadata, ResumeRoom
    <3>2. ASSUME NEW r, Start(r)
          PROVE  UNCHANGED <<edgeVars, snapVars, graceVars, sessVars, roomState, timeVars>>
      BY <3>2 DEF Start
    <3> QED BY ONLY <3>1, <3>2
  <2>2. Ended => UNCHANGED <<edgeVars, snapVars, graceVars, roomState, timeVars>>
    BY DEF Ended, BeginCleanup
  <2>3. Resumed => UNCHANGED <<edgeVars, graceVars, sessVars, roomState>>
    BY DEF Resumed, Resume
  <2>4. SnapMail => UNCHANGED <<edgeVars, graceVars, sessVars, roomState>>
    BY DEF SnapMail, ExpireSnapshot
  <2>5. GraceMail => UNCHANGED <<edgeVars, snapVars, sessVars, roomState>>
    BY DEF GraceMail, ExpireGrace
  <2>6. RoomMail => UNCHANGED <<edgeVars, snapVars, graceVars, sessVars, roomState>>
    BY DEF RoomMail, ExpireRoom
  <2> QED
    BY ONLY <1>3, <2>1, <2>2, <2>3, <2>4, <2>5, <2>6
       DEF TakenUp, Unwritten, SnapSteps, GraceSteps, SessSteps, TimeSteps
<1>4. CASE BetweenEdges
  <2> USE DEF BetweenEdges, Keeps, Refuses, KeepEdge, RefuseEdge, EndRequest
  <2>1. UNCHANGED edgeVars
    BY <1>4 DEF InitializeMetadata, ConsumeGrace, ReserveSnapshot, StoreSnapshot,
                ReserveGrace, StoreGrace, FinishCleanup, CreateResumed, RestoreEdges,
                GiveSnapshotSlot, ForgetRoom, ForgetGrace, GiveGraceSlots
  <2>2. SnapSteps \/ UNCHANGED snapVars
    BY <1>4 DEF InitializeMetadata, ConsumeGrace, ReserveGrace, StoreGrace,
                FinishCleanup, ForgetRoom, ForgetGrace, GiveGraceSlots, SnapSteps
  <2>3. GraceSteps \/ UNCHANGED graceVars
    BY <1>4 DEF InitializeMetadata, ReserveSnapshot, StoreSnapshot,
                FinishCleanup, CreateResumed, RestoreEdges, GiveSnapshotSlot, ForgetRoom,
                GraceSteps
  <2>4. SessSteps \/ UNCHANGED sessVars
    BY <1>4 DEF InitializeMetadata, ConsumeGrace, StoreSnapshot, ReserveGrace, StoreGrace,
                RestoreEdges, GiveSnapshotSlot, ForgetRoom, ForgetGrace, GiveGraceSlots,
                SessSteps
  <2>5. RoomSteps \/ UNCHANGED roomState
    BY <1>4 DEF ConsumeGrace, ReserveSnapshot, StoreSnapshot,
                ReserveGrace, StoreGrace, FinishCleanup, CreateResumed, RestoreEdges,
                GiveSnapshotSlot, ForgetGrace, GiveGraceSlots, RoomSteps
  <2>6. TimeSteps \/ UNCHANGED timeVars
    BY <1>4 DEF InitializeMetadata, ReserveSnapshot, ReserveGrace,
                FinishCleanup, RestoreEdges, GiveSnapshotSlot, ForgetRoom, ForgetGrace,
                GiveGraceSlots, TimeSteps
  <2> QED BY ONLY <2>1, <2>2, <2>3, <2>4, <2>5, <2>6 DEF Unwritten
<1>5. CASE Crash
  BY <1>5 DEF Crash, Unwritten, TimeSteps
<1> QED BY ONLY [Next]_vars, <1>1, <1>2, <1>3, <1>4, <1>5, Sorted

-----------------------------------------------------------------------------
(* Types, one group of variables at a time.                                *)
RtTyped ==
  /\ rt \in RtType
  /\ rt.pc \in EdgePcs \cup UnedgePcs => rt.cur \in Edges
  /\ rt.pc \in GracePcs \cup {"metadata", "consume"} => rt.cur \in RoomEdges
  /\ rt.op = "resume" => rt.old \in Sessions
  /\ OpOfPc /\ CurOfPc
EdgesTyped ==
  /\ edges \in SUBSET Edges /\ reverse \in SUBSET Edges /\ fan \in SUBSET Edges
  /\ active \in SUBSET (Items \X {Bucket[s] : s \in Sessions})
  /\ sessCount \in [Sessions -> [Kinds -> Nat]]
  /\ itemCount \in [Items -> Nat] /\ edgeUsed \in [Kinds -> Nat]
SessTyped ==
  /\ alive \in SUBSET Sessions /\ born \in SUBSET Sessions
  /\ live \in SUBSET Sessions /\ resumable \in SUBSET Sessions
  /\ userCount \in [Users -> Nat] /\ resumes \in [Sessions -> Nat]
SnapTyped ==
  /\ DOMAIN snapshots \subseteq Sessions
  /\ \A s \in DOMAIN snapshots : snapshots[s] \in SnapRow
  /\ snapUsed \in Nat
GraceTyped ==
  /\ DOMAIN grace \subseteq RoomEdges
  /\ \A key \in DOMAIN grace : grace[key] \in Nat
  /\ graceUsed \in Nat
RoomTyped ==
  /\ DOMAIN roomState \subseteq Rooms
  /\ \A r \in DOMAIN roomState : roomState[r] \in Nat
TimeTyped ==
  /\ DOMAIN timers \subseteq TimerKeys
  /\ \A k \in DOMAIN timers : timers[k] \in Nat
  /\ casts \subseteq TimerKeys \X Nat
EnvTyped ==
  /\ now \in Nat /\ restarts \in Nat /\ refused \in Nat
  /\ draining \in BOOLEAN /\ disturbed \in BOOLEAN
  /\ leaked \in [snap : Nat, grace : Nat]

LEMMA TypedParts ==
  Typed <=> /\ RtTyped /\ EdgesTyped /\ SessTyped /\ SnapTyped /\ GraceTyped
            /\ RoomTyped /\ TimeTyped /\ EnvTyped
<1>1. TypeOK <=> /\ rt \in RtType
                 /\ rt.pc \in EdgePcs \cup UnedgePcs => rt.cur \in Edges
                 /\ rt.pc \in GracePcs \cup {"metadata", "consume"} => rt.cur \in RoomEdges
                 /\ rt.op = "resume" => rt.old \in Sessions
                 /\ EdgesTyped /\ SessTyped /\ SnapTyped /\ GraceTyped
                 /\ RoomTyped /\ TimeTyped /\ EnvTyped
  BY DEF TypeOK, EdgesTyped, SessTyped, SnapTyped, GraceTyped, RoomTyped, TimeTyped,
         EnvTyped, EdgePcs, UnedgePcs, GracePcs, RoomEdges
<1> QED BY <1>1 DEF Typed, RtTyped

(* The operators on partial functions.                                     *)
LEMMA PutFacts ==
  ASSUME NEW f, NEW k, NEW v
  PROVE  /\ DOMAIN Put(f, k, v) = DOMAIN f \cup {k}
         /\ Put(f, k, v)[k] = v
         /\ \A i \in DOMAIN f : i # k => Put(f, k, v)[i] = f[i]
  BY DEF Put

LEMMA DropFacts ==
  ASSUME NEW f, NEW K
  PROVE  /\ DOMAIN Drop(f, K) = DOMAIN f \ K
         /\ \A i \in DOMAIN f \ K : Drop(f, K)[i] = f[i]
  BY DEF Drop, Restrict

LEMMA PutTyped ==
  ASSUME NEW f, NEW D, NEW R, DOMAIN f \subseteq D, \A i \in DOMAIN f : f[i] \in R,
         NEW k \in D, NEW v \in R
  PROVE  /\ DOMAIN Put(f, k, v) \subseteq D
         /\ \A i \in DOMAIN Put(f, k, v) : Put(f, k, v)[i] \in R
  BY DEF Put

LEMMA DropTyped ==
  ASSUME NEW f, NEW D, NEW R, DOMAIN f \subseteq D, \A i \in DOMAIN f : f[i] \in R
  PROVE  \A K : /\ DOMAIN Drop(f, K) \subseteq D
                /\ \A i \in DOMAIN Drop(f, K) : Drop(f, K)[i] \in R
  BY DEF Drop, Restrict

LEMMA ConstantTypes ==
  /\ ResumeTtl \in Nat /\ GraceTtl \in Nat /\ RoomTtls \subseteq Nat
  /\ \A s \in Sessions : UserOf[s] \in Users
  /\ \A x \in Items : Kind[x] \in Kinds
  BY ConstantsOK

LEMMA RoomsAreItems == Rooms \subseteq Items /\ RoomEdges \subseteq Edges
                       /\ \A e \in Edges : e[1] \in Sessions /\ e[2] \in Items
                                           /\ (e[2] \in Rooms => e \in RoomEdges)
                                           /\ e = <<e[1], e[2]>> /\ e # None
  BY ConstantsOK DEF Rooms, RoomEdges, Edges

LEMMA KeysKnown ==
  /\ \A s \in Sessions : SnapKey(s) \in TimerKeys
  /\ \A s \in Sessions, r \in Rooms : GraceKey(s, r) \in TimerKeys
  /\ \A r \in Rooms : RoomKey(r) \in TimerKeys
  /\ \A s : SnapKey(s) \in TimerKeys => s \in Sessions
  /\ \A s, r : GraceKey(s, r) \in TimerKeys => s \in Sessions /\ r \in Rooms
  /\ \A r : RoomKey(r) \in TimerKeys => r \in Rooms
  BY DEF TimerKeys, SnapKey, GraceKey, RoomKey

LEMMA FiniteEdges ==
  ASSUME NEW E \in SUBSET Edges
  PROVE  IsFiniteSet(E) /\ Cardinality(E) \in Nat
  BY ConstantsOK, FS_Product, FS_Subset, FS_CardinalityType DEF Edges

LEMMA FiniteSessions ==
  ASSUME NEW S \in SUBSET Sessions
  PROVE  IsFiniteSet(S) /\ Cardinality(S) \in Nat
  BY ConstantsOK, FS_Subset, FS_CardinalityType

LEMMA EdgesTypedNext ==
  ASSUME Typed, [Next]_vars
  PROVE  EdgesTyped'
<1> USE DEF EdgesTyped
<1>0. RtTyped /\ EdgesTyped /\ Unwritten
  BY TypedParts, Writers
<1>1. CASE UNCHANGED edgeVars
  BY <1>0, <1>1 DEF edgeVars
<1>2. CASE Inserts
  BY <1>0, <1>2, RoomsAreItems, ConstantsOK DEF Inserts, InsertEdge, RtTyped, RtType
<1>3. CASE ActivateBucket
  <2>1. rt.cur \in Edges
    BY <1>0, <1>3 DEF ActivateBucket, RtIs, RtTyped, EdgePcs
  <2> QED BY <1>0, <1>3, <2>1, RoomsAreItems DEF ActivateBucket
<1>4. CASE IndexEdge
  BY <1>0, <1>4 DEF IndexEdge, RtIs, RtTyped, EdgePcs
<1>5. CASE CountEdge
  <2>1. rt.cur \in Edges /\ Kind[rt.cur[2]] \in Kinds
    BY <1>0, <1>5, RoomsAreItems, ConstantsOK DEF CountEdge, RtIs, RtTyped, EdgePcs
  <2>2. \A n \in Nat : n + 1 \in Nat
    OBVIOUS
  <2>3. sessCount' \in [Sessions -> [Kinds -> Nat]]
    <3>1. sessCount[rt.cur[1]] \in [Kinds -> Nat]
      BY <1>0, <2>1, RoomsAreItems
    <3> DEFINE f == [sessCount[rt.cur[1]] EXCEPT ![Kind[rt.cur[2]]] = @ + 1]
    <3>2. f \in [Kinds -> Nat]
      BY <2>1, <2>2, <3>1
    <3>3. sessCount' = [sessCount EXCEPT ![rt.cur[1]] = f]
      BY <1>5 DEF CountEdge
    <3> HIDE DEF f
    <3> QED BY <1>0, <3>2, <3>3
  <2>4. itemCount' \in [Items -> Nat]
    BY <1>0, <1>5, <2>1, <2>2, RoomsAreItems DEF CountEdge
  <2> QED BY <1>0, <1>5, <2>1, <2>3, <2>4 DEF CountEdge
<1>6. CASE Takes
  BY <1>0, <1>6 DEF Takes, TakeEdge
<1>7. CASE UnindexEdge
  BY <1>0, <1>7 DEF UnindexEdge
<1>8. CASE DeactivateBucket
  BY <1>0, <1>8 DEF DeactivateBucket
<1>9. CASE UncountEdge
  <2>1. \A n \in Nat : Less(n) \in Nat
    BY DEF Less
  <2> QED BY <1>0, <1>9, <2>1 DEF UncountEdge
<1>10. CASE Reconcile
  <2>1. /\ edges' \in SUBSET Edges /\ reverse' \in SUBSET Edges /\ fan' \in SUBSET Edges
        /\ active' \in SUBSET (Items \X {Bucket[s] : s \in Sessions})
    BY <1>0, <1>10, RoomsAreItems DEF Reconcile
  <2>2. \A P \in SUBSET edges : Cardinality(P) \in Nat
    BY <1>0, FiniteEdges
  <2>3. /\ sessCount' \in [Sessions -> [Kinds -> Nat]]
        /\ itemCount' \in [Items -> Nat] /\ edgeUsed' \in [Kinds -> Nat]
    BY <1>0, <1>10, <2>2 DEF Reconcile
  <2> QED BY <2>1, <2>3
<1> QED BY <1>0, <1>1, <1>2, <1>3, <1>4, <1>5, <1>6, <1>7, <1>8, <1>9, <1>10
           DEF Unwritten, EdgeSteps

LEMMA SessTypedNext ==
  ASSUME Typed, [Next]_vars
  PROVE  SessTyped'
<1> USE DEF SessTyped
<1>0. RtTyped /\ SessTyped /\ Unwritten /\ \A n \in Nat : Less(n) \in Nat
  BY TypedParts, Writers DEF Less
<1>1. CASE UNCHANGED sessVars
  BY <1>0, <1>1 DEF sessVars
<1>2. CASE Owners
  BY <1>0, <1>2 DEF Owners, OwnerExit
<1>3. CASE Connects
  <2>1. PICK s \in Sessions, b \in BOOLEAN : Connect(s, b)
    BY <1>3 DEF Connects
  <2>2. userCount[UserOf[s]] + 1 \in Nat
    BY <1>0, ConstantTypes
  <2> QED BY <1>0, <2>1, <2>2 DEF Connect, InsertSession
<1>4. CASE Ended
  BY <1>0, <1>4 DEF Ended, BeginCleanup
<1>5. CASE ReserveSnapshot
  BY <1>0, <1>5 DEF ReserveSnapshot
<1>6. CASE FinishCleanup
  BY <1>0, <1>6 DEF FinishCleanup
<1>7. CASE CreateResumed
  <2>1. rt.s \in Sessions
    BY <1>0, <1>7 DEF CreateResumed, RtTyped, OpOfPc, RtIs
  <2>2. userCount[UserOf[rt.s]] + 1 \in Nat
    BY <1>0, <2>1, ConstantTypes
  <2>3. \A i \in Sessions : resumes[i] + 1 \in Nat
    BY <1>0
  <2> QED BY <1>0, <1>7, <2>1, <2>2, <2>3 DEF CreateResumed, InsertSession, sessVars
<1>8. CASE Reconcile
  <2>1. \A P \in SUBSET live : Cardinality(P) \in Nat
    BY <1>0, FiniteSessions
  <2> QED BY <1>0, <1>8, <2>1 DEF Reconcile
<1> QED BY <1>0, <1>1, <1>2, <1>3, <1>4, <1>5, <1>6, <1>7, <1>8
           DEF Unwritten, SessSteps

LEMMA SnapTypedNext ==
  ASSUME Typed, [Next]_vars
  PROVE  SnapTyped'
<1> USE DEF SnapTyped
<1>0. /\ RtTyped /\ SnapTyped /\ EdgesTyped /\ now \in Nat /\ Unwritten
      /\ \A n \in Nat : Less(n) \in Nat
  BY TypedParts, Writers DEF Less, EnvTyped
<1>d. \A K : /\ DOMAIN Drop(snapshots, K) \subseteq Sessions
             /\ \A i \in DOMAIN Drop(snapshots, K) : Drop(snapshots, K)[i] \in SnapRow
  BY <1>0, DropTyped
<1>1. CASE UNCHANGED snapVars
  BY <1>0, <1>1 DEF snapVars
<1>2. CASE Resumed
  BY <1>0, <1>d, <1>2 DEF Resumed, Resume
<1>3. CASE SnapMail
  BY <1>0, <1>d, <1>3 DEF SnapMail, ExpireSnapshot
<1>4. CASE ReserveSnapshot
  BY <1>0, <1>4 DEF ReserveSnapshot
<1>5. ASSUME NEW s \in Sessions, NEW row \in SnapRow, KeepSnapshot(s, row)
      PROVE  SnapTyped'
  BY <1>0, <1>5, PutTyped DEF KeepSnapshot
<1>6. CASE StoreSnapshot
  <2>1. rt.s \in Sessions
    BY <1>0, <1>6 DEF StoreSnapshot, RtTyped, OpOfPc, CurOfPc, RtIs
  <2>2. now + ResumeTtl \in Nat
    BY <1>0, ConstantTypes
  <2>3. [items |-> {e[2] : e \in ReverseOf(rt.s, Kinds)}, expires |-> now + ResumeTtl]
          \in SnapRow
    BY <1>0, <2>2, RoomsAreItems DEF EdgesTyped, ReverseOf, SnapRow
  <2> QED BY <1>5, <1>6, <2>1, <2>3 DEF StoreSnapshot
<1>7. CASE CreateResumed
  <2>1. rt.old \in Sessions
    BY <1>0, <1>7 DEF CreateResumed, RtTyped, OpOfPc, RtIs
  <2>2. [items |-> {e[2] : e \in rt.todo}, expires |-> rt.n] \in SnapRow
    BY <1>0, RoomsAreItems DEF RtTyped, RtType, SnapRow
  <2> QED BY <1>0, <1>5, <1>7, <2>1, <2>2 DEF CreateResumed, snapVars
<1>8. CASE RestoreEdges \/ GiveSnapshotSlot
  BY <1>0, <1>8 DEF RestoreEdges, GiveSnapshotSlot
<1> QED BY <1>0, <1>1, <1>2, <1>3, <1>4, <1>6, <1>7, <1>8 DEF Unwritten, SnapSteps

LEMMA GraceTypedNext ==
  ASSUME Typed, [Next]_vars
  PROVE  GraceTyped'
<1> USE DEF GraceTyped
<1>0. /\ RtTyped /\ GraceTyped /\ now \in Nat /\ rt.n \in Nat /\ Unwritten
      /\ \A n \in Nat : Less(n) \in Nat
  BY TypedParts, Writers DEF Less, EnvTyped, RtTyped, RtType
<1>d. \A K : /\ DOMAIN Drop(grace, K) \subseteq RoomEdges
             /\ \A i \in DOMAIN Drop(grace, K) : Drop(grace, K)[i] \in Nat
  BY <1>0, DropTyped
<1>1. CASE UNCHANGED graceVars
  BY <1>0, <1>1 DEF graceVars
<1>2. CASE GraceMail
  BY <1>0, <1>d, <1>2 DEF GraceMail, ExpireGrace
<1>3. CASE ConsumeGrace
  BY <1>0, <1>d, <1>3 DEF ConsumeGrace
<1>4. CASE ReserveGrace
  BY <1>0, <1>4 DEF ReserveGrace
<1>5. CASE StoreGrace
  <2>1. <<rt.s, rt.cur[2]>> \in RoomEdges
    BY <1>0, <1>5, RoomsAreItems
       DEF StoreGrace, RtTyped, OpOfPc, CurOfPc, RtIs, GracePcs, RoomEdges
  <2>2. now + GraceTtl \in Nat
    BY <1>0, ConstantTypes
  <2> DEFINE g == Put(grace, <<rt.s, rt.cur[2]>>, now + GraceTtl)
  <2>3. DOMAIN g \subseteq RoomEdges /\ \A i \in DOMAIN g : g[i] \in Nat
    BY <1>0, <2>1, <2>2, PutTyped
  <2> QED BY <1>0, <1>5, <2>3 DEF StoreGrace
<1>6. CASE ForgetGrace
  BY <1>0, <1>d, <1>6 DEF ForgetGrace
<1>7. CASE GiveGraceSlots
  BY <1>0, <1>7 DEF GiveGraceSlots
<1> QED BY <1>0, <1>1, <1>2, <1>3, <1>4, <1>5, <1>6, <1>7 DEF Unwritten, GraceSteps

LEMMA RoomTypedNext ==
  ASSUME Typed, [Next]_vars
  PROVE  RoomTyped'
<1> USE DEF RoomTyped
<1>0. RtTyped /\ RoomTyped /\ now \in Nat /\ Unwritten
  BY TypedParts, Writers DEF EnvTyped
<1>1. CASE UNCHANGED roomState
  BY <1>0, <1>1
<1>2. CASE Deadlines
  <2>1. PICK s \in Sessions, r \in Rooms, ttl \in RoomTtls \cup {0} :
          SetRoomDeadline(s, r, IF ttl = 0 THEN 0 ELSE now + ttl)
    BY <1>2 DEF Deadlines
  <2>2. (IF ttl = 0 THEN 0 ELSE now + ttl) \in Nat
    BY <1>0, ConstantTypes
  <2> QED BY <1>0, <2>1, <2>2, PutTyped DEF SetRoomDeadline
<1>3. CASE InitializeMetadata
  <2>1. rt.cur[2] \in Rooms
    BY <1>0, <1>3 DEF InitializeMetadata, RtTyped, RtIs, RoomEdges
  <2> DEFINE g == Put(roomState, rt.cur[2], 0)
  <2>2. DOMAIN g \subseteq Rooms /\ \A r \in DOMAIN g : g[r] \in Nat
    <3>1. DOMAIN roomState \subseteq Rooms /\ (\A r \in DOMAIN roomState : roomState[r] \in Nat)
      BY <1>0
    <3> QED BY ONLY <2>1, <3>1 DEF Put
  <2> QED BY <1>0, <1>3, <2>2 DEF InitializeMetadata
<1>4. CASE ForgetRoom
  <2>1. \A K : /\ DOMAIN Drop(roomState, K) \subseteq Rooms
               /\ \A r \in DOMAIN Drop(roomState, K) : Drop(roomState, K)[r] \in Nat
    BY <1>0, DropTyped
  <2> QED BY <1>0, <1>4, <2>1 DEF ForgetRoom
<1> QED BY <1>0, <1>1, <1>2, <1>3, <1>4 DEF Unwritten, RoomSteps

LEMMA TimeTypedNext ==
  ASSUME Typed, [Next]_vars
  PROVE  TimeTyped'
<1> USE DEF TimeTyped
<1>0. /\ RtTyped /\ TimeTyped /\ RoomTyped /\ SnapTyped /\ now \in Nat /\ Unwritten
  BY TypedParts, Writers DEF EnvTyped
<1>d. \A K : /\ DOMAIN Drop(timers, K) \subseteq TimerKeys
             /\ \A i \in DOMAIN Drop(timers, K) : Drop(timers, K)[i] \in Nat
  BY <1>0, DropTyped
<1>p. \A k \in TimerKeys, d \in Nat :
        /\ DOMAIN Put(timers, k, d) \subseteq TimerKeys
        /\ \A i \in DOMAIN Put(timers, k, d) : Put(timers, k, d)[i] \in Nat
  BY <1>0, PutTyped
<1>1. CASE UNCHANGED timeVars
  BY <1>0, <1>1 DEF timeVars
<1>2. CASE TimersFire
  BY <1>0, <1>d, <1>2 DEF TimersFire, ExpireTimer, LoseTimer, Mail
<1>3. CASE Deadlines
  <2>1. PICK s \in Sessions, r \in Rooms, ttl \in RoomTtls \cup {0} :
          SetRoomDeadline(s, r, IF ttl = 0 THEN 0 ELSE now + ttl)
    BY <1>3 DEF Deadlines
  <2>2. (IF ttl = 0 THEN 0 ELSE now + ttl) \in Nat
    BY <1>0, ConstantTypes
  <2> QED BY <1>0, <1>d, <1>p, <2>1, <2>2, KeysKnown DEF SetRoomDeadline
<1>4. CASE Resumed
  BY <1>0, <1>d, <1>4 DEF Resumed, Resume
<1>5. CASE SnapMail
  BY <1>0, <1>5 DEF SnapMail, ExpireSnapshot
<1>6. CASE GraceMail
  BY <1>0, <1>6 DEF GraceMail, ExpireGrace
<1>7. CASE RoomMail
  <2>1. PICK m \in casts : ExpireRoom(m[1][3], m[2])
    BY <1>7 DEF RoomMail
  <2>2. RoomKey(m[1][3]) \in TimerKeys
    BY <1>0, <2>1 DEF ExpireRoom, Mail
  <2> QED BY <1>0, <1>p, <2>1, <2>2 DEF ExpireRoom, RoomTyped
<1>8. CASE ConsumeGrace
  BY <1>0, <1>d, <1>8 DEF ConsumeGrace
<1>9. ASSUME NEW s \in Sessions, NEW row \in SnapRow, KeepSnapshot(s, row), UNCHANGED casts
      PROVE  TimeTyped'
  <2>1. row.expires \in Nat
    BY DEF SnapRow
  <2> QED BY <1>0, <1>9, <1>p, <2>1, KeysKnown DEF KeepSnapshot
<1>10. CASE StoreSnapshot
  <2>1. rt.s \in Sessions
    BY <1>0, <1>10 DEF StoreSnapshot, RtTyped, OpOfPc, CurOfPc, RtIs
  <2>2. now + ResumeTtl \in Nat /\ reverse \subseteq Edges
    BY <1>0, ConstantTypes, TypedParts DEF EdgesTyped
  <2>3. [items |-> {e[2] : e \in ReverseOf(rt.s, Kinds)}, expires |-> now + ResumeTtl]
          \in SnapRow
    BY <1>0, <2>2, RoomsAreItems DEF EdgesTyped, ReverseOf, SnapRow
  <2> QED BY <1>9, <1>10, <2>1, <2>3 DEF StoreSnapshot
<1>11. CASE StoreGrace
  <2>1. GraceKey(rt.s, rt.cur[2]) \in TimerKeys
    BY <1>0, <1>11, RoomsAreItems, KeysKnown
       DEF StoreGrace, RtTyped, OpOfPc, CurOfPc, RtIs, GracePcs, RoomEdges
  <2>2. now + GraceTtl \in Nat
    BY <1>0, ConstantTypes
  <2> QED BY <1>0, <1>11, <1>p, <2>1, <2>2 DEF StoreGrace
<1>12. CASE CreateResumed
  <2>1. rt.old \in Sessions
    BY <1>0, <1>12 DEF CreateResumed, RtTyped, OpOfPc, RtIs
  <2>2. [items |-> {e[2] : e \in rt.todo}, expires |-> rt.n] \in SnapRow
    BY <1>0, RoomsAreItems DEF RtTyped, RtType, SnapRow
  <2> QED BY <1>0, <1>9, <1>12, <2>1, <2>2 DEF CreateResumed
<1>13. CASE Crash
  BY <1>0, <1>13 DEF Crash
<1> QED BY <1>0, <1>1, <1>2, <1>3, <1>4, <1>5, <1>6, <1>7, <1>8, <1>10, <1>11, <1>12, <1>13
           DEF Unwritten, TimeSteps

LEMMA EnvTypedNext ==
  ASSUME Typed, [Next]_vars
  PROVE  EnvTyped'
<1>0. EnvTyped /\ rt.n \in Nat
  BY TypedParts DEF RtTyped, RtType
<1>1. CASE Outside
  <2> USE <1>0, <1>1 DEF EnvTyped
  <2>1. UNCHANGED leaked /\ UNCHANGED restarts
    BY DEF Outside, Tick, Owners, OwnerExit, Connects, Connect, Deadlines, SetRoomDeadline,
           Drains, SetDraining, TimersFire, ExpireTimer, LoseTimer, envVars, vars
  <2>2. now' \in Nat /\ refused' \in Nat
    <3>1. now' = now \/ now' = now + 1
      BY DEF Outside, Tick, Owners, OwnerExit, Connects, Connect, Deadlines, SetRoomDeadline,
             Drains, SetDraining, TimersFire, ExpireTimer, LoseTimer, envVars, vars
    <3>2. refused' = refused \/ refused' = refused + 1
      BY DEF Outside, Tick, Owners, OwnerExit, Connects, Connect, Deadlines, SetRoomDeadline,
             Drains, SetDraining, TimersFire, ExpireTimer, LoseTimer, envVars, vars
    <3>3. now \in Nat /\ refused \in Nat
      OBVIOUS
    <3> QED BY ONLY <3>1, <3>2, <3>3
  <2>3. draining' \in BOOLEAN
    <3>1. DrainRequests \subseteq BOOLEAN
      BY ConstantsOK
    <3> QED BY <3>1 DEF Outside, Tick, Owners, OwnerExit, Connects, Connect, Deadlines,
                       SetRoomDeadline, Drains, SetDraining, TimersFire, ExpireTimer,
                       LoseTimer, envVars, vars
  <2>4. disturbed' \in BOOLEAN
    <3>1. CASE Deadlines
      BY <3>1 DEF Deadlines, SetRoomDeadline
    <3>2. CASE TimersFire
      BY <3>2 DEF TimersFire, ExpireTimer, LoseTimer, envVars
    <3>3. CASE ~Deadlines /\ ~TimersFire
      BY <3>3 DEF Outside, Tick, Owners, OwnerExit, Connects, Connect, Drains, SetDraining,
                  envVars, vars
    <3> QED BY <3>1, <3>2, <3>3
  <2> QED BY <2>1, <2>2, <2>3, <2>4
<1>2. CASE EdgeSteps
  <2>1. UNCHANGED envVars
    BY <1>2 DEF EdgeSteps, Inserts, Takes, InsertEdge, TakeEdge, ActivateBucket, IndexEdge,
                CountEdge, UnindexEdge, DeactivateBucket, UncountEdge, Reconcile, envVars
  <2> QED BY <1>0, <2>1 DEF envVars, EnvTyped
<1>3. CASE BetweenEdges
  <2>1. UNCHANGED envVars
    BY <1>3 DEF BetweenEdges, Keeps, Refuses, KeepEdge, RefuseEdge, InitializeMetadata,
                ConsumeGrace, ReserveSnapshot, StoreSnapshot, ReserveGrace, StoreGrace,
                FinishCleanup, CreateResumed, RestoreEdges, GiveSnapshotSlot, ForgetRoom,
                ForgetGrace, GiveGraceSlots, EndRequest, envVars
  <2> QED BY <1>0, <2>1 DEF envVars, EnvTyped
<1>4. CASE Started \/ Ended \/ Resumed \/ SnapMail \/ GraceMail
  <2>1. UNCHANGED envVars
    BY <1>4 DEF Started, Start, AddMany, RemoveMany, Sync, JoinWithMetadata, ResumeRoom,
                Ended, BeginCleanup, Resumed, Resume, SnapMail, ExpireSnapshot, GraceMail,
                ExpireGrace, envVars
  <2> QED BY <1>0, <2>1 DEF envVars, EnvTyped
<1>5. CASE RoomMail
  BY <1>0, <1>5 DEF RoomMail, ExpireRoom, EnvTyped
<1>6. CASE Crash
  BY <1>0, <1>6 DEF Crash, EnvTyped
<1> QED BY <1>1, <1>2, <1>3, <1>4, <1>5, <1>6, Sorted DEF TakenUp

(* What each step makes of Runtime's request, field by field.              *)
Becomes(pc, op, cur, todo, added, after) ==
  /\ rt' \in RtType
  /\ rt'.pc = pc /\ rt'.op = op /\ rt'.cur = cur /\ rt'.todo = todo
  /\ rt'.added = added /\ rt'.after = after
  /\ rt'.s = rt.s /\ rt'.k = rt.k /\ rt'.old = rt.old
  /\ rt'.before = rt.before /\ rt'.desired = rt.desired
GoesTo(pc)   == Becomes(pc, rt.op, rt.cur, rt.todo, rt.added, rt.after)
Passes(e)    == Becomes("next", rt.op, rt.cur, rt.todo \ {e}, rt.added, rt.after)
Begins(pc, op, s, cur, todo, old) ==
  /\ rt' \in RtType
  /\ rt'.pc = pc /\ rt'.op = op /\ rt'.s = s /\ rt'.cur = cur
  /\ rt'.todo = todo /\ rt'.old = old
EndsUp == rt' = Ready

EdgeMoves ==
  /\ \A e \in rt.todo :
       InsertEdge(e) => Becomes("activate", rt.op, e, rt.todo, rt.added, rt.after)
  /\ ActivateBucket => GoesTo("index")
  /\ IndexEdge => GoesTo("count")
  /\ \A e \in rt.todo :
       TakeEdge(e) => IF e \in edges
                      THEN Becomes("unindex", rt.op, e, rt.todo, rt.added, rt.after)
                      ELSE Passes(e)
  /\ UnindexEdge => GoesTo("deactivate")
  /\ DeactivateBucket => GoesTo("uncount")
  /\ UncountEdge => IF rt.op = "cleanup" /\ rt.cur[2] \in Rooms /\ ~rt.slow
                    THEN GoesTo("grace") ELSE Passes(rt.cur)

(* After an edge is there.                                                 *)
Added(e, A) ==
  IF rt.op = "join" THEN Becomes("metadata", rt.op, e, rt.todo, A, rt.after)
  ELSE IF rt.op = "resume" /\ e[2] \in Rooms
       THEN Becomes("consume", rt.op, e, rt.todo, A, rt.after)
       ELSE Becomes("next", rt.op, e, rt.todo \ {e}, A, rt.after)
AddMoves ==
  /\ CountEdge => Added(rt.cur, IF rt.op = "sync" THEN rt.added \cup {rt.cur} ELSE rt.added)
  /\ \A e \in rt.todo :
       KeepEdge(e) => IF rt.op = "resume" THEN Added(e, rt.added) ELSE Passes(e)

BetweenMoves ==
  /\ \A e \in rt.todo :
       RefuseEdge(e) => IF rt.op = "sync"
                        THEN Becomes("next", "rollback", rt.cur, rt.added, {}, {})
                        ELSE Passes(e)
  /\ InitializeMetadata =>
       EndsUp \/ Becomes("next", "remove", rt.cur, rt.todo, rt.added, rt.after)
  /\ ConsumeGrace => Passes(rt.cur)
  /\ EndRequest => IF rt.op = "sync" /\ rt.after # {}
                   THEN Becomes("next", "trim", rt.cur, rt.after, rt.added, {})
                   ELSE EndsUp
  /\ ReserveSnapshot =>
       \/ GoesTo("snap_insert")
       \/ Becomes("next", rt.op, rt.cur, ReverseOf(rt.s, Kinds), rt.added, rt.after)
  /\ StoreSnapshot =>
       Becomes("next", rt.op, rt.cur, ReverseOf(rt.s, Kinds), rt.added, rt.after)
  /\ ReserveGrace => GoesTo("grace_insert") \/ Passes(rt.cur)
  /\ StoreGrace => Passes(rt.cur)
  /\ FinishCleanup \/ GiveSnapshotSlot \/ GiveGraceSlots => EndsUp
  /\ CreateResumed => GoesTo("restore") \/ EndsUp
  /\ RestoreEdges => GoesTo("next")
  /\ ForgetRoom => GoesTo("forget_grace")
  /\ ForgetGrace => GoesTo("give_grace")

(* What an assignment to some fields of the request is, whatever the step. *)
LEMMA RtGoes ==
  ASSUME rt \in RtType, NEW pc \in Pcs, rt' = [rt EXCEPT !.pc = pc]
  PROVE  GoesTo(pc)
  BY DEF GoesTo, Becomes, RtType

LEMMA RtTakes ==
  ASSUME rt \in RtType, NEW pc \in Pcs, NEW e \in Edges, rt' = [rt EXCEPT !.pc = pc, !.cur = e]
  PROVE  Becomes(pc, rt.op, e, rt.todo, rt.added, rt.after)
  BY DEF Becomes, RtType

LEMMA RtLists ==
  ASSUME rt \in RtType, NEW pc \in Pcs, NEW T \in SUBSET Edges,
         rt' = [rt EXCEPT !.pc = pc, !.todo = T]
  PROVE  Becomes(pc, rt.op, rt.cur, T, rt.added, rt.after)
  BY DEF Becomes, RtType

LEMMA RtTurns ==
  ASSUME rt \in RtType, NEW op \in Ops, NEW T \in SUBSET Edges
  PROVE  /\ rt' = [rt EXCEPT !.op = op, !.todo = T, !.after = {}] =>
              Becomes(rt.pc, op, rt.cur, T, rt.added, {})
         /\ rt' = [rt EXCEPT !.op = op, !.todo = T, !.after = {}, !.added = {}] =>
              Becomes(rt.pc, op, rt.cur, T, {}, {})
<1>1. ASSUME rt' = [rt EXCEPT !.op = op, !.todo = T, !.after = {}]
      PROVE  Becomes(rt.pc, op, rt.cur, T, rt.added, {})
  BY <1>1 DEF Becomes, RtType
<1>2. ASSUME rt' = [rt EXCEPT !.op = op, !.todo = T, !.after = {}, !.added = {}]
      PROVE  Becomes(rt.pc, op, rt.cur, T, {}, {})
  BY <1>2 DEF Becomes, RtType
<1> QED BY <1>1, <1>2

LEMMA PassesHold ==
  ASSUME rt \in RtType, NEW e,
         \/ rt' = [rt EXCEPT !.pc = "next", !.todo = @ \ {e}]
         \/ RtIs("next") /\ rt' = [rt EXCEPT !.todo = @ \ {e}]
  PROVE  Passes(e)
<1> DEFINE T == rt.todo \ {e}
<1>1. T \in SUBSET Edges
  BY DEF RtType
<1>2. CASE rt' = [rt EXCEPT !.pc = "next", !.todo = @ \ {e}]
  <2>1. rt' = [rt EXCEPT !.pc = "next", !.todo = T]
    BY <1>2 DEF RtType
  <2> HIDE DEF T
  <2>2. "next" \in Pcs
    BY DEF Pcs
  <2>3. Becomes("next", rt.op, rt.cur, T, rt.added, rt.after)
    BY ONLY <1>1, <2>1, <2>2, rt \in RtType, RtLists
  <2> QED BY ONLY <2>3 DEF Passes, T
<1>3. CASE RtIs("next") /\ rt' = [rt EXCEPT !.todo = @ \ {e}]
  <2>1. rt' = [rt EXCEPT !.todo = T]
    BY <1>3 DEF RtType
  <2> HIDE DEF T
  <2>2. Becomes("next", rt.op, rt.cur, T, rt.added, rt.after)
    BY <1>1, <1>3, <2>1 DEF Becomes, RtType, Pcs, RtIs
  <2> QED BY <2>2 DEF Passes, T
<1> QED BY <1>2, <1>3

LEMMA EdgeMovesHold == Typed => EdgeMoves
<1> SUFFICES ASSUME Typed PROVE EdgeMoves
  OBVIOUS
<1>0. rt \in RtType /\ \A e \in rt.todo : e \in Edges
  BY TypedParts DEF RtTyped, RtType
<1>p. /\ "activate" \in Pcs /\ "index" \in Pcs /\ "count" \in Pcs /\ "unindex" \in Pcs
      /\ "deactivate" \in Pcs /\ "uncount" \in Pcs /\ "grace" \in Pcs
  BY DEF Pcs
<1> USE <1>0, <1>p DEF Goto
<1>1. ASSUME NEW e \in rt.todo, InsertEdge(e)
      PROVE  Becomes("activate", rt.op, e, rt.todo, rt.added, rt.after)
  <2>1. rt' = [rt EXCEPT !.pc = "activate", !.cur = e]
    BY ONLY <1>1 DEF InsertEdge
  <2> QED BY ONLY <1>0, <1>p, <2>1, RtTakes
<1>2. ASSUME ActivateBucket PROVE GoesTo("index")
  BY ONLY <1>0, <1>p, <1>2, RtGoes DEF ActivateBucket, Goto
<1>3. ASSUME IndexEdge PROVE GoesTo("count")
  BY ONLY <1>0, <1>p, <1>3, RtGoes DEF IndexEdge, Goto
<1>4. ASSUME NEW e \in rt.todo, TakeEdge(e)
      PROVE IF e \in edges THEN Becomes("unindex", rt.op, e, rt.todo, rt.added, rt.after)
                           ELSE Passes(e)
  <2>1. CASE e \in edges
    <3>1. rt' = [rt EXCEPT !.pc = "unindex", !.cur = e]
      BY ONLY <1>4, <2>1 DEF TakeEdge
    <3> QED BY ONLY <1>0, <1>p, <2>1, <3>1, RtTakes
  <2>2. CASE e \notin edges
    <3>1. RtIs("next") /\ rt' = [rt EXCEPT !.todo = @ \ {e}]
      BY ONLY <1>4, <2>2 DEF TakeEdge
    <3>2. Passes(e)
      BY ONLY <1>0, <3>1, PassesHold
    <3> QED BY ONLY <2>2, <3>2
  <2> QED BY <2>1, <2>2
<1>5. ASSUME UnindexEdge PROVE GoesTo("deactivate")
  BY ONLY <1>0, <1>p, <1>5, RtGoes DEF UnindexEdge, Goto
<1>6. ASSUME DeactivateBucket PROVE GoesTo("uncount")
  BY ONLY <1>0, <1>p, <1>6, RtGoes DEF DeactivateBucket, Goto
<1>7. ASSUME UncountEdge
      PROVE  IF rt.op = "cleanup" /\ rt.cur[2] \in Rooms /\ ~rt.slow
             THEN GoesTo("grace") ELSE Passes(rt.cur)
  <2>1. CASE rt.op = "cleanup" /\ rt.cur[2] \in Rooms /\ ~rt.slow
    <3>1. rt' = [rt EXCEPT !.pc = "grace"]
      BY ONLY <1>7, <2>1 DEF UncountEdge
    <3>2. GoesTo("grace")
      BY ONLY <1>0, <1>p, <3>1, RtGoes
    <3> QED BY ONLY <2>1, <3>2
  <2>2. CASE ~(rt.op = "cleanup" /\ rt.cur[2] \in Rooms /\ ~rt.slow)
    <3>1. rt' = [rt EXCEPT !.pc = "next", !.todo = @ \ {rt.cur}]
      BY ONLY <1>7, <2>2 DEF UncountEdge
    <3>2. Passes(rt.cur)
      BY ONLY <1>0, <3>1, PassesHold
    <3> QED BY ONLY <2>2, <3>2
  <2> QED BY <2>1, <2>2
<1> QED BY ONLY <1>1, <1>2, <1>3, <1>4, <1>5, <1>6, <1>7 DEF EdgeMoves

LEMMA AddMovesHold == Typed => AddMoves
<1> SUFFICES ASSUME Typed PROVE AddMoves
  OBVIOUS
<1>0. rt \in RtType /\ \A e \in rt.todo : e \in Edges
  BY TypedParts DEF RtTyped, RtType
<1>1. ASSUME NEW e \in Edges, NEW A \in SUBSET Edges,
             rt' = AfterAdd([rt EXCEPT !.cur = e, !.added = A], e)
      PROVE  Added(e, A)
  <2> DEFINE r == [rt EXCEPT !.cur = e, !.added = A]
             T == rt.todo \ {e}
  <2>1. /\ r \in RtType /\ T \in SUBSET Edges
        /\ r.op = rt.op /\ r.todo = rt.todo /\ r.cur = e /\ r.added = A /\ r.after = rt.after
        /\ r.s = rt.s /\ r.k = rt.k /\ r.old = rt.old
        /\ r.before = rt.before /\ r.desired = rt.desired
    BY <1>0 DEF RtType
  <2>2. rt' = IF r.op = "join" THEN [r EXCEPT !.pc = "metadata"]
              ELSE IF r.op = "resume" /\ e[2] \in Rooms THEN [r EXCEPT !.pc = "consume"]
              ELSE [r EXCEPT !.pc = "next", !.todo = T]
    BY <1>1, <2>1 DEF AfterAdd, RtType
  <2> HIDE DEF r, T
  <2>3. CASE rt.op = "join"
    BY <2>1, <2>2, <2>3 DEF Added, Becomes, RtType, Pcs
  <2>4. CASE rt.op # "join" /\ rt.op = "resume" /\ e[2] \in Rooms
    BY <2>1, <2>2, <2>4 DEF Added, Becomes, RtType, Pcs
  <2>5. CASE rt.op # "join" /\ ~(rt.op = "resume" /\ e[2] \in Rooms)
    <3>1. rt' = [r EXCEPT !.pc = "next", !.todo = T]
      BY <2>1, <2>2, <2>5
    <3>2. Becomes("next", rt.op, e, T, A, rt.after)
      <4>1. rt' \in RtType /\ rt'.pc = "next" /\ rt'.todo = T
        <5>1. "next" \in Pcs
          BY DEF Pcs
        <5> QED BY ONLY <2>1, <3>1, <5>1 DEF RtType
      <4>2. /\ rt'.op = r.op /\ rt'.cur = r.cur /\ rt'.added = r.added /\ rt'.after = r.after
            /\ rt'.s = r.s /\ rt'.k = r.k /\ rt'.old = r.old
            /\ rt'.before = r.before /\ rt'.desired = r.desired
        BY ONLY <2>1, <3>1 DEF RtType
      <4> QED BY ONLY <2>1, <4>1, <4>2 DEF Becomes
    <3> QED BY <2>5, <3>2 DEF Added, T
  <2> QED BY <2>3, <2>4, <2>5
<1>2. ASSUME CountEdge
      PROVE  Added(rt.cur, IF rt.op = "sync" THEN rt.added \cup {rt.cur} ELSE rt.added)
  <2> DEFINE A == IF rt.op = "sync" THEN rt.added \cup {rt.cur} ELSE rt.added
  <2>1. rt.cur \in Edges /\ A \in SUBSET Edges
    <3>1. rt.cur \in Edges
      BY <1>2, TypedParts DEF CountEdge, RtTyped, RtIs, EdgePcs
    <3> QED BY <1>0, <3>1 DEF RtType
  <2>2. [rt EXCEPT !.cur = rt.cur, !.added = A]
          = [rt EXCEPT !.added = IF rt.op = "sync" THEN @ \cup {rt.cur} ELSE @]
    BY <1>0 DEF RtType
  <2>3. rt' = AfterAdd([rt EXCEPT !.cur = rt.cur, !.added = A], rt.cur)
    BY <1>2, <2>2 DEF CountEdge
  <2> HIDE DEF A
  <2>4. Added(rt.cur, A)
    BY <1>1, <2>1, <2>3
  <2> QED BY <2>4 DEF A
<1>3. ASSUME NEW e \in rt.todo, KeepEdge(e)
      PROVE  IF rt.op = "resume" THEN Added(e, rt.added) ELSE Passes(e)
  <2>1. [rt EXCEPT !.cur = e, !.added = rt.added] = [rt EXCEPT !.cur = e]
    BY <1>0 DEF RtType
  <2>2. rt.op = "resume" => rt' = AfterAdd([rt EXCEPT !.cur = e, !.added = rt.added], e)
    BY <1>3, <2>1 DEF KeepEdge
  <2>3. e \in Edges /\ rt.added \in SUBSET Edges
    BY <1>0 DEF RtType
  <2>4. rt.op = "resume" => Added(e, rt.added)
    BY <1>1, <2>2, <2>3
  <2>5. rt.op # "resume" => Passes(e)
    BY <1>0, <1>3, PassesHold DEF KeepEdge
  <2> QED BY <2>4, <2>5
<1> QED BY <1>2, <1>3 DEF AddMoves

LEMMA BetweenMovesHold == Typed => BetweenMoves
<1> SUFFICES ASSUME Typed PROVE BetweenMoves
  OBVIOUS
<1>0. /\ rt \in RtType /\ ReverseOf(rt.s, Kinds) \in SUBSET Edges
      /\ Cardinality({key \in DOMAIN grace : key[2] = rt.cur[2]}) \in Nat
  <2>1. DOMAIN grace \subseteq Edges /\ reverse \subseteq Edges
    BY TypedParts, RoomsAreItems DEF GraceTyped, EdgesTyped
  <2> QED BY <2>1, TypedParts, FiniteEdges DEF RtTyped, ReverseOf
<1>p. /\ "next" \in Pcs /\ "snap_insert" \in Pcs /\ "grace_insert" \in Pcs /\ "restore" \in Pcs
      /\ "forget_grace" \in Pcs /\ "give_grace" \in Pcs
      /\ "rollback" \in Ops /\ "trim" \in Ops /\ "remove" \in Ops
  BY DEF Pcs, Ops
<1>1. ASSUME NEW e \in rt.todo, RefuseEdge(e)
      PROVE  IF rt.op = "sync" THEN Becomes("next", "rollback", rt.cur, rt.added, {}, {})
                               ELSE Passes(e)
  <2>1. CASE rt.op = "sync"
    <3>1. /\ RtIs("next")
          /\ rt' = [rt EXCEPT !.op = "rollback", !.todo = rt.added, !.after = {}, !.added = {}]
      BY ONLY <1>1, <2>1 DEF RefuseEdge
    <3>2. rt.added \in SUBSET Edges /\ rt.pc = "next"
      BY ONLY <1>0, <3>1 DEF RtType, RtIs
    <3>3. Becomes(rt.pc, "rollback", rt.cur, rt.added, {}, {})
      BY ONLY <1>0, <1>p, <3>1, <3>2, RtTurns
    <3> QED BY ONLY <2>1, <3>2, <3>3
  <2>2. CASE rt.op # "sync"
    <3>1. RtIs("next") /\ rt' = [rt EXCEPT !.todo = @ \ {e}]
      BY ONLY <1>1, <2>2 DEF RefuseEdge
    <3>2. Passes(e)
      BY ONLY <1>0, <3>1, PassesHold
    <3> QED BY ONLY <2>2, <3>2
  <2> QED BY <2>1, <2>2
<1>2. InitializeMetadata =>
        EndsUp \/ Becomes("next", "remove", rt.cur, rt.todo, rt.added, rt.after)
  <2>1. ASSUME InitializeMetadata
        PROVE  rt' = Ready \/ rt' = [rt EXCEPT !.op = "remove", !.pc = "next"]
    BY ONLY <2>1 DEF InitializeMetadata
  <2>2. ASSUME NEW op \in Ops, NEW pc \in Pcs, rt' = [rt EXCEPT !.op = op, !.pc = pc]
        PROVE  Becomes(pc, op, rt.cur, rt.todo, rt.added, rt.after)
    BY ONLY <1>0, <2>2 DEF Becomes, RtType
  <2> QED BY ONLY <1>p, <2>1, <2>2 DEF EndsUp
<1>3. ConsumeGrace => Passes(rt.cur)
  BY ONLY <1>0, PassesHold DEF ConsumeGrace
<1>4. EndRequest => IF rt.op = "sync" /\ rt.after # {}
                    THEN Becomes("next", "trim", rt.cur, rt.after, rt.added, {})
                    ELSE EndsUp
  <2>1. CASE rt.op = "sync" /\ rt.after # {}
    <3>1. ASSUME EndRequest
          PROVE  /\ RtIs("next")
                 /\ rt' = [rt EXCEPT !.op = "trim", !.todo = rt.after, !.after = {}]
      BY ONLY <2>1, <3>1 DEF EndRequest
    <3>2. rt.after \in SUBSET Edges
      BY ONLY <1>0 DEF RtType
    <3>3. ASSUME RtIs("next"),
                 rt' = [rt EXCEPT !.op = "trim", !.todo = rt.after, !.after = {}]
          PROVE  Becomes("next", "trim", rt.cur, rt.after, rt.added, {})
      <4>1. Becomes(rt.pc, "trim", rt.cur, rt.after, rt.added, {})
        BY ONLY <1>0, <1>p, <3>2, <3>3, RtTurns
      <4> QED BY ONLY <3>3, <4>1 DEF RtIs
    <3> QED BY ONLY <2>1, <3>1, <3>3
  <2>2. CASE ~(rt.op = "sync" /\ rt.after # {})
    BY ONLY <2>2 DEF EndRequest, EndsUp
  <2> QED BY ONLY <2>1, <2>2
<1>5. ReserveSnapshot =>
        \/ GoesTo("snap_insert")
        \/ Becomes("next", rt.op, rt.cur, ReverseOf(rt.s, Kinds), rt.added, rt.after)
  <2>1. ASSUME ReserveSnapshot
        PROVE  \/ rt' = [rt EXCEPT !.pc = "snap_insert"]
               \/ rt' = [rt EXCEPT !.pc = "next", !.todo = ReverseOf(rt.s, Kinds)]
    BY ONLY <2>1 DEF ReserveSnapshot
  <2>2. rt' = [rt EXCEPT !.pc = "snap_insert"] => GoesTo("snap_insert")
    BY ONLY <1>0, <1>p, RtGoes
  <2>3. rt' = [rt EXCEPT !.pc = "next", !.todo = ReverseOf(rt.s, Kinds)] =>
          Becomes("next", rt.op, rt.cur, ReverseOf(rt.s, Kinds), rt.added, rt.after)
    BY ONLY <1>0, <1>p, RtLists
  <2> QED BY ONLY <2>1, <2>2, <2>3
<1>6. StoreSnapshot =>
        Becomes("next", rt.op, rt.cur, ReverseOf(rt.s, Kinds), rt.added, rt.after)
  <2>1. StoreSnapshot => rt' = [rt EXCEPT !.pc = "next", !.todo = ReverseOf(rt.s, Kinds)]
    BY DEF StoreSnapshot
  <2> QED BY ONLY <1>0, <1>p, <2>1, RtLists
<1>7. ReserveGrace => GoesTo("grace_insert") \/ Passes(rt.cur)
  <2>1. ASSUME ReserveGrace
        PROVE  \/ rt' = [rt EXCEPT !.pc = "grace_insert"]
               \/ rt' = [rt EXCEPT !.pc = "next", !.todo = @ \ {rt.cur}]
    BY ONLY <2>1 DEF ReserveGrace, Goto
  <2>2. rt' = [rt EXCEPT !.pc = "grace_insert"] => GoesTo("grace_insert")
    BY ONLY <1>0, <1>p, RtGoes
  <2> QED BY ONLY <1>0, <2>1, <2>2, PassesHold
<1>8. StoreGrace => Passes(rt.cur)
  BY ONLY <1>0, PassesHold DEF StoreGrace
<1>9. FinishCleanup \/ GiveSnapshotSlot \/ GiveGraceSlots => EndsUp
  BY DEF FinishCleanup, GiveSnapshotSlot, GiveGraceSlots, EndsUp
<1>10. CreateResumed => GoesTo("restore") \/ EndsUp
  <2>1. CreateResumed => rt' = [rt EXCEPT !.pc = "restore"] \/ rt' = Ready
    BY DEF CreateResumed, Goto
  <2> QED BY ONLY <1>0, <1>p, <2>1, RtGoes DEF EndsUp
<1>11. RestoreEdges => GoesTo("next")
  BY ONLY <1>0, <1>p, RtGoes DEF RestoreEdges, Goto
<1>12. ForgetRoom => GoesTo("forget_grace")
  BY ONLY <1>0, <1>p, RtGoes DEF ForgetRoom, Goto
<1>13. ForgetGrace => GoesTo("give_grace")
  <2>1. ForgetGrace =>
          rt' = [rt EXCEPT !.pc = "give_grace",
                           !.n = Cardinality({key \in DOMAIN grace : key[2] = rt.cur[2]})]
    BY DEF ForgetGrace
  <2>2. ASSUME NEW n \in Nat, NEW pc \in Pcs, rt' = [rt EXCEPT !.pc = pc, !.n = n]
        PROVE  GoesTo(pc)
    BY ONLY <1>0, <2>2 DEF GoesTo, Becomes, RtType
  <2> QED BY ONLY <1>0, <1>p, <2>1, <2>2
<1> QED BY ONLY <1>1, <1>2, <1>3, <1>4, <1>5, <1>6, <1>7, <1>8, <1>9, <1>10, <1>11, <1>12,
                <1>13 DEF BetweenMoves

(* What a request is when it is taken up.                                  *)
StartMoves ==
  /\ \A s \in Sessions, X \in SUBSET Items :
       /\ AddMany(s, X) => Begins("next", "add", s, None, {s} \X X, None)
       /\ RemoveMany(s, X) => Begins("next", "remove", s, None, {s} \X X, None)
       /\ \A k \in Kinds : Sync(s, k, X) =>
            /\ Begins("next", "sync", s, None, ({s} \X X) \ ReverseOf(s, {k}), None)
            /\ rt'.k = k /\ rt'.before = EdgesOf(s, {k}) /\ rt'.desired = {s} \X X
            /\ rt'.after = ReverseOf(s, {k}) \ ({s} \X X) /\ rt'.added = {}
  /\ \A s \in Sessions, r \in Rooms :
       /\ JoinWithMetadata(s, r) => Begins("next", "join", s, None, {<<s, r>>}, None)
       /\ \A old \in Sessions :
            ResumeRoom(old, s, r) => Begins("next", "resume", s, None, {<<s, r>>}, old)
  /\ \A s \in Sessions, b \in BOOLEAN :
       BeginCleanup(s, b) => Begins("snapshot", "cleanup", s, None, {}, None)
  /\ \A old, s \in Sessions :
       Resume(old, s) => Begins("create", "resume", s, None, {s} \X snapshots[old].items, old)
  /\ \A s, d : ExpireSnapshot(s, d) =>
       UNCHANGED rt \/ Begins("give_snap", "none", None, None, {}, None)
  /\ \A s, r, d : ExpireGrace(s, r, d) =>
       UNCHANGED rt \/ Begins("give_grace", "none", None, None, {}, None)
  /\ \A r, d : ExpireRoom(r, d) =>
       \/ UNCHANGED rt
       \/ r \in Rooms /\ Begins("next", "expire", None, <<None, r>>, Reached(r), None)

LEMMA StartMovesHold == Typed => StartMoves
<1> SUFFICES ASSUME Typed PROVE StartMoves
  OBVIOUS
<1>0. /\ \A s \in DOMAIN snapshots : s \in Sessions /\ snapshots[s].items \in SUBSET Items
                                     /\ snapshots[s].expires \in Nat
      /\ DOMAIN roomState \subseteq Rooms
      /\ edges \in SUBSET Edges /\ reverse \in SUBSET Edges /\ fan \in SUBSET Edges
  BY TypedParts DEF SnapTyped, SnapRow, RoomTyped, EdgesTyped
<1> USE DEF Begins, RtType, Pcs, Ops, Ready, Start
<1>1. ASSUME NEW s \in Sessions, NEW X \in SUBSET Items
      PROVE  {s} \X X \in SUBSET Edges
  BY <1>1 DEF Edges
<1>2. ASSUME NEW s \in Sessions, NEW X \in SUBSET Items
      PROVE  /\ AddMany(s, X) => Begins("next", "add", s, None, {s} \X X, None)
             /\ RemoveMany(s, X) => Begins("next", "remove", s, None, {s} \X X, None)
  <2> DEFINE T == {s} \X X
  <2>1. T \in SUBSET Edges
    BY <1>1
  <2>2. AddMany(s, X) =>
          rt' = [Ready EXCEPT !.pc = "next", !.op = "add", !.s = s, !.todo = T]
    BY DEF AddMany
  <2>3. RemoveMany(s, X) =>
          rt' = [Ready EXCEPT !.pc = "next", !.op = "remove", !.s = s, !.todo = T]
    BY DEF RemoveMany
  <2> HIDE DEF T
  <2>4. ASSUME rt' = [Ready EXCEPT !.pc = "next", !.op = "add", !.s = s, !.todo = T]
        PROVE  Begins("next", "add", s, None, T, None)
    BY <2>1, <2>4
  <2>5. ASSUME rt' = [Ready EXCEPT !.pc = "next", !.op = "remove", !.s = s, !.todo = T]
        PROVE  Begins("next", "remove", s, None, T, None)
    BY <2>1, <2>5
  <2> QED BY ONLY <2>2, <2>3, <2>4, <2>5 DEF T
<1>3. ASSUME NEW s \in Sessions, NEW X \in SUBSET Items, NEW k \in Kinds, Sync(s, k, X)
      PROVE  /\ Begins("next", "sync", s, None, ({s} \X X) \ ReverseOf(s, {k}), None)
             /\ rt'.k = k /\ rt'.before = EdgesOf(s, {k}) /\ rt'.desired = {s} \X X
             /\ rt'.after = ReverseOf(s, {k}) \ ({s} \X X) /\ rt'.added = {}
  <2> DEFINE W == {s} \X X  C == ReverseOf(s, {k})  B == EdgesOf(s, {k})
             T == W \ C  D == C \ W
  <2>1. W \in SUBSET Edges /\ T \in SUBSET Edges /\ D \in SUBSET Edges /\ B \in SUBSET Edges
    <3>1. C \in SUBSET Edges /\ B \in SUBSET Edges
      BY <1>0 DEF ReverseOf, EdgesOf
    <3> QED BY <1>1, <3>1
  <2>2. rt' = [Ready EXCEPT !.pc = "next", !.op = "sync", !.s = s, !.k = k, !.todo = T,
                            !.after = D, !.before = B, !.desired = W]
    BY <1>3 DEF Sync
  <2> HIDE DEF W, C, B, T, D
  <2>3. /\ Begins("next", "sync", s, None, T, None)
        /\ rt'.k = k /\ rt'.before = B /\ rt'.desired = W /\ rt'.after = D /\ rt'.added = {}
    BY <2>1, <2>2
  <2> QED BY ONLY <2>3 DEF W, C, B, T, D
<1>4. ASSUME NEW s \in Sessions, NEW r \in Rooms
      PROVE  /\ JoinWithMetadata(s, r) => Begins("next", "join", s, None, {<<s, r>>}, None)
             /\ \A old \in Sessions :
                  ResumeRoom(old, s, r) => Begins("next", "resume", s, None, {<<s, r>>}, old)
  <2> DEFINE T == {<<s, r>>}
  <2>1. T \in SUBSET Edges
    BY RoomsAreItems DEF RoomEdges
  <2>2. JoinWithMetadata(s, r) =>
          rt' = [Ready EXCEPT !.pc = "next", !.op = "join", !.s = s, !.todo = T]
    BY DEF JoinWithMetadata
  <2>3. \A old \in Sessions : ResumeRoom(old, s, r) =>
          rt' = [Ready EXCEPT !.pc = "next", !.op = "resume", !.s = s, !.old = old, !.todo = T]
    BY DEF ResumeRoom
  <2> HIDE DEF T
  <2>4. ASSUME rt' = [Ready EXCEPT !.pc = "next", !.op = "join", !.s = s, !.todo = T]
        PROVE  Begins("next", "join", s, None, T, None)
    BY <2>1, <2>4
  <2>5. ASSUME NEW old \in Sessions,
               rt' = [Ready EXCEPT !.pc = "next", !.op = "resume", !.s = s, !.old = old,
                                   !.todo = T]
        PROVE  Begins("next", "resume", s, None, T, old)
    BY <2>1, <2>5
  <2> QED BY ONLY <2>2, <2>3, <2>4, <2>5 DEF T
<1>5. ASSUME NEW s \in Sessions, NEW b \in BOOLEAN, BeginCleanup(s, b)
      PROVE  Begins("snapshot", "cleanup", s, None, {}, None)
  BY <1>5 DEF BeginCleanup
<1>6. ASSUME NEW old \in Sessions, NEW s \in Sessions, Resume(old, s)
      PROVE  Begins("create", "resume", s, None, {s} \X snapshots[old].items, old)
  <2> DEFINE T == {s} \X snapshots[old].items  d == snapshots[old].expires
  <2>1. T \in SUBSET Edges /\ d \in Nat
    BY <1>0, <1>1, <1>6 DEF Resume
  <2>2. rt' = [Ready EXCEPT !.pc = "create", !.op = "resume", !.s = s, !.old = old,
                            !.todo = T, !.n = d]
    BY <1>6 DEF Resume
  <2> HIDE DEF T, d
  <2>3. Begins("create", "resume", s, None, T, old)
    BY <2>1, <2>2
  <2> QED BY ONLY <2>3 DEF T
<1>7. ASSUME NEW s, NEW d, ExpireSnapshot(s, d)
      PROVE  UNCHANGED rt \/ Begins("give_snap", "none", None, None, {}, None)
  BY <1>7 DEF ExpireSnapshot
<1>8. ASSUME NEW s, NEW r, NEW d, ExpireGrace(s, r, d)
      PROVE  UNCHANGED rt \/ Begins("give_grace", "none", None, None, {}, None)
  BY <1>8 DEF ExpireGrace
<1>9. ASSUME NEW r, NEW d, ExpireRoom(r, d)
      PROVE  \/ UNCHANGED rt
             \/ r \in Rooms /\ Begins("next", "expire", None, <<None, r>>, Reached(r), None)
  <2> DEFINE T == Reached(r)  c == <<None, r>>
  <2>1. \/ UNCHANGED rt
        \/ r \in Rooms /\ rt' = [Ready EXCEPT !.pc = "next", !.op = "expire", !.cur = c, !.todo = T]
    BY <1>0, <1>9 DEF ExpireRoom
  <2>2. T \in SUBSET Edges
    BY <1>0 DEF Reached
  <2>3. r \in Rooms => c \in Edges \cup {None} \cup ({None} \X Rooms)
    OBVIOUS
  <2> HIDE DEF T, c
  <2>4. ASSUME r \in Rooms,
               rt' = [Ready EXCEPT !.pc = "next", !.op = "expire", !.cur = c, !.todo = T]
        PROVE  Begins("next", "expire", None, c, T, None)
    BY <2>2, <2>3, <2>4
  <2> QED BY ONLY <2>1, <2>4 DEF T, c
<1>10. ASSUME NEW s \in Sessions, NEW X \in SUBSET Items
       PROVE  /\ AddMany(s, X) => Begins("next", "add", s, None, {s} \X X, None)
              /\ RemoveMany(s, X) => Begins("next", "remove", s, None, {s} \X X, None)
              /\ \A k \in Kinds : Sync(s, k, X) =>
                   /\ Begins("next", "sync", s, None, ({s} \X X) \ ReverseOf(s, {k}), None)
                   /\ rt'.k = k /\ rt'.before = EdgesOf(s, {k}) /\ rt'.desired = {s} \X X
                   /\ rt'.after = ReverseOf(s, {k}) \ ({s} \X X) /\ rt'.added = {}
  BY ONLY <1>2, <1>3, Zenon
<1>11. \A s \in Sessions, r \in Rooms :
         /\ JoinWithMetadata(s, r) => Begins("next", "join", s, None, {<<s, r>>}, None)
         /\ \A old \in Sessions :
              ResumeRoom(old, s, r) => Begins("next", "resume", s, None, {<<s, r>>}, old)
  BY ONLY <1>4
<1>12. /\ \A s \in Sessions, b \in BOOLEAN :
            BeginCleanup(s, b) => Begins("snapshot", "cleanup", s, None, {}, None)
       /\ \A old, s \in Sessions :
            Resume(old, s) => Begins("create", "resume", s, None, {s} \X snapshots[old].items, old)
  BY ONLY <1>5, <1>6
<1> QED BY ONLY <1>7, <1>8, <1>9, <1>10, <1>11, <1>12, Zenon DEF StartMoves

LEMMA RtTypedNext ==
  ASSUME Typed, [Next]_vars
  PROVE  RtTyped'
<1>0. /\ RtTyped /\ reverse \in SUBSET Edges /\ fan \in SUBSET Edges
      /\ EdgeMoves /\ AddMoves /\ BetweenMoves /\ StartMoves
      /\ \A e \in rt.todo : e \in Edges
  BY TypedParts, EdgeMovesHold, AddMovesHold, BetweenMovesHold, StartMovesHold
     DEF EdgesTyped, RtTyped, RtType
<1>1. CASE UNCHANGED rt
  BY <1>0, <1>1 DEF RtTyped, OpOfPc, CurOfPc, RtIs, Adding, Removing
<1> USE DEF RtTyped, OpOfPc, CurOfPc, RtIs, Adding, Removing, EdgePcs, UnedgePcs, GracePcs
<1>r. CASE EndsUp
  BY <1>r DEF EndsUp, Ready, RtType, Pcs, Ops
<1>2. CASE Outside
  <2>1. UNCHANGED rt
    BY ONLY <1>2 DEF Outside, Tick, Owners, OwnerExit, Connects, Connect, Deadlines,
                     SetRoomDeadline, Drains, SetDraining, TimersFire, ExpireTimer,
                     LoseTimer, vars
  <2> QED BY <1>1, <2>1
<1>3. CASE Started
  <2>1. PICK s \in Sessions :
          \/ \E X \in SUBSET Items : AddMany(s, X) \/ RemoveMany(s, X)
          \/ \E k \in Kinds, X \in SUBSET Items : Sync(s, k, X)
          \/ \E r \in Rooms : JoinWithMetadata(s, r)
          \/ \E old \in Sessions, r \in Rooms : ResumeRoom(old, s, r)
    BY <1>3 DEF Started
  <2>2. ASSUME NEW X \in SUBSET Items, AddMany(s, X) \/ RemoveMany(s, X) PROVE RtTyped'
    <3>1. \E op \in {"add", "remove"} : Begins("next", op, s, None, {s} \X X, None)
      BY ONLY <1>0, <2>2 DEF StartMoves
    <3> QED BY <3>1 DEF Begins
  <2>3. ASSUME NEW k \in Kinds, NEW X \in SUBSET Items, Sync(s, k, X) PROVE RtTyped'
    <3>1. Begins("next", "sync", s, None, ({s} \X X) \ ReverseOf(s, {k}), None)
      BY ONLY <1>0, <2>3 DEF StartMoves
    <3> QED BY <3>1 DEF Begins
  <2>4. ASSUME NEW r \in Rooms, JoinWithMetadata(s, r) PROVE RtTyped'
    <3>1. Begins("next", "join", s, None, {<<s, r>>}, None)
      BY ONLY <1>0, <2>4 DEF StartMoves
    <3>2. {<<s, r>>} \subseteq RoomEdges
      BY DEF RoomEdges
    <3> QED BY <3>1, <3>2 DEF Begins
  <2>5. ASSUME NEW old \in Sessions, NEW r \in Rooms, ResumeRoom(old, s, r) PROVE RtTyped'
    <3>1. Begins("next", "resume", s, None, {<<s, r>>}, old)
      BY ONLY <1>0, <2>5 DEF StartMoves
    <3> QED BY <3>1 DEF Begins
  <2> QED BY ONLY <2>1, <2>2, <2>3, <2>4, <2>5
<1>4. CASE Ended
  <2>1. \E s \in Sessions : Begins("snapshot", "cleanup", s, None, {}, None)
    BY ONLY <1>0, <1>4 DEF Ended, StartMoves
  <2> QED BY ONLY <2>1 DEF Begins, RtTyped, OpOfPc, CurOfPc, RtIs, Adding,
               Removing, EdgePcs, UnedgePcs, GracePcs
<1>5. CASE Resumed
  <2>1. PICK old, s \in Sessions : Resume(old, s)
    BY <1>5 DEF Resumed
  <2>2. Begins("create", "resume", s, None, {s} \X snapshots[old].items, old)
    BY ONLY <1>0, <2>1 DEF StartMoves
  <2> QED BY <2>2 DEF Begins
<1>6. CASE SnapMail \/ GraceMail
  <2>1. UNCHANGED rt \/ \E pc \in {"give_snap", "give_grace"} :
                          Begins(pc, "none", None, None, {}, None)
    BY ONLY <1>0, <1>6 DEF SnapMail, GraceMail, StartMoves
  <2> QED BY <1>1, <2>1 DEF Begins
<1>7. CASE RoomMail
  <2>1. UNCHANGED rt \/ \E r \in Rooms :
                          Begins("next", "expire", None, <<None, r>>, Reached(r), None)
    BY ONLY <1>0, <1>7 DEF RoomMail, StartMoves
  <2>2. ASSUME NEW r \in Rooms, Begins("next", "expire", None, <<None, r>>, Reached(r), None)
        PROVE  RtTyped'
    <3>1. \A e \in Reached(r) : e[2] = r
      BY DEF Reached
    <3>2. /\ rt' \in RtType /\ rt'.pc = "next" /\ rt'.op = "expire"
          /\ rt'.cur = <<None, r>> /\ rt'.todo = Reached(r)
      BY ONLY <2>2 DEF Begins
    <3>3. rt'.cur \in (Sessions \cup {None}) \X Rooms /\ rt'.cur[2] = r
      BY <3>2
    <3> QED BY <3>1, <3>2, <3>3
  <2> QED BY <1>1, <2>1, <2>2
<1>8. CASE Crash
  <2>1. rt' = [Ready EXCEPT !.pc = "down"]
    BY <1>8 DEF Crash
  <2>2. /\ rt'.pc = "down" /\ rt'.op = "none" /\ rt'.todo = {} /\ rt' \in RtType
    BY <2>1 DEF Ready, RtType, Pcs, Ops
  <2> QED BY ONLY <2>1, <2>2 DEF RtTyped, OpOfPc, CurOfPc, RtIs, EdgePcs, UnedgePcs, GracePcs
<1>9. CASE Reconcile
  BY <1>9, <1>r DEF Reconcile, EndsUp
<1>10. CASE Inserts
  <2>1. PICK e \in rt.todo : Becomes("activate", rt.op, e, rt.todo, rt.added, rt.after)
    BY ONLY <1>0, <1>10 DEF Inserts, EdgeMoves
  <2>2. rt.pc = "next" /\ Adding
    BY <1>10 DEF Inserts, InsertEdge
  <2> QED BY <1>0, <2>1, <2>2 DEF Becomes
<1>11. CASE ActivateBucket \/ IndexEdge
  <2>1. \E pc \in {"index", "count"} : GoesTo(pc)
    BY ONLY <1>0, <1>11 DEF EdgeMoves
  <2>2. rt.pc \in EdgePcs
    BY <1>11 DEF ActivateBucket, IndexEdge
  <2> QED BY <1>0, <2>1, <2>2 DEF GoesTo, Becomes
<1>a. ASSUME NEW e \in rt.todo, NEW A, Added(e, A), rt.op \in {"add", "join", "sync", "resume"}
      PROVE  RtTyped'
  <2>1. e \in Edges /\ (e[2] \in Rooms => e \in RoomEdges) /\ (rt.op = "join" => e \in RoomEdges)
    BY <1>0, RoomsAreItems
  <2> QED BY <1>0, <1>a, <2>1 DEF Added, Becomes
<1>13. CASE CountEdge
  <2>1. rt.cur \in rt.todo /\ rt.op \in {"add", "join", "sync", "resume"}
    BY <1>0, <1>13 DEF CountEdge
  <2>2. \E A : Added(rt.cur, A)
    BY ONLY <1>0, <1>13 DEF AddMoves
  <2> QED BY <1>a, <2>1, <2>2
<1>14. CASE Keeps
  <2>1. PICK e \in rt.todo : KeepEdge(e)
    BY <1>14 DEF Keeps
  <2>2. rt.pc = "next" /\ rt.op \in {"add", "join", "sync", "resume"}
    BY <2>1 DEF KeepEdge
  <2>3. Passes(e) \/ Added(e, rt.added)
    BY ONLY <1>0, <2>1 DEF AddMoves
  <2> QED BY <1>0, <1>a, <2>2, <2>3 DEF Passes, Becomes
<1>15. CASE Refuses
  <2>1. PICK e \in rt.todo : RefuseEdge(e)
    BY <1>15 DEF Refuses
  <2>2. rt.pc = "next" /\ rt.op \in {"add", "join", "sync", "resume"}
    BY <2>1 DEF RefuseEdge
  <2>3. Passes(e) \/ Becomes("next", "rollback", rt.cur, rt.added, {}, {})
    BY ONLY <1>0, <2>1 DEF BetweenMoves
  <2> QED BY <1>0, <2>2, <2>3 DEF Passes, Becomes
<1>16. CASE Takes
  <2>1. PICK e \in rt.todo : TakeEdge(e)
    BY <1>16 DEF Takes
  <2>2. rt.pc = "next" /\ rt.op \in {"remove", "trim", "rollback", "cleanup", "expire"}
    BY <2>1 DEF TakeEdge
  <2>3. Passes(e) \/ Becomes("unindex", rt.op, e, rt.todo, rt.added, rt.after)
    BY ONLY <1>0, <2>1 DEF EdgeMoves
  <2>4. e \in Edges /\ (rt.op = "expire" => /\ e[2] = rt.cur[2]
                                            /\ e \in (Sessions \cup {None}) \X Rooms)
    BY <1>0, RoomsAreItems DEF RoomEdges
  <2> QED BY <1>0, <2>2, <2>3, <2>4 DEF Passes, Becomes
<1>17. CASE UnindexEdge \/ DeactivateBucket
  <2>1. \E pc \in {"deactivate", "uncount"} : GoesTo(pc)
    BY ONLY <1>0, <1>17 DEF EdgeMoves
  <2>2. rt.pc \in UnedgePcs
    BY <1>17 DEF UnindexEdge, DeactivateBucket
  <2> QED BY <1>0, <2>1, <2>2 DEF GoesTo, Becomes
<1>18. CASE UncountEdge
  <2>1. rt.pc \in UnedgePcs
    BY <1>18 DEF UncountEdge
  <2>2. Passes(rt.cur) \/ (rt.op = "cleanup" /\ rt.cur[2] \in Rooms /\ GoesTo("grace"))
    BY ONLY <1>0, <1>18 DEF EdgeMoves
  <2>3. rt.cur \in Edges /\ (rt.cur[2] \in Rooms => rt.cur \in RoomEdges)
    BY <1>0, <2>1, RoomsAreItems
  <2> QED BY <1>0, <2>1, <2>2, <2>3 DEF GoesTo, Passes, Becomes
<1>19. CASE InitializeMetadata
  <2>1. rt.pc = "metadata"
    BY <1>19 DEF InitializeMetadata
  <2>2. EndsUp \/ Becomes("next", "remove", rt.cur, rt.todo, rt.added, rt.after)
    BY ONLY <1>0, <1>19 DEF BetweenMoves
  <2> QED BY <1>0, <1>r, <2>1, <2>2 DEF Becomes
<1>20. CASE ConsumeGrace \/ StoreGrace \/ ReserveGrace
  <2>1. rt.pc = "consume" \/ rt.pc \in GracePcs
    BY <1>20 DEF ConsumeGrace, StoreGrace, ReserveGrace
  <2>2. Passes(rt.cur) \/ (rt.pc \in GracePcs /\ GoesTo("grace_insert"))
    BY ONLY <1>0, <1>20 DEF BetweenMoves, ReserveGrace, RtIs, GracePcs
  <2> QED BY <1>0, <2>1, <2>2 DEF GoesTo, Passes, Becomes
<1>21. CASE ReserveSnapshot \/ StoreSnapshot
  <2>1. rt.pc \in {"snapshot", "snap_insert"}
    BY <1>21 DEF ReserveSnapshot, StoreSnapshot
  <2>2. \/ GoesTo("snap_insert")
        \/ Becomes("next", rt.op, rt.cur, ReverseOf(rt.s, Kinds), rt.added, rt.after)
    BY ONLY <1>0, <1>21 DEF BetweenMoves
  <2>3. \A e \in ReverseOf(rt.s, Kinds) : e[1] = rt.s
    BY DEF ReverseOf
  <2> QED BY <1>0, <2>1, <2>2, <2>3 DEF GoesTo, Becomes
<1>22. CASE FinishCleanup \/ GiveSnapshotSlot \/ GiveGraceSlots
  <2>1. EndsUp
    BY ONLY <1>0, <1>22 DEF BetweenMoves
  <2> QED BY <1>r, <2>1
<1>23. CASE CreateResumed \/ RestoreEdges
  <2>1. rt.pc \in {"create", "restore"}
    BY <1>23 DEF CreateResumed, RestoreEdges
  <2>2. EndsUp \/ \E pc \in {"restore", "next"} : GoesTo(pc)
    BY ONLY <1>0, <1>23 DEF BetweenMoves
  <2> QED BY <1>0, <1>r, <2>1, <2>2 DEF GoesTo, Becomes
<1>24. CASE ForgetRoom \/ ForgetGrace
  <2>1. rt.op = "expire"
    BY <1>0, <1>24 DEF ForgetRoom, ForgetGrace
  <2>2. \E pc \in {"forget_grace", "give_grace"} : GoesTo(pc)
    BY ONLY <1>0, <1>24 DEF BetweenMoves
  <2> QED BY <1>0, <2>1, <2>2 DEF GoesTo, Becomes
<1>25. CASE EndRequest
  <2>1. EndsUp \/ Becomes("next", "trim", rt.cur, rt.after, rt.added, {})
    BY ONLY <1>0, <1>25 DEF BetweenMoves
  <2> QED BY <1>0, <1>r, <2>1 DEF Becomes
<1>26. CASE TakenUp
  BY ONLY <1>3, <1>4, <1>5, <1>6, <1>7, <1>26 DEF TakenUp
<1>27. CASE EdgeSteps
  BY ONLY <1>9, <1>10, <1>11, <1>13, <1>16, <1>17, <1>18, <1>27 DEF EdgeSteps
<1>28. CASE BetweenEdges
  BY ONLY <1>14, <1>15, <1>19, <1>20, <1>21, <1>22, <1>23, <1>24, <1>25, <1>28
     DEF BetweenEdges
<1> QED BY ONLY [Next]_vars, <1>2, <1>8, <1>26, <1>27, <1>28, Sorted

LEMMA TypedInit == Init => Typed
<1> SUFFICES ASSUME Init PROVE Typed
  OBVIOUS
<1>1. RtTyped
  BY DEF Init, RtTyped, RtType, OpOfPc, CurOfPc, RtIs, Adding, Removing, EdgePcs, UnedgePcs,
         GracePcs, Pcs, Ops, Ready
<1>2. EdgesTyped /\ SessTyped /\ EnvTyped
  BY DEF Init, EdgesTyped, SessTyped, EnvTyped
<1>3. SnapTyped /\ GraceTyped /\ RoomTyped /\ TimeTyped
  BY DEF Init, SnapTyped, GraceTyped, RoomTyped, TimeTyped
<1> QED BY <1>1, <1>2, <1>3, TypedParts

LEMMA TypedNext == Typed /\ [Next]_vars => Typed'
<1> SUFFICES ASSUME Typed, [Next]_vars PROVE Typed'
  OBVIOUS
<1>1. /\ RtTyped' /\ EdgesTyped' /\ SessTyped' /\ SnapTyped' /\ GraceTyped'
      /\ RoomTyped' /\ TimeTyped' /\ EnvTyped'
  BY RtTypedNext, EdgesTypedNext, SessTypedNext, SnapTypedNext, GraceTypedNext,
     RoomTypedNext, TimeTypedNext, EnvTypedNext
<1> QED BY <1>1, TypedParts, PTL

(* A step that writes no index is outside Runtime, is the end of it, or is *)
(* between the edges.                                                      *)
Between(pc) == pc \notin EdgePcs \cup UnedgePcs \cup {"down"}
LEMMA Quiet ==
  ASSUME Typed, [Next]_vars, ~EdgeSteps
  PROVE  /\ UNCHANGED edgeVars
         /\ UNCHANGED rt \/ Crash \/ (Between(rt.pc) /\ Between(rt'.pc))
<1>0. /\ AddMoves /\ BetweenMoves /\ StartMoves /\ UNCHANGED edgeVars
  BY AddMovesHold, BetweenMovesHold, StartMovesHold, Writers DEF Unwritten
<1>1. CASE Outside
  BY ONLY <1>0, <1>1 DEF Outside, Tick, Owners, OwnerExit, Connects, Connect, Deadlines,
                   SetRoomDeadline, Drains, SetDraining, TimersFire, ExpireTimer,
                   LoseTimer, vars
<1>2. CASE TakenUp
  <2>1. rt.pc = "idle"
    BY ONLY <1>2 DEF TakenUp, Started, Start, AddMany, RemoveMany, Sync, JoinWithMetadata,
       ResumeRoom, Ended, BeginCleanup, Resumed, Resume, SnapMail, ExpireSnapshot,
       GraceMail, ExpireGrace, RoomMail, ExpireRoom, Serving, Accepting, RtIs
  <2>2. UNCHANGED rt \/ rt'.pc \in {"next", "snapshot", "create", "give_snap", "give_grace"}
    <3>1. CASE Started
      BY ONLY <1>0, <3>1 DEF Started, StartMoves, Begins
    <3>2. CASE Ended \/ Resumed
      BY ONLY <1>0, <3>2 DEF Ended, Resumed, StartMoves, Begins
    <3>3. CASE SnapMail \/ GraceMail \/ RoomMail
      BY ONLY <1>0, <3>3 DEF SnapMail, GraceMail, RoomMail, StartMoves, Begins
    <3> QED BY ONLY <1>2, <3>1, <3>2, <3>3 DEF TakenUp
  <2> QED BY <1>0, <2>1, <2>2 DEF Between, EdgePcs, UnedgePcs
<1>3. CASE BetweenEdges
  <2>1. rt.pc \in {"next", "metadata", "consume", "snapshot", "snap_insert", "grace",
                   "grace_insert", "create", "restore", "give_snap", "forget_grace",
                   "give_grace"}
    BY ONLY <1>3 DEF BetweenEdges, Keeps, Refuses, KeepEdge, RefuseEdge, InitializeMetadata,
                ConsumeGrace, ReserveSnapshot, StoreSnapshot, ReserveGrace, StoreGrace,
                FinishCleanup, CreateResumed, RestoreEdges, GiveSnapshotSlot, ForgetRoom,
                ForgetGrace, GiveGraceSlots, EndRequest, RtIs
  <2>2. rt'.pc \in {"idle", "next", "metadata", "consume", "snap_insert", "grace_insert",
                    "restore", "forget_grace", "give_grace"}
    <3>1. CASE Keeps \/ Refuses
      BY ONLY <1>0, <3>1 DEF Keeps, Refuses, AddMoves, BetweenMoves, Added, Passes, Becomes
    <3>2. CASE ~(Keeps \/ Refuses)
      BY ONLY <1>0, <1>3, <3>2 DEF BetweenEdges, BetweenMoves, Passes, GoesTo, Becomes,
                                   EndsUp, Ready
    <3> QED BY ONLY <3>1, <3>2
  <2> QED BY <1>0, <2>1, <2>2 DEF Between, EdgePcs, UnedgePcs
<1> QED BY ONLY <1>0, <1>1, <1>2, <1>3, ~EdgeSteps, [Next]_vars, Sorted

-----------------------------------------------------------------------------
(* No row of the fanout index is in a bucket whose bit is clear.           *)
LEMMA FindableNext == Typed /\ Findable /\ [Next]_vars => Findable'
<1> SUFFICES ASSUME Typed, Findable, [Next]_vars PROVE Findable'
  OBVIOUS
<1> USE DEF Findable, FanReachable, BitSet, Bit, RtIs
<1>0. EdgeMoves /\ AddMoves /\ fan \in SUBSET Edges
  BY EdgeMovesHold, AddMovesHold, TypedParts DEF EdgesTyped
<1>1. CASE ~EdgeSteps
  <2>1. UNCHANGED <<fan, active>> /\ (UNCHANGED rt \/ rt'.pc # "index")
    BY <1>1, Quiet DEF edgeVars, Between, EdgePcs, UnedgePcs, Crash, Ready
  <2> QED BY <2>1
<1>2. CASE Inserts
  <2>1. rt'.pc = "activate"
    BY ONLY <1>0, <1>2 DEF Inserts, EdgeMoves, Becomes
  <2> QED BY <1>2, <2>1 DEF Inserts, InsertEdge
<1>3. CASE ActivateBucket
  <2>1. rt'.cur = rt.cur
    BY ONLY <1>0, <1>3 DEF EdgeMoves, GoesTo, Becomes
  <2> QED BY <1>3, <2>1 DEF ActivateBucket
<1>4. CASE IndexEdge
  <2>1. rt'.pc = "count"
    BY ONLY <1>0, <1>4 DEF EdgeMoves, GoesTo, Becomes
  <2> QED BY <1>4, <2>1 DEF IndexEdge
<1>5. CASE CountEdge
  <2>1. rt'.pc # "index"
    BY ONLY <1>0, <1>5 DEF AddMoves, Added, Becomes
  <2> QED BY <1>5, <2>1 DEF CountEdge
<1>6. CASE Takes
  <2>1. rt'.pc # "index"
    BY ONLY <1>0, <1>6 DEF Takes, EdgeMoves, Passes, Becomes
  <2> QED BY <1>6, <2>1 DEF Takes, TakeEdge
<1>7. CASE UnindexEdge
  <2>1. rt'.pc = "deactivate"
    BY ONLY <1>0, <1>7 DEF EdgeMoves, GoesTo, Becomes
  <2> QED BY <1>7, <2>1 DEF UnindexEdge
<1>8. CASE DeactivateBucket
  <2>1. rt'.pc = "uncount"
    BY ONLY <1>0, <1>8 DEF EdgeMoves, GoesTo, Becomes
  <2> QED BY <1>8, <2>1 DEF DeactivateBucket
<1>9. CASE UncountEdge
  <2>1. rt'.pc # "index"
    BY ONLY <1>0, <1>9 DEF EdgeMoves, Passes, GoesTo, Becomes
  <2> QED BY <1>9, <2>1 DEF UncountEdge
<1>10. CASE Reconcile
  BY <1>10 DEF Reconcile, Ready
<1> QED BY ONLY <1>1, <1>2, <1>3, <1>4, <1>5, <1>6, <1>7, <1>8, <1>9, <1>10 DEF EdgeSteps

(* Publishers that walk the index while Runtime changes it miss no row:    *)
(* wherever Runtime is, or has stopped, every row is in a bucket whose bit *)
(* is set.                                                                 *)
THEOREM FanIsReachable == Spec => []FanReachable
<1>1. Init => Typed /\ Findable
  BY TypedInit DEF Init, Findable, FanReachable, BitSet, RtIs, Ready
<1>2. Typed /\ Findable /\ [Next]_vars => (Typed /\ Findable)'
  BY TypedNext, FindableNext
<1>3. Typed /\ Findable => FanReachable
  BY DEF Findable
<1> QED BY <1>1, <1>2, <1>3, PTL DEF Spec

-----------------------------------------------------------------------------
(* Drain: no request that adds is under way while the instance drains.     *)
LEMMA NoneAddsNext == Typed /\ NoneAdds /\ [Next]_vars => NoneAdds'
<1> SUFFICES ASSUME Typed, NoneAdds, [Next]_vars PROVE NoneAdds'
  OBVIOUS
<1> USE DEF NoneAdds, Adding
<1>0. EdgeMoves /\ AddMoves /\ BetweenMoves /\ StartMoves
  BY EdgeMovesHold, AddMovesHold, BetweenMovesHold, StartMovesHold
<1>1. CASE Outside
  <2>1. CASE Drains
    <3>1. rt = Ready /\ rt' = rt
      BY <2>1 DEF Drains, SetDraining, Serving, Typed, OpOfPc, RtIs
    <3> QED BY <3>1 DEF Ready
  <2>2. CASE ~Drains
    <3>1. UNCHANGED <<rt, draining>>
      BY ONLY <1>1, <2>2 DEF Outside, Tick, Owners, OwnerExit, Connects, Connect, Deadlines,
               SetRoomDeadline, TimersFire, ExpireTimer, LoseTimer, envVars, vars
    <3> QED BY <3>1
  <2> QED BY <2>1, <2>2
<1>2. CASE TakenUp
  <2>1. UNCHANGED draining
    BY ONLY <1>2 DEF TakenUp, Started, Start, AddMany, RemoveMany, Sync, JoinWithMetadata,
       ResumeRoom, Ended, BeginCleanup, Resumed, Resume, SnapMail, ExpireSnapshot,
       GraceMail, ExpireGrace, RoomMail, ExpireRoom, envVars
  <2>2. CASE Started
    <3>1. \/ ~draining
          \/ \E s \in Sessions, X \in SUBSET Items : RemoveMany(s, X)
      BY ONLY <2>2 DEF Started, AddMany, Sync, JoinWithMetadata, ResumeRoom, Accepting
    <3>2. ~draining \/ rt'.op = "remove"
      BY ONLY <1>0, <3>1 DEF StartMoves, Begins
    <3> QED BY <2>1, <3>2
  <2>3. CASE Resumed
    BY <2>1, <2>3 DEF Resumed, Resume, Accepting
  <2>4. CASE Ended
    <3>1. rt'.op = "cleanup"
      BY ONLY <1>0, <2>4 DEF Ended, StartMoves, Begins
    <3> QED BY <3>1
  <2>5. CASE SnapMail \/ GraceMail \/ RoomMail
    <3>1. UNCHANGED rt \/ rt'.op \in {"none", "expire"}
      BY ONLY <1>0, <2>5 DEF SnapMail, GraceMail, RoomMail, StartMoves, Begins
    <3> QED BY <2>1, <3>1
  <2> QED BY <1>2, <2>2, <2>3, <2>4, <2>5 DEF TakenUp
<1>3. CASE EdgeSteps \/ BetweenEdges
  <2>1. UNCHANGED draining
    BY <1>3 DEF EdgeSteps, Inserts, Takes, InsertEdge, TakeEdge, ActivateBucket, IndexEdge,
                CountEdge, UnindexEdge, DeactivateBucket, UncountEdge, Reconcile,
                BetweenEdges, Keeps, Refuses, KeepEdge, RefuseEdge, InitializeMetadata,
                ConsumeGrace, ReserveSnapshot, StoreSnapshot, ReserveGrace, StoreGrace,
                FinishCleanup, CreateResumed, RestoreEdges, GiveSnapshotSlot, ForgetRoom,
                ForgetGrace, GiveGraceSlots, EndRequest, envVars
  <2>2. rt'.op = rt.op \/ ~Adding'
    <3>1. CASE EdgeSteps
      BY ONLY <1>0, <3>1 DEF EdgeSteps, Inserts, Takes, EdgeMoves, AddMoves, Added, Passes,
                             GoesTo, Becomes, Reconcile, Ready, Adding
    <3>2. CASE Keeps \/ Refuses
      BY ONLY <1>0, <3>2 DEF Keeps, Refuses, AddMoves, BetweenMoves, Added, Passes, Becomes,
                             Adding
    <3>3. CASE BetweenEdges /\ ~(Keeps \/ Refuses)
      BY ONLY <1>0, <3>3 DEF BetweenEdges, BetweenMoves, Passes, GoesTo, Becomes, EndsUp,
                             Ready, Adding
    <3> QED BY ONLY <1>3, <3>1, <3>2, <3>3
  <2> QED BY <2>1, <2>2
<1>4. CASE Crash
  BY <1>4 DEF Crash, Ready
<1> QED BY ONLY [Next]_vars, <1>1, <1>2, <1>3, <1>4, Sorted

(* While an instance drains, no session and no edge is added, also not by  *)
(* a request that had begun: it has ended before the flag is set.          *)
THEOREM DrainIsClosed == Spec => DrainCloses
<1>1. Init => Typed /\ NoneAdds
  BY TypedInit DEF Init, NoneAdds
<1>2. Typed /\ NoneAdds /\ [Next]_vars => (Typed /\ NoneAdds)'
  BY TypedNext, NoneAddsNext
<1>3. Typed /\ NoneAdds /\ [Next]_vars =>
        [draining /\ draining' => live' \subseteq live /\ edges' \subseteq edges]_vars
  <2> SUFFICES ASSUME Typed, NoneAdds, [Next]_vars, draining, draining'
               PROVE  live' \subseteq live /\ edges' \subseteq edges
    OBVIOUS
  <2>0. ~Adding
    BY DEF NoneAdds
  <2>1. edges' \subseteq edges
    <3>1. ~Inserts
      BY <2>0 DEF Inserts, InsertEdge
    <3>2. UNCHANGED edges \/ EdgeSteps
      BY Writers DEF Unwritten, edgeVars
    <3> QED BY <3>1, <3>2 DEF EdgeSteps, ActivateBucket, IndexEdge, CountEdge, Takes, TakeEdge,
                  UnindexEdge, DeactivateBucket, UncountEdge, Reconcile
  <2>2. live' \subseteq live
    <3>1. ~Connects
      BY DEF Connects, Connect, Accepting
    <3>2. ~CreateResumed
      BY <2>0 DEF CreateResumed, Typed, OpOfPc, RtIs, Adding
    <3>3. UNCHANGED live \/ SessSteps
      BY Writers DEF Unwritten, sessVars
    <3> QED BY <3>1, <3>2, <3>3 DEF SessSteps, Owners, OwnerExit, Ended, BeginCleanup,
                  ReserveSnapshot, FinishCleanup, Reconcile
  <2> QED BY <2>1, <2>2
<1> QED BY <1>1, <1>2, <1>3, PTL DEF Spec, DrainCloses

-----------------------------------------------------------------------------
(* A request that goes on keeps whose it is, and its list only shrinks     *)
(* until the next part of the request begins.                              *)
Continues ==
  /\ rt'.s = rt.s /\ rt'.k = rt.k /\ rt'.old = rt.old
  /\ rt'.before = rt.before /\ rt'.desired = rt.desired
  /\ \/ rt'.op = rt.op
     \/ rt.op = "join" /\ rt'.op = "remove"
     \/ rt.op = "sync" /\ rt'.op \in {"rollback", "trim"}
  /\ rt'.pc \notin {"idle", "down", "snapshot", "create", "give_snap"}
  /\ rt'.pc = "snap_insert" => ReserveSnapshot
  /\ \/ rt'.todo \subseteq rt.todo
     \/ rt'.op \in {"rollback", "trim"}
     \/ rt.pc \in {"snapshot", "snap_insert"} /\ rt'.todo = ReverseOf(rt.s, Kinds)

LEMMA Goings ==
  ASSUME Typed, [Next]_vars
  PROVE  \/ UNCHANGED rt
         \/ rt.pc = "idle" /\ TakenUp
         \/ EndsUp \/ Crash
         \/ Continues
<1>0. /\ EdgeMoves /\ AddMoves /\ BetweenMoves /\ StartMoves
      /\ InitializeMetadata => rt.op = "join"
  BY EdgeMovesHold, AddMovesHold, BetweenMovesHold, StartMovesHold
     DEF Typed, OpOfPc, InitializeMetadata
<1>1. CASE Outside
  BY ONLY <1>1 DEF Outside, Tick, Owners, OwnerExit, Connects, Connect, Deadlines,
                   SetRoomDeadline, Drains, SetDraining, TimersFire, ExpireTimer,
                   LoseTimer, vars
<1>2. CASE TakenUp
  BY ONLY <1>2 DEF TakenUp, Started, Start, AddMany, RemoveMany, Sync, JoinWithMetadata,
     ResumeRoom, Ended, BeginCleanup, Resumed, Resume, SnapMail, ExpireSnapshot,
     GraceMail, ExpireGrace, RoomMail, ExpireRoom, Serving, Accepting, RtIs
<1>3. CASE EdgeSteps
  <2>1. CASE Reconcile
    BY <2>1 DEF Reconcile, EndsUp
  <2>2. CASE CountEdge
    BY ONLY <1>0, <2>2 DEF AddMoves, Added, Becomes, Continues
  <2>3. CASE ~Reconcile /\ ~CountEdge
    BY ONLY <1>0, <1>3, <2>3 DEF EdgeSteps, Inserts, Takes, EdgeMoves, Passes, GoesTo,
                                 Becomes, Continues
  <2> QED BY ONLY <2>1, <2>2, <2>3
<1>4. CASE BetweenEdges
  <2>1. CASE Keeps \/ Refuses
    BY ONLY <1>0, <2>1 DEF Keeps, Refuses, AddMoves, BetweenMoves, Added, Passes, Becomes,
                           Continues
  <2>2. CASE ReserveSnapshot \/ StoreSnapshot
    <3>1. rt.pc \in {"snapshot", "snap_insert"} /\ (StoreSnapshot => ~GoesTo("snap_insert"))
      BY <1>0, <2>2 DEF ReserveSnapshot, StoreSnapshot, RtIs, BetweenMoves, GoesTo, Becomes
    <3> QED BY ONLY <1>0, <2>2, <3>1 DEF BetweenMoves, GoesTo, Becomes, Continues
  <2>3. CASE ~(Keeps \/ Refuses \/ ReserveSnapshot \/ StoreSnapshot)
    BY ONLY <1>0, <1>4, <2>3 DEF BetweenEdges, BetweenMoves, Passes, GoesTo, Becomes,
                                 Continues
  <2> QED BY ONLY <2>1, <2>2, <2>3
<1>5. CASE Crash
  BY <1>5
<1> QED BY ONLY [Next]_vars, <1>1, <1>2, <1>3, <1>4, <1>5, Sorted

(* Which requests are taken up, and where they begin.                      *)
LEMMA Beginnings ==
  ASSUME Typed, TakenUp
  PROVE  \/ Ended \/ Resumed
         \/ /\ rt'.pc \in {"idle", "next", "give_snap", "give_grace"}
            /\ rt'.op # "cleanup"
<1>0. StartMoves
  BY StartMovesHold
<1>1. CASE Started
  BY ONLY <1>0, <1>1 DEF Started, StartMoves, Begins
<1>2. CASE SnapMail \/ GraceMail \/ RoomMail
  <2>1. rt = Ready
    BY <1>2 DEF SnapMail, GraceMail, RoomMail, ExpireSnapshot, ExpireGrace, ExpireRoom,
                Serving, Typed, OpOfPc
  <2>2. rt.pc = "idle" /\ rt.op = "none"
    BY <2>1 DEF Ready
  <2> QED BY ONLY <1>0, <1>2, <2>2 DEF SnapMail, GraceMail, RoomMail, StartMoves, Begins
<1> QED BY ONLY TakenUp, <1>1, <1>2 DEF TakenUp

-----------------------------------------------------------------------------
(* Tokens.                                                                 *)
LEMMA TokensNext == Typed /\ Tokens /\ [Next]_vars => Tokens'
<1> SUFFICES ASSUME Typed, Tokens, [Next]_vars PROVE Tokens'
  OBVIOUS
<1> USE DEF Tokens, TokenFree, Gone, RtIs
<1>0. /\ rt \in RtType /\ live \in SUBSET Sessions /\ born \in SUBSET Sessions
      /\ DOMAIN snapshots \subseteq Sessions /\ resumes \in [Sessions -> Nat]
      /\ rt.op = "resume" => rt.old \in Sessions
      /\ RtIs("idle") => rt = Ready
      /\ StartMoves /\ BetweenMoves
  BY TypedParts, StartMovesHold, BetweenMovesHold
     DEF RtTyped, SessTyped, SnapTyped, OpOfPc
<1>w. Unwritten
  BY Writers
<1>d. /\ \A K : DOMAIN Drop(snapshots, K) = DOMAIN snapshots \ K
      /\ \A k, v : DOMAIN Put(snapshots, k, v) = DOMAIN snapshots \cup {k}
  BY DEF Drop, Restrict, Put
<1>k. ASSUME NEW s, NEW row, KeepSnapshot(s, row)
      PROVE  DOMAIN snapshots' \subseteq DOMAIN snapshots \cup {s}
  BY <1>d, <1>k DEF KeepSnapshot
<1>1. CASE UNCHANGED <<born, live, resumes>> /\ DOMAIN snapshots' \subseteq DOMAIN snapshots
           /\ ~Ended /\ ~Resumed
  <2>1. CASE UNCHANGED rt
    BY <1>1, <2>1
  <2>2. CASE TakenUp
    BY <1>1, <2>2, Beginnings
  <2>3. CASE EndsUp \/ Crash
    <3>1. rt'.op = "none" /\ rt'.pc \in {"idle", "down"}
      BY <2>3 DEF EndsUp, Crash, Ready
    <3> QED BY <1>1, <3>1
  <2>4. CASE Continues
    <3>1. rt'.pc = "snap_insert" => rt.pc = "snapshot"
      BY <2>4 DEF Continues, ReserveSnapshot
    <3> QED BY <1>1, <2>4, <3>1 DEF Continues
  <2> QED BY <2>1, <2>2, <2>3, <2>4, Goings
<1>2. CASE Connects
  <2>1. PICK s \in Sessions, b \in BOOLEAN : Connect(s, b)
    BY <1>2 DEF Connects
  <2>2. /\ s \notin born /\ born' = born \cup {s} /\ live' = live \cup {s}
        /\ rt = Ready /\ rt' = rt /\ UNCHANGED <<snapshots, resumes>>
    BY <1>0, <2>1 DEF Connect, InsertSession, Accepting, snapVars
  <2> QED BY <1>0, <2>2 DEF Ready
<1>3. CASE Ended
  <2>1. PICK s \in Sessions, b \in BOOLEAN : BeginCleanup(s, b)
    BY <1>3 DEF Ended
  <2>2. Begins("snapshot", "cleanup", s, None, {}, None)
    BY ONLY <1>0, <2>1 DEF StartMoves
  <2>3. /\ rt'.pc = "snapshot" /\ rt'.s = s /\ rt'.op = "cleanup"
        /\ s \in live /\ live' = live \ {s} /\ UNCHANGED <<born, snapshots, resumes>>
    BY <2>1, <2>2 DEF Begins, BeginCleanup, snapVars
  <2> QED BY <1>0, <2>3
<1>4. CASE Resumed
  <2>1. PICK old, s \in Sessions : Resume(old, s)
    BY <1>4 DEF Resumed
  <2>2. Begins("create", "resume", s, None, {s} \X snapshots[old].items, old)
    BY ONLY <1>0, <2>1 DEF StartMoves
  <2>3. /\ rt'.pc = "create" /\ rt'.s = s /\ rt'.op = "resume" /\ rt'.old = old
        /\ s \notin born /\ old \in DOMAIN snapshots
        /\ DOMAIN snapshots' = DOMAIN snapshots \ {old} /\ UNCHANGED <<born, live, resumes>>
    BY <2>1, <2>2, <1>d DEF Begins, Resume, sessVars
  <2> QED BY <1>0, <2>3
<1>5. CASE StoreSnapshot
  <2>1. /\ rt.pc = "snap_insert" /\ DOMAIN snapshots' \subseteq DOMAIN snapshots \cup {rt.s}
        /\ UNCHANGED <<born, live, resumes>>
    BY <1>5, <1>d DEF StoreSnapshot, KeepSnapshot, sessVars
  <2>2. rt'.pc = "next" /\ rt'.op = rt.op /\ rt'.s = rt.s
    BY ONLY <1>0, <1>5 DEF BetweenMoves, Becomes
  <2> QED BY <1>0, <2>1, <2>2
<1>6. CASE CreateResumed
  <2>0. rt.pc = "create" /\ rt.op = "resume" /\ rt.old \in Sessions /\ TokenFree(rt.old)
        /\ rt.s \notin born
    BY <1>0, <1>6, TypedParts DEF CreateResumed, RtTyped, OpOfPc
  <2>1. rt'.op \in {"resume", "none"} /\ rt'.pc \in {"restore", "idle"}
    BY ONLY <1>0, <1>6, <2>0 DEF BetweenMoves, GoesTo, Becomes, EndsUp, Ready
  <2>2. CASE HasRoomFor(rt.s)
    <3>1. /\ born' = born \cup {rt.s} /\ live' = live \cup {rt.s} /\ UNCHANGED snapshots
          /\ resumes' = [resumes EXCEPT ![rt.old] = @ + 1]
      BY <1>6, <2>2 DEF CreateResumed, InsertSession, snapVars
    <3> QED BY <1>0, <2>0, <2>1, <3>1
  <2>3. CASE ~HasRoomFor(rt.s)
    <3>1. UNCHANGED <<born, live, resumes>>
      BY <1>6, <2>3 DEF CreateResumed, sessVars
    <3>2. DOMAIN snapshots' \subseteq DOMAIN snapshots \cup {rt.old}
      BY <1>6, <2>3, <1>k DEF CreateResumed
    <3> QED BY <1>0, <2>0, <2>1, <3>1, <3>2
  <2> QED BY <2>2, <2>3
<1>7. CASE ~(Connects \/ Ended \/ Resumed \/ StoreSnapshot \/ CreateResumed)
  <2>1. UNCHANGED <<born, live, resumes>>
    BY <1>w, <1>7 DEF Unwritten, SessSteps, sessVars, Owners, OwnerExit, ReserveSnapshot,
                      FinishCleanup, Reconcile
  <2>2. DOMAIN snapshots' \subseteq DOMAIN snapshots
    BY <1>w, <1>7, <1>d DEF Unwritten, SnapSteps, snapVars, SnapMail, ExpireSnapshot,
                      ReserveSnapshot, RestoreEdges, GiveSnapshotSlot
  <2> QED BY <1>1, <1>7, <2>1, <2>2
<1> QED BY <1>2, <1>3, <1>4, <1>5, <1>6, <1>7

(* A resume token is good for one session: used once it is in no snapshot, *)
(* also when a resume is refused and puts the snapshot back, and when the  *)
(* expiry of the snapshot fires in the middle.                             *)
THEOREM TokensAreUsedOnce == Spec => []TokenOnce
<1>1. Init => Typed /\ Tokens
  BY TypedInit DEF Init, Tokens, RtIs, Ready
<1>2. Typed /\ Tokens /\ [Next]_vars => (Typed /\ Tokens)'
  BY TypedNext, TokensNext
<1>3. Typed /\ Tokens => TokenOnce
  BY TypedParts DEF Tokens, TokenOnce, SessTyped
<1> QED BY <1>1, <1>2, <1>3, PTL DEF Spec

-----------------------------------------------------------------------------
(* Graces.                                                                 *)
GracesApart ==
  /\ \A key \in DOMAIN grace : key[1] \in Gone
  /\ rt.pc \in {"snapshot", "snap_insert"} =>
       \A key \in DOMAIN grace : key[1] # rt.s
  /\ rt.op = "cleanup" => \A e \in rt.todo : e \notin DOMAIN grace
Invited ==
  rt.pc \in EdgePcs \cup {"consume"} /\ rt.op = "resume" /\ rt.cur[2] \in Rooms =>
    <<rt.old, rt.cur[2]>> \in DOMAIN grace

LEMMA GoneGrows ==
  ASSUME Typed, Tokens, [Next]_vars
  PROVE  Gone \subseteq Gone'
<1>1. CASE UNCHANGED sessVars
  BY <1>1 DEF Gone, sessVars
<1>2. CASE CreateResumed
  <2>1. rt.s \notin born
    BY <1>2 DEF CreateResumed, Tokens
  <2> QED BY <1>2, <2>1 DEF CreateResumed, InsertSession, sessVars, Gone
<1>3. CASE ~CreateResumed /\ SessSteps
  BY <1>3 DEF SessSteps, Owners, OwnerExit, Connects, Connect, InsertSession, Ended,
              BeginCleanup, ReserveSnapshot, FinishCleanup, Reconcile, Gone
<1> QED BY <1>1, <1>2, <1>3, Writers DEF Unwritten

LEMMA GracesApartNext == Typed /\ Tokens /\ GracesApart /\ [Next]_vars => GracesApart'
<1> SUFFICES ASSUME Typed, Tokens, GracesApart, [Next]_vars PROVE GracesApart'
  OBVIOUS
<1> USE DEF GracesApart
<1>0. /\ StartMoves /\ BetweenMoves /\ Gone \subseteq Gone'
      /\ DOMAIN grace \subseteq RoomEdges
  BY TypedParts, StartMovesHold, BetweenMovesHold, GoneGrows DEF GraceTyped
<1>d. /\ \A K : DOMAIN Drop(grace, K) = DOMAIN grace \ K
      /\ \A k, v : DOMAIN Put(grace, k, v) = DOMAIN grace \cup {k}
  BY DEF Drop, Restrict, Put
<1>1. CASE Ended
  <2>1. PICK s \in Sessions, b \in BOOLEAN : BeginCleanup(s, b)
    BY <1>1 DEF Ended
  <2>2. Begins("snapshot", "cleanup", s, None, {}, None)
    BY ONLY <1>0, <2>1 DEF StartMoves
  <2>3. rt'.s = s /\ s \in live /\ UNCHANGED grace /\ rt'.todo = {}
    BY <2>1, <2>2 DEF Begins, BeginCleanup, graceVars
  <2>4. \A key \in DOMAIN grace : key[1] # s
    BY <2>3 DEF Gone
  <2> QED BY <1>0, <2>3, <2>4
<1>2. CASE StoreGrace
  <2>1. Passes(rt.cur)
    BY ONLY <1>0, <1>2 DEF BetweenMoves
  <2>2. rt.cur = <<rt.s, rt.cur[2]>> /\ rt.op = "cleanup"
    <3>1. rt.cur \in RoomEdges /\ rt.cur \in rt.todo /\ rt.op = "cleanup" /\ rt.cur[1] = rt.s
      BY <1>2, TypedParts DEF RtTyped, OpOfPc, CurOfPc, StoreGrace, RtIs, GracePcs
    <3> QED BY <3>1 DEF RoomEdges
  <2>3. rt.s \in Gone /\ rt.cur[1] = rt.s
    BY <2>2 DEF Tokens
  <2>4. DOMAIN grace' \subseteq DOMAIN grace \cup {rt.cur}
    <3>1. DOMAIN grace' \subseteq DOMAIN grace \cup {<<rt.s, rt.cur[2]>>}
      <4>1. \/ grace' = Put(grace, <<rt.s, rt.cur[2]>>, now + GraceTtl)
            \/ grace' = grace
        BY ONLY <1>2 DEF StoreGrace
      <4> DEFINE g == Put(grace, <<rt.s, rt.cur[2]>>, now + GraceTtl)
      <4>2. DOMAIN g = DOMAIN grace \cup {<<rt.s, rt.cur[2]>>}
        BY ONLY <1>d
      <4> HIDE DEF g
      <4> QED BY ONLY <4>1, <4>2 DEF g
    <3> QED BY <2>2, <3>1
  <2>5. rt'.pc = "next" /\ rt'.todo = rt.todo \ {rt.cur} /\ rt'.op = rt.op
    BY ONLY <2>1 DEF Passes, Becomes
  <2> QED BY <1>0, <2>2, <2>3, <2>4, <2>5
<1>3. CASE ~Ended /\ ~StoreGrace
  <2>1. DOMAIN grace' \subseteq DOMAIN grace
    <3>1. GraceSteps \/ grace' = grace
      BY Writers DEF Unwritten, graceVars
    <3>2. CASE GraceSteps
      <4>1. \/ grace' = grace
            \/ \E K : grace' = Drop(grace, K)
        BY ONLY <1>3, <3>2 DEF GraceSteps, GraceMail, ExpireGrace,
           ConsumeGrace, ReserveGrace, ForgetGrace, GiveGraceSlots
      <4> QED BY ONLY <1>d, <4>1
    <3> QED BY ONLY <3>1, <3>2
  <2>2. CASE UNCHANGED rt
    BY <1>0, <2>1, <2>2
  <2>3. CASE TakenUp
    <3>1. CASE Resumed
      <4>1. rt'.pc = "create" /\ rt'.op = "resume"
        BY ONLY <1>0, <3>1 DEF Resumed, StartMoves, Begins
      <4> QED BY <1>0, <2>1, <4>1
    <3> QED BY <1>0, <1>3, <2>1, <2>3, <3>1, Beginnings
  <2>4. CASE EndsUp \/ Crash
    <3>1. rt'.op = "none" /\ rt'.pc \in {"idle", "down"}
      BY <2>4 DEF EndsUp, Crash, Ready
    <3> QED BY <1>0, <2>1, <3>1
  <2>5. CASE Continues
    <3>1. rt'.pc = "snap_insert" => rt.pc = "snapshot"
      BY <2>5 DEF Continues, ReserveSnapshot, RtIs
    <3>2. \A e \in ReverseOf(rt.s, Kinds) : e[1] = rt.s
      BY DEF ReverseOf
    <3>3. \A e \in rt'.todo : rt'.op = "cleanup" => e \notin DOMAIN grace
      BY <2>5, <3>2 DEF Continues
    <3> QED BY <1>0, <2>1, <2>5, <3>1, <3>3 DEF Continues
  <2> QED BY <2>2, <2>3, <2>4, <2>5, Goings
<1> QED BY <1>1, <1>2, <1>3

LEMMA InvitedNext == Typed /\ Invited /\ [Next]_vars => Invited'
<1> SUFFICES ASSUME Typed, Invited, [Next]_vars PROVE Invited'
  OBVIOUS
<1> USE DEF Invited, EdgePcs, RtIs
<1>0. /\ EdgeMoves /\ AddMoves /\ BetweenMoves /\ Unwritten
      /\ (RtIs("idle") => rt = Ready) /\ Ready.pc = "idle"
  BY EdgeMovesHold, AddMovesHold, BetweenMovesHold, Writers DEF Typed, OpOfPc, Ready
<1>1. CASE Inserts
  <2>1. PICK e \in rt.todo : InsertEdge(e)
    BY <1>1 DEF Inserts
  <2>2. rt'.cur = e /\ rt'.op = rt.op /\ rt'.old = rt.old
    BY ONLY <1>0, <2>1 DEF EdgeMoves, Becomes
  <2> QED BY <2>1, <2>2 DEF InsertEdge, MayRejoin, graceVars
<1>2. CASE Keeps
  <2>1. PICK e \in rt.todo : KeepEdge(e)
    BY <1>2 DEF Keeps
  <2>2. /\ rt'.op = rt.op /\ rt'.old = rt.old
        /\ rt'.cur = e \/ rt'.pc = "next"
    BY ONLY <1>0, <2>1 DEF AddMoves, Added, Passes, Becomes
  <2> QED BY <2>1, <2>2 DEF KeepEdge, MayRejoin, graceVars
<1>3. CASE ActivateBucket \/ IndexEdge \/ CountEdge
  <2>1. rt'.cur = rt.cur /\ rt'.op = rt.op /\ rt'.old = rt.old
    BY ONLY <1>0, <1>3 DEF EdgeMoves, AddMoves, Added, GoesTo, Becomes
  <2>2. rt.pc \in EdgePcs /\ UNCHANGED grace
    BY <1>3 DEF ActivateBucket, IndexEdge, CountEdge, graceVars
  <2> QED BY <2>1, <2>2
<1>4. CASE EdgeSteps /\ ~(Inserts \/ ActivateBucket \/ IndexEdge \/ CountEdge)
  <2>1. rt'.pc \notin EdgePcs \cup {"consume"}
    BY ONLY <1>0, <1>4 DEF EdgeSteps, Takes, EdgeMoves, Passes, GoesTo, Becomes, Reconcile,
                           Ready, EdgePcs
  <2> QED BY <2>1
<1>5. CASE BetweenEdges /\ ~Keeps
  <2>1. rt'.pc \notin EdgePcs \cup {"consume"}
    BY ONLY <1>0, <1>5 DEF BetweenEdges, Refuses, BetweenMoves, Passes, GoesTo, Becomes,
                           EndsUp, Ready, EdgePcs
  <2> QED BY <2>1
<1>6. CASE Outside
  <2>1. UNCHANGED <<rt, grace>>
    BY ONLY <1>6 DEF Outside, Tick, Owners, OwnerExit, Connects, Connect, Deadlines,
                     SetRoomDeadline, Drains, SetDraining, TimersFire, ExpireTimer,
                     LoseTimer, vars, graceVars
  <2> QED BY <2>1
<1>7. CASE TakenUp
  <2>1. rt'.pc \in {"idle", "snapshot", "create", "next", "give_snap", "give_grace"}
    <3>1. CASE Ended \/ Resumed
      BY ONLY StartMovesHold, Typed, <3>1 DEF Ended, Resumed, StartMoves, Begins
    <3> QED BY ONLY Typed, <1>7, <3>1, Beginnings
  <2> QED BY <2>1
<1>8. CASE Crash
  BY <1>8 DEF Crash, Ready
<1> QED BY ONLY [Next]_vars, <1>1, <1>2, <1>3, <1>4, <1>5, <1>6, <1>7, <1>8, Sorted

-----------------------------------------------------------------------------
(* Slots.                                                                  *)
SnapHeld  == IF rt.pc \in SnapPcs THEN 1 ELSE 0
GraceHeld == IF RtIs("grace_insert") THEN 1 ELSE IF RtIs("give_grace") THEN rt.n ELSE 0
SnapAccount  == snapUsed = Cardinality(DOMAIN snapshots) + leaked.snap + SnapHeld
GraceAccount == graceUsed = Cardinality(DOMAIN grace) + leaked.grace + GraceHeld

LEMMA CountPut ==
  ASSUME NEW f, IsFiniteSet(DOMAIN f), NEW k, NEW v, k \notin DOMAIN f
  PROVE  Cardinality(DOMAIN Put(f, k, v)) = Cardinality(DOMAIN f) + 1
<1>1. DOMAIN Put(f, k, v) = DOMAIN f \cup {k}
  BY DEF Put
<1> QED BY <1>1, FS_AddElement

LEMMA CountDrop ==
  ASSUME NEW f, IsFiniteSet(DOMAIN f), NEW k
  PROVE  Cardinality(DOMAIN Drop(f, {k})) =
           IF k \in DOMAIN f THEN Cardinality(DOMAIN f) - 1 ELSE Cardinality(DOMAIN f)
<1>1. DOMAIN Drop(f, {k}) = DOMAIN f \ {k}
  BY DEF Drop, Restrict
<1> QED BY <1>1, FS_RemoveElement

(* Which steps take up a slot, lose one or give one back.                  *)
LEMMA LeakedKept ==
  ASSUME [Next]_vars, ~Crash
  PROVE  UNCHANGED leaked
<1>1. CASE Outside
  BY ONLY <1>1 DEF Outside, Tick, Owners, OwnerExit, Connects, Connect, Deadlines,
                   SetRoomDeadline, Drains, SetDraining, TimersFire, ExpireTimer,
                   LoseTimer, vars, envVars
<1>2. CASE TakenUp
  BY ONLY <1>2 DEF TakenUp, Started, Start, AddMany, RemoveMany, Sync, JoinWithMetadata,
     ResumeRoom, Ended, BeginCleanup, Resumed, Resume, SnapMail, ExpireSnapshot,
     GraceMail, ExpireGrace, RoomMail, ExpireRoom, envVars
<1>3. CASE EdgeSteps
  BY ONLY <1>3 DEF EdgeSteps, Inserts, Takes, InsertEdge, TakeEdge, ActivateBucket, IndexEdge,
              CountEdge, UnindexEdge, DeactivateBucket, UncountEdge, Reconcile, envVars
<1>4. CASE BetweenEdges
  BY ONLY <1>4 DEF BetweenEdges, Keeps, Refuses, KeepEdge, RefuseEdge, InitializeMetadata,
              ConsumeGrace, ReserveSnapshot, StoreSnapshot, ReserveGrace, StoreGrace,
              FinishCleanup, CreateResumed, RestoreEdges, GiveSnapshotSlot, ForgetRoom,
              ForgetGrace, GiveGraceSlots, EndRequest, envVars
<1> QED BY ONLY [Next]_vars, ~Crash, <1>1, <1>2, <1>3, <1>4, Sorted

SlotPcs == SnapPcs \cup {"grace_insert", "give_grace"}
SlotSteps == SnapSteps \/ GraceSteps \/ Crash
LEMMA SlotsElsewhere ==
  ASSUME Typed, [Next]_vars, ~SlotSteps
  PROVE  UNCHANGED rt \/ (rt.pc \notin SlotPcs /\ rt'.pc \notin SlotPcs)
<1> USE DEF SlotPcs, SnapPcs
<1>0. /\ EdgeMoves /\ AddMoves /\ BetweenMoves /\ StartMoves
  BY EdgeMovesHold, AddMovesHold, BetweenMovesHold, StartMovesHold
<1>1. CASE Outside
  BY ONLY <1>1 DEF Outside, Tick, Owners, OwnerExit, Connects, Connect, Deadlines,
                   SetRoomDeadline, Drains, SetDraining, TimersFire, ExpireTimer,
                   LoseTimer, vars
<1>2. CASE TakenUp
  <2>1. rt.pc = "idle"
    BY ONLY <1>2 DEF TakenUp, Started, Start, AddMany, RemoveMany, Sync, JoinWithMetadata,
       ResumeRoom, Ended, BeginCleanup, Resumed, Resume, SnapMail, ExpireSnapshot,
       GraceMail, ExpireGrace, RoomMail, ExpireRoom, Serving, Accepting, RtIs
  <2>2. UNCHANGED rt \/ rt'.pc \in {"next", "snapshot"}
    <3>1. CASE Started
      BY ONLY <1>0, <3>1 DEF Started, StartMoves, Begins
    <3>2. CASE Ended
      BY ONLY <1>0, <3>2 DEF Ended, StartMoves, Begins
    <3>3. CASE RoomMail
      BY ONLY <1>0, <3>3 DEF RoomMail, StartMoves, Begins
    <3> QED BY ONLY ~SlotSteps, <1>2, <3>1, <3>2, <3>3 DEF TakenUp, SlotSteps, SnapSteps,
                                                         GraceSteps
  <2> QED BY <2>1, <2>2
<1>3. CASE EdgeSteps
  <2>1. rt.pc \in EdgePcs \cup UnedgePcs \cup {"next", "down"}
    BY ONLY <1>3 DEF EdgeSteps, Inserts, Takes, InsertEdge, TakeEdge, ActivateBucket,
       IndexEdge, CountEdge, UnindexEdge, DeactivateBucket, UncountEdge, Reconcile, RtIs,
       EdgePcs, UnedgePcs
  <2>2. rt'.pc \notin SlotPcs
    <3>1. CASE Reconcile
      BY ONLY <3>1 DEF Reconcile, Ready, SlotPcs, SnapPcs
    <3>2. CASE CountEdge
      BY ONLY <1>0, <3>2 DEF AddMoves, Added, Becomes, SlotPcs, SnapPcs
    <3>3. CASE ~Reconcile /\ ~CountEdge
      BY ONLY <1>0, <1>3, <3>3 DEF EdgeSteps, Inserts, Takes, EdgeMoves, Passes, GoesTo,
                                   Becomes, SlotPcs, SnapPcs
    <3> QED BY ONLY <3>1, <3>2, <3>3
  <2> QED BY <2>1, <2>2 DEF EdgePcs, UnedgePcs
<1>4. CASE BetweenEdges
  <2>1. rt.pc \in {"next", "metadata"}
    BY ONLY ~SlotSteps, <1>4 DEF SlotSteps, SnapSteps, GraceSteps, BetweenEdges, Keeps,
       Refuses, KeepEdge, RefuseEdge, InitializeMetadata, FinishCleanup, ForgetRoom,
       EndRequest, RtIs
  <2>2. rt'.pc \notin SlotPcs
    <3>1. CASE Keeps \/ Refuses
      BY ONLY <1>0, <3>1 DEF Keeps, Refuses, AddMoves, BetweenMoves, Added, Passes, Becomes,
                             SlotPcs, SnapPcs
    <3>2. CASE InitializeMetadata \/ FinishCleanup \/ ForgetRoom \/ EndRequest
      BY ONLY <1>0, <3>2 DEF BetweenMoves, GoesTo, Becomes, EndsUp, Ready, SlotPcs, SnapPcs
    <3> QED BY ONLY ~SlotSteps, <1>4, <3>1, <3>2 DEF SlotSteps, SnapSteps, GraceSteps,
                                                     BetweenEdges
  <2> QED BY <2>1, <2>2
<1> QED BY ONLY [Next]_vars, ~SlotSteps, <1>1, <1>2, <1>3, <1>4, Sorted DEF SlotSteps

LEMMA SnapAccountNext ==
  Typed /\ Tokens /\ SnapAccount /\ [Next]_vars => SnapAccount'
<1> SUFFICES ASSUME Typed, Tokens, SnapAccount, [Next]_vars PROVE SnapAccount'
  OBVIOUS
<1> DEFINE N == Cardinality(DOMAIN snapshots)
<1>0. /\ snapUsed \in Nat /\ leaked.snap \in Nat /\ N \in Nat
      /\ IsFiniteSet(DOMAIN snapshots)
      /\ BetweenMoves /\ StartMoves /\ Unwritten
      /\ rt.pc = "idle" => rt = Ready
      /\ rt.op = "resume" => rt.old \in Sessions
  BY TypedParts, FiniteSessions, BetweenMovesHold, StartMovesHold, Writers
     DEF SnapTyped, EnvTyped, RtTyped, OpOfPc, RtIs
<1>1. snapUsed = N + leaked.snap + SnapHeld
  BY DEF SnapAccount
<1>2. SnapHeld = IF rt.pc \in SnapPcs THEN 1 ELSE 0
  BY DEF SnapHeld
<1>3. ASSUME NEW n, snapUsed' = n + leaked'.snap + (IF rt'.pc \in SnapPcs THEN 1 ELSE 0),
             Cardinality(DOMAIN snapshots') = n
      PROVE  SnapAccount'
  BY <1>3 DEF SnapAccount, SnapHeld
<1>l. ~Crash => leaked' = leaked
  BY LeakedKept
<1>4. CASE Crash
  <2>1. rt'.pc \notin SnapPcs /\ UNCHANGED <<snapUsed, snapshots>>
    BY <1>4 DEF Crash, Ready, SnapPcs, snapVars
  <2>2. leaked'.snap = leaked.snap + (IF rt.pc \in SnapPcs THEN 1 ELSE 0)
    BY <1>4 DEF Crash
  <2> HIDE DEF N
  <2>3. snapUsed' = N + leaked'.snap + (IF rt'.pc \in SnapPcs THEN 1 ELSE 0)
    BY ONLY <1>0, <1>1, <1>2, <2>1, <2>2
  <2> QED BY <1>3, <2>1, <2>3 DEF N
<1>5. CASE ~SnapSteps /\ ~Crash
  <2>1. UNCHANGED <<snapshots, snapUsed, leaked>>
    BY <1>0, <1>5, LeakedKept DEF Unwritten, snapVars
  <2>2. UNCHANGED rt \/ (rt.pc \notin SnapPcs /\ rt'.pc \notin SnapPcs)
    <3>1. CASE GraceSteps
      <4>1. rt.pc \in {"idle", "consume", "grace", "grace_insert", "forget_grace", "give_grace"}
        BY ONLY <3>1 DEF GraceSteps, GraceMail, ExpireGrace, ConsumeGrace, ReserveGrace,
                         StoreGrace, ForgetGrace, GiveGraceSlots, Serving, RtIs
      <4>2. UNCHANGED rt \/ rt'.pc \in {"idle", "next", "grace_insert", "give_grace"}
        BY ONLY <1>0, <3>1 DEF GraceSteps, GraceMail, StartMoves, BetweenMoves, Begins,
                               Passes, GoesTo, Becomes, EndsUp, Ready
      <4> QED BY <4>1, <4>2 DEF SnapPcs
    <3> QED BY <1>5, <3>1, SlotsElsewhere DEF SlotSteps, SlotPcs
  <2> QED BY <1>1, <1>2, <1>3, <2>1, <2>2
<1>6. CASE Resumed
  <2>1. PICK old, s \in Sessions : Resume(old, s)
    BY <1>6 DEF Resumed
  <2>2. Begins("create", "resume", s, None, {s} \X snapshots[old].items, old)
    BY ONLY <1>0, <2>1 DEF StartMoves
  <2>3. /\ rt.pc = "idle" /\ rt'.pc = "create" /\ snapUsed' = snapUsed
        /\ old \in DOMAIN snapshots /\ snapshots' = Drop(snapshots, {old})
    BY <2>1, <2>2 DEF Resume, Accepting, RtIs, Begins
  <2>4. Cardinality(DOMAIN snapshots') = N - 1
    BY <1>0, <2>3, CountDrop
  <2>5. UNCHANGED leaked
    BY <2>1 DEF Resume, envVars
  <2> HIDE DEF N
  <2>6. snapUsed' = (N - 1) + leaked'.snap + (IF rt'.pc \in SnapPcs THEN 1 ELSE 0)
    BY ONLY <1>0, <1>1, <1>2, <2>3, <2>5 DEF SnapPcs
  <2> QED BY <1>3, <2>4, <2>6
<1>7. CASE SnapMail
  <2>1. PICK m \in casts : ExpireSnapshot(m[1][2], m[2])
    BY <1>7 DEF SnapMail
  <2> DEFINE s == m[1][2]
  <2>2. /\ rt.pc = "idle" /\ UNCHANGED <<snapUsed, leaked>>
        /\ snapshots' = Drop(snapshots, {s})
        /\ rt' = IF s \in DOMAIN snapshots THEN [Ready EXCEPT !.pc = "give_snap"] ELSE rt
    BY <2>1 DEF ExpireSnapshot, Serving, RtIs, envVars
  <2>3. rt'.pc = IF s \in DOMAIN snapshots THEN "give_snap" ELSE "idle"
    BY <2>2 DEF Ready
  <2>4. Cardinality(DOMAIN snapshots') = IF s \in DOMAIN snapshots THEN N - 1 ELSE N
    BY <1>0, <2>2, CountDrop
  <2> HIDE DEF N, s
  <2>5. snapUsed' = (IF s \in DOMAIN snapshots THEN N - 1 ELSE N) + leaked'.snap
                      + (IF rt'.pc \in SnapPcs THEN 1 ELSE 0)
    BY ONLY <1>0, <1>1, <1>2, <2>2, <2>3 DEF SnapPcs
  <2> QED BY <1>3, <2>4, <2>5
<1>8. CASE ReserveSnapshot
  <2>1. rt.pc = "snapshot" /\ UNCHANGED <<snapshots, leaked>>
    BY <1>8 DEF ReserveSnapshot, RtIs, envVars
  <2>2. \/ snapUsed' = snapUsed + 1 /\ rt' = [rt EXCEPT !.pc = "snap_insert"]
        \/ /\ snapUsed' = snapUsed
           /\ rt' = [rt EXCEPT !.pc = "next", !.todo = ReverseOf(rt.s, Kinds)]
    BY ONLY <1>8 DEF ReserveSnapshot
  <2>3. \/ snapUsed' = snapUsed + 1 /\ rt'.pc = "snap_insert"
        \/ snapUsed' = snapUsed /\ rt'.pc = "next"
    BY <2>2, TypedParts DEF RtTyped, RtType
  <2> HIDE DEF N
  <2>4. snapUsed' = N + leaked'.snap + (IF rt'.pc \in SnapPcs THEN 1 ELSE 0)
    BY ONLY <1>0, <1>1, <1>2, <2>1, <2>3 DEF SnapPcs
  <2> QED BY <1>3, <2>1, <2>4 DEF N
(* A row that is kept takes the slot that is held, one that is not gives   *)
(* it back.                                                                *)
<1>9. ASSUME NEW s \in Sessions, NEW row, s \notin DOMAIN snapshots, KeepSnapshot(s, row),
             rt.pc \in SnapPcs, rt'.pc \notin SnapPcs, UNCHANGED leaked
      PROVE  SnapAccount'
  <2>1. CASE CanSchedule(SnapKey(s))
    <3>1. snapshots' = Put(snapshots, s, row) /\ snapUsed' = snapUsed
      BY <1>9, <2>1 DEF KeepSnapshot
    <3>2. Cardinality(DOMAIN snapshots') = N + 1
      BY <1>0, <1>9, <3>1, CountPut
    <3> HIDE DEF N
    <3>3. snapUsed' = (N + 1) + leaked'.snap + (IF rt'.pc \in SnapPcs THEN 1 ELSE 0)
      BY ONLY <1>0, <1>1, <1>2, <1>9, <3>1
    <3> QED BY <1>3, <3>2, <3>3
  <2>2. CASE ~CanSchedule(SnapKey(s))
    <3>1. snapshots' = snapshots /\ snapUsed' = Less(snapUsed)
      BY <1>9, <2>2 DEF KeepSnapshot
    <3> HIDE DEF N
    <3>2. snapUsed' = N + leaked'.snap + (IF rt'.pc \in SnapPcs THEN 1 ELSE 0)
      BY ONLY <1>0, <1>1, <1>2, <1>9, <3>1 DEF Less
    <3> QED BY <1>3, <3>1, <3>2 DEF N
  <2> QED BY <2>1, <2>2
<1>10. CASE StoreSnapshot
  <2>1. rt.pc = "snap_insert" /\ UNCHANGED leaked
    BY <1>10 DEF StoreSnapshot, RtIs, envVars
  <2>2. rt'.pc = "next"
    BY ONLY <1>0, <1>10 DEF BetweenMoves, Becomes
  <2>3. rt.s \in Sessions /\ rt.s \notin DOMAIN snapshots
    BY <2>1, TypedParts DEF Tokens, TokenFree, RtTyped, OpOfPc, CurOfPc
  <2>4. \E row : KeepSnapshot(rt.s, row)
    BY <1>10 DEF StoreSnapshot
  <2> QED BY <1>9, <2>1, <2>2, <2>3, <2>4 DEF SnapPcs
<1>11. ASSUME rt.pc \in SnapPcs, rt'.pc \notin SnapPcs, UNCHANGED <<snapshots, leaked>>,
              snapUsed' = Less(snapUsed)
       PROVE  SnapAccount'
  <2> HIDE DEF N
  <2>1. snapUsed' = N + leaked'.snap + (IF rt'.pc \in SnapPcs THEN 1 ELSE 0)
    BY ONLY <1>0, <1>1, <1>2, <1>11 DEF Less
  <2> QED BY <1>3, <1>11, <2>1 DEF N
<1>12. CASE CreateResumed
  <2>0. rt.pc = "create" /\ UNCHANGED leaked
    BY <1>12 DEF CreateResumed, RtIs, envVars
  <2>1. rt.old \in Sessions /\ rt.old \notin DOMAIN snapshots
    BY <2>0, TypedParts DEF Tokens, TokenFree, RtTyped, OpOfPc, RtIs
  <2>2. CASE HasRoomFor(rt.s)
    <3>1. UNCHANGED <<snapshots, snapUsed>>
      BY <1>12, <2>2 DEF CreateResumed, snapVars
    <3>2. rt' = [rt EXCEPT !.pc = "restore"]
      BY <1>12, <2>2 DEF CreateResumed, Goto
    <3>3. rt'.pc = "restore"
      BY <3>2, TypedParts DEF RtTyped, RtType
    <3> QED BY <1>1, <1>2, <1>3, <2>0, <3>1, <3>3 DEF SnapPcs
  <2>3. CASE ~HasRoomFor(rt.s)
    <3>0. rt' = Ready
      BY ONLY <1>12, <2>3 DEF CreateResumed
    <3>1. rt'.pc = "idle"
      BY ONLY <3>0 DEF Ready
    <3>2. \/ \E row : KeepSnapshot(rt.old, row)
          \/ UNCHANGED snapshots /\ snapUsed' = Less(snapUsed)
      BY ONLY <1>12, <2>3 DEF CreateResumed
    <3> QED BY <1>9, <1>11, <2>0, <2>1, <3>1, <3>2 DEF SnapPcs
  <2> QED BY <2>2, <2>3
<1>13. CASE RestoreEdges \/ GiveSnapshotSlot
  <2>1. /\ rt.pc \in {"restore", "give_snap"} /\ UNCHANGED <<snapshots, leaked>>
        /\ snapUsed' = Less(snapUsed)
    BY <1>13 DEF RestoreEdges, GiveSnapshotSlot, RtIs, envVars
  <2>2. rt'.pc \in {"next", "idle"}
    BY ONLY <1>0, <1>13 DEF BetweenMoves, GoesTo, Becomes, EndsUp, Ready
  <2> QED BY <1>11, <2>1, <2>2 DEF SnapPcs
<1> QED BY <1>4, <1>5, <1>6, <1>7, <1>8, <1>10, <1>12, <1>13 DEF SnapSteps

LEMMA GraceAccountNext ==
  Typed /\ Tokens /\ GracesApart /\ Invited /\ GraceAccount /\ [Next]_vars => GraceAccount'
<1> SUFFICES ASSUME Typed, Tokens, GracesApart, Invited, GraceAccount, [Next]_vars
             PROVE  GraceAccount'
  OBVIOUS
<1> DEFINE N == Cardinality(DOMAIN grace)
           Held(pc, n) == IF pc = "grace_insert" THEN 1 ELSE IF pc = "give_grace" THEN n ELSE 0
<1>0. /\ graceUsed \in Nat /\ leaked.grace \in Nat /\ N \in Nat /\ rt.n \in Nat
      /\ IsFiniteSet(DOMAIN grace) /\ DOMAIN grace \subseteq RoomEdges
      /\ BetweenMoves /\ StartMoves /\ Unwritten
      /\ rt.pc = "idle" => rt = Ready
      /\ rt \in RtType
  <2>1. DOMAIN grace \in SUBSET Edges
    BY TypedParts, RoomsAreItems DEF GraceTyped
  <2> QED BY <2>1, TypedParts, FiniteEdges, BetweenMovesHold, StartMovesHold, Writers
             DEF GraceTyped, EnvTyped, RtTyped, RtType, OpOfPc, RtIs
<1>1. graceUsed = N + leaked.grace + Held(rt.pc, rt.n)
  BY DEF GraceAccount, GraceHeld, RtIs
<1>3. ASSUME NEW n, graceUsed' = n + leaked'.grace + Held(rt'.pc, rt'.n),
             Cardinality(DOMAIN grace') = n
      PROVE  GraceAccount'
  BY <1>3 DEF GraceAccount, GraceHeld, RtIs
<1>4. CASE Crash
  <2>1. /\ Held(rt'.pc, rt'.n) = 0 /\ UNCHANGED <<graceUsed, grace>>
        /\ leaked'.grace = leaked.grace + Held(rt.pc, rt.n)
    BY <1>4 DEF Crash, Ready, graceVars, RtIs
  <2>2. Held(rt.pc, rt.n) \in Nat
    BY <1>0
  <2> HIDE DEF N, Held
  <2>3. graceUsed' = N + leaked'.grace + Held(rt'.pc, rt'.n)
    BY ONLY <1>0, <1>1, <2>1, <2>2
  <2> QED BY <1>3, <2>1, <2>3 DEF N
<1>5. CASE ~GraceSteps /\ ~Crash
  <2>1. UNCHANGED <<grace, graceUsed, leaked>>
    BY <1>0, <1>5, LeakedKept DEF Unwritten, graceVars
  <2>2. UNCHANGED rt \/ (Held(rt.pc, rt.n) = 0 /\ Held(rt'.pc, rt'.n) = 0)
    <3>1. CASE SnapSteps
      <4>1. rt.pc \in {"idle", "snapshot", "snap_insert", "create", "restore", "give_snap"}
        BY ONLY <3>1 DEF SnapSteps, Resumed, Resume, SnapMail, ExpireSnapshot, ReserveSnapshot,
           StoreSnapshot, CreateResumed, RestoreEdges, GiveSnapshotSlot, Serving, Accepting,
           RtIs
      <4>2. UNCHANGED rt \/ rt'.pc \in {"idle", "next", "create", "give_snap", "snap_insert",
                                        "restore"}
        BY ONLY <1>0, <3>1 DEF SnapSteps, Resumed, SnapMail, StartMoves, BetweenMoves, Begins,
                               GoesTo, Becomes, EndsUp, Ready
      <4> QED BY <4>1, <4>2
    <3>2. CASE ~SnapSteps
      BY <1>5, <3>2, SlotsElsewhere DEF SlotSteps, SlotPcs
    <3> QED BY <3>1, <3>2
  <2> QED BY <1>1, <1>3, <2>1, <2>2
<1>l. GraceSteps => leaked' = leaked
  BY LeakedKept DEF GraceSteps, GraceMail, ExpireGrace, ConsumeGrace, ReserveGrace, StoreGrace,
                    ForgetGrace, GiveGraceSlots, envVars
<1>6. CASE GraceMail
  <2>1. PICK m \in casts : ExpireGrace(m[1][2], m[1][3], m[2])
    BY <1>6 DEF GraceMail
  <2> DEFINE key == <<m[1][2], m[1][3]>>
  <2>2. /\ rt.pc = "idle" /\ UNCHANGED graceUsed /\ grace' = Drop(grace, {key})
        /\ rt' = IF key \in DOMAIN grace THEN [Ready EXCEPT !.pc = "give_grace", !.n = 1] ELSE rt
    BY <2>1 DEF ExpireGrace, Serving, RtIs
  <2>3. Held(rt.pc, rt.n) = 0 /\ Held(rt'.pc, rt'.n) = IF key \in DOMAIN grace THEN 1 ELSE 0
    BY <2>2 DEF Ready
  <2>4. Cardinality(DOMAIN grace') = IF key \in DOMAIN grace THEN N - 1 ELSE N
    BY <1>0, <2>2, CountDrop
  <2>5. leaked' = leaked
    BY <1>l, <1>6 DEF GraceSteps
  <2> HIDE DEF N, key, Held
  <2>6. graceUsed' = (IF key \in DOMAIN grace THEN N - 1 ELSE N) + leaked'.grace
                       + Held(rt'.pc, rt'.n)
    BY ONLY <1>0, <1>1, <2>2, <2>3, <2>5
  <2> QED BY <1>3, <2>4, <2>6
<1>7. CASE ConsumeGrace
  <2> DEFINE key == <<rt.old, rt.cur[2]>>
  <2>1. rt.pc = "consume" /\ grace' = Drop(grace, {key}) /\ graceUsed' = Less(graceUsed)
    BY <1>7 DEF ConsumeGrace, RtIs
  <2>2. key \in DOMAIN grace
    BY <2>1, TypedParts DEF Invited, RtTyped, OpOfPc, RtIs, RoomEdges
  <2>3. rt'.pc = "next"
    BY ONLY <1>0, <1>7 DEF BetweenMoves, Passes, Becomes
  <2>4. Held(rt.pc, rt.n) = 0 /\ Held(rt'.pc, rt'.n) = 0
    BY <2>1, <2>3
  <2>5. Cardinality(DOMAIN grace') = N - 1 /\ N # 0
    BY <1>0, <2>1, <2>2, CountDrop, FS_EmptySet
  <2>6. leaked' = leaked
    BY <1>l, <1>7 DEF GraceSteps
  <2> HIDE DEF N, key, Held
  <2>7. graceUsed' = (N - 1) + leaked'.grace + Held(rt'.pc, rt'.n)
    BY ONLY <1>0, <1>1, <2>1, <2>4, <2>5, <2>6 DEF Less
  <2> QED BY <1>3, <2>5, <2>7
<1>8. CASE ReserveGrace
  <2>1. /\ rt.pc = "grace" /\ UNCHANGED grace
        /\ \/ graceUsed' = graceUsed + 1 /\ rt' = [rt EXCEPT !.pc = "grace_insert"]
           \/ graceUsed' = graceUsed /\ rt' = [rt EXCEPT !.pc = "next", !.todo = @ \ {rt.cur}]
    BY ONLY <1>8 DEF ReserveGrace, Goto, RtIs
  <2>2. \/ graceUsed' = graceUsed + 1 /\ rt'.pc = "grace_insert"
        \/ graceUsed' = graceUsed /\ rt'.pc = "next"
    BY ONLY <1>0, <2>1 DEF RtType
  <2>3. \/ graceUsed' = graceUsed + 1 /\ Held(rt'.pc, rt'.n) = 1
        \/ graceUsed' = graceUsed /\ Held(rt'.pc, rt'.n) = 0
    BY <2>2
  <2>4. Held(rt.pc, rt.n) = 0
    BY <2>1
  <2>5. leaked' = leaked
    BY <1>l, <1>8 DEF GraceSteps
  <2> HIDE DEF N, Held
  <2>6. graceUsed' = N + leaked'.grace + Held(rt'.pc, rt'.n)
    BY ONLY <1>0, <1>1, <2>3, <2>4, <2>5
  <2> QED BY <1>3, <2>1, <2>6 DEF N
<1>9. CASE StoreGrace
  <2> DEFINE key == <<rt.s, rt.cur[2]>>
  <2>1. rt.pc = "grace_insert"
    BY <1>9 DEF StoreGrace, RtIs
  <2>2. key \notin DOMAIN grace
    <3>1. rt.cur \in RoomEdges /\ rt.cur \in rt.todo /\ rt.op = "cleanup" /\ rt.cur[1] = rt.s
      BY <2>1, TypedParts DEF RtTyped, OpOfPc, CurOfPc, GracePcs
    <3>2. rt.cur = key
      BY <3>1 DEF RoomEdges
    <3> QED BY <3>1, <3>2 DEF GracesApart
  <2>3. rt'.pc = "next"
    BY ONLY <1>0, <1>9 DEF BetweenMoves, Passes, Becomes
  <2>4. Held(rt.pc, rt.n) = 1 /\ Held(rt'.pc, rt'.n) = 0
    BY <2>1, <2>3
  <2>5. leaked' = leaked
    BY <1>l, <1>9 DEF GraceSteps
  <2>6. \/ grace' = Put(grace, key, now + GraceTtl) /\ graceUsed' = graceUsed
        \/ grace' = grace /\ graceUsed' = Less(graceUsed)
    BY ONLY <1>9 DEF StoreGrace
  <2>7. \/ Cardinality(DOMAIN grace') = N + 1 /\ graceUsed' = graceUsed
        \/ Cardinality(DOMAIN grace') = N /\ graceUsed' = Less(graceUsed)
    BY <1>0, <2>2, <2>6, CountPut
  <2> HIDE DEF N, key, Held
  <2>8. \E n : /\ Cardinality(DOMAIN grace') = n
               /\ graceUsed' = n + leaked'.grace + Held(rt'.pc, rt'.n)
    <3>1. graceUsed = N + leaked.grace + 1
      BY ONLY <1>1, <2>4
    <3>2. graceUsed' = graceUsed => graceUsed' = (N + 1) + leaked'.grace + 0
      BY ONLY <1>0, <2>5, <3>1
    <3>3. graceUsed' = Less(graceUsed) => graceUsed' = N + leaked'.grace + 0
      BY ONLY <1>0, <2>5, <3>1 DEF Less
    <3> QED BY ONLY <2>4, <2>7, <3>2, <3>3
  <2> QED BY <1>3, <2>8
<1>10. CASE ForgetGrace
  <2> DEFINE gone == {key \in DOMAIN grace : key[2] = rt.cur[2]}
             G == Cardinality(gone)
             L == Cardinality(DOMAIN grace \ gone)
  <2>1. rt.pc = "forget_grace" /\ UNCHANGED graceUsed
    BY <1>10 DEF ForgetGrace, RtIs
  <2>2. rt' = [rt EXCEPT !.pc = "give_grace", !.n = G]
    BY ONLY <1>10 DEF ForgetGrace
  <2>3. DOMAIN grace' = DOMAIN grace \ gone
    BY <1>10 DEF ForgetGrace, Drop, Restrict
  <2>4. G \in Nat /\ L \in Nat /\ L = N - G
    <3>1. gone \subseteq DOMAIN grace
      OBVIOUS
    <3> HIDE DEF gone
    <3>2. IsFiniteSet(gone) /\ IsFiniteSet(DOMAIN grace \ gone)
      BY <1>0, <3>1, FS_Subset
    <3>3. DOMAIN grace \cap gone = gone
      BY <3>1
    <3>4. L = N - G
      BY <1>0, <3>3, FS_Difference
    <3> QED BY <3>2, <3>4, FS_CardinalityType
  <2> HIDE DEF gone
  <2>5. rt'.pc = "give_grace" /\ rt'.n = G
    BY ONLY <1>0, <2>2 DEF RtType
  <2>6. Held(rt.pc, rt.n) = 0 /\ Held(rt'.pc, rt'.n) = G
    BY <2>1, <2>5
  <2>7. leaked' = leaked
    BY <1>l, <1>10 DEF GraceSteps
  <2>8. Cardinality(DOMAIN grace') = L
    BY <2>3
  <2> HIDE DEF N, Held, G, L
  <2>9. graceUsed' = L + leaked'.grace + Held(rt'.pc, rt'.n)
    BY ONLY <1>0, <1>1, <2>1, <2>4, <2>6, <2>7
  <2> QED BY <1>3, <2>8, <2>9
<1>11. CASE GiveGraceSlots
  <2>1. /\ rt.pc = "give_grace" /\ UNCHANGED grace /\ rt' = Ready
        /\ graceUsed' = IF graceUsed < rt.n THEN 0 ELSE graceUsed - rt.n
    BY <1>11 DEF GiveGraceSlots, RtIs
  <2>2. Held(rt.pc, rt.n) = rt.n /\ Held(rt'.pc, rt'.n) = 0
    BY <2>1 DEF Ready
  <2>3. leaked' = leaked
    BY <1>l, <1>11 DEF GraceSteps
  <2> HIDE DEF N, Held
  <2>4. graceUsed' = N + leaked'.grace + Held(rt'.pc, rt'.n)
    BY ONLY <1>0, <1>1, <2>1, <2>2, <2>3
  <2> QED BY <1>3, <2>1, <2>4 DEF N
<1> QED BY <1>4, <1>5, <1>6, <1>7, <1>8, <1>9, <1>10, <1>11 DEF GraceSteps

-----------------------------------------------------------------------------
(* The expiry of a room, step by step.                                     *)
LEMMA ExpirySteps ==
  ASSUME Typed, [Next]_vars, rt.op = "expire"
  PROVE  \/ UNCHANGED <<rt, roomState, edgeVars, graceVars>>
         \/ Takes \/ UnindexEdge \/ DeactivateBucket \/ UncountEdge
         \/ ForgetRoom \/ ForgetGrace \/ GiveGraceSlots \/ Crash
<1> USE DEF RtIs, Adding
<1>0. /\ rt.pc \notin {"idle", "down", "metadata", "consume", "snapshot", "snap_insert", "grace",
                       "grace_insert", "create", "restore", "give_snap"} \cup EdgePcs
      /\ ~Adding
  BY DEF Typed, OpOfPc, Ready, GracePcs
<1>1. CASE Outside
  <2>1. ~Deadlines
    BY <1>0 DEF Deadlines, SetRoomDeadline, Accepting
  <2> QED BY ONLY <1>1, <2>1 DEF Outside, Tick, Owners, OwnerExit, Connects, Connect, Drains,
             SetDraining, TimersFire, ExpireTimer, LoseTimer, vars
<1>2. ~TakenUp
  BY ONLY <1>0 DEF TakenUp, Started, Start, AddMany, RemoveMany, Sync, JoinWithMetadata,
     ResumeRoom, Ended, BeginCleanup, Resumed, Resume, SnapMail, ExpireSnapshot,
     GraceMail, ExpireGrace, RoomMail, ExpireRoom, Serving, Accepting, RtIs
<1>3. CASE EdgeSteps
  BY ONLY <1>0, <1>3 DEF EdgeSteps, Inserts, InsertEdge, ActivateBucket, IndexEdge, CountEdge,
                         Reconcile, EdgePcs, RtIs
<1>4. CASE BetweenEdges
  BY ONLY <1>0, <1>4, rt.op = "expire" DEF BetweenEdges, Keeps, KeepEdge, Refuses, RefuseEdge,
     InitializeMetadata, ConsumeGrace, ReserveSnapshot, StoreSnapshot, ReserveGrace,
     StoreGrace, FinishCleanup, CreateResumed, RestoreEdges, GiveSnapshotSlot, EndRequest, RtIs
<1> QED BY ONLY [Next]_vars, <1>1, <1>2, <1>3, <1>4, Sorted

(* A room that is being expired keeps its name, and is without state from  *)
(* the moment its graces are taken.                                        *)
Late == {"forget_grace", "give_grace"}
Forgets == rt.op = "expire" /\ rt.pc \in Late => rt.cur[2] \notin DOMAIN roomState

LEMMA ExpiryKeeps ==
  ASSUME Typed, [Next]_vars, rt.op = "expire"
  PROVE  \/ UNCHANGED rt
         \/ rt'.op = "expire" /\ rt'.cur[2] = rt.cur[2]
         \/ GiveGraceSlots \/ Crash
<1>0. EdgeMoves /\ BetweenMoves /\ \A e \in rt.todo : e[2] = rt.cur[2]
  BY EdgeMovesHold, BetweenMovesHold DEF Typed, CurOfPc
<1>1. CASE Takes
  <2>1. PICK e \in rt.todo : TakeEdge(e)
    BY <1>1 DEF Takes
  <2>2. rt'.op = rt.op /\ rt'.cur \in {e, rt.cur}
    BY ONLY <1>0, <2>1 DEF EdgeMoves, Passes, Becomes
  <2> QED BY <1>0, <2>2
<1>2. CASE UnindexEdge \/ DeactivateBucket \/ UncountEdge \/ ForgetRoom \/ ForgetGrace
  <2>1. rt'.op = rt.op /\ rt'.cur = rt.cur
    BY ONLY <1>0, <1>2 DEF EdgeMoves, BetweenMoves, Passes, GoesTo, Becomes
  <2> QED BY <2>1
<1> QED BY <1>1, <1>2, ExpirySteps

(* The last steps of an expiry follow each other.                          *)
LEMMA LateSteps ==
  ASSUME Typed, [Next]_vars, rt'.op = "expire", rt'.pc \in Late
  PROVE  UNCHANGED <<rt, roomState, edgeVars, graceVars>> \/ ForgetRoom \/ ForgetGrace
<1>0. EdgeMoves /\ BetweenMoves /\ StartMoves
  BY EdgeMovesHold, BetweenMovesHold, StartMovesHold
<1>1. CASE rt.op = "expire"
  <2>1. ~(Takes \/ UnindexEdge \/ DeactivateBucket \/ UncountEdge)
    BY ONLY <1>0, rt'.pc \in Late DEF Takes, EdgeMoves, Passes, GoesTo, Becomes, Late
  <2>2. ~(GiveGraceSlots \/ Crash)
    BY ONLY <1>0, rt'.op = "expire" DEF BetweenMoves, EndsUp, Ready, Crash
  <2> QED BY <1>1, <2>1, <2>2, ExpirySteps
<1>2. CASE rt.op # "expire"
  <2>1. ~UNCHANGED rt /\ ~EndsUp /\ ~Crash
    BY <1>2 DEF EndsUp, Crash, Ready
  <2>2. ~Continues
    BY <1>2 DEF Continues
  <2>3. CASE TakenUp
    <3>1. CASE Started
      BY ONLY <1>0, <3>1, rt'.op = "expire" DEF Started, StartMoves, Begins
    <3>2. CASE Ended \/ Resumed
      BY ONLY <1>0, <3>2, rt'.op = "expire" DEF Ended, Resumed, StartMoves, Begins
    <3>3. CASE SnapMail \/ GraceMail \/ RoomMail
      BY ONLY <1>0, <2>1, <3>3, rt'.op = "expire", rt'.pc \in Late
         DEF SnapMail, GraceMail, RoomMail, StartMoves, Begins, Late
    <3> QED BY ONLY <2>3, <3>1, <3>2, <3>3 DEF TakenUp
  <2> QED BY <2>1, <2>2, <2>3, Goings
<1> QED BY <1>1, <1>2

LEMMA ForgetsNext == Typed /\ Forgets /\ [Next]_vars => Forgets'
<1> SUFFICES ASSUME Typed, Forgets, [Next]_vars, rt'.op = "expire", rt'.pc \in Late
             PROVE  rt'.cur[2] \notin DOMAIN roomState'
  BY DEF Forgets
<1>0. BetweenMoves
  BY BetweenMovesHold
<1>1. CASE UNCHANGED <<rt, roomState>>
  BY <1>1 DEF Forgets
<1>2. CASE ForgetRoom
  <2>1. rt'.cur = rt.cur
    BY ONLY <1>0, <1>2 DEF BetweenMoves, GoesTo, Becomes
  <2>2. DOMAIN roomState' = DOMAIN roomState \ {rt.cur[2]}
    BY <1>2 DEF ForgetRoom, Drop, Restrict
  <2> QED BY <2>1, <2>2
<1>3. CASE ForgetGrace
  <2>1. rt'.cur = rt.cur /\ rt'.op = rt.op
    BY ONLY <1>0, <1>3 DEF BetweenMoves, GoesTo, Becomes
  <2> QED BY <1>3, <2>1 DEF ForgetGrace, Forgets, RtIs, Late
<1> QED BY <1>1, <1>2, <1>3, LateSteps

-----------------------------------------------------------------------------
(* Deadlines.  What is no longer pending is gone, or is being expired.     *)
Excused(k) ==
  \/ \E s : k = SnapKey(s) /\ s \notin DOMAIN snapshots
  \/ \E s, r : k = GraceKey(s, r) /\ <<s, r>> \notin DOMAIN grace
  \/ \E r : k = RoomKey(r) /\ \/ r \in DOMAIN roomState => roomState[r] = 0
                              \/ rt.op = "expire" /\ rt.cur[2] = r

LEMMA KeysApart ==
  /\ \A s, t : SnapKey(s) = SnapKey(t) => s = t
  /\ \A s, r, t, q : GraceKey(s, r) = GraceKey(t, q) => s = t /\ r = q
  /\ \A r, q : RoomKey(r) = RoomKey(q) => r = q
  /\ \A s, t, r : SnapKey(s) # GraceKey(t, r) /\ SnapKey(s) # RoomKey(r)
  /\ \A s, r, q : GraceKey(s, r) # RoomKey(q)
  BY DEF SnapKey, GraceKey, RoomKey

LEMMA DisturbedStays ==
  ASSUME [Next]_vars, ~disturbed'
  PROVE  /\ ~disturbed /\ ~Crash /\ \A k \in DOMAIN timers : ~LoseTimer(k)
<1>1. ~Crash /\ \A k : ~LoseTimer(k)
  BY DEF Crash, LoseTimer
<1>s. SUFFICES ~disturbed
  BY <1>1
<1>2. CASE Outside
  <2>1. CASE Deadlines
    BY <2>1 DEF Deadlines, SetRoomDeadline
  <2>2. CASE TimersFire
    BY <1>1, <2>2 DEF TimersFire, ExpireTimer, envVars
  <2>3. CASE ~Deadlines /\ ~TimersFire
    BY ONLY <1>2, <2>3, ~disturbed' DEF Outside, Tick, Owners, OwnerExit, Connects, Connect,
                                    Drains, SetDraining, vars, envVars
  <2> QED BY <1>1, <2>1, <2>2, <2>3
<1>3. CASE TakenUp
  <2>1. CASE RoomMail
    BY <2>1 DEF RoomMail, ExpireRoom
  <2>2. CASE ~RoomMail
    BY ONLY <1>3, <2>2, ~disturbed' DEF TakenUp, Started, Start, AddMany, RemoveMany, Sync,
       JoinWithMetadata, ResumeRoom, Ended, BeginCleanup, Resumed, Resume, SnapMail,
       ExpireSnapshot, GraceMail, ExpireGrace, envVars
  <2> QED BY <1>1, <2>1, <2>2
<1>4. CASE EdgeSteps
  BY ONLY <1>1, <1>4, ~disturbed' DEF EdgeSteps, Inserts, Takes, InsertEdge, TakeEdge, ActivateBucket,
     IndexEdge, CountEdge, UnindexEdge, DeactivateBucket, UncountEdge, Reconcile, envVars
<1>5. CASE BetweenEdges
  BY ONLY <1>1, <1>5, ~disturbed' DEF BetweenEdges, Keeps, Refuses, KeepEdge, RefuseEdge,
     InitializeMetadata, ConsumeGrace, ReserveSnapshot, StoreSnapshot, ReserveGrace,
     StoreGrace, FinishCleanup, CreateResumed, RestoreEdges, GiveSnapshotSlot, ForgetRoom,
     ForgetGrace, GiveGraceSlots, EndRequest, envVars
<1> QED BY ONLY [Next]_vars, <1>1, <1>2, <1>3, <1>4, <1>5, Sorted

LEMMA PendingKept ==
  ASSUME Typed, [Next]_vars, ~disturbed', NEW k, Pending(k)
  PROVE  Pending(k)' \/ Excused(k)'
<1>0. Unwritten /\ StartMoves /\ ~Crash /\ \A i \in DOMAIN timers : ~LoseTimer(i)
  BY Writers, StartMovesHold, DisturbedStays
(* What keeps the mailbox and every other timer, keeps what is pending.    *)
<1>m. ASSUME casts \subseteq casts', k \in DOMAIN timers => k \in DOMAIN timers'
      PROVE  Pending(k)'
  BY <1>m DEF Pending
<1>1. CASE UNCHANGED timeVars
  BY <1>1, <1>m DEF timeVars
<1>2. CASE TimersFire
  <2>1. PICK i \in DOMAIN timers : ExpireTimer(i)
    BY <1>0, <1>2 DEF TimersFire
  <2>2. /\ DOMAIN timers' = DOMAIN timers \ {i}
        /\ casts' = casts \cup {<<i, timers[i]>>}
    BY <2>1 DEF ExpireTimer, Mail, Drop, Restrict
  <2>3. CASE k = i
    <3>1. <<i, timers[i]>> \in casts' /\ <<i, timers[i]>>[1] = k
      BY <2>2, <2>3
    <3> QED BY <3>1 DEF Pending
  <2>4. CASE k # i
    BY <1>m, <2>2, <2>4
  <2> QED BY <2>3, <2>4
<1>3. CASE Deadlines
  <2>0. PICK s \in Sessions, r \in Rooms, ttl \in RoomTtls \cup {0} :
          SetRoomDeadline(s, r, IF ttl = 0 THEN 0 ELSE now + ttl)
    BY <1>3 DEF Deadlines
  <2> DEFINE d == IF ttl = 0 THEN 0 ELSE now + ttl
  <2>1. SetRoomDeadline(s, r, d)
    BY <2>0
  <2> HIDE DEF d
  <2>2. /\ casts' = casts /\ roomState' = Put(roomState, r, d)
        /\ timers' = IF d = 0 THEN Drop(timers, {RoomKey(r)})
                     ELSE IF CanSchedule(RoomKey(r)) THEN Put(timers, RoomKey(r), d) ELSE timers
    BY <2>1 DEF SetRoomDeadline
  <2>3. CASE d = 0 /\ k = RoomKey(r)
    <3>1. roomState'[r] = 0
      BY <2>2, <2>3 DEF Put
    <3> QED BY <2>3, <3>1 DEF Excused
  <2>4. CASE ~(d = 0 /\ k = RoomKey(r))
    <3>1. k \in DOMAIN timers => k \in DOMAIN timers'
      <4>1. CASE d = 0
        BY <2>2, <2>4, <4>1 DEF Drop, Restrict
      <4>2. CASE d # 0
        BY <2>2, <4>2 DEF Put
      <4> QED BY <4>1, <4>2
    <3> QED BY <1>m, <2>2, <3>1
  <2> QED BY <2>3, <2>4
<1>4. CASE Resumed
  <2>1. PICK old, s \in Sessions : Resume(old, s)
    BY <1>4 DEF Resumed
  <2>2. /\ casts' = casts /\ DOMAIN timers' = DOMAIN timers \ {SnapKey(old)}
        /\ DOMAIN snapshots' = DOMAIN snapshots \ {old}
    BY <2>1 DEF Resume, Drop, Restrict
  <2> QED BY <1>m, <2>2 DEF Excused
<1>c. ASSUME NEW i, NEW d, casts' = casts \ {Mail(i, d)}, DOMAIN timers \subseteq DOMAIN timers',
             Excused(i)' \/ Pending(i)'
      PROVE  Pending(k)' \/ Excused(k)'
  <2>1. CASE k = i
    BY <1>c, <2>1
  <2>2. CASE k # i
    <3>1. \A m \in casts : m[1] = k => m # Mail(i, d)
      BY <2>2 DEF Mail
    <3> QED BY <1>c, <3>1 DEF Pending
  <2> QED BY <2>1, <2>2
<1>5. CASE SnapMail
  <2>1. PICK m \in casts : ExpireSnapshot(m[1][2], m[2])
    BY <1>5 DEF SnapMail
  <2> DEFINE s == m[1][2]
  <2>2. /\ casts' = casts \ {Mail(SnapKey(s), m[2])} /\ timers' = timers
        /\ s \notin DOMAIN snapshots'
    BY <2>1 DEF ExpireSnapshot, Drop, Restrict
  <2> HIDE DEF s
  <2>3. Excused(SnapKey(s))'
    BY <2>2 DEF Excused, SnapKey
  <2> QED BY <1>c, <2>2, <2>3
<1>6. CASE GraceMail
  <2>1. PICK m \in casts : ExpireGrace(m[1][2], m[1][3], m[2])
    BY <1>6 DEF GraceMail
  <2> DEFINE s == m[1][2]  r == m[1][3]
  <2>2. /\ casts' = casts \ {Mail(GraceKey(s, r), m[2])} /\ timers' = timers
        /\ <<s, r>> \notin DOMAIN grace'
    BY <2>1 DEF ExpireGrace, Drop, Restrict
  <2> HIDE DEF s, r
  <2>3. Excused(GraceKey(s, r))'
    BY <2>2 DEF Excused, GraceKey
  <2> QED BY <1>c, <2>2, <2>3
<1>7. CASE RoomMail
  <2>1. PICK m \in casts : ExpireRoom(m[1][3], m[2])
    BY <1>7 DEF RoomMail
  <2> DEFINE r == m[1][3]
  <2>2. casts' = casts \ {Mail(RoomKey(r), m[2])} /\ roomState' = roomState
    BY <2>1 DEF ExpireRoom
  <2>3. \/ /\ timers' = timers
           /\ rt' = [Ready EXCEPT !.pc = "next", !.op = "expire", !.cur = <<None, r>>,
                                  !.todo = Reached(r)]
        \/ timers' = Put(timers, RoomKey(r), roomState[r])
        \/ timers' = timers /\ (r \in DOMAIN roomState => roomState[r] = 0)
    BY <2>1 DEF ExpireRoom
  <2> DEFINE R == Reached(r)  c == <<None, r>>
  <2>r. ASSUME rt' = [Ready EXCEPT !.pc = "next", !.op = "expire", !.cur = c, !.todo = R]
        PROVE  rt'.op = "expire" /\ rt'.cur[2] = r
    <3> HIDE DEF R, c, r
    <3>1. rt'.op = "expire" /\ rt'.cur = c
      BY ONLY <2>r DEF Ready
    <3> QED BY <3>1 DEF c
  <2> HIDE DEF r
  <2>4. \/ timers' = timers /\ rt'.op = "expire" /\ rt'.cur[2] = r
        \/ timers' = Put(timers, RoomKey(r), roomState[r])
        \/ timers' = timers /\ (r \in DOMAIN roomState => roomState[r] = 0)
    BY ONLY <2>3, <2>r DEF R, c
  <2>5. DOMAIN timers \subseteq DOMAIN timers' /\ (Excused(RoomKey(r))' \/ Pending(RoomKey(r))')
    <3>1. CASE timers' = Put(timers, RoomKey(r), roomState[r])
      BY <3>1 DEF Pending, Put
    <3>2. CASE timers' # Put(timers, RoomKey(r), roomState[r])
      <4>1. timers' = timers /\ (\/ r \in DOMAIN roomState' => roomState'[r] = 0
                                 \/ rt'.op = "expire" /\ rt'.cur[2] = r)
        BY ONLY <2>2, <2>4, <3>2
      <4> QED BY <4>1 DEF Excused, RoomKey
    <3> QED BY <3>1, <3>2
  <2> QED BY <1>c, <2>2, <2>5
<1>8. CASE ConsumeGrace
  <2>1. /\ casts' = casts /\ DOMAIN timers' = DOMAIN timers \ {GraceKey(rt.old, rt.cur[2])}
        /\ <<rt.old, rt.cur[2]>> \notin DOMAIN grace'
    BY <1>8 DEF ConsumeGrace, Drop, Restrict
  <2>2. CASE k = GraceKey(rt.old, rt.cur[2])
    BY <2>1, <2>2 DEF Excused
  <2>3. CASE k # GraceKey(rt.old, rt.cur[2])
    BY <1>m, <2>1, <2>3
  <2> QED BY <2>2, <2>3
<1>9. CASE StoreSnapshot \/ StoreGrace \/ CreateResumed
  <2>1. /\ casts' = casts
        /\ timers' = timers \/ \E i, v : timers' = Put(timers, i, v)
    BY <1>9 DEF StoreSnapshot, StoreGrace, CreateResumed, KeepSnapshot, sessVars, snapVars
  <2>2. DOMAIN timers \subseteq DOMAIN timers'
    BY <2>1 DEF Put
  <2> QED BY <1>m, <2>1, <2>2
<1> QED BY <1>0, <1>1, <1>2, <1>3, <1>4, <1>5, <1>6, <1>7, <1>8, <1>9 DEF Unwritten, TimeSteps

(* What is new is scheduled with it.                                       *)
LEMMA NewTimed ==
  ASSUME Typed, [Next]_vars, ~disturbed'
  PROVE  /\ \A s \in DOMAIN snapshots' : s \in DOMAIN snapshots \/ Pending(SnapKey(s))'
         /\ \A key \in DOMAIN grace' :
              key \in DOMAIN grace \/ Pending(GraceKey(key[1], key[2]))'
         /\ \A r \in DOMAIN roomState' :
              \/ r \in DOMAIN roomState /\ roomState'[r] = roomState[r]
              \/ roomState'[r] = 0
              \/ Pending(RoomKey(r))'
<1>0. Unwritten
  BY Writers
<1>k. ASSUME NEW s, NEW row, KeepSnapshot(s, row), NEW t \in DOMAIN snapshots'
      PROVE  t \in DOMAIN snapshots \/ Pending(SnapKey(t))'
  BY <1>k DEF KeepSnapshot, Pending, Put
<1>1. ASSUME NEW s \in DOMAIN snapshots'
      PROVE  s \in DOMAIN snapshots \/ Pending(SnapKey(s))'
  <2>1. CASE StoreSnapshot
    BY <1>1, <1>k, <2>1 DEF StoreSnapshot
  <2>2. CASE CreateResumed
    <3>1. UNCHANGED snapshots \/ \E row : KeepSnapshot(rt.old, row)
      BY ONLY <2>2 DEF CreateResumed, snapVars
    <3> QED BY <1>1, <1>k, <3>1
  <2>3. CASE ~StoreSnapshot /\ ~CreateResumed
    <3>1. snapshots' = snapshots \/ \E K : snapshots' = Drop(snapshots, K)
      BY <1>0, <2>3 DEF Unwritten, SnapSteps, snapVars, Resumed, Resume, SnapMail,
         ExpireSnapshot, ReserveSnapshot, RestoreEdges, GiveSnapshotSlot
    <3> QED BY <1>1, <3>1 DEF Drop, Restrict
  <2> QED BY <2>1, <2>2, <2>3
<1>2. ASSUME NEW key \in DOMAIN grace'
      PROVE  key \in DOMAIN grace \/ Pending(GraceKey(key[1], key[2]))'
  <2>1. CASE StoreGrace
    <3> DEFINE new == <<rt.s, rt.cur[2]>>
               i == GraceKey(rt.s, rt.cur[2])
    <3>1. \/ grace' = Put(grace, new, now + GraceTtl) /\ timers' = Put(timers, i, now + GraceTtl)
          \/ grace' = grace
      BY ONLY <2>1 DEF StoreGrace
    <3>2. i = GraceKey(new[1], new[2])
      OBVIOUS
    <3> HIDE DEF new, i
    <3>3. key \in DOMAIN grace \/ (key = new /\ i \in DOMAIN timers')
      BY ONLY <1>2, <3>1 DEF Put
    <3> QED BY <3>2, <3>3 DEF Pending
  <2>2. CASE ~StoreGrace
    <3>1. grace' = grace \/ \E K : grace' = Drop(grace, K)
      BY <1>0, <2>2 DEF Unwritten, GraceSteps, graceVars, GraceMail, ExpireGrace,
         ConsumeGrace, ReserveGrace, ForgetGrace, GiveGraceSlots
    <3> QED BY <1>2, <3>1 DEF Drop, Restrict
  <2> QED BY <2>1, <2>2
<1>3. ASSUME NEW r \in DOMAIN roomState'
      PROVE  \/ r \in DOMAIN roomState /\ roomState'[r] = roomState[r]
             \/ roomState'[r] = 0
             \/ Pending(RoomKey(r))'
  <2>1. CASE Deadlines
    <3>0. PICK s \in Sessions, q \in Rooms, ttl \in RoomTtls \cup {0} :
            SetRoomDeadline(s, q, IF ttl = 0 THEN 0 ELSE now + ttl)
      BY <2>1 DEF Deadlines
    <3> DEFINE d == IF ttl = 0 THEN 0 ELSE now + ttl
    <3>1. SetRoomDeadline(s, q, d)
      BY <3>0
    <3> HIDE DEF d
    <3>2. CASE q # r
      BY <1>3, <3>1, <3>2 DEF SetRoomDeadline, Put
    <3>3. CASE q = r
      <4>1. roomState'[r] = d
        BY <3>1, <3>3 DEF SetRoomDeadline, Put
      <4>2. d # 0 => RoomKey(r) \in DOMAIN timers'
        <5>1. /\ d # 0 => timers' = IF CanSchedule(RoomKey(r)) THEN Put(timers, RoomKey(r), d)
                                    ELSE timers
              /\ d # 0 => CanSchedule(RoomKey(r))
          BY ONLY <3>1, <3>3, ~disturbed' DEF SetRoomDeadline
        <5> QED BY ONLY <5>1 DEF Put
      <4> QED BY <4>1, <4>2 DEF Pending
    <3> QED BY <3>2, <3>3
  <2>2. CASE InitializeMetadata
    BY <1>3, <2>2 DEF InitializeMetadata, Put
  <2>3. CASE ForgetRoom
    BY <1>3, <2>3 DEF ForgetRoom, Drop, Restrict
  <2> QED BY <1>0, <1>3, <2>1, <2>2, <2>3 DEF Unwritten, RoomSteps
<1> QED BY <1>1, <1>2, <1>3

LEMMA TimersCoverNext == Typed /\ Forgets /\ TimersCover /\ [Next]_vars => TimersCover'
<1> SUFFICES ASSUME Typed, Forgets, TimersCover, [Next]_vars, ~disturbed'
             PROVE  /\ \A s \in DOMAIN snapshots' : Pending(SnapKey(s))'
                    /\ \A key \in DOMAIN grace' : Pending(GraceKey(key[1], key[2]))'
                    /\ \A r \in DOMAIN roomState' :
                         \/ roomState'[r] = 0
                         \/ Pending(RoomKey(r))'
                         \/ rt'.op = "expire" /\ rt'.cur[2] = r
  BY DEF TimersCover, Pending, SnapKey, GraceKey, RoomKey
<1>0. ~disturbed /\ ~Crash
  BY DisturbedStays
<1>g. DOMAIN grace' \subseteq RoomEdges
  BY TypedNext, TypedParts, GraceTypedNext DEF GraceTyped
<1>1. ASSUME NEW s \in DOMAIN snapshots' PROVE Pending(SnapKey(s))'
  <2>1. CASE s \in DOMAIN snapshots
    <3>1. Pending(SnapKey(s))
      BY <1>0, <2>1 DEF TimersCover
    <3>2. ~Excused(SnapKey(s))'
      BY <1>1, KeysApart DEF Excused
    <3> QED BY <3>1, <3>2, PendingKept
  <2> QED BY <1>1, <2>1, NewTimed
<1>2. ASSUME NEW key \in DOMAIN grace' PROVE Pending(GraceKey(key[1], key[2]))'
  <2>1. CASE key \in DOMAIN grace
    <3>1. Pending(GraceKey(key[1], key[2]))
      BY <1>0, <2>1 DEF TimersCover
    <3>2. key = <<key[1], key[2]>>
      BY <1>2, <1>g DEF RoomEdges
    <3>3. ~Excused(GraceKey(key[1], key[2]))'
      <4> DEFINE a == key[1]  b == key[2]
      <4>1. <<a, b>> \in DOMAIN grace'
        BY <1>2, <3>2
      <4> HIDE DEF a, b
      <4>2. ~Excused(GraceKey(a, b))'
        BY ONLY <4>1, KeysApart DEF Excused
      <4> QED BY ONLY <4>2 DEF a, b
    <3> QED BY <3>1, <3>3, PendingKept
  <2> QED BY <1>2, <2>1, NewTimed
<1>3. ASSUME NEW r \in DOMAIN roomState', roomState'[r] # 0,
             ~(rt'.op = "expire" /\ rt'.cur[2] = r)
      PROVE  Pending(RoomKey(r))'
  <2>1. CASE r \in DOMAIN roomState /\ roomState'[r] = roomState[r]
    <3>1. ~(rt.op = "expire" /\ rt.cur[2] = r)
      <4>1. SUFFICES ASSUME rt.op = "expire", rt.cur[2] = r PROVE FALSE
        OBVIOUS
      <4>2. GiveGraceSlots
        BY <1>0, <1>3, <4>1, ExpiryKeeps
      <4>3. rt.pc \in Late
        BY <4>2 DEF GiveGraceSlots, RtIs, Late
      <4> QED BY <2>1, <4>1, <4>3 DEF Forgets
    <3>2. Pending(RoomKey(r))
      BY <1>0, <1>3, <2>1, <3>1 DEF TimersCover
    <3>3. ~Excused(RoomKey(r))'
      BY <1>3, KeysApart DEF Excused
    <3> QED BY <3>2, <3>3, PendingKept
  <2> QED BY <1>3, <2>1, NewTimed
<1> QED BY <1>1, <1>2, <1>3

(* Everything the accounts of slots and deadlines rest on.                 *)
Returns == /\ Typed /\ Tokens /\ GracesApart /\ Invited /\ SnapAccount /\ GraceAccount
           /\ Forgets /\ TimersCover

LEMMA ReturnsInit == Init => Returns
<1> SUFFICES ASSUME Init PROVE Returns
  OBVIOUS
<1>1. /\ rt = Ready /\ snapshots = <<>> /\ grace = <<>> /\ roomState = <<>>
      /\ snapUsed = 0 /\ graceUsed = 0 /\ leaked = [snap |-> 0, grace |-> 0]
  BY DEF Init
<1>2. DOMAIN snapshots = {} /\ DOMAIN grace = {} /\ DOMAIN roomState = {}
  BY <1>1
<1>3. rt.pc = "idle" /\ rt.op = "none" /\ rt.n = 0 /\ leaked.snap = 0 /\ leaked.grace = 0
  BY <1>1 DEF Ready
<1>4. Tokens
  BY <1>3 DEF Init, Tokens, RtIs
<1>5. GracesApart /\ Invited /\ Forgets /\ TimersCover
  BY <1>2, <1>3 DEF GracesApart, Invited, Forgets, TimersCover, EdgePcs
<1>6. SnapAccount
  BY <1>1, <1>2, <1>3, FS_EmptySet DEF SnapAccount, SnapHeld, SnapPcs
<1>7. GraceAccount
  BY <1>1, <1>2, <1>3, FS_EmptySet DEF GraceAccount, GraceHeld, RtIs
<1> QED BY <1>4, <1>5, <1>6, <1>7, TypedInit DEF Returns

LEMMA ReturnsNext == Returns /\ [Next]_vars => Returns'
<1> SUFFICES ASSUME Returns, [Next]_vars PROVE Returns'
  OBVIOUS
<1>1. /\ Typed' /\ Tokens' /\ GracesApart' /\ Invited' /\ SnapAccount' /\ GraceAccount'
      /\ Forgets' /\ TimersCover'
  BY TypedNext, TokensNext, GracesApartNext, InvitedNext, SnapAccountNext, GraceAccountNext,
     ForgetsNext, TimersCoverNext DEF Returns
<1> QED BY <1>1 DEF Returns

(* Nothing that waits for a return outlives its slot or, unless a timer    *)
(* was lost, its deadline: the slots of resume_snapshots and room_grace    *)
(* are exactly those of the rows, of the step in progress and of crashes.  *)
THEOREM ReturnsAreSound == Spec => []ReturnsSound
<1>1. Returns => ReturnsSound
  BY DEF Returns, ReturnsSound, SlotsExact, SnapAccount, SnapHeld, GraceAccount, GraceHeld
<1> QED BY <1>1, ReturnsInit, ReturnsNext, PTL DEF Spec

(* Every deadline that is waited for has a timer, an expiry in the mailbox *)
(* or a room's expiry in progress, as long as no crash and no refusal took *)
(* a timer away.                                                           *)
THEOREM TimersAreCovered == Spec => []TimersCover
<1>1. Returns => TimersCover
  BY DEF Returns
<1> QED BY <1>1, ReturnsInit, ReturnsNext, PTL DEF Spec

-----------------------------------------------------------------------------
(* The indices.                                                            *)
LEMMA BitsFacts ==
  /\ Bits({}) = {}
  /\ \A e : Bits({e}) = {Bit(e)}
  /\ \A E, e : Bits(E \cup {e}) = Bits(E) \cup {Bit(e)}
  BY DEF Bits

(* What Indexed says at each step.                                         *)
LEMMA Shapes ==
  ASSUME NEW pc, NEW c, NEW E, NEW F, NEW R, NEW A
  PROVE  /\ IndexedAt("activate", c, E, F, R, A) <=>
              c \in E /\ F = E \ {c} /\ R = E \ {c} /\ A = Bits(F)
         /\ IndexedAt("index", c, E, F, R, A) <=>
              c \in E /\ F = E \ {c} /\ R = E \ {c} /\ A = Bits(F) \cup {Bit(c)}
         /\ IndexedAt("count", c, E, F, R, A) <=>
              c \in E /\ F = E /\ R = E \ {c} /\ A = Bits(F)
         /\ IndexedAt("unindex", c, E, F, R, A) <=>
              c \notin E /\ F = E \cup {c} /\ R = E \cup {c} /\ A = Bits(F)
         /\ IndexedAt("deactivate", c, E, F, R, A) <=>
              c \notin E /\ F = E /\ R = E \cup {c} /\ A = Bits(F) \cup {Bit(c)}
         /\ IndexedAt("uncount", c, E, F, R, A) <=>
              c \notin E /\ F = E /\ R = E \cup {c} /\ A = Bits(F)
         /\ pc \notin EdgePcs \cup UnedgePcs =>
              (IndexedAt(pc, c, E, F, R, A) <=>
                 (pc \in GracePcs => c \notin E) /\ F = E /\ R = E /\ A = Bits(E))
<1> USE BitsFacts DEF IndexedAt, EdgePcs, UnedgePcs, GracePcs
<1>0. \A S : S \cup {} = S /\ S \ {} = S
  OBVIOUS
<1>1. IndexedAt("activate", c, E, F, R, A) <=>
        c \in E /\ F = E \ {c} /\ R = E \ {c} /\ A = Bits(F)
  BY <1>0 DEF InHand
<1>2. IndexedAt("index", c, E, F, R, A) <=>
        c \in E /\ F = E \ {c} /\ R = E \ {c} /\ A = Bits(F) \cup {Bit(c)}
  BY <1>0 DEF InHand
<1>3. IndexedAt("count", c, E, F, R, A) <=>
        c \in E /\ F = E /\ R = E \ {c} /\ A = Bits(F)
  BY <1>0 DEF InHand
<1>4. IndexedAt("unindex", c, E, F, R, A) <=>
        c \notin E /\ F = E \cup {c} /\ R = E \cup {c} /\ A = Bits(F)
  BY <1>0 DEF InHand
<1>5. IndexedAt("deactivate", c, E, F, R, A) <=>
        c \notin E /\ F = E /\ R = E \cup {c} /\ A = Bits(F) \cup {Bit(c)}
  BY <1>0 DEF InHand
<1>6. IndexedAt("uncount", c, E, F, R, A) <=>
        c \notin E /\ F = E /\ R = E \cup {c} /\ A = Bits(F)
  BY <1>0 DEF InHand
<1>7. ASSUME pc \notin EdgePcs \cup UnedgePcs
      PROVE  IndexedAt(pc, c, E, F, R, A) <=>
               (pc \in GracePcs => c \notin E) /\ F = E /\ R = E /\ A = Bits(E)
  <2>1. /\ InHand({"activate", "index"}, pc, c) = {} /\ InHand({"unindex"}, pc, c) = {}
        /\ InHand(EdgePcs, pc, c) = {} /\ InHand(UnedgePcs, pc, c) = {}
        /\ InHand({"index", "deactivate"}, pc, c) = {}
    BY <1>7 DEF InHand
  <2>2. IndexedAt(pc, c, E, F, R, A) <=>
          /\ pc \in EdgePcs => c \in E
          /\ pc \in UnedgePcs \cup GracePcs => c \notin E
          /\ F = (E \ {}) \cup {} /\ R = (E \ {}) \cup {} /\ A = Bits(F) \cup Bits({})
    BY ONLY <2>1 DEF IndexedAt
  <2>3. (E \ {}) \cup {} = E /\ Bits(F) \cup Bits({}) = Bits(F)
    BY <1>0
  <2> QED BY ONLY <1>7, <2>2, <2>3
<1> QED BY ONLY <1>1, <1>2, <1>3, <1>4, <1>5, <1>6, <1>7

(* A room's grace is reserved for the edge that was just removed.          *)
LEMMA GraceCur ==
  ASSUME Typed, [Next]_vars, ~EdgeSteps, rt'.pc \in GracePcs
  PROVE  UNCHANGED rt \/ (rt'.cur = rt.cur /\ rt.pc \in GracePcs)
<1>0. /\ AddMoves /\ BetweenMoves /\ StartMoves
  BY AddMovesHold, BetweenMovesHold, StartMovesHold
<1>1. ~EndsUp /\ ~Crash
  BY DEF EndsUp, Crash, Ready, GracePcs
<1>2. CASE TakenUp
  <2>1. rt'.pc \in {"idle", "next", "give_snap", "give_grace", "snapshot", "create"}
    <3>1. CASE Ended \/ Resumed
      BY ONLY <1>0, <3>1 DEF Ended, Resumed, StartMoves, Begins
    <3> QED BY <1>2, <3>1, Beginnings
  <2> QED BY <2>1 DEF GracePcs
<1>3. CASE Outside
  BY ONLY <1>3 DEF Outside, Tick, Owners, OwnerExit, Connects, Connect, Deadlines,
                   SetRoomDeadline, Drains, SetDraining, TimersFire, ExpireTimer,
                   LoseTimer, vars
<1>4. CASE BetweenEdges
  <2>1. ~(Keeps \/ Refuses)
    BY ONLY <1>0, rt'.pc \in GracePcs DEF Keeps, Refuses, AddMoves, BetweenMoves, Added, Passes,
                                          Becomes, GracePcs
  <2>2. ReserveGrace
    BY ONLY <1>0, <1>1, <1>4, <2>1, rt'.pc \in GracePcs
       DEF BetweenEdges, BetweenMoves, Passes, GoesTo, Becomes, GracePcs
  <2>3. rt'.cur = rt.cur
    BY ONLY <1>0, <2>2 DEF BetweenMoves, Passes, GoesTo, Becomes
  <2> QED BY <2>2, <2>3 DEF ReserveGrace, RtIs, GracePcs
<1> QED BY <1>1, <1>2, <1>3, <1>4, Sorted

LEMMA IndexedNext == Typed /\ Indexed /\ [Next]_vars => Indexed'
<1> SUFFICES ASSUME Typed, Indexed, [Next]_vars PROVE Indexed'
  OBVIOUS
<1>0. EdgeMoves /\ AddMoves
  BY EdgeMovesHold, AddMovesHold
<1> USE DEF RtIs
<1>i. rt.pc # "down" => IndexedAt(rt.pc, rt.cur, edges, fan, reverse, active)
  BY DEF Indexed
<1>q. ASSUME Between(rt.pc)
      PROVE  fan = edges /\ reverse = edges /\ active = Bits(edges)
  BY <1>i, <1>q, Shapes DEF Between
<1>r. ASSUME IndexedAt(rt'.pc, rt'.cur, edges', fan', reverse', active')
      PROVE  Indexed'
  BY <1>r DEF Indexed, IndexedAt, Bits, Bit, InHand
<1>1. CASE ~EdgeSteps
  <2>1. /\ UNCHANGED <<edges, reverse, fan, active>>
        /\ UNCHANGED rt \/ Crash \/ (Between(rt.pc) /\ Between(rt'.pc))
    BY <1>1, Quiet DEF edgeVars
  <2>2. CASE UNCHANGED rt
    BY <1>i, <1>r, <2>1, <2>2 DEF Indexed
  <2>3. CASE Crash
    BY <2>3 DEF Crash, Indexed, Ready
  <2>4. CASE Between(rt.pc) /\ Between(rt'.pc) /\ ~UNCHANGED rt
    <3>1. rt'.pc \in GracePcs => rt'.cur \notin edges
      BY <1>1, <1>i, <2>4, GraceCur DEF IndexedAt, Between
    <3>2. IndexedAt(rt'.pc, rt'.cur, edges, fan, reverse, active)
      BY <1>q, <2>4, <3>1, Shapes DEF Between
    <3> QED BY <1>r, <2>1, <3>2
  <2> QED BY <2>1, <2>2, <2>3, <2>4
<1>2. CASE Inserts
  <2>1. PICK e \in rt.todo : InsertEdge(e)
    BY <1>2 DEF Inserts
  <2>2. rt'.pc = "activate" /\ rt'.cur = e
    BY ONLY <1>0, <2>1 DEF EdgeMoves, Becomes
  <2>3. /\ e \notin edges /\ edges' = edges \cup {e} /\ UNCHANGED <<fan, reverse, active>>
        /\ Between(rt.pc)
    BY <2>1 DEF InsertEdge, Between, EdgePcs, UnedgePcs
  <2>4. fan' = fan /\ reverse' = reverse /\ active' = active /\ active = Bits(fan)
    BY <1>q, <2>3
  <2>5. e \in edges' /\ fan' = edges' \ {e} /\ reverse' = edges' \ {e} /\ active' = Bits(fan')
    BY <1>q, <2>3, <2>4
  <2>6. IndexedAt("activate", e, edges', fan', reverse', active')
    BY ONLY <2>5, Shapes
  <2> QED BY <1>r, <2>2, <2>6
<1>3. CASE ActivateBucket
  <2>1. rt'.pc = "index" /\ rt'.cur = rt.cur
    BY ONLY <1>0, <1>3 DEF EdgeMoves, GoesTo, Becomes
  <2>2. rt.pc = "activate" /\ UNCHANGED <<edges, fan, reverse>> /\ active' = active \cup {Bit(rt.cur)}
    BY <1>3 DEF ActivateBucket, Bit
  <2>3. IndexedAt("index", rt.cur, edges', fan', reverse', active')
    BY <1>i, <2>2, Shapes
  <2> QED BY <1>r, <2>1, <2>3
<1>4. CASE IndexEdge
  <2>1. rt'.pc = "count" /\ rt'.cur = rt.cur
    BY ONLY <1>0, <1>4 DEF EdgeMoves, GoesTo, Becomes
  <2>2. rt.pc = "index" /\ UNCHANGED <<edges, active, reverse>> /\ fan' = fan \cup {rt.cur}
    BY <1>4 DEF IndexEdge
  <2>3. /\ rt.cur \in edges /\ fan = edges \ {rt.cur} /\ reverse = edges \ {rt.cur}
        /\ active = Bits(fan) \cup {Bit(rt.cur)}
    BY <1>i, <2>2, Shapes
  <2>4. fan' = edges /\ Bits(fan') = Bits(fan) \cup {Bit(rt.cur)}
    BY <2>2, <2>3, BitsFacts
  <2>5. /\ rt.cur \in edges' /\ fan' = edges' /\ reverse' = edges' \ {rt.cur}
        /\ active' = Bits(fan')
    BY <2>2, <2>3, <2>4
  <2>6. IndexedAt("count", rt.cur, edges', fan', reverse', active')
    BY ONLY <2>5, Shapes
  <2> QED BY <1>r, <2>1, <2>6
<1>5. CASE CountEdge
  <2>1. Between(rt'.pc) /\ rt'.pc \notin GracePcs
    BY ONLY <1>0, <1>5 DEF AddMoves, Added, Becomes, Between, EdgePcs, UnedgePcs, GracePcs
  <2>2. rt.pc = "count" /\ UNCHANGED <<edges, active, fan>> /\ reverse' = reverse \cup {rt.cur}
    BY <1>5 DEF CountEdge
  <2>3. rt.cur \in edges /\ fan = edges /\ reverse = edges \ {rt.cur} /\ active = Bits(edges)
    BY <1>i, <2>2, Shapes
  <2>4. fan' = edges' /\ reverse' = edges' /\ active' = Bits(edges')
    BY <2>2, <2>3
  <2>5. IndexedAt(rt'.pc, rt'.cur, edges', fan', reverse', active')
    BY ONLY <2>1, <2>4, Shapes DEF Between
  <2> QED BY <1>r, <2>5
<1>6. CASE Takes
  <2>1. PICK e \in rt.todo : TakeEdge(e)
    BY <1>6 DEF Takes
  <2>2. /\ edges' = edges \ {e} /\ UNCHANGED <<fan, reverse, active>> /\ Between(rt.pc)
    BY <2>1 DEF TakeEdge, Between, EdgePcs, UnedgePcs
  <2>3. CASE e \in edges
    <3>1. rt'.pc = "unindex" /\ rt'.cur = e
      BY ONLY <1>0, <2>1, <2>3 DEF EdgeMoves, Becomes
    <3>2. edges = edges' \cup {e} /\ e \notin edges'
      BY <2>2, <2>3
    <3>3. IndexedAt("unindex", e, edges', fan', reverse', active')
      BY <1>q, <2>2, <3>2, Shapes
    <3> QED BY <1>r, <3>1, <3>3
  <2>4. CASE e \notin edges
    <3>1. rt'.pc = "next"
      BY ONLY <1>0, <2>1, <2>4 DEF EdgeMoves, Passes, Becomes
    <3>2. edges' = edges
      BY <2>2, <2>4
    <3>3. IndexedAt("next", rt'.cur, edges', fan', reverse', active')
      BY <1>q, <2>2, <3>2, Shapes DEF EdgePcs, UnedgePcs, GracePcs
    <3> QED BY <1>r, <3>1, <3>3
  <2> QED BY <2>3, <2>4
<1>7. CASE UnindexEdge
  <2>1. rt'.pc = "deactivate" /\ rt'.cur = rt.cur
    BY ONLY <1>0, <1>7 DEF EdgeMoves, GoesTo, Becomes
  <2>2. rt.pc = "unindex" /\ UNCHANGED <<edges, active, reverse>> /\ fan' = fan \ {rt.cur}
    BY <1>7 DEF UnindexEdge
  <2>3. /\ rt.cur \notin edges /\ fan = edges \cup {rt.cur} /\ reverse = edges \cup {rt.cur}
        /\ active = Bits(fan)
    BY <1>i, <2>2, Shapes
  <2>4. fan' = edges /\ Bits(fan) = Bits(fan') \cup {Bit(rt.cur)}
    <3>1. fan' = edges
      BY <2>2, <2>3
    <3> QED BY <2>3, <3>1, BitsFacts
  <2>5. IndexedAt("deactivate", rt.cur, edges', fan', reverse', active')
    <3>1. /\ rt.cur \notin edges' /\ fan' = edges' /\ reverse' = edges' \cup {rt.cur}
          /\ active' = Bits(fan') \cup {Bit(rt.cur)}
      BY ONLY <2>2, <2>3, <2>4
    <3> QED BY ONLY <3>1, Shapes
  <2> QED BY <1>r, <2>1, <2>5
<1>8. CASE DeactivateBucket
  <2>1. rt'.pc = "uncount" /\ rt'.cur = rt.cur
    BY ONLY <1>0, <1>8 DEF EdgeMoves, GoesTo, Becomes
  <2>2. /\ rt.pc = "deactivate" /\ UNCHANGED <<edges, fan, reverse>>
        /\ active' = IF \E e \in fan : e[2] = rt.cur[2] /\ Bucket[e[1]] = Bucket[rt.cur[1]]
                     THEN active ELSE active \ {Bit(rt.cur)}
    BY <1>8 DEF DeactivateBucket, Bit
  <2>3. /\ rt.cur \notin edges /\ fan = edges /\ reverse = edges \cup {rt.cur}
        /\ active = Bits(fan) \cup {Bit(rt.cur)}
    BY <1>i, <2>2, Shapes
  <2>4. (\E e \in fan : e[2] = rt.cur[2] /\ Bucket[e[1]] = Bucket[rt.cur[1]])
          <=> Bit(rt.cur) \in Bits(fan)
    BY DEF Bits, Bit
  <2>5. active' = Bits(fan)
    BY <2>2, <2>3, <2>4
  <2>6. IndexedAt("uncount", rt.cur, edges', fan', reverse', active')
    BY <2>2, <2>3, <2>5, Shapes
  <2> QED BY <1>r, <2>1, <2>6
<1>9. CASE UncountEdge
  <2>1. rt'.cur = rt.cur /\ (rt'.pc = "next" \/ rt'.pc = "grace")
    BY ONLY <1>0, <1>9 DEF EdgeMoves, GoesTo, Passes, Becomes
  <2>2. rt.pc = "uncount" /\ UNCHANGED <<edges, active, fan>> /\ reverse' = reverse \ {rt.cur}
    BY <1>9 DEF UncountEdge
  <2>3. rt.cur \notin edges /\ fan = edges /\ reverse = edges \cup {rt.cur} /\ active = Bits(edges)
    BY <1>i, <2>2, Shapes
  <2>4. reverse' = edges
    BY <2>2, <2>3
  <2>5. rt'.pc \notin EdgePcs \cup UnedgePcs
    BY <2>1 DEF EdgePcs, UnedgePcs
  <2>6. /\ rt'.cur \notin edges' /\ fan' = edges' /\ reverse' = edges'
        /\ active' = Bits(edges')
    BY <2>1, <2>2, <2>3, <2>4
  <2>7. IndexedAt(rt'.pc, rt'.cur, edges', fan', reverse', active')
    BY ONLY <2>5, <2>6, Shapes
  <2> QED BY <1>r, <2>7
<1>10. CASE Reconcile
  <2>1. rt'.pc = "idle" /\ fan' = edges' /\ reverse' = edges' /\ active' = Bits(edges')
    BY <1>10 DEF Reconcile, Ready, Bits, Bit
  <2>2. rt'.pc \notin EdgePcs \cup UnedgePcs \cup GracePcs
    BY <2>1 DEF EdgePcs, UnedgePcs, GracePcs
  <2>3. IndexedAt(rt'.pc, rt'.cur, edges', fan', reverse', active')
    BY <2>1, <2>2, Shapes
  <2> QED BY <1>r, <2>3
<1> QED BY ONLY <1>1, <1>2, <1>3, <1>4, <1>5, <1>6, <1>7, <1>8, <1>9, <1>10 DEF EdgeSteps

-----------------------------------------------------------------------------
(* The counts.                                                             *)
LEMMA SessRowsAdd ==
  ASSUME NEW R \in SUBSET Edges, NEW e \in Edges, e \notin R, NEW s, NEW k
  PROVE  Cardinality(SessRows(R \cup {e}, s, k)) =
           IF e[1] = s /\ Kind[e[2]] = k THEN Cardinality(SessRows(R, s, k)) + 1
           ELSE Cardinality(SessRows(R, s, k))
<1>0. \A S \in SUBSET R : IsFiniteSet(S) /\ Cardinality(S \cup {e}) = Cardinality(S) + 1
  BY FiniteEdges, FS_AddElement
<1>1. SessRows(R, s, k) \in SUBSET R
  BY DEF SessRows
<1>2. SessRows(R \cup {e}, s, k) = IF e[1] = s /\ Kind[e[2]] = k THEN SessRows(R, s, k) \cup {e}
                                  ELSE SessRows(R, s, k)
  BY DEF SessRows
<1> QED BY <1>0, <1>1, <1>2

LEMMA ItemRowsAdd ==
  ASSUME NEW R \in SUBSET Edges, NEW e \in Edges, e \notin R, NEW x
  PROVE  Cardinality(ItemRows(R \cup {e}, x)) =
           IF e[2] = x THEN Cardinality(ItemRows(R, x)) + 1
           ELSE Cardinality(ItemRows(R, x))
<1>0. \A S \in SUBSET R : IsFiniteSet(S) /\ Cardinality(S \cup {e}) = Cardinality(S) + 1
  BY FiniteEdges, FS_AddElement
<1>1. ItemRows(R, x) \in SUBSET R
  BY DEF ItemRows
<1>2. ItemRows(R \cup {e}, x) = IF e[2] = x THEN ItemRows(R, x) \cup {e}
                                  ELSE ItemRows(R, x)
  BY DEF ItemRows
<1> QED BY <1>0, <1>1, <1>2

LEMMA KindRowsAdd ==
  ASSUME NEW R \in SUBSET Edges, NEW e \in Edges, e \notin R, NEW k
  PROVE  Cardinality(KindRows(R \cup {e}, k)) =
           IF Kind[e[2]] = k THEN Cardinality(KindRows(R, k)) + 1
           ELSE Cardinality(KindRows(R, k))
<1>0. \A S \in SUBSET R : IsFiniteSet(S) /\ Cardinality(S \cup {e}) = Cardinality(S) + 1
  BY FiniteEdges, FS_AddElement
<1>1. KindRows(R, k) \in SUBSET R
  BY DEF KindRows
<1>2. KindRows(R \cup {e}, k) = IF Kind[e[2]] = k THEN KindRows(R, k) \cup {e}
                                  ELSE KindRows(R, k)
  BY DEF KindRows
<1> QED BY <1>0, <1>1, <1>2

LEMMA RowsCountedNext ==
  Typed /\ Indexed /\ RowsCounted /\ [Next]_vars => RowsCounted'
<1> SUFFICES ASSUME Typed, Indexed, RowsCounted, [Next]_vars, rt'.pc # "down"
             PROVE  /\ \A s \in Sessions, k \in Kinds :
                         sessCount'[s][k] = Cardinality(SessRows(reverse', s, k))
                    /\ \A x \in Items : itemCount'[x] = Cardinality(ItemRows(reverse', x))
                    /\ \A k \in Kinds :
                         edgeUsed'[k] = Cardinality(KindRows(edges' \cup reverse', k))
  BY DEF RowsCounted, RtIs, SessRows, ItemRows, KindRows
<1>0. /\ edges \in SUBSET Edges /\ reverse \in SUBSET Edges
      /\ sessCount \in [Sessions -> [Kinds -> Nat]]
      /\ itemCount \in [Items -> Nat] /\ edgeUsed \in [Kinds -> Nat]
      /\ \A x \in Items : Kind[x] \in Kinds
      /\ \A S \in SUBSET Edges : Cardinality(S) \in Nat
  BY TypedParts, ConstantTypes, FiniteEdges DEF EdgesTyped
<1>e. edges \in SUBSET Edges /\ reverse \in SUBSET Edges
  BY <1>0
<1>c. ASSUME rt.pc # "down"
      PROVE  /\ \A s \in Sessions, k \in Kinds :
                  sessCount[s][k] = Cardinality(SessRows(reverse, s, k))
             /\ \A x \in Items : itemCount[x] = Cardinality(ItemRows(reverse, x))
             /\ \A k \in Kinds : edgeUsed[k] = Cardinality(KindRows(edges \cup reverse, k))
             /\ IndexedAt(rt.pc, rt.cur, edges, fan, reverse, active)
  BY <1>c DEF RowsCounted, RtIs, Indexed
<1>q. ASSUME rt.pc = "next" PROVE reverse = edges
  BY <1>c, <1>q, Shapes DEF EdgePcs, UnedgePcs
<1>1. CASE UNCHANGED <<reverse, sessCount, itemCount, edgeUsed>>
           /\ edges' \cup reverse' = edges \cup reverse /\ rt.pc # "down"
  BY <1>1, <1>c
<1>2. CASE ~EdgeSteps
  <2>1. UNCHANGED edgeVars /\ (UNCHANGED rt \/ Crash \/ Between(rt.pc))
    BY <1>2, Quiet
  <2>2. rt.pc # "down"
    BY <2>1 DEF Crash, Ready, Between
  <2> QED BY <1>1, <2>1, <2>2 DEF edgeVars
<1>3. CASE Inserts
  <2>1. PICK e \in rt.todo : InsertEdge(e)
    BY <1>3 DEF Inserts
  <2>2. /\ rt.pc = "next" /\ e \notin edges /\ edges' = edges \cup {e} /\ e \in Edges
        /\ edgeUsed' = [edgeUsed EXCEPT ![Kind[e[2]]] = @ + 1]
        /\ UNCHANGED <<reverse, sessCount, itemCount>>
    <3>1. e \in Edges
      BY <1>3, TypedParts DEF RtTyped, RtType
    <3> QED BY <2>1, <3>1 DEF InsertEdge, RtIs
  <2>3. edges \cup reverse = edges /\ edges' \cup reverse' = edges \cup {e}
    BY <1>q, <2>2
  <2>4. Kind[e[2]] \in Kinds
    BY <1>0, <2>2, RoomsAreItems
  <2>5. ASSUME NEW k \in Kinds
        PROVE  edgeUsed'[k] = Cardinality(KindRows(edges' \cup reverse', k))
    <3>1. edgeUsed[k] = Cardinality(KindRows(edges, k))
      BY <1>c, <2>2, <2>3
    <3>2. Cardinality(KindRows(edges \cup {e}, k)) =
            IF Kind[e[2]] = k THEN Cardinality(KindRows(edges, k)) + 1
                              ELSE Cardinality(KindRows(edges, k))
      BY ONLY <1>e, <2>2, KindRowsAdd
    <3>3. edgeUsed'[k] = IF Kind[e[2]] = k THEN edgeUsed[k] + 1 ELSE edgeUsed[k]
      BY <1>0, <2>2, <2>4
    <3> QED BY <2>3, <3>1, <3>2, <3>3
  <2> QED BY <1>c, <2>2, <2>5
<1>4. CASE ActivateBucket \/ IndexEdge \/ UnindexEdge \/ DeactivateBucket
  <2>1. rt.pc # "down" /\ UNCHANGED <<reverse, edges, sessCount, itemCount, edgeUsed>>
    BY <1>4 DEF ActivateBucket, IndexEdge, UnindexEdge, DeactivateBucket, RtIs
  <2> QED BY <1>1, <2>1
<1>5. CASE Takes
  <2>1. PICK e \in rt.todo : TakeEdge(e)
    BY <1>5 DEF Takes
  <2>2. rt.pc = "next" /\ edges' = edges \ {e} /\ UNCHANGED <<reverse, sessCount, itemCount, edgeUsed>>
    BY <2>1 DEF TakeEdge, RtIs
  <2>3. edges' \cup reverse' = edges \cup reverse
    BY <1>q, <2>2
  <2> QED BY <1>1, <2>2, <2>3
<1>6. CASE CountEdge
  <2> DEFINE c == rt.cur  a == c[1]  x0 == c[2]  k0 == Kind[x0]
  <2>1. /\ rt.pc = "count" /\ c \in Edges /\ reverse' = reverse \cup {c}
        /\ sessCount' = [sessCount EXCEPT ![a][k0] = @ + 1]
        /\ itemCount' = [itemCount EXCEPT ![x0] = @ + 1]
        /\ UNCHANGED <<edges, edgeUsed>>
    BY <1>6, TypedParts DEF CountEdge, RtIs, RtTyped, EdgePcs
  <2>2. c \in edges /\ reverse = edges \ {c}
    BY <1>c, <2>1, Shapes
  <2>3. a \in Sessions /\ x0 \in Items /\ k0 \in Kinds
    BY <1>0, <2>1, RoomsAreItems
  <2>4. c \notin reverse /\ edges' \cup reverse' = edges \cup reverse /\ rt.pc # "down"
    BY <2>1, <2>2
  <2> HIDE DEF c
  <2>5. ASSUME NEW s \in Sessions, NEW k \in Kinds
        PROVE  sessCount'[s][k] = Cardinality(SessRows(reverse', s, k))
    <3>1. sessCount'[s][k] = IF a = s /\ k0 = k THEN sessCount[s][k] + 1 ELSE sessCount[s][k]
      BY <1>0, <2>1, <2>3
    <3>2. Cardinality(SessRows(reverse \cup {c}, s, k)) =
            IF a = s /\ k0 = k THEN Cardinality(SessRows(reverse, s, k)) + 1
                               ELSE Cardinality(SessRows(reverse, s, k))
      BY ONLY <1>e, <2>1, <2>4, SessRowsAdd
    <3> QED BY <1>c, <2>1, <2>4, <3>1, <3>2
  <2>6. ASSUME NEW x \in Items
        PROVE  itemCount'[x] = Cardinality(ItemRows(reverse', x))
    <3>1. itemCount'[x] = IF x0 = x THEN itemCount[x] + 1 ELSE itemCount[x]
      BY <1>0, <2>1, <2>3
    <3>2. Cardinality(ItemRows(reverse \cup {c}, x)) =
            IF x0 = x THEN Cardinality(ItemRows(reverse, x)) + 1
                      ELSE Cardinality(ItemRows(reverse, x))
      BY ONLY <1>e, <2>1, <2>4, ItemRowsAdd
    <3> QED BY <1>c, <2>1, <2>4, <3>1, <3>2
  <2>7. ASSUME NEW k \in Kinds
        PROVE  edgeUsed'[k] = Cardinality(KindRows(edges' \cup reverse', k))
    BY <1>c, <2>1, <2>4
  <2> QED BY <2>5, <2>6, <2>7
<1>7. CASE UncountEdge
  <2> DEFINE c == rt.cur  a == c[1]  x0 == c[2]  k0 == Kind[x0]
  <2>1. /\ rt.pc = "uncount" /\ c \in Edges /\ reverse' = reverse \ {c}
        /\ sessCount' = [sessCount EXCEPT ![a][k0] = Less(@)]
        /\ itemCount' = [itemCount EXCEPT ![x0] = Less(@)]
        /\ edgeUsed' = [edgeUsed EXCEPT ![k0] = Less(@)]
        /\ UNCHANGED edges
    BY <1>7, TypedParts DEF UncountEdge, RtIs, RtTyped, UnedgePcs
  <2>2. c \notin edges /\ reverse = edges \cup {c}
    BY <1>c, <2>1, Shapes
  <2>3. a \in Sessions /\ x0 \in Items /\ k0 \in Kinds
    BY <1>0, <2>1, RoomsAreItems
  <2>4. /\ reverse' = edges /\ edges' \cup reverse' = edges
        /\ edges \cup reverse = edges \cup {c} /\ rt.pc # "down"
    BY <2>1, <2>2
  <2>5. \A n \in Nat : Less(n + 1) = n
    BY DEF Less
  <2> HIDE DEF c
  <2>6. /\ \A s, k : SessRows(edges, s, k) \in SUBSET Edges
        /\ \A x : ItemRows(edges, x) \in SUBSET Edges
        /\ \A k : KindRows(edges, k) \in SUBSET Edges
    BY <1>0 DEF SessRows, ItemRows, KindRows
  <2>7. ASSUME NEW s \in Sessions, NEW k \in Kinds
        PROVE  sessCount'[s][k] = Cardinality(SessRows(reverse', s, k))
    <3> DEFINE N == Cardinality(SessRows(edges, s, k))
    <3>1. sessCount'[s][k] = IF a = s /\ k0 = k THEN Less(sessCount[s][k]) ELSE sessCount[s][k]
      BY <1>0, <2>1, <2>3
    <3>2. sessCount[s][k] = IF a = s /\ k0 = k THEN N + 1 ELSE N
      <4>1. sessCount[s][k] = Cardinality(SessRows(edges \cup {c}, s, k))
        BY <1>c, <2>2, <2>4
      <4> QED BY ONLY <1>e, <2>1, <2>2, <4>1, SessRowsAdd
    <3>3. N \in Nat /\ SessRows(reverse', s, k) = SessRows(edges, s, k)
      BY <1>0, <2>4, <2>6
    <3> HIDE DEF N
    <3>4. sessCount'[s][k] = N
      BY ONLY <2>5, <3>1, <3>2, <3>3
    <3> QED BY <3>3, <3>4 DEF N
  <2>8. ASSUME NEW x \in Items
        PROVE  itemCount'[x] = Cardinality(ItemRows(reverse', x))
    <3> DEFINE N == Cardinality(ItemRows(edges, x))
    <3>1. itemCount'[x] = IF x0 = x THEN Less(itemCount[x]) ELSE itemCount[x]
      BY <1>0, <2>1, <2>3
    <3>2. itemCount[x] = IF x0 = x THEN N + 1 ELSE N
      <4>1. itemCount[x] = Cardinality(ItemRows(edges \cup {c}, x))
        BY <1>c, <2>2, <2>4
      <4> QED BY ONLY <1>e, <2>1, <2>2, <4>1, ItemRowsAdd
    <3>3. N \in Nat /\ ItemRows(reverse', x) = ItemRows(edges, x)
      BY <1>0, <2>4, <2>6
    <3> HIDE DEF N
    <3>4. itemCount'[x] = N
      BY ONLY <2>5, <3>1, <3>2, <3>3
    <3> QED BY <3>3, <3>4 DEF N
  <2>9. ASSUME NEW k \in Kinds
        PROVE  edgeUsed'[k] = Cardinality(KindRows(edges' \cup reverse', k))
    <3> DEFINE N == Cardinality(KindRows(edges, k))
    <3>1. edgeUsed'[k] = IF k0 = k THEN Less(edgeUsed[k]) ELSE edgeUsed[k]
      BY <1>0, <2>1, <2>3
    <3>2. edgeUsed[k] = IF k0 = k THEN N + 1 ELSE N
      <4>1. edgeUsed[k] = Cardinality(KindRows(edges \cup {c}, k))
        BY <1>c, <2>4
      <4> QED BY ONLY <1>e, <2>1, <2>2, <4>1, KindRowsAdd
    <3>3. N \in Nat /\ KindRows(edges' \cup reverse', k) = KindRows(edges, k)
      BY <1>0, <2>4, <2>6
    <3> HIDE DEF N
    <3>4. edgeUsed'[k] = N
      BY ONLY <2>5, <3>1, <3>2, <3>3
    <3> QED BY <3>3, <3>4 DEF N
  <2> QED BY <2>7, <2>8, <2>9
<1>8. CASE Reconcile
  <2>1. /\ reverse' = edges' /\ edges' \cup reverse' = edges'
        /\ sessCount' = [s \in Sessions |-> [k \in Kinds |->
                           Cardinality(SessRows(edges', s, k))]]
        /\ itemCount' = [x \in Items |-> Cardinality(ItemRows(edges', x))]
        /\ edgeUsed' = [k \in Kinds |-> Cardinality(KindRows(edges', k))]
    BY <1>8 DEF Reconcile, SessRows, ItemRows, KindRows
  <2> QED BY <2>1
<1> QED BY ONLY <1>2, <1>3, <1>4, <1>5, <1>6, <1>7, <1>8 DEF EdgeSteps

(* A cleanup goes on with its session to its end.                          *)
LEMMA CleanupSteps ==
  ASSUME Typed, [Next]_vars, rt.op = "cleanup"
  PROVE  UNCHANGED rt \/ Crash \/ FinishCleanup \/ (Continues /\ rt'.op = "cleanup")
<1>0. /\ BetweenMoves
      /\ rt.pc \notin {"idle", "down", "metadata", "create", "give_snap", "give_grace"}
  BY BetweenMovesHold DEF Typed, OpOfPc, Ready, RtIs
<1>1. CASE EndsUp /\ ~UNCHANGED rt
  <2>1. rt'.pc = "idle"
    BY <1>1 DEF EndsUp, Ready
  <2>2. ~Outside
    BY ONLY <1>1 DEF Outside, Tick, Owners, OwnerExit, Connects, Connect, Deadlines,
                     SetRoomDeadline, Drains, SetDraining, TimersFire, ExpireTimer,
                     LoseTimer, vars
  <2>3. ~TakenUp
    BY ONLY <1>0 DEF TakenUp, Started, Start, AddMany, RemoveMany, Sync, JoinWithMetadata,
       ResumeRoom, Ended, BeginCleanup, Resumed, Resume, SnapMail, ExpireSnapshot,
       GraceMail, ExpireGrace, RoomMail, ExpireRoom, Serving, Accepting, RtIs
  <2>4. ~EdgeSteps
    <3>1. ~Reconcile
      BY ONLY <1>0 DEF Reconcile, RtIs
    <3>2. ~CountEdge
      BY ONLY AddMovesHold, Typed, <2>1 DEF AddMoves, Added, Becomes
    <3> QED BY ONLY EdgeMovesHold, Typed, <2>1, <3>1, <3>2
            DEF EdgeSteps, Inserts, Takes, EdgeMoves, Passes, GoesTo, Becomes
  <2>5. CASE BetweenEdges
    <3>1. ~(Keeps \/ Refuses)
      BY ONLY AddMovesHold, BetweenMovesHold, Typed, <2>1
         DEF Keeps, Refuses, AddMoves, BetweenMoves, Added, Passes, Becomes
    <3>2. ~(InitializeMetadata \/ CreateResumed \/ GiveSnapshotSlot \/ GiveGraceSlots \/ EndRequest)
      BY ONLY <1>0, rt.op = "cleanup" DEF InitializeMetadata, CreateResumed, GiveSnapshotSlot,
                                          GiveGraceSlots, EndRequest, RtIs
    <3> QED BY ONLY <1>0, <2>1, <2>5, <3>1, <3>2
            DEF BetweenEdges, BetweenMoves, Passes, GoesTo, Becomes
  <2> QED BY <2>2, <2>3, <2>4, <2>5, Sorted
<1> QED BY <1>0, <1>1, Goings DEF Continues

LEMMA EndingKept ==
  ASSUME Typed, [Next]_vars, ~Ended, ~FinishCleanup, ~Crash
  PROVE  Ending' = Ending
<1>1. CASE rt.op = "cleanup"
  BY <1>1, CleanupSteps DEF Ending, Continues
<1>2. CASE rt.op # "cleanup"
  <2>1. rt'.op # "cleanup"
    <3>1. CASE TakenUp
      <4>1. CASE Resumed
        BY ONLY StartMovesHold, Typed, <4>1 DEF Resumed, StartMoves, Begins
      <4> QED BY <3>1, <4>1, Beginnings
    <3>2. CASE EndsUp
      BY <3>2 DEF EndsUp, Ready
    <3> QED BY <1>2, <3>1, <3>2, Goings DEF Continues
  <2> QED BY <1>2, <2>1 DEF Ending
<1> QED BY <1>1, <1>2

LEMMA UserRowsAdd ==
  ASSUME NEW L \in SUBSET Sessions, NEW s \in Sessions, s \notin L
  PROVE  \A u : Cardinality(UserRows(L \cup {s}, u)) =
                  IF UserOf[s] = u THEN Cardinality(UserRows(L, u)) + 1
                                   ELSE Cardinality(UserRows(L, u))
<1> TAKE u
<1>1. UserRows(L, u) \in SUBSET Sessions /\ s \notin UserRows(L, u)
  BY DEF UserRows
<1>2. UserRows(L \cup {s}, u) = IF UserOf[s] = u THEN UserRows(L, u) \cup {s} ELSE UserRows(L, u)
  BY DEF UserRows
<1> QED BY <1>1, <1>2, FiniteSessions, FS_AddElement

LEMMA UsersCountedNext ==
  Typed /\ Tokens /\ UsersCounted /\ [Next]_vars => UsersCounted'
<1> SUFFICES ASSUME Typed, Tokens, UsersCounted, [Next]_vars, rt'.pc # "down"
             PROVE  \A u \in Users :
                      userCount'[u] = Cardinality(UserRows(live' \cup Ending', u))
  BY DEF UsersCounted, RtIs, UserRows, Ending
<1>0. /\ userCount \in [Users -> Nat] /\ live \in SUBSET Sessions
      /\ \A s \in Sessions : UserOf[s] \in Users
      /\ StartMoves /\ Unwritten /\ ~Crash
      /\ rt.pc = "idle" => rt = Ready
      /\ \A L \in SUBSET Sessions : \A u : Cardinality(UserRows(L, u)) \in Nat
  <2>1. ~Crash
    BY DEF Crash, Ready
  <2>2. \A L \in SUBSET Sessions : \A u : UserRows(L, u) \in SUBSET Sessions
    BY DEF UserRows
  <2> QED BY <2>1, <2>2, TypedParts, ConstantTypes, FiniteSessions, StartMovesHold, Writers
             DEF SessTyped, RtTyped, OpOfPc, RtIs
<1>c. ASSUME rt.pc # "down"
      PROVE  \A u \in Users : userCount[u] = Cardinality(UserRows(live \cup Ending, u))
  BY <1>c DEF UsersCounted, RtIs
(* One session more than before.                                           *)
<1>a. ASSUME NEW s \in Sessions, rt.pc # "down", s \notin live \cup Ending,
             live \cup Ending \in SUBSET Sessions,
             live' \cup Ending' = (live \cup Ending) \cup {s},
             userCount' = [userCount EXCEPT ![UserOf[s]] = @ + 1],
             NEW u \in Users
      PROVE  userCount'[u] = Cardinality(UserRows(live' \cup Ending', u))
  <2>1. userCount'[u] = IF UserOf[s] = u THEN userCount[u] + 1 ELSE userCount[u]
    BY <1>0, <1>a
  <2>2. Cardinality(UserRows((live \cup Ending) \cup {s}, u)) =
          IF UserOf[s] = u THEN Cardinality(UserRows(live \cup Ending, u)) + 1
                           ELSE Cardinality(UserRows(live \cup Ending, u))
    BY <1>a, UserRowsAdd
  <2> QED BY <1>a, <1>c, <2>1, <2>2
<1>1. CASE UNCHANGED userCount /\ live' \cup Ending' = live \cup Ending /\ rt.pc # "down"
  BY <1>1, <1>c
<1>d. rt.pc # "down" \/ Reconcile \/ UNCHANGED rt
  <2>1. EdgeSteps => rt.pc # "down" \/ Reconcile
    BY DEF EdgeSteps, Inserts, Takes, InsertEdge, TakeEdge, ActivateBucket, IndexEdge, CountEdge,
           UnindexEdge, DeactivateBucket, UncountEdge, RtIs
  <2> QED BY <1>0, <2>1, Quiet DEF Between
<1>2. CASE Connects
  <2>1. PICK s \in Sessions, b \in BOOLEAN : Connect(s, b)
    BY <1>2 DEF Connects
  <2>2. /\ s \notin born /\ live' = live \cup {s} /\ rt = Ready /\ rt' = rt
        /\ userCount' = [userCount EXCEPT ![UserOf[s]] = @ + 1]
    BY <1>0, <2>1 DEF Connect, InsertSession, Accepting, RtIs
  <2>3. Ending = {} /\ Ending' = {} /\ rt.pc # "down"
    BY <2>2 DEF Ending, Ready
  <2>4. s \notin live
    BY <2>2 DEF Tokens
  <2> QED BY <1>0, <1>a, <2>2, <2>3, <2>4
<1>3. CASE Ended
  <2>1. PICK s \in Sessions, b \in BOOLEAN : BeginCleanup(s, b)
    BY <1>3 DEF Ended
  <2>2. Begins("snapshot", "cleanup", s, None, {}, None)
    BY ONLY <1>0, <2>1 DEF StartMoves
  <2>3. s \in live /\ live' = live \ {s} /\ UNCHANGED userCount /\ rt = Ready
    BY <1>0, <2>1 DEF BeginCleanup, Serving, RtIs
  <2>4. Ending' = {s} /\ Ending = {} /\ rt.pc # "down"
    BY <2>2, <2>3 DEF Begins, Ending, Ready
  <2> QED BY <1>1, <2>3, <2>4
<1>4. CASE FinishCleanup
  <2>1. /\ rt.pc = "next" /\ rt.op = "cleanup" /\ rt' = Ready /\ UNCHANGED live
        /\ userCount' = [userCount EXCEPT ![UserOf[rt.s]] = Less(@)]
    BY <1>4 DEF FinishCleanup, RtIs
  <2>2. rt.s \in Sessions /\ rt.s \notin live
    BY <2>1, TypedParts DEF RtTyped, CurOfPc, Tokens, Gone
  <2>3. Ending = {rt.s} /\ Ending' = {}
    BY <2>1 DEF Ending, Ready
  <2>4. \A n \in Nat : Less(n + 1) = n
    BY DEF Less
  <2> TAKE u \in Users
  <2> DEFINE N == Cardinality(UserRows(live, u))
  <2>5. userCount[u] = IF UserOf[rt.s] = u THEN N + 1 ELSE N
    BY <1>0, <1>c, <2>1, <2>2, <2>3, UserRowsAdd
  <2>6. userCount'[u] = IF UserOf[rt.s] = u THEN Less(userCount[u]) ELSE userCount[u]
    BY <1>0, <2>1, <2>2
  <2>7. N \in Nat /\ live' \cup Ending' = live
    BY <1>0, <2>1, <2>3
  <2> HIDE DEF N
  <2>8. userCount'[u] = N
    BY ONLY <2>4, <2>5, <2>6, <2>7
  <2> QED BY <2>7, <2>8 DEF N
<1>5. CASE CreateResumed /\ HasRoomFor(rt.s)
  <2>1. /\ rt.pc = "create" /\ live' = live \cup {rt.s}
        /\ userCount' = [userCount EXCEPT ![UserOf[rt.s]] = @ + 1]
    BY <1>5 DEF CreateResumed, InsertSession, RtIs
  <2>2. rt.op = "resume" /\ rt.s \in Sessions /\ rt.s \notin live
    BY <2>1, TypedParts DEF RtTyped, OpOfPc, Tokens, RtIs
  <2>3. ~Ended /\ ~FinishCleanup
    BY <2>1 DEF Ended, BeginCleanup, FinishCleanup, Serving, RtIs
  <2>4. Ending = {} /\ Ending' = {}
    BY <1>0, <2>2, <2>3, EndingKept DEF Ending
  <2> QED BY <1>0, <1>a, <2>1, <2>2, <2>4
<1>6. CASE Reconcile
  <2>1. /\ rt' = Ready /\ live' = live
        /\ userCount' = [u \in Users |-> Cardinality(UserRows(live, u))]
    BY <1>6 DEF Reconcile, UserRows
  <2>2. live' \cup Ending' = live
    BY <2>1 DEF Ending, Ready
  <2> QED BY <2>1, <2>2
<1>7. CASE ~(Connects \/ Ended \/ FinishCleanup \/ (CreateResumed /\ HasRoomFor(rt.s)) \/ Reconcile)
  <2>1. UNCHANGED <<live, userCount>>
    <3>1. CASE SessSteps
      BY <1>7, <3>1 DEF SessSteps, sessVars, Owners, OwnerExit, ReserveSnapshot, CreateResumed
    <3> QED BY <1>0, <3>1 DEF Unwritten, sessVars
  <2>2. Ending' = Ending
    BY <1>0, <1>7, EndingKept
  <2>3. rt.pc # "down"
    BY <1>7, <1>d
  <2> QED BY <1>1, <2>1, <2>2, <2>3
<1> QED BY <1>2, <1>3, <1>4, <1>5, <1>6, <1>7

-----------------------------------------------------------------------------
(* A request that removes edges takes none from its list that is still     *)
(* there.                                                                  *)
LEMMA RemovalSteps ==
  ASSUME Typed, Indexed, [Next]_vars, Removing, ~EndsUp, ~Crash
  PROVE  /\ edges' \subseteq edges
         /\ rt'.op = rt.op /\ rt'.s = rt.s /\ rt'.k = rt.k
         /\ rt'.before = rt.before /\ rt'.desired = rt.desired
         /\ \/ rt'.todo = rt.todo
            \/ \E f : rt'.todo = rt.todo \ {f} /\ f \notin edges'
            \/ rt.pc \in {"snapshot", "snap_insert"} /\ rt'.todo = ReverseOf(rt.s, Kinds)
<1>0. /\ rt.pc \notin {"idle", "down", "metadata", "consume", "create", "restore", "give_snap"}
                        \cup EdgePcs
      /\ ~Adding /\ rt.op \notin {"sync", "join"}
      /\ EdgeMoves /\ BetweenMoves
      /\ rt.pc \in UnedgePcs \cup GracePcs => rt.cur \notin edges
  BY EdgeMovesHold, BetweenMovesHold
     DEF Typed, OpOfPc, Ready, RtIs, Removing, Adding, Indexed, IndexedAt
<1>1. ~TakenUp
  BY ONLY <1>0 DEF TakenUp, Started, Start, AddMany, RemoveMany, Sync, JoinWithMetadata,
     ResumeRoom, Ended, BeginCleanup, Resumed, Resume, SnapMail, ExpireSnapshot,
     GraceMail, ExpireGrace, RoomMail, ExpireRoom, Serving, Accepting, RtIs
<1>2. UNCHANGED rt \/ Continues
  BY <1>0, Goings
<1>3. /\ rt'.op = rt.op /\ rt'.s = rt.s /\ rt'.k = rt.k
      /\ rt'.before = rt.before /\ rt'.desired = rt.desired
  BY <1>0, <1>2 DEF Continues
<1>l. DEFINE Listed == \/ rt'.todo = rt.todo
                       \/ \E f : rt'.todo = rt.todo \ {f} /\ f \notin edges'
                       \/ /\ rt.pc \in {"snapshot", "snap_insert"}
                          /\ rt'.todo = ReverseOf(rt.s, Kinds)
<1>4. CASE Outside
  <2>1. UNCHANGED <<rt, edges>>
    BY ONLY <1>4 DEF Outside, Tick, Owners, OwnerExit, Connects, Connect, Deadlines,
                     SetRoomDeadline, Drains, SetDraining, TimersFire, ExpireTimer,
                     LoseTimer, vars, edgeVars
  <2> QED BY <1>3, <2>1
<1>5. CASE EdgeSteps
  <2>1. Takes \/ UnindexEdge \/ DeactivateBucket \/ UncountEdge
    BY ONLY <1>0, <1>5 DEF EdgeSteps, Inserts, InsertEdge, ActivateBucket, IndexEdge, CountEdge,
                           Reconcile, EdgePcs, RtIs
  <2>2. CASE Takes
    <3>1. PICK e \in rt.todo : TakeEdge(e)
      BY <2>2 DEF Takes
    <3>2. rt'.todo = rt.todo \/ rt'.todo = rt.todo \ {e}
      BY ONLY <1>0, <3>1 DEF EdgeMoves, Passes, Becomes
    <3>3. edges' = edges \ {e}
      BY <3>1 DEF TakeEdge
    <3> QED BY <1>3, <3>2, <3>3
  <2>3. CASE UnindexEdge \/ DeactivateBucket
    <3>1. rt'.todo = rt.todo
      BY ONLY <1>0, <2>3 DEF EdgeMoves, GoesTo, Becomes
    <3>2. edges' = edges
      BY <2>3 DEF UnindexEdge, DeactivateBucket
    <3> QED BY <1>3, <3>1, <3>2
  <2>4. CASE UncountEdge
    <3>1. rt'.todo = rt.todo \/ rt'.todo = rt.todo \ {rt.cur}
      BY ONLY <1>0, <2>4 DEF EdgeMoves, Passes, GoesTo, Becomes
    <3>2. edges' = edges /\ rt.cur \notin edges
      BY <1>0, <2>4 DEF UncountEdge, RtIs, UnedgePcs
    <3> QED BY <1>3, <3>1, <3>2
  <2> QED BY <2>1, <2>2, <2>3, <2>4
<1>6. CASE BetweenEdges
  <2>0. edges' = edges
    <3>1. ~EdgeSteps \/ EdgeSteps
      OBVIOUS
    <3> QED BY ONLY <1>6 DEF BetweenEdges, Keeps, Refuses, KeepEdge, RefuseEdge,
       InitializeMetadata, ConsumeGrace, ReserveSnapshot, StoreSnapshot, ReserveGrace,
       StoreGrace, FinishCleanup, CreateResumed, RestoreEdges, GiveSnapshotSlot, ForgetRoom,
       ForgetGrace, GiveGraceSlots, EndRequest, edgeVars
  <2>1. \/ ReserveSnapshot \/ StoreSnapshot \/ ReserveGrace \/ StoreGrace
        \/ ForgetRoom \/ ForgetGrace
    <3>1. ~(FinishCleanup \/ GiveGraceSlots \/ EndRequest)
      BY ONLY <1>0, ~EndsUp DEF BetweenMoves, Becomes
    <3> QED BY ONLY <1>0, <1>6, <3>1 DEF BetweenEdges, Keeps, Refuses, KeepEdge, RefuseEdge,
       InitializeMetadata, ConsumeGrace, CreateResumed, RestoreEdges, GiveSnapshotSlot, RtIs
  <2>2. CASE ReserveSnapshot \/ StoreSnapshot
    <3>1. rt.pc \in {"snapshot", "snap_insert"}
      BY <2>2 DEF ReserveSnapshot, StoreSnapshot, RtIs
    <3>2. rt'.todo = rt.todo \/ rt'.todo = ReverseOf(rt.s, Kinds)
      BY ONLY <1>0, <2>2 DEF BetweenMoves, GoesTo, Becomes
    <3> QED BY <1>3, <2>0, <3>1, <3>2
  <2>3. CASE ReserveGrace \/ StoreGrace
    <3>1. rt'.todo = rt.todo \/ rt'.todo = rt.todo \ {rt.cur}
      BY ONLY <1>0, <2>3 DEF BetweenMoves, Passes, GoesTo, Becomes
    <3>2. rt.cur \notin edges
      BY <1>0, <2>3 DEF ReserveGrace, StoreGrace, RtIs, GracePcs
    <3> QED BY <1>3, <2>0, <3>1, <3>2
  <2>4. CASE ForgetRoom \/ ForgetGrace
    <3>1. rt'.todo = rt.todo
      BY ONLY <1>0, <2>4 DEF BetweenMoves, GoesTo, Becomes
    <3> QED BY <1>3, <2>0, <3>1
  <2> QED BY <2>1, <2>2, <2>3, <2>4
<1> QED BY <1>1, <1>4, <1>5, <1>6, Sorted

LEMMA RootedNext ==
  Typed /\ Indexed /\ Rooted /\ [Next]_vars => Rooted'
<1> SUFFICES ASSUME Typed, Indexed, Rooted, [Next]_vars, rt'.pc # "down", NEW e \in edges'
             PROVE  \/ e[1] \in live'
                    \/ /\ rt'.op = "cleanup" /\ e[1] = rt'.s
                       /\ rt'.pc \in {"snapshot", "snap_insert"} \/ e \in rt'.todo
  BY DEF Rooted, RtIs
<1>0. /\ Unwritten /\ StartMoves /\ ~Crash
      /\ edges \in SUBSET Edges /\ \A x \in Items : Kind[x] \in Kinds
      /\ rt.pc = "idle" => rt = Ready
  <2>1. ~Crash
    BY DEF Crash, Ready
  <2> QED BY <2>1, Writers, StartMovesHold, TypedParts, ConstantTypes
          DEF EdgesTyped, RtTyped, OpOfPc, RtIs
<1>c. ASSUME rt.pc # "down", e \in edges
      PROVE  \/ e[1] \in live
             \/ /\ rt.op = "cleanup" /\ e[1] = rt.s
                /\ rt.pc \in {"snapshot", "snap_insert"} \/ e \in rt.todo
  BY <1>c DEF Rooted, RtIs
<1>d. rt.pc # "down" \/ Reconcile
  <2>1. EdgeSteps => rt.pc # "down" \/ Reconcile
    BY DEF EdgeSteps, Inserts, Takes, InsertEdge, TakeEdge, ActivateBucket, IndexEdge, CountEdge,
           UnindexEdge, DeactivateBucket, UncountEdge, RtIs
  <2> QED BY <1>0, <2>1, Quiet DEF Between
<1>1. CASE Reconcile
  BY <1>1 DEF Reconcile
<1>2. CASE Inserts
  <2>1. PICK f \in rt.todo : InsertEdge(f)
    BY <1>2 DEF Inserts
  <2>2. /\ edges' = edges \cup {f} /\ f[1] \in live /\ UNCHANGED live
        /\ rt.op # "cleanup" /\ rt.pc # "down"
    BY <2>1 DEF InsertEdge, CanAdd, sessVars, Adding, RtIs
  <2> QED BY <1>c, <2>2
<1>3. CASE Ended
  <2>1. PICK s \in Sessions, b \in BOOLEAN : BeginCleanup(s, b)
    BY <1>3 DEF Ended
  <2>2. Begins("snapshot", "cleanup", s, None, {}, None)
    BY ONLY <1>0, <2>1 DEF StartMoves
  <2>3. rt'.op = "cleanup" /\ rt'.s = s /\ rt'.pc = "snapshot"
    BY <2>2 DEF Begins
  <2>4. live' = live \ {s} /\ edges' = edges /\ rt = Ready
    BY <1>0, <2>1 DEF BeginCleanup, Serving, RtIs, edgeVars
  <2>5. e[1] \in live
    BY <1>c, <2>4 DEF Ready
  <2> QED BY <2>3, <2>4, <2>5
<1>4. CASE ~Reconcile /\ ~Inserts /\ ~Ended
  <2>1. e \in edges /\ rt.pc # "down"
    BY <1>0, <1>4, <1>d DEF Unwritten, edgeVars, EdgeSteps, ActivateBucket, IndexEdge, CountEdge,
       Takes, TakeEdge, UnindexEdge, DeactivateBucket, UncountEdge
  <2>2. live \subseteq live'
    <3>1. CASE SessSteps
      <4>1. live' = live \/ \E s : live' = live \cup {s}
        BY <1>4, <3>1 DEF SessSteps, sessVars, Owners, OwnerExit, Connects, Connect,
           InsertSession, ReserveSnapshot, FinishCleanup, CreateResumed
      <4> QED BY <4>1
    <3> QED BY <1>0, <3>1 DEF Unwritten, sessVars
  <2>3. CASE e[1] \in live
    BY <2>2, <2>3
  <2>4. CASE e[1] \notin live
    <3>1. /\ rt.op = "cleanup" /\ e[1] = rt.s
          /\ rt.pc \in {"snapshot", "snap_insert"} \/ e \in rt.todo
      BY <1>c, <2>1, <2>4
    <3>2. ~FinishCleanup
      BY <3>1 DEF FinishCleanup, RtIs
    <3>3. UNCHANGED rt \/ (Continues /\ rt'.op = "cleanup")
      BY <1>0, <3>1, <3>2, CleanupSteps
    <3>4. CASE UNCHANGED rt
      BY <3>1, <3>4
    <3>5. CASE Continues /\ ~UNCHANGED rt
      <4>1. Removing /\ ~EndsUp
        BY <3>1, <3>5 DEF Removing, EndsUp, Continues, Ready
      <4>2. /\ rt'.op = rt.op /\ rt'.s = rt.s
            /\ \/ rt'.todo = rt.todo
               \/ \E f : rt'.todo = rt.todo \ {f} /\ f \notin edges'
               \/ rt.pc \in {"snapshot", "snap_insert"} /\ rt'.todo = ReverseOf(rt.s, Kinds)
        BY ONLY <1>0, <4>1, Typed, Indexed, [Next]_vars, RemovalSteps
      <4>3. CASE rt.pc \in {"snapshot", "snap_insert"}
        <5>1. reverse = edges
          BY <4>3, Shapes DEF Indexed, RtIs, EdgePcs, UnedgePcs
        <5>2. e \in ReverseOf(rt.s, Kinds)
          BY <1>0, <2>1, <3>1, <5>1, RoomsAreItems DEF ReverseOf
        <5>3. rt'.pc = "snap_insert" \/ rt'.todo = ReverseOf(rt.s, Kinds)
          <6>1. ~EdgeSteps /\ ~TakenUp
            <7>1. /\ ~RtIs("next") /\ ~RtIs("activate") /\ ~RtIs("index") /\ ~RtIs("count")
                  /\ ~RtIs("unindex") /\ ~RtIs("deactivate") /\ ~RtIs("uncount")
                  /\ ~RtIs("down") /\ ~Serving /\ ~Accepting
              BY ONLY <4>3 DEF RtIs, Serving, Accepting
            <7>2. ~EdgeSteps
              BY ONLY <7>1, Zenon DEF EdgeSteps, Inserts, Takes, InsertEdge, TakeEdge, ActivateBucket, IndexEdge,
                 CountEdge, UnindexEdge, DeactivateBucket, UncountEdge, Reconcile
            <7>3. ~TakenUp
              BY ONLY <7>1, Zenon DEF TakenUp, Started, AddMany, RemoveMany, Sync, JoinWithMetadata,
                 ResumeRoom, Ended, BeginCleanup, Resumed, Resume, SnapMail, ExpireSnapshot,
                 GraceMail, ExpireGrace, RoomMail, ExpireRoom
            <7> QED BY ONLY <7>2, <7>3
          <6>2. ~Outside
            BY ONLY <3>5 DEF Outside, Tick, Owners, OwnerExit, Connects, Connect, Deadlines,
                     SetRoomDeadline, Drains, SetDraining, TimersFire, ExpireTimer,
                     LoseTimer, vars
          <6>3. BetweenEdges
            BY <1>0, <6>1, <6>2, Sorted
          <6>4. ReserveSnapshot \/ StoreSnapshot
            BY ONLY <4>3, <6>3 DEF BetweenEdges, Keeps, Refuses, KeepEdge, RefuseEdge,
               InitializeMetadata, ConsumeGrace, ReserveGrace, StoreGrace, FinishCleanup,
               CreateResumed, RestoreEdges, GiveSnapshotSlot, ForgetRoom, ForgetGrace,
               GiveGraceSlots, EndRequest, RtIs
          <6> QED BY ONLY <6>4, BetweenMovesHold, Typed DEF BetweenMoves, GoesTo, Becomes
        <5> QED BY <3>1, <4>2, <5>2, <5>3
      <4>4. CASE rt.pc \notin {"snapshot", "snap_insert"}
        BY <3>1, <4>2, <4>4
      <4> QED BY <4>3, <4>4
    <3> QED BY <3>3, <3>4, <3>5
  <2> QED BY <2>3, <2>4
<1> QED BY <1>1, <1>2, <1>3, <1>4

(* Everything the agreement of the indices rests on.                       *)
Agreement == Typed /\ Tokens /\ Indexed /\ RowsCounted /\ UsersCounted /\ Rooted

LEMMA AgreementInit == Init => Agreement
<1> SUFFICES ASSUME Init PROVE Agreement
  OBVIOUS
<1>1. /\ rt.pc = "idle" /\ rt.op = "none" /\ edges = {} /\ reverse = {} /\ fan = {} /\ active = {}
      /\ live = {} /\ snapshots = <<>> /\ born = {} /\ resumes = [s \in Sessions |-> 0]
      /\ sessCount = [s \in Sessions |-> [k \in Kinds |-> 0]]
      /\ itemCount = [x \in Items |-> 0] /\ edgeUsed = [k \in Kinds |-> 0]
      /\ userCount = [u \in Users |-> 0]
  BY DEF Init, Ready
<1>2. Indexed
  BY <1>1, Shapes, BitsFacts DEF Indexed, EdgePcs, UnedgePcs, GracePcs
<1>3. /\ \A s, k : SessRows({}, s, k) = {}
      /\ \A x : ItemRows({}, x) = {} /\ \A k : KindRows({}, k) = {}
      /\ \A u : UserRows({}, u) = {}
  BY DEF SessRows, ItemRows, KindRows, UserRows
<1>4. RowsCounted
  BY <1>1, <1>3, FS_EmptySet DEF RowsCounted
<1>5. Ending = {} /\ live \cup Ending = {}
  BY <1>1 DEF Ending
<1>6. UsersCounted
  BY <1>1, <1>3, <1>5, FS_EmptySet DEF UsersCounted
<1>7. Tokens
  BY <1>1 DEF Tokens, RtIs
<1> QED BY <1>1, <1>2, <1>4, <1>6, <1>7, TypedInit DEF Agreement, Rooted

LEMMA AgreementNext == Agreement /\ [Next]_vars => Agreement'
<1> SUFFICES ASSUME Agreement, [Next]_vars PROVE Agreement'
  OBVIOUS
<1>1. Typed' /\ Tokens' /\ Indexed' /\ RowsCounted' /\ UsersCounted' /\ Rooted'
  BY TypedNext, TokensNext, IndexedNext, RowsCountedNext, UsersCountedNext, RootedNext
     DEF Agreement
<1> QED BY <1>1 DEF Agreement

(* Whenever Runtime is between two requests, also right after it recovered *)
(* from a stop anywhere in one, the indices and the counters say what the  *)
(* edges of the live sessions are.                                         *)
THEOREM IndicesAreSound == Spec => []IndicesSound
<1>1. Agreement => IndicesSound
  <2> SUFFICES ASSUME Agreement PROVE TypeOK /\ IndicesAgree
    BY DEF IndicesSound
  <2>1. TypeOK
    BY DEF Agreement, Typed
  <2>2. ASSUME RtIs("idle")
        PROVE  /\ \A e \in edges : e[1] \in live
               /\ reverse = edges /\ fan = edges
               /\ active = {<<e[2], Bucket[e[1]]>> : e \in edges}
               /\ \A s \in Sessions, k \in Kinds :
                    sessCount[s][k] = Cardinality(EdgesOf(s, {k}))
               /\ \A x \in Items :
                    itemCount[x] = Cardinality({e \in edges : e[2] = x})
               /\ \A k \in Kinds :
                    edgeUsed[k] = Cardinality({e \in edges : Kind[e[2]] = k})
               /\ \A u \in Users :
                    userCount[u] = Cardinality({s \in live : UserOf[s] = u})
    <3>1. rt.pc = "idle" /\ rt.op = "none"
      BY <2>2 DEF Agreement, Typed, OpOfPc, RtIs, Ready
    <3>2. fan = edges /\ reverse = edges /\ active = Bits(edges)
      BY <3>1, Shapes DEF Agreement, Indexed, RtIs, EdgePcs, UnedgePcs
    <3>3. \A e \in edges : e[1] \in live
      BY <3>1 DEF Agreement, Rooted, RtIs
    <3>4. live \cup Ending = live /\ edges \cup reverse = edges
      BY <3>1, <3>2 DEF Ending
    <3>5. active = {<<e[2], Bucket[e[1]]>> : e \in edges}
      BY <3>2 DEF Bits, Bit
    <3>6. \A s \in Sessions, k \in Kinds : sessCount[s][k] = Cardinality(EdgesOf(s, {k}))
      <4>1. \A s, k : EdgesOf(s, {k}) = SessRows(reverse, s, k)
        BY <3>2 DEF EdgesOf, SessRows
      <4> QED BY <3>1, <4>1 DEF Agreement, RowsCounted, RtIs
    <3>7. \A x \in Items : itemCount[x] = Cardinality({e \in edges : e[2] = x})
      BY <3>1, <3>2 DEF Agreement, RowsCounted, RtIs, ItemRows
    <3>8. \A k \in Kinds : edgeUsed[k] = Cardinality({e \in edges : Kind[e[2]] = k})
      BY <3>1, <3>4 DEF Agreement, RowsCounted, RtIs, KindRows
    <3>9. \A u \in Users : userCount[u] = Cardinality({s \in live : UserOf[s] = u})
      BY <3>1, <3>4 DEF Agreement, UsersCounted, RtIs, UserRows
    <3> QED BY <3>2, <3>3, <3>5, <3>6, <3>7, <3>8, <3>9
  <2> QED BY <2>1, <2>2 DEF IndicesAgree
<1> QED BY <1>1, AgreementInit, AgreementNext, PTL DEF Spec

-----------------------------------------------------------------------------
(* An expiry takes every member of its room out.                           *)
LEMMA ExpiryBegins ==
  ASSUME Typed, Indexed, [Next]_vars, rt.op # "expire", rt'.op = "expire"
  PROVE  /\ rt'.pc = "next"
         /\ \A e \in edges' : e[2] = rt'.cur[2] => e \in rt'.todo
<1>0. StartMoves /\ ~UNCHANGED rt
  BY StartMovesHold
<1>1. TakenUp /\ rt.pc = "idle"
  <2>1. ~EndsUp /\ ~Crash /\ ~Continues
    BY DEF EndsUp, Crash, Ready, Continues
  <2> QED BY <1>0, <2>1, Goings
<1>2. RoomMail
  <2>1. ~Started
    BY ONLY <1>0, rt'.op = "expire" DEF Started, StartMoves, Begins
  <2>2. ~(Ended \/ Resumed)
    BY ONLY <1>0, rt'.op = "expire" DEF Ended, Resumed, StartMoves, Begins
  <2>3. ~(SnapMail \/ GraceMail)
    BY ONLY <1>0, rt'.op = "expire" DEF SnapMail, GraceMail, StartMoves, Begins
  <2> QED BY ONLY <1>1, <2>1, <2>2, <2>3 DEF TakenUp
<1>m. PICK m \in casts : ExpireRoom(m[1][3], m[2])
  BY <1>2 DEF RoomMail
<1> DEFINE r == m[1][3]  d == m[2]
<1>3. ExpireRoom(r, d)
  BY <1>m
<1> HIDE DEF r, d
<1>4. Begins("next", "expire", None, <<None, r>>, Reached(r), None)
  BY ONLY <1>0, <1>3 DEF StartMoves
<1>5. rt'.pc = "next" /\ rt'.cur = <<None, r>> /\ rt'.todo = Reached(r)
  BY <1>4 DEF Begins
<1>6. fan = edges /\ active = Bits(edges) /\ edges' = edges
  BY <1>1, <1>3, Shapes DEF Indexed, RtIs, EdgePcs, UnedgePcs, ExpireRoom, edgeVars
<1>7. ASSUME NEW e \in edges, e[2] = r PROVE e \in Reached(r)
  <2>1. Bit(e) \in Bits(edges) /\ Bit(e) = <<r, Bucket[e[1]]>>
    BY <1>7 DEF Bits, Bit
  <2> QED BY <1>6, <1>7, <2>1 DEF Reached
<1> QED BY <1>5, <1>6, <1>7

LEMMA EmptiedNext ==
  Typed /\ Indexed /\ Emptied /\ [Next]_vars => Emptied'
<1> SUFFICES ASSUME Typed, Indexed, Emptied, [Next]_vars, rt'.op = "expire"
             PROVE  /\ \A e \in edges' : e[2] = rt'.cur[2] => e \in rt'.todo
                    /\ rt'.pc \in Late => rt'.todo = {}
                    /\ rt'.pc = "give_grace" => \A key \in DOMAIN grace' : key[2] # rt'.cur[2]
  BY DEF Emptied, Late, RtIs
<1>0. BetweenMoves
  BY BetweenMovesHold
<1>1. CASE rt.op # "expire"
  BY <1>1, ExpiryBegins DEF Late
<1>2. CASE rt.op = "expire"
  <2>0. /\ \A e \in edges : e[2] = rt.cur[2] => e \in rt.todo
        /\ rt.pc \in Late => rt.todo = {}
        /\ rt.pc = "give_grace" => \A key \in DOMAIN grace : key[2] # rt.cur[2]
    BY <1>2 DEF Emptied, Late, RtIs
  <2>1. ~EndsUp /\ ~Crash /\ ~GiveGraceSlots /\ Removing
    BY <1>0, <1>2 DEF EndsUp, Crash, Ready, BetweenMoves, Removing
  <2>2. rt'.cur[2] = rt.cur[2]
    BY <1>2, <2>1, ExpiryKeeps
  <2>3. \A e \in edges' : e[2] = rt'.cur[2] => e \in rt'.todo
    <3>1. rt.pc \notin {"snapshot", "snap_insert"}
      BY <1>2 DEF Typed, OpOfPc
    <3>2. /\ edges' \subseteq edges
          /\ \/ rt'.todo = rt.todo
             \/ \E f : rt'.todo = rt.todo \ {f} /\ f \notin edges'
      BY <2>1, <3>1, RemovalSteps
    <3> QED BY <2>0, <2>2, <3>2
  <2>4. ASSUME rt'.pc \in Late
        PROVE  /\ rt'.todo = {}
               /\ rt'.pc = "give_grace" => \A key \in DOMAIN grace' : key[2] # rt'.cur[2]
    <3>1. CASE UNCHANGED <<rt, graceVars>>
      BY <2>0, <2>4, <3>1 DEF graceVars
    <3>2. CASE ForgetRoom
      <4>1. rt'.pc = "forget_grace" /\ rt'.todo = rt.todo /\ rt.todo = {}
        BY ONLY <1>0, <3>2 DEF BetweenMoves, GoesTo, Becomes, ForgetRoom
      <4> QED BY <4>1
    <3>3. CASE ForgetGrace
      <4>1. rt'.todo = rt.todo /\ rt'.cur = rt.cur /\ rt.pc = "forget_grace"
        BY ONLY <1>0, <3>3 DEF BetweenMoves, GoesTo, Becomes, ForgetGrace, RtIs
      <4>2. DOMAIN grace' = DOMAIN grace \ {key \in DOMAIN grace : key[2] = rt.cur[2]}
        BY <3>3 DEF ForgetGrace, Drop, Restrict
      <4> QED BY <2>0, <4>1, <4>2 DEF Late
    <3> QED BY <2>4, <3>1, <3>2, <3>3, LateSteps
  <2> QED BY <2>3, <2>4 DEF Late
<1> QED BY <1>1, <1>2

(* An expired room is gone when its expiry is over: no member, no state    *)
(* and no grace by which a resume could bring a member back.               *)
THEOREM RoomsAreForgotten == Spec => []RoomForgotten
<1>1. Init => Agreement /\ Forgets /\ Emptied
  BY AgreementInit DEF Init, Ready, Forgets, Emptied
<1>2. Agreement /\ Forgets /\ Emptied /\ [Next]_vars => (Agreement /\ Forgets /\ Emptied)'
  <2>1. Agreement => Typed /\ Indexed
    BY DEF Agreement
  <2> QED BY <2>1, AgreementNext, ForgetsNext, EmptiedNext
<1>3. Agreement /\ Forgets /\ Emptied => RoomForgotten
  BY DEF Forgets, Emptied, RoomForgotten, Late, RtIs
<1> QED BY <1>1, <1>2, <1>3, PTL DEF Spec

-----------------------------------------------------------------------------
(* A sync: which steps it has, and what each does to the session's edges.  *)
LEMMA SyncSteps ==
  ASSUME Typed, [Next]_vars, rt.op = "sync"
  PROVE  \/ UNCHANGED <<rt, edges>>
         \/ Inserts \/ ActivateBucket \/ IndexEdge \/ CountEdge
         \/ Keeps \/ Refuses \/ EndRequest \/ Crash
<1>0. /\ rt.pc \notin {"idle", "down", "metadata", "consume", "snapshot", "snap_insert", "grace",
                       "grace_insert", "create", "restore", "give_snap", "forget_grace",
                       "give_grace"} \cup UnedgePcs
      /\ ~Removing
  BY DEF Typed, OpOfPc, Ready, GracePcs, RtIs, Removing
<1>1. CASE Outside
  BY ONLY <1>1 DEF Outside, Tick, Owners, OwnerExit, Connects, Connect, Deadlines,
                   SetRoomDeadline, Drains, SetDraining, TimersFire, ExpireTimer,
                   LoseTimer, vars, edgeVars
<1>2. ~TakenUp
  BY ONLY <1>0 DEF TakenUp, Started, Start, AddMany, RemoveMany, Sync, JoinWithMetadata,
     ResumeRoom, Ended, BeginCleanup, Resumed, Resume, SnapMail, ExpireSnapshot,
     GraceMail, ExpireGrace, RoomMail, ExpireRoom, Serving, Accepting, RtIs
<1>3. CASE EdgeSteps
  BY ONLY <1>0, <1>3 DEF EdgeSteps, Takes, TakeEdge, UnindexEdge, DeactivateBucket, UncountEdge,
                         Reconcile, UnedgePcs, RtIs
<1>4. CASE BetweenEdges
  BY ONLY <1>0, <1>4, rt.op = "sync" DEF BetweenEdges, InitializeMetadata, ConsumeGrace,
     ReserveSnapshot, StoreSnapshot, ReserveGrace, StoreGrace, FinishCleanup, CreateResumed,
     RestoreEdges, GiveSnapshotSlot, ForgetRoom, ForgetGrace, GiveGraceSlots, RtIs
<1> QED BY ONLY [Next]_vars, <1>1, <1>2, <1>3, <1>4, Sorted

LEMMA UndoSteps ==
  ASSUME Typed, [Next]_vars, rt.op \in {"rollback", "trim"}
  PROVE  \/ UNCHANGED <<rt, edges>>
         \/ Takes \/ UnindexEdge \/ DeactivateBucket \/ UncountEdge
         \/ EndRequest \/ Crash
<1>0. /\ rt.pc \notin {"idle", "down", "metadata", "consume", "snapshot", "snap_insert", "grace",
                       "grace_insert", "create", "restore", "give_snap", "forget_grace",
                       "give_grace"} \cup EdgePcs
      /\ ~Adding
  BY DEF Typed, OpOfPc, Ready, GracePcs, RtIs, Adding
<1>1. CASE Outside
  BY ONLY <1>1 DEF Outside, Tick, Owners, OwnerExit, Connects, Connect, Deadlines,
                   SetRoomDeadline, Drains, SetDraining, TimersFire, ExpireTimer,
                   LoseTimer, vars, edgeVars
<1>2. ~TakenUp
  BY ONLY <1>0 DEF TakenUp, Started, Start, AddMany, RemoveMany, Sync, JoinWithMetadata,
     ResumeRoom, Ended, BeginCleanup, Resumed, Resume, SnapMail, ExpireSnapshot,
     GraceMail, ExpireGrace, RoomMail, ExpireRoom, Serving, Accepting, RtIs
<1>3. CASE EdgeSteps
  BY ONLY <1>0, <1>3 DEF EdgeSteps, Inserts, InsertEdge, ActivateBucket, IndexEdge, CountEdge,
                         Reconcile, EdgePcs, RtIs
<1>4. CASE BetweenEdges
  BY ONLY <1>0, <1>4, rt.op \in {"rollback", "trim"} DEF BetweenEdges, Keeps, KeepEdge, Refuses,
     RefuseEdge, InitializeMetadata, ConsumeGrace,
     ReserveSnapshot, StoreSnapshot, ReserveGrace, StoreGrace, FinishCleanup, CreateResumed,
     RestoreEdges, GiveSnapshotSlot, ForgetRoom, ForgetGrace, GiveGraceSlots, RtIs
<1> QED BY ONLY [Next]_vars, <1>1, <1>2, <1>3, <1>4, Sorted

LEMMA OfFacts ==
  ASSUME NEW E, NEW e, NEW s, NEW k
  PROVE  /\ e \in E /\ Of(E, s, k) = E => e[1] = s /\ Kind[e[2]] = k
         /\ e[1] = s /\ Kind[e[2]] = k => Of(E \cup {e}, s, k) = Of(E, s, k) \cup {e}
         /\ Of(E \ {e}, s, k) = Of(E, s, k) \ {e}
         /\ e \in E /\ e[1] = s /\ Kind[e[2]] = k => e \in Of(E, s, k)
         /\ e \in Of(E, s, k) => e \in E
<1>1. e \in E /\ Of(E, s, k) = E => e[1] = s /\ Kind[e[2]] = k
  BY DEF Of
<1>2. e[1] = s /\ Kind[e[2]] = k => Of(E \cup {e}, s, k) = Of(E, s, k) \cup {e}
  BY DEF Of
<1>3. Of(E \ {e}, s, k) = Of(E, s, k) \ {e}
  BY DEF Of
<1>4. /\ e \in E /\ e[1] = s /\ Kind[e[2]] = k => e \in Of(E, s, k)
      /\ e \in Of(E, s, k) => e \in E
  BY DEF Of
<1> QED BY ONLY <1>1, <1>2, <1>3, <1>4

(* The next state of a sync that goes on.                                  *)
SyncGoesOn ==
  LET mine == Of(edges', rt.s, rt.k)
  IN /\ rt'.s = rt.s /\ rt'.k = rt.k /\ rt'.before = rt.before /\ rt'.desired = rt.desired
     /\ rt'.op = "sync" => Grows(rt'.pc, rt'.cur, mine, rt'.todo, rt'.added, rt.before,
                                 rt.desired, rt'.after)
     /\ rt'.op = "rollback" => Shrinks(rt'.pc, rt'.cur, mine, rt'.todo, rt.before)
     /\ rt'.op = "trim" => Shrinks(rt'.pc, rt'.cur, mine, rt'.todo, rt.desired)

LEMMA SyncKept ==
  ASSUME Syncs, rt.op \in SyncOps, SyncGoesOn
  PROVE  Syncs'
<1>1. /\ Of(rt.before, rt.s, rt.k) = rt.before
      /\ Of(rt.desired, rt.s, rt.k) = rt.desired
  BY DEF Syncs
<1>2. ASSUME rt'.op \in SyncOps
      PROVE  /\ Of(rt'.before, rt'.s, rt'.k) = rt'.before
             /\ Of(rt'.desired, rt'.s, rt'.k) = rt'.desired
             /\ rt'.op = "sync" => Grows(rt'.pc, rt'.cur, Of(edges', rt'.s, rt'.k), rt'.todo,
                                         rt'.added, rt'.before, rt'.desired, rt'.after)
             /\ rt'.op = "rollback" => Shrinks(rt'.pc, rt'.cur, Of(edges', rt'.s, rt'.k),
                                               rt'.todo, rt'.before)
             /\ rt'.op = "trim" => Shrinks(rt'.pc, rt'.cur, Of(edges', rt'.s, rt'.k),
                                           rt'.todo, rt'.desired)
  BY <1>1 DEF SyncGoesOn
<1> QED BY ONLY <1>2 DEF Syncs, SyncOps, Of, Grows, Shrinks, InHand

LEMMA GrowsNext ==
  ASSUME Typed, Syncs, [Next]_vars, rt.op = "sync", ~EndsUp, ~Crash, ~UNCHANGED <<rt, edges>>
  PROVE  SyncGoesOn
<1> DEFINE s == rt.s  k == rt.k  B == rt.before  D == rt.desired  M == Of(edges, s, k)
<1>0. /\ EdgeMoves /\ AddMoves /\ BetweenMoves
      /\ Of(D, s, k) = D
      /\ Grows(rt.pc, rt.cur, M, rt.todo, rt.added, B, D, rt.after)
      /\ rt.pc \in EdgePcs => rt.cur \in rt.todo
  BY EdgeMovesHold, AddMovesHold, BetweenMovesHold DEF Syncs, SyncOps, Typed, CurOfPc
<1> HIDE DEF s, k, B, D, M
<1>1. /\ M = B \cup rt.added \cup InHand(EdgePcs, rt.pc, rt.cur)
      /\ rt.added \cup rt.todo = D \ B /\ rt.added \cap rt.todo = {}
      /\ rt.after = B \ D
  BY <1>0 DEF Grows
<1>2. ASSUME NEW e \in rt.todo
      PROVE  e[1] = s /\ Kind[e[2]] = k /\ e \notin B /\ e \notin rt.added /\ e \in D
  <2>1. e \in D /\ e \notin B /\ e \notin rt.added
    BY <1>1
  <2> QED BY <1>0, <2>1, OfFacts
<1>n. rt.pc = "next" => M = B \cup rt.added
  BY <1>1 DEF InHand, EdgePcs
<1>k. ASSUME rt'.s = rt.s, rt'.k = rt.k, rt'.before = B, rt'.desired = D,
             rt'.op = "sync" => Grows(rt'.pc, rt'.cur, Of(edges', s, k), rt'.todo,
                                      rt'.added, B, D, rt'.after),
             rt'.op = "rollback" => Shrinks(rt'.pc, rt'.cur, Of(edges', s, k), rt'.todo, B),
             rt'.op = "trim" => Shrinks(rt'.pc, rt'.cur, Of(edges', s, k), rt'.todo, D)
      PROVE  SyncGoesOn
  BY ONLY <1>k DEF SyncGoesOn, s, k, B, D
<1>3. CASE Inserts
  <2>1. PICK e \in rt.todo : InsertEdge(e)
    BY <1>3 DEF Inserts
  <2>2. Becomes("activate", rt.op, e, rt.todo, rt.added, rt.after)
    BY ONLY <1>0, <2>1 DEF EdgeMoves
  <2>3. edges' = edges \cup {e} /\ rt.pc = "next"
    BY ONLY <2>1 DEF InsertEdge, RtIs
  <2>4. Of(edges', s, k) = M \cup {e}
    <3>1. e[1] = s /\ Kind[e[2]] = k
      BY ONLY <1>2
    <3>2. Of(edges \cup {e}, s, k) = Of(edges, s, k) \cup {e}
      BY ONLY <3>1 DEF Of
    <3> QED BY ONLY <2>3, <3>2 DEF M
  <2>5. InHand(EdgePcs, "activate", e) = {e}
    BY DEF InHand, EdgePcs
  <2>6. Grows("activate", e, Of(edges', s, k), rt.todo, rt.added, B, D, rt.after)
    BY <1>1, <1>n, <2>3, <2>4, <2>5 DEF Grows
  <2> QED BY ONLY <1>k, <2>2, <2>6, rt.op = "sync" DEF Becomes, B, D
<1>4. CASE ActivateBucket \/ IndexEdge
  <2>1. \E pc \in EdgePcs : GoesTo(pc)
    BY ONLY <1>0, <1>4 DEF EdgeMoves, EdgePcs
  <2>2. PICK pc \in EdgePcs : GoesTo(pc)
    BY ONLY <2>1
  <2>3. rt.pc \in EdgePcs /\ edges' = edges
    BY ONLY <1>4 DEF ActivateBucket, IndexEdge, RtIs, EdgePcs
  <2>4. InHand(EdgePcs, pc, rt.cur) = InHand(EdgePcs, rt.pc, rt.cur)
    BY <2>2, <2>3 DEF InHand
  <2>5. Grows(pc, rt.cur, Of(edges', s, k), rt.todo, rt.added, B, D, rt.after)
    BY <1>1, <2>3, <2>4 DEF Grows, M
  <2> QED BY ONLY <1>k, <2>2, <2>5, rt.op = "sync" DEF GoesTo, Becomes, B, D
<1>5. CASE CountEdge
  <2>1. Becomes("next", rt.op, rt.cur, rt.todo \ {rt.cur}, rt.added \cup {rt.cur}, rt.after)
    BY ONLY <1>0, <1>5, rt.op = "sync" DEF AddMoves, Added
  <2>2. rt.pc \in EdgePcs /\ edges' = edges
    BY ONLY <1>5 DEF CountEdge, RtIs, EdgePcs
  <2>3. InHand(EdgePcs, "next", rt.cur) = {} /\ InHand(EdgePcs, rt.pc, rt.cur) = {rt.cur}
    BY <2>2 DEF InHand, EdgePcs
  <2>4. /\ rt.cur \in rt.todo /\ M = B \cup rt.added \cup {rt.cur} /\ Of(edges', s, k) = M
    BY <1>0, <1>1, <2>2, <2>3 DEF M
  <2>5. Grows("next", rt.cur, Of(edges', s, k), rt.todo \ {rt.cur}, rt.added \cup {rt.cur}, B, D,
              rt.after)
    BY <1>1, <2>3, <2>4 DEF Grows
  <2> QED BY ONLY <1>k, <2>1, <2>5, rt.op = "sync" DEF Becomes, B, D
<1>6. ~Keeps
  <2>1. ASSUME NEW e \in rt.todo, KeepEdge(e) PROVE FALSE
    <3>1. e \in edges /\ rt.pc = "next"
      BY ONLY <2>1 DEF KeepEdge, RtIs
    <3>2. e \in M
      BY <1>2, <3>1, OfFacts DEF M
    <3> QED BY <1>2, <1>n, <3>1, <3>2
  <2> QED BY <2>1 DEF Keeps
<1>7. CASE Refuses
  <2>1. PICK e \in rt.todo : RefuseEdge(e)
    BY <1>7 DEF Refuses
  <2>2. Becomes("next", "rollback", rt.cur, rt.added, {}, {})
    BY ONLY <1>0, <2>1, rt.op = "sync" DEF BetweenMoves
  <2>3. edges' = edges /\ rt.pc = "next"
    BY ONLY <2>1 DEF RefuseEdge, RtIs, edgeVars
  <2>4. InHand(UnedgePcs, "next", rt.cur) = {}
    BY DEF InHand, UnedgePcs
  <2>5. Shrinks("next", rt.cur, Of(edges', s, k), rt.added, B)
    BY <1>1, <1>n, <2>3, <2>4 DEF Shrinks, M
  <2> QED BY ONLY <1>k, <2>2, <2>5 DEF Becomes, B, D
<1>8. CASE EndRequest
  <2>1. Becomes("next", "trim", rt.cur, rt.after, rt.added, {})
    BY ONLY <1>0, <1>8, ~EndsUp DEF BetweenMoves
  <2>2. edges' = edges /\ rt.pc = "next" /\ rt.todo = {}
    BY ONLY <1>8 DEF EndRequest, RtIs, edgeVars
  <2>3. InHand(UnedgePcs, "next", rt.cur) = {}
    BY DEF InHand, UnedgePcs
  <2>4. Shrinks("next", rt.cur, Of(edges', s, k), rt.after, D)
    BY <1>1, <1>n, <2>2, <2>3 DEF Shrinks, M
  <2> QED BY ONLY <1>k, <2>1, <2>4 DEF Becomes, B, D
<1> QED
  BY ONLY Typed, [Next]_vars, rt.op = "sync", ~Crash, ~UNCHANGED <<rt, edges>>, SyncSteps,
          <1>3, <1>4, <1>5, <1>6, <1>7, <1>8

(* What is taken back or trimmed is on the list, and nothing else goes.    *)
LEMMA ShrinksTo ==
  ASSUME Typed, [Next]_vars, rt.op \in {"rollback", "trim"},
         ~EndsUp, ~Crash, ~UNCHANGED <<rt, edges>>,
         NEW T, Of(T, rt.s, rt.k) = T,
         Shrinks(rt.pc, rt.cur, Of(edges, rt.s, rt.k), rt.todo, T)
  PROVE  /\ rt'.op = rt.op
         /\ rt'.s = rt.s /\ rt'.k = rt.k /\ rt'.before = rt.before /\ rt'.desired = rt.desired
         /\ Shrinks(rt'.pc, rt'.cur, Of(edges', rt.s, rt.k), rt'.todo, T)
<1> DEFINE M == Of(edges, rt.s, rt.k)
<1>0. /\ EdgeMoves /\ BetweenMoves
      /\ rt.pc \in UnedgePcs => rt.cur \in rt.todo
      /\ rt.op \notin {"sync", "cleanup"}
  BY EdgeMovesHold, BetweenMovesHold DEF Typed, CurOfPc
<1>1. /\ M = (T \cup rt.todo) \ InHand(UnedgePcs, rt.pc, rt.cur)
      /\ rt.todo \cap T = {}
  BY DEF Shrinks
<1> HIDE DEF M
<1>n. rt.pc = "next" => M = T \cup rt.todo
  BY <1>1 DEF InHand, UnedgePcs
<1>2. CASE Takes
  <2>1. PICK e \in rt.todo : TakeEdge(e)
    BY <1>2 DEF Takes
  <2>2. edges' = edges \ {e} /\ rt.pc = "next"
    BY ONLY <2>1 DEF TakeEdge, RtIs
  <2>3. e \in edges
    <3>1. e \in M
      BY <1>n, <2>2
    <3> QED BY ONLY <3>1 DEF M, Of
  <2>4. Becomes("unindex", rt.op, e, rt.todo, rt.added, rt.after)
    BY ONLY <1>0, <2>1, <2>3 DEF EdgeMoves
  <2>5. Of(edges', rt.s, rt.k) = M \ {e}
    BY ONLY <2>2 DEF M, Of
  <2>6. InHand(UnedgePcs, "unindex", e) = {e}
    BY DEF InHand, UnedgePcs
  <2>7. Shrinks("unindex", e, Of(edges', rt.s, rt.k), rt.todo, T)
    BY ONLY <1>1, <1>n, <2>2, <2>5, <2>6 DEF Shrinks
  <2> QED BY ONLY <2>4, <2>7 DEF Becomes
<1>3. CASE UnindexEdge \/ DeactivateBucket
  <2>1. \E pc \in UnedgePcs : GoesTo(pc)
    BY ONLY <1>0, <1>3 DEF EdgeMoves, UnedgePcs
  <2>2. PICK pc \in UnedgePcs : GoesTo(pc)
    BY ONLY <2>1
  <2>3. rt.pc \in UnedgePcs /\ edges' = edges
    BY ONLY <1>3 DEF UnindexEdge, DeactivateBucket, RtIs, UnedgePcs
  <2>4. InHand(UnedgePcs, pc, rt.cur) = InHand(UnedgePcs, rt.pc, rt.cur)
    BY <2>2, <2>3 DEF InHand
  <2>5. Shrinks(pc, rt.cur, Of(edges', rt.s, rt.k), rt.todo, T)
    BY ONLY <1>1, <2>3, <2>4 DEF Shrinks, M
  <2> QED BY ONLY <2>2, <2>5 DEF GoesTo, Becomes
<1>4. CASE UncountEdge
  <2>1. Becomes("next", rt.op, rt.cur, rt.todo \ {rt.cur}, rt.added, rt.after)
    BY ONLY <1>0, <1>4 DEF EdgeMoves, Passes
  <2>2. rt.pc \in UnedgePcs /\ edges' = edges
    BY ONLY <1>4 DEF UncountEdge, RtIs, UnedgePcs
  <2>3. InHand(UnedgePcs, "next", rt.cur) = {} /\ InHand(UnedgePcs, rt.pc, rt.cur) = {rt.cur}
    BY <2>2 DEF InHand, UnedgePcs
  <2>4. /\ rt.cur \in rt.todo /\ M = (T \cup rt.todo) \ {rt.cur}
        /\ Of(edges', rt.s, rt.k) = M
    BY <1>0, <1>1, <2>2, <2>3 DEF M
  <2>5. Shrinks("next", rt.cur, Of(edges', rt.s, rt.k), rt.todo \ {rt.cur}, T)
    BY ONLY <1>1, <2>3, <2>4 DEF Shrinks
  <2> QED BY ONLY <2>1, <2>5 DEF Becomes
<1>5. ~EndRequest
  BY ONLY <1>0, ~EndsUp DEF BetweenMoves
<1> QED
  BY ONLY Typed, [Next]_vars, rt.op \in {"rollback", "trim"}, ~Crash, ~UNCHANGED <<rt, edges>>,
          UndoSteps, <1>2, <1>3, <1>4, <1>5

LEMMA SyncBegins ==
  ASSUME Typed, Indexed, [Next]_vars, rt.op \notin SyncOps, rt'.op \in SyncOps
  PROVE  Syncs'
<1>0. StartMoves /\ ~UNCHANGED rt
  BY StartMovesHold
<1>1. TakenUp /\ rt.pc = "idle"
  <2>1. ~EndsUp /\ ~Crash /\ ~Continues
    BY DEF EndsUp, Crash, Ready, Continues, SyncOps
  <2> QED BY <1>0, <2>1, Goings
<1>2. Started
  <2>1. ~(Ended \/ Resumed)
    BY ONLY <1>0, rt'.op \in SyncOps DEF Ended, Resumed, StartMoves, Begins, SyncOps
  <2>2. ~(SnapMail \/ GraceMail \/ RoomMail)
    BY ONLY <1>0, rt'.op \in SyncOps DEF SnapMail, GraceMail, RoomMail, StartMoves, Begins, SyncOps
  <2> QED BY ONLY <1>1, <2>1, <2>2 DEF TakenUp
<1>3. \E s \in Sessions, k \in Kinds, X \in SUBSET Items : Sync(s, k, X)
  BY ONLY <1>0, <1>2, rt'.op \in SyncOps DEF Started, StartMoves, Begins, SyncOps
<1>4. PICK s \in Sessions, k \in Kinds, X \in SUBSET Items : Sync(s, k, X)
  BY ONLY <1>3
<1> DEFINE W == {s} \X X  C == ReverseOf(s, {k})  B == EdgesOf(s, {k})
<1>5. /\ Begins("next", "sync", s, None, W \ C, None)
      /\ rt'.k = k /\ rt'.before = B /\ rt'.desired = W
      /\ rt'.after = C \ W /\ rt'.added = {}
  BY ONLY <1>0, <1>4 DEF StartMoves
<1>6. edges' = edges /\ reverse = edges
  BY <1>1, <1>4, Shapes DEF Indexed, RtIs, EdgePcs, UnedgePcs, Sync, Start, edgeVars
<1>7. C = B /\ B = Of(edges, s, k)
  BY <1>6 DEF ReverseOf, EdgesOf, Of
<1>8. Of(W, s, k) = W
  BY <1>4 DEF Sync, Of
<1>9. Of(B, s, k) = B
  BY DEF Of, EdgesOf
<1> HIDE DEF W, C, B
<1>10. InHand(EdgePcs, "next", rt'.cur) = {}
  BY DEF InHand, EdgePcs
<1>11. Grows("next", rt'.cur, Of(edges', s, k), W \ C, {}, B, W, C \ W)
  BY ONLY <1>6, <1>7, <1>10 DEF Grows
<1>12. rt'.pc = "next" /\ rt'.op = "sync" /\ rt'.s = s /\ rt'.todo = W \ C
  BY ONLY <1>5 DEF Begins
<1>13. /\ Of(rt'.before, rt'.s, rt'.k) = rt'.before
       /\ Of(rt'.desired, rt'.s, rt'.k) = rt'.desired
       /\ Grows(rt'.pc, rt'.cur, Of(edges', rt'.s, rt'.k), rt'.todo, rt'.added, rt'.before,
                rt'.desired, rt'.after)
  BY ONLY <1>5, <1>8, <1>9, <1>11, <1>12
<1> QED BY ONLY <1>12, <1>13 DEF Syncs, SyncOps, Of, Grows, Shrinks, InHand

LEMMA SyncsNext == Typed /\ Indexed /\ Syncs /\ [Next]_vars => Syncs'
<1> SUFFICES ASSUME Typed, Indexed, Syncs, [Next]_vars PROVE Syncs'
  OBVIOUS
<1>1. CASE UNCHANGED <<rt, edges>>
  BY ONLY <1>1, Syncs DEF Syncs, SyncOps, Of, Grows, Shrinks, InHand
<1>2. CASE EndsUp \/ Crash
  <2>1. rt'.op \notin SyncOps
    BY <1>2 DEF EndsUp, Crash, Ready, SyncOps
  <2> QED BY ONLY <2>1 DEF Syncs
<1>3. CASE ~EndsUp /\ ~Crash /\ ~UNCHANGED <<rt, edges>> /\ rt.op \in SyncOps
  <2>1. CASE rt.op = "sync"
    BY ONLY <1>3, <2>1, Typed, Syncs, [Next]_vars, GrowsNext, SyncKept
  <2>2. CASE rt.op = "rollback"
    <3>1. /\ Of(rt.before, rt.s, rt.k) = rt.before
          /\ Shrinks(rt.pc, rt.cur, Of(edges, rt.s, rt.k), rt.todo, rt.before)
      BY <2>2 DEF Syncs, SyncOps
    <3>2. /\ rt'.op = rt.op
          /\ rt'.s = rt.s /\ rt'.k = rt.k /\ rt'.before = rt.before /\ rt'.desired = rt.desired
          /\ Shrinks(rt'.pc, rt'.cur, Of(edges', rt.s, rt.k), rt'.todo, rt.before)
      BY ONLY <1>3, <2>2, <3>1, Typed, [Next]_vars, ShrinksTo
    <3>3. SyncGoesOn
      BY ONLY <2>2, <3>2 DEF SyncGoesOn
    <3> QED BY ONLY <1>3, <3>3, Syncs, SyncKept
  <2>3. CASE rt.op = "trim"
    <3>1. /\ Of(rt.desired, rt.s, rt.k) = rt.desired
          /\ Shrinks(rt.pc, rt.cur, Of(edges, rt.s, rt.k), rt.todo, rt.desired)
      BY <2>3 DEF Syncs, SyncOps
    <3>2. /\ rt'.op = rt.op
          /\ rt'.s = rt.s /\ rt'.k = rt.k /\ rt'.before = rt.before /\ rt'.desired = rt.desired
          /\ Shrinks(rt'.pc, rt'.cur, Of(edges', rt.s, rt.k), rt'.todo, rt.desired)
      BY ONLY <1>3, <2>3, <3>1, Typed, [Next]_vars, ShrinksTo
    <3>3. SyncGoesOn
      BY ONLY <2>3, <3>2 DEF SyncGoesOn
    <3> QED BY ONLY <1>3, <3>3, Syncs, SyncKept
  <2> QED BY ONLY <1>3, <2>1, <2>2, <2>3 DEF SyncOps
<1>4. CASE rt.op \notin SyncOps
  <2>1. rt'.op \notin SyncOps => Syncs'
    BY ONLY Syncs DEF Syncs, SyncOps
  <2> QED BY ONLY <1>4, <2>1, Typed, Indexed, [Next]_vars, SyncBegins
<1> QED BY ONLY <1>1, <1>2, <1>3, <1>4

(* A sync ends with exactly what was asked for, or, when one addition is   *)
(* refused, with exactly what there was.                                   *)
THEOREM SyncsAreAllOrNothing == Spec => SyncAllOrNothing
<1>1. Init => Agreement /\ Syncs
  BY AgreementInit DEF Init, Ready, Syncs, SyncOps
<1>2. Agreement /\ Syncs /\ [Next]_vars => (Agreement /\ Syncs)'
  <2>1. Agreement => Typed /\ Indexed
    BY DEF Agreement
  <2> QED BY <2>1, AgreementNext, SyncsNext
<1>3. Agreement /\ Syncs /\ [Next]_vars =>
        [RtIs("next") /\ rt'.pc = "idle" =>
           /\ rt.op \in {"sync", "trim"} => EdgesOf(rt.s, {rt.k}) = rt.desired
           /\ rt.op = "rollback"         => EdgesOf(rt.s, {rt.k}) = rt.before]_vars
  <2> SUFFICES ASSUME Typed, Syncs, [Next]_vars, rt.pc = "next", rt'.pc = "idle",
                      rt.op \in SyncOps
               PROVE  /\ rt.op \in {"sync", "trim"} => EdgesOf(rt.s, {rt.k}) = rt.desired
                      /\ rt.op = "rollback"         => EdgesOf(rt.s, {rt.k}) = rt.before
    BY DEF Agreement, RtIs, SyncOps
  <2> DEFINE M == Of(edges, rt.s, rt.k)
  <2>0. EdgeMoves /\ AddMoves /\ BetweenMoves
    BY EdgeMovesHold, AddMovesHold, BetweenMovesHold
  <2>1. EndRequest
    <3>1. ~Crash /\ ~UNCHANGED rt
      BY DEF Crash, Ready
    <3>2. ~(Inserts \/ ActivateBucket \/ IndexEdge \/ Takes \/ UnindexEdge \/ DeactivateBucket)
      BY ONLY <2>0, rt'.pc = "idle" DEF EdgeMoves, Inserts, Takes, Passes, GoesTo, Becomes
    <3>3. ~(CountEdge \/ UncountEdge)
      BY DEF CountEdge, UncountEdge, RtIs
    <3>4. ~(Keeps \/ Refuses)
      BY ONLY <2>0, rt'.pc = "idle" DEF AddMoves, BetweenMoves, Keeps, Refuses, Passes, Added,
                                        Becomes
    <3> QED BY ONLY Typed, [Next]_vars, rt.op \in SyncOps, SyncSteps, UndoSteps,
                    <3>1, <3>2, <3>3, <3>4 DEF SyncOps
  <2>2. rt.todo = {} /\ (rt.op = "sync" => rt.after = {})
    <3>1. rt.todo = {}
      BY ONLY <2>1 DEF EndRequest
    <3>2. rt.op = "sync" => rt.after = {}
      BY ONLY <2>0, <2>1, rt'.pc = "idle" DEF BetweenMoves, Becomes
    <3> QED BY ONLY <3>1, <3>2
  <2>3. /\ InHand(EdgePcs, rt.pc, rt.cur) = {} /\ InHand(UnedgePcs, rt.pc, rt.cur) = {}
        /\ EdgesOf(rt.s, {rt.k}) = M
    BY DEF InHand, EdgePcs, UnedgePcs, EdgesOf, Of
  <2>4. /\ rt.op = "sync" => /\ M = rt.before \cup rt.added
                             /\ rt.added = rt.desired \ rt.before
                             /\ {} = rt.before \ rt.desired
        /\ rt.op = "rollback" => M = rt.before
        /\ rt.op = "trim" => M = rt.desired
    BY <2>2, <2>3 DEF Syncs, SyncOps, Grows, Shrinks
  <2>5. rt.op = "sync" => M = rt.desired
    BY ONLY <2>4
  <2> QED BY ONLY <2>3, <2>4, <2>5
<1> QED BY <1>1, <1>2, <1>3, PTL DEF Spec, SyncAllOrNothing
=============================================================================
