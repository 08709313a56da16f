------------------------------ MODULE Lifecycle ------------------------------
(***************************************************************************)
(* The Runtime process of an instance: sessions, their edges (topic        *)
(* subscriptions, presence watches, room memberships), resume snapshots,   *)
(* room grace, room deadlines and drain (lib/wiregrid/runtime.ex,          *)
(* edge_ops.ex, sync_ops.ex, fanout_index.ex, recovery.ex).                *)
(*                                                                         *)
(* Runtime serves one request at a time, but a request is many writes to   *)
(* tables that outlive it: publishers read them in between, timers fire    *)
(* next to it, and the process may stop between any two of its steps.      *)
(***************************************************************************)
EXTENDS Naturals, FiniteSets, Functions

CONSTANTS
  Sessions,        \* session ids; the old id stands for its resume token too
  Users, UserOf,   \* users, and the user of each session
  Items, Kind,     \* what a session may hold, and which kind of edge it is
  Bucket,          \* the fanout bucket of each session (phash2 of its id)
  None,
  MaxSessions, MaxPerUser,             \* limits of the configuration
  MaxPerSession, MaxPerItem, MaxEdges, \* the same, per kind of edge
  MaxSnapshots, MaxGrace, MaxRoomStates, MaxTimers,
  ResumeTtl, GraceTtl, RoomTtls,
  MayDeny,         \* whether the configured authorizer ever refuses
  DrainRequests,   \* bound: TRUE for drain, FALSE for undrain
  MaxNow,          \* bound: the clock's last tick, and of new room deadlines
  MaxRestarts,     \* bound: restarts of the Runtime process
  MaxRefused       \* bound: expiries the full control plane refuses

Kinds == {"topic", "watch", "room"}
Rooms == {x \in Items : Kind[x] = "room"}
Edges == Sessions \X Items

ASSUME ConstantsOK ==
  /\ IsFiniteSet(Sessions) /\ IsFiniteSet(Items)
  /\ UserOf \in [Sessions -> Users] /\ Kind \in [Items -> Kinds]
  /\ None \notin Sessions \cup Edges
  /\ {MaxSessions, MaxPerUser, MaxSnapshots, MaxGrace, MaxRoomStates,
      MaxTimers, MaxNow, MaxRestarts, MaxRefused} \subseteq Nat
  /\ {MaxPerSession, MaxPerItem, MaxEdges} \subseteq [Kinds -> Nat]
  /\ DrainRequests \subseteq BOOLEAN /\ MayDeny \in BOOLEAN
  /\ {ResumeTtl, GraceTtl} \cup RoomTtls \subseteq Nat \ {0}

VARIABLES
  now,         \* the clock
  draining,    \* runtime_flags
  alive,       \* sessions whose owner process is alive
  born,        \* session ids handed out
  live,        \* sessions: the ids that have a row
  resumable,   \* sessions whose row holds the hash of a resume token
  userCount,   \* user_session_counts
  edges,       \* subscription_edges, presence_watch_edges, room_edges
  reverse,     \* session_topics, session_watches, session_rooms
  fan,         \* topic_sessions, presence_watchers, room_sessions
  active,      \* the bucket masks: {item, bucket} whose bit is set
  sessCount,   \* session_counters, positions 5 to 7
  itemCount,   \* topic_counts, presence_watcher_counts, room_counts
  edgeUsed,    \* capacity: subscription_edges, presence_watch_edges, ...
  snapshots,   \* resume_snapshots
  snapUsed,    \* capacity: resume_snapshots
  grace,       \* room_grace
  graceUsed,   \* capacity: room_grace
  roomState,   \* room_state: the deadline of each room that has one, 0 = none
  timers,      \* expiry_index: the deadline of each scheduled key
  casts,       \* expiries in the mailbox of Runtime
  rt,          \* what Runtime is doing
  restarts, refused,
  disturbed,   \* history: a crash or a lost expiry has happened
  leaked,      \* history: snapshot and grace slots held at a crash
  resumes      \* history: successful resumes per token

edgeVars  == <<edges, reverse, fan, active, sessCount, itemCount, edgeUsed>>
sessVars  == <<alive, born, live, resumable, userCount, resumes>>
snapVars  == <<snapshots, snapUsed>>
graceVars == <<grace, graceUsed>>
timeVars  == <<timers, casts>>
envVars   == <<now, draining, restarts, refused, disturbed, leaked>>
vars == <<edgeVars, sessVars, snapVars, graceVars, timeVars, envVars,
          roomState, rt>>

Put(f, k, v) == [i \in DOMAIN f \cup {k} |-> IF i = k THEN v ELSE f[i]]
Drop(f, K)   == Restrict(f, DOMAIN f \ K)

(* Capacity.release and counter_add_clamped stop at zero.                  *)
Less(n) == IF n = 0 THEN 0 ELSE n - 1

SnapKey(s)     == <<"resume_snapshot", s, None>>
GraceKey(s, r) == <<"room_grace", s, r>>
RoomKey(r)     == <<"room", None, r>>

(* Expiry.schedule_at: a new key needs a free entry.                       *)
CanSchedule(k) == k \in DOMAIN timers \/ Cardinality(DOMAIN timers) < MaxTimers

EdgesOf(s, K)  == {e \in edges : e[1] = s /\ Kind[e[2]] \in K}
ReverseOf(s, K) == {e \in reverse : e[1] = s /\ Kind[e[2]] \in K}

Ready == [pc |-> "idle", op |-> "none", s |-> None, k |-> None, cur |-> None,
          todo |-> {},
          after |-> {}, added |-> {}, before |-> {}, desired |-> {},
          old |-> None, slow |-> FALSE, n |-> 0]

RtIs(pc)  == rt.pc = pc
Serving   == RtIs("idle")
Accepting == RtIs("idle") /\ ~draining
Goto(pc)  == rt' = [rt EXCEPT !.pc = pc]

Init ==
  /\ now = 0 /\ draining = FALSE
  /\ alive = Sessions /\ born = {} /\ live = {} /\ resumable = {}
  /\ userCount = [u \in Users |-> 0]
  /\ edges = {} /\ reverse = {} /\ fan = {} /\ active = {}
  /\ sessCount = [s \in Sessions |-> [k \in Kinds |-> 0]]
  /\ itemCount = [x \in Items |-> 0]
  /\ edgeUsed = [k \in Kinds |-> 0]
  /\ snapshots = <<>> /\ snapUsed = 0
  /\ grace = <<>> /\ graceUsed = 0
  /\ roomState = <<>> /\ timers = <<>> /\ casts = {}
  /\ rt = Ready
  /\ restarts = 0 /\ refused = 0 /\ disturbed = FALSE
  /\ leaked = [snap |-> 0, grace |-> 0]
  /\ resumes = [s \in Sessions |-> 0]

-----------------------------------------------------------------------------
(* Requests.  Each is taken up when Runtime is idle.                       *)

(* The clock runs to MaxNow, and on while a timer is outstanding.          *)
Tick ==
  /\ now < MaxNow \/ \E k \in DOMAIN timers : timers[k] > now
  /\ now' = now + 1
  /\ UNCHANGED <<edgeVars, sessVars, snapVars, graceVars, timeVars, roomState,
                 rt, draining, restarts, refused, disturbed, leaked>>

(* An owner matters from the request that creates its session on.          *)
OwnerExit(s) ==
  /\ s \in alive
  /\ s \in live \/ rt.s = s
  /\ alive' = alive \ {s}
  /\ UNCHANGED <<edgeVars, snapVars, graceVars, timeVars, envVars, roomState,
                 rt, born, live, resumable, userCount, resumes>>

SetDraining(b) ==
  /\ Serving
  /\ draining # b
  /\ draining' = b
  /\ UNCHANGED <<edgeVars, sessVars, snapVars, graceVars, timeVars, roomState,
                 rt, now, restarts, refused, disturbed, leaked>>

(* enforce_session_capacity, with the owner still alive.                   *)
HasRoomFor(s) ==
  /\ s \in alive
  /\ Cardinality(live) < MaxSessions
  /\ userCount[UserOf[s]] < MaxPerUser

InsertSession(s, withToken) ==
  /\ born' = born \cup {s}
  /\ live' = live \cup {s}
  /\ resumable' = IF withToken THEN resumable \cup {s} ELSE resumable
  /\ userCount' = [userCount EXCEPT ![UserOf[s]] = @ + 1]
  /\ UNCHANGED alive

Connect(s, withToken) ==
  /\ Accepting
  /\ s \notin born
  /\ HasRoomFor(s)
  /\ InsertSession(s, withToken)
  /\ UNCHANGED <<edgeVars, snapVars, graceVars, timeVars, envVars, roomState,
                 rt, resumes>>

Start(r) ==
  /\ rt' = r
  /\ UNCHANGED <<edgeVars, sessVars, snapVars, graceVars, timeVars, envVars,
                 roomState>>

(* Mutant of AddMany: it is let in while the instance drains.              *)
MutantAddsDraining(s, X) ==
  /\ Serving
  /\ s \in live
  /\ Start([Ready EXCEPT !.pc = "next", !.op = "add", !.s = s,
                         !.todo = {s} \X X])

(* subscribe, watch_presence, join_room and their _many forms.             *)
AddMany(s, X) ==
  /\ Accepting
  /\ s \in live
  /\ Start([Ready EXCEPT !.pc = "next", !.op = "add", !.s = s,
                         !.todo = {s} \X X])

(* join_room with metadata for a room that may have none yet.              *)
JoinWithMetadata(s, r) ==
  /\ Accepting
  /\ s \in live /\ r \in Rooms
  /\ Start([Ready EXCEPT !.pc = "next", !.op = "join", !.s = s,
                         !.todo = {<<s, r>>}])

(* unsubscribe, unwatch_presence, leave_room: also while draining.         *)
RemoveMany(s, X) ==
  /\ Serving
  /\ Start([Ready EXCEPT !.pc = "next", !.op = "remove", !.s = s,
                         !.todo = {s} \X X])

(* SyncOps.reconcile: what is missing is added, then what is extra is      *)
(* removed; before and desired are kept for the property only.             *)
Sync(s, k, X) ==
  LET want    == {s} \X X
      current == ReverseOf(s, {k})
  IN /\ Accepting
     /\ s \in live
     /\ \A x \in X : Kind[x] = k
     /\ Cardinality(X) <= MaxPerSession[k]
     /\ Start([Ready EXCEPT !.pc = "next", !.op = "sync", !.s = s,
                            !.k = k, !.todo = want \ current, !.after = current \ want,
                            !.before = EdgesOf(s, {k}), !.desired = want])

(* cleanup_session takes the row; what hangs on it follows step by step.   *)
BeginCleanup(s, slow) ==
  /\ Serving
  /\ s \in live
  /\ live' = live \ {s}
  /\ rt' = [Ready EXCEPT !.pc = "snapshot", !.op = "cleanup", !.s = s,
                         !.slow = slow]
  /\ UNCHANGED <<edgeVars, snapVars, graceVars, timeVars, envVars, roomState,
                 alive, born, resumable, userCount, resumes>>

Disconnect(s, slow) == BeginCleanup(s, slow)
OwnerDown(s) == s \notin alive /\ BeginCleanup(s, FALSE)

(* Mutant of Resume: the snapshot is read and not taken.                   *)
MutantReadsSnapshot(old, s) ==
  /\ Accepting
  /\ s \notin born /\ s \in alive
  /\ old \in DOMAIN snapshots
  /\ UserOf[s] = UserOf[old]
  /\ snapshots[old].expires >= now
  /\ rt' = [Ready EXCEPT !.pc = "create", !.op = "resume", !.s = s,
                         !.old = old, !.todo = {s} \X snapshots[old].items,
                         !.n = snapshots[old].expires]
  /\ UNCHANGED <<edgeVars, sessVars, snapVars, graceVars, timeVars, envVars,
                 roomState>>

(* do_resume takes the snapshot and its timer before it creates the new    *)
(* session.                                                                *)
Resume(old, s) ==
  /\ Accepting
  /\ s \notin born /\ s \in alive
  /\ old \in DOMAIN snapshots
  /\ UserOf[s] = UserOf[old]
  /\ snapshots[old].expires >= now
  /\ snapshots' = Drop(snapshots, {old})
  /\ timers' = Drop(timers, {SnapKey(old)})
  /\ rt' = [Ready EXCEPT !.pc = "create", !.op = "resume", !.s = s,
                         !.old = old, !.todo = {s} \X snapshots[old].items,
                         !.n = snapshots[old].expires]
  /\ UNCHANGED <<edgeVars, sessVars, graceVars, envVars, roomState, casts,
                 snapUsed>>

(* resume_room: one room is rejoined on the grace of an old session.       *)
ResumeRoom(old, s, r) ==
  /\ Accepting
  /\ <<old, r>> \in DOMAIN grace
  /\ Start([Ready EXCEPT !.pc = "next", !.op = "resume", !.s = s,
                         !.old = old, !.todo = {<<s, r>>}])

(* Mutant of SetRoomDeadline: only a room without state gets a timer.      *)
MutantKeepsOldTimer(s, r, d) ==
  LET k == RoomKey(r)
  IN /\ Accepting
     /\ s \in live /\ <<s, r>> \in edges
     /\ r \in DOMAIN roomState \/ Cardinality(DOMAIN roomState) < MaxRoomStates
     /\ roomState' = Put(roomState, r, d)
     /\ timers' = IF d = 0 THEN Drop(timers, {k})
                  ELSE IF r \notin DOMAIN roomState /\ CanSchedule(k)
                       THEN Put(timers, k, d) ELSE timers
     /\ disturbed' = (disturbed \/ (d # 0 /\ ~CanSchedule(k)))
     /\ UNCHANGED <<edgeVars, sessVars, snapVars, graceVars, casts, rt, now,
                    draining, restarts, refused, leaked>>

(* room_metadata with a ttl, room_ttl: the state is written first, the     *)
(* timer may then be refused.                                              *)
SetRoomDeadline(s, r, d) ==
  LET k == RoomKey(r)
  IN /\ Accepting
     /\ s \in live /\ <<s, r>> \in edges
     /\ r \in DOMAIN roomState \/ Cardinality(DOMAIN roomState) < MaxRoomStates
     /\ roomState' = Put(roomState, r, d)
     /\ timers' = IF d = 0 THEN Drop(timers, {k})
                  ELSE IF CanSchedule(k) THEN Put(timers, k, d) ELSE timers
     /\ disturbed' = (disturbed \/ (d # 0 /\ ~CanSchedule(k)))
     /\ UNCHANGED <<edgeVars, sessVars, snapVars, graceVars, casts, rt, now,
                    draining, restarts, refused, leaked>>

-----------------------------------------------------------------------------
(* Expiry, next to Runtime.                                                *)

Mail(k, d) == <<k, d>>

(* Expiry takes a timer that is due and casts to Runtime.                  *)
ExpireTimer(k) ==
  /\ k \in DOMAIN timers
  /\ timers[k] <= now
  /\ ~RtIs("down")
  /\ timers' = Drop(timers, {k})
  /\ casts' = casts \cup {Mail(k, timers[k])}
  /\ UNCHANGED <<edgeVars, sessVars, snapVars, graceVars, envVars, roomState,
                 rt>>

(* The cast is refused (control_overloaded) or nobody is there to take it. *)
LoseTimer(k) ==
  /\ k \in DOMAIN timers
  /\ timers[k] <= now
  /\ \/ RtIs("down") /\ UNCHANGED refused
     \/ refused < MaxRefused /\ refused' = refused + 1
  /\ timers' = Drop(timers, {k})
  /\ disturbed' = TRUE
  /\ UNCHANGED <<edgeVars, sessVars, snapVars, graceVars, roomState, casts, rt,
                 now, draining, restarts, leaked>>

(* The three kinds of expiry Runtime receives; the row is taken here and   *)
(* its slot given back in the next step.                                   *)
ExpireSnapshot(s, d) ==
  /\ Serving
  /\ Mail(SnapKey(s), d) \in casts
  /\ casts' = casts \ {Mail(SnapKey(s), d)}
  /\ snapshots' = Drop(snapshots, {s})
  /\ rt' = IF s \in DOMAIN snapshots
           THEN [Ready EXCEPT !.pc = "give_snap"] ELSE rt
  /\ UNCHANGED <<edgeVars, sessVars, graceVars, envVars, roomState, timers,
                 snapUsed>>

ExpireGrace(s, r, d) ==
  /\ Serving
  /\ Mail(GraceKey(s, r), d) \in casts
  /\ casts' = casts \ {Mail(GraceKey(s, r), d)}
  /\ grace' = Drop(grace, {<<s, r>>})
  /\ rt' = IF <<s, r>> \in DOMAIN grace
           THEN [Ready EXCEPT !.pc = "give_grace", !.n = 1] ELSE rt
  /\ UNCHANGED <<edgeVars, sessVars, snapVars, envVars, roomState, timers,
                 graceUsed>>

(* The members of a room, as FanoutIndex.reduce finds them.                *)
Reached(x) == {e \in fan : e[2] = x /\ <<x, Bucket[e[1]]>> \in active}

(* A deadline that has been moved meanwhile is scheduled again.            *)
ExpireRoom(r, d) ==
  LET k == RoomKey(r)
      current == roomState[r]
      due == current = d \/ (current # 0 /\ current <= now)
  IN /\ Serving
     /\ Mail(k, d) \in casts
     /\ casts' = casts \ {Mail(k, d)}
     /\ \/ /\ r \in DOMAIN roomState /\ due
           /\ rt' = [Ready EXCEPT !.pc = "next", !.op = "expire",
                                  !.cur = <<None, r>>, !.todo = Reached(r)]
           /\ UNCHANGED <<timers, disturbed>>
        \/ /\ r \in DOMAIN roomState /\ ~due /\ current # 0
           /\ timers' = IF CanSchedule(k) THEN Put(timers, k, current)
                                          ELSE timers
           /\ disturbed' = (disturbed \/ ~CanSchedule(k))
           /\ UNCHANGED rt
        \/ /\ r \in DOMAIN roomState => current = 0
           /\ UNCHANGED <<timers, rt, disturbed>>
     /\ UNCHANGED <<edgeVars, sessVars, snapVars, graceVars, roomState, now,
                    draining, restarts, refused, leaked>>

-----------------------------------------------------------------------------
(* Adding an edge: the authoritative row, the fanout index (bit, then row),*)
(* the reverse index and the counts.                                       *)

Adding == rt.op \in {"add", "join", "sync", "resume"}

CanAdd(e) ==
  LET k == Kind[e[2]]
  IN /\ e[1] \in live
     /\ sessCount[e[1]][k] < MaxPerSession[k]
     /\ k # "topic" => itemCount[e[2]] < MaxPerItem[k]
     /\ edgeUsed[k] < MaxEdges[k]

(* A room is only rejoined on an unexpired grace of the same user.         *)
MayRejoin(e) ==
  rt.op = "resume" /\ e[2] \in Rooms =>
    /\ <<rt.old, e[2]>> \in DOMAIN grace
    /\ grace[<<rt.old, e[2]>>] >= now
    /\ UserOf[rt.old] = UserOf[rt.s]

(* After an edge is there: a join may still have to write room metadata, a *)
(* resume to consume the grace.                                            *)
AfterAdd(r, e) ==
  IF r.op = "join" THEN [r EXCEPT !.pc = "metadata"]
  ELSE IF r.op = "resume" /\ e[2] \in Rooms THEN [r EXCEPT !.pc = "consume"]
  ELSE [r EXCEPT !.pc = "next", !.todo = @ \ {e}]

InsertEdge(e) ==
  LET k == Kind[e[2]]
  IN /\ RtIs("next") /\ Adding /\ e \in rt.todo
     /\ MayRejoin(e)
     /\ e \notin edges /\ CanAdd(e)
     /\ edges' = edges \cup {e}
     /\ edgeUsed' = [edgeUsed EXCEPT ![k] = @ + 1]
     /\ rt' = [rt EXCEPT !.pc = "activate", !.cur = e]
     /\ UNCHANGED <<sessVars, snapVars, graceVars, timeVars, envVars,
                    roomState, reverse, fan, active, sessCount, itemCount>>

(* Already a member: nothing to insert, the request goes on.               *)
KeepEdge(e) ==
  /\ RtIs("next") /\ Adding /\ e \in rt.todo
  /\ MayRejoin(e)
  /\ e[1] \in live /\ e \in edges
  /\ rt' = IF rt.op = "resume" THEN AfterAdd([rt EXCEPT !.cur = e], e)
           ELSE [rt EXCEPT !.todo = @ \ {e}]
  /\ UNCHANGED <<edgeVars, sessVars, snapVars, graceVars, timeVars, envVars,
                 roomState>>

(* Mutant of RefuseEdge: a sync stops where it is.                         *)
MutantNoRollback(e) ==
  /\ RtIs("next") /\ Adding /\ e \in rt.todo
  /\ MayDeny \/ ~MayRejoin(e) \/ (e \notin edges /\ ~CanAdd(e))
  /\ rt' = IF rt.op = "sync"
           THEN [rt EXCEPT !.op = "rollback", !.todo = {}, !.after = {},
                           !.added = {}]
           ELSE [rt EXCEPT !.todo = @ \ {e}]
  /\ UNCHANGED <<edgeVars, sessVars, snapVars, graceVars, timeVars, envVars,
                 roomState>>

(* Limits, the authorizer or the missing grace refuse the edge: a sync     *)
(* takes back what it added, any other request goes on with the rest.      *)
RefuseEdge(e) ==
  /\ RtIs("next") /\ Adding /\ e \in rt.todo
  /\ MayDeny \/ ~MayRejoin(e) \/ (e \notin edges /\ ~CanAdd(e))
  /\ rt' = IF rt.op = "sync"
           THEN [rt EXCEPT !.op = "rollback", !.todo = rt.added,
                           !.after = {}, !.added = {}]
           ELSE [rt EXCEPT !.todo = @ \ {e}]
  /\ UNCHANGED <<edgeVars, sessVars, snapVars, graceVars, timeVars, envVars,
                 roomState>>

ActivateBucket ==
  /\ RtIs("activate")
  /\ active' = active \cup {<<rt.cur[2], Bucket[rt.cur[1]]>>}
  /\ Goto("index")
  /\ UNCHANGED <<sessVars, snapVars, graceVars, timeVars, envVars, roomState,
                 edges, reverse, fan, sessCount, itemCount, edgeUsed>>

IndexEdge ==
  /\ RtIs("index")
  /\ fan' = fan \cup {rt.cur}
  /\ Goto("count")
  /\ UNCHANGED <<sessVars, snapVars, graceVars, timeVars, envVars, roomState,
                 edges, reverse, active, sessCount, itemCount, edgeUsed>>

CountEdge ==
  LET s == rt.cur[1]  x == rt.cur[2]
  IN /\ RtIs("count")
     /\ reverse' = reverse \cup {rt.cur}
     /\ sessCount' = [sessCount EXCEPT ![s][Kind[x]] = @ + 1]
     /\ itemCount' = [itemCount EXCEPT ![x] = @ + 1]
     /\ rt' = AfterAdd([rt EXCEPT !.added = IF rt.op = "sync"
                                            THEN @ \cup {rt.cur} ELSE @],
                       rt.cur)
     /\ UNCHANGED <<sessVars, snapVars, graceVars, timeVars, envVars,
                    roomState, edges, fan, active, edgeUsed>>

(* maybe_initialize_room_metadata; when there is no room for it the member *)
(* leaves again.                                                           *)
InitializeMetadata ==
  LET r == rt.cur[2]
  IN /\ RtIs("metadata")
     /\ \/ /\ r \in DOMAIN roomState
           /\ rt' = Ready /\ UNCHANGED roomState
        \/ /\ r \notin DOMAIN roomState
           /\ Cardinality(DOMAIN roomState) < MaxRoomStates
           /\ roomState' = Put(roomState, r, 0)
           /\ rt' = Ready
        \/ /\ r \notin DOMAIN roomState
           /\ Cardinality(DOMAIN roomState) >= MaxRoomStates
           /\ rt' = [rt EXCEPT !.op = "remove", !.pc = "next"]
           /\ UNCHANGED roomState
     /\ UNCHANGED <<edgeVars, sessVars, snapVars, graceVars, timeVars, envVars>>

(* Mutant of ConsumeGrace: the row goes, its slot stays taken.             *)
MutantKeepsGraceSlot ==
  LET key == <<rt.old, rt.cur[2]>>
  IN /\ RtIs("consume")
     /\ grace' = Drop(grace, {key})
     /\ timers' = Drop(timers, {GraceKey(key[1], key[2])})
     /\ rt' = [rt EXCEPT !.pc = "next", !.todo = @ \ {rt.cur}]
     /\ UNCHANGED <<edgeVars, sessVars, snapVars, envVars, roomState, casts,
                    graceUsed>>

(* do_resume_room consumes the grace once the membership is accepted.      *)
ConsumeGrace ==
  LET key == <<rt.old, rt.cur[2]>>
  IN /\ RtIs("consume")
     /\ grace' = Drop(grace, {key})
     /\ graceUsed' = Less(graceUsed)
     /\ timers' = Drop(timers, {GraceKey(key[1], key[2])})
     /\ rt' = [rt EXCEPT !.pc = "next", !.todo = @ \ {rt.cur}]
     /\ UNCHANGED <<edgeVars, sessVars, snapVars, envVars, roomState, casts>>

-----------------------------------------------------------------------------
(* Removing an edge, in the same order.                                    *)

Removing == rt.op \in {"remove", "trim", "rollback", "cleanup", "expire"}

TakeEdge(e) ==
  /\ RtIs("next") /\ Removing /\ e \in rt.todo
  /\ edges' = edges \ {e}
  /\ rt' = IF e \in edges
           THEN [rt EXCEPT !.pc = "unindex", !.cur = e]
           ELSE [rt EXCEPT !.todo = @ \ {e}]
  /\ UNCHANGED <<sessVars, snapVars, graceVars, timeVars, envVars, roomState,
                 reverse, fan, active, sessCount, itemCount, edgeUsed>>

UnindexEdge ==
  /\ RtIs("unindex")
  /\ fan' = fan \ {rt.cur}
  /\ Goto("deactivate")
  /\ UNCHANGED <<sessVars, snapVars, graceVars, timeVars, envVars, roomState,
                 edges, reverse, active, sessCount, itemCount, edgeUsed>>

(* Mutant of DeactivateBucket: the bit goes with every member.             *)
MutantClearsBit ==
  /\ RtIs("deactivate")
  /\ active' = active \ {<<rt.cur[2], Bucket[rt.cur[1]]>>}
  /\ Goto("uncount")
  /\ UNCHANGED <<sessVars, snapVars, graceVars, timeVars, envVars, roomState,
                 edges, reverse, fan, sessCount, itemCount, edgeUsed>>

(* The bit goes only when the bucket has no members left.                  *)
DeactivateBucket ==
  LET x == rt.cur[2]  b == Bucket[rt.cur[1]]
  IN /\ RtIs("deactivate")
     /\ active' = IF \E e \in fan : e[2] = x /\ Bucket[e[1]] = b
                  THEN active ELSE active \ {<<x, b>>}
     /\ Goto("uncount")
     /\ UNCHANGED <<sessVars, snapVars, graceVars, timeVars, envVars,
                    roomState, edges, reverse, fan, sessCount, itemCount,
                    edgeUsed>>

UncountEdge ==
  LET s == rt.cur[1]  x == rt.cur[2]  k == Kind[x]
  IN /\ RtIs("uncount")
     /\ reverse' = reverse \ {rt.cur}
     /\ sessCount' = [sessCount EXCEPT ![s][k] = Less(@)]
     /\ itemCount' = [itemCount EXCEPT ![x] = Less(@)]
     /\ edgeUsed' = [edgeUsed EXCEPT ![k] = Less(@)]
     /\ rt' = IF rt.op = "cleanup" /\ x \in Rooms /\ ~rt.slow
              THEN [rt EXCEPT !.pc = "grace"]
              ELSE [rt EXCEPT !.pc = "next", !.todo = @ \ {rt.cur}]
     /\ UNCHANGED <<sessVars, snapVars, graceVars, timeVars, envVars,
                    roomState, edges, fan, active>>

-----------------------------------------------------------------------------
(* The rest of the longer requests.                                        *)

(* maybe_store_resume_snapshot: a slot, then the row and its timer.        *)
ReserveSnapshot ==
  LET walk == [rt EXCEPT !.pc = "next", !.todo = ReverseOf(rt.s, Kinds)]
      fits == rt.s \in resumable /\ snapUsed < MaxSnapshots
  IN /\ RtIs("snapshot")
     /\ snapUsed' = IF fits THEN snapUsed + 1 ELSE snapUsed
     /\ resumable' = resumable \ {rt.s}
     /\ rt' = IF fits THEN [rt EXCEPT !.pc = "snap_insert"] ELSE walk
     /\ UNCHANGED <<edgeVars, graceVars, timeVars, envVars, roomState,
                    alive, born, live, userCount, resumes, snapshots>>

(* A row whose timer is refused is taken back.                             *)
KeepSnapshot(s, row) ==
  LET k == SnapKey(s)
  IN IF CanSchedule(k)
     THEN /\ snapshots' = Put(snapshots, s, row)
          /\ timers' = Put(timers, k, row.expires)
          /\ UNCHANGED snapUsed
     ELSE /\ snapUsed' = Less(snapUsed)
          /\ UNCHANGED <<snapshots, timers>>

StoreSnapshot ==
  LET held == ReverseOf(rt.s, Kinds)
  IN /\ RtIs("snap_insert")
     /\ KeepSnapshot(rt.s, [items |-> {e[2] : e \in held},
                            expires |-> now + ResumeTtl])
     /\ rt' = [rt EXCEPT !.pc = "next", !.todo = held]
     /\ UNCHANGED <<edgeVars, sessVars, graceVars, envVars, roomState, casts>>

(* maybe_store_room_grace.                                                 *)
ReserveGrace ==
  /\ RtIs("grace")
  /\ IF graceUsed < MaxGrace
     THEN graceUsed' = graceUsed + 1 /\ Goto("grace_insert")
     ELSE /\ rt' = [rt EXCEPT !.pc = "next", !.todo = @ \ {rt.cur}]
          /\ UNCHANGED graceUsed
  /\ UNCHANGED <<edgeVars, sessVars, snapVars, timeVars, envVars, roomState,
                 grace>>

(* Mutant of StoreGrace: a grace whose timer is refused is kept.           *)
MutantKeepsUntimed ==
  LET r == rt.cur[2]  k == GraceKey(rt.s, r)  d == now + GraceTtl
  IN /\ RtIs("grace_insert")
     /\ grace' = Put(grace, <<rt.s, r>>, d)
     /\ timers' = IF CanSchedule(k) THEN Put(timers, k, d) ELSE timers
     /\ rt' = [rt EXCEPT !.pc = "next", !.todo = @ \ {rt.cur}]
     /\ UNCHANGED <<edgeVars, sessVars, snapVars, envVars, roomState, casts,
                    graceUsed>>

StoreGrace ==
  LET r == rt.cur[2]  k == GraceKey(rt.s, r)  d == now + GraceTtl
  IN /\ RtIs("grace_insert")
     /\ IF CanSchedule(k)
        THEN /\ grace' = Put(grace, <<rt.s, r>>, d)
             /\ timers' = Put(timers, k, d)
             /\ UNCHANGED graceUsed
        ELSE graceUsed' = Less(graceUsed) /\ UNCHANGED <<grace, timers>>
     /\ rt' = [rt EXCEPT !.pc = "next", !.todo = @ \ {rt.cur}]
     /\ UNCHANGED <<edgeVars, sessVars, snapVars, envVars, roomState, casts>>

FinishCleanup ==
  /\ RtIs("next") /\ rt.op = "cleanup" /\ rt.todo = {}
  /\ userCount' = [userCount EXCEPT ![UserOf[rt.s]] = Less(@)]
  /\ rt' = Ready
  /\ UNCHANGED <<edgeVars, snapVars, graceVars, timeVars, envVars, roomState,
                 alive, born, live, resumable, resumes>>

(* The second half of do_resume: the new session, or the snapshot back.    *)
CreateResumed ==
  LET s == rt.s  old == rt.old
      row == [items |-> {e[2] : e \in rt.todo}, expires |-> rt.n]
  IN /\ RtIs("create")
     /\ \/ /\ HasRoomFor(s)
           /\ InsertSession(s, TRUE)
           /\ resumes' = [resumes EXCEPT ![old] = @ + 1]
           /\ Goto("restore")
           /\ UNCHANGED <<snapVars, timers>>
        \/ /\ ~HasRoomFor(s)
           /\ IF row.expires > now
              THEN KeepSnapshot(old, row)
              ELSE /\ snapUsed' = Less(snapUsed)
                   /\ UNCHANGED <<snapshots, timers>>
           /\ rt' = Ready
           /\ UNCHANGED sessVars
     /\ UNCHANGED <<edgeVars, graceVars, envVars, roomState, casts>>

RestoreEdges ==
  /\ RtIs("restore")
  /\ snapUsed' = Less(snapUsed)
  /\ Goto("next")
  /\ UNCHANGED <<edgeVars, sessVars, graceVars, timeVars, envVars, roomState,
                 snapshots>>

GiveSnapshotSlot ==
  /\ RtIs("give_snap")
  /\ snapUsed' = Less(snapUsed)
  /\ rt' = Ready
  /\ UNCHANGED <<edgeVars, sessVars, graceVars, timeVars, envVars, roomState,
                 snapshots>>

(* expire_room_now, when the members are out: the state, then every grace. *)
ForgetRoom ==
  /\ RtIs("next") /\ rt.op = "expire" /\ rt.todo = {}
  /\ roomState' = Drop(roomState, {rt.cur[2]})
  /\ Goto("forget_grace")
  /\ UNCHANGED <<edgeVars, sessVars, snapVars, graceVars, timeVars, envVars>>

(* Mutant of ForgetGrace: the graces of an expired room stay.              *)
MutantLeavesGrace ==
  /\ RtIs("forget_grace")
  /\ rt' = [rt EXCEPT !.pc = "give_grace", !.n = 0]
  /\ UNCHANGED <<edgeVars, sessVars, snapVars, graceVars, timeVars, envVars,
                 roomState>>

ForgetGrace ==
  LET gone == {key \in DOMAIN grace : key[2] = rt.cur[2]}
  IN /\ RtIs("forget_grace")
     /\ grace' = Drop(grace, gone)
     /\ rt' = [rt EXCEPT !.pc = "give_grace", !.n = Cardinality(gone)]
     /\ UNCHANGED <<edgeVars, sessVars, snapVars, timeVars, envVars, roomState,
                    graceUsed>>

GiveGraceSlots ==
  /\ RtIs("give_grace")
  /\ graceUsed' = IF graceUsed < rt.n THEN 0 ELSE graceUsed - rt.n
  /\ rt' = Ready
  /\ UNCHANGED <<edgeVars, sessVars, snapVars, timeVars, envVars, roomState,
                 grace>>

(* The end of a request; a sync goes on to remove what is extra.           *)
EndRequest ==
  /\ RtIs("next") /\ rt.todo = {} /\ rt.op \notin {"cleanup", "expire"}
  /\ rt' = IF rt.op = "sync" /\ rt.after # {}
           THEN [rt EXCEPT !.op = "trim", !.todo = rt.after, !.after = {}]
           ELSE Ready
  /\ UNCHANGED <<edgeVars, sessVars, snapVars, graceVars, timeVars, envVars,
                 roomState>>

-----------------------------------------------------------------------------
(* Runtime stops anywhere; its mailbox is lost and the tables stay.        *)
SnapPcs == {"snap_insert", "create", "restore", "give_snap"}

Crash ==
  /\ restarts < MaxRestarts
  /\ ~RtIs("down")
  /\ restarts' = restarts + 1
  /\ disturbed' = TRUE
  /\ leaked' = [snap  |-> leaked.snap + (IF rt.pc \in SnapPcs THEN 1 ELSE 0),
                grace |-> leaked.grace + (IF RtIs("grace_insert") THEN 1
                                          ELSE IF RtIs("give_grace") THEN rt.n
                                          ELSE 0)]
  /\ casts' = {}
  /\ rt' = [Ready EXCEPT !.pc = "down"]
  /\ UNCHANGED <<edgeVars, sessVars, snapVars, graceVars, roomState, timers,
                 now, draining, refused>>

(* Mutant of Reconcile: it keeps the edges of sessions that are gone.      *)
MutantKeepsDead ==
  /\ RtIs("down")
  /\ reverse' = edges /\ fan' = edges
  /\ active' = {<<e[2], Bucket[e[1]]>> : e \in edges}
  /\ sessCount' = [s \in Sessions |-> [k \in Kinds |->
       Cardinality({e \in edges : e[1] = s /\ Kind[e[2]] = k})]]
  /\ itemCount' = [x \in Items |-> Cardinality({e \in edges : e[2] = x})]
  /\ edgeUsed' = [k \in Kinds |-> Cardinality({e \in edges : Kind[e[2]] = k})]
  /\ userCount' = [u \in Users |->
       Cardinality({s \in live : UserOf[s] = u})]
  /\ rt' = Ready
  /\ UNCHANGED <<snapVars, graceVars, timeVars, envVars, roomState, alive,
                 born, live, resumable, resumes, edges>>

(* Recovery.reconcile: edges of sessions that are gone are deleted, and    *)
(* everything that derives from sessions and edges is computed anew.       *)
Reconcile ==
  LET kept == {e \in edges : e[1] \in live}
  IN /\ RtIs("down")
     /\ edges' = kept /\ reverse' = kept /\ fan' = kept
     /\ active' = {<<e[2], Bucket[e[1]]>> : e \in kept}
     /\ sessCount' = [s \in Sessions |-> [k \in Kinds |->
          Cardinality({e \in kept : e[1] = s /\ Kind[e[2]] = k})]]
     /\ itemCount' = [x \in Items |-> Cardinality({e \in kept : e[2] = x})]
     /\ edgeUsed' = [k \in Kinds |-> Cardinality({e \in kept : Kind[e[2]] = k})]
     /\ userCount' = [u \in Users |->
          Cardinality({s \in live : UserOf[s] = u})]
     /\ rt' = Ready
     /\ UNCHANGED <<snapVars, graceVars, timeVars, envVars, roomState, alive,
                    born, live, resumable, resumes>>

-----------------------------------------------------------------------------
Request ==
  \/ \E s \in Sessions :
       \/ \E b \in BOOLEAN : Connect(s, b) \/ Disconnect(s, b)
       \/ OwnerDown(s)
       \/ \E X \in SUBSET Items \ {{}} : AddMany(s, X) \/ RemoveMany(s, X)
       \/ \E k \in Kinds, X \in SUBSET Items : Sync(s, k, X)
       \/ \E old \in Sessions : Resume(old, s)
       \/ \E r \in Rooms : JoinWithMetadata(s, r)
       \/ \E old \in Sessions, r \in Rooms : ResumeRoom(old, s, r)
       \/ \E r \in Rooms, ttl \in RoomTtls \cup {0} :
            /\ now < MaxNow
            /\ SetRoomDeadline(s, r, IF ttl = 0 THEN 0 ELSE now + ttl)
  \/ \E b \in DrainRequests : SetDraining(b)

Mailed ==
  \E m \in casts :
    LET s == m[1][2]  r == m[1][3]  d == m[2]
    IN \/ m[1][1] = "resume_snapshot" /\ ExpireSnapshot(s, d)
       \/ m[1][1] = "room_grace" /\ ExpireGrace(s, r, d)
       \/ m[1][1] = "room" /\ ExpireRoom(r, d)

EdgeStep ==
  \/ \E e \in rt.todo : InsertEdge(e) \/ KeepEdge(e) \/ RefuseEdge(e)
                         \/ TakeEdge(e)
  \/ ActivateBucket \/ IndexEdge \/ CountEdge
  \/ UnindexEdge \/ DeactivateBucket \/ UncountEdge

RequestStep ==
  \/ EdgeStep
  \/ InitializeMetadata \/ ConsumeGrace
  \/ ReserveSnapshot \/ StoreSnapshot \/ ReserveGrace \/ StoreGrace
  \/ FinishCleanup \/ CreateResumed \/ RestoreEdges \/ GiveSnapshotSlot
  \/ ForgetRoom \/ ForgetGrace \/ GiveGraceSlots \/ EndRequest

Timer == \E k \in DOMAIN timers : ExpireTimer(k)

Next ==
  \/ Tick
  \/ \E s \in Sessions : OwnerExit(s)
  \/ Request \/ Mailed \/ RequestStep
  \/ Timer
  \/ \E k \in DOMAIN timers : LoseTimer(k)
  \/ Crash \/ Reconcile

Spec == Init /\ [][Next]_vars

(* The clock runs, Expiry ticks, a started request is carried through, and *)
(* the mailbox is first in, first out: no message waits for ever.          *)
Fairness ==
  /\ WF_vars(Tick) /\ WF_vars(Timer)
  /\ WF_vars(RequestStep) /\ WF_vars(Reconcile)
  /\ SF_vars(Mailed)

FairSpec == Spec /\ Fairness

-----------------------------------------------------------------------------
(* Properties.                                                             *)

Pcs == {"idle", "down", "next", "activate", "index", "count", "metadata",
        "consume", "unindex", "deactivate", "uncount", "snapshot",
        "snap_insert", "grace", "grace_insert", "create", "restore",
        "give_snap", "forget_grace", "give_grace"}
Ops == {"none", "add", "join", "remove", "sync", "rollback", "trim",
        "cleanup", "resume", "expire"}

SnapRow == [items : SUBSET Items, expires : Nat]
TimerKeys == {SnapKey(s) : s \in Sessions}
               \cup {GraceKey(s, r) : s \in Sessions, r \in Rooms}
               \cup {RoomKey(r) : r \in Rooms}

RtType ==
  [pc : Pcs, op : Ops, s : Sessions \cup {None}, k : Kinds \cup {None},
   cur : Edges \cup {None} \cup ({None} \X Rooms),
   todo : SUBSET Edges, after : SUBSET Edges, added : SUBSET Edges,
   before : SUBSET Edges, desired : SUBSET Edges,
   old : Sessions \cup {None}, slow : BOOLEAN, n : Nat]

(* Every variable has its type; a step on an edge has one, and only rooms  *)
(* have a grace.                                                           *)
TypeOK ==
  /\ now \in Nat /\ restarts \in Nat /\ refused \in Nat
  /\ draining \in BOOLEAN /\ disturbed \in BOOLEAN
  /\ {alive, born, live, resumable} \subseteq SUBSET Sessions
  /\ userCount \in [Users -> Nat]
  /\ {edges, reverse, fan} \subseteq SUBSET Edges
  /\ active \in SUBSET (Items \X {Bucket[s] : s \in Sessions})
  /\ sessCount \in [Sessions -> [Kinds -> Nat]]
  /\ itemCount \in [Items -> Nat] /\ edgeUsed \in [Kinds -> Nat]
  /\ DOMAIN snapshots \subseteq Sessions
  /\ \A s \in DOMAIN snapshots : snapshots[s] \in SnapRow
  /\ DOMAIN grace \subseteq Sessions \X Rooms
  /\ \A key \in DOMAIN grace : grace[key] \in Nat
  /\ DOMAIN roomState \subseteq Rooms
  /\ \A r \in DOMAIN roomState : roomState[r] \in Nat
  /\ DOMAIN timers \subseteq TimerKeys
  /\ \A k \in DOMAIN timers : timers[k] \in Nat
  /\ casts \subseteq TimerKeys \X Nat
  /\ snapUsed \in Nat /\ graceUsed \in Nat
  /\ leaked \in [snap : Nat, grace : Nat]
  /\ resumes \in [Sessions -> Nat]
  /\ rt \in RtType
  /\ rt.pc \in {"activate", "index", "count", "unindex", "deactivate",
               "uncount"} => rt.cur \in Edges
  /\ rt.pc \in {"metadata", "consume", "grace", "grace_insert"} =>
       rt.cur \in Sessions \X Rooms
  /\ rt.op = "resume" => rt.old \in Sessions

(* Whenever Runtime is between two requests, also right after it recovered *)
(* from a stop anywhere inside one, the indices say the same thing: every  *)
(* edge belongs to a live session, is found from both of its ends, and is  *)
(* counted once per session, item, kind and user (docs/architecture.md:5,  *)
(* "so the ets tables stay consistent").                                   *)
IndicesAgree ==
  RtIs("idle") =>
    /\ \A e \in edges : e[1] \in live
    /\ reverse = edges /\ fan = edges
    /\ active = {<<e[2], Bucket[e[1]]>> : e \in edges}
    /\ \A s \in Sessions, k \in Kinds :
         sessCount[s][k] = Cardinality(EdgesOf(s, {k}))
    /\ \A x \in Items :
         itemCount[x] = Cardinality({e \in edges : e[2] = x})
    /\ \A k \in Kinds :
         edgeUsed[k] = Cardinality({e \in edges : Kind[e[2]] = k})
    /\ \A u \in Users :
         userCount[u] = Cardinality({s \in live : UserOf[s] = u})

(* The indices and counters are well typed and agree.                     *)
IndicesSound == TypeOK /\ IndicesAgree

(* Publishers walk the buckets whose bit is set while Runtime changes the  *)
(* index: no row is ever in a bucket whose bit is clear (fanout_index.ex:  *)
(* 64, "never a missing live edge").                                       *)
FanReachable == \A e \in fan : <<e[2], Bucket[e[1]]>> \in active

(* A slot of resume_snapshots or room_grace belongs to a row, or to the    *)
(* step in progress, or was lost when Runtime stopped at that step.        *)
SlotsExact ==
  /\ snapUsed = Cardinality(DOMAIN snapshots) + leaked.snap
                  + (IF rt.pc \in SnapPcs THEN 1 ELSE 0)
  /\ graceUsed = Cardinality(DOMAIN grace) + leaked.grace
                  + (IF RtIs("grace_insert") THEN 1
                     ELSE IF RtIs("give_grace") THEN rt.n ELSE 0)

(* What has a deadline has a timer, or its expiry is in the mailbox: as    *)
(* long as no crash, refused cast or refused timer took one away, nothing  *)
(* is kept past its deadline for good, however cancel, resume, restore,    *)
(* moved deadlines and expiries interleave.                                *)
Pending(k) == k \in DOMAIN timers \/ \E m \in casts : m[1] = k
TimersCover ==
  ~disturbed =>
    /\ \A s \in DOMAIN snapshots : Pending(SnapKey(s))
    /\ \A key \in DOMAIN grace : Pending(GraceKey(key[1], key[2]))
    /\ \A r \in DOMAIN roomState :
         \/ roomState[r] = 0
         \/ Pending(RoomKey(r))
         \/ rt.op = "expire" /\ rt.cur[2] = r

(* Nothing that waits for a return outlives its deadline or its slot.      *)
ReturnsSound == SlotsExact /\ TimersCover

(* A resume token is good for one session (docs/security.md:13, "one       *)
(* time"), and worthless once it was used, also when a resume fails and    *)
(* puts the snapshot back, and when its timer fires in the middle.         *)
TokenOnce ==
  \A s \in Sessions :
    resumes[s] <= 1 /\ (resumes[s] = 1 => s \notin DOMAIN snapshots)

(* An expired room is gone when its expiry is over: no member, no state    *)
(* and no grace by which a resume could bring a member back.               *)
RoomForgotten ==
  RtIs("give_grace") /\ rt.op = "expire" =>
    /\ rt.cur[2] \notin DOMAIN roomState
    /\ \A e \in edges : e[2] # rt.cur[2]
    /\ \A key \in DOMAIN grace : key[2] # rt.cur[2]

(* A sync ends with exactly what was asked for, or, when one addition is   *)
(* refused, with exactly what there was (sync_ops.ex, apply_with_rollback).*)
SyncAllOrNothing ==
  [][RtIs("next") /\ rt'.pc = "idle" =>
       /\ rt.op \in {"sync", "trim"} => EdgesOf(rt.s, {rt.k}) = rt.desired
       /\ rt.op = "rollback"         => EdgesOf(rt.s, {rt.k}) = rt.before]_vars

(* While an instance drains, no session and no edge is added by a request  *)
(* that is taken up then (docs/operations.md:7).                           *)
DrainCloses ==
  [][draining /\ draining' => live' \subseteq live /\ edges' \subseteq edges]_vars

(* Without crashes and refused casts no grace is kept for good: again and  *)
(* again there is none.                                                    *)
GraceEnds == []<>(DOMAIN grace = {})
=============================================================================
