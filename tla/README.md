# Wiregrid in TLA+

Wiregrid is a real-time messaging library for the BEAM: processes connect as
*sessions*, subscribe to topics, join rooms and watch users; publishers send to
all of them through bounded queues; expiry, storage, caching, webhooks,
clustering and a gateway for foreign clients are built around that. This
directory models it in TLA+, checks small instances with TLC and proves the
central claims for every instance with TLAPS.

Paths below are relative to the repository; `lib/` stands for `lib/wiregrid/`
unless a file is named in full.

## 1. The system

An instance is a supervision tree with the strategy `rest_for_one`
(`lib/instance_supervisor.ex`): `Tables` creates the ETS tables, then come
`Expiry`, `Runtime`, the webhook dispatcher and the cluster processes. When one
stops, those after it restart too; the tables survive.

The division of labour decides what is hard. `Runtime` is one process and
serialises every change of the lifecycle: sessions, subscriptions, watches,
rooms, resume snapshots. Everything on the hot path (publish, deliver,
acknowledge, activities, receipts, rate limits, cache, storage) runs in the
*calling* process, directly on public ETS tables, without locks. So the
interesting interleavings are those of ETS operations of many processes with
each other and with a cleanup in `Runtime`.

| component | state | operations | talks to | what is hard | what makes it correct |
|---|---|---|---|---|---|
| delivery (`lib/delivery.ex`, `capacity.ex`, `src/wiregrid_hot.erl`) | `delivery_reservations`, `session_counters`, `capacity`, `slow_evicting` | send, ack, ack_many, slow-consumer isolation, release of a session | any process; reads `sessions` | lock-free accounting against a concurrent cleanup | accounts are exact; bounds hold; nothing is left when a session ends |
| runtime (`lib/runtime.ex`) | `sessions`, the indices of edges and rooms, `resume_snapshots`, `capacity` | connect, resume, disconnect, subscribe, join, leave, presence, drain | expiry, delivery, cluster | crash and recovery, owner death, grace and resume against timers | indices agree with each other; tokens are good for one resume; no resource outlives its session |
| control plane (`lib/runtime.ex:1420-1525`) | `control` slots of a generation | admission of calls and casts | all callers of the runtime | callers that time out or die, restarts | the number of queued requests is bounded and no slot is lost |
| expiry (`lib/expiry.ex`) | ordered `expiry`, `expiry_index` | schedule, cancel, expire_due | runtime, activities, receipts, cache | a timer taken while it is rescheduled | each schedule fires at most once, and never for a newer entry |
| activities and receipts (`lib/activity.ex`, `receipts.ex`) | owner rows with generations, records, secondary indices | put, expire, cleanup | expiry | an entry replaced while the old one expires | the owner's quota is the number of its entries |
| fanout (`lib/fanout.ex`, `fanout_index.ex`) | topic and user index with an active bit | user, stream, rebuild | runtime, delivery | the index read while it is rebuilt | a subscriber is never missed by a settled index |
| rate limiter (`lib/rate_limiter.ex`) | buckets | fixed window, token bucket | expiry | concurrent updates of a bucket, clock order | at most the limit per window |
| memory cache, memory storage (`lib/cache/memory.ex`, `storage/memory.ex`) | entries, owners, secondary index | put, incr, delete, append, page, prune | expiry | a writer that loses its row to an expiry | counters count once; pages agree with the log |
| cluster (`lib/cluster.ex`, `cluster/*`, `rooms.ex`, `presence.ex`) | remote edges, remote presence, seen ids | announce, resync, node down | peers | lost, duplicated, overtaken messages | after the network settles, every node sees the same members |
| webhooks (`lib/webhook/*`) | jobs, in-flight tasks | enqueue, launch, retry, dead-letter | HTTP | a crash between a post and its record | no job is lost; at-least-once |
| consumers (`lib/consumer.ex`, `consumer/worker.ex`) | batches | consume, consume_ordered, ack groups | delivery | a failure inside a group | nothing is acknowledged before it is processed |
| browser kit (`priv/ui/js/*.js`, assembled in `priv/ui/wiregrid.js`) | pending calls and their bytes, the form's mark, rows and their indices, the panel's flags, listeners | connect, call, submit, upsert, trim, mount, destroy, set | the browser transport; each other by callbacks | callbacks, timers and promises that come after a close or a destroy, walks over a map that changes | a call is settled once and sent only while it waits; no text is lost; lists and their indices agree |
| foreign gateway (`lib/foreign/*`) | connections, handshake | accept, hello, requests, deliveries | the library's API | malformed frames, slow peers, limits | bounded connections, no request before the handshake |

`PROJECT.json` lists these and the parts that carry no state of their own
(configuration, codecs, themes and overlays of the user interface, language
bindings) with the reason each is left out.

## 2. The modules

| module | models | status |
|---|---|---|
| `Delivery` | the delivery hot path and the part of the session lifecycle it races with | complete |
| `DeliveryWindow` | what that path promises: an atomic bounded window per session | complete |
| `Delivery_proofs`, `DeliveryBounds_proofs`, `DeliverySessions_proofs` | the theorems about `Delivery` | complete |
| `Lifecycle` | the Runtime process: sessions, edges, fanout index, resume, grace, rooms, drain, recovery | core |
| `Expiry` | the expiry service, table operation by table operation | complete |
| `Lifecycle_proofs` | the theorems about `Lifecycle` | every property of its runs |
| `Expiry_proofs` | the theorems about `Expiry` | complete |
| `OwnedEntries` | activities and receipts: claims, records, indices, deadlines, cleanup | complete |
| `OwnedEntries_proofs` | the theorems about `OwnedEntries` | complete |
| `ControlPlane` | admission to `Runtime`: slots of generations | complete |
| `WebhookQueue` | the webhook dispatcher and its tables | complete but for HTTP |
| `RoomReplication` | room members shown to a peer node | members of one room, two nodes |
| `MemoryEvents` | the memory storage | complete |
| `Server_proofs` | the theorems about `ControlPlane`, `WebhookQueue` and `MemoryEvents` | complete |
| `ClientPromise` | what a call of the browser client promises: one outcome | complete |
| `ChatClient` | the browser's socket client and its socket | complete |
| `Composer` | the composers bound to one form | complete |
| `TimelineRows`, `Timeline` | the message list as a scan of rows, and as rows with indices | complete |
| `ChatPage` | a mounted panel: client, composer and list together | complete |
| `Store` | the observable store | complete |
| `Browser_proofs` | the theorems about `Composer`, `ChatClient`, `ChatPage`, `Timeline` and `Store` | complete but for liveness |
| `MCDelivery`, `MCLifecycle`, `MCSessions`, `MCExpiry`, `MCOwnedEntries`, `MCServer`, `MCBrowser` | instances for TLC | |

The modules of the server do not share variables. They meet at interfaces that each states
for itself: `Delivery` contains the session row, the counter row and the order
of a cleanup, because senders race with them; `Lifecycle` contains the rest of a
cleanup and no deliveries; `Lifecycle` takes the expiry service as one deadline
per key, a limit and a dispatch that may be refused; `Expiry` shows what of that
the service provides, and where it does not.

### Delivery

A process of `Callers` is any BEAM process inside `send_session_prevalidated`,
`ack/3`, `ack_many/3` or `ack/2`; its record `proc[p]` says which ETS operation
comes next, and holds what the function holds in its local variables: the
session, the class of the event, the monitor reference read first, the delivery
id. Every ETS operation is one step. The steps of a send are `SendSession` (the
lookup), `Reserve`/`UndoReserve` (`Capacity.reserve`), `CountPending`/`CountGone`
(`reserve_delivery_slot` with `apply_pressure`), `InsertReservation`,
`RecheckSession`, and, when something fails, `ReleaseReservation`,
`RollbackCount` and `ReleaseCapacity` in the order of the code; `IsolateSlow`
follows when the hard limit was passed. An acknowledgement takes a key and goes
on with the last two. `Runtime` is one more process with the same record: it
inserts a session row (`Connect`) before the counter row (`NewCounterRow`), takes
the row (`BeginCleanup`), walks the keys of the ordered set (`FirstKey`,
`ReleaseNext`, `ReleaseEnd`) and drops the counter row and the slow mark. It may
stop between any two steps (`Crash`); `Reconcile` and `RebuildMonitors` are the
start of its successor. `Kill` ends a calling process anywhere.

`rows` and `pending` are one table in the code; the model keeps the ids that
have a row and the count apart. `leaked` and `leakedOf` count what a dead process
held; they are history and no action reads them. A session id is used once: ids
are random and the code never reuses one. Envelopes and metrics are left out.

### Lifecycle

`Runtime` serves one request at a time, and `rt` says which and how far it is.
A request changes several tables; in between, publishers read the fanout index,
timers fire, and the process may stop. So adding an edge is
`InsertEdge` (limits, capacity slot, authoritative row), `ActivateBucket`,
`IndexEdge` (`FanoutIndex.add`: bit, then row), `CountEdge` (reverse row and
counters); removing one is `TakeEdge`, `UnindexEdge`, `DeactivateBucket`,
`UncountEdge`. Topics, watches and rooms follow the same steps in the code, three
times over, with their own tables and limits; the model has one set of edges
whose `Kind` selects the limits. `AddMany` and `RemoveMany` are the single and
the batch requests, `Sync` is `SyncOps.reconcile` (additions, rollback to what
was there if one is refused, then removals), `BeginCleanup` … `FinishCleanup` is
`cleanup_session`, `Resume` … `RestoreEdges` is `do_resume`, `ResumeRoom` the
request for a single room, `ExpireRoom` … `GiveGraceSlots` is `expire_room_now`.
`Reconcile` is `Recovery.reconcile`.

Simplifications, all of them in the direction of more behaviour or of writes
nobody reads in between:

- the rows of user and owner indices follow the session row in one step, and
  the owner tables are not modelled: they are the user tables once more;
- the edges of one request are taken in any order (the code: in list order, and
  a resume restores topics, then watches, then rooms);
- writing a snapshot or a grace and scheduling its timer are one step, because
  only `Runtime` itself and its own mailbox read either;
- `Recovery` is one step: nothing else is served before it returns;
- the failure of an `insert_new` that cannot fail while `Runtime` is the only
  writer is not modelled;
- the old session id stands for its resume token (the table is keyed by the
  token's hash);
- `FanoutIndex.reduce` is one step; what a publisher needs of it is an invariant
  (`FanReachable`).

### Expiry

`Callers` are processes inside `schedule` or `cancel`, and `exp` is the service's
loop. `Schedule` puts the row into the ordered table, `LookupIndex`, `Reserve`,
`Claim` and `Replace` are the next operations of `schedule_retry`, `Again` its
recursion. `Cancel` takes the index row and `FinishCancel` does the rest. The
service's steps are `TakeDue`, `CheckIndex`, `DeleteIndex` and
`ReleaseAndDispatch`. The loop goes through the ordered table with `ets:next` and
stops after a batch; since a row put in behind the cursor waits for the next
tick, any due row may come next. A row is withdrawn from the ordered table in the
step that gave it up: it means nothing without an index row, and rows in that
state exist in the model too, after a `Replace`. Four history variables name what
goes wrong: `lost` and `stranded` rows, and the `surplus` of released slots.

### OwnedEntries

Activities and receipts are one protocol, twice in the code; the module follows
`activity.ex`. A writer's steps are `Put`, `Claim` (the lookup in
`activity_keys`), `Reserve`, `Count` and `Own` (`claim_new_owner`), `Install`, or
`LookupRecord` and `Replace` under an owner that exists, `Index`, `Schedule`,
`Recheck`. Removing a record is the same sequence for the writer that rolls back,
the service that expires and the `Runtime` that cleans up, and one set of actions
for all three: `Remove`, `Unlist`, `CancelTimer`, `Disown`, `Uncount`, `Release`.
Of the expiry service it keeps what `Expiry` shows to matter: the timer of a due
key is deleted by key (`DeleteTimer`) before the record is looked at (`Expire`),
a schedule may be refused, and a deadline that is due when it is scheduled may be
thrown away (`SetTimer`). `RestartRuntime` is a new `Runtime` after its recovery.
Only what other processes read between two steps is a step: the two index rows of
a record are written and deleted together. Left out: the checks of a request's
arguments, the authorizer, the broadcast of an activity and the persistence of a
receipt. `unwatched`, `strays`, `broken` and `leaked` are history (section 6).

### ControlPlane

A request (a call or a cast of any process) reads the generation
(`ReadGeneration`), takes a slot of it (`ReserveSlot`, `Overloaded`), is sent
(`SendRequest`) and waits in the mailbox; `Runtime` releases the slot when it
takes the request up (`TakeRequest`). The caller may time out (`CallTimeout`),
exit because `Runtime` stopped (`CallExit`), or be killed (`CallerKilled`).
`Register` and `NextGeneration` are the two halves of a start: the name is
registered before `init` runs, so requests arrive before there is a new
generation. What a request does is `Lifecycle`'s.

### WebhookQueue

`doing` is the dispatcher's place inside a handler; a task is a job and the
number of its post. `Enqueue` and `IndexJob`, `TakeDue` and `Launch`, `FinishJob`
and `IndexJob` are the pairs of table operations between which the dispatcher may
stop (`DispatcherStops`); `DispatcherStarts` is `rebuild_due`. Tasks of a
dispatcher that is gone go on posting and tell nobody (`TaskEnds`). The time of a
job is whether its backoff is over (`Ripen`).

### RoomReplication

One room, a node and a peer. On the node `JoinRoom` and `LeaveRoom` change the
edge and announce it afterwards (`Dispatch`, which drops when the shard's mailbox
is full), while tasks of `Topology` walk the members and announce them too
(`ResyncReads`). `Periodic` starts such a task by its timer, whatever is still
queued, unless one is under way. `Outbound` sends, at most `MaxWire` messages
ahead of the peer, as a busy connection makes it; `Cut` loses what was on its way.
The peer is connected at the start or is yet to come. On the peer,
the shard (`Receive`, `WriteEdge` … `TakeByNode`) and `Topology` (`NodeUp`,
`NodeDown`, `SweepSelect` … `SweepEnds`) write the same three tables. `Pair` is
`:pg`, which tells a node's shard of the peer's on its own time.

### MemoryEvents

One stream; a process of `Users` is any caller of the storage. `AppendEvent`,
`ReserveEvent`, `UndoEvent`, `RecheckId`, `InsertEvent`, `ListEvent` are the
operations of an append, `RepairListing` that of an append whose id is there;
`DeleteEvent`, `UnlistEvent`, `GiveEvent` a delete; `TakeListed` and `TakeOwner` a
prune; `SeeListed`, `LookUp` and `Clean` a page. `spilled` and `blurred` are
history. An event is its id and the millisecond of its append; the walks take
listed rows in any order and may stop anywhere, which is what a limit and a row
put in behind the cursor amount to.

### The browser kit

JavaScript runs one callback at a time; what is interleaved is the callbacks. In
`ChatClient` a step is an event of the socket, a timer, or a call of the
application; a walk over the pending calls is a step per call (`Visit`), because
settling one calls back into the application. `Greet`, `Answer`, `Serve` and
`Transmit` are the other end and the socket's buffer. `ClientPromise` is what is
promised of a call (none, waiting, one outcome), and `ChatClient` implements it
(`KeepsPromise`). `ChatPage` builds on `ClientPromise`, not on the detailed client:
what a panel sees of its client are promises and callbacks. Its list is the ids
of its rows: a delivery brings a row (`Present`: there already, in the place of
the row with its nonce, or at the end, where the first row goes when there are
`MaxRows`), or brings none because it is of another topic or maps to no message
(docs/ui.md:95); `hidden` remembers those. `RowsTaken` is the application removing
rows, and `taken` remembers what went. A delivery without an id (`Ephemeral`) is
not acknowledged.

`Composer` holds every composer that was ever bound to one form, since a
destroyed one has a promise to come back to; `ChatPage` extends it. In
`TimelineRows` a message list looks rows up by scanning them, as
`priv/ui/js/chat.js` does; in `Timeline` the same operations keep maps, as
`timeline.js` does, and show the same rows (`ShowsRows`). `Store` is the walk of
`set` over its listeners, which may call `set`, `subscribe` and leave.

## 3. The runs

| run | question | bounds |
|---|---|---|
| `delivery_races` | are the accounts exact, is the window bounded, is nothing orphaned, and is the whole an atomic window? | 1 session, 3 callers, soft limit 0, hard limit 1, 2 slots, 1 restart |
| `delivery_pool` | does the instance's limit hold while sessions compete for its last slot? | 2 sessions, 2 callers, 1 slot, 1 killed caller |
| `delivery_idle` | does the instance drain once its sessions have ended? | 1 session, 2 callers, 3 slots, no crash |
| `delivery_leak` | … and after a restart? (it does not) | 1 session, 1 caller, 1 restart |
| `lifecycle_sessions` | are the indices right about every edge, and is the fanout index never missing an edge? does a sync happen altogether or not at all? does a drain close the door? is every slot given back as often as it is taken, and is a token good for one resume? | `Filling`: 2 sessions of 2 users in one bucket, 2 topics with one subscriber each, 1 room, 2 edges per kind, 1 grace, 1 restart; `Resuming`: 2 sessions of 1 user, 1 room, 1 snapshot, 1 grace, 2 timers, 1 restart, 1 refused expiry, no room metadata |
| `lifecycle_rooms` | is an expired room gone, do moved deadlines keep a timer, do graces end? | 2 sessions, 1 room with metadata, 1 grace, 2 timers; no snapshots, no restarts; deadlines set at ticks 0 and 1 |
| `expiry_races` | is the entry count exact, is every accepted deadline met, does the service drain? | 2 keys, 2 callers, 3 calls, limit 2, 2 tries |
| `expiry_budget` | does the service stay within its limit? (it does not) | 2 keys, 1 caller, 4 calls, limit 1 |
| `owned_entries` | does a record always belong to the owner of its key, are counts exact and limits kept, is nothing left without a timer, a session or an index? | 1 session, 2 keys, 2 writers, 2 puts, 2 tries, 1 killed writer or restart; limits (instance, session) of (1, 2), (2, 1), (2, 2) |
| `server` | are the slots of a `Runtime` its own, whoever times out or dies? is a stored job always due or being posted, and does it end? do the storage's tables and count agree? is a member that stays, and is announced again and again, shown at last? | 2 calls, 1 cast, 1 slot, 2 generations; 2 jobs, 1 task, 1 retry, 2 stops; 2 ids, 2 callers, 4 calls, 1 event, 1 death; 1 session with a cut and 2 without one, 2 resync tasks, mailbox of 1, 2 moves, 1 message on its way |
| `browser` | is a call settled once and counted in bytes, never sent late? is a text sent once and never lost? does the indexed list show what the scanning one does? what may a panel show when its connection goes? are listeners told the present value last? | 4 calls, 2 pending, 3 bytes, ids modulo 3, 1 fault; 2 composers, 2 inputs, 2 sends; 4 rows, 2 nonces, 3 rendered; 5 deliveries of 4 events, two of them with one nonce, 2 rows; 2 listeners, 2 sets |
| `resync_overload` | does periodic resync repair what was dropped under load? (it need not) | 2 sessions, 1 resync task, mailbox of 1, no cut |

Why these bounds show what they claim. A delivery race needs two senders (one
between its count and its insert while the other passes the limit), a third
process that acknowledges, and the cleanup: three callers and `Runtime`. A hard
limit of 1 and a soft limit of 0 make every branch of `apply_pressure` happen with
two deliveries. Two slots for three callers make `Capacity.reserve` overshoot.
Two sessions in one bucket are what the fanout bit needs: the last member but one
must not clear it. One restart is enough because recovery does not depend on how
often it has run; it may happen at every step. Two sessions are enough for a
resume and for one that fails: the process that resumes dies after its token was
taken and before its session is there (`create_session` asks last whether it is
alive), and the snapshot goes back, or its slot if its time has come meanwhile. A
later use of a token that went back takes a third session and is left to the
proof (`TokensAreUsedOnce`). Three expiry calls are what an accepted
row, its cancel or move, and a competitor need. Two puts of one key race for its
ownership, of two keys for the last place; while one of them is between two
steps, the deadline of the other passes, the session ends, and one process dies.
In `server`, a late release needs two generations; a post too many needs a stop
between a post and its record; a prune that meets a later event under a listed id
needs a listing, a delete and a second append, which is four calls of two
processes; an announcement is dropped when two processes announce into a mailbox
of one, or one process faster than the shard sends; one cut leaves the peer with a
message before a `nodedown` and one after it. Whether an announcement is lost to a
cut or to a full mailbox is asked in two parts, `cluster` and `crowd`. In
`browser`, identifiers come round after three calls, so the fourth
may get an id in use; the byte budget of three is exceeded by two calls of size
two; the third composer or text would repeat the first two. The panel, too,
is run in two parts: `page`, where everything happens and two deliveries bring one
event twice, and `feed`, a connected panel that only reads: three of the five
deliveries, in any order, fill its two rows, take one by its nonce, push one out, or
come without an id. The parts of `server`
and of `browser` share no state: each behaviour uses one of them, which the first
state chooses, so the runs examine every behaviour of each part and none of their
products.

`lifecycle_sessions` has two families of steps instead, `Filling` and `Resuming`,
an action constraint: two users that fill edges ask for no token and see no time
pass, the user that resumes has one room and meets no drain. The session that
connects first decides which it is. All six properties are about safety, so each is
checked of every step that is left.

Symmetry is used where sessions and callers are interchangeable and no liveness
property is checked (`MCDelivery`, `MCOwnedEntries`).

What the three violations show is in section 6.

## 4. Fairness

`Delivery`: a call once begun goes on (`WF` of the steps of each caller), and so
do a cleanup and a recovery: BEAM processes are scheduled preemptively and none
of these steps blocks. Starting a call, ending a session and dying are never
forced.

`Lifecycle`: the clock runs, the expiry service ticks, a request that was taken
up is carried through, a stopped `Runtime` is restarted by its supervisor. `SF`
for the mailbox: it is first in, first out, and `Runtime` comes back to it after
every request, so a message is not overtaken for ever by new requests; weak
fairness would allow that, because `Mailed` is disabled during each request.

`Expiry`: the clock runs, the service ticks, calls go on.

`OwnedEntries`, `ControlPlane`, `MemoryEvents`, `Composer` on its own, `Timeline`
and `Store` are checked for safety and assume no fairness.

`WebhookQueue`: the dispatcher goes on with what it has begun, ticks, and is
started again by its supervisor; a post ends, by the HTTP client's time-out if by
nothing else; a backoff passes. Enqueuing and stopping are never forced.

`RoomReplication`: every process of the two nodes takes its steps (weak fairness
for each), the connection comes back and `:pg` settles. The timer of `Periodic` goes
again and again, whatever is queued then. That an announcement finds a place in the
mailbox again and again is not assumed of the code: it is a premise of
`MembersShown`, and `resync_overload` shows what happens without it.

`ChatClient` and `ChatPage`: timers run out and callbacks that are due are run, as
the event loop does; the application's own handlers return. A server that never
answers is allowed: the client's time-out ends the call.

## 5. What is proved

Every invariant and every action property of every passing run is a theorem,
for every value of the constants. The assumptions are those the modules name:
`ConstantsOK` (of `Delivery` and of `Lifecycle`), `ExpiryConstants`,
`EntryConstants`, `ControlConstants`, `WebhookConstants`, `StorageConstants`,
`ClientConstants`, `ComposerConstants`, `PageConstants`, `TimelineConstants` and
`StoreConstants`: finite sets of processes, sessions, keys and items where
something counts them, limits that are natural numbers (positive where the
configuration demands it), the soft limit below the hard one, and `None`, or
whatever else stands for "nothing", not a member of what it is told from. TLC
evaluates each on its runs.

| theorem | says | argument |
|---|---|---|
| `TypeCorrect`, `CapacityAccounting` | the capacity counter is the number of reservations, plus calls in the middle of one, plus slots lost by dead processes | `TypeOK` and `CapacityExact` are inductive together: that the undo of a failed reservation stays a natural number needs the account. Each action is *balanced*: it moves the counter by as much as it moves reservations and slot holders |
| `InstanceIsBounded` | at most `max_delivery_reservations` reservations | the counter may exceed the limit, so the invariant (`AdmitBound`) counts only those calls that were admitted, and reservations |
| `PendingAccounting` | the pending count of a session with a counter row is its reservations plus the calls that have counted | `LifeInv` (where a session may be in its life) and `PendInv`; the counter row's creation and removal are why the life of the session is needed |
| `SessionIsBounded` | at most `hard_queue` reservations per session | `WindowInv`: reservations plus calls about to insert are within the limit, which a call joins only when the count it read was |
| `NothingOrphaned` | without crashes a reservation of an ended session has somebody who will take it | `MonInv` and `OrphanInv`: a sender before its recheck has read the row that is now gone, so it will find the difference; the cleanup has not passed the key |
| `ImplementsWindow` | `Delivery` implements `DeliveryWindow` | the window of a live session is its set of reservations, of an ended one empty; each step maps to `Open`, `Admit`, `Settle`, `Close` or a stutter |
| `ExpiryTypeCorrect`, `EntryAccounting` (`Expiry_proofs`) | the expiry service's entry count and its surplus of double releases together are the deadlines in the index and the slots in somebody's hands | `Typed` adds to `TypeOK` that a call past its first step has a row, and `UsedExact` is inductive with it; each action is balanced: it moves the left side by as much as it moves rows, holders and the service's own slot |
| `DeadlinesKept` (`Expiry_proofs`) | an accepted deadline that nobody moved, cancelled or met is in both tables or in the service's hands, except after the two named races | `Known`: no token is used twice, so the row of a call in progress is in no other hands and not in the index, and a row being withdrawn is no promise; `Kept` adds where such a row is (`Placed`) and what the service may find (`Caught`, `Displaced`). The steps of callers are sorted into four kinds first (`Passes`, `Renews`, `Enters`, `Withdraws`) |
| `ControlIsSafe` (`Server_proofs`) | while a `Runtime` is up its slots are those its requests hold, and at most `max_control_pending` wait | the releases of other generations must not reach the present one: nobody has read a generation that is to come (`GenerationsPast`), its counter is still zero (`FreshSlots`), and a call that exits after its slot was released is of an earlier generation (`BrokenPast`) |
| `FormSendsOnce`, `DraftIsKept` (`Browser_proofs`) | one send at a time while the form is marked; no step takes unsent text away | `Marked` and `Counted`: the mark belongs to the one composer that is sending, unless a second `destroy` took it |
| `JobsAreKept` (`Server_proofs`) | a stored job is in one place, and posted once per attempt and restart at most | `Places`: the index, a task or the dispatcher's hand; `Spent`: a job without a task has one post to its credit |
| `StorageIsSafe` (`Server_proofs`) | the storage's counter is its events and the slots in somebody's hands or spilled; it is within its limit; a stored event is listed unless in doubt | `Admitted` counts those that have a slot and will store an event, since the counter overshoots; `Removing`: who is about to take a listing away does so from an event that is gone or in doubt |

| `AccountsHold` (`OwnedEntries_proofs`) | the count of all activities is the number of owned keys and of slots in hand, that of a session likewise unless somebody died, and both limits hold | the counters overshoot before a refused claim gives back, so `Admitted` bounds those that were admitted; a removal has taken the key before it gives the slot back, and `Held` says that who gives back still has what he gives |
| `OneGenerationHolds` | a record belongs to the present owner of its key, and a new owner finds the key empty | `RecordsOwned`, `Held` and `Tokens` together: between a claim and its record one process has the key in hand, and no token is drawn twice, so a removal that comes late meets another owner and leaves it alone |
| `WatchedHolds` | a record stays only if a timer, the service or its writer will take it away, the named races and deaths excepted | `WatchedWell` says of each key who exactly; each step hands it on (to the timer, to the service that took the row, to a repair) or ends with no record |
| `NothingOrphanedHolds` | while nobody dies, what an ended session left is in the hands of a writer that will see that it is gone | `Ending`: how far the cleanup's walk is; `ListedWell`: what the index by session lacks, a writer has still to index; `Swept`: a record is in the index of a live session or of one whose list is not read yet, or on the list being dropped, or its writer has its recheck before it, which will find another monitor |
| `IndicesHold` | both indices lead to every record whose writer is done, and the index by topic has no other row but a stray | `ListedWell` for the one, `TopicsMatch` for the other |
| `FanIsReachable` (`Lifecycle_proofs`) | a publisher that walks the fanout index at any moment misses no row | `BitSet`: an edge is indexed only under a bit that is set, and a bit goes only when its last row has gone |
| `DrainIsClosed` | nothing is added while the instance drains | `NoneAdds`: a request that adds is never half done when the flag is read as set, because both are requests of one process |
| `TokensAreUsedOnce` | a resume token that was used is in no snapshot | `Tokens`: the tokens of snapshots, of the session being saved and of the resume in progress are apart, and a resume that is refused puts back its own |
| `ReturnsAreSound`, `TimersAreCovered` | the slots of snapshots and of graces are those of the rows, of the step in hand and of crashes; a deadline that is waited for has a timer, a message or its expiry in progress | `Returns`: what each half-done request holds of either kind of slot (`SnapAccount`, `GraceAccount`), that a cleanup writes graces nobody has (`GracesApart`) and a resume consumes one that is there (`Invited`), and that an expiring room's state goes before its graces (`Forgets`); once a timer was refused or lost nothing is claimed of deadlines (`disturbed`) |
| `IndicesAreSound` | between requests, after recovery too, the indices and the counters say what the edges of live sessions are | `Agreement`: `Indexed`, the indices differ from the edges by the one edge in hand, and how by the step it is at; `RowsCounted` and `UsersCounted`, each counter is the number of the rows it counts, of those being taken back too; `Rooted`, an edge whose session is gone is on the list of the cleanup in progress. Adding and removing are sorted into a few kinds of step first, so the three kinds of edges share one proof |
| `RoomsAreForgotten` | an expired room has no member, no state and no grace when its expiry is over | `Emptied` follows the expiry: members gone so far, then the state, then the graces, and nobody joins because the expiry is one request |
| `SyncsAreAllOrNothing` | a sync ends with what was asked for or, when an addition is refused, with what there was | `Syncs`: at each step the session's edges are what they were, changed as far as the plan has gone, and the plan undone leads back |
| `ClientIsSafe`, `NothingIsSentLate` (`Browser_proofs`) | the client's byte count is that of its book, the book is that of the open calls, nobody is stuck unsent, an answer settles its own call, and a settled call is not sent | `ClientInv`: who is in the book and with which size (`BookOK`), which frames are buffered and that their sizes add up to `buffered` (`Buffer`, by a function of what remains), whom a walk over the book has still to visit (`InWalk`, `Early`). The library has no theorem about `MapThenSumSet`; what it sums follows from a least counterexample, which needs no induction over an operator |
| `ClientImplementsPromise` | each step of the client is one of `ClientPromise` or a stutter (the fairness of `ClientPromise` is left to TLC, `KeepsPromise`) | from `ClientInv`: what ends a call ends one that is asked, and `Over` breaks exactly those that wait |
| `PageIsSafe`, `PageKeepsItsForm` | a panel can be written in only while its subscription stands, has one row per event and no more than its limit, and acknowledges a delivery that brings a message only after its event had its row, which stays until another takes its place or the application removes it; its form keeps the composer's promises | `PageInv`: what each continuation relies on while other tasks run (`ChainOK`, `SayOK`), `HandledShown` and `AcksShown` (the row of a delivery that is being handled or acknowledged is there, or was and was taken; `Known` never turns false again, whatever goes from the list), `NoneTwice`, and `Silent`: a client that is over asks nothing any more, and the close event is a task of its own, so whoever goes on after it finds its request settled |
| `IndicesAgree`, `TimelineShowsRows` | the list of `timeline.js`, its map of ids and its map of nonces agree, and show what a scan of the rows would | `Exact`: the map of ids is the index of the rows, ids are unique, and a nonce leads to exactly the row that has it. Each operation (evict, add, replace, trim, clear) keeps it and is the operation of `TimelineRows` |
| `ListenersAreTold` (`Browser_proofs`) | when the nested calls are over each listener has last been told the present value | `AllServed`: a listener has the present value, or a walk of a `set` that carries it has still to come to it; joining and leaving shift the walks as the `Set` of the language does |

Two abstractions carry most of these proofs. A step is first classified by what
it does to the variables an invariant reads, so that an invariant is shown for a
handful of kinds of step and not once per action; and an invariant about what is
half done is written as what the step in hand owes.

Model-checked only: `MembersShown` of `RoomReplication`, a liveness property like
`ResyncRepairs`, which it does not have, and the rest of liveness
(`EventuallyIdle`, `GraceEnds`, `Drains`,
`JobsEnd`, `SubmissionEnds`), with the fairness part of `KeepsPromise`: the prover
has no rule for fairness and `ENABLED`. The theorems about `Timeline`, `Store`,
`ChatClient` and `ChatPage` are about the steps without the fairness
of their specifications, which safety does not need.

## 6. What does not hold

`delivery_leak` — `cleanup_session` takes the session row before it releases the
session's deliveries. A `Runtime` that stops in between leaves reservations that
no recovery looks at: their slots are gone for the life of the instance, and
`await_idle/2` (docs/operations.md:7) can never succeed again.

`expiry_budget` — the expiry loop looks at the index row, then deletes it by key
and releases its slot unconditionally. A cancel in between has taken the row and
released the slot already. The count falls below the number of entries, and
`max_expiry_entries` is exceeded. The same gap loses a deadline that is moved
just then (`lost` in `PromisesKept`): the row of the new deadline is deleted.
Rooms, activities and receipts recover: whoever gets the old deadline and finds
a later one in the record schedules that one again (`SetRoomDeadline` and
`ExpireRoom` in `Lifecycle`, `Repair` in `OwnedEntries`), unless this second
schedule is refused.

`resync_overload` — docs/clustering.md:13 says "node join starts bounded state
resync. periodic reconciliation repairs state if the first resync was incomplete
under load." A resync announces every member through the mailbox of the room's
shard and ignores that an announcement was dropped because the mailbox is full
(cluster.ex:125-134, 213). The next one starts over from the first member and may
drop the same ones again. Nothing makes the walk wait for the shard, and the
mailbox (`cluster_pending_per_shard`, 10000 unless configured) need not hold what
a resync announces (`max_room_members` alone is 100000). In the run two members
stay in the room, the connection never goes, and the second is never shown. What
the code does keep is `MembersShown`: who is announced again and again is shown,
unless torn (below).

More is known and named in the properties' premises rather than run:

- an expiry refused by a full control plane is not repeated (`LoseTimer`, excluded
  by `disturbed`), and a room's deadline is stored even when its timer was refused
  (`SetRoomDeadline`, likewise);
- `strays`: a writer that indexes an activity after its record was removed
  (activity.ex:129-130) leaves a row in the index by topic until the key is put
  again; `list/4` skips it but counts it against its limit;
- `broken`: a writer killed between claiming a key and installing its record
  blocks that key, and one killed before it set the timer leaves a record without
  one;
- `unwatched`: an activity whose moved deadline could not be scheduled again, or
  whose row the expiry service threw away before it was in the index, stays until
  its session ends.

- `torn`: `remote_join` writes a member's edge and then two indices; a `nodedown`
  between them lets `remove_remote_node` walk indices that lack the row. The edge
  stays, and a later resync finds it and writes nothing more, so the member is in
  no listing however often members are announced, under load or not.
  `MembersShown` names those sessions and claims nothing of them;
- a leave that is dropped by a full mailbox, lost with a connection that comes
  back at once, or overtaken by a resync that read the member before it left, is
  never announced again: the peer keeps a member that is gone. `MembersShown` is
  about members that stay, and no property speaks of those that left;
- a caller of `Runtime` that is killed between its reservation and its send, and
  a cast sent while nobody has the name, lose a slot until the next generation
  (`lost`, which `ControlExact` counts);
- a dispatcher that stops leaves its tasks posting, and its successor posts the
  same jobs again: at least once, and at most once more per restart (`JobsKept`);
- `spilled`: a prune takes an id's row whatever event it holds (memory.ex:161-167);
  an event appended again under that id in between is lost with its slot;
- `blurred`: an append within the millisecond of the event whose listing a delete
  or a page is removing is stored and not listed, until the append is repeated;
- a composer destroyed twice removes the mark of the composer bound after it
  (composer.js:74-80; `again` in `OneSend`);
- a store listener that throws ends the walk, and those behind it are not told
  (core.js:17; `broke` in `ToldLast`);
- an `onReady` handler that throws leaves the form enabled with a banner that
  says otherwise, and the submissions of that panel fail; one that rejects after the
  close leaves the banner at "error" (mount.js:88-94);
- a frame refused by the transport's rate limit is answered without the id of its
  call, which then waits for its time-out.

## 7. What is not modelled, and the plan

`PROJECT.json` lists every component with its status and every hazard with the
properties that cover it or the reason none does. What could come next, in this
order:

1. A safety invariant of `RoomReplication` to go with `MembersShown`: that what a
   peer shows and did not lose is or was a member, and what is torn is listed.
2. The rest of the cluster: presence, the dedup window of fanned out messages,
   the echo of room expiries (`cluster/shard.ex:185-191`), the ceiling of the
   peer's table, and shards that restart.
3. The rate limiter and the memory cache. Both claim rows as `OwnedEntries` does;
   what is their own is arithmetic on the clock and a replaced counter.
4. `Consumer` (batches, ordered groups, acknowledgement after processing) and the
   foreign gateway's handshake and limits.

Not modelled: the isolation of adapters and callbacks (one task per call, a slot
around it, and a brutal kill at the time-out, so that no late answer exists);
presence (computed when it is read); the library's wrappers (chat, queries,
request and reply); language facades; health and metrics, which nothing reads
for a decision; overlays, tabs, themes and syntax highlighting of the user
interface, its LiveView hooks, and the search of the manual (`site/manual.js`):
presentation in single callbacks, with nothing to be interleaved or lost; the
external stores and HTTP (services outside the repository); validation, codecs,
signatures and token formats (data conversion).
