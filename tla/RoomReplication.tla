--------------------------- MODULE RoomReplication ---------------------------
(***************************************************************************)
(* How one node shows its room members to another (cluster.ex, shard.ex,   *)
(* topology.ex, rooms.ex).  On the one side Runtime announces joins and    *)
(* leaves and tasks of Topology repeat all members, both through the       *)
(* mailbox of the room's shard, which is bounded; on the other side the    *)
(* shard writes what arrives and Topology removes what it wrote when the   *)
(* connection goes.  They are processes of their own on shared tables.     *)
(* Left out: the limit of the peer's table (max_remote_room_edges), and a  *)
(* shard or Topology that stops.                                           *)
(***************************************************************************)
EXTENDS Integers, Sequences, FiniteSets

CONSTANTS
  Sids,                    \* sessions that join and leave one room
  ClusterPendingPerShard,  \* cluster_pending_per_shard
  Runtime, Tasks,          \* who announces: Runtime and the resync tasks
  MaxMoves,                \* bound: joins and leaves
  MaxCuts,                 \* bound: times the connection goes
  MaxWire,                 \* bound: messages on their way; a busy connection blocks its sender
  Free                     \* a process with nothing in hand

ASSUME ReplicationConstants ==
  /\ {ClusterPendingPerShard, MaxWire} \subseteq Nat \ {0} /\ {MaxMoves, MaxCuts} \subseteq Nat
  /\ Runtime \notin Tasks /\ Free \notin Sids

VARIABLES
  members,    \* room_edges of the node
  moves,
  hand,       \* what each process is about to announce
  walk,       \* members a resync task has still to come to
  resyncing,  \* Topology's set holds the peer
  sending,    \* capacity: {:cluster_pending, shard}
  box,        \* mailbox of the node's shard
  link, cuts, \* the connection
  paired,     \* :pg shows the peer's shard to the node's
  wire,       \* messages on their way and in the mailbox of the peer's shard
  news,       \* nodeup and nodedown in the mailbox of the peer's Topology
  known,      \* the peer's cluster_nodes has the node
  edges,      \* the peer's remote_room_edges,
  rows,       \*   remote_rooms
  byNode,     \*   and remote_rooms_by_node
  shard,      \* what the peer's shard does: <<op, sid, pc>> or Free
  sweep,      \* what the peer's Topology does: [pc, left, sid] or Free
  torn        \* history: sessions being written when a nodedown came

nodeVars == <<members, moves, hand, walk, resyncing, sending, box>>
linkVars == <<link, cuts, paired, wire, news>>
peerVars == <<known, edges, rows, byNode, shard, sweep, torn>>
replicationVars == <<nodeVars, linkVars, peerVars>>

(* Nothing has happened yet, with the peer connected or not.               *)
Quiet(up) ==
  /\ members = {} /\ moves = 0 /\ hand = [p \in Tasks \cup {Runtime} |-> Free]
  /\ walk = [t \in Tasks |-> Free] /\ sending = 0 /\ box = <<>>
  /\ link = up /\ cuts = 0 /\ paired = up /\ wire = <<>> /\ news = <<>>
  /\ known = up /\ edges = {} /\ rows = {} /\ byNode = {}
  /\ shard = Free /\ sweep = Free /\ torn = {}

ReplicationInit == resyncing = FALSE /\ \E up \in BOOLEAN : Quiet(up)

-----------------------------------------------------------------------------
(* Runtime changes the edge first and announces it last.                   *)
Moves(s, op) ==
  /\ moves < MaxMoves /\ moves' = moves + 1
  /\ hand[Runtime] = Free
  /\ hand' = [hand EXCEPT ![Runtime] = <<op, s>>]
  /\ UNCHANGED <<walk, resyncing, sending, box, linkVars, peerVars>>

JoinRoom(s)  == s \notin members /\ members' = members \cup {s} /\ Moves(s, "join")
LeaveRoom(s) == s \in members /\ members' = members \ {s} /\ Moves(s, "leave")

(* dispatch: a place in the shard's mailbox, or it is dropped.             *)
Dispatch(p) ==
  /\ hand[p] # Free /\ hand' = [hand EXCEPT ![p] = Free]
  /\ IF sending < ClusterPendingPerShard
     THEN sending' = sending + 1 /\ box' = Append(box, hand[p])
     ELSE UNCHANGED <<sending, box>>
  /\ UNCHANGED <<members, moves, walk, resyncing, linkVars, peerVars>>

(* resync_to: a walk over room_edges in the order of the table.  Who joins *)
(* behind it is not met, and who was met may leave before it is announced. *)
ResyncReads(t, s) ==
  /\ walk[t] # Free /\ hand[t] = Free /\ s \in walk[t]
  /\ walk' = [walk EXCEPT ![t] = @ \ {s}]
  /\ hand' = [hand EXCEPT ![t] = IF s \in members THEN <<"join", s>> ELSE Free]
  /\ UNCHANGED <<members, moves, resyncing, sending, box, linkVars, peerVars>>

(* resync_done, also of a task that was started before the last nodedown.  *)
ResyncEnds(t) ==
  /\ walk[t] = {} /\ hand[t] = Free
  /\ walk' = [walk EXCEPT ![t] = Free] /\ resyncing' = FALSE
  /\ UNCHANGED <<members, moves, hand, sending, box, linkVars, peerVars>>

(* start_resync, unless Topology knows of a task for the peer.             *)
StartResync ==
  IF resyncing \/ \A t \in Tasks : walk[t] # Free THEN UNCHANGED <<walk, resyncing>>
  ELSE /\ resyncing' = TRUE
       /\ \E t \in Tasks : walk[t] = Free /\ walk' = [walk EXCEPT ![t] = Sids]

(* periodic_resync: by its timer, whatever is still queued.                *)
Periodic ==
  /\ link /\ StartResync
  /\ UNCHANGED <<members, moves, hand, sending, box, linkVars, peerVars>>

(* The node's shard sends to the peer's, if there is one.                  *)
Outbound ==
  /\ box # <<>> /\ box' = Tail(box) /\ Len(wire) < MaxWire
  /\ sending' = IF sending > 0 THEN sending - 1 ELSE 0
  /\ wire' = IF paired THEN Append(wire, Head(box)) ELSE wire
  /\ UNCHANGED <<members, moves, hand, walk, resyncing, link, cuts, paired, news, peerVars>>

-----------------------------------------------------------------------------
(* The connection goes, with some of what was on its way, and comes back:  *)
(* the tasks of the node go on, and a new one is started.  What the node's *)
(* Topology does about it is one step with it; the peer's is not.          *)
Cut ==
  /\ link /\ cuts < MaxCuts /\ link' = FALSE /\ cuts' = cuts + 1 /\ paired' = FALSE
  /\ \E n \in 0 .. Len(wire) : wire' = SubSeq(wire, 1, n)
  /\ news' = Append(news, "down") /\ resyncing' = FALSE
  /\ UNCHANGED <<members, moves, hand, walk, sending, box, peerVars>>

Connect ==
  /\ ~link /\ link' = TRUE
  /\ news' = Append(news, "up")
  /\ StartResync
  /\ UNCHANGED <<members, moves, hand, sending, box, cuts, paired, wire, peerVars>>

Pair ==
  /\ link /\ ~paired /\ paired' = TRUE
  /\ UNCHANGED <<nodeVars, link, cuts, wire, news, peerVars>>

-----------------------------------------------------------------------------
(* The peer's shard: a message of a node it knows is written to three      *)
(* tables one after another (remote_join, remove_remote_edge).             *)
Receive ==
  /\ shard = Free /\ wire # <<>> /\ wire' = Tail(wire)
  /\ shard' = IF known THEN <<Head(wire)[1], Head(wire)[2], "edge">> ELSE Free
  /\ UNCHANGED <<nodeVars, link, cuts, paired, news, known, edges, rows, byNode, sweep, torn>>

ShardIs(op, pc) == shard # Free /\ shard[1] = op /\ shard[3] = pc
ShardGoes(pc)   == shard' = IF pc = "done" THEN Free ELSE <<shard[1], shard[2], pc>>

WriteEdge ==
  /\ ShardIs("join", "edge")
  /\ edges' = edges \cup {shard[2]}
  /\ ShardGoes(IF shard[2] \in edges THEN "done" ELSE "row")
  /\ UNCHANGED <<nodeVars, linkVars, known, rows, byNode, sweep, torn>>

WriteRow ==
  /\ ShardIs("join", "row") /\ ShardGoes("node")
  /\ rows' = rows \cup {shard[2]}
  /\ UNCHANGED <<nodeVars, linkVars, known, edges, byNode, sweep, torn>>

WriteByNode ==
  /\ ShardIs("join", "node") /\ ShardGoes("done")
  /\ byNode' = byNode \cup {shard[2]}
  /\ UNCHANGED <<nodeVars, linkVars, known, edges, rows, sweep, torn>>

TakeEdge ==
  /\ ShardIs("leave", "edge")
  /\ edges' = edges \ {shard[2]}
  /\ ShardGoes(IF shard[2] \in edges THEN "row" ELSE "done")
  /\ UNCHANGED <<nodeVars, linkVars, known, rows, byNode, sweep, torn>>

TakeRow ==
  /\ ShardIs("leave", "row") /\ ShardGoes("node")
  /\ rows' = rows \ {shard[2]}
  /\ UNCHANGED <<nodeVars, linkVars, known, edges, byNode, sweep, torn>>

TakeByNode ==
  /\ ShardIs("leave", "node") /\ ShardGoes("done")
  /\ byNode' = byNode \ {shard[2]}
  /\ UNCHANGED <<nodeVars, linkVars, known, edges, rows, sweep, torn>>

-----------------------------------------------------------------------------
(* The peer's Topology.                                                    *)
NodeUp ==
  /\ sweep = Free /\ news # <<>> /\ Head(news) = "up" /\ news' = Tail(news)
  /\ known' = TRUE
  /\ UNCHANGED <<nodeVars, link, cuts, paired, wire, edges, rows, byNode, shard, sweep, torn>>

(* Mutant of NodeDown: the node is forgotten only with the last step.      *)
MutantNodeDown ==
  /\ sweep = Free /\ news # <<>> /\ Head(news) = "down" /\ news' = Tail(news)
  /\ sweep' = [pc |-> "next", left |-> byNode, sid |-> Free]
  /\ torn' = IF shard # Free THEN torn \cup {shard[2]} ELSE torn
  /\ UNCHANGED <<nodeVars, link, cuts, paired, wire, known, edges, rows, byNode, shard>>

(* mark_disconnected, then remove_node with what it selects.               *)
NodeDown ==
  /\ sweep = Free /\ news # <<>> /\ Head(news) = "down" /\ news' = Tail(news)
  /\ known' = FALSE
  /\ sweep' = [pc |-> "select", left |-> {}, sid |-> Free]
  /\ torn' = IF shard # Free THEN torn \cup {shard[2]} ELSE torn
  /\ UNCHANGED <<nodeVars, link, cuts, paired, wire, edges, rows, byNode, shard>>

SweepIs(pc) == sweep # Free /\ sweep.pc = pc
SweepData   == <<nodeVars, linkVars, known, shard, torn>>

SweepSelect ==
  /\ SweepIs("select")
  /\ sweep' = [sweep EXCEPT !.pc = "next", !.left = byNode]
  /\ UNCHANGED <<SweepData, edges, rows, byNode>>

SweepEdge(s) ==
  /\ SweepIs("next") /\ s \in sweep.left
  /\ edges' = edges \ {s}
  /\ sweep' = [sweep EXCEPT !.pc = IF s \in edges THEN "row" ELSE "next",
                            !.left = @ \ {s}, !.sid = s]
  /\ UNCHANGED <<SweepData, rows, byNode>>

SweepRow ==
  /\ SweepIs("row") /\ sweep' = [sweep EXCEPT !.pc = "node"]
  /\ rows' = rows \ {sweep.sid}
  /\ UNCHANGED <<SweepData, edges, byNode>>

SweepByNode ==
  /\ SweepIs("node") /\ sweep' = [sweep EXCEPT !.pc = "next"]
  /\ byNode' = byNode \ {sweep.sid}
  /\ UNCHANGED <<SweepData, edges, rows>>

SweepEnds ==
  /\ SweepIs("next") /\ sweep.left = {}
  /\ sweep' = Free /\ byNode' = {}
  /\ UNCHANGED <<SweepData, edges, rows>>

-----------------------------------------------------------------------------
ResyncSteps(t) == Dispatch(t) \/ ResyncEnds(t) \/ \E s \in Sids : ResyncReads(t, s)
Writing  == Receive \/ WriteEdge \/ WriteRow \/ WriteByNode \/ TakeEdge \/ TakeRow \/ TakeByNode
Sweeping ==
  \/ NodeUp \/ NodeDown \/ SweepSelect \/ SweepRow \/ SweepByNode \/ SweepEnds
  \/ \E s \in Sids : SweepEdge(s)

ReplicationNext ==
  \/ \E s \in Sids : JoinRoom(s) \/ LeaveRoom(s)
  \/ Dispatch(Runtime) \/ \E t \in Tasks : ResyncSteps(t)
  \/ Periodic \/ Outbound \/ Cut \/ Connect \/ Pair \/ Writing \/ Sweeping

(* Processes take their steps, and the connection comes back.              *)
ReplicationFairness ==
  /\ WF_replicationVars(Dispatch(Runtime)) /\ WF_replicationVars(Periodic)
  /\ \A t \in Tasks : WF_replicationVars(ResyncSteps(t))
  /\ WF_replicationVars(Outbound) /\ WF_replicationVars(Writing)
  /\ WF_replicationVars(Sweeping) /\ WF_replicationVars(Connect) /\ WF_replicationVars(Pair)

ReplicationSpec == ReplicationInit /\ [][ReplicationNext]_replicationVars /\ ReplicationFairness

-----------------------------------------------------------------------------
(* Properties.                                                             *)

(* Presence and room views may disagree for a while.  A member that stays, *)
(* and whose announcement finds a place in the mailbox again and again, is *)
(* shown for good at last, whatever was dropped, cut off or came before    *)
(* the peer knew the node.  The exception is a session whose message was   *)
(* being written at the moment of a nodedown: it may keep an edge that no  *)
(* other index has, and later announcements stop at that edge.             *)
Shown(s)     == s \in edges /\ s \in rows
Announced(s) == \E n \in DOMAIN box : box[n] = <<"join", s>>
MembersShown ==
  \A s \in Sids :
    <>[](s \in members) /\ []<>Announced(s) => <>[](Shown(s) \/ s \in torn)

(* docs/clustering.md:13: "node join starts bounded state resync. periodic *)
(* reconciliation repairs state if the first resync was incomplete under   *)
(* load."  Where the connection stays, who stays in the room is shown at   *)
(* last.                                                                   *)
ResyncRepairs == \A s \in Sids : <>[](s \in members) => <>Shown(s)
===============================================================================
