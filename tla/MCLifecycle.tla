---------------------------- MODULE MCLifecycle ----------------------------
(* TLC instance of Lifecycle: one user, one room.                          *)
EXTENDS Lifecycle, TLC

CONSTANTS s1, s2, u1, topic, topic2, room

MCUserOf == [s \in Sessions |-> u1]
MCKind   == topic :> "topic" @@ topic2 :> "topic" @@ room :> "room"
MCRoomOnly == room :> "room"
MCBucket == [s \in Sessions |-> 0]
MCTwo    == [k \in Kinds |-> 2]
============================================================================
