----------------------------- MODULE MCSessions -----------------------------
(***************************************************************************)
(* TLC instance of Lifecycle for what sessions gain and lose.  The steps   *)
(* are those of two families of behaviours: two users fill the edges of    *)
(* two topics and a room, at their limits and during a drain; and one user *)
(* with a room comes, goes and resumes.                                    *)
(***************************************************************************)
EXTENDS MCLifecycle

CONSTANTS s3, u2

MCTwoUsers == [s \in Sessions |-> IF s = s3 THEN u2 ELSE u1]
MCOneTopic == [k \in Kinds |-> IF k = "topic" THEN 1 ELSE 2]

(* No time passes and no session asks for a resume token.  The users are   *)
(* alike: s3 is the first to connect; s2 is not used.                      *)
Filling ==
  /\ born \in {{}, {s3}, {s1, s3}} /\ resumable = {}
  /\ s2 \in alive
  /\ now = 0 /\ refused = 0

(* The second session comes by a connection, or by the token of the first; *)
(* s3 is not used.                                                         *)
Resuming ==
  /\ born \subseteq {s1, s2} /\ ~draining
  /\ s3 \in alive /\ rt.s # s3 /\ rt.k # "topic"
  /\ \A e \in edges \cup rt.todo \cup rt.after \cup rt.desired : e[2] = room

Family == Filling' \/ Resuming'
=============================================================================
