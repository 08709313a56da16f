------------------------------- MODULE MCServer -------------------------------
(***************************************************************************)
(* TLC instance of four parts of an instance that share no state with      *)
(* each other: admission to Runtime, the webhook queue, the replication of *)
(* a room and the memory storage.  A behaviour uses the one it chose at    *)
(* the start.                                                              *)
(***************************************************************************)
EXTENDS ControlPlane, WebhookQueue, RoomReplication, MemoryEvents

CONSTANTS s1, s2

VARIABLE part

serverVars == <<part, controlVars, queueVars, replicationVars, storageVars>>

(* A part that is not used has nothing to do.                              *)
ServerInit ==
  /\ ControlInit /\ QueueInit /\ StorageInit
  /\ \/ part \in {"cluster", "crowd"} /\ ReplicationInit
     \/ part \in {"control", "webhooks", "storage"} /\ Quiet(TRUE) /\ resyncing = TRUE

(* The replication is run twice: with one session and a connection that    *)
(* goes, and with as many as the mailbox does not hold.                    *)
Alone    == part = "cluster" /\ s2 \notin members'
Unbroken == part = "crowd" /\ cuts' = 0

ServerNext ==
  /\ UNCHANGED part
  /\ \/ part = "control" /\ ControlNext /\ UNCHANGED <<queueVars, replicationVars, storageVars>>
     \/ part = "webhooks" /\ QueueNext /\ UNCHANGED <<controlVars, replicationVars, storageVars>>
     \/ /\ part \in {"cluster", "crowd"} /\ ReplicationNext /\ (Alone \/ Unbroken)
        /\ UNCHANGED <<controlVars, queueVars, storageVars>>
     \/ part = "storage" /\ StorageNext /\ UNCHANGED <<controlVars, queueVars, replicationVars>>

ServerSpec ==
  ServerInit /\ [][ServerNext]_serverVars /\ QueueFairness /\ ReplicationFairness
================================================================================
