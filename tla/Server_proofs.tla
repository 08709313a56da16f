----------------------------- MODULE Server_proofs -----------------------------
(***************************************************************************)
(* Proofs about three parts of an instance that share no state: admission  *)
(* to Runtime (ControlPlane), the webhook queue (WebhookQueue) and the     *)
(* memory storage (MemoryEvents), for any number of requests, generations, *)
(* jobs, processes, events, crashes and deaths.                            *)
(***************************************************************************)
EXTENDS ControlPlane, WebhookQueue, MemoryEvents, FiniteSetTheorems, TLAPS

(* Admission to Runtime.                                                   *)
HoldStages == {"over", "admitted", "queued", "exited", "lost"}

(* Nobody has a generation that is still to come, and its count is zero;   *)
(* whoever was being served when a Runtime stopped is of an earlier one.   *)
GenerationsPast == \A r \in Requests : gen[r] <= generation
FreshSlots      == \A g \in Generations : g > generation => slots[g] = 0
BrokenPast      == runtime = "up" =>
                     \A r \in Requests : stage[r] = "broken" => gen[r] # generation
Past == GenerationsPast /\ FreshSlots /\ BrokenPast

ControlInv == ControlTypeOK /\ Past /\ ControlExact /\ ControlBound

-----------------------------------------------------------------------------
LEMMA ControlTypeInit == ControlInit => ControlTypeOK
  BY ControlConstants DEF ControlInit, ControlTypeOK, Generations, Stages

LEMMA ControlTypeNext == ControlTypeOK /\ [ControlNext]_controlVars => ControlTypeOK'
<1> SUFFICES ASSUME ControlTypeOK, [ControlNext]_controlVars PROVE ControlTypeOK'
  OBVIOUS
<1> USE ControlConstants DEF ControlTypeOK, Generations, Stages
<1>1. ASSUME NEW r \in Requests, ReadGeneration(r) PROVE ControlTypeOK'
  BY <1>1 DEF ReadGeneration, Goes
<1>2. ASSUME NEW r \in Requests, ReserveSlot(r) PROVE ControlTypeOK'
  BY <1>2 DEF ReserveSlot, Goes
<1>3. ASSUME NEW r \in Requests, Overloaded(r) PROVE ControlTypeOK'
  BY <1>3 DEF Overloaded, Goes
<1>4. ASSUME NEW r \in Requests, SendRequest(r) PROVE ControlTypeOK'
  BY <1>4 DEF SendRequest, Goes
<1>5. ASSUME NEW r \in Requests, CallTimeout(r) PROVE ControlTypeOK'
  BY <1>5 DEF CallTimeout
<1>6. ASSUME NEW r \in Requests, CallExit(r) PROVE ControlTypeOK'
  <2>1. stage' \in [Requests -> Stages]
    BY <1>6 DEF CallExit, Goes
  <2>2. slots' \in [Generations -> Int]
    BY <1>6 DEF CallExit, Release, Clamped
  <2> QED BY <1>6, <2>1, <2>2 DEF CallExit
<1>7. ASSUME NEW r \in Requests, CallerKilled(r) PROVE ControlTypeOK'
  BY <1>7 DEF CallerKilled, Goes
<1>8. ASSUME NEW r \in Requests, TakeRequest(r) PROVE ControlTypeOK'
  BY <1>8 DEF TakeRequest, Goes, Release, Clamped
<1>9. ASSUME NEW r \in Requests, Served(r) PROVE ControlTypeOK'
  BY <1>9 DEF Served, Goes
<1>10. CASE Register
  BY <1>10 DEF Register
<1>11. CASE NextGeneration
  BY <1>11 DEF NextGeneration
<1>12. CASE RuntimeStops
  BY <1>12 DEF RuntimeStops
<1>13. CASE UNCHANGED controlVars
  BY <1>13 DEF controlVars
<1> QED
  BY <1>1, <1>2, <1>3, <1>4, <1>5, <1>6, <1>7, <1>8, <1>9, <1>10, <1>11, <1>12,
     <1>13 DEF ControlNext

-----------------------------------------------------------------------------
(* Who holds a slot of one generation before and after a request goes on.  *)
LEMMA HoldersFinite ==
  ASSUME NEW g PROVE IsFiniteSet(Holders(g)) /\ Cardinality(Holders(g)) \in Nat
  BY ControlConstants, FS_Subset, FS_CardinalityType DEF Holders

LEMMA HoldersStay ==
  ASSUME ControlTypeOK, NEW g, gen' = gen,
         \A q \in Requests :
           gen[q] = g => (stage[q] \in HoldStages <=> stage'[q] \in HoldStages)
  PROVE  Holders(g)' = Holders(g)
  BY DEF Holders, Holds, HoldStages

LEMMA HoldersGrow ==
  ASSUME ControlTypeOK, NEW r \in Requests, NEW from, NEW to, Goes(r, from, to),
         gen' = gen, from \notin HoldStages, to \in HoldStages, NEW g, gen[r] = g
  PROVE  Cardinality(Holders(g)') = Cardinality(Holders(g)) + 1
<1>1. Holders(g)' = Holders(g) \cup {r} /\ r \notin Holders(g)
  BY DEF ControlTypeOK, Goes, Holders, Holds, HoldStages
<1> QED BY <1>1, HoldersFinite, FS_AddElement

LEMMA HoldersShrink ==
  ASSUME ControlTypeOK, NEW r \in Requests, NEW from, NEW to, Goes(r, from, to),
         gen' = gen, from \in HoldStages, to \notin HoldStages, NEW g, gen[r] = g
  PROVE  /\ Cardinality(Holders(g)') = Cardinality(Holders(g)) - 1
         /\ Cardinality(Holders(g)) > 0
<1>1. Holders(g)' = Holders(g) \ {r} /\ r \in Holders(g)
  BY DEF ControlTypeOK, Goes, Holders, Holds, HoldStages
<1>2. Cardinality(Holders(g)') = Cardinality(Holders(g)) - 1
  BY <1>1, HoldersFinite, FS_RemoveElement
<1>3. Cardinality(Holders(g)) # 0
  BY <1>1, HoldersFinite, FS_EmptySet
<1> QED BY <1>2, <1>3, HoldersFinite

(* Of the admitted, those who wait are among those who hold a slot.        *)
LEMMA PendingFew ==
  ASSUME NEW g
  PROVE  /\ IsFiniteSet(Pending(g)) /\ Cardinality(Pending(g)) \in Nat
         /\ Cardinality(Pending(g)) <= Cardinality(Holders(g))
<1>1. Pending(g) \subseteq Holders(g)
  BY DEF Pending, Holders, Holds
<1> QED BY <1>1, HoldersFinite, FS_Subset, FS_CardinalityType

-----------------------------------------------------------------------------
LEMMA PastInit == ControlInit => Past
  BY ControlConstants
     DEF ControlInit, Past, GenerationsPast, FreshSlots, BrokenPast, Generations

LEMMA PastNext ==
  ControlTypeOK /\ Past /\ [ControlNext]_controlVars => Past'
<1> SUFFICES ASSUME ControlTypeOK, Past, [ControlNext]_controlVars PROVE Past'
  OBVIOUS
<1> USE ControlConstants DEF Generations
<1>1. generation \in Generations /\ generation' \in Generations
      /\ generation' >= generation
  BY ControlTypeNext
     DEF ControlTypeOK, ControlNext, controlVars, ReadGeneration, ReserveSlot, Overloaded,
         SendRequest, CallTimeout, CallExit, CallerKilled, Register, NextGeneration,
         TakeRequest, Served, RuntimeStops
<1>2. \A r \in Requests : gen'[r] = gen[r] \/ gen'[r] = generation
  BY DEF ControlTypeOK, ControlNext, controlVars, ReadGeneration, ReserveSlot, Overloaded,
         SendRequest, CallTimeout, CallExit, CallerKilled, Register, NextGeneration,
         TakeRequest, Served, RuntimeStops
<1>3. GenerationsPast'
  <2> SUFFICES ASSUME NEW r \in Requests PROVE gen'[r] <= generation'
    BY DEF GenerationsPast
  <2>1. gen[r] \in Int /\ gen[r] <= generation
    BY DEF ControlTypeOK, Past, GenerationsPast
  <2>2. generation \in Int /\ generation' \in Int /\ generation <= generation'
    BY <1>1
  <2>3. gen'[r] = gen[r] \/ gen'[r] = generation
    BY <1>2
  <2> QED BY <2>1, <2>2, <2>3
<1>4. \A g \in Generations : g > generation => slots'[g] = slots[g]
  <2>1. ASSUME NEW r \in Requests, NEW n, slots' = [slots EXCEPT ![gen[r]] = n]
        PROVE  \A g \in Generations : g > generation => slots'[g] = slots[g]
    BY <2>1 DEF ControlTypeOK, Past, GenerationsPast
  <2>2. ASSUME NEW r \in Requests, ReserveSlot(r) \/ Overloaded(r) \/ CallExit(r) \/ TakeRequest(r)
        PROVE  \A g \in Generations : g > generation => slots'[g] = slots[g]
    BY <2>1, <2>2 DEF ReserveSlot, Overloaded, CallExit, TakeRequest, Release
  <2>3. CASE UNCHANGED slots
    BY <2>3
  <2> QED
    BY <2>2, <2>3
       DEF ControlNext, controlVars, ReadGeneration, SendRequest, CallTimeout, CallerKilled,
           Register, NextGeneration, Served, RuntimeStops
<1>5. FreshSlots'
  BY <1>1, <1>4 DEF Past, FreshSlots
<1>6. BrokenPast'
  <2>1. CASE NextGeneration
    BY <2>1 DEF NextGeneration, ControlTypeOK, Past, GenerationsPast, BrokenPast
  <2>2. ASSUME UNCHANGED <<runtime, generation>>,
               \A r \in Requests : stage'[r] = "broken" => stage[r] = "broken" /\ gen'[r] = gen[r]
        PROVE  BrokenPast'
    BY <2>2 DEF Past, BrokenPast
  <2>3. ASSUME NEW r \in Requests, ReadGeneration(r) PROVE BrokenPast'
    BY <2>2, <2>3 DEF ReadGeneration, Goes, ControlTypeOK
  <2>4. ASSUME NEW r \in Requests,
               ReserveSlot(r) \/ Overloaded(r) \/ SendRequest(r) \/ CallTimeout(r)
        PROVE  BrokenPast'
    BY <2>2, <2>4 DEF ReserveSlot, Overloaded, SendRequest, CallTimeout, Goes, ControlTypeOK
  <2>5. ASSUME NEW r \in Requests,
               CallExit(r) \/ CallerKilled(r) \/ TakeRequest(r) \/ Served(r)
        PROVE  BrokenPast'
    BY <2>2, <2>5 DEF CallExit, CallerKilled, TakeRequest, Served, Goes, ControlTypeOK
  <2>6. CASE Register \/ RuntimeStops
    BY <2>6 DEF Register, RuntimeStops, BrokenPast
  <2>7. CASE UNCHANGED controlVars
    BY <2>7 DEF controlVars, Past, BrokenPast
  <2> QED BY <2>1, <2>3, <2>4, <2>5, <2>6, <2>7 DEF ControlNext
<1> QED BY <1>3, <1>5, <1>6 DEF Past

-----------------------------------------------------------------------------
(* Within one generation: a request moves, and the count follows it.       *)
LEMMA ExactInit == ControlInit => ControlExact /\ ControlBound
  BY DEF ControlInit, ControlExact, ControlBound

LEMMA ExactNext ==
  ASSUME ControlTypeOK, Past, ControlExact, [ControlNext]_controlVars
  PROVE  ControlExact'
<1> SUFFICES ASSUME runtime' = "up" PROVE slots'[generation'] = Cardinality(Holders(generation)')
  BY DEF ControlExact
<1> USE DEF HoldStages
<1>1. CASE NextGeneration
  <2>1. /\ generation' \in Generations /\ generation' > generation
        /\ \A r \in Requests : gen'[r] # generation'
    BY <1>1, ControlConstants
       DEF NextGeneration, ControlTypeOK, Past, GenerationsPast, Generations
  <2>2. slots'[generation'] = 0
    BY <1>1, <2>1 DEF NextGeneration, Past, FreshSlots
  <2>3. Holders(generation)' = {}
    BY <2>1 DEF Holders, Holds
  <2> QED BY <2>2, <2>3, FS_EmptySet
<1>2. PICK g \in Generations : generation = g
  BY DEF ControlTypeOK
<1>3. CASE generation' = g /\ runtime = "up"
  <2>1. slots[g] = Cardinality(Holders(g)) /\ slots[g] \in Nat
    BY <1>2, <1>3, HoldersFinite DEF ControlExact, Holders, Holds
  <2> SUFFICES slots'[g] = Cardinality(Holders(g)')
    BY <1>2, <1>3 DEF Holders, Holds
  <2>2. ASSUME gen' = gen, slots'[g] = slots[g],
               \A q \in Requests :
                 gen[q] = g => (stage[q] \in HoldStages <=> stage'[q] \in HoldStages)
        PROVE  slots'[g] = Cardinality(Holders(g)')
    BY <2>1, <2>2, HoldersStay
  <2>3. ASSUME NEW r \in Requests, ReadGeneration(r)
        PROVE  slots'[g] = Cardinality(Holders(g)')
    <3>1. Holders(g)' = Holders(g)
      BY <2>3 DEF ReadGeneration, Goes, ControlTypeOK, Holders, Holds
    <3> QED BY <2>1, <2>3, <3>1 DEF ReadGeneration
  <2>4. ASSUME NEW r \in Requests, ReserveSlot(r)
        PROVE  slots'[g] = Cardinality(Holders(g)')
    <3>1. CASE gen[r] = g
      <4>1. slots'[g] = slots[g] + 1
        BY <2>4, <3>1 DEF ReserveSlot, ControlTypeOK
      <4>2. Cardinality(Holders(g)') = Cardinality(Holders(g)) + 1
        BY <2>4, <3>1, HoldersGrow DEF ReserveSlot
      <4> QED BY <2>1, <4>1, <4>2
    <3>2. CASE gen[r] # g
      BY <2>2, <2>4, <3>2 DEF ReserveSlot, Goes, ControlTypeOK
    <3> QED BY <3>1, <3>2
  <2>5. ASSUME NEW r \in Requests, Overloaded(r)
        PROVE  slots'[g] = Cardinality(Holders(g)')
    <3>1. CASE gen[r] = g
      <4>1. slots'[g] = slots[g] - 1
        BY <2>5, <3>1 DEF Overloaded, ControlTypeOK
      <4>2. Cardinality(Holders(g)') = Cardinality(Holders(g)) - 1
        BY <2>5, <3>1, HoldersShrink DEF Overloaded
      <4> QED BY <2>1, <4>1, <4>2
    <3>2. CASE gen[r] # g
      BY <2>2, <2>5, <3>2 DEF Overloaded, Goes, ControlTypeOK
    <3> QED BY <3>1, <3>2
  <2>6. ASSUME NEW r \in Requests, NEW from, NEW to, Goes(r, from, to), Release(gen[r]),
               gen' = gen, from \in HoldStages, to \notin HoldStages
        PROVE  slots'[g] = Cardinality(Holders(g)')
    <3>1. CASE gen[r] = g
      <4>1. /\ Cardinality(Holders(g)') = Cardinality(Holders(g)) - 1
            /\ Cardinality(Holders(g)) > 0
        BY <2>6, <3>1, HoldersShrink
      <4>2. slots'[g] = slots[g] - 1
        BY <2>1, <2>6, <3>1, <4>1 DEF Release, Clamped, ControlTypeOK
      <4> QED BY <2>1, <4>1, <4>2
    <3>2. CASE gen[r] # g
      BY <2>2, <2>6, <3>2 DEF Release, Goes, ControlTypeOK
    <3> QED BY <3>1, <3>2
  <2>7. ASSUME NEW r \in Requests, TakeRequest(r)
        PROVE  slots'[g] = Cardinality(Holders(g)')
    BY <2>6, <2>7 DEF TakeRequest
  <2>8. ASSUME NEW r \in Requests, CallExit(r)
        PROVE  slots'[g] = Cardinality(Holders(g)')
    <3>1. CASE Goes(r, "exited", "done")
      BY <2>6, <2>8, <3>1 DEF CallExit
    <3>2. CASE Goes(r, "broken", "done")
      <4>1. gen[r] # g
        BY <1>2, <1>3, <3>2 DEF Past, BrokenPast, Goes
      <4> QED BY <2>2, <2>8, <3>2, <4>1 DEF CallExit, Release, Goes, ControlTypeOK
    <3> QED BY <2>8, <3>1, <3>2 DEF CallExit
  <2>9. ASSUME NEW r \in Requests, SendRequest(r) \/ CallTimeout(r) \/ CallerKilled(r) \/ Served(r)
        PROVE  slots'[g] = Cardinality(Holders(g)')
    BY <2>2, <2>9 DEF SendRequest, CallTimeout, CallerKilled, Served, Goes, ControlTypeOK
  <2>10. CASE UNCHANGED controlVars
    BY <2>2, <2>10 DEF controlVars
  <2> QED
    BY <1>3, <2>3, <2>4, <2>5, <2>7, <2>8, <2>9, <2>10
       DEF ControlNext, Register, NextGeneration, RuntimeStops
<1> QED
  BY <1>1, <1>2, <1>3
     DEF ControlNext, controlVars, ReadGeneration, ReserveSlot, Overloaded, SendRequest,
         CallTimeout, CallExit, CallerKilled, Register, TakeRequest, Served, RuntimeStops

LEMMA BoundNext ==
  ASSUME ControlTypeOK, Past, ControlExact, ControlExact', ControlBound,
         [ControlNext]_controlVars
  PROVE  ControlBound'
<1> SUFFICES ASSUME runtime' = "up"
             PROVE  Cardinality(Pending(generation)') <= MaxControlPending
  BY DEF ControlBound
<1>1. CASE NextGeneration
  <2>1. \A r \in Requests : gen'[r] # generation'
    BY <1>1, ControlConstants
       DEF NextGeneration, ControlTypeOK, Past, GenerationsPast, Generations
  <2>2. Pending(generation)' = {}
    BY <2>1 DEF Pending
  <2> QED BY <2>2, FS_EmptySet, ControlConstants
<1>2. PICK g \in Generations : generation = g
  BY DEF ControlTypeOK
<1>3. CASE generation' = g /\ runtime = "up"
  <2> SUFFICES Cardinality(Pending(g)') <= MaxControlPending
    BY <1>2, <1>3 DEF Pending
  <2>1. Cardinality(Pending(g)) <= MaxControlPending
    BY <1>2, <1>3 DEF ControlBound, Pending
  <2>2. ASSUME Pending(g)' \subseteq Pending(g)
        PROVE  Cardinality(Pending(g)') <= MaxControlPending
    <3>1. IsFiniteSet(Pending(g)) /\ Cardinality(Pending(g)) \in Nat
      BY PendingFew
    <3>2. Cardinality(Pending(g)') \in Nat /\ Cardinality(Pending(g)') <= Cardinality(Pending(g))
      BY <2>2, <3>1, FS_Subset, FS_CardinalityType
    <3> QED BY <2>1, <3>1, <3>2, ControlConstants
  <2>3. ASSUME NEW r \in Requests, ReserveSlot(r), gen[r] = g,
               slots[g] + 1 <= MaxControlPending
        PROVE  Cardinality(Pending(g)') <= MaxControlPending
    <3>1. slots'[g] = slots[g] + 1 /\ slots'[g] \in Int
      BY <2>3 DEF ReserveSlot, ControlTypeOK
    <3>2. slots'[g] = Cardinality(Holders(g)')
      BY <1>2, <1>3 DEF ControlExact, Holders, Holds
    <3>3. Pending(g)' \subseteq Holders(g)'
      BY DEF Pending, Holders, Holds
    <3>4. IsFiniteSet(Holders(g)')
      BY ControlConstants, FS_Subset DEF Holders
    <3>5. /\ Cardinality(Pending(g)') <= Cardinality(Holders(g)')
          /\ Cardinality(Pending(g)') \in Nat
      BY <3>3, <3>4, FS_Subset, FS_CardinalityType
    <3> QED BY <2>3, <3>1, <3>2, <3>5, ControlConstants
  <2>4. ASSUME NEW r \in Requests, ReserveSlot(r)
        PROVE  Cardinality(Pending(g)') <= MaxControlPending
    <3>1. CASE gen[r] = g /\ slots[g] + 1 <= MaxControlPending
      BY <2>3, <2>4, <3>1
    <3>2. CASE ~(gen[r] = g /\ slots[g] + 1 <= MaxControlPending)
      BY <2>2, <2>4, <3>2 DEF ReserveSlot, Goes, Pending, ControlTypeOK
    <3> QED BY <3>1, <3>2
  <2>5. ASSUME NEW r \in Requests,
               ReadGeneration(r) \/ Overloaded(r) \/ SendRequest(r) \/ CallTimeout(r)
        PROVE  Cardinality(Pending(g)') <= MaxControlPending
    BY <1>3, <2>2, <2>5
       DEF ReadGeneration, Overloaded, SendRequest, CallTimeout, Goes, Pending, ControlTypeOK
  <2>6. ASSUME NEW r \in Requests,
               CallExit(r) \/ CallerKilled(r) \/ TakeRequest(r) \/ Served(r)
        PROVE  Cardinality(Pending(g)') <= MaxControlPending
    BY <2>2, <2>6
       DEF CallExit, CallerKilled, TakeRequest, Served, Goes, Pending, ControlTypeOK
  <2>7. CASE UNCHANGED controlVars
    BY <2>2, <2>7 DEF controlVars, Pending
  <2> QED
    BY <1>3, <2>4, <2>5, <2>6, <2>7
       DEF ControlNext, Register, NextGeneration, RuntimeStops
<1> QED
  BY <1>1, <1>2, <1>3
     DEF ControlNext, controlVars, ReadGeneration, ReserveSlot, Overloaded, SendRequest,
         CallTimeout, CallExit, CallerKilled, Register, TakeRequest, Served, RuntimeStops

(* Whatever calls time out, exit or are killed, and however often Runtime  *)
(* is started again: while it is up the slots of its generation are those  *)
(* somebody holds, and at most max_control_pending requests wait for it    *)
(* (runtime.ex:1420-1525).                                                 *)
THEOREM ControlIsSafe == ControlSpec => []ControlSafe
<1>1. ControlInit => ControlInv
  BY ControlTypeInit, PastInit, ExactInit DEF ControlInv
<1>2. ControlInv /\ [ControlNext]_controlVars => ControlInv'
  BY ControlTypeNext, PastNext, ExactNext, BoundNext DEF ControlInv
<1>3. ControlInv => ControlSafe
  BY DEF ControlInv, ControlSafe
<1> QED BY <1>1, <1>2, <1>3, PTL DEF ControlSpec

-----------------------------------------------------------------------------
(* The webhook queue.                                                      *)
JobType == [attempt : Nat, ripe : BOOLEAN]

QueueTypeOK ==
  /\ jobs \in [Jobs -> JobType \cup {Nothing}] /\ asked \subseteq Jobs
  /\ due \subseteq Jobs \X Nat /\ active \subseteq Jobs \X Nat
  /\ doing \in [at : {"idle", "tick", "launch", "index", "down"}, job : Jobs \cup {Nothing}]
  /\ At("launch") \/ At("index") => doing.job \in Jobs
  /\ posts \in [Jobs -> Nat] /\ crashes \in Nat

JobRows(j)  == {k \in due : k[1] = j}
Tasks(j) == {t \in active : t[1] = j}

(* Where a job is: in the index, with a task, or in the dispatcher's hand. *)
InIndex(j) == (\E k : JobRows(j) = {k}) /\ Tasks(j) = {} /\ ~InHand(j)
InTask(j)  == JobRows(j) = {} /\ (\E t : Tasks(j) = {t}) /\ ~InHand(j)
InTheHand(j) == JobRows(j) = {} /\ Tasks(j) = {} /\ InHand(j)
Nowhere(j) == JobRows(j) = {} /\ Tasks(j) = {} /\ ~InHand(j)
Placed(j)  == IF jobs[j] = Nothing THEN Nowhere(j) ELSE InIndex(j) \/ InTask(j) \/ InTheHand(j)
Places     == ~At("down") => \A j \in Jobs : Placed(j)
Downed     == At("down") => active = {}

(* How often a job has been posted: the post under way is not counted yet. *)
Spent(j) ==
  /\ jobs[j] # Nothing =>
       /\ j \in asked /\ jobs[j].attempt <= MaxRetries
       /\ posts[j] <= jobs[j].attempt + 1 + crashes
       /\ Tasks(j) = {} => posts[j] <= jobs[j].attempt + crashes
  /\ j \notin asked => posts[j] = 0
  /\ posts[j] <= MaxRetries + 1 + crashes

QueueInv == QueueTypeOK /\ Places /\ Downed /\ \A j \in Jobs : Spent(j)

-----------------------------------------------------------------------------
LEMMA JobTypes ==
  /\ Nothing \notin JobType /\ Nothing \notin Jobs
  /\ \A a \in Nat, b \in BOOLEAN : [attempt |-> a, ripe |-> b] \in JobType
  /\ \A r \in JobType : r.attempt \in Nat
  /\ MaxRetries \in Nat /\ MaxCrashes \in Nat
  BY WebhookConstants DEF JobType

LEMMA QueueInitOK == QueueInit => QueueInv
<1> SUFFICES ASSUME QueueInit PROVE QueueInv
  OBVIOUS
<1>1. QueueTypeOK /\ At("idle")
  BY DEF QueueInit, QueueTypeOK, At
<1>2. \A j \in Jobs : JobRows(j) = {} /\ Tasks(j) = {} /\ ~InHand(j)
  BY <1>1 DEF QueueInit, JobRows, Tasks, InHand, At
<1>3. Places /\ Downed
  BY <1>1, <1>2 DEF QueueInit, Places, Downed, Placed, Nowhere
<1>4. \A j \in Jobs : Spent(j)
  BY JobTypes DEF QueueInit, Spent
<1> QED BY <1>1, <1>3, <1>4 DEF QueueInv

(* A job nothing happens to.                                               *)
LEMMA PlaceStill ==
  ASSUME NEW j, Placed(j), jobs'[j] = Nothing <=> jobs[j] = Nothing,
         JobRows(j)' = JobRows(j), Tasks(j)' = Tasks(j), InHand(j)' <=> InHand(j)
  PROVE  Placed(j)'
  BY DEF Placed, Nowhere, InIndex, InTask, InTheHand

(* A job that has come to the index or to a task.                          *)
LEMMA NowInIndex ==
  ASSUME NEW j, NEW k, JobRows(j)' = {k}, Tasks(j)' = {}, ~InHand(j)', jobs'[j] # Nothing
  PROVE  Placed(j)'
<1>1. \E x : JobRows(j)' = {x}
  OBVIOUS
<1> QED BY <1>1 DEF Placed, InIndex

LEMMA NowInTask ==
  ASSUME NEW j, NEW t, JobRows(j)' = {}, Tasks(j)' = {t}, ~InHand(j)', jobs'[j] # Nothing
  PROVE  Placed(j)'
<1>1. \E x : Tasks(j)' = {x}
  OBVIOUS
<1> QED BY <1>1 DEF Placed, InTask

LEMMA SpentStill ==
  ASSUME NEW j, Spent(j), jobs'[j] = jobs[j], posts'[j] = posts[j],
         crashes' = crashes, j \in asked' <=> j \in asked, Tasks(j)' = Tasks(j)
  PROVE  Spent(j)'
  BY DEF Spent

(* What the dispatcher does next, and whose job it has in hand.            *)
LEMMA DoesNothing ==
  ASSUME NEW s \in {"idle", "tick", "down"}, Does(s)
  PROVE  /\ doing'.at = s /\ \A j : ~InHand(j)'
         /\ doing' \in [at : {"idle", "tick", "launch", "index", "down"},
                        job : Jobs \cup {Nothing}]
  BY DEF Does, InHand, At

LEMMA DoesTake ==
  ASSUME NEW s \in {"launch", "index"}, NEW i \in Jobs, DoesWith(s, i)
  PROVE  /\ doing'.at = s /\ doing'.job = i /\ InHand(i)'
         /\ \A j : j # i => ~InHand(j)'
         /\ doing' \in [at : {"idle", "tick", "launch", "index", "down"},
                        job : Jobs \cup {Nothing}]
  BY DEF DoesWith, InHand, At

LEMMA HandAlone ==
  ASSUME At("idle") \/ At("tick") \/ At("down") PROVE \A j : ~InHand(j)
  BY DEF InHand, At

-----------------------------------------------------------------------------
LEMMA EnqueueOK ==
  ASSUME QueueInv, NEW i \in Jobs, Enqueue(i) PROVE QueueInv'
<1> USE DEF QueueInv
<1>1. /\ At("idle") /\ ~At("down") /\ i \notin asked /\ jobs[i] = Nothing
      /\ jobs' = [jobs EXCEPT ![i] = [attempt |-> 0, ripe |-> TRUE]]
      /\ UNCHANGED <<due, active, posts, crashes>> /\ asked' = asked \cup {i}
  BY DEF Enqueue, At, Spent
<1>2. doing'.at = "index" /\ doing'.job = i /\ InHand(i)' /\ \A j : j # i => ~InHand(j)'
  BY DoesTake DEF Enqueue
<1>11. /\ [attempt |-> 0, ripe |-> TRUE] \in JobType
       /\ jobs'[i] = [attempt |-> 0, ripe |-> TRUE]
  BY <1>1, JobTypes DEF QueueTypeOK
<1>3. QueueTypeOK'
  <2>1. jobs' \in [Jobs -> JobType \cup {Nothing}]
    BY <1>1, <1>11 DEF QueueTypeOK
  <2>2. doing' \in [at : {"idle", "tick", "launch", "index", "down"}, job : Jobs \cup {Nothing}]
    BY DoesTake DEF Enqueue
  <2> QED BY <1>1, <1>2, <2>1, <2>2 DEF QueueTypeOK, At
<1>4. jobs'[i].attempt = 0 /\ jobs'[i] # Nothing
      /\ \A j \in Jobs : j # i => jobs'[j] = jobs[j]
  BY <1>1, <1>11, JobTypes DEF QueueTypeOK
<1>5. \A j \in Jobs : JobRows(j)' = JobRows(j) /\ Tasks(j)' = Tasks(j) /\ ~InHand(j)
  BY <1>1, HandAlone DEF JobRows, Tasks
<1>6. \A j \in Jobs : Placed(j)
  BY <1>1 DEF Places
<1>7. Placed(i)'
  BY <1>1, <1>2, <1>4, <1>5, <1>6 DEF Placed, Nowhere, InTheHand
<1>8. ASSUME NEW j \in Jobs, j # i PROVE Placed(j)'
  <2>1. JobRows(j)' = JobRows(j) /\ Tasks(j)' = Tasks(j) /\ (InHand(j)' <=> InHand(j))
    BY <1>2, <1>5, <1>8
  <2> QED BY <1>4, <1>6, <1>8, <2>1, PlaceStill
<1>9. Spent(i)'
  BY <1>1, <1>4, <1>5, JobTypes DEF Spent, QueueTypeOK
<1>10. \A j \in Jobs : j # i => Spent(j)'
  BY <1>1, <1>4, <1>5, SpentStill
<1> QED BY <1>2, <1>3, <1>7, <1>8, <1>9, <1>10 DEF Places, Downed, At

LEMMA IndexOK ==
  ASSUME QueueInv, IndexJob PROVE QueueInv'
<1> USE DEF QueueInv
<1>0. PICK i \in Jobs : doing.job = i
  BY DEF IndexJob, QueueTypeOK
<1>1. /\ ~At("down") /\ i \in Jobs /\ InHand(i) /\ \A j : j # i => ~InHand(j)
      /\ due' = due \cup {<<i, jobs[i].attempt>>}
      /\ UNCHANGED <<jobs, asked, active, posts, crashes>>
  BY <1>0 DEF IndexJob, At, InHand
<1>2. doing'.at = "idle" /\ \A j : ~InHand(j)'
  BY DoesNothing DEF IndexJob
<1>3. Placed(i)
  BY <1>1 DEF Places
<1>4. /\ jobs[i] # Nothing /\ JobRows(i) = {} /\ Tasks(i) = {}
  BY <1>1, <1>3 DEF Placed, Nowhere, InIndex, InTask, InTheHand
<1>5. jobs[i].attempt \in Nat
  BY <1>1, <1>4, JobTypes DEF QueueTypeOK
<1>6. QueueTypeOK'
  BY <1>1, <1>2, <1>5, DoesNothing DEF IndexJob, QueueTypeOK, At
<1>7. JobRows(i)' = {<<i, jobs[i].attempt>>}
  <2>1. JobRows(i)' = JobRows(i) \cup {<<i, jobs[i].attempt>>}
    BY <1>1 DEF JobRows
  <2> QED BY <1>4, <2>1
<1>8. \A j \in Jobs : Tasks(j)' = Tasks(j) /\ (j # i => JobRows(j)' = JobRows(j))
  BY <1>1 DEF JobRows, Tasks
<1>9. Placed(i)'
  BY <1>1, <1>2, <1>4, <1>7, <1>8, NowInIndex
<1>10. ASSUME NEW j \in Jobs, j # i PROVE Placed(j)'
  <2>1. JobRows(j)' = JobRows(j) /\ Tasks(j)' = Tasks(j) /\ (InHand(j)' <=> InHand(j))
    BY <1>1, <1>2, <1>8, <1>10
  <2>2. Placed(j) /\ jobs'[j] = jobs[j]
    BY <1>1 DEF Places
  <2> QED BY <2>1, <2>2, PlaceStill
<1>11. \A j \in Jobs : Spent(j)'
  BY <1>1, <1>8, SpentStill
<1> QED BY <1>2, <1>6, <1>9, <1>10, <1>11 DEF Places, Downed, At

LEMMA TakeDueOK ==
  ASSUME QueueInv, NEW k \in due, TakeDue(k) PROVE QueueInv'
<1> USE DEF QueueInv
<1> DEFINE i == k[1]
<1>1. /\ ~At("down") /\ At("tick") /\ i \in Jobs /\ due' = due \ {k}
      /\ UNCHANGED <<jobs, asked, active, posts, crashes>> /\ DoesWith("launch", i)
  BY DEF TakeDue, At, QueueTypeOK
<1>2. k \in JobRows(i)
  BY DEF JobRows
<1>3. \A j \in Jobs : j # i => k \notin JobRows(j)
  BY DEF JobRows
<1> HIDE DEF i
<1>4. doing'.at = "launch" /\ doing'.job = i /\ InHand(i)' /\ \A j : j # i => ~InHand(j)'
  BY <1>1, DoesTake
<1>5. QueueTypeOK'
  BY <1>1, <1>4, DoesTake DEF QueueTypeOK, At
<1>6. \A j \in Jobs : Placed(j) /\ ~InHand(j)
  BY <1>1, HandAlone DEF Places
<1>7. jobs[i] # Nothing /\ JobRows(i) = {k} /\ Tasks(i) = {}
  BY <1>1, <1>2, <1>6 DEF Placed, Nowhere, InIndex, InTask, InTheHand
<1>8. \A j \in Jobs : JobRows(j)' = JobRows(j) \ {k} /\ Tasks(j)' = Tasks(j)
  BY <1>1 DEF JobRows, Tasks
<1>9. Placed(i)'
  BY <1>1, <1>4, <1>7, <1>8 DEF Placed, InTheHand
<1>10. ASSUME NEW j \in Jobs, j # i PROVE Placed(j)'
  <2>1. JobRows(j)' = JobRows(j) /\ Tasks(j)' = Tasks(j) /\ (InHand(j)' <=> InHand(j))
    BY <1>3, <1>4, <1>6, <1>8, <1>10
  <2>2. Placed(j) /\ jobs'[j] = jobs[j]
    BY <1>1, <1>6
  <2> QED BY <2>1, <2>2, PlaceStill
<1>11. \A j \in Jobs : Spent(j)'
  BY <1>1, <1>8, SpentStill
<1> QED BY <1>4, <1>5, <1>9, <1>10, <1>11 DEF Places, Downed, At

LEMMA LaunchOK ==
  ASSUME QueueInv, Launch PROVE QueueInv'
<1> USE DEF QueueInv
<1>0. PICK i \in Jobs : doing.job = i
  BY DEF Launch, QueueTypeOK
<1>1. ~At("down") /\ i \in Jobs /\ InHand(i) /\ \A j : j # i => ~InHand(j)
  BY <1>0 DEF Launch, At, InHand
<1>2. Placed(i)
  BY <1>1 DEF Places
<1>3. jobs[i] # Nothing /\ JobRows(i) = {} /\ Tasks(i) = {}
  BY <1>1, <1>2 DEF Placed, Nowhere, InIndex, InTask, InTheHand
<1>4. PICK task :
        /\ task = <<i, posts[i] + 1>>
        /\ posts' = [posts EXCEPT ![i] = @ + 1] /\ active' = active \cup {task}
        /\ UNCHANGED <<jobs, asked, due, crashes>>
  BY <1>0, <1>3 DEF Launch
<1>5. task \in Jobs \X Nat /\ task[1] = i
  BY <1>1, <1>4 DEF QueueTypeOK
<1>6. doing'.at = "tick" /\ \A j : ~InHand(j)'
  BY DoesNothing DEF Launch
<1>7. QueueTypeOK'
  BY <1>1, <1>4, <1>5, <1>6, DoesNothing DEF Launch, QueueTypeOK, At
<1>8. Tasks(i)' = {task} /\ JobRows(i)' = {}
  <2>1. Tasks(i)' = Tasks(i) \cup {task} /\ JobRows(i)' = JobRows(i)
    BY <1>4, <1>5 DEF Tasks, JobRows
  <2> QED BY <1>3, <2>1
<1>9. \A j \in Jobs : j # i => Tasks(j)' = Tasks(j) /\ JobRows(j)' = JobRows(j) /\ posts'[j] = posts[j]
  BY <1>4, <1>5 DEF Tasks, JobRows, QueueTypeOK
<1>10. Placed(i)'
  BY <1>3, <1>4, <1>6, <1>8, NowInTask
<1>11. ASSUME NEW j \in Jobs, j # i PROVE Placed(j)'
  <2>1. JobRows(j)' = JobRows(j) /\ Tasks(j)' = Tasks(j) /\ (InHand(j)' <=> InHand(j))
    BY <1>1, <1>6, <1>9, <1>11
  <2>2. Placed(j) /\ jobs'[j] = jobs[j]
    BY <1>1, <1>4 DEF Places
  <2> QED BY <2>1, <2>2, PlaceStill
<1>12. Spent(i)'
  <2>1. jobs[i].attempt \in Nat /\ posts[i] \in Nat /\ crashes \in Nat
    BY <1>1, <1>3, JobTypes DEF QueueTypeOK
  <2>2. /\ i \in asked /\ jobs[i].attempt <= MaxRetries
        /\ posts[i] <= jobs[i].attempt + crashes
    BY <1>1, <1>3 DEF Spent
  <2>3. posts'[i] = posts[i] + 1
    BY <1>1, <1>4 DEF QueueTypeOK
  <2>4. posts'[i] <= jobs[i].attempt + 1 + crashes /\ posts'[i] <= MaxRetries + 1 + crashes
    BY <2>1, <2>2, <2>3, JobTypes
  <2>5. Tasks(i)' # {} /\ i \in asked' /\ jobs' = jobs /\ crashes' = crashes
    BY <1>4, <1>8, <2>2
  <2> QED BY <2>2, <2>4, <2>5 DEF Spent
<1>13. \A j \in Jobs : j # i => Spent(j)'
  BY <1>4, <1>9, SpentStill
<1> QED BY <1>6, <1>7, <1>10, <1>11, <1>12, <1>13 DEF Places, Downed, At

LEMMA FinishOK ==
  ASSUME QueueInv, NEW task \in active, NEW v \in Verdicts, FinishJob(task, v)
  PROVE  QueueInv'
<1> USE DEF QueueInv
<1> DEFINE i == task[1]
<1>1. /\ ~At("down") /\ At("idle") /\ i \in Jobs /\ active' = active \ {task}
      /\ UNCHANGED <<asked, due, posts, crashes>>
  BY DEF FinishJob, At, QueueTypeOK
<1>2. task \in Tasks(i) /\ \A j \in Jobs : j # i => task \notin Tasks(j)
  BY DEF Tasks
<1>3. \A j \in Jobs : Placed(j) /\ ~InHand(j)
  BY <1>1, HandAlone DEF Places
<1>4. jobs[i] # Nothing /\ JobRows(i) = {} /\ Tasks(i) = {task}
  BY <1>1, <1>2, <1>3 DEF Placed, Nowhere, InIndex, InTask, InTheHand
<1>5. \/ /\ jobs[i].attempt < MaxRetries
         /\ jobs' = [jobs EXCEPT ![i] = [attempt |-> @.attempt + 1, ripe |-> FALSE]]
         /\ DoesWith("index", i)
      \/ jobs' = [jobs EXCEPT ![i] = Nothing] /\ UNCHANGED doing
  BY <1>4 DEF FinishJob
<1> HIDE DEF i
<1>6. /\ \A j \in Jobs : Tasks(j)' = Tasks(j) \ {task} /\ JobRows(j)' = JobRows(j)
      /\ Tasks(i)' = {}
  BY <1>1, <1>4 DEF Tasks, JobRows
<1>7. /\ jobs[i].attempt \in Nat /\ posts[i] \in Nat /\ crashes \in Nat
      /\ i \in asked /\ posts[i] <= jobs[i].attempt + 1 + crashes
      /\ posts[i] <= MaxRetries + 1 + crashes
  BY <1>1, <1>4, JobTypes DEF QueueTypeOK, Spent
<1>8. \A j \in Jobs : j # i => jobs'[j] = jobs[j]
  BY <1>5 DEF QueueTypeOK
<1>9. \A j \in Jobs : j # i => ~InHand(j)'
  BY <1>1, <1>3, <1>5, DoesTake DEF InHand, At
<1>10. \A j \in Jobs : j # i => Placed(j)' /\ Spent(j)'
  <2> SUFFICES ASSUME NEW j \in Jobs, j # i PROVE Placed(j)' /\ Spent(j)'
    OBVIOUS
  <2>1. Tasks(j)' = Tasks(j) /\ JobRows(j)' = JobRows(j)
    BY <1>2, <1>6
  <2>2. jobs'[j] = jobs[j] /\ (InHand(j)' <=> InHand(j)) /\ Placed(j) /\ Spent(j)
    BY <1>3, <1>8, <1>9
  <2>3. Placed(j)'
    BY <2>1, <2>2, PlaceStill
  <2>4. Spent(j)'
    BY <1>1, <2>1, <2>2, SpentStill
  <2> QED BY <2>3, <2>4
<1>11. CASE jobs' = [jobs EXCEPT ![i] = Nothing] /\ UNCHANGED doing
  <2>1. jobs'[i] = Nothing
    BY <1>1, <1>11 DEF QueueTypeOK
  <2>2. Placed(i)'
    BY <1>1, <1>3, <1>4, <1>6, <1>11, <2>1 DEF Placed, Nowhere, InHand, At
  <2>3. Spent(i)'
    BY <1>1, <1>7, <2>1 DEF Spent
  <2>4. QueueTypeOK' /\ ~At("down")'
    BY <1>1, <1>11 DEF QueueTypeOK, At
  <2> QED BY <1>10, <2>2, <2>3, <2>4 DEF Places, Downed
<1>12. ASSUME jobs[i].attempt < MaxRetries, DoesWith("index", i),
              jobs' = [jobs EXCEPT ![i] = [attempt |-> @.attempt + 1, ripe |-> FALSE]]
       PROVE  QueueInv'
  <2>1. jobs'[i] # Nothing /\ jobs'[i].attempt = jobs[i].attempt + 1
        /\ jobs'[i] \in JobType
    <3>1. jobs'[i] = [attempt |-> jobs[i].attempt + 1, ripe |-> FALSE]
      BY <1>1, <1>12 DEF QueueTypeOK
    <3>2. [attempt |-> jobs[i].attempt + 1, ripe |-> FALSE] \in JobType
      BY <1>7 DEF JobType
    <3>3. [attempt |-> jobs[i].attempt + 1, ripe |-> FALSE].attempt = jobs[i].attempt + 1
      OBVIOUS
    <3> QED BY <3>1, <3>2, <3>3, JobTypes
  <2>2. InHand(i)' /\ doing'.at = "index" /\ doing'.job = i
    BY <1>1, <1>12, DoesTake
  <2>3. Placed(i)'
    BY <1>1, <1>4, <1>6, <2>1, <2>2 DEF Placed, InTheHand
  <2>4. /\ posts[i] <= jobs'[i].attempt + crashes /\ jobs'[i].attempt <= MaxRetries
        /\ posts[i] <= jobs'[i].attempt + 1 + crashes
    BY <1>7, <1>12, <2>1, JobTypes
  <2>5. Spent(i)'
    BY <1>1, <1>7, <2>4 DEF Spent
  <2>6. QueueTypeOK'
    BY <1>1, <1>8, <1>12, <2>1, <2>2, DoesTake DEF QueueTypeOK, At
  <2> QED BY <1>10, <2>2, <2>3, <2>5, <2>6 DEF Places, Downed, At
<1> QED BY <1>5, <1>11, <1>12

LEMMA CrashOK ==
  ASSUME QueueInv, DispatcherStops PROVE QueueInv'
<1> USE DEF QueueInv
<1>1. /\ crashes' = crashes + 1 /\ active' = {} /\ UNCHANGED <<jobs, asked, due, posts>>
      /\ doing'.at = "down"
  BY DoesNothing DEF DispatcherStops
<1>2. QueueTypeOK'
  BY <1>1, DoesNothing DEF DispatcherStops, QueueTypeOK, At
<1>3. ASSUME NEW j \in Jobs PROVE Spent(j)'
  <2>1. posts[j] \in Nat /\ crashes \in Nat /\ (jobs[j] # Nothing => jobs[j].attempt \in Nat)
    BY JobTypes DEF QueueTypeOK
  <2> QED BY <1>1, <2>1, JobTypes DEF Spent
<1> QED BY <1>1, <1>2, <1>3 DEF Places, Downed, At

LEMMA StartOK ==
  ASSUME QueueInv, DispatcherStarts PROVE QueueInv'
<1> USE DEF QueueInv
<1>1. /\ due' = {<<j, jobs[j].attempt>> : j \in Stored} /\ active = {}
      /\ UNCHANGED <<jobs, asked, active, posts, crashes>>
  BY DEF DispatcherStarts, Downed
<1>2. doing'.at = "idle" /\ \A j : ~InHand(j)'
  BY DoesNothing DEF DispatcherStarts
<1>3. \A j \in Stored : j \in Jobs /\ jobs[j].attempt \in Nat
  BY JobTypes DEF Stored, QueueTypeOK
<1>4. QueueTypeOK'
  BY <1>1, <1>2, <1>3, DoesNothing DEF DispatcherStarts, QueueTypeOK, At
<1>5. ASSUME NEW j \in Jobs PROVE Placed(j)'
  <2>1. Tasks(j)' = {}
    BY <1>1 DEF Tasks
  <2>2. CASE jobs[j] = Nothing
    <3>1. JobRows(j)' = {}
      BY <1>1, <2>2 DEF JobRows, Stored
    <3> QED BY <1>1, <1>2, <2>1, <2>2, <3>1 DEF Placed, Nowhere
  <2>3. CASE jobs[j] # Nothing
    <3>1. JobRows(j)' = {<<j, jobs[j].attempt>>}
      BY <1>1, <2>3 DEF JobRows, Stored
    <3> QED BY <1>1, <1>2, <2>1, <2>3, <3>1 DEF Placed, InIndex
  <2> QED BY <2>2, <2>3
<1>6. \A j \in Jobs : Spent(j)'
  BY <1>1, SpentStill DEF Tasks
<1> QED BY <1>2, <1>4, <1>5, <1>6 DEF Places, Downed, At

(* Steps that move no job: the dispatcher turns, a task ends, time passes. *)
LEMMA RestOK ==
  ASSUME QueueInv, UNCHANGED <<asked, due, active, posts, crashes>>,
         jobs' \in [Jobs -> JobType \cup {Nothing}],
         \A j \in Jobs : /\ jobs'[j] = Nothing <=> jobs[j] = Nothing
                         /\ jobs[j] # Nothing => jobs'[j].attempt = jobs[j].attempt,
         \/ UNCHANGED doing
         \/ (At("idle") \/ At("tick")) /\ (Does("idle") \/ Does("tick"))
  PROVE  QueueInv'
<1> USE DEF QueueInv
<1>1. /\ \A j \in Jobs : JobRows(j)' = JobRows(j) /\ Tasks(j)' = Tasks(j)
      /\ \A j \in Jobs : InHand(j)' = InHand(j)
      /\ At("down")' = At("down")
  BY HandAlone, DoesNothing DEF JobRows, Tasks, InHand, At
<1>2. QueueTypeOK'
  BY DoesNothing DEF QueueTypeOK, At
<1>3. Places' /\ Downed'
  BY <1>1, PlaceStill DEF Places, Downed
<1>4. \A j \in Jobs : Spent(j)'
  BY <1>1 DEF Spent
<1> QED BY <1>2, <1>3, <1>4

LEMMA QueueInvNext == QueueInv /\ [QueueNext]_queueVars => QueueInv'
<1> SUFFICES ASSUME QueueInv, [QueueNext]_queueVars PROVE QueueInv'
  OBVIOUS
<1>1. jobs \in [Jobs -> JobType \cup {Nothing}]
  BY DEF QueueInv, QueueTypeOK
<1>2. ASSUME UNCHANGED <<jobs, asked, due, active, posts, crashes>>,
             \/ UNCHANGED doing
             \/ (At("idle") \/ At("tick")) /\ (Does("idle") \/ Does("tick"))
      PROVE  QueueInv'
  BY <1>1, <1>2, RestOK
<1>3. CASE Tick \/ TickEnds \/ UNCHANGED queueVars
  BY <1>2, <1>3 DEF Tick, TickEnds, queueVars
<1>4. ASSUME NEW task \in running, NEW v \in Verdicts, TaskEnds(task, v) PROVE QueueInv'
  BY <1>2, <1>4 DEF TaskEnds
<1>5. ASSUME NEW j \in Jobs, Ripen(j) PROVE QueueInv'
  <2>1. /\ jobs' = [jobs EXCEPT ![j].ripe = TRUE] /\ jobs[j] # Nothing /\ jobs[j] \in JobType
        /\ UNCHANGED <<asked, due, doing, active, posts, crashes>>
    BY <1>1, <1>5 DEF Ripen, Stored
  <2>2. /\ jobs'[j] \in JobType /\ jobs'[j].attempt = jobs[j].attempt
        /\ \A i \in Jobs : i # j => jobs'[i] = jobs[i]
        /\ jobs' \in [Jobs -> JobType \cup {Nothing}]
    BY <1>1, <2>1 DEF JobType
  <2> QED BY <2>1, <2>2, RestOK, JobTypes
<1> QED
  BY <1>3, <1>4, <1>5, EnqueueOK, IndexOK, TakeDueOK, LaunchOK, FinishOK, CrashOK, StartOK
     DEF QueueNext, DispatcherSteps

-----------------------------------------------------------------------------
(* A stored job is in one place and no other job is in any, whatever dies  *)
(* between two operations on the tables, and a job is posted once for each *)
(* attempt and at most once more for each restart                          *)
(* (webhook/dispatcher.ex:85-232).                                         *)
THEOREM JobsAreKept == QueueSpec => []JobsKept
<1>1. QueueInv => JobsKept
  <2> SUFFICES ASSUME QueueInv PROVE JobsKept
    OBVIOUS
  <2>1. ASSUME ~At("down"), NEW j \in Jobs
        PROVE  Cardinality(JobRows(j)) + Cardinality(Tasks(j)) + (IF InHand(j) THEN 1 ELSE 0)
                 = IF j \in Stored THEN 1 ELSE 0
    <3>1. Placed(j)
      BY <2>1 DEF QueueInv, Places
    <3>2. \A x : Cardinality({x}) = 1
      BY FS_Singleton
    <3>3. CASE jobs[j] = Nothing
      BY <2>1, <3>1, <3>3, FS_EmptySet DEF Placed, Nowhere, Stored
    <3>4. CASE jobs[j] # Nothing
      <4>1. InIndex(j) \/ InTask(j) \/ InTheHand(j)
        BY <3>1, <3>4 DEF Placed
      <4>2. j \in Stored /\ Cardinality({}) = 0
        BY <3>4, FS_EmptySet DEF Stored
      <4>3. CASE InIndex(j)
        <5>1. Cardinality(JobRows(j)) = 1 /\ Tasks(j) = {} /\ ~InHand(j)
          BY <3>2, <4>3 DEF InIndex
        <5> QED BY <4>2, <5>1
      <4>4. CASE InTask(j)
        <5>1. JobRows(j) = {} /\ Cardinality(Tasks(j)) = 1 /\ ~InHand(j)
          BY <3>2, <4>4 DEF InTask
        <5> QED BY <4>2, <5>1
      <4>5. CASE InTheHand(j)
        BY <4>2, <4>5 DEF InTheHand
      <4> QED BY <4>1, <4>3, <4>4, <4>5
    <3> QED BY <3>3, <3>4
  <2>2. \A j \in Stored : posts[j] <= jobs[j].attempt + 1 + crashes
    BY DEF QueueInv, Spent, Stored
  <2>3. \A j \in Jobs : posts[j] <= MaxRetries + 1 + crashes
    BY DEF QueueInv, Spent
  <2> QED BY <2>1, <2>2, <2>3 DEF JobsKept, JobRows, Tasks
<1> QED BY <1>1, QueueInitOK, QueueInvNext, PTL DEF QueueSpec

-----------------------------------------------------------------------------
(* The memory storage.                                                     *)
UseType == [at : UseSteps, row : Rows, limit : 0 .. MaxTime + 1]

(* The processes that are at one of some steps.                            *)
UsersAt(S) == {u \in Users : use[u].at \in S}

(* With those who have a slot and will store an event, the limit holds.    *)
Admitted == Cardinality(stored) + Cardinality(UsersAt({"insert"})) <= MaxMemoryEvents

(* Who is about to take a listing away does so from an event that is gone, *)
(* or from one whose listing is in doubt.                                  *)
Removers == {"clean", "unlist"}
Removing == \A u \in Users :
              use[u].at \in Removers => Row(u) \notin stored \/ Row(u) \in blurred

StorageInv == StorageTypeOK /\ EventsCounted /\ Admitted /\ EventsListed /\ Removing

-----------------------------------------------------------------------------
LEMMA IdleType == Idle \in UseType /\ Idle.at = "idle"
<1>1. (CHOOSE i \in Ids : TRUE) \in Ids
  BY StorageConstants
<1>2. 0 \in 0 .. MaxTime /\ 0 \in 0 .. MaxTime + 1
  BY StorageConstants
<1> QED BY <1>1, <1>2 DEF Idle, UseType, UseSteps, Rows

LEMMA StoredFinite ==
  ASSUME NEW S \in SUBSET Rows
  PROVE  IsFiniteSet(S) /\ Cardinality(S) \in Nat
<1>1. IsFiniteSet(0 .. MaxTime)
  BY StorageConstants, FS_Interval
<1>2. IsFiniteSet(Rows)
  BY <1>1, StorageConstants, FS_Product DEF Rows
<1> QED BY <1>2, FS_Subset, FS_CardinalityType

LEMMA UsersFinite ==
  ASSUME NEW S
  PROVE  IsFiniteSet(UsersAt(S)) /\ Cardinality(UsersAt(S)) \in Nat
  BY StorageConstants, FS_Subset, FS_CardinalityType DEF UsersAt

(* One process takes a step; the others stay where they are.               *)
Steps(u, from, to) ==
  /\ use[u].at = from /\ use'[u].at = to
  /\ use' \in [Users -> UseType] /\ \A v \in Users \ {u} : use'[v] = use[v]

LEMMA StepGoes ==
  ASSUME StorageTypeOK, NEW u \in Users, NEW from, NEW to \in UseSteps, use[u].at = from
  PROVE  /\ GoesTo(u, to) =>
              Steps(u, from, to) /\ Row(u)' = Row(u)
         /\ \A r \in Rows : GoesWith(u, to, r) => Steps(u, from, to) /\ Row(u)' = r
         /\ Ends(u) => Steps(u, from, "idle")
<1>1. use \in [Users -> UseType]
  BY DEF StorageTypeOK, UseType
<1>2. ASSUME GoesTo(u, to) PROVE Steps(u, from, to) /\ Row(u)' = Row(u)
  BY <1>1, <1>2 DEF GoesTo, Steps, Row, UseType
<1>3. ASSUME NEW r \in Rows, GoesWith(u, to, r) PROVE Steps(u, from, to) /\ Row(u)' = r
  BY <1>1, <1>3 DEF GoesWith, Steps, Row, UseType
<1>4. ASSUME Ends(u) PROVE Steps(u, from, "idle")
  BY <1>1, <1>4, IdleType DEF Ends, Steps
<1> QED BY <1>2, <1>3, <1>4

LEMMA StepPrune ==
  ASSUME StorageTypeOK, NEW u \in Users, NEW t \in 1 .. MaxTime + 1, Prune(u, t)
  PROVE  Steps(u, "idle", "prune")
<1>1. t \in 0 .. MaxTime + 1
  BY StorageConstants
<1>2. use \in [Users -> UseType] /\ use[u] \in UseType
  BY DEF StorageTypeOK, UseType
<1> DEFINE new == [use[u] EXCEPT !.at = "prune", !.limit = t]
<1>3. new \in UseType /\ new.at = "prune"
  BY <1>1, <1>2 DEF UseType, UseSteps
<1>4. use' = [use EXCEPT ![u] = new] /\ use[u].at = "idle"
  BY <1>2 DEF Prune, Takes, UseIs
<1> QED BY <1>2, <1>3, <1>4 DEF Steps

(* The number of processes at some steps follows the one that moves.       *)
LEMMA AtMoves ==
  ASSUME NEW u \in Users, NEW from, NEW to, Steps(u, from, to), NEW S
  PROVE  Cardinality(UsersAt(S)') =
           Cardinality(UsersAt(S)) + (IF to \in S THEN 1 ELSE 0) - (IF from \in S THEN 1 ELSE 0)
<1> DEFINE A == UsersAt(S)  B == UsersAt(S)'
<1>1. IsFiniteSet(A) /\ Cardinality(A) \in Nat
  BY UsersFinite
<1>2. CASE (to \in S) <=> (from \in S)
  <2>1. B = A
    BY <1>2 DEF Steps, UsersAt
  <2> QED BY <1>1, <1>2, <2>1
<1>3. CASE to \in S /\ from \notin S
  <2>1. B = A \cup {u} /\ u \notin A
    BY <1>3 DEF Steps, UsersAt
  <2>2. Cardinality(B) = Cardinality(A) + 1
    BY <1>1, <2>1, FS_AddElement
  <2> QED BY <1>1, <1>3, <2>2
<1>4. CASE to \notin S /\ from \in S
  <2>1. B = A \ {u} /\ u \in A
    BY <1>4 DEF Steps, UsersAt
  <2>2. Cardinality(B) = Cardinality(A) - 1
    BY <1>1, <2>1, FS_RemoveElement
  <2> QED BY <1>1, <1>4, <2>2
<1> QED BY <1>2, <1>3, <1>4

LEMMA StoreAdds ==
  ASSUME StorageTypeOK, NEW r \in Rows, r \notin stored
  PROVE  Cardinality(stored \cup {r}) = Cardinality(stored) + 1
  BY StoredFinite, FS_AddElement DEF StorageTypeOK

LEMMA StoreTakes ==
  ASSUME StorageTypeOK, NEW r \in stored
  PROVE  Cardinality(stored \ {r}) = Cardinality(stored) - 1
  BY StoredFinite, FS_RemoveElement DEF StorageTypeOK

(* There is one row for an id.                                             *)
LEMMA OneOwner ==
  ASSUME StorageTypeOK, NEW r \in stored PROVE Owner(r[1]) = {r}
  BY DEF StorageTypeOK, Owner

-----------------------------------------------------------------------------
(* The accounts, in numbers: events, holders of slots, and inserters.      *)
Held    == Cardinality(UsersAt(HoldSteps))
Joining == Cardinality(UsersAt({"insert"}))
Number  == Cardinality(stored)

LEMMA Numbers ==
  /\ Held \in Nat /\ Held' \in Nat /\ Joining \in Nat /\ Joining' \in Nat
  /\ StorageTypeOK => Number \in Nat
  /\ stored' \subseteq Rows => Number' \in Nat
  /\ EventsCounted <=> events = Number + Held + spilled
  /\ EventsCounted' <=> events' = Number' + Held' + spilled'
  /\ Admitted <=> Number + Joining <= MaxMemoryEvents
  /\ Admitted' <=> Number' + Joining' <= MaxMemoryEvents
<1>1. SlotHolders = UsersAt(HoldSteps) /\ SlotHolders' = UsersAt(HoldSteps)'
  BY DEF SlotHolders, UsersAt, HoldSteps
<1>2. /\ Held \in Nat /\ Joining \in Nat
      /\ Cardinality(UsersAt(HoldSteps)') \in Nat /\ Cardinality(UsersAt({"insert"})') \in Nat
  BY UsersFinite, StorageConstants, FS_Subset, FS_CardinalityType DEF Held, Joining, UsersAt
<1>3. StorageTypeOK => Number \in Nat
  BY StoredFinite DEF StorageTypeOK, Number
<1>4. stored' \subseteq Rows => Number' \in Nat
  BY StoredFinite DEF Number
<1> QED
  BY <1>1, <1>2, <1>3, <1>4 DEF Held, Joining, Number, EventsCounted, Admitted

(* How many of them a step makes or ends.                                  *)
Is(b) == IF b THEN 1 ELSE 0
LEMMA HeldMoves ==
  ASSUME NEW u \in Users, NEW from, NEW to, Steps(u, from, to)
  PROVE  /\ Held' = Held + Is(to \in HoldSteps) - Is(from \in HoldSteps)
         /\ Joining' = Joining + Is(to = "insert") - Is(from = "insert")
  BY AtMoves DEF Held, Joining, Is

(* What an action does to them.  Nothing, a slot more, or a slot less.     *)
Counts == events \in Nat /\ spilled \in Nat /\ EventsCounted /\ Admitted

LEMMA Unmoved ==
  ASSUME StorageTypeOK, EventsCounted, Admitted, stored' = stored, events' = events,
         spilled' = spilled, Held' = Held, Joining' = Joining
  PROVE  Counts'
  BY Numbers DEF StorageTypeOK, Counts, Number

LEMMA Stays ==
  ASSUME StorageTypeOK, EventsCounted, Admitted, stored' = stored, events' = events,
         spilled' = spilled, NEW u \in Users, NEW from, NEW to, Steps(u, from, to),
         from \in HoldSteps <=> to \in HoldSteps, from # "insert", to # "insert"
  PROVE  Counts'
<1>1. Held \in Nat /\ Joining \in Nat
  BY Numbers
<1>2. Held' = Held /\ Joining' = Joining
  BY <1>1, HeldMoves DEF Is
<1> QED BY <1>2, Unmoved

(* The steps at which a process has no slot to give.                       *)
FreeSteps == {"idle", "reserve", "recheck", "repair", "list", "page", "look", "clean",
              "prune", "take"}

LEMMA CountAppend ==
  ASSUME StorageTypeOK, EventsCounted, Admitted, NEW u \in Users,
         ReserveEvent(u) \/ UndoEvent(u) \/ InsertEvent(u)
  PROVE  Counts'
<1> USE DEF HoldSteps, UseSteps
<1>0. /\ Number \in Nat /\ Held \in Nat /\ Joining \in Nat /\ Held' \in Nat /\ Joining' \in Nat
      /\ events \in Nat /\ spilled \in Nat /\ MaxMemoryEvents \in Nat
      /\ events = Number + Held + spilled /\ Number + Joining <= MaxMemoryEvents
  BY Numbers, StorageConstants DEF StorageTypeOK
<1>1. CASE ReserveEvent(u) /\ events + 1 <= MaxMemoryEvents
  <2>1. Steps(u, "reserve", "insert")
    BY <1>1, StepGoes DEF ReserveEvent, UseIs
  <2>2. Held' = Held + 1 /\ Joining' = Joining + 1
    BY <1>0, <2>1, HeldMoves DEF Is
  <2>3. events' = events + 1 /\ spilled' = spilled /\ Number' = Number
    BY <1>1 DEF ReserveEvent, Number
  <2>4. Joining' <= Held'
    <3>1. UsersAt({"insert"})' \subseteq UsersAt(HoldSteps)' /\ IsFiniteSet(UsersAt(HoldSteps)')
      BY StorageConstants, FS_Subset DEF UsersAt
    <3> QED BY <3>1, FS_Subset DEF Held, Joining
  <2>5. EventsCounted' /\ events' \in Nat /\ spilled' \in Nat
    BY <1>0, <2>2, <2>3, Numbers
  <2>6. Admitted'
    BY <1>0, <1>1, <2>2, <2>3, <2>4, Numbers
  <2> QED BY <2>5, <2>6 DEF Counts
<1>2. CASE ReserveEvent(u) /\ ~(events + 1 <= MaxMemoryEvents)
  <2>1. Steps(u, "reserve", "undo")
    BY <1>2, StepGoes DEF ReserveEvent, UseIs
  <2>2. Held' = Held + 1 /\ Joining' = Joining
    BY <1>0, <2>1, HeldMoves DEF Is
  <2>3. events' = events + 1 /\ spilled' = spilled /\ Number' = Number
    BY <1>2 DEF ReserveEvent, Number
  <2> QED BY <1>0, <2>2, <2>3, Numbers DEF Counts
<1>3. CASE UndoEvent(u)
  <2>1. Steps(u, "undo", "recheck")
    BY <1>3, StepGoes DEF UndoEvent, UseIs
  <2>2. Held' = Held - 1 /\ Joining' = Joining
    BY <1>0, <2>1, HeldMoves DEF Is
  <2>3. events' = events - 1 /\ spilled' = spilled /\ Number' = Number
    BY <1>3 DEF UndoEvent, Number
  <2> QED BY <1>0, <2>2, <2>3, Numbers DEF Counts
<1>4. CASE InsertEvent(u) /\ Owner(Row(u)[1]) = {}
  <2>1. Steps(u, "insert", "list")
    BY <1>4, StepGoes DEF InsertEvent, UseIs, ListSteps
  <2>2. Held' = Held - 1 /\ Joining' = Joining - 1
    BY <1>0, <2>1, HeldMoves DEF Is
  <2>3. Row(u) \in Rows /\ Row(u) \notin stored
    BY <1>4 DEF StorageTypeOK, Row, Owner
  <2>4. Number' = Number + 1
    BY <1>4, <2>3, StoreAdds DEF InsertEvent, Number
  <2>5. events' = events /\ spilled' = spilled
    BY <1>4 DEF InsertEvent
  <2> QED BY <1>0, <2>2, <2>4, <2>5, Numbers DEF Counts
<1>5. CASE InsertEvent(u) /\ Owner(Row(u)[1]) # {}
  <2>1. Steps(u, "insert", "giveback")
    BY <1>5, StepGoes DEF InsertEvent, UseIs
  <2>2. Held' = Held /\ Joining' = Joining - 1
    BY <1>0, <2>1, HeldMoves DEF Is
  <2>3. events' = events /\ spilled' = spilled /\ Number' = Number
    BY <1>5 DEF InsertEvent, Number
  <2> QED BY <1>0, <2>2, <2>3, Numbers DEF Counts
<1> QED BY <1>1, <1>2, <1>3, <1>4, <1>5

LEMMA CountRemoval ==
  ASSUME StorageTypeOK, EventsCounted, Admitted, NEW u \in Users,
         GiveEvent(u) \/ TakeOwner(u) \/ Die(u) \/ \E r \in Rows : DeleteEvent(u, r)
  PROVE  Counts'
<1> USE DEF HoldSteps, UseSteps, ListSteps
<1>0. /\ Number \in Nat /\ Held \in Nat /\ Joining \in Nat /\ Held' \in Nat /\ Joining' \in Nat
      /\ events \in Nat /\ spilled \in Nat /\ MaxMemoryEvents \in Nat
      /\ events = Number + Held + spilled /\ Number + Joining <= MaxMemoryEvents
  BY Numbers, StorageConstants DEF StorageTypeOK
<1>1. CASE GiveEvent(u)
  <2>1. PICK from \in {"giveback", "release", "pruned"}, to \in {"repair", "idle", "prune"} :
          Steps(u, from, to)
    BY <1>1, StepGoes DEF GiveEvent, UseIs
  <2>2. Held' = Held - 1 /\ Joining' = Joining
    BY <1>0, <2>1, HeldMoves DEF Is
  <2>3. events' = events - 1 /\ spilled' = spilled /\ Number' = Number
    BY <1>0, <1>1, <2>2 DEF GiveEvent, Number
  <2> QED BY <1>0, <2>2, <2>3, Numbers DEF Counts
<1>2. ASSUME NEW r \in Rows, DeleteEvent(u, r) PROVE Counts'
  <2>1. Steps(u, "idle", "unlist")
    BY <1>2, StepGoes DEF DeleteEvent, Takes, UseIs
  <2>2. Held' = Held + 1 /\ Joining' = Joining
    BY <1>0, <2>1, HeldMoves DEF Is
  <2>3. Number' = Number - 1
    BY <1>2, StoreTakes DEF DeleteEvent, Number
  <2>4. Number' \in Nat
    BY <1>2, Numbers DEF DeleteEvent, StorageTypeOK
  <2>5. events' = events /\ spilled' = spilled
    BY <1>2 DEF DeleteEvent
  <2> QED BY <1>0, <2>2, <2>3, <2>4, <2>5, Numbers DEF Counts
<1>3. CASE TakeOwner(u) /\ Row(u) \in stored
  <2>1. Steps(u, "take", "pruned")
    BY <1>3, StepGoes DEF TakeOwner, UseIs
  <2>2. Held' = Held + 1 /\ Joining' = Joining
    BY <1>0, <2>1, HeldMoves DEF Is
  <2>3. stored' = stored \ {Row(u)}
    BY <1>3, OneOwner DEF TakeOwner
  <2>4. Number' = Number - 1 /\ Number' \in Nat
    BY <1>3, <2>3, StoreTakes, Numbers DEF Number, StorageTypeOK
  <2>5. events' = events /\ spilled' = spilled
    BY <1>3 DEF TakeOwner
  <2> QED BY <1>0, <2>2, <2>4, <2>5, Numbers DEF Counts
<1>4. CASE TakeOwner(u) /\ Row(u) \notin stored
  <2>1. Steps(u, "take", "prune")
    BY <1>4, StepGoes DEF TakeOwner, UseIs
  <2>2. Held' = Held /\ Joining' = Joining
    BY <1>0, <2>1, HeldMoves DEF Is
  <2>3. CASE Owner(Row(u)[1]) = {}
    <3>1. stored' = stored /\ events' = events /\ spilled' = spilled
      BY <1>4, <2>3 DEF TakeOwner
    <3> QED BY <2>2, <3>1, Unmoved
  <2>4. CASE Owner(Row(u)[1]) # {}
    <3>1. PICK r \in stored : r[1] = Row(u)[1]
      BY <2>4 DEF Owner
    <3>2. stored' = stored \ {r}
      BY <1>4, <3>1, OneOwner DEF TakeOwner
    <3>3. Number' = Number - 1 /\ Number' \in Nat
      BY <3>2, StoreTakes, Numbers DEF Number, StorageTypeOK
    <3>4. events' = events /\ spilled' = spilled + 1
      BY <1>4, <2>4 DEF TakeOwner
    <3> QED BY <1>0, <2>2, <3>3, <3>4, Numbers DEF Counts
  <2> QED BY <2>3, <2>4
<1>5. CASE Die(u)
  <2>1. PICK from \in UseSteps : use[u].at = from
    BY DEF StorageTypeOK
  <2>2. Steps(u, from, "dead")
    BY <1>5, <2>1, StepGoes DEF Die
  <2>3. /\ Held' = Held - Is(from \in HoldSteps)
        /\ Joining' = Joining - Is(from = "insert")
    BY <1>0, <2>2, HeldMoves DEF Is
  <2>4. /\ events' = events /\ Number' = Number
        /\ spilled' = spilled + Is(from \in HoldSteps)
    BY <1>0, <1>5, <2>1 DEF Die, tables, Number, Is
  <2>5. Is(from \in HoldSteps) \in Nat /\ Is(from = "insert") \in Nat
    BY DEF Is
  <2> HIDE DEF HoldSteps
  <2> QED BY <1>0, <2>3, <2>4, <2>5, Numbers DEF Counts
<1> QED BY <1>1, <1>2, <1>3, <1>4, <1>5

LEMMA CountsNext ==
  ASSUME StorageTypeOK, EventsCounted, Admitted, [StorageNext]_storageVars
  PROVE  Counts'
<1> USE DEF HoldSteps, UseSteps, ListSteps
<1>1. ASSUME NEW u \in Users, NEW i \in Ids, AppendEvent(u, i) PROVE Counts'
  <2>1. <<i, clock>> \in Rows
    BY DEF StorageTypeOK, Rows
  <2>2. PICK to \in {"reserve", "repair"} : Steps(u, "idle", to)
    BY <1>1, <2>1, StepGoes DEF AppendEvent, Takes, UseIs
  <2> QED BY <1>1, <2>2, Stays DEF AppendEvent, tables
<1>2. ASSUME NEW u \in Users, RecheckId(u) PROVE Counts'
  <2>1. PICK to \in {"idle", "repair"} : Steps(u, "recheck", to)
    BY <1>2, StepGoes DEF RecheckId, UseIs
  <2> QED BY <1>2, <2>1, Stays DEF RecheckId, tables
<1>3. ASSUME NEW u \in Users, ListEvent(u) PROVE Counts'
  <2>1. Steps(u, "list", "idle")
    BY <1>3, StepGoes DEF ListEvent, UseIs
  <2> QED BY <1>3, <2>1, Stays DEF ListEvent
<1>4. ASSUME NEW u \in Users, RepairListing(u) PROVE Counts'
  <2>1. \A r \in Owner(Row(u)[1]) : r \in Rows
    BY DEF Owner, StorageTypeOK
  <2>2. PICK to \in {"idle", "list"} : Steps(u, "repair", to)
    BY <1>4, <2>1, StepGoes DEF RepairListing, UseIs
  <2> QED BY <1>4, <2>2, Stays DEF RepairListing, tables
<1>5. ASSUME NEW u \in Users, UnlistEvent(u) PROVE Counts'
  <2>1. Steps(u, "unlist", "release")
    BY <1>5, StepGoes DEF UnlistEvent, UseIs
  <2> QED BY <1>5, <2>1, Stays DEF UnlistEvent
<1>6. ASSUME NEW u \in Users, NEW t \in 1 .. MaxTime + 1, Prune(u, t) PROVE Counts'
  <2>1. Steps(u, "idle", "prune")
    BY <1>6, StepPrune
  <2> QED BY <1>6, <2>1, Stays DEF Prune, tables
<1>7. ASSUME NEW u \in Users, NEW r \in Rows, TakeListed(u, r) PROVE Counts'
  <2>1. Steps(u, "prune", "take")
    BY <1>7, StepGoes DEF TakeListed, UseIs
  <2> QED BY <1>7, <2>1, Stays DEF TakeListed
<1>8. ASSUME NEW u \in Users, Page(u) PROVE Counts'
  <2>1. Steps(u, "idle", "page")
    BY <1>8, StepGoes DEF Page, Takes, UseIs
  <2> QED BY <1>8, <2>1, Stays DEF Page, tables
<1>9. ASSUME NEW u \in Users, NEW r \in Rows, SeeListed(u, r) PROVE Counts'
  <2>1. Steps(u, "page", "look")
    BY <1>9, StepGoes DEF SeeListed, UseIs
  <2> QED BY <1>9, <2>1, Stays DEF SeeListed, tables
<1>10. ASSUME NEW u \in Users, LookUp(u) PROVE Counts'
  <2>1. PICK to \in {"page", "clean"} : Steps(u, "look", to)
    BY <1>10, StepGoes DEF LookUp, UseIs
  <2> QED BY <1>10, <2>1, Stays DEF LookUp, tables
<1>11. ASSUME NEW u \in Users, Clean(u) PROVE Counts'
  <2>1. Steps(u, "clean", "page")
    BY <1>11, StepGoes DEF Clean, UseIs
  <2> QED BY <1>11, <2>1, Stays DEF Clean
<1>12. ASSUME NEW u \in Users, WalkEnds(u) PROVE Counts'
  <2>1. PICK from \in {"page", "prune"} : Steps(u, from, "idle")
    BY <1>12, StepGoes DEF WalkEnds, UseIs
  <2> QED BY <1>12, <2>1, Stays DEF WalkEnds, tables
<1>13. ASSUME UNCHANGED <<tables, use, spilled>> PROVE Counts'
  <2>1. Held' = Held /\ Joining' = Joining
    BY <1>13 DEF Held, Joining, UsersAt
  <2> QED BY <1>13, <2>1, Unmoved DEF tables
<1> QED
  BY <1>1, <1>2, <1>3, <1>4, <1>5, <1>6, <1>7, <1>8, <1>9, <1>10, <1>11, <1>12, <1>13,
     CountAppend, CountRemoval DEF StorageNext, ClockTicks, storageVars

-----------------------------------------------------------------------------
(* The tables keep their types, and one row for an id.                     *)
TablesOK ==
  /\ stored \subseteq Rows /\ listed \subseteq Rows /\ blurred \subseteq Rows
  /\ \A r, s \in stored : r[1] = s[1] => r = s

LEMMA TablesNext ==
  ASSUME StorageTypeOK, [StorageNext]_storageVars PROVE TablesOK'
<1> USE DEF StorageTypeOK
<1>0. TablesOK /\ \A u \in Users : Row(u) \in Rows
  BY DEF TablesOK, Row
<1>1. ASSUME stored' \subseteq stored, listed' \subseteq listed,
             \A r \in blurred' : r \in Rows
      PROVE  TablesOK'
  BY <1>1 DEF TablesOK
<1>2. ASSUME NEW u \in Users, InsertEvent(u) PROVE TablesOK'
  BY <1>0, <1>2 DEF InsertEvent, TablesOK, Owner
<1>3. ASSUME NEW u \in Users, ListEvent(u) PROVE TablesOK'
  BY <1>0, <1>3 DEF ListEvent, TablesOK
<1>4. ASSUME NEW u \in Users, Die(u) PROVE TablesOK'
  BY <1>0, <1>1, <1>4 DEF Die, tables
<1>5. ASSUME NEW u \in Users, TakeOwner(u) PROVE TablesOK'
  BY <1>1, <1>5 DEF TakeOwner
<1>6. ASSUME NEW u \in Users, UnlistEvent(u) \/ Clean(u) PROVE TablesOK'
  BY <1>1, <1>6 DEF UnlistEvent, Clean
<1>7. ASSUME NEW u \in Users, NEW r \in Rows, DeleteEvent(u, r) \/ TakeListed(u, r)
      PROVE  TablesOK'
  BY <1>1, <1>7 DEF DeleteEvent, TakeListed
<1>8. ASSUME UNCHANGED <<stored, listed, blurred>> PROVE TablesOK'
  BY <1>0, <1>8 DEF TablesOK
<1> QED
  BY <1>2, <1>3, <1>4, <1>5, <1>6, <1>7, <1>8
     DEF StorageNext, storageVars, tables, AppendEvent, ReserveEvent, UndoEvent, RecheckId,
         RepairListing, GiveEvent, Prune, SeeListed, Page, LookUp, WalkEnds, ClockTicks

LEMMA UsesNext ==
  ASSUME StorageTypeOK, [StorageNext]_storageVars
  PROVE  /\ clock' \in 0 .. MaxTime /\ {dead', uses'} \subseteq Nat
         /\ use' \in [Users -> UseType]
<1> USE DEF HoldSteps, UseSteps, ListSteps
<1>1. use \in [Users -> UseType] /\ \A r \in stored : r \in Rows
  BY DEF StorageTypeOK, UseType
<1>2. ASSUME NEW u \in Users, NEW i \in Ids, AppendEvent(u, i)
      PROVE  use' \in [Users -> UseType]
  <2>1. <<i, clock>> \in Rows
    BY DEF StorageTypeOK, Rows
  <2> QED BY <1>2, <2>1, StepGoes DEF AppendEvent, Takes, UseIs, Steps
<1>3. ASSUME NEW u \in Users,
             ReserveEvent(u) \/ UndoEvent(u) \/ RecheckId(u) \/ InsertEvent(u) \/ ListEvent(u)
      PROVE  use' \in [Users -> UseType]
  BY <1>3, StepGoes
     DEF ReserveEvent, UndoEvent, RecheckId, InsertEvent, ListEvent, UseIs, Steps
<1>4. ASSUME NEW u \in Users, RepairListing(u) PROVE use' \in [Users -> UseType]
  BY <1>1, <1>4, StepGoes DEF RepairListing, UseIs, Steps, Owner
<1>5. ASSUME NEW u \in Users, UnlistEvent(u) \/ GiveEvent(u) \/ TakeOwner(u)
      PROVE  use' \in [Users -> UseType]
  BY <1>5, StepGoes DEF UnlistEvent, GiveEvent, TakeOwner, UseIs, Steps
<1>6. ASSUME NEW u \in Users, NEW r \in Rows,
             DeleteEvent(u, r) \/ TakeListed(u, r) \/ SeeListed(u, r)
      PROVE  use' \in [Users -> UseType]
  BY <1>6, StepGoes DEF DeleteEvent, TakeListed, SeeListed, Takes, UseIs, Steps
<1>7. ASSUME NEW u \in Users, NEW t \in 1 .. MaxTime + 1, Prune(u, t)
      PROVE  use' \in [Users -> UseType]
  BY <1>7, StepPrune DEF Steps
<1>8. ASSUME NEW u \in Users, Page(u) \/ LookUp(u) \/ Clean(u) \/ WalkEnds(u)
      PROVE  use' \in [Users -> UseType]
  BY <1>8, StepGoes DEF Page, LookUp, Clean, WalkEnds, Takes, UseIs, Steps
<1>9. ASSUME NEW u \in Users, Die(u) PROVE use' \in [Users -> UseType]
  BY <1>9, StepGoes DEF Die, Steps
<1>10. use' \in [Users -> UseType]
  BY <1>1, <1>2, <1>3, <1>4, <1>5, <1>6, <1>7, <1>8, <1>9
     DEF StorageNext, storageVars, ClockTicks
<1>11. clock' \in 0 .. MaxTime
  <2>1. CASE ClockTicks
    BY <2>1, StorageConstants DEF ClockTicks, StorageTypeOK
  <2>2. CASE UNCHANGED clock
    BY <2>2 DEF StorageTypeOK
  <2> QED
    BY <2>1, <2>2
       DEF StorageNext, storageVars, tables, AppendEvent, ReserveEvent, UndoEvent,
           RecheckId, InsertEvent, ListEvent, RepairListing, UnlistEvent, GiveEvent, TakeOwner,
           DeleteEvent, TakeListed, SeeListed, Prune, Page, LookUp, Clean, WalkEnds, Die
<1>12. (dead' = dead \/ dead' = dead + 1) /\ (uses' = uses \/ uses' = uses + 1)
  BY DEF StorageNext, storageVars, tables, AppendEvent, ReserveEvent, UndoEvent,
         RecheckId, InsertEvent, ListEvent, RepairListing, UnlistEvent, GiveEvent, TakeOwner,
         DeleteEvent, TakeListed, SeeListed, Prune, Page, LookUp, Clean, WalkEnds, Die, Takes,
         ClockTicks
<1>13. {dead', uses'} \subseteq Nat
  BY <1>12 DEF StorageTypeOK
<1> QED BY <1>10, <1>11, <1>13

LEMMA TypeNext ==
  ASSUME StorageTypeOK, EventsCounted, Admitted, [StorageNext]_storageVars
  PROVE  StorageTypeOK'
<1>1. Counts' /\ TablesOK'
  BY CountsNext, TablesNext
<1>2. clock' \in 0 .. MaxTime /\ {dead', uses'} \subseteq Nat /\ use' \in [Users -> UseType]
  BY UsesNext
<1> QED BY <1>1, <1>2 DEF StorageTypeOK, Counts, TablesOK, UseType

-----------------------------------------------------------------------------
(* Listings.  Who can excuse a stored event that is not listed.            *)
Excused(r) == r \in listed \/ r \in blurred
              \/ \E u \in Users : use[u].at \in ListSteps /\ Row(u) = r

Listing == (\A r \in stored : Excused(r)) /\ Removing

LEMMA ListingStays ==
  ASSUME Listing, stored' \subseteq stored, listed \subseteq listed', blurred \subseteq blurred',
         NEW u \in Users, \A v \in Users \ {u} : use'[v] = use[v],
         use[u].at \in ListSteps => Row(u) \notin stored',
         use'[u].at \in Removers => Row(u)' \notin stored'
  PROVE  Listing'
<1>1. \A r \in stored' : Excused(r)'
  BY DEF Listing, Excused, Row
<1>2. Removing'
  BY DEF Listing, Removing, Row
<1> QED BY <1>1, <1>2 DEF Listing

LEMMA ListingNext ==
  ASSUME StorageTypeOK, Listing, [StorageNext]_storageVars
  PROVE  Listing'
<1> USE DEF HoldSteps, ListSteps, Removers, UseSteps
<1>1. ASSUME NEW u \in Users, NEW from, NEW to, Steps(u, from, to), UNCHANGED <<stored, listed, blurred>>,
             from \notin ListSteps, to \notin Removers
      PROVE  Listing'
  BY <1>1, ListingStays DEF Steps
<1>2. ASSUME NEW u \in Users, NEW i \in Ids, AppendEvent(u, i) PROVE Listing'
  <2>1. <<i, clock>> \in Rows
    BY DEF StorageTypeOK, Rows
  <2> QED BY <1>1, <1>2, <2>1, StepGoes DEF AppendEvent, Takes, UseIs, tables
<1>3. ASSUME NEW u \in Users, ReserveEvent(u) \/ UndoEvent(u) \/ RecheckId(u) PROVE Listing'
  BY <1>1, <1>3, StepGoes DEF ReserveEvent, UndoEvent, RecheckId, UseIs, tables
<1>4. ASSUME NEW u \in Users, InsertEvent(u), Owner(Row(u)[1]) # {} PROVE Listing'
  BY <1>1, <1>4, StepGoes DEF InsertEvent, UseIs
<1>5. ASSUME NEW u \in Users, InsertEvent(u), Owner(Row(u)[1]) = {} PROVE Listing'
  <2>1. Steps(u, "insert", "list") /\ Row(u)' = Row(u)
    BY <1>5, StepGoes DEF InsertEvent, UseIs
  <2>2. /\ stored' = stored \cup {Row(u)} /\ listed' = listed
        /\ blurred \ {Row(u)} \subseteq blurred' /\ (Doubted(Row(u)) => Row(u) \in blurred')
    BY <1>5 DEF InsertEvent
  <2>3. \A r \in stored' : Excused(r)'
    <3>1. ASSUME NEW r \in stored, r # Row(u) PROVE Excused(r)'
      BY <2>1, <2>2, <3>1 DEF Listing, Excused, Steps, Row
    <3>2. ASSUME NEW r \in stored', r = Row(u) PROVE Excused(r)'
      <4>1. use'[u].at \in ListSteps /\ Row(u)' = r
        BY <2>1, <3>2 DEF Steps
      <4> QED BY <4>1 DEF Excused
    <3> QED BY <2>2, <3>1, <3>2
  <2>4. Removing'
    <3> SUFFICES ASSUME NEW v \in Users, use'[v].at \in Removers
                 PROVE  Row(v)' \notin stored' \/ Row(v)' \in blurred'
      BY DEF Removing
    <3>1. v # u /\ use'[v] = use[v] /\ Row(v)' = Row(v)
      BY <2>1 DEF Steps, Row
    <3>2. CASE Row(v) = Row(u)
      BY <2>2, <3>1, <3>2 DEF Doubted
    <3>3. CASE Row(v) # Row(u)
      BY <2>2, <3>1, <3>3 DEF Listing, Removing
    <3> QED BY <3>2, <3>3
  <2> QED BY <2>3, <2>4 DEF Listing
<1>6. ASSUME NEW u \in Users, ListEvent(u) PROVE Listing'
  <2>1. Steps(u, "list", "idle")
    BY <1>6, StepGoes DEF ListEvent, UseIs
  <2>2. /\ stored' = stored /\ listed' = listed \cup {Row(u)}
        /\ blurred \ {Row(u)} \subseteq blurred'
        /\ (Doubted(Row(u)) => blurred' = blurred)
    BY <1>6 DEF ListEvent
  <2>3. \A r \in stored' : Excused(r)'
    <3>1. ASSUME NEW r \in stored, r # Row(u) PROVE Excused(r)'
      BY <2>1, <2>2, <3>1 DEF Listing, Excused, Steps, Row
    <3>2. Row(u) \in listed'
      BY <2>2
    <3>3. ASSUME NEW r \in stored, r = Row(u) PROVE Excused(r)'
      BY <3>2, <3>3 DEF Excused
    <3> QED BY <2>2, <3>1, <3>3
  <2>4. Removing'
    <3> SUFFICES ASSUME NEW v \in Users, use'[v].at \in Removers
                 PROVE  Row(v)' \notin stored' \/ Row(v)' \in blurred'
      BY DEF Removing
    <3>1. v # u /\ use'[v] = use[v] /\ Row(v)' = Row(v)
      BY <2>1 DEF Steps, Row
    <3>2. CASE Row(v) = Row(u)
      BY <2>2, <3>1, <3>2 DEF Doubted, Listing, Removing
    <3>3. CASE Row(v) # Row(u)
      BY <2>2, <3>1, <3>3 DEF Listing, Removing
    <3> QED BY <3>2, <3>3
  <2> QED BY <2>3, <2>4 DEF Listing
<1>7. ASSUME NEW u \in Users, RepairListing(u) PROVE Listing'
  <2>1. \A r \in Owner(Row(u)[1]) : r \in Rows
    BY DEF Owner, StorageTypeOK
  <2>2. PICK to \in {"idle", "list"} : Steps(u, "repair", to)
    BY <1>7, <2>1, StepGoes DEF RepairListing, UseIs
  <2> QED BY <1>1, <1>7, <2>2 DEF RepairListing, tables
<1>8. ASSUME NEW u \in Users, UnlistEvent(u) \/ Clean(u) PROVE Listing'
  <2>1. PICK from \in Removers, to \in {"release", "page"} : Steps(u, from, to)
    BY <1>8, StepGoes DEF UnlistEvent, Clean, UseIs
  <2>2. stored' = stored /\ blurred' = blurred /\ listed' = listed \ {Row(u)}
    BY <1>8 DEF UnlistEvent, Clean
  <2>3. Row(u) \notin stored \/ Row(u) \in blurred
    BY <2>1 DEF Listing, Removing, Steps
  <2>4. \A r \in stored' : Excused(r)'
    BY <2>1, <2>2, <2>3 DEF Listing, Excused, Steps, Row
  <2>5. Removing'
    BY <2>1, <2>2 DEF Listing, Removing, Steps, Row
  <2> QED BY <2>4, <2>5 DEF Listing
<1>9. ASSUME NEW u \in Users, GiveEvent(u) PROVE Listing'
  <2>1. PICK from \in {"giveback", "release", "pruned"}, to \in {"repair", "idle", "prune"} :
          Steps(u, from, to)
    BY <1>9, StepGoes DEF GiveEvent, UseIs
  <2> QED BY <1>1, <1>9, <2>1 DEF GiveEvent
<1>10. ASSUME NEW u \in Users, TakeOwner(u) PROVE Listing'
  <2>1. PICK to \in {"pruned", "prune"} : Steps(u, "take", to)
    BY <1>10, StepGoes DEF TakeOwner, UseIs
  <2>2. stored' \subseteq stored /\ UNCHANGED <<listed, blurred>> /\ Row(u) \notin stored'
    BY <1>10 DEF TakeOwner, Owner
  <2> QED BY <2>1, <2>2, ListingStays DEF Steps
<1>11. ASSUME NEW u \in Users, NEW r \in Rows, DeleteEvent(u, r) PROVE Listing'
  <2>1. Steps(u, "idle", "unlist") /\ Row(u)' = r
    BY <1>11, StepGoes DEF DeleteEvent, Takes, UseIs
  <2>2. stored' = stored \ {r} /\ UNCHANGED <<listed, blurred>>
    BY <1>11 DEF DeleteEvent
  <2> QED BY <2>1, <2>2, ListingStays DEF Steps
<1>12. ASSUME NEW u \in Users, NEW r \in Rows, TakeListed(u, r) PROVE Listing'
  <2>1. Steps(u, "prune", "take") /\ Row(u)' = r
    BY <1>12, StepGoes DEF TakeListed, UseIs
  <2>2. listed' = listed \ {r} /\ UNCHANGED <<stored, blurred>>
    BY <1>12 DEF TakeListed
  <2>3. Excused(r)'
    BY <2>1 DEF Excused, Steps
  <2>4. \A s \in stored' : Excused(s)'
    BY <2>1, <2>2, <2>3 DEF Listing, Excused, Steps, Row
  <2>5. Removing'
    BY <2>1, <2>2 DEF Listing, Removing, Steps, Row
  <2> QED BY <2>4, <2>5 DEF Listing
<1>13. ASSUME NEW u \in Users, NEW r \in Rows, SeeListed(u, r) PROVE Listing'
  BY <1>1, <1>13, StepGoes DEF SeeListed, UseIs, tables
<1>14. ASSUME NEW u \in Users, NEW t \in 1 .. MaxTime + 1, Prune(u, t) PROVE Listing'
  BY <1>1, <1>14, StepPrune DEF Prune, tables
<1>15. ASSUME NEW u \in Users, LookUp(u) PROVE Listing'
  <2>1. PICK to \in {"page", "clean"} : Steps(u, "look", to)
    BY <1>15, StepGoes DEF LookUp, UseIs
  <2>2. Row(u)' = Row(u) /\ (to = "clean" => Row(u) \notin stored)
    BY <1>15, <2>1, StepGoes DEF LookUp, UseIs, Steps
  <2> QED BY <1>15, <2>1, <2>2, ListingStays DEF LookUp, tables, Steps
<1>16. ASSUME NEW u \in Users, Page(u) \/ WalkEnds(u) PROVE Listing'
  <2>1. PICK from \in {"idle", "page", "prune"}, to \in {"page", "idle"} : Steps(u, from, to)
    BY <1>16, StepGoes DEF Page, WalkEnds, Takes, UseIs
  <2> QED BY <1>1, <1>16, <2>1 DEF Page, WalkEnds, tables
<1>17. ASSUME NEW u \in Users, Die(u) PROVE Listing'
  <2>1. PICK from \in UseSteps : use[u].at = from
    BY DEF StorageTypeOK
  <2>2. Steps(u, from, "dead")
    BY <1>17, <2>1, StepGoes DEF Die
  <2>3. /\ UNCHANGED <<stored, listed>> /\ blurred \subseteq blurred'
        /\ use[u].at \in ListSteps => Row(u) \in blurred'
    BY <1>17 DEF Die, tables
  <2>4. \A r \in stored' : Excused(r)'
    BY <2>2, <2>3 DEF Listing, Excused, Steps, Row
  <2>5. Removing'
    BY <2>2, <2>3 DEF Listing, Removing, Steps, Row
  <2> QED BY <2>4, <2>5 DEF Listing
<1>18. ASSUME UNCHANGED <<stored, listed, blurred, use>> PROVE Listing'
  BY <1>18 DEF Listing, Excused, Removing, Row
<1> QED
  BY <1>2, <1>3, <1>4, <1>5, <1>6, <1>7, <1>8, <1>9, <1>10, <1>11, <1>12, <1>13, <1>14,
     <1>15, <1>16, <1>17, <1>18 DEF StorageNext, ClockTicks, storageVars, tables

-----------------------------------------------------------------------------
LEMMA StorageInitOK == StorageInit => StorageInv
<1> SUFFICES ASSUME StorageInit PROVE StorageInv
  OBVIOUS
<1>1. \A u \in Users : use[u] = Idle /\ use[u].at = "idle"
  BY IdleType DEF StorageInit
<1>2. StorageTypeOK
  BY <1>1, IdleType, StorageConstants DEF StorageInit, StorageTypeOK, UseType
<1>3. \A S : "idle" \notin S => UsersAt(S) = {}
  BY <1>1 DEF UsersAt
<1>4. Held = 0 /\ Joining = 0 /\ Number = 0
  BY <1>3, FS_EmptySet DEF StorageInit, Held, Joining, Number, HoldSteps
<1>5. EventsCounted /\ Admitted
  BY <1>4, Numbers, StorageConstants DEF StorageInit
<1>6. EventsListed /\ Removing
  BY <1>1 DEF StorageInit, EventsListed, Removing, Removers
<1> QED BY <1>2, <1>5, <1>6 DEF StorageInv

(* However appends, repairs, deletes, prunes and pages of the memory       *)
(* storage interleave, and wherever a process dies: the counter is the     *)
(* events and the slots in somebody's hands or spilled, the storage is     *)
(* within max_memory_events, and a stored event is listed unless its       *)
(* listing was in doubt (storage/memory.ex:9-185).                         *)
THEOREM StorageIsSafe == StorageSpec => []StorageSafe
<1>1. StorageInv /\ [StorageNext]_storageVars => StorageInv'
  <2> SUFFICES ASSUME StorageInv, [StorageNext]_storageVars PROVE StorageInv'
    OBVIOUS
  <2>1. StorageTypeOK' /\ Counts'
    BY TypeNext, CountsNext DEF StorageInv
  <2>2. Listing /\ (Listing' <=> EventsListed' /\ Removing')
    BY DEF StorageInv, Listing, EventsListed, Excused
  <2>3. EventsListed' /\ Removing'
    BY <2>2, ListingNext DEF StorageInv
  <2> QED BY <2>1, <2>3 DEF StorageInv, Counts
<1>2. StorageInv => StorageSafe
  <2> SUFFICES ASSUME StorageInv PROVE Number <= MaxMemoryEvents
    BY DEF StorageInv, StorageSafe, EventsBounded, Number
  <2>1. Number \in Nat /\ Joining \in Nat /\ Number + Joining <= MaxMemoryEvents
    BY Numbers DEF StorageInv
  <2> QED BY <2>1, StorageConstants
<1> QED BY <1>1, <1>2, StorageInitOK, PTL DEF StorageSpec

================================================================================
