----------------------------- MODULE ControlPlane -----------------------------
(***************************************************************************)
(* Admission to Runtime (runtime.ex, call and cast): at most               *)
(* max_control_pending requests wait for it.  A slot is taken by the       *)
(* caller and given back by Runtime when it takes the request up, or by    *)
(* the caller whose call exits.  Slots are counted per generation of       *)
(* Runtime, in a table that outlives it, and so does a caller that has     *)
(* read the generation of a Runtime that is gone.                          *)
(***************************************************************************)
EXTENDS Integers, FiniteSets

CONSTANTS
  Requests,           \* calls and casts, each known by its own name
  Casts,              \* those nobody waits for
  MaxControlPending,  \* max_control_pending
  MaxGenerations      \* bound: starts of Runtime

ASSUME ControlConstants ==
  /\ IsFiniteSet(Requests) /\ Casts \subseteq Requests
  /\ MaxControlPending \in Nat \ {0} /\ MaxGenerations \in Nat

VARIABLES
  runtime,      \* "down", "starting" (its name is registered) or "up"
  generation,   \* runtime_flags: control_generation
  slots,        \* capacity: {:control_pending, generation}
  stage,        \* how far each request is
  gen,          \* the generation each request has read
  waiting       \* requests whose caller waits for the answer

controlVars == <<runtime, generation, slots, stage, gen, waiting>>

Generations == 0 .. MaxGenerations
Stages == {"new", "read", "over", "admitted", "queued", "serving", "exited",
           "broken", "lost", "done"}

ControlInit ==
  /\ runtime = "down" /\ generation = 0
  /\ slots = [g \in Generations |-> 0]
  /\ stage = [r \in Requests |-> "new"] /\ gen = [r \in Requests |-> 0]
  /\ waiting = {}

Goes(r, from, to) == stage[r] = from /\ stage' = [stage EXCEPT ![r] = to]

(* Capacity.release, which never goes below zero.                          *)
Clamped(n) == IF n > 0 THEN n - 1 ELSE n
Release(g) == slots' = [slots EXCEPT ![g] = Clamped(@)]

-----------------------------------------------------------------------------
(* The caller: reserve_control_slot.                                       *)
ReadGeneration(r) ==
  /\ Goes(r, "new", "read")
  /\ gen' = [gen EXCEPT ![r] = generation]
  /\ UNCHANGED <<runtime, generation, slots, waiting>>

ReserveSlot(r) ==
  /\ Goes(r, "read", IF slots[gen[r]] + 1 <= MaxControlPending THEN "admitted" ELSE "over")
  /\ slots' = [slots EXCEPT ![gen[r]] = @ + 1]
  /\ UNCHANGED <<runtime, generation, gen, waiting>>

(* The slot too many is taken back, by an addition that is not clamped.    *)
Overloaded(r) ==
  /\ Goes(r, "over", "done")
  /\ slots' = [slots EXCEPT ![gen[r]] = @ - 1]
  /\ UNCHANGED <<runtime, generation, gen, waiting>>

(* GenServer.call and cast.  A call of nobody exits; a cast to nobody is   *)
(* dropped without a word, and its slot with it.                           *)
SendRequest(r) ==
  /\ IF runtime # "down" THEN Goes(r, "admitted", "queued")
     ELSE Goes(r, "admitted", IF r \in Casts THEN "lost" ELSE "exited")
  /\ waiting' = IF runtime # "down" /\ r \notin Casts THEN waiting \cup {r} ELSE waiting
  /\ UNCHANGED <<runtime, generation, slots, gen>>

(* The caller gives up; its request stays where it is.                     *)
CallTimeout(r) ==
  /\ r \in waiting /\ stage[r] \in {"queued", "serving"}
  /\ waiting' = waiting \ {r}
  /\ UNCHANGED <<runtime, generation, slots, stage, gen>>

(* A call that exits for another reason gives the slot back, whether or    *)
(* not Runtime had done so.                                                *)
CallExit(r) ==
  /\ Goes(r, "exited", "done") \/ Goes(r, "broken", "done")
  /\ Release(gen[r])
  /\ waiting' = waiting \ {r}
  /\ UNCHANGED <<runtime, generation, gen>>

(* The caller is killed before it has sent anything.                       *)
CallerKilled(r) ==
  /\ Goes(r, "over", "lost") \/ Goes(r, "admitted", "lost")
  /\ UNCHANGED <<runtime, generation, slots, gen, waiting>>

-----------------------------------------------------------------------------
(* Runtime: its supervisor starts it, it counts from zero under a new      *)
(* generation, and stops anywhere, with every request it has been sent.    *)
Register ==
  /\ runtime = "down" /\ generation < MaxGenerations
  /\ runtime' = "starting"
  /\ UNCHANGED <<generation, slots, stage, gen, waiting>>

NextGeneration ==
  /\ runtime = "starting" /\ generation < MaxGenerations
  /\ runtime' = "up" /\ generation' = generation + 1
  /\ UNCHANGED <<slots, stage, gen, waiting>>

(* Mutant of TakeRequest: the slot is released in the present generation.  *)
MutantTakeRequest(r) ==
  /\ runtime = "up" /\ \A q \in Requests : stage[q] # "serving"
  /\ Goes(r, "queued", "serving")
  /\ Release(generation)
  /\ UNCHANGED <<runtime, generation, gen, waiting>>

(* handle_call and handle_cast of an admitted request.                     *)
TakeRequest(r) ==
  /\ runtime = "up" /\ \A q \in Requests : stage[q] # "serving"
  /\ Goes(r, "queued", "serving")
  /\ Release(gen[r])
  /\ UNCHANGED <<runtime, generation, gen, waiting>>

Served(r) ==
  /\ Goes(r, "serving", "done")
  /\ waiting' = waiting \ {r}
  /\ UNCHANGED <<runtime, generation, slots, gen>>

RuntimeStops ==
  /\ runtime # "down" /\ runtime' = "down"
  /\ stage' = [r \in Requests |->
       CASE stage[r] = "queued"  -> IF r \in waiting THEN "exited" ELSE "lost"
         [] stage[r] = "serving" -> IF r \in waiting THEN "broken" ELSE "done"
         [] OTHER -> stage[r]]
  /\ UNCHANGED <<generation, slots, gen, waiting>>

ControlNext ==
  \/ \E r \in Requests :
       \/ ReadGeneration(r) \/ ReserveSlot(r) \/ Overloaded(r) \/ SendRequest(r)
       \/ CallTimeout(r) \/ CallExit(r) \/ CallerKilled(r)
       \/ TakeRequest(r) \/ Served(r)
  \/ Register \/ NextGeneration \/ RuntimeStops

ControlSpec == ControlInit /\ [][ControlNext]_controlVars

-----------------------------------------------------------------------------
(* Properties.                                                             *)
ControlTypeOK ==
  /\ runtime \in {"down", "starting", "up"}
  /\ generation \in Generations /\ slots \in [Generations -> Int]
  /\ stage \in [Requests -> Stages] /\ gen \in [Requests -> Generations]
  /\ waiting \subseteq Requests \ Casts

(* A slot of generation g is in the hands of these.                        *)
Holds(r, g) == gen[r] = g /\ stage[r] \in {"over", "admitted", "queued", "exited", "lost"}
Holders(g)  == {r \in Requests : Holds(r, g)}

(* While a Runtime is up, the slots of its generation are in somebody's    *)
(* hands, each in those of one: late requests, late exits and double       *)
(* releases of earlier generations do not touch them.                      *)
ControlExact == runtime = "up" => slots[generation] = Cardinality(Holders(generation))

(* Of those that were admitted in its generation no more than              *)
(* max_control_pending wait for it.                                        *)
Pending(g)   == {r \in Requests : gen[r] = g /\ stage[r] \in {"admitted", "queued"}}
ControlBound == runtime = "up" => Cardinality(Pending(generation)) <= MaxControlPending

(* The admission accounts of a Runtime that is up.                         *)
ControlSafe == ControlTypeOK /\ ControlExact /\ ControlBound
===============================================================================
