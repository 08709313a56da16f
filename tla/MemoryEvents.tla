----------------------------- MODULE MemoryEvents -----------------------------
(***************************************************************************)
(* The memory storage, storage/memory.ex: one stream of events.  An id row *)
(* owns the event and one capacity slot; another row, ordered by time,     *)
(* lists it.  Processes work on both tables without locks, and may die.    *)
(* Events are told apart by their id and the time of their append.  The    *)
(* order of the listing is left out: a walk may stop anywhere, as its      *)
(* limit says, and what comes in behind its cursor waits for the next one. *)
(***************************************************************************)
EXTENDS Integers, FiniteSets

CONSTANTS
  Users,            \* processes that call the storage
  Ids,              \* event ids of the stream
  MaxMemoryEvents,  \* max_memory_events
  MaxTime,          \* bound: the clock, in milliseconds
  MaxUses,          \* bound: calls altogether
  MaxDead           \* bound: processes killed

ASSUME StorageConstants ==
  /\ IsFiniteSet(Users) /\ IsFiniteSet(Ids) /\ Ids # {}
  /\ {MaxMemoryEvents, MaxTime, MaxUses, MaxDead} \subseteq Nat

VARIABLES
  stored,    \* memory_event_ids, <<id, time>>: one row for an id
  listed,    \* memory_events, <<id, time>>
  events,    \* capacity: :memory_events
  clock,
  use,       \* what each process does: [at, row, limit]
  uses, dead,
  spilled,   \* history: slots nobody will give back
  blurred    \* history: rows whose listing was in doubt or in dead hands

tables      == <<stored, listed, events>>
storageVars == <<tables, clock, use, uses, dead, spilled, blurred>>

Rows     == Ids \X (0 .. MaxTime)
Owner(i) == {r \in stored : r[1] = i}

Idle == [at |-> "idle", row |-> <<CHOOSE i \in Ids : TRUE, 0>>, limit |-> 0]

StorageInit ==
  /\ stored = {} /\ listed = {} /\ events = 0 /\ clock = 0
  /\ use = [u \in Users |-> Idle] /\ uses = 0
  /\ dead = 0 /\ spilled = 0 /\ blurred = {}

UseIs(u, at) == use[u].at = at
Row(u)       == use[u].row

(* A process goes on, with the same row or another one, or is done.        *)
GoesTo(u, at)        == use' = [use EXCEPT ![u].at = at]
GoesWith(u, at, r)   == use' = [use EXCEPT ![u].at = at, ![u].row = r]
Ends(u)              == use' = [use EXCEPT ![u] = Idle]
Takes(u)             == UseIs(u, "idle") /\ uses < MaxUses /\ uses' = uses + 1

-----------------------------------------------------------------------------
(* append: the time is read first, then the id is looked up.               *)
AppendEvent(u, i) ==
  /\ Takes(u)
  /\ GoesWith(u, IF Owner(i) = {} THEN "reserve" ELSE "repair", <<i, clock>>)
  /\ UNCHANGED <<tables, clock, dead, spilled, blurred>>

ReserveEvent(u) ==
  /\ UseIs(u, "reserve")
  /\ events' = events + 1
  /\ GoesTo(u, IF events + 1 <= MaxMemoryEvents THEN "insert" ELSE "undo")
  /\ UNCHANGED <<stored, listed, clock, uses, dead, spilled, blurred>>

UndoEvent(u) ==
  /\ UseIs(u, "undo") /\ GoesTo(u, "recheck")
  /\ events' = events - 1
  /\ UNCHANGED <<stored, listed, clock, uses, dead, spilled, blurred>>

(* A full storage still takes what it has: the retry of an append is fine. *)
RecheckId(u) ==
  /\ UseIs(u, "recheck")
  /\ IF Owner(Row(u)[1]) = {} THEN Ends(u) ELSE GoesTo(u, "repair")
  /\ UNCHANGED <<tables, clock, uses, dead, spilled, blurred>>

(* Somebody is about to take the listing of a row away.                    *)
Doubted(r) == \E v \in Users : use[v].at \in {"clean", "unlist"} /\ Row(v) = r

(* Mutant of InsertEvent: whoever comes second keeps the slot.             *)
MutantInsertEvent(u) ==
  /\ UseIs(u, "insert")
  /\ \/ /\ Owner(Row(u)[1]) = {}
        /\ stored' = stored \cup {Row(u)} /\ GoesTo(u, "list")
     \/ /\ Owner(Row(u)[1]) # {}
        /\ GoesTo(u, "repair") /\ UNCHANGED stored
  /\ UNCHANGED <<listed, events, clock, uses, dead, spilled, blurred>>

(* insert_new of the row that owns the event.                              *)
InsertEvent(u) ==
  /\ UseIs(u, "insert")
  /\ \/ /\ Owner(Row(u)[1]) = {}
        /\ stored' = stored \cup {Row(u)} /\ GoesTo(u, "list")
        /\ blurred' = IF Doubted(Row(u)) THEN blurred \cup {Row(u)} ELSE blurred \ {Row(u)}
     \/ /\ Owner(Row(u)[1]) # {}
        /\ GoesTo(u, "giveback") /\ UNCHANGED <<stored, blurred>>
  /\ UNCHANGED <<listed, events, clock, uses, dead, spilled>>

(* The row in the order of time, by an append or a repair.                 *)
ListEvent(u) ==
  /\ UseIs(u, "list") /\ Ends(u)
  /\ listed' = listed \cup {Row(u)}
  /\ blurred' = IF Doubted(Row(u)) THEN blurred ELSE blurred \ {Row(u)}
  /\ UNCHANGED <<stored, events, clock, uses, dead, spilled>>

(* repair_secondary: an append of an id that is there lists it again.      *)
RepairListing(u) ==
  /\ UseIs(u, "repair")
  /\ \/ Owner(Row(u)[1]) = {} /\ Ends(u)
     \/ \E r \in Owner(Row(u)[1]) : GoesWith(u, "list", r)
  /\ UNCHANGED <<tables, clock, uses, dead, spilled, blurred>>

-----------------------------------------------------------------------------
DeleteEvent(u, r) ==
  /\ Takes(u) /\ r \in stored
  /\ stored' = stored \ {r}
  /\ GoesWith(u, "unlist", r)
  /\ UNCHANGED <<listed, events, clock, dead, spilled, blurred>>

UnlistEvent(u) ==
  /\ UseIs(u, "unlist") /\ GoesTo(u, "release")
  /\ listed' = listed \ {Row(u)}
  /\ UNCHANGED <<stored, events, clock, uses, dead, spilled, blurred>>

(* Capacity.release, of whoever has a slot to give back.                   *)
GiveEvent(u) ==
  /\ events' = IF events > 0 THEN events - 1 ELSE events
  /\ \/ UseIs(u, "giveback") /\ GoesTo(u, "repair")
     \/ UseIs(u, "release") /\ Ends(u)
     \/ UseIs(u, "pruned") /\ GoesTo(u, "prune")
  /\ UNCHANGED <<stored, listed, clock, uses, dead, spilled, blurred>>

-----------------------------------------------------------------------------
(* prune: listed rows from before the limit are taken, then their events.  *)
Prune(u, before) ==
  /\ Takes(u)
  /\ use' = [use EXCEPT ![u].at = "prune", ![u].limit = before]
  /\ UNCHANGED <<tables, clock, dead, spilled, blurred>>

TakeListed(u, r) ==
  /\ UseIs(u, "prune") /\ r \in listed /\ r[2] < use[u].limit
  /\ listed' = listed \ {r}
  /\ GoesWith(u, "take", r)
  /\ UNCHANGED <<stored, events, clock, uses, dead, spilled, blurred>>

(* The id's row is taken whatever its time; a slot is only given back if   *)
(* it was the row that was listed.                                         *)
TakeOwner(u) ==
  /\ UseIs(u, "take")
  /\ stored' = stored \ Owner(Row(u)[1])
  /\ GoesTo(u, IF Row(u) \in stored THEN "pruned" ELSE "prune")
  /\ spilled' = IF Row(u) \in stored \/ Owner(Row(u)[1]) = {} THEN spilled ELSE spilled + 1
  /\ UNCHANGED <<listed, events, clock, uses, dead, blurred>>

(* page: a listed row whose event is not there is removed.                 *)
Page(u) ==
  /\ Takes(u) /\ GoesTo(u, "page")
  /\ UNCHANGED <<tables, clock, dead, spilled, blurred>>

SeeListed(u, r) ==
  /\ UseIs(u, "page") /\ r \in listed
  /\ GoesWith(u, "look", r)
  /\ UNCHANGED <<tables, clock, uses, dead, spilled, blurred>>

LookUp(u) ==
  /\ UseIs(u, "look") /\ GoesTo(u, IF Row(u) \in stored THEN "page" ELSE "clean")
  /\ UNCHANGED <<tables, clock, uses, dead, spilled, blurred>>

Clean(u) ==
  /\ UseIs(u, "clean") /\ GoesTo(u, "page")
  /\ listed' = listed \ {Row(u)}
  /\ UNCHANGED <<stored, events, clock, uses, dead, spilled, blurred>>

WalkEnds(u) ==
  /\ UseIs(u, "page") \/ UseIs(u, "prune")
  /\ Ends(u)
  /\ UNCHANGED <<tables, clock, uses, dead, spilled, blurred>>

-----------------------------------------------------------------------------
ClockTicks ==
  /\ clock < MaxTime /\ clock' = clock + 1
  /\ UNCHANGED <<tables, use, uses, dead, spilled, blurred>>

(* A process dies between two table operations, with what it had in hand.  *)
HoldSteps   == {"undo", "insert", "giveback", "unlist", "release", "pruned"}
ListSteps   == {"list", "take"}
Die(u) ==
  /\ use[u].at \notin {"idle", "dead"} /\ dead < MaxDead
  /\ dead' = dead + 1
  /\ GoesTo(u, "dead")
  /\ spilled' = IF use[u].at \in HoldSteps THEN spilled + 1 ELSE spilled
  /\ blurred' = IF use[u].at \in ListSteps THEN blurred \cup {Row(u)} ELSE blurred
  /\ UNCHANGED <<tables, clock, uses>>

StorageNext ==
  \/ \E u \in Users :
       \/ \E i \in Ids : AppendEvent(u, i)
       \/ ReserveEvent(u) \/ UndoEvent(u) \/ RecheckId(u) \/ InsertEvent(u) \/ ListEvent(u)
       \/ RepairListing(u) \/ UnlistEvent(u) \/ GiveEvent(u) \/ TakeOwner(u)
       \/ \E r \in Rows : DeleteEvent(u, r) \/ TakeListed(u, r) \/ SeeListed(u, r)
       \/ \E t \in 1 .. MaxTime + 1 : Prune(u, t)
       \/ Page(u) \/ LookUp(u) \/ Clean(u) \/ WalkEnds(u) \/ Die(u)
  \/ ClockTicks

StorageSpec == StorageInit /\ [][StorageNext]_storageVars

-----------------------------------------------------------------------------
(* Properties.                                                             *)
UseSteps == {"idle", "reserve", "recheck", "repair", "page", "look", "clean",
             "prune", "dead"} \cup HoldSteps \cup ListSteps

StorageTypeOK ==
  /\ stored \subseteq Rows /\ listed \subseteq Rows /\ blurred \subseteq Rows
  /\ events \in Nat /\ clock \in 0 .. MaxTime /\ {spilled, dead, uses} \subseteq Nat
  /\ use \in [Users -> [at : UseSteps, row : Rows, limit : 0 .. MaxTime + 1]]
  /\ \A r, s \in stored : r[1] = s[1] => r = s

(* Every slot is that of an event, in somebody's hands, or spilled: by the *)
(* dead, or by a prune that met a later event under the id it had listed.  *)
SlotHolders   == {u \in Users : use[u].at \in HoldSteps}
EventsCounted == events = Cardinality(stored) + Cardinality(SlotHolders) + spilled

(* However many appends overshoot the counter, no more than                *)
(* max_memory_events events are stored.                                    *)
EventsBounded == Cardinality(stored) <= MaxMemoryEvents

(* docs/storage.md: events are paged by time.  An event that is stored is  *)
(* listed, or someone is just listing or pruning it; except one appended   *)
(* within the millisecond of another that is being removed under its id,   *)
(* and one whose process died: those until the append is repeated.         *)
EventsListed ==
  \A r \in stored :
    r \in listed \/ r \in blurred
    \/ \E u \in Users : use[u].at \in ListSteps /\ Row(u) = r

(* The storage's two tables and its counter agree.                         *)
StorageSafe == StorageTypeOK /\ EventsCounted /\ EventsBounded /\ EventsListed
===============================================================================
