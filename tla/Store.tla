--------------------------------- MODULE Store ---------------------------------
(***************************************************************************)
(* createStore, priv/ui/js/core.js: one value, and listeners that are told *)
(* of it one after another.  A listener may itself set the value, add a    *)
(* listener or leave while it is told, so walks over the listeners nest.   *)
(***************************************************************************)
EXTENDS Integers, Sequences, SequencesExt

CONSTANTS
  Listeners,
  MaxSets,     \* bound: calls of set and patch
  MaxJoins,    \* bound: calls of subscribe
  Nobody

ASSUME StoreConstants == {MaxSets, MaxJoins} \subseteq Nat /\ Nobody \notin Listeners

VARIABLES
  value,       \* state: the number of the set that made it
  listeners,   \* the Set of listeners in the order they joined: [who, join]
  joins,       \* calls of subscribe so far
  walks,       \* the calls under way, innermost last: [at, last, telling]
  told,        \* what each listener was told last
  broke        \* history: a listener threw, and the walks around it ended

storeVars == <<value, listeners, joins, walks, told, broke>>

StoreInit ==
  /\ value = 0 /\ listeners = <<>> /\ joins = 0 /\ walks = <<>>
  /\ told = [l \in Listeners |-> 0] /\ broke = FALSE

Who == {listeners[i].who : i \in DOMAIN listeners}

(* Code of the application runs outside all walks or in a listener.        *)
Running == IF walks = <<>> THEN TRUE ELSE Last(walks).telling # Nobody

(* A walk has passed the members that joined up to "at"; one of subscribe  *)
(* ends with its listener ("last").                                        *)
Tell(stack, l) == /\ walks' = stack /\ told' = [told EXCEPT ![l] = value']

Set ==
  /\ Running /\ value < MaxSets
  /\ value' = value + 1
  /\ walks' = Append(walks, [at |-> 0, last |-> FALSE, telling |-> Nobody])
  /\ UNCHANGED <<listeners, joins, told, broke>>

(* The walk goes on to m and tells it the value of this moment.            *)
Visited(m) ==
  /\ UNCHANGED value
  /\ Tell([walks EXCEPT ![Len(walks)] = [@ EXCEPT !.at = m.join, !.telling = m.who]], m.who)

Advance ==
  /\ walks # <<>> /\ Last(walks).telling = Nobody
  /\ LET ahead == SelectInSeq(listeners, LAMBDA m : m.join > Last(walks).at)
     IN IF ahead = 0 \/ Last(walks).last
        THEN walks' = Front(walks) /\ UNCHANGED <<value, told>>
        ELSE Visited(listeners[ahead])
  /\ UNCHANGED <<listeners, joins, broke>>

Returns ==
  /\ walks # <<>> /\ Last(walks).telling # Nobody
  /\ walks' = [walks EXCEPT ![Len(walks)] = [@ EXCEPT !.telling = Nobody]]
  /\ UNCHANGED <<value, listeners, joins, told, broke>>

(* Nobody catches it: every walk under way ends.                           *)
Throws ==
  /\ walks # <<>> /\ Last(walks).telling # Nobody
  /\ walks' = <<>> /\ broke' = TRUE
  /\ UNCHANGED <<value, listeners, joins, told>>

(* Mutant of Join: the newcomer waits for the next set.                    *)
MutantJoin(l) ==
  /\ Running /\ joins < MaxJoins
  /\ joins' = joins + 1
  /\ listeners' = IF l \in Who THEN listeners
                  ELSE Append(listeners, [who |-> l, join |-> joins + 1])
  /\ UNCHANGED <<value, walks, told, broke>>

(* A function that is subscribed already keeps its place in the Set.       *)
Join(l) ==
  /\ Running /\ joins < MaxJoins
  /\ joins' = joins + 1
  /\ listeners' = IF l \in Who THEN listeners
                  ELSE Append(listeners, [who |-> l, join |-> joins + 1])
  /\ UNCHANGED <<value, broke>>
  /\ Tell(Append(walks, [at |-> 0, last |-> TRUE, telling |-> l]), l)

Leave(l) ==
  /\ Running
  /\ \E i \in DOMAIN listeners : listeners[i].who = l /\ listeners' = RemoveAt(listeners, i)
  /\ UNCHANGED <<value, joins, walks, told, broke>>

StoreNext ==
  \/ Set \/ Advance \/ Returns \/ Throws
  \/ \E l \in Listeners : Join(l) \/ Leave(l)

-----------------------------------------------------------------------------
(* When the calls are over, every listener has last been told the present  *)
(* value, however they set it and came and went meanwhile.                 *)
ToldLast ==
  walks = <<>> /\ ~broke => \A l \in Who : told[l] = value
================================================================================
