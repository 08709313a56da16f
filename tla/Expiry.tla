-------------------------------- MODULE Expiry --------------------------------
(***************************************************************************)
(* The expiry service (lib/wiregrid/expiry.ex): one deadline per key in    *)
(* expiry_index, the same deadlines in time order in expiry, and one       *)
(* process that takes what is due.  Any process may schedule, move or      *)
(* cancel a deadline while that process works; there is no lock, only the  *)
(* token that tells two deadlines of one key apart.                        *)
(***************************************************************************)
EXTENDS Integers, FiniteSets

CONSTANTS
  Keys,      \* {kind, key} of what expires
  Callers,   \* processes that schedule and cancel
  Uses,      \* the keys each of them deals with
  Limit,     \* max_expiry_entries
  Ttls,      \* times to live that callers ask for
  MaxTries,  \* @max_schedule_retries
  None,
  MaxCalls,  \* bound: schedules and cancels altogether
  MaxNow     \* bound: the last tick without a deadline ahead

ASSUME ExpiryConstants ==
  /\ IsFiniteSet(Keys) /\ IsFiniteSet(Callers)
  /\ Uses \in [Callers -> SUBSET Keys]
  /\ {Limit, MaxCalls, MaxNow} \subseteq Nat /\ MaxTries \in Nat \ {0}
  /\ Ttls \subseteq Nat \ {0}
  /\ None \notin [key : Keys, at : Nat, token : Nat]

VARIABLES
  now,       \* the monotonic clock
  index,     \* expiry_index: the row of each key, or None
  ordered,   \* expiry: the rows in time order
  used,      \* capacity: expiry_entries
  sequence,  \* capacity: expiry_sequence, the last token
  call,      \* what each caller is doing
  exp,       \* what the expiry process is doing
  calls,
  owed,      \* history: deadlines accepted, and not moved, cancelled or met
  lost,      \* history: accepted while the key's old row was being deleted
  stranded,  \* history: taken as due before they were in the index
  surplus    \* history: releases for rows that somebody else had released

vars == <<now, index, ordered, used, sequence, call, exp, calls, owed, lost,
          stranded, surplus>>
history == <<owed, lost, stranded, surplus>>

Row(k, d, t) == [key |-> k, at |-> d, token |-> t]
IdleCall == [pc |-> "idle", row |-> None, old |-> None, tries |-> 0]
IdleExp  == [pc |-> "idle", row |-> None]

Init ==
  /\ now = 0 /\ index = [k \in Keys |-> None] /\ ordered = {}
  /\ used = 0 /\ sequence = 0 /\ calls = 0
  /\ call = [c \in Callers |-> IdleCall] /\ exp = IdleExp
  /\ owed = {} /\ lost = {} /\ stranded = {} /\ surplus = 0

At(c, pc) == call[c].pc = pc
Step(c, pc) == call' = [call EXCEPT ![c].pc = pc]
End(c) == call' = [call EXCEPT ![c] = IdleCall]

(* schedule_retry: a new token and a row in the ordered table, which means *)
(* nothing until the index has it too.                                     *)
Try(c, k, d, tries, kept) ==
  LET row == Row(k, d, sequence + 1)
  IN /\ sequence' = sequence + 1
     /\ ordered' = kept \cup {row}
     /\ call' = [call EXCEPT ![c] = [pc |-> "lookup", row |-> row, old |-> None,
                                     tries |-> tries]]

(* A caller that lost a race takes its row back and starts again, up to    *)
(* MaxTries times.                                                         *)
Again(c) ==
  LET row == call[c].row  kept == ordered \ {row}
  IN IF call[c].tries + 1 < MaxTries
     THEN Try(c, row.key, row.at, call[c].tries + 1, kept)
     ELSE End(c) /\ ordered' = kept /\ UNCHANGED sequence

(* Capacity.release stops at zero.  surplus is what the count is short of. *)
Release(extra) ==
  /\ used' = IF used = 0 THEN 0 ELSE used - 1
  /\ surplus' = (surplus + (IF extra THEN 1 ELSE 0))
                  - (IF used = 0 /\ surplus + (IF extra THEN 1 ELSE 0) > 0
                     THEN 1 ELSE 0)

-----------------------------------------------------------------------------
(* schedule                                                                *)
Schedule(c, k, ttl) ==
  /\ At(c, "idle") /\ calls < MaxCalls
  /\ Try(c, k, now + ttl, 0, ordered)
  /\ calls' = calls + 1
  /\ UNCHANGED <<now, index, used, exp, history>>

LookupIndex(c) ==
  LET found == index[call[c].row.key]
  IN /\ At(c, "lookup")
     /\ call' = [call EXCEPT ![c].pc = IF found = None THEN "reserve"
                                                       ELSE "replace",
                             ![c].old = found]
     /\ UNCHANGED <<now, index, ordered, used, sequence, exp, calls, history>>

(* Capacity.reserve counts first and takes it back over the limit.         *)
Reserve(c) ==
  /\ At(c, "reserve")
  /\ used' = used + 1
  /\ Step(c, IF used < Limit THEN "claim" ELSE "undo")
  /\ UNCHANGED <<now, index, ordered, sequence, exp, calls, history>>

UndoReserve(c) ==
  /\ At(c, "undo")
  /\ Release(FALSE)
  /\ ordered' = ordered \ {call[c].row}
  /\ End(c)
  /\ UNCHANGED <<now, index, sequence, exp, calls, owed, lost, stranded>>

(* What the expiry process is about to delete by its key alone.            *)
Doomed(k) == exp.pc = "delete" /\ exp.row.key = k

Accept(c, replaced) ==
  LET row == call[c].row
  IN /\ index' = [index EXCEPT ![row.key] = row]
     /\ owed' = (owed \ replaced) \cup {row}
     /\ lost' = IF Doomed(row.key) THEN lost \cup {row} ELSE lost

(* Mutant of Claim: the slot of a caller that came second is kept.         *)
MutantKeepsSlot(c) ==
  /\ At(c, "claim")
  /\ IF index[call[c].row.key] = None
     THEN /\ Accept(c, {}) /\ End(c)
          /\ UNCHANGED <<ordered, sequence>>
     ELSE /\ Again(c)
          /\ UNCHANGED <<index, owed, lost>>
  /\ UNCHANGED <<now, used, exp, calls, stranded, surplus>>

(* insert_new: of two callers one wins, the other gives its slot back.     *)
Claim(c) ==
  /\ At(c, "claim")
  /\ IF index[call[c].row.key] = None
     THEN Accept(c, {}) /\ End(c)
     ELSE Step(c, "give") /\ UNCHANGED <<index, owed, lost>>
  /\ UNCHANGED <<now, ordered, used, sequence, exp, calls, stranded, surplus>>

GiveSlot(c) ==
  /\ At(c, "give")
  /\ Release(FALSE)
  /\ Again(c)
  /\ UNCHANGED <<now, index, exp, calls, owed, lost, stranded>>

(* replace_exact: only the row that was looked up is replaced.             *)
Replace(c) ==
  LET old == call[c].old
  IN /\ At(c, "replace")
     /\ IF index[call[c].row.key] = old
        THEN /\ Accept(c, {old}) /\ Step(c, "drop_old")
             /\ UNCHANGED <<ordered, sequence>>
        ELSE Again(c) /\ UNCHANGED <<index, owed, lost>>
     /\ UNCHANGED <<now, used, exp, calls, stranded, surplus>>

DropOld(c) ==
  /\ At(c, "drop_old")
  /\ ordered' = ordered \ {call[c].old}
  /\ End(c)
  /\ UNCHANGED <<now, index, used, sequence, exp, calls, history>>

-----------------------------------------------------------------------------
(* cancel                                                                  *)
Cancel(c, k) ==
  /\ At(c, "idle") /\ calls < MaxCalls
  /\ index[k] # None
  /\ index' = [index EXCEPT ![k] = None]
  /\ owed' = owed \ {index[k]}
  /\ call' = [call EXCEPT ![c] = [IdleCall EXCEPT !.pc = "cancel",
                                                  !.old = index[k]]]
  /\ calls' = calls + 1
  /\ UNCHANGED <<now, ordered, used, sequence, exp, lost, stranded, surplus>>

FinishCancel(c) ==
  /\ At(c, "cancel")
  /\ ordered' = ordered \ {call[c].old}
  /\ Release(FALSE)
  /\ End(c)
  /\ UNCHANGED <<now, index, sequence, exp, calls, owed, lost, stranded>>

-----------------------------------------------------------------------------
(* The expiry process.                                                     *)

(* Mutant of TakeDue: a deadline is due only after it has passed.          *)
MutantTakesLate(row) ==
  /\ exp.pc = "idle"
  /\ row \in ordered /\ row.at < now
  /\ ordered' = ordered \ {row}
  /\ exp' = [pc |-> "check", row |-> row]
  /\ UNCHANGED <<now, index, used, sequence, call, calls, history>>

(* The walk goes in time order; a row put in behind its cursor waits for   *)
(* the next tick, so any due row may come next.                            *)
TakeDue(row) ==
  /\ exp.pc = "idle"
  /\ row \in ordered /\ row.at <= now
  /\ ordered' = ordered \ {row}
  /\ exp' = [pc |-> "check", row |-> row]
  /\ UNCHANGED <<now, index, used, sequence, call, calls, history>>

Unsettled(row) ==
  \E c \in Callers : /\ call[c].row = row
                     /\ call[c].pc \in {"lookup", "reserve", "claim", "replace"}

(* Mutant of CheckIndex: any row of the key will do.                       *)
MutantIgnoresToken ==
  LET row == exp.row
  IN /\ exp.pc = "check"
     /\ exp' = IF index[row.key] # None THEN [exp EXCEPT !.pc = "delete"]
                                        ELSE IdleExp
     /\ stranded' = IF Unsettled(row) THEN stranded \cup {row} ELSE stranded
     /\ UNCHANGED <<now, index, ordered, used, sequence, call, calls, owed,
                    lost, surplus>>

(* Only the row the index still holds is expired.                          *)
CheckIndex ==
  LET row == exp.row
  IN /\ exp.pc = "check"
     /\ exp' = IF index[row.key] = row THEN [exp EXCEPT !.pc = "delete"]
                                       ELSE IdleExp
     /\ stranded' = IF Unsettled(row) THEN stranded \cup {row} ELSE stranded
     /\ UNCHANGED <<now, index, ordered, used, sequence, call, calls, owed,
                    lost, surplus>>

(* The delete goes by the key, whatever row is there by now.               *)
DeleteIndex ==
  LET k == exp.row.key
  IN /\ exp.pc = "delete"
     /\ index' = [index EXCEPT ![k] = None]
     /\ exp' = [exp EXCEPT !.pc = IF index[k] = None THEN "release_again"
                                                     ELSE "release"]
     /\ UNCHANGED <<now, ordered, used, sequence, call, calls, history>>

ReleaseAndDispatch ==
  /\ exp.pc \in {"release", "release_again"}
  /\ Release(exp.pc = "release_again")
  /\ owed' = owed \ {exp.row}
  /\ exp' = IdleExp
  /\ UNCHANGED <<now, index, ordered, sequence, call, calls, lost, stranded>>

Tick ==
  /\ now < MaxNow \/ \E row \in ordered : row.at > now
  /\ now' = now + 1
  /\ UNCHANGED <<index, ordered, used, sequence, call, exp, calls, history>>

-----------------------------------------------------------------------------
CallStep(c) ==
  \/ LookupIndex(c) \/ Reserve(c) \/ UndoReserve(c) \/ Claim(c)
  \/ GiveSlot(c) \/ Replace(c) \/ DropOld(c) \/ FinishCancel(c)

ExpStep ==
  \/ \E row \in ordered : TakeDue(row)
  \/ CheckIndex \/ DeleteIndex \/ ReleaseAndDispatch

Next ==
  \/ Tick
  \/ \E c \in Callers :
       \/ \E k \in Uses[c] : Cancel(c, k) \/ \E ttl \in Ttls : Schedule(c, k, ttl)
       \/ CallStep(c)
  \/ ExpStep

Spec == Init /\ [][Next]_vars

(* The clock runs, the service ticks, and a call once made goes on.        *)
Fairness ==
  /\ WF_vars(Tick) /\ WF_vars(ExpStep)
  /\ \A c \in Callers : WF_vars(CallStep(c))

FairSpec == Spec /\ Fairness

-----------------------------------------------------------------------------
(* Properties.                                                             *)

RowType == [key : Keys, at : Nat, token : Nat]
CallType == [pc : {"idle", "lookup", "reserve", "undo", "claim", "give",
                   "replace", "drop_old", "cancel"},
             row : RowType \cup {None}, old : RowType \cup {None},
             tries : Nat]
ExpType == [pc : {"idle", "check", "delete", "release", "release_again"},
            row : RowType \cup {None}]

(* Every variable has its type, and a row is filed under its own key.      *)
TypeOK ==
  /\ {now, used, sequence, calls, surplus} \subseteq Nat
  /\ index \in [Keys -> RowType \cup {None}]
  /\ \A k \in Keys : index[k] # None => index[k].key = k
  /\ {ordered, owed, lost, stranded} \subseteq SUBSET RowType
  /\ call \in [Callers -> CallType]
  /\ exp \in ExpType

Rows == {k \in Keys : index[k] # None}
Holding == {c \in Callers :
              call[c].pc \in {"undo", "claim", "give", "cancel"}}

(* The entry count is the number of keys with a deadline, plus the slots   *)
(* that a caller or the service is about to give back, less the surplus of *)
(* slots given back twice; every surplus comes from a cancel that met the  *)
(* expiry of the same row.                                                 *)
UsedExact ==
  used + surplus = Cardinality(Rows) + Cardinality(Holding)
                     + (IF exp.pc = "release" THEN 1 ELSE 0)

(* A deadline that was accepted and not moved or cancelled is going to be  *)
(* met: its row is in both tables, or the service has it in its hands.     *)
(* The two races that break this promise are named: a row accepted while   *)
(* the key's previous row was being deleted (lost), and a row that was due *)
(* before its caller had entered it in the index (stranded).               *)
PromisesKept ==
  \A row \in owed :
    \/ index[row.key] = row /\ (row \in ordered \cup stranded)
    \/ exp.pc # "idle" /\ exp.row = row
    \/ row \in lost

(* The limit of the service, max_expiry_entries (the "explicit admission   *)
(* budget" of test/control_admission_test.exs:27).                         *)
WithinBudget == Cardinality(Rows) <= Limit

(* Nothing stays in the service for good except what was stranded, however *)
(* often deadlines are moved and cancelled.                                *)
Drains ==
  <>[](/\ ordered = {}
       /\ \A k \in Keys : index[k] # None => index[k] \in stranded)
=============================================================================
