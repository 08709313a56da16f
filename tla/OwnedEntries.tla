----------------------------- MODULE OwnedEntries -----------------------------
(***************************************************************************)
(* Activities and receipts (lib/wiregrid/activity.ex, receipts.ex): small  *)
(* values with a deadline that belong to a session.  Both are the same     *)
(* code; this module follows activity.ex.  Writers, the expiry service and *)
(* the Runtime that cleans up after a session work on the same tables      *)
(* without a lock.  A key is claimed first (activity_keys, the owner with  *)
(* its token), and whoever deletes the record gives the key back.          *)
(***************************************************************************)
EXTENDS Integers, FiniteSets

CONSTANTS
  Sessions,
  Keys,           \* {session, topic, kind}
  SessionOf,      \* the session a key belongs to
  Writers,        \* processes that put
  Service,        \* the expiry service
  Runtime,
  None,
  Limits,         \* configurations: max_activity_entries and _per_session
  Ttls, Values,
  MaxTries,       \* @claim_retries
  MaxPuts,        \* bound: puts altogether
  MaxNow,         \* bound: the last tick without a deadline ahead
  MaxKills        \* bound: writers killed and restarts of the Runtime

ASSUME EntryConstants ==
  /\ IsFiniteSet(Sessions) /\ IsFiniteSet(Keys) /\ IsFiniteSet(Writers)
  /\ SessionOf \in [Keys -> Sessions]
  /\ Service # Runtime /\ {Service, Runtime} \cap Writers = {}
  /\ Limits \subseteq [all : Nat \ {0}, session : Nat \ {0}] /\ MaxTries \in Nat \ {0}
  /\ {MaxPuts, MaxNow, MaxKills} \subseteq Nat /\ Ttls \subseteq Nat \ {0}
  /\ None \notin [owner : Nat, at : Nat, value : Values \cup {None}] /\ None \notin Nat
  /\ None \notin Keys \cup Sessions /\ None \notin [at : Nat, stuck : BOOLEAN]

VARIABLES
  limit,      \* the configuration of this instance
  now,
  monitor,    \* sessions: the monitor in the session's row, 0 = no row
  counted,    \* session_counters, position 3, or None without a row
  record,     \* activities: the record of a key, or None
  owner,      \* activity_keys: the token of a key, or None
  token,      \* the last token given out
  byTopic,    \* activities_by_topic
  bySession,  \* activities_by_session
  used,       \* capacity: activity_entries
  timer,      \* the expiry service's deadline of a key, or None
  proc,       \* what each process is doing
  ending,     \* the session the Runtime is cleaning up after, or None
  todo,       \* and its keys that are still to be removed
  puts, kills,
  unwatched,  \* history: owners whose record has no timer that will come
  strays,     \* history: keys indexed after their record was gone
  broken,     \* history: owners whose process died at work on them
  leaked      \* history: slots of processes that died

vars == <<limit, now, monitor, counted, record, owner, token, byTopic,
          bySession, used, timer, proc, ending, todo, puts, kills, unwatched, strays,
          broken, leaked>>
lists   == <<byTopic, bySession>>
counts  == <<counted, used>>
sweep   == <<ending, todo>>
bounds  == <<puts, kills>>
history == <<unwatched, strays, broken, leaked>>
keys    == <<record, owner, token>>
env     == <<limit, now, monitor, sweep, bounds>>

data == <<env, counts, keys, lists, timer, history>>

Procs == Writers \cup {Service, Runtime}
Rest == [pc |-> "idle", key |-> None, mon |-> 0, ttl |-> 0, at |-> 0,
         owner |-> 0, value |-> None, old |-> None, tries |-> 0, claims |-> 0,
         again |-> FALSE]

Init ==
  /\ limit \in Limits
  /\ now = 0 /\ token = 0 /\ used = 0 /\ puts = 0 /\ kills = 0
  /\ monitor = [s \in Sessions |-> 1] /\ counted = [s \in Sessions |-> 0]
  /\ record = [k \in Keys |-> None] /\ owner = [k \in Keys |-> None]
  /\ timer = [k \in Keys |-> None]
  /\ byTopic = {} /\ bySession = {}
  /\ proc = [p \in Procs |-> Rest] /\ ending = None /\ todo = {}
  /\ unwatched = {} /\ strays = {} /\ broken = {} /\ leaked = 0

At(p, pc)   == proc[p].pc = pc
Goto(p, pc) == proc' = [proc EXCEPT ![p].pc = pc]
Done(p)     == proc' = [proc EXCEPT ![p] = Rest]
KeyOf(p)    == proc[p].key
Session(p)  == SessionOf[KeyOf(p)]
Mine(p)     == [owner |-> proc[p].owner, at |-> proc[p].at,
                value |-> proc[p].value]

Less(n) == IF n = 0 THEN 0 ELSE n - 1

(* What Expiry.schedule_at does to the deadline of a key.  One that is due *)
(* when it is scheduled may be taken before it is in the index, and stays  *)
(* there for good (stranded, in Expiry).                                   *)
SetTimer(k, at) ==
  \E stuck \in BOOLEAN :
    /\ stuck => at <= now
    /\ timer' = [timer EXCEPT ![k] = [at |-> at, stuck |-> stuck]]
    /\ unwatched' = IF record[k] = None THEN unwatched
                    ELSE IF stuck THEN unwatched \cup {record[k].owner}
                                  ELSE unwatched \ {record[k].owner}

-----------------------------------------------------------------------------
(* put                                                                     *)
Put(w, k, ttl, v) ==
  /\ At(w, "idle") /\ puts < MaxPuts
  /\ monitor[SessionOf[k]] # 0
  /\ proc' = [proc EXCEPT ![w] =
                [Rest EXCEPT !.pc = "claim", !.key = k, !.ttl = ttl,
                             !.value = v, !.mon = monitor[SessionOf[k]],
                             !.at = now + ttl]]
  /\ puts' = puts + 1
  /\ UNCHANGED <<limit, now, monitor, counts, keys, lists, timer, sweep,
                 kills, history>>

(* store_retry starts over with a new deadline.                            *)
Retry(w) ==
  IF proc[w].tries + 1 < MaxTries
  THEN proc' = [proc EXCEPT ![w].pc = "claim", ![w].tries = @ + 1,
                            ![w].claims = proc[w].tries + 1, ![w].old = None,
                            ![w].at = now + proc[w].ttl]
  ELSE Done(w)

(* claim_owner: the key has an owner already, or it needs a slot.          *)
Claim(w) ==
  LET k == KeyOf(w)
  IN /\ At(w, "claim")
     /\ IF owner[k] = None
        THEN Goto(w, "reserve")
        ELSE proc' = [proc EXCEPT ![w].pc = "lookup", ![w].owner = owner[k]]
     /\ UNCHANGED data

Reserve(w) ==
  /\ At(w, "reserve")
  /\ used' = used + 1
  /\ Goto(w, IF used < limit.all THEN "count" ELSE "undo")
  /\ UNCHANGED <<env, counted, keys, lists, timer, history>>

UndoReserve(w) ==
  /\ At(w, "undo")
  /\ used' = used - 1
  /\ Done(w)
  /\ UNCHANGED <<env, counted, keys, lists, timer, history>>

(* The session's own limit; its counter row may be gone by now.            *)
Count(w) ==
  LET n == counted[Session(w)]
  IN /\ At(w, "count")
     /\ IF n = None
        THEN Goto(w, "release") /\ UNCHANGED counted
        ELSE /\ counted' = [counted EXCEPT ![Session(w)] = n + 1]
             /\ Goto(w, IF n + 1 <= limit.session THEN "own" ELSE "uncount")
     /\ UNCHANGED <<env, used, keys, lists, timer, history>>

(* Mutant of Own: the loser gives only the slot back.                      *)
MutantKeepsCount(w) ==
  LET k == KeyOf(w)
  IN /\ At(w, "own")
     /\ IF owner[k] = None
        THEN /\ token' = token + 1 /\ owner' = [owner EXCEPT ![k] = token + 1]
             /\ proc' = [proc EXCEPT ![w].pc = "install", ![w].owner = token + 1]
        ELSE /\ proc' = [proc EXCEPT ![w].pc = "release", ![w].again = TRUE]
             /\ UNCHANGED <<owner, token>>
     /\ UNCHANGED <<env, counts, record, lists, timer, history>>

(* insert_new: of two writers one wins.                                    *)
Own(w) ==
  LET k == KeyOf(w)
  IN /\ At(w, "own")
     /\ IF owner[k] = None
        THEN /\ token' = token + 1 /\ owner' = [owner EXCEPT ![k] = token + 1]
             /\ proc' = [proc EXCEPT ![w].pc = "install", ![w].owner = token + 1]
        ELSE /\ proc' = [proc EXCEPT ![w].pc = "uncount", ![w].again = TRUE]
             /\ UNCHANGED <<owner, token>>
     /\ UNCHANGED <<env, counts, record, lists, timer, history>>

Installed(w) ==
  /\ record' = [record EXCEPT ![KeyOf(w)] = Mine(w)]
  /\ proc' = [proc EXCEPT ![w] = [@ EXCEPT !.pc = "index", !.old = None,
                                !.ttl = 0, !.tries = 0, !.claims = 0]]

(* install_record of a new owner; that its insert_new finds no record, and *)
(* abandon_new_owner has nothing to do, is part of OneGeneration.          *)
Install(w) ==
  /\ At(w, "install")
  /\ Installed(w)
  /\ UNCHANGED <<env, counts, owner, token, lists, timer, history>>

(* Mutant of Replace: an insert, whatever is there by now.                 *)
MutantOverwrites(w) ==
  /\ At(w, "replace")
  /\ Installed(w)
  /\ UNCHANGED <<env, counts, owner, token, lists, timer, history>>

(* install_record under an owner that was there: only over its own record. *)
LookupRecord(w) ==
  LET r == record[KeyOf(w)]
  IN /\ At(w, "lookup")
     /\ IF r # None /\ r.owner = proc[w].owner
        THEN proc' = [proc EXCEPT ![w].pc = "replace", ![w].old = r]
        ELSE Retry(w)
     /\ UNCHANGED data

Replace(w) ==
  /\ At(w, "replace")
  /\ IF record[KeyOf(w)] = proc[w].old
     THEN Installed(w)
     ELSE Retry(w) /\ UNCHANGED record
  /\ UNCHANGED <<env, counts, owner, token, lists, timer, history>>

(* The two secondary indices.                                              *)
Index(w) ==
  LET k == KeyOf(w)
  IN /\ At(w, "index")
     /\ byTopic' = byTopic \cup {k} /\ bySession' = bySession \cup {k}
     /\ strays' = IF record[k] # None \/ \E p \in Procs : At(p, "unlist") /\ KeyOf(p) = k
                  THEN strays ELSE strays \cup {k}
     /\ Goto(w, "schedule")
     /\ UNCHANGED <<env, counts, keys, timer, unwatched, broken, leaked>>

(* A deadline that is refused takes the record with it.                    *)
Schedule(w) ==
  /\ At(w, "schedule")
  /\ \/ SetTimer(KeyOf(w), proc[w].at) /\ Goto(w, "recheck")
     \/ Goto(w, "remove") /\ UNCHANGED <<timer, unwatched>>
  /\ UNCHANGED <<env, counts, keys, lists, strays, broken, leaked>>

(* Mutant of Recheck: only the key is looked at.                           *)
MutantTrustsSession(w) ==
  /\ At(w, "recheck")
  /\ IF owner[KeyOf(w)] = proc[w].owner THEN Done(w) ELSE Goto(w, "remove")
  /\ UNCHANGED data

(* The key may have changed hands and the session may have ended.          *)
Recheck(w) ==
  /\ At(w, "recheck")
  /\ IF owner[KeyOf(w)] = proc[w].owner /\ monitor[Session(w)] = proc[w].mon
     THEN Done(w) ELSE Goto(w, "remove")
  /\ UNCHANGED data

-----------------------------------------------------------------------------
(* remove_record and rollback_record, in any of the processes: whoever     *)
(* deletes exactly this record gives the key back.                         *)
Return(p) == IF p = Runtime THEN Goto(p, "sweep") ELSE Done(p)

(* Mutant of Unlist: the index by topic keeps its row.                     *)
MutantKeepsTopic(p) ==
  LET k == KeyOf(p)
  IN /\ At(p, "unlist")
     /\ bySession' = bySession \ {k} /\ strays' = strays \ {k}
     /\ Goto(p, "cancel")
     /\ UNCHANGED <<env, counts, keys, byTopic, timer, unwatched, broken,
                    leaked>>

Remove(p) ==
  LET k == KeyOf(p)
  IN /\ At(p, "remove")
     /\ IF record[k] = Mine(p)
        THEN record' = [record EXCEPT ![k] = None] /\ Goto(p, "unlist")
        ELSE Return(p) /\ UNCHANGED record
     /\ UNCHANGED <<env, counts, owner, token, lists, timer, history>>

Unlist(p) ==
  LET k == KeyOf(p)
  IN /\ At(p, "unlist")
     /\ byTopic' = byTopic \ {k} /\ bySession' = bySession \ {k}
     /\ strays' = strays \ {k}
     /\ Goto(p, "cancel")
     /\ UNCHANGED <<env, counts, keys, timer, unwatched, broken, leaked>>

CancelTimer(p) ==
  /\ At(p, "cancel")
  /\ timer' = [timer EXCEPT ![KeyOf(p)] = None]
  /\ Goto(p, "disown")
  /\ UNCHANGED <<env, counts, keys, lists, history>>

Disown(p) ==
  LET k == KeyOf(p)
  IN /\ At(p, "disown")
     /\ IF owner[k] = proc[p].owner
        THEN owner' = [owner EXCEPT ![k] = None] /\ Goto(p, "uncount")
        ELSE Return(p) /\ UNCHANGED owner
     /\ UNCHANGED <<env, counts, record, token, lists, timer, history>>

Uncount(p) ==
  LET n == counted[Session(p)]
  IN /\ At(p, "uncount")
     /\ counted' = IF n = None THEN counted
                   ELSE [counted EXCEPT ![Session(p)] = Less(n)]
     /\ Goto(p, "release")
     /\ UNCHANGED <<env, used, keys, lists, timer, history>>

(* claim_owner tries again after it lost the key to another writer.        *)
Release(p) ==
  /\ At(p, "release")
  /\ used' = Less(used)
  /\ IF proc[p].again /\ proc[p].claims + 1 < MaxTries
     THEN proc' = [proc EXCEPT ![p].pc = "claim", ![p].again = FALSE,
                               ![p].claims = @ + 1]
     ELSE Return(p)
  /\ UNCHANGED <<env, counted, keys, lists, timer, history>>

-----------------------------------------------------------------------------
(* The expiry service: a deadline is due, its timer is deleted by key, and *)
(* the record is looked at.                                                *)
TakeDue(k) ==
  /\ At(Service, "idle")
  /\ timer[k] # None /\ ~timer[k].stuck /\ timer[k].at <= now
  /\ proc' = [proc EXCEPT ![Service] = [Rest EXCEPT !.pc = "delete", !.key = k,
                                                    !.at = timer[k].at]]
  /\ UNCHANGED data

DeleteTimer ==
  /\ At(Service, "delete")
  /\ timer' = [timer EXCEPT ![KeyOf(Service)] = None]
  /\ Goto(Service, "expire")
  /\ UNCHANGED <<env, counts, keys, lists, history>>

(* Mutant of Expire: a record whose deadline has moved is left alone.      *)
MutantNoRepair ==
  LET r == record[KeyOf(Service)]
  IN /\ At(Service, "expire")
     /\ IF r = None \/ r.at # proc[Service].at THEN Done(Service)
        ELSE proc' = [proc EXCEPT
               ![Service].pc = "remove", ![Service].owner = r.owner,
               ![Service].value = r.value]
     /\ UNCHANGED data

(* A record whose deadline has moved gets a timer again.                   *)
Expire ==
  LET r == record[KeyOf(Service)]
  IN /\ At(Service, "expire")
     /\ IF r = None THEN Done(Service)
        ELSE proc' = [proc EXCEPT
               ![Service].pc = IF r.at = proc[Service].at \/ r.at <= now
                               THEN "remove" ELSE "repair",
               ![Service].owner = r.owner, ![Service].at = r.at,
               ![Service].value = r.value]
     /\ UNCHANGED data

(* What schedule_at answers is ignored here.                               *)
Repair ==
  LET k == KeyOf(Service)
  IN /\ At(Service, "repair")
     /\ \/ SetTimer(k, proc[Service].at)
        \/ /\ unwatched' = IF record[k] = None \/ timer[k] # None THEN unwatched
                           ELSE unwatched \cup {record[k].owner}
           /\ UNCHANGED timer
     /\ Done(Service)
     /\ UNCHANGED <<env, counts, keys, lists, strays, broken, leaked>>

-----------------------------------------------------------------------------
(* The Runtime, after a session.                                           *)
EndSession(s) ==
  /\ At(Runtime, "idle") /\ monitor[s] # 0
  /\ monitor' = [monitor EXCEPT ![s] = 0]
  /\ ending' = s
  /\ Goto(Runtime, "list")
  /\ UNCHANGED <<limit, now, counts, keys, lists, timer, todo, bounds,
                 history>>

ListKeys ==
  /\ At(Runtime, "list")
  /\ todo' = {k \in bySession : SessionOf[k] = ending}
  /\ Goto(Runtime, "sweep")
  /\ UNCHANGED <<limit, now, monitor, counts, keys, lists, timer, ending,
                 bounds, history>>

Sweep(k) ==
  LET r == record[k]
  IN /\ At(Runtime, "sweep") /\ k \in todo
     /\ todo' = todo \ {k}
     /\ IF r = None THEN UNCHANGED proc
        ELSE proc' = [proc EXCEPT ![Runtime] =
                        [Rest EXCEPT !.pc = "remove", !.key = k,
                                     !.owner = r.owner, !.at = r.at,
                                     !.value = r.value]]
     /\ UNCHANGED <<limit, now, monitor, counts, keys, lists, timer, ending,
                    bounds, history>>

DropList ==
  /\ At(Runtime, "sweep") /\ todo = {}
  /\ bySession' = {k \in bySession : SessionOf[k] # ending}
  /\ Goto(Runtime, "drop_row")
  /\ UNCHANGED <<env, counts, keys, byTopic, timer, history>>

DropCounterRow ==
  /\ At(Runtime, "drop_row")
  /\ counted' = [counted EXCEPT ![ending] = None]
  /\ ending' = None /\ Done(Runtime)
  /\ UNCHANGED <<limit, now, monitor, used, keys, lists, timer, todo, bounds,
                 history>>

-----------------------------------------------------------------------------
(* A process that dies leaves its work as it is.  Where it held a key that *)
(* has no record, or a record without index or timer, nobody finishes it.  *)
SlotPcs == {"undo", "count", "own", "uncount", "release"}
OwnPcs  == {"install", "index", "schedule", "recheck", "remove", "unlist",
            "cancel", "disown"}

Dies(p) ==
  /\ kills < MaxKills /\ kills' = kills + 1
  /\ leaked' = IF proc[p].pc \in SlotPcs THEN leaked + 1 ELSE leaked
  /\ broken' = IF proc[p].pc \in OwnPcs THEN broken \cup {proc[p].owner}
                                        ELSE broken

Kill(w) ==
  /\ ~At(w, "idle") /\ Dies(w) /\ Done(w)
  /\ UNCHANGED <<limit, now, monitor, counts, keys, lists, timer, sweep, puts,
                 unwatched, strays>>

(* A new Runtime monitors the sessions that have a row again and drops the *)
(* counter rows of the others; nobody goes on with the cleanup.            *)
RestartRuntime ==
  /\ Dies(Runtime) /\ Done(Runtime) /\ ending' = None /\ todo' = {}
  /\ monitor' = [s \in Sessions |-> IF monitor[s] = 0 THEN 0 ELSE monitor[s] + 1]
  /\ counted' = [s \in Sessions |-> IF monitor[s] = 0 THEN None ELSE counted[s]]
  /\ UNCHANGED <<limit, now, used, keys, lists, timer, puts, unwatched,
                 strays>>

Tick ==
  /\ now < MaxNow \/ \E k \in Keys : timer[k] # None /\ timer[k].at > now
  /\ now' = now + 1
  /\ UNCHANGED <<limit, monitor, counts, keys, lists, timer, proc, sweep,
                 bounds, history>>

-----------------------------------------------------------------------------
RemoveStep(p) ==
  \/ Remove(p) \/ Unlist(p) \/ CancelTimer(p) \/ Disown(p) \/ Uncount(p)
  \/ Release(p)

WriterStep(w) ==
  \/ Claim(w) \/ Reserve(w) \/ UndoReserve(w) \/ Count(w) \/ Own(w)
  \/ Install(w) \/ LookupRecord(w) \/ Replace(w) \/ Index(w) \/ Schedule(w)
  \/ Recheck(w) \/ RemoveStep(w)

ServiceStep ==
  \/ \E k \in Keys : TakeDue(k)
  \/ DeleteTimer \/ Expire \/ Repair \/ RemoveStep(Service)

RuntimeStep ==
  \/ ListKeys \/ DropList \/ DropCounterRow \/ RemoveStep(Runtime)
  \/ \E k \in todo : Sweep(k)

Next ==
  \/ Tick
  \/ \E w \in Writers :
       \/ \E k \in Keys, ttl \in Ttls, v \in Values : Put(w, k, ttl, v)
       \/ WriterStep(w) \/ Kill(w)
  \/ ServiceStep
  \/ \E s \in Sessions : EndSession(s)
  \/ RuntimeStep \/ RestartRuntime

Spec == Init /\ [][Next]_vars

-----------------------------------------------------------------------------
(* Properties.                                                             *)
RecordType == [owner : Nat, at : Nat, value : Values]

TypeOK ==
  /\ limit \in Limits
  /\ {now, token, used, puts, kills, leaked} \subseteq Nat
  /\ monitor \in [Sessions -> Nat] /\ counted \in [Sessions -> Nat \cup {None}]
  /\ record \in [Keys -> RecordType \cup {None}]
  /\ owner \in [Keys -> Nat \cup {None}]
  /\ {byTopic, bySession, todo, strays} \subseteq SUBSET Keys
  /\ timer \in [Keys -> [at : Nat, stuck : BOOLEAN] \cup {None}]
  /\ ending \in Sessions \cup {None}
  /\ {unwatched, broken} \subseteq SUBSET Nat
  /\ proc \in [Procs -> [pc : SlotPcs \cup OwnPcs \cup
                 {"idle", "claim", "reserve", "lookup", "replace", "delete",
                  "expire", "repair", "list", "sweep", "drop_row"},
               key : Keys \cup {None}, mon : Nat, ttl : Nat, at : Nat,
               owner : Nat, value : Values \cup {None}, old : RecordType \cup {None}, tries : Nat,
               claims : Nat, again : BOOLEAN]]

(* A record always belongs to the present owner of its key: no writer      *)
(* installs under a token that was given back, and no removal of an old    *)
(* record frees the key under a new one.  A new owner finds the key empty. *)
OneGeneration ==
  /\ \A k \in Keys : record[k] # None => owner[k] = record[k].owner
  /\ \A w \in Writers : At(w, "install") => record[KeyOf(w)] = None

Owned(s)   == {k \in Keys : SessionOf[k] = s /\ owner[k] # None}
Slots      == {p \in Procs : proc[p].pc \in SlotPcs}
Counts(s)  == {p \in Procs : proc[p].pc \in {"own", "uncount"} /\ Session(p) = s}

(* The count of activities is the number of owned keys, plus the slots     *)
(* that a process is about to use or give back, plus those of the dead.  A *)
(* session's own count likewise, as long as nobody dies at work.           *)
CountsExact ==
  /\ used = Cardinality({k \in Keys : owner[k] # None}) + Cardinality(Slots) + leaked
  /\ kills = 0 => \A s \in Sessions : counted[s] # None =>
       counted[s] = Cardinality(Owned(s)) + Cardinality(Counts(s))

(* No more activities are stored than the configuration allows, altogether *)
(* and for one session, however the writers race for the last place.       *)
WithinLimit ==
  /\ Cardinality({k \in Keys : owner[k] # None}) <= limit.all
  /\ \A s \in Sessions : Cardinality(Owned(s)) <= limit.session

(* The accounts of the activities: exact, and so a bound that holds.       *)
Accounts == TypeOK /\ CountsExact /\ WithinLimit

(* The writers that are not done with the record of a key.                 *)
Finishing(k, pcs) ==
  \E w \in Writers : KeyOf(w) = k /\ proc[w].pc \in pcs /\ Mine(w) = record[k]

(* A record stays only if something will take it: its timer, the service,  *)
(* or the writer that has still to set it.                                 *)
Watched ==
  \A k \in Keys : record[k] # None =>
    \/ timer[k] # None
    \/ KeyOf(Service) = k
    \/ \E w \in Writers : KeyOf(w) = k /\ proc[w].pc \in {"index", "schedule", "remove"}
    \/ record[k].owner \in unwatched \cup broken

(* What a session left behind after its cleanup is in the hands of a       *)
(* writer that will see that the session is gone.                          *)
NothingOrphaned ==
  \A k \in Keys :
    record[k] # None /\ monitor[SessionOf[k]] = 0 /\ ending # SessionOf[k] /\ kills = 0
      => Finishing(k, {"index", "schedule", "recheck", "remove"})

(* Both indices lead to every record its writer is done with, and to no    *)
(* other key but the strays: a writer that indexes a key after its record  *)
(* was removed.                                                            *)
IndicesMatch ==
  \A k \in Keys :
    /\ record[k] # None /\ record[k].owner \notin broken =>
         \/ k \in byTopic /\ (k \in bySession \/ monitor[SessionOf[k]] = 0)
         \/ \E w \in Writers : KeyOf(w) = k /\ At(w, "index")
    /\ k \in byTopic => \/ record[k] # None
                        \/ \E p \in Procs : KeyOf(p) = k /\ At(p, "unlist")
                        \/ k \in strays \/ broken # {}
===============================================================================
