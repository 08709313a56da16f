-------------------------- MODULE OwnedEntries_proofs --------------------------
(***************************************************************************)
(* Proofs about OwnedEntries, for any number of sessions, keys, writers,   *)
(* puts and deaths: the accounts are exact and the limits hold, a key has  *)
(* one generation of record at a time, and a record is watched, listed and *)
(* never left to a session that is over.                                   *)
(***************************************************************************)
EXTENDS OwnedEntries, FiniteSetTheorems, TLAPS

(* The steps of each kind of process.                                      *)
RemovePcs  == {"remove", "unlist", "cancel", "disown", "uncount", "release"}
WriterPcs  == {"idle", "claim", "reserve", "undo", "count", "own", "install", "lookup",
               "replace", "index", "schedule", "recheck"} \cup RemovePcs
ServicePcs == {"idle", "delete", "expire", "repair"} \cup RemovePcs
RuntimePcs == {"idle", "list", "sweep", "drop_row"} \cup RemovePcs
Pcs        == WriterPcs \cup ServicePcs \cup RuntimePcs

ProcType == [pc : Pcs, key : Keys \cup {None}, mon : Nat, ttl : Nat, at : Nat,
             owner : Nat, value : Values \cup {None}, old : RecordType \cup {None},
             tries : Nat, claims : Nat, again : BOOLEAN]

(* A process works on a key; a writer for a session that had a row, and it *)
(* replaces a record of the owner it found.                                *)
PcsOf(p) == IF p = Service THEN ServicePcs ELSE IF p = Runtime THEN RuntimePcs ELSE WriterPcs
WorkPcs  == Pcs \ {"idle", "list", "sweep", "drop_row"}
Works(p) ==
  /\ proc[p].pc \in PcsOf(p)
  /\ proc[p].pc \in WorkPcs => KeyOf(p) \in Keys
  /\ p \in Writers /\ proc[p].pc # "idle" => proc[p].value \in Values /\ proc[p].mon # 0
  /\ At(p, "replace") => proc[p].old # None /\ proc[p].old.owner = proc[p].owner
  /\ p \notin Writers => ~proc[p].again
Working == \A p \in Procs : Works(p)

(* Between its claim and its record, and between the removal of the record *)
(* and giving the key back, one process has the key, and there is no       *)
(* record.                                                                 *)
HolderPcs == {"install", "unlist", "cancel", "disown"}
Holds(p, k) == proc[p].pc \in HolderPcs /\ KeyOf(p) = k

Held ==
  /\ \A p \in Procs, k \in Keys :
       Holds(p, k) => owner[k] = proc[p].owner /\ record[k] = None
  /\ \A p, q \in Procs, k \in Keys : Holds(p, k) /\ Holds(q, k) => p = q

(* Tokens are given out once.                                              *)
Tokens ==
  /\ \A k \in Keys : owner[k] # None => owner[k] <= token
  /\ \A k, l \in Keys : owner[k] # None /\ owner[k] = owner[l] => k = l

RecordsOwned == \A k \in Keys : record[k] # None => owner[k] = record[k].owner

Generations == RecordsOwned /\ Held /\ Tokens

(* Who is admitted fits into the limits with the keys that are owned; the  *)
(* count of a session is never too low.                                    *)
OwnedKeys == {k \in Keys : owner[k] # None}
AtPcs(S)  == {p \in Procs : proc[p].pc \in S}
For(S, s) == {p \in Procs : proc[p].pc \in S /\ Session(p) = s}

Admitted ==
  /\ Cardinality(OwnedKeys) + Cardinality(AtPcs({"count", "own"})) <= limit.all
  /\ \A s \in Sessions :
       /\ Cardinality(Owned(s)) + Cardinality(For({"own"}, s)) <= limit.session
       /\ counted[s] # None =>
            Cardinality(Owned(s)) + Cardinality(For({"own", "uncount"}, s)) <= counted[s]

Base == TypeOK /\ CountsExact /\ Admitted /\ Working /\ Generations

(* A record that is its writer's own, or its service's.                    *)
HeldBy(p, k, pcs) == KeyOf(p) = k /\ proc[p].pc \in pcs /\ Mine(p) = record[k]

(* Watched, with who exactly will take or watch the record.                *)
WatchedWell ==
  \A k \in Keys : record[k] # None =>
    \/ timer[k] # None
    \/ KeyOf(Service) = k /\ proc[Service].pc \in {"delete", "expire", "repair"}
    \/ HeldBy(Service, k, {"remove"})
    \/ \E w \in Writers : HeldBy(w, k, {"index", "schedule", "remove"})
    \/ record[k].owner \in unwatched \cup broken

(* IndicesMatch, with the writer that will index its own record.           *)
Indexing(k) == \E w \in Writers : HeldBy(w, k, {"index"})
ListedWell ==
  \A k \in Keys : record[k] # None /\ record[k].owner \notin broken =>
    \/ k \in byTopic /\ (k \in bySession \/ monitor[SessionOf[k]] = 0)
    \/ Indexing(k)

(* How far the Runtime is with a session, and what it has still to meet.   *)
Ending ==
  /\ ending # None <=> ~At(Runtime, "idle")
  /\ ending # None => monitor[ending] = 0
  /\ ~(proc[Runtime].pc \in {"sweep"} \cup RemovePcs) => todo = {}
SweepPcs == {"sweep"} \cup RemovePcs
Swept ==
  kills = 0 => \A k \in Keys : record[k] # None =>
    LET s == SessionOf[k]
    IN \/ Finishing(k, {"index", "schedule", "recheck", "remove"})
       \/ (monitor[s] # 0 \/ (ending = s /\ At(Runtime, "list"))) /\ k \in bySession
       \/ /\ ending = s /\ proc[Runtime].pc \in SweepPcs
          /\ k \in todo \/ HeldBy(Runtime, k, {"remove"})

OrphansInv == Ending /\ Swept

-----------------------------------------------------------------------------
(* Steps of processes.                                                     *)
Others(p) == proc' \in [Procs -> ProcType] /\ \A q \in Procs \ {p} : proc'[q] = proc[q]
Stays(p)  == /\ proc'[p].key = proc[p].key /\ proc'[p].mon = proc[p].mon
             /\ proc'[p].at = proc[p].at /\ proc'[p].owner = proc[p].owner
             /\ proc'[p].value = proc[p].value /\ proc'[p].again = proc[p].again
Moves(p, to) == Others(p) /\ Stays(p) /\ proc'[p].pc = to
Rests(p)     == Others(p) /\ proc'[p] = Rest

(* The parts of a type, one by one.                                        *)
Typed == TypeOK /\ Working

LEMMA TypeFacts ==
  ASSUME TypeOK
  PROVE  /\ proc \in [Procs -> ProcType]
         /\ record \in [Keys -> RecordType \cup {None}]
         /\ owner \in [Keys -> Nat \cup {None}]
         /\ counted \in [Sessions -> Nat \cup {None}]
         /\ monitor \in [Sessions -> Nat]
         /\ timer \in [Keys -> [at : Nat, stuck : BOOLEAN] \cup {None}]
         /\ limit \in Limits /\ now \in Nat /\ token \in Nat /\ used \in Nat
         /\ puts \in Nat /\ kills \in Nat /\ leaked \in Nat
         /\ byTopic \subseteq Keys /\ bySession \subseteq Keys /\ todo \subseteq Keys
         /\ strays \subseteq Keys /\ ending \in Sessions \cup {None}
         /\ unwatched \subseteq Nat /\ broken \subseteq Nat
<1>1. Pcs = SlotPcs \cup OwnPcs \cup
              {"idle", "claim", "reserve", "lookup", "replace", "delete",
               "expire", "repair", "list", "sweep", "drop_row"}
  BY DEF Pcs, WriterPcs, ServicePcs, RuntimePcs, RemovePcs, SlotPcs, OwnPcs
<1> QED BY <1>1 DEF TypeOK, ProcType

LEMMA TypeFrom ==
  ASSUME /\ proc' \in [Procs -> ProcType]
         /\ record' \in [Keys -> RecordType \cup {None}]
         /\ owner' \in [Keys -> Nat \cup {None}]
         /\ counted' \in [Sessions -> Nat \cup {None}]
         /\ monitor' \in [Sessions -> Nat]
         /\ timer' \in [Keys -> [at : Nat, stuck : BOOLEAN] \cup {None}]
         /\ limit' \in Limits /\ now' \in Nat /\ token' \in Nat /\ used' \in Nat
         /\ puts' \in Nat /\ kills' \in Nat /\ leaked' \in Nat
         /\ byTopic' \subseteq Keys /\ bySession' \subseteq Keys /\ todo' \subseteq Keys
         /\ strays' \subseteq Keys /\ ending' \in Sessions \cup {None}
         /\ unwatched' \subseteq Nat /\ broken' \subseteq Nat
  PROVE  TypeOK'
<1>1. Pcs = SlotPcs \cup OwnPcs \cup
              {"idle", "claim", "reserve", "lookup", "replace", "delete",
               "expire", "repair", "list", "sweep", "drop_row"}
  BY DEF Pcs, WriterPcs, ServicePcs, RuntimePcs, RemovePcs, SlotPcs, OwnPcs
<1> QED BY <1>1 DEF TypeOK, ProcType

LEMMA RestType ==
  /\ Rest \in ProcType /\ Rest.pc = "idle" /\ Rest.key = None /\ Rest.again = FALSE
  /\ Rest.old = None /\ Rest.owner = 0
  BY DEF Rest, ProcType, Pcs, WriterPcs

LEMMA NamesDiffer ==
  /\ Service # Runtime /\ Service \notin Writers /\ Runtime \notin Writers
  /\ Service \in Procs /\ Runtime \in Procs /\ Writers \subseteq Procs
  /\ Procs = Writers \cup {Service, Runtime}
  BY EntryConstants DEF Procs

LEMMA GotoMoves ==
  ASSUME TypeOK, NEW p \in Procs, NEW to \in Pcs, Goto(p, to)
  PROVE  Moves(p, to) /\ proc'[p].old = proc[p].old
<1>1. proc \in [Procs -> ProcType] /\ proc[p] \in ProcType
  BY TypeFacts
<1> DEFINE new == [proc[p] EXCEPT !.pc = to]
<1>2. new \in ProcType
  BY <1>1 DEF ProcType
<1>3. proc' = [proc EXCEPT ![p] = new]
  BY DEF Goto
<1>4. Others(p) /\ proc'[p] = new
  BY <1>1, <1>2, <1>3 DEF Others
<1> QED BY <1>1, <1>4 DEF Moves, Stays, ProcType

LEMMA DoneRests ==
  ASSUME TypeOK, NEW p \in Procs, Done(p) PROVE Rests(p)
  BY TypeFacts, RestType DEF Done, Rests, Others

LEMMA ReturnIs ==
  ASSUME TypeOK, NEW p \in Procs, Return(p)
  PROVE  (p = Runtime /\ Moves(p, "sweep")) \/ (p # Runtime /\ Rests(p))
  BY GotoMoves, DoneRests DEF Return, Pcs, RuntimePcs

-----------------------------------------------------------------------------
(* A process at another step of the same work, perhaps with another token. *)
Shifts(p, to) == /\ Others(p) /\ proc'[p].pc = to /\ proc'[p].key = proc[p].key
                 /\ proc'[p].mon = proc[p].mon /\ proc'[p].value = proc[p].value

LEMMA WorksMoves ==
  ASSUME Typed, NEW p \in Procs, NEW to \in PcsOf(p), Moves(p, to), to # "replace",
         proc[p].pc \in WorkPcs \/ to \notin WorkPcs,
         p \in Writers => proc[p].pc # "idle"
  PROVE  Works(p)'
  BY DEF Typed, Working, Works, Moves, Stays, At, KeyOf

LEMMA WorksRests ==
  ASSUME NEW p \in Procs, Rests(p) PROVE Works(p)'
  BY RestType DEF Works, Rests, PcsOf, ServicePcs, RuntimePcs, WriterPcs, WorkPcs, At

LEMMA WorkingStep ==
  ASSUME Typed, NEW p \in Procs, Others(p), Works(p)' PROVE Working'
  BY DEF Typed, Working, Works, Others, At, KeyOf

LEMMA RetryMoves ==
  ASSUME Typed, NEW w \in Writers, Retry(w)
  PROVE  Rests(w) \/ (Shifts(w, "claim") /\ proc'[w].again = proc[w].again)
<1>1. proc \in [Procs -> ProcType] /\ proc[w] \in ProcType /\ w \in Procs
  BY TypeFacts, NamesDiffer DEF Typed
<1>2. CASE proc[w].tries + 1 < MaxTries
  <2> DEFINE new == [proc[w] EXCEPT !.pc = "claim", !.tries = @ + 1, !.old = None,
                       !.claims = proc[w].tries + 1, !.at = now + proc[w].ttl]
  <2>0. now + proc[w].ttl \in Nat /\ proc[w].tries + 1 \in Nat
    BY <1>1, TypeFacts DEF Typed, ProcType
  <2>1. new \in ProcType
    BY <1>1, <2>0 DEF ProcType, Pcs, WriterPcs
  <2>2. proc' = [proc EXCEPT ![w] = new]
    BY <1>1, <1>2 DEF Retry, ProcType
  <2> QED BY <1>1, <2>1, <2>2 DEF Shifts, Others, ProcType
<1>3. CASE ~(proc[w].tries + 1 < MaxTries)
  BY <1>1, <1>3, DoneRests DEF Retry, Typed
<1> QED BY <1>2, <1>3

LEMMA InstalledMoves ==
  ASSUME Typed, NEW w \in Writers, proc[w].pc \in {"install", "replace"}, Installed(w)
  PROVE  /\ Moves(w, "index") /\ KeyOf(w) \in Keys /\ Mine(w) \in RecordType
         /\ record' = [record EXCEPT ![KeyOf(w)] = Mine(w)] /\ Mine(w)' = Mine(w)
<1>1. proc \in [Procs -> ProcType] /\ proc[w] \in ProcType /\ w \in Procs
  BY TypeFacts, NamesDiffer DEF Typed
<1>2. KeyOf(w) \in Keys /\ Mine(w) \in RecordType
  BY <1>1 DEF Typed, Working, Works, WorkPcs, Pcs, WriterPcs, Mine, RecordType, ProcType
<1> DEFINE new == [proc[w] EXCEPT !.pc = "index", !.old = None, !.ttl = 0, !.tries = 0,
                     !.claims = 0]
<1>3. new \in ProcType
  BY <1>1 DEF ProcType, Pcs, WriterPcs
<1>4. proc' = [proc EXCEPT ![w] = new]
  BY DEF Installed
<1>5. Others(w) /\ proc'[w] = new
  BY <1>1, <1>3, <1>4 DEF Others
<1>6. Moves(w, "index")
  BY <1>1, <1>5 DEF Moves, Stays, ProcType
<1> QED BY <1>2, <1>6 DEF Installed, Mine, Moves, Stays

LEMMA PutMoves ==
  ASSUME Typed, NEW w \in Writers, NEW k \in Keys, NEW ttl \in Ttls, NEW v \in Values,
         Put(w, k, ttl, v)
  PROVE  /\ Others(w) /\ At(w, "idle") /\ proc'[w].pc = "claim" /\ proc'[w].key = k
         /\ Works(w)'
<1>1. proc \in [Procs -> ProcType] /\ proc[w] \in ProcType /\ w \in Procs
  BY TypeFacts, NamesDiffer DEF Typed
<1>2. /\ SessionOf[k] \in Sessions /\ monitor[SessionOf[k]] \in Nat \ {0} /\ now + ttl \in Nat
      /\ ttl \in Nat
  BY EntryConstants, TypeFacts DEF Typed, Put
<1> DEFINE new == [Rest EXCEPT !.pc = "claim", !.key = k, !.ttl = ttl, !.value = v,
                     !.mon = monitor[SessionOf[k]], !.at = now + ttl]
<1>3. new \in ProcType
  BY <1>2, RestType DEF ProcType, Pcs, WriterPcs
<1>4. proc' = [proc EXCEPT ![w] = new]
  BY DEF Put
<1>5. Others(w) /\ proc'[w] = new
  BY <1>1, <1>3, <1>4 DEF Others
<1>6. /\ new.pc = "claim" /\ new.key = k /\ new.value = v /\ new.mon = monitor[SessionOf[k]]
      /\ new.again = FALSE
  BY RestType DEF ProcType
<1> HIDE DEF new
<1> QED BY <1>2, <1>5, <1>6, NamesDiffer DEF Put, Works, At, KeyOf, PcsOf, WriterPcs

(* The writer's steps: where it goes, and that it has what it needs there. *)
LEMMA WriterMoves ==
  ASSUME Typed, NEW w \in Writers
  PROVE  /\ Claim(w) => At(w, "claim") /\ Works(w)'
              /\ (Moves(w, "reserve") \/ Shifts(w, "lookup"))
         /\ Reserve(w) => At(w, "reserve") /\ Works(w)'
              /\ Moves(w, IF used < limit.all THEN "count" ELSE "undo")
         /\ UndoReserve(w) => At(w, "undo") /\ Rests(w) /\ Works(w)'
         /\ Count(w) => At(w, "count") /\ Works(w)'
              /\ Moves(w, IF counted[Session(w)] = None THEN "release"
                          ELSE IF counted[Session(w)] + 1 <= limit.session THEN "own"
                          ELSE "uncount")
         /\ Own(w) => At(w, "own") /\ Works(w)'
              /\ IF owner[KeyOf(w)] = None
                 THEN Shifts(w, "install") /\ proc'[w].owner = token + 1
                 ELSE Shifts(w, "uncount")
<1>0. /\ proc \in [Procs -> ProcType] /\ proc[w] \in ProcType /\ w \in Procs /\ TypeOK
      /\ PcsOf(w) = WriterPcs /\ Works(w)
  BY TypeFacts, NamesDiffer DEF Typed, Working, PcsOf
<1>1. ASSUME NEW pc \in WriterPcs, NEW to \in WriterPcs \ {"idle", "replace"}, pc # "idle",
             At(w, pc), Goto(w, to)
      PROVE  Moves(w, to) /\ Works(w)'
  <2>1. Moves(w, to)
    BY <1>0, <1>1, GotoMoves DEF Pcs
  <2>2. proc[w].pc \in WorkPcs
    BY <1>1 DEF At, WorkPcs, Pcs, WriterPcs, RemovePcs
  <2> QED BY <1>0, <1>1, <2>1, <2>2, WorksMoves DEF At
<1>2. ASSUME Claim(w)
      PROVE  At(w, "claim") /\ Works(w)' /\ (Moves(w, "reserve") \/ Shifts(w, "lookup"))
  <2>1. CASE owner[KeyOf(w)] = None
    BY <1>1, <1>2, <2>1 DEF Claim, WriterPcs
  <2>2. CASE owner[KeyOf(w)] # None
    <3> DEFINE new == [proc[w] EXCEPT !.pc = "lookup", !.owner = owner[KeyOf(w)]]
    <3>1. KeyOf(w) \in Keys /\ proc[w].value \in Values /\ proc[w].mon # 0
      BY <1>0, <1>2 DEF Claim, At, Works, WorkPcs, Pcs, WriterPcs
    <3>2. owner[KeyOf(w)] \in Nat
      BY <2>2, <3>1, TypeFacts DEF Typed
    <3>3. new \in ProcType
      BY <1>0, <3>2 DEF ProcType, Pcs, WriterPcs
    <3>4. proc' = [proc EXCEPT ![w] = new]
      BY <1>0, <1>2, <2>2 DEF Claim
    <3>5. Others(w) /\ proc'[w] = new
      BY <1>0, <3>3, <3>4 DEF Others
    <3>6. Shifts(w, "lookup")
      BY <1>0, <3>5 DEF Shifts, ProcType
    <3>7. Works(w)'
      BY <1>0, <3>1, <3>6, NamesDiffer DEF Shifts, Works, WriterPcs, At, KeyOf, PcsOf
    <3> QED BY <1>2, <3>6, <3>7 DEF Claim
  <2> QED BY <2>1, <2>2
<1>3. ASSUME Reserve(w)
      PROVE  /\ At(w, "reserve") /\ Works(w)'
             /\ Moves(w, IF used < limit.all THEN "count" ELSE "undo")
  BY <1>1, <1>3 DEF Reserve, WriterPcs
<1>4. ASSUME UndoReserve(w) PROVE At(w, "undo") /\ Rests(w) /\ Works(w)'
  BY <1>0, <1>4, DoneRests, WorksRests DEF UndoReserve
<1>5. ASSUME Count(w)
      PROVE  /\ At(w, "count") /\ Works(w)'
             /\ Moves(w, IF counted[Session(w)] = None THEN "release"
                         ELSE IF counted[Session(w)] + 1 <= limit.session THEN "own"
                         ELSE "uncount")
  BY <1>1, <1>5 DEF Count, WriterPcs, RemovePcs
<1>6. ASSUME Own(w)
      PROVE  /\ At(w, "own") /\ Works(w)'
             /\ IF owner[KeyOf(w)] = None
                THEN Shifts(w, "install") /\ proc'[w].owner = token + 1
                ELSE Shifts(w, "uncount")
  <2> DEFINE new == IF owner[KeyOf(w)] = None
                    THEN [proc[w] EXCEPT !.pc = "install", !.owner = token + 1]
                    ELSE [proc[w] EXCEPT !.pc = "uncount", !.again = TRUE]
  <2>1. KeyOf(w) \in Keys /\ proc[w].value \in Values /\ proc[w].mon # 0
    BY <1>0, <1>6 DEF Own, At, Works, WorkPcs, Pcs, WriterPcs
  <2>2. token + 1 \in Nat
    BY TypeFacts DEF Typed
  <2>3. new \in ProcType
    BY <1>0, <2>2 DEF ProcType, Pcs, WriterPcs, RemovePcs
  <2>4. proc' = [proc EXCEPT ![w] = new]
    BY <1>0, <1>6 DEF Own
  <2>5. Others(w) /\ proc'[w] = new
    BY <1>0, <2>3, <2>4 DEF Others
  <2>6. IF owner[KeyOf(w)] = None
        THEN Shifts(w, "install") /\ proc'[w].owner = token + 1
        ELSE Shifts(w, "uncount")
    BY <1>0, <2>5 DEF Shifts, ProcType
  <2>7. Works(w)'
    BY <1>0, <2>1, <2>6, NamesDiffer DEF Shifts, Works, WriterPcs, RemovePcs, At, KeyOf, PcsOf
  <2> QED BY <1>6, <2>6, <2>7 DEF Own
<1> QED BY <1>2, <1>3, <1>4, <1>5, <1>6

LEMMA InstallerMoves ==
  ASSUME Typed, NEW w \in Writers
  PROVE  /\ Install(w) => At(w, "install") /\ Installed(w) /\ Works(w)'
         /\ LookupRecord(w) => At(w, "lookup") /\ Works(w)'
              /\ (Shifts(w, "replace") \/ Shifts(w, "claim") \/ Rests(w))
         /\ Replace(w) => At(w, "replace") /\ Works(w)'
              /\ \/ record[KeyOf(w)] # None /\ record[KeyOf(w)].owner = proc[w].owner
                    /\ Installed(w)
                 \/ (Shifts(w, "claim") \/ Rests(w)) /\ record' = record
         /\ Index(w) => At(w, "index") /\ Moves(w, "schedule") /\ Works(w)'
         /\ Schedule(w) => At(w, "schedule") /\ Works(w)'
              /\ \/ SetTimer(KeyOf(w), proc[w].at) /\ Moves(w, "recheck")
                 \/ Moves(w, "remove") /\ timer' = timer /\ unwatched' = unwatched
         /\ Recheck(w) => At(w, "recheck") /\ Works(w)'
              /\ \/ owner[KeyOf(w)] = proc[w].owner /\ monitor[Session(w)] = proc[w].mon
                    /\ Rests(w)
                 \/ Moves(w, "remove")
<1>0. /\ proc \in [Procs -> ProcType] /\ proc[w] \in ProcType /\ w \in Procs /\ TypeOK
      /\ PcsOf(w) = WriterPcs /\ Works(w)
  BY TypeFacts, NamesDiffer DEF Typed, Working, PcsOf
<1>1. ASSUME NEW pc \in WriterPcs, NEW to \in WriterPcs \ {"idle", "replace"}, pc # "idle",
             At(w, pc), Moves(w, to)
      PROVE  Works(w)'
  <2>1. proc[w].pc \in WorkPcs
    BY <1>1 DEF At, WorkPcs, Pcs, WriterPcs, RemovePcs
  <2> QED BY <1>0, <1>1, <2>1, WorksMoves DEF At
<1>2. ASSUME NEW to \in WriterPcs, Goto(w, to) PROVE Moves(w, to)
  BY <1>0, <1>2, GotoMoves DEF Pcs
<1>3. ASSUME NEW pc \in {"install", "replace"}, At(w, pc), Installed(w) PROVE Works(w)'
  BY <1>1, <1>3, InstalledMoves DEF At, WriterPcs
<1>4. ASSUME NEW pc \in {"lookup", "replace"}, At(w, pc), Retry(w)
      PROVE  Works(w)' /\ (Shifts(w, "claim") \/ Rests(w))
  <2>1. CASE Rests(w)
    BY <1>0, <2>1, WorksRests
  <2>2. CASE Shifts(w, "claim")
    <3>1. KeyOf(w) \in Keys /\ proc[w].value \in Values /\ proc[w].mon # 0
      BY <1>0, <1>4 DEF At, Works, WorkPcs, Pcs, WriterPcs
    <3> QED BY <1>0, <2>2, <3>1, NamesDiffer DEF Shifts, Works, WriterPcs, At, KeyOf, PcsOf
  <2> QED BY <1>4, <2>1, <2>2, RetryMoves
<1>5. ASSUME LookupRecord(w)
      PROVE  /\ At(w, "lookup") /\ Works(w)'
             /\ Shifts(w, "replace") \/ Shifts(w, "claim") \/ Rests(w)
  <2> DEFINE r == record[KeyOf(w)]
  <2>1. CASE r # None /\ r.owner = proc[w].owner
    <3> DEFINE new == [proc[w] EXCEPT !.pc = "replace", !.old = r]
    <3>1. KeyOf(w) \in Keys /\ proc[w].value \in Values /\ proc[w].mon # 0
      BY <1>0, <1>5 DEF LookupRecord, At, Works, WorkPcs, Pcs, WriterPcs
    <3>2. r \in RecordType \cup {None}
      BY <3>1, TypeFacts DEF Typed
    <3>3. new \in ProcType
      BY <1>0, <3>2 DEF ProcType, Pcs, WriterPcs
    <3>4. proc' = [proc EXCEPT ![w] = new]
      BY <1>0, <1>5, <2>1 DEF LookupRecord
    <3>5. Others(w) /\ proc'[w] = new
      BY <1>0, <3>3, <3>4 DEF Others
    <3>6. Shifts(w, "replace") /\ proc'[w].old = r /\ proc'[w].owner = proc[w].owner
      BY <1>0, <3>5 DEF Shifts, ProcType
    <3> HIDE DEF r
    <3>7. Works(w)'
      BY <1>0, <2>1, <3>1, <3>6, NamesDiffer DEF Shifts, Works, WriterPcs, At, KeyOf, PcsOf
    <3> QED BY <1>5, <3>6, <3>7 DEF LookupRecord
  <2>2. CASE ~(r # None /\ r.owner = proc[w].owner)
    BY <1>4, <1>5, <2>2 DEF LookupRecord
  <2> QED BY <2>1, <2>2
<1>6. ASSUME Replace(w)
      PROVE  /\ At(w, "replace") /\ Works(w)'
             /\ \/ record[KeyOf(w)] # None /\ record[KeyOf(w)].owner = proc[w].owner
                   /\ Installed(w)
                \/ (Shifts(w, "claim") \/ Rests(w)) /\ record' = record
  <2>1. At(w, "replace") /\ proc[w].old # None /\ proc[w].old.owner = proc[w].owner
    BY <1>0, <1>6 DEF Replace, Works
  <2>2. CASE record[KeyOf(w)] = proc[w].old
    BY <1>3, <1>6, <2>1, <2>2 DEF Replace
  <2>3. CASE record[KeyOf(w)] # proc[w].old
    BY <1>4, <1>6, <2>1, <2>3 DEF Replace
  <2> QED BY <2>2, <2>3
<1>7. ASSUME Install(w) PROVE At(w, "install") /\ Installed(w) /\ Works(w)'
  BY <1>3, <1>7 DEF Install
<1>8. ASSUME Index(w) PROVE At(w, "index") /\ Moves(w, "schedule") /\ Works(w)'
  BY <1>1, <1>2, <1>8 DEF Index, WriterPcs
<1>9. ASSUME Schedule(w)
      PROVE  /\ At(w, "schedule") /\ Works(w)'
             /\ \/ SetTimer(KeyOf(w), proc[w].at) /\ Moves(w, "recheck")
                \/ Moves(w, "remove") /\ timer' = timer /\ unwatched' = unwatched
  BY <1>1, <1>2, <1>9 DEF Schedule, WriterPcs, RemovePcs
<1>10. ASSUME Recheck(w)
      PROVE  /\ At(w, "recheck") /\ Works(w)'
             /\ \/ owner[KeyOf(w)] = proc[w].owner /\ monitor[Session(w)] = proc[w].mon
                   /\ Rests(w)
                \/ Moves(w, "remove")
  BY <1>0, <1>1, <1>2, <1>10, DoneRests, WorksRests DEF Recheck, WriterPcs, RemovePcs
<1> QED BY <1>5, <1>6, <1>7, <1>8, <1>9, <1>10

(* A process is done with a removal.                                       *)
Back(p) == (p = Runtime /\ Moves(p, "sweep")) \/ (p # Runtime /\ Rests(p))

LEMMA RemoverMoves ==
  ASSUME Typed, NEW p \in Procs
  PROVE  /\ Remove(p) => At(p, "remove") /\ Works(p)'
              /\ IF record[KeyOf(p)] = Mine(p) THEN Moves(p, "unlist") ELSE Back(p)
         /\ Unlist(p) => At(p, "unlist") /\ Works(p)' /\ Moves(p, "cancel")
         /\ CancelTimer(p) => At(p, "cancel") /\ Works(p)' /\ Moves(p, "disown")
         /\ Disown(p) => At(p, "disown") /\ Works(p)'
              /\ IF owner[KeyOf(p)] = proc[p].owner THEN Moves(p, "uncount") ELSE Back(p)
         /\ Uncount(p) => At(p, "uncount") /\ Works(p)' /\ Moves(p, "release")
         /\ Release(p) => At(p, "release") /\ Works(p)'
              /\ ((p \in Writers /\ Shifts(p, "claim")) \/ Back(p))
<1>0. /\ proc \in [Procs -> ProcType] /\ proc[p] \in ProcType /\ TypeOK
      /\ RemovePcs \subseteq PcsOf(p) /\ Works(p) /\ "sweep" \notin WorkPcs
      /\ p = Runtime => "sweep" \in PcsOf(p)
  BY TypeFacts, NamesDiffer
     DEF Typed, Working, PcsOf, WriterPcs, ServicePcs, RuntimePcs, WorkPcs
<1>1. ASSUME NEW pc \in RemovePcs, NEW to \in RemovePcs, At(p, pc), Goto(p, to)
      PROVE  Moves(p, to) /\ Works(p)'
  <2>1. Moves(p, to)
    BY <1>0, <1>1, GotoMoves DEF Pcs, WriterPcs
  <2>2. proc[p].pc \in WorkPcs /\ proc[p].pc # "idle" /\ to # "replace"
    BY <1>1 DEF At, WorkPcs, Pcs, WriterPcs, RemovePcs
  <2> QED BY <1>0, <1>1, <2>1, <2>2, WorksMoves DEF At
<1>2. ASSUME NEW pc \in RemovePcs, At(p, pc), Return(p) PROVE Back(p) /\ Works(p)'
  <2>1. Back(p)
    BY <1>0, <1>2, ReturnIs DEF Back
  <2>2. CASE p = Runtime /\ Moves(p, "sweep")
    BY <1>0, <2>1, <2>2, WorksMoves, NamesDiffer
  <2>3. CASE Rests(p)
    BY <2>1, <2>3, WorksRests
  <2> QED BY <2>1, <2>2, <2>3 DEF Back
<1>3. ASSUME Release(p)
      PROVE  At(p, "release") /\ Works(p)' /\ ((p \in Writers /\ Shifts(p, "claim")) \/ Back(p))
  <2>1. CASE proc[p].again /\ proc[p].claims + 1 < MaxTries
    <3> DEFINE new == [proc[p] EXCEPT !.pc = "claim", !.again = FALSE, !.claims = @ + 1]
    <3>1. p \in Writers /\ KeyOf(p) \in Keys /\ proc[p].value \in Values /\ proc[p].mon # 0
      BY <1>0, <1>3, <2>1 DEF Release, At, Works, WorkPcs, Pcs, WriterPcs, RemovePcs
    <3>2. new \in ProcType
      <4>1. proc[p].claims + 1 \in Nat
        BY <1>0 DEF ProcType
      <4> QED BY <1>0, <4>1 DEF ProcType, Pcs, WriterPcs
    <3>3. proc' = [proc EXCEPT ![p] = new]
      BY <1>0, <1>3, <2>1 DEF Release, ProcType
    <3>4. Others(p) /\ proc'[p] = new
      BY <1>0, <3>2, <3>3 DEF Others
    <3>5. Shifts(p, "claim")
      BY <1>0, <3>4 DEF Shifts, ProcType
    <3>6. Works(p)'
      BY <1>0, <3>1, <3>5, NamesDiffer DEF Shifts, Works, WriterPcs, At, KeyOf, PcsOf
    <3> QED BY <1>3, <3>1, <3>5, <3>6 DEF Release
  <2>2. CASE ~(proc[p].again /\ proc[p].claims + 1 < MaxTries)
    BY <1>2, <1>3, <2>2 DEF Release, RemovePcs
  <2> QED BY <2>1, <2>2
<1>4. Remove(p) => At(p, "remove") /\ Works(p)'
        /\ IF record[KeyOf(p)] = Mine(p) THEN Moves(p, "unlist") ELSE Back(p)
  BY <1>1, <1>2 DEF Remove, RemovePcs
<1>5. Disown(p) => At(p, "disown") /\ Works(p)'
        /\ IF owner[KeyOf(p)] = proc[p].owner THEN Moves(p, "uncount") ELSE Back(p)
  BY <1>1, <1>2 DEF Disown, RemovePcs
<1>6. /\ Unlist(p) => At(p, "unlist") /\ Works(p)' /\ Moves(p, "cancel")
      /\ CancelTimer(p) => At(p, "cancel") /\ Works(p)' /\ Moves(p, "disown")
      /\ Uncount(p) => At(p, "uncount") /\ Works(p)' /\ Moves(p, "release")
  BY <1>1 DEF Unlist, CancelTimer, Uncount, RemovePcs
<1> QED BY <1>3, <1>4, <1>5, <1>6

(* The service's steps.                                                    *)
LEMMA ServiceMoves ==
  ASSUME Typed
  PROVE  /\ \A k \in Keys : TakeDue(k) => At(Service, "idle") /\ Works(Service)'
              /\ Others(Service) /\ proc'[Service].pc = "delete" /\ proc'[Service].key = k
         /\ DeleteTimer => At(Service, "delete") /\ Works(Service)' /\ Moves(Service, "expire")
         /\ Expire => At(Service, "expire") /\ Works(Service)'
              /\ IF record[KeyOf(Service)] = None THEN Rests(Service)
                 ELSE /\ Others(Service) /\ proc'[Service].pc \in {"remove", "repair"}
                      /\ proc'[Service].key = KeyOf(Service)
                      /\ Mine(Service)' = record[KeyOf(Service)]
         /\ Repair => At(Service, "repair") /\ Works(Service)' /\ Rests(Service)
<1>0. /\ proc \in [Procs -> ProcType] /\ proc[Service] \in ProcType /\ TypeOK
      /\ PcsOf(Service) = ServicePcs /\ Works(Service) /\ Service \in Procs
      /\ Service \notin Writers
  BY TypeFacts, NamesDiffer DEF Typed, Working, PcsOf
<1>1. ASSUME NEW k \in Keys, TakeDue(k)
      PROVE  /\ At(Service, "idle") /\ Works(Service)'
             /\ Others(Service) /\ proc'[Service].pc = "delete" /\ proc'[Service].key = k
  <2> DEFINE new == [Rest EXCEPT !.pc = "delete", !.key = k, !.at = timer[k].at]
  <2>1. timer[k].at \in Nat
    BY <1>1, TypeFacts DEF Typed, TakeDue
  <2>2. new \in ProcType
    BY <2>1, RestType DEF ProcType, Pcs, ServicePcs
  <2>3. proc' = [proc EXCEPT ![Service] = new]
    BY <1>1 DEF TakeDue
  <2>4. Others(Service) /\ proc'[Service] = new
    BY <1>0, <2>2, <2>3 DEF Others
  <2>5. new.pc = "delete" /\ new.key = k /\ new.again = FALSE
    BY RestType DEF ProcType
  <2> HIDE DEF new
  <2> QED BY <1>0, <1>1, <2>4, <2>5 DEF TakeDue, Works, At, KeyOf, PcsOf, ServicePcs
<1>2. ASSUME DeleteTimer
      PROVE  At(Service, "delete") /\ Works(Service)' /\ Moves(Service, "expire")
  <2>1. Moves(Service, "expire")
    BY <1>0, <1>2, GotoMoves DEF DeleteTimer, Pcs, ServicePcs
  <2>2. proc[Service].pc \in WorkPcs /\ "expire" \in PcsOf(Service)
    BY <1>0, <1>2 DEF DeleteTimer, At, WorkPcs, Pcs, ServicePcs
  <2> QED BY <1>0, <1>2, <2>1, <2>2, WorksMoves DEF DeleteTimer
<1>3. ASSUME Expire
      PROVE  /\ At(Service, "expire") /\ Works(Service)'
             /\ IF record[KeyOf(Service)] = None THEN Rests(Service)
                ELSE /\ Others(Service) /\ proc'[Service].pc \in {"remove", "repair"}
                     /\ proc'[Service].key = KeyOf(Service)
                     /\ Mine(Service)' = record[KeyOf(Service)]
  <2> DEFINE r == record[KeyOf(Service)]
  <2>1. CASE r = None
    BY <1>0, <1>3, <2>1, DoneRests, WorksRests DEF Expire
  <2>2. CASE r # None
    <3> DEFINE pc  == IF r.at = proc[Service].at \/ r.at <= now THEN "remove" ELSE "repair"
               new == [proc[Service] EXCEPT !.pc = pc, !.owner = r.owner, !.at = r.at,
                                            !.value = r.value]
    <3>1. KeyOf(Service) \in Keys
      BY <1>0, <1>3 DEF Expire, At, Works, WorkPcs, Pcs, ServicePcs
    <3>2. r \in RecordType /\ pc \in {"remove", "repair"}
      BY <2>2, <3>1, TypeFacts DEF Typed
    <3>3. new \in ProcType
      <4>1. r.owner \in Nat /\ r.at \in Nat /\ r.value \in Values \cup {None}
        BY ONLY <3>2 DEF RecordType
      <4>2. {"remove", "repair"} \subseteq Pcs
        BY DEF Pcs, ServicePcs, RemovePcs
      <4>3. pc \in Pcs /\ proc[Service] \in ProcType
        BY ONLY <1>0, <3>2, <4>2
      <4> HIDE DEF pc, r
      <4> QED BY ONLY <4>1, <4>3 DEF ProcType
    <3>4. proc' = [proc EXCEPT ![Service] = new]
      BY <1>0, <1>3, <2>2 DEF Expire, ProcType
    <3>5. Others(Service) /\ proc'[Service] = new
      BY <1>0, <3>3, <3>4 DEF Others
    <3>6. /\ proc'[Service].pc = pc /\ proc'[Service].key = KeyOf(Service)
          /\ proc'[Service].owner = r.owner /\ proc'[Service].at = r.at
          /\ proc'[Service].value = r.value /\ proc'[Service].again = proc[Service].again
      BY <1>0, <3>5 DEF ProcType, KeyOf
    <3>7. Mine(Service)' = r
      BY <3>2, <3>6 DEF Mine, RecordType
    <3> HIDE DEF r, pc
    <3>8. Works(Service)'
      BY <1>0, <3>1, <3>2, <3>6 DEF Works, ServicePcs, RemovePcs, At, KeyOf, PcsOf
    <3>9. Others(Service)
      BY <3>5
    <3> QED BY <1>3, <2>2, <3>2, <3>6, <3>7, <3>8, <3>9 DEF Expire, r
  <2> QED BY <2>1, <2>2
<1>4. ASSUME Repair PROVE At(Service, "repair") /\ Works(Service)' /\ Rests(Service)
  BY <1>0, <1>4, DoneRests, WorksRests DEF Repair
<1> QED BY <1>1, <1>2, <1>3, <1>4

(* The Runtime's steps.                                                    *)
LEMMA RuntimeMoves ==
  ASSUME Typed
  PROVE  /\ \A s \in Sessions : EndSession(s) => At(Runtime, "idle") /\ Works(Runtime)'
              /\ Moves(Runtime, "list")
         /\ ListKeys => At(Runtime, "list") /\ Works(Runtime)' /\ Moves(Runtime, "sweep")
         /\ \A k \in todo : Sweep(k) => At(Runtime, "sweep") /\ Works(Runtime)'
              /\ IF record[k] = None THEN proc' = proc
                 ELSE /\ Others(Runtime) /\ proc'[Runtime].pc = "remove"
                      /\ proc'[Runtime].key = k /\ Mine(Runtime)' = record[k]
         /\ DropList => At(Runtime, "sweep") /\ Works(Runtime)' /\ Moves(Runtime, "drop_row")
         /\ DropCounterRow => At(Runtime, "drop_row") /\ Works(Runtime)' /\ Rests(Runtime)
<1>0. /\ proc \in [Procs -> ProcType] /\ proc[Runtime] \in ProcType /\ TypeOK
      /\ PcsOf(Runtime) = RuntimePcs /\ Works(Runtime) /\ Runtime \in Procs
      /\ Runtime \notin Writers
  BY TypeFacts, NamesDiffer DEF Typed, Working, PcsOf
<1>1. ASSUME NEW to \in {"list", "sweep", "drop_row"}, Goto(Runtime, to)
      PROVE  Moves(Runtime, to) /\ Works(Runtime)'
  <2>1. to \in PcsOf(Runtime) /\ to \notin WorkPcs /\ to \in Pcs /\ to # "replace"
    BY <1>0 DEF RuntimePcs, WorkPcs, Pcs
  <2>2. Moves(Runtime, to)
    BY <1>0, <1>1, <2>1, GotoMoves
  <2> QED BY <1>0, <2>1, <2>2, WorksMoves
<1>2. ASSUME NEW k \in todo, Sweep(k)
      PROVE  /\ At(Runtime, "sweep") /\ Works(Runtime)'
             /\ IF record[k] = None THEN proc' = proc
                ELSE /\ Others(Runtime) /\ proc'[Runtime].pc = "remove"
                     /\ proc'[Runtime].key = k /\ Mine(Runtime)' = record[k]
  <2> DEFINE r == record[k]
  <2>1. CASE r = None
    <3>1. proc' = proc
      BY <1>2, <2>1 DEF Sweep
    <3> QED BY <1>0, <1>2, <2>1, <3>1 DEF Sweep, Works, At, KeyOf
  <2>2. CASE r # None
    <3> DEFINE new == [Rest EXCEPT !.pc = "remove", !.key = k, !.owner = r.owner,
                                   !.at = r.at, !.value = r.value]
    <3>1. k \in Keys /\ r \in RecordType
      BY <2>2, TypeFacts DEF Typed
    <3>2. new \in ProcType
      BY <3>1, RestType DEF ProcType, RecordType, Pcs, RuntimePcs, RemovePcs
    <3>3. proc' = [proc EXCEPT ![Runtime] = new]
      BY <1>2, <2>2 DEF Sweep
    <3>4. Others(Runtime) /\ proc'[Runtime] = new
      BY <1>0, <3>2, <3>3 DEF Others
    <3>5. /\ new.pc = "remove" /\ new.key = k /\ new.again = FALSE
          /\ new.owner = r.owner /\ new.at = r.at /\ new.value = r.value
      BY RestType DEF ProcType
    <3> HIDE DEF new
    <3>6. Mine(Runtime)' = r
      BY <3>1, <3>4, <3>5 DEF Mine, RecordType
    <3> HIDE DEF r
    <3>7. Works(Runtime)'
      BY <1>0, <3>1, <3>4, <3>5 DEF Works, RuntimePcs, RemovePcs, At, KeyOf, PcsOf
    <3> QED BY <1>2, <2>2, <3>4, <3>5, <3>6, <3>7 DEF Sweep, r
  <2> QED BY <2>1, <2>2
<1>3. ASSUME DropCounterRow
      PROVE  At(Runtime, "drop_row") /\ Works(Runtime)' /\ Rests(Runtime)
  BY <1>0, <1>3, DoneRests, WorksRests DEF DropCounterRow
<1>4. \A s \in Sessions : EndSession(s) => At(Runtime, "idle") /\ Works(Runtime)'
        /\ Moves(Runtime, "list")
  BY <1>1 DEF EndSession
<1>5. /\ ListKeys => At(Runtime, "list") /\ Works(Runtime)' /\ Moves(Runtime, "sweep")
      /\ DropList => At(Runtime, "sweep") /\ Works(Runtime)' /\ Moves(Runtime, "drop_row")
  BY <1>1 DEF ListKeys, DropList
<1> QED BY <1>2, <1>3, <1>4, <1>5

LEMMA EndMoves ==
  ASSUME Typed
  PROVE  /\ \A w \in Writers : Kill(w) => Rests(w) /\ Works(w)' /\ ~At(w, "idle")
         /\ RestartRuntime => Rests(Runtime) /\ Works(Runtime)'
<1>1. ASSUME NEW w \in Writers, Kill(w) PROVE Rests(w) /\ Works(w)' /\ ~At(w, "idle")
  BY <1>1, NamesDiffer, DoneRests, WorksRests DEF Kill, Typed
<1>2. ASSUME RestartRuntime PROVE Rests(Runtime) /\ Works(Runtime)'
  BY <1>2, NamesDiffer, DoneRests, WorksRests DEF RestartRuntime, Typed
<1> QED BY <1>1, <1>2

-----------------------------------------------------------------------------
(* How many there are of something when one process or one key changes.    *)
Is(b) == IF b THEN 1 ELSE 0

LEMMA SetMoves ==
  ASSUME NEW A, NEW B, NEW x, IsFiniteSet(A), A \ {x} = B \ {x}
  PROVE  /\ IsFiniteSet(B) /\ Cardinality(A) \in Nat /\ Cardinality(B) \in Nat
         /\ Cardinality(B) = Cardinality(A) + Is(x \in B) - Is(x \in A)
<1>0. Cardinality(A) \in Nat
  BY FS_CardinalityType
<1>1. CASE (x \in B) <=> (x \in A)
  <2>1. B = A
    BY <1>1
  <2> QED BY <1>0, <1>1, <2>1 DEF Is
<1>2. CASE x \in B /\ x \notin A
  <2>1. B = A \cup {x}
    BY <1>2
  <2>2. IsFiniteSet(B) /\ Cardinality(B) = Cardinality(A) + 1
    BY <1>2, <2>1, FS_AddElement
  <2> QED BY <1>0, <1>2, <2>2 DEF Is
<1>3. CASE x \notin B /\ x \in A
  <2>1. B = A \ {x}
    BY <1>3
  <2>2. IsFiniteSet(B) /\ Cardinality(B) = Cardinality(A) - 1
    BY <1>3, <2>1, FS_RemoveElement
  <2>3. Cardinality(B) \in Nat
    BY <2>2, FS_CardinalityType
  <2> QED BY <1>0, <1>3, <2>2, <2>3 DEF Is
<1> QED BY <1>1, <1>2, <1>3

LEMMA SetsFinite ==
  /\ IsFiniteSet(Procs) /\ IsFiniteSet(Keys) /\ IsFiniteSet(OwnedKeys)
  /\ \A S : IsFiniteSet(AtPcs(S)) /\ \A s : IsFiniteSet(For(S, s))
  /\ \A s : IsFiniteSet(Owned(s))
<1>1. IsFiniteSet({Service, Runtime})
  <2>1. {Service, Runtime} = {Service} \cup {Runtime}
    OBVIOUS
  <2>2. IsFiniteSet({Service}) /\ IsFiniteSet({Runtime})
    BY FS_Singleton
  <2>3. IsFiniteSet({Service} \cup {Runtime})
    BY <2>2, FS_Union
  <2> QED BY <2>1, <2>3
<1>2. IsFiniteSet(Procs) /\ IsFiniteSet(Keys)
  BY <1>1, EntryConstants, FS_Union DEF Procs
<1> QED BY <1>2, FS_Subset DEF OwnedKeys, AtPcs, For, Owned

LEMMA AtMoves ==
  ASSUME NEW p \in Procs, Others(p), NEW S
  PROVE  /\ Cardinality(AtPcs(S)) \in Nat /\ Cardinality(AtPcs(S)') \in Nat
         /\ Cardinality(AtPcs(S)') =
               Cardinality(AtPcs(S)) + Is(proc'[p].pc \in S) - Is(proc[p].pc \in S)
<1>1. AtPcs(S) \ {p} = AtPcs(S)' \ {p}
  BY DEF Others, AtPcs
<1>2. (p \in AtPcs(S) <=> proc[p].pc \in S) /\ (p \in AtPcs(S)' <=> proc'[p].pc \in S)
  BY DEF AtPcs
<1>3. IsFiniteSet(AtPcs(S))
  BY SetsFinite
<1> DEFINE A == AtPcs(S)  B == AtPcs(S)'
<1>4. /\ Cardinality(A) \in Nat /\ Cardinality(B) \in Nat
      /\ Cardinality(B) = Cardinality(A) + Is(p \in B) - Is(p \in A)
  <2> HIDE DEF A, B
  <2> QED BY <1>1, <1>3, SetMoves DEF A, B
<1> QED BY <1>2, <1>4 DEF Is

LEMMA ForMoves ==
  ASSUME NEW p \in Procs, Others(p), NEW S, NEW s \in Sessions
  PROVE  /\ Cardinality(For(S, s)) \in Nat /\ Cardinality(For(S, s)') \in Nat
         /\ Cardinality(For(S, s)') =
               Cardinality(For(S, s)) + Is(proc'[p].pc \in S /\ SessionOf[proc'[p].key] = s)
                                      - Is(proc[p].pc \in S /\ Session(p) = s)
<1>1. For(S, s) \ {p} = For(S, s)' \ {p}
  BY DEF Others, For, Session, KeyOf
<1>2. /\ p \in For(S, s) <=> proc[p].pc \in S /\ Session(p) = s
      /\ p \in For(S, s)' <=> proc'[p].pc \in S /\ SessionOf[proc'[p].key] = s
  BY DEF For, Session, KeyOf
<1>3. IsFiniteSet(For(S, s))
  BY SetsFinite
<1> DEFINE A == For(S, s)  B == For(S, s)'
<1>4. /\ Cardinality(A) \in Nat /\ Cardinality(B) \in Nat
      /\ Cardinality(B) = Cardinality(A) + Is(p \in B) - Is(p \in A)
  <2> HIDE DEF A, B
  <2> QED BY <1>1, <1>3, SetMoves DEF A, B
<1> QED BY <1>2, <1>4 DEF Is

LEMMA OwnedMoves ==
  ASSUME TypeOK, NEW k \in Keys, NEW x, owner' = [owner EXCEPT ![k] = x]
  PROVE  /\ Cardinality(OwnedKeys) \in Nat /\ Cardinality(OwnedKeys') \in Nat
         /\ Cardinality(OwnedKeys') =
               Cardinality(OwnedKeys) + Is(x # None) - Is(owner[k] # None)
         /\ \A s \in Sessions :
              /\ Cardinality(Owned(s)) \in Nat /\ Cardinality(Owned(s)') \in Nat
              /\ Cardinality(Owned(s)') =
                   Cardinality(Owned(s)) + Is(SessionOf[k] = s /\ x # None)
                                         - Is(SessionOf[k] = s /\ owner[k] # None)
<1>0. owner \in [Keys -> Nat \cup {None}]
  BY TypeFacts
<1>1. OwnedKeys \ {k} = OwnedKeys' \ {k}
  BY <1>0 DEF OwnedKeys
<1>2. (k \in OwnedKeys <=> owner[k] # None) /\ (k \in OwnedKeys' <=> x # None)
  BY <1>0 DEF OwnedKeys
<1> DEFINE A == OwnedKeys  B == OwnedKeys'
<1>3. /\ Cardinality(A) \in Nat /\ Cardinality(B) \in Nat
      /\ Cardinality(B) = Cardinality(A) + Is(k \in B) - Is(k \in A)
  <2> HIDE DEF A, B
  <2> QED BY <1>1, SetsFinite, SetMoves DEF A, B
<1>4. ASSUME NEW s \in Sessions
      PROVE  /\ Cardinality(Owned(s)) \in Nat /\ Cardinality(Owned(s)') \in Nat
             /\ Cardinality(Owned(s)') =
                  Cardinality(Owned(s)) + Is(SessionOf[k] = s /\ x # None)
                                        - Is(SessionOf[k] = s /\ owner[k] # None)
  <2>1. Owned(s) \ {k} = Owned(s)' \ {k}
    BY <1>0 DEF Owned
  <2>2. /\ k \in Owned(s) <=> SessionOf[k] = s /\ owner[k] # None
        /\ k \in Owned(s)' <=> SessionOf[k] = s /\ x # None
    BY <1>0 DEF Owned
  <2> DEFINE C == Owned(s)  D == Owned(s)'
  <2>3. /\ Cardinality(C) \in Nat /\ Cardinality(D) \in Nat
        /\ Cardinality(D) = Cardinality(C) + Is(k \in D) - Is(k \in C)
    <3> HIDE DEF C, D
    <3> QED BY <2>1, SetsFinite, SetMoves DEF C, D
  <2> QED BY <2>2, <2>3 DEF Is
<1> QED BY <1>2, <1>3, <1>4 DEF Is

(* The accounts, in numbers: in all and of a session.                      *)
NOwned      == Cardinality(OwnedKeys)
NSlots      == Cardinality(AtPcs(SlotPcs))
NAdmitted   == Cardinality(AtPcs({"count", "own"}))
NKeys(s)    == Cardinality(Owned(s))
NOwning(s)  == Cardinality(For({"own"}, s))
NCounted(s) == Cardinality(For({"own", "uncount"}, s))

Total == used = NOwned + NSlots + leaked /\ NOwned + NAdmitted <= limit.all
OfSession(s) ==
  /\ counted[s] # None => NKeys(s) + NCounted(s) <= counted[s]
  /\ counted[s] # None /\ kills = 0 => counted[s] = NKeys(s) + NCounted(s)
  /\ NKeys(s) + NOwning(s) <= limit.session

Counting == CountsExact /\ Admitted

LEMMA CountsParts ==
  ASSUME Counting PROVE Total /\ \A s \in Sessions : OfSession(s)
<1>1. Slots = AtPcs(SlotPcs) /\ OwnedKeys = {k \in Keys : owner[k] # None}
  BY DEF Slots, AtPcs, OwnedKeys
<1>2. \A s \in Sessions : Counts(s) = For({"own", "uncount"}, s)
  BY DEF Counts, For
<1>3. Total
  BY <1>1 DEF Counting, CountsExact, Admitted, Total, NOwned, NSlots, NAdmitted
<1>4. \A s \in Sessions : OfSession(s)
  BY <1>2 DEF Counting, CountsExact, Admitted, OfSession, NKeys, NOwning, NCounted
<1> QED BY <1>3, <1>4

LEMMA CountsPartsNext ==
  ASSUME Total', \A s \in Sessions : OfSession(s)'
  PROVE  Counting'
<1>1. Slots' = AtPcs(SlotPcs)' /\ OwnedKeys' = {k \in Keys : owner'[k] # None}
  BY DEF Slots, AtPcs, OwnedKeys
<1>2. \A s \in Sessions : Counts(s)' = For({"own", "uncount"}, s)'
  BY DEF Counts, For, Session, KeyOf
<1>3. CountsExact'
  BY <1>1, <1>2 DEF CountsExact, Total, OfSession, NOwned, NSlots, NKeys, NCounted
<1>4. Admitted'
  BY DEF Admitted, Total, OfSession, NOwned, NAdmitted, NKeys, NOwning, NCounted
<1> QED BY <1>3, <1>4 DEF Counting

(* A step that leaves the owners alone.                                    *)
LEMMA SameOwners ==
  ASSUME owner' = owner PROVE NOwned' = NOwned /\ \A s \in Sessions : NKeys(s)' = NKeys(s)
  BY DEF OwnedKeys, Owned, NOwned, NKeys

(* A step that neither takes nor gives a slot or a key.                    *)
LEMMA QuietCounts ==
  ASSUME Counting, NEW p \in Procs, Others(p),
         proc[p].pc \notin SlotPcs, proc'[p].pc \notin SlotPcs,
         owner' = owner, used' = used, counted' = counted, leaked' = leaked, kills' = kills,
         limit' = limit
  PROVE  Counting'
<1>1. \A S \in SUBSET SlotPcs : AtPcs(S)' = AtPcs(S) /\ \A s : For(S, s)' = For(S, s)
  BY DEF Others, AtPcs, For, Session, KeyOf
<1>2. {"count", "own"} \subseteq SlotPcs /\ {"own"} \subseteq SlotPcs
      /\ {"own", "uncount"} \subseteq SlotPcs
  BY DEF SlotPcs
<1>3. Total /\ \A s \in Sessions : OfSession(s)
  BY CountsParts
<1>4. NSlots' = NSlots /\ NAdmitted' = NAdmitted
  BY <1>1, <1>2 DEF NSlots, NAdmitted
<1>5. \A s \in Sessions : NOwning(s)' = NOwning(s) /\ NCounted(s)' = NCounted(s)
  BY <1>1, <1>2 DEF NOwning, NCounted
<1>6. Total' /\ \A s \in Sessions : OfSession(s)'
  BY <1>3, <1>4, <1>5, SameOwners DEF Total, OfSession
<1> QED BY <1>6, CountsPartsNext

LEMMA NumberTypes ==
  ASSUME Typed
  PROVE  /\ NOwned \in Nat /\ NSlots \in Nat /\ NAdmitted \in Nat
         /\ \A s \in Sessions : NKeys(s) \in Nat /\ NOwning(s) \in Nat /\ NCounted(s) \in Nat
         /\ limit.all \in Nat /\ limit.session \in Nat /\ used \in Nat /\ leaked \in Nat
         /\ \A s \in Sessions : counted[s] \in Nat \cup {None}
         /\ \A s \in Sessions : NOwning(s) <= NCounted(s)
         /\ None \notin Nat
<1>1. NOwned \in Nat /\ NSlots \in Nat /\ NAdmitted \in Nat
  BY SetsFinite, FS_CardinalityType DEF NOwned, NSlots, NAdmitted
<1>2. ASSUME NEW s \in Sessions
      PROVE  /\ NKeys(s) \in Nat /\ NOwning(s) \in Nat /\ NCounted(s) \in Nat
             /\ NOwning(s) <= NCounted(s)
  <2>1. NKeys(s) \in Nat /\ NOwning(s) \in Nat /\ NCounted(s) \in Nat
    BY SetsFinite, FS_CardinalityType DEF NKeys, NOwning, NCounted
  <2>2. For({"own"}, s) \subseteq For({"own", "uncount"}, s)
    BY DEF For
  <2>3. NOwning(s) <= NCounted(s)
    BY <2>2, SetsFinite, FS_Subset DEF NOwning, NCounted
  <2> QED BY <2>1, <2>3
<1>3. limit.all \in Nat /\ limit.session \in Nat /\ used \in Nat /\ leaked \in Nat
  BY EntryConstants, TypeFacts DEF Typed
<1>4. \A s \in Sessions : counted[s] \in Nat \cup {None}
  BY TypeFacts DEF Typed
<1> QED BY <1>1, <1>2, <1>3, <1>4, EntryConstants

(* The numbers after a step of p.                                          *)
LEMMA Numbers ==
  ASSUME NEW p \in Procs, Others(p), NEW from, NEW to, proc[p].pc = from, proc'[p].pc = to
  PROVE  /\ NSlots' = NSlots + Is(to \in SlotPcs) - Is(from \in SlotPcs)
         /\ NAdmitted' = NAdmitted + Is(to \in {"count", "own"}) - Is(from \in {"count", "own"})
         /\ NAdmitted' <= NSlots' /\ NAdmitted' \in Nat /\ NSlots' \in Nat
<1>1. NSlots' = NSlots + Is(to \in SlotPcs) - Is(from \in SlotPcs)
  BY AtMoves DEF NSlots
<1>2. NAdmitted' = NAdmitted + Is(to \in {"count", "own"}) - Is(from \in {"count", "own"})
  BY AtMoves DEF NAdmitted
<1>3. AtPcs({"count", "own"})' \subseteq AtPcs(SlotPcs)'
  BY DEF AtPcs, SlotPcs
<1>4. IsFiniteSet(AtPcs(SlotPcs)')
  BY SetsFinite, FS_Subset DEF AtPcs
<1>5. NAdmitted' <= NSlots'
  BY <1>3, <1>4, FS_Subset DEF NAdmitted, NSlots
<1>6. NAdmitted' \in Nat /\ NSlots' \in Nat
  BY AtMoves DEF NAdmitted, NSlots
<1> QED BY <1>1, <1>2, <1>5, <1>6

LEMMA SessionNumbers ==
  ASSUME NEW p \in Procs, Others(p), NEW from, NEW to, proc[p].pc = from, proc'[p].pc = to,
         NEW s \in Sessions
  PROVE  /\ proc'[p].key = proc[p].key =>
              /\ NOwning(s)' = NOwning(s) + Is(to = "own" /\ Session(p) = s)
                                          - Is(from = "own" /\ Session(p) = s)
              /\ NCounted(s)' = NCounted(s) + Is(to \in {"own", "uncount"} /\ Session(p) = s)
                                            - Is(from \in {"own", "uncount"} /\ Session(p) = s)
         /\ to \notin {"own", "uncount"} =>
              /\ NOwning(s)' = NOwning(s) - Is(from = "own" /\ Session(p) = s)
              /\ NCounted(s)' = NCounted(s) - Is(from \in {"own", "uncount"} /\ Session(p) = s)
         /\ NOwning(s)' \in Nat /\ NCounted(s)' \in Nat
<1> DEFINE S == {"own"}  T == {"own", "uncount"}
<1>1. /\ NOwning(s) \in Nat /\ NOwning(s)' \in Nat
      /\ NOwning(s)' = NOwning(s) + Is(to \in S /\ SessionOf[proc'[p].key] = s)
                                  - Is(from \in S /\ Session(p) = s)
  BY ForMoves DEF NOwning
<1>2. /\ NCounted(s) \in Nat /\ NCounted(s)' \in Nat
      /\ NCounted(s)' = NCounted(s) + Is(to \in T /\ SessionOf[proc'[p].key] = s)
                                    - Is(from \in T /\ Session(p) = s)
  BY ForMoves DEF NCounted
<1> QED BY <1>1, <1>2 DEF Is, Session, KeyOf

LEMMA OneMoreOwned ==
  ASSUME TypeOK, NEW k \in Keys, owner[k] = None, owner' = [owner EXCEPT ![k] = token + 1]
  PROVE  /\ NOwned' = NOwned + 1
         /\ \A s \in Sessions : NKeys(s)' = NKeys(s) + Is(SessionOf[k] = s)
<1>1. /\ NOwned \in Nat
      /\ NOwned' = NOwned + Is(token + 1 # None) - Is(owner[k] # None)
      /\ \A s \in Sessions :
           /\ NKeys(s) \in Nat
           /\ NKeys(s)' = NKeys(s) + Is(SessionOf[k] = s /\ token + 1 # None)
                                  - Is(SessionOf[k] = s /\ owner[k] # None)
  BY OwnedMoves DEF NOwned, NKeys
<1>2. token + 1 # None
  BY EntryConstants, TypeFacts
<1> QED BY <1>1, <1>2 DEF Is

LEMMA OneLessOwned ==
  ASSUME TypeOK, NEW k \in Keys, owner[k] # None, owner' = [owner EXCEPT ![k] = None]
  PROVE  /\ NOwned' = NOwned - 1
         /\ \A s \in Sessions : NKeys(s)' = NKeys(s) - Is(SessionOf[k] = s)
<1>1. /\ NOwned \in Nat
      /\ NOwned' = NOwned + Is(None # None) - Is(owner[k] # None)
      /\ \A s \in Sessions :
           /\ NKeys(s) \in Nat
           /\ NKeys(s)' = NKeys(s) + Is(SessionOf[k] = s /\ None # None)
                                  - Is(SessionOf[k] = s /\ owner[k] # None)
  BY OwnedMoves DEF NOwned, NKeys
<1> QED BY <1>1 DEF Is

LEMMA CountsWriter ==
  ASSUME Typed, Counting, NEW w \in Writers,
         Reserve(w) \/ UndoReserve(w) \/ Count(w) \/ Own(w)
  PROVE  Counting' /\ used' \in Nat
<1>0. /\ w \in Procs /\ TypeOK /\ None \notin Nat /\ Total
      /\ counted \in [Sessions -> Nat \cup {None}]
      /\ \A s \in Sessions : OfSession(s)
  BY NamesDiffer, TypeFacts, EntryConstants, CountsParts DEF Typed
<1>00. proc[w].pc \in {"count", "own"} => KeyOf(w) \in Keys /\ Session(w) \in Sessions
  BY <1>0, EntryConstants DEF Typed, Working, Works, Session, WorkPcs, Pcs, WriterPcs
<1>1. CASE Reserve(w)
  <2> DEFINE to == IF used < limit.all THEN "count" ELSE "undo"
  <2>1. proc[w].pc = "reserve" /\ Others(w) /\ proc'[w].pc = to
    BY <1>1, WriterMoves DEF Moves, At
  <2>2. used' = used + 1 /\ UNCHANGED <<owner, counted, leaked, kills, limit>>
    BY <1>1 DEF Reserve, env, keys, bounds, history
  <2>3. /\ NSlots' = NSlots + 1 /\ NAdmitted' = NAdmitted + Is(used < limit.all)
        /\ NAdmitted' <= NSlots'
    BY <1>0, <2>1, Numbers, NumberTypes DEF SlotPcs, Is
  <2>4. \A s \in Sessions : NOwning(s)' = NOwning(s) /\ NCounted(s)' = NCounted(s)
    BY <1>0, <2>1, SessionNumbers, NumberTypes DEF Is
  <2>5. Total' /\ used' \in Nat
    BY <1>0, <2>2, <2>3, SameOwners, NumberTypes DEF Total, Is
  <2>6. \A s \in Sessions : OfSession(s)'
    BY <1>0, <2>2, <2>4, SameOwners DEF OfSession
  <2> QED BY <2>5, <2>6, CountsPartsNext
<1>2. CASE UndoReserve(w)
  <2>1. proc[w].pc = "undo" /\ Others(w) /\ proc'[w].pc = "idle"
    BY <1>2, WriterMoves, RestType DEF Rests, At
  <2>2. used' = used - 1 /\ UNCHANGED <<owner, counted, leaked, kills, limit>>
    BY <1>2 DEF UndoReserve, env, keys, bounds, history
  <2>3. NSlots' = NSlots - 1 /\ NAdmitted' = NAdmitted /\ NSlots' \in Nat
    BY <1>0, <2>1, Numbers, NumberTypes DEF SlotPcs, Is
  <2>4. \A s \in Sessions : NOwning(s)' = NOwning(s) /\ NCounted(s)' = NCounted(s)
    BY <1>0, <2>1, SessionNumbers, NumberTypes DEF Is
  <2>5. Total' /\ used' \in Nat
    BY <1>0, <2>2, <2>3, SameOwners, NumberTypes DEF Total
  <2>6. \A s \in Sessions : OfSession(s)'
    BY <1>0, <2>2, <2>4, SameOwners DEF OfSession
  <2> QED BY <2>5, <2>6, CountsPartsNext
<1>3. CASE Count(w)
  <2> DEFINE n  == counted[Session(w)]
             to == IF n = None THEN "release" ELSE IF n + 1 <= limit.session THEN "own" ELSE "uncount"
  <2>1. proc[w].pc = "count" /\ Others(w) /\ proc'[w].key = proc[w].key /\ proc'[w].pc = to
    BY <1>3, WriterMoves DEF Moves, Stays, At
  <2>2. UNCHANGED <<owner, used, leaked, kills, limit>>
    BY <1>3 DEF Count, env, keys, bounds, history
  <2>3. Session(w) \in Sessions /\ n \in Nat \cup {None}
    BY <1>0, <1>00, <2>1
  <2>4. counted' = IF n = None THEN counted ELSE [counted EXCEPT ![Session(w)] = n + 1]
    BY <1>3 DEF Count
  <2>5. NSlots' = NSlots /\ NAdmitted' <= NAdmitted /\ NAdmitted' \in Nat
    BY <1>0, <2>1, Numbers, NumberTypes DEF SlotPcs, Is
  <2>6. Total'
    BY <1>0, <2>2, <2>5, SameOwners, NumberTypes DEF Total
  <2>7. ASSUME NEW s \in Sessions, s # Session(w) \/ n = None PROVE OfSession(s)'
    <3>1. counted'[s] = counted[s]
      BY <1>0, <2>3, <2>4, <2>7
    <3>2. NOwning(s)' = NOwning(s) /\ NCounted(s)' = NCounted(s)
      BY <1>0, <2>1, <2>7, SessionNumbers, NumberTypes DEF Is
    <3> QED BY <1>0, <2>2, <3>1, <3>2, SameOwners DEF OfSession
  <2>8. ASSUME NEW s \in Sessions, s = Session(w), n # None PROVE OfSession(s)'
    <3>1. counted'[s] = n + 1 /\ n \in Nat /\ n = counted[s] /\ n # None
      BY <1>0, <2>3, <2>4, <2>8
    <3>2. /\ NOwning(s)' = NOwning(s) + Is(n + 1 <= limit.session)
          /\ NCounted(s)' = NCounted(s) + 1
      BY <1>0, <2>1, <2>8, SessionNumbers, NumberTypes DEF Is
    <3> HIDE DEF n
    <3> QED BY <1>0, <2>2, <3>1, <3>2, SameOwners, NumberTypes DEF OfSession, Is
  <2> QED BY <2>2, <2>6, <2>7, <2>8, CountsPartsNext, NumberTypes
<1>4. CASE Own(w)
  <2> DEFINE k  == KeyOf(w)
             to == IF owner[k] = None THEN "install" ELSE "uncount"
  <2>1. proc[w].pc = "own" /\ Others(w) /\ proc'[w].key = proc[w].key /\ proc'[w].pc = to
    BY <1>4, WriterMoves DEF Shifts, At
  <2>2. UNCHANGED <<counted, used, leaked, kills, limit>>
    BY <1>4 DEF Own, env, counts, bounds, history
  <2>3. k \in Keys /\ SessionOf[k] = Session(w) /\ Session(w) \in Sessions
    BY <1>00, <2>1 DEF Session
  <2>4. CASE owner[k] = None
    <3>1. owner' = [owner EXCEPT ![k] = token + 1]
      BY <1>4, <2>4 DEF Own
    <3>2. /\ NOwned' = NOwned + 1
          /\ \A s \in Sessions : NKeys(s)' = NKeys(s) + Is(Session(w) = s)
      <4>1. /\ NOwned' = NOwned + 1
            /\ \A s \in Sessions : NKeys(s)' = NKeys(s) + Is(SessionOf[k] = s)
        BY <1>0, <2>3, <2>4, <3>1, OneMoreOwned
      <4> QED BY <2>3, <4>1 DEF Is
    <3>3. NSlots' = NSlots - 1 /\ NAdmitted' = NAdmitted - 1
      BY <1>0, <2>1, <2>4, Numbers, NumberTypes DEF SlotPcs, Is
    <3>4. \A s \in Sessions : /\ NOwning(s)' = NOwning(s) - Is(Session(w) = s)
                              /\ NCounted(s)' = NCounted(s) - Is(Session(w) = s)
      BY <1>0, <2>1, <2>4, SessionNumbers, NumberTypes DEF Is
    <3>5. Total'
      BY <1>0, <2>2, <3>2, <3>3, NumberTypes DEF Total
    <3>6. \A s \in Sessions : OfSession(s)'
      BY <1>0, <2>2, <3>2, <3>4, NumberTypes DEF OfSession, Is
    <3> QED BY <2>2, <3>5, <3>6, CountsPartsNext, NumberTypes
  <2>5. CASE owner[k] # None
    <3>1. owner' = owner
      BY <1>4, <2>5 DEF Own
    <3>2. NSlots' = NSlots /\ NAdmitted' = NAdmitted - 1
      BY <1>0, <2>1, <2>5, Numbers, NumberTypes DEF SlotPcs, Is
    <3>3. \A s \in Sessions : /\ NOwning(s)' = NOwning(s) - Is(Session(w) = s)
                              /\ NCounted(s)' = NCounted(s)
      BY <1>0, <2>1, <2>5, SessionNumbers, NumberTypes DEF Is
    <3>4. Total'
      BY <1>0, <2>2, <3>1, <3>2, SameOwners, NumberTypes DEF Total
    <3>5. \A s \in Sessions : OfSession(s)'
      BY <1>0, <2>2, <3>1, <3>3, SameOwners, NumberTypes DEF OfSession, Is
    <3> QED BY <2>2, <3>4, <3>5, CountsPartsNext, NumberTypes
  <2> QED BY <2>4, <2>5
<1> QED BY <1>1, <1>2, <1>3, <1>4

(* The steps of a removal that matter to the accounts.  The key that is    *)
(* given back is its own.                                                  *)
LEMMA CountsRemover ==
  ASSUME Typed, Counting, Held, NEW p \in Procs, Disown(p) \/ Uncount(p) \/ Release(p)
  PROVE  Counting' /\ used' \in Nat /\ counted' \in [Sessions -> Nat \cup {None}]
<1>0. /\ TypeOK /\ None \notin Nat /\ Total
      /\ counted \in [Sessions -> Nat \cup {None}] /\ owner \in [Keys -> Nat \cup {None}]
      /\ \A s \in Sessions : OfSession(s)
  BY TypeFacts, EntryConstants, CountsParts DEF Typed
<1>00. proc[p].pc \in {"disown", "uncount"} =>
         KeyOf(p) \in Keys /\ Session(p) \in Sessions /\ proc[p].owner \in Nat
  BY <1>0, TypeFacts, EntryConstants
     DEF Typed, Working, Works, Session, WorkPcs, Pcs, WriterPcs, RemovePcs, ProcType
<1>1. CASE Disown(p)
  <2> DEFINE k == KeyOf(p)
  <2>1. proc[p].pc = "disown" /\ k \in Keys /\ owner[k] = proc[p].owner /\ owner[k] # None
    BY <1>0, <1>00, <1>1 DEF Disown, At, Held, Holds, HolderPcs
  <2>2. Others(p) /\ proc'[p].key = proc[p].key /\ proc'[p].pc = "uncount"
    BY <1>1, <2>1, RemoverMoves DEF Moves, Stays
  <2>3. UNCHANGED <<counted, used, leaked, kills, limit>>
    BY <1>1 DEF Disown, env, counts, bounds, history
  <2>4. owner' = [owner EXCEPT ![k] = None] /\ SessionOf[k] = Session(p)
    BY <1>1, <2>1 DEF Disown, Session
  <2>5. /\ NOwned' = NOwned - 1
        /\ \A s \in Sessions : NKeys(s)' = NKeys(s) - Is(Session(p) = s)
    <3>1. /\ NOwned' = NOwned - 1
          /\ \A s \in Sessions : NKeys(s)' = NKeys(s) - Is(SessionOf[k] = s)
      <4> HIDE DEF k
      <4> QED BY <1>0, <2>1, <2>4, OneLessOwned
    <3> QED BY <2>4, <3>1 DEF Is
  <2>6. NSlots' = NSlots + 1 /\ NAdmitted' = NAdmitted
    BY <1>0, <2>1, <2>2, Numbers, NumberTypes DEF SlotPcs, Is
  <2>7. \A s \in Sessions : /\ NOwning(s)' = NOwning(s)
                            /\ NCounted(s)' = NCounted(s) + Is(Session(p) = s)
    BY <1>0, <2>1, <2>2, SessionNumbers, NumberTypes DEF Is
  <2>8. Total'
    BY <1>0, <2>3, <2>5, <2>6, NumberTypes DEF Total
  <2>9. \A s \in Sessions : OfSession(s)'
    BY <1>0, <2>3, <2>5, <2>7, NumberTypes DEF OfSession, Is
  <2> QED BY <1>0, <2>3, <2>8, <2>9, CountsPartsNext, NumberTypes
<1>2. CASE Uncount(p)
  <2> DEFINE n == counted[Session(p)]
  <2>1. /\ proc[p].pc = "uncount" /\ Others(p) /\ proc'[p].key = proc[p].key
        /\ proc'[p].pc = "release"
    BY <1>2, RemoverMoves DEF Moves, Stays, At
  <2>2. UNCHANGED <<owner, used, leaked, kills, limit>>
    BY <1>2 DEF Uncount, env, keys, bounds, history
  <2>3. Session(p) \in Sessions /\ n \in Nat \cup {None}
    BY <1>0, <1>00, <2>1
  <2>4. counted' = IF n = None THEN counted ELSE [counted EXCEPT ![Session(p)] = Less(n)]
    BY <1>2 DEF Uncount
  <2>5. NSlots' = NSlots /\ NAdmitted' = NAdmitted
    BY <1>0, <2>1, Numbers, NumberTypes DEF SlotPcs, Is
  <2>6. Total'
    BY <1>0, <2>2, <2>5, SameOwners, NumberTypes DEF Total
  <2>7. \A s \in Sessions : /\ NOwning(s)' = NOwning(s)
                            /\ NCounted(s)' = NCounted(s) - Is(Session(p) = s)
                            /\ NCounted(s)' \in Nat
    BY <1>0, <2>1, SessionNumbers, NumberTypes DEF Is
  <2>8. ASSUME NEW s \in Sessions, s # Session(p) \/ n = None PROVE OfSession(s)'
    <3>1. counted'[s] = counted[s] /\ (s = Session(p) => counted[s] = None)
      BY <1>0, <2>3, <2>4, <2>8
    <3> QED BY <1>0, <2>2, <2>7, <3>1, SameOwners, NumberTypes DEF OfSession, Is
  <2>9. ASSUME NEW s \in Sessions, s = Session(p), n # None PROVE OfSession(s)'
    <3>1. counted'[s] = Less(n) /\ n \in Nat /\ n = counted[s] /\ n # None
      BY <1>0, <2>3, <2>4, <2>9
    <3>2. n # 0
      BY <1>0, <2>7, <2>9, <3>1, NumberTypes DEF OfSession, Is
    <3> HIDE DEF n
    <3> QED BY <1>0, <2>2, <2>7, <2>9, <3>1, <3>2, SameOwners, NumberTypes DEF OfSession, Is, Less
  <2>10. counted' \in [Sessions -> Nat \cup {None}]
    BY <1>0, <2>3, <2>4 DEF Less
  <2> QED BY <2>2, <2>6, <2>8, <2>9, <2>10, CountsPartsNext, NumberTypes
<1>3. CASE Release(p)
  <2>1. /\ proc[p].pc = "release" /\ Others(p) /\ proc'[p].pc \in {"claim", "sweep", "idle"}
    BY <1>3, RemoverMoves, RestType DEF Shifts, Back, Moves, Rests, At
  <2>2. used' = Less(used) /\ UNCHANGED <<owner, counted, leaked, kills, limit>>
    BY <1>3 DEF Release, env, keys, bounds, history
  <2>3. NSlots' = NSlots - 1 /\ NAdmitted' = NAdmitted /\ NSlots' \in Nat
    BY <1>0, <2>1, Numbers, NumberTypes DEF SlotPcs, Is
  <2>4. \A s \in Sessions : NOwning(s)' = NOwning(s) /\ NCounted(s)' = NCounted(s)
    BY <1>0, <2>1, SessionNumbers, NumberTypes DEF Is
  <2>5. Total' /\ used' \in Nat
    BY <1>0, <2>2, <2>3, SameOwners, NumberTypes DEF Total, Less
  <2>6. \A s \in Sessions : OfSession(s)'
    BY <1>0, <2>2, <2>4, SameOwners DEF OfSession
  <2> QED BY <1>0, <2>2, <2>5, <2>6, CountsPartsNext
<1> QED BY <1>1, <1>2, <1>3

(* The ends of the Runtime's work and of processes.                        *)
LEMMA CountsEnd ==
  ASSUME Typed, Counting, NEW p \in Procs,
         (p \in Writers /\ Kill(p)) \/ (p = Runtime /\ (RestartRuntime \/ DropCounterRow))
  PROVE  Counting' /\ leaked' \in Nat /\ counted' \in [Sessions -> Nat \cup {None}]
<1>0. /\ TypeOK /\ None \notin Nat /\ Total /\ kills \in Nat
      /\ counted \in [Sessions -> Nat \cup {None}]
      /\ \A s \in Sessions : OfSession(s)
  BY TypeFacts, EntryConstants, CountsParts DEF Typed
<1>1. Others(p) /\ proc'[p].pc = "idle"
  BY EndMoves, RuntimeMoves, RestType DEF Rests
<1>2. PICK from \in Pcs : proc[p].pc = from
  BY <1>0, TypeFacts DEF ProcType
<1>3. CASE p = Runtime /\ DropCounterRow
  <2>1. from = "drop_row"
    BY <1>2, <1>3 DEF DropCounterRow, At
  <2>2. UNCHANGED <<owner, used, leaked, kills, limit>>
    BY <1>3 DEF DropCounterRow, keys, bounds, history
  <2>3. counted' = [counted EXCEPT ![ending] = None]
    BY <1>3 DEF DropCounterRow
  <2>4. NSlots' = NSlots /\ NAdmitted' = NAdmitted
    BY <1>0, <1>1, <1>2, <2>1, Numbers, NumberTypes DEF SlotPcs, Is
  <2>5. \A s \in Sessions : NOwning(s)' = NOwning(s) /\ NCounted(s)' = NCounted(s)
    BY <1>0, <1>1, <1>2, <2>1, SessionNumbers, NumberTypes DEF Is
  <2>6. Total'
    BY <1>0, <2>2, <2>4, SameOwners, NumberTypes DEF Total
  <2>7. \A s \in Sessions : counted'[s] = None \/ counted'[s] = counted[s]
    BY <1>0, <2>3
  <2>8. \A s \in Sessions : OfSession(s)'
    BY <1>0, <2>2, <2>5, <2>7, SameOwners DEF OfSession
  <2>9. counted' \in [Sessions -> Nat \cup {None}]
    BY <1>0, <2>3
  <2> QED BY <2>2, <2>6, <2>8, <2>9, CountsPartsNext, NumberTypes
<1>4. CASE (p \in Writers /\ Kill(p)) \/ (p = Runtime /\ RestartRuntime)
  <2>1. Dies(p) /\ UNCHANGED <<owner, used, limit>>
    BY <1>4 DEF Kill, RestartRuntime, counts, keys
  <2>2. kills' # 0 /\ leaked' = leaked + Is(from \in SlotPcs)
    BY <1>0, <1>2, <2>1, NumberTypes DEF Dies, Is
  <2>3. /\ \A s \in Sessions : counted'[s] = None \/ counted'[s] = counted[s]
        /\ counted' \in [Sessions -> Nat \cup {None}]
    BY <1>0, <1>4 DEF Kill, RestartRuntime, counts
  <2>4. NSlots' = NSlots - Is(from \in SlotPcs) /\ NAdmitted' <= NAdmitted /\ NAdmitted' \in Nat
    BY <1>0, <1>1, <1>2, Numbers, NumberTypes DEF SlotPcs, Is
  <2>5. \A s \in Sessions : /\ NOwning(s)' <= NOwning(s) /\ NCounted(s)' <= NCounted(s)
                            /\ NOwning(s)' \in Nat /\ NCounted(s)' \in Nat
    BY <1>0, <1>1, <1>2, SessionNumbers, NumberTypes DEF Is
  <2>6. Total' /\ leaked' \in Nat
    BY <1>0, <2>1, <2>2, <2>4, SameOwners, NumberTypes DEF Total, Is
  <2>7. \A s \in Sessions : OfSession(s)'
    BY <1>0, <2>1, <2>2, <2>3, <2>5, SameOwners, NumberTypes DEF OfSession
  <2> QED BY <2>3, <2>6, <2>7, CountsPartsNext
<1> QED BY <1>3, <1>4

(* Types are kept.                                                         *)
Tables == <<limit, now, monitor, counted, record, owner, token, byTopic, bySession, used, timer,
            ending, todo, puts, kills, unwatched, strays, broken, leaked>>

LEMMA SameTables ==
  ASSUME Typed, NEW p \in Procs, Others(p), Works(p)', UNCHANGED Tables
  PROVE  Typed'
<1>1. TypeOK'
  BY TypeFacts, TypeFrom DEF Typed, Others, Tables
<1> QED BY <1>1, WorkingStep DEF Typed

LEMMA SetTimerType ==
  ASSUME Typed, NEW k \in Keys, NEW at \in Nat, SetTimer(k, at)
  PROVE  /\ timer' \in [Keys -> [at : Nat, stuck : BOOLEAN] \cup {None}]
         /\ unwatched' \subseteq Nat /\ timer'[k] # None
         /\ \A l \in Keys \ {k} : timer'[l] = timer[l]
<1>1. /\ timer \in [Keys -> [at : Nat, stuck : BOOLEAN] \cup {None}] /\ unwatched \subseteq Nat
      /\ record[k] # None => record[k].owner \in Nat
      /\ None \notin [at : Nat, stuck : BOOLEAN]
  BY TypeFacts, EntryConstants DEF Typed, RecordType
<1>2. PICK stuck \in BOOLEAN :
        /\ timer' = [timer EXCEPT ![k] = [at |-> at, stuck |-> stuck]]
        /\ unwatched' = IF record[k] = None THEN unwatched
                        ELSE IF stuck THEN unwatched \cup {record[k].owner}
                                      ELSE unwatched \ {record[k].owner}
  BY DEF SetTimer
<1>3. [at |-> at, stuck |-> stuck] \in [at : Nat, stuck : BOOLEAN]
  OBVIOUS
<1> QED BY <1>1, <1>2, <1>3

LEMMA TypedWriter ==
  ASSUME Typed, Counting, NEW w \in Writers,
         \/ Claim(w) \/ Reserve(w) \/ UndoReserve(w) \/ Count(w) \/ Own(w) \/ Install(w)
         \/ LookupRecord(w) \/ Replace(w) \/ Index(w) \/ Schedule(w) \/ Recheck(w)
         \/ \E k \in Keys, ttl \in Ttls, v \in Values : Put(w, k, ttl, v)
  PROVE  Typed'
<1> USE DEF data, env, counts, keys, lists, sweep, bounds, history
<1>0. w \in Procs /\ TypeOK
  BY NamesDiffer DEF Typed
<1>1. ASSUME Others(w), Works(w)', TypeOK' PROVE Typed'
  BY <1>0, <1>1, WorkingStep DEF Typed
<1>2. CASE Claim(w) \/ LookupRecord(w) \/ Recheck(w)
  <2>1. Others(w) /\ Works(w)'
    BY <1>2, WriterMoves, InstallerMoves DEF Moves, Shifts, Rests
  <2>2. UNCHANGED Tables
    BY <1>2 DEF Claim, LookupRecord, Recheck, Tables
  <2> QED BY <1>0, <2>1, <2>2, SameTables
<1>3. CASE Reserve(w) \/ UndoReserve(w)
  <2>1. Others(w) /\ Works(w)' /\ used' \in Nat
    BY <1>3, WriterMoves, CountsWriter DEF Moves, Shifts, Rests
  <2>2. TypeOK'
    BY <1>0, <1>3, <2>1, TypeFacts, TypeFrom DEF Reserve, UndoReserve, Others
  <2> QED BY <1>1, <2>1, <2>2
<1>4. CASE Count(w)
  <2>1. Others(w) /\ Works(w)'
    BY <1>4, WriterMoves DEF Moves
  <2>2. counted' \in [Sessions -> Nat \cup {None}]
    BY <1>0, <1>4, TypeFacts DEF Count
  <2>3. TypeOK'
    BY <1>0, <1>4, <2>1, <2>2, TypeFacts, TypeFrom DEF Count, Others
  <2> QED BY <1>1, <2>1, <2>3
<1>5. CASE Own(w)
  <2>1. Others(w) /\ Works(w)'
    BY <1>5, WriterMoves DEF Moves, Shifts
  <2>2. owner' \in [Keys -> Nat \cup {None}] /\ token' \in Nat
    BY <1>0, <1>5, TypeFacts DEF Own
  <2>3. TypeOK'
    BY <1>0, <1>5, <2>1, <2>2, TypeFacts, TypeFrom DEF Own, Others
  <2> QED BY <1>1, <2>1, <2>3
<1>6. CASE Install(w) \/ Replace(w)
  <2>1. Others(w) /\ Works(w)'
    BY <1>6, InstallerMoves, InstalledMoves DEF Moves, Shifts, Rests, At
  <2>2. record' \in [Keys -> RecordType \cup {None}]
    <3>1. record' = record \/ (Mine(w) \in RecordType /\ record' = [record EXCEPT ![KeyOf(w)] = Mine(w)])
      BY <1>6, InstallerMoves, InstalledMoves DEF At
    <3> QED BY <1>0, <3>1, TypeFacts
  <2>3. TypeOK'
    BY <1>0, <1>6, <2>1, <2>2, TypeFacts, TypeFrom DEF Install, Replace, Others
  <2> QED BY <1>1, <2>1, <2>3
<1>7. CASE Index(w)
  <2>1. Others(w) /\ Works(w)' /\ KeyOf(w) \in Keys
    BY <1>0, <1>7, InstallerMoves
       DEF Moves, Shifts, Typed, Working, Works, At, WorkPcs, Pcs, WriterPcs
  <2>2. byTopic' \subseteq Keys /\ bySession' \subseteq Keys /\ strays' \subseteq Keys
    BY <1>0, <1>7, <2>1, TypeFacts DEF Index
  <2>3. TypeOK'
    BY <1>0, <1>7, <2>1, <2>2, TypeFacts, TypeFrom DEF Index, Others
  <2> QED BY <1>1, <2>1, <2>3
<1>8. CASE Schedule(w)
  <2>1. Others(w) /\ Works(w)' /\ KeyOf(w) \in Keys /\ proc[w].at \in Nat
    BY <1>0, <1>8, InstallerMoves, TypeFacts
       DEF Moves, Shifts, Typed, Working, Works, At, WorkPcs, Pcs, WriterPcs, ProcType
  <2>2. /\ timer' \in [Keys -> [at : Nat, stuck : BOOLEAN] \cup {None}]
        /\ unwatched' \subseteq Nat
    BY <1>0, <1>8, <2>1, InstallerMoves, SetTimerType, TypeFacts
  <2>3. TypeOK'
    BY <1>0, <1>8, <2>1, <2>2, TypeFacts, TypeFrom DEF Schedule, Others
  <2> QED BY <1>1, <2>1, <2>3
<1>9. CASE \E k \in Keys, ttl \in Ttls, v \in Values : Put(w, k, ttl, v)
  <2>1. PICK k \in Keys, ttl \in Ttls, v \in Values : Put(w, k, ttl, v)
    BY <1>9
  <2>2. Others(w) /\ Works(w)'
    BY <2>1, PutMoves
  <2>3. puts' \in Nat
    <3>1. puts' = puts + 1
      BY <2>1 DEF Put
    <3> QED BY <1>0, <3>1, TypeFacts
  <2>4. TypeOK'
    BY <1>0, <2>1, <2>2, <2>3, TypeFacts, TypeFrom DEF Put, Others
  <2> QED BY <1>1, <2>2, <2>4
<1> QED BY <1>2, <1>3, <1>4, <1>5, <1>6, <1>7, <1>8, <1>9

LEMMA TypedRemover ==
  ASSUME Typed, Counting, Held, NEW p \in Procs, RemoveStep(p)
  PROVE  Typed'
<1> USE DEF data, env, counts, keys, lists, sweep, bounds, history
<1>0. TypeOK
  BY DEF Typed
<1>1. ASSUME Others(p), Works(p)', TypeOK' PROVE Typed'
  BY <1>1, WorkingStep DEF Typed
<1>2. Others(p) /\ Works(p)'
  BY RemoverMoves DEF RemoveStep, Moves, Shifts, Back, Rests
<1>3. CASE Remove(p)
  <2>1. record' \in [Keys -> RecordType \cup {None}]
    BY <1>0, <1>3, TypeFacts DEF Remove
  <2> QED BY <1>0, <1>1, <1>2, <1>3, <2>1, TypeFacts, TypeFrom DEF Remove, Others
<1>4. CASE Unlist(p)
  <2>1. byTopic' \subseteq Keys /\ bySession' \subseteq Keys /\ strays' \subseteq Keys
    BY <1>0, <1>4, TypeFacts DEF Unlist
  <2> QED BY <1>0, <1>1, <1>2, <1>4, <2>1, TypeFacts, TypeFrom DEF Unlist, Others
<1>5. CASE CancelTimer(p)
  <2>1. timer' \in [Keys -> [at : Nat, stuck : BOOLEAN] \cup {None}]
    BY <1>0, <1>5, TypeFacts DEF CancelTimer
  <2> QED BY <1>0, <1>1, <1>2, <1>5, <2>1, TypeFacts, TypeFrom DEF CancelTimer, Others
<1>6. CASE Disown(p)
  <2>1. owner' \in [Keys -> Nat \cup {None}]
    BY <1>0, <1>6, TypeFacts DEF Disown
  <2> QED BY <1>0, <1>1, <1>2, <1>6, <2>1, TypeFacts, TypeFrom DEF Disown, Others
<1>7. CASE Uncount(p) \/ Release(p)
  <2>1. used' \in Nat /\ counted' \in [Sessions -> Nat \cup {None}]
    BY <1>7, CountsRemover
  <2> QED BY <1>0, <1>1, <1>2, <1>7, <2>1, TypeFacts, TypeFrom DEF Uncount, Release, Others
<1> QED BY <1>3, <1>4, <1>5, <1>6, <1>7 DEF RemoveStep

LEMMA TypedService ==
  ASSUME Typed, DeleteTimer \/ Expire \/ Repair \/ \E k \in Keys : TakeDue(k)
  PROVE  Typed'
<1> USE DEF data, env, counts, keys, lists, sweep, bounds, history
<1>0. TypeOK /\ Service \in Procs
  BY NamesDiffer DEF Typed
<1>1. ASSUME Others(Service), Works(Service)', TypeOK' PROVE Typed'
  BY <1>0, <1>1, WorkingStep DEF Typed
<1>2. CASE Expire \/ \E k \in Keys : TakeDue(k)
  <2>1. Others(Service) /\ Works(Service)'
    BY <1>2, ServiceMoves DEF Rests
  <2>2. UNCHANGED Tables
    BY <1>2 DEF Expire, TakeDue, Tables
  <2> QED BY <1>0, <2>1, <2>2, SameTables
<1>3. CASE DeleteTimer
  <2>1. Others(Service) /\ Works(Service)'
    BY <1>3, ServiceMoves DEF Moves
  <2>2. timer' \in [Keys -> [at : Nat, stuck : BOOLEAN] \cup {None}]
    BY <1>0, <1>3, TypeFacts DEF DeleteTimer
  <2> QED BY <1>0, <1>1, <1>3, <2>1, <2>2, TypeFacts, TypeFrom DEF DeleteTimer, Others
<1>4. CASE Repair
  <2>1. Others(Service) /\ Works(Service)'
    BY <1>4, ServiceMoves DEF Rests
  <2>2. KeyOf(Service) \in Keys /\ proc[Service].at \in Nat
    BY <1>0, <1>4, TypeFacts, ServiceMoves
       DEF Typed, Working, Works, At, WorkPcs, Pcs, ServicePcs, ProcType
  <2>3. /\ timer' \in [Keys -> [at : Nat, stuck : BOOLEAN] \cup {None}]
        /\ unwatched' \subseteq Nat
    <3>1. CASE SetTimer(KeyOf(Service), proc[Service].at)
      BY <2>2, <3>1, SetTimerType
    <3>2. CASE ~SetTimer(KeyOf(Service), proc[Service].at)
      BY <1>0, <1>4, <2>2, <3>2, TypeFacts DEF Repair, RecordType
    <3> QED BY <3>1, <3>2
  <2> QED BY <1>0, <1>1, <1>4, <2>1, <2>3, TypeFacts, TypeFrom DEF Repair, Others
<1> QED BY <1>2, <1>3, <1>4

LEMMA TypedRuntime ==
  ASSUME Typed, Counting,
         \/ ListKeys \/ DropList \/ DropCounterRow \/ RestartRuntime
         \/ \E k \in todo : Sweep(k)
         \/ \E s \in Sessions : EndSession(s)
  PROVE  Typed'
<1> USE DEF data, env, counts, keys, lists, sweep, bounds, history
<1>0. TypeOK /\ Runtime \in Procs
  BY NamesDiffer DEF Typed
<1>1. ASSUME Others(Runtime), Works(Runtime)', TypeOK' PROVE Typed'
  BY <1>0, <1>1, WorkingStep DEF Typed
<1>2. CASE \E k \in todo : Sweep(k)
  <2>1. PICK k \in todo : Sweep(k)
    BY <1>2
  <2>2. Others(Runtime) /\ Works(Runtime)'
    BY <1>0, <2>1, RuntimeMoves, TypeFacts DEF Others
  <2>3. todo' \subseteq Keys
    BY <1>0, <2>1, TypeFacts DEF Sweep
  <2> QED BY <1>0, <1>1, <2>1, <2>2, <2>3, TypeFacts, TypeFrom DEF Sweep, Others
<1>3. CASE \E s \in Sessions : EndSession(s)
  <2>1. PICK s \in Sessions : EndSession(s)
    BY <1>3
  <2>2. Others(Runtime) /\ Works(Runtime)'
    BY <2>1, RuntimeMoves DEF Moves
  <2>3. monitor' \in [Sessions -> Nat] /\ ending' \in Sessions \cup {None}
    BY <1>0, <2>1, TypeFacts DEF EndSession
  <2> QED BY <1>0, <1>1, <2>1, <2>2, <2>3, TypeFacts, TypeFrom DEF EndSession, Others
<1>4. CASE ListKeys
  <2>1. Others(Runtime) /\ Works(Runtime)'
    BY <1>4, RuntimeMoves DEF Moves
  <2>2. todo' \subseteq Keys
    BY <1>0, <1>4, TypeFacts DEF ListKeys
  <2> QED BY <1>0, <1>1, <1>4, <2>1, <2>2, TypeFacts, TypeFrom DEF ListKeys, Others
<1>5. CASE DropList
  <2>1. Others(Runtime) /\ Works(Runtime)'
    BY <1>5, RuntimeMoves DEF Moves
  <2>2. bySession' \subseteq Keys
    BY <1>0, <1>5, TypeFacts DEF DropList
  <2> QED BY <1>0, <1>1, <1>5, <2>1, <2>2, TypeFacts, TypeFrom DEF DropList, Others
<1>6. CASE DropCounterRow
  <2>1. Others(Runtime) /\ Works(Runtime)' /\ counted' \in [Sessions -> Nat \cup {None}]
    BY <1>0, <1>6, RuntimeMoves, CountsEnd DEF Rests
  <2>2. ending' \in Sessions \cup {None}
    BY <1>6 DEF DropCounterRow
  <2> QED BY <1>0, <1>1, <1>6, <2>1, <2>2, TypeFacts, TypeFrom DEF DropCounterRow, Others
<1>7. CASE RestartRuntime
  <2>1. /\ Others(Runtime) /\ Works(Runtime)' /\ counted' \in [Sessions -> Nat \cup {None}]
        /\ leaked' \in Nat
    BY <1>0, <1>7, EndMoves, CountsEnd DEF Rests
  <2>2. /\ ending' \in Sessions \cup {None} /\ todo' \subseteq Keys
        /\ monitor' \in [Sessions -> Nat] /\ kills' \in Nat
    BY <1>0, <1>7, TypeFacts DEF RestartRuntime, Dies
  <2>3. broken' \subseteq Nat
    BY <1>0, <1>7, TypeFacts DEF RestartRuntime, Dies, ProcType
  <2> QED BY <1>0, <1>1, <1>7, <2>1, <2>2, <2>3, TypeFacts, TypeFrom DEF RestartRuntime, Others
<1> QED BY <1>2, <1>3, <1>4, <1>5, <1>6, <1>7

LEMMA TypedEnd ==
  ASSUME Typed, Counting, Tick \/ \E w \in Writers : Kill(w)
  PROVE  Typed'
<1> USE DEF counts, keys, lists, sweep, bounds, history
<1>0. TypeOK
  BY DEF Typed
<1>1. CASE Tick
  <2>1. TypeOK'
    BY <1>0, <1>1, TypeFacts, TypeFrom DEF Tick
  <2>2. Working'
    BY <1>1 DEF Tick, Typed, Working, Works, At, KeyOf
  <2> QED BY <2>1, <2>2 DEF Typed
<1>2. ASSUME NEW w \in Writers, Kill(w) PROVE Typed'
  <2>1. Others(w) /\ Works(w)' /\ leaked' \in Nat /\ w \in Procs
    BY <1>0, <1>2, EndMoves, CountsEnd, NamesDiffer DEF Rests
  <2>2. kills' \in Nat /\ broken' \subseteq Nat
    BY <1>0, <1>2, <2>1, TypeFacts DEF Kill, Dies, ProcType
  <2>3. TypeOK'
    BY <1>0, <1>2, <2>1, <2>2, TypeFacts, TypeFrom DEF Kill, Others
  <2> QED BY <2>1, <2>3, WorkingStep DEF Typed
<1> QED BY <1>1, <1>2

(* A step that changes no owner and no record, and takes hold of no key.   *)
LEMMA QuietGenerations ==
  ASSUME Typed, Generations, NEW p \in Procs, Others(p),
         \/ proc'[p].pc \notin HolderPcs
         \/ /\ proc[p].pc \in HolderPcs /\ proc'[p].key = proc[p].key
            /\ proc'[p].owner = proc[p].owner,
         owner' = owner, record' = record, token' = token
  PROVE  Generations'
<1>1. \A q \in Procs, k \in Keys :
        Holds(q, k)' => Holds(q, k) /\ proc'[q].owner = proc[q].owner
  BY DEF Others, Holds, KeyOf
<1>2. Held'
  BY <1>1 DEF Generations, Held
<1> QED BY <1>2 DEF Generations, RecordsOwned, Tokens

LEMMA GenerationsWriter ==
  ASSUME Typed, Generations, NEW w \in Writers, Own(w) \/ Install(w) \/ Replace(w)
  PROVE  Generations'
<1>0. /\ w \in Procs /\ TypeOK /\ owner \in [Keys -> Nat \cup {None}] /\ None \notin Nat
      /\ record \in [Keys -> RecordType \cup {None}] /\ None \notin RecordType
      /\ token \in Nat /\ \A p \in Procs : proc[p].owner \in Nat
  BY NamesDiffer, TypeFacts, EntryConstants DEF Typed, RecordType, ProcType
<1>00. KeyOf(w) \in Keys
  BY <1>0, WriterMoves, InstallerMoves DEF Typed, Working, Works, At, WorkPcs, Pcs, WriterPcs
<1> DEFINE k == KeyOf(w)
<1>1. CASE Own(w) /\ owner[k] = None
  <2>1. Shifts(w, "install") /\ proc'[w].owner = token + 1 /\ proc[w].pc = "own"
    BY <1>1, WriterMoves DEF At
  <2>2. owner' = [owner EXCEPT ![k] = token + 1] /\ token' = token + 1 /\ record' = record
    BY <1>1 DEF Own
  <2>3. record[k] = None /\ \A q \in Procs : ~Holds(q, k)
    BY <1>0, <1>00, <1>1 DEF Generations, RecordsOwned, Held, RecordType
  <2>4. \A q \in Procs, l \in Keys : Holds(q, l)' =>
          \/ q = w /\ l = k
          \/ q # w /\ l # k /\ Holds(q, l) /\ proc'[q].owner = proc[q].owner
    BY <1>0, <2>1, <2>3 DEF Shifts, Others, Holds, KeyOf
  <2>5. Held'
    <3>1. \A l \in Keys : owner'[l] = IF l = k THEN token + 1 ELSE owner[l]
      BY <1>0, <2>2
    <3>2. ASSUME NEW q \in Procs, NEW l \in Keys, Holds(q, l)'
          PROVE  owner'[l] = proc'[q].owner /\ record'[l] = None
      BY <2>1, <2>2, <2>3, <2>4, <3>1, <3>2 DEF Generations, Held
    <3>3. ASSUME NEW q \in Procs, NEW r \in Procs, NEW l \in Keys, Holds(q, l)', Holds(r, l)'
          PROVE  q = r
      BY <2>4, <3>3 DEF Generations, Held
    <3> QED BY <3>2, <3>3 DEF Held
  <2>6. RecordsOwned'
    BY <1>0, <2>2, <2>3 DEF Generations, RecordsOwned
  <2>7. Tokens'
    BY <1>0, <1>00, <2>2 DEF Generations, Tokens
  <2> QED BY <2>5, <2>6, <2>7 DEF Generations
<1>2. CASE Own(w) /\ owner[k] # None
  <2>1. Shifts(w, "uncount")
    BY <1>2, WriterMoves
  <2>2. UNCHANGED <<owner, record, token>>
    BY <1>2 DEF Own
  <2> QED BY <1>0, <2>1, <2>2, QuietGenerations DEF Shifts, HolderPcs
<1>3. CASE /\ Installed(w) /\ UNCHANGED <<owner, token>>
          /\ \/ At(w, "install")
             \/ At(w, "replace") /\ record[k] # None /\ record[k].owner = proc[w].owner
  <2>1. /\ Others(w) /\ proc'[w].pc = "index" /\ Mine(w) \in RecordType
        /\ record' = [record EXCEPT ![k] = Mine(w)]
    BY <1>3, InstalledMoves DEF Moves, At
  <2>2. owner[k] = proc[w].owner /\ \A q \in Procs : Holds(q, k) => q = w
    BY <1>0, <1>00, <1>3 DEF Generations, RecordsOwned, Held, Holds, HolderPcs, At
  <2>3. \A q \in Procs, l \in Keys : Holds(q, l)' =>
          q # w /\ l # k /\ Holds(q, l) /\ proc'[q].owner = proc[q].owner
    BY <2>1, <2>2 DEF Others, Holds, HolderPcs, KeyOf
  <2>4. Held'
    BY <1>0, <1>3, <2>1, <2>3 DEF Generations, Held
  <2>5. RecordsOwned'
    <3>1. Mine(w).owner = proc[w].owner
      BY DEF Mine
    <3> QED BY <1>0, <1>3, <2>1, <2>2, <3>1 DEF Generations, RecordsOwned
  <2>6. Tokens'
    BY <1>3 DEF Generations, Tokens
  <2> QED BY <2>4, <2>5, <2>6 DEF Generations
<1>4. CASE Install(w)
  <2>1. UNCHANGED <<owner, token>>
    BY <1>4 DEF Install
  <2>2. At(w, "install") /\ Installed(w)
    BY <1>4, InstallerMoves
  <2> QED BY <1>3, <2>1, <2>2
<1>5. CASE Replace(w)
  <2>1. UNCHANGED <<owner, token>>
    BY <1>5 DEF Replace
  <2>2. CASE Installed(w) /\ record[k] # None /\ record[k].owner = proc[w].owner
    BY <1>3, <1>5, <2>1, <2>2, InstallerMoves
  <2>3. CASE (Shifts(w, "claim") \/ Rests(w)) /\ record' = record
    <3>1. Others(w) /\ proc'[w].pc \notin HolderPcs
      BY <2>3, RestType DEF Shifts, Rests, HolderPcs
    <3> QED BY <1>0, <2>1, <2>3, <3>1, QuietGenerations
  <2> QED BY <1>5, <2>2, <2>3, InstallerMoves
<1> QED BY <1>1, <1>2, <1>4, <1>5

LEMMA GenerationsRemover ==
  ASSUME Typed, Generations, NEW p \in Procs, Remove(p) \/ Disown(p)
  PROVE  Generations'
<1>0. /\ TypeOK /\ owner \in [Keys -> Nat \cup {None}] /\ None \notin Nat
      /\ record \in [Keys -> RecordType \cup {None}] /\ None \notin RecordType
      /\ \A q \in Procs : proc[q].owner \in Nat /\ Mine(q).owner = proc[q].owner
      /\ \A q \in Procs : proc[q] \in ProcType
  BY TypeFacts, EntryConstants DEF Typed, RecordType, ProcType, Mine
<1>00. KeyOf(p) \in Keys
  BY <1>0, RemoverMoves DEF Typed, Working, Works, At, WorkPcs, Pcs, WriterPcs, RemovePcs
<1> DEFINE k == KeyOf(p)
<1>1. CASE Remove(p) /\ record[k] = Mine(p)
  <2>1. Moves(p, "unlist") /\ record' = [record EXCEPT ![k] = None]
    BY <1>1, RemoverMoves DEF Remove
  <2>2. UNCHANGED <<owner, token>>
    BY <1>1 DEF Remove
  <2>3. record[k] # None
    <3>1. Mine(p) # None
      BY <1>0, EntryConstants DEF Mine, ProcType
    <3> QED BY <1>1, <3>1
  <2>4. owner[k] = proc[p].owner /\ \A q \in Procs : ~Holds(q, k)
    BY <1>0, <1>00, <1>1, <2>3 DEF Generations, RecordsOwned, Held
  <2>5. \A q \in Procs, l \in Keys : Holds(q, l)' =>
          \/ q = p /\ l = k
          \/ q # p /\ l # k /\ Holds(q, l) /\ proc'[q].owner = proc[q].owner
    BY <2>1, <2>4 DEF Moves, Stays, Others, Holds, KeyOf
  <2>6. Held'
    <3>1. ASSUME NEW q \in Procs, NEW l \in Keys, Holds(q, l)'
          PROVE  owner'[l] = proc'[q].owner /\ record'[l] = None
      BY <1>0, <2>1, <2>2, <2>4, <2>5, <3>1 DEF Generations, Held, Moves, Stays
    <3>2. ASSUME NEW q \in Procs, NEW r \in Procs, NEW l \in Keys, Holds(q, l)', Holds(r, l)'
          PROVE  q = r
      BY <2>5, <3>2 DEF Generations, Held
    <3> QED BY <3>1, <3>2 DEF Held
  <2>7. RecordsOwned'
    BY <1>0, <2>1, <2>2 DEF Generations, RecordsOwned
  <2> QED BY <2>2, <2>6, <2>7 DEF Generations, Tokens
<1>2. CASE Remove(p) /\ record[k] # Mine(p)
  <2>1. Others(p) /\ proc'[p].pc \notin HolderPcs
    BY <1>2, RemoverMoves, RestType DEF Back, Moves, Rests, HolderPcs
  <2>2. UNCHANGED <<owner, record, token>>
    BY <1>2 DEF Remove
  <2> QED BY <2>1, <2>2, QuietGenerations
<1>3. CASE Disown(p)
  <2>1. proc[p].pc = "disown" /\ owner[k] = proc[p].owner /\ Moves(p, "uncount") /\ record[k] = None
    BY <1>00, <1>3, RemoverMoves DEF Generations, Held, Holds, HolderPcs, Disown, At
  <2>2. owner' = [owner EXCEPT ![k] = None] /\ UNCHANGED <<record, token>>
    BY <1>3, <2>1 DEF Disown
  <2>3. \A q \in Procs, l \in Keys : Holds(q, l)' =>
          q # p /\ l # k /\ Holds(q, l) /\ proc'[q].owner = proc[q].owner
    BY <1>00, <2>1 DEF Generations, Held, Moves, Others, Holds, HolderPcs, KeyOf
  <2>4. Held'
    BY <1>0, <2>2, <2>3 DEF Generations, Held
  <2>5. RecordsOwned'
    BY <1>0, <2>1, <2>2 DEF Generations, RecordsOwned
  <2>6. Tokens'
    BY <1>0, <2>2 DEF Generations, Tokens
  <2> QED BY <2>4, <2>5, <2>6 DEF Generations
<1> QED BY <1>1, <1>2, <1>3

(* Steps that the accounts do not notice, and steps that the generations   *)
(* do not notice.                                                          *)
Quiet(p)  == /\ Others(p) /\ proc[p].pc \notin SlotPcs /\ proc'[p].pc \notin SlotPcs
             /\ owner' = owner /\ used' = used /\ counted' = counted /\ leaked' = leaked
             /\ kills' = kills /\ limit' = limit
Steady(p) == /\ Others(p) /\ owner' = owner /\ record' = record /\ token' = token
             /\ \/ proc'[p].pc \notin HolderPcs
                \/ /\ proc[p].pc \in HolderPcs /\ proc'[p].key = proc[p].key
                   /\ proc'[p].owner = proc[p].owner

LEMMA QuietSteps ==
  ASSUME Typed
  PROVE  /\ \A w \in Writers :
              (Claim(w) \/ Install(w) \/ LookupRecord(w) \/ Replace(w) \/ Index(w) \/ Schedule(w)
                 \/ Recheck(w) \/ \E k \in Keys, ttl \in Ttls, v \in Values : Put(w, k, ttl, v))
                => Quiet(w)
         /\ \A p \in Procs : Remove(p) \/ Unlist(p) \/ CancelTimer(p) => Quiet(p)
         /\ DeleteTimer \/ Expire \/ Repair \/ (\E k \in Keys : TakeDue(k)) => Quiet(Service)
         /\ ListKeys \/ DropList \/ (\E s \in Sessions : EndSession(s))
              \/ (\E k \in todo : Sweep(k)) => Quiet(Runtime)
<1> USE DEF data, env, counts, keys, lists, sweep, bounds, history
<1>0. TypeOK /\ Rest.pc = "idle" /\ Writers \subseteq Procs /\ Runtime \in Procs
  BY RestType, NamesDiffer DEF Typed
<1>1. ASSUME NEW w \in Writers,
             Claim(w) \/ Install(w) \/ LookupRecord(w) \/ Replace(w) \/ Index(w) \/ Schedule(w)
               \/ Recheck(w)
      PROVE  Quiet(w)
  <2>1. UNCHANGED <<owner, used, counted, leaked, kills, limit>>
    BY <1>1 DEF Claim, Install, LookupRecord, Replace, Index, Schedule, Recheck
  <2>2. Install(w) => Moves(w, "index")
    BY InstallerMoves, InstalledMoves DEF At
  <2>3. Replace(w) => Moves(w, "index") \/ Shifts(w, "claim") \/ Rests(w)
    BY InstallerMoves, InstalledMoves DEF At
  <2>4. Others(w) /\ proc[w].pc \notin SlotPcs /\ proc'[w].pc \notin SlotPcs
    BY <1>0, <1>1, <2>2, <2>3, WriterMoves, InstallerMoves
       DEF Moves, Shifts, Rests, SlotPcs, At
  <2> QED BY <2>1, <2>4 DEF Quiet
<1>2. ASSUME NEW w \in Writers, NEW k \in Keys, NEW ttl \in Ttls, NEW v \in Values,
             Put(w, k, ttl, v)
      PROVE  Quiet(w)
  <2>1. UNCHANGED <<owner, used, counted, leaked, kills, limit>>
    BY <1>2 DEF Put
  <2> QED BY <1>2, <2>1, PutMoves DEF Quiet, SlotPcs, At
<1>3. ASSUME NEW p \in Procs, Remove(p) \/ Unlist(p) \/ CancelTimer(p) PROVE Quiet(p)
  <2>1. UNCHANGED <<owner, used, counted, leaked, kills, limit>>
    BY <1>3 DEF Remove, Unlist, CancelTimer
  <2>2. Others(p) /\ proc[p].pc \notin SlotPcs /\ proc'[p].pc \notin SlotPcs
    BY <1>0, <1>3, RemoverMoves DEF Back, Moves, Rests, SlotPcs, At
  <2> QED BY <2>1, <2>2 DEF Quiet
<1>4. ASSUME DeleteTimer \/ Expire \/ Repair \/ (\E k \in Keys : TakeDue(k))
      PROVE  Quiet(Service)
  <2>1. UNCHANGED <<owner, used, counted, leaked, kills, limit>>
    BY <1>4 DEF DeleteTimer, Expire, Repair, TakeDue
  <2>2. /\ Others(Service) /\ proc[Service].pc \notin SlotPcs
        /\ proc'[Service].pc \notin SlotPcs
    BY <1>0, <1>4, ServiceMoves DEF Moves, Rests, SlotPcs, At
  <2> QED BY <2>1, <2>2 DEF Quiet
<1>5. ASSUME ListKeys \/ DropList \/ (\E s \in Sessions : EndSession(s))
             \/ (\E k \in todo : Sweep(k))
      PROVE  Quiet(Runtime)
  <2>1. UNCHANGED <<owner, used, counted, leaked, kills, limit>>
    BY <1>5 DEF ListKeys, DropList, EndSession, Sweep
  <2>2. /\ Others(Runtime) /\ proc[Runtime].pc \notin SlotPcs
        /\ proc'[Runtime].pc \notin SlotPcs
    BY <1>0, <1>5, RuntimeMoves, TypeFacts DEF Others, Moves, Rests, SlotPcs, At
  <2> QED BY <2>1, <2>2 DEF Quiet
<1> QED BY <1>1, <1>2, <1>3, <1>4, <1>5

LEMMA SteadySteps ==
  ASSUME Typed
  PROVE  /\ \A w \in Writers :
              (Claim(w) \/ Reserve(w) \/ UndoReserve(w) \/ Count(w) \/ LookupRecord(w) \/ Index(w)
                 \/ Schedule(w) \/ Recheck(w) \/ Kill(w)
                 \/ \E k \in Keys, ttl \in Ttls, v \in Values : Put(w, k, ttl, v))
                => Steady(w)
         /\ \A p \in Procs : Unlist(p) \/ CancelTimer(p) \/ Uncount(p) \/ Release(p) => Steady(p)
         /\ DeleteTimer \/ Expire \/ Repair \/ (\E k \in Keys : TakeDue(k)) => Steady(Service)
         /\ ListKeys \/ DropList \/ DropCounterRow \/ (\E s \in Sessions : EndSession(s))
              \/ (\E k \in todo : Sweep(k)) \/ RestartRuntime => Steady(Runtime)
<1> USE DEF data, env, counts, keys, lists, sweep, bounds, history
<1>0. TypeOK /\ Rest.pc = "idle" /\ Writers \subseteq Procs /\ Runtime \in Procs
  BY RestType, NamesDiffer DEF Typed
<1>1. ASSUME NEW w \in Writers,
             Claim(w) \/ Reserve(w) \/ UndoReserve(w) \/ Count(w) \/ LookupRecord(w) \/ Index(w)
               \/ Schedule(w) \/ Recheck(w) \/ Kill(w)
      PROVE  Steady(w)
  <2>1. UNCHANGED <<owner, record, token>>
    BY <1>1 DEF Claim, Reserve, UndoReserve, Count, LookupRecord, Index, Schedule, Recheck, Kill
  <2>2. Others(w) /\ proc'[w].pc \notin HolderPcs
    BY <1>0, <1>1, WriterMoves, InstallerMoves, EndMoves
       DEF Moves, Shifts, Rests, HolderPcs, At
  <2> QED BY <2>1, <2>2 DEF Steady
<1>2. ASSUME NEW w \in Writers, NEW k \in Keys, NEW ttl \in Ttls, NEW v \in Values,
             Put(w, k, ttl, v)
      PROVE  Steady(w)
  <2>1. UNCHANGED <<owner, record, token>>
    BY <1>2 DEF Put
  <2> QED BY <1>2, <2>1, PutMoves DEF Steady, HolderPcs
<1>3. ASSUME NEW p \in Procs, Unlist(p) \/ CancelTimer(p) \/ Uncount(p) \/ Release(p)
      PROVE  Steady(p)
  <2>1. UNCHANGED <<owner, record, token>>
    BY <1>3 DEF Unlist, CancelTimer, Uncount, Release
  <2>2. Others(p) /\ \/ proc'[p].pc \notin HolderPcs
                     \/ /\ proc[p].pc \in HolderPcs /\ proc'[p].key = proc[p].key
                        /\ proc'[p].owner = proc[p].owner
    BY <1>0, <1>3, RemoverMoves DEF Back, Moves, Stays, Shifts, Rests, HolderPcs, At
  <2> QED BY <2>1, <2>2 DEF Steady
<1>4. ASSUME DeleteTimer \/ Expire \/ Repair \/ (\E k \in Keys : TakeDue(k))
      PROVE  Steady(Service)
  <2>1. UNCHANGED <<owner, record, token>>
    BY <1>4 DEF DeleteTimer, Expire, Repair, TakeDue
  <2>2. Others(Service) /\ proc'[Service].pc \notin HolderPcs
    BY <1>0, <1>4, ServiceMoves DEF Moves, Rests, HolderPcs
  <2> QED BY <2>1, <2>2 DEF Steady
<1>5. ASSUME ListKeys \/ DropList \/ DropCounterRow \/ (\E s \in Sessions : EndSession(s))
             \/ (\E k \in todo : Sweep(k)) \/ RestartRuntime
      PROVE  Steady(Runtime)
  <2>1. UNCHANGED <<owner, record, token>>
    BY <1>5 DEF ListKeys, DropList, DropCounterRow, EndSession, Sweep, RestartRuntime
  <2>2. Others(Runtime) /\ proc'[Runtime].pc \notin HolderPcs
    BY <1>0, <1>5, RuntimeMoves, EndMoves, TypeFacts DEF Others, Moves, Rests, HolderPcs, At
  <2> QED BY <2>1, <2>2 DEF Steady
<1> QED BY <1>1, <1>2, <1>3, <1>4, <1>5

LEMMA BaseInit == ASSUME Init PROVE Base
<1>0. Pcs = SlotPcs \cup OwnPcs \cup
              {"idle", "claim", "reserve", "lookup", "replace", "delete",
               "expire", "repair", "list", "sweep", "drop_row"}
  BY DEF Pcs, WriterPcs, ServicePcs, RuntimePcs, RemovePcs, SlotPcs, OwnPcs
<1>1. TypeOK
  <2>1. proc \in [Procs -> ProcType]
    BY RestType DEF Init
  <2> QED BY <1>0, <2>1, EntryConstants DEF Init, TypeOK, ProcType
<1>2. Working
  BY RestType DEF Init, Working, Works, PcsOf, WriterPcs, ServicePcs, RuntimePcs, WorkPcs, At
<1>3. Generations
  BY RestType DEF Init, Generations, RecordsOwned, Held, Holds, HolderPcs, Tokens
<1>4. /\ OwnedKeys = {} /\ \A S : "idle" \notin S => AtPcs(S) = {} /\ \A s : For(S, s) = {}
      /\ \A s \in Sessions : Owned(s) = {} /\ counted[s] = 0
      /\ used = 0 /\ leaked = 0 /\ limit.all \in Nat /\ limit.session \in Nat
      /\ Cardinality({}) = 0
  BY RestType, FS_EmptySet, EntryConstants DEF Init, OwnedKeys, AtPcs, For, Owned
<1>5. Slots = AtPcs(SlotPcs) /\ \A s \in Sessions : Counts(s) = For({"own", "uncount"}, s)
  BY DEF Slots, AtPcs, Counts, For
<1>6. "idle" \notin SlotPcs /\ "idle" \notin {"count", "own"} /\ "idle" \notin {"own", "uncount"}
      /\ "idle" \notin {"own"}
  BY DEF SlotPcs
<1>7. NOwned = 0 /\ NSlots = 0 /\ NAdmitted = 0
  BY <1>4, <1>6 DEF NOwned, NSlots, NAdmitted
<1>8. \A s \in Sessions : NKeys(s) = 0 /\ NOwning(s) = 0 /\ NCounted(s) = 0
  BY <1>4, <1>6 DEF NKeys, NOwning, NCounted
<1>9. CountsExact
  <2>1. used = NOwned + NSlots + leaked /\ \A s \in Sessions : counted[s] = NKeys(s) + NCounted(s)
    BY <1>4, <1>7, <1>8
  <2> QED BY <1>5, <2>1 DEF CountsExact, OwnedKeys, NOwned, NSlots, NKeys, NCounted
<1>10. Admitted
  <2>1. /\ NOwned + NAdmitted <= limit.all
        /\ \A s \in Sessions : /\ NKeys(s) + NOwning(s) <= limit.session
                               /\ NKeys(s) + NCounted(s) <= counted[s]
    BY <1>4, <1>7, <1>8
  <2> QED BY <2>1 DEF Admitted, NOwned, NAdmitted, NKeys, NOwning, NCounted
<1> QED BY <1>1, <1>2, <1>3, <1>9, <1>10 DEF Base

LEMMA BaseStep == ASSUME Base, [Next]_vars PROVE Base'
<1>0. Typed /\ Counting /\ Generations /\ Held
  BY DEF Base, Typed, Counting, Generations
<1>1. ASSUME UNCHANGED vars PROVE Base'
  <2>1. TypeOK'
    BY <1>0, <1>1 DEF vars, Typed, TypeOK
  <2>2. Slots' = Slots /\ OwnedKeys' = OwnedKeys /\ \A S : AtPcs(S)' = AtPcs(S)
    BY <1>1 DEF vars, Slots, OwnedKeys, AtPcs
  <2>3. \A s : Owned(s)' = Owned(s) /\ Counts(s)' = Counts(s) /\ \A S : For(S, s)' = For(S, s)
    BY <1>1 DEF vars, Owned, Counts, For, Session, KeyOf
  <2>4. CountsExact'
    BY <1>0, <1>1, <2>2, <2>3 DEF vars, Counting, CountsExact, OwnedKeys
  <2>5. Admitted'
    BY <1>0, <1>1, <2>2, <2>3 DEF vars, Counting, Admitted
  <2>6. Working'
    BY <1>0, <1>1 DEF vars, Typed, Working, Works, At, KeyOf
  <2>7. Generations'
    BY <1>0, <1>1 DEF vars, Generations, RecordsOwned, Held, Holds, Tokens, KeyOf
  <2> QED BY <2>1, <2>4, <2>5, <2>6, <2>7 DEF Base
<1>2. ASSUME Next PROVE Typed'
  BY <1>0, <1>2, TypedWriter, TypedRemover, TypedService, TypedRuntime, TypedEnd, NamesDiffer
     DEF Next, WriterStep, ServiceStep, RuntimeStep
<1>3. ASSUME NEW p \in Procs, Quiet(p) PROVE Counting'
  BY <1>0, <1>3, QuietCounts DEF Quiet
<1>4. ASSUME Next PROVE Counting'
  <2>1. CASE Tick
    BY <1>0, <2>1 DEF Tick, counts, keys, Counting, CountsExact, Slots, Counts, Owned, Session,
       KeyOf, Admitted, OwnedKeys, AtPcs, For, bounds, history
  <2>2. ASSUME NEW w \in Writers, WriterStep(w) PROVE Counting'
    BY <1>0, <1>3, <2>2, QuietSteps, CountsWriter, CountsRemover, NamesDiffer
       DEF WriterStep, RemoveStep
  <2>3. ASSUME NEW w \in Writers, NEW k \in Keys, NEW ttl \in Ttls, NEW v \in Values,
               Put(w, k, ttl, v) \/ Kill(w)
        PROVE  Counting'
    BY <1>0, <1>3, <2>3, QuietSteps, CountsEnd, NamesDiffer
  <2>4. CASE ServiceStep
    BY <1>0, <1>3, <2>4, QuietSteps, CountsRemover, NamesDiffer DEF ServiceStep, RemoveStep
  <2>5. CASE RuntimeStep \/ RestartRuntime \/ \E s \in Sessions : EndSession(s)
    BY <1>0, <1>3, <2>5, QuietSteps, CountsRemover, CountsEnd, NamesDiffer
       DEF RuntimeStep, RemoveStep
  <2>6. ASSUME NEW w \in Writers, Kill(w) PROVE Counting'
    BY <1>0, <2>6, CountsEnd, NamesDiffer
  <2> QED BY <1>4, <2>1, <2>2, <2>3, <2>4, <2>5, <2>6 DEF Next
<1>5. ASSUME NEW p \in Procs, Steady(p) PROVE Generations'
  BY <1>0, <1>5, QuietGenerations DEF Steady
<1>6. ASSUME Next PROVE Generations'
  <2>1. CASE Tick
    BY <1>0, <2>1 DEF Tick, keys, Generations, RecordsOwned, Held, Holds, Tokens, KeyOf
  <2>2. ASSUME NEW w \in Writers, WriterStep(w) PROVE Generations'
    BY <1>0, <1>5, <2>2, SteadySteps, GenerationsWriter, GenerationsRemover, NamesDiffer
       DEF WriterStep, RemoveStep
  <2>3. ASSUME NEW w \in Writers, NEW k \in Keys, NEW ttl \in Ttls, NEW v \in Values,
               Put(w, k, ttl, v)
        PROVE  Generations'
    BY <1>0, <1>5, <2>3, SteadySteps, NamesDiffer
  <2>4. CASE ServiceStep
    BY <1>0, <1>5, <2>4, SteadySteps, GenerationsRemover, NamesDiffer DEF ServiceStep, RemoveStep
  <2>5. CASE RuntimeStep \/ RestartRuntime \/ \E s \in Sessions : EndSession(s)
    BY <1>0, <1>5, <2>5, SteadySteps, GenerationsRemover, NamesDiffer
       DEF RuntimeStep, RemoveStep
  <2>6. ASSUME NEW w \in Writers, Kill(w) PROVE Generations'
    BY <1>0, <1>5, <2>6, SteadySteps, NamesDiffer
  <2> QED BY <1>6, <2>1, <2>2, <2>3, <2>4, <2>5, <2>6 DEF Next
<1>7. ASSUME Next PROVE Base'
  BY <1>2, <1>4, <1>6, <1>7 DEF Base, Typed, Counting
<1> QED BY <1>1, <1>7

LEMMA BaseAlways == Spec => []Base
  BY BaseInit, BaseStep, PTL DEF Spec

(* The accounts of the activities, for any number of sessions, keys and    *)
(* writers: the count of all activities is the number of owned keys and of *)
(* slots in use, that of a session likewise as long as nobody dies, and    *)
(* both limits hold whatever writers, the service and the Runtime do.      *)
THEOREM AccountsHold == Spec => []Accounts
<1>1. ASSUME Base PROVE Accounts
  <2>1. Typed /\ Counting
    BY <1>1 DEF Base, Typed, Counting
  <2>2. Total /\ \A s \in Sessions : OfSession(s)
    BY <2>1, CountsParts
  <2>3. NOwned <= limit.all /\ \A s \in Sessions : NKeys(s) <= limit.session
    BY <2>1, <2>2, NumberTypes DEF Total, OfSession
  <2>4. WithinLimit
    BY <2>3 DEF WithinLimit, NOwned, NKeys, OwnedKeys
  <2> QED BY <1>1, <2>4 DEF Accounts, Base
<1> QED BY <1>1, BaseAlways, PTL

(* A record always belongs to the present owner of its key, and a new      *)
(* owner finds the key empty: no writer installs under a token that was    *)
(* given back, no removal frees a key under another's record.              *)
THEOREM OneGenerationHolds == Spec => []OneGeneration
<1>1. ASSUME Base PROVE OneGeneration
  <2>1. RecordsOwned /\ Held /\ Working /\ Writers \subseteq Procs
    BY <1>1, NamesDiffer DEF Base, Generations
  <2>2. ASSUME NEW w \in Writers, At(w, "install") PROVE record[KeyOf(w)] = None
    BY <2>1, <2>2 DEF Held, Holds, HolderPcs, Working, Works, At, WorkPcs, Pcs, WriterPcs
  <2> QED BY <2>1, <2>2 DEF OneGeneration, RecordsOwned
<1> QED BY <1>1, BaseAlways, PTL

-----------------------------------------------------------------------------

-----------------------------------------------------------------------------
(* Who sees to a record, one key at a time.                                *)
Watch(k) ==
  \/ timer[k] # None
  \/ KeyOf(Service) = k /\ proc[Service].pc \in {"delete", "expire", "repair"}
  \/ HeldBy(Service, k, {"remove"})
  \/ \E w \in Writers : HeldBy(w, k, {"index", "schedule", "remove"})
  \/ record[k].owner \in unwatched \cup broken

WatchPcs == {"index", "schedule", "remove", "delete", "expire", "repair"}
Minds(p, k) == /\ p # Runtime /\ KeyOf(p) = k /\ proc[p].pc \in WatchPcs
               /\ proc[p].pc = "remove" => Mine(p) = record[k]

LEMMA WatchIs == WatchedWell <=> \A k \in Keys : record[k] # None => Watch(k)
  BY DEF WatchedWell, Watch

(* A step of a process that does not mind the key.                         *)
LEMMA WatchKept ==
  ASSUME NEW p \in Procs, Others(p), NEW k \in Keys, Watch(k), ~Minds(p, k),
         record'[k] = record[k], timer[k] # None => timer'[k] # None,
         record[k].owner \in unwatched \cup broken
            => record[k].owner \in unwatched' \cup broken'
  PROVE  Watch(k)'
<1>1. ASSUME NEW q \in Procs, q # p
      PROVE  proc'[q] = proc[q] /\ Mine(q)' = Mine(q) /\ KeyOf(q)' = KeyOf(q)
  BY <1>1 DEF Others, Mine, KeyOf
<1>2. CASE KeyOf(Service) = k /\ proc[Service].pc \in {"delete", "expire", "repair"}
  BY <1>1, <1>2, NamesDiffer DEF Watch, Minds, WatchPcs
<1>3. CASE HeldBy(Service, k, {"remove"})
  BY <1>1, <1>3, NamesDiffer DEF Watch, Minds, WatchPcs, HeldBy
<1>4. ASSUME NEW w \in Writers, HeldBy(w, k, {"index", "schedule", "remove"})
      PROVE  Watch(k)'
  BY <1>1, <1>4, NamesDiffer DEF Watch, Minds, WatchPcs, HeldBy
<1> QED BY <1>2, <1>3, <1>4 DEF Watch

(* Of two records one owner has only one.                                  *)
LEMMA OwnersDiffer ==
  ASSUME Base, NEW k \in Keys, NEW l \in Keys, record[k] # None, record[l] # None,
         record[k].owner = record[l].owner
  PROVE  k = l
<1>1. record[k].owner \in Nat /\ None \notin Nat
  BY TypeFacts, EntryConstants DEF Base, RecordType
<1> QED BY <1>1 DEF Base, Generations, RecordsOwned, Tokens

LEMMA WatchTimer ==
  ASSUME Base, NEW k \in Keys, NEW at \in Nat, SetTimer(k, at), NEW l \in Keys, l # k,
         record[l] # None
  PROVE  /\ timer[l] # None => timer'[l] # None
         /\ record[l].owner \in unwatched => record[l].owner \in unwatched'
<1>1. record[k] # None => record[k].owner # record[l].owner
  BY OwnersDiffer
<1> QED BY <1>1, TypeFacts DEF SetTimer, Base

LEMMA WatchWriter ==
  ASSUME Base, WatchedWell, NEW w \in Writers, NEW k \in Keys, record'[k] # None,
         \/ Claim(w) \/ Reserve(w) \/ UndoReserve(w) \/ Count(w) \/ Own(w) \/ Install(w)
         \/ LookupRecord(w) \/ Replace(w) \/ Index(w) \/ Schedule(w) \/ Recheck(w)
         \/ \E l \in Keys, ttl \in Ttls, v \in Values : Put(w, l, ttl, v)
  PROVE  Watch(k)'
<1> USE DEF data, env, counts, keys, lists, sweep, bounds, history
<1>0. w \in Procs /\ Typed /\ w # Runtime /\ (record[k] # None => Watch(k)) /\ TypeOK
  BY NamesDiffer, WatchIs DEF Base, Typed
<1>1. CASE \/ Claim(w) \/ Reserve(w) \/ UndoReserve(w) \/ Count(w) \/ Own(w)
           \/ LookupRecord(w) \/ Recheck(w)
  <2>1. Others(w) /\ proc[w].pc \notin WatchPcs
    BY <1>0, <1>1, WriterMoves, InstallerMoves DEF Moves, Shifts, Rests, WatchPcs, At
  <2>2. UNCHANGED <<record, timer, unwatched, broken>>
    BY <1>1 DEF Claim, Reserve, UndoReserve, Count, Own, LookupRecord, Recheck
  <2> QED BY <1>0, <2>1, <2>2, WatchKept DEF Minds
<1>2. CASE \E l \in Keys, ttl \in Ttls, v \in Values : Put(w, l, ttl, v)
  <2>1. Others(w) /\ proc[w].pc \notin WatchPcs
    BY <1>0, <1>2, PutMoves DEF WatchPcs, At
  <2>2. UNCHANGED <<record, timer, unwatched, broken>>
    BY <1>2 DEF Put
  <2> QED BY <1>0, <2>1, <2>2, WatchKept DEF Minds
<1>3. CASE Install(w) \/ Replace(w)
  <2>1. proc[w].pc \notin WatchPcs /\ UNCHANGED <<timer, unwatched, broken>>
    BY <1>3 DEF Install, Replace, At, WatchPcs
  <2>2. CASE Installed(w)
    <3>1. /\ Moves(w, "index") /\ record' = [record EXCEPT ![KeyOf(w)] = Mine(w)]
          /\ Mine(w)' = Mine(w) /\ KeyOf(w) \in Keys
      BY <1>0, <1>3, <2>2, InstalledMoves DEF Install, Replace, At
    <3>2. CASE k = KeyOf(w)
      <4>1. record'[k] = Mine(w)' /\ proc'[w].pc = "index" /\ KeyOf(w)' = k
        BY <1>0, <3>1, <3>2, TypeFacts DEF Moves, Stays, KeyOf
      <4> QED BY <4>1 DEF Watch, HeldBy
    <3>3. CASE k # KeyOf(w)
      <4>1. record'[k] = record[k] /\ Others(w)
        BY <1>0, <3>1, <3>3, TypeFacts DEF Moves
      <4> QED BY <1>0, <2>1, <4>1, WatchKept DEF Minds
    <3> QED BY <3>2, <3>3
  <2>3. CASE ~Installed(w)
    <3>1. Others(w) /\ record' = record
      BY <1>0, <1>3, <2>3, InstallerMoves DEF Shifts, Rests
    <3> QED BY <1>0, <2>1, <3>1, WatchKept DEF Minds
  <2> QED BY <2>2, <2>3
<1>4. CASE Index(w)
  <2>1. Moves(w, "schedule") /\ proc[w].pc = "index"
    BY <1>0, <1>4, InstallerMoves DEF At
  <2>2. UNCHANGED <<record, timer, unwatched, broken>>
    BY <1>4 DEF Index
  <2>3. CASE HeldBy(w, k, {"index", "schedule", "remove"})
    BY <2>1, <2>2, <2>3 DEF Watch, HeldBy, Moves, Stays, Mine, KeyOf
  <2>4. CASE ~HeldBy(w, k, {"index", "schedule", "remove"})
    <3>1. ASSUME NEW q \in Writers, HeldBy(q, k, {"index", "schedule", "remove"}) PROVE Watch(k)'
      BY <2>1, <2>2, <2>4, <3>1, NamesDiffer DEF Watch, HeldBy, Moves, Others, Mine, KeyOf
    <3>2. proc'[Service] = proc[Service]
      BY <2>1, NamesDiffer DEF Moves, Others
    <3> QED BY <1>0, <2>2, <3>1, <3>2 DEF Watch, HeldBy, Mine, KeyOf
  <2> QED BY <2>3, <2>4
<1>5. CASE Schedule(w)
  <2>1. /\ proc[w].pc = "schedule" /\ UNCHANGED <<record, broken>> /\ KeyOf(w) \in Keys
        /\ proc[w].at \in Nat /\ Others(w)
    BY <1>0, <1>5, InstallerMoves, TypeFacts
       DEF Schedule, Moves, Base, Working, Works, At, WorkPcs, Pcs, WriterPcs, ProcType
  <2>2. CASE KeyOf(w) # k
    <3>1. /\ timer[k] # None => timer'[k] # None
          /\ record[k].owner \in unwatched => record[k].owner \in unwatched'
      BY <1>0, <1>5, <2>1, <2>2, InstallerMoves, WatchTimer
    <3> QED BY <1>0, <2>1, <2>2, <3>1, WatchKept DEF Minds
  <2>3. CASE KeyOf(w) = k /\ SetTimer(KeyOf(w), proc[w].at)
    BY <1>0, <2>1, <2>3, SetTimerType DEF Watch
  <2>4. CASE KeyOf(w) = k /\ Moves(w, "remove") /\ timer' = timer /\ unwatched' = unwatched
    <3>1. CASE Mine(w) = record[k]
      BY <2>1, <2>4, <3>1 DEF Watch, HeldBy, Moves, Stays, Mine, KeyOf
    <3>2. CASE Mine(w) # record[k]
      <4>1. ASSUME NEW q \in Writers, HeldBy(q, k, {"index", "schedule", "remove"})
            PROVE  Watch(k)'
        BY <2>1, <3>2, <4>1, NamesDiffer DEF Watch, HeldBy, Others, Mine, KeyOf
      <4>2. proc'[Service] = proc[Service]
        BY <2>1, NamesDiffer DEF Others
      <4> QED BY <1>0, <2>1, <2>4, <4>1, <4>2 DEF Watch, HeldBy, Mine, KeyOf
    <3> QED BY <3>1, <3>2
  <2> QED BY <1>0, <1>5, <2>2, <2>3, <2>4, InstallerMoves
<1> QED BY <1>1, <1>2, <1>3, <1>4, <1>5

LEMMA WatchRemover ==
  ASSUME Base, WatchedWell, NEW p \in Procs, NEW k \in Keys, record'[k] # None, RemoveStep(p)
  PROVE  Watch(k)'
<1> USE DEF data, env, counts, keys, lists, sweep, bounds, history
<1>0. Typed /\ (record[k] # None => Watch(k)) /\ TypeOK /\ Others(p)
  BY WatchIs, RemoverMoves DEF Base, Typed, RemoveStep, Moves, Shifts, Back, Rests
<1>1. CASE Remove(p)
  <2>1. proc[p].pc = "remove" /\ UNCHANGED <<timer, unwatched, broken>>
    BY <1>1 DEF Remove, At
  <2>2. record'[k] = record[k] /\ ~Minds(p, k)
    <3>1. CASE record[KeyOf(p)] = Mine(p)
      <4>1. record' = [record EXCEPT ![KeyOf(p)] = None]
        BY <1>1, <3>1 DEF Remove
      <4> QED BY <1>0, <3>1, <4>1, TypeFacts DEF Minds
    <3>2. CASE record[KeyOf(p)] # Mine(p)
      BY <1>1, <2>1, <3>2 DEF Remove, Minds
    <3> QED BY <3>1, <3>2
  <2> QED BY <1>0, <2>1, <2>2, WatchKept
<1>2. CASE Unlist(p) \/ Disown(p) \/ Uncount(p) \/ Release(p)
  <2>1. proc[p].pc \notin WatchPcs /\ UNCHANGED <<record, timer, unwatched, broken>>
    BY <1>2 DEF Unlist, Disown, Uncount, Release, At, WatchPcs
  <2> QED BY <1>0, <2>1, WatchKept DEF Minds
<1>3. CASE CancelTimer(p)
  <2>1. proc[p].pc = "cancel" /\ UNCHANGED <<record, unwatched, broken>>
    BY <1>3 DEF CancelTimer, At
  <2>2. k # KeyOf(p)
    BY <2>1 DEF Base, Generations, Held, Holds, HolderPcs
  <2>3. timer'[k] = timer[k]
    BY <1>0, <1>3, <2>2, TypeFacts DEF CancelTimer
  <2> QED BY <1>0, <2>1, <2>2, <2>3, WatchKept DEF Minds
<1> QED BY <1>1, <1>2, <1>3 DEF RemoveStep

LEMMA WatchService ==
  ASSUME Base, WatchedWell, NEW k \in Keys, record'[k] # None,
         DeleteTimer \/ Expire \/ Repair \/ \E l \in Keys : TakeDue(l)
  PROVE  Watch(k)'
<1> USE DEF data, env, counts, keys, lists, sweep, bounds, history
<1>0. /\ Typed /\ (record[k] # None => Watch(k)) /\ TypeOK /\ Others(Service)
      /\ Service \in Procs /\ UNCHANGED <<record, broken>>
  BY WatchIs, ServiceMoves, NamesDiffer
     DEF Base, Typed, Moves, Rests, DeleteTimer, Expire, Repair, TakeDue
<1>1. CASE \E l \in Keys : TakeDue(l)
  <2>1. proc[Service].pc \notin WatchPcs /\ UNCHANGED <<timer, unwatched>>
    BY <1>1 DEF TakeDue, At, WatchPcs
  <2> QED BY <1>0, <2>1, WatchKept DEF Minds
<1>2. CASE DeleteTimer
  <2>1. Moves(Service, "expire") /\ UNCHANGED unwatched
    BY <1>0, <1>2, ServiceMoves DEF DeleteTimer
  <2>2. CASE k = KeyOf(Service)
    BY <2>1, <2>2 DEF Watch, Moves, Stays, KeyOf
  <2>3. CASE k # KeyOf(Service)
    <3>1. timer'[k] = timer[k]
      BY <1>0, <1>2, <2>3, TypeFacts DEF DeleteTimer
    <3> QED BY <1>0, <2>1, <2>3, <3>1, WatchKept DEF Minds
  <2> QED BY <2>2, <2>3
<1>3. CASE Expire
  <2>1. UNCHANGED <<timer, unwatched>>
    BY <1>3 DEF Expire
  <2>2. CASE k = KeyOf(Service)
    BY <1>0, <1>3, <2>2, ServiceMoves DEF Watch, HeldBy, KeyOf
  <2>3. CASE k # KeyOf(Service)
    BY <1>0, <2>1, <2>3, WatchKept DEF Minds
  <2> QED BY <2>2, <2>3
<1>4. CASE Repair
  <2>1. KeyOf(Service) \in Keys /\ proc[Service].at \in Nat
    BY <1>0, <1>4, ServiceMoves, TypeFacts
       DEF Base, Working, Works, At, WorkPcs, Pcs, ServicePcs, ProcType
  <2>2. CASE SetTimer(KeyOf(Service), proc[Service].at)
    <3>1. CASE k = KeyOf(Service)
      BY <1>0, <2>1, <2>2, <3>1, SetTimerType DEF Watch
    <3>2. CASE k # KeyOf(Service)
      <4>1. /\ timer[k] # None => timer'[k] # None
            /\ record[k].owner \in unwatched => record[k].owner \in unwatched'
        BY <1>0, <2>1, <2>2, <3>2, WatchTimer
      <4> QED BY <1>0, <3>2, <4>1, WatchKept DEF Minds
    <3> QED BY <3>1, <3>2
  <2>3. CASE ~SetTimer(KeyOf(Service), proc[Service].at)
    <3>1. /\ timer' = timer
          /\ unwatched' = IF record[KeyOf(Service)] = None \/ timer[KeyOf(Service)] # None
                          THEN unwatched ELSE unwatched \cup {record[KeyOf(Service)].owner}
      BY <1>4, <2>3 DEF Repair
    <3>2. CASE k = KeyOf(Service)
      BY <1>0, <3>1, <3>2 DEF Watch
    <3>3. CASE k # KeyOf(Service)
      BY <1>0, <3>1, <3>3, WatchKept DEF Minds
    <3> QED BY <3>2, <3>3
  <2> QED BY <2>2, <2>3
<1> QED BY <1>1, <1>2, <1>3, <1>4

LEMMA WatchEnd ==
  ASSUME Base, WatchedWell, NEW k \in Keys, record'[k] # None,
         \/ Tick \/ (\E w \in Writers : Kill(w)) \/ RestartRuntime
         \/ ListKeys \/ DropList \/ DropCounterRow \/ (\E l \in todo : Sweep(l))
         \/ (\E s \in Sessions : EndSession(s))
  PROVE  Watch(k)'
<1> USE DEF data, env, counts, keys, lists, sweep, bounds, history
<1>0. /\ Typed /\ (record[k] # None => Watch(k)) /\ TypeOK /\ Runtime \in Procs
      /\ Writers \subseteq Procs
  BY WatchIs, NamesDiffer DEF Base, Typed
<1>1. CASE Tick
  BY <1>0, <1>1 DEF Tick, Watch, HeldBy, Mine, KeyOf
<1>2. ASSUME NEW w \in Writers, Kill(w) PROVE Watch(k)'
  <2>1. /\ Others(w) /\ UNCHANGED <<record, timer, unwatched>> /\ broken \subseteq broken'
        /\ proc[w].pc \in OwnPcs => proc[w].owner \in broken'
    BY <1>0, <1>2, EndMoves DEF Kill, Dies, Rests
  <2>2. CASE HeldBy(w, k, {"index", "schedule", "remove"})
    <3>1. record'[k].owner \in broken'
      BY <2>1, <2>2 DEF HeldBy, OwnPcs, Mine
    <3> QED BY <3>1 DEF Watch
  <2>3. CASE ~HeldBy(w, k, {"index", "schedule", "remove"})
    <3>1. ASSUME NEW q \in Writers, HeldBy(q, k, {"index", "schedule", "remove"})
          PROVE  Watch(k)'
      BY <1>0, <2>1, <2>3, <3>1 DEF Watch, HeldBy, Others, Mine, KeyOf
    <3>2. proc'[Service] = proc[Service]
      BY <2>1, NamesDiffer DEF Others
    <3> QED BY <1>0, <2>1, <3>1, <3>2 DEF Watch, HeldBy, Mine, KeyOf
  <2> QED BY <2>2, <2>3
<1>3. CASE ~Tick /\ ~(\E w \in Writers : Kill(w))
  <2>1. /\ Others(Runtime) /\ UNCHANGED <<record, timer, unwatched>>
        /\ broken \subseteq broken'
    BY <1>0, <1>3, SteadySteps
       DEF Steady, ListKeys, DropList, DropCounterRow, Sweep, EndSession, RestartRuntime, Dies
  <2> QED BY <1>0, <2>1, WatchKept DEF Minds
<1> QED BY <1>1, <1>2, <1>3

LEMMA WatchStep == ASSUME Base, WatchedWell, [Next]_vars PROVE WatchedWell'
<1>1. ASSUME UNCHANGED vars PROVE WatchedWell'
  BY <1>1 DEF vars, WatchedWell, HeldBy, Mine, KeyOf
<1>2. ASSUME Next PROVE WatchedWell'
  <2>1. SUFFICES ASSUME NEW k \in Keys, record'[k] # None PROVE Watch(k)'
    BY DEF WatchedWell, Watch
  <2>2. ASSUME NEW w \in Writers, WriterStep(w) PROVE Watch(k)'
    BY <2>1, <2>2, WatchWriter, WatchRemover, NamesDiffer DEF WriterStep
  <2>3. ASSUME NEW w \in Writers, \E l \in Keys, ttl \in Ttls, v \in Values : Put(w, l, ttl, v)
        PROVE  Watch(k)'
    BY <2>1, <2>3, WatchWriter
  <2>4. CASE ServiceStep
    BY <2>1, <2>4, WatchService, WatchRemover, NamesDiffer DEF ServiceStep
  <2>5. CASE RuntimeStep
    BY <2>1, <2>5, WatchEnd, WatchRemover, NamesDiffer DEF RuntimeStep
  <2>6. CASE \/ Tick \/ (\E w \in Writers : Kill(w)) \/ RestartRuntime
             \/ \E s \in Sessions : EndSession(s)
    BY <2>1, <2>6, WatchEnd
  <2> QED BY <1>2, <2>2, <2>3, <2>4, <2>5, <2>6 DEF Next
<1> QED BY <1>1, <1>2

(* A record stays only if something will take it away: its timer, the      *)
(* expiry service at work on its key, or a writer that has still to set    *)
(* the deadline or to roll back; unless a deadline of it was refused or    *)
(* stranded, or the process died that had the record in its hands.         *)
THEOREM WatchedHolds == Spec => []Watched
<1>1. ASSUME Init PROVE WatchedWell
  BY <1>1 DEF Init, WatchedWell
<1>2. ASSUME WatchedWell PROVE Watched
  BY <1>2 DEF WatchedWell, Watched, HeldBy
<1> QED BY <1>1, <1>2, BaseAlways, WatchStep, PTL DEF Spec

-----------------------------------------------------------------------------
(* How the Runtime proceeds after a session.                               *)
LEMMA EndingKept ==
  ASSUME Ending, NEW p \in Procs \ {Runtime}, Others(p), UNCHANGED <<monitor, ending, todo>>
  PROVE  Ending'
<1>1. proc'[Runtime] = proc[Runtime]
  BY NamesDiffer DEF Others
<1> QED BY <1>1 DEF Ending, At

LEMMA EndingStep == ASSUME Base, Ending, [Next]_vars PROVE Ending'
<1> USE DEF data, env, counts, keys, lists, sweep, bounds, history
<1>0. Typed /\ TypeOK /\ Runtime \in Procs /\ None \notin Sessions
  BY NamesDiffer, EntryConstants DEF Base, Typed
<1>1. CASE UNCHANGED vars
  BY <1>1 DEF vars, Ending, At
<1>2. CASE Tick
  BY <1>2 DEF Tick, Ending, At
<1>3. ASSUME NEW w \in Writers, WriterStep(w) \/ Kill(w) PROVE Ending'
  <2>1. UNCHANGED <<monitor, ending, todo>>
    BY <1>3 DEF WriterStep, RemoveStep, Claim, Reserve, UndoReserve, Count, Own, Install,
       LookupRecord, Replace, Index, Schedule, Recheck, Remove, Unlist, CancelTimer, Disown,
       Uncount, Release, Kill
  <2>2. Others(w) /\ w \in Procs \ {Runtime}
    BY <1>0, <1>3, WriterMoves, InstallerMoves, InstalledMoves, RemoverMoves, EndMoves, NamesDiffer
       DEF WriterStep, RemoveStep, Moves, Shifts, Rests, Back, At
  <2> QED BY <2>1, <2>2, EndingKept
<1>4. ASSUME NEW w \in Writers, NEW k \in Keys, NEW ttl \in Ttls, NEW v \in Values,
             Put(w, k, ttl, v)
      PROVE  Ending'
  <2>1. UNCHANGED <<monitor, ending, todo>>
    BY <1>4 DEF Put
  <2> QED BY <1>0, <1>4, <2>1, PutMoves, NamesDiffer, EndingKept
<1>5. CASE ServiceStep
  <2>1. UNCHANGED <<monitor, ending, todo>>
    BY <1>5 DEF ServiceStep, RemoveStep, TakeDue, DeleteTimer, Expire, Repair, Remove, Unlist,
       CancelTimer, Disown, Uncount, Release
  <2>2. Others(Service) /\ Service \in Procs \ {Runtime}
    BY <1>0, <1>5, ServiceMoves, RemoverMoves, NamesDiffer
       DEF ServiceStep, RemoveStep, Moves, Shifts, Rests, Back
  <2> QED BY <2>1, <2>2, EndingKept
<1>6. CASE RemoveStep(Runtime)
  <2>1. UNCHANGED <<monitor, ending, todo>> /\ proc[Runtime].pc \in RemovePcs
    BY <1>6 DEF RemoveStep, Remove, Unlist, CancelTimer, Disown, Uncount, Release, At, RemovePcs
  <2>2. proc'[Runtime].pc \in {"sweep"} \cup RemovePcs
    BY <1>0, <1>6, RemoverMoves, NamesDiffer
       DEF RemoveStep, Moves, Shifts, Rests, Back, RemovePcs
  <2> QED BY <2>1, <2>2 DEF Ending, At, RemovePcs
<1>7. ASSUME NEW s \in Sessions, EndSession(s) PROVE Ending'
  <2>1. /\ monitor' = [monitor EXCEPT ![s] = 0] /\ ending' = s /\ todo' = todo
        /\ At(Runtime, "idle") /\ proc'[Runtime].pc = "list"
    BY <1>0, <1>7, RuntimeMoves DEF EndSession, Moves
  <2> QED BY <1>0, <2>1, TypeFacts DEF Ending, At, RemovePcs
<1>8. CASE ListKeys
  <2>1. UNCHANGED <<monitor, ending>> /\ At(Runtime, "list") /\ proc'[Runtime].pc = "sweep"
    BY <1>0, <1>8, RuntimeMoves DEF ListKeys, Moves
  <2> QED BY <2>1 DEF Ending, At
<1>9. ASSUME NEW k \in todo, Sweep(k) PROVE Ending'
  <2>1. /\ UNCHANGED <<monitor, ending>> /\ At(Runtime, "sweep")
        /\ proc'[Runtime].pc \in {"sweep", "remove"}
    BY <1>0, <1>9, RuntimeMoves DEF Sweep, At
  <2> QED BY <2>1 DEF Ending, At, RemovePcs
<1>10. CASE DropList
  <2>1. /\ UNCHANGED <<monitor, ending, todo>> /\ At(Runtime, "sweep") /\ todo = {}
        /\ proc'[Runtime].pc = "drop_row"
    BY <1>0, <1>10, RuntimeMoves DEF DropList, Moves
  <2> QED BY <2>1 DEF Ending, At
<1>11. CASE DropCounterRow
  <2>1. /\ ending' = None /\ At(Runtime, "drop_row") /\ todo' = todo
        /\ proc'[Runtime].pc = "idle"
    BY <1>0, <1>11, RuntimeMoves, RestType DEF DropCounterRow, Rests
  <2> QED BY <2>1 DEF Ending, At, RemovePcs
<1>12. CASE RestartRuntime
  BY <1>0, <1>12, EndMoves, RestType DEF RestartRuntime, Ending, At, Rests
<1> QED BY <1>1, <1>2, <1>3, <1>4, <1>5, <1>6, <1>7, <1>8, <1>9, <1>10, <1>11, <1>12
        DEF Next, RuntimeStep

-----------------------------------------------------------------------------
(* Where a record is listed, one key at a time.                            *)
List(k) ==
  \/ k \in byTopic /\ (k \in bySession \/ monitor[SessionOf[k]] = 0)
  \/ Indexing(k)

LEMMA ListIs ==
  ListedWell <=> \A k \in Keys : record[k] # None /\ record[k].owner \notin broken => List(k)
  BY DEF ListedWell, List

LEMMA ListKept ==
  ASSUME NEW p \in Procs, Others(p), NEW k \in Keys, List(k), record'[k] = record[k],
         proc[p].pc # "index" \/ KeyOf(p) # k,
         k \in byTopic => k \in byTopic',
         k \in bySession => k \in bySession' \/ monitor'[SessionOf[k]] = 0,
         monitor[SessionOf[k]] = 0 => monitor'[SessionOf[k]] = 0
  PROVE  List(k)'
<1>1. ASSUME NEW w \in Writers, HeldBy(w, k, {"index"}) PROVE Indexing(k)'
  BY <1>1 DEF Indexing, HeldBy, Others, Mine, KeyOf, Procs
<1> QED BY <1>1 DEF List, Indexing

LEMMA ListWriter ==
  ASSUME Base, ListedWell, NEW w \in Writers, NEW k \in Keys, record'[k] # None,
         record'[k].owner \notin broken',
         \/ Claim(w) \/ Reserve(w) \/ UndoReserve(w) \/ Count(w) \/ Own(w) \/ Install(w)
         \/ LookupRecord(w) \/ Replace(w) \/ Index(w) \/ Schedule(w) \/ Recheck(w) \/ Kill(w)
         \/ \E l \in Keys, ttl \in Ttls, v \in Values : Put(w, l, ttl, v)
  PROVE  List(k)'
<1> USE DEF data, env, counts, keys, lists, sweep, bounds, history
<1>0. /\ w \in Procs /\ Typed /\ TypeOK /\ w # Runtime
      /\ (record[k] # None /\ record[k].owner \notin broken => List(k))
  BY NamesDiffer, ListIs DEF Base, Typed
<1>1. CASE \/ Claim(w) \/ Reserve(w) \/ UndoReserve(w) \/ Count(w) \/ Own(w)
           \/ LookupRecord(w) \/ Schedule(w) \/ Recheck(w)
  <2>1. Others(w) /\ proc[w].pc # "index"
    BY <1>0, <1>1, WriterMoves, InstallerMoves DEF Moves, Shifts, Rests, At
  <2>2. UNCHANGED <<record, monitor, byTopic, bySession, broken>>
    BY <1>1 DEF Claim, Reserve, UndoReserve, Count, Own, LookupRecord, Schedule, Recheck
  <2> QED BY <1>0, <2>1, <2>2, ListKept
<1>2. CASE \E l \in Keys, ttl \in Ttls, v \in Values : Put(w, l, ttl, v)
  <2>1. Others(w) /\ proc[w].pc # "index"
    BY <1>0, <1>2, PutMoves DEF At
  <2>2. UNCHANGED <<record, monitor, byTopic, bySession, broken>>
    BY <1>2 DEF Put
  <2> QED BY <1>0, <2>1, <2>2, ListKept
<1>3. CASE Install(w) \/ Replace(w)
  <2>1. /\ proc[w].pc # "index" /\ UNCHANGED <<monitor, byTopic, bySession, broken>>
    BY <1>3 DEF Install, Replace, At
  <2>2. CASE Installed(w)
    <3>1. /\ Moves(w, "index") /\ record' = [record EXCEPT ![KeyOf(w)] = Mine(w)]
          /\ Mine(w)' = Mine(w) /\ KeyOf(w) \in Keys
      BY <1>0, <1>3, <2>2, InstalledMoves DEF Install, Replace, At
    <3>2. CASE k = KeyOf(w)
      <4>1. record'[k] = Mine(w)' /\ proc'[w].pc = "index" /\ KeyOf(w)' = k
        BY <1>0, <3>1, <3>2, TypeFacts DEF Moves, Stays, KeyOf
      <4> QED BY <4>1 DEF List, Indexing, HeldBy
    <3>3. CASE k # KeyOf(w)
      <4>1. record'[k] = record[k] /\ Others(w)
        BY <1>0, <3>1, <3>3, TypeFacts DEF Moves
      <4> QED BY <1>0, <2>1, <4>1, ListKept
    <3> QED BY <3>2, <3>3
  <2>3. CASE ~Installed(w)
    <3>1. Others(w) /\ record' = record
      BY <1>0, <1>3, <2>3, InstallerMoves DEF Shifts, Rests
    <3> QED BY <1>0, <2>1, <3>1, ListKept
  <2> QED BY <2>2, <2>3
<1>4. CASE Index(w)
  <2>1. Others(w) /\ UNCHANGED <<record, monitor, broken>>
    BY <1>0, <1>4, InstallerMoves DEF Index, Moves
  <2>2. byTopic' = byTopic \cup {KeyOf(w)} /\ bySession' = bySession \cup {KeyOf(w)}
    BY <1>4 DEF Index
  <2>3. CASE k = KeyOf(w)
    BY <2>2, <2>3 DEF List
  <2>4. CASE k # KeyOf(w)
    BY <1>0, <2>1, <2>2, <2>4, ListKept
  <2> QED BY <2>3, <2>4
<1>5. CASE Kill(w)
  <2>1. /\ Others(w) /\ UNCHANGED <<record, byTopic, bySession, monitor>> /\ broken \subseteq broken'
        /\ proc[w].pc \in OwnPcs => proc[w].owner \in broken'
    BY <1>0, <1>5, EndMoves DEF Kill, Dies, Rests
  <2>2. ~HeldBy(w, k, {"index"})
    BY <2>1 DEF HeldBy, OwnPcs, Mine
  <2>3. ASSUME NEW q \in Writers, HeldBy(q, k, {"index"}) PROVE Indexing(k)'
    BY <2>1, <2>2, <2>3, NamesDiffer DEF Indexing, HeldBy, Others, Mine, KeyOf
  <2> QED BY <1>0, <2>1, <2>3 DEF List, Indexing
<1> QED BY <1>1, <1>2, <1>3, <1>4, <1>5

LEMMA ListRemover ==
  ASSUME Base, ListedWell, NEW p \in Procs, NEW k \in Keys, record'[k] # None,
         record'[k].owner \notin broken', RemoveStep(p)
  PROVE  List(k)'
<1> USE DEF data, env, counts, keys, lists, sweep, bounds, history
<1>0. /\ Typed /\ TypeOK /\ Others(p) /\ proc[p].pc # "index"
      /\ (record[k] # None /\ record[k].owner \notin broken => List(k))
  BY ListIs, RemoverMoves DEF Base, Typed, RemoveStep, Moves, Shifts, Back, Rests, At
<1>1. UNCHANGED <<monitor, broken>>
  BY DEF RemoveStep, Remove, Unlist, CancelTimer, Disown, Uncount, Release
<1>2. CASE Unlist(p)
  <2>1. k # KeyOf(p) /\ record' = record
    BY <1>2 DEF Unlist, Base, Generations, Held, Holds, HolderPcs, At
  <2>2. k \in byTopic => k \in byTopic'
    BY <1>2, <2>1 DEF Unlist
  <2>3. k \in bySession => k \in bySession'
    BY <1>2, <2>1 DEF Unlist
  <2> QED BY <1>0, <1>1, <2>1, <2>2, <2>3, ListKept
<1>3. CASE ~Unlist(p)
  <2>1. UNCHANGED lists
    BY <1>3 DEF RemoveStep, Remove, CancelTimer, Disown, Uncount, Release
  <2>2. record'[k] = record[k]
    BY <1>0, <1>3, TypeFacts DEF RemoveStep, Remove, CancelTimer, Disown, Uncount, Release
  <2> QED BY <1>0, <1>1, <2>1, <2>2, ListKept
<1> QED BY <1>2, <1>3

LEMMA ListOthers ==
  ASSUME Base, Ending, ListedWell, NEW p \in {Service, Runtime}, NEW k \in Keys,
         record'[k] # None, record'[k].owner \notin broken',
         \/ p = Service /\ (DeleteTimer \/ Expire \/ Repair \/ \E l \in Keys : TakeDue(l))
         \/ /\ p = Runtime
            /\ \/ ListKeys \/ DropList \/ DropCounterRow \/ RestartRuntime
               \/ (\E l \in todo : Sweep(l)) \/ (\E s \in Sessions : EndSession(s))
  PROVE  List(k)'
<1> USE DEF data, env, counts, keys, lists, sweep, bounds, history
<1>0. /\ Typed /\ TypeOK /\ p \in Procs /\ SessionOf[k] \in Sessions
      /\ (record[k] # None /\ record[k].owner \notin broken => List(k))
  BY NamesDiffer, ListIs, EntryConstants DEF Base, Typed
<1>1. Others(p) /\ proc[p].pc # "index" /\ record' = record
  <2>1. Steady(p)
    BY <1>0, SteadySteps
  <2>2. proc[p].pc # "index"
    BY <1>0, NamesDiffer
       DEF Typed, Working, Works, PcsOf, ServicePcs, RuntimePcs, RemovePcs
  <2> QED BY <2>1, <2>2 DEF Steady
<1>2. broken \subseteq broken' /\ byTopic' = byTopic
  BY DEF DeleteTimer, Expire, Repair, TakeDue, ListKeys, DropList, DropCounterRow, RestartRuntime,
         Sweep, EndSession, Dies
<1>3. CASE DropList
  <2>1. /\ bySession' = {l \in bySession : SessionOf[l] # ending} /\ monitor' = monitor
        /\ ending # None /\ monitor[ending] = 0
    BY <1>3 DEF DropList, Ending, At
  <2>2. k \in bySession => k \in bySession' \/ monitor'[SessionOf[k]] = 0
    BY <2>1
  <2> QED BY <1>0, <1>1, <1>2, <2>1, <2>2, ListKept
<1>4. CASE ~DropList
  <2>1. bySession' = bySession
    BY <1>4 DEF DeleteTimer, Expire, Repair, TakeDue, ListKeys, DropCounterRow, RestartRuntime,
         Sweep, EndSession
  <2>2. monitor[SessionOf[k]] = 0 => monitor'[SessionOf[k]] = 0
    BY <1>0, <1>4, TypeFacts
       DEF DeleteTimer, Expire, Repair, TakeDue, ListKeys, DropCounterRow, RestartRuntime,
           Sweep, EndSession
  <2> QED BY <1>0, <1>1, <1>2, <2>1, <2>2, ListKept
<1> QED BY <1>3, <1>4

LEMMA ListStep == ASSUME Base, Ending, ListedWell, [Next]_vars PROVE ListedWell'
<1>1. ASSUME UNCHANGED vars PROVE ListedWell'
  BY <1>1 DEF vars, ListedWell, Indexing, HeldBy, Mine, KeyOf
<1>2. ASSUME Next PROVE ListedWell'
  <2>1. SUFFICES ASSUME NEW k \in Keys, record'[k] # None, record'[k].owner \notin broken'
                 PROVE  List(k)'
    BY DEF ListedWell, List
  <2>2. ASSUME NEW w \in Writers, WriterStep(w) \/ Kill(w) PROVE List(k)'
    BY <2>1, <2>2, ListWriter, ListRemover, NamesDiffer DEF WriterStep
  <2>3. ASSUME NEW w \in Writers, \E l \in Keys, ttl \in Ttls, v \in Values : Put(w, l, ttl, v)
        PROVE  List(k)'
    BY <2>1, <2>3, ListWriter
  <2>4. CASE ServiceStep
    BY <2>1, <2>4, ListOthers, ListRemover, NamesDiffer DEF ServiceStep
  <2>5. CASE RuntimeStep \/ RestartRuntime \/ \E s \in Sessions : EndSession(s)
    BY <2>1, <2>5, ListOthers, ListRemover, NamesDiffer DEF RuntimeStep
  <2>6. CASE Tick
    BY <2>1, <2>6, ListIs DEF Tick, keys, lists, history, List, Indexing, HeldBy, Mine, KeyOf
  <2> QED BY <1>2, <2>2, <2>3, <2>4, <2>5, <2>6 DEF Next
<1> QED BY <1>1, <1>2

-----------------------------------------------------------------------------
(* The index by topic has no other row than those of records.              *)
Topic(k) ==
  \/ record[k] # None
  \/ \E p \in Procs : KeyOf(p) = k /\ At(p, "unlist")
  \/ k \in strays \/ broken # {}
TopicsMatch == \A k \in Keys : k \in byTopic => Topic(k)

LEMMA TopicKept ==
  ASSUME NEW p \in Procs, Others(p), NEW k, Topic(k), proc[p].pc # "unlist" \/ KeyOf(p) # k,
         record[k] # None => record'[k] # None, k \in strays => k \in strays',
         broken \subseteq broken'
  PROVE  Topic(k)'
<1>1. ASSUME NEW q \in Procs, KeyOf(q) = k, At(q, "unlist") PROVE Topic(k)'
  BY <1>1 DEF Topic, Others, KeyOf, At
<1> QED BY <1>1 DEF Topic

LEMMA TopicWriter ==
  ASSUME Base, TopicsMatch, NEW w \in Writers, NEW k \in Keys, k \in byTopic',
         \/ Claim(w) \/ Reserve(w) \/ UndoReserve(w) \/ Count(w) \/ Own(w) \/ Install(w)
         \/ LookupRecord(w) \/ Replace(w) \/ Index(w) \/ Schedule(w) \/ Recheck(w) \/ Kill(w)
         \/ \E l \in Keys, ttl \in Ttls, v \in Values : Put(w, l, ttl, v)
  PROVE  Topic(k)'
<1> USE DEF data, env, counts, keys, lists, sweep, bounds, history
<1>0. w \in Procs /\ Typed /\ TypeOK /\ (k \in byTopic => Topic(k)) /\ None \notin RecordType
  BY NamesDiffer, EntryConstants DEF Base, Typed, TopicsMatch, RecordType
<1>1. CASE \/ Claim(w) \/ Reserve(w) \/ UndoReserve(w) \/ Count(w) \/ Own(w)
           \/ LookupRecord(w) \/ Schedule(w) \/ Recheck(w)
  <2>1. Others(w) /\ proc[w].pc # "unlist"
    BY <1>0, <1>1, WriterMoves, InstallerMoves DEF Moves, Shifts, Rests, At
  <2>2. UNCHANGED <<record, byTopic, strays, broken>>
    BY <1>1 DEF Claim, Reserve, UndoReserve, Count, Own, LookupRecord, Schedule, Recheck
  <2> QED BY <1>0, <2>1, <2>2, TopicKept
<1>2. CASE \E l \in Keys, ttl \in Ttls, v \in Values : Put(w, l, ttl, v)
  <2>1. Others(w) /\ proc[w].pc # "unlist"
    BY <1>0, <1>2, PutMoves DEF At
  <2>2. UNCHANGED <<record, byTopic, strays, broken>>
    BY <1>2 DEF Put
  <2> QED BY <1>0, <2>1, <2>2, TopicKept
<1>3. CASE Install(w) \/ Replace(w)
  <2>1. /\ proc[w].pc # "unlist" /\ UNCHANGED <<byTopic, strays, broken>>
    BY <1>3 DEF Install, Replace, At
  <2>2. Others(w) /\ (record[k] # None => record'[k] # None)
    <3>1. CASE Installed(w)
      <4>1. Moves(w, "index") /\ record' = [record EXCEPT ![KeyOf(w)] = Mine(w)]
            /\ Mine(w) \in RecordType
        BY <1>0, <1>3, <3>1, InstalledMoves DEF Install, Replace, At
      <4> QED BY <1>0, <4>1, TypeFacts DEF Moves
    <3>2. CASE ~Installed(w)
      BY <1>0, <1>3, <3>2, InstallerMoves DEF Shifts, Rests
    <3> QED BY <3>1, <3>2
  <2> QED BY <1>0, <2>1, <2>2, TopicKept
<1>4. CASE Index(w)
  <2>1. Others(w) /\ proc[w].pc # "unlist" /\ UNCHANGED <<record, broken>>
    BY <1>0, <1>4, InstallerMoves DEF Index, Moves, At
  <2>2. byTopic' = byTopic \cup {KeyOf(w)}
        /\ strays' = IF record[KeyOf(w)] # None \/ \E p \in Procs : At(p, "unlist") /\ KeyOf(p) = KeyOf(w)
                     THEN strays ELSE strays \cup {KeyOf(w)}
    BY <1>4 DEF Index
  <2>3. CASE k = KeyOf(w)
    <3>1. CASE record[k] # None \/ \E p \in Procs : At(p, "unlist") /\ KeyOf(p) = k
      <4>1. Topic(k)
        BY <3>1 DEF Topic
      <4> QED BY <1>0, <2>1, <2>2, <2>3, <3>1, <4>1, TopicKept
    <3>2. CASE ~(record[k] # None \/ \E p \in Procs : At(p, "unlist") /\ KeyOf(p) = k)
      BY <2>2, <2>3, <3>2 DEF Topic
    <3> QED BY <3>1, <3>2
  <2>4. CASE k # KeyOf(w)
    BY <1>0, <2>1, <2>2, <2>4, TopicKept
  <2> QED BY <2>3, <2>4
<1>5. CASE Kill(w)
  <2>1. /\ Others(w) /\ UNCHANGED <<record, byTopic, strays>> /\ broken \subseteq broken'
        /\ proc[w].pc \in OwnPcs => proc[w].owner \in broken'
    BY <1>0, <1>5, EndMoves DEF Kill, Dies, Rests
  <2>2. CASE proc[w].pc = "unlist"
    BY <2>1, <2>2 DEF OwnPcs, Topic
  <2>3. CASE proc[w].pc # "unlist"
    BY <1>0, <2>1, <2>3, TopicKept
  <2> QED BY <2>2, <2>3
<1> QED BY <1>1, <1>2, <1>3, <1>4, <1>5

LEMMA TopicRemover ==
  ASSUME Base, TopicsMatch, NEW p \in Procs, NEW k \in Keys, k \in byTopic', RemoveStep(p)
  PROVE  Topic(k)'
<1> USE DEF data, env, counts, keys, lists, sweep, bounds, history
<1>0. /\ Typed /\ TypeOK /\ Others(p) /\ (k \in byTopic => Topic(k))
  BY RemoverMoves DEF Base, Typed, TopicsMatch, RemoveStep, Moves, Shifts, Back, Rests
<1>1. UNCHANGED broken
  BY DEF RemoveStep, Remove, Unlist, CancelTimer, Disown, Uncount, Release
<1>2. CASE Unlist(p)
  <2>1. /\ byTopic' = byTopic \ {KeyOf(p)} /\ strays' = strays \ {KeyOf(p)} /\ record' = record
    BY <1>2 DEF Unlist
  <2> QED BY <1>0, <1>1, <2>1, TopicKept
<1>3. CASE Remove(p) /\ record[KeyOf(p)] = Mine(p) /\ KeyOf(p) = k
  BY <1>0, <1>3, RemoverMoves DEF Topic, Moves, Stays, KeyOf, At
<1>4. CASE ~Unlist(p) /\ ~(Remove(p) /\ record[KeyOf(p)] = Mine(p) /\ KeyOf(p) = k)
  <2>1. proc[p].pc # "unlist" /\ UNCHANGED <<byTopic, strays>>
    BY <1>4 DEF RemoveStep, Remove, CancelTimer, Disown, Uncount, Release, At
  <2>2. record'[k] = record[k]
    BY <1>0, <1>4, TypeFacts DEF RemoveStep, Remove, CancelTimer, Disown, Uncount, Release
  <2> QED BY <1>0, <1>1, <2>1, <2>2, TopicKept
<1> QED BY <1>2, <1>3, <1>4

LEMMA TopicOthers ==
  ASSUME Base, TopicsMatch, NEW p \in {Service, Runtime}, NEW k \in Keys, k \in byTopic',
         \/ p = Service /\ (DeleteTimer \/ Expire \/ Repair \/ \E l \in Keys : TakeDue(l))
         \/ /\ p = Runtime
            /\ \/ ListKeys \/ DropList \/ DropCounterRow \/ RestartRuntime
               \/ (\E l \in todo : Sweep(l)) \/ (\E s \in Sessions : EndSession(s))
  PROVE  Topic(k)'
<1> USE DEF data, env, counts, keys, lists, sweep, bounds, history
<1>0. Typed /\ TypeOK /\ p \in Procs /\ (k \in byTopic => Topic(k))
  BY NamesDiffer DEF Base, Typed, TopicsMatch
<1>1. Others(p) /\ record' = record
  BY <1>0, SteadySteps DEF Steady
<1>2. broken \subseteq broken' /\ byTopic' = byTopic /\ strays' = strays
  BY DEF DeleteTimer, Expire, Repair, TakeDue, ListKeys, DropList, DropCounterRow, RestartRuntime,
         Sweep, EndSession, Dies
<1>3. proc[p].pc = "unlist" => RestartRuntime /\ p = Runtime
  BY DEF DeleteTimer, Expire, Repair, TakeDue, ListKeys, DropList, DropCounterRow, Sweep,
         EndSession, At
<1>4. CASE proc[p].pc = "unlist"
  <2>1. proc[Runtime].owner \in broken'
    BY <1>3, <1>4 DEF RestartRuntime, Dies, OwnPcs
  <2> QED BY <2>1 DEF Topic
<1>5. CASE proc[p].pc # "unlist"
  BY <1>0, <1>1, <1>2, <1>5, TopicKept
<1> QED BY <1>4, <1>5

LEMMA TopicStep == ASSUME Base, TopicsMatch, [Next]_vars PROVE TopicsMatch'
<1>1. ASSUME UNCHANGED vars PROVE TopicsMatch'
  BY <1>1 DEF vars, TopicsMatch, Topic, KeyOf, At
<1>2. ASSUME Next PROVE TopicsMatch'
  <2>1. SUFFICES ASSUME NEW k \in Keys, k \in byTopic' PROVE Topic(k)'
    BY DEF TopicsMatch
  <2>2. ASSUME NEW w \in Writers, WriterStep(w) \/ Kill(w) PROVE Topic(k)'
    BY <2>1, <2>2, TopicWriter, TopicRemover, NamesDiffer DEF WriterStep
  <2>3. ASSUME NEW w \in Writers, \E l \in Keys, ttl \in Ttls, v \in Values : Put(w, l, ttl, v)
        PROVE  Topic(k)'
    BY <2>1, <2>3, TopicWriter
  <2>4. CASE ServiceStep
    BY <2>1, <2>4, TopicOthers, TopicRemover, NamesDiffer DEF ServiceStep
  <2>5. CASE RuntimeStep \/ RestartRuntime \/ \E s \in Sessions : EndSession(s)
    BY <2>1, <2>5, TopicOthers, TopicRemover, NamesDiffer DEF RuntimeStep
  <2>6. CASE Tick
    BY <2>1, <2>6 DEF Tick, keys, lists, history, TopicsMatch, Topic, KeyOf, At
  <2> QED BY <1>2, <2>2, <2>3, <2>4, <2>5, <2>6 DEF Next
<1> QED BY <1>1, <1>2

(* Both indices lead to every record its writer is done with, and the      *)
(* index by topic has no other row but that of a writer who came to index  *)
(* after its record was removed.                                           *)
THEOREM IndicesHold == Spec => []IndicesMatch
<1>1. ASSUME Init PROVE Ending /\ ListedWell /\ TopicsMatch
  BY <1>1, RestType, NamesDiffer DEF Init, Ending, ListedWell, TopicsMatch, At
<1>2. ASSUME ListedWell, TopicsMatch PROVE IndicesMatch
  BY <1>2 DEF ListedWell, TopicsMatch, Topic, IndicesMatch, Indexing, HeldBy, At
<1> QED BY <1>1, <1>2, BaseAlways, EndingStep, ListStep, TopicStep, PTL DEF Spec

-----------------------------------------------------------------------------
(* Who still meets a record, one key at a time: its writer, the next       *)
(* cleanup, or the one that is running.                                    *)
FinishPcs == {"index", "schedule", "recheck", "remove"}
Written(k) == \E w \in Writers : HeldBy(w, k, FinishPcs)
Kept(k)    == /\ k \in bySession
              /\ \/ monitor[SessionOf[k]] # 0
                 \/ ending = SessionOf[k] /\ At(Runtime, "list")
Caught(k)  == /\ ending = SessionOf[k] /\ proc[Runtime].pc \in SweepPcs
              /\ k \in todo \/ HeldBy(Runtime, k, {"remove"})
Sees(k)    == Written(k) \/ Kept(k) \/ Caught(k)

Unbroken == kills = 0 => broken = {}

LEMMA SweptIs ==
  ASSUME Swept, kills = 0 PROVE \A k \in Keys : record[k] # None => Sees(k)
<1>1. \A k : Finishing(k, {"index", "schedule", "recheck", "remove"}) => Written(k)
  BY DEF Finishing, Written, HeldBy, FinishPcs
<1> QED BY <1>1 DEF Swept, Sees, Kept, Caught

LEMMA SweptIsNext ==
  ASSUME kills' = 0 => \A k \in Keys : record'[k] # None => Sees(k)' PROVE Swept'
<1>1. \A k : Written(k)' => Finishing(k, {"index", "schedule", "recheck", "remove"})'
  BY DEF Finishing, Written, HeldBy, FinishPcs
<1> QED BY <1>1 DEF Swept, Sees, Kept, Caught

LEMMA Alive ==
  ASSUME Base, Next, kills' = 0
  PROVE  kills = 0 /\ broken' = broken /\ ~RestartRuntime /\ \A w \in Writers : ~Kill(w)
<1> USE DEF data, env, counts, keys, lists, sweep, bounds, history
<1>1. kills \in Nat
  BY TypeFacts DEF Base
<1>2. ~RestartRuntime /\ \A w \in Writers : ~Kill(w)
  BY <1>1 DEF RestartRuntime, Kill, Dies
<1>3. CASE ~\E w \in Writers, k \in Keys, ttl \in Ttls, v \in Values : Put(w, k, ttl, v)
  <2>1. UNCHANGED <<kills, broken>>
    <3>1. CASE Tick
      BY <3>1 DEF Tick
    <3>2. ASSUME NEW w \in Writers, WriterStep(w) PROVE UNCHANGED <<kills, broken>>
      <4>1. CASE RemoveStep(w)
        BY ONLY <4>1 DEF RemoveStep, Remove, Unlist, CancelTimer, Disown, Uncount, Release,
           data, env, counts, keys, lists, sweep, bounds, history
      <4>2. CASE ~RemoveStep(w)
        BY ONLY <3>2, <4>2 DEF WriterStep, Claim, Reserve, UndoReserve, Count, Own, Install,
           LookupRecord, Replace, Index, Schedule, Recheck,
           data, env, counts, keys, lists, sweep, bounds, history
      <4> QED BY <4>1, <4>2
    <3>3. CASE ServiceStep
      BY ONLY <3>3 DEF ServiceStep, RemoveStep, Remove, Unlist, CancelTimer, Disown, Uncount,
         Release, DeleteTimer, Expire, Repair, TakeDue,
         data, env, counts, keys, lists, sweep, bounds, history
    <3>4. ASSUME NEW s \in Sessions, EndSession(s) PROVE UNCHANGED <<kills, broken>>
      BY <3>4 DEF EndSession
    <3>5. CASE RuntimeStep
      BY ONLY <3>5 DEF RuntimeStep, RemoveStep, Remove, Unlist, CancelTimer, Disown, Uncount,
         Release, ListKeys, DropList, DropCounterRow, Sweep,
         data, env, counts, keys, lists, sweep, bounds, history
    <3> QED BY ONLY Next, <1>2, <1>3, <3>1, <3>2, <3>3, <3>4, <3>5 DEF Next
  <2> QED BY ONLY <1>2, <2>1, kills' = 0
<1>4. CASE \E w \in Writers, k \in Keys, ttl \in Ttls, v \in Values : Put(w, k, ttl, v)
  BY <1>2, <1>4 DEF Put
<1> QED BY <1>2, <1>3, <1>4

(* A step of a process that has no part in the record.                     *)
LEMMA SeesKept ==
  ASSUME NEW p \in Procs, Others(p), NEW k \in Keys, Sees(k), record'[k] = record[k],
         p \in Writers => ~HeldBy(p, k, FinishPcs),
         k \in bySession => k \in bySession', UNCHANGED <<monitor, ending, todo>>,
         p = Runtime => /\ proc[p].pc \in SweepPcs /\ proc'[p].pc \in SweepPcs
                        /\ ~HeldBy(p, k, {"remove"})
  PROVE  Sees(k)'
<1>1. ASSUME NEW q \in Procs, q # p
      PROVE  proc'[q] = proc[q] /\ Mine(q)' = Mine(q) /\ KeyOf(q)' = KeyOf(q)
  BY <1>1 DEF Others, Mine, KeyOf
<1>2. CASE Written(k)
  <2>1. PICK w \in Writers : HeldBy(w, k, FinishPcs)
    BY <1>2 DEF Written
  <2>2. HeldBy(w, k, FinishPcs)'
    BY <1>1, <2>1, NamesDiffer DEF HeldBy
  <2> QED BY <2>2 DEF Sees, Written
<1>3. CASE Kept(k)
  BY <1>1, <1>3, NamesDiffer DEF Sees, Kept, At, SweepPcs, RemovePcs
<1>4. CASE Caught(k)
  BY <1>1, <1>4, NamesDiffer DEF Sees, Caught, HeldBy
<1> QED BY <1>2, <1>3, <1>4 DEF Sees

LEMMA SeesWriter ==
  ASSUME Base, ListedWell, NEW w \in Writers, NEW k \in Keys, record'[k] # None, broken = {},
         record[k] # None => Sees(k),
         \/ Claim(w) \/ Reserve(w) \/ UndoReserve(w) \/ Count(w) \/ Own(w) \/ Install(w)
         \/ LookupRecord(w) \/ Replace(w) \/ Index(w) \/ Schedule(w) \/ Recheck(w)
         \/ \E l \in Keys, ttl \in Ttls, v \in Values : Put(w, l, ttl, v)
  PROVE  Sees(k)'
<1> USE DEF data, env, counts, keys, lists, sweep, bounds, history
<1>0. w \in Procs /\ Typed /\ TypeOK /\ w # Runtime
  BY NamesDiffer DEF Base, Typed
<1>1. CASE Claim(w) \/ Reserve(w) \/ UndoReserve(w) \/ Count(w) \/ Own(w) \/ LookupRecord(w)
  <2>1. Others(w) /\ proc[w].pc \notin FinishPcs
    BY <1>0, <1>1, WriterMoves, InstallerMoves DEF Moves, Shifts, Rests, At, FinishPcs
  <2>2. UNCHANGED <<record, monitor, bySession, ending, todo>>
    BY <1>1 DEF Claim, Reserve, UndoReserve, Count, Own, LookupRecord
  <2> QED BY <1>0, <2>1, <2>2, SeesKept DEF HeldBy
<1>2. CASE \E l \in Keys, ttl \in Ttls, v \in Values : Put(w, l, ttl, v)
  <2>1. Others(w) /\ proc[w].pc \notin FinishPcs
    BY <1>0, <1>2, PutMoves DEF At, FinishPcs
  <2>2. UNCHANGED <<record, monitor, bySession, ending, todo>>
    BY <1>2 DEF Put
  <2> QED BY <1>0, <2>1, <2>2, SeesKept DEF HeldBy
<1>3. CASE Install(w) \/ Replace(w)
  <2>1. proc[w].pc \notin FinishPcs /\ UNCHANGED <<monitor, bySession, ending, todo>>
    BY <1>3 DEF Install, Replace, At, FinishPcs
  <2>2. CASE Installed(w)
    <3>1. /\ Moves(w, "index") /\ record' = [record EXCEPT ![KeyOf(w)] = Mine(w)]
          /\ Mine(w)' = Mine(w) /\ KeyOf(w) \in Keys
      BY <1>0, <1>3, <2>2, InstalledMoves DEF Install, Replace, At
    <3>2. CASE k = KeyOf(w)
      <4>1. record'[k] = Mine(w)' /\ proc'[w].pc = "index" /\ KeyOf(w)' = k
        BY <1>0, <3>1, <3>2, TypeFacts DEF Moves, Stays, KeyOf
      <4> QED BY <4>1 DEF Sees, Written, HeldBy, FinishPcs
    <3>3. CASE k # KeyOf(w)
      <4>1. record'[k] = record[k] /\ Others(w)
        BY <1>0, <3>1, <3>3, TypeFacts DEF Moves
      <4> QED BY <1>0, <2>1, <4>1, SeesKept DEF HeldBy
    <3> QED BY <3>2, <3>3
  <2>3. CASE ~Installed(w)
    <3>1. Others(w) /\ record' = record
      BY <1>0, <1>3, <2>3, InstallerMoves DEF Shifts, Rests
    <3> QED BY <1>0, <2>1, <3>1, SeesKept DEF HeldBy
  <2> QED BY <2>2, <2>3
<1>4. CASE Index(w) \/ Schedule(w) \/ (Recheck(w) /\ ~Rests(w))
  <2>1. \E to \in FinishPcs : Moves(w, to)
    BY <1>0, <1>4, InstallerMoves DEF FinishPcs
  <2>2. UNCHANGED <<record, monitor, ending, todo>> /\ (k \in bySession => k \in bySession')
    BY <1>4 DEF Index, Schedule, Recheck
  <2>3. CASE HeldBy(w, k, FinishPcs)
    BY <2>1, <2>2, <2>3 DEF Sees, Written, HeldBy, Moves, Stays, Mine, KeyOf
  <2>4. CASE ~HeldBy(w, k, FinishPcs)
    BY <1>0, <2>1, <2>2, <2>4, SeesKept DEF Moves
  <2> QED BY <2>3, <2>4
<1>5. CASE Recheck(w) /\ Rests(w)
  <2>1. /\ UNCHANGED <<record, monitor, bySession, ending, todo>> /\ At(w, "recheck")
        /\ Others(w)
    BY <1>5 DEF Recheck, Rests
  <2>2. CASE HeldBy(w, k, FinishPcs)
    <3>1. KeyOf(w) = k /\ proc[w].mon # 0 /\ proc'[w].pc = "idle"
      BY <1>0, <1>5, <2>1, <2>2, RestType DEF HeldBy, Typed, Working, Works, At, Rests
    <3>2. monitor[SessionOf[k]] # 0
      BY <1>0, <1>5, <3>1, InstallerMoves DEF Session, Moves
    <3>3. CASE k \in bySession
      BY <2>1, <3>2, <3>3 DEF Sees, Kept
    <3>4. CASE k \notin bySession
      <4>1. PICK q \in Writers : HeldBy(q, k, {"index"})
        BY <2>1, <3>2, <3>4 DEF ListedWell, Indexing
      <4>2. q # w
        BY <2>1, <4>1 DEF HeldBy, At
      <4>3. HeldBy(q, k, {"index"})'
        BY <1>0, <2>1, <4>1, <4>2, NamesDiffer DEF HeldBy, Others, Mine, KeyOf
      <4> QED BY <4>3 DEF Sees, Written, HeldBy, FinishPcs
    <3> QED BY <3>3, <3>4
  <2>3. CASE ~HeldBy(w, k, FinishPcs)
    BY <1>0, <2>1, <2>3, SeesKept
  <2> QED BY <2>2, <2>3
<1> QED BY <1>1, <1>2, <1>3, <1>4, <1>5

LEMMA SeesRemover ==
  ASSUME Base, NEW p \in Procs, NEW k \in Keys, record'[k] # None,
         record[k] # None => Sees(k), RemoveStep(p)
  PROVE  Sees(k)'
<1> USE DEF data, env, counts, keys, lists, sweep, bounds, history
<1>0. Typed /\ TypeOK /\ Others(p) /\ proc[p].pc \in RemovePcs
  BY RemoverMoves DEF Base, Typed, RemoveStep, Moves, Shifts, Back, Rests, At, RemovePcs
<1>1. UNCHANGED <<monitor, ending, todo>>
  BY DEF RemoveStep, Remove, Unlist, CancelTimer, Disown, Uncount, Release
<1>2. p = Runtime => proc[p].pc \in SweepPcs /\ proc'[p].pc \in SweepPcs
  BY <1>0, RemoverMoves, NamesDiffer
     DEF RemoveStep, Moves, Shifts, Back, SweepPcs, RemovePcs
<1>3. CASE Remove(p)
  <2>1. record'[k] = record[k] /\ ~(KeyOf(p) = k /\ Mine(p) = record[k]) /\ bySession' = bySession
    <3>1. CASE record[KeyOf(p)] = Mine(p)
      <4>1. record' = [record EXCEPT ![KeyOf(p)] = None]
        BY <1>3, <3>1 DEF Remove
      <4> QED BY <1>0, <1>3, <3>1, <4>1, TypeFacts DEF Remove
    <3>2. CASE record[KeyOf(p)] # Mine(p)
      BY <1>3, <3>2 DEF Remove
    <3> QED BY <3>1, <3>2
  <2> QED BY <1>0, <1>1, <1>2, <2>1, SeesKept DEF HeldBy
<1>4. CASE ~Remove(p)
  <2>1. record' = record /\ proc[p].pc \notin FinishPcs
    BY <1>4 DEF RemoveStep, Unlist, CancelTimer, Disown, Uncount, Release, At, FinishPcs
  <2>2. k \in bySession => k \in bySession'
    <3>1. CASE Unlist(p)
      <4>1. k # KeyOf(p)
        BY <2>1, <3>1 DEF Unlist, Base, Generations, Held, Holds, HolderPcs, At
      <4> QED BY <3>1, <4>1 DEF Unlist
    <3>2. CASE ~Unlist(p)
      BY <1>4, <3>2 DEF RemoveStep, CancelTimer, Disown, Uncount, Release
    <3> QED BY <3>1, <3>2
  <2> QED BY <1>0, <1>1, <1>2, <2>1, <2>2, SeesKept DEF HeldBy, FinishPcs
<1> QED BY <1>3, <1>4

LEMMA SeesService ==
  ASSUME Base, NEW k \in Keys, record'[k] # None, record[k] # None => Sees(k),
         DeleteTimer \/ Expire \/ Repair \/ \E l \in Keys : TakeDue(l)
  PROVE  Sees(k)'
<1> USE DEF data, env, counts, keys, lists, sweep, bounds, history
<1>1. Others(Service) /\ record' = record /\ Service \in Procs \ {Runtime}
  BY SteadySteps, NamesDiffer DEF Steady, Base, Typed
<1>2. UNCHANGED <<bySession, monitor, ending, todo>>
  BY DEF DeleteTimer, Expire, Repair, TakeDue
<1> QED BY <1>1, <1>2, SeesKept, NamesDiffer

LEMMA SeesRuntime ==
  ASSUME Base, Ending, NEW k \in Keys, record'[k] # None, record[k] # None => Sees(k),
         \/ ListKeys \/ DropList \/ DropCounterRow \/ (\E l \in todo : Sweep(l))
         \/ (\E s \in Sessions : EndSession(s))
  PROVE  Sees(k)'
<1> USE DEF data, env, counts, keys, lists, sweep, bounds, history
<1>0. /\ Typed /\ TypeOK /\ Runtime \in Procs /\ Writers \subseteq Procs \ {Runtime}
      /\ Others(Runtime) /\ record' = record /\ SessionOf[k] \in Sessions /\ Sees(k)
  <2>1. Typed /\ TypeOK
    BY DEF Base, Typed
  <2>2. Steady(Runtime)
    BY <2>1, SteadySteps
  <2> QED BY <2>1, <2>2, NamesDiffer, EntryConstants DEF Steady
<1>1. ASSUME Written(k) PROVE Sees(k)'
  BY <1>0, <1>1 DEF Sees, Written, HeldBy, Others, Mine, KeyOf
<1>2. ASSUME NEW s \in Sessions, EndSession(s), ~Written(k) PROVE Sees(k)'
  <2>1. /\ monitor' = [monitor EXCEPT ![s] = 0] /\ ending' = s /\ At(Runtime, "idle")
        /\ proc'[Runtime].pc = "list" /\ bySession' = bySession
    BY <1>0, <1>2, RuntimeMoves DEF EndSession, Moves
  <2>2. k \in bySession /\ monitor[SessionOf[k]] # 0
    BY <1>0, <1>2, <2>1 DEF Sees, Kept, Caught, At, SweepPcs, RemovePcs
  <2> QED BY <1>0, <2>1, <2>2, TypeFacts DEF Sees, Kept, At
<1>3. CASE ListKeys /\ ~Written(k)
  <2>1. /\ todo' = {l \in bySession : SessionOf[l] = ending} /\ At(Runtime, "list")
        /\ proc'[Runtime].pc = "sweep" /\ UNCHANGED <<bySession, monitor, ending>>
    BY <1>0, <1>3, RuntimeMoves DEF ListKeys, Moves
  <2> QED BY <1>0, <1>3, <2>1 DEF Sees, Kept, Caught, At, SweepPcs, RemovePcs
<1>4. ASSUME NEW l \in todo, Sweep(l), ~Written(k) PROVE Sees(k)'
  <2>1. /\ todo' = todo \ {l} /\ At(Runtime, "sweep")
        /\ UNCHANGED <<bySession, monitor, ending>>
    BY <1>4 DEF Sweep
  <2>2. CASE k = l
    <3>1. /\ proc'[Runtime].pc = "remove" /\ proc'[Runtime].key = k
          /\ Mine(Runtime)' = record[k]
      BY <1>0, <1>4, <2>2, RuntimeMoves
    <3> QED BY <1>0, <1>4, <2>1, <3>1
            DEF Sees, Kept, Caught, HeldBy, KeyOf, At, SweepPcs, RemovePcs
  <2>3. CASE k # l
    <3>1. proc'[Runtime].pc \in SweepPcs
      BY <1>0, <1>4, <2>1, RuntimeMoves DEF At, SweepPcs, RemovePcs
    <3> QED BY <1>0, <1>4, <2>1, <2>3, <3>1 DEF Sees, Kept, Caught, HeldBy, At
  <2> QED BY <2>2, <2>3
<1>5. CASE DropList /\ ~Written(k)
  <2>1. /\ todo = {} /\ At(Runtime, "sweep") /\ UNCHANGED <<monitor, ending>>
        /\ bySession' = {l \in bySession : SessionOf[l] # ending} /\ monitor[ending] = 0
    BY <1>5 DEF DropList, Ending, At
  <2>2. k \in bySession /\ monitor[SessionOf[k]] # 0
    BY <1>0, <1>5, <2>1 DEF Sees, Kept, Caught, HeldBy, At
  <2> QED BY <2>1, <2>2 DEF Sees, Kept
<1>6. CASE DropCounterRow /\ ~Written(k)
  <2>1. At(Runtime, "drop_row") /\ UNCHANGED <<monitor, bySession>>
    BY <1>6 DEF DropCounterRow
  <2> QED BY <1>0, <1>6, <2>1 DEF Sees, Kept, Caught, At, SweepPcs, RemovePcs
<1> QED BY <1>1, <1>2, <1>3, <1>4, <1>5, <1>6

LEMMA SweptStep ==
  ASSUME Base, Ending, ListedWell, Unbroken, Swept, [Next]_vars PROVE Unbroken' /\ Swept'
<1>1. ASSUME UNCHANGED vars PROVE Unbroken' /\ Swept'
  BY <1>1 DEF vars, Unbroken, Swept, Finishing, HeldBy, Mine, KeyOf, At
<1>2. ASSUME Next PROVE Unbroken'
  BY <1>2, Alive DEF Unbroken
<1>3. ASSUME Next PROVE Swept'
  <2>1. SUFFICES ASSUME kills' = 0, NEW k \in Keys, record'[k] # None PROVE Sees(k)'
    BY SweptIsNext
  <2>2. /\ broken = {} /\ (record[k] # None => Sees(k))
        /\ ~RestartRuntime /\ \A w \in Writers : ~Kill(w)
    BY <1>3, <2>1, Alive, SweptIs DEF Unbroken
  <2>3. ASSUME NEW w \in Writers, WriterStep(w) PROVE Sees(k)'
    BY <2>1, <2>2, <2>3, SeesWriter, SeesRemover, NamesDiffer DEF WriterStep
  <2>4. ASSUME NEW w \in Writers, \E l \in Keys, ttl \in Ttls, v \in Values : Put(w, l, ttl, v)
        PROVE  Sees(k)'
    BY <2>1, <2>2, <2>4, SeesWriter
  <2>5. CASE ServiceStep
    BY <2>1, <2>2, <2>5, SeesService, SeesRemover, NamesDiffer DEF ServiceStep
  <2>6. CASE RuntimeStep \/ \E s \in Sessions : EndSession(s)
    BY <2>1, <2>2, <2>6, SeesRuntime, SeesRemover, NamesDiffer DEF RuntimeStep
  <2>7. CASE Tick
    BY <2>1, <2>2, <2>7 DEF Tick, keys, lists, sweep, Sees, Written, Kept, Caught, HeldBy, Mine,
       KeyOf, At
  <2> QED BY <1>3, <2>2, <2>3, <2>4, <2>5, <2>6, <2>7 DEF Next
<1> QED BY <1>1, <1>2, <1>3

(* As long as no process dies, what a session left behind when its cleanup *)
(* is over is in the hands of a writer that has still to look, and will    *)
(* see that the session is gone.                                           *)
THEOREM NothingOrphanedHolds == Spec => []NothingOrphaned
<1>1. ASSUME Init PROVE Ending /\ ListedWell /\ Unbroken /\ Swept
  BY <1>1, RestType, NamesDiffer DEF Init, Ending, ListedWell, Unbroken, Swept, At
<1>2. ASSUME Swept PROVE NothingOrphaned
  BY <1>2 DEF Swept, NothingOrphaned
<1> QED BY <1>1, <1>2, BaseAlways, EndingStep, ListStep, SweptStep, PTL DEF Spec

================================================================================
