----------------------------- MODULE WebhookQueue -----------------------------
(***************************************************************************)
(* The webhook dispatcher, webhook/dispatcher.ex: one process that posts   *)
(* jobs by tasks of their own and tries again what failed.  Its jobs and   *)
(* the index of when they are due are tables that outlive it; which tasks  *)
(* are running it only knows itself.  An enqueue that is refused (drain,   *)
(* validation) changes nothing and is left out.                            *)
(***************************************************************************)
EXTENDS Integers, FiniteSets

CONSTANTS
  Jobs,            \* ids, each of one enqueue
  MaxQueued,       \* max_pending
  MaxConcurrency,
  MaxRetries,
  MaxCrashes,      \* bound: times the dispatcher stops
  Nothing

ASSUME WebhookConstants ==
  /\ {MaxQueued, MaxConcurrency} \subseteq Nat \ {0}
  /\ {MaxRetries, MaxCrashes} \subseteq Nat
  /\ Nothing \notin Jobs \cup [attempt : Nat, ripe : BOOLEAN]

VARIABLES
  jobs,       \* webhook_jobs; ripe: next_at_ms has come
  asked,      \* jobs that were enqueued
  due,        \* webhook_due: <<job, attempt>>; a key holds next_at_ms, here
              \* told by the attempt it was set for
  doing,      \* what the dispatcher does: at "idle", "tick", "launch" or
              \* "index" of a job; "down" without one
  active,     \* state.active: tasks of this dispatcher, <<job, post>>
  running,    \* tasks that are posting, whoever started them
  results,    \* mailbox: <<task, verdict>>
  posts,      \* history: posts of each job
  crashes

queueVars == <<jobs, asked, due, doing, active, running, results, posts, crashes>>

Verdicts == {"success", "retry", "permanent"}
Stored   == {j \in Jobs : jobs[j] # Nothing}
Ripe     == {k \in due : jobs[k[1]] = Nothing \/ jobs[k[1]].attempt # k[2] \/ jobs[k[1]].ripe}

At(step)     == doing.at = step
Does(step)   == doing' = [at |-> step, job |-> Nothing]
DoesWith(step, j) == doing' = [at |-> step, job |-> j]

QueueInit ==
  /\ jobs = [j \in Jobs |-> Nothing] /\ asked = {} /\ due = {}
  /\ doing = [at |-> "idle", job |-> Nothing]
  /\ active = {} /\ running = {} /\ results = {}
  /\ posts = [j \in Jobs |-> 0] /\ crashes = 0

-----------------------------------------------------------------------------
Enqueue(j) ==
  /\ At("idle") /\ j \notin asked
  /\ Cardinality(Stored) < MaxQueued
  /\ asked' = asked \cup {j}
  /\ jobs' = [jobs EXCEPT ![j] = [attempt |-> 0, ripe |-> TRUE]]
  /\ DoesWith("index", j)
  /\ UNCHANGED <<due, active, running, results, posts, crashes>>

(* The second insert of an enqueue or a retry.                             *)
IndexJob ==
  /\ At("index")
  /\ due' = due \cup {<<doing.job, jobs[doing.job].attempt>>}
  /\ Does("idle")
  /\ UNCHANGED <<jobs, asked, active, running, results, posts, crashes>>

(* tick and launch_due, until nothing is due or enough tasks are running.  *)
MayLaunch == Ripe # {} /\ Cardinality(active) < MaxConcurrency

Tick ==
  /\ At("idle") /\ MayLaunch
  /\ Does("tick")
  /\ UNCHANGED <<jobs, asked, due, active, running, results, posts, crashes>>

TakeDue(k) ==
  /\ At("tick") /\ MayLaunch /\ k \in Ripe
  /\ due' = due \ {k}
  /\ DoesWith("launch", k[1])
  /\ UNCHANGED <<jobs, asked, active, running, results, posts, crashes>>

Launch ==
  /\ At("launch") /\ Does("tick")
  /\ LET j == doing.job
         task == <<j, posts[j] + 1>>
     IN IF jobs[j] = Nothing THEN UNCHANGED <<active, running, posts>>
        ELSE /\ posts' = [posts EXCEPT ![j] = @ + 1]
             /\ active' = active \cup {task} /\ running' = running \cup {task}
  /\ UNCHANGED <<jobs, asked, due, results, crashes>>

TickEnds ==
  /\ At("tick") /\ ~MayLaunch
  /\ Does("idle")
  /\ UNCHANGED <<jobs, asked, due, active, running, results, posts, crashes>>

(* A task posts, and tells the dispatcher that started it, if it is there. *)
TaskEnds(task, verdict) ==
  /\ task \in running /\ running' = running \ {task}
  /\ results' = IF task \in active THEN results \cup {<<task, verdict>>} ELSE results
  /\ UNCHANGED <<jobs, asked, due, doing, active, posts, crashes>>

(* Mutant of FinishJob: the retry is not put into the index.               *)
MutantFinishJob(task, verdict) ==
  /\ At("idle") /\ <<task, verdict>> \in results /\ task \in active
  /\ results' = results \ {<<task, verdict>>} /\ active' = active \ {task}
  /\ IF verdict = "retry" /\ jobs[task[1]].attempt < MaxRetries
     THEN jobs' = [jobs EXCEPT ![task[1]] = [attempt |-> @.attempt + 1, ripe |-> FALSE]]
     ELSE jobs' = [jobs EXCEPT ![task[1]] = Nothing]
  /\ UNCHANGED <<asked, due, doing, running, posts, crashes>>

(* The answer or the death of a task (finish_job).                         *)
FinishJob(task, verdict) ==
  LET j == task[1]
  IN /\ At("idle") /\ <<task, verdict>> \in results /\ task \in active
     /\ results' = results \ {<<task, verdict>>} /\ active' = active \ {task}
     /\ IF jobs[j] = Nothing THEN UNCHANGED <<jobs, doing>>
        ELSE \/ /\ verdict = "retry" /\ jobs[j].attempt < MaxRetries
                /\ jobs' = [jobs EXCEPT ![j] = [attempt |-> @.attempt + 1, ripe |-> FALSE]]
                /\ DoesWith("index", j)
             \/ /\ verdict # "retry" \/ jobs[j].attempt >= MaxRetries
                /\ jobs' = [jobs EXCEPT ![j] = Nothing]
                /\ UNCHANGED doing
     /\ UNCHANGED <<asked, due, running, posts, crashes>>

(* The backoff is over.                                                    *)
Ripen(j) ==
  /\ j \in Stored /\ ~jobs[j].ripe
  /\ jobs' = [jobs EXCEPT ![j].ripe = TRUE]
  /\ UNCHANGED <<asked, due, doing, active, running, results, posts, crashes>>

-----------------------------------------------------------------------------
(* The dispatcher stops anywhere; its tasks go on, and post to nobody.     *)
DispatcherStops ==
  /\ ~At("down") /\ crashes < MaxCrashes
  /\ crashes' = crashes + 1 /\ Does("down")
  /\ active' = {} /\ results' = {}
  /\ UNCHANGED <<jobs, asked, due, running, posts>>

(* Mutant of DispatcherStarts: the index is believed.                      *)
MutantDispatcherStarts ==
  /\ At("down") /\ Does("idle")
  /\ UNCHANGED <<jobs, asked, due, active, running, results, posts, crashes>>

(* rebuild_due: every stored job is due again.                             *)
DispatcherStarts ==
  /\ At("down") /\ Does("idle")
  /\ due' = {<<j, jobs[j].attempt>> : j \in Stored}
  /\ UNCHANGED <<jobs, asked, active, running, results, posts, crashes>>

DispatcherSteps ==
  \/ IndexJob \/ Launch \/ TickEnds \/ \E k \in due : TakeDue(k)
  \/ \E task \in active, v \in Verdicts : FinishJob(task, v)
  \/ DispatcherStarts

QueueNext ==
  \/ \E j \in Jobs : Enqueue(j) \/ Ripen(j)
  \/ Tick \/ DispatcherSteps \/ DispatcherStops
  \/ \E task \in running, v \in Verdicts : TaskEnds(task, v)

(* The dispatcher ticks, does what it has begun and is started again;      *)
(* posts end (request_timeout_ms) and time passes.                         *)
QueueFairness ==
  /\ WF_queueVars(DispatcherSteps) /\ WF_queueVars(Tick)
  /\ WF_queueVars(\E task \in running, v \in Verdicts : TaskEnds(task, v))
  /\ WF_queueVars(\E j \in Jobs : Ripen(j))

QueueSpec == QueueInit /\ [][QueueNext]_queueVars /\ QueueFairness

-----------------------------------------------------------------------------
(* Properties.                                                             *)

(* Whatever dies between two table operations, a job that is stored is     *)
(* known to be due or is being posted for this dispatcher, once, and       *)
(* nothing else is; a restart costs one more post at most.                 *)
InHand(j) == (At("index") \/ At("launch")) /\ doing.job = j
JobsKept ==
  /\ ~At("down") =>
       \A j \in Jobs :
         LET rows  == {k \in due : k[1] = j}
             tasks == {t \in active : t[1] = j}
         IN Cardinality(rows) + Cardinality(tasks) + (IF InHand(j) THEN 1 ELSE 0)
              = IF j \in Stored THEN 1 ELSE 0
  /\ \A j \in Stored : posts[j] <= jobs[j].attempt + 1 + crashes
  /\ \A j \in Jobs : posts[j] <= MaxRetries + 1 + crashes

(* Every job leaves the queue, so await_idle (docs/operations.md:7) ends:  *)
(* delivered, given up or refused, at the latest after its last retry.     *)
JobsEnd == \A j \in Jobs : j \in Stored ~> j \notin Stored
===============================================================================
