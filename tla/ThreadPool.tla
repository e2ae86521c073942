----------------------------- MODULE ThreadPool -----------------------------
(***************************************************************************)
(* ThreadPool: workers that take tasks from a queue under m_, submit(),    *)
(* and the destructor, which clears running and notifies without m_ and    *)
(* then joins (ThreadJoiner).  A worker takes a task out of the queue and  *)
(* does nothing with it: no call follows (ThreadPool.h:57).                *)
(***************************************************************************)
EXTENDS Integers, Sequences, SequencesExt

CONSTANTS
    Workers,   \* the threads of the pool
    MaxTasks   \* bound: calls of submit()

Free == "free"

ASSUME PoolAssumption ==
    /\ Workers # {} /\ Free \notin Workers
    /\ MaxTasks \in Nat

VARIABLES
    tasks,     \* the queue; a task is its number in the order of submit()
    running,
    m_,        \* the worker that holds the mutex, or Free
    worker,    \* per worker: where worker_thread is
    owner,     \* the thread that submits, and destroys the pool
    submitted, \* calls of submit() so far
    taken,     \* history: the tasks taken out of the queue
    missed     \* history: workers between test and wait when notified

vars == <<tasks, running, m_, worker, owner, submitted, taken, missed>>

WorkerStates == {"loop", "lock", "test", "sleep", "asleep", "exited"}
At(w, pc) == worker[w] = pc
Go(w, pc) == worker' = [worker EXCEPT ![w] = pc]

Init ==
    /\ tasks = <<>> /\ running = TRUE /\ m_ = Free
    /\ worker = [w \in Workers |-> "loop"]
    /\ owner = "using" /\ submitted = 0 /\ taken = <<>> /\ missed = {}

-----------------------------------------------------------------------------
(* worker_thread.                                                          *)

whileRunning(w) ==
    /\ At(w, "loop")
    /\ Go(w, IF running THEN "lock" ELSE "exited")
    /\ UNCHANGED <<tasks, running, m_, owner, submitted, taken, missed>>

lock(w) ==
    /\ At(w, "lock") /\ m_ = Free
    /\ m_' = w /\ Go(w, "test")
    /\ UNCHANGED <<tasks, running, owner, submitted, taken, missed>>

(* Wrong on purpose: the mutex is kept.                                    *)
unlock_Forgotten == UNCHANGED m_

unlock == m_' = Free

(* Wrong on purpose: the newest task is taken.                             *)
takeTask_Newest == taken' = Append(taken, Last(tasks)) /\ tasks' = Front(tasks)

takeTask == taken' = Append(taken, Head(tasks)) /\ tasks' = Tail(tasks)

(* Wrong on purpose: the wait ends only for a task.                        *)
MayStop_Not == FALSE

(* !running, in the predicate of the wait and in the test behind it.       *)
MayStop == ~running

(* The predicate, and what follows when it holds: return, or a task.       *)
test(w) ==
    /\ At(w, "test")
    /\ CASE MayStop -> Go(w, "exited") /\ unlock /\ UNCHANGED <<tasks, taken>>
         [] ~MayStop /\ tasks # <<>> -> Go(w, "loop") /\ unlock /\ takeTask
         [] OTHER -> Go(w, "sleep") /\ UNCHANGED <<m_, tasks, taken>>
    /\ UNCHANGED <<running, owner, submitted, missed>>

(* The predicate failed: wait releases m_ and sleeps.                      *)
sleep(w) ==
    /\ At(w, "sleep")
    /\ unlock /\ Go(w, "asleep")
    /\ UNCHANGED <<tasks, running, owner, submitted, taken, missed>>

spuriousWakeup(w) ==
    /\ At(w, "asleep") /\ Go(w, "lock")
    /\ UNCHANGED <<tasks, running, m_, owner, submitted, taken, missed>>

-----------------------------------------------------------------------------
(* The owner.                                                              *)

Asleep == {w \in Workers : At(w, "asleep")}

(* Wrong on purpose: nobody is notified.                                   *)
notify_one_Forgotten == UNCHANGED worker

notify_one == IF Asleep = {} THEN UNCHANGED worker ELSE \E w \in Asleep : Go(w, "lock")

(* submit(): push and notify_one under m_.                                 *)
submit ==
    /\ owner = "using" /\ submitted < MaxTasks /\ m_ = Free
    /\ submitted' = submitted + 1
    /\ tasks' = Append(tasks, submitted')
    /\ notify_one
    /\ UNCHANGED <<running, m_, owner, taken, missed>>

(* ~ThreadPool: the flag ...                                               *)
stopRunning ==
    /\ owner = "using"
    /\ running' = FALSE /\ owner' = "notify"
    /\ UNCHANGED <<tasks, m_, worker, submitted, taken, missed>>

(* ... the notification ...                                                *)
notify_all ==
    /\ owner = "notify"
    /\ worker' = [w \in Workers |-> IF w \in Asleep THEN "lock" ELSE worker[w]]
    /\ missed' = {w \in Workers : At(w, "sleep")}
    /\ owner' = "join"
    /\ UNCHANGED <<tasks, running, m_, submitted, taken>>

(* ... and ~ThreadJoiner.                                                  *)
join ==
    /\ owner = "join"
    /\ \A w \in Workers : At(w, "exited")
    /\ owner' = "destroyed"
    /\ UNCHANGED <<tasks, running, m_, worker, submitted, taken, missed>>

WorkerStep(w) == whileRunning(w) \/ lock(w) \/ test(w) \/ sleep(w)
Next ==
    \/ \E w \in Workers : WorkerStep(w) \/ spuriousWakeup(w)
    \/ submit \/ stopRunning \/ notify_all \/ join

(* Threads go on; nobody has to submit, or to destroy the pool, and a wait *)
(* need not end by itself.                                                 *)
Spec ==
    /\ Init /\ [][Next]_vars
    /\ WF_vars(notify_all) /\ WF_vars(join)
    /\ \A w \in Workers : WF_vars(WorkerStep(w))

-----------------------------------------------------------------------------
(* Types of the variables; and m_ is held by the worker in its critical    *)
(* section, if there is one.                                               *)
TypeOK ==
    /\ tasks \in Seq(1..MaxTasks) /\ taken \in Seq(1..MaxTasks)
    /\ running \in BOOLEAN
    /\ m_ \in Workers \cup {Free}
    /\ worker \in [Workers -> WorkerStates]
    /\ \A w \in Workers : worker[w] \in {"test", "sleep"} <=> m_ = w
    /\ owner \in {"using", "notify", "join", "destroyed"}
    /\ submitted \in 0..MaxTasks
    /\ missed \subseteq Workers

(* Tasks leave the queue in the order of submit(), each to one worker.     *)
TakenInOrder == taken \o tasks = [i \in 1..submitted |-> i]

(* No wakeup of submit() is lost: while a task waits, some worker is awake *)
(* or has been notified.                                                   *)
TaskKeepsWorkerAwake == tasks # <<>> /\ running => Asleep # Workers

(* Every task is taken, unless the pool is destroyed first.                *)
TasksTaken ==
    \A t \in 1..MaxTasks : submitted >= t ~> t \in ToSet(taken) \/ ~running

(* The destructor returns, unless a worker had found running set and was   *)
(* not yet asleep when notify_all came: it sleeps for good, and the join   *)
(* waits for it.                                                           *)
DestructorReturns == owner = "join" ~> owner = "destroyed" \/ missed # {}

=============================================================================
