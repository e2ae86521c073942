-------------------------- MODULE ThreadPool_proofs -------------------------
(***************************************************************************)
(* Proofs about ThreadPool, for any number of workers and tasks.           *)
(***************************************************************************)
EXTENDS ThreadPool, SequenceTheorems, TLAPS

(* The queue does not change between the test of a worker that is about to *)
(* sleep and its wait: it holds m_.                                        *)
SleepersSawNoTask == \A w \in Workers : worker[w] = "sleep" => tasks = <<>>

(* The wait of a worker, taken apart: it may stop, take a task, or sleep.  *)
LEMMA TestCases ==
    ASSUME NEW w \in Workers, test(w)
    PROVE  \/ ~running /\ Go(w, "exited") /\ m_' = Free /\ UNCHANGED <<tasks, taken>>
           \/ running /\ tasks # <<>> /\ Go(w, "loop") /\ m_' = Free /\ takeTask
           \/ running /\ tasks = <<>> /\ Go(w, "sleep") /\ UNCHANGED <<m_, tasks, taken>>
<1>1. CASE ~running
  <2>1. Go(w, "exited") /\ unlock /\ UNCHANGED <<tasks, taken>>
    BY <1>1, Zenon DEF test, MayStop
  <2> QED
    BY <1>1, <2>1 DEF unlock
<1>2. CASE running /\ tasks # <<>>
  <2>1. Go(w, "loop") /\ unlock /\ takeTask
    BY <1>2, Zenon DEF test, MayStop
  <2> QED
    BY <1>2, <2>1 DEF unlock
<1>3. CASE running /\ tasks = <<>>
  <2>1. Go(w, "sleep") /\ UNCHANGED <<m_, tasks, taken>>
    BY <1>3, Zenon DEF test, MayStop
  <2> QED
    BY <1>3, <2>1
<1> QED
  BY <1>1, <1>2, <1>3

LEMMA TypeOKInit == Init => TypeOK
BY PoolAssumption DEF Init, TypeOK, WorkerStates, Free

LEMMA TypeOKStep == TypeOK /\ [Next]_vars => TypeOK'
<1> SUFFICES ASSUME TypeOK, [Next]_vars
             PROVE  TypeOK'
  OBVIOUS
<1> USE PoolAssumption DEF TypeOK, WorkerStates, At, Go
<1>1. ASSUME NEW w \in Workers, whileRunning(w)
      PROVE  TypeOK'
  BY <1>1 DEF whileRunning
<1>2. ASSUME NEW w \in Workers, lock(w)
      PROVE  TypeOK'
  BY <1>2 DEF lock
<1>3. ASSUME NEW w \in Workers, test(w)
      PROVE  TypeOK'
  <2>1. m_ = w /\ UNCHANGED <<running, owner, submitted, missed>>
    BY <1>3 DEF test
  <2>2. CASE tasks # <<>> /\ takeTask
    <3>1. tasks' \in Seq(1..MaxTasks) /\ taken' \in Seq(1..MaxTasks)
      BY <2>2, HeadTailProperties, AppendProperties DEF takeTask
    <3> QED
      BY <1>3, <2>1, <2>2, <3>1, TestCases
  <2> QED
    BY <1>3, <2>1, <2>2, TestCases
<1>4. ASSUME NEW w \in Workers, sleep(w)
      PROVE  TypeOK'
  BY <1>4 DEF sleep, unlock
<1>5. ASSUME NEW w \in Workers, spuriousWakeup(w)
      PROVE  TypeOK'
  BY <1>5 DEF spuriousWakeup
<1>6. CASE submit
  <2>1. tasks' \in Seq(1..MaxTasks) /\ submitted' \in 0..MaxTasks
    BY <1>6 DEF submit
  <2>2. UNCHANGED worker \/ \E w \in Workers : At(w, "asleep") /\ Go(w, "lock")
    BY <1>6 DEF submit, notify_one, Asleep
  <2> QED
    BY <1>6, <2>1, <2>2 DEF submit
<1>7. CASE stopRunning
  BY <1>7 DEF stopRunning
<1>8. CASE notify_all
  BY <1>8 DEF notify_all, Asleep
<1>9. CASE join
  BY <1>9 DEF join
<1>10. CASE UNCHANGED vars
  BY <1>10 DEF vars
<1> QED
  BY <1>1, <1>2, <1>3, <1>4, <1>5, <1>6, <1>7, <1>8, <1>9, <1>10 DEF Next, WorkerStep

(* The variables keep their types, and m_ is held exactly by the worker    *)
(* that is between lock and unlock of worker_thread.                       *)
THEOREM TypeCorrect == Spec => []TypeOK
BY TypeOKInit, TypeOKStep, PTL DEF Spec

-----------------------------------------------------------------------------
(* No wakeup of submit() is lost: as long as a task waits, some worker is  *)
(* awake or has been notified.  The worker that is about to sleep tested   *)
(* the queue under the m_ it still holds, so that no task can have come.   *)
THEOREM NoLostWakeup == Spec => []TaskKeepsWorkerAwake
<1> DEFINE Inv == SleepersSawNoTask /\ (tasks # <<>> => Asleep # Workers)
<1> USE DEF SleepersSawNoTask, Asleep, At
<1>1. Init => Inv
  BY DEF Init
<1>2. ASSUME TypeOK, Inv, [Next]_vars
      PROVE  Inv'
  <2> USE PoolAssumption, <1>2 DEF TypeOK, WorkerStates, Go
  <2>1. ASSUME NEW w \in Workers, whileRunning(w)
        PROVE  Inv'
    BY <2>1 DEF whileRunning
  <2>2. ASSUME NEW w \in Workers, lock(w)
        PROVE  Inv'
    BY <2>2 DEF lock
  <2>3. ASSUME NEW w \in Workers, test(w)
        PROVE  Inv'
    <3>1. \A v \in Workers : v # w => worker[v] # "sleep"
      BY <2>3 DEF test
    <3>2. worker'[w] \in {"exited", "loop", "sleep"} /\ (worker'[w] = "sleep" => tasks' = <<>>)
      BY <2>3, TestCases
    <3>3. \A v \in Workers : v # w => worker'[v] = worker[v]
      BY <2>3, TestCases
    <3> QED
      BY <3>1, <3>2, <3>3
  <2>4. ASSUME NEW w \in Workers, sleep(w)
        PROVE  Inv'
    BY <2>4 DEF sleep
  <2>5. ASSUME NEW w \in Workers, spuriousWakeup(w)
        PROVE  Inv'
    BY <2>5 DEF spuriousWakeup
  <2>6. CASE submit
    <3>1. \A v \in Workers : worker[v] # "sleep"
      BY <2>6 DEF submit
    <3>2. \A v \in Workers : worker'[v] # "sleep"
      BY <2>6, <3>1 DEF submit, notify_one
    <3>3. Asleep' # Workers
      BY <2>6 DEF submit, notify_one
    <3> QED
      BY <3>2, <3>3
  <2>7. CASE stopRunning
    BY <2>7 DEF stopRunning
  <2>8. CASE notify_all
    BY <2>8 DEF notify_all
  <2>9. CASE join
    BY <2>9 DEF join
  <2>10. CASE UNCHANGED vars
    BY <2>10 DEF vars
  <2> QED
    BY <2>1, <2>2, <2>3, <2>4, <2>5, <2>6, <2>7, <2>8, <2>9, <2>10 DEF Next, WorkerStep
<1>3. Inv => TaskKeepsWorkerAwake
  BY DEF TaskKeepsWorkerAwake
<1> QED
  BY <1>1, <1>2, <1>3, TypeCorrect, PTL DEF Spec

-----------------------------------------------------------------------------
(* Moving the head of a queue to the end of what was taken changes nothing *)
(* about the two together.                                                 *)
LEMMA TakeKeepsOrder ==
    ASSUME NEW S, NEW s \in Seq(S), NEW t \in Seq(S), t # <<>>
    PROVE  Append(s, Head(t)) \o Tail(t) = s \o t
<1>1. Head(t) \in S /\ Tail(t) \in Seq(S) /\ <<Head(t)>> \in Seq(S)
  BY HeadTailProperties
<1>2. t = <<Head(t)>> \o Tail(t)
  BY <1>1, HeadTailProperties, ConcatProperties
<1>3. Append(s, Head(t)) = s \o <<Head(t)>>
  BY <1>1, AppendIsConcat
<1> QED
  BY <1>1, <1>2, <1>3, ConcatAssociative

(* Tasks leave the queue in the order of submit(), none twice and none     *)
(* lost, however many workers take them.                                   *)
THEOREM TasksTakenInOrder == Spec => []TakenInOrder
<1> USE DEF TakenInOrder
<1>1. Init => TakenInOrder
  BY DEF Init
<1>2. ASSUME TypeOK, TakenInOrder, [Next]_vars
      PROVE  TakenInOrder'
  <2>1. ASSUME NEW w \in Workers, test(w)
        PROVE  TakenInOrder'
    <3>1. UNCHANGED submitted
      BY <2>1 DEF test
    <3>2. CASE UNCHANGED <<tasks, taken>>
      BY <1>2, <3>1, <3>2
    <3>3. CASE tasks # <<>> /\ takeTask
      <4>1. tasks \in Seq(1..MaxTasks) /\ taken \in Seq(1..MaxTasks)
        BY <1>2 DEF TypeOK
      <4>2. Append(taken, Head(tasks)) \o Tail(tasks) = taken \o tasks
        BY <3>3, <4>1, TakeKeepsOrder, Zenon
      <4>3. taken' \o tasks' = taken \o tasks
        BY <3>3, <4>2 DEF takeTask
      <4> QED
        BY <1>2, <3>1, <4>3
    <3> QED
      BY <2>1, <3>2, <3>3, TestCases
  <2>2. CASE submit
    <3>1. taken \in Seq(Nat) /\ tasks \in Seq(Nat) /\ submitted \in Nat
      BY <1>2, PoolAssumption DEF TypeOK
    <3>2. UNCHANGED taken /\ submitted' = submitted + 1 /\ tasks' = Append(tasks, submitted + 1)
      BY <2>2 DEF submit
    <3>3. taken' \o tasks' = Append(taken \o tasks, submitted + 1)
      BY <3>1, <3>2
    <3>4. Append([i \in 1..submitted |-> i], submitted + 1) = [i \in 1..(submitted + 1) |-> i]
      BY <3>1
    <3> QED
      BY <1>2, <3>2, <3>3, <3>4
  <2>3. CASE UNCHANGED <<tasks, taken, submitted>>
    BY <1>2, <2>3
  <2> QED
    BY <1>2, <2>1, <2>2, <2>3
    DEF Next, WorkerStep, vars, whileRunning, lock, sleep, spuriousWakeup, stopRunning,
        notify_all, join
<1> QED
  BY <1>1, <1>2, TypeCorrect, PTL DEF Spec
=============================================================================
