----------------------- MODULE EventLoopThread_proofs -----------------------
(***************************************************************************)
(* Proofs about the threads of an EventLoopThreadPool, for any number of   *)
(* them.                                                                   *)
(***************************************************************************)
EXTENDS EventLoopThread, TLAPS

(* The destructor of thread i has stored quit_.                            *)
QuitByDestructor(i) ==
    \/ owner \in {"wakeup", "join"} /\ i <= at
    \/ owner \in {"readLoop", "quit"} /\ i < at
    \/ owner = "destroyed"

(* loop_ follows threadFunc.                                               *)
PointerInv == \A i \in Threads : loop_[i] <=> thread[i] \in {"published", "notified", "looping"}

(* The threads behind the one being started have not begun, and those in   *)
(* front of it have published their loop.                                  *)
StartedInv ==
    /\ \A i \in Threads :
          /\ owner \in {"start", "test", "asleep"} /\ i < at =>
                thread[i] \notin {"none", "created"}
          /\ owner \in {"started", "readLoop", "quit", "wakeup", "join"} =>
                thread[i] \notin {"none", "created"}
          /\ owner = "start" /\ i >= at => thread[i] = "none"
          /\ owner \in {"test", "asleep"} /\ i > at => thread[i] = "none"
    /\ owner = "destroyed" => at = ThreadNum + 1

(* A loop is told to quit, and a thread leaves its loop, only because the  *)
(* destructor or other code said so.                                       *)
QuitInv ==
    \A i \in Threads :
        quit_[i] \/ thread[i] \in {"left", "exited"} => i \in appQuit \/ QuitByDestructor(i)

PoolInv == TypeOK /\ PointerInv /\ StartedInv /\ QuitInv /\ DestructorSafe

LEMMA PoolInvInit == Init => PoolInv
BY ThreadAssumption
DEF Init, PoolInv, TypeOK, PointerInv, StartedInv, QuitInv, DestructorSafe, OwnerStates,
    ThreadStates, Threads

(* A destructor that finds loop_ null finds a loop that other code told to *)
(* quit: the destructor itself has not yet done so.                        *)
LEMMA OthersResetLoop ==
    ASSUME PoolInv, owner \in {"readLoop", "quit"}, ~loop_[at]
    PROVE  at \in appQuit
<1>1. at \in Threads
  BY DEF PoolInv, TypeOK
<1>4. at \in Int
  BY <1>1, ThreadAssumption DEF Threads
<1>2. thread[at] \in {"left", "exited"}
  BY <1>1 DEF PoolInv, TypeOK, PointerInv, StartedInv, ThreadStates
<1>3. ~QuitByDestructor(at)
  BY <1>4 DEF QuitByDestructor
<1> QED
  BY <1>1, <1>2, <1>3 DEF PoolInv, QuitInv

LEMMA PoolInvStep == PoolInv /\ [Next]_vars => PoolInv'
<1> SUFFICES ASSUME PoolInv, [Next]_vars
             PROVE  PoolInv'
  OBVIOUS
<1>0. owner \in {"readLoop", "quit"} /\ ~loop_[at] => at \in appQuit
  BY OthersResetLoop
<1> USE ThreadAssumption DEF PoolInv, TypeOK, PointerInv, StartedInv, QuitInv,
        QuitByDestructor, DestructorSafe, OwnerStates, ThreadStates, Threads,
        HasLoop, Up
<1>1. CASE startLoop
  BY <1>1 DEF startLoop, MoreThreads
<1>2. CASE waitForLoop
  BY <1>2 DEF waitForLoop, Published
<1>3. CASE spuriousWakeup
  BY <1>3 DEF spuriousWakeup
<1>4. CASE destroyPool
  BY <1>4 DEF destroyPool
<1>5. CASE readLoop
  BY <1>0, <1>5 DEF readLoop
<1>6. CASE quitLoop
  <2>1. CASE HasLoop(at) /\ quit(at) /\ owner' = "wakeup" /\ UNCHANGED fault
    BY <1>6, <2>1 DEF quitLoop, quit
  <2>2. CASE ~loop_[at] /\ UNCHANGED <<owner, quit_>>
    BY <1>0, <1>6, <2>2 DEF quitLoop
  <2>3. ~HasLoop(at) => ~loop_[at]
    BY <1>6 DEF quitLoop
  <2> QED
    BY <1>6, <2>1, <2>2, <2>3 DEF quitLoop
<1>7. CASE join
  BY <1>7 DEF join
<1>8. ASSUME NEW i \in Threads, publish(i)
      PROVE  PoolInv'
  BY <1>8 DEF publish, Moves
<1>9. ASSUME NEW i \in Threads, notify(i)
      PROVE  PoolInv'
  BY <1>9 DEF notify, notify_all, Moves
<1>10. ASSUME NEW i \in Threads, enterLoop(i)
       PROVE  PoolInv'
  BY <1>10 DEF enterLoop, Moves
<1>11. ASSUME NEW i \in Threads, leaveLoop(i)
       PROVE  PoolInv'
  BY <1>11 DEF leaveLoop, resetLoop, Moves
<1>12. ASSUME NEW i \in Threads, exit(i)
       PROVE  PoolInv'
  BY <1>12 DEF exit, Moves
<1>13. ASSUME NEW i \in Threads, otherQuits(i)
       PROVE  PoolInv'
  BY <1>13 DEF otherQuits, quit
<1>14. CASE UNCHANGED vars
  BY <1>14 DEF vars
<1>15. CASE wakeupLoop
  BY <1>15 DEF wakeupLoop, wakeup
<1>16. ASSUME NEW i \in Threads, otherWakes(i)
       PROVE  PoolInv'
  BY <1>16 DEF otherWakes, wakeup
<1> QED
  BY <1>1, <1>2, <1>3, <1>4, <1>5, <1>6, <1>7, <1>8, <1>9, <1>10, <1>11, <1>12, <1>13,
     <1>14, <1>15, <1>16
  DEF Next, OwnerStep, ThreadStep

LEMMA PoolCorrect == Spec => []PoolInv
BY PoolInvInit, PoolInvStep, PTL DEF Spec

(* Every loop that EventLoopThreadPool has in loops_ exists, and the loop_ *)
(* of its EventLoopThread points at it, until the destructor or other code *)
(* tells it to quit.                                                       *)
THEOREM LoopsHandedOutLive == Spec => []LoopsLive
<1>1. ASSUME PoolInv, NEW i \in HandedOut, i \notin appQuit
      PROVE  HasLoop(i) /\ loop_[i]
  <2>0. HandedOut \subseteq Threads
    <3>1. \/ HandedOut = {j \in Threads : j < at}
          \/ HandedOut = Threads
          \/ HandedOut = {j \in Threads : j >= at}
          \/ HandedOut = {j \in Threads : j > at}
      BY Zenon DEF HandedOut
    <3> QED
      BY <3>1
  <2>6. i \in Threads /\ at \in 1..(ThreadNum + 1) /\ owner \in OwnerStates
    BY <1>1, <2>0 DEF PoolInv, TypeOK
  <2>1. i \in Threads /\ i \in Int /\ at \in Int /\ owner \in OwnerStates
    BY <2>6, ThreadAssumption DEF Threads
  <2>2. thread[i] \notin {"none", "created"} /\ ~QuitByDestructor(i)
    <3>1. CASE owner \in {"start", "test", "asleep"}
      <4>1. i < at
        BY <1>1, <3>1 DEF HandedOut
      <4> QED
        BY <1>1, <2>1, <3>1, <4>1 DEF PoolInv, StartedInv, QuitByDestructor
    <3>2. CASE owner = "started"
      BY <1>1, <2>1, <3>2 DEF PoolInv, StartedInv, QuitByDestructor
    <3>3. CASE owner \in {"readLoop", "quit"}
      <4>1. i >= at
        BY <1>1, <3>3 DEF HandedOut
      <4> QED
        BY <1>1, <2>1, <3>3, <4>1 DEF PoolInv, StartedInv, QuitByDestructor
    <3>4. CASE owner \in {"wakeup", "join"}
      <4>1. i > at
        BY <1>1, <3>4 DEF HandedOut
      <4> QED
        BY <1>1, <2>1, <3>4, <4>1 DEF PoolInv, StartedInv, QuitByDestructor
    <3>5. CASE owner = "destroyed"
      <4>1. i > at /\ at = ThreadNum + 1
        BY <1>1, <3>5 DEF HandedOut, PoolInv, StartedInv
      <4> QED
        BY <2>1, <4>1, ThreadAssumption DEF Threads
    <3> QED
      BY <2>1, <3>1, <3>2, <3>3, <3>4, <3>5 DEF OwnerStates
  <2>3. thread[i] \notin {"left", "exited"}
    BY <1>1, <2>1, <2>2 DEF PoolInv, QuitInv
  <2>4. thread[i] \in ThreadStates
    BY <1>1, <2>1 DEF PoolInv, TypeOK
  <2> QED
    BY <1>1, <2>1, <2>2, <2>3, <2>4 DEF PoolInv, PointerInv, HasLoop, ThreadStates
<1>2. PoolInv => LoopsLive
  BY <1>1 DEF LoopsLive
<1> QED
  BY PoolCorrect, <1>2, PTL

(* ~EventLoopThread neither finds loop_ null, nor stores quit_ into a dead *)
(* loop, nor leaves its thread unjoined, unless other code told the loop   *)
(* to quit.  What is left of the race its comment names is the window      *)
(* between that store and wakeup().                                        *)
THEOREM DestructorFindsLoop == Spec => []DestructorSafe
<1>1. PoolInv => DestructorSafe
  BY DEF PoolInv
<1> QED
  BY PoolCorrect, <1>1, PTL
=============================================================================
