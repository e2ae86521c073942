--------------------------- MODULE EventLoopThread --------------------------
(***************************************************************************)
(* EventLoopThreadPool::start, which makes its EventLoopThreads one after  *)
(* the other, and the end of the pool, which destroys them in that order.  *)
(* The owner is the thread of the base loop.  What runs under mtx_ is one  *)
(* step; the destructor takes no lock, so that each read is a step, and    *)
(* EventLoop::quit() is two: the store of quit_, after which the loop may  *)
(* end and its thread destroy it, and wakeup() on the same EventLoop.  A   *)
(* loop that is told to quit while it is in loop() returns from it, which  *)
(* EventLoop.tla shows (QuitStopsLoop).                                    *)
(***************************************************************************)
EXTENDS Integers

CONSTANT ThreadNum   \* EventLoopThreadPool::numThreads_

ASSUME ThreadAssumption == ThreadNum \in Nat

VARIABLES
    owner,     \* what the owner does with the EventLoopThread at
    at,        \* the one being started, later the one being destroyed
    thread,    \* per thread: where threadFunc is
    loop_,     \* per thread: loop_ points at the thread's EventLoop
    quit_,     \* per thread: the flag of its EventLoop
    waking,    \* loops that other code is to wake up, between the parts of quit()
    appQuit,   \* history: loops that other code of the program told to quit
    fault      \* what ended the process, or "none"

vars == <<owner, at, thread, loop_, quit_, waking, appQuit, fault>>

Threads == 1..ThreadNum

(* Where owner may be: in start(), between start and end of the pool, and  *)
(* in the destructor of an EventLoopThread.                                *)
OwnerStates == {"start", "test", "asleep", "started",
                "readLoop", "quit", "wakeup", "join", "destroyed"}

(* Where a thread may be; its EventLoop exists from "created" to "left".   *)
ThreadStates == {"none", "created", "published", "notified", "looping", "left", "exited"}
HasLoop(i) == thread[i] \in ThreadStates \ {"none", "exited"}

Init ==
    /\ owner = "start" /\ at = 1
    /\ thread = [i \in Threads |-> "none"]
    /\ loop_ = [i \in Threads |-> FALSE]
    /\ quit_ = [i \in Threads |-> FALSE]
    /\ waking = {} /\ appQuit = {} /\ fault = "none"

Up == fault = "none"

-----------------------------------------------------------------------------
(* The owner in start().                                                   *)

(* The condition of the loop of start().                                   *)
MoreThreads == at <= ThreadNum

(* The next EventLoopThread, or the end of start().  startLoop begins with *)
(* the new thread, which starts with the construction of its EventLoop.    *)
startLoop ==
    /\ Up /\ owner = "start"
    /\ IF MoreThreads
       THEN owner' = "test" /\ thread' = [thread EXCEPT ![at] = "created"]
       ELSE owner' = "started" /\ UNCHANGED thread
    /\ UNCHANGED <<at, loop_, quit_, waking, appQuit, fault>>

(* Wrong on purpose: startLoop does not wait.                              *)
Published_Unchecked == TRUE

(* The predicate of the wait.                                              *)
Published == loop_[at]

(* cond_.wait: the predicate is tested and the owner sleeps under mtx_.    *)
waitForLoop ==
    /\ Up /\ owner = "test"
    /\ IF Published
       THEN owner' = "start" /\ at' = at + 1
       ELSE owner' = "asleep" /\ UNCHANGED at
    /\ UNCHANGED <<thread, loop_, quit_, waking, appQuit, fault>>

(* A wait may also end by itself.                                          *)
spuriousWakeup ==
    /\ Up /\ owner = "asleep"
    /\ owner' = "test"
    /\ UNCHANGED <<at, thread, loop_, quit_, waking, appQuit, fault>>

-----------------------------------------------------------------------------
(* Thread i: threadFunc.                                                   *)

Moves(i, from, to) == Up /\ thread[i] = from /\ thread' = [thread EXCEPT ![i] = to]

publish(i) ==
    /\ Moves(i, "created", "published")
    /\ loop_' = [loop_ EXCEPT ![i] = TRUE]
    /\ UNCHANGED <<owner, at, quit_, waking, appQuit, fault>>

(* Wrong on purpose: the waiting owner is not woken.                       *)
notify_all_Forgotten(i) == UNCHANGED owner

notify_all(i) == owner' = IF owner = "asleep" /\ at = i THEN "test" ELSE owner

notify(i) ==
    /\ Moves(i, "published", "notified")
    /\ notify_all(i)
    /\ UNCHANGED <<at, loop_, quit_, waking, appQuit, fault>>

(* loop() begins with quit_ = false.                                       *)
enterLoop(i) ==
    /\ Moves(i, "notified", "looping")
    /\ quit_' = [quit_ EXCEPT ![i] = FALSE]
    /\ UNCHANGED <<owner, at, loop_, waking, appQuit, fault>>

resetLoop(i) == loop_' = [loop_ EXCEPT ![i] = FALSE]

(* loop() returns, and loop_ is reset under mtx_.                          *)
leaveLoop(i) ==
    /\ Moves(i, "looping", "left") /\ quit_[i]
    /\ resetLoop(i)
    /\ UNCHANGED <<owner, at, quit_, waking, appQuit, fault>>

(* The EventLoop is destroyed, after mtx_ is released.                     *)
exit(i) ==
    /\ Moves(i, "left", "exited")
    /\ UNCHANGED <<owner, at, loop_, quit_, waking, appQuit, fault>>

(* Wrong on purpose: quit() does not reach the loop.                       *)
quit_Forgotten(i) == UNCHANGED quit_

(* EventLoop::quit, up to the test of the thread.                          *)
quit(i) == quit_' = [quit_ EXCEPT ![i] = TRUE]

(* Code of the program, the initial callback included, tells a loop to     *)
(* quit: getNextLoop and TcpConnection::getLoop hand the pointer out.      *)
(* Unless it runs in the loop's own thread, it then wakes the loop up.     *)
otherQuits(i) ==
    /\ Up /\ HasLoop(i)
    /\ quit(i)
    /\ waking' \in {waking, waking \cup {i}}
    /\ appQuit' = appQuit \cup {i}
    /\ UNCHANGED <<owner, at, thread, loop_, fault>>

(* EventLoop::quit, the rest: wakeup() on a loop that its thread may have  *)
(* destroyed since.                                                        *)
wakeup(i) == fault' = IF HasLoop(i) THEN fault ELSE "destroyed in quit"

otherWakes(i) ==
    /\ Up /\ i \in waking
    /\ wakeup(i)
    /\ waking' = waking \ {i}
    /\ UNCHANGED <<owner, at, thread, loop_, quit_, appQuit>>

-----------------------------------------------------------------------------
(* The owner destroys the pool, thread by thread.                          *)

destroyPool ==
    /\ Up /\ owner = "started"
    /\ owner' = IF ThreadNum > 0 THEN "readLoop" ELSE "destroyed"
    /\ at' = 1
    /\ UNCHANGED <<thread, loop_, quit_, waking, appQuit, fault>>

(* if(loop_ != nullptr).  Otherwise the std::thread, not joined, is        *)
(* destroyed, which ends the process.                                      *)
readLoop ==
    /\ Up /\ owner = "readLoop"
    /\ IF loop_[at]
       THEN owner' = "quit" /\ UNCHANGED fault
       ELSE fault' = "terminate" /\ UNCHANGED owner
    /\ UNCHANGED <<at, thread, loop_, quit_, waking, appQuit>>

(* loop_->quit(), its store.  loop_ is read again, or kept from the test:  *)
(* both are outcomes of the race with the thread that resets it.           *)
quitLoop ==
    /\ Up /\ owner = "quit"
    /\ \/ /\ HasLoop(at)
          /\ quit(at)
          /\ owner' = "wakeup" /\ UNCHANGED fault
       \/ /\ ~HasLoop(at) /\ fault' = "destroyed loop"
          /\ UNCHANGED <<owner, quit_>>
       \/ /\ ~loop_[at] /\ fault' = "null pointer"
          /\ UNCHANGED <<owner, quit_>>
    /\ UNCHANGED <<at, thread, loop_, waking, appQuit>>

(* loop_->quit(), its wakeup(): the destructor runs in the owner's thread. *)
wakeupLoop ==
    /\ Up /\ owner = "wakeup"
    /\ wakeup(at)
    /\ owner' = "join"
    /\ UNCHANGED <<at, thread, loop_, quit_, waking, appQuit>>

join ==
    /\ Up /\ owner = "join"
    /\ thread[at] = "exited"
    /\ owner' = IF at < ThreadNum THEN "readLoop" ELSE "destroyed"
    /\ at' = at + 1
    /\ UNCHANGED <<thread, loop_, quit_, waking, appQuit, fault>>

-----------------------------------------------------------------------------
OwnerStep == startLoop \/ waitForLoop \/ readLoop \/ quitLoop \/ wakeupLoop \/ join
ThreadStep(i) == publish(i) \/ notify(i) \/ enterLoop(i) \/ leaveLoop(i) \/ exit(i)

Next ==
    \/ OwnerStep
    \/ spuriousWakeup
    \/ destroyPool
    \/ \E i \in Threads : ThreadStep(i) \/ otherQuits(i) \/ otherWakes(i)

(* Threads go on.  Nothing makes a wait end by itself, nor anyone destroy  *)
(* the pool.                                                               *)
Spec == Init /\ [][Next]_vars /\ WF_vars(OwnerStep) /\ \A i \in Threads : WF_vars(ThreadStep(i))

-----------------------------------------------------------------------------
(* Types of the variables.                                                 *)
TypeOK ==
    /\ owner \in OwnerStates
    /\ at \in 1..(ThreadNum + 1)
    /\ owner \in {"test", "asleep", "readLoop", "quit", "wakeup", "join"} => at \in Threads
    /\ thread \in [Threads -> ThreadStates]
    /\ loop_ \in [Threads -> BOOLEAN]
    /\ quit_ \in [Threads -> BOOLEAN]
    /\ waking \subseteq appQuit /\ appQuit \subseteq Threads
    /\ fault \in {"none", "terminate", "destroyed loop", "null pointer", "destroyed in quit"}

(* The threads whose loop the pool may hand out: those whose startLoop has *)
(* returned and whose destructor has not called quit().                    *)
HandedOut ==
    CASE owner \in {"start", "test", "asleep"} -> {i \in Threads : i < at}
      [] owner = "started" -> Threads
      [] owner \in {"readLoop", "quit"} -> {i \in Threads : i >= at}
      [] OTHER -> {i \in Threads : i > at}

(* A loop in loops_ exists, and loop_ points at it, until its own          *)
(* destructor tells it to quit, unless other code does.                    *)
LoopsLive == \A i \in HandedOut \ appQuit : HasLoop(i) /\ loop_[i]

(* The race the comment of the destructor names ("loop_ may be under       *)
(* destruction") leaves one window, between the two parts of its own       *)
(* quit(): unless other code told the loop to quit, the destructor finds   *)
(* loop_ set, stores into a loop that exists and joins its thread.         *)
DestructorSafe ==
    fault \in {"terminate", "destroyed loop", "null pointer"} => at \in appQuit

(* startLoop returns, whatever the order of the thread's steps and the     *)
(* owner's, unless other code made this loop come and go meanwhile, or the *)
(* process has ended.                                                      *)
StartReturns ==
    \A i \in Threads :
        owner \in {"test", "asleep"} /\ at = i ~> at > i \/ i \in appQuit \/ fault # "none"

(* The destructor stored quit_ before its thread entered loop(), which     *)
(* sets it back to false: join() then waits for ever.                      *)
QuitTooEarly(i) == owner = "wakeup" /\ at = i /\ thread[i] \in {"published", "notified"}

(* A destructor returns, whatever its thread does, except when its quit()  *)
(* comes before loop() or wakes up a loop that is gone.                    *)
DestroyReturns ==
    \A i \in Threads :
        owner = "readLoop" /\ at = i ~> at # i \/ fault # "none" \/ QuitTooEarly(i)

=============================================================================
