---------------------------- MODULE TaskExecutor ----------------------------
(***************************************************************************)
(* What an EventLoop promises to the threads that hand functors to it      *)
(* through runInLoop, with neither poller, wakeup pipe nor mutex: a queue  *)
(* that is served in FIFO order, one functor at a time, by one thread      *)
(* which serves it only between the start and the end of loop().           *)
(***************************************************************************)
EXTENDS Sequences

CONSTANT Functors

VARIABLES
    queue,      \* functors accepted and not yet executed, oldest first
    done,       \* functors executed, oldest first
    running     \* the serving thread is inside loop()

vars == <<queue, done, running>>

Init ==
    /\ queue = <<>>
    /\ done = <<>>
    /\ running = FALSE

Submit(f) ==
    /\ queue' = Append(queue, f)
    /\ UNCHANGED <<done, running>>

Execute ==
    /\ running
    /\ queue # <<>>
    /\ done' = Append(done, Head(queue))
    /\ queue' = Tail(queue)
    /\ UNCHANGED running

Start ==
    /\ ~running
    /\ running' = TRUE
    /\ UNCHANGED <<queue, done>>

Stop ==
    /\ running
    /\ running' = FALSE
    /\ UNCHANGED <<queue, done>>

Next ==
    \/ \E f \in Functors : Submit(f)
    \/ Execute
    \/ Start
    \/ Stop

SafeSpec == Init /\ [][Next]_vars

(* A queue that is not empty is served for as long as the thread stays in  *)
(* loop(): no accepted functor waits for ever behind an idle thread.       *)
Spec == SafeSpec /\ WF_vars(Execute)
=============================================================================
