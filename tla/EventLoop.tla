----------------------------- MODULE EventLoop ------------------------------
(***************************************************************************)
(* One EventLoop (EventLoop.h, EventLoop.cpp): the thread that runs        *)
(* loop(), and the other threads of the process, which hand it work with   *)
(* runInLoop() and stop it with quit().  What they share is the atomic     *)
(* flag quit_, the vector pendingFunctors_ guarded by mtx_, and the pipe   *)
(* whose read end the loop polls.                                          *)
(*                                                                         *)
(* Each access to the shared state is a step of its own.  A functor is     *)
(* known only by what it does to the loop: a member of QuitFunctors calls  *)
(* quit() on the loop that executes it, any other leaves it alone.         *)
(***************************************************************************)
EXTENDS Integers, Sequences

CONSTANTS
    Producers,      \* the threads other than the loop's own
    Functors,       \* the callables handed to runInLoop
    QuitFunctors,   \* those whose body calls quit() on this loop
    PipeCapacity,   \* bytes the wakeup pipe holds before write() blocks
    MaxPosts        \* bound: how many functors the producers post in all

ASSUME ConstantsAssumption ==
    /\ QuitFunctors \subseteq Functors
    /\ PipeCapacity \in Nat \ {0}
    /\ MaxPosts \in Nat

VARIABLES
    looping,                    \* inside loop()
    quit_,
    callingPendingFunctors_,
    pendingFunctors_,
    callbacks,                  \* what doPendingFunctors has still to call
    wakeupPipe,                 \* bytes written to the pipe and not yet read
    activeChannels_,            \* channels poll() reported, not yet handled
    pc,                         \* where the loop thread is
    caller,                     \* where each producer is
    posted,                     \* history: functors pushed, in order
    done                        \* history: functors called, in order

loopVars == <<looping, callingPendingFunctors_, callbacks, activeChannels_, pc, done>>
vars == <<looping, quit_, callingPendingFunctors_, pendingFunctors_, callbacks,
          wakeupPipe, activeChannels_, pc, caller, posted, done>>

(* The wakeup channel is the first one of the poller: the constructor      *)
(* registers it.  "io" stands for every channel registered later.          *)
ChannelNames == {"wakeup", "io"}

PCs == {"out", "while", "poll", "dispatch", "swap", "run"}

-----------------------------------------------------------------------------
(* The constructor.  callingPendingFunctors_ has no initialiser: its first *)
(* value is whatever the memory held.                                      *)
Init ==
    /\ looping = FALSE
    /\ quit_ = FALSE
    /\ callingPendingFunctors_ \in BOOLEAN
    /\ pendingFunctors_ = <<>>
    /\ callbacks = <<>>
    /\ wakeupPipe = 0
    /\ activeChannels_ = {}
    /\ pc = "out"
    /\ caller = [p \in Producers |-> "idle"]
    /\ posted = <<>>
    /\ done = <<>>

(* What a call of f in the loop thread does to the loop: quit() there sets *)
(* the flag and writes no byte.                                            *)
Call(f) == quit_' = (quit_ \/ f \in QuitFunctors)

-----------------------------------------------------------------------------
(* The loop thread.                                                        *)

(* Entry of loop(): whatever quit_ held before is forgotten.               *)
Loop ==
    /\ pc = "out"
    /\ ~looping
    /\ looping' = TRUE
    /\ quit_' = FALSE
    /\ pc' = "while"
    /\ UNCHANGED <<callingPendingFunctors_, pendingFunctors_, callbacks,
                   wakeupPipe, activeChannels_, caller, posted, done>>

(* The loop thread calls runInLoop(f) while it is not inside loop(), as    *)
(* TcpServer::start does: f runs at once.                                  *)
RunOutside(f) ==
    /\ pc = "out"
    /\ Call(f)
    /\ UNCHANGED <<loopVars, pendingFunctors_, wakeupPipe, caller, posted>>

WhileTest ==
    /\ pc = "while"
    /\ IF quit_
       THEN /\ looping' = FALSE
            /\ pc' = "out"
            /\ UNCHANGED activeChannels_
       ELSE /\ activeChannels_' = {}
            /\ pc' = "poll"
            /\ UNCHANGED looping
    /\ UNCHANGED <<quit_, callingPendingFunctors_, pendingFunctors_, callbacks,
                   wakeupPipe, caller, posted, done>>

(* poll() reports every ready channel; the wakeup channel is ready as long *)
(* as the pipe holds a byte.                                               *)
PollReturns(active) ==
    /\ pc = "poll"
    /\ ("wakeup" \in active) = (wakeupPipe > 0)
    /\ activeChannels_' = active
    /\ pc' = "dispatch"
    /\ UNCHANGED <<looping, quit_, callingPendingFunctors_, pendingFunctors_,
                   callbacks, wakeupPipe, caller, posted, done>>

(* poll() has the pipe to report, alone or with other channels.            *)
PollWakeup == \E active \in SUBSET ChannelNames :
    "wakeup" \in active /\ PollReturns(active)

(* poll() ends because of another channel, or because kPollTimeMs elapsed. *)
PollOther == \E active \in SUBSET ChannelNames :
    "wakeup" \notin active /\ PollReturns(active)

(* EventLoop::handleRead: one byte per event, however many there are.      *)
HandleRead ==
    /\ pc = "dispatch"
    /\ "wakeup" \in activeChannels_
    /\ wakeupPipe' = wakeupPipe - 1
    /\ activeChannels_' = activeChannels_ \ {"wakeup"}
    /\ UNCHANGED <<looping, quit_, callingPendingFunctors_, pendingFunctors_,
                   callbacks, pc, caller, posted, done>>

(* The callbacks of the other channels.  They may call runInLoop(f) or     *)
(* quit() themselves, which take effect at once in this thread.            *)
HandleIo(f) ==
    /\ pc = "dispatch"
    /\ activeChannels_ = {"io"}
    /\ activeChannels_' = {}
    /\ Call(f)
    /\ UNCHANGED <<looping, callingPendingFunctors_, pendingFunctors_, callbacks,
                   wakeupPipe, pc, caller, posted, done>>

DispatchDone ==
    /\ pc = "dispatch"
    /\ activeChannels_ = {}
    /\ pc' = "swap"
    /\ UNCHANGED <<looping, quit_, callingPendingFunctors_, pendingFunctors_,
                   callbacks, wakeupPipe, activeChannels_, caller, posted, done>>

(* Wrong on purpose: a copy where doPendingFunctors swaps.                 *)
SwapFunctors_Copy ==
    /\ pc = "swap"
    /\ callingPendingFunctors_' = TRUE
    /\ callbacks' = pendingFunctors_
    /\ pc' = "run"
    /\ UNCHANGED <<looping, quit_, pendingFunctors_, wakeupPipe, activeChannels_,
                   caller, posted, done>>

(* doPendingFunctors up to the end of its critical section.                *)
SwapFunctors ==
    /\ pc = "swap"
    /\ callingPendingFunctors_' = TRUE
    /\ callbacks' = pendingFunctors_
    /\ pendingFunctors_' = <<>>
    /\ pc' = "run"
    /\ UNCHANGED <<looping, quit_, wakeupPipe, activeChannels_, caller, posted, done>>

(* Wrong on purpose: the newest functor of the batch first.                *)
RunFunctor_NewestFirst ==
    /\ pc = "run"
    /\ callbacks # <<>>
    /\ Call(callbacks[Len(callbacks)])
    /\ callbacks' = SubSeq(callbacks, 1, Len(callbacks) - 1)
    /\ done' = Append(done, callbacks[Len(callbacks)])
    /\ UNCHANGED <<looping, callingPendingFunctors_, pendingFunctors_, wakeupPipe,
                   activeChannels_, pc, caller, posted>>

RunFunctor ==
    /\ pc = "run"
    /\ callbacks # <<>>
    /\ Call(Head(callbacks))
    /\ callbacks' = Tail(callbacks)
    /\ done' = Append(done, Head(callbacks))
    /\ UNCHANGED <<looping, callingPendingFunctors_, pendingFunctors_, wakeupPipe,
                   activeChannels_, pc, caller, posted>>

FunctorsDone ==
    /\ pc = "run"
    /\ callbacks = <<>>
    /\ callingPendingFunctors_' = FALSE
    /\ pc' = "while"
    /\ UNCHANGED <<looping, quit_, pendingFunctors_, callbacks, wakeupPipe,
                   activeChannels_, caller, posted, done>>

-----------------------------------------------------------------------------
(* The producers.  Each call is two steps: the shared flag or vector       *)
(* first, the byte in the pipe after it.                                   *)

(* Wrong on purpose: a push that wakes nobody.                             *)
RunInLoop_NoWakeup(p, f) ==
    /\ caller[p] = "idle"
    /\ Len(posted) < MaxPosts
    /\ pendingFunctors_' = Append(pendingFunctors_, f)
    /\ posted' = Append(posted, f)
    /\ UNCHANGED <<loopVars, caller, quit_, wakeupPipe>>

(* runInLoop from another thread, its critical section.                    *)
RunInLoop(p, f) ==
    /\ caller[p] = "idle"
    /\ Len(posted) < MaxPosts
    /\ pendingFunctors_' = Append(pendingFunctors_, f)
    /\ posted' = Append(posted, f)
    /\ caller' = [caller EXCEPT ![p] = "wakeup"]
    /\ UNCHANGED <<loopVars, quit_, wakeupPipe>>

(* Wrong on purpose: the flag alone, as if quit() were always called in    *)
(* the loop thread.                                                        *)
Quit_NoWakeup(p) ==
    /\ caller[p] = "idle"
    /\ quit_' = TRUE
    /\ UNCHANGED <<loopVars, caller, pendingFunctors_, wakeupPipe, posted>>

(* quit() from another thread, its store to the flag.                      *)
Quit(p) ==
    /\ caller[p] = "idle"
    /\ quit_' = TRUE
    /\ caller' = [caller EXCEPT ![p] = "wakeup"]
    /\ UNCHANGED <<loopVars, pendingFunctors_, wakeupPipe, posted>>

(* Wrong on purpose: a write the full pipe does not hold back.             *)
Wakeup_Unbounded(p) ==
    /\ caller[p] = "wakeup"
    /\ wakeupPipe <= PipeCapacity
    /\ wakeupPipe' = wakeupPipe + 1
    /\ caller' = [caller EXCEPT ![p] = "idle"]
    /\ UNCHANGED <<loopVars, quit_, pendingFunctors_, posted>>

(* wakeup(): the write blocks while the pipe is full.  runInLoop takes     *)
(* this step whatever callingPendingFunctors_ says, since its caller is    *)
(* not the loop thread.                                                    *)
Wakeup(p) ==
    /\ caller[p] = "wakeup"
    /\ wakeupPipe < PipeCapacity
    /\ wakeupPipe' = wakeupPipe + 1
    /\ caller' = [caller EXCEPT ![p] = "idle"]
    /\ UNCHANGED <<loopVars, quit_, pendingFunctors_, posted>>

-----------------------------------------------------------------------------
(* The steps the loop thread takes by itself once loop() has been entered. *)
LoopStep ==
    \/ WhileTest
    \/ PollWakeup
    \/ HandleRead
    \/ \E f \in Functors : HandleIo(f)
    \/ DispatchDone
    \/ SwapFunctors
    \/ RunFunctor
    \/ FunctorsDone

ProducerStep(p) ==
    \/ \E f \in Functors : RunInLoop(p, f)
    \/ Quit(p)
    \/ Wakeup(p)

Next ==
    \/ Loop
    \/ \E f \in Functors : RunOutside(f)
    \/ LoopStep
    \/ PollOther
    \/ \E p \in Producers : ProducerStep(p)

(* The loop thread keeps running and a write to a pipe that is not full    *)
(* returns.  Nothing is assumed of PollOther: neither the ten-second       *)
(* timeout nor traffic on other channels is counted on to wake the loop.   *)
Fairness ==
    /\ WF_vars(LoopStep)
    /\ \A p \in Producers : WF_vars(Wakeup(p))

Spec == Init /\ [][Next]_vars /\ Fairness

-----------------------------------------------------------------------------
(* Types of the variables.                                                 *)
TypeOK ==
    /\ looping \in BOOLEAN
    /\ quit_ \in BOOLEAN
    /\ callingPendingFunctors_ \in BOOLEAN
    /\ pendingFunctors_ \in Seq(Functors)
    /\ callbacks \in Seq(Functors)
    /\ wakeupPipe \in 0..PipeCapacity
    /\ activeChannels_ \in SUBSET ChannelNames
    /\ pc \in PCs
    /\ caller \in [Producers -> {"idle", "wakeup"}]
    /\ posted \in Seq(Functors)
    /\ done \in Seq(Functors)

(* A byte is in the pipe, or a producer is about to write one.             *)
Signalled == wakeupPipe > 0 \/ \E p \in Producers : caller[p] = "wakeup"

(* No lost wakeup: the loop never sits in poll() with functors pending or  *)
(* with quit_ set unless a byte is in the pipe or on its way.  At stake is *)
(* that handleRead takes one byte for any number of functors, and that     *)
(* runInLoop and quit publish first and write the byte afterwards.         *)
NoLostWakeup ==
    pc = "poll" /\ (pendingFunctors_ # <<>> \/ quit_) => Signalled

(* Every functor pushed by runInLoop is called exactly once and in the     *)
(* order of the pushes, across the swap of the two vectors.                *)
ExactlyOnceInOrder ==
    posted = done \o callbacks \o pendingFunctors_

(* quit() stops a loop that is running, without help from the poll         *)
(* timeout.                                                                *)
QuitStopsLoop == (looping /\ quit_) ~> ~looping

(* The loop implements the executor: pushes are submissions, a functor     *)
(* stays queued across the swap, and loop() serves it for as long as it    *)
(* runs.                                                                   *)
Executor == INSTANCE TaskExecutor WITH
    queue <- callbacks \o pendingFunctors_,
    running <- looping

ExecutorSpec == Executor!Spec
=============================================================================
