-------------------------- MODULE EventLoop_proofs --------------------------
(***************************************************************************)
(* Proofs about EventLoop, for any number of producers and functors, any   *)
(* capacity of the pipe and any bound on the posts.                        *)
(***************************************************************************)
EXTENDS EventLoop, SequenceTheorems, TLAPS

(* The variables keep their types: in particular handleRead never reads an *)
(* empty pipe, since only the loop thread reads it after poll() has        *)
(* reported it.                                                            *)
ReadableWhenActive ==
    /\ "wakeup" \in activeChannels_ => pc = "dispatch" /\ wakeupPipe > 0
    /\ pc # "dispatch" => activeChannels_ = {}

TypeInv == TypeOK /\ ReadableWhenActive

LEMMA TypeInvInit == Init => TypeInv
<1> SUFFICES ASSUME Init
             PROVE  TypeInv
  OBVIOUS
<1>1. looping \in BOOLEAN /\ quit_ \in BOOLEAN /\ callingPendingFunctors_ \in BOOLEAN
  BY Zenon DEF Init
<1>2. /\ pendingFunctors_ \in Seq(Functors)
      /\ callbacks \in Seq(Functors)
      /\ posted \in Seq(Functors)
      /\ done \in Seq(Functors)
  BY EmptySeq DEF Init
<1>3. /\ wakeupPipe \in 0..PipeCapacity
      /\ activeChannels_ \in SUBSET ChannelNames
      /\ pc \in PCs
      /\ caller \in [Producers -> {"idle", "wakeup"}]
  BY ConstantsAssumption DEF Init, PCs
<1> QED
  BY <1>1, <1>2, <1>3 DEF Init, TypeInv, TypeOK, ReadableWhenActive

LEMMA TypeInvStep == TypeInv /\ [Next]_vars => TypeInv'
<1> SUFFICES ASSUME TypeInv, [Next]_vars
             PROVE  TypeInv'
  OBVIOUS
<1> USE ConstantsAssumption DEF TypeInv, TypeOK, ReadableWhenActive, PCs, ChannelNames, loopVars
<1>1. CASE Loop
  BY <1>1 DEF Loop
<1>2. ASSUME NEW f \in Functors, RunOutside(f)
      PROVE  TypeInv'
  BY <1>2 DEF RunOutside, Call
<1>3. CASE WhileTest
  BY <1>3 DEF WhileTest
<1>4. ASSUME NEW active \in SUBSET ChannelNames, PollReturns(active)
      PROVE  TypeInv'
  BY <1>4 DEF PollReturns
<1>5. CASE HandleRead
  BY <1>5 DEF HandleRead
<1>6. ASSUME NEW f \in Functors, HandleIo(f)
      PROVE  TypeInv'
  BY <1>6 DEF HandleIo, Call
<1>7. CASE DispatchDone
  BY <1>7 DEF DispatchDone
<1>8. CASE SwapFunctors
  BY <1>8 DEF SwapFunctors
<1>9. CASE RunFunctor
  BY <1>9 DEF RunFunctor, Call
<1>10. CASE FunctorsDone
  BY <1>10 DEF FunctorsDone
<1>11. ASSUME NEW p \in Producers, NEW f \in Functors, RunInLoop(p, f)
       PROVE  TypeInv'
  BY <1>11 DEF RunInLoop
<1>12. ASSUME NEW p \in Producers, Quit(p)
       PROVE  TypeInv'
  BY <1>12 DEF Quit
<1>13. ASSUME NEW p \in Producers, Wakeup(p)
       PROVE  TypeInv'
  BY <1>13 DEF Wakeup
<1>14. CASE UNCHANGED vars
  BY <1>14 DEF vars
<1> QED
  BY <1>1, <1>2, <1>3, <1>4, <1>5, <1>6, <1>7, <1>8, <1>9, <1>10, <1>11, <1>12,
     <1>13, <1>14
  DEF Next, LoopStep, ProducerStep, PollWakeup, PollOther

(* Type correctness of the running loop.                                   *)
THEOREM TypeCorrect == Spec => []TypeOK
<1>1. TypeInv => TypeOK
  BY DEF TypeInv
<1> QED
  BY TypeInvInit, TypeInvStep, <1>1, PTL DEF Spec

-----------------------------------------------------------------------------
(* The inductive form of NoLostWakeup.  From the moment poll() returns to  *)
(* the swap the loop is on its way to the pending functors and needs no    *)
(* signal; everywhere else one is owed.  quit_ is looked at right before   *)
(* poll(), so a signal is owed only to a loop that is already in poll().   *)
SignalOwed ==
    /\ pendingFunctors_ # <<>> /\ pc \notin {"dispatch", "swap"} => Signalled
    /\ quit_ /\ pc = "poll" => Signalled

LEMMA SignalOwedInit == Init => SignalOwed
BY DEF Init, SignalOwed

LEMMA SignalOwedStep == TypeInv /\ SignalOwed /\ [Next]_vars => SignalOwed'
<1> SUFFICES ASSUME TypeInv, SignalOwed, [Next]_vars
             PROVE  SignalOwed'
  OBVIOUS
<1> USE ConstantsAssumption DEF TypeInv, TypeOK, SignalOwed, Signalled, loopVars
<1>1. CASE Loop
  BY <1>1 DEF Loop
<1>2. ASSUME NEW f \in Functors, RunOutside(f)
      PROVE  SignalOwed'
  BY <1>2 DEF RunOutside
<1>3. CASE WhileTest
  BY <1>3 DEF WhileTest
<1>4. ASSUME NEW active \in SUBSET ChannelNames, PollReturns(active)
      PROVE  SignalOwed'
  BY <1>4 DEF PollReturns
<1>5. CASE HandleRead
  BY <1>5 DEF HandleRead
<1>6. ASSUME NEW f \in Functors, HandleIo(f)
      PROVE  SignalOwed'
  BY <1>6 DEF HandleIo
<1>7. CASE DispatchDone
  BY <1>7 DEF DispatchDone
<1>8. CASE SwapFunctors
  BY <1>8 DEF SwapFunctors
<1>9. CASE RunFunctor
  BY <1>9 DEF RunFunctor
<1>10. CASE FunctorsDone
  BY <1>10 DEF FunctorsDone
<1>11. ASSUME NEW p \in Producers, NEW f \in Functors, RunInLoop(p, f)
       PROVE  SignalOwed'
  <2>1. caller'[p] = "wakeup"
    BY <1>11 DEF RunInLoop
  <2> QED
    BY <2>1
<1>12. ASSUME NEW p \in Producers, Quit(p)
       PROVE  SignalOwed'
  <2>1. caller'[p] = "wakeup"
    BY <1>12 DEF Quit
  <2> QED
    BY <2>1
<1>13. ASSUME NEW p \in Producers, Wakeup(p)
       PROVE  SignalOwed'
  <2>1. wakeupPipe' > 0
    BY <1>13 DEF Wakeup
  <2> QED
    BY <2>1
<1>14. CASE UNCHANGED vars
  BY <1>14 DEF vars
<1> QED
  BY <1>1, <1>2, <1>3, <1>4, <1>5, <1>6, <1>7, <1>8, <1>9, <1>10, <1>11, <1>12,
     <1>13, <1>14
  DEF Next, LoopStep, ProducerStep, PollWakeup, PollOther

(* EventLoop never sleeps in poll() on work or on a quit() that nobody is  *)
(* going to wake it for.                                                   *)
THEOREM WakeupNeverLost == Spec => []NoLostWakeup
<1>1. SignalOwed => NoLostWakeup
  BY DEF SignalOwed, NoLostWakeup
<1> QED
  BY TypeInvInit, TypeInvStep, SignalOwedInit, SignalOwedStep, <1>1, PTL DEF Spec

-----------------------------------------------------------------------------
(* Facts about sequences the two histories rest on.                        *)

LEMMA AppendToConcat ==
  \A s, t \in Seq(Functors), f \in Functors : Append(s \o t, f) = s \o Append(t, f)
<1> SUFFICES ASSUME NEW s \in Seq(Functors), NEW t \in Seq(Functors), NEW f \in Functors
             PROVE  Append(s \o t, f) = s \o Append(t, f)
  OBVIOUS
<1>1. s \o t \in Seq(Functors) /\ <<f>> \in Seq(Functors)
  BY ConcatProperties
<1>2. Append(s \o t, f) = (s \o t) \o <<f>>
  BY <1>1, AppendIsConcat
<1>3. Append(t, f) = t \o <<f>>
  BY AppendIsConcat
<1> QED
  BY <1>1, <1>2, <1>3, ConcatAssociative

LEMMA HeadTailOfConcat ==
  ASSUME NEW S, NEW s \in Seq(S), s # <<>>, NEW t \in Seq(S)
  PROVE  /\ s \o t # <<>>
         /\ Head(s \o t) = Head(s)
         /\ Tail(s \o t) = Tail(s) \o t
<1>1. Tail(s) \in Seq(S) /\ Len(s) \in Nat \ {0} /\ Len(t) \in Nat
  BY EmptySeq, HeadTailProperties, LenProperties
<1>2. s \o t \in Seq(S) /\ Len(s \o t) = Len(s) + Len(t)
  BY ConcatProperties
<1>3. s \o t # <<>>
  BY <1>1, <1>2
<1>4. Head(s \o t) = Head(s)
  BY <1>1, <1>2, <1>3
<1>5. Tail(s \o t) = Tail(s) \o t
  <2>1. Tail(s \o t) \in Seq(S) /\ Tail(s) \o t \in Seq(S)
    BY <1>1, <1>2, <1>3, HeadTailProperties, ConcatProperties
  <2>2. Len(Tail(s \o t)) = Len(Tail(s) \o t)
    BY <1>1, <1>2, <1>3, HeadTailProperties, ConcatProperties
  <2>3. ASSUME NEW i \in 1 .. Len(Tail(s \o t))
        PROVE  Tail(s \o t)[i] = (Tail(s) \o t)[i]
    BY <1>1, <1>2, <1>3, <2>1, <2>2
  <2> QED
    BY <2>1, <2>2, <2>3, SeqEqual
<1> QED
  BY <1>3, <1>4, <1>5

LEMMA MoveHead ==
  ASSUME NEW S, NEW s \in Seq(S), NEW t \in Seq(S), t # <<>>
  PROVE  Append(s, Head(t)) \o Tail(t) = s \o t
<1>1. Head(t) \in S /\ Tail(t) \in Seq(S) /\ Len(t) \in Nat \ {0} /\ Len(s) \in Nat
  BY HeadTailProperties, EmptySeq, LenProperties
<1>2. Append(s, Head(t)) \in Seq(S) /\ Len(Append(s, Head(t))) = Len(s) + 1
  BY <1>1, AppendProperties
<1>3. /\ Append(s, Head(t)) \o Tail(t) \in Seq(S)
      /\ s \o t \in Seq(S)
      /\ Len(Append(s, Head(t)) \o Tail(t)) = Len(s \o t)
  BY <1>1, <1>2, ConcatProperties, HeadTailProperties
<1>4. ASSUME NEW i \in 1 .. Len(s \o t)
      PROVE  (Append(s, Head(t)) \o Tail(t))[i] = (s \o t)[i]
  BY <1>1, <1>2, <1>3
<1> QED
  BY <1>3, <1>4, SeqEqual

-----------------------------------------------------------------------------
(* The batch being called is empty everywhere but in doPendingFunctors.    *)
BatchOnlyInRun == pc # "run" => callbacks = <<>>

HistoryInv == ExactlyOnceInOrder /\ BatchOnlyInRun

LEMMA HistoryInit == Init => HistoryInv
BY DEF Init, HistoryInv, ExactlyOnceInOrder, BatchOnlyInRun

LEMMA HistoryStep == TypeInv /\ HistoryInv /\ [Next]_vars => HistoryInv'
<1> SUFFICES ASSUME TypeInv, HistoryInv, [Next]_vars
             PROVE  HistoryInv'
  OBVIOUS
<1> USE DEF TypeInv, TypeOK, HistoryInv, ExactlyOnceInOrder, BatchOnlyInRun
<1>0. done \o callbacks \in Seq(Functors)
  BY ConcatProperties
<1>1. CASE SwapFunctors
  <2>1. callbacks = <<>> /\ callbacks' = pendingFunctors_ /\ pendingFunctors_' = <<>>
        /\ posted' = posted /\ done' = done /\ pc' = "run"
    BY <1>1 DEF SwapFunctors
  <2>2. done \o pendingFunctors_ \in Seq(Functors)
    BY ConcatProperties
  <2>3. done \o callbacks = done /\ (done \o pendingFunctors_) \o <<>> = done \o pendingFunctors_
    BY <2>1, <2>2, ConcatEmptySeq
  <2> QED
    BY <2>1, <2>3
<1>2. CASE RunFunctor
  <2>1. Append(done, Head(callbacks)) \o Tail(callbacks) = done \o callbacks
    BY <1>2, MoveHead DEF RunFunctor
  <2> QED
    BY <1>2, <2>1 DEF RunFunctor
<1>3. ASSUME NEW p \in Producers, NEW f \in Functors, RunInLoop(p, f)
      PROVE  HistoryInv'
  <2>1. Append((done \o callbacks) \o pendingFunctors_, f)
          = (done \o callbacks) \o Append(pendingFunctors_, f)
    BY <1>0, AppendToConcat, Zenon
  <2> QED
    BY <1>0, <1>3, <2>1 DEF RunInLoop, loopVars
<1>4. CASE FunctorsDone
  BY <1>4 DEF FunctorsDone
<1>5. CASE UNCHANGED <<done, callbacks, pendingFunctors_, posted>> /\ pc # "run" /\ pc' # "run"
  BY <1>5
<1>6. CASE UNCHANGED <<done, callbacks, pendingFunctors_, posted, pc>>
  BY <1>6
<1> QED
  BY <1>1, <1>2, <1>3, <1>4, <1>5, <1>6
  DEF Next, LoopStep, ProducerStep, PollWakeup, PollOther, vars, loopVars, Loop, RunOutside,
      WhileTest, PollReturns, HandleRead, HandleIo, DispatchDone, Quit, Wakeup

(* Every functor pushed by runInLoop is called once and in push order.     *)
THEOREM FunctorsInOrder == Spec => []ExactlyOnceInOrder
<1>1. HistoryInv => ExactlyOnceInOrder
  BY DEF HistoryInv
<1> QED
  BY TypeInvInit, TypeInvStep, HistoryInit, HistoryStep, <1>1, PTL DEF Spec

-----------------------------------------------------------------------------
(* loop() is on its way exactly when the thread is past its entry.         *)
LoopingInv == looping <=> pc # "out"

LEMMA LoopingInit == Init => LoopingInv
BY DEF Init, LoopingInv

LEMMA LoopingStep == TypeInv /\ LoopingInv /\ [Next]_vars => LoopingInv'
BY DEF TypeInv, TypeOK, LoopingInv, Next, LoopStep, ProducerStep, PollWakeup, PollOther, vars,
       loopVars, Loop, RunOutside, WhileTest, PollReturns, HandleRead, HandleIo, DispatchDone,
       SwapFunctors, RunFunctor, FunctorsDone, RunInLoop, Quit, Wakeup

LEMMA ExecutorInit == Init => Executor!Init
BY EmptySeq, ConcatEmptySeq DEF Init, Executor!Init

LEMMA ExecutorStep ==
    TypeInv /\ HistoryInv /\ LoopingInv /\ [Next]_vars => [Executor!Next]_(Executor!vars)
<1> SUFFICES ASSUME TypeInv, HistoryInv, LoopingInv, [Next]_vars
             PROVE  [Executor!Next]_(Executor!vars)
  OBVIOUS
<1> USE DEF TypeInv, TypeOK, Executor!vars
<1>1. CASE Loop
  BY <1>1 DEF Loop, Executor!Next, Executor!Start
<1>2. CASE WhileTest
  BY <1>2 DEF WhileTest, LoopingInv, Executor!Next, Executor!Stop
<1>3. CASE SwapFunctors
  <2>1. callbacks = <<>>
    BY <1>3 DEF SwapFunctors, HistoryInv, BatchOnlyInRun
  <2>2. <<>> \o pendingFunctors_ = pendingFunctors_ \o <<>>
    BY ConcatEmptySeq
  <2> QED
    BY <1>3, <2>1, <2>2 DEF SwapFunctors
<1>4. CASE RunFunctor
  <2>1. looping
    BY <1>4 DEF RunFunctor, LoopingInv
  <2>2. /\ callbacks \o pendingFunctors_ # <<>>
        /\ Head(callbacks \o pendingFunctors_) = Head(callbacks)
        /\ Tail(callbacks \o pendingFunctors_) = Tail(callbacks) \o pendingFunctors_
    BY <1>4, HeadTailOfConcat DEF RunFunctor
  <2>3. Executor!Execute
    BY <1>4, <2>1, <2>2 DEF RunFunctor, Executor!Execute
  <2> QED
    BY <2>3 DEF Executor!Next
<1>5. ASSUME NEW p \in Producers, NEW f \in Functors, RunInLoop(p, f)
      PROVE  [Executor!Next]_(Executor!vars)
  <2>1. Append(callbacks \o pendingFunctors_, f) = callbacks \o Append(pendingFunctors_, f)
    BY AppendToConcat, Zenon
  <2>2. Executor!Submit(f)
    BY <1>5, <2>1 DEF RunInLoop, loopVars, Executor!Submit
  <2> QED
    BY <2>2 DEF Executor!Next
<1>6. CASE UNCHANGED <<callbacks, pendingFunctors_, done, looping>>
  BY <1>6
<1> QED
  BY <1>1, <1>2, <1>3, <1>4, <1>5, <1>6
  DEF Next, LoopStep, ProducerStep, PollWakeup, PollOther, vars, loopVars, RunOutside,
      PollReturns, HandleRead, HandleIo, DispatchDone, FunctorsDone, Quit, Wakeup

(* Step by step, the event loop does what the executor allows.             *)
THEOREM LoopImplementsExecutor == Spec => Executor!SafeSpec
<1> QED
  BY TypeInvInit, TypeInvStep, HistoryInit, HistoryStep, LoopingInit, LoopingStep,
     ExecutorInit, ExecutorStep, PTL DEF Spec, Executor!SafeSpec

=============================================================================
