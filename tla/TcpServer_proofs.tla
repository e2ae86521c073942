-------------------------- MODULE TcpServer_proofs --------------------------
(***************************************************************************)
(* Proofs about a TcpServer, for any number of io loops and connections.   *)
(***************************************************************************)
EXTENDS TcpServer, SequenceTheorems, FiniteSetTheorems, TLAPS

(* The actions of the server and of the threads of the application.        *)
AllSteps == Next \/ \E u \in UserThreads : UserStep(u)

LEMMA TypeOKInit == Init => TypeOK
<1> SUFFICES ASSUME Init PROVE TypeOK
  OBVIOUS
<1>1. <<>> \in Seq(Call)
  BY EmptySeq
<1>2. 0 \in Loops /\ 1 \in 1..(MaxConns + 1) /\ 0 \in 0..ThreadNum
  BY ServerAssumption DEF Loops
<1> QED
  BY <1>1, <1>2, ServerAssumption DEF Init, TypeOK, BaseLoop

(* What a call of a loop thread leaves of the stacks and the queues.       *)
LEMMA ContinueType ==
    ASSUME TypeOK, NEW l \in Loops, stack[l] # <<>>, NEW next \in Seq(Call), Continue(l, next)
    PROVE  stack' \in [Loops -> Seq(Call)]
<1>1. Tail(stack[l]) \in Seq(Call)
  BY DEF TypeOK
<1>2. next \o Tail(stack[l]) \in Seq(Call)
  BY <1>1, ConcatProperties
<1> QED
  BY <1>2 DEF Continue, TypeOK

LEMMA RunInLoopType ==
    ASSUME TypeOK, NEW l \in Loops, stack[l] # <<>>, NEW target \in Loops, NEW next \in Call,
           NEW rest \in Seq(Call), RunInLoop(l, target, next, rest)
    PROVE  stack' \in [Loops -> Seq(Call)] /\ pending' \in [Loops -> Seq(Call)]
<1>1. CASE l = target
  <2>1. <<next>> \o rest \in Seq(Call)
    OBVIOUS
  <2> QED
    BY <1>1, <2>1, ContinueType DEF RunInLoop, TypeOK
<1>2. CASE l # target
  <2>1. Append(pending[target], next) \in Seq(Call)
    BY DEF TypeOK
  <2> QED
    BY <1>2, <2>1, ContinueType DEF RunInLoop, TypeOK
<1> QED
  BY <1>1, <1>2

LEMMA CallType ==
    \A c \in Conns : \A op \in BareCalls \cup OwningCalls :
        On(op, c) \in Call /\ <<On(op, c)>> \in Seq(Call)
BY DEF On, Call

LEMMA NewConnectionType == TypeOK /\ newConnection => TypeOK'
<1> SUFFICES ASSUME TypeOK, newConnection
             PROVE  TypeOK'
  OBVIOUS
<1>1. nextConnId_ \in Conns /\ nextConnId_' \in 1..(MaxConns + 1)
  BY ServerAssumption DEF TypeOK, newConnection, Conns
<1>2. getNextLoop \in Loops
  BY ServerAssumption DEF TypeOK, getNextLoop, Loops, BaseLoop
<1>3. next_' \in 0..ThreadNum /\ (ThreadNum > 0 => next_' < ThreadNum)
  BY ServerAssumption DEF TypeOK, newConnection, Advance
<1> DEFINE e == On("connectEstablished", nextConnId_)
<1>4. e \in Call /\ <<e>> \in Seq(Call)
  BY <1>1, CallType DEF OwningCalls
<1>5. stack' \in [Loops -> Seq(Call)] /\ pending' \in [Loops -> Seq(Call)]
  <2> HIDE DEF e
  <2>1. CASE getNextLoop = BaseLoop
    BY <1>2, <1>4, <2>1 DEF TypeOK, newConnection, e
  <2>2. CASE getNextLoop # BaseLoop
    <3>1. Append(pending[getNextLoop], e) \in Seq(Call)
      BY <1>2, <1>4 DEF TypeOK
    <3> QED
      BY <1>2, <2>2, <3>1 DEF TypeOK, newConnection, e
  <2> QED
    BY <2>1, <2>2
<1>6. loop_' \in [Conns -> Loops] /\ state_' \in [Conns -> StateE \cup {"none"}]
  BY <1>2 DEF TypeOK, newConnection, SetState, StateE
<1> QED
  BY <1>1, <1>3, <1>5, <1>6 DEF TypeOK, newConnection, channelVars, outside

LEMMA ConnectionStepType ==
    ASSUME TypeOK, NEW c \in Conns, ConnectionStep(c)
    PROVE  TypeOK'
<1>1. loop_[c] \in Loops /\ BaseLoop \in Loops
  BY ServerAssumption DEF TypeOK, Loops, BaseLoop
<1>2. <<>> \in Seq(Call)
  BY EmptySeq
<1>3. \A op \in BareCalls \cup OwningCalls : On(op, c) \in Call /\ <<On(op, c)>> \in Seq(Call)
  BY CallType
<1>4. CallbackCalls(c) \subseteq Seq(Call) /\ AfterRead(c) \subseteq Seq(Call)
  <2>1. CallbackCalls(c) \subseteq Seq(Call)
    BY <1>2, <1>3 DEF CallbackCalls, OwningCalls
  <2>2. <<On("handleClose", c)>> \in Seq(Call)
    BY <1>3 DEF BareCalls
  <2>3. peer[c] \in {"open", "closed", "reset"}
    BY DEF TypeOK
  <2>4. AfterRead(c) = CallbackCalls(c) \/ AfterRead(c) = {<<On("handleClose", c)>>} \/ AfterRead(c) = {<<>>}
    BY <2>3, Zenon DEF AfterRead
  <2> QED
    BY <1>2, <2>1, <2>2, <2>4
<1> USE DEF serverVars, channelVars, connVars, outside
<1>5. CASE connectEstablished(c)
  <2>1. stack' \in [Loops -> Seq(Call)]
    BY <1>1, <1>4, <1>5, ContinueType DEF connectEstablished, At
  <2> QED
    BY <1>5, <2>1 DEF connectEstablished, TypeOK, SetState, SetEvents, Assert, StateE
<1>6. CASE handleRead(c)
  <2>1. stack' \in [Loops -> Seq(Call)]
    BY <1>1, <1>4, <1>6, ContinueType DEF handleRead, At
  <2>2. peer' \in [Conns -> {"open", "closed", "reset"}]
    BY <1>6 DEF handleRead, TypeOK
  <2> QED
    BY <1>6, <2>1, <2>2 DEF handleRead, TypeOK
<1>7. CASE handleClose(c)
  <2>1. stack' \in [Loops -> Seq(Call)] /\ pending' \in [Loops -> Seq(Call)]
    <3>1. On("removeConnectionInLoop", c) \in Call
      BY <1>3 DEF OwningCalls
    <3> QED
      BY <1>1, <1>2, <1>7, <3>1, RunInLoopType DEF handleClose, At
  <2> QED
    BY <1>7, <2>1 DEF handleClose, disableAll, TypeOK, SetState, SetEvents, Assert, StateE
<1>8. CASE eventHandled(c)
  <2>1. stack' \in [Loops -> Seq(Call)]
    BY <1>1, <1>2, <1>8, ContinueType DEF eventHandled, At
  <2> QED
    BY <1>8, <2>1 DEF eventHandled, TypeOK
<1>9. CASE connectDestroyed(c)
  <2>0. On("removeConnectionInLoop", c) \in Call /\ <<On("remove", c)>> \in Seq(Call)
    BY <1>3 DEF OwningCalls
  <2>1. CASE state_[c] \in {"kConnected", "kDisconnecting"}
    <3>1. stack' \in [Loops -> Seq(Call)] /\ pending' \in [Loops -> Seq(Call)]
      BY <1>1, <1>9, <2>0, <2>1, RunInLoopType DEF connectDestroyed, At
    <3>2. SetState(c, "kDisconnected") /\ SetEvents(c, FALSE) /\ UNCHANGED <<serverVars, outside, fault>>
      BY <1>9, <2>1, Zenon DEF connectDestroyed, disableAll
    <3>3. events_' \in [Conns -> BOOLEAN] /\ addedToLoop_' \in [Conns -> BOOLEAN]
      BY <3>2, Zenon DEF SetEvents, TypeOK
    <3>4. /\ state_' \in [Conns -> StateE \cup {"none"}]
          /\ stale' \subseteq Conns /\ aborted' \in BOOLEAN
      BY <3>2 DEF SetState, SetEvents, TypeOK, StateE
    <3> QED
      BY <3>1, <3>2, <3>3, <3>4 DEF TypeOK
  <2>2. CASE state_[c] \notin {"kConnected", "kDisconnecting"}
    <3>1. stack' \in [Loops -> Seq(Call)]
      BY <1>1, <1>9, <2>0, <2>2, ContinueType DEF connectDestroyed, At
    <3> QED
      BY <1>9, <2>2, <3>1 DEF connectDestroyed, TypeOK
  <2> QED
    BY <2>1, <2>2
<1>10. CASE remove(c)
  <2>1. stack' \in [Loops -> Seq(Call)]
    BY <1>1, <1>2, <1>10, ContinueType DEF remove, At
  <2>2. fault' = "Channel:48" \/ fault' = "PollPoller:57" \/ fault' = "none"
    BY <1>10, Zenon DEF remove
  <2>3. /\ addedToLoop_' = [addedToLoop_ EXCEPT ![c] = FALSE]
        /\ aborted' = (c \in stale) /\ stale' = (stale \ {c}) \cup Behind(c)
        /\ UNCHANGED <<serverVars, state_, events_, outside, pending>>
    BY <1>10, Zenon DEF remove
  <2>4. addedToLoop_' \in [Conns -> BOOLEAN]
    BY <2>3, Zenon DEF TypeOK
  <2>5. aborted' \in BOOLEAN /\ stale' \subseteq Conns
    BY <2>3 DEF TypeOK, Behind
  <2> QED
    BY <2>1, <2>2, <2>3, <2>4, <2>5 DEF TypeOK
<1>11. CASE removeConnectionInLoop(c)
  <2>1. stack' \in [Loops -> Seq(Call)] /\ pending' \in [Loops -> Seq(Call)]
    <3>1. On("connectDestroyed", c) \in Call
      BY <1>3 DEF OwningCalls
    <3> QED
      BY <1>1, <1>2, <1>11, <3>1, RunInLoopType DEF removeConnectionInLoop, destroyInLoop, At
  <2> QED
    BY <1>11, <2>1 DEF removeConnectionInLoop, erase, TypeOK, Assert
<1>12. CASE shutdown(c)
  <2>0. <<On("shutdownInLoop", c)>> \in Seq(Call)
    BY <1>3 DEF OwningCalls
  <2>1. stack' \in [Loops -> Seq(Call)]
    BY <1>1, <1>2, <1>12, <2>0, ContinueType DEF shutdown, At
  <2>2. state_' \in [Conns -> StateE \cup {"none"}]
    BY <1>12 DEF shutdown, TypeOK, SetState, StateE
  <2> QED
    BY <1>12, <2>1, <2>2 DEF shutdown, TypeOK
<1>13. CASE shutdownInLoop(c)
  <2>1. stack' \in [Loops -> Seq(Call)]
    BY <1>1, <1>2, <1>13, ContinueType DEF shutdownInLoop, At
  <2> QED
    BY <1>13, <2>1 DEF shutdownInLoop, TypeOK
<1> QED
  BY <1>5, <1>6, <1>7, <1>8, <1>9, <1>10, <1>11, <1>12, <1>13 DEF ConnectionStep

(* Short stacks: what Tail and concatenation make of them.                 *)
LEMMA ShortSeqs ==
    ASSUME NEW a \in Call, NEW b \in Call
    PROVE  /\ <<a>> \o <<b>> = <<a, b>> /\ <<a, b>> \in Seq(Call) /\ <<b>> \in Seq(Call)
           /\ <<>> \o <<b>> = <<b>>
           /\ Tail(<<a>>) = <<>> /\ Tail(<<a, b>>) = <<b>>
           /\ Head(<<a>>) = a /\ Head(<<a, b>>) = a
<1>1. <<a>> \in Seq(Call) /\ <<b>> \in Seq(Call) /\ <<a, b>> \in Seq(Call)
  OBVIOUS
<1>2. <<a>> \o <<b>> = <<a, b>>
  <2> DEFINE s == <<a>> \o <<b>>
             t == <<a, b>>
  <2>1. s \in Seq(Call) /\ Len(s) = 2 /\ s[1] = a /\ s[2] = b
    BY <1>1, ConcatProperties
  <2>2. t \in Seq(Call) /\ Len(t) = 2 /\ t[1] = a /\ t[2] = b
    OBVIOUS
  <2> HIDE DEF s, t
  <2>3. \A i \in 1..2 : s[i] = t[i]
    BY <2>1, <2>2
  <2>4. s = t
    BY <2>1, <2>2, <2>3, SeqEqual
  <2> QED
    BY <2>4 DEF s, t
<1>3. <<>> \o <<b>> = <<b>>
  BY <1>1, ConcatEmptySeq
<1>4. Head(<<a>>) = a /\ Head(<<a, b>>) = a
  OBVIOUS
<1>5. Tail(<<a>>) = <<>>
  OBVIOUS
<1>6. Tail(<<a, b>>) = <<b>>
  OBVIOUS
<1> QED
  BY <1>1, <1>2, <1>3, <1>4, <1>5, <1>6

(* A hang-up comes with POLLIN: handleEvent calls handleRead, and ends.    *)
LEMMA CallbacksOfEvent ==
    ASSUME NEW c \in Conns, NEW r \in Revents(c)
    PROVE  /\ Callbacks(c, r) = <<On("handleRead", c), On("eventHandled", c)>>
           /\ Callbacks(c, r) \in Seq(Call)
<1>1. "POLLIN" \in r
  BY DEF Revents
<1>2. /\ <<On("handleRead", c)>> \in Seq(Call) /\ <<On("eventHandled", c)>> \in Seq(Call)
      /\ <<>> \in Seq(Call)
  BY CallType, EmptySeq DEF BareCalls
<1>3. Callbacks(c, r) = (<<>> \o <<On("handleRead", c)>>) \o <<On("eventHandled", c)>>
  BY <1>1 DEF Callbacks
<1>4. On("handleRead", c) \in Call /\ On("eventHandled", c) \in Call
  BY CallType DEF BareCalls
<1>5. /\ <<>> \o <<On("handleRead", c)>> = <<On("handleRead", c)>>
      /\ <<On("handleRead", c)>> \o <<On("eventHandled", c)>>
            = <<On("handleRead", c), On("eventHandled", c)>>
      /\ <<On("handleRead", c), On("eventHandled", c)>> \in Seq(Call)
  BY <1>4, ShortSeqs
<1> QED
  BY <1>3, <1>5

LEMMA UserStepType ==
    ASSUME TypeOK, NEW u \in UserThreads, UserStep(u)
    PROVE  TypeOK'
<1> USE DEF serverVars, channelVars, connVars
<1>1. ASSUME NEW c \in Conns, shutdownTests(u, c)
      PROVE  TypeOK'
  BY <1>1 DEF shutdownTests, TypeOK
<1>2. CASE shutdownSets(u)
  <2>1. user[u] # Idle /\ user[u] \in [pc : {"set", "post"}, conn : Conns]
    BY <1>2 DEF shutdownSets, TypeOK, Idle
  <2> QED
    BY <1>2, <2>1 DEF shutdownSets, TypeOK, SetState, StateE
<1>3. CASE shutdownPosts(u)
  <2>1. user[u].conn \in Conns
    BY <1>3 DEF shutdownPosts, TypeOK, Idle
  <2>2. On("shutdownInLoop", user[u].conn) \in Call
    BY <2>1, CallType DEF OwningCalls
  <2>3. loop_[user[u].conn] \in Loops
    BY <2>1 DEF TypeOK
  <2>4. pending' \in [Loops -> Seq(Call)]
    <3>1. Append(pending[loop_[user[u].conn]], On("shutdownInLoop", user[u].conn)) \in Seq(Call)
      BY <2>2, <2>3 DEF TypeOK
    <3> QED
      BY <1>3, <2>3, <3>1 DEF shutdownPosts, TypeOK
  <2> QED
    BY <1>3, <2>4 DEF shutdownPosts, TypeOK
<1> QED
  BY <1>1, <1>2, <1>3 DEF UserStep

LEMMA TypeOKStep == TypeOK /\ [AllSteps]_vars => TypeOK'
<1> SUFFICES ASSUME TypeOK, [AllSteps]_vars
             PROVE  TypeOK'
  OBVIOUS
<1> USE DEF serverVars, channelVars, connVars, outside
<1>1. CASE start
  BY <1>1 DEF start, poolStart, listen, Assert, TypeOK
<1>2. CASE acceptFails \/ UNCHANGED vars
  BY <1>2 DEF acceptFails, vars, TypeOK
<1>3. ASSUME NEW l \in Loops, RunFunctor(l)
      PROVE  TypeOK'
  <2>1. Tail(pending[l]) \in Seq(Call) /\ <<Head(pending[l])>> \in Seq(Call)
    BY <1>3 DEF RunFunctor, TypeOK
  <2> QED
    BY <1>3, <2>1 DEF RunFunctor, TypeOK
<1>4. ASSUME NEW c \in Conns, handleEvent(c)
      PROVE  TypeOK'
  BY <1>4, CallbacksOfEvent DEF handleEvent, TypeOK
<1>5. ASSUME NEW c \in Conns, NEW how \in {"closed", "reset"}, peerLeaves(c, how)
      PROVE  TypeOK'
  BY <1>5 DEF peerLeaves, TypeOK
<1> QED
  BY <1>1, <1>2, <1>3, <1>4, <1>5, NewConnectionType, ConnectionStepType, UserStepType
  DEF AllSteps, Next

(* The variables keep their types, next_ among them: it is never beyond    *)
(* the last io loop.                                                       *)
THEOREM TypeCorrect == Spec => []TypeOK
<1>1. [Next]_vars => [AllSteps]_vars
  BY DEF AllSteps
<1> QED
  BY <1>1, TypeOKInit, TypeOKStep, PTL DEF Spec

(* So they do when threads of the application call shutdown().             *)
THEOREM TypeCorrectWithUsers == UserSpec => []TypeOK
BY TypeOKInit, TypeOKStep, PTL DEF UserSpec, AllSteps

-----------------------------------------------------------------------------
(* The life of a connection in a server with io loops: what its state, its *)
(* channel and the map say together.  A thread of the application that has *)
(* tested state_ may set kDisconnecting long after the connection has been *)
(* closed: state_ alone does not tell the phase.                           *)
Ended == {"kDisconnected", "kDisconnecting"}
Begun(c) == c < nextConnId_
Fresh(c) == ~Begun(c) /\ c \notin connections_ /\ state_[c] = "none"
            /\ ~events_[c] /\ ~addedToLoop_[c]
Accepted(c) == Begun(c) /\ c \in connections_ /\ state_[c] = "kConnecting"
               /\ ~events_[c] /\ ~addedToLoop_[c]
Open(c) == Begun(c) /\ c \in connections_ /\ state_[c] \in {"kConnected", "kDisconnecting"}
           /\ events_[c] /\ addedToLoop_[c]
Closed(c) == Begun(c) /\ c \in connections_ /\ state_[c] \in Ended
             /\ ~events_[c] /\ addedToLoop_[c]
Erased(c) == Begun(c) /\ c \notin connections_ /\ state_[c] \in Ended
             /\ ~events_[c] /\ addedToLoop_[c]
Gone(c) == Begun(c) /\ c \notin connections_ /\ state_[c] \in Ended
           /\ ~events_[c] /\ ~addedToLoop_[c]
Established(c) == Open(c) \/ Closed(c) \/ Erased(c) \/ Gone(c)

(* Calls there may be any number of: shutdownInLoop, and the removal of a  *)
(* connection that has left the map, which will fail.                      *)
Spare(call) ==
    \/ call.op = "shutdownInLoop"
    \/ call.op = "removeConnectionInLoop" /\ call.conn \notin connections_

(* No other functor about c waits in loop l.                               *)
NotPosted(l, c) == \A i \in DOMAIN pending[l] : pending[l][i].conn = c => Spare(pending[l][i])

(* A functor op on c waits in loop l.                                      *)
Posted(l, op, c) ==
    \E i \in DOMAIN pending[l] : pending[l][i].op = op /\ pending[l][i].conn = c

(* A functor op on c that waits in loop l is in the right loop, and c is   *)
(* as op expects it.                                                       *)
Waits(l, op, c) ==
    \/ op = "connectEstablished" /\ l = loop_[c] /\ Accepted(c)
    \/ op = "removeConnectionInLoop" /\ l = BaseLoop /\ (Closed(c) \/ Erased(c) \/ Gone(c))
    \/ op = "connectDestroyed" /\ l = loop_[c] /\ Erased(c)
    \/ op = "shutdownInLoop" /\ l = loop_[c] /\ Established(c)

(* The same of a call op on c that the thread of l is in or about to make. *)
Runs(l, op, c) ==
    \/ op = "connectEstablished" /\ l = loop_[c] /\ Accepted(c) /\ NotPosted(l, c)
    \/ op = "removeConnectionInLoop" /\ l = BaseLoop
       /\ ((Closed(c) /\ NotPosted(l, c)) \/ Erased(c) \/ Gone(c))
    \/ op \in {"connectDestroyed", "remove"} /\ l = loop_[c] /\ Erased(c) /\ NotPosted(l, c)
    \/ op \in {"handleRead", "handleClose", "shutdown"} /\ l = loop_[c] /\ Open(c)
    \/ op = "shutdownInLoop" /\ l = loop_[c] /\ Established(c)
    \/ op = "eventHandled" /\ l = loop_[c] /\ (Open(c) \/ Closed(c) \/ Erased(c))

(* The thread of a loop is in its loop, in one call, or in one that        *)
(* handleEvent made; the two are about the same connection.                *)
StackOK(l) ==
    \/ stack[l] = <<>>
    \/ \E c \in Conns : \E op \in OwningCalls \cup {"eventHandled"} :
          stack[l] = <<On(op, c)>> /\ Runs(l, op, c)
    \/ \E c \in Conns : \E op \in {"handleRead", "handleClose", "shutdown", "shutdownInLoop"} :
          /\ stack[l] = <<On(op, c), On("eventHandled", c)>>
          /\ Runs(l, op, c) /\ Runs(l, "eventHandled", c)

(* What waits in a loop is as it should be, and no connection has two      *)
(* functors there but spare ones.                                          *)
PendingOK(l) ==
    /\ \A i \in DOMAIN pending[l] : Waits(l, pending[l][i].op, pending[l][i].conn)
    /\ \A i, j \in DOMAIN pending[l] :
          /\ pending[l][i].conn = pending[l][j].conn
          /\ ~Spare(pending[l][i]) /\ ~Spare(pending[l][j])
          => i = j

ConnOK(c) ==
    /\ Fresh(c) \/ Accepted(c) \/ Open(c) \/ Closed(c) \/ Erased(c) \/ Gone(c)
    /\ Begun(c) => loop_[c] # BaseLoop

(* A connection out of the map but known to its poller is on its way to    *)
(* connectDestroyed.                                                       *)
DestroyDue(c) == Erased(c) => Called("connectDestroyed", c) \/ Called("remove", c)

LifeInv ==
    /\ TypeOK /\ fault = "none"
    /\ \A c \in Conns : ConnOK(c) /\ DestroyDue(c)
    /\ \A l \in Loops : StackOK(l) /\ PendingOK(l)

(* A thread of the application tests state_ before anything else: the      *)
(* connection it works on has been established.                            *)
UserOK ==
    \A u \in UserThreads :
        user[u] # Idle => state_[user[u].conn] \in {"kConnected", "kDisconnecting", "kDisconnected"}

(* The base loop is about to remove c from the map.                        *)
Removing(c) ==
    \/ Posted(BaseLoop, "removeConnectionInLoop", c)
    \/ stack[BaseLoop] = <<On("removeConnectionInLoop", c)>>

(* Without such threads state_ tells the phase, and only connections in    *)
(* the map are removed from it.                                            *)
Unraced ==
    \A c \in Conns : /\ state_[c] = "kDisconnecting" => events_[c]
                     /\ Removing(c) => c \in connections_

(* What threads that call shutdown() leave of the invariant: at worst the  *)
(* assertion on erase has ended the process.                               *)
RaceInv == TypeOK /\ (fault # "TcpServer:76" => LifeInv /\ UserOK)

(* A step that leaves connection d alone.                                  *)
SameConn(d) ==
    /\ (d \in connections_)' <=> d \in connections_
    /\ state_'[d] = state_[d] /\ events_'[d] = events_[d]
    /\ addedToLoop_'[d] = addedToLoop_[d] /\ loop_'[d] = loop_[d]
    /\ Begun(d)' <=> Begun(d)

(* A step after which what waits in loop l about d still suits d.          *)
Kept(l, d) ==
    /\ \A op : Waits(l, op, d) /\ Posted(l, op, d) => Waits(l, op, d)'
    /\ Posted(l, "removeConnectionInLoop", d) /\ d \notin connections_ => d \notin connections_'

LEMMA SamePhase ==
    ASSUME NEW d \in Conns, SameConn(d)
    PROVE  /\ Fresh(d)' <=> Fresh(d)
           /\ Accepted(d)' <=> Accepted(d)
           /\ Open(d)' <=> Open(d)
           /\ Closed(d)' <=> Closed(d)
           /\ Erased(d)' <=> Erased(d)
           /\ Gone(d)' <=> Gone(d)
           /\ Established(d)' <=> Established(d)
           /\ ConnOK(d) => ConnOK(d)'
<1>1. (d \in connections_)' <=> d \in connections_'
  OBVIOUS
<1> QED
  BY DEF SameConn, Fresh, Accepted, Open, Closed, Erased, Gone, ConnOK, Established

LEMMA SameKept ==
    ASSUME NEW d \in Conns, SameConn(d), NEW l \in Loops
    PROVE  Kept(l, d)
BY SamePhase DEF Kept, Waits, SameConn

LEMMA LifeInvInit == Init => LifeInv
<1> SUFFICES ASSUME Init PROVE LifeInv
  OBVIOUS
<1>1. TypeOK
  BY TypeOKInit
<1>2. ASSUME NEW c \in Conns
      PROVE  ConnOK(c) /\ DestroyDue(c)
  <2>1. c \in Nat /\ c >= 1 /\ nextConnId_ = 1
    BY ServerAssumption DEF Conns, Init
  <2>2. Fresh(c) /\ ~Erased(c) /\ ~Begun(c)
    BY <2>1 DEF Init, Fresh, Erased, Begun
  <2> QED
    BY <2>2 DEF ConnOK, DestroyDue
<1>3. ASSUME NEW l \in Loops
      PROVE  StackOK(l) /\ PendingOK(l)
  BY DEF Init, StackOK, PendingOK
<1> QED
  BY <1>1, <1>2, <1>3 DEF LifeInv, Init

(* The stack of a thread that makes no call.                               *)
LEMMA StackFrame ==
    ASSUME NEW l \in Loops, StackOK(l), UNCHANGED stack[l],
           \A d \in Conns : \A op : Runs(l, op, d) => Runs(l, op, d)'
    PROVE  StackOK(l)'
BY DEF StackOK

(* Functors are about connections.                                         *)
LEMMA PostedType ==
    ASSUME TypeOK, NEW l \in Loops
    PROVE  \A i \in DOMAIN pending[l] : pending[l][i] \in Call /\ pending[l][i].conn \in Conns
<1>1. pending[l] \in Seq(Call)
  BY DEF TypeOK
<1>2. \A k \in Call : k.conn \in Conns
  BY DEF Call
<1> QED
  BY <1>1, <1>2, LenProperties

(* Which functors NotPosted excludes.                                      *)
LEMMA NotPostedMeans ==
    ASSUME NEW l \in Loops, NEW c \in Conns, NotPosted(l, c)
    PROVE  /\ ~Posted(l, "connectEstablished", c) /\ ~Posted(l, "connectDestroyed", c)
           /\ c \in connections_ => ~Posted(l, "removeConnectionInLoop", c)
BY DEF NotPosted, Posted, Spare

(* A queue that keeps its functors.                                        *)
LEMMA PendingFrame ==
    ASSUME TypeOK, NEW l \in Loops, PendingOK(l), UNCHANGED pending[l],
           \A d \in Conns : Kept(l, d)
    PROVE  PendingOK(l)' /\ \A d \in Conns : NotPosted(l, d) => NotPosted(l, d)'
<1>1. \A i \in DOMAIN pending[l] : pending[l][i].conn \in Conns
  BY PostedType
<1>2. \A i \in DOMAIN pending[l] : Posted(l, pending[l][i].op, pending[l][i].conn)
  BY DEF Posted
<1>3. ASSUME NEW i \in DOMAIN pending[l], Spare(pending[l][i])
      PROVE  Spare(pending[l][i])'
  BY <1>1, <1>2, <1>3 DEF Spare, Kept
<1>4. \A i \in DOMAIN pending[l] : Waits(l, pending[l][i].op, pending[l][i].conn)'
  BY <1>1, <1>2 DEF PendingOK, Kept
<1>5. PendingOK(l)'
  BY <1>3, <1>4 DEF PendingOK
<1> QED
  BY <1>3, <1>5 DEF NotPosted

(* A queue that gets a functor about a connection it had none about, or a  *)
(* spare one.                                                              *)
LEMMA PendingAppend ==
    ASSUME TypeOK, NEW l \in Loops, PendingOK(l), NEW c \in Conns, NEW op,
           pending'[l] = Append(pending[l], On(op, c)),
           NotPosted(l, c) \/ op = "shutdownInLoop", Waits(l, op, c)',
           \A d \in Conns : Kept(l, d)
    PROVE  /\ PendingOK(l)'
           /\ \A d \in Conns : d # c /\ NotPosted(l, d) => NotPosted(l, d)'
           /\ Spare(On(op, c))' /\ NotPosted(l, c) => NotPosted(l, c)'
           /\ \A i \in DOMAIN pending[l] : i \in DOMAIN pending'[l] /\ pending'[l][i] = pending[l][i]
<1>1. pending[l] \in Seq(Call) /\ Len(pending[l]) \in Nat
  BY DEF TypeOK
<1>2. \A i \in DOMAIN pending[l] : pending[l][i].conn \in Conns
  BY PostedType
<1>3. On(op, c).op = op /\ On(op, c).conn = c
  BY DEF On
<1>4. /\ DOMAIN pending'[l] = 1..(Len(pending[l]) + 1) /\ DOMAIN pending[l] = 1..Len(pending[l])
      /\ \A i \in 1..Len(pending[l]) : pending'[l][i] = pending[l][i]
      /\ pending'[l][Len(pending[l]) + 1] = On(op, c)
  BY <1>1
<1>0. PICK last : last = Len(pending[l]) + 1
  OBVIOUS
<1>5. \A i \in DOMAIN pending'[l] : i \in DOMAIN pending[l] \/ i = last
  BY <1>0, <1>1, <1>4
<1>6. /\ \A i \in DOMAIN pending[l] : i \in DOMAIN pending'[l] /\ pending'[l][i] = pending[l][i]
      /\ pending'[l][last] = On(op, c)
  BY <1>0, <1>1, <1>4
<1>7. \A i \in DOMAIN pending[l] : Posted(l, pending[l][i].op, pending[l][i].conn)
  BY DEF Posted
<1>8. \A i \in DOMAIN pending[l] :
          /\ pending[l][i].op = "removeConnectionInLoop" /\ pending[l][i].conn \notin connections_
          => pending[l][i].conn \notin connections_'
  BY <1>2, <1>7 DEF Kept
<1>9. \A i \in DOMAIN pending'[l] : Waits(l, pending[l][i].op, pending[l][i].conn)'
  <2> SUFFICES ASSUME NEW i \in DOMAIN pending'[l]
               PROVE  Waits(l, pending[l][i].op, pending[l][i].conn)'
    OBVIOUS
  <2>1. CASE i \in DOMAIN pending[l]
    <3>1. Waits(l, pending[l][i].op, pending[l][i].conn)
      BY <2>1 DEF PendingOK
    <3>2. pending[l][i].conn \in Conns /\ Posted(l, pending[l][i].op, pending[l][i].conn)
      BY <1>2, <1>7, <2>1
    <3>3. PICK d \in Conns : d = pending[l][i].conn
      BY <3>2
    <3>4. PICK o : o = pending[l][i].op
      OBVIOUS
    <3>5. Waits(l, o, d)'
      BY <3>1, <3>2, <3>3, <3>4 DEF Kept
    <3> QED
      BY <1>6, <2>1, <3>3, <3>4, <3>5
  <2>2. CASE i = last
    BY <1>3, <1>6, <2>2
  <2> QED
    BY <1>5, <2>1, <2>2
<1>10. ASSUME NEW i \in DOMAIN pending[l], Spare(pending[l][i])
       PROVE  Spare(pending[l][i])'
  BY <1>6, <1>8, <1>10 DEF Spare
<1>11. op = "shutdownInLoop" => Spare(pending[l][last])'
  BY <1>3, <1>6 DEF Spare
<1>12. ASSUME NEW i \in DOMAIN pending'[l], NEW j \in DOMAIN pending'[l],
              pending'[l][i].conn = pending'[l][j].conn,
              ~Spare(pending[l][i])', ~Spare(pending[l][j])'
       PROVE  i = j
  <2>1. CASE i \in DOMAIN pending[l] /\ j \in DOMAIN pending[l]
    <3>1. ~Spare(pending[l][i]) /\ ~Spare(pending[l][j])
      BY <1>10, <1>12, <2>1
    <3> QED
      BY <1>6, <1>12, <2>1, <3>1 DEF PendingOK
  <2>2. CASE i \in DOMAIN pending[l] /\ j = last
    <3>1. ~Spare(pending[l][i]) /\ pending[l][i].conn = c
      BY <1>3, <1>6, <1>10, <1>12, <2>2
    <3>2. NotPosted(l, c)
      BY <1>11, <1>12, <2>2
    <3> QED
      BY <2>2, <3>1, <3>2 DEF NotPosted
  <2>3. CASE i = last /\ j \in DOMAIN pending[l]
    <3>1. ~Spare(pending[l][j]) /\ pending[l][j].conn = c
      BY <1>3, <1>6, <1>10, <1>12, <2>3
    <3>2. NotPosted(l, c)
      BY <1>11, <1>12, <2>3
    <3> QED
      BY <2>3, <3>1, <3>2 DEF NotPosted
  <2> QED
    BY <1>5, <2>1, <2>2, <2>3
<1>13. PendingOK(l)'
  BY <1>9, <1>12 DEF PendingOK
<1>14. \A d \in Conns : d # c /\ NotPosted(l, d) => NotPosted(l, d)'
  BY <1>3, <1>5, <1>6, <1>10 DEF NotPosted
<1>15. Spare(On(op, c))' /\ NotPosted(l, c) => NotPosted(l, c)'
  <2> SUFFICES ASSUME Spare(On(op, c))', NotPosted(l, c), NEW i \in DOMAIN pending'[l],
                      pending'[l][i].conn = c
               PROVE  Spare(pending[l][i])'
    BY DEF NotPosted
  <2>1. CASE i \in DOMAIN pending[l]
    BY <1>6, <1>10, <2>1 DEF NotPosted
  <2>2. CASE i = last
    BY <1>6, <2>2 DEF Spare
  <2> QED
    BY <1>5, <2>1, <2>2
<1> QED
  BY <1>6, <1>13, <1>14, <1>15

(* Calls survive a step that neither drops functors nor touches their      *)
(* thread.                                                                 *)
LEMMA CalledFrame ==
    ASSUME NEW d \in Conns, NEW op, Called(op, d),
           \A l \in Loops : \A i \in DOMAIN pending[l] :
               i \in DOMAIN pending'[l] /\ pending'[l][i] = pending[l][i],
           \A l \in Loops :
               UNCHANGED stack[l] \/ \A i \in DOMAIN stack[l] : stack[l][i] # On(op, d)
    PROVE  Called(op, d)'
<1>1. PICK l \in Loops :
          \/ \E i \in DOMAIN pending[l] : pending[l][i] = On(op, d)
          \/ \E i \in DOMAIN stack[l] : stack[l][i] = On(op, d)
  BY DEF Called
<1>3. \/ \E i \in DOMAIN pending'[l] : pending'[l][i] = On(op, d)
      \/ \E i \in DOMAIN stack'[l] : stack'[l][i] = On(op, d)
  BY <1>1
<1> QED
  BY <1>3 DEF Called

InnerCalls == {"handleRead", "handleClose", "shutdown", "shutdownInLoop"}

(* The stack of a thread that is about to make the call op on c.           *)
LEMMA AtCases ==
    ASSUME LifeInv, NEW l \in Loops, NEW c \in Conns, NEW op, At(l, op, c)
    PROVE  /\ Runs(l, op, c)
           /\ \A i \in DOMAIN stack[l] : stack[l][i].conn = c
           /\ \/ /\ stack[l] = <<On(op, c)>> /\ Tail(stack[l]) = <<>>
                 /\ op \in OwningCalls \cup {"eventHandled"}
              \/ /\ stack[l] = <<On(op, c), On("eventHandled", c)>>
                 /\ Tail(stack[l]) = <<On("eventHandled", c)>>
                 /\ op \in InnerCalls /\ Runs(l, "eventHandled", c)
<1>1. StackOK(l) /\ stack[l] # <<>> /\ Head(stack[l]) = On(op, c)
  BY DEF LifeInv, At
<1>2. ASSUME NEW d \in Conns, NEW o, On(o, d) = On(op, c)
      PROVE  o = op /\ d = c
  BY <1>2 DEF On
<1>3. ASSUME NEW d \in Conns, NEW o \in OwningCalls \cup {"eventHandled"},
             stack[l] = <<On(o, d)>>, Runs(l, o, d)
      PROVE  /\ Runs(l, op, c) /\ Tail(stack[l]) = <<>> /\ stack[l] = <<On(op, c)>>
             /\ op \in OwningCalls \cup {"eventHandled"}
             /\ \A i \in DOMAIN stack[l] : stack[l][i].conn = c
  <2>1. On(o, d) \in Call
    BY CallType DEF BareCalls
  <2>2. o = op /\ d = c
    BY <1>1, <1>2, <1>3, <2>1, ShortSeqs
  <2>3. \A i \in DOMAIN <<On(o, d)>> : <<On(o, d)>>[i] = On(o, d)
    OBVIOUS
  <2>4. On(o, d).conn = d
    BY DEF On
  <2> QED
    BY <1>3, <2>1, <2>2, <2>3, <2>4, ShortSeqs
<1>4. ASSUME NEW d \in Conns, NEW o \in InnerCalls,
             stack[l] = <<On(o, d), On("eventHandled", d)>>, Runs(l, o, d),
             Runs(l, "eventHandled", d)
      PROVE  /\ Runs(l, op, c) /\ Tail(stack[l]) = <<On("eventHandled", c)>>
             /\ Runs(l, "eventHandled", c)
             /\ stack[l] = <<On(op, c), On("eventHandled", c)>> /\ op \in InnerCalls
             /\ \A i \in DOMAIN stack[l] : stack[l][i].conn = c
  <2>1. On(o, d) \in Call /\ On("eventHandled", d) \in Call
    BY CallType DEF BareCalls, OwningCalls, InnerCalls
  <2>2. Head(stack[l]) = On(o, d) /\ Tail(stack[l]) = <<On("eventHandled", d)>>
    BY <1>4, <2>1, ShortSeqs
  <2>3. o = op /\ d = c
    BY <1>1, <1>2, <2>2
  <2>4. \A i \in DOMAIN <<On(o, d), On("eventHandled", d)>> :
            \/ <<On(o, d), On("eventHandled", d)>>[i] = On(o, d)
            \/ <<On(o, d), On("eventHandled", d)>>[i] = On("eventHandled", d)
    OBVIOUS
  <2>5. On(o, d).conn = d /\ On("eventHandled", d).conn = d
    BY DEF On
  <2> QED
    BY <1>4, <2>2, <2>3, <2>4, <2>5
<1> QED
  BY <1>1, <1>3, <1>4 DEF StackOK, InnerCalls

(* A step of the thread of l0 that is about one connection: what has to be *)
(* shown of it.                                                            *)
LEMMA CallStep ==
    ASSUME LifeInv, TypeOK', fault' = "none",
           NEW l0 \in Loops, NEW c \in Conns, NEW q,
           \A i \in DOMAIN stack[l0] : stack[l0][i].conn = c,
           \A d \in Conns \ {c} : SameConn(d),
           \A l \in Loops \ {l0} : UNCHANGED stack[l],
           \A l \in Loops : \/ UNCHANGED pending[l]
                            \/ /\ pending'[l] = Append(pending[l], On(q, c))
                               /\ NotPosted(l, c) /\ Waits(l, q, c)',
           \A l \in Loops : Kept(l, c),
           \A l \in Loops \ {l0} : \A o : Runs(l, o, c) => Runs(l, o, c)',
           ConnOK(c)', DestroyDue(c)', StackOK(l0)'
    PROVE  LifeInv'
<1>1. /\ TypeOK
      /\ \A d \in Conns : ConnOK(d) /\ DestroyDue(d)
      /\ \A l \in Loops : StackOK(l) /\ PendingOK(l)
  BY DEF LifeInv
<1>2. \A l \in Loops : \A d \in Conns : Kept(l, d)
  BY SameKept
<1>3. ASSUME NEW l \in Loops
      PROVE  /\ PendingOK(l)'
             /\ \A d \in Conns : d # c /\ NotPosted(l, d) => NotPosted(l, d)'
             /\ \A i \in DOMAIN pending[l] : i \in DOMAIN pending'[l] /\ pending'[l][i] = pending[l][i]
  <2>1. CASE UNCHANGED pending[l]
    BY <1>1, <1>2, <2>1, PendingFrame
  <2>2. CASE /\ pending'[l] = Append(pending[l], On(q, c))
             /\ NotPosted(l, c) /\ Waits(l, q, c)'
    BY <1>1, <1>2, <2>2, PendingAppend
  <2> QED
    BY <2>1, <2>2
<1>4. ASSUME NEW l \in Loops
      PROVE  StackOK(l)'
  <2>1. CASE l # l0
    <3>1. \A d \in Conns : \A o : Runs(l, o, d) => Runs(l, o, d)'
      <4> SUFFICES ASSUME NEW d \in Conns, NEW o, d # c, Runs(l, o, d)
                   PROVE  Runs(l, o, d)'
        BY <2>1
      <4>1. SameConn(d)
        OBVIOUS
      <4>2. NotPosted(l, d) => NotPosted(l, d)'
        BY <1>3
      <4> QED
        BY <4>1, <4>2, SamePhase DEF Runs, SameConn
    <3> QED
      BY <1>1, <2>1, <3>1, StackFrame
  <2> QED
    BY <2>1
<1>5. ASSUME NEW d \in Conns, d # c
      PROVE  ConnOK(d)' /\ DestroyDue(d)'
  <2>1. SameConn(d)
    BY <1>5
  <2>2. ConnOK(d)' /\ (Erased(d)' => Erased(d))
    BY <1>1, <2>1, SamePhase
  <2>3. \A op : \A l \in Loops :
            UNCHANGED stack[l] \/ \A i \in DOMAIN stack[l] : stack[l][i] # On(op, d)
    BY <1>5 DEF On
  <2>4. \A op : Called(op, d) => Called(op, d)'
    BY <1>3, <2>3, CalledFrame
  <2> QED
    BY <1>1, <2>2, <2>4 DEF DestroyDue
<1> QED
  BY <1>3, <1>4, <1>5 DEF LifeInv

(* The same for a step that posts nothing.                                 *)
LEMMA QuietCallStep ==
    ASSUME LifeInv, TypeOK', fault' = "none", NEW l0 \in Loops, NEW c \in Conns,
           \A i \in DOMAIN stack[l0] : stack[l0][i].conn = c,
           \A d \in Conns \ {c} : SameConn(d),
           \A l \in Loops \ {l0} : UNCHANGED stack[l],
           UNCHANGED pending,
           \A l \in Loops : Kept(l, c),
           \A l \in Loops \ {l0} : \A o : Runs(l, o, c) => Runs(l, o, c)',
           ConnOK(c)', DestroyDue(c)', StackOK(l0)'
    PROVE  LifeInv'
<1>1. \A l \in Loops : \/ UNCHANGED pending[l]
                       \/ /\ pending'[l] = Append(pending[l], On("remove", c))
                          /\ NotPosted(l, c) /\ Waits(l, "remove", c)'
  OBVIOUS
<1> QED
  BY <1>1, CallStep

(* A step that leaves calls and functors alone, and every connection in    *)
(* its phase.                                                              *)
LEMMA PhaseStep ==
    ASSUME LifeInv, TypeOK', UNCHANGED <<connections_, loop_, pending, stack, fault>>,
           \A d \in Conns : /\ Accepted(d) => Accepted(d)'
                            /\ Open(d) => Open(d)'
                            /\ Closed(d) => Closed(d)'
                            /\ Erased(d)' <=> Erased(d)
                            /\ Gone(d) => Gone(d)'
                            /\ ConnOK(d)'
    PROVE  LifeInv'
<1>1. /\ \A c \in Conns : ConnOK(c) /\ DestroyDue(c)
      /\ \A l \in Loops : StackOK(l) /\ PendingOK(l)
      /\ TypeOK /\ fault = "none"
  BY DEF LifeInv
<1>2. \A l \in Loops : \A d \in Conns : \A o : Waits(l, o, d) => Waits(l, o, d)'
  BY DEF Waits, Established
<1>3. \A l \in Loops : \A d \in Conns : Kept(l, d)
  BY <1>2 DEF Kept
<1>4. \A l \in Loops : PendingOK(l)' /\ \A d \in Conns : NotPosted(l, d) => NotPosted(l, d)'
  BY <1>1, <1>3, PendingFrame
<1>5. \A l \in Loops : \A d \in Conns : \A o : Runs(l, o, d) => Runs(l, o, d)'
  BY <1>4 DEF Runs, Established
<1>6. \A l \in Loops : StackOK(l)'
  BY <1>1, <1>5, StackFrame
<1>7. ASSUME NEW d \in Conns
      PROVE  DestroyDue(d)'
  <2>1. \A op : Called(op, d) => Called(op, d)'
    BY DEF Called
  <2> QED
    BY <1>1, <2>1 DEF DestroyDue
<1> QED
  BY <1>1, <1>4, <1>6, <1>7 DEF LifeInv

LEMMA IdleStep ==
    ASSUME LifeInv, TypeOK',
           UNCHANGED <<connections_, loop_, nextConnId_, connVars, pending, stack, fault>>
    PROVE  LifeInv'
<1>1. \A d \in Conns : SameConn(d) /\ ConnOK(d)
  BY DEF SameConn, Begun, connVars, channelVars, LifeInv
<1> QED
  BY <1>1, SamePhase, PhaseStep

(* What Continue leaves of the stacks.                                     *)
LEMMA ContinueStack ==
    ASSUME TypeOK, NEW l \in Loops, NEW next, Continue(l, next)
    PROVE  /\ stack'[l] = next \o Tail(stack[l])
           /\ \A k \in Loops \ {l} : UNCHANGED stack[k]
BY DEF Continue, TypeOK

(* The phases of a connection exclude each other.                          *)
LEMMA PhasesExclusive ==
    ASSUME NEW c \in Conns
    PROVE  /\ Accepted(c) => ~Open(c) /\ ~Closed(c) /\ ~Erased(c) /\ ~Gone(c) /\ ~Fresh(c)
           /\ Open(c) => ~Closed(c) /\ ~Erased(c) /\ ~Gone(c) /\ ~Fresh(c)
           /\ Closed(c) => ~Erased(c) /\ ~Gone(c) /\ ~Fresh(c)
           /\ Erased(c) => ~Gone(c) /\ ~Fresh(c)
           /\ Gone(c) => ~Fresh(c)
BY DEF Fresh, Accepted, Open, Closed, Erased, Gone

LEMMA EstablishedLife ==
    ASSUME LifeInv, NEW c \in Conns, connectEstablished(c)
    PROVE  LifeInv'
<1>0. TypeOK
  BY DEF LifeInv
<1>l. PICK l0 \in Loops : l0 = loop_[c]
  BY <1>0 DEF TypeOK
<1>1. TypeOK'
  BY <1>0, ConnectionStepType DEF ConnectionStep
<1>2. /\ Accepted(c) /\ NotPosted(l0, c) /\ stack[l0] = <<On("connectEstablished", c)>>
      /\ Tail(stack[l0]) = <<>> /\ \A i \in DOMAIN stack[l0] : stack[l0][i].conn = c
  BY <1>l, AtCases DEF connectEstablished, Runs, InnerCalls
<1>3. /\ UNCHANGED <<connections_, loop_, nextConnId_, pending>>
      /\ state_' = [state_ EXCEPT ![c] = "kConnected"]
      /\ events_' = [events_ EXCEPT ![c] = TRUE]
      /\ addedToLoop_' = [addedToLoop_ EXCEPT ![c] = TRUE]
      /\ fault' = "none"
  BY <1>2 DEF connectEstablished, Assert, SetState, SetEvents, serverVars, Accepted
<1>4. Open(c)'
  BY <1>0, <1>2, <1>3 DEF Open, Accepted, Begun, TypeOK
<1>5. \A d \in Conns \ {c} : SameConn(d)
  BY <1>0, <1>3 DEF SameConn, Begun, TypeOK
<1>6. /\ stack'[l0] = <<>> \/ stack'[l0] = <<On("shutdown", c)>>
      /\ \A k \in Loops \ {l0} : UNCHANGED stack[k]
  <2>1. PICK calls \in CallbackCalls(c) : Continue(l0, calls)
    BY <1>l DEF connectEstablished
  <2>2. stack'[l0] = calls \o <<>>
    BY <1>0, <1>2, <2>1, ContinueStack
  <2>3. calls = <<>> \/ calls = <<On("shutdown", c)>>
    BY DEF CallbackCalls
  <2>4. <<>> \in Seq(Call) /\ <<On("shutdown", c)>> \in Seq(Call)
    BY CallType, EmptySeq DEF OwningCalls
  <2>5. calls \o <<>> = calls
    BY <2>3, <2>4, ConcatEmptySeq
  <2> QED
    BY <1>0, <2>1, <2>2, <2>3, <2>5, ContinueStack
<1>7. StackOK(l0)'
  BY <1>l, <1>3, <1>4, <1>6 DEF StackOK, Runs, OwningCalls
<1>8. ConnOK(c)' /\ DestroyDue(c)'
  <2>1. ~Erased(c)'
    BY <1>4, PhasesExclusive DEF Open, Erased
  <2>2. loop_[c] # BaseLoop
    BY <1>2 DEF LifeInv, ConnOK, Accepted
  <2> QED
    BY <1>3, <1>4, <2>1, <2>2 DEF ConnOK, DestroyDue
<1>9. \A l \in Loops : Kept(l, c)
  BY <1>l, <1>2, <1>3, <1>4, NotPostedMeans, PhasesExclusive DEF Kept, Waits, Established
<1>10. \A l \in Loops \ {l0} : \A o : Runs(l, o, c) => Runs(l, o, c)'
  BY <1>l, <1>2, <1>3, <1>4, PhasesExclusive DEF Runs, Established, NotPosted, Spare
<1> QED
  BY <1>1, <1>2, <1>3, <1>5, <1>6, <1>7, <1>8, <1>9, <1>10, QuietCallStep

(* A step that changes no connection: only the thread of l0 moves on.      *)
LEMMA MoveStep ==
    ASSUME LifeInv, TypeOK', NEW l0 \in Loops, NEW c \in Conns,
           \A i \in DOMAIN stack[l0] : stack[l0][i].conn = c,
           UNCHANGED <<connections_, loop_, nextConnId_, connVars, pending, fault>>,
           \A l \in Loops \ {l0} : UNCHANGED stack[l],
           DestroyDue(c)', StackOK(l0)'
    PROVE  LifeInv'
<1>1. \A d \in Conns : SameConn(d)
  BY DEF SameConn, Begun, connVars, channelVars
<1>2. fault' = "none" /\ ConnOK(c)
  BY DEF LifeInv
<1>3. ConnOK(c)'
  BY <1>1, <1>2, SamePhase
<1>4. \A l \in Loops : NotPosted(l, c)' <=> NotPosted(l, c)
  BY DEF NotPosted, Spare
<1>5. \A l \in Loops : Kept(l, c)
  BY <1>1, SameKept
<1>6. \A l \in Loops \ {l0} : \A o : Runs(l, o, c) => Runs(l, o, c)'
  BY <1>1, <1>4, SamePhase DEF Runs
<1> QED
  BY <1>1, <1>2, <1>3, <1>5, <1>6, QuietCallStep

(* A connection in the map owes nothing; nor does one whose calls the step *)
(* keeps.                                                                  *)
LEMMA DueKept ==
    ASSUME LifeInv, NEW c \in Conns,
           UNCHANGED <<connections_, loop_, nextConnId_, connVars, pending>>,
           \A l \in Loops : \/ UNCHANGED stack[l]
                            \/ \A i \in DOMAIN stack[l] :
                                 stack[l][i] \notin {On("connectDestroyed", c), On("remove", c)}
    PROVE  DestroyDue(c)'
<1>1. SameConn(c)
  BY DEF SameConn, Begun, connVars, channelVars
<1>2. \A op \in {"connectDestroyed", "remove"} : Called(op, c) => Called(op, c)'
  BY CalledFrame
<1>3. DestroyDue(c)
  BY DEF LifeInv
<1> QED
  BY <1>1, <1>2, <1>3, SamePhase DEF DestroyDue

LEMMA HandleReadLife ==
    ASSUME LifeInv, NEW c \in Conns, handleRead(c)
    PROVE  LifeInv'
<1>0. TypeOK
  BY DEF LifeInv
<1>l. PICK l0 \in Loops : l0 = loop_[c]
  BY <1>0 DEF TypeOK
<1>1. TypeOK'
  BY <1>0, ConnectionStepType DEF ConnectionStep
<1>2. /\ Open(c)
      /\ Tail(stack[l0]) = <<On("eventHandled", c)>>
      /\ stack[l0] = <<On("handleRead", c), On("eventHandled", c)>>
      /\ \A i \in DOMAIN stack[l0] : stack[l0][i].conn = c
  BY <1>l, AtCases DEF handleRead, Runs, OwningCalls
<1>3. UNCHANGED <<connections_, loop_, nextConnId_, connVars, pending, fault>>
  BY DEF handleRead, serverVars
<1>4. /\ \/ stack'[l0] = <<On("eventHandled", c)>>
         \/ stack'[l0] = <<On("shutdown", c), On("eventHandled", c)>>
         \/ stack'[l0] = <<On("handleClose", c), On("eventHandled", c)>>
      /\ \A k \in Loops \ {l0} : UNCHANGED stack[k]
  <2>1. PICK calls \in AfterRead(c) : Continue(l0, calls)
    BY <1>l DEF handleRead
  <2>2. stack'[l0] = calls \o <<On("eventHandled", c)>>
    BY <1>0, <1>2, <2>1, ContinueStack
  <2>3. peer[c] \in {"open", "closed", "reset"}
    BY <1>0 DEF TypeOK
  <2>4. AfterRead(c) = CallbackCalls(c) \/ AfterRead(c) = {<<On("handleClose", c)>>} \/ AfterRead(c) = {<<>>}
    BY <2>3, Zenon DEF AfterRead
  <2>5. calls = <<>> \/ calls = <<On("shutdown", c)>> \/ calls = <<On("handleClose", c)>>
    BY <2>4 DEF CallbackCalls
  <2>6. On("eventHandled", c) \in Call /\ On("shutdown", c) \in Call /\ On("handleClose", c) \in Call
    BY CallType DEF OwningCalls, BareCalls
  <2>7. /\ <<>> \o <<On("eventHandled", c)>> = <<On("eventHandled", c)>>
        /\ <<On("shutdown", c)>> \o <<On("eventHandled", c)>>
              = <<On("shutdown", c), On("eventHandled", c)>>
        /\ <<On("handleClose", c)>> \o <<On("eventHandled", c)>>
              = <<On("handleClose", c), On("eventHandled", c)>>
    BY <2>6, ShortSeqs
  <2> QED
    BY <1>0, <2>1, <2>2, <2>5, <2>7, ContinueStack
<1>5. Open(c)' /\ loop_'[c] = l0 /\ ~Erased(c)'
  BY <1>l, <1>2, <1>3 DEF Open, Erased, Begun, connVars, channelVars
<1>6. StackOK(l0)'
  BY <1>4, <1>5 DEF StackOK, Runs
<1>7. DestroyDue(c)'
  BY <1>5 DEF DestroyDue
<1> QED
  BY <1>1, <1>2, <1>3, <1>4, <1>6, <1>7, MoveStep

LEMMA EventHandledLife ==
    ASSUME LifeInv, NEW c \in Conns, eventHandled(c)
    PROVE  LifeInv'
<1>0. TypeOK
  BY DEF LifeInv
<1>l. PICK l0 \in Loops : l0 = loop_[c]
  BY <1>0 DEF TypeOK
<1>1. TypeOK'
  BY <1>0, ConnectionStepType DEF ConnectionStep
<1>2. /\ Tail(stack[l0]) = <<>> /\ stack[l0] = <<On("eventHandled", c)>>
      /\ \A i \in DOMAIN stack[l0] : stack[l0][i].conn = c
  BY <1>l, AtCases DEF eventHandled, InnerCalls
<1>3. UNCHANGED <<connections_, loop_, nextConnId_, connVars, pending, fault>>
  BY DEF eventHandled, serverVars
<1>4. stack'[l0] = <<>> /\ \A k \in Loops \ {l0} : UNCHANGED stack[k]
  <2>1. Continue(l0, <<>>)
    BY <1>l DEF eventHandled
  <2>2. <<>> \o <<>> = <<>>
    OBVIOUS
  <2> QED
    BY <1>0, <1>2, <2>1, <2>2, ContinueStack
<1>5. StackOK(l0)'
  BY <1>4 DEF StackOK
<1>6. DestroyDue(c)'
  <2>1. \A i \in DOMAIN <<On("eventHandled", c)>> : <<On("eventHandled", c)>>[i] = On("eventHandled", c)
    OBVIOUS
  <2>2. On("eventHandled", c) # On("connectDestroyed", c) /\ On("eventHandled", c) # On("remove", c)
    BY DEF On
  <2>3. \A i \in DOMAIN stack[l0] :
            stack[l0][i] \notin {On("connectDestroyed", c), On("remove", c)}
    BY <1>2, <2>1, <2>2
  <2> QED
    BY <1>3, <1>4, <2>3, DueKept
<1> QED
  BY <1>1, <1>2, <1>3, <1>4, <1>5, <1>6, MoveStep

(* What waits in a loop about c agrees with the phase of c.                *)
LEMMA PostedPhase ==
    ASSUME LifeInv, NEW l \in Loops, NEW c \in Conns
    PROVE  /\ Open(c) \/ Fresh(c) \/ Gone(c) => NotPosted(l, c)
           /\ Closed(c) /\ l # BaseLoop => NotPosted(l, c)
           /\ ~Closed(c) /\ l # loop_[c] => NotPosted(l, c)
<1>1. PendingOK(l)
  BY DEF LifeInv
<1> QED
  BY <1>1, PhasesExclusive DEF PendingOK, NotPosted, Waits, Established, Spare, Erased, Gone

LEMMA DestroyedLife ==
    ASSUME LifeInv, NEW c \in Conns, connectDestroyed(c)
    PROVE  LifeInv'
<1>0. TypeOK
  BY DEF LifeInv
<1>l. PICK l0 \in Loops : l0 = loop_[c]
  BY <1>0 DEF TypeOK
<1>1. TypeOK'
  BY <1>0, ConnectionStepType DEF ConnectionStep
<1>2. /\ Tail(stack[l0]) = <<>> /\ Erased(c) /\ NotPosted(l0, c)
      /\ \A i \in DOMAIN stack[l0] : stack[l0][i].conn = c
  BY <1>l, AtCases DEF connectDestroyed, InnerCalls, Runs
<1>3. l0 # BaseLoop /\ BaseLoop \in Loops /\ fault = "none"
  BY <1>l, <1>2, ServerAssumption DEF LifeInv, ConnOK, Erased, Loops, BaseLoop
<1>4. /\ UNCHANGED <<connections_, loop_, nextConnId_>> /\ fault' = "none"
      /\ Continue(l0, <<On("remove", c)>>)
  BY <1>l, <1>3 DEF connectDestroyed, serverVars, RunInLoop
<1>5. stack'[l0] = <<On("remove", c)>> /\ \A k \in Loops \ {l0} : UNCHANGED stack[k]
  <2>1. <<On("remove", c)>> \in Seq(Call)
    BY CallType DEF OwningCalls
  <2>2. <<On("remove", c)>> \o <<>> = <<On("remove", c)>>
    BY <2>1, ConcatEmptySeq
  <2> QED
    BY <1>0, <1>2, <1>4, <2>2, ContinueStack
<1>6. /\ state_'[c] = "kDisconnected" /\ events_'[c] = FALSE /\ addedToLoop_'[c] = TRUE
      /\ \A d \in Conns \ {c} : /\ state_'[d] = state_[d] /\ events_'[d] = events_[d]
                               /\ addedToLoop_'[d] = addedToLoop_[d]
  <2>1. /\ state_[c] \in Ended /\ events_[c] = FALSE /\ addedToLoop_[c] = TRUE
        /\ state_ \in [Conns -> StateE \cup {"none"}]
        /\ events_ \in [Conns -> BOOLEAN] /\ addedToLoop_ \in [Conns -> BOOLEAN]
    BY <1>0, <1>2 DEF Erased, TypeOK
  <2>2. CASE state_[c] = "kDisconnecting"
    <3>1. /\ state_' = [state_ EXCEPT ![c] = "kDisconnected"]
          /\ events_' = [events_ EXCEPT ![c] = FALSE]
          /\ addedToLoop_' = [addedToLoop_ EXCEPT ![c] = TRUE]
      BY <2>2 DEF connectDestroyed, SetState, disableAll, SetEvents
    <3> QED
      BY <2>1, <3>1
  <2>3. CASE state_[c] = "kDisconnected"
    BY <2>1, <2>3 DEF connectDestroyed, connVars, channelVars
  <2> QED
    BY <2>1, <2>2, <2>3 DEF Ended
<1>7. Erased(c)' /\ loop_'[c] = l0
  BY <1>l, <1>2, <1>4, <1>6 DEF Erased, Begun, Ended
<1>8. \A d \in Conns \ {c} : SameConn(d)
  BY <1>4, <1>6 DEF SameConn, Begun
<1>9. \A l \in Loops : \/ UNCHANGED pending[l]
                       \/ /\ l = BaseLoop
                          /\ pending'[l] = Append(pending[l], On("removeConnectionInLoop", c))
  <2>1. \/ UNCHANGED pending
        \/ pending' = [pending EXCEPT ![BaseLoop] = Append(@, On("removeConnectionInLoop", c))]
    BY <1>l, <1>3 DEF connectDestroyed, RunInLoop
  <2> QED
    BY <1>0, <1>3, <2>1 DEF TypeOK
<1>10. NotPosted(BaseLoop, c) /\ Waits(BaseLoop, "removeConnectionInLoop", c)'
  <2>1. ~Closed(c)
    BY <1>2, PhasesExclusive
  <2>2. NotPosted(BaseLoop, c)
    BY <1>l, <1>3, <2>1, PostedPhase
  <2> QED
    BY <1>7, <2>2 DEF Waits
<1>11. \A l \in Loops : \/ UNCHANGED pending[l]
                        \/ /\ pending'[l] = Append(pending[l], On("removeConnectionInLoop", c))
                           /\ NotPosted(l, c) /\ Waits(l, "removeConnectionInLoop", c)'
  BY <1>9, <1>10
<1>12. NotPosted(l0, c)'
  <2>1. UNCHANGED pending[l0]
    BY <1>3, <1>9
  <2> QED
    BY <1>2, <1>4, <2>1 DEF NotPosted, Spare
<1>13. StackOK(l0)'
  BY <1>5, <1>7, <1>12 DEF StackOK, Runs, OwningCalls
<1>14. ConnOK(c)' /\ DestroyDue(c)'
  <2>1. 1 \in DOMAIN stack'[l0] /\ stack'[l0][1] = On("remove", c)
    BY <1>5
  <2> QED
    BY <1>3, <1>7, <2>1 DEF DestroyDue, Called, ConnOK
<1>15. \A l \in Loops : Kept(l, c)
  BY <1>2, <1>4, <1>7, PhasesExclusive DEF Kept, Waits, Established
<1>16. \A l \in Loops \ {l0} : \A o : Runs(l, o, c) => Runs(l, o, c)'
  BY <1>l, <1>2, <1>7, PhasesExclusive DEF Runs
<1> QED
  BY <1>1, <1>2, <1>4, <1>5, <1>8, <1>11, <1>13, <1>14, <1>15, <1>16, CallStep

LEMMA ShutdownInLoopLife ==
    ASSUME LifeInv, NEW c \in Conns, shutdownInLoop(c)
    PROVE  LifeInv'
<1>0. TypeOK
  BY DEF LifeInv
<1>l. PICK l0 \in Loops : l0 = loop_[c]
  BY <1>0 DEF TypeOK
<1>1. TypeOK'
  BY <1>0, ConnectionStepType DEF ConnectionStep
<1>2. /\ \A i \in DOMAIN stack[l0] : stack[l0][i].conn = c
      /\ \/ stack[l0] = <<On("shutdownInLoop", c)>> /\ Tail(stack[l0]) = <<>>
         \/ /\ stack[l0] = <<On("shutdownInLoop", c), On("eventHandled", c)>>
            /\ Tail(stack[l0]) = <<On("eventHandled", c)>> /\ Runs(l0, "eventHandled", c)
  BY <1>l, AtCases DEF shutdownInLoop
<1>3. UNCHANGED <<connections_, loop_, nextConnId_, connVars, pending, fault>>
  BY DEF shutdownInLoop, serverVars
<1>4. /\ stack'[l0] = <<>> \/ (stack'[l0] = <<On("eventHandled", c)>> /\ Runs(l0, "eventHandled", c))
      /\ \A k \in Loops \ {l0} : UNCHANGED stack[k]
  <2>1. Continue(l0, <<>>)
    BY <1>l DEF shutdownInLoop
  <2>2. On("eventHandled", c) \in Call
    BY CallType DEF BareCalls
  <2>3. <<>> \o <<>> = <<>> /\ <<>> \o <<On("eventHandled", c)>> = <<On("eventHandled", c)>>
    BY <2>2, ShortSeqs
  <2> QED
    BY <1>0, <1>2, <2>1, <2>3, ContinueStack
<1>5. Runs(l0, "eventHandled", c) => Runs(l0, "eventHandled", c)'
  <2>1. SameConn(c)
    BY <1>3 DEF SameConn, Begun, connVars, channelVars
  <2> QED
    BY <2>1, SamePhase DEF Runs, SameConn
<1>6. StackOK(l0)'
  BY <1>4, <1>5 DEF StackOK
<1>7. DestroyDue(c)'
  <2>1. \A i \in DOMAIN stack[l0] :
            stack[l0][i] = On("shutdownInLoop", c) \/ stack[l0][i] = On("eventHandled", c)
    BY <1>2
  <2>2. /\ On("eventHandled", c) # On("connectDestroyed", c) /\ On("eventHandled", c) # On("remove", c)
        /\ On("shutdownInLoop", c) # On("connectDestroyed", c)
        /\ On("shutdownInLoop", c) # On("remove", c)
    BY DEF On
  <2>3. \A i \in DOMAIN stack[l0] :
            stack[l0][i] \notin {On("connectDestroyed", c), On("remove", c)}
    BY <2>1, <2>2
  <2> QED
    BY <1>3, <1>4, <2>3, DueKept
<1> QED
  BY <1>1, <1>2, <1>3, <1>4, <1>6, <1>7, MoveStep

LEMMA ShutdownLife ==
    ASSUME LifeInv, NEW c \in Conns, shutdown(c)
    PROVE  LifeInv'
<1>0. TypeOK /\ fault = "none"
  BY DEF LifeInv
<1>l. PICK l0 \in Loops : l0 = loop_[c]
  BY <1>0 DEF TypeOK
<1>1. TypeOK'
  BY <1>0, ConnectionStepType DEF ConnectionStep
<1>2. /\ Open(c) /\ \A i \in DOMAIN stack[l0] : stack[l0][i].conn = c
      /\ Tail(stack[l0]) = <<>> \/ Tail(stack[l0]) = <<On("eventHandled", c)>>
  BY <1>l, AtCases DEF shutdown, Runs
<1>3. /\ UNCHANGED <<connections_, loop_, nextConnId_, events_, addedToLoop_, pending, fault>>
      /\ state_'[c] \in {"kConnected", "kDisconnecting"}
      /\ \A d \in Conns \ {c} : state_'[d] = state_[d]
  BY <1>0, <1>2 DEF shutdown, serverVars, channelVars, SetState, Open, TypeOK
<1>4. /\ \/ stack'[l0] = <<>>
         \/ stack'[l0] = <<On("eventHandled", c)>>
         \/ stack'[l0] = <<On("shutdownInLoop", c)>>
         \/ stack'[l0] = <<On("shutdownInLoop", c), On("eventHandled", c)>>
      /\ \A k \in Loops \ {l0} : UNCHANGED stack[k]
  <2>1. Continue(l0, <<>>) \/ Continue(l0, <<On("shutdownInLoop", c)>>)
    BY <1>l DEF shutdown
  <2>2. On("eventHandled", c) \in Call /\ On("shutdownInLoop", c) \in Call
    BY CallType DEF BareCalls, OwningCalls
  <2>3. <<On("shutdownInLoop", c)>> \in Seq(Call)
    BY CallType DEF OwningCalls
  <2>4. /\ <<>> \o <<>> = <<>> /\ <<>> \o <<On("eventHandled", c)>> = <<On("eventHandled", c)>>
        /\ <<On("shutdownInLoop", c)>> \o <<On("eventHandled", c)>>
              = <<On("shutdownInLoop", c), On("eventHandled", c)>>
        /\ <<On("shutdownInLoop", c)>> \o <<>> = <<On("shutdownInLoop", c)>>
    BY <2>2, <2>3, ShortSeqs, ConcatEmptySeq
  <2> QED
    BY <1>0, <1>2, <2>1, <2>4, ContinueStack
<1>5. Open(c)' /\ loop_'[c] = l0 /\ ~Erased(c)'
  BY <1>l, <1>2, <1>3 DEF Open, Erased, Begun
<1>6. StackOK(l0)'
  <2>1. Runs(l0, "shutdownInLoop", c)' /\ Runs(l0, "eventHandled", c)'
    BY <1>5 DEF Runs, Established
  <2> QED
    BY <1>4, <2>1 DEF StackOK, OwningCalls
<1>7. ConnOK(c)' /\ DestroyDue(c)'
  BY <1>2, <1>3, <1>5 DEF DestroyDue, ConnOK, LifeInv, Open
<1>8. \A d \in Conns \ {c} : SameConn(d)
  BY <1>3 DEF SameConn, Begun
<1>9. \A l \in Loops : Kept(l, c)
  BY <1>2, <1>3, <1>5, PhasesExclusive DEF Kept, Waits, Established
<1>10. \A l \in Loops \ {l0} : \A o : Runs(l, o, c) => Runs(l, o, c)'
  BY <1>l, <1>2, PhasesExclusive DEF Runs
<1> QED
  BY <1>0, <1>1, <1>2, <1>3, <1>4, <1>6, <1>7, <1>8, <1>9, <1>10, QuietCallStep

LEMMA RemoveLife ==
    ASSUME LifeInv, NEW c \in Conns, remove(c)
    PROVE  LifeInv'
<1>0. TypeOK
  BY DEF LifeInv
<1>l. PICK l0 \in Loops : l0 = loop_[c]
  BY <1>0 DEF TypeOK
<1>1. TypeOK'
  BY <1>0, ConnectionStepType DEF ConnectionStep
<1>2. /\ Tail(stack[l0]) = <<>> /\ Erased(c) /\ NotPosted(l0, c)
      /\ \A i \in DOMAIN stack[l0] : stack[l0][i].conn = c
  BY <1>l, AtCases DEF remove, InnerCalls, Runs
<1>3. /\ UNCHANGED <<connections_, loop_, nextConnId_, state_, events_, pending>>
      /\ addedToLoop_' = [addedToLoop_ EXCEPT ![c] = FALSE]
      /\ Continue(l0, <<>>)
  BY <1>l DEF remove, serverVars
<1>4. fault' = "none"
  <2>1. ~events_[c] /\ addedToLoop_[c]
    BY <1>2 DEF Erased
  <2> QED
    BY <2>1, Zenon DEF remove
<1>5. stack'[l0] = <<>> /\ \A k \in Loops \ {l0} : UNCHANGED stack[k]
  <2>1. <<>> \o <<>> = <<>>
    OBVIOUS
  <2> QED
    BY <1>0, <1>2, <1>3, <2>1, ContinueStack
<1>6. Gone(c)' /\ ~Erased(c)'
  BY <1>0, <1>2, <1>3 DEF Gone, Erased, Begun, TypeOK
<1>7. ConnOK(c)' /\ DestroyDue(c)' /\ StackOK(l0)'
  BY <1>2, <1>3, <1>5, <1>6 DEF ConnOK, DestroyDue, StackOK, LifeInv, Erased
<1>8. \A d \in Conns \ {c} : SameConn(d)
  BY <1>0, <1>3 DEF SameConn, Begun, TypeOK
<1>9. \A l \in Loops : Kept(l, c)
  BY <1>l, <1>2, <1>3, <1>6, NotPostedMeans, PhasesExclusive DEF Kept, Waits, Established
<1>10. \A l \in Loops \ {l0} : \A o : Runs(l, o, c) => Runs(l, o, c)'
  BY <1>l, <1>2, <1>3, <1>6, PhasesExclusive DEF Runs, Established, NotPosted, Spare
<1> QED
  BY <1>1, <1>2, <1>3, <1>4, <1>5, <1>7, <1>8, <1>9, <1>10, QuietCallStep

LEMMA HandleCloseLife ==
    ASSUME LifeInv, NEW c \in Conns, handleClose(c)
    PROVE  LifeInv'
<1>0. TypeOK
  BY DEF LifeInv
<1>l. PICK l0 \in Loops : l0 = loop_[c]
  BY <1>0 DEF TypeOK
<1>1. TypeOK'
  BY <1>0, ConnectionStepType DEF ConnectionStep
<1>2. /\ Tail(stack[l0]) = <<On("eventHandled", c)>> /\ Open(c)
      /\ \A i \in DOMAIN stack[l0] : stack[l0][i].conn = c
  BY <1>l, AtCases DEF handleClose, Runs, OwningCalls
<1>3. l0 # BaseLoop /\ BaseLoop \in Loops
  BY <1>l, <1>2, ServerAssumption DEF LifeInv, ConnOK, Open, Loops, BaseLoop
<1>4. /\ UNCHANGED <<connections_, loop_, nextConnId_>>
      /\ state_' = [state_ EXCEPT ![c] = "kDisconnected"]
      /\ events_' = [events_ EXCEPT ![c] = FALSE]
      /\ addedToLoop_' = [addedToLoop_ EXCEPT ![c] = TRUE]
      /\ fault' = "none"
  BY <1>2 DEF handleClose, disableAll, SetEvents, SetState, Assert, serverVars, Open
<1>5. /\ Continue(l0, <<>>)
      /\ pending' = [pending EXCEPT ![BaseLoop] = Append(@, On("removeConnectionInLoop", c))]
  BY <1>l, <1>3 DEF handleClose, RunInLoop
<1>6. /\ pending'[BaseLoop] = Append(pending[BaseLoop], On("removeConnectionInLoop", c))
      /\ \A l \in Loops \ {BaseLoop} : UNCHANGED pending[l]
  BY <1>0, <1>3, <1>5 DEF TypeOK
<1>7. stack'[l0] = <<On("eventHandled", c)>> /\ \A k \in Loops \ {l0} : UNCHANGED stack[k]
  <2>1. On("eventHandled", c) \in Call
    BY CallType DEF BareCalls
  <2>2. <<>> \o <<On("eventHandled", c)>> = <<On("eventHandled", c)>>
    BY <2>1, ShortSeqs
  <2> QED
    BY <1>0, <1>2, <1>5, <2>2, ContinueStack
<1>8. Closed(c)' /\ loop_'[c] = l0 /\ ~Erased(c)'
  BY <1>0, <1>l, <1>2, <1>4 DEF Open, Closed, Erased, Begun, TypeOK, Ended
<1>9. StackOK(l0)' /\ ConnOK(c)' /\ DestroyDue(c)'
  BY <1>3, <1>7, <1>8 DEF StackOK, Runs, ConnOK, DestroyDue
<1>10. \A d \in Conns \ {c} : SameConn(d)
  BY <1>0, <1>4 DEF SameConn, Begun, TypeOK
<1>11. \A l \in Loops : Kept(l, c)
  BY <1>2, <1>4, <1>8, PhasesExclusive DEF Kept, Waits, Established
<1>12. \A l \in Loops \ {l0} : \A o : Runs(l, o, c) => Runs(l, o, c)'
  BY <1>l, <1>2, PhasesExclusive DEF Runs
<1>13. NotPosted(BaseLoop, c) /\ Waits(BaseLoop, "removeConnectionInLoop", c)'
  BY <1>2, <1>3, <1>8, PostedPhase DEF Waits, BaseLoop
<1>14. \A l \in Loops : \/ UNCHANGED pending[l]
                        \/ /\ pending'[l] = Append(pending[l], On("removeConnectionInLoop", c))
                           /\ NotPosted(l, c) /\ Waits(l, "removeConnectionInLoop", c)'
  BY <1>6, <1>13
<1> QED
  BY <1>1, <1>2, <1>4, <1>7, <1>9, <1>10, <1>11, <1>12, <1>14, CallStep

(* The removal of a connection that is still in the map; ...               *)
LEMMA RemoveConnectionLife ==
    ASSUME LifeInv, NEW c \in Conns, c \in connections_, removeConnectionInLoop(c)
    PROVE  LifeInv'
<1>0. TypeOK /\ BaseLoop \in Loops
  BY ServerAssumption DEF LifeInv, Loops, BaseLoop
<1>l. PICK l1 \in Loops : l1 = loop_[c]
  BY <1>0 DEF TypeOK
<1>1. TypeOK'
  BY <1>0, ConnectionStepType DEF ConnectionStep
<1>2. /\ Tail(stack[BaseLoop]) = <<>> /\ Closed(c) /\ NotPosted(BaseLoop, c)
      /\ \A i \in DOMAIN stack[BaseLoop] : stack[BaseLoop][i].conn = c
  BY <1>0, AtCases DEF removeConnectionInLoop, Runs, InnerCalls, Erased, Gone
<1>3. l1 # BaseLoop
  BY <1>l, <1>2 DEF LifeInv, ConnOK, Closed
<1>4. /\ UNCHANGED <<loop_, nextConnId_, state_, events_, addedToLoop_>>
      /\ connections_' = connections_ \ {c}
      /\ fault' = "none"
  BY <1>2 DEF removeConnectionInLoop, erase, Assert, Closed, connVars, channelVars
<1>5. /\ Continue(BaseLoop, <<>>)
      /\ pending' = [pending EXCEPT ![l1] = Append(@, On("connectDestroyed", c))]
  BY <1>l, <1>3 DEF removeConnectionInLoop, destroyInLoop, RunInLoop
<1>6. /\ pending'[l1] = Append(pending[l1], On("connectDestroyed", c))
      /\ \A l \in Loops \ {l1} : UNCHANGED pending[l]
  BY <1>0, <1>5 DEF TypeOK
<1>7. stack'[BaseLoop] = <<>> /\ \A k \in Loops \ {BaseLoop} : UNCHANGED stack[k]
  <2>1. <<>> \o <<>> = <<>>
    OBVIOUS
  <2> QED
    BY <1>0, <1>2, <1>5, <2>1, ContinueStack
<1>8. Erased(c)' /\ loop_'[c] = l1
  BY <1>l, <1>2, <1>4 DEF Closed, Erased, Begun
<1>9. DestroyDue(c)'
  <2>1. pending[l1] \in Seq(Call)
    BY <1>0 DEF TypeOK
  <2>2. Len(pending[l1]) + 1 \in DOMAIN pending'[l1]
        /\ pending'[l1][Len(pending[l1]) + 1] = On("connectDestroyed", c)
    BY <1>6, <2>1
  <2> QED
    BY <2>2 DEF DestroyDue, Called
<1>10. StackOK(BaseLoop)' /\ ConnOK(c)'
  BY <1>3, <1>7, <1>8 DEF StackOK, ConnOK
<1>11. \A d \in Conns \ {c} : SameConn(d)
  BY <1>4 DEF SameConn, Begun
<1>12. \A l \in Loops : Kept(l, c)
  BY <1>2, <1>4, <1>8, PhasesExclusive DEF Kept, Waits, Established
<1>13. \A l \in Loops \ {BaseLoop} : \A o : Runs(l, o, c) => Runs(l, o, c)'
  BY <1>l, <1>2, <1>4, <1>8, PhasesExclusive DEF Runs, Established
<1>14. NotPosted(l1, c) /\ Waits(l1, "connectDestroyed", c)'
  BY <1>2, <1>3, <1>8, PostedPhase DEF Waits
<1>15. \A l \in Loops : \/ UNCHANGED pending[l]
                        \/ /\ pending'[l] = Append(pending[l], On("connectDestroyed", c))
                           /\ NotPosted(l, c) /\ Waits(l, "connectDestroyed", c)'
  BY <1>6, <1>14
<1>16. PICK l0 \in Loops : l0 = BaseLoop
  BY <1>0
<1> QED
  BY <1>1, <1>2, <1>4, <1>7, <1>9, <1>10, <1>11, <1>12, <1>13, <1>15, <1>16, CallStep

(* ... that of one which has left it fails the assertion on erase.         *)
LEMMA RemovedTwice ==
    ASSUME NEW c \in Conns, c \notin connections_, removeConnectionInLoop(c)
    PROVE  fault' = "TcpServer:76"
BY DEF removeConnectionInLoop, erase, Assert

LEMMA HandleEventLife ==
    ASSUME LifeInv, NEW c \in Conns, handleEvent(c)
    PROVE  LifeInv'
<1>0. TypeOK
  BY DEF LifeInv
<1>l. PICK l0 \in Loops : l0 = loop_[c]
  BY <1>0 DEF TypeOK
<1>1. TypeOK'
  BY <1>0, TypeOKStep DEF AllSteps, Next
<1>2. Open(c)
  <2>1. ConnOK(c) /\ events_[c]
    BY DEF LifeInv, handleEvent
  <2> QED
    BY <2>1 DEF ConnOK, Fresh, Accepted, Closed, Erased, Gone
<1>3. /\ UNCHANGED <<connections_, loop_, nextConnId_, connVars, pending, fault>>
      /\ stack[l0] = <<>>
  BY <1>l DEF handleEvent, serverVars, InLoop
<1>4. /\ stack'[l0] = <<On("handleRead", c), On("eventHandled", c)>>
      /\ \A k \in Loops \ {l0} : UNCHANGED stack[k]
  <2>1. PICK r \in Revents(c) : stack' = [stack EXCEPT ![l0] = Callbacks(c, r)]
    BY <1>l DEF handleEvent
  <2> QED
    BY <1>0, <2>1, CallbacksOfEvent DEF TypeOK
<1>5. Open(c)' /\ loop_'[c] = l0 /\ ~Erased(c)'
  BY <1>l, <1>2, <1>3 DEF Open, Erased, Begun, connVars, channelVars
<1>6. StackOK(l0)' /\ DestroyDue(c)'
  BY <1>4, <1>5 DEF StackOK, Runs, DestroyDue
<1>7. \A i \in DOMAIN stack[l0] : stack[l0][i].conn = c
  BY <1>3
<1> QED
  BY <1>1, <1>3, <1>4, <1>6, <1>7, MoveStep

(* A thread takes the first functor of its queue: the functor becomes the  *)
(* call under way, and no other functor there is about its connection.     *)
LEMMA RunFunctorLife ==
    ASSUME LifeInv, NEW l \in Loops, RunFunctor(l)
    PROVE  LifeInv'
<1>0. TypeOK /\ PendingOK(l) /\ \A k \in Loops : StackOK(k) /\ PendingOK(k)
  BY DEF LifeInv
<1>1. TypeOK'
  BY <1>0, TypeOKStep DEF AllSteps, Next
<1>2. /\ UNCHANGED <<connections_, loop_, nextConnId_, state_, events_, addedToLoop_, fault>>
      /\ stack[l] = <<>> /\ stack'[l] = <<Head(pending[l])>> /\ pending'[l] = Tail(pending[l])
      /\ \A k \in Loops \ {l} : UNCHANGED stack[k] /\ UNCHANGED pending[k]
  BY <1>0 DEF RunFunctor, serverVars, connVars, channelVars, InLoop, TypeOK
<1>3. pending[l] \in Seq(Call) /\ pending[l] # <<>> /\ Len(pending[l]) \in Nat \ {0}
  <2>1. pending[l] \in Seq(Call) /\ pending[l] # <<>>
    BY <1>0 DEF RunFunctor, TypeOK
  <2> QED
    BY <2>1, EmptySeq, LenProperties
<1>4. /\ 1 \in DOMAIN pending[l] /\ Head(pending[l]) = pending[l][1]
      /\ \A i \in DOMAIN pending'[l] : i + 1 \in DOMAIN pending[l] /\ i + 1 # 1
                                       /\ pending'[l][i] = pending[l][i + 1]
      /\ \A i \in DOMAIN pending[l] : i # 1 => i - 1 \in DOMAIN pending'[l]
                                               /\ pending'[l][i - 1] = pending[l][i]
  BY <1>2, <1>3
<1>5. PICK call \in Call : call = pending[l][1]
  BY <1>0, <1>4, PostedType
<1>6. PICK c \in Conns, op \in BareCalls \cup OwningCalls : call = On(op, c)
  BY DEF Call, On
<1>7. On(op, c).op = op /\ On(op, c).conn = c
  BY DEF On
<1>8. Waits(l, op, c)
  BY <1>0, <1>4, <1>5, <1>6, <1>7 DEF PendingOK
<1>9. \A d \in Conns : SameConn(d)
  BY <1>2 DEF SameConn, Begun
<1>s. /\ \A i \in DOMAIN pending'[l] : Spare(pending[l][i])' <=> Spare(pending[l][i + 1])
      /\ \A k \in Loops \ {l} : \A i \in DOMAIN pending[k] :
            Spare(pending[k][i])' <=> Spare(pending[k][i])
  BY <1>2, <1>4 DEF Spare
<1>10. /\ ~Spare(On(op, c)) => NotPosted(l, c)'
       /\ \A k \in Loops : \A d \in Conns : NotPosted(k, d) => NotPosted(k, d)'
  <2>1. ASSUME ~Spare(On(op, c)), NEW i \in DOMAIN pending'[l], pending'[l][i].conn = c
        PROVE  Spare(pending[l][i])'
    <3>1. i + 1 \in DOMAIN pending[l] /\ i + 1 # 1 /\ pending[l][i + 1].conn = c
      BY <1>4, <2>1
    <3>2. ~Spare(pending[l][1]) /\ pending[l][1].conn = c
      BY <1>5, <1>6, <1>7, <2>1
    <3>3. Spare(pending[l][i + 1])
      BY <1>0, <1>4, <3>1, <3>2 DEF PendingOK
    <3> QED
      BY <1>s, <3>3
  <2>2. ASSUME NEW k \in Loops, NEW d \in Conns, NotPosted(k, d)
        PROVE  NotPosted(k, d)'
    <3>1. CASE k = l
      BY <1>4, <1>s, <2>2, <3>1 DEF NotPosted
    <3>2. CASE k # l
      BY <1>2, <1>s, <2>2, <3>2 DEF NotPosted
    <3> QED
      BY <3>1, <3>2
  <2> QED
    BY <2>1, <2>2 DEF NotPosted
<1>11. \A k \in Loops : \A d \in Conns : \A o : Waits(k, o, d) => Waits(k, o, d)'
  BY <1>9, SamePhase DEF Waits, SameConn
<1>12. ASSUME NEW k \in Loops
       PROVE  PendingOK(k)'
  <2>1. CASE k # l
    BY <1>0, <1>2, <1>9, <2>1, PendingFrame, SameKept
  <2>2. CASE k = l
    <3>1. \A i \in DOMAIN pending[l] : pending[l][i].conn \in Conns
      BY <1>0, PostedType
    <3>2. \A i \in DOMAIN pending'[l] : Waits(l, pending[l][i].op, pending[l][i].conn)'
      BY <1>0, <1>4, <1>11, <3>1 DEF PendingOK
    <3>3. \A i, j \in DOMAIN pending'[l] : i \in Int /\ j \in Int
      BY <1>1, LenProperties DEF TypeOK
    <3>4. ASSUME NEW i \in DOMAIN pending'[l], NEW j \in DOMAIN pending'[l],
                 pending'[l][i].conn = pending'[l][j].conn,
                 ~Spare(pending[l][i])', ~Spare(pending[l][j])'
          PROVE  i + 1 = j + 1
      <4>1. ~Spare(pending[l][i + 1]) /\ ~Spare(pending[l][j + 1])
        BY <1>s, <3>4
      <4> QED
        BY <1>0, <1>4, <3>4, <4>1 DEF PendingOK
    <3> QED
      BY <2>2, <3>2, <3>3, <3>4 DEF PendingOK
  <2> QED
    BY <2>1, <2>2
<1>13. ASSUME NEW k \in Loops
       PROVE  StackOK(k)'
  <2>1. CASE k # l
    <3>1. \A d \in Conns : \A o : Runs(k, o, d) => Runs(k, o, d)'
      BY <1>9, <1>10, SamePhase DEF Runs, SameConn
    <3> QED
      BY <1>0, <1>2, <2>1, <3>1, StackFrame
  <2>2. CASE k = l
    <3>1. Waits(l, op, c)'
      BY <1>8, <1>11
    <3>2. Runs(l, op, c)' /\ op \in OwningCalls
      <4>1. CASE op = "shutdownInLoop"
        BY <3>1, <4>1 DEF Waits, Runs, OwningCalls
      <4>2. CASE op = "removeConnectionInLoop" /\ c \notin connections_
        BY <1>2, <3>1, <4>2 DEF Waits, Runs, OwningCalls, Closed
      <4>3. CASE ~(op = "shutdownInLoop") /\ ~(op = "removeConnectionInLoop" /\ c \notin connections_)
        <5>1. NotPosted(l, c)'
          BY <1>7, <1>10, <4>3 DEF Spare
        <5> QED
          BY <3>1, <4>3, <5>1 DEF Waits, Runs, OwningCalls
      <4> QED
        BY <4>1, <4>2, <4>3
    <3>3. stack'[l] = <<On(op, c)>>
      BY <1>2, <1>4, <1>5, <1>6
    <3> QED
      BY <2>2, <3>2, <3>3 DEF StackOK
  <2> QED
    BY <2>1, <2>2
<1>14. ASSUME NEW d \in Conns
       PROVE  ConnOK(d)' /\ DestroyDue(d)'
  <2>1. ASSUME NEW o, Called(o, d)
        PROVE  Called(o, d)'
    <3>1. PICK k \in Loops : \/ \E i \in DOMAIN pending[k] : pending[k][i] = On(o, d)
                             \/ \E i \in DOMAIN stack[k] : stack[k][i] = On(o, d)
      BY <2>1 DEF Called
    <3>2. CASE k # l
      BY <1>2, <3>1, <3>2 DEF Called
    <3>3. CASE k = l
      <4>1. stack[k] = <<>>
        BY <1>2, <3>3
      <4>2. PICK i \in DOMAIN pending[l] : pending[l][i] = On(o, d)
        BY <3>1, <3>3, <4>1
      <4>3. CASE i = 1
        <5>1. 1 \in DOMAIN stack'[l] /\ stack'[l][1] = On(o, d)
          BY <1>2, <1>4, <4>2, <4>3
        <5> QED
          BY <5>1 DEF Called
      <4>4. CASE i # 1
        BY <1>4, <4>2, <4>4 DEF Called
      <4> QED
        BY <4>3, <4>4
    <3> QED
      BY <3>2, <3>3
  <2>2. ConnOK(d) /\ DestroyDue(d)
    BY DEF LifeInv
  <2>3. SameConn(d)
    BY <1>9
  <2> QED
    BY <2>1, <2>2, <2>3, SamePhase DEF DestroyDue
<1>15. fault' = "none"
  BY <1>2 DEF LifeInv
<1> QED
  BY <1>1, <1>12, <1>13, <1>14, <1>15 DEF LifeInv

(* Acceptance: the connection enters the map and its loop's queue in one   *)
(* step of the base loop.  Without io loops the base loop goes on with     *)
(* everything at once, and a connection can be freed in its own handler:   *)
(* hence the hypothesis on ThreadNum.                                      *)
LEMMA NewConnectionLife ==
    ASSUME LifeInv, ThreadNum > 0, newConnection
    PROVE  LifeInv'
<1>0. TypeOK /\ BaseLoop \in Loops
  BY ServerAssumption DEF LifeInv, Loops, BaseLoop
<1>1. TypeOK'
  BY <1>0, TypeOKStep DEF AllSteps, Next
<1>2. PICK c \in Conns : c = nextConnId_
  BY <1>0, ServerAssumption DEF newConnection, TypeOK, Conns
<1>3. PICK l1 \in Loops : l1 = getNextLoop /\ l1 # BaseLoop
  BY <1>0, ServerAssumption DEF TypeOK, getNextLoop, Loops, BaseLoop
<1>4. c \in Nat /\ \A d \in Conns : d \in Nat
  BY ServerAssumption DEF Conns
<1>5. Fresh(c)
  <2>1. ~Begun(c) /\ ConnOK(c)
    BY <1>2, <1>4 DEF Begun, LifeInv
  <2> QED
    BY <2>1 DEF ConnOK, Accepted, Open, Closed, Erased, Gone
<1>6. /\ nextConnId_' = nextConnId_ + 1 /\ connections_' = connections_ \cup {c}
      /\ state_' = [state_ EXCEPT ![c] = "kConnecting"]
      /\ loop_' = [loop_ EXCEPT ![c] = l1]
      /\ UNCHANGED <<events_, addedToLoop_, stack, fault>>
      /\ pending' = [pending EXCEPT ![l1] = Append(@, On("connectEstablished", c))]
  BY <1>2, <1>3 DEF newConnection, SetState, channelVars
<1>7. /\ pending'[l1] = Append(pending[l1], On("connectEstablished", c))
      /\ \A l \in Loops \ {l1} : UNCHANGED pending[l]
  BY <1>0, <1>6 DEF TypeOK
<1>8. Accepted(c)' /\ loop_'[c] = l1 /\ ~Erased(c)'
  BY <1>0, <1>2, <1>4, <1>5, <1>6 DEF Fresh, Accepted, Erased, Begun, TypeOK
<1>9. ConnOK(c)' /\ DestroyDue(c)'
  BY <1>3, <1>8 DEF ConnOK, DestroyDue
<1>10. \A d \in Conns \ {c} : SameConn(d)
  <2>1. \A d \in Conns \ {c} : Begun(d)' <=> Begun(d)
    BY <1>2, <1>4, <1>6 DEF Begun
  <2> QED
    BY <1>0, <1>6, <2>1 DEF SameConn, TypeOK
<1>11. \A l \in Loops : Kept(l, c)
  <2>1. \A l \in Loops : \A op : ~Waits(l, op, c)
    BY <1>5, PhasesExclusive DEF Waits, Established
  <2>2. \A l \in Loops : \A op : ~Posted(l, op, c)
    BY <2>1 DEF LifeInv, PendingOK, Posted
  <2> QED
    BY <2>2 DEF Kept
<1>12. NotPosted(l1, c) /\ Waits(l1, "connectEstablished", c)'
  BY <1>5, <1>8, PostedPhase DEF Waits
<1>13. \A l \in Loops : \/ UNCHANGED pending[l]
                        \/ /\ pending'[l] = Append(pending[l], On("connectEstablished", c))
                           /\ NotPosted(l, c) /\ Waits(l, "connectEstablished", c)'
  BY <1>7, <1>12
<1>14. PICK l0 \in Loops : l0 = BaseLoop /\ stack[l0] = <<>> /\ stack'[l0] = <<>>
  BY <1>0, <1>6 DEF newConnection, InLoop
<1>15. StackOK(l0)' /\ \A i \in DOMAIN stack[l0] : stack[l0][i].conn = c
  BY <1>14 DEF StackOK
<1>16. \A l \in Loops \ {l0} : \A o : Runs(l, o, c) => Runs(l, o, c)'
  BY <1>5, PhasesExclusive DEF Runs, Established
<1>17. fault' = "none" /\ \A l \in Loops \ {l0} : UNCHANGED stack[l]
  BY <1>6 DEF LifeInv
<1> QED
  BY <1>1, <1>9, <1>10, <1>11, <1>13, <1>15, <1>16, <1>17, CallStep

(* Every step but the removal of a connection that has left the map.       *)
LEMMA NextLife ==
    ASSUME LifeInv, ThreadNum > 0, [Next]_vars,
           \A c \in Conns : removeConnectionInLoop(c) => c \in connections_
    PROVE  LifeInv'
<1>0. TypeOK /\ fault = "none"
  BY DEF LifeInv
<1>1. TypeOK'
  BY <1>0, TypeOKStep DEF AllSteps
<1>2. CASE start
  <2>1. UNCHANGED <<connections_, loop_, nextConnId_, connVars, pending, stack, fault>>
    BY <1>0, <1>2 DEF start, poolStart, Assert
  <2> QED
    BY <1>1, <2>1, IdleStep
<1>3. CASE acceptFails \/ UNCHANGED vars
  BY <1>1, <1>3, IdleStep DEF acceptFails, vars, serverVars, outside
<1>4. ASSUME NEW c \in Conns, NEW how \in {"closed", "reset"}, peerLeaves(c, how)
      PROVE  LifeInv'
  BY <1>1, <1>4, IdleStep DEF peerLeaves, serverVars
<1>5. ASSUME NEW c \in Conns, ConnectionStep(c)
      PROVE  LifeInv'
  <2>1. removeConnectionInLoop(c) => c \in connections_
    OBVIOUS
  <2> QED
    BY <1>5, <2>1, EstablishedLife, HandleReadLife, HandleCloseLife, EventHandledLife,
       DestroyedLife, RemoveLife, RemoveConnectionLife, ShutdownLife, ShutdownInLoopLife
    DEF ConnectionStep
<1> QED
  BY <1>2, <1>3, <1>4, <1>5, NewConnectionLife, RunFunctorLife, HandleEventLife DEF Next

-----------------------------------------------------------------------------
(* Without threads of the application.                                     *)

LEMMA UnracedInit == Init => Unraced
<1> SUFFICES ASSUME Init, NEW c \in Conns
             PROVE  state_[c] # "kDisconnecting" /\ ~Removing(c)
  BY DEF Unraced
<1>1. BaseLoop \in Loops
  BY ServerAssumption DEF Loops, BaseLoop
<1>2. pending[BaseLoop] = <<>> /\ stack[BaseLoop] = <<>> /\ state_[c] = "none"
  BY <1>1 DEF Init
<1>3. <<>> # <<On("removeConnectionInLoop", c)>>
  OBVIOUS
<1> QED
  BY <1>2, <1>3 DEF Removing, Posted

LEMMA UnracedFrame ==
    ASSUME Unraced, UNCHANGED <<pending[BaseLoop], stack[BaseLoop]>>,
           connections_ \subseteq connections_',
           \A c \in Conns : state_'[c] = "kDisconnecting" => events_'[c]
    PROVE  Unraced'
<1>1. \A c \in Conns : Removing(c)' <=> Removing(c)
  BY DEF Removing, Posted
<1> QED
  BY <1>1 DEF Unraced

(* The calls on a connection but removeConnectionInLoop are made in its    *)
(* own loop, which is not the base loop.                                   *)
LEMMA AtOwnLoop ==
    ASSUME LifeInv, NEW c \in Conns, NEW op, op # "removeConnectionInLoop", At(loop_[c], op, c)
    PROVE  /\ loop_[c] # BaseLoop /\ loop_[c] \in Loops /\ BaseLoop \in Loops
           /\ Runs(loop_[c], op, c)
<1>1. loop_[c] \in Loops /\ BaseLoop \in Loops
  BY ServerAssumption DEF LifeInv, TypeOK, Loops, BaseLoop
<1>2. PICK l0 \in Loops : l0 = loop_[c]
  BY <1>1
<1>3. Runs(l0, op, c)
  BY <1>2, AtCases
<1>4. Begun(c)
  BY <1>3 DEF Runs, Established, Accepted, Open, Closed, Erased, Gone
<1> QED
  BY <1>1, <1>2, <1>3, <1>4 DEF LifeInv, ConnOK

(* A step of the thread of loop l # BaseLoop that posts nothing.           *)
LEMMA UnracedElsewhere ==
    ASSUME TypeOK, Unraced, NEW l \in Loops, l # BaseLoop, BaseLoop \in Loops, NEW next,
           Continue(l, next), UNCHANGED <<pending, connections_>>,
           \A c \in Conns : state_'[c] = "kDisconnecting" => events_'[c]
    PROVE  Unraced'
<1>1. UNCHANGED stack[BaseLoop]
  BY ContinueStack
<1> QED
  BY <1>1, UnracedFrame

LEMMA UnracedConnectionStep ==
    ASSUME LifeInv, Unraced, NEW c \in Conns, ConnectionStep(c)
    PROVE  Unraced'
<1>0. /\ TypeOK /\ BaseLoop \in Loops /\ loop_[c] \in Loops
      /\ \A d \in Conns : state_[d] = "kDisconnecting" => events_[d]
  BY ServerAssumption DEF LifeInv, Loops, BaseLoop, Unraced, TypeOK
<1>1. CASE connectEstablished(c)
  <2>1. loop_[c] # BaseLoop
    BY <1>1, AtOwnLoop DEF connectEstablished
  <2>2. PICK calls : Continue(loop_[c], calls)
    BY <1>1 DEF connectEstablished
  <2>3. \A d \in Conns : state_'[d] = "kDisconnecting" => events_'[d]
    BY <1>0, <1>1 DEF connectEstablished, SetState, SetEvents, TypeOK
  <2> QED
    BY <1>0, <1>1, <2>1, <2>2, <2>3, UnracedElsewhere DEF connectEstablished, serverVars
<1>2. CASE handleRead(c)
  <2>1. loop_[c] # BaseLoop
    BY <1>2, AtOwnLoop DEF handleRead
  <2>2. PICK calls : Continue(loop_[c], calls)
    BY <1>2 DEF handleRead
  <2>3. UNCHANGED <<state_, events_, pending, connections_>>
    BY <1>2 DEF handleRead, connVars, channelVars, serverVars
  <2> QED
    BY <1>0, <2>1, <2>2, <2>3, UnracedElsewhere
<1>3. CASE eventHandled(c) \/ shutdownInLoop(c) \/ remove(c)
  <2>1. loop_[c] # BaseLoop
    BY <1>3, AtOwnLoop DEF eventHandled, shutdownInLoop, remove
  <2>2. Continue(loop_[c], <<>>) /\ UNCHANGED <<state_, events_, pending, connections_>>
    BY <1>3 DEF eventHandled, shutdownInLoop, remove, connVars, channelVars, serverVars
  <2> QED
    BY <1>0, <2>1, <2>2, UnracedElsewhere
<1>4. CASE shutdown(c)
  <2>1. loop_[c] # BaseLoop /\ Open(c)
    <3>1. loop_[c] # BaseLoop /\ Runs(loop_[c], "shutdown", c)
      BY <1>4, AtOwnLoop DEF shutdown
    <3> QED
      BY <3>1 DEF Runs
  <2>2. PICK calls : Continue(loop_[c], calls)
    BY <1>4 DEF shutdown
  <2>3. UNCHANGED <<events_, pending, connections_>>
    BY <1>4 DEF shutdown, channelVars, serverVars
  <2>4. \A d \in Conns : state_'[d] = "kDisconnecting" => events_'[d]
    BY <1>0, <1>4, <2>1, <2>3 DEF shutdown, SetState, Open, TypeOK
  <2> QED
    BY <1>0, <2>1, <2>2, <2>3, <2>4, UnracedElsewhere
<1>5. CASE connectDestroyed(c)
  <2>1. loop_[c] # BaseLoop /\ Erased(c)
    BY <1>5, AtOwnLoop DEF connectDestroyed, Runs
  <2>2. state_[c] = "kDisconnected"
    BY <1>0, <2>1 DEF Erased, Ended
  <2>3. /\ Continue(loop_[c], <<On("remove", c)>>)
        /\ UNCHANGED <<state_, events_, pending, connections_>>
    BY <1>5, <2>2 DEF connectDestroyed, connVars, channelVars, serverVars
  <2> QED
    BY <1>0, <2>1, <2>3, UnracedElsewhere
<1>6. CASE handleClose(c)
  <2>1. loop_[c] # BaseLoop /\ Open(c)
    <3>1. loop_[c] # BaseLoop /\ Runs(loop_[c], "handleClose", c)
      BY <1>6, AtOwnLoop DEF handleClose
    <3> QED
      BY <3>1 DEF Runs
  <2>2. /\ Continue(loop_[c], <<>>) /\ UNCHANGED connections_
        /\ pending' = [pending EXCEPT ![BaseLoop] = Append(@, On("removeConnectionInLoop", c))]
    BY <1>6, <2>1 DEF handleClose, RunInLoop, serverVars
  <2>3. /\ UNCHANGED stack[BaseLoop]
        /\ pending'[BaseLoop] = Append(pending[BaseLoop], On("removeConnectionInLoop", c))
        /\ pending[BaseLoop] \in Seq(Call)
    BY <1>0, <2>1, <2>2, ContinueStack DEF TypeOK
  <2>4. On("removeConnectionInLoop", c).conn = c
    BY DEF On
  <2>5. ASSUME NEW d \in Conns, Removing(d)'
        PROVE  d \in connections_'
    <3>1. CASE stack'[BaseLoop] = <<On("removeConnectionInLoop", d)>>
      <4>1. Removing(d)
        BY <2>3, <3>1 DEF Removing
      <4> QED
        BY <2>2, <4>1 DEF Unraced
    <3>2. ASSUME NEW i \in DOMAIN pending'[BaseLoop],
                 pending'[BaseLoop][i].op = "removeConnectionInLoop",
                 pending'[BaseLoop][i].conn = d
          PROVE  d \in connections_'
      <4>1. CASE i \in DOMAIN pending[BaseLoop]
        <5>1. pending[BaseLoop][i] = pending'[BaseLoop][i]
          BY <2>3, <4>1
        <5>2. Removing(d)
          BY <3>2, <4>1, <5>1 DEF Removing, Posted
        <5> QED
          BY <2>2, <5>2 DEF Unraced
      <4>2. CASE i \notin DOMAIN pending[BaseLoop]
        <5>1. pending'[BaseLoop][i] = On("removeConnectionInLoop", c)
          BY <2>3, <4>2
        <5>2. d = c
          BY <2>4, <3>2, <5>1
        <5> QED
          BY <2>1, <2>2, <5>2 DEF Open
      <4> QED
        BY <4>1, <4>2
    <3> QED
      BY <2>5, <3>1, <3>2 DEF Removing, Posted
  <2>6. \A d \in Conns : state_'[d] = "kDisconnecting" => events_'[d]
    BY <1>0, <1>6 DEF handleClose, SetState, disableAll, SetEvents, TypeOK
  <2> QED
    BY <2>5, <2>6 DEF Unraced
<1>7. CASE removeConnectionInLoop(c)
  <2>1. At(BaseLoop, "removeConnectionInLoop", c)
    BY <1>7 DEF removeConnectionInLoop
  <2>2. PICK l0 \in Loops : l0 = BaseLoop
    BY <1>0
  <2>3. /\ Runs(l0, "removeConnectionInLoop", c) /\ Tail(stack[l0]) = <<>>
        /\ stack[l0] = <<On("removeConnectionInLoop", c)>>
    BY <2>1, <2>2, AtCases DEF InnerCalls
  <2>4. c \in connections_
    BY <2>2, <2>3 DEF Removing, Unraced
  <2>5. NotPosted(l0, c)
    BY <2>3, <2>4 DEF Runs, Erased, Gone
  <2>6. /\ ~Posted(l0, "removeConnectionInLoop", c) /\ loop_[c] # BaseLoop
    BY <2>3, <2>4, <2>5, NotPostedMeans DEF LifeInv, ConnOK, Runs, Closed, Erased, Gone
  <2>7. /\ Continue(l0, <<>>) /\ connections_' = connections_ \ {c}
        /\ pending' = [pending EXCEPT ![loop_[c]] = Append(@, On("connectDestroyed", c))]
        /\ UNCHANGED <<state_, events_>>
    BY <1>7, <2>2, <2>6 DEF removeConnectionInLoop, destroyInLoop, RunInLoop, erase, connVars,
       channelVars
  <2>8. stack'[l0] = <<>> /\ pending'[l0] = pending[l0]
    <3>1. <<>> \o <<>> = <<>>
      OBVIOUS
    <3>2. stack'[l0] = <<>> \o <<>>
      BY <1>0, <2>3, <2>7, ContinueStack
    <3>3. pending'[l0] = pending[l0]
      BY <1>0, <2>2, <2>6, <2>7 DEF TypeOK
    <3> QED
      BY <3>1, <3>2, <3>3
  <2>9. ASSUME NEW d \in Conns, Removing(d)'
        PROVE  d \in connections_'
    <3>1. <<>> # <<On("removeConnectionInLoop", d)>>
      OBVIOUS
    <3>2. Posted(l0, "removeConnectionInLoop", d)
      BY <2>2, <2>8, <2>9, <3>1 DEF Removing, Posted
    <3>3. d # c /\ d \in connections_
      BY <2>2, <2>6, <3>2 DEF Unraced, Removing
    <3> QED
      BY <2>7, <3>3
  <2> QED
    BY <1>0, <2>7, <2>9 DEF Unraced
<1> QED
  BY <1>1, <1>2, <1>3, <1>4, <1>5, <1>6, <1>7 DEF ConnectionStep

LEMMA UnracedStep ==
    ASSUME LifeInv, Unraced, ThreadNum > 0, [Next]_vars
    PROVE  Unraced'
<1>0. /\ TypeOK /\ BaseLoop \in Loops
      /\ \A d \in Conns : state_[d] = "kDisconnecting" => events_[d]
  BY ServerAssumption DEF LifeInv, Loops, BaseLoop, Unraced
<1>1. CASE UNCHANGED <<connections_, state_, events_, pending, stack>>
  BY <1>0, <1>1, UnracedFrame
<1>2. CASE start \/ acceptFails \/ UNCHANGED vars
  BY <1>1, <1>2 DEF start, acceptFails, vars, serverVars, connVars, channelVars
<1>3. ASSUME NEW c \in Conns, NEW how, peerLeaves(c, how)
      PROVE  Unraced'
  BY <1>1, <1>3 DEF peerLeaves, serverVars, connVars, channelVars
<1>4. CASE newConnection
  <2>1. getNextLoop # BaseLoop
    BY <1>0, ServerAssumption DEF TypeOK, getNextLoop, BaseLoop
  <2>2. /\ UNCHANGED <<stack, events_>> /\ connections_ \subseteq connections_'
        /\ pending' = [pending EXCEPT ![getNextLoop] = Append(@, On("connectEstablished", nextConnId_))]
        /\ state_' = [state_ EXCEPT ![nextConnId_] = "kConnecting"]
    BY <1>4, <2>1 DEF newConnection, channelVars, SetState
  <2>3. UNCHANGED pending[BaseLoop]
    BY <1>0, <2>1, <2>2 DEF TypeOK
  <2>4. \A d \in Conns : state_'[d] = "kDisconnecting" => events_'[d]
    BY <1>0, <2>2 DEF TypeOK
  <2> QED
    BY <2>2, <2>3, <2>4, UnracedFrame
<1>5. ASSUME NEW c \in Conns, handleEvent(c)
      PROVE  Unraced'
  <2>1. Begun(c)
    BY <1>5 DEF handleEvent, LifeInv, ConnOK, Fresh, Accepted, Open, Closed, Erased, Gone
  <2>2. loop_[c] # BaseLoop
    BY <2>1 DEF LifeInv, ConnOK
  <2>3. UNCHANGED <<stack[BaseLoop], pending, connections_, state_, events_>>
    BY <1>0, <1>5, <2>2 DEF handleEvent, serverVars, connVars, channelVars, TypeOK
  <2> QED
    BY <1>0, <2>3, UnracedFrame
<1>6. ASSUME NEW l \in Loops, RunFunctor(l)
      PROVE  Unraced'
  <2>1. /\ UNCHANGED <<connections_, state_, events_>> /\ pending[l] # <<>>
        /\ stack' = [stack EXCEPT ![l] = <<Head(pending[l])>>]
        /\ pending' = [pending EXCEPT ![l] = Tail(@)]
    BY <1>6 DEF RunFunctor, serverVars, connVars, channelVars
  <2>2. CASE l # BaseLoop
    <3>1. UNCHANGED <<stack[BaseLoop], pending[BaseLoop]>>
      BY <1>0, <2>1, <2>2 DEF TypeOK
    <3> QED
      BY <1>0, <2>1, <3>1, UnracedFrame
  <2>3. CASE l = BaseLoop
    <3>1. /\ pending[BaseLoop] \in Seq(Call) /\ pending[BaseLoop] # <<>>
          /\ stack'[BaseLoop] = <<Head(pending[BaseLoop])>>
          /\ pending'[BaseLoop] = Tail(pending[BaseLoop])
      BY <1>0, <2>1, <2>3 DEF TypeOK
    <3>2. /\ 1 \in DOMAIN pending[BaseLoop] /\ Head(pending[BaseLoop]) = pending[BaseLoop][1]
          /\ \A i \in DOMAIN pending'[BaseLoop] :
                /\ i + 1 \in DOMAIN pending[BaseLoop]
                /\ pending'[BaseLoop][i] = pending[BaseLoop][i + 1]
      <4>1. Len(pending[BaseLoop]) \in Nat \ {0}
        BY <3>1, EmptySeq, LenProperties
      <4> QED
        BY <3>1, <4>1
    <3>3. ASSUME NEW d \in Conns, Removing(d)'
          PROVE  Posted(BaseLoop, "removeConnectionInLoop", d)
      <4>1. CASE stack'[BaseLoop] = <<On("removeConnectionInLoop", d)>>
        <5>1. pending[BaseLoop][1] = On("removeConnectionInLoop", d)
          BY <3>1, <3>2, <4>1
        <5>2. /\ On("removeConnectionInLoop", d).op = "removeConnectionInLoop"
              /\ On("removeConnectionInLoop", d).conn = d
          BY DEF On
        <5> QED
          BY <3>2, <5>1, <5>2 DEF Posted
      <4>2. CASE Posted(BaseLoop, "removeConnectionInLoop", d)'
        BY <3>2, <4>2 DEF Posted
      <4> QED
        BY <3>3, <4>1, <4>2 DEF Removing
    <3> QED
      BY <1>0, <2>1, <3>3 DEF Unraced, Removing
  <2> QED
    BY <2>2, <2>3
<1> QED
  BY <1>2, <1>3, <1>4, <1>5, <1>6, UnracedConnectionStep DEF Next

LEMMA LifeInvStep ==
    ASSUME LifeInv, Unraced, ThreadNum > 0, [Next]_vars
    PROVE  LifeInv'
<1>1. ASSUME NEW c \in Conns, removeConnectionInLoop(c)
      PROVE  c \in connections_
  <2>1. PICK l0 \in Loops : l0 = BaseLoop
    BY ServerAssumption DEF Loops, BaseLoop
  <2>2. stack[l0] = <<On("removeConnectionInLoop", c)>>
    BY <1>1, <2>1, AtCases DEF removeConnectionInLoop, InnerCalls
  <2> QED
    BY <2>1, <2>2 DEF Unraced, Removing
<1> QED
  BY <1>1, NextLife

LEMMA LifeInvHolds ==
    ASSUME ThreadNum > 0
    PROVE  Spec => [](LifeInv /\ Unraced)
<1>1. LifeInv /\ Unraced /\ [Next]_vars => LifeInv' /\ Unraced'
  BY LifeInvStep, UnracedStep
<1> QED
  BY <1>1, LifeInvInit, UnracedInit, PTL DEF Spec

-----------------------------------------------------------------------------
(* With threads of the application that call shutdown().                   *)

(* A connection that was established stays so.                             *)
AtLeastConnected == {"kConnected", "kDisconnecting", "kDisconnected"}

LEMMA StaysEstablished ==
    ASSUME LifeInv, [AllSteps]_vars, NEW c \in Conns, state_[c] \in AtLeastConnected
    PROVE  state_'[c] \in AtLeastConnected
<1>0. state_ \in [Conns -> StateE \cup {"none"}] /\ TypeOK
  BY DEF LifeInv, TypeOK
<1>1. CASE UNCHANGED state_
  BY <1>1
<1>2. ASSUME NEW d, NEW s \in AtLeastConnected, SetState(d, s)
      PROVE  state_'[c] \in AtLeastConnected
  BY <1>0, <1>2 DEF SetState
<1>3. CASE newConnection
  <2>1. state_' = [state_ EXCEPT ![nextConnId_] = "kConnecting"]
    BY <1>3 DEF newConnection, SetState
  <2>2. c # nextConnId_
    <3>1. c \in Nat
      BY ServerAssumption DEF Conns
    <3>2. Begun(c)
      BY DEF LifeInv, ConnOK, Fresh, AtLeastConnected, Accepted, Open, Closed, Erased, Gone
    <3> QED
      BY <3>1, <3>2 DEF Begun
  <2> QED
    BY <1>0, <2>1, <2>2
<1>4. ASSUME NEW d \in Conns, ConnectionStep(d)
      PROVE  state_'[c] \in AtLeastConnected
  <2>1. CASE connectEstablished(d) \/ handleClose(d) \/ connectDestroyed(d) \/ shutdown(d)
    BY <1>1, <1>2, <2>1 DEF connectEstablished, handleClose, connectDestroyed, shutdown,
       AtLeastConnected, connVars
  <2>2. CASE ~(connectEstablished(d) \/ handleClose(d) \/ connectDestroyed(d) \/ shutdown(d))
    BY <1>1, <1>4, <2>2 DEF ConnectionStep, handleRead, eventHandled, remove,
       removeConnectionInLoop, shutdownInLoop, connVars
  <2> QED
    BY <2>1, <2>2
<1>5. ASSUME NEW u \in UserThreads, UserStep(u)
      PROVE  state_'[c] \in AtLeastConnected
  BY <1>1, <1>2, <1>5 DEF UserStep, shutdownTests, shutdownSets, shutdownPosts, connVars,
     AtLeastConnected
<1>6. CASE start \/ acceptFails \/ UNCHANGED vars \/ (\E l \in Loops : RunFunctor(l))
           \/ (\E d \in Conns : handleEvent(d) \/ \E how \in {"closed", "reset"} : peerLeaves(d, how))
  BY <1>1, <1>6 DEF start, acceptFails, vars, RunFunctor, handleEvent, peerLeaves, connVars
<1> QED
  BY <1>3, <1>4, <1>5, <1>6 DEF AllSteps, Next

LEMMA UserOKStep ==
    ASSUME LifeInv, UserOK, [AllSteps]_vars
    PROVE  UserOK'
<1>0. TypeOK
  BY DEF LifeInv
<1>1. TypeOK'
  BY <1>0, TypeOKStep
<1>2. \A c \in Conns : state_[c] \in AtLeastConnected => state_'[c] \in AtLeastConnected
  BY StaysEstablished
<1>3. \A v \in UserThreads : user[v] # Idle => user[v].conn \in Conns
  BY <1>0 DEF TypeOK
<1>4. CASE UNCHANGED user
  BY <1>2, <1>3, <1>4 DEF UserOK, AtLeastConnected
<1>5. ASSUME NEW u \in UserThreads, NEW c \in Conns, shutdownTests(u, c)
      PROVE  UserOK'
  <2>1. /\ user' = [user EXCEPT ![u] = [pc |-> "set", conn |-> c]] /\ state_[c] = "kConnected"
        /\ user \in [UserThreads -> [pc : {"set", "post"}, conn : Conns] \cup {Idle}]
    BY <1>0, <1>5 DEF shutdownTests, TypeOK
  <2>2. user'[u].conn = c /\ \A v \in UserThreads \ {u} : user'[v] = user[v]
    BY <2>1
  <2>3. state_'[c] \in AtLeastConnected
    BY <1>2, <2>1 DEF AtLeastConnected
  <2> QED
    BY <1>2, <1>3, <2>2, <2>3 DEF UserOK, AtLeastConnected
<1>6. ASSUME NEW u \in UserThreads, shutdownSets(u)
      PROVE  UserOK'
  <2>1. /\ user' = [user EXCEPT ![u].pc = "post"] /\ user[u].pc = "set"
        /\ user \in [UserThreads -> [pc : {"set", "post"}, conn : Conns] \cup {Idle}]
    BY <1>0, <1>6 DEF shutdownSets, TypeOK
  <2>2. user[u] # Idle /\ user[u] \in [pc : {"set", "post"}, conn : Conns]
    BY <2>1 DEF Idle
  <2>3. user'[u].conn = user[u].conn /\ \A v \in UserThreads \ {u} : user'[v] = user[v]
    BY <2>1, <2>2
  <2> QED
    BY <1>2, <1>3, <2>2, <2>3 DEF UserOK, AtLeastConnected
<1>7. ASSUME NEW u \in UserThreads, shutdownPosts(u)
      PROVE  UserOK'
  <2>1. user' = [user EXCEPT ![u] = Idle]
    BY <1>7 DEF shutdownPosts
  <2>2. user'[u] = Idle /\ \A v \in UserThreads \ {u} : user'[v] = user[v]
    BY <1>0, <2>1 DEF TypeOK
  <2> QED
    BY <1>2, <1>3, <2>2 DEF UserOK, AtLeastConnected
<1>8. CASE [Next]_vars
  <2>1. ASSUME NEW c \in Conns, ConnectionStep(c)
        PROVE  UNCHANGED user
    BY <2>1 DEF ConnectionStep, connectEstablished, handleRead, handleClose, eventHandled,
       connectDestroyed, remove, removeConnectionInLoop, shutdown, shutdownInLoop, outside
  <2>2. UNCHANGED user
    BY <1>8, <2>1 DEF Next, start, newConnection, acceptFails, RunFunctor, handleEvent,
       peerLeaves, outside, vars
  <2> QED
    BY <1>4, <2>2
<1> QED
  BY <1>5, <1>6, <1>7, <1>8 DEF AllSteps, UserStep

(* Setting kDisconnecting, however late, leaves the connection in its      *)
(* phase; ...                                                              *)
LEMMA SetsLife ==
    ASSUME LifeInv, UserOK, NEW u \in UserThreads, shutdownSets(u)
    PROVE  LifeInv'
<1>0. TypeOK
  BY DEF LifeInv
<1>1. TypeOK'
  BY <1>0, UserStepType DEF UserStep
<1>2. user[u] # Idle /\ user[u].conn \in Conns
  BY <1>0 DEF TypeOK, shutdownSets, Idle
<1>3. PICK c \in Conns : c = user[u].conn
  BY <1>2
<1>4. /\ state_' = [state_ EXCEPT ![c] = "kDisconnecting"]
      /\ UNCHANGED <<connections_, loop_, nextConnId_, events_, addedToLoop_, pending, stack, fault>>
  BY <1>3 DEF shutdownSets, SetState, serverVars, channelVars
<1>5. state_'[c] = "kDisconnecting" /\ \A d \in Conns \ {c} : state_'[d] = state_[d]
  BY <1>0, <1>4 DEF TypeOK
<1>6. state_[c] \in {"kConnected", "kDisconnecting", "kDisconnected"}
  BY <1>2, <1>3 DEF UserOK
<1>7. ASSUME NEW d \in Conns
      PROVE  /\ Accepted(d) => Accepted(d)'
             /\ Open(d) => Open(d)'
             /\ Closed(d) => Closed(d)'
             /\ Erased(d)' <=> Erased(d)
             /\ Gone(d) => Gone(d)'
             /\ ConnOK(d)'
  <2>0. ConnOK(d)
    BY DEF LifeInv
  <2>1. CASE d # c
    <3>1. SameConn(d)
      BY <1>4, <1>5, <2>1 DEF SameConn, Begun
    <3> QED
      BY <2>0, <3>1, SamePhase
  <2>2. CASE d = c
    <3>1. ~Fresh(c) /\ ~Accepted(c) /\ (Begun(c)' <=> Begun(c))
      BY <1>4, <1>6 DEF Fresh, Accepted, Begun
    <3>2. /\ Open(c) => Open(c)' /\ ~Erased(c)'
          /\ Closed(c) => Closed(c)' /\ ~Erased(c)'
          /\ Erased(c) => Erased(c)'
          /\ Gone(c) => Gone(c)' /\ ~Erased(c)'
      BY <1>4, <1>5, <3>1 DEF Open, Closed, Erased, Gone, Ended
    <3>3. Open(c) \/ Closed(c) \/ Erased(c) \/ Gone(c)
      BY <2>0, <2>2, <3>1 DEF ConnOK
    <3>4. Begun(c)' => loop_'[c] # BaseLoop
      BY <1>4, <2>0, <2>2, <3>1 DEF ConnOK
    <3> QED
      BY <2>2, <3>1, <3>2, <3>3, <3>4, PhasesExclusive DEF ConnOK
  <2> QED
    BY <2>1, <2>2
<1> QED
  BY <1>1, <1>4, <1>7, PhaseStep

(* ... and posting shutdownInLoop adds a functor that any phase admits.    *)
LEMMA PostsLife ==
    ASSUME LifeInv, UserOK, NEW u \in UserThreads, shutdownPosts(u)
    PROVE  LifeInv'
<1>0. /\ TypeOK /\ fault = "none"
      /\ \A d \in Conns : ConnOK(d) /\ DestroyDue(d)
      /\ \A l \in Loops : StackOK(l) /\ PendingOK(l)
  BY DEF LifeInv
<1>1. TypeOK'
  BY <1>0, UserStepType DEF UserStep
<1>2. user[u] # Idle /\ user[u].conn \in Conns
  BY <1>0 DEF TypeOK, shutdownPosts, Idle
<1>3. PICK c \in Conns : c = user[u].conn
  BY <1>2
<1>4. PICK l1 \in Loops : l1 = loop_[c]
  BY <1>0 DEF TypeOK
<1>5. /\ UNCHANGED <<connections_, loop_, nextConnId_, state_, events_, addedToLoop_, stack, fault>>
      /\ pending' = [pending EXCEPT ![l1] = Append(@, On("shutdownInLoop", c))]
  BY <1>3, <1>4 DEF shutdownPosts, serverVars, connVars, channelVars
<1>6. /\ pending'[l1] = Append(pending[l1], On("shutdownInLoop", c))
      /\ \A l \in Loops \ {l1} : UNCHANGED pending[l]
  BY <1>0, <1>5 DEF TypeOK
<1>7. \A d \in Conns : SameConn(d)
  BY <1>5 DEF SameConn, Begun
<1>8. Waits(l1, "shutdownInLoop", c)'
  <2>1. state_[c] \in {"kConnected", "kDisconnecting", "kDisconnected"}
    BY <1>2, <1>3 DEF UserOK
  <2>2. Established(c)
    BY <1>0, <2>1 DEF ConnOK, Fresh, Accepted, Established
  <2> QED
    BY <1>4, <1>5, <1>7, <2>2, SamePhase DEF Waits
<1>9. Spare(On("shutdownInLoop", c))'
  BY DEF Spare, On
<1>10. ASSUME NEW l \in Loops
       PROVE  /\ PendingOK(l)'
              /\ \A d \in Conns : NotPosted(l, d) => NotPosted(l, d)'
              /\ \A i \in DOMAIN pending[l] : i \in DOMAIN pending'[l] /\ pending'[l][i] = pending[l][i]
  <2>1. \A d \in Conns : Kept(l, d)
    BY <1>7, SameKept
  <2>2. CASE l = l1
    BY <1>0, <1>6, <1>8, <1>9, <2>1, <2>2, PendingAppend
  <2>3. CASE l # l1
    <3>1. UNCHANGED pending[l]
      BY <1>6, <2>3
    <3>2. PendingOK(l)' /\ \A d \in Conns : NotPosted(l, d) => NotPosted(l, d)'
      BY <1>0, <2>1, <3>1, PendingFrame
    <3> QED
      BY <3>1, <3>2
  <2> QED
    BY <2>2, <2>3
<1>11. ASSUME NEW l \in Loops
       PROVE  StackOK(l)'
  <2>1. \A d \in Conns : \A o : Runs(l, o, d) => Runs(l, o, d)'
    BY <1>7, <1>10, SamePhase DEF Runs, SameConn
  <2> QED
    BY <1>0, <1>5, <2>1, StackFrame
<1>12. ASSUME NEW d \in Conns
       PROVE  ConnOK(d)' /\ DestroyDue(d)'
  <2>1. \A op : Called(op, d) => Called(op, d)'
    BY <1>5, <1>10, CalledFrame
  <2> QED
    BY <1>0, <1>7, <2>1, SamePhase DEF DestroyDue
<1> QED
  BY <1>0, <1>1, <1>5, <1>10, <1>11, <1>12 DEF LifeInv

LEMMA RaceInvInit == Init => RaceInv
BY TypeOKInit, LifeInvInit DEF RaceInv, UserOK, Init

LEMMA RaceInvStep ==
    ASSUME RaceInv, ThreadNum > 0, [AllSteps]_vars
    PROVE  RaceInv'
<1>1. TypeOK'
  BY TypeOKStep DEF RaceInv
<1>2. CASE fault # "none"
  <2>1. UNCHANGED vars
    <3>1. ASSUME NEW c \in Conns, ConnectionStep(c)
          PROVE  FALSE
      BY <1>2, <3>1 DEF ConnectionStep, connectEstablished, handleRead, handleClose,
         eventHandled, connectDestroyed, remove, removeConnectionInLoop, shutdown,
         shutdownInLoop, At
    <3> QED
      BY <1>2, <3>1 DEF AllSteps, Next, start, newConnection, acceptFails, RunFunctor,
         handleEvent, peerLeaves, UserStep, shutdownTests, shutdownSets, shutdownPosts, InLoop
  <2>2. fault = "TcpServer:76" /\ fault' = "TcpServer:76"
    BY <1>2, <2>1 DEF RaceInv, LifeInv, vars
  <2> QED
    BY <1>1, <2>2 DEF RaceInv
<1>3. CASE fault = "none"
  <2>1. LifeInv /\ UserOK
    BY <1>3 DEF RaceInv
  <2>2. UserOK'
    BY <2>1, UserOKStep
  <2>3. LifeInv' \/ fault' = "TcpServer:76"
    <3>1. CASE \A c \in Conns : removeConnectionInLoop(c) => c \in connections_
      <4>1. CASE [Next]_vars
        BY <2>1, <3>1, <4>1, NextLife
      <4>2. ASSUME NEW u \in UserThreads, UserStep(u)
            PROVE  LifeInv'
        <5>1. ASSUME NEW c \in Conns, shutdownTests(u, c)
              PROVE  LifeInv'
          BY <1>1, <2>1, <5>1, IdleStep DEF shutdownTests, serverVars
        <5> QED
          BY <2>1, <4>2, <5>1, SetsLife, PostsLife DEF UserStep
      <4> QED
        BY <4>1, <4>2 DEF AllSteps
    <3>2. ASSUME NEW c \in Conns, removeConnectionInLoop(c), c \notin connections_
          PROVE  fault' = "TcpServer:76"
      BY <3>2, RemovedTwice
    <3> QED
      BY <3>1, <3>2
  <2> QED
    BY <1>1, <2>2, <2>3 DEF RaceInv
<1> QED
  BY <1>2, <1>3

LEMMA RaceInvHolds ==
    ASSUME ThreadNum > 0
    PROVE  UserSpec => []RaceInv
<1>1. RaceInv /\ [AllSteps]_vars => RaceInv'
  BY RaceInvStep
<1> QED
  BY <1>1, RaceInvInit, PTL DEF UserSpec, AllSteps

(* What a connection that runs somewhere, or that its poller knows, is     *)
(* owned by.                                                               *)
LEMMA OwnedWhileKnown ==
    ASSUME LifeInv, NEW c \in Conns, Open(c) \/ Accepted(c) \/ Closed(c) \/ Erased(c)
    PROVE  Alive(c)
<1>1. CASE Open(c) \/ Accepted(c) \/ Closed(c)
  BY <1>1 DEF Open, Accepted, Closed, Alive
<1>2. CASE Erased(c)
  <2>1. PICK op \in {"connectDestroyed", "remove"} : Called(op, c)
    BY <1>2 DEF LifeInv, DestroyDue
  <2>2. op \in OwningCalls /\ On(op, c).op = op /\ On(op, c).conn = c
    BY DEF OwningCalls, On
  <2> QED
    BY <2>1, <2>2 DEF Called, Alive
<1> QED
  BY <1>1, <1>2

LEMMA LifeInvImplies ==
    ASSUME LifeInv
    PROVE  AssertionsHold /\ ChannelOutlived /\ NotDestroyedInHandler /\ DestroyedAfterErase
<1>1. AssertionsHold
  BY DEF LifeInv, AssertionsHold
<1>2. ChannelOutlived
  <2> SUFFICES ASSUME NEW c \in Conns, addedToLoop_[c]
               PROVE  Alive(c)
    BY DEF ChannelOutlived
  <2>1. Open(c) \/ Closed(c) \/ Erased(c)
    BY DEF LifeInv, ConnOK, Fresh, Accepted, Gone
  <2> QED
    BY <2>1, OwnedWhileKnown
<1>3. ASSUME NEW l \in Loops, NEW i \in DOMAIN stack[l]
      PROVE  /\ stack[l][i].conn \in Conns /\ Alive(stack[l][i].conn)
             /\ stack[l][i].op \in {"connectDestroyed", "remove"} =>
                    stack[l][i].conn \notin connections_
  <2>1. StackOK(l)
    BY DEF LifeInv
  <2>2. ASSUME NEW op, NEW c \in Conns, Runs(l, op, c)
        PROVE  /\ op \in OwningCalls \/ Alive(c)
               /\ op \in {"connectDestroyed", "remove"} => c \notin connections_
    BY <2>2, OwnedWhileKnown DEF Runs, Erased, OwningCalls
  <2>3. \A op : \A c \in Conns : On(op, c).op = op /\ On(op, c).conn = c
    BY DEF On
  <2>o. stack[l][i].op \in OwningCalls => Alive(stack[l][i].conn)
    BY DEF Alive
  <2>4. ASSUME NEW c \in Conns, NEW op, stack[l] = <<On(op, c)>>, Runs(l, op, c)
        PROVE  /\ stack[l][i].conn \in Conns /\ Alive(stack[l][i].conn)
               /\ stack[l][i].op \in {"connectDestroyed", "remove"} =>
                      stack[l][i].conn \notin connections_
    <3>1. stack[l][i] = On(op, c)
      BY <2>4
    <3> QED
      BY <2>2, <2>3, <2>4, <2>o, <3>1
  <2>5. ASSUME NEW c \in Conns, NEW op \in InnerCalls,
               stack[l] = <<On(op, c), On("eventHandled", c)>>, Runs(l, op, c),
               Runs(l, "eventHandled", c)
        PROVE  /\ stack[l][i].conn \in Conns /\ Alive(stack[l][i].conn)
               /\ stack[l][i].op \in {"connectDestroyed", "remove"} =>
                      stack[l][i].conn \notin connections_
    <3>1. stack[l][i] = On(op, c) \/ stack[l][i] = On("eventHandled", c)
      BY <2>5
    <3> QED
      BY <2>2, <2>3, <2>5, <2>o, <3>1 DEF InnerCalls, OwningCalls
  <2> QED
    BY <2>1, <2>4, <2>5 DEF StackOK, InnerCalls
<1>4. NotDestroyedInHandler
  BY <1>3 DEF NotDestroyedInHandler
<1>5. ASSUME NEW c \in Conns, NEW op \in {"connectDestroyed", "remove"}, Called(op, c)
      PROVE  c \notin connections_
  <2>1. On(op, c).op = op /\ On(op, c).conn = c
    BY DEF On
  <2>2. ASSUME NEW l \in Loops, NEW i \in DOMAIN pending[l], pending[l][i] = On(op, c)
        PROVE  c \notin connections_
    <3>1. Waits(l, op, c)
      BY <2>1, <2>2 DEF LifeInv, PendingOK
    <3> QED
      BY <3>1 DEF Waits, Erased
  <2> QED
    BY <1>3, <1>5, <2>1, <2>2 DEF Called
<1>6. ASSUME NEW c \in Conns, c \notin connections_, addedToLoop_[c]
      PROVE  Called("connectDestroyed", c) \/ Called("remove", c)
  <2>1. ConnOK(c) /\ DestroyDue(c)
    BY DEF LifeInv
  <2>2. Erased(c)
    BY <1>6, <2>1 DEF ConnOK, Fresh, Accepted, Open, Closed, Gone
  <2> QED
    BY <2>1, <2>2 DEF DestroyDue
<1>7. DestroyedAfterErase
  BY <1>5, <1>6 DEF DestroyedAfterErase
<1> QED
  BY <1>1, <1>2, <1>4, <1>7

(* However many io loops, at least one, and connections, and in whatever   *)
(* order the loops get to their calls: no assertion on the way of a        *)
(* connection from newConnection to Channel::remove fails, up to the first *)
(* use of a stale index of a poller, which ends the program.               *)
THEOREM NoAssertionFails == ThreadNum > 0 => (Spec => []AssertionsHold)
<1> SUFFICES ASSUME ThreadNum > 0
             PROVE  Spec => []AssertionsHold
  OBVIOUS
<1>1. LifeInv => AssertionsHold
  BY LifeInvImplies
<1> QED
  BY <1>1, LifeInvHolds, PTL

(* Then no connection is let go while its poller knows the channel, ...    *)
THEOREM ConnectionOutlivesChannel == ThreadNum > 0 => (Spec => []ChannelOutlived)
<1> SUFFICES ASSUME ThreadNum > 0
             PROVE  Spec => []ChannelOutlived
  OBVIOUS
<1>1. LifeInv => ChannelOutlived
  BY LifeInvImplies
<1> QED
  BY <1>1, LifeInvHolds, PTL

(* ... none while a thread is in one of its handlers, ...                  *)
THEOREM HandlersKeepConnection == ThreadNum > 0 => (Spec => []NotDestroyedInHandler)
<1> SUFFICES ASSUME ThreadNum > 0
             PROVE  Spec => []NotDestroyedInHandler
  OBVIOUS
<1>1. LifeInv => NotDestroyedInHandler
  BY LifeInvImplies
<1> QED
  BY <1>1, LifeInvHolds, PTL

(* ... and connectDestroyed runs only for a connection out of the map, and *)
(* is due for each that left it.                                           *)
THEOREM EraseThenDestroy == ThreadNum > 0 => (Spec => []DestroyedAfterErase)
<1> SUFFICES ASSUME ThreadNum > 0
             PROVE  Spec => []DestroyedAfterErase
  OBVIOUS
<1>1. LifeInv => DestroyedAfterErase
  BY LifeInvImplies
<1> QED
  BY <1>1, LifeInvHolds, PTL

(* Threads of the application may call shutdown() at any time: the         *)
(* assertion that can fail is the one on connections_.erase.               *)
OnlyEraseFails == fault \in {"none", "TcpServer:76"}

(* The race of shutdown() with the end of a connection can only make the   *)
(* server remove the connection twice: for any number of io loops, at      *)
(* least one, of connections and of threads that call shutdown(), no other *)
(* assertion fails.                                                        *)
THEOREM RaceFailsEraseOnly == ThreadNum > 0 => (UserSpec => []OnlyEraseFails)
<1> SUFFICES ASSUME ThreadNum > 0
             PROVE  UserSpec => []OnlyEraseFails
  OBVIOUS
<1>1. RaceInv => OnlyEraseFails
  BY DEF RaceInv, LifeInv, OnlyEraseFails
<1> QED
  BY <1>1, RaceInvHolds, PTL

(* Until then the race does no harm to the memory of the process: the      *)
(* connection outlives its channel and its handlers, and is destroyed      *)
(* after it has left the map.                                              *)
SafeUntilErase ==
    AssertionsHold => ChannelOutlived /\ NotDestroyedInHandler /\ DestroyedAfterErase

(* With threads that call shutdown() no connection is freed too early as   *)
(* long as the process runs.                                               *)
THEOREM RaceFreesNothingEarly == ThreadNum > 0 => (UserSpec => []SafeUntilErase)
<1> SUFFICES ASSUME ThreadNum > 0
             PROVE  UserSpec => []SafeUntilErase
  OBVIOUS
<1>1. ASSUME RaceInv, AssertionsHold
      PROVE  ChannelOutlived /\ NotDestroyedInHandler /\ DestroyedAfterErase
  <2>1. LifeInv
    BY <1>1 DEF RaceInv, AssertionsHold
  <2> QED
    BY <2>1, LifeInvImplies
<1>2. RaceInv => SafeUntilErase
  BY <1>1 DEF SafeUntilErase
<1> QED
  BY <1>2, RaceInvHolds, PTL

-----------------------------------------------------------------------------
(* What no step takes back.                                                *)

(* A connection out of the map does not come back to it; one that was      *)
(* closed is not polled again, and one removed from its poller is not      *)
(* registered again.                                                       *)
NoWayBack ==
    \A c \in Conns :
        /\ Begun(c) /\ c \notin connections_ => c \notin connections_'
        /\ state_[c] \in AtLeastConnected /\ ~events_[c] => ~events_'[c]
        /\ state_[c] \in AtLeastConnected /\ ~addedToLoop_[c] => ~addedToLoop_'[c]

LEMMA LifeNoWayBack ==
    ASSUME LifeInv, [AllSteps]_vars
    PROVE  NoWayBack
<1>0. TypeOK /\ BaseLoop \in Loops
  BY ServerAssumption DEF LifeInv, Loops, BaseLoop
<1>1. CASE UNCHANGED <<connections_, events_, addedToLoop_>>
  BY <1>1 DEF NoWayBack
<1>2. ASSUME NEW c \in Conns, ConnectionStep(c)
      PROVE  NoWayBack
  <2>1. CASE connectEstablished(c)
    <3>1. Runs(loop_[c], "connectEstablished", c)
      BY <2>1, AtOwnLoop DEF connectEstablished
    <3>2. state_[c] = "kConnecting"
      BY <3>1 DEF Runs, Accepted
    <3>3. /\ UNCHANGED connections_
          /\ \A d \in Conns \ {c} : events_'[d] = events_[d] /\ addedToLoop_'[d] = addedToLoop_[d]
      BY <1>0, <2>1 DEF connectEstablished, SetEvents, serverVars, TypeOK
    <3> QED
      BY <3>2, <3>3 DEF NoWayBack, AtLeastConnected
  <2>2. CASE handleClose(c) \/ connectDestroyed(c)
    <3>1. Runs(loop_[c], "handleClose", c) \/ Runs(loop_[c], "connectDestroyed", c)
      BY <2>2, AtOwnLoop DEF handleClose, connectDestroyed
    <3>2. addedToLoop_[c]
      BY <3>1 DEF Runs, Open, Erased
    <3>3. \/ UNCHANGED <<events_, addedToLoop_>>
          \/ /\ events_' = [events_ EXCEPT ![c] = FALSE]
             /\ addedToLoop_' = [addedToLoop_ EXCEPT ![c] = TRUE]
      BY <2>2 DEF handleClose, connectDestroyed, disableAll, SetEvents, connVars, channelVars
    <3>4. /\ UNCHANGED connections_ /\ (events_'[c] => events_[c])
          /\ \A d \in Conns \ {c} : events_'[d] = events_[d] /\ addedToLoop_'[d] = addedToLoop_[d]
      BY <1>0, <2>2, <3>3 DEF handleClose, connectDestroyed, serverVars, TypeOK
    <3> QED
      BY <3>2, <3>4 DEF NoWayBack
  <2>3. CASE remove(c) \/ removeConnectionInLoop(c)
    BY <1>0, <2>3 DEF remove, removeConnectionInLoop, erase, serverVars, connVars, channelVars,
       TypeOK, NoWayBack
  <2>4. CASE handleRead(c) \/ eventHandled(c) \/ shutdown(c) \/ shutdownInLoop(c)
    BY <1>1, <2>4 DEF handleRead, eventHandled, shutdown, shutdownInLoop, serverVars, connVars,
       channelVars
  <2> QED
    BY <1>2, <2>1, <2>2, <2>3, <2>4 DEF ConnectionStep
<1>3. CASE newConnection
  <2>1. connections_' = connections_ \cup {nextConnId_} /\ UNCHANGED <<events_, addedToLoop_>>
    BY <1>3 DEF newConnection, channelVars
  <2>2. nextConnId_ \in Nat
    BY <1>0 DEF TypeOK
  <2>3. ~Begun(nextConnId_)
    BY <2>2 DEF Begun
  <2> QED
    BY <2>1, <2>3 DEF NoWayBack
<1>4. ASSUME NEW u \in UserThreads, UserStep(u)
      PROVE  NoWayBack
  BY <1>1, <1>4 DEF UserStep, shutdownTests, shutdownSets, shutdownPosts, serverVars, connVars,
     channelVars
<1>5. CASE start \/ acceptFails \/ UNCHANGED vars \/ (\E l \in Loops : RunFunctor(l))
           \/ (\E d \in Conns : handleEvent(d) \/ \E how \in {"closed", "reset"} : peerLeaves(d, how))
  BY <1>1, <1>5 DEF start, acceptFails, vars, RunFunctor, handleEvent, peerLeaves, serverVars,
     connVars, channelVars
<1> QED
  BY <1>2, <1>3, <1>4, <1>5 DEF AllSteps, Next

(* Whatever the threads of the application do: no connection comes back to *)
(* the map, is polled again after it was closed or registered again after  *)
(* it was removed.                                                         *)
THEOREM NothingComesBack == ThreadNum > 0 => (UserSpec => [][NoWayBack]_vars)
<1> SUFFICES ASSUME ThreadNum > 0
             PROVE  UserSpec => [][NoWayBack]_vars
  OBVIOUS
<1>1. RaceInv /\ [AllSteps]_vars => [NoWayBack]_vars
  <2> SUFFICES ASSUME RaceInv, AllSteps
               PROVE  NoWayBack
    OBVIOUS
  <2>1. fault = "none"
    <3>1. ASSUME NEW c \in Conns, ConnectionStep(c)
          PROVE  fault = "none"
      BY <3>1 DEF ConnectionStep, connectEstablished, handleRead, handleClose,
         eventHandled, connectDestroyed, remove, removeConnectionInLoop, shutdown,
         shutdownInLoop, At
    <3> QED
      BY <3>1 DEF AllSteps, Next, start, newConnection, acceptFails, RunFunctor,
         handleEvent, peerLeaves, UserStep, shutdownTests, shutdownSets, shutdownPosts, InLoop
  <2>2. LifeInv
    BY <2>1 DEF RaceInv
  <2> QED
    BY <2>2, LifeNoWayBack
<1> QED
  BY <1>1, RaceInvHolds, PTL DEF UserSpec, AllSteps

(* state_ only goes on: kConnecting, kConnected, kDisconnecting, which may *)
(* be left out, kDisconnected.                                             *)
StateGoesOn ==
    \A c \in Conns :
        \/ state_'[c] = state_[c]
        \/ state_[c] = "none" /\ state_'[c] = "kConnecting"
        \/ state_[c] = "kConnecting" /\ state_'[c] = "kConnected"
        \/ state_[c] = "kConnected" /\ state_'[c] \in {"kDisconnecting", "kDisconnected"}
        \/ state_[c] = "kDisconnecting" /\ state_'[c] = "kDisconnected"

LEMMA LifeGoesOn ==
    ASSUME LifeInv, [Next]_vars
    PROVE  StateGoesOn
<1>0. state_ \in [Conns -> StateE \cup {"none"}] /\ TypeOK
  BY DEF LifeInv, TypeOK
<1>1. CASE UNCHANGED state_
  BY <1>1 DEF StateGoesOn
<1>2. ASSUME NEW c \in Conns, ConnectionStep(c)
      PROVE  StateGoesOn
  <2>1. CASE connectEstablished(c)
    <3>1. Runs(loop_[c], "connectEstablished", c)
      BY <2>1, AtOwnLoop DEF connectEstablished
    <3>2. state_[c] = "kConnecting"
      BY <3>1 DEF Runs, Accepted
    <3>3. state_'[c] = "kConnected" /\ \A d \in Conns \ {c} : state_'[d] = state_[d]
      BY <1>0, <2>1 DEF connectEstablished, SetState
    <3> QED
      BY <3>2, <3>3 DEF StateGoesOn
  <2>2. CASE handleClose(c)
    <3>1. Runs(loop_[c], "handleClose", c)
      BY <2>2, AtOwnLoop DEF handleClose
    <3>2. state_[c] \in {"kConnected", "kDisconnecting"}
      BY <3>1 DEF Runs, Open
    <3>3. state_'[c] = "kDisconnected" /\ \A d \in Conns \ {c} : state_'[d] = state_[d]
      BY <1>0, <2>2 DEF handleClose, SetState
    <3> QED
      BY <3>2, <3>3 DEF StateGoesOn
  <2>3. CASE connectDestroyed(c)
    <3>1. \/ UNCHANGED state_
          \/ /\ state_[c] \in {"kConnected", "kDisconnecting"}
             /\ state_' = [state_ EXCEPT ![c] = "kDisconnected"]
      BY <2>3 DEF connectDestroyed, SetState, connVars
    <3> QED
      BY <1>0, <1>1, <3>1 DEF StateGoesOn
  <2>4. CASE shutdown(c)
    <3>1. \/ UNCHANGED state_
          \/ /\ state_[c] = "kConnected"
             /\ state_' = [state_ EXCEPT ![c] = "kDisconnecting"]
      BY <2>4 DEF shutdown, SetState
    <3> QED
      BY <1>0, <1>1, <3>1 DEF StateGoesOn
  <2>5. CASE handleRead(c) \/ eventHandled(c) \/ remove(c) \/ removeConnectionInLoop(c)
             \/ shutdownInLoop(c)
    BY <1>1, <2>5 DEF handleRead, eventHandled, remove, removeConnectionInLoop, shutdownInLoop,
       connVars
  <2> QED
    BY <1>2, <2>1, <2>2, <2>3, <2>4, <2>5 DEF ConnectionStep
<1>3. CASE newConnection
  <2>1. PICK c \in Conns : c = nextConnId_
    BY <1>0, <1>3, ServerAssumption DEF newConnection, TypeOK, Conns
  <2>2. state_' = [state_ EXCEPT ![c] = "kConnecting"]
    BY <1>3, <2>1 DEF newConnection, SetState
  <2>3. state_[c] = "none"
    <3>1. c \in Nat /\ ~Begun(c)
      BY <2>1, ServerAssumption DEF Begun, Conns
    <3> QED
      BY <3>1 DEF LifeInv, ConnOK, Fresh, Accepted, Open, Closed, Erased, Gone
  <2> QED
    BY <1>0, <2>2, <2>3 DEF StateGoesOn
<1>4. CASE start \/ acceptFails \/ UNCHANGED vars \/ (\E l \in Loops : RunFunctor(l))
           \/ (\E d \in Conns : handleEvent(d) \/ \E how \in {"closed", "reset"} : peerLeaves(d, how))
  BY <1>1, <1>4 DEF start, acceptFails, vars, RunFunctor, handleEvent, peerLeaves, connVars
<1> QED
  BY <1>2, <1>3, <1>4 DEF Next

(* Without such threads the state of a connection only goes on: none is    *)
(* established, closed or disconnected twice.                              *)
THEOREM StatesGoOn == ThreadNum > 0 => (Spec => [][StateGoesOn]_vars)
<1> SUFFICES ASSUME ThreadNum > 0
             PROVE  Spec => [][StateGoesOn]_vars
  OBVIOUS
<1>1. LifeInv /\ [Next]_vars => [StateGoesOn]_vars
  BY LifeGoesOn
<1> QED
  BY <1>1, LifeInvHolds, PTL DEF Spec

-----------------------------------------------------------------------------
(* Round robin: the loops before next_ have one connection more than those *)
(* from next_ on.                                                          *)
Dealt(k) ==
    \A l \in 1..ThreadNum : Cardinality(ConnsOf(l)) = IF l <= next_ THEN k + 1 ELSE k
Balance == \E k \in Nat : Dealt(k)

LEMMA ConnsOfFinite ==
    ASSUME NEW l
    PROVE  IsFiniteSet(ConnsOf(l))
<1>1. IsFiniteSet(Conns)
  BY FS_Interval, ServerAssumption DEF Conns
<1> QED
  BY <1>1, FS_Subset DEF ConnsOf

LEMMA BalanceInit == Init => Balance
<1> SUFFICES ASSUME Init PROVE Balance
  OBVIOUS
<1>1. \A l \in 1..ThreadNum : ConnsOf(l) = {}
  BY DEF Init, ConnsOf
<1>2. Cardinality({}) = 0
  BY FS_EmptySet
<1>3. \A l \in 1..ThreadNum : ~(l <= next_)
  BY DEF Init
<1>4. Dealt(0)
  BY <1>1, <1>2, <1>3 DEF Dealt
<1> QED
  BY <1>4 DEF Balance

(* Only newConnection deals.                                               *)
LEMMA NotDealing ==
    ASSUME [Next]_vars, ~newConnection
    PROVE  UNCHANGED <<next_, nextConnId_, loop_>>
<1> USE DEF vars, serverVars
<1>1. ASSUME NEW c \in Conns, ConnectionStep(c)
      PROVE  UNCHANGED <<next_, nextConnId_, loop_>>
  BY <1>1 DEF ConnectionStep, connectEstablished, handleRead, handleClose, eventHandled,
     connectDestroyed, remove, removeConnectionInLoop, shutdown, shutdownInLoop
<1> QED
  BY <1>1 DEF Next, start, acceptFails, RunFunctor, handleEvent, peerLeaves

LEMMA BalanceStep == LifeInv /\ LifeInv' /\ Balance /\ ThreadNum > 0 /\ [Next]_vars => Balance'
<1> SUFFICES ASSUME LifeInv, LifeInv', Balance, ThreadNum > 0, [Next]_vars
             PROVE  Balance'
  OBVIOUS
<1>0. PICK k \in Nat : Dealt(k)
  BY DEF Balance
<1>1. CASE ~newConnection
  <2>1. UNCHANGED <<next_, nextConnId_, loop_>>
    BY <1>1, NotDealing
  <2>2. ASSUME NEW l \in 1..ThreadNum
        PROVE  ConnsOf(l)' = ConnsOf(l)
    <3>1. \A c \in Conns : state_[c] # "none" <=> Begun(c)
      BY DEF LifeInv, ConnOK, Fresh, Accepted, Open, Closed, Erased, Gone, Ended
    <3>2. \A c \in Conns : state_'[c] # "none" <=> Begun(c)'
      BY DEF LifeInv, ConnOK, Fresh, Accepted, Open, Closed, Erased, Gone, Ended
    <3> QED
      BY <2>1, <3>1, <3>2 DEF ConnsOf, Begun
  <2> QED
    BY <1>0, <2>1, <2>2 DEF Balance, Dealt
<1>2. CASE newConnection
  <2>0. TypeOK
    BY DEF LifeInv
  <2>1. PICK l1 \in 1..ThreadNum : l1 = getNextLoop /\ l1 = next_ + 1
    BY <2>0, ServerAssumption DEF TypeOK, getNextLoop
  <2>2. PICK c \in Conns : c = nextConnId_
    BY <1>2, <2>0, ServerAssumption DEF newConnection, TypeOK, Conns
  <2>3. /\ state_' = [state_ EXCEPT ![c] = "kConnecting"]
        /\ loop_' = [loop_ EXCEPT ![c] = l1]
        /\ next_' = Advance
    BY <1>2, <2>1, <2>2 DEF newConnection, SetState
  <2>4. state_[c] = "none"
    <3>1. c \in Nat /\ ~Begun(c)
      BY <2>2, ServerAssumption DEF Begun, Conns
    <3> QED
      BY <3>1 DEF LifeInv, ConnOK, Fresh, Accepted, Open, Closed, Erased, Gone
  <2>5. c \notin ConnsOf(l1) /\ ConnsOf(l1)' = ConnsOf(l1) \cup {c}
    BY <2>0, <2>3, <2>4 DEF ConnsOf, TypeOK
  <2>6. \A l \in (1..ThreadNum) \ {l1} : ConnsOf(l)' = ConnsOf(l)
    BY <2>0, <2>3, <2>4 DEF ConnsOf, TypeOK
  <2>7. Cardinality(ConnsOf(l1))' = Cardinality(ConnsOf(l1)) + 1
    BY <2>5, ConnsOfFinite, FS_AddElement
  <2>8. next_ \in Nat /\ next_ < ThreadNum /\ ThreadNum \in Nat
    BY <2>0, ServerAssumption DEF TypeOK
  <2>9. Cardinality(ConnsOf(l1))' = k + 1
    BY <1>0, <2>1, <2>7, <2>8 DEF Dealt
  <2>10. CASE next_ + 1 < ThreadNum
    <3>1. next_' = next_ + 1
      BY <2>3, <2>8, <2>10 DEF Advance
    <3>2. Dealt(k)'
      BY <1>0, <2>1, <2>6, <2>8, <2>9, <3>1 DEF Dealt
    <3> QED
      BY <3>2 DEF Balance
  <2>11. CASE next_ + 1 = ThreadNum
    <3>1. next_' = 0
      BY <2>3, <2>8, <2>11 DEF Advance
    <3>2. \A l \in 1..ThreadNum : Cardinality(ConnsOf(l))' = k + 1
      BY <1>0, <2>1, <2>6, <2>8, <2>9, <2>11 DEF Dealt
    <3>3. PICK k1 \in Nat : k1 = k + 1
      OBVIOUS
    <3>4. Dealt(k1)'
      BY <3>1, <3>2, <3>3 DEF Dealt
    <3> QED
      BY <3>4 DEF Balance
  <2> QED
    BY <2>8, <2>10, <2>11
<1> QED
  BY <1>1, <1>2

(* Round robin deals evenly: no io loop ever has got two connections more  *)
(* than another.                                                           *)
THEOREM RoundRobinBalances == Spec => []LoadBalanced
<1>1. CASE ThreadNum > 0
  <2>1. LifeInv /\ Balance => LoadBalanced
    <3> SUFFICES ASSUME LifeInv, NEW k \in Nat, Dealt(k), NEW l \in 1..ThreadNum,
                        NEW m \in 1..ThreadNum
                 PROVE  Cardinality(ConnsOf(l)) <= Cardinality(ConnsOf(m)) + 1
      BY DEF Balance, LoadBalanced
    <3>1. /\ Cardinality(ConnsOf(l)) = k \/ Cardinality(ConnsOf(l)) = k + 1
          /\ Cardinality(ConnsOf(m)) = k \/ Cardinality(ConnsOf(m)) = k + 1
      BY DEF Dealt
    <3> QED
      BY <3>1
  <2>2. LifeInv /\ LifeInv' /\ Balance /\ [Next]_vars => Balance'
    BY <1>1, BalanceStep
  <2>3. Spec => []LifeInv
    BY <1>1, LifeInvHolds
  <2> QED
    BY <2>1, <2>2, <2>3, BalanceInit, PTL DEF Spec
<1>2. CASE ~(ThreadNum > 0)
  <2>1. LoadBalanced
    BY <1>2, ServerAssumption DEF LoadBalanced
  <2> QED
    BY <2>1, PTL
<1> QED
  BY <1>1, <1>2
=============================================================================
