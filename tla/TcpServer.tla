----------------------------- MODULE TcpServer ------------------------------
(***************************************************************************)
(* A TcpServer and the life of its connections (TcpServer, Acceptor,       *)
(* EventLoopThreadPool, TcpConnection, and Channel::handleEvent).  Loop 0  *)
(* is the base loop, which accepts and owns the map connections_; loops    *)
(* 1..ThreadNum are the io loops, one thread each.                         *)
(*                                                                         *)
(* A loop is reduced to what EventLoop.tla shows of it: functors posted by *)
(* other threads are called one at a time, in the order of the posts.      *)
(* stack[l] holds the calls thread l is in or has still to make before it  *)
(* goes back to its loop, so that a runInLoop within the right thread goes *)
(* on at once, inside the caller.  The bytes a connection sends, and with  *)
(* them POLLOUT and the FIN, are in SendPath.tla.  A failed assertion ends *)
(* the process: fault names it.                                            *)
(*                                                                         *)
(* The poller of each loop is the one of PollPoller.tla.  Channels of one  *)
(* loop are registered in the order of the connections, so removing one    *)
(* leaves the indices of the later ones too high; those channels are in    *)
(* stale.  The first use of such an index is as far as this module goes:   *)
(* in the program it fails an assertion of PollPoller (43, 45), erases     *)
(* past the end (58) or hits the entry of another channel.                 *)
(***************************************************************************)
EXTENDS Integers, Sequences, FiniteSets

CONSTANTS
    ThreadNum,   \* setThreadNum: how many io loops
    MaxConns,    \* bound: connections accepted over a run
    UserThreads  \* threads of the application that hold connections

ASSUME ServerAssumption == ThreadNum \in Nat /\ MaxConns \in Nat

VARIABLES
    poolStarted_,   \* EventLoopThreadPool::started_
    next_,          \* EventLoopThreadPool::next_
    listening_,     \* Acceptor::listening_
    nextConnId_,
    connections_,   \* the connections in the server's map
    loop_,          \* per connection: the loop it belongs to
    state_,         \* per connection; "none" before it is accepted
    events_,        \* per connection: its channel asks for events
    addedToLoop_,   \* per connection: its channel is known to the poller
    stale,          \* connections whose channel's index_ is too high
    aborted,        \* the poller was given such an index
    peer,           \* external, per connection: what the other end did
    pending,        \* per loop: functors posted by other threads
    stack,          \* per loop: calls under way, innermost first
    user,           \* per application thread: where it is in shutdown()
    fault           \* the assertion that ended the process, or "none"

serverVars == <<poolStarted_, next_, listening_, nextConnId_, connections_, loop_>>
channelVars == <<events_, addedToLoop_, stale, aborted>>
connVars == <<state_, channelVars>>
outside == <<peer, user>>
vars == <<serverVars, connVars, outside, pending, stack, fault>>

Conns == 1..MaxConns
BaseLoop == 0
Loops == 0..ThreadNum
StateE == {"kConnecting", "kConnected", "kDisconnecting", "kDisconnected"}

(* Calls made through a shared_ptr keep the connection alive; those        *)
(* Channel::handleEvent makes have a bare pointer.                         *)
BareCalls == {"handleClose", "handleRead", "eventHandled"}
OwningCalls == {"connectEstablished", "connectDestroyed", "removeConnectionInLoop",
                "shutdown", "shutdownInLoop", "remove"}
Call == [op : BareCalls \cup OwningCalls, conn : Conns]
On(op, c) == [op |-> op, conn |-> c]
Idle == [pc |-> "idle", conn |-> 0]

Init ==
    /\ poolStarted_ = FALSE /\ next_ = 0 /\ listening_ = FALSE
    /\ nextConnId_ = 1 /\ connections_ = {}
    /\ loop_ = [c \in Conns |-> BaseLoop]
    /\ state_ = [c \in Conns |-> "none"]
    /\ events_ = [c \in Conns |-> FALSE]
    /\ addedToLoop_ = [c \in Conns |-> FALSE]
    /\ stale = {} /\ aborted = FALSE
    /\ peer = [c \in Conns |-> "open"]
    /\ pending = [l \in Loops |-> <<>>]
    /\ stack = [l \in Loops |-> <<>>]
    /\ user = [u \in UserThreads |-> Idle]
    /\ fault = "none"

-----------------------------------------------------------------------------
(* The thread of l is in its loop, between two calls.                      *)
InLoop(l) == fault = "none" /\ ~aborted /\ stack[l] = <<>>

(* The call the thread of loop l is about to make is op on c.              *)
At(l, op, c) ==
    fault = "none" /\ ~aborted /\ stack[l] # <<>> /\ Head(stack[l]) = On(op, c)

(* The thread of l goes on with calls, then with what it had to do before. *)
Continue(l, calls) == stack' = [stack EXCEPT ![l] = calls \o Tail(@)]

(* The call in progress in the thread of l ends with runInLoop on loop     *)
(* target, then does rest: at once, or as a functor another thread takes.  *)
RunInLoop(l, target, call, rest) ==
    IF l = target
    THEN Continue(l, <<call>> \o rest) /\ UNCHANGED pending
    ELSE Continue(l, rest) /\ pending' = [pending EXCEPT ![target] = Append(@, call)]

SetState(c, s) == state_' = [state_ EXCEPT ![c] = s]

(* enableReading and disableAll, with Channel::update and updateChannel.   *)
SetEvents(c, any) ==
    /\ events_' = [events_ EXCEPT ![c] = any]
    /\ addedToLoop_' = [addedToLoop_ EXCEPT ![c] = TRUE]
    /\ aborted' = (c \in stale)
    /\ UNCHANGED stale

Assert(condition, line) == fault' = IF condition THEN "none" ELSE line

-----------------------------------------------------------------------------
(* TcpServer and Acceptor, in the thread of the base loop.                 *)

(* EventLoopThreadPool::start (EventLoopThread.tla has its threads) and    *)
(* Acceptor::listen.                                                       *)
poolStart == Assert(~poolStarted_, "EventLoopThreadPool:14") /\ poolStarted_' = TRUE
listen == listening_' = TRUE

(* start(), called once.  (TcpServer::started_, which it tests, is set     *)
(* nowhere: a second call fails the assertion of the pool.)                *)
start ==
    /\ InLoop(BaseLoop) /\ ~poolStarted_
    /\ poolStart /\ listen
    /\ UNCHANGED <<next_, nextConnId_, connections_, loop_, connVars, outside, pending, stack>>

(* Wrong on purpose: next_ is not advanced.                                *)
Advance_Not == next_

(* Wrong on purpose: > where next_ is compared with the number of loops.   *)
Advance_PastEnd == IF ThreadNum = 0 \/ next_ + 1 > ThreadNum THEN 0 ELSE next_ + 1

(* EventLoopThreadPool::getNextLoop: the next value of next_, ...          *)
Advance == IF ThreadNum = 0 \/ next_ + 1 >= ThreadNum THEN 0 ELSE next_ + 1

(* ... and the loop.                                                       *)
getNextLoop == IF ThreadNum = 0 THEN BaseLoop ELSE next_ + 1

(* Acceptor::handleRead with a new descriptor, and newConnection.          *)
newConnection ==
    LET c == nextConnId_
        established == On("connectEstablished", c)
    IN  /\ InLoop(BaseLoop) /\ listening_
        /\ nextConnId_ <= MaxConns /\ nextConnId_' = nextConnId_ + 1
        /\ next_' = Advance
        /\ connections_' = connections_ \cup {c}
        /\ SetState(c, "kConnecting")
        /\ loop_' = [loop_ EXCEPT ![c] = getNextLoop]
        /\ IF getNextLoop = BaseLoop
           THEN stack' = [stack EXCEPT ![BaseLoop] = <<established>>] /\ UNCHANGED pending
           ELSE pending' = [pending EXCEPT ![getNextLoop] = Append(@, established)]
                /\ UNCHANGED stack
        /\ UNCHANGED <<poolStarted_, listening_, channelVars, outside, fault>>

(* Acceptor::handleRead when accept(2) fails: a line is logged.            *)
acceptFails == InLoop(BaseLoop) /\ listening_ /\ UNCHANGED vars

(* Wrong on purpose: the connection stays in the map.                      *)
erase_Not(c) == UNCHANGED <<connections_, fault>>

(* connections_.erase, and the assertion on its result.                    *)
erase(c) == connections_' = connections_ \ {c} /\ Assert(c \in connections_, "TcpServer:76")

(* Wrong on purpose: the connection's loop never hears of the removal.     *)
destroyInLoop_Not(c) == Continue(BaseLoop, <<>>) /\ UNCHANGED pending

destroyInLoop(c) == RunInLoop(BaseLoop, loop_[c], On("connectDestroyed", c), <<>>)

(* removeConnectionInLoop: out of the map, then connectDestroyed in the    *)
(* connection's own loop.                                                  *)
removeConnectionInLoop(c) ==
    /\ At(BaseLoop, "removeConnectionInLoop", c)
    /\ erase(c)
    /\ destroyInLoop(c)
    /\ UNCHANGED <<poolStarted_, next_, listening_, nextConnId_, loop_, connVars, outside>>

-----------------------------------------------------------------------------
(* A loop thread between two calls.                                        *)

(* doPendingFunctors calls the next functor.                               *)
RunFunctor(l) ==
    /\ InLoop(l) /\ pending[l] # <<>>
    /\ stack' = [stack EXCEPT ![l] = <<Head(pending[l])>>]
    /\ pending' = [pending EXCEPT ![l] = Tail(@)]
    /\ UNCHANGED <<serverVars, connVars, outside, fault>>

(* External: what poll(2) may report for the socket of c besides POLLOUT   *)
(* and POLLERR, whose handlers change nothing here.  A connection the peer *)
(* closed or reset stays readable until it is closed here too, so that a   *)
(* hang-up never comes without POLLIN.                                     *)
Revents(c) == {{"POLLIN"}} \cup IF peer[c] = "open" THEN {} ELSE {{"POLLIN", "POLLHUP"}}

(* The callbacks of Channel::handleEvent, in their order.                  *)
Callbacks(c, r) ==
       (IF "POLLHUP" \in r /\ "POLLIN" \notin r THEN <<On("handleClose", c)>> ELSE <<>>)
    \o (IF r \cap {"POLLIN", "POLLHUP"} # {} THEN <<On("handleRead", c)>> ELSE <<>>)
    \o <<On("eventHandled", c)>>

(* loop() calls handleEvent on the channel of c.                           *)
handleEvent(c) ==
    /\ InLoop(loop_[c]) /\ addedToLoop_[c] /\ events_[c]
    /\ \E r \in Revents(c) : stack' = [stack EXCEPT ![loop_[c]] = Callbacks(c, r)]
    /\ UNCHANGED <<serverVars, connVars, outside, pending, fault>>

(* The end of handleEvent writes handlingEvent_ of the channel.            *)
eventHandled(c) ==
    /\ At(loop_[c], "eventHandled", c)
    /\ Continue(loop_[c], <<>>)
    /\ UNCHANGED <<serverVars, connVars, outside, pending, fault>>

-----------------------------------------------------------------------------
(* TcpConnection, in the thread of its loop.                               *)

(* What the application's callbacks do to the life of c.                   *)
CallbackCalls(c) == {<<>>, <<On("shutdown", c)>>}

connectEstablished(c) ==
    /\ At(loop_[c], "connectEstablished", c)
    /\ Assert(state_[c] = "kConnecting", "TcpConnection:95")
    /\ SetState(c, "kConnected") /\ SetEvents(c, TRUE)
    /\ \E calls \in CallbackCalls(c) : Continue(loop_[c], calls)
    /\ UNCHANGED <<serverVars, outside, pending>>

(* Wrong on purpose: the end of the stream is only logged.                 *)
AfterRead_EofIsError(c) == IF peer[c] = "open" THEN CallbackCalls(c) ELSE {<<>>}

(* What read(2) leads to: data for the application, the end of the stream, *)
(* or an error, which handleError logs.                                    *)
AfterRead(c) ==
    CASE peer[c] = "open" -> CallbackCalls(c)
      [] peer[c] = "closed" -> {<<On("handleClose", c)>>}
      [] peer[c] = "reset" -> {<<>>}

(* handleRead.  An error is reported once; then the stream has ended.      *)
handleRead(c) ==
    /\ At(loop_[c], "handleRead", c)
    /\ \E calls \in AfterRead(c) : Continue(loop_[c], calls)
    /\ peer' = [peer EXCEPT ![c] = IF @ = "reset" THEN "closed" ELSE @]
    /\ UNCHANGED <<serverVars, connVars, user, pending, fault>>

(* Wrong on purpose: the channel keeps its events.                         *)
disableAll_Not(c) == UNCHANGED channelVars

disableAll(c) == SetEvents(c, FALSE)

(* handleClose and, through closeCallback_, TcpServer::removeConnection.   *)
handleClose(c) ==
    /\ At(loop_[c], "handleClose", c)
    /\ Assert(state_[c] \in {"kConnected", "kDisconnecting"}, "TcpConnection:73")
    /\ disableAll(c) /\ SetState(c, "kDisconnected")
    /\ RunInLoop(loop_[c], BaseLoop, On("removeConnectionInLoop", c), <<>>)
    /\ UNCHANGED <<serverVars, outside>>

(* connectDestroyed up to its last call, channel_->remove().               *)
connectDestroyed(c) ==
    /\ At(loop_[c], "connectDestroyed", c)
    /\ IF state_[c] \in {"kConnected", "kDisconnecting"}
       THEN /\ SetState(c, "kDisconnected") /\ disableAll(c)
            /\ RunInLoop(loop_[c], BaseLoop, On("removeConnectionInLoop", c),
                         <<On("remove", c)>>)
       ELSE /\ Continue(loop_[c], <<On("remove", c)>>)
            /\ UNCHANGED <<connVars, pending>>
    /\ UNCHANGED <<serverVars, outside, fault>>

(* The channels of the loop of c behind the one of c in the array.         *)
Behind(c) == {d \in Conns : d > c /\ loop_[d] = loop_[c] /\ addedToLoop_[d]}

(* Channel::remove and PollPoller::removeChannel.                          *)
remove(c) ==
    /\ At(loop_[c], "remove", c)
    /\ fault' = CASE events_[c] -> "Channel:48"
                  [] ~events_[c] /\ ~addedToLoop_[c] -> "PollPoller:57"
                  [] OTHER -> "none"
    /\ addedToLoop_' = [addedToLoop_ EXCEPT ![c] = FALSE]
    /\ aborted' = (c \in stale)
    /\ stale' = (stale \ {c}) \cup Behind(c)
    /\ Continue(loop_[c], <<>>)
    /\ UNCHANGED <<serverVars, state_, events_, outside, pending>>

(* shutdown() by the loop's own thread, which goes on to shutdownInLoop.   *)
shutdown(c) ==
    /\ At(loop_[c], "shutdown", c)
    /\ IF state_[c] = "kConnected"
       THEN SetState(c, "kDisconnecting") /\ Continue(loop_[c], <<On("shutdownInLoop", c)>>)
       ELSE Continue(loop_[c], <<>>) /\ UNCHANGED state_
    /\ UNCHANGED <<serverVars, channelVars, outside, pending, fault>>

(* shutdownInLoop: its FIN is in SendPath.tla.                             *)
shutdownInLoop(c) ==
    /\ At(loop_[c], "shutdownInLoop", c)
    /\ Continue(loop_[c], <<>>)
    /\ UNCHANGED <<serverVars, connVars, outside, pending, fault>>

(* External: the peer closes or resets an accepted connection.             *)
peerLeaves(c, how) ==
    /\ fault = "none" /\ ~aborted /\ state_[c] # "none" /\ peer[c] = "open"
    /\ peer' = [peer EXCEPT ![c] = how]
    /\ UNCHANGED <<serverVars, connVars, user, pending, stack, fault>>

-----------------------------------------------------------------------------
(* TcpConnection::shutdown called by a thread of the application: each     *)
(* access to state_, which has neither lock nor atomic, is a step.         *)

(* Some shared_ptr still owns c.                                           *)
Alive(c) ==
    \/ c \in connections_
    \/ \E l \in Loops :
          \/ \E i \in DOMAIN pending[l] : pending[l][i].conn = c
          \/ \E i \in DOMAIN stack[l] : stack[l][i].op \in OwningCalls /\ stack[l][i].conn = c
    \/ \E u \in UserThreads : user[u].conn = c

shutdownTests(u, c) ==
    /\ fault = "none" /\ ~aborted /\ user[u] = Idle /\ Alive(c)
    /\ state_[c] = "kConnected"
    /\ user' = [user EXCEPT ![u] = [pc |-> "set", conn |-> c]]
    /\ UNCHANGED <<serverVars, connVars, peer, pending, stack, fault>>

shutdownSets(u) ==
    /\ fault = "none" /\ ~aborted /\ user[u].pc = "set"
    /\ SetState(user[u].conn, "kDisconnecting")
    /\ user' = [user EXCEPT ![u].pc = "post"]
    /\ UNCHANGED <<serverVars, channelVars, peer, pending, stack, fault>>

shutdownPosts(u) ==
    LET c == user[u].conn
    IN  /\ fault = "none" /\ ~aborted /\ user[u].pc = "post"
        /\ pending' = [pending EXCEPT ![loop_[c]] = Append(@, On("shutdownInLoop", c))]
        /\ user' = [user EXCEPT ![u] = Idle]
        /\ UNCHANGED <<serverVars, connVars, peer, stack, fault>>

-----------------------------------------------------------------------------
(* The calls the loop threads make once they have begun something.         *)
ConnectionStep(c) ==
    \/ connectEstablished(c) \/ handleRead(c) \/ handleClose(c) \/ eventHandled(c)
    \/ connectDestroyed(c) \/ remove(c) \/ removeConnectionInLoop(c)
    \/ shutdown(c) \/ shutdownInLoop(c)

(* Application code runs in the callbacks only.                            *)
Next ==
    \/ start
    \/ newConnection
    \/ acceptFails
    \/ \E l \in Loops : RunFunctor(l)
    \/ \E c \in Conns :
          \/ ConnectionStep(c)
          \/ handleEvent(c)
          \/ \E how \in {"closed", "reset"} : peerLeaves(c, how)

UserStep(u) == (\E c \in Conns : shutdownTests(u, c)) \/ shutdownSets(u) \/ shutdownPosts(u)

(* A thread does not stop within a call, and one iteration of loop()       *)
(* serves every channel poll() reports and every functor posted before it. *)
Fairness ==
    /\ \A c \in Conns : WF_vars(ConnectionStep(c)) /\ SF_vars(handleEvent(c))
    /\ \A l \in Loops : SF_vars(RunFunctor(l))

Spec == Init /\ [][Next]_vars /\ Fairness

(* The same server with application threads that call shutdown().          *)
UserSpec == Init /\ [][Next \/ \E u \in UserThreads : UserStep(u)]_vars

-----------------------------------------------------------------------------
(* Types of the variables.                                                 *)
TypeOK ==
    /\ poolStarted_ \in BOOLEAN /\ listening_ \in BOOLEAN
    /\ next_ \in 0..ThreadNum /\ (ThreadNum > 0 => next_ < ThreadNum)
    /\ nextConnId_ \in 1..(MaxConns + 1)
    /\ connections_ \subseteq Conns
    /\ loop_ \in [Conns -> Loops]
    /\ state_ \in [Conns -> StateE \cup {"none"}]
    /\ events_ \in [Conns -> BOOLEAN] /\ addedToLoop_ \in [Conns -> BOOLEAN]
    /\ stale \subseteq Conns /\ aborted \in BOOLEAN
    /\ peer \in [Conns -> {"open", "closed", "reset"}]
    /\ pending \in [Loops -> Seq(Call)] /\ stack \in [Loops -> Seq(Call)]
    /\ user \in [UserThreads -> [pc : {"set", "post"}, conn : Conns] \cup {Idle}]
    /\ fault \in {"none", "EventLoopThreadPool:14", "TcpServer:76", "TcpConnection:73",
                  "TcpConnection:95", "Channel:48", "PollPoller:57"}

(* No assertion on the way of a connection fails, in whatever order the    *)
(* loops get to it: it is established once, closed once, erased from the   *)
(* map once, and removed from the poller once and without events.  (The    *)
(* assertions on indices are PollPoller.tla's.)                            *)
AssertionsHold == fault = "none"

(* ~Channel asserts !addedToLoop_: nobody lets go of a connection that the *)
(* poller of its loop still knows.                                         *)
ChannelOutlived == \A c \in Conns : addedToLoop_[c] => Alive(c)

(* Channel::handleEvent works on a bare pointer: the connection must live  *)
(* until it has returned (the assertion ~Channel has commented out).       *)
NotDestroyedInHandler ==
    \A l \in Loops : \A i \in DOMAIN stack[l] : Alive(stack[l][i].conn)

(* A call of op on c is still to come.                                     *)
Called(op, c) ==
    \E l \in Loops :
        \/ \E i \in DOMAIN pending[l] : pending[l][i] = On(op, c)
        \/ \E i \in DOMAIN stack[l] : stack[l][i] = On(op, c)

(* connectDestroyed runs "when TcpServer has removed me from its map"; and *)
(* a connection out of the map is on its way to connectDestroyed or past   *)
(* it.                                                                     *)
DestroyedAfterErase ==
    \A c \in Conns :
        /\ Called("connectDestroyed", c) \/ Called("remove", c) => c \notin connections_
        /\ c \notin connections_ /\ addedToLoop_[c] =>
               Called("connectDestroyed", c) \/ Called("remove", c)

ConnsOf(l) == {c \in Conns : state_[c] # "none" /\ loop_[c] = l}

(* Round robin of getNextLoop: the io loops get equally many connections,  *)
(* but for one.                                                            *)
LoadBalanced ==
    \A l, m \in 1..ThreadNum : Cardinality(ConnsOf(l)) <= Cardinality(ConnsOf(m)) + 1

(* Nothing is left of c: closed, erased and removed from its poller.       *)
NothingLeft(c) ==
    /\ state_[c] = "kDisconnected" /\ c \notin connections_
    /\ ~addedToLoop_[c] /\ ~Called("connectDestroyed", c)

(* A connection whose peer has gone goes too, whatever it was doing,       *)
(* unless connections that share a loop end in another order than they     *)
(* began and the poller is given a stale index.                            *)
PeerGoneConnGone == \A c \in Conns : peer[c] # "open" ~> NothingLeft(c) \/ aborted

=============================================================================
