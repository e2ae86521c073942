----------------------------- MODULE TcpClient ------------------------------
(***************************************************************************)
(* A TcpClient with its Connector and the connections they make, one after *)
(* the other (TcpClient, Connector, TcpConnection as far as the client     *)
(* meets it).  One loop thread does the work; connect() and stop() are     *)
(* called in it or in an application thread, disconnect() only in it: so   *)
(* mutex_, which disconnect() shares with the loop, is never contended.    *)
(*                                                                         *)
(* stack holds the calls the loop thread is in or has still to make before *)
(* it returns to its loop, innermost first; pending holds the functors the *)
(* application thread posted.  The two connect_ flags are atomic, and each *)
(* access of the application to one is a step.  The delay before a retry   *)
(* is left out: the loop thread sleeps through it.                         *)
(***************************************************************************)
EXTENDS Integers, Sequences

CONSTANTS
    retry_,         \* enableRetry() was called
    MaxConns,       \* bound: connections the server accepts
    MaxConnects,    \* bound: calls of connect()
    MaxDisconnects, \* bound: calls of disconnect()
    MaxStops        \* bound: calls of stop()

ASSUME ClientAssumption ==
    /\ {MaxConns, MaxConnects, MaxDisconnects, MaxStops} \subseteq Nat

VARIABLES
    connect_,           \* of TcpClient
    connection_,        \* of TcpClient: the current connection, 0 if none
    nextConnId_,
    connectorConnect_,  \* Connector::connect_
    connectorState_,    \* Connector::state_
    channel_,           \* Connector::channel_ is set, and registered
    state_,             \* per connection; "none" before it is made
    addedToLoop_,       \* per connection
    pending,
    stack,
    user,               \* where the application thread is
    calls,              \* how often each call was made, for the bounds
    fault

clientVars == <<connect_, connection_, nextConnId_>>
connectorVars == <<connectorConnect_, connectorState_, channel_>>
connVars == <<state_, addedToLoop_>>
appVars == <<pending, user, calls>>
vars == <<clientVars, connectorVars, connVars, appVars, stack, fault>>

Conns == 1..MaxConns
Limit == [connect |-> MaxConnects, disconnect |-> MaxDisconnects, stop |-> MaxStops]
States == {"kDisconnected", "kConnecting", "kConnected"}
Ops == {"startInLoop", "connect", "retry", "stopInLoop", "handleWrite",
        "handleError", "newConnection", "connectEstablished", "handleClose",
        "removeConnection", "connectDestroyed", "testRetry", "restart"}
Faults == {"none", "Connector:26", "Connector:75", "TcpClient:83", "TcpConnection:73",
           "TcpConnection:95"}

Init ==
    /\ connect_ = FALSE /\ connection_ = 0 /\ nextConnId_ = 1
    /\ connectorConnect_ = FALSE /\ connectorState_ = "kDisconnected" /\ channel_ = FALSE
    /\ state_ = [c \in Conns |-> "none"]
    /\ addedToLoop_ = [c \in Conns |-> FALSE]
    /\ pending = <<>> /\ stack = <<>> /\ user = "idle"
    /\ calls = [call \in DOMAIN Limit |-> 0]
    /\ fault = "none"

-----------------------------------------------------------------------------
On(op, c) == [op |-> op, conn |-> c]
Do(op) == <<On(op, 0)>>

(* The loop thread is about to make the call op on connection c (0: on the *)
(* connector or the client itself).                                        *)
At(op, c) == fault = "none" /\ stack # <<>> /\ Head(stack) = On(op, c)

(* It goes on with the calls next; runInLoop within the loop thread is one *)
(* of them.                                                                *)
Continue(next) == stack' = next \o Tail(stack)

Assert(condition, line) == fault' = IF condition THEN "none" ELSE line

-----------------------------------------------------------------------------
(* Connector, in the loop thread.                                          *)

startInLoop ==
    /\ At("startInLoop", 0)
    /\ Assert(connectorState_ = "kDisconnected", "Connector:26")
    /\ Continue(IF connectorConnect_ THEN Do("connect") ELSE <<>>)
    /\ UNCHANGED <<clientVars, connectorVars, connVars, appVars>>

(* connect(2) blocks and then has an answer: connecting(), retry(), or an  *)
(* error after which only the descriptor is closed.                        *)
connect ==
    /\ At("connect", 0)
    /\ \/ /\ nextConnId_ <= MaxConns
          /\ connectorState_' = "kConnecting"
          /\ channel_' = TRUE
          /\ Assert(~channel_, "Connector:75")
          /\ Continue(<<>>)
       \/ /\ Continue(Do("retry"))
          /\ UNCHANGED <<connectorState_, channel_, fault>>
       \/ /\ Continue(<<>>)
          /\ UNCHANGED <<connectorState_, channel_, fault>>
    /\ UNCHANGED <<clientVars, connectorConnect_, connVars, appVars>>

(* retry(): close the socket and, unless stop() was called, start again,   *)
(* within this call.                                                       *)
retry ==
    /\ At("retry", 0)
    /\ connectorState_' = "kDisconnected"
    /\ Continue(IF connectorConnect_ THEN Do("startInLoop") ELSE <<>>)
    /\ UNCHANGED <<clientVars, connectorConnect_, channel_, connVars, appVars, fault>>

(* Wrong on purpose: the channel of the attempt is kept.                   *)
resetChannel_Not == UNCHANGED channel_

(* resetChannel: the channel has been removed from the poller.             *)
resetChannel == channel_' = FALSE

(* stopInLoop and removeAndResetChannel, up to its call of retry().        *)
stopInLoop ==
    /\ At("stopInLoop", 0)
    /\ IF connectorState_ = "kConnecting"
       THEN /\ connectorState_' = "kDisconnected"
            /\ resetChannel
            /\ Continue(Do("retry"))
       ELSE Continue(<<>>) /\ UNCHANGED <<connectorState_, channel_>>
    /\ UNCHANGED <<clientVars, connectorConnect_, connVars, appVars, fault>>

(* Connector::handleWrite: the socket goes to a TcpConnection, or is       *)
(* closed if stop() was called meanwhile.                                  *)
handleWrite ==
    /\ At("handleWrite", 0)
    /\ IF connectorState_ = "kConnecting"
       THEN /\ resetChannel
            /\ connectorState_' = "kConnected"
            /\ Continue(IF connectorConnect_ THEN Do("newConnection") ELSE <<>>)
       ELSE Continue(<<>>) /\ UNCHANGED <<connectorState_, channel_>>
    /\ UNCHANGED <<clientVars, connectorConnect_, connVars, appVars, fault>>

handleError ==
    /\ At("handleError", 0)
    /\ IF connectorState_ = "kConnecting"
       THEN resetChannel /\ Continue(Do("retry"))
       ELSE Continue(<<>>) /\ UNCHANGED channel_
    /\ UNCHANGED <<clientVars, connectorConnect_, connectorState_,
                   connVars, appVars, fault>>

restart ==
    /\ At("restart", 0)
    /\ connectorState_' = "kDisconnected"
    /\ connectorConnect_' = TRUE
    /\ Continue(Do("startInLoop"))
    /\ UNCHANGED <<clientVars, channel_, connVars, appVars, fault>>

(* loop() calls Channel::handleEvent on the connector's channel: an error, *)
(* writability, or both.                                                   *)
handleEvent(callbacks) ==
    /\ fault = "none"
    /\ stack = <<>>
    /\ channel_
    /\ stack' = callbacks
    /\ UNCHANGED <<clientVars, connectorVars, connVars, appVars, fault>>

ConnectorCallbacks == {Do("handleWrite"), Do("handleError"),
                       Do("handleError") \o Do("handleWrite")}

ConnectorStep == startInLoop \/ connect \/ retry \/ stopInLoop \/ handleWrite
                 \/ handleError \/ restart

-----------------------------------------------------------------------------
(* TcpClient and its connections, in the loop thread.                      *)

(* newConnection up to its call of connectEstablished.                     *)
newConnection ==
    /\ At("newConnection", 0)
    /\ connection_' = nextConnId_
    /\ nextConnId_' = nextConnId_ + 1
    /\ state_' = [state_ EXCEPT ![nextConnId_] = "kConnecting"]
    /\ Continue(<<On("connectEstablished", nextConnId_)>>)
    /\ UNCHANGED <<connect_, connectorVars, addedToLoop_, appVars, fault>>

connectEstablished(c) ==
    /\ At("connectEstablished", c)
    /\ Assert(state_[c] = "kConnecting", "TcpConnection:95")
    /\ state_' = [state_ EXCEPT ![c] = "kConnected"]
    /\ addedToLoop_' = [addedToLoop_ EXCEPT ![c] = TRUE]
    /\ Continue(<<>>)
    /\ UNCHANGED <<clientVars, connectorVars, appVars>>

(* handleRead on c finds that the server has closed it.                    *)
serverCloses(c) ==
    /\ fault = "none"
    /\ stack = <<>>
    /\ addedToLoop_[c]
    /\ stack' = <<On("handleClose", c)>>
    /\ UNCHANGED <<clientVars, connectorVars, connVars, appVars, fault>>

handleClose(c) ==
    /\ At("handleClose", c)
    /\ Assert(state_[c] \in {"kConnected", "kDisconnecting"}, "TcpConnection:73")
    /\ state_' = [state_ EXCEPT ![c] = "kDisconnected"]
    /\ Continue(<<On("removeConnection", c)>>)
    /\ UNCHANGED <<clientVars, connectorVars, addedToLoop_, appVars>>

(* Wrong on purpose: the closed connection is kept.                        *)
resetConnection_Not == UNCHANGED connection_

resetConnection == connection_' = 0

(* TcpClient::removeConnection: forget the connection, destroy it, and     *)
(* then perhaps start again.                                               *)
removeConnection(c) ==
    /\ At("removeConnection", c)
    /\ Assert(connection_ = c, "TcpClient:83")
    /\ resetConnection
    /\ Continue(<<On("connectDestroyed", c)>> \o Do("testRetry"))
    /\ UNCHANGED <<connect_, nextConnId_, connectorVars, connVars, appVars>>

(* connectDestroyed: an open connection is closed first.                   *)
connectDestroyed(c) ==
    /\ At("connectDestroyed", c)
    /\ state_' = [state_ EXCEPT ![c] = "kDisconnected"]
    /\ addedToLoop_' = [addedToLoop_ EXCEPT ![c] = FALSE]
    /\ Continue(IF state_[c] \in {"kConnected", "kDisconnecting"}
                THEN <<On("removeConnection", c)>> ELSE <<>>)
    /\ UNCHANGED <<clientVars, connectorVars, appVars, fault>>

(* Wrong on purpose: a lost connection is never replaced.                  *)
RetryWanted_Never == FALSE

RetryWanted == retry_ /\ connect_

testRetry ==
    /\ At("testRetry", 0)
    /\ Continue(IF RetryWanted THEN Do("restart") ELSE <<>>)
    /\ UNCHANGED <<clientVars, connectorVars, connVars, appVars, fault>>

ClientStep ==
    \/ newConnection
    \/ testRetry
    \/ \E c \in Conns : connectEstablished(c) \/ handleClose(c) \/ removeConnection(c)
                        \/ connectDestroyed(c)

RunFunctor ==
    /\ fault = "none"
    /\ stack = <<>>
    /\ pending # <<>>
    /\ stack' = <<Head(pending)>>
    /\ pending' = Tail(pending)
    /\ UNCHANGED <<clientVars, connectorVars, connVars, user, calls, fault>>

-----------------------------------------------------------------------------
(* connect(), stop() and disconnect().  In the loop thread they run as one *)
(* and what they post runs at once; in the application thread each access  *)
(* to what the loop thread also uses is a step.  shutdownInLoop, which     *)
(* disconnect() posts, touches only the socket.                            *)
Begins(call) ==
    /\ fault = "none"
    /\ calls[call] < Limit[call]
    /\ calls' = [calls EXCEPT ![call] = @ + 1]

callInLoop(call, flag, op) ==
    /\ stack = <<>> /\ Begins(call)
    /\ connect_' = flag /\ connectorConnect_' = flag
    /\ stack' = Do(op)
    /\ UNCHANGED <<connection_, nextConnId_, connectorState_, channel_, connVars, pending,
                   user, fault>>

connectInLoop == callInLoop("connect", TRUE, "startInLoop")
stopInLoopThread == callInLoop("stop", FALSE, "stopInLoop")

disconnectInLoop ==
    /\ stack = <<>> /\ Begins("disconnect")
    /\ connect_' = FALSE
    /\ state_' = [c \in Conns |-> IF c = connection_ /\ state_[c] = "kConnected"
                                  THEN "kDisconnecting" ELSE state_[c]]
    /\ UNCHANGED <<connection_, nextConnId_, connectorVars, addedToLoop_, pending,
                   stack, user, fault>>

(* The application thread calls connect() or stop(): TcpClient::connect_,  *)
(* then Connector::connect_, then the functor.                             *)
userBegins(call, flag) ==
    /\ user = "idle" /\ Begins(call)
    /\ connect_' = flag
    /\ user' = call
    /\ UNCHANGED <<connection_, nextConnId_, connectorVars, connVars, pending, stack,
                   fault>>

userSetsConnector(call, flag, next) ==
    /\ fault = "none" /\ user = call
    /\ connectorConnect_' = flag
    /\ user' = next
    /\ UNCHANGED <<clientVars, connectorState_, channel_, connVars,
                   pending, calls, stack, fault>>

userPosts(op) ==
    /\ fault = "none" /\ user = op
    /\ pending' = Append(pending, On(op, 0))
    /\ user' = "idle"
    /\ UNCHANGED <<clientVars, connectorVars, connVars, calls, stack, fault>>

UserStep ==
    \/ userBegins("connect", TRUE)
    \/ userSetsConnector("connect", TRUE, "startInLoop")
    \/ userPosts("startInLoop")
    \/ userBegins("stop", FALSE)
    \/ userSetsConnector("stop", FALSE, "stopInLoop")
    \/ userPosts("stopInLoop")

Next ==
    \/ ConnectorStep
    \/ ClientStep
    \/ RunFunctor
    \/ \E callbacks \in ConnectorCallbacks : handleEvent(callbacks)
    \/ \E c \in Conns : serverCloses(c)
    \/ connectInLoop
    \/ stopInLoopThread
    \/ disconnectInLoop
    \/ UserStep

(* The loop thread keeps going, a channel that is ready is handled, and    *)
(* connect(2) does not fail for ever.                                      *)
Fairness ==
    /\ WF_vars(ConnectorStep \/ ClientStep)
    /\ SF_vars(connect /\ connectorState_' = "kConnecting")
    /\ SF_vars(RunFunctor)
    /\ SF_vars(handleEvent(Do("handleWrite")))

Spec == Init /\ [][Next]_vars /\ Fairness

-----------------------------------------------------------------------------
(* Types of the variables.                                                 *)
TypeOK ==
    /\ {connect_, connectorConnect_, channel_} \subseteq BOOLEAN
    /\ connection_ \in Conns \cup {0}
    /\ nextConnId_ \in 1..(MaxConns + 1)
    /\ connectorState_ \in States
    /\ state_ \in [Conns -> States \cup {"none", "kDisconnecting"}]
    /\ addedToLoop_ \in [Conns -> BOOLEAN]
    /\ pending \in Seq([op : Ops, conn : {0}])
    /\ stack \in Seq([op : Ops, conn : Conns \cup {0}])
    /\ user \in {"idle", "connect", "stop", "startInLoop", "stopInLoop"}
    /\ calls \in [DOMAIN Limit -> Nat] /\ \A call \in DOMAIN Limit : calls[call] <= Limit[call]
    /\ fault \in Faults

(* No assertion of Connector, TcpClient or TcpConnection fails.            *)
AssertionsHold == fault = "none"

(* The connector and a connection never work at the same time: while the   *)
(* connector has a channel an attempt is under way, the client has no      *)
(* connection and none of the earlier ones is still with the poller; and   *)
(* whenever the loop thread is between two calls, a connector that is      *)
(* kConnecting has the channel that will tell it how the attempt went.     *)
OneAtATime ==
    /\ channel_ => /\ connectorState_ = "kConnecting"
                   /\ connection_ = 0
                   /\ \A c \in Conns : ~addedToLoop_[c]
    /\ stack = <<>> /\ connectorState_ = "kConnecting" => channel_
    /\ \A c, d \in Conns : addedToLoop_[c] /\ addedToLoop_[d] => c = d

(* Outside of any call the client's connection_ is the one its poller      *)
(* knows: no registered connection is without owner, and no closed one is  *)
(* kept.                                                                   *)
ConnectionIsLive ==
    stack = <<>> => \A c \in Conns : addedToLoop_[c] <=> c = connection_

(* An attempt ended with an error the connector does not try again after.  *)
GaveUp == stack = <<>> /\ ~channel_ /\ connectorState_ = "kDisconnected"

(* A lost connection is replaced if retrying was asked for, unless stop()  *)
(* or disconnect() is called first or an attempt ends with an error that   *)
(* the connector does not try again after.                                 *)
LostIsReplaced ==
    \A c \in Conns :
        state_[c] = "kDisconnected" ~>
            \/ connection_ # 0
            \/ ~connect_ \/ ~connectorConnect_ \/ GaveUp
            \/ nextConnId_ > MaxConns
=============================================================================
