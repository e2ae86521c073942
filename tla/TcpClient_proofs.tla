-------------------------- MODULE TcpClient_proofs --------------------------
(***************************************************************************)
(* Proofs about TcpClient.tla, for a client whose application calls        *)
(* connect() once: any number of connections, of calls of stop() and of    *)
(* disconnect(), with or without retry_.  The loop thread is always in one *)
(* of seven phases, which say together what the connector, the client, the *)
(* poller and the calls under way have to do with each other; and the one  *)
(* functor that starts the connector finds it untouched.                   *)
(***************************************************************************)
EXTENDS TcpClient, SequenceTheorems, TLAPS

(* The stacks there are: one call, and one with another to follow.         *)
Just(op, c) == <<On(op, c)>>
Then(op, c, next) == <<On(op, c), On(next, 0)>>

(* No connection, or c alone, is with the poller.                          *)
NoneAdded == \A d \in Conns : ~addedToLoop_[d]
OnlyAdded(c) == \A d \in Conns : addedToLoop_[d] <=> d = c

(* The connector tries, within one call: alone, or inside the handling of  *)
(* an event that has also to call handleWrite.                             *)
Attempting ==
    /\ ~channel_ /\ connection_ = 0 /\ NoneAdded
    /\ \E op \in {"startInLoop", "connect", "retry"} :
          /\ stack = Just(op, 0) \/ stack = Then(op, 0, "handleWrite")
          /\ op # "retry" => connectorState_ = "kDisconnected"

(* It has a channel and waits to be told how the attempt went.             *)
Polled ==
    /\ channel_ /\ connectorState_ = "kConnecting" /\ connection_ = 0 /\ NoneAdded
    /\ nextConnId_ <= MaxConns
    /\ stack \in {<<>>, Just("stopInLoop", 0), Just("handleWrite", 0), Just("handleError", 0),
                  Then("handleError", 0, "handleWrite")}

(* It has nothing to do: before connect(), or after an attempt that was    *)
(* given up.                                                               *)
Resting ==
    /\ ~channel_ /\ connectorState_ \in {"kDisconnected", "kConnected"} /\ connection_ = 0
    /\ NoneAdded /\ stack \in {<<>>, Just("stopInLoop", 0), Just("handleWrite", 0)}

(* The socket is on its way to the client.                                 *)
Handing ==
    /\ ~channel_ /\ connectorState_ = "kConnected" /\ connection_ = 0 /\ NoneAdded
    /\ nextConnId_ <= MaxConns /\ stack = Just("newConnection", 0)

(* The client has connection c: not yet established, open, or closed.      *)
Holding(c) ==
    /\ ~channel_ /\ connectorState_ = "kConnected" /\ connection_ = c
    /\ \/ stack = Just("connectEstablished", c) /\ NoneAdded /\ state_[c] = "kConnecting"
       \/ /\ stack \in {<<>>, Just("stopInLoop", 0), Just("handleClose", c)}
          /\ OnlyAdded(c) /\ state_[c] \in {"kConnected", "kDisconnecting"}
       \/ stack = Just("removeConnection", c) /\ OnlyAdded(c) /\ state_[c] = "kDisconnected"

(* The client has let go of c, which is still with the poller.             *)
Losing(c) ==
    /\ ~channel_ /\ connectorState_ = "kConnected" /\ connection_ = 0
    /\ OnlyAdded(c) /\ state_[c] = "kDisconnected"
    /\ stack = Then("connectDestroyed", c, "testRetry")

(* The client decides whether to start again.                              *)
Lost ==
    /\ ~channel_ /\ connectorState_ = "kConnected" /\ connection_ = 0 /\ NoneAdded
    /\ stack \in {Just("testRetry", 0), Just("restart", 0)}

Phase ==
    \/ Attempting \/ Polled \/ Resting \/ Handing \/ Lost
    \/ \E c \in Conns : Holding(c) \/ Losing(c)

(* connect() has been called and its startInLoop has still to come.        *)
StartWaits == \E i \in DOMAIN pending : pending[i] = On("startInLoop", 0)
Owed == user \in {"connect", "startInLoop"} \/ StartWaits

(* The connector as its constructor left it.                               *)
Untouched ==
    /\ ~channel_ /\ connectorState_ = "kDisconnected" /\ connection_ = 0 /\ NoneAdded
    /\ stack \in {<<>>, Just("stopInLoop", 0)}

(* connect() posts one startInLoop, and until that runs nothing else       *)
(* starts the connector.                                                   *)
StartInv ==
    /\ \A i \in DOMAIN pending : pending[i] \in {On("startInLoop", 0), On("stopInLoop", 0)}
    /\ \A i, j \in DOMAIN pending :
          pending[i] = On("startInLoop", 0) /\ pending[j] = On("startInLoop", 0) => i = j
    /\ user \in {"connect", "startInLoop"} => ~StartWaits
    /\ Owed => calls["connect"] # 0
    /\ calls["connect"] = 0 \/ Owed => Untouched

ClientInv == TypeOK /\ fault = "none" /\ Phase /\ StartInv

-----------------------------------------------------------------------------
Call == [op : Ops, conn : Conns \cup {0}]

LEMMA ZeroIsNone == 0 \notin Conns
BY ClientAssumption DEF Conns

(* Short stacks: what Head, Tail and concatenation make of them.           *)
LEMMA Stacks ==
    ASSUME NEW a \in Call, NEW b \in Call
    PROVE  /\ <<a>> # <<>> /\ Head(<<a>>) = a /\ Tail(<<a>>) = <<>>
           /\ <<a, b>> # <<>> /\ Head(<<a, b>>) = a /\ Tail(<<a, b>>) = <<b>>
           /\ <<>> \o <<a>> = <<a>> /\ <<a>> \o <<>> = <<a>>
           /\ <<a>> \o <<b>> = <<a, b>>
<1>1. <<a>> \in Seq(Call) /\ <<b>> \in Seq(Call) /\ <<a, b>> \in Seq(Call)
  OBVIOUS
<1>2. <<a>> \o <<b>> = <<a, b>>
  <2> DEFINE s == <<a>> \o <<b>>
             t == <<a, b>>
  <2>1. s \in Seq(Call) /\ Len(s) = 2 /\ s[1] = a /\ s[2] = b
    BY <1>1, ConcatProperties
  <2>2. t \in Seq(Call) /\ Len(t) = 2 /\ t[1] = a /\ t[2] = b
    OBVIOUS
  <2> HIDE DEF s, t
  <2>3. \A i \in 1..2 : s[i] = t[i]
    BY <2>1, <2>2
  <2>4. s = t
    BY <2>1, <2>2, <2>3, SeqEqual
  <2> QED
    BY <2>4 DEF s, t
<1>3. <<>> \o <<a>> = <<a>> /\ <<a>> \o <<>> = <<a>>
  BY <1>1, ConcatEmptySeq
<1>4. <<a>> # <<>> /\ Head(<<a>>) = a /\ Tail(<<a>>) = <<>>
  OBVIOUS
<1>5. <<a, b>> # <<>> /\ Head(<<a, b>>) = a /\ Tail(<<a, b>>) = <<b>>
  OBVIOUS
<1> QED
  BY <1>2, <1>3, <1>4, <1>5

(* A call determines its operation and its connection.                     *)
LEMMA CallIs ==
    ASSUME NEW o \in Ops, NEW c \in Conns \cup {0}
    PROVE  /\ On(o, c) \in Call /\ On(o, c).op = o /\ On(o, c).conn = c
BY DEF On, Call

(* What the thread is about to call is the first call of its stack.        *)
LEMMA Heads ==
    ASSUME NEW op \in Ops, NEW c \in Conns \cup {0}, At(op, c)
    PROVE  /\ stack # <<>>
           /\ \A o \in Ops : \A d \in Conns \cup {0} :
                 stack = Just(o, d) => o = op /\ d = c /\ Tail(stack) = <<>>
           /\ \A o, p \in Ops : \A d \in Conns \cup {0} :
                 stack = Then(o, d, p) => o = op /\ d = c /\ Tail(stack) = Just(p, 0)
<1>1. stack # <<>> /\ Head(stack) = On(op, c)
  BY DEF At
<1>2. ASSUME NEW o \in Ops, NEW d \in Conns \cup {0}, On(o, d) = On(op, c)
      PROVE  o = op /\ d = c
  BY <1>2, CallIs
<1>3. ASSUME NEW o \in Ops, NEW d \in Conns \cup {0}, stack = Just(o, d)
      PROVE  o = op /\ d = c /\ Tail(stack) = <<>>
  <2>1. On(o, d) \in Call
    BY CallIs
  <2>2. Head(stack) = On(o, d) /\ Tail(stack) = <<>>
    BY <1>3, <2>1, Stacks DEF Just
  <2> QED
    BY <1>1, <1>2, <2>2
<1>4. ASSUME NEW o \in Ops, NEW d \in Conns \cup {0}, NEW p \in Ops, stack = Then(o, d, p)
      PROVE  o = op /\ d = c /\ Tail(stack) = Just(p, 0)
  <2>1. On(o, d) \in Call /\ On(p, 0) \in Call
    BY CallIs
  <2>2. Head(stack) = On(o, d) /\ Tail(stack) = <<On(p, 0)>>
    BY <1>4, <2>1, Stacks DEF Then
  <2> QED
    BY <1>1, <1>2, <2>2 DEF Just
<1> QED
  BY <1>1, <1>3, <1>4

(* The phases in which the thread can be about to make each call of the    *)
(* connector or of the client.                                             *)
LEMMA AtConnector ==
    ASSUME ClientInv, NEW op \in Ops, At(op, 0)
    PROVE  /\ op \in {"startInLoop", "connect", "retry"} =>
                 /\ ~channel_ /\ connection_ = 0 /\ NoneAdded
                 /\ Tail(stack) = <<>> \/ Tail(stack) = Just("handleWrite", 0)
                 /\ op # "retry" => connectorState_ = "kDisconnected"
           /\ op = "stopInLoop" => Tail(stack) = <<>> /\ stack = Just("stopInLoop", 0)
           /\ op = "handleWrite" => Tail(stack) = <<>> /\ (Polled \/ Resting)
           /\ op = "handleError" =>
                 (Tail(stack) = <<>> \/ Tail(stack) = Just("handleWrite", 0)) /\ Polled
           /\ op = "newConnection" => Tail(stack) = <<>> /\ Handing
           /\ op \in {"testRetry", "restart"} => Tail(stack) = <<>> /\ Lost
           /\ op # "stopInLoop" => ~Untouched
<1>1. Phase
  BY DEF ClientInv
<1>2. /\ stack # <<>>
      /\ \A o \in Ops : \A d \in Conns \cup {0} :
            stack = Just(o, d) => o = op /\ d = 0 /\ Tail(stack) = <<>>
      /\ \A o, p \in Ops : \A d \in Conns \cup {0} :
            stack = Then(o, d, p) => o = op /\ d = 0 /\ Tail(stack) = Just(p, 0)
  BY Heads
<1> USE <1>2 DEF Ops
<1>3. CASE Attempting
  BY <1>3 DEF Attempting, Untouched
<1>4. CASE Polled
  BY <1>4 DEF Polled, Untouched
<1>5. CASE Resting
  BY <1>5 DEF Resting, Untouched
<1>6. CASE Handing
  BY <1>6 DEF Handing, Untouched
<1>7. CASE Lost
  BY <1>7 DEF Lost, Untouched
<1>8. ASSUME NEW c \in Conns, Holding(c) \/ Losing(c)
      PROVE  op = "stopInLoop" /\ Tail(stack) = <<>> /\ stack = Just("stopInLoop", 0)
  BY <1>8, ZeroIsNone DEF Holding, Losing
<1>9. CASE \E c \in Conns : Holding(c) \/ Losing(c)
  BY <1>8, <1>9
<1> QED
  BY <1>1, <1>3, <1>4, <1>5, <1>6, <1>7, <1>9 DEF Phase

(* The same for the calls on a connection.                                 *)
LEMMA AtConnection ==
    ASSUME ClientInv, NEW op \in Ops, NEW c \in Conns, At(op, c)
    PROVE  /\ op = "connectEstablished" =>
                 /\ Holding(c) /\ Tail(stack) = <<>> /\ NoneAdded /\ state_[c] = "kConnecting"
           /\ op = "handleClose" =>
                 /\ Holding(c) /\ Tail(stack) = <<>> /\ OnlyAdded(c)
                 /\ state_[c] \in {"kConnected", "kDisconnecting"}
           /\ op = "removeConnection" =>
                 /\ Holding(c) /\ Tail(stack) = <<>> /\ OnlyAdded(c)
                 /\ state_[c] = "kDisconnected"
           /\ op = "connectDestroyed" => Losing(c) /\ Tail(stack) = Just("testRetry", 0)
           /\ ~Untouched
<1>1. Phase /\ c # 0
  BY ZeroIsNone DEF ClientInv
<1>2. /\ stack # <<>>
      /\ \A o \in Ops : \A d \in Conns \cup {0} :
            stack = Just(o, d) => o = op /\ d = c /\ Tail(stack) = <<>>
      /\ \A o, p \in Ops : \A d \in Conns \cup {0} :
            stack = Then(o, d, p) => o = op /\ d = c /\ Tail(stack) = Just(p, 0)
  BY Heads
<1> USE <1>1, <1>2 DEF Ops
<1>3. ~Attempting
  BY DEF Attempting
<1>4. ~Polled /\ ~Resting /\ ~Handing /\ ~Lost /\ ~Untouched
  BY DEF Polled, Resting, Handing, Lost, Untouched
<1>5. PICK d \in Conns : Holding(d) \/ Losing(d)
  BY <1>3, <1>4 DEF Phase
<1>6. CASE Holding(d)
  BY <1>4, <1>6 DEF Holding
<1>7. CASE Losing(d)
  BY <1>4, <1>7 DEF Losing
<1> QED
  BY <1>5, <1>6, <1>7

(* What the stack becomes.                                                 *)
LEMMA Goes ==
    ASSUME NEW o \in Ops, NEW c \in Conns \cup {0}, NEW p \in Ops
    PROVE  /\ Continue(<<>>) /\ Tail(stack) = <<>> => stack' = <<>>
           /\ Continue(<<>>) /\ Tail(stack) = Just(o, c) => stack' = Just(o, c)
           /\ Continue(Just(o, c)) /\ Tail(stack) = <<>> => stack' = Just(o, c)
           /\ Continue(Just(o, c)) /\ Tail(stack) = Just(p, 0) => stack' = Then(o, c, p)
           /\ Just(o, c) \o Do(p) = Then(o, c, p)
           /\ Continue(Then(o, c, p)) /\ Tail(stack) = <<>> => stack' = Then(o, c, p)
<1>1. On(o, c) \in Call /\ On(p, 0) \in Call
  BY CallIs
<1>2. /\ <<>> \o <<On(o, c)>> = <<On(o, c)>> /\ <<On(o, c)>> \o <<>> = <<On(o, c)>>
      /\ <<On(o, c)>> \o <<On(p, 0)>> = <<On(o, c), On(p, 0)>>
  BY <1>1, Stacks
<1>3. <<>> \o <<>> = <<>>
  OBVIOUS
<1>4. <<On(o, c), On(p, 0)>> \o <<>> = <<On(o, c), On(p, 0)>>
  <2>1. <<On(o, c), On(p, 0)>> \in Seq(Call)
    BY <1>1
  <2> QED
    BY <2>1, ConcatEmptySeq
<1> QED
  BY <1>2, <1>3, <1>4 DEF Continue, Just, Then, Do

(* The stacks are sequences of calls.                                      *)
LEMMA StackTypes ==
    ASSUME NEW o \in Ops, NEW c \in Conns \cup {0}, NEW p \in Ops
    PROVE  Just(o, c) \in Seq(Call) /\ Then(o, c, p) \in Seq(Call) /\ <<>> \in Seq(Call)
<1>1. On(o, c) \in Call /\ On(p, 0) \in Call
  BY CallIs
<1> QED
  BY <1>1 DEF Just, Then

LEMMA PhaseStack ==
    /\ Phase => stack \in Seq(Call)
    /\ Phase' => stack' \in Seq(Call)
<1>1. /\ \A o \in Ops : \A c \in Conns \cup {0} : Just(o, c) \in Seq(Call)
      /\ \A o, p \in Ops : \A c \in Conns \cup {0} : Then(o, c, p) \in Seq(Call)
      /\ <<>> \in Seq(Call)
  <2>1. <<>> \in Seq(Call)
    OBVIOUS
  <2> QED
    BY <2>1, StackTypes
<1>2. Phase => stack \in Seq(Call)
  BY <1>1 DEF Phase, Attempting, Polled, Resting, Handing, Lost, Holding, Losing, Ops
<1>3. Phase' => stack' \in Seq(Call)
  BY <1>1 DEF Phase, Attempting, Polled, Resting, Handing, Lost, Holding, Losing, Ops
<1> QED
  BY <1>2, <1>3

-----------------------------------------------------------------------------
LEMMA TypeOKStep ==
    ASSUME ClientInv, [Next]_vars, stack' \in Seq(Call)
    PROVE  TypeOK'
<1> USE DEF clientVars, connectorVars, connVars, appVars
<1>1. TypeOK
  BY DEF ClientInv
<1>2. stack' \in Seq([op : Ops, conn : Conns \cup {0}])
  BY DEF Call
<1>3. CASE ConnectorStep
  <2>1. connectorState_' \in States /\ channel_' \in BOOLEAN /\ connectorConnect_' \in BOOLEAN
    BY <1>1, <1>3 DEF ConnectorStep, startInLoop, connect, retry, stopInLoop, handleWrite,
       handleError, restart, resetChannel, TypeOK, States
  <2>2. fault' \in Faults /\ UNCHANGED <<clientVars, connVars, appVars>>
    BY <1>1, <1>3 DEF ConnectorStep, startInLoop, connect, retry, stopInLoop, handleWrite,
       handleError, restart, TypeOK, Assert, Faults
  <2> QED
    BY <1>1, <1>2, <2>1, <2>2 DEF TypeOK
<1>4. CASE newConnection
  <2>1. nextConnId_ \in Nat /\ 1 <= nextConnId_ /\ nextConnId_ <= MaxConns /\ MaxConns \in Nat
    <3>1. Handing
      BY <1>4, AtConnector DEF newConnection, Ops
    <3> QED
      BY <1>1, <3>1, ClientAssumption DEF Handing, TypeOK
  <2>2. nextConnId_ \in Conns /\ nextConnId_ + 1 \in 1..(MaxConns + 1)
    BY <2>1 DEF Conns
  <2> QED
    BY <1>1, <1>2, <1>4, <2>2 DEF newConnection, TypeOK, States
<1>5. CASE testRetry
  BY <1>1, <1>2, <1>5 DEF testRetry, TypeOK
<1>6. ASSUME NEW c \in Conns, \/ connectEstablished(c) \/ handleClose(c)
                              \/ removeConnection(c) \/ connectDestroyed(c)
      PROVE  TypeOK'
  <2>1. /\ state_' \in [Conns -> States \cup {"none", "kDisconnecting"}]
        /\ addedToLoop_' \in [Conns -> BOOLEAN] /\ connection_' \in Conns \cup {0}
    BY <1>1, <1>6 DEF connectEstablished, handleClose, removeConnection, connectDestroyed,
       resetConnection, TypeOK, States
  <2>2. /\ fault' \in Faults
        /\ UNCHANGED <<connect_, nextConnId_, connectorVars, appVars>>
    BY <1>1, <1>6 DEF connectEstablished, handleClose, removeConnection, connectDestroyed,
       TypeOK, Assert, Faults
  <2> QED
    BY <1>1, <1>2, <2>1, <2>2 DEF TypeOK
<1>7. CASE RunFunctor
  <2>1. pending' \in Seq([op : Ops, conn : {0}])
    BY <1>1, <1>7 DEF RunFunctor, TypeOK
  <2> QED
    BY <1>1, <1>2, <1>7, <2>1 DEF RunFunctor, TypeOK
<1>8. CASE \/ \E callbacks \in ConnectorCallbacks : handleEvent(callbacks)
           \/ \E c \in Conns : serverCloses(c)
           \/ UNCHANGED vars
  BY <1>1, <1>2, <1>8 DEF handleEvent, serverCloses, vars, TypeOK
<1>9. ASSUME NEW call \in DOMAIN Limit, Begins(call)
      PROVE  /\ calls' \in [DOMAIN Limit -> Nat]
             /\ \A any \in DOMAIN Limit : calls'[any] <= Limit[any]
  <2>1. Limit[call] \in Nat
    BY ClientAssumption DEF Limit
  <2>2. calls[call] \in Nat /\ calls[call] + 1 <= Limit[call]
    BY <1>1, <1>9, <2>1 DEF Begins, TypeOK
  <2> QED
    BY <1>1, <1>9, <2>2 DEF Begins, TypeOK
<1>10. CASE connectInLoop \/ stopInLoopThread
  <2>1. PICK call \in {"connect", "stop"} : \E flag \in BOOLEAN : \E op \in Ops :
            callInLoop(call, flag, op)
    BY <1>10 DEF connectInLoop, stopInLoopThread, Ops
  <2>2. call \in DOMAIN Limit
    BY DEF Limit
  <2> QED
    BY <1>1, <1>2, <1>9, <2>1, <2>2 DEF callInLoop, TypeOK
<1>11. CASE disconnectInLoop
  <2>1. "disconnect" \in DOMAIN Limit
    BY DEF Limit
  <2>2. state_' \in [Conns -> States \cup {"none", "kDisconnecting"}]
    BY <1>1, <1>11 DEF disconnectInLoop, TypeOK
  <2> QED
    BY <1>1, <1>2, <1>9, <1>11, <2>1, <2>2 DEF disconnectInLoop, TypeOK
<1>12. CASE UserStep
  <2>1. ASSUME NEW call \in {"connect", "stop"}, NEW flag \in BOOLEAN, userBegins(call, flag)
        PROVE  TypeOK'
    <3>1. call \in DOMAIN Limit
      BY DEF Limit
    <3> QED
      BY <1>1, <1>2, <1>9, <2>1, <3>1 DEF userBegins, TypeOK
  <2>2. ASSUME NEW call \in {"connect", "stop"}, NEW flag \in BOOLEAN,
               NEW next \in {"startInLoop", "stopInLoop"}, userSetsConnector(call, flag, next)
        PROVE  TypeOK'
    BY <1>1, <1>2, <2>2 DEF userSetsConnector, TypeOK
  <2>3. ASSUME NEW op \in {"startInLoop", "stopInLoop"}, userPosts(op)
        PROVE  TypeOK'
    <3>1. On(op, 0) \in [op : Ops, conn : {0}]
      BY DEF On, Ops
    <3>2. pending' \in Seq([op : Ops, conn : {0}])
      BY <1>1, <2>3, <3>1 DEF userPosts, TypeOK
    <3> QED
      BY <1>1, <1>2, <2>3, <3>2 DEF userPosts, TypeOK
  <2> QED
    BY <1>12, <2>1, <2>2, <2>3 DEF UserStep
<1> QED
  BY <1>3, <1>4, <1>5, <1>6, <1>7, <1>8, <1>10, <1>11, <1>12 DEF Next, ClientStep

(* The loop thread's own calls leave the start alone.                      *)
LEMMA StartKept ==
    ASSUME StartInv, UNCHANGED appVars, Untouched => Untouched'
    PROVE  StartInv'
BY DEF StartInv, appVars, Owed, StartWaits

-----------------------------------------------------------------------------
(* A call of the connector moves the thread from phase to phase.           *)
LEMMA ConnectorPhase ==
    ASSUME ClientInv, ConnectorStep
    PROVE  Phase' /\ StartInv' /\ fault' = "none"
<1> USE DEF clientVars, connectorVars, connVars
<1>0. StartInv /\ Phase /\ TypeOK /\ fault = "none"
  BY DEF ClientInv
<1>1. \A o \in Ops : Do(o) = Just(o, 0)
  BY DEF Do, Just
<1>2. \A o, p \in Ops :
          /\ Continue(<<>>) /\ Tail(stack) = <<>> => stack' = <<>>
          /\ Continue(<<>>) /\ Tail(stack) = Just(o, 0) => stack' = Just(o, 0)
          /\ Continue(Just(o, 0)) /\ Tail(stack) = <<>> => stack' = Just(o, 0)
          /\ Continue(Just(o, 0)) /\ Tail(stack) = Just(p, 0) => stack' = Then(o, 0, p)
  BY Goes
<1>3. "handleWrite" \in Ops /\ "startInLoop" \in Ops /\ "connect" \in Ops /\ "retry" \in Ops
      /\ "stopInLoop" \in Ops /\ "handleError" \in Ops /\ "restart" \in Ops
      /\ "newConnection" \in Ops
  BY DEF Ops
<1>4. CASE startInLoop
  <2>1. /\ ~channel_ /\ connection_ = 0 /\ NoneAdded /\ connectorState_ = "kDisconnected"
        /\ Tail(stack) = <<>> \/ Tail(stack) = Just("handleWrite", 0)
        /\ ~Untouched
    BY <1>3, <1>4, AtConnector DEF startInLoop
  <2>2. /\ UNCHANGED <<channel_, connection_, addedToLoop_, connectorState_, appVars>>
        /\ fault' = "none"
    BY <1>4, <2>1 DEF startInLoop, Assert
  <2>3. stack' \in {<<>>, Just("handleWrite", 0), Just("connect", 0),
                    Then("connect", 0, "handleWrite")}
    BY <1>1, <1>2, <1>3, <1>4, <2>1 DEF startInLoop
  <2>4. Attempting' \/ Resting'
    BY <2>1, <2>2, <2>3 DEF Attempting, Resting, NoneAdded
  <2> QED
    BY <1>0, <2>1, <2>2, <2>4, StartKept DEF Phase
<1>5. CASE connect
  <2>1. /\ ~channel_ /\ connection_ = 0 /\ NoneAdded /\ connectorState_ = "kDisconnected"
        /\ Tail(stack) = <<>> \/ Tail(stack) = Just("handleWrite", 0)
        /\ ~Untouched
    BY <1>3, <1>5, AtConnector DEF connect
  <2>2. UNCHANGED <<connection_, nextConnId_, addedToLoop_, appVars>> /\ fault' = "none"
    BY <1>0, <1>5, <2>1 DEF connect, Assert
  <2>3. CASE Continue(Do("retry")) /\ UNCHANGED <<connectorState_, channel_>>
    <3>1. stack' \in {Just("retry", 0), Then("retry", 0, "handleWrite")}
      BY <1>1, <1>2, <1>3, <2>1, <2>3
    <3> QED
      BY <2>1, <2>2, <2>3, <3>1, <1>0, StartKept DEF Phase, Attempting, NoneAdded
  <2>4. CASE Continue(<<>>) /\ UNCHANGED <<connectorState_, channel_>>
    <3>1. stack' \in {<<>>, Just("handleWrite", 0)}
      BY <1>2, <1>3, <2>1, <2>4
    <3>2. Resting'
      BY <2>1, <2>2, <2>4, <3>1 DEF Resting, NoneAdded
    <3> QED
      BY <2>1, <2>2, <3>2, <1>0, StartKept DEF Phase
  <2>5. CASE Continue(<<>>) /\ nextConnId_ <= MaxConns /\ connectorState_' = "kConnecting"
             /\ channel_' = TRUE
    <3>1. stack' \in {<<>>, Just("handleWrite", 0)}
      BY <1>2, <1>3, <2>1, <2>5
    <3>2. Polled'
      BY <2>1, <2>2, <2>5, <3>1 DEF Polled, NoneAdded
    <3> QED
      BY <2>1, <2>2, <3>2, <1>0, StartKept DEF Phase
  <2> QED
    BY <1>5, <2>3, <2>4, <2>5 DEF connect
<1>6. CASE retry
  <2>1. /\ ~channel_ /\ connection_ = 0 /\ NoneAdded /\ ~Untouched
        /\ Tail(stack) = <<>> \/ Tail(stack) = Just("handleWrite", 0)
    BY <1>3, <1>6, AtConnector DEF retry
  <2>2. /\ UNCHANGED <<channel_, connection_, addedToLoop_, appVars>>
        /\ connectorState_' = "kDisconnected" /\ fault' = "none"
    BY <1>0, <1>6 DEF retry
  <2>3. stack' \in {<<>>, Just("handleWrite", 0), Just("startInLoop", 0),
                    Then("startInLoop", 0, "handleWrite")}
    BY <1>1, <1>2, <1>3, <1>6, <2>1 DEF retry
  <2>4. Attempting' \/ Resting'
    BY <2>1, <2>2, <2>3 DEF Attempting, Resting, NoneAdded
  <2> QED
    BY <1>0, <2>1, <2>2, <2>4, StartKept DEF Phase
<1>7. CASE stopInLoop
  <2>1. Tail(stack) = <<>> /\ stack = Just("stopInLoop", 0)
    BY <1>3, <1>7, AtConnector DEF stopInLoop
  <2>2. stack # <<>> /\ \A o \in Ops : \A d \in Conns \cup {0} :
            /\ stack = Just(o, d) => o = "stopInLoop"
            /\ \A p \in Ops : stack = Then(o, d, p) => o = "stopInLoop"
    <3>1. At("stopInLoop", 0)
      BY <1>7 DEF stopInLoop
    <3> QED
      BY <1>3, <3>1, Heads
  <2>3. Polled \/ Resting \/ \E c \in Conns : Holding(c) /\ OnlyAdded(c)
                                  /\ state_[c] \in {"kConnected", "kDisconnecting"}
    <3>1. ~Attempting
      BY <2>2 DEF Attempting, Ops
    <3>2. ~Handing /\ ~Lost
      BY <2>2 DEF Handing, Lost, Ops
    <3>3. ASSUME NEW c \in Conns, Holding(c)
          PROVE  OnlyAdded(c) /\ state_[c] \in {"kConnected", "kDisconnecting"}
      BY <2>2, <3>3 DEF Holding, Ops
    <3>4. ASSUME NEW c \in Conns
          PROVE  ~Losing(c)
      BY <2>2 DEF Losing, Ops
    <3> QED
      BY <1>0, <3>1, <3>2, <3>3, <3>4 DEF Phase
  <2>4. UNCHANGED <<connection_, addedToLoop_, state_, appVars>> /\ fault' = "none"
    BY <1>0, <1>7 DEF stopInLoop
  <2>5. CASE connectorState_ = "kConnecting"
    <3>1. Polled
      BY <2>3, <2>5 DEF Resting, Holding
    <3>2. channel_' = FALSE /\ connectorState_' = "kDisconnected" /\ stack' = Just("retry", 0)
      BY <1>1, <1>2, <1>3, <1>7, <2>1, <2>5 DEF stopInLoop, resetChannel
    <3>3. Attempting' /\ ~Untouched
      BY <2>4, <3>1, <3>2 DEF Attempting, Polled, Untouched, NoneAdded
    <3> QED
      BY <1>0, <2>4, <3>3, StartKept DEF Phase
  <2>6. CASE connectorState_ # "kConnecting"
    <3>1. UNCHANGED <<connectorState_, channel_>> /\ stack' = <<>>
      BY <1>2, <1>3, <1>7, <2>1, <2>6 DEF stopInLoop
    <3>2. Untouched => Untouched'
      BY <2>4, <3>1 DEF Untouched, NoneAdded
    <3>3. ~Polled
      BY <2>6 DEF Polled
    <3>4. Resting => Resting'
      BY <2>4, <3>1 DEF Resting, NoneAdded
    <3>5. \A c \in Conns : Holding(c) /\ OnlyAdded(c)
              /\ state_[c] \in {"kConnected", "kDisconnecting"} => Holding(c)'
      BY <2>4, <3>1 DEF Holding, OnlyAdded
    <3>6. Phase'
      BY <2>3, <3>3, <3>4, <3>5 DEF Phase
    <3> QED
      BY <1>0, <2>4, <3>2, <3>6, StartKept
  <2> QED
    BY <2>5, <2>6
<1>8. CASE handleWrite
  <2>1. Tail(stack) = <<>> /\ (Polled \/ Resting) /\ ~Untouched
    BY <1>3, <1>8, AtConnector DEF handleWrite
  <2>2. UNCHANGED <<connection_, nextConnId_, addedToLoop_, appVars>> /\ fault' = "none"
    BY <1>0, <1>8 DEF handleWrite
  <2>3. CASE Polled
    <3>1. /\ channel_' = FALSE /\ connectorState_' = "kConnected"
          /\ stack' = <<>> \/ stack' = Just("newConnection", 0)
      BY <1>1, <1>2, <1>3, <1>8, <2>1, <2>3 DEF handleWrite, resetChannel, Polled
    <3>2. Handing' \/ Resting'
      BY <2>2, <2>3, <3>1 DEF Handing, Resting, Polled, NoneAdded
    <3> QED
      BY <1>0, <2>1, <2>2, <3>2, StartKept DEF Phase
  <2>4. CASE Resting
    <3>1. UNCHANGED <<connectorState_, channel_>> /\ stack' = <<>>
      BY <1>2, <1>3, <1>8, <2>1, <2>4 DEF handleWrite, Resting
    <3>2. Resting'
      BY <2>2, <2>4, <3>1 DEF Resting, NoneAdded
    <3> QED
      BY <1>0, <2>1, <2>2, <3>2, StartKept DEF Phase
  <2> QED
    BY <2>1, <2>3, <2>4
<1>9. CASE handleError
  <2>1. /\ Tail(stack) = <<>> \/ Tail(stack) = Just("handleWrite", 0)
        /\ Polled /\ ~Untouched
    BY <1>3, <1>9, AtConnector DEF handleError
  <2>2. UNCHANGED <<connection_, addedToLoop_, appVars>> /\ fault' = "none"
    BY <1>0, <1>9 DEF handleError
  <2>3. channel_' = FALSE /\ stack' \in {Just("retry", 0), Then("retry", 0, "handleWrite")}
    BY <1>1, <1>2, <1>3, <1>9, <2>1 DEF handleError, resetChannel, Polled
  <2>4. Attempting'
    BY <2>1, <2>2, <2>3 DEF Attempting, Polled, NoneAdded
  <2> QED
    BY <1>0, <2>1, <2>2, <2>4, StartKept DEF Phase
<1>10. CASE restart
  <2>1. Tail(stack) = <<>> /\ Lost /\ ~Untouched
    BY <1>3, <1>10, AtConnector DEF restart
  <2>2. /\ UNCHANGED <<connection_, channel_, addedToLoop_, appVars>> /\ fault' = "none"
        /\ connectorState_' = "kDisconnected" /\ stack' = Just("startInLoop", 0)
    BY <1>0, <1>1, <1>2, <1>3, <1>10, <2>1 DEF restart
  <2>3. Attempting'
    BY <2>1, <2>2 DEF Attempting, Lost, NoneAdded
  <2> QED
    BY <1>0, <2>1, <2>2, <2>3, StartKept DEF Phase
<1> QED
  BY <1>4, <1>5, <1>6, <1>7, <1>8, <1>9, <1>10 DEF ConnectorStep

(* So does a call of the client or of its connection.                      *)
LEMMA ClientPhase ==
    ASSUME ClientInv, ClientStep
    PROVE  Phase' /\ StartInv' /\ fault' = "none"
<1> USE DEF clientVars, connectorVars, connVars
<1>0. StartInv /\ Phase /\ TypeOK /\ fault = "none"
  BY DEF ClientInv
<1>1. \A o \in Ops : Do(o) = Just(o, 0)
  BY DEF Do, Just
<1>2. \A o, p \in Ops : \A c \in Conns \cup {0} :
          /\ Continue(<<>>) /\ Tail(stack) = <<>> => stack' = <<>>
          /\ Continue(<<>>) /\ Tail(stack) = Just(o, c) => stack' = Just(o, c)
          /\ Continue(Just(o, c)) /\ Tail(stack) = <<>> => stack' = Just(o, c)
          /\ Continue(Then(o, c, p)) /\ Tail(stack) = <<>> => stack' = Then(o, c, p)
  BY Goes
<1>3. "connectEstablished" \in Ops /\ "handleClose" \in Ops /\ "removeConnection" \in Ops
      /\ "connectDestroyed" \in Ops /\ "testRetry" \in Ops /\ "restart" \in Ops
      /\ "newConnection" \in Ops
  BY DEF Ops
<1>4. CASE newConnection
  <2>1. Tail(stack) = <<>> /\ Handing /\ ~Untouched
    BY <1>3, <1>4, AtConnector DEF newConnection
  <2>2. PICK c \in Conns : c = nextConnId_
    BY <1>0, <2>1, ClientAssumption DEF Handing, TypeOK, Conns
  <2>3. Continue(Just("connectEstablished", c))
    BY <1>4, <2>2 DEF newConnection, Just
  <2>4. /\ UNCHANGED <<connectorState_, channel_, addedToLoop_, appVars>> /\ fault' = "none"
        /\ connection_' = c /\ state_'[c] = "kConnecting"
        /\ stack' = Just("connectEstablished", c)
    BY <1>0, <1>2, <1>3, <1>4, <2>1, <2>2, <2>3 DEF newConnection, TypeOK
  <2>5. Holding(c)'
    BY <2>1, <2>4 DEF Holding, Handing, NoneAdded
  <2> QED
    BY <1>0, <2>1, <2>4, <2>5, StartKept DEF Phase
<1>5. CASE testRetry
  <2>1. Tail(stack) = <<>> /\ Lost /\ ~Untouched
    BY <1>3, <1>5, AtConnector DEF testRetry
  <2>2. /\ UNCHANGED <<connection_, connectorState_, channel_, addedToLoop_, appVars>>
        /\ fault' = "none" /\ stack' \in {<<>>, Just("restart", 0)}
    BY <1>0, <1>1, <1>2, <1>3, <1>5, <2>1 DEF testRetry
  <2>3. Lost' \/ Resting'
    BY <2>1, <2>2 DEF Lost, Resting, NoneAdded
  <2> QED
    BY <1>0, <2>1, <2>2, <2>3, StartKept DEF Phase
<1>6. ASSUME NEW c \in Conns, connectEstablished(c)
      PROVE  Phase' /\ StartInv' /\ fault' = "none"
  <2>1. /\ Holding(c) /\ Tail(stack) = <<>> /\ NoneAdded /\ state_[c] = "kConnecting"
        /\ ~Untouched
    BY <1>3, <1>6, AtConnection DEF connectEstablished
  <2>2. /\ UNCHANGED <<connection_, connectorState_, channel_, appVars>> /\ fault' = "none"
        /\ state_'[c] = "kConnected" /\ addedToLoop_' = [addedToLoop_ EXCEPT ![c] = TRUE]
        /\ stack' = <<>>
    BY <1>0, <1>2, <1>3, <1>6, <2>1 DEF connectEstablished, Assert, TypeOK
  <2>3. OnlyAdded(c)'
    BY <1>0, <2>1, <2>2 DEF OnlyAdded, NoneAdded, TypeOK
  <2>4. Holding(c)'
    BY <2>1, <2>2, <2>3 DEF Holding
  <2> QED
    BY <1>0, <2>1, <2>2, <2>4, StartKept DEF Phase
<1>7. ASSUME NEW c \in Conns, handleClose(c)
      PROVE  Phase' /\ StartInv' /\ fault' = "none"
  <2>1. /\ Holding(c) /\ Tail(stack) = <<>> /\ OnlyAdded(c) /\ ~Untouched
        /\ state_[c] \in {"kConnected", "kDisconnecting"}
    BY <1>3, <1>7, AtConnection DEF handleClose
  <2>2. Continue(Just("removeConnection", c))
    BY <1>7 DEF handleClose, Just
  <2>3. /\ UNCHANGED <<connection_, connectorState_, channel_, addedToLoop_, appVars>>
        /\ fault' = "none" /\ state_'[c] = "kDisconnected"
        /\ stack' = Just("removeConnection", c)
    BY <1>0, <1>2, <1>3, <1>7, <2>1, <2>2 DEF handleClose, Assert, TypeOK
  <2>4. Holding(c)'
    BY <2>1, <2>3 DEF Holding, OnlyAdded
  <2> QED
    BY <1>0, <2>1, <2>3, <2>4, StartKept DEF Phase
<1>8. ASSUME NEW c \in Conns, removeConnection(c)
      PROVE  Phase' /\ StartInv' /\ fault' = "none"
  <2>1. /\ Holding(c) /\ Tail(stack) = <<>> /\ OnlyAdded(c) /\ state_[c] = "kDisconnected"
        /\ ~Untouched
    BY <1>3, <1>8, AtConnection DEF removeConnection
  <2>2. Continue(Then("connectDestroyed", c, "testRetry"))
    <3>1. Just("connectDestroyed", c) \o Do("testRetry") = Then("connectDestroyed", c, "testRetry")
      BY <1>3, Goes
    <3>2. Continue(Just("connectDestroyed", c) \o Do("testRetry"))
      BY <1>8 DEF removeConnection, Just
    <3> QED
      BY <3>1, <3>2
  <2>3. /\ UNCHANGED <<connectorState_, channel_, addedToLoop_, state_, appVars>>
        /\ fault' = "none" /\ connection_' = 0
        /\ stack' = Then("connectDestroyed", c, "testRetry")
    BY <1>2, <1>3, <1>8, <2>1, <2>2 DEF removeConnection, resetConnection, Assert, Holding
  <2>4. Losing(c)'
    BY <2>1, <2>3 DEF Holding, Losing, OnlyAdded
  <2> QED
    BY <1>0, <2>1, <2>3, <2>4, StartKept DEF Phase
<1>9. ASSUME NEW c \in Conns, connectDestroyed(c)
      PROVE  Phase' /\ StartInv' /\ fault' = "none"
  <2>1. Losing(c) /\ Tail(stack) = Just("testRetry", 0) /\ ~Untouched
    BY <1>3, <1>9, AtConnection DEF connectDestroyed
  <2>2. /\ UNCHANGED <<connection_, connectorState_, channel_, appVars>> /\ fault' = "none"
        /\ addedToLoop_' = [addedToLoop_ EXCEPT ![c] = FALSE]
        /\ stack' = Just("testRetry", 0)
    BY <1>0, <1>2, <1>3, <1>9, <2>1 DEF connectDestroyed, Losing
  <2>3. NoneAdded'
    BY <1>0, <2>1, <2>2 DEF NoneAdded, Losing, OnlyAdded, TypeOK
  <2>4. Lost'
    BY <2>1, <2>2, <2>3 DEF Lost, Losing
  <2> QED
    BY <1>0, <2>1, <2>2, <2>4, StartKept DEF Phase
<1> QED
  BY <1>4, <1>5, <1>6, <1>7, <1>8, <1>9 DEF ClientStep

(* Between two calls the connector is polled or rests, or the client has   *)
(* an open connection.                                                     *)
LEMMA BetweenCalls ==
    ASSUME ClientInv, stack = <<>>
    PROVE  \/ Polled
           \/ Resting
           \/ \E c \in Conns : /\ Holding(c) /\ OnlyAdded(c)
                               /\ state_[c] \in {"kConnected", "kDisconnecting"}
<1>1. \A o, p \in Ops : \A c \in Conns \cup {0} : stack # Just(o, c) /\ stack # Then(o, c, p)
  <2> SUFFICES ASSUME NEW o \in Ops, NEW p \in Ops, NEW c \in Conns \cup {0}
               PROVE  stack # Just(o, c) /\ stack # Then(o, c, p)
    OBVIOUS
  <2>1. On(o, c) \in Call /\ On(p, 0) \in Call
    BY CallIs
  <2> QED
    BY <2>1, Stacks DEF Just, Then
<1>2. ~Attempting
  BY <1>1 DEF Attempting, Ops
<1>3. ~Handing /\ ~Lost
  BY <1>1 DEF Handing, Lost, Ops
<1>4. \A c \in Conns : ~Losing(c)
  BY <1>1 DEF Losing, Ops
<1>5. ASSUME NEW c \in Conns, Holding(c)
      PROVE  OnlyAdded(c) /\ state_[c] \in {"kConnected", "kDisconnecting"}
  BY <1>1, <1>5 DEF Holding, Ops
<1> QED
  BY <1>2, <1>3, <1>4, <1>5 DEF ClientInv, Phase

(* Then the thread can take a stopInLoop, its own or a functor.            *)
LEMMA StopPhase ==
    ASSUME ClientInv, stack = <<>>, stack' = Just("stopInLoop", 0),
           UNCHANGED <<connection_, nextConnId_, connectorState_, channel_, connVars>>
    PROVE  Phase' /\ (Untouched => Untouched')
<1> USE DEF connVars
<1>1. Polled => Polled'
  BY DEF Polled, NoneAdded
<1>2. Resting => Resting'
  BY DEF Resting, NoneAdded
<1>3. \A c \in Conns : Holding(c) /\ OnlyAdded(c)
          /\ state_[c] \in {"kConnected", "kDisconnecting"} => Holding(c)'
  BY DEF Holding, OnlyAdded
<1>4. Untouched => Untouched'
  BY DEF Untouched, NoneAdded
<1> QED
  BY <1>1, <1>2, <1>3, <1>4, BetweenCalls DEF Phase

(* An event on the connector's channel, or the end of a connection.        *)
LEMMA EventPhase ==
    ASSUME ClientInv,
           \/ \E callbacks \in ConnectorCallbacks : handleEvent(callbacks)
           \/ \E c \in Conns : serverCloses(c)
    PROVE  Phase' /\ StartInv' /\ fault' = "none"
<1> USE DEF clientVars, connectorVars, connVars
<1>0. StartInv /\ fault = "none" /\ TypeOK
  BY DEF ClientInv
<1>1. ASSUME NEW callbacks \in ConnectorCallbacks, handleEvent(callbacks)
      PROVE  Phase' /\ StartInv' /\ fault' = "none"
  <2>1. Polled /\ ~Untouched
    BY <1>1, BetweenCalls DEF handleEvent, Resting, Holding, Untouched
  <2>2. callbacks \in {Just("handleWrite", 0), Just("handleError", 0),
                       Then("handleError", 0, "handleWrite")}
    <3>1. "handleError" \in Ops /\ "handleWrite" \in Ops
      BY DEF Ops
    <3>2. Just("handleError", 0) \o Do("handleWrite") = Then("handleError", 0, "handleWrite")
      BY <3>1, Goes
    <3> QED
      BY <3>2 DEF ConnectorCallbacks, Do, Just
  <2>3. Polled' /\ UNCHANGED appVars /\ fault' = "none"
    BY <1>0, <1>1, <2>1, <2>2 DEF handleEvent, Polled, NoneAdded
  <2> QED
    BY <1>0, <2>1, <2>3, StartKept DEF Phase
<1>2. ASSUME NEW c \in Conns, serverCloses(c)
      PROVE  Phase' /\ StartInv' /\ fault' = "none"
  <2>1. /\ Holding(c) /\ OnlyAdded(c) /\ state_[c] \in {"kConnected", "kDisconnecting"}
        /\ ~Untouched
    BY <1>2, BetweenCalls DEF serverCloses, Polled, Resting, OnlyAdded, NoneAdded, Untouched
  <2>2. stack' = Just("handleClose", c)
    BY <1>2 DEF serverCloses, Just
  <2>3. Holding(c)' /\ UNCHANGED appVars /\ fault' = "none"
    BY <1>0, <1>2, <2>1, <2>2 DEF serverCloses, Holding, OnlyAdded
  <2> QED
    BY <1>0, <2>1, <2>3, StartKept DEF Phase
<1> QED
  BY <1>1, <1>2

(* A connector as its constructor left it can only rest.                   *)
LEMMA UntouchedStarts ==
    ASSUME Untouched, stack' = Just("startInLoop", 0),
           UNCHANGED <<connection_, connectorState_, channel_, connVars>>
    PROVE  Phase'
BY DEF Untouched, Phase, Attempting, NoneAdded, connVars

LEMMA RunFunctorPhase ==
    ASSUME ClientInv, RunFunctor
    PROVE  Phase' /\ StartInv' /\ fault' = "none"
<1> USE DEF clientVars, connectorVars, connVars
<1>0. StartInv /\ fault = "none" /\ TypeOK
  BY DEF ClientInv
<1>1. /\ stack = <<>> /\ stack' = <<Head(pending)>> /\ pending' = Tail(pending)
      /\ UNCHANGED <<connection_, nextConnId_, connectorState_, channel_, connVars, user,
                     calls, fault>>
  BY DEF RunFunctor
<1>2. pending \in Seq([op : Ops, conn : {0}]) /\ pending # <<>> /\ Len(pending) \in Nat \ {0}
  <2>1. pending \in Seq([op : Ops, conn : {0}]) /\ pending # <<>>
    BY <1>0 DEF RunFunctor, TypeOK
  <2> QED
    BY <2>1, EmptySeq, LenProperties
<1>3. /\ 1 \in DOMAIN pending /\ Head(pending) = pending[1]
      /\ \A i \in DOMAIN pending' : /\ i \in Int /\ i + 1 \in DOMAIN pending /\ i + 1 # 1
                                    /\ pending'[i] = pending[i + 1]
  BY <1>1, <1>2
<1>4. /\ \A i \in DOMAIN pending' : pending'[i] \in {On("startInLoop", 0), On("stopInLoop", 0)}
      /\ StartWaits' => StartWaits
  BY <1>0, <1>3 DEF StartInv, StartWaits
<1>5. \A i, j \in DOMAIN pending' :
          pending'[i] = On("startInLoop", 0) /\ pending'[j] = On("startInLoop", 0) => i = j
  <2> SUFFICES ASSUME NEW i \in DOMAIN pending', NEW j \in DOMAIN pending',
                      pending'[i] = On("startInLoop", 0), pending'[j] = On("startInLoop", 0)
               PROVE  i = j
    OBVIOUS
  <2>1. i + 1 = j + 1
    BY <1>0, <1>3 DEF StartInv
  <2> QED
    BY <1>3, <2>1
<1>6. CASE pending[1] = On("startInLoop", 0)
  <2>1. StartWaits /\ Owed
    BY <1>3, <1>6 DEF StartWaits, Owed
  <2>2. Untouched /\ calls["connect"] # 0 /\ user \notin {"connect", "startInLoop"}
    BY <1>0, <2>1 DEF StartInv
  <2>3. ~StartWaits'
    BY <1>0, <1>3, <1>6 DEF StartInv, StartWaits
  <2>4. ~Owed'
    BY <1>1, <2>2, <2>3 DEF Owed
  <2>5. Phase'
    BY <1>1, <1>3, <1>6, <2>2, UntouchedStarts DEF Just
  <2> QED
    BY <1>0, <1>1, <1>4, <1>5, <2>2, <2>3, <2>4, <2>5 DEF StartInv
<1>7. CASE pending[1] = On("stopInLoop", 0)
  <2>1. stack' = Just("stopInLoop", 0)
    BY <1>1, <1>3, <1>7 DEF Just
  <2>2. Phase' /\ (Untouched => Untouched')
    BY <1>1, <2>1, StopPhase
  <2>3. Owed' => Owed
    BY <1>1, <1>4 DEF Owed
  <2> QED
    BY <1>0, <1>1, <1>4, <1>5, <2>2, <2>3 DEF StartInv
<1> QED
  BY <1>0, <1>3, <1>6, <1>7 DEF StartInv

LEMMA InLoopPhase ==
    ASSUME ClientInv, MaxConnects <= 1, connectInLoop \/ stopInLoopThread \/ disconnectInLoop
    PROVE  Phase' /\ StartInv' /\ fault' = "none"
<1> USE DEF clientVars, connectorVars, connVars
<1>0. StartInv /\ fault = "none" /\ TypeOK
  BY DEF ClientInv
<1>1. /\ calls \in [{"connect", "disconnect", "stop"} -> Nat] /\ Limit["connect"] = MaxConnects
      /\ MaxConnects \in Nat
  BY <1>0, ClientAssumption DEF TypeOK, Limit
<1>2. CASE connectInLoop
  <2>1. callInLoop("connect", TRUE, "startInLoop")
    BY <1>2 DEF connectInLoop
  <2>2. calls["connect"] = 0 /\ calls'["connect"] = 1
    BY <1>1, <2>1 DEF callInLoop, Begins
  <2>3. Untouched /\ ~Owed
    BY <1>0, <2>2 DEF StartInv
  <2>4. /\ stack' = Just("startInLoop", 0) /\ UNCHANGED <<pending, user>>
        /\ UNCHANGED <<connection_, connectorState_, channel_, connVars, fault>>
    BY <2>1 DEF callInLoop, Do, Just
  <2>5. ~Owed' /\ (StartWaits' <=> StartWaits)
    BY <2>3, <2>4 DEF Owed, StartWaits
  <2>6. Phase'
    BY <2>3, <2>4, UntouchedStarts
  <2> QED
    BY <1>0, <2>2, <2>4, <2>5, <2>6 DEF StartInv
<1>3. CASE stopInLoopThread
  <2>1. callInLoop("stop", FALSE, "stopInLoop")
    BY <1>3 DEF stopInLoopThread
  <2>2. calls'["connect"] = calls["connect"]
    BY <1>1, <2>1 DEF callInLoop, Begins
  <2>3. /\ stack = <<>> /\ stack' = Just("stopInLoop", 0) /\ UNCHANGED <<pending, user>>
        /\ UNCHANGED <<connection_, nextConnId_, connectorState_, channel_, connVars, fault>>
    BY <2>1 DEF callInLoop, Do, Just
  <2>4. Phase' /\ (Untouched => Untouched')
    BY <2>3, StopPhase
  <2>5. (Owed' <=> Owed) /\ (StartWaits' <=> StartWaits)
    BY <2>3 DEF Owed, StartWaits
  <2> QED
    BY <1>0, <2>2, <2>3, <2>4, <2>5 DEF StartInv
<1>4. CASE disconnectInLoop
  <2>1. calls'["connect"] = calls["connect"]
    BY <1>1, <1>4 DEF disconnectInLoop, Begins
  <2>2. /\ stack = <<>>
        /\ UNCHANGED <<stack, pending, user, connection_, nextConnId_, connectorState_, channel_,
                       addedToLoop_, fault>>
    BY <1>4 DEF disconnectInLoop
  <2>3. \A c \in Conns : state_[c] \in {"kConnected", "kDisconnecting"} =>
            state_'[c] \in {"kConnected", "kDisconnecting"}
    BY <1>4 DEF disconnectInLoop
  <2>4. Polled => Polled'
    BY <2>2 DEF Polled, NoneAdded
  <2>5. Resting => Resting'
    BY <2>2 DEF Resting, NoneAdded
  <2>6. \A c \in Conns : Holding(c) /\ OnlyAdded(c)
            /\ state_[c] \in {"kConnected", "kDisconnecting"} => Holding(c)'
    BY <2>2, <2>3 DEF Holding, OnlyAdded
  <2>7. Phase'
    BY <2>2, <2>4, <2>5, <2>6, BetweenCalls DEF Phase
  <2>8. (Owed' <=> Owed) /\ (StartWaits' <=> StartWaits) /\ (Untouched => Untouched')
    BY <2>2 DEF Owed, StartWaits, Untouched, NoneAdded
  <2> QED
    BY <1>0, <2>1, <2>2, <2>7, <2>8 DEF StartInv
<1> QED
  BY <1>2, <1>3, <1>4

(* The application thread changes no phase.                                *)
LEMMA PhaseKept ==
    ASSUME Phase,
           UNCHANGED <<connection_, nextConnId_, connectorState_, channel_, connVars, stack>>
    PROVE  Phase' /\ (Untouched' <=> Untouched)
<1> USE DEF connVars
<1>1. (NoneAdded' <=> NoneAdded) /\ \A c \in Conns : OnlyAdded(c)' <=> OnlyAdded(c)
  BY DEF NoneAdded, OnlyAdded
<1>2. Attempting' <=> Attempting
  BY <1>1 DEF Attempting
<1>3. (Polled' <=> Polled) /\ (Resting' <=> Resting) /\ (Handing' <=> Handing) /\ (Lost' <=> Lost)
  BY <1>1 DEF Polled, Resting, Handing, Lost
<1>4. \A c \in Conns : (Holding(c)' <=> Holding(c)) /\ (Losing(c)' <=> Losing(c))
  BY <1>1 DEF Holding, Losing
<1> QED
  BY <1>1, <1>2, <1>3, <1>4 DEF Phase, Untouched

LEMMA UserPhase ==
    ASSUME ClientInv, MaxConnects <= 1, UserStep
    PROVE  Phase' /\ StartInv' /\ fault' = "none"
<1> USE DEF clientVars, connectorVars, connVars
<1>0. StartInv /\ fault = "none" /\ TypeOK /\ Phase
  BY DEF ClientInv
<1>1. /\ calls \in [{"connect", "disconnect", "stop"} -> Nat] /\ Limit["connect"] = MaxConnects
      /\ MaxConnects \in Nat
  BY <1>0, ClientAssumption DEF TypeOK, Limit
<1>2. UNCHANGED <<connection_, nextConnId_, connectorState_, channel_, connVars, stack, fault>>
  BY DEF UserStep, userBegins, userSetsConnector, userPosts
<1>3. Phase' /\ (Untouched' <=> Untouched) /\ fault' = "none"
  BY <1>0, <1>2, PhaseKept
<1>4. CASE userBegins("connect", TRUE)
  <2>1. /\ calls["connect"] = 0 /\ calls'["connect"] = 1 /\ user' = "connect"
        /\ UNCHANGED pending
    BY <1>1, <1>4 DEF userBegins, Begins
  <2>2. Untouched' /\ ~StartWaits'
    BY <1>0, <1>3, <2>1 DEF StartInv, Owed, StartWaits
  <2> QED
    BY <1>0, <1>3, <2>1, <2>2 DEF StartInv
<1>5. CASE userBegins("stop", FALSE)
  <2>1. calls'["connect"] = calls["connect"] /\ user' = "stop" /\ user = "idle"
        /\ UNCHANGED pending
    BY <1>1, <1>5 DEF userBegins, Begins
  <2>2. (StartWaits' <=> StartWaits) /\ (Owed' <=> Owed)
    BY <2>1 DEF StartWaits, Owed
  <2> QED
    BY <1>0, <1>3, <2>1, <2>2 DEF StartInv
<1>6. CASE \/ userSetsConnector("connect", TRUE, "startInLoop")
           \/ userSetsConnector("stop", FALSE, "stopInLoop")
  <2>1. /\ \/ user = "connect" /\ user' = "startInLoop"
           \/ user = "stop" /\ user' = "stopInLoop"
        /\ UNCHANGED <<pending, calls>>
    BY <1>6 DEF userSetsConnector
  <2>2. (StartWaits' <=> StartWaits) /\ (Owed' <=> Owed)
    BY <2>1 DEF StartWaits, Owed
  <2> QED
    BY <1>0, <1>3, <2>1, <2>2 DEF StartInv
<1>7. ASSUME NEW op \in {"startInLoop", "stopInLoop"}, userPosts(op)
      PROVE  StartInv'
  <2>1. /\ user = op /\ user' = "idle" /\ UNCHANGED calls
        /\ pending' = Append(pending, On(op, 0))
    BY <1>7 DEF userPosts
  <2>2. pending \in Seq([op : Ops, conn : {0}]) /\ Len(pending) \in Nat
    BY <1>0 DEF TypeOK
  <2>3. /\ DOMAIN pending' = 1..(Len(pending) + 1) /\ DOMAIN pending = 1..Len(pending)
        /\ \A i \in 1..Len(pending) : pending'[i] = pending[i]
        /\ pending'[Len(pending) + 1] = On(op, 0)
    BY <2>1, <2>2
  <2>4. \A i \in DOMAIN pending' : i \in DOMAIN pending \/ i = Len(pending) + 1
    BY <2>2, <2>3
  <2>5. \A i \in DOMAIN pending' : pending'[i] \in {On("startInLoop", 0), On("stopInLoop", 0)}
    BY <1>0, <2>3, <2>4 DEF StartInv
  <2>6. CASE op = "startInLoop"
    <3>1. Owed /\ ~StartWaits
      BY <1>0, <2>1, <2>6 DEF Owed, StartInv
    <3>2. \A i, j \in DOMAIN pending' :
              pending'[i] = On("startInLoop", 0) /\ pending'[j] = On("startInLoop", 0) => i = j
      BY <2>3, <2>4, <3>1 DEF StartWaits
    <3> QED
      BY <1>0, <1>3, <2>1, <2>5, <3>1, <3>2 DEF StartInv
  <2>7. CASE op = "stopInLoop"
    <3>1. On("stopInLoop", 0) # On("startInLoop", 0)
      BY DEF On
    <3>2. \A i \in DOMAIN pending' : pending'[i] = On("startInLoop", 0) => i \in DOMAIN pending
      BY <2>3, <2>4, <2>7, <3>1
    <3>3. \A i, j \in DOMAIN pending' :
              pending'[i] = On("startInLoop", 0) /\ pending'[j] = On("startInLoop", 0) => i = j
      BY <1>0, <2>3, <3>2 DEF StartInv
    <3>4. StartWaits' => StartWaits
      BY <2>3, <3>2 DEF StartWaits
    <3>5. Owed' => Owed
      BY <2>1, <3>4 DEF Owed
    <3> QED
      BY <1>0, <1>3, <2>1, <2>5, <3>3, <3>5 DEF StartInv
  <2> QED
    BY <2>6, <2>7
<1> QED
  BY <1>3, <1>4, <1>5, <1>6, <1>7 DEF UserStep

LEMMA ClientInvInit == Init => ClientInv
<1> SUFFICES ASSUME Init PROVE ClientInv
  OBVIOUS
<1>1. Resting /\ Untouched
  BY DEF Init, Resting, Untouched, NoneAdded
<1>2. StartInv
  BY <1>1 DEF Init, StartInv, Owed, StartWaits, Limit
<1>3. TypeOK
  <2>1. stack \in Seq(Call) /\ pending \in Seq([op : Ops, conn : {0}])
    BY DEF Init
  <2>2. calls \in [DOMAIN Limit -> Nat] /\ \A call \in DOMAIN Limit : calls[call] <= Limit[call]
    BY ClientAssumption DEF Init, Limit
  <2>3. nextConnId_ \in 1..(MaxConns + 1)
    BY ClientAssumption DEF Init
  <2>4. /\ state_ \in [Conns -> States \cup {"none", "kDisconnecting"}]
        /\ addedToLoop_ \in [Conns -> BOOLEAN]
    BY DEF Init
  <2> QED
    BY <2>1, <2>2, <2>3, <2>4 DEF Init, TypeOK, States, Faults, Call
<1> QED
  BY <1>1, <1>2, <1>3 DEF ClientInv, Phase, Init

LEMMA ClientInvStep == ClientInv /\ MaxConnects <= 1 /\ [Next]_vars => ClientInv'
<1> SUFFICES ASSUME ClientInv, MaxConnects <= 1, [Next]_vars
             PROVE  ClientInv'
  OBVIOUS
<1>1. CASE UNCHANGED vars
  <2>1. Phase /\ StartInv /\ fault = "none"
    BY DEF ClientInv
  <2>2. Phase' /\ (Untouched => Untouched')
    BY <1>1, <2>1, PhaseKept DEF vars, clientVars, connectorVars
  <2> QED
    BY <1>1, <2>1, <2>2, StartKept, PhaseStack, TypeOKStep DEF vars, ClientInv
<1>2. CASE Next
  <2>1. Phase' /\ StartInv' /\ fault' = "none"
    BY <1>2, ConnectorPhase, ClientPhase, RunFunctorPhase, EventPhase, InLoopPhase, UserPhase
    DEF Next
  <2> QED
    BY <2>1, PhaseStack, TypeOKStep DEF ClientInv
<1> QED
  BY <1>1, <1>2

LEMMA ClientInvHolds ==
    ASSUME MaxConnects <= 1
    PROVE  Spec => []ClientInv
<1>1. ClientInv /\ [Next]_vars => ClientInv'
  BY ClientInvStep
<1> QED
  BY <1>1, ClientInvInit, PTL DEF Spec

-----------------------------------------------------------------------------
(* The variables keep their types: no connection is made beyond those the  *)
(* server accepts.                                                         *)
THEOREM TypeCorrect == MaxConnects <= 1 => (Spec => []TypeOK)
<1> SUFFICES ASSUME MaxConnects <= 1
             PROVE  Spec => []TypeOK
  OBVIOUS
<1>1. ClientInv => TypeOK
  BY DEF ClientInv
<1> QED
  BY <1>1, ClientInvHolds, PTL

(* With one call of connect(), stop() and disconnect() whenever and        *)
(* however often they come, and any number of connections lost and         *)
(* replaced: no assertion of Connector, TcpClient or TcpConnection fails.  *)
THEOREM NoAssertionFails == MaxConnects <= 1 => (Spec => []AssertionsHold)
<1> SUFFICES ASSUME MaxConnects <= 1
             PROVE  Spec => []AssertionsHold
  OBVIOUS
<1>1. ClientInv => AssertionsHold
  BY DEF ClientInv, AssertionsHold
<1> QED
  BY <1>1, ClientInvHolds, PTL

(* Then the connector has a channel exactly while an attempt is under way, *)
(* and works only while there is no connection; two connections are never  *)
(* with the poller.                                                        *)
THEOREM AttemptOrConnection == MaxConnects <= 1 => (Spec => []OneAtATime)
<1> SUFFICES ASSUME MaxConnects <= 1
             PROVE  Spec => []OneAtATime
  OBVIOUS
<1>1. ASSUME ClientInv PROVE OneAtATime
  <2>1. Phase
    BY <1>1 DEF ClientInv
  <2>2. channel_ => Polled
    BY <2>1 DEF Phase, Attempting, Resting, Handing, Lost, Holding, Losing
  <2>3. stack = <<>> /\ connectorState_ = "kConnecting" => channel_
    BY <1>1, BetweenCalls DEF Polled, Resting, Holding
  <2>4. NoneAdded \/ \E c \in Conns : OnlyAdded(c)
    BY <2>1 DEF Phase, Attempting, Polled, Resting, Handing, Lost, Holding, Losing
  <2> QED
    BY <2>2, <2>3, <2>4 DEF OneAtATime, Polled, NoneAdded, OnlyAdded
<1> QED
  BY <1>1, ClientInvHolds, PTL

(* Between two calls of the loop thread the poller knows the client's      *)
(* connection and no other.                                                *)
THEOREM HeldIffRegistered == MaxConnects <= 1 => (Spec => []ConnectionIsLive)
<1> SUFFICES ASSUME MaxConnects <= 1
             PROVE  Spec => []ConnectionIsLive
  OBVIOUS
<1>1. ASSUME ClientInv PROVE ConnectionIsLive
  BY <1>1, BetweenCalls, ZeroIsNone
  DEF ConnectionIsLive, Polled, Resting, Holding, NoneAdded, OnlyAdded
<1> QED
  BY <1>1, ClientInvHolds, PTL

-----------------------------------------------------------------------------
(* The connections that nextConnId_ has not reached are not made yet.      *)
Unmade == \A c \in Conns : c >= nextConnId_ => state_[c] = "none"

(* What a step may do to connection c: the state goes on, never back; the  *)
(* client takes c when c is new and nothing is left of an earlier one, and *)
(* lets go of it when it is closed; the poller gets c while the client has *)
(* it and loses it after the client has let go.                            *)
TakesItsTurn(c) ==
    /\ \/ state_'[c] = state_[c]
       \/ state_[c] = "none" /\ state_'[c] = "kConnecting"
       \/ state_[c] = "kConnecting" /\ state_'[c] = "kConnected"
       \/ state_[c] = "kConnected" /\ state_'[c] \in {"kDisconnecting", "kDisconnected"}
       \/ state_[c] = "kDisconnecting" /\ state_'[c] = "kDisconnected"
    /\ connection_ # c /\ connection_' = c => connection_ = 0 /\ NoneAdded /\ state_[c] = "none"
    /\ connection_ = c /\ connection_' # c => connection_' = 0 /\ state_[c] = "kDisconnected"
    /\ ~addedToLoop_[c] /\ addedToLoop_'[c] => connection_ = c /\ state_[c] = "kConnecting"
    /\ addedToLoop_[c] /\ ~addedToLoop_'[c] => connection_ = 0 /\ state_[c] = "kDisconnected"

InTurn == \A c \in Conns : TakesItsTurn(c)

LEMMA InTurnStep ==
    ASSUME ClientInv, Unmade, [Next]_vars
    PROVE  InTurn /\ Unmade'
<1> USE DEF clientVars, connectorVars, connVars, appVars
<1>0. /\ state_ \in [Conns -> States \cup {"none", "kDisconnecting"}]
      /\ addedToLoop_ \in [Conns -> BOOLEAN]
      /\ nextConnId_ \in 1..(MaxConns + 1) /\ MaxConns \in Nat
      /\ connection_ \in Conns \cup {0} /\ 0 \notin Conns
  BY ZeroIsNone, ClientAssumption DEF ClientInv, TypeOK
<1>1. CASE UNCHANGED <<connection_, nextConnId_, connVars>>
  BY <1>1 DEF InTurn, TakesItsTurn, Unmade
<1>2. CASE newConnection
  <2>1. Handing
    BY <1>2, AtConnector DEF newConnection, Ops
  <2>2. nextConnId_ \in Conns /\ state_[nextConnId_] = "none"
    BY <1>0, <2>1 DEF Handing, Conns, Unmade
  <2>3. /\ connection_ = 0 /\ NoneAdded
        /\ connection_' = nextConnId_ /\ nextConnId_' = nextConnId_ + 1
        /\ state_' = [state_ EXCEPT ![nextConnId_] = "kConnecting"]
        /\ UNCHANGED addedToLoop_
    BY <1>2, <2>1 DEF newConnection, Handing
  <2>4. Unmade'
    BY <1>0, <2>2, <2>3 DEF Unmade, Conns
  <2>5. InTurn
    BY <1>0, <2>2, <2>3 DEF InTurn, TakesItsTurn
  <2> QED
    BY <2>4, <2>5
<1>3. ASSUME NEW c \in Conns, connectEstablished(c)
      PROVE  InTurn /\ Unmade'
  <2>1. Holding(c) /\ state_[c] = "kConnecting"
    BY <1>3, AtConnection DEF connectEstablished, Ops
  <2>2. /\ connection_ = c /\ UNCHANGED <<connection_, nextConnId_>>
        /\ state_' = [state_ EXCEPT ![c] = "kConnected"]
        /\ addedToLoop_' = [addedToLoop_ EXCEPT ![c] = TRUE]
    BY <1>3, <2>1 DEF connectEstablished, Holding
  <2> QED
    BY <1>0, <2>1, <2>2 DEF InTurn, TakesItsTurn, Unmade
<1>4. ASSUME NEW c \in Conns, handleClose(c)
      PROVE  InTurn /\ Unmade'
  <2>1. state_[c] \in {"kConnected", "kDisconnecting"}
    BY <1>4, AtConnection DEF handleClose, Ops
  <2>2. /\ UNCHANGED <<connection_, nextConnId_, addedToLoop_>>
        /\ state_' = [state_ EXCEPT ![c] = "kDisconnected"]
    BY <1>4 DEF handleClose
  <2> QED
    BY <1>0, <2>1, <2>2 DEF InTurn, TakesItsTurn, Unmade
<1>5. ASSUME NEW c \in Conns, removeConnection(c)
      PROVE  InTurn /\ Unmade'
  <2>1. Holding(c) /\ state_[c] = "kDisconnected"
    BY <1>5, AtConnection DEF removeConnection, Ops
  <2>2. connection_ = c /\ connection_' = 0 /\ UNCHANGED <<nextConnId_, state_, addedToLoop_>>
    BY <1>5, <2>1 DEF removeConnection, resetConnection, Holding
  <2> QED
    BY <1>0, <2>1, <2>2 DEF InTurn, TakesItsTurn, Unmade
<1>6. ASSUME NEW c \in Conns, connectDestroyed(c)
      PROVE  InTurn /\ Unmade'
  <2>1. Losing(c)
    BY <1>6, AtConnection DEF connectDestroyed, Ops
  <2>2. connection_ = 0 /\ state_[c] = "kDisconnected"
    BY <2>1 DEF Losing
  <2>3. /\ UNCHANGED <<connection_, nextConnId_>>
        /\ state_' = [state_ EXCEPT ![c] = "kDisconnected"]
        /\ addedToLoop_' = [addedToLoop_ EXCEPT ![c] = FALSE]
    BY <1>6 DEF connectDestroyed
  <2> QED
    BY <1>0, <2>2, <2>3 DEF InTurn, TakesItsTurn, Unmade
<1>7. CASE disconnectInLoop
  <2>1. /\ UNCHANGED <<connection_, nextConnId_, addedToLoop_>>
        /\ state_' = [c \in Conns |-> IF c = connection_ /\ state_[c] = "kConnected"
                                      THEN "kDisconnecting" ELSE state_[c]]
    BY <1>7 DEF disconnectInLoop
  <2> QED
    BY <1>0, <2>1 DEF InTurn, TakesItsTurn, Unmade
<1>8. CASE ConnectorStep \/ testRetry \/ RunFunctor \/ UserStep \/ UNCHANGED vars
  <2>1. CASE ConnectorStep
    BY <1>1, <2>1 DEF ConnectorStep, startInLoop, connect, retry, stopInLoop, handleWrite,
       handleError, restart
  <2>2. CASE testRetry \/ RunFunctor \/ UNCHANGED vars
    BY <1>1, <2>2 DEF testRetry, RunFunctor, vars
  <2>3. CASE UserStep
    BY <1>1, <2>3 DEF UserStep, userBegins, userSetsConnector, userPosts
  <2> QED
    BY <1>8, <2>1, <2>2, <2>3
<1>9. CASE \/ connectInLoop \/ stopInLoopThread
           \/ (\E callbacks \in ConnectorCallbacks : handleEvent(callbacks))
           \/ (\E c \in Conns : serverCloses(c))
  BY <1>1, <1>9 DEF connectInLoop, stopInLoopThread, callInLoop, handleEvent, serverCloses
<1> QED
  BY <1>2, <1>3, <1>4, <1>5, <1>6, <1>7, <1>8, <1>9 DEF Next, ClientStep

(* With one call of connect(), and however connections are lost, replaced  *)
(* and disconnected: each is made once and goes once through its states,   *)
(* the next one comes only when the client and the poller are done with    *)
(* the one before, and none is let go of while it is open.                 *)
THEOREM OneAfterTheOther == MaxConnects <= 1 => (Spec => [][InTurn]_vars)
<1> SUFFICES ASSUME MaxConnects <= 1
             PROVE  Spec => [][InTurn]_vars
  OBVIOUS
<1>1. Init => Unmade
  BY DEF Init, Unmade
<1>2. ClientInv /\ Unmade /\ [Next]_vars => Unmade' /\ InTurn
  BY InTurnStep
<1> QED
  BY <1>1, <1>2, ClientInvHolds, PTL DEF Spec
=============================================================================
