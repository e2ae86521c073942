------------------------------ MODULE SendPath ------------------------------
(***************************************************************************)
(* What one TcpConnection sends: outputBuffer_, the write interest of its  *)
(* channel, the socket's send buffer, and the end of the stream.  The loop *)
(* thread sends and shuts down from its callbacks; another thread does so  *)
(* through functors.  send() of that thread is one step, since its functor *)
(* is delayed anyway; in shutdown() the test and the store of state_ are   *)
(* two.  A message is a sequence of bytes, 0 being NUL.                    *)
(***************************************************************************)
EXTENDS Integers, Sequences, FiniteSetsExt

CONSTANTS
    Strings,   \* messages for send(const std::string&)
    Arrays,    \* messages for send(const char*, int); NUL follows the last byte
    Capacity,  \* external: bytes the socket's send buffer holds
    MaxSends   \* bound: calls of send()

ASSUME SendPathAssumption ==
    /\ Strings \subseteq Seq(Nat)
    /\ Arrays \subseteq Seq(Nat)
    /\ Capacity \in Nat
    /\ MaxSends \in Nat

VARIABLES
    state_,
    life,           \* "open", "closed" by handleClose, "removed" by connectDestroyed
    writing,        \* channel_->isWriting()
    addedToLoop_,   \* the poller knows the channel
    outputBuffer_,
    fin,            \* shutdownWrite() was called
    kernel,         \* external: the socket's send buffer
    received,       \* external: what the peer has read
    peer,           \* external: "open" or "closed"
    posted,         \* functors of the other thread
    user,           \* where the other thread is: "idle", or in shutdown()
    sends,          \* calls of send() so far
    sent,           \* history: the bytes of every message, as its send began
    cut,            \* history: a message lost its end in sendInLoopChar
    overtaken,      \* history: FIN or close came while a send was still posted
    fault           \* what ended the process, or "none"

channelVars == <<writing, addedToLoop_>>
network == <<kernel, received, peer>>
other == <<posted, user>>
vars == <<state_, life, channelVars, outputBuffer_, fin, network, other, sends, sent,
          cut, overtaken, fault>>

Message == [kind : {"string"}, bytes : Strings] \cup [kind : {"array"}, bytes : Arrays]
Shutdown == [kind |-> "shutdown", bytes |-> <<>>]
SendPosted == \E i \in DOMAIN posted : posted[i] # Shutdown

Init ==
    /\ state_ = "kConnected" /\ life = "open"
    /\ writing = FALSE /\ addedToLoop_ = TRUE
    /\ outputBuffer_ = <<>> /\ fin = FALSE
    /\ kernel = <<>> /\ received = <<>> /\ peer = "open"
    /\ posted = <<>> /\ user = "idle"
    /\ sends = 0 /\ sent = <<>>
    /\ cut = FALSE /\ overtaken = FALSE /\ fault = "none"

-----------------------------------------------------------------------------
(* External: how many bytes write(2) takes: what fits, or none on an error *)
(* (both callers treat -1 as 0).                                           *)
Accepted(bytes) == {0, Min({Len(bytes), Capacity - Len(kernel)})}

(* External: writing behind a FIN, and at some point to a peer that has    *)
(* closed, raises SIGPIPE, which nothing in the program ignores.           *)
MayBreak == fin \/ peer = "closed"

After(bytes, n) == SubSeq(bytes, n + 1, Len(bytes))

(* std::string(message): the bytes before the first NUL.                   *)
CString(bytes) ==
    LET nul == {i \in DOMAIN bytes : bytes[i] = 0}
    IN  IF nul = {} THEN bytes ELSE SubSeq(bytes, 1, Min(nul) - 1)

(* Wrong on purpose: a message does not wait for older bytes.              *)
WriteAtOnce_Always == TRUE

(* A message may be written directly if none is waiting.                   *)
WriteAtOnce == ~writing /\ outputBuffer_ = <<>>

(* Wrong on purpose: the write interest is not switched on.                *)
enableWriting_Forgotten == UNCHANGED channelVars

(* if(!channel_->isWriting()) channel_->enableWriting().                   *)
enableWriting == writing' = TRUE /\ addedToLoop_' = (addedToLoop_ \/ ~writing)

(* sendInLoop and sendInLoopChar: what cannot be written at once is taken  *)
(* from text, the message as the buffering code sees it.                   *)
SendInLoop(m, text) ==
    LET Ends(why) == fault' = why /\ UNCHANGED <<channelVars, outputBuffer_, kernel, sent>>
    IN  \/ WriteAtOnce /\ MayBreak /\ Ends("SIGPIPE") /\ UNCHANGED cut
        \/ /\ WriteAtOnce => ~fin
           /\ \E n \in IF WriteAtOnce THEN Accepted(m.bytes) ELSE {0} :
                 /\ cut' = (cut \/ (n < Len(m.bytes) /\ text # m.bytes))
                 /\ IF n < Len(m.bytes) /\ n > Len(text)
                    THEN Ends("length_error")
                    ELSE /\ kernel' = kernel \o SubSeq(m.bytes, 1, n)
                         /\ sent' = sent \o m.bytes
                         /\ IF n < Len(m.bytes)
                            THEN outputBuffer_' = outputBuffer_ \o After(text, n) /\ enableWriting
                            ELSE UNCHANGED <<channelVars, outputBuffer_>>
                         /\ UNCHANGED fault

Perform(m) == SendInLoop(m, IF m.kind = "array" THEN CString(m.bytes) ELSE m.bytes)

(* Wrong on purpose: the FIN does not wait for what is still buffered.     *)
ShutdownInLoop_Now(writingNow) ==
    /\ fin' = TRUE
    /\ overtaken' = (overtaken \/ SendPosted)

(* shutdownInLoop, given isWriting().                                      *)
ShutdownInLoop(writingNow) ==
    /\ fin' = (fin \/ ~writingNow)
    /\ overtaken' = (overtaken \/ (~writingNow /\ SendPosted))

-----------------------------------------------------------------------------
(* The loop thread.                                                        *)

(* Wrong on purpose: send() while the connection is being shut down.       *)
Connected_Closing == state_ # "kDisconnected"

(* The test at the beginning of send() and shutdown().                     *)
Connected == state_ = "kConnected"

(* send() in a callback.                                                   *)
send(m) ==
    /\ fault = "none" /\ life = "open" /\ Connected
    /\ sends < MaxSends
    /\ sends' = sends + 1
    /\ Perform(m)
    /\ UNCHANGED <<state_, life, fin, received, peer, other, overtaken>>

(* shutdown() in a callback.                                               *)
shutdown ==
    /\ fault = "none" /\ life = "open" /\ Connected
    /\ state_' = "kDisconnecting"
    /\ ShutdownInLoop(writing)
    /\ UNCHANGED <<life, channelVars, outputBuffer_, network, other, sends, sent, cut, fault>>

(* doPendingFunctors, one functor.                                         *)
RunFunctor ==
    /\ fault = "none" /\ posted # <<>>
    /\ posted' = Tail(posted)
    /\ IF Head(posted) = Shutdown
       THEN /\ ShutdownInLoop(writing)
            /\ UNCHANGED <<channelVars, outputBuffer_, kernel, sent, cut, fault>>
       ELSE Perform(Head(posted)) /\ UNCHANGED <<fin, overtaken>>
    /\ UNCHANGED <<state_, life, received, peer, user, sends>>

(* handleWrite, called while the channel is polled for POLLOUT.            *)
handleWrite ==
    /\ fault = "none" /\ writing /\ addedToLoop_ /\ outputBuffer_ # <<>>
    /\ \/ /\ MayBreak /\ fault' = "SIGPIPE"
          /\ UNCHANGED <<writing, outputBuffer_, kernel, fin, overtaken>>
       \/ /\ ~fin
          /\ \E n \in Accepted(outputBuffer_) :
                /\ kernel' = kernel \o SubSeq(outputBuffer_, 1, n)
                /\ outputBuffer_' = After(outputBuffer_, n)
          /\ writing' = (outputBuffer_' # <<>>)
          /\ IF outputBuffer_' = <<>> /\ state_ = "kDisconnecting"
             THEN ShutdownInLoop(writing') ELSE UNCHANGED <<fin, overtaken>>
          /\ UNCHANGED fault
    /\ UNCHANGED <<state_, life, addedToLoop_, received, peer, other, sends, sent, cut>>

(* handleClose, when handleRead finds that the peer has closed.            *)
handleClose ==
    /\ fault = "none" /\ life = "open" /\ peer = "closed"
    /\ fault' = IF state_ \in {"kConnected", "kDisconnecting"} THEN "none" ELSE "TcpConnection:73"
    /\ life' = "closed" /\ state_' = "kDisconnected"
    /\ writing' = FALSE
    /\ overtaken' = (overtaken \/ SendPosted)
    /\ UNCHANGED <<addedToLoop_, outputBuffer_, fin, network, other, sends, sent, cut>>

(* Wrong on purpose: the channel stays in the poller.                      *)
remove_Forgotten(events) == fault' = "none" /\ UNCHANGED addedToLoop_

(* Channel::remove, given whether the channel still has events.            *)
remove(events) ==
    /\ fault' = IF events THEN "Channel:48" ELSE "none"
    /\ addedToLoop_' = FALSE

(* connectDestroyed.  That a state_ set back by shutdown() calls           *)
(* closeCallback_ again is in TcpServer.tla.                               *)
connectDestroyed ==
    /\ fault = "none" /\ life = "closed"
    /\ writing' = (writing /\ state_ = "kDisconnected")
    /\ state_' = "kDisconnected"
    /\ remove(writing')
    /\ life' = "removed"
    /\ UNCHANGED <<outputBuffer_, fin, network, other, sends, sent, cut, overtaken>>

-----------------------------------------------------------------------------
(* The other thread.                                                       *)

(* A string is copied into the functor; of a char array only the pointer   *)
(* is, and the bytes are read when the functor runs (see userReuses).      *)
userSend(m) ==
    /\ fault = "none" /\ user = "idle" /\ Connected
    /\ sends < MaxSends
    /\ sends' = sends + 1
    /\ posted' = Append(posted, m)
    /\ UNCHANGED <<state_, life, channelVars, outputBuffer_, fin, network, user, sent, cut,
                   overtaken, fault>>

(* External: the application writes other bytes into an array it has       *)
(* passed to send() and that is still posted.  It keeps the array: reading *)
(* one it has freed is undefined and not modelled.                         *)
userReuses ==
    /\ fault = "none" /\ user = "idle"
    /\ \E i \in DOMAIN posted, m \in Message :
          /\ posted[i].kind = "array" /\ m.kind = "array"
          /\ Len(m.bytes) = Len(posted[i].bytes)
          /\ posted' = [posted EXCEPT ![i] = m]
    /\ UNCHANGED <<state_, life, channelVars, outputBuffer_, fin, network, user, sends, sent,
                   cut, overtaken, fault>>

userShutdownTests ==
    /\ fault = "none" /\ user = "idle" /\ Connected
    /\ user' = "shutdown"
    /\ UNCHANGED <<state_, life, channelVars, outputBuffer_, fin, network, posted, sends,
                   sent, cut, overtaken, fault>>

userShutdownSets ==
    /\ fault = "none" /\ user = "shutdown"
    /\ user' = "idle"
    /\ state_' = "kDisconnecting"
    /\ posted' = Append(posted, Shutdown)
    /\ UNCHANGED <<life, channelVars, outputBuffer_, fin, network, sends, sent, cut,
                   overtaken, fault>>

-----------------------------------------------------------------------------
(* External: the peer reads, and closes.                                   *)
peerReads ==
    /\ fault = "none" /\ peer = "open" /\ kernel # <<>>
    /\ received' = Append(received, Head(kernel))
    /\ kernel' = Tail(kernel)
    /\ UNCHANGED <<state_, life, channelVars, outputBuffer_, fin, peer, other, sends, sent,
                   cut, overtaken, fault>>

peerCloses ==
    /\ fault = "none" /\ peer = "open"
    /\ peer' = "closed"
    /\ UNCHANGED <<state_, life, channelVars, outputBuffer_, fin, kernel, received, other,
                   sends, sent, cut, overtaken, fault>>

Next ==
    \/ \E m \in Message : send(m) \/ userSend(m)
    \/ shutdown
    \/ RunFunctor
    \/ handleWrite
    \/ handleClose
    \/ connectDestroyed
    \/ userReuses
    \/ userShutdownTests
    \/ userShutdownSets
    \/ peerReads
    \/ peerCloses

(* The loop serves what poll() reports and what was posted; a thread does  *)
(* not stop within shutdown(); a peer that stays open reads.               *)
Fairness ==
    /\ WF_vars(RunFunctor) /\ WF_vars(handleWrite) /\ WF_vars(handleClose)
    /\ WF_vars(userShutdownSets) /\ WF_vars(peerReads)

Spec == Init /\ [][Next]_vars /\ Fairness

-----------------------------------------------------------------------------
(* Types of the variables.                                                 *)
TypeOK ==
    /\ state_ \in {"kConnected", "kDisconnecting", "kDisconnected"}
    /\ life \in {"open", "closed", "removed"}
    /\ writing \in BOOLEAN /\ addedToLoop_ \in BOOLEAN /\ fin \in BOOLEAN
    /\ outputBuffer_ \in Seq(Nat) /\ received \in Seq(Nat) /\ sent \in Seq(Nat)
    /\ kernel \in Seq(Nat) /\ Len(kernel) <= Capacity
    /\ peer \in {"open", "closed"}
    /\ posted \in Seq(Message \cup {Shutdown})
    /\ user \in {"idle", "shutdown"}
    /\ sends \in 0..MaxSends
    /\ cut \in BOOLEAN /\ overtaken \in BOOLEAN
    /\ fault \in {"none", "SIGPIPE", "length_error", "TcpConnection:73", "Channel:48"}

(* The peer reads the messages' bytes, as the loop finds them, in the      *)
(* order they were sent, none missing and none twice, over every mix of    *)
(* direct, partial and buffered writes; unless sendInLoopChar had to       *)
(* buffer a message with a NUL in it.                                      *)
StreamIntact == ~cut => sent = received \o kernel \o outputBuffer_

(* The channel waits for POLLOUT exactly as long as bytes wait: otherwise  *)
(* the loop would spin, or the bytes would never leave.                    *)
InterestIffBuffered ==
    ~cut /\ life = "open" => (writing <=> outputBuffer_ # <<>>)

(* A peer that reads the end of the stream has read all that was sent, and *)
(* no message is still to be sent, unless the FIN overtook a send of       *)
(* another thread (handleWrite takes kDisconnecting for a sign that        *)
(* shutdownInLoop has run).                                                *)
EofAfterLastByte ==
    fin /\ kernel = <<>> /\ peer = "open" /\ ~cut =>
        received = sent /\ (SendPosted => overtaken)

(* What the connection does by itself never ends the process: SIGPIPE      *)
(* takes a send that the FIN has overtaken or a peer that has closed, the  *)
(* exception a NUL in a buffered char array, and an assertion a send that  *)
(* the close has overtaken.                                                *)
FaultsExplained ==
    /\ fault = "SIGPIPE" => overtaken \/ peer = "closed"
    /\ fault = "length_error" => cut
    /\ fault \in {"TcpConnection:73", "Channel:48"} => overtaken

(* A channel that connectDestroyed has removed stays out of the poller     *)
(* (~Channel asserts it), unless such a late send puts it back.            *)
RemovedForGood == life = "removed" /\ addedToLoop_ => overtaken

(* Once shutdown() has begun, the write side is closed behind the last     *)
(* byte, and the peer gets it all.                                         *)
ShutdownCompletes ==
    state_ = "kDisconnecting" ~>
        (fin /\ received = sent) \/ cut \/ peer = "closed" \/ fault # "none"

=============================================================================
