----------------------------- MODULE PollPoller -----------------------------
(***************************************************************************)
(* The poller of one EventLoop (PollPoller.h, PollPoller.cpp, the map of   *)
(* Poller.h) and the part of Channel that drives it: each Channel keeps    *)
(* the events its user asked for and the index of its entry in pollfds_,   *)
(* the array handed to poll(2).                                            *)
(*                                                                         *)
(* Everything here runs in the loop's thread.  The build keeps assertions  *)
(* on (CMakeLists.txt sets no build type), so an assertion that fails ends *)
(* the process: fault names it and no action is enabled any more.  C++     *)
(* indices start at 0: entry i of pollfds_ is pollfds_[i + 1] here.        *)
(***************************************************************************)
EXTENDS Integers, FiniteSets, SequencesExt

CONSTANTS
    Channels,   \* the Channel objects of the loop
    Wakeup,     \* the one the EventLoop makes for itself
    NoChannel,  \* a key absent from the map channels_
    fdOf,       \* Channel::fd_, one descriptor per channel for its whole life
    Writers,    \* the channels that are ever asked for POLLOUT; not an Acceptor's
    MaxReady    \* entries that poll(2) reports at once

ASSUME PollerAssumption ==
    /\ Wakeup \in Channels
    /\ NoChannel \notin Channels
    /\ fdOf \in [Channels -> Nat]
    /\ \A c \in Channels \ {Wakeup} : fdOf[c] # fdOf[Wakeup]
    /\ Writers \subseteq Channels
    /\ MaxReady \in Nat

VARIABLES
    events_,        \* per channel: the events its user cares about
    index_,         \* per channel: its entry in pollfds_, -1 if none
    addedToLoop_,   \* per channel
    pollfds_,       \* the array for poll(2)
    channels_,      \* from descriptors to channels
    activeChannels, \* what the last poll() reported
    fault,          \* the assertion that ended the process, or "none"
    hole,           \* history: the lowest place erased in front of others, -1 if none
    muted           \* history: channels whose entry was left without events

vars == <<events_, index_, addedToLoop_, pollfds_, channels_, activeChannels, fault,
          hole, muted>>

Interest == {"read", "write"}
Fds == {fdOf[c] : c \in Channels}
PollFd == [fd : Fds \cup {-1}, events : SUBSET Interest]
Faults == {"none", "update:30", "update:40", "update:43", "update:45", "remove:57",
           "erase:58", "fill:19"}

(* The constructor of EventLoop has enabled reading on the wakeup channel, *)
(* which stays first in the array for as long as the loop lives.           *)
UserChannels == Channels \ {Wakeup}

Init ==
    /\ events_ = [c \in Channels |-> IF c = Wakeup THEN {"read"} ELSE {}]
    /\ index_ = [c \in Channels |-> IF c = Wakeup THEN 0 ELSE -1]
    /\ addedToLoop_ = [c \in Channels |-> c = Wakeup]
    /\ pollfds_ = <<[fd |-> fdOf[Wakeup], events |-> {"read"}]>>
    /\ channels_ = [fd \in Fds |-> IF fd = fdOf[Wakeup] THEN Wakeup ELSE NoChannel]
    /\ activeChannels = {}
    /\ fault = "none"
    /\ hole = -1 /\ muted = {}

Abort(assertion) ==
    /\ fault' = assertion
    /\ UNCHANGED <<index_, pollfds_, channels_>>

-----------------------------------------------------------------------------
(* updateChannel for a channel that has no entry: append one.              *)
AddEntry(c, ev) ==
    IF channels_[fdOf[c]] # NoChannel
    THEN Abort("update:30")
    ELSE /\ pollfds_' = Append(pollfds_, [fd |-> fdOf[c], events |-> ev])
         /\ index_' = [index_ EXCEPT ![c] = Len(pollfds_)]
         /\ channels_' = [channels_ EXCEPT ![fdOf[c]] = c]
         /\ UNCHANGED fault

(* Wrong on purpose: a channel without events keeps its descriptor in the  *)
(* array, where poll(2) still reports POLLHUP and POLLERR for it.          *)
RewriteEntry_KeepFd(c, ev) ==
    /\ pollfds_' = [pollfds_ EXCEPT ![index_[c] + 1].events = ev]
    /\ UNCHANGED <<index_, channels_, fault>>

(* Wrong on purpose: the array keeps the events of the first registration. *)
RewriteEntry_StaleEvents(c, ev) ==
    /\ pollfds_' = [pollfds_ EXCEPT ![index_[c] + 1].fd = IF ev = {} THEN -1 ELSE @]
    /\ UNCHANGED <<index_, channels_, fault>>

(* Wrong on purpose: an ignored entry holds the negated descriptor, which  *)
(* the assertion of the next update does not know.                         *)
RewriteEntry_Negated(c, ev) ==
    /\ pollfds_' = [pollfds_ EXCEPT ![index_[c] + 1] =
                       [fd |-> IF ev = {} THEN -fdOf[c] - 1 ELSE @.fd, events |-> ev]]
    /\ UNCHANGED <<index_, channels_, fault>>

(* updateChannel for a channel that has one: rewrite it.  The descriptor   *)
(* of an entry without events becomes -1, and nothing ever puts it back.   *)
RewriteEntry(c, ev) ==
    LET i == index_[c] + 1
        assertion ==
            CASE channels_[fdOf[c]] # c -> "update:40"
              [] channels_[fdOf[c]] = c /\ i > Len(pollfds_) -> "update:43"
              [] channels_[fdOf[c]] = c /\ i <= Len(pollfds_)
                 /\ pollfds_[i].fd \notin {fdOf[c], -1} -> "update:45"
              [] OTHER -> "none"
    IN  IF assertion # "none"
        THEN Abort(assertion)
        ELSE /\ pollfds_' = [pollfds_ EXCEPT
                                ![i] = [fd |-> IF ev = {} THEN -1 ELSE @.fd, events |-> ev]]
             /\ UNCHANGED <<index_, channels_, fault>>

(* Channel::update, reached from enable..., disable... and disableAll.     *)
(* Callers: a channel starts with an enable call; a descriptor in use by a *)
(* registered channel is open, so no other channel is created on it.  (The *)
(* disableAll of ~Acceptor on a channel that never listened is left out:   *)
(* it appends an entry which the remove next to it erases again.)          *)
Update(c, ev) ==
    /\ fault = "none"
    /\ index_[c] < 0 => ev # {} /\ channels_[fdOf[c]] = NoChannel
    /\ events_' = [events_ EXCEPT ![c] = ev]
    /\ IF index_[c] < 0 THEN AddEntry(c, ev) ELSE RewriteEntry(c, ev)
    /\ addedToLoop_' = [addedToLoop_ EXCEPT ![c] = TRUE]
    /\ muted' = IF ev = {} THEN muted \cup {c} ELSE muted
    /\ UNCHANGED <<activeChannels, hole>>

enableReading(c) == Update(c, events_[c] \cup {"read"})
enableWriting(c) == c \in Writers /\ Update(c, events_[c] \cup {"write"})
disableReading(c) == Update(c, events_[c] \ {"read"})
disableWriting(c) == Update(c, events_[c] \ {"write"})
disableAll(c) == Update(c, {})

-----------------------------------------------------------------------------
(* History: entry i + 1 is erased.  Unless it is the last, the indices of  *)
(* the channels behind it are one too high from now on.                    *)
Erased(i) ==
    hole' = IF hole = -1
            THEN IF i = Len(pollfds_) - 1 THEN -1 ELSE i
            ELSE IF i < hole THEN i ELSE hole

(* Wrong on purpose: the removed channel keeps its index.                  *)
removeChannel_KeepIndex(c) ==
    /\ fault = "none"
    /\ index_[c] >= 0 /\ events_[c] = {} /\ index_[c] < Len(pollfds_)
    /\ addedToLoop_' = [addedToLoop_ EXCEPT ![c] = FALSE]
    /\ pollfds_' = RemoveAt(pollfds_, index_[c] + 1)
    /\ channels_' = [channels_ EXCEPT ![fdOf[c]] = NoChannel]
    /\ Erased(index_[c])
    /\ muted' = muted \ {c}
    /\ UNCHANGED <<index_, events_, activeChannels, fault>>

(* Wrong on purpose: the entry in front of the channel's own is erased.    *)
removeChannel_OffByOne(c) ==
    /\ fault = "none"
    /\ index_[c] >= 0 /\ events_[c] = {} /\ index_[c] < Len(pollfds_)
    /\ addedToLoop_' = [addedToLoop_ EXCEPT ![c] = FALSE]
    /\ pollfds_' = RemoveAt(pollfds_, index_[c])
    /\ channels_' = [channels_ EXCEPT ![fdOf[c]] = NoChannel]
    /\ index_' = [index_ EXCEPT ![c] = -1]
    /\ Erased(index_[c])
    /\ muted' = muted \ {c}
    /\ UNCHANGED <<events_, activeChannels, fault>>

(* Channel::remove and PollPoller::removeChannel.  The entry is erased     *)
(* from the middle of the array, and only the removed channel's index is   *)
(* changed.  Erasing past the end is undefined; it counts as a fault.  A   *)
(* caller removes a registered channel after disableAll, as the assertion  *)
(* of Channel::remove asks; TcpServer.tla has the callers.                 *)
removeChannel(c) ==
    /\ fault = "none"
    /\ index_[c] >= 0 /\ events_[c] = {}
    /\ addedToLoop_' = [addedToLoop_ EXCEPT ![c] = FALSE]
    /\ LET found == channels_[fdOf[c]]
       IN  CASE found = NoChannel -> Abort("remove:57") /\ UNCHANGED hole
             [] found # NoChannel /\ index_[found] >= Len(pollfds_) ->
                    Abort("erase:58") /\ UNCHANGED hole
             [] OTHER ->
                    /\ pollfds_' = RemoveAt(pollfds_, index_[found] + 1)
                    /\ channels_' = [channels_ EXCEPT ![fdOf[c]] = NoChannel]
                    /\ index_' = [index_ EXCEPT ![c] = -1]
                    /\ Erased(index_[found])
                    /\ UNCHANGED fault
    /\ muted' = muted \ {c}
    /\ UNCHANGED <<events_, activeChannels>>

(* poll() and fillActiveChannels.  poll(2) skips entries whose descriptor  *)
(* is -1; for the others it may report readiness, and a hang-up or an      *)
(* error even if no event was asked for.                                   *)
Poll(ready) ==
    /\ fault = "none"
    /\ \A i \in ready : pollfds_[i].fd # -1
    /\ IF \E i \in ready : channels_[pollfds_[i].fd] = NoChannel
       THEN fault' = "fill:19" /\ UNCHANGED activeChannels
       ELSE activeChannels' = {channels_[pollfds_[i].fd] : i \in ready} /\ UNCHANGED fault
    /\ UNCHANGED <<events_, index_, addedToLoop_, pollfds_, channels_, hole, muted>>

Next ==
    \/ \E c \in UserChannels :
          \/ enableReading(c)
          \/ enableWriting(c)
          \/ disableReading(c)
          \/ disableWriting(c)
          \/ disableAll(c)
          \/ removeChannel(c)
    \/ \E ready \in SUBSET DOMAIN pollfds_ : Cardinality(ready) <= MaxReady /\ Poll(ready)

Spec == Init /\ [][Next]_vars

-----------------------------------------------------------------------------
(* Types of the variables.                                                 *)
TypeOK ==
    /\ events_ \in [Channels -> SUBSET Interest]
    /\ index_ \in [Channels -> Nat \cup {-1}]
    /\ addedToLoop_ \in [Channels -> BOOLEAN]
    /\ pollfds_ \in Seq(PollFd)
    /\ channels_ \in [Fds -> Channels \cup {NoChannel}]
    /\ activeChannels \subseteq Channels
    /\ fault \in Faults
    /\ hole \in Nat \cup {-1}
    /\ muted \subseteq Channels

Entry(c) == pollfds_[index_[c] + 1]

(* A registered channel in front of every place an entry was erased from.  *)
Clear(c) == index_[c] >= 0 /\ (hole = -1 \/ index_[c] < hole)

(* The map has every registered channel.  The index of a channel leads to  *)
(* the channel's own entry, in whatever order channels come and go, until  *)
(* an entry in front of it is erased; and as long as none was erased in    *)
(* front of another, the entries are no more than the channels.            *)
IndexConsistent ==
    /\ \A c \in Channels : index_[c] >= 0 => channels_[fdOf[c]] = c
    /\ \A c \in Channels : Clear(c) =>
          /\ index_[c] < Len(pollfds_)
          /\ Entry(c).fd \in {fdOf[c], -1}
    /\ hole = -1 => \A i \in 1..Len(pollfds_) : \E c \in Channels : index_[c] = i - 1

(* Whatever the sequence of calls, the poller's assertions about its map   *)
(* hold; those about indices and entries fail only after an entry was      *)
(* erased in front of others.                                              *)
AbortsOnlyFromHole ==
    fault # "none" =>
        hole # -1 /\ fault \in {"update:43", "update:45", "erase:58", "fill:19"}

(* A channel in front of the erased places is polled for exactly the       *)
(* events its user asked for, however often these change, until it is left *)
(* without events.                                                         *)
InterestIsPolled ==
    \A c \in Channels : Clear(c) /\ events_[c] # {} /\ c \notin muted =>
        Entry(c) = [fd |-> fdOf[c], events |-> events_[c]]

(* The loop can always be woken up: whatever becomes of the other entries, *)
(* those removed in the wrong order included, the wakeup channel's own is  *)
(* polled for reading.                                                     *)
WakeupPolled == pollfds_[1] = [fd |-> fdOf[Wakeup], events |-> {"read"}]

(* The loop is told only about registered channels, and never about one in *)
(* front of the erased places that wants no events: handleEvent is not     *)
(* called on it after disableAll.                                          *)
ReportsOnlyInterested ==
    [][activeChannels' # activeChannels =>
         \A c \in activeChannels' :
             /\ index_[c] >= 0 /\ addedToLoop_[c]
             /\ Clear(c) => events_[c] # {}]_vars

(* What PollPoller.cpp:43-58 takes for granted: no assertion of            *)
(* updateChannel, removeChannel or fillActiveChannels fails, whatever the  *)
(* sequence of calls on the channels.  Removal in front of others breaks   *)
(* it.                                                                     *)
AssertionsHold == fault = "none"

(* What PollPoller.cpp:47 says of an update ("restart to listen"): a       *)
(* channel that is given events again is polled for them again.  After     *)
(* disableAll it is not.                                                   *)
RestartsToListen ==
    \A c \in Channels : Clear(c) /\ events_[c] # {} => Entry(c).fd = fdOf[c]
=============================================================================
