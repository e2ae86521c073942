-------------------------- MODULE PollPoller_proofs -------------------------
(***************************************************************************)
(* Proofs about PollPoller, for any set of channels, any assignment of     *)
(* descriptors and any sequence of calls, removals in any order included.  *)
(***************************************************************************)
EXTENDS PollPoller, SequenceTheorems, TLAPS

(* Erasing any one element: those behind it move up by one.                *)
LEMMA RemoveOne ==
    ASSUME NEW S, NEW s \in Seq(S), NEW i \in 1..Len(s)
    PROVE  /\ RemoveAt(s, i) \in Seq(S)
           /\ Len(RemoveAt(s, i)) = Len(s) - 1
           /\ \A j \in 1..(Len(s) - 1) : RemoveAt(s, i)[j] = IF j < i THEN s[j] ELSE s[j + 1]
<1> DEFINE n == Len(s)
           front == SubSeq(s, 1, i - 1)
           back == SubSeq(s, i + 1, n)
<1>1. n \in Nat /\ i \in Nat /\ 1 <= i /\ i <= n /\ \A j \in 1..n : s[j] \in S
  BY LenProperties, ElementOfSeq
<1> HIDE DEF n
<1>2. front \in Seq(S) /\ Len(front) = i - 1 /\ \A j \in 1..(i - 1) : front[j] = s[j]
  <2>1. \A j \in 1..(i - 1) : s[j] \in S
    BY <1>1
  <2>2. i - 1 \in Int
    BY <1>1
  <2>3. /\ front \in Seq(S)
        /\ Len(front) = IF 1 <= i - 1 THEN (i - 1) - 1 + 1 ELSE 0
        /\ \A j \in 1..((i - 1) - 1 + 1) : front[j] = s[1 + j - 1]
    BY <2>1, <2>2, SubSeqProperties
  <2>4. Len(front) = i - 1
    BY <1>1, <2>3
  <2>5. \A j \in 1..(i - 1) : front[j] = s[j]
    BY <1>1, <2>3
  <2> QED
    BY <2>3, <2>4, <2>5
<1>3. back \in Seq(S) /\ Len(back) = n - i /\ \A j \in 1..(n - i) : back[j] = s[i + j]
  <2>1. \A j \in (i + 1)..n : s[j] \in S
    BY <1>1
  <2>2. i + 1 \in Int /\ n \in Int
    BY <1>1
  <2>3. /\ back \in Seq(S)
        /\ Len(back) = IF i + 1 <= n THEN n - (i + 1) + 1 ELSE 0
        /\ \A j \in 1..(n - (i + 1) + 1) : back[j] = s[(i + 1) + j - 1]
    BY <2>1, <2>2, SubSeqProperties
  <2>4. Len(back) = n - i
    BY <1>1, <2>3
  <2>5. \A j \in 1..(n - i) : back[j] = s[i + j]
    <3> SUFFICES ASSUME NEW j \in 1..(n - i)
                 PROVE  back[j] = s[i + j]
      OBVIOUS
    <3>1. j \in 1..(n - (i + 1) + 1) /\ (i + 1) + j - 1 = i + j
      BY <1>1
    <3> QED
      BY <2>3, <3>1
  <2> QED
    BY <2>3, <2>4, <2>5
<1>4. RemoveAt(s, i) = front \o back
  BY DEF RemoveAt, n
<1> HIDE DEF front, back
<1>5. /\ front \o back \in Seq(S)
      /\ Len(front \o back) = Len(front) + Len(back)
      /\ \A j \in 1..(Len(front) + Len(back)) :
            (front \o back)[j] = IF j <= Len(front) THEN front[j] ELSE back[j - Len(front)]
  BY <1>2, <1>3, ConcatProperties
<1>6. Len(front \o back) = n - 1
  BY <1>1, <1>2, <1>3, <1>5
<1>7. ASSUME NEW j \in 1..(n - 1)
      PROVE  (front \o back)[j] = IF j < i THEN s[j] ELSE s[j + 1]
  <2>1. j \in 1..(Len(front) + Len(back))
    BY <1>1, <1>2, <1>3
  <2>2. CASE j < i
    <3>1. j <= Len(front) /\ j \in 1..(i - 1)
      BY <1>1, <1>2, <2>2
    <3> QED
      BY <1>2, <1>5, <2>1, <2>2, <3>1
  <2>3. CASE ~(j < i)
    <3>1. ~(j <= Len(front)) /\ j - Len(front) \in 1..(n - i)
      BY <1>1, <1>2, <2>3
    <3>2. i + (j - Len(front)) = j + 1
      BY <1>1, <1>2
    <3>3. (front \o back)[j] = back[j - Len(front)]
      BY <1>5, <2>1, <3>1
    <3>4. back[j - Len(front)] = s[i + (j - Len(front))]
      BY <1>3, <3>1
    <3> QED
      BY <2>3, <3>2, <3>3, <3>4
  <2> QED
    BY <2>2, <2>3
<1> QED
  BY <1>4, <1>5, <1>6, <1>7 DEF n

-----------------------------------------------------------------------------
(* Types.                                                                  *)

LEMMA TypeInit == Init => TypeOK
<1> SUFFICES ASSUME Init
             PROVE  TypeOK
  OBVIOUS
<1> USE PollerAssumption
<1>1. /\ events_ \in [Channels -> SUBSET Interest]
      /\ index_ \in [Channels -> Nat \cup {-1}]
      /\ channels_ \in [Fds -> Channels \cup {NoChannel}]
      /\ activeChannels \subseteq Channels
      /\ fault \in Faults /\ hole \in Nat \cup {-1} /\ muted \subseteq Channels
  BY DEF Init, Interest, Fds, Faults
<1>2. addedToLoop_ \in [Channels -> BOOLEAN]
  BY Zenon DEF Init
<1>3. pollfds_ \in Seq(PollFd)
  BY DEF Init, PollFd, Fds, Interest
<1> QED
  BY <1>1, <1>2, <1>3 DEF TypeOK

LEMMA UpdateKeepsTypes ==
    ASSUME TypeOK, NEW c \in Channels, NEW ev \in SUBSET Interest, Update(c, ev)
    PROVE  TypeOK'
<1> USE PollerAssumption
<1>1. /\ fdOf[c] \in Fds /\ index_[c] \in Nat \cup {-1} /\ pollfds_ \in Seq(PollFd)
      /\ Len(pollfds_) \in Nat
  BY LenProperties DEF TypeOK, Fds
<1>2. /\ events_' = [events_ EXCEPT ![c] = ev] /\ activeChannels' = activeChannels
      /\ addedToLoop_' = [addedToLoop_ EXCEPT ![c] = TRUE]
      /\ IF index_[c] < 0 THEN AddEntry(c, ev) ELSE RewriteEntry(c, ev)
  BY Zenon DEF Update
<1>3. addedToLoop_' \in [Channels -> BOOLEAN]
  BY <1>2, Zenon DEF TypeOK
<1>4. /\ events_' \in [Channels -> SUBSET Interest]
      /\ activeChannels' \subseteq Channels
      /\ hole' \in Nat \cup {-1} /\ muted' \subseteq Channels
  BY <1>2 DEF TypeOK, Update
<1> SUFFICES /\ index_' \in [Channels -> Nat \cup {-1}] /\ pollfds_' \in Seq(PollFd)
             /\ channels_' \in [Fds -> Channels \cup {NoChannel}] /\ fault' \in Faults
  BY <1>3, <1>4 DEF TypeOK
<1>5. ASSUME NEW assertion \in Faults, Abort(assertion)
      PROVE  /\ index_' \in [Channels -> Nat \cup {-1}] /\ pollfds_' \in Seq(PollFd)
             /\ channels_' \in [Fds -> Channels \cup {NoChannel}] /\ fault' \in Faults
  BY <1>5, Zenon DEF Abort, TypeOK
<1>6. CASE index_[c] < 0
  <2>1. CASE Abort("update:30")
    BY <1>5, <2>1 DEF Faults
  <2>2. CASE /\ pollfds_' = Append(pollfds_, [fd |-> fdOf[c], events |-> ev])
             /\ index_' = [index_ EXCEPT ![c] = Len(pollfds_)]
             /\ channels_' = [channels_ EXCEPT ![fdOf[c]] = c]
             /\ fault' = fault
    <3>1. [fd |-> fdOf[c], events |-> ev] \in PollFd
      BY <1>1 DEF PollFd
    <3>2. pollfds_' \in Seq(PollFd)
      BY <1>1, <2>2, <3>1, AppendProperties
    <3> QED
      BY <1>1, <2>2, <3>2 DEF TypeOK
  <2> QED
    BY <1>2, <1>6, <2>1, <2>2, Zenon DEF AddEntry
<1>7. CASE ~(index_[c] < 0)
  <2> DEFINE i == index_[c] + 1
             entry == [fd |-> IF ev = {} THEN -1 ELSE pollfds_[i].fd, events |-> ev]
  <2>1. RewriteEntry(c, ev)
    BY <1>2, <1>7, Zenon
  <2>2. CASE \E assertion \in Faults : Abort(assertion)
    BY <1>5, <2>2
  <2>3. CASE /\ i <= Len(pollfds_) /\ pollfds_' = [pollfds_ EXCEPT ![i] = entry]
             /\ index_' = index_ /\ channels_' = channels_ /\ fault' = fault
    <3>1. i \in 1..Len(pollfds_)
      BY <1>1, <1>7, <2>3
    <3>2. pollfds_[i] \in PollFd
      BY <1>1, <3>1, ElementOfSeq
    <3>3. entry \in PollFd
      BY <3>2 DEF PollFd
    <3> HIDE DEF i, entry
    <3>4. pollfds_' \in Seq(PollFd)
      BY <1>1, <2>3, <3>1, <3>3, ExceptSeq
    <3> QED
      BY <2>3, <3>4 DEF TypeOK
  <2>4. \/ \E assertion \in Faults : Abort(assertion)
        \/ /\ i <= Len(pollfds_) /\ pollfds_' = [pollfds_ EXCEPT ![i] = entry]
           /\ index_' = index_ /\ channels_' = channels_ /\ fault' = fault
    <3>1. CASE channels_[fdOf[c]] # c
      <4>1. Abort("update:40")
        BY <2>1, <3>1, Zenon DEF RewriteEntry
      <4> QED
        BY <4>1 DEF Faults
    <3>2. CASE channels_[fdOf[c]] = c /\ i > Len(pollfds_) /\ ~(i <= Len(pollfds_))
      <4>1. Abort("update:43")
        BY <2>1, <3>2, Zenon DEF RewriteEntry
      <4> QED
        BY <4>1 DEF Faults
    <3>3. CASE /\ channels_[fdOf[c]] = c /\ i <= Len(pollfds_) /\ ~(i > Len(pollfds_))
               /\ pollfds_[i].fd \notin {fdOf[c], -1}
      <4>1. Abort("update:45")
        BY <2>1, <3>3, Zenon DEF RewriteEntry
      <4> QED
        BY <4>1 DEF Faults
    <3>4. CASE /\ channels_[fdOf[c]] = c /\ i <= Len(pollfds_) /\ ~(i > Len(pollfds_))
               /\ pollfds_[i].fd \in {fdOf[c], -1}
      BY <2>1, <3>4, Zenon DEF RewriteEntry
    <3>5. i <= Len(pollfds_) <=> ~(i > Len(pollfds_))
      BY <1>1
    <3> QED
      BY <3>1, <3>2, <3>3, <3>4, <3>5, Zenon
  <2> QED
    BY <2>2, <2>3, <2>4
<1> QED
  BY <1>6, <1>7

LEMMA RemoveKeepsTypes ==
    ASSUME TypeOK, NEW c \in Channels, channels_[fdOf[c]] = c, removeChannel(c)
    PROVE  TypeOK'
<1> USE PollerAssumption
<1> DEFINE found == channels_[fdOf[c]]
<1>1. fdOf[c] \in Fds /\ found \in Channels \cup {NoChannel} /\ Len(pollfds_) \in Nat
  BY LenProperties DEF TypeOK, Fds
<1>2. /\ addedToLoop_' = [addedToLoop_ EXCEPT ![c] = FALSE]
      /\ events_' = events_ /\ activeChannels' = activeChannels
  BY Zenon DEF removeChannel
<1>3. addedToLoop_' \in [Channels -> BOOLEAN] /\ muted' \subseteq Channels
  <2>1. muted' = muted \ {c}
    BY Zenon DEF removeChannel
  <2> QED
    BY <1>2, <2>1, Zenon DEF TypeOK
<1>4. CASE found = NoChannel
  <2>1. Abort("remove:57") /\ hole' = hole
    BY <1>4, Zenon DEF removeChannel
  <2> QED
    BY <1>2, <1>3, <2>1 DEF Abort, TypeOK, Faults
<1>5. CASE found # NoChannel /\ index_[found] >= Len(pollfds_)
  <2>1. Abort("erase:58") /\ hole' = hole
    BY <1>5, Zenon DEF removeChannel
  <2> QED
    BY <1>2, <1>3, <2>1 DEF Abort, TypeOK, Faults
<1>6. CASE found # NoChannel /\ ~(index_[found] >= Len(pollfds_))
  <2>1. /\ pollfds_' = RemoveAt(pollfds_, index_[found] + 1)
        /\ channels_' = [channels_ EXCEPT ![fdOf[c]] = NoChannel]
        /\ index_' = [index_ EXCEPT ![c] = -1]
        /\ Erased(index_[found])
        /\ fault' = fault
    BY <1>6, Zenon DEF removeChannel
  <2>2. index_[found] \in 0..(Len(pollfds_) - 1)
    <3>1. index_[found] \in Nat
      BY DEF removeChannel, TypeOK
    <3> HIDE DEF found
    <3> QED
      BY <1>1, <1>6, <3>1
  <2>3. pollfds_' \in Seq(PollFd)
    BY <2>1, <2>2, RemoveOne DEF TypeOK
  <2>4. hole' \in Nat \cup {-1}
    BY <2>1, <2>2 DEF Erased, TypeOK
  <2> QED
    BY <1>1, <1>2, <1>3, <2>1, <2>3, <2>4 DEF TypeOK
<1> QED
  BY <1>4, <1>5, <1>6

LEMMA PollKeepsTypes ==
    ASSUME TypeOK, NEW ready \in SUBSET DOMAIN pollfds_, Poll(ready)
    PROVE  TypeOK'
<1>1. /\ UNCHANGED <<events_, index_, addedToLoop_, pollfds_, channels_, hole, muted>>
      /\ \A i \in ready : pollfds_[i].fd # -1
  BY Zenon DEF Poll
<1>2. ASSUME NEW i \in ready
      PROVE  channels_[pollfds_[i].fd] \in Channels \cup {NoChannel}
  <2>1. i \in 1..Len(pollfds_) /\ pollfds_ \in Seq(PollFd)
    BY LenProperties DEF TypeOK
  <2>2. pollfds_[i] \in PollFd
    BY <2>1, ElementOfSeq
  <2>3. pollfds_[i].fd \in Fds
    BY <1>1, <2>2 DEF PollFd
  <2> QED
    BY <2>3 DEF TypeOK
<1>3. CASE \E i \in ready : channels_[pollfds_[i].fd] = NoChannel
  <2>1. fault' = "fill:19" /\ activeChannels' = activeChannels
    BY <1>3, Zenon DEF Poll
  <2> QED
    BY <1>1, <2>1 DEF TypeOK, Faults
<1>4. CASE ~(\E i \in ready : channels_[pollfds_[i].fd] = NoChannel)
  <2>1. activeChannels' = {channels_[pollfds_[i].fd] : i \in ready} /\ fault' = fault
    BY <1>4, Zenon DEF Poll
  <2>2. activeChannels' \subseteq Channels
    BY <1>2, <1>4, <2>1
  <2> QED
    BY <1>1, <2>1, <2>2 DEF TypeOK
<1> QED
  BY <1>3, <1>4

-----------------------------------------------------------------------------
(* The inductive invariant.  Everything is said of the channels in front   *)
(* of the lowest erased place, which no later step disturbs.               *)

(* No registered channel has the index of one of them, and no entry but    *)
(* their own has their descriptor.                                         *)
OwnEntries ==
    /\ \A c, d \in Channels : Clear(c) /\ index_[c] = index_[d] => c = d
    /\ \A c \in Channels : \A i \in 1..Len(pollfds_) :
          Clear(c) /\ i # index_[c] + 1 => pollfds_[i].fd # fdOf[c]

(* Their entries have their events; the descriptor is there until they are *)
(* left without events, and not again before they are removed.             *)
EntryConsistent ==
    /\ \A c \in muted : index_[c] >= 0
    /\ \A c \in Channels : Clear(c) =>
          /\ Entry(c).events = events_[c]
          /\ c \in muted => Entry(c).fd = -1
          /\ c \notin muted => Entry(c).fd = fdOf[c] /\ events_[c] # {}

(* The map only holds registered channels, under their own descriptors.    *)
MapConsistent ==
    \A fd \in Fds : channels_[fd] # NoChannel =>
        index_[channels_[fd]] >= 0 /\ fdOf[channels_[fd]] = fd

(* A channel is registered with the poller exactly if it thinks it is.     *)
AddedConsistent ==
    fault = "none" => \A c \in Channels : index_[c] >= 0 <=> addedToLoop_[c] = TRUE

(* The wakeup channel has the first entry for itself, and no place is      *)
(* erased in front of it or behind the end.                                *)
FirstEntry ==
    /\ WakeupPolled
    /\ Len(pollfds_) >= 1
    /\ hole # -1 => 1 <= hole /\ hole <= Len(pollfds_)
    /\ \A c \in UserChannels : index_[c] # 0

PollerInv ==
    /\ TypeOK
    /\ AbortsOnlyFromHole
    /\ IndexConsistent
    /\ OwnEntries
    /\ EntryConsistent
    /\ MapConsistent
    /\ AddedConsistent
    /\ FirstEntry

LEMMA PollerInvInit == Init => PollerInv
<1> SUFFICES ASSUME Init
             PROVE  PollerInv
  OBVIOUS
<1> USE PollerAssumption
<1>1. TypeOK
  BY TypeInit
<1>3. Len(pollfds_) = 1 /\ pollfds_[1] = [fd |-> fdOf[Wakeup], events |-> {"read"}]
  BY DEF Init
<1>4. \A c \in Channels : index_[c] = IF c = Wakeup THEN 0 ELSE -1
  BY DEF Init
<1>5. IndexConsistent
  <2>1. \A c \in Channels : index_[c] >= 0 => c = Wakeup /\ Entry(c) = pollfds_[1]
    BY <1>4 DEF Entry
  <2>2. channels_[fdOf[Wakeup]] = Wakeup
    BY DEF Init, Fds
  <2> QED
    BY <1>3, <1>4, <2>1, <2>2 DEF IndexConsistent, Clear
<1>6. OwnEntries
  BY <1>3, <1>4 DEF OwnEntries, Clear
<1>7. EntryConsistent
  <2>1. \A c \in Channels : Clear(c) => c = Wakeup /\ Entry(c) = pollfds_[1]
    BY <1>4 DEF Entry, Clear
  <2>2. events_[Wakeup] = {"read"} /\ muted = {}
    BY DEF Init
  <2>3. pollfds_[1].events = {"read"} /\ pollfds_[1].fd = fdOf[Wakeup]
    BY <1>3
  <2>4. {"read"} # {}
    OBVIOUS
  <2> HIDE DEF Entry, Clear
  <2> QED
    BY <2>1, <2>2, <2>3, <2>4, ZenonT(60) DEF EntryConsistent
<1>8. MapConsistent
  BY DEF Init, MapConsistent, Fds
<1>9. AddedConsistent
  <2>1. \A c \in Channels : index_[c] >= 0 <=> c = Wakeup
    BY <1>4
  <2>2. \A c \in Channels : addedToLoop_[c] = TRUE <=> c = Wakeup
    BY Zenon DEF Init
  <2> QED
    BY <2>1, <2>2, Zenon DEF AddedConsistent
<1>10. FirstEntry
  BY <1>3, <1>4 DEF FirstEntry, WakeupPolled, UserChannels, Init
<1>11. AbortsOnlyFromHole
  BY DEF AbortsOnlyFromHole, Init
<1> QED
  BY <1>1, <1>5, <1>6, <1>7, <1>8, <1>9, <1>10, <1>11 DEF PollerInv

(* A channel that is not registered gets an entry at the end, which is     *)
(* behind every erased place.                                              *)
LEMMA AddKeepsInv ==
    ASSUME PollerInv, NEW c \in UserChannels, NEW ev \in SUBSET Interest,
           Update(c, ev), index_[c] < 0
    PROVE  PollerInv'
<1> USE PollerAssumption DEF UserChannels
<1> DEFINE n == Len(pollfds_)
           entry == [fd |-> fdOf[c], events |-> ev]
<1>1. TypeOK /\ n \in Nat /\ c \in Channels /\ fdOf[c] \in Fds /\ fdOf[c] \in Nat
  BY LenProperties DEF PollerInv, TypeOK, Fds
<1>2. ev # {} /\ channels_[fdOf[c]] = NoChannel
  BY DEF Update
<1>3. /\ pollfds_' = Append(pollfds_, entry)
      /\ index_' = [index_ EXCEPT ![c] = n]
      /\ channels_' = [channels_ EXCEPT ![fdOf[c]] = c]
      /\ fault' = fault
  BY <1>2 DEF Update, AddEntry
<1>4. /\ events_' = [events_ EXCEPT ![c] = ev]
      /\ addedToLoop_' = [addedToLoop_ EXCEPT ![c] = TRUE]
      /\ activeChannels' = activeChannels
      /\ hole' = hole
      /\ muted' = muted
  BY <1>2 DEF Update
<1>5. /\ Len(pollfds_') = n + 1
      /\ pollfds_'[n + 1] = entry
      /\ \A i \in 1..n : pollfds_'[i] = pollfds_[i]
  BY <1>1, <1>3 DEF TypeOK
<1>6. index_'[c] = n /\ \A d \in Channels : d # c => index_'[d] = index_[d]
  BY <1>1, <1>3 DEF TypeOK
<1>7. ASSUME NEW d \in Channels, index_[d] >= 0
      PROVE  d # c /\ channels_[fdOf[d]] = d /\ fdOf[d] # fdOf[c]
  BY <1>1, <1>2, <1>7 DEF PollerInv, IndexConsistent
<1>8. ASSUME NEW d \in Channels, Clear(d)
      PROVE  index_[d] + 1 \in 1..n /\ d # c /\ Entry(d)' = Entry(d)
  <2>1. index_[d] \in Nat /\ index_[d] < n /\ d # c
    BY <1>1, <1>7, <1>8 DEF Clear, PollerInv, IndexConsistent, TypeOK
  <2>2. index_[d] + 1 \in 1..n
    BY <1>1, <2>1
  <2> QED
    BY <1>5, <1>6, <2>1, <2>2 DEF Entry
<1>9. ASSUME NEW d \in Channels, Clear(d)'
      PROVE  Clear(d) \/ (d = c /\ hole = -1)
  <2>1. CASE d # c
    BY <1>4, <1>6, <1>9, <2>1 DEF Clear
  <2>2. CASE d = c
    BY <1>1, <1>4, <1>6, <1>9, <2>2 DEF Clear, PollerInv, FirstEntry, TypeOK
  <2> QED
    BY <2>1, <2>2
<1>10. TypeOK'
  BY <1>1, UpdateKeepsTypes DEF PollerInv
<1>11. AbortsOnlyFromHole'
  BY <1>3, <1>4 DEF PollerInv, AbortsOnlyFromHole
<1>12. Entry(c)' = entry
  BY <1>5, <1>6 DEF Entry
<1>13. IndexConsistent'
  <2>1. ASSUME NEW d \in Channels, index_'[d] >= 0
        PROVE  channels_'[fdOf[d]] = d
    <3>1. CASE d = c
      BY <1>1, <1>3, <3>1 DEF TypeOK
    <3>2. CASE d # c
      <4>1. index_[d] >= 0
        BY <1>6, <2>1, <3>2
      <4>2. fdOf[d] \in Fds
        BY DEF Fds
      <4> QED
        BY <1>1, <1>3, <1>7, <4>1, <4>2 DEF TypeOK
    <3> QED
      BY <3>1, <3>2
  <2>2. ASSUME NEW d \in Channels, Clear(d)'
        PROVE  index_'[d] < Len(pollfds_') /\ Entry(d)'.fd \in {fdOf[d], -1}
    <3>1. CASE d = c
      BY <1>1, <1>5, <1>6, <1>12, <3>1
    <3>2. CASE Clear(d)
      <4>1. index_[d] < n /\ Entry(d).fd \in {fdOf[d], -1}
        BY <3>2 DEF PollerInv, IndexConsistent
      <4>2. index_'[d] = index_[d] /\ Entry(d)' = Entry(d) /\ index_[d] \in Int
        BY <1>1, <1>6, <1>8, <3>2 DEF TypeOK
      <4> QED
        BY <1>1, <1>5, <4>1, <4>2
    <3> QED
      BY <1>9, <2>2, <3>1, <3>2
  <2>3. ASSUME hole' = -1, NEW i \in 1..Len(pollfds_')
        PROVE  \E d \in Channels : index_'[d] = i - 1
    <3>1. CASE i = n + 1
      BY <1>1, <1>6, <3>1
    <3>2. CASE i \in 1..n
      <4>1. PICK d \in Channels : index_[d] = i - 1
        BY <1>4, <2>3, <3>2 DEF PollerInv, IndexConsistent
      <4>2. d # c
        BY <3>2, <4>1, <1>1
      <4> QED
        BY <1>6, <4>1, <4>2
    <3> QED
      BY <1>1, <1>5, <3>1, <3>2
  <2> QED
    BY <2>1, <2>2, <2>3 DEF IndexConsistent
<1>14. OwnEntries'
  <2>1. ASSUME NEW d \in Channels, NEW e \in Channels, Clear(d)', index_'[d] = index_'[e]
        PROVE  d = e
    <3>1. CASE Clear(d)
      <4>1. index_[d] < n /\ d # c /\ index_[d] \in Int
        BY <1>1, <1>8, <3>1 DEF PollerInv, IndexConsistent, TypeOK
      <4>2. e # c
        BY <1>1, <1>6, <2>1, <4>1
      <4> QED
        BY <1>6, <2>1, <3>1, <4>1, <4>2 DEF PollerInv, OwnEntries
    <3>2. CASE d = c /\ hole = -1
      <4>1. index_'[e] = n
        BY <1>6, <2>1, <3>2
      <4>2. ASSUME e # c
            PROVE  FALSE
        <5>1. Clear(e) /\ index_[e] = n
          BY <1>1, <1>6, <3>2, <4>1, <4>2 DEF Clear
        <5> QED
          BY <1>1, <5>1 DEF PollerInv, IndexConsistent
      <4> QED
        BY <3>2, <4>2
    <3> QED
      BY <1>9, <2>1, <3>1, <3>2
  <2>2. ASSUME NEW d \in Channels, NEW i \in 1..Len(pollfds_'), Clear(d)', i # index_'[d] + 1
        PROVE  pollfds_'[i].fd # fdOf[d]
    <3>1. CASE Clear(d)
      <4>1. fdOf[d] # fdOf[c] /\ index_'[d] = index_[d]
        BY <1>6, <1>7, <1>8, <3>1 DEF Clear
      <4>2. CASE i = n + 1
        BY <1>5, <4>1, <4>2
      <4>3. CASE i \in 1..n
        BY <1>5, <2>2, <3>1, <4>1, <4>3 DEF PollerInv, OwnEntries
      <4> QED
        BY <1>1, <1>5, <4>2, <4>3
    <3>2. CASE d = c /\ hole = -1
      <4>1. i \in 1..n
        BY <1>1, <1>5, <1>6, <2>2, <3>2
      <4>2. PICK e \in Channels : index_[e] = i - 1
        BY <3>2, <4>1 DEF PollerInv, IndexConsistent
      <4>3. index_[e] >= 0
        BY <4>1, <4>2
      <4>4. Clear(e) /\ fdOf[e] # fdOf[c]
        BY <1>7, <3>2, <4>3 DEF Clear
      <4>5. Entry(e) = pollfds_[i]
        BY <4>1, <4>2 DEF Entry
      <4>6. pollfds_[i].fd \in {fdOf[e], -1}
        BY <4>4, <4>5 DEF PollerInv, IndexConsistent
      <4> QED
        BY <1>1, <1>5, <3>2, <4>1, <4>4, <4>6
    <3> QED
      BY <1>9, <2>2, <3>1, <3>2
  <2> QED
    BY <2>1, <2>2 DEF OwnEntries
<1>15. EntryConsistent'
  <2> SUFFICES ASSUME NEW d \in Channels, Clear(d)'
               PROVE  /\ Entry(d)'.events = events_'[d]
                      /\ d \in muted' => Entry(d)'.fd = -1
                      /\ d \notin muted' => Entry(d)'.fd = fdOf[d] /\ events_'[d] # {}
    <3>1. \A d \in muted' : index_'[d] >= 0
      BY <1>1, <1>4, <1>6 DEF PollerInv, EntryConsistent, TypeOK
    <3> QED
      BY <3>1 DEF EntryConsistent
  <2>1. CASE d = c
    <3>1. c \notin muted
      BY <1>1 DEF PollerInv, EntryConsistent, TypeOK
    <3> QED
      BY <1>1, <1>2, <1>4, <1>12, <2>1, <3>1 DEF TypeOK
  <2>2. CASE d # c
    <3>1. Clear(d) /\ Entry(d)' = Entry(d) /\ events_'[d] = events_[d]
      BY <1>1, <1>4, <1>8, <1>9, <2>2 DEF TypeOK
    <3> QED
      BY <1>4, <3>1 DEF PollerInv, EntryConsistent
  <2> QED
    BY <2>1, <2>2
<1>16. MapConsistent'
  <2> SUFFICES ASSUME NEW fd \in Fds, channels_'[fd] # NoChannel
               PROVE  index_'[channels_'[fd]] >= 0 /\ fdOf[channels_'[fd]] = fd
    BY DEF MapConsistent
  <2>1. CASE fd = fdOf[c]
    BY <1>1, <1>3, <1>6, <2>1 DEF TypeOK
  <2>2. CASE fd # fdOf[c]
    <3>1. channels_'[fd] = channels_[fd] /\ channels_[fd] \in Channels
      BY <1>1, <1>3, <2>2 DEF TypeOK
    <3>2. index_[channels_[fd]] >= 0 /\ fdOf[channels_[fd]] = fd
      BY <3>1 DEF PollerInv, MapConsistent
    <3> QED
      BY <1>6, <2>2, <3>1, <3>2
  <2> QED
    BY <2>1, <2>2
<1>17. AddedConsistent'
  <2>1. addedToLoop_'[c] = TRUE /\ \A d \in Channels : d # c => addedToLoop_'[d] = addedToLoop_[d]
    BY <1>1, <1>4, Zenon DEF TypeOK
  <2>2. index_'[c] >= 0
    BY <1>1, <1>6
  <2> QED
    BY <1>3, <1>6, <2>1, <2>2 DEF PollerInv, AddedConsistent
<1>18. FirstEntry'
  <2>1. n >= 1 /\ pollfds_'[1] = pollfds_[1]
    BY <1>1, <1>5 DEF PollerInv, FirstEntry
  <2>2. WakeupPolled'
    BY <2>1 DEF PollerInv, FirstEntry, WakeupPolled
  <2>3. \A d \in UserChannels : index_'[d] # 0
    BY <1>1, <1>6, <2>1 DEF PollerInv, FirstEntry
  <2>4. hole' # -1 => 1 <= hole' /\ hole' <= Len(pollfds_')
    BY <1>1, <1>4, <1>5 DEF PollerInv, FirstEntry, TypeOK
  <2>5. Len(pollfds_') >= 1
    BY <1>1, <1>5
  <2> QED
    BY <2>2, <2>3, <2>4, <2>5 DEF FirstEntry
<1> QED
  BY <1>10, <1>11, <1>13, <1>14, <1>15, <1>16, <1>17, <1>18 DEF PollerInv

(* An assertion that fails leaves the array, the map and the indices as    *)
(* they are, and the channel at fault is not in front of the erased places.*)
LEMMA AbortKeepsInv ==
    ASSUME PollerInv, NEW c \in Channels, NEW assertion \in Faults \ {"none"},
           Abort(assertion), ~Clear(c), index_[c] >= 0, TypeOK',
           assertion \in {"update:43", "update:45", "erase:58"},
           \A d \in Channels \ {c} : events_'[d] = events_[d] /\ (d \in muted' <=> d \in muted),
           hole' = hole
    PROVE  PollerInv'
<1>1. /\ index_' = index_ /\ pollfds_' = pollfds_ /\ channels_' = channels_
      /\ fault' = assertion
  BY DEF Abort
<1>2. hole # -1
  BY DEF Clear
<1>3. \A d \in Channels : Clear(d)' = Clear(d) /\ Entry(d)' = Entry(d)
  BY <1>1 DEF Clear, Entry
<1>4. AbortsOnlyFromHole'
  BY <1>1, <1>2 DEF AbortsOnlyFromHole
<1>5. IndexConsistent' /\ OwnEntries'
  BY <1>1, <1>3 DEF PollerInv, IndexConsistent, OwnEntries
<1>6. EntryConsistent'
  <2>1. ASSUME NEW d \in muted'
        PROVE  index_'[d] >= 0
    <3>1. d \in Channels
      BY DEF TypeOK
    <3> QED
      BY <1>1, <3>1, <2>1 DEF PollerInv, EntryConsistent
  <2>2. ASSUME NEW d \in Channels, Clear(d)'
        PROVE  /\ Entry(d)'.events = events_'[d]
               /\ d \in muted' => Entry(d)'.fd = -1
               /\ d \notin muted' => Entry(d)'.fd = fdOf[d] /\ events_'[d] # {}
    <3>1. Clear(d) /\ d # c /\ Entry(d)' = Entry(d)
      BY <1>3, <2>2
    <3> QED
      BY <3>1 DEF PollerInv, EntryConsistent
  <2> QED
    BY <2>1, <2>2 DEF EntryConsistent
<1>7. MapConsistent' /\ AddedConsistent'
  BY <1>1 DEF PollerInv, MapConsistent, AddedConsistent
<1>8. FirstEntry'
  BY <1>1 DEF PollerInv, FirstEntry, WakeupPolled
<1> QED
  BY <1>4, <1>5, <1>6, <1>7, <1>8 DEF PollerInv

(* What an update does with a registered channel's entry.                  *)
LEMMA RewriteCases ==
    ASSUME TypeOK, NEW c \in Channels, NEW ev, RewriteEntry(c, ev), index_[c] >= 0,
           channels_[fdOf[c]] = c
    PROVE  \/ /\ index_[c] + 1 > Len(pollfds_)
              /\ Abort("update:43")
           \/ /\ index_[c] + 1 <= Len(pollfds_)
              /\ Entry(c).fd \notin {fdOf[c], -1}
              /\ Abort("update:45")
           \/ /\ index_[c] + 1 <= Len(pollfds_)
              /\ Entry(c).fd \in {fdOf[c], -1}
              /\ pollfds_' = [pollfds_ EXCEPT ![index_[c] + 1] =
                    [fd |-> IF ev = {} THEN -1 ELSE Entry(c).fd, events |-> ev]]
              /\ UNCHANGED <<index_, channels_, fault>>
<1> DEFINE i == index_[c] + 1
<1>1. i \in Nat /\ Len(pollfds_) \in Nat
  BY LenProperties DEF TypeOK
<1>2. i <= Len(pollfds_) <=> ~(i > Len(pollfds_))
  BY <1>1
<1>3. CASE i > Len(pollfds_) /\ ~(i <= Len(pollfds_))
  <2>1. Abort("update:43")
    BY <1>3, Zenon DEF RewriteEntry
  <2> QED
    BY <1>3, <2>1
<1>4. CASE /\ i <= Len(pollfds_) /\ ~(i > Len(pollfds_))
           /\ pollfds_[i].fd \notin {fdOf[c], -1}
  <2>1. Abort("update:45")
    BY <1>4, Zenon DEF RewriteEntry
  <2> QED
    BY <1>4, <2>1, Zenon DEF Entry
<1>5. CASE /\ i <= Len(pollfds_) /\ ~(i > Len(pollfds_))
           /\ pollfds_[i].fd \in {fdOf[c], -1}
  <2>1. /\ pollfds_' = [pollfds_ EXCEPT ![i] =
               [fd |-> IF ev = {} THEN -1 ELSE pollfds_[i].fd, events |-> ev]]
        /\ UNCHANGED <<index_, channels_, fault>>
    BY <1>5, Zenon DEF RewriteEntry
  <2> QED
    BY <1>5, <2>1, Zenon DEF Entry
<1> QED
  BY <1>2, <1>3, <1>4, <1>5, Zenon

(* The entry an index leads to is rewritten in place: it is the channel's  *)
(* own, or none of those in front of the erased places.                    *)
LEMMA RewriteKeepsInv ==
    ASSUME PollerInv, NEW c \in UserChannels, NEW ev \in SUBSET Interest,
           Update(c, ev), index_[c] >= 0
    PROVE  PollerInv'
<1> USE PollerAssumption DEF UserChannels
<1> DEFINE k == index_[c] + 1
           entry == [fd |-> IF ev = {} THEN -1 ELSE Entry(c).fd, events |-> ev]
<1>1. /\ TypeOK /\ c \in Channels /\ Len(pollfds_) \in Nat /\ index_[c] \in Nat
      /\ channels_[fdOf[c]] = c
  BY LenProperties DEF PollerInv, TypeOK, IndexConsistent
<1>2. TypeOK'
  BY <1>1, UpdateKeepsTypes
<1>3. RewriteEntry(c, ev)
  BY <1>1 DEF Update
<1>4. /\ events_' = [events_ EXCEPT ![c] = ev]
      /\ addedToLoop_' = [addedToLoop_ EXCEPT ![c] = TRUE]
      /\ hole' = hole
      /\ muted' = IF ev = {} THEN muted \cup {c} ELSE muted
  BY DEF Update
<1>5. \A d \in Channels \ {c} : events_'[d] = events_[d] /\ (d \in muted' <=> d \in muted)
  BY <1>1, <1>4 DEF TypeOK
<1>6. CASE index_[c] + 1 > Len(pollfds_) /\ Abort("update:43")
  <2>1. ~Clear(c)
    BY <1>1, <1>6 DEF PollerInv, IndexConsistent
  <2> QED
    BY <1>1, <1>2, <1>4, <1>5, <1>6, <2>1, AbortKeepsInv DEF Faults
<1>7. CASE Entry(c).fd \notin {fdOf[c], -1} /\ Abort("update:45")
  <2>1. ~Clear(c)
    BY <1>1, <1>7 DEF PollerInv, IndexConsistent
  <2> QED
    BY <1>1, <1>2, <1>4, <1>5, <1>7, <2>1, AbortKeepsInv DEF Faults
<1>8. CASE /\ k <= Len(pollfds_) /\ Entry(c).fd \in {fdOf[c], -1}
           /\ pollfds_' = [pollfds_ EXCEPT ![k] = entry]
           /\ UNCHANGED <<index_, channels_, fault>>
  <2>1. k \in 1..Len(pollfds_)
    BY <1>1, <1>8
  <2>2. /\ Len(pollfds_') = Len(pollfds_)
        /\ pollfds_'[k] = entry
        /\ \A i \in 1..Len(pollfds_) : i # k => pollfds_'[i] = pollfds_[i]
    BY <1>1, <1>8, <2>1 DEF TypeOK
  <2>3. Entry(c)' = entry
    BY <1>8, <2>2 DEF Entry
  <2>4. \A d \in Channels : Clear(d)' = Clear(d)
    BY <1>4, <1>8 DEF Clear
  <2>5. ASSUME NEW d \in Channels, d # c, Clear(d)
        PROVE  index_[d] + 1 \in 1..Len(pollfds_) /\ index_[d] + 1 # k /\ Entry(d)' = Entry(d)
    <3>1. index_[d] # index_[c]
      BY <1>1, <2>5 DEF PollerInv, OwnEntries
    <3>2. index_[d] \in Nat /\ index_[d] < Len(pollfds_)
      BY <1>1, <2>5 DEF PollerInv, IndexConsistent, TypeOK, Clear
    <3>3. index_[d] + 1 \in 1..Len(pollfds_) /\ index_[d] + 1 # k
      BY <1>1, <3>1, <3>2
    <3> QED
      BY <1>8, <2>2, <3>3 DEF Entry
  <2>6. AbortsOnlyFromHole'
    BY <1>4, <1>8 DEF PollerInv, AbortsOnlyFromHole
  <2>7. IndexConsistent'
    <3>1. ASSUME NEW d \in Channels, Clear(d)'
          PROVE  index_'[d] < Len(pollfds_') /\ Entry(d)'.fd \in {fdOf[d], -1}
      <4>1. Clear(d)
        BY <2>4, <3>1
      <4>2. index_[d] < Len(pollfds_) /\ Entry(d).fd \in {fdOf[d], -1}
        BY <4>1 DEF PollerInv, IndexConsistent
      <4>3. CASE d = c
        BY <1>8, <2>2, <2>3, <4>2, <4>3
      <4>4. CASE d # c
        BY <1>8, <2>2, <2>5, <4>1, <4>2, <4>4
      <4> QED
        BY <4>3, <4>4
    <3> QED
      BY <1>4, <1>8, <2>2, <3>1 DEF PollerInv, IndexConsistent
  <2>8. OwnEntries'
    <3>1. ASSUME NEW d \in Channels, NEW e \in Channels, Clear(d)', index_'[d] = index_'[e]
          PROVE  d = e
      BY <1>8, <2>4, <3>1 DEF PollerInv, OwnEntries
    <3>2. ASSUME NEW d \in Channels, NEW i \in 1..Len(pollfds_'), Clear(d)', i # index_'[d] + 1
          PROVE  pollfds_'[i].fd # fdOf[d]
      <4>1. Clear(d) /\ i \in 1..Len(pollfds_) /\ i # index_[d] + 1
        BY <1>8, <2>2, <2>4, <3>2
      <4>2. pollfds_[i].fd # fdOf[d]
        BY <4>1 DEF PollerInv, OwnEntries
      <4>3. CASE i = k
        <5>1. entry.fd \in {-1, pollfds_[i].fd}
          BY <4>3 DEF Entry
        <5>2. fdOf[d] # -1
          BY PollerAssumption
        <5> QED
          BY <2>2, <4>2, <4>3, <5>1, <5>2
      <4>4. CASE i # k
        BY <2>2, <4>1, <4>2, <4>4
      <4> QED
        BY <4>3, <4>4
    <3> QED
      BY <3>1, <3>2 DEF OwnEntries
  <2>9. EntryConsistent'
    <3>1. ASSUME NEW d \in muted'
          PROVE  index_'[d] >= 0
      <4>1. d \in Channels
        BY <1>2 DEF TypeOK
      <4>2. d = c \/ d \in muted
        BY <1>4, <3>1
      <4> QED
        BY <1>1, <1>8, <4>2 DEF PollerInv, EntryConsistent
    <3>2. ASSUME NEW d \in Channels, Clear(d)'
          PROVE  /\ Entry(d)'.events = events_'[d]
                 /\ d \in muted' => Entry(d)'.fd = -1
                 /\ d \notin muted' => Entry(d)'.fd = fdOf[d] /\ events_'[d] # {}
      <4>0. Clear(d)
        BY <2>4, <3>2
      <4>1. CASE d = c
        <5>1. events_'[d] = ev
          BY <1>1, <1>4, <4>1 DEF TypeOK
        <5>2. /\ c \in muted => Entry(c).fd = -1
              /\ c \notin muted => Entry(c).fd = fdOf[c]
          BY <4>0, <4>1 DEF PollerInv, EntryConsistent
        <5>3. CASE ev = {}
          BY <1>4, <2>3, <4>1, <5>1, <5>3
        <5>4. CASE ev # {}
          BY <1>4, <2>3, <4>1, <5>1, <5>2, <5>4
        <5> QED
          BY <5>3, <5>4
      <4>2. CASE d # c
        <5>1. Entry(d)' = Entry(d) /\ events_'[d] = events_[d] /\ (d \in muted' <=> d \in muted)
          BY <1>5, <2>5, <4>0, <4>2
        <5> QED
          BY <4>0, <5>1 DEF PollerInv, EntryConsistent
      <4> QED
        BY <4>1, <4>2
    <3> QED
      BY <3>1, <3>2 DEF EntryConsistent
  <2>10. MapConsistent'
    BY <1>8 DEF PollerInv, MapConsistent
  <2>11. AddedConsistent'
    <3>1. addedToLoop_'[c] = TRUE /\ \A d \in Channels : d # c => addedToLoop_'[d] = addedToLoop_[d]
      BY <1>1, <1>4, Zenon DEF TypeOK
    <3> QED
      BY <1>1, <1>8, <3>1 DEF PollerInv, AddedConsistent
  <2>12. FirstEntry'
    <3>1. k # 1 /\ 1 \in 1..Len(pollfds_)
      BY <1>1, <2>1 DEF PollerInv, FirstEntry
    <3>2. pollfds_'[1] = pollfds_[1]
      BY <2>2, <3>1
    <3> QED
      BY <1>4, <1>8, <2>2, <3>2 DEF PollerInv, FirstEntry, WakeupPolled
  <2> QED
    BY <1>2, <2>6, <2>7, <2>8, <2>9, <2>10, <2>11, <2>12 DEF PollerInv
<1>9. \/ index_[c] + 1 > Len(pollfds_) /\ Abort("update:43")
      \/ Entry(c).fd \notin {fdOf[c], -1} /\ Abort("update:45")
      \/ /\ k <= Len(pollfds_) /\ Entry(c).fd \in {fdOf[c], -1}
         /\ pollfds_' = [pollfds_ EXCEPT ![k] = entry]
         /\ UNCHANGED <<index_, channels_, fault>>
  BY <1>1, <1>3, RewriteCases, Zenon
<1> QED
  BY <1>6, <1>7, <1>8, <1>9

(* An entry is erased.  The channels in front of it, and of those erased   *)
(* before, keep theirs.                                                    *)
LEMMA RemoveKeepsInv ==
    ASSUME PollerInv, NEW c \in UserChannels, removeChannel(c)
    PROVE  PollerInv'
<1> USE PollerAssumption DEF UserChannels
<1> DEFINE n == Len(pollfds_)
           q == index_[c]
<1>1. /\ TypeOK /\ c \in Channels /\ n \in Nat /\ fdOf[c] \in Fds
      /\ q \in Nat /\ q >= 1 /\ channels_[fdOf[c]] = c /\ c # NoChannel
  <2>1. TypeOK /\ c \in Channels /\ n \in Nat /\ fdOf[c] \in Fds /\ q >= 0
    BY LenProperties DEF PollerInv, TypeOK, Fds, removeChannel
  <2>2. q \in Nat /\ q # 0
    BY <2>1 DEF PollerInv, FirstEntry, TypeOK
  <2> QED
    BY <2>1, <2>2 DEF PollerInv, IndexConsistent
<1>2. TypeOK'
  BY <1>1, RemoveKeepsTypes
<1>3. /\ events_' = events_
      /\ addedToLoop_' = [addedToLoop_ EXCEPT ![c] = FALSE]
      /\ muted' = muted \ {c}
  BY Zenon DEF removeChannel
<1>4. CASE q >= n
  <2>1. Abort("erase:58") /\ hole' = hole
    BY <1>1, <1>4, Zenon DEF removeChannel
  <2>2. ~Clear(c)
    BY <1>1, <1>4 DEF PollerInv, IndexConsistent
  <2> QED
    BY <1>1, <1>2, <1>3, <2>1, <2>2, AbortKeepsInv DEF Faults
<1>5. CASE ~(q >= n)
  <2>1. /\ pollfds_' = RemoveAt(pollfds_, q + 1)
        /\ channels_' = [channels_ EXCEPT ![fdOf[c]] = NoChannel]
        /\ index_' = [index_ EXCEPT ![c] = -1]
        /\ Erased(q)
        /\ fault' = fault
    BY <1>1, <1>5, Zenon DEF removeChannel
  <2>2. q + 1 \in 1..n /\ q <= n - 1 /\ n >= 2
    BY <1>1, <1>5
  <2>3. /\ Len(pollfds_') = n - 1
        /\ \A i \in 1..(n - 1) : pollfds_'[i] = IF i < q + 1 THEN pollfds_[i] ELSE pollfds_[i + 1]
    <3>1. pollfds_ \in Seq(PollFd)
      BY <1>1 DEF TypeOK
    <3> HIDE DEF n, q
    <3> QED
      BY <2>1, <2>2, <3>1, RemoveOne DEF n
  <2>4. index_'[c] = -1 /\ \A d \in Channels : d # c => index_'[d] = index_[d]
    BY <1>1, <2>1 DEF TypeOK
  <2>5. hole = -1 \/ (hole \in Nat /\ 1 <= hole /\ hole <= n)
    BY <1>1 DEF PollerInv, FirstEntry, TypeOK
  <2>6. /\ hole' = -1 => hole = -1 /\ q = n - 1
        /\ hole' # -1 => hole' \in Nat /\ 1 <= hole' /\ hole' <= q /\ (hole = -1 \/ hole' <= hole)
    BY <1>1, <2>1, <2>2, <2>5 DEF Erased
  <2>7. ASSUME NEW d \in Channels, Clear(d)'
        PROVE  d # c /\ Clear(d) /\ index_'[d] = index_[d] /\ index_[d] \in Nat /\ index_[d] < q
    <3>1. d # c /\ index_'[d] = index_[d] /\ index_[d] \in Nat
      BY <1>1, <2>4, <2>7 DEF Clear, TypeOK
    <3>2. CASE hole' = -1
      <4>1. Clear(d) /\ index_[d] < n
        BY <2>6, <3>1, <3>2 DEF Clear, PollerInv, IndexConsistent
      <4>2. index_[d] # q
        BY <1>1, <3>1, <4>1 DEF PollerInv, OwnEntries
      <4> QED
        BY <1>1, <2>6, <3>1, <3>2, <4>1, <4>2
    <3>3. CASE hole' # -1
      <4>1. index_[d] < hole'
        BY <2>7, <3>1, <3>3 DEF Clear
      <4>2. index_[d] < q
        BY <1>1, <2>6, <3>1, <3>3, <4>1
      <4>3. hole = -1 \/ index_[d] < hole
        BY <2>5, <2>6, <3>1, <3>3, <4>1
      <4> QED
        BY <3>1, <4>2, <4>3 DEF Clear
    <3> QED
      BY <3>2, <3>3
  <2>8. ASSUME NEW d \in Channels, Clear(d)'
        PROVE  Entry(d)' = Entry(d)
    <3>1. index_[d] + 1 \in 1..(n - 1) /\ index_[d] + 1 < q + 1
      BY <1>1, <2>2, <2>7, <2>8
    <3>2. pollfds_'[index_[d] + 1] = pollfds_[index_[d] + 1]
      BY <2>3, <3>1
    <3> QED
      BY <2>7, <2>8, <3>2 DEF Entry
  <2>9. AbortsOnlyFromHole'
    <3>1. fault = "none"
      BY Zenon DEF removeChannel
    <3> QED
      BY <2>1, <3>1 DEF AbortsOnlyFromHole
  <2>10. ASSUME NEW d \in Channels, d # c, index_[d] >= 0
         PROVE  channels_'[fdOf[d]] = d
    <3>1. channels_[fdOf[d]] = d
      BY <2>10 DEF PollerInv, IndexConsistent
    <3>2. fdOf[d] # fdOf[c] /\ fdOf[d] \in Fds
      BY <1>1, <2>10, <3>1 DEF Fds
    <3> QED
      BY <1>1, <2>1, <3>1, <3>2 DEF TypeOK
  <2>11. IndexConsistent'
    <3>1. ASSUME NEW d \in Channels, index_'[d] >= 0
          PROVE  channels_'[fdOf[d]] = d
      <4>1. d # c /\ index_[d] >= 0
        BY <2>4, <3>1
      <4> QED
        BY <2>10, <4>1
    <3>2. ASSUME NEW d \in Channels, Clear(d)'
          PROVE  index_'[d] < Len(pollfds_') /\ Entry(d)'.fd \in {fdOf[d], -1}
      <4>1. Clear(d) /\ index_'[d] < n - 1
        BY <1>1, <2>2, <2>7, <3>2
      <4>2. Entry(d).fd \in {fdOf[d], -1}
        BY <4>1 DEF PollerInv, IndexConsistent
      <4> QED
        BY <2>3, <2>8, <3>2, <4>1, <4>2
    <3>3. ASSUME hole' = -1, NEW i \in 1..Len(pollfds_')
          PROVE  \E d \in Channels : index_'[d] = i - 1
      <4>1. i \in 1..n /\ i - 1 < q
        BY <1>1, <2>3, <2>6, <3>3
      <4>2. PICK d \in Channels : index_[d] = i - 1
        BY <2>6, <3>3, <4>1 DEF PollerInv, IndexConsistent
      <4>3. d # c
        BY <1>1, <4>1, <4>2
      <4> QED
        BY <2>4, <4>2, <4>3
    <3> QED
      BY <3>1, <3>2, <3>3 DEF IndexConsistent
  <2>12. OwnEntries'
    <3>1. ASSUME NEW d \in Channels, NEW e \in Channels, Clear(d)', index_'[d] = index_'[e]
          PROVE  d = e
      <4>1. Clear(d) /\ index_'[d] = index_[d] /\ index_[d] \in Nat
        BY <2>7, <3>1
      <4>2. index_'[e] # -1
        BY <3>1, <4>1
      <4>3. e # c /\ index_'[e] = index_[e]
        BY <2>4, <4>2, Zenon
      <4> QED
        BY <3>1, <4>1, <4>3 DEF PollerInv, OwnEntries
    <3>2. ASSUME NEW d \in Channels, NEW i \in 1..Len(pollfds_'), Clear(d)', i # index_'[d] + 1
          PROVE  pollfds_'[i].fd # fdOf[d]
      <4>1. Clear(d) /\ index_[d] \in Nat /\ index_[d] < q /\ i # index_[d] + 1
        BY <2>7, <3>2
      <4>2. i \in 1..(n - 1)
        BY <2>3, <3>2
      <4>3. CASE i < q + 1
        <5>1. pollfds_'[i] = pollfds_[i] /\ i \in 1..n
          BY <1>1, <2>3, <4>2, <4>3
        <5> QED
          BY <4>1, <5>1 DEF PollerInv, OwnEntries
      <4>4. CASE ~(i < q + 1)
        <5>1. pollfds_'[i] = pollfds_[i + 1] /\ i + 1 \in 1..n /\ i + 1 # index_[d] + 1
          BY <1>1, <2>3, <4>1, <4>2, <4>4
        <5> QED
          BY <4>1, <5>1 DEF PollerInv, OwnEntries
      <4> QED
        BY <4>3, <4>4
    <3> QED
      BY <3>1, <3>2 DEF OwnEntries
  <2>13. EntryConsistent'
    <3>1. ASSUME NEW d \in muted'
          PROVE  index_'[d] >= 0
      <4>1. d \in muted /\ d # c /\ d \in Channels
        BY <1>1, <1>3, <3>1 DEF TypeOK
      <4> QED
        BY <2>4, <4>1 DEF PollerInv, EntryConsistent
    <3>2. ASSUME NEW d \in Channels, Clear(d)'
          PROVE  /\ Entry(d)'.events = events_'[d]
                 /\ d \in muted' => Entry(d)'.fd = -1
                 /\ d \notin muted' => Entry(d)'.fd = fdOf[d] /\ events_'[d] # {}
      <4>1. Clear(d) /\ d # c /\ Entry(d)' = Entry(d)
        BY <2>7, <2>8, <3>2
      <4>2. d \in muted' <=> d \in muted
        BY <1>3, <4>1
      <4> QED
        BY <1>3, <4>1, <4>2 DEF PollerInv, EntryConsistent
    <3> QED
      BY <3>1, <3>2 DEF EntryConsistent
  <2>14. MapConsistent'
    <3> SUFFICES ASSUME NEW fd \in Fds, channels_'[fd] # NoChannel
                 PROVE  index_'[channels_'[fd]] >= 0 /\ fdOf[channels_'[fd]] = fd
      BY DEF MapConsistent
    <3>1. fd # fdOf[c] /\ channels_'[fd] = channels_[fd] /\ channels_[fd] \in Channels
      BY <1>1, <2>1 DEF TypeOK
    <3>2. index_[channels_[fd]] >= 0 /\ fdOf[channels_[fd]] = fd
      BY <3>1 DEF PollerInv, MapConsistent
    <3>3. channels_[fd] # c
      BY <3>1, <3>2
    <3> QED
      BY <2>4, <3>1, <3>2, <3>3
  <2>15. AddedConsistent'
    <3>1. addedToLoop_'[c] = FALSE /\ \A d \in Channels : d # c => addedToLoop_'[d] = addedToLoop_[d]
      BY <1>1, <1>3, Zenon DEF TypeOK
    <3>2. ~(index_'[c] >= 0)
      BY <2>4
    <3> QED
      BY <2>1, <2>4, <3>1, <3>2 DEF PollerInv, AddedConsistent
  <2>16. FirstEntry'
    <3>1. 1 \in 1..(n - 1) /\ 1 < q + 1
      BY <1>1, <2>2
    <3>2. pollfds_'[1] = pollfds_[1]
      BY <2>3, <3>1
    <3>3. WakeupPolled'
      BY <3>2 DEF PollerInv, FirstEntry, WakeupPolled
    <3>4. \A d \in UserChannels : index_'[d] # 0
      BY <2>4 DEF PollerInv, FirstEntry
    <3>5. hole' # -1 => 1 <= hole' /\ hole' <= Len(pollfds_')
      BY <1>1, <2>2, <2>3, <2>6
    <3>6. Len(pollfds_') >= 1
      BY <1>1, <2>2, <2>3
    <3> QED
      BY <3>3, <3>4, <3>5, <3>6 DEF FirstEntry
  <2> QED
    BY <1>2, <2>9, <2>11, <2>12, <2>13, <2>14, <2>15, <2>16 DEF PollerInv
<1> QED
  BY <1>4, <1>5

(* A reported entry leads to a registered channel, and to one that wants   *)
(* events if it is in front of the erased places.                          *)
LEMMA ReadyIsInterested ==
    ASSUME PollerInv, fault = "none", NEW i \in DOMAIN pollfds_, pollfds_[i].fd # -1
    PROVE  LET c == channels_[pollfds_[i].fd]
           IN  /\ hole = -1 => c # NoChannel
               /\ c # NoChannel => /\ c \in Channels /\ index_[c] >= 0 /\ addedToLoop_[c]
                                   /\ Clear(c) => events_[c] # {}
<1> USE PollerAssumption
<1> DEFINE c == channels_[pollfds_[i].fd]
<1>1. i \in 1..Len(pollfds_) /\ pollfds_ \in Seq(PollFd)
  BY LenProperties DEF PollerInv, TypeOK
<1>2. pollfds_[i] \in PollFd
  BY <1>1, ElementOfSeq
<1>3. pollfds_[i].fd \in Fds /\ c \in Channels \cup {NoChannel}
  BY <1>2 DEF PollFd, PollerInv, TypeOK
<1>4. ASSUME hole = -1
      PROVE  c # NoChannel
  <2>1. PICK d \in Channels : index_[d] = i - 1
    BY <1>1, <1>4 DEF PollerInv, IndexConsistent
  <2>2. Clear(d) /\ Entry(d) = pollfds_[i] /\ index_[d] >= 0
    BY <1>1, <1>4, <2>1 DEF Clear, Entry
  <2>3. pollfds_[i].fd \in {fdOf[d], -1} /\ channels_[fdOf[d]] = d
    BY <2>2 DEF PollerInv, IndexConsistent
  <2> QED
    BY <2>3
<1>5. ASSUME c # NoChannel
      PROVE  /\ c \in Channels /\ index_[c] >= 0 /\ addedToLoop_[c]
             /\ Clear(c) => events_[c] # {}
  <2>1. c \in Channels /\ index_[c] >= 0 /\ fdOf[c] = pollfds_[i].fd
    BY <1>3, <1>5 DEF PollerInv, MapConsistent
  <2> HIDE DEF c
  <2>2. addedToLoop_[c]
    BY <2>1 DEF PollerInv, AddedConsistent
  <2>3. ASSUME Clear(c)
        PROVE  events_[c] # {}
    <3>1. i = index_[c] + 1
      BY <1>1, <2>1, <2>3 DEF PollerInv, OwnEntries
    <3>2. Entry(c).fd # -1
      BY <3>1 DEF Entry
    <3> QED
      BY <2>1, <2>3, <3>2 DEF PollerInv, EntryConsistent
  <2> QED
    BY <2>1, <2>2, <2>3
<1> QED
  BY <1>4, <1>5

LEMMA PollKeepsInv ==
    ASSUME PollerInv, NEW ready \in SUBSET DOMAIN pollfds_, Poll(ready)
    PROVE  PollerInv'
<1>1. TypeOK'
  BY PollKeepsTypes DEF PollerInv
<1>2. /\ UNCHANGED <<events_, index_, addedToLoop_, pollfds_, channels_, hole, muted>>
      /\ fault = "none" /\ \A i \in ready : pollfds_[i].fd # -1
  BY Zenon DEF Poll
<1>3. \A c \in Channels : Clear(c)' = Clear(c) /\ Entry(c)' = Entry(c)
  BY <1>2 DEF Clear, Entry
<1>4. AbortsOnlyFromHole'
  <2>1. CASE \E i \in ready : channels_[pollfds_[i].fd] = NoChannel
    <3>1. hole # -1
      BY <1>2, <2>1, ReadyIsInterested
    <3>2. fault' = "fill:19"
      BY <2>1, Zenon DEF Poll
    <3> QED
      BY <1>2, <3>1, <3>2 DEF AbortsOnlyFromHole
  <2>2. CASE ~(\E i \in ready : channels_[pollfds_[i].fd] = NoChannel)
    <3>1. fault' = fault
      BY <2>2, Zenon DEF Poll
    <3> QED
      BY <1>2, <3>1 DEF AbortsOnlyFromHole
  <2> QED
    BY <2>1, <2>2
<1>5. IndexConsistent' /\ OwnEntries'
  BY <1>2, <1>3 DEF PollerInv, IndexConsistent, OwnEntries
<1>6. EntryConsistent' /\ MapConsistent'
  BY <1>2, <1>3 DEF PollerInv, EntryConsistent, MapConsistent
<1>7. AddedConsistent'
  BY <1>2 DEF PollerInv, AddedConsistent
<1>8. FirstEntry'
  BY <1>2 DEF PollerInv, FirstEntry, WakeupPolled
<1> QED
  BY <1>1, <1>4, <1>5, <1>6, <1>7, <1>8 DEF PollerInv

LEMMA PollerInvStep == PollerInv /\ [Next]_vars => PollerInv'
<1> SUFFICES ASSUME PollerInv, [Next]_vars
             PROVE  PollerInv'
  OBVIOUS
<1>1. ASSUME NEW c \in UserChannels, NEW ev \in SUBSET Interest, Update(c, ev)
      PROVE  PollerInv'
  <2>1. index_[c] \in Nat \cup {-1}
    BY DEF PollerInv, TypeOK, UserChannels
  <2>2. CASE index_[c] < 0
    BY <1>1, <2>2, AddKeepsInv
  <2>3. CASE index_[c] >= 0
    BY <1>1, <2>3, RewriteKeepsInv
  <2> QED
    BY <2>1, <2>2, <2>3
<1>2. ASSUME NEW c \in UserChannels,
             \/ enableReading(c) \/ enableWriting(c) \/ disableReading(c)
             \/ disableWriting(c) \/ disableAll(c)
      PROVE  PollerInv'
  <2>1. events_[c] \in SUBSET Interest
    BY DEF PollerInv, TypeOK, UserChannels
  <2>2. \E ev \in SUBSET Interest : Update(c, ev)
    BY <1>2, <2>1 DEF enableReading, enableWriting, disableReading, disableWriting,
                      disableAll, Interest
  <2> QED
    BY <1>1, <2>2
<1>3. ASSUME NEW c \in UserChannels, removeChannel(c)
      PROVE  PollerInv'
  BY <1>3, RemoveKeepsInv
<1>4. ASSUME NEW ready \in SUBSET DOMAIN pollfds_, Poll(ready)
      PROVE  PollerInv'
  BY <1>4, PollKeepsInv
<1>5. CASE UNCHANGED vars
  <2>1. \A c \in Channels : Clear(c)' = Clear(c) /\ Entry(c)' = Entry(c)
    BY <1>5 DEF vars, Clear, Entry
  <2>2. (TypeOK /\ AbortsOnlyFromHole /\ IndexConsistent /\ OwnEntries)'
    BY <1>5, <2>1 DEF vars, PollerInv, TypeOK, AbortsOnlyFromHole, IndexConsistent, OwnEntries
  <2>3. (EntryConsistent /\ MapConsistent /\ AddedConsistent /\ FirstEntry)'
    BY <1>5, <2>1 DEF vars, PollerInv, EntryConsistent, MapConsistent, AddedConsistent,
                      FirstEntry, WakeupPolled
  <2> QED
    BY <2>2, <2>3 DEF PollerInv
<1> QED
  BY <1>2, <1>3, <1>4, <1>5 DEF Next

(* The inductive invariant of the poller.                                  *)
LEMMA PollerInvariant == Spec => []PollerInv
BY PollerInvInit, PollerInvStep, PTL DEF Spec

(* Whatever the calls and the order of removals, updateChannel never       *)
(* writes and removeChannel never erases beyond the array, whose entries   *)
(* are descriptors of channels or -1.                                      *)
THEOREM TypeCorrect == Spec => []TypeOK
<1>1. PollerInv => TypeOK
  BY DEF PollerInv
<1> QED
  BY <1>1, PollerInvariant, PTL

(* updateChannel and removeChannel keep the map in agreement with the      *)
(* channels, and the index of each channel at its own entry until an entry *)
(* in front of it is erased, whatever the calls and their order.           *)
THEOREM IndicesAgree == Spec => []IndexConsistent
<1>1. PollerInv => IndexConsistent
  BY DEF PollerInv
<1> QED
  BY <1>1, PollerInvariant, PTL

(* Removing an entry that is not the last one is the only way into a       *)
(* failing assertion of the poller, and those about the map never fail.    *)
THEOREM OnlyHolesAbort == Spec => []AbortsOnlyFromHole
<1>1. PollerInv => AbortsOnlyFromHole
  BY DEF PollerInv
<1> QED
  BY <1>1, PollerInvariant, PTL

(* A channel in front of the erased places is polled for exactly the       *)
(* events its user asked for, until it is left without events.             *)
THEOREM InterestPolled == Spec => []InterestIsPolled
<1>1. PollerInv => InterestIsPolled
  <2> SUFFICES ASSUME PollerInv, NEW c \in Channels, Clear(c), c \notin muted
               PROVE  Entry(c) = [fd |-> fdOf[c], events |-> events_[c]]
    BY DEF InterestIsPolled
  <2>1. index_[c] \in Nat /\ index_[c] < Len(pollfds_) /\ pollfds_ \in Seq(PollFd)
    BY DEF PollerInv, TypeOK, IndexConsistent, Clear
  <2>2. index_[c] + 1 \in 1..Len(pollfds_)
    BY <2>1, LenProperties
  <2>3. Entry(c) \in PollFd
    BY <2>1, <2>2, ElementOfSeq DEF Entry
  <2>4. Entry(c).fd = fdOf[c] /\ Entry(c).events = events_[c]
    BY DEF PollerInv, EntryConsistent
  <2> QED
    BY <2>3, <2>4 DEF PollFd
<1> QED
  BY <1>1, PollerInvariant, PTL

(* Whatever is done with the other channels, in whatever order they are    *)
(* removed, the loop's wakeup channel stays in the array.                  *)
THEOREM LoopCanBeWoken == Spec => []WakeupPolled
<1>1. PollerInv => WakeupPolled
  BY DEF PollerInv, FirstEntry
<1> QED
  BY <1>1, PollerInvariant, PTL

(* poll() only ever reports registered channels, and one in front of the   *)
(* erased places only if it wants events: handleEvent is not called on it  *)
(* after disableAll.                                                       *)
THEOREM OnlyInterestedReported == Spec => ReportsOnlyInterested
<1> DEFINE Reports == activeChannels' # activeChannels =>
               \A c \in activeChannels' : /\ index_[c] >= 0 /\ addedToLoop_[c]
                                          /\ Clear(c) => events_[c] # {}
<1>1. PollerInv /\ [Next]_vars => [Reports]_vars
  <2> SUFFICES ASSUME PollerInv, Next, activeChannels' # activeChannels
               PROVE  \A c \in activeChannels' : /\ index_[c] >= 0 /\ addedToLoop_[c]
                                                 /\ Clear(c) => events_[c] # {}
    BY DEF vars
  <2>1. PICK ready \in SUBSET DOMAIN pollfds_ : Poll(ready)
    BY DEF Next, enableReading, enableWriting, disableReading, disableWriting, disableAll,
           Update, removeChannel
  <2>2. /\ ~(\E i \in ready : channels_[pollfds_[i].fd] = NoChannel)
        /\ activeChannels' = {channels_[pollfds_[i].fd] : i \in ready}
    BY <2>1, Zenon DEF Poll
  <2>3. fault = "none" /\ \A i \in ready : pollfds_[i].fd # -1
    BY <2>1, Zenon DEF Poll
  <2>4. ASSUME NEW i \in ready
        PROVE  LET c == channels_[pollfds_[i].fd]
               IN  index_[c] >= 0 /\ addedToLoop_[c] /\ (Clear(c) => events_[c] # {})
    BY <2>2, <2>3, ReadyIsInterested, Zenon
  <2> QED
    BY <2>2, <2>4
<1> QED
  BY <1>1, PollerInvariant, PTL DEF Spec, ReportsOnlyInterested
=============================================================================
