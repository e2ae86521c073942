--------------------------- MODULE SendPath_proofs --------------------------
(***************************************************************************)
(* Proofs about what a TcpConnection sends, for any messages, any number   *)
(* of them and any size of the socket's send buffer.                       *)
(***************************************************************************)
EXTENDS SendPath, SequenceTheorems, WellFoundedInduction, TLAPS

(* Only a connection whose peer has closed is closed, and it is idle then  *)
(* but for a send that the close has overtaken.                            *)
PeerInv ==
    /\ life # "open" => peer = "closed"
    /\ state_ = "kDisconnected" => life # "open"
    /\ life # "open" /\ writing => overtaken

(* What is buffered is waited for, and nothing is behind the FIN.          *)
FinInv ==
    /\ life = "open" /\ outputBuffer_ # <<>> => writing
    /\ fin /\ peer = "open" => outputBuffer_ = <<>> /\ ~writing

(* Behind the FIN, or the close, no send can begin, and one that began     *)
(* earlier and is still posted was overtaken.                              *)
LateInv ==
    /\ fin \/ life # "open" => state_ # "kConnected" /\ (SendPosted => overtaken)
    /\ \A i \in DOMAIN posted : posted[i] = Shutdown => state_ # "kConnected"

SendInv ==
    /\ TypeOK /\ PeerInv /\ FinInv /\ LateInv
    /\ StreamIntact /\ InterestIffBuffered /\ FaultsExplained /\ RemovedForGood

-----------------------------------------------------------------------------
(* Operators of the model.                                                 *)

(* A set of naturals that is not empty has a least member.                 *)
LEMMA MinOfNaturals ==
    ASSUME NEW T \in SUBSET Nat, T # {}
    PROVE  Min(T) \in T /\ \A y \in T : Min(T) <= y
<1> DEFINE Less == OpToRel(<, Nat)
<1>1. IsWellFoundedOn(Less, Nat)
  BY NatLessThanWellFounded
<1>2. \E x \in T : \A y \in T : ~(<<y, x>> \in Less)
  <2> HIDE DEF Less
  <2> QED
    BY <1>1, WFMin
<1>3. \A x, y \in Nat : <<y, x>> \in Less <=> y < x
  BY DEF OpToRel
<1>4. \E x \in T : \A y \in T : ~(y < x)
  <2> HIDE DEF Less
  <2> QED
    BY <1>2, <1>3
<1>5. \E x \in T : \A y \in T : x <= y
  BY <1>4
<1> QED
  BY <1>5, Zenon DEF Min

(* write(2) takes a prefix, and no more than fits.                         *)
LEMMA AcceptedIsPrefix ==
    ASSUME Capacity \in Nat, Len(kernel) \in Nat, Len(kernel) <= Capacity,
           NEW bytes, Len(bytes) \in Nat, NEW n \in Accepted(bytes)
    PROVE  n \in Nat /\ n <= Len(bytes) /\ n <= Capacity - Len(kernel)
<1> DEFINE T == {Len(bytes), Capacity - Len(kernel)}
<1>1. T \in SUBSET Nat /\ T # {}
  OBVIOUS
<1>2. Min(T) \in T /\ \A y \in T : Min(T) <= y
  BY <1>1, MinOfNaturals, Zenon
<1>3. n = 0 \/ n = Min(T)
  BY DEF Accepted
<1> QED
  BY <1>1, <1>2, <1>3

(* std::string(message) is a sequence of bytes.                            *)
LEMMA CStringType ==
    ASSUME NEW bytes \in Seq(Nat)
    PROVE  CString(bytes) \in Seq(Nat)
<1> DEFINE nul == {i \in DOMAIN bytes : bytes[i] = 0}
<1>1. CASE nul = {}
  BY <1>1 DEF CString
<1>2. CASE nul # {}
  <2>1. nul \in SUBSET Nat /\ \A i \in nul : i \in 1..Len(bytes)
    BY LenProperties
  <2>2. Min(nul) \in nul
    <3> HIDE DEF nul
    <3> QED
      BY <1>2, <2>1, MinOfNaturals
  <2>3. Min(nul) \in Nat /\ 1 <= Min(nul) /\ Min(nul) <= Len(bytes)
    BY <2>1, <2>2
  <2>4. CString(bytes) = SubSeq(bytes, 1, Min(nul) - 1)
    BY <1>2 DEF CString
  <2> QED
    <3> HIDE DEF nul
    <3> QED
      BY <2>3, <2>4, SubSeqProperties
<1> QED
  BY <1>1, <1>2

(* Concatenation of sequences of bytes.                                    *)
LEMMA ConcatBytes ==
    /\ \A s, t \in Seq(Nat) : s \o t \in Seq(Nat)
    /\ \A s, t, u \in Seq(Nat) : (s \o t) \o u = s \o (t \o u)
    /\ \A s \in Seq(Nat) : s \o <<>> = s /\ <<>> \o s = s
BY ConcatProperties, ConcatAssociative, ConcatEmptySeq

(* Concatenation of bytes associates.                                      *)
LEMMA Regroup ==
    ASSUME NEW s \in Seq(Nat), NEW t \in Seq(Nat), NEW u \in Seq(Nat)
    PROVE  (s \o t) \o u = s \o (t \o u)
BY ConcatAssociative, SMTT(60)

(* A sequence cut in two, and put together again.                          *)
LEMMA CutInTwo ==
    ASSUME NEW s \in Seq(Nat), NEW n \in Nat, n <= Len(s)
    PROVE  /\ SubSeq(s, 1, n) \in Seq(Nat) /\ Len(SubSeq(s, 1, n)) = n
           /\ After(s, n) \in Seq(Nat) /\ Len(After(s, n)) = Len(s) - n
           /\ SubSeq(s, 1, n) \o After(s, n) = s
<1>1. Len(s) \in Nat
  OBVIOUS
<1>2. SubSeq(s, 1, n) \in Seq(Nat) /\ Len(SubSeq(s, 1, n)) = n
  BY <1>1, SubSeqProperties
<1>3. After(s, n) \in Seq(Nat) /\ Len(After(s, n)) = Len(s) - n
  BY <1>1, SubSeqProperties DEF After
<1>4. SubSeq(s, 1, n) \o After(s, n) = SubSeq(s, 1, Len(s))
  <2>1. 1 \in 1..(Len(s) + 1) /\ n \in (1 - 1)..Len(s) /\ Len(s) \in n..Len(s)
    BY <1>1
  <2> QED
    BY <1>1, <2>1, ConcatAdjacentSubSeq DEF After
<1> QED
  BY <1>2, <1>3, <1>4, SubSeqFull

-----------------------------------------------------------------------------
(* sendInLoop.                                                             *)

MessageType == \A m \in Message : m.bytes \in Seq(Nat) /\ m # Shutdown

LEMMA MessageTypes == MessageType
BY SendPathAssumption DEF MessageType, Message, Shutdown

(* The write at once of n bytes, and the rest buffered.                    *)
WriteAndBuffer(m, text, n) ==
    /\ n <= Len(m.bytes) /\ n <= Capacity - Len(kernel)
    /\ n > 0 => WriteAtOnce
    /\ WriteAtOnce => ~fin
    /\ kernel' = kernel \o SubSeq(m.bytes, 1, n)
    /\ sent' = sent \o m.bytes
    /\ UNCHANGED fault
    /\ \/ n = Len(m.bytes) /\ UNCHANGED <<writing, addedToLoop_, outputBuffer_>> /\ cut' = cut
       \/ /\ n < Len(m.bytes) /\ n <= Len(text)
          /\ outputBuffer_' = outputBuffer_ \o After(text, n)
          /\ writing' = TRUE /\ addedToLoop_' = (addedToLoop_ \/ ~writing)
          /\ cut' = (cut \/ text # m.bytes)

(* sendInLoop ends the process, or writes a prefix and buffers the rest.   *)
LEMMA SendInLoopCases ==
    ASSUME TypeOK, NEW m \in Message, NEW text \in Seq(Nat), SendInLoop(m, text)
    PROVE  \/ /\ fault' = "SIGPIPE" /\ MayBreak /\ cut' = cut
              /\ UNCHANGED <<writing, addedToLoop_, outputBuffer_, kernel, sent>>
           \/ /\ fault' = "length_error" /\ cut' = TRUE
              /\ UNCHANGED <<writing, addedToLoop_, outputBuffer_, kernel, sent>>
           \/ \E n \in Nat : WriteAndBuffer(m, text, n)
<1>1. m.bytes \in Seq(Nat) /\ Len(m.bytes) \in Nat /\ Len(text) \in Nat
  BY MessageTypes DEF MessageType
<1>2. Len(kernel) \in Nat /\ Len(kernel) <= Capacity /\ Capacity \in Nat /\ cut \in BOOLEAN
  BY SendPathAssumption DEF TypeOK
<1>3. CASE WriteAtOnce /\ MayBreak /\ fault' = "SIGPIPE" /\ UNCHANGED cut
           /\ UNCHANGED <<channelVars, outputBuffer_, kernel, sent>>
  BY <1>3 DEF channelVars
<1>4. ASSUME WriteAtOnce => ~fin,
             NEW n \in IF WriteAtOnce THEN Accepted(m.bytes) ELSE {0},
             cut' = (cut \/ (n < Len(m.bytes) /\ text # m.bytes)),
             n < Len(m.bytes) /\ n > Len(text),
             fault' = "length_error" /\ UNCHANGED <<channelVars, outputBuffer_, kernel, sent>>
      PROVE  /\ fault' = "length_error" /\ cut' = TRUE
             /\ UNCHANGED <<writing, addedToLoop_, outputBuffer_, kernel, sent>>
  <2>1. text # m.bytes
    BY <1>1, <1>2, <1>4, AcceptedIsPrefix
  <2> QED
    BY <1>4, <2>1 DEF channelVars
<1>5. ASSUME WriteAtOnce => ~fin,
             NEW n \in IF WriteAtOnce THEN Accepted(m.bytes) ELSE {0},
             cut' = (cut \/ (n < Len(m.bytes) /\ text # m.bytes)),
             ~(n < Len(m.bytes) /\ n > Len(text)),
             kernel' = kernel \o SubSeq(m.bytes, 1, n),
             sent' = sent \o m.bytes,
             IF n < Len(m.bytes)
             THEN outputBuffer_' = outputBuffer_ \o After(text, n) /\ enableWriting
             ELSE UNCHANGED <<channelVars, outputBuffer_>>,
             UNCHANGED fault
      PROVE  n \in Nat /\ WriteAndBuffer(m, text, n)
  <2>1. n \in Nat /\ n <= Len(m.bytes) /\ n <= Capacity - Len(kernel) /\ (n > 0 => WriteAtOnce)
    BY <1>1, <1>2, <1>5, AcceptedIsPrefix
  <2>2. CASE n < Len(m.bytes)
    <3>1. cut' = (cut \/ text # m.bytes)
      BY <1>5, <2>2, Zenon
    <3>2. n <= Len(text)
      BY <1>1, <1>5, <2>1, <2>2
    <3>3. outputBuffer_' = outputBuffer_ \o After(text, n) /\ enableWriting
      BY <1>5, <2>2
    <3> QED
      BY <1>5, <2>1, <2>2, <3>1, <3>2, <3>3, Zenon DEF WriteAndBuffer, enableWriting
  <2>3. CASE ~(n < Len(m.bytes))
    <3>1. n = Len(m.bytes)
      BY <1>1, <2>1, <2>3
    <3>2. cut' = cut
      BY <1>2, <1>5, <2>3
    <3> QED
      BY <1>5, <2>1, <2>3, <3>1, <3>2 DEF WriteAndBuffer, channelVars
  <2> QED
    BY <2>1, <2>2, <2>3
<1> QED
  BY <1>3, <1>4, <1>5 DEF SendInLoop

(* Whatever write(2) took, what the peer has read, what the kernel holds   *)
(* and what is buffered are together all that was sent.                    *)
LEMMA WriteAndBufferKeepsStream ==
    ASSUME TypeOK, StreamIntact, NEW m \in Message, NEW text \in Seq(Nat), NEW n \in Nat,
           WriteAndBuffer(m, text, n), UNCHANGED received
    PROVE  /\ StreamIntact'
           /\ outputBuffer_' \in Seq(Nat) /\ sent' \in Seq(Nat)
           /\ kernel' \in Seq(Nat) /\ Len(kernel') <= Capacity
           /\ n < Len(m.bytes) /\ ~cut' => outputBuffer_' # <<>>
<1> DEFINE head == SubSeq(m.bytes, 1, n)
           rest == After(m.bytes, n)
<1>1. /\ m.bytes \in Seq(Nat) /\ Len(m.bytes) \in Nat /\ Len(text) \in Nat
      /\ Capacity \in Nat /\ Len(kernel) \in Nat
  BY MessageTypes, SendPathAssumption DEF MessageType, TypeOK
<1>2. /\ head \in Seq(Nat) /\ Len(head) = n
      /\ rest \in Seq(Nat) /\ Len(rest) = Len(m.bytes) - n
      /\ head \o rest = m.bytes
  BY <1>1, CutInTwo DEF WriteAndBuffer
<1>3. /\ received \in Seq(Nat) /\ kernel \in Seq(Nat) /\ outputBuffer_ \in Seq(Nat)
      /\ sent \in Seq(Nat)
  BY DEF TypeOK
<1>4. kernel' = kernel \o head /\ sent' = sent \o m.bytes /\ n <= Capacity - Len(kernel)
  BY DEF WriteAndBuffer
<1> HIDE DEF head, rest
<1>5. sent' \in Seq(Nat) /\ kernel' \in Seq(Nat) /\ Len(kernel') <= Capacity
  BY <1>1, <1>2, <1>3, <1>4, ConcatProperties
<1>6. CASE n = Len(m.bytes)
  <2>1. UNCHANGED outputBuffer_ /\ cut' = cut /\ (n > 0 => outputBuffer_ = <<>>)
    BY <1>1, <1>6 DEF WriteAndBuffer, WriteAtOnce
  <2>2. rest = <<>>
    BY <1>1, <1>2, <1>6
  <2>3. head = m.bytes
    BY <1>1, <1>2, <2>2, ConcatBytes
  <2>4. ASSUME ~cut
        PROVE  sent' = received \o kernel' \o outputBuffer_'
    <3>1. sent' = (received \o kernel \o outputBuffer_) \o m.bytes
      BY <1>4, <2>4 DEF StreamIntact
    <3>2. CASE n = 0
      <4>1. m.bytes = <<>> /\ head = <<>>
        BY <1>1, <1>6, <2>3, <3>2, EmptySeq
      <4> QED
        BY <1>3, <1>4, <2>1, <3>1, <4>1, ConcatBytes
    <3>3. CASE n > 0
      <4>1. outputBuffer_ = <<>>
        BY <2>1, <3>3
      <4>2. sent' = (received \o kernel) \o m.bytes
        BY <1>3, <3>1, <4>1, ConcatBytes
      <4>3. received \o kernel' \o outputBuffer_' = received \o (kernel \o m.bytes)
        BY <1>1, <1>3, <1>4, <2>1, <2>3, <4>1, ConcatBytes
      <4>4. (received \o kernel) \o m.bytes = received \o (kernel \o m.bytes)
        BY <1>1, <1>3, Regroup, ZenonT(60)
      <4> QED
        BY <4>2, <4>3, <4>4, Zenon
    <3> QED
      BY <3>2, <3>3
  <2>5. StreamIntact'
    BY <2>1, <2>4 DEF StreamIntact
  <2>6. outputBuffer_' \in Seq(Nat) /\ ~(n < Len(m.bytes))
    BY <1>1, <1>3, <1>6, <2>1
  <2> QED
    BY <1>5, <2>5, <2>6
<1>7. CASE n < Len(m.bytes)
  <2>1. /\ n <= Len(text) /\ outputBuffer_' = outputBuffer_ \o After(text, n)
        /\ cut' = (cut \/ text # m.bytes)
    BY <1>1, <1>7 DEF WriteAndBuffer
  <2>2. After(text, n) \in Seq(Nat)
    BY <2>1, CutInTwo
  <2>3. outputBuffer_' \in Seq(Nat)
    BY <1>3, <2>1, <2>2, ConcatProperties
  <2>4. ASSUME ~cut'
        PROVE  sent' = received \o kernel' \o outputBuffer_' /\ outputBuffer_' # <<>>
    <3>1. ~cut /\ outputBuffer_' = outputBuffer_ \o rest
      BY <2>1, <2>4 DEF rest
    <3>2. sent' = (received \o kernel \o outputBuffer_) \o (head \o rest)
      BY <1>2, <1>4, <3>1 DEF StreamIntact
    <3>3. head = <<>> \/ outputBuffer_ = <<>>
      BY <1>2 DEF WriteAndBuffer, WriteAtOnce
    <3>4. outputBuffer_ \o (head \o rest) = head \o outputBuffer_'
      <4>1. head \o rest \in Seq(Nat) /\ outputBuffer_ \o rest \in Seq(Nat)
        BY <1>2, <1>3, ConcatBytes
      <4>2. CASE head = <<>>
        BY <1>2, <1>3, <3>1, <4>1, <4>2, ConcatBytes
      <4>3. CASE outputBuffer_ = <<>>
        BY <1>2, <1>3, <3>1, <4>1, <4>3, ConcatBytes
      <4> QED
        BY <3>3, <4>2, <4>3
    <3>5. sent' = (received \o kernel) \o (head \o outputBuffer_')
      <4>1. received \o kernel \in Seq(Nat) /\ head \o rest \in Seq(Nat)
        BY <1>2, <1>3, ConcatProperties
      <4>2. sent' = (received \o kernel) \o (outputBuffer_ \o (head \o rest))
        <5>1. ((received \o kernel) \o outputBuffer_) \o (head \o rest)
                = (received \o kernel) \o (outputBuffer_ \o (head \o rest))
          <6>1. \A u \in Seq(Nat) : ((received \o kernel) \o outputBuffer_) \o u
                                   = (received \o kernel) \o (outputBuffer_ \o u)
            BY <1>3, <4>1, Regroup, ZenonT(60)
          <6> QED
            BY <4>1, <6>1, Zenon
        <5> QED
          BY <3>2, <5>1, Zenon
      <4> QED
        BY <3>4, <4>2
    <3>6. sent' = ((received \o kernel) \o head) \o outputBuffer_'
      <4>1. received \o kernel \in Seq(Nat)
        BY <1>3, ConcatProperties
      <4> QED
        <5>1. ((received \o kernel) \o head) \o outputBuffer_'
                = (received \o kernel) \o (head \o outputBuffer_')
          BY <1>2, <2>3, <4>1, Regroup, ZenonT(60)
        <5> QED
          BY <3>5, <5>1, Zenon
    <3>7. (received \o kernel) \o head = received \o kernel'
      <4>1. (received \o kernel) \o head = received \o (kernel \o head)
        <5>1. \A u \in Seq(Nat) : (received \o kernel) \o u = received \o (kernel \o u)
          BY <1>3, Regroup, ZenonT(60)
        <5> QED
          BY <1>2, <5>1, Zenon
      <4> QED
        BY <1>4, <4>1, Zenon
    <3>8. outputBuffer_' # <<>>
      BY <1>1, <1>2, <1>3, <1>7, <3>1, ConcatProperties
    <3> QED
      BY <3>6, <3>7, <3>8
  <2> QED
    BY <1>5, <2>3, <2>4 DEF StreamIntact
<1> QED
  BY <1>6, <1>7 DEF WriteAndBuffer

(* What sendInLoop leaves for its caller to show: types of the variables   *)
(* that it changes, and the parts of the invariant about them.             *)
SendTypes ==
    /\ writing \in BOOLEAN /\ addedToLoop_ \in BOOLEAN /\ cut \in BOOLEAN
    /\ outputBuffer_ \in Seq(Nat) /\ sent \in Seq(Nat)
    /\ kernel \in Seq(Nat) /\ Len(kernel) <= Capacity
    /\ fault \in {"none", "SIGPIPE", "length_error", "TcpConnection:73", "Channel:48"}
StreamParts ==
    /\ PeerInv /\ FinInv /\ StreamIntact /\ InterestIffBuffered /\ FaultsExplained
    /\ RemovedForGood

(* sendInLoop keeps the invariant when a send behind the FIN or the close  *)
(* is one that was overtaken.                                              *)
LEMMA PerformKeepsInv ==
    ASSUME SendInv, fault = "none", NEW m \in Message, Perform(m),
           fin \/ life # "open" => overtaken,
           UNCHANGED <<state_, life, fin, received, peer, overtaken>>
    PROVE  SendTypes' /\ StreamParts'
<1>1. TypeOK /\ StreamIntact /\ m.bytes \in Seq(Nat) /\ Len(m.bytes) \in Nat
  BY MessageTypes DEF SendInv, MessageType
<1> DEFINE t == IF m.kind = "array" THEN CString(m.bytes) ELSE m.bytes
<1>2. t \in Seq(Nat)
  BY <1>1, CStringType
<1>3. SendInLoop(m, t)
  BY DEF Perform
<1> HIDE DEF t
<1>4. CASE /\ fault' = "SIGPIPE" /\ MayBreak /\ cut' = cut
           /\ UNCHANGED <<writing, addedToLoop_, outputBuffer_, kernel, sent>>
  <2>1. SendTypes'
    BY <1>1, <1>4 DEF TypeOK, SendTypes
  <2>2. FaultsExplained'
    BY <1>1, <1>4 DEF FaultsExplained, MayBreak, TypeOK
  <2>3. PeerInv' /\ FinInv' /\ StreamIntact' /\ InterestIffBuffered' /\ RemovedForGood'
    BY <1>4 DEF SendInv, PeerInv, FinInv, StreamIntact, InterestIffBuffered, RemovedForGood
  <2> QED
    BY <2>1, <2>2, <2>3 DEF StreamParts
<1>5. CASE /\ fault' = "length_error" /\ cut' = TRUE
           /\ UNCHANGED <<writing, addedToLoop_, outputBuffer_, kernel, sent>>
  <2>1. SendTypes'
    BY <1>1, <1>5 DEF TypeOK, SendTypes
  <2>2. FaultsExplained'
    BY <1>5 DEF FaultsExplained
  <2>3. PeerInv' /\ FinInv' /\ StreamIntact' /\ InterestIffBuffered' /\ RemovedForGood'
    BY <1>5 DEF SendInv, PeerInv, FinInv, StreamIntact, InterestIffBuffered, RemovedForGood
  <2> QED
    BY <2>1, <2>2, <2>3 DEF StreamParts
<1>6. ASSUME NEW n \in Nat, WriteAndBuffer(m, t, n)
      PROVE  SendTypes' /\ StreamParts'
  <2>1. /\ StreamIntact'
        /\ outputBuffer_' \in Seq(Nat) /\ sent' \in Seq(Nat)
        /\ kernel' \in Seq(Nat) /\ Len(kernel') <= Capacity
        /\ n < Len(m.bytes) /\ ~cut' => outputBuffer_' # <<>>
    BY <1>1, <1>2, <1>6, WriteAndBufferKeepsStream
  <2>2. fault' = "none" /\ (WriteAtOnce => ~fin)
    BY <1>6 DEF WriteAndBuffer
  <2>3. writing \in BOOLEAN /\ addedToLoop_ \in BOOLEAN /\ cut \in BOOLEAN
    BY <1>1 DEF TypeOK
  <2>4. CASE n = Len(m.bytes) /\ UNCHANGED <<writing, addedToLoop_, outputBuffer_>> /\ cut' = cut
    <3>1. SendTypes'
      BY <2>1, <2>2, <2>3, <2>4 DEF SendTypes
    <3>2. PeerInv' /\ FinInv' /\ InterestIffBuffered' /\ RemovedForGood' /\ FaultsExplained'
      BY <2>2, <2>4 DEF SendInv, PeerInv, FinInv, InterestIffBuffered, RemovedForGood,
                        FaultsExplained
    <3> QED
      BY <2>1, <3>1, <3>2 DEF StreamParts
  <2>5. CASE /\ n < Len(m.bytes) /\ writing' = TRUE
             /\ addedToLoop_' = (addedToLoop_ \/ ~writing)
             /\ cut' = (cut \/ t # m.bytes)
    <3>1. SendTypes'
      BY <2>1, <2>2, <2>3, <2>5 DEF SendTypes
    <3>2. InterestIffBuffered' /\ PeerInv' /\ FaultsExplained'
      BY <2>1, <2>2, <2>5 DEF SendInv, InterestIffBuffered, PeerInv, FaultsExplained
    <3>3. RemovedForGood'
      BY DEF RemovedForGood
    <3>4. FinInv'
      <4>1. fin /\ peer = "open" => FALSE
        BY <2>2 DEF SendInv, FinInv, WriteAtOnce
      <4> QED
        BY <2>5, <4>1 DEF FinInv
    <3> QED
      BY <2>1, <3>1, <3>2, <3>3, <3>4 DEF StreamParts
  <2> QED
    BY <1>6, <2>4, <2>5 DEF WriteAndBuffer
<1> QED
  BY <1>1, <1>2, <1>3, <1>4, <1>5, <1>6, SendInLoopCases

-----------------------------------------------------------------------------
(* The invariant, action by action.                                        *)

LEMMA SendInvInit == Init => SendInv
<1> SUFFICES ASSUME Init PROVE SendInv
  OBVIOUS
<1>1. TypeOK
  <2>1. <<>> \in Seq(Nat) /\ Len(<<>>) = 0 /\ <<>> \in Seq(Message \cup {Shutdown})
    BY EmptySeq
  <2>2. /\ outputBuffer_ \in Seq(Nat) /\ received \in Seq(Nat) /\ sent \in Seq(Nat)
        /\ kernel \in Seq(Nat) /\ posted \in Seq(Message \cup {Shutdown})
    BY <2>1, Zenon DEF Init
  <2>3. Len(kernel) <= Capacity /\ sends \in 0..MaxSends
    BY <2>1, SendPathAssumption DEF Init
  <2> QED
    BY <2>2, <2>3 DEF Init, TypeOK
<1>2. StreamIntact
  BY ConcatBytes DEF Init, StreamIntact
<1>3. PeerInv /\ FinInv /\ LateInv /\ InterestIffBuffered /\ FaultsExplained /\ RemovedForGood
  BY DEF Init, PeerInv, FinInv, LateInv, InterestIffBuffered, FaultsExplained, RemovedForGood
<1> QED
  BY <1>1, <1>2, <1>3 DEF SendInv

(* shutdownInLoop sends the FIN only behind the last buffered byte.        *)
LEMMA ShutdownKeepsInv ==
    ASSUME SendInv, fault = "none", ShutdownInLoop(writing),
           state_' = state_ \/ state_' = "kDisconnecting",
           UNCHANGED <<life, writing, outputBuffer_, kernel, received, peer, sent, cut,
                       addedToLoop_, fault>>
    PROVE  /\ fin' \in BOOLEAN /\ overtaken' \in BOOLEAN
           /\ StreamParts'
           /\ fin' \/ life # "open" => (SendPosted => overtaken')
<1>0. fin \in BOOLEAN /\ writing \in BOOLEAN /\ overtaken \in BOOLEAN /\ cut \in BOOLEAN
  BY DEF SendInv, TypeOK
<1>1. fin' = (fin \/ ~writing) /\ overtaken' = (overtaken \/ (~writing /\ SendPosted))
  BY DEF ShutdownInLoop
<1>2. fin' \in BOOLEAN /\ overtaken' \in BOOLEAN
  BY <1>0, <1>1
<1>3. FinInv'
  BY <1>0, <1>1 DEF SendInv, FinInv, PeerInv, InterestIffBuffered
<1>4. fin' \/ life # "open" => (SendPosted => overtaken')
  BY <1>0, <1>1 DEF SendInv, LateInv
<1>5. PeerInv' /\ StreamIntact' /\ InterestIffBuffered' /\ FaultsExplained'
  BY <1>0, <1>1 DEF SendInv, PeerInv, StreamIntact, InterestIffBuffered, FaultsExplained
<1>6. RemovedForGood'
  BY <1>0, <1>1 DEF SendInv, RemovedForGood
<1> QED
  BY <1>2, <1>3, <1>4, <1>5, <1>6 DEF StreamParts

LEMMA SendKeepsInv ==
    ASSUME SendInv, NEW m \in Message, send(m)
    PROVE  SendInv'
<1>1. ~fin /\ life = "open"
  BY DEF SendInv, LateInv, send, Connected
<1>2. SendTypes' /\ StreamParts'
  BY <1>1, PerformKeepsInv DEF send
<1>3. TypeOK'
  BY <1>2, SendPathAssumption DEF SendInv, TypeOK, SendTypes, send, other
<1>4. LateInv'
  BY DEF SendInv, LateInv, send, other, SendPosted
<1> QED
  BY <1>2, <1>3, <1>4 DEF SendInv, StreamParts

LEMMA UserSendKeepsInv ==
    ASSUME SendInv, NEW m \in Message, userSend(m)
    PROVE  SendInv'
<1> USE DEF userSend, channelVars, network
<1>1. TypeOK'
  BY SendPathAssumption DEF SendInv, TypeOK
<1>2. ~fin /\ life = "open" /\ state_ = "kConnected" /\ m # Shutdown
  BY MessageTypes DEF SendInv, LateInv, Connected, MessageType
<1>3. \A i \in DOMAIN posted' : posted'[i] # Shutdown
  <2>1. posted \in Seq(Message \cup {Shutdown})
    BY DEF SendInv, TypeOK
  <2>2. \A i \in DOMAIN posted : posted[i] # Shutdown
    BY <1>2 DEF SendInv, LateInv
  <2> QED
    BY <1>2, <2>1, <2>2
<1>4. LateInv'
  BY <1>2, <1>3 DEF LateInv
<1>5. PeerInv' /\ FinInv' /\ StreamIntact' /\ InterestIffBuffered' /\ FaultsExplained'
      /\ RemovedForGood'
  BY DEF SendInv, PeerInv, FinInv, StreamIntact, InterestIffBuffered, FaultsExplained,
         RemovedForGood
<1> QED
  BY <1>1, <1>4, <1>5 DEF SendInv

LEMMA FunctorKeepsInv == SendInv /\ RunFunctor => SendInv'
<1> SUFFICES ASSUME SendInv, RunFunctor
             PROVE  SendInv'
  OBVIOUS
<1>1. /\ posted \in Seq(Message \cup {Shutdown}) /\ posted # <<>>
      /\ Head(posted) \in Message \cup {Shutdown}
      /\ posted' = Tail(posted) /\ posted' \in Seq(Message \cup {Shutdown})
      /\ fault = "none" /\ UNCHANGED <<state_, life, received, peer, user, sends>>
  BY DEF SendInv, TypeOK, RunFunctor
<1>2. SendPosted' => SendPosted
  BY <1>1 DEF SendPosted
<1>3. (\A i \in DOMAIN posted : posted[i] = Shutdown => state_ # "kConnected") =>
      (\A i \in DOMAIN posted' : posted'[i] = Shutdown => state_' # "kConnected")
  BY <1>1
<1>4. CASE Head(posted) = Shutdown
  <2>1. /\ ShutdownInLoop(writing)
        /\ UNCHANGED <<writing, addedToLoop_, outputBuffer_, kernel, sent, cut, fault>>
    BY <1>4 DEF RunFunctor, channelVars
  <2>2. /\ fin' \in BOOLEAN /\ overtaken' \in BOOLEAN /\ StreamParts'
        /\ fin' \/ life # "open" => (SendPosted => overtaken')
    BY <1>1, <2>1, ShutdownKeepsInv
  <2>3. TypeOK'
    BY <1>1, <2>1, <2>2 DEF SendInv, TypeOK
  <2>4. state_ # "kConnected"
    BY <1>1, <1>4 DEF SendInv, LateInv
  <2>5. LateInv'
    BY <1>1, <1>2, <1>3, <2>2, <2>4 DEF SendInv, LateInv
  <2> QED
    BY <2>2, <2>3, <2>5 DEF SendInv, StreamParts
<1>5. CASE Head(posted) # Shutdown
  <2>1. Head(posted) \in Message /\ Perform(Head(posted)) /\ UNCHANGED <<fin, overtaken>>
    BY <1>1, <1>5 DEF RunFunctor
  <2>2. SendPosted
    BY <1>1, <1>5 DEF SendPosted
  <2>3. fin \/ life # "open" => overtaken
    BY <2>2 DEF SendInv, LateInv
  <2>4. SendTypes' /\ StreamParts'
    BY <1>1, <2>1, <2>3, PerformKeepsInv
  <2>5. TypeOK'
    BY <1>1, <2>1, <2>4 DEF SendInv, TypeOK, SendTypes
  <2>6. LateInv'
    BY <1>1, <1>2, <1>3, <2>1 DEF SendInv, LateInv
  <2> QED
    BY <2>4, <2>5, <2>6 DEF SendInv, StreamParts
<1> QED
  BY <1>4, <1>5

LEMMA HandleWriteKeepsInv == SendInv /\ handleWrite => SendInv'
<1> SUFFICES ASSUME SendInv, handleWrite
             PROVE  SendInv'
  OBVIOUS
<1>0. /\ UNCHANGED <<state_, life, addedToLoop_, received, peer, posted, user, sends, sent, cut>>
      /\ fault = "none" /\ writing /\ outputBuffer_ # <<>>
      /\ TypeOK /\ PeerInv /\ FinInv /\ LateInv /\ StreamIntact /\ InterestIffBuffered
      /\ RemovedForGood
  BY DEF handleWrite, other, SendInv
<1>1. CASE /\ MayBreak /\ fault' = "SIGPIPE"
           /\ UNCHANGED <<writing, outputBuffer_, kernel, fin, overtaken>>
  <2>1. TypeOK'
    BY <1>0, <1>1 DEF TypeOK
  <2>2. FaultsExplained'
    BY <1>0, <1>1 DEF TypeOK, MayBreak, FinInv, FaultsExplained
  <2>3. PeerInv' /\ FinInv' /\ StreamIntact' /\ InterestIffBuffered' /\ RemovedForGood'
    BY <1>0, <1>1 DEF PeerInv, FinInv, StreamIntact, InterestIffBuffered, RemovedForGood
  <2>4. LateInv'
    BY <1>0, <1>1 DEF LateInv, SendPosted
  <2> QED
    BY <2>1, <2>2, <2>3, <2>4 DEF SendInv
<1>2. ASSUME ~fin, NEW n \in Accepted(outputBuffer_),
             kernel' = kernel \o SubSeq(outputBuffer_, 1, n),
             outputBuffer_' = After(outputBuffer_, n),
             writing' = (outputBuffer_' # <<>>),
             IF outputBuffer_' = <<>> /\ state_ = "kDisconnecting"
             THEN ShutdownInLoop(writing') ELSE UNCHANGED <<fin, overtaken>>,
             UNCHANGED fault
      PROVE  SendInv'
  <2> DEFINE head == SubSeq(outputBuffer_, 1, n)
  <2>1. /\ outputBuffer_ \in Seq(Nat) /\ Len(outputBuffer_) \in Nat
        /\ kernel \in Seq(Nat) /\ Len(kernel) \in Nat /\ Len(kernel) <= Capacity
        /\ Capacity \in Nat /\ received \in Seq(Nat)
        /\ fin \in BOOLEAN /\ overtaken \in BOOLEAN
    BY <1>0, SendPathAssumption DEF TypeOK
  <2>2. n \in Nat /\ n <= Len(outputBuffer_) /\ n <= Capacity - Len(kernel)
    BY <2>1, AcceptedIsPrefix
  <2>3. /\ head \in Seq(Nat) /\ Len(head) = n
        /\ outputBuffer_' \in Seq(Nat) /\ head \o outputBuffer_' = outputBuffer_
    BY <1>2, <2>1, <2>2, CutInTwo
  <2>4. kernel' = kernel \o head
    BY <1>2
  <2> HIDE DEF head
  <2>5. kernel' \in Seq(Nat) /\ Len(kernel') <= Capacity
    BY <2>1, <2>2, <2>3, <2>4, ConcatProperties
  <2>6. StreamIntact'
    <3>1. (received \o kernel') \o outputBuffer_' = received \o (kernel' \o outputBuffer_')
      <4>1. \A u \in Seq(Nat) : (received \o kernel') \o u = received \o (kernel' \o u)
        BY <2>1, <2>5, Regroup, ZenonT(60)
      <4> QED
        BY <2>3, <4>1
    <3>2. kernel' \o outputBuffer_' = kernel \o outputBuffer_
      <4>1. \A u \in Seq(Nat) : (kernel \o head) \o u = kernel \o (head \o u)
        BY <2>1, <2>3, Regroup, ZenonT(60)
      <4>2. (kernel \o head) \o outputBuffer_' = kernel \o (head \o outputBuffer_')
        BY <2>3, <4>1, Zenon
      <4> QED
        BY <2>3, <2>4, <4>2, Zenon
    <3>3. received \o (kernel \o outputBuffer_) = (received \o kernel) \o outputBuffer_
      BY <2>1, Regroup, ZenonT(60)
    <3> QED
      BY <1>0, <3>1, <3>2, <3>3 DEF StreamIntact
  <2>7. /\ fin' \in BOOLEAN /\ overtaken' \in BOOLEAN
        /\ fin' => outputBuffer_' = <<>> /\ state_ = "kDisconnecting" /\ (SendPosted => overtaken')
        /\ overtaken => overtaken'
    <3>1. CASE outputBuffer_' = <<>> /\ state_ = "kDisconnecting"
      <4>1. fin' = (fin \/ ~writing') /\ overtaken' = (overtaken \/ (~writing' /\ SendPosted))
        BY <1>2, <3>1 DEF ShutdownInLoop
      <4>2. ~writing'
        BY <1>2, <3>1
      <4> QED
        BY <2>1, <3>1, <4>1, <4>2
    <3>2. CASE ~(outputBuffer_' = <<>> /\ state_ = "kDisconnecting")
      BY <1>2, <2>1, <3>2
    <3> QED
      BY <3>1, <3>2
  <2>8. TypeOK'
    BY <1>0, <1>2, <2>3, <2>5, <2>7 DEF TypeOK
  <2>9. PeerInv' /\ FinInv' /\ InterestIffBuffered' /\ FaultsExplained' /\ RemovedForGood'
    BY <1>0, <1>2, <2>7 DEF PeerInv, FinInv, InterestIffBuffered, FaultsExplained, RemovedForGood
  <2>10. LateInv'
    <3>1. SendPosted' <=> SendPosted
      BY <1>0 DEF SendPosted
    <3> QED
      BY <1>0, <2>7, <3>1 DEF LateInv
  <2> QED
    BY <2>6, <2>8, <2>9, <2>10 DEF SendInv
<1> QED
  BY <1>1, <1>2 DEF handleWrite

LEMMA PeerReadsKeepsInv == SendInv /\ peerReads => SendInv'
<1> SUFFICES ASSUME SendInv, peerReads
             PROVE  SendInv'
  OBVIOUS
<1>0. UNCHANGED <<state_, life, writing, addedToLoop_, outputBuffer_, fin, peer, posted, user,
                  sends, sent, cut, overtaken, fault>>
  BY DEF peerReads, channelVars, other
<1>1. /\ kernel \in Seq(Nat) /\ received \in Seq(Nat) /\ outputBuffer_ \in Seq(Nat)
      /\ Len(kernel) <= Capacity /\ Capacity \in Nat /\ kernel # <<>>
      /\ received' = Append(received, Head(kernel)) /\ kernel' = Tail(kernel)
  BY SendPathAssumption DEF SendInv, TypeOK, peerReads
<1>2. /\ received' \in Seq(Nat) /\ kernel' \in Seq(Nat) /\ Len(kernel') <= Capacity
  BY <1>1
<1>3. received' \o kernel' = received \o kernel
  <2>1. Head(kernel) \in Nat /\ Tail(kernel) \in Seq(Nat) /\ <<Head(kernel)>> \in Seq(Nat)
    BY <1>1
  <2>2. kernel = <<Head(kernel)>> \o Tail(kernel)
    BY <1>1, <2>1
  <2>3. received' = received \o <<Head(kernel)>>
    BY <1>1, <2>1, AppendIsConcat
  <2>4. (received \o <<Head(kernel)>>) \o Tail(kernel) = received \o (<<Head(kernel)>> \o Tail(kernel))
    BY <1>1, <2>1, Regroup, ZenonT(60)
  <2> QED
    BY <1>1, <2>2, <2>3, <2>4
<1>4. StreamIntact'
  BY <1>0, <1>3 DEF SendInv, StreamIntact
<1>5. TypeOK'
  BY <1>0, <1>2 DEF SendInv, TypeOK
<1>6. PeerInv' /\ FinInv' /\ InterestIffBuffered' /\ FaultsExplained' /\ RemovedForGood'
  BY <1>0 DEF SendInv, PeerInv, FinInv, InterestIffBuffered, FaultsExplained, RemovedForGood
<1>7. LateInv'
  BY <1>0 DEF SendInv, LateInv, SendPosted
<1> QED
  BY <1>4, <1>5, <1>6, <1>7 DEF SendInv

(* An array that is overwritten is still a posted send.                    *)
LEMMA UserReusesKeepsInv == SendInv /\ userReuses => SendInv'
<1> SUFFICES ASSUME SendInv, userReuses
             PROVE  SendInv'
  OBVIOUS
<1>0. UNCHANGED <<state_, life, writing, addedToLoop_, outputBuffer_, fin, kernel, received,
                  peer, user, sends, sent, cut, overtaken, fault>>
  BY DEF userReuses, channelVars, network
<1>1. posted \in Seq(Message \cup {Shutdown})
  BY DEF SendInv, TypeOK
<1>2. PICK i \in DOMAIN posted : \E m \in Message :
          posted[i].kind = "array" /\ m.kind = "array" /\ posted' = [posted EXCEPT ![i] = m]
  BY Zenon DEF userReuses
<1>3. PICK m \in Message :
          posted[i].kind = "array" /\ m.kind = "array" /\ posted' = [posted EXCEPT ![i] = m]
  BY <1>2, Zenon
<1>4. Shutdown.kind = "shutdown"
  BY DEF Shutdown
<1>5. posted[i] # Shutdown /\ m # Shutdown
  BY <1>3, <1>4, Zenon
<1>6. posted' \in Seq(Message \cup {Shutdown}) /\ DOMAIN posted' = DOMAIN posted
  BY <1>1, <1>3
<1>7. \A j \in DOMAIN posted : posted'[j] = Shutdown <=> posted[j] = Shutdown
  BY <1>3, <1>5
<1>8. TypeOK'
  BY <1>0, <1>6 DEF SendInv, TypeOK
<1>9. SendPosted' <=> SendPosted
  BY <1>6, <1>7 DEF SendPosted
<1>10. LateInv'
  BY <1>0, <1>6, <1>7, <1>9 DEF SendInv, LateInv
<1>11. PeerInv' /\ FinInv' /\ StreamIntact' /\ InterestIffBuffered' /\ FaultsExplained'
       /\ RemovedForGood'
  BY <1>0 DEF SendInv, PeerInv, FinInv, StreamIntact, InterestIffBuffered, FaultsExplained,
              RemovedForGood
<1> QED
  BY <1>8, <1>10, <1>11 DEF SendInv

LEMMA OtherStepsKeepInv ==
    ASSUME SendInv,
           \/ shutdown \/ handleClose \/ connectDestroyed
           \/ userShutdownTests \/ userShutdownSets \/ peerCloses
    PROVE  SendInv'
<1>0. /\ TypeOK /\ PeerInv /\ FinInv /\ LateInv /\ StreamIntact /\ InterestIffBuffered
      /\ FaultsExplained /\ RemovedForGood
  BY DEF SendInv
<1> USE DEF channelVars, network, other
<1>1. CASE shutdown
  <2>1. /\ fin' \in BOOLEAN /\ overtaken' \in BOOLEAN /\ StreamParts'
        /\ fin' \/ life # "open" => (SendPosted => overtaken')
    BY <1>1, ShutdownKeepsInv DEF shutdown
  <2>2. TypeOK'
    BY <1>0, <1>1, <2>1 DEF TypeOK, shutdown
  <2>3. SendPosted' <=> SendPosted
    BY <1>1 DEF shutdown, SendPosted
  <2>4. LateInv'
    BY <1>1, <2>1, <2>3 DEF shutdown, LateInv
  <2> QED
    BY <2>1, <2>2, <2>4 DEF SendInv, StreamParts
<1>2. CASE handleClose
  <2>1. TypeOK'
    BY <1>0, <1>2 DEF TypeOK, handleClose
  <2>2. /\ peer' = "closed" /\ life' = "closed" /\ state_' = "kDisconnected"
        /\ writing' = FALSE /\ fault' = "none"
        /\ overtaken' = (overtaken \/ SendPosted)
        /\ UNCHANGED <<posted, outputBuffer_, kernel, received, sent, cut>>
    BY <1>0, <1>2 DEF handleClose, PeerInv, TypeOK
  <2>3. PeerInv' /\ FinInv' /\ StreamIntact' /\ InterestIffBuffered' /\ FaultsExplained'
        /\ RemovedForGood'
    BY <1>0, <2>2 DEF PeerInv, FinInv, StreamIntact, InterestIffBuffered, FaultsExplained,
                      RemovedForGood
  <2>4. SendPosted' <=> SendPosted
    BY <2>2 DEF SendPosted
  <2>5. LateInv'
    BY <2>2, <2>4 DEF LateInv
  <2> QED
    BY <2>1, <2>3, <2>5 DEF SendInv
<1>3. CASE connectDestroyed
  <2>1. TypeOK'
    BY <1>0, <1>3 DEF TypeOK, connectDestroyed, remove
  <2>2. /\ life = "closed" /\ life' = "removed" /\ state_' = "kDisconnected"
        /\ addedToLoop_' = FALSE /\ (writing' => writing)
        /\ fault' = IF writing' THEN "Channel:48" ELSE "none"
        /\ UNCHANGED <<posted, outputBuffer_, fin, kernel, received, peer, sent, cut, overtaken>>
    BY <1>3 DEF connectDestroyed, remove
  <2>3. PeerInv' /\ FinInv' /\ StreamIntact' /\ InterestIffBuffered' /\ FaultsExplained'
        /\ RemovedForGood'
    BY <1>0, <2>2 DEF PeerInv, FinInv, StreamIntact, InterestIffBuffered, FaultsExplained,
                      RemovedForGood
  <2>4. LateInv'
    BY <1>0, <2>2 DEF LateInv, SendPosted
  <2> QED
    BY <2>1, <2>3, <2>4 DEF SendInv
<1>4. CASE userShutdownTests
  <2>1. TypeOK' /\ LateInv'
    BY <1>0, <1>4 DEF TypeOK, LateInv, SendPosted, userShutdownTests
  <2>2. PeerInv' /\ FinInv' /\ StreamIntact' /\ InterestIffBuffered' /\ FaultsExplained'
        /\ RemovedForGood'
    BY <1>0, <1>4 DEF PeerInv, FinInv, StreamIntact, InterestIffBuffered, FaultsExplained,
                      RemovedForGood, userShutdownTests
  <2> QED
    BY <2>1, <2>2 DEF SendInv
<1>5. CASE userShutdownSets
  <2>1. TypeOK'
    BY <1>0, <1>5 DEF TypeOK, userShutdownSets
  <2>2. SendPosted' => SendPosted
    <3>1. posted \in Seq(Message \cup {Shutdown}) /\ posted' = Append(posted, Shutdown)
      BY <1>0, <1>5, Zenon DEF TypeOK, userShutdownSets
    <3>2. \A i \in DOMAIN posted' : posted'[i] = Shutdown \/ (i \in DOMAIN posted /\ posted'[i] = posted[i])
      BY <3>1
    <3> QED
      BY <3>2, Zenon DEF SendPosted
  <2>3. LateInv'
    BY <1>0, <1>5, <2>2 DEF LateInv, userShutdownSets
  <2>4. PeerInv' /\ FinInv' /\ StreamIntact' /\ InterestIffBuffered' /\ FaultsExplained'
        /\ RemovedForGood'
    BY <1>0, <1>5 DEF PeerInv, FinInv, StreamIntact, InterestIffBuffered, FaultsExplained,
                      RemovedForGood, userShutdownSets
  <2> QED
    BY <2>1, <2>3, <2>4 DEF SendInv
<1>6. CASE peerCloses
  <2>1. TypeOK' /\ LateInv'
    BY <1>0, <1>6 DEF TypeOK, LateInv, SendPosted, peerCloses
  <2>2. PeerInv' /\ FinInv' /\ StreamIntact' /\ InterestIffBuffered' /\ FaultsExplained'
        /\ RemovedForGood'
    BY <1>0, <1>6 DEF PeerInv, FinInv, StreamIntact, InterestIffBuffered, FaultsExplained,
                      RemovedForGood, peerCloses
  <2> QED
    BY <2>1, <2>2 DEF SendInv
<1> QED
  BY <1>1, <1>2, <1>3, <1>4, <1>5, <1>6

LEMMA SendInvStep == SendInv /\ [Next]_vars => SendInv'
<1> SUFFICES ASSUME SendInv, [Next]_vars
             PROVE  SendInv'
  OBVIOUS
<1>1. CASE UNCHANGED vars
  <2>1. UNCHANGED <<state_, life, writing, addedToLoop_, outputBuffer_, fin, kernel, received,
                    peer, posted, user, sends, sent, cut, overtaken, fault>>
    BY <1>1 DEF vars, channelVars, network, other
  <2>2. TypeOK' /\ LateInv'
    BY <2>1 DEF SendInv, TypeOK, LateInv, SendPosted
  <2>3. PeerInv' /\ FinInv' /\ StreamIntact' /\ InterestIffBuffered' /\ FaultsExplained'
        /\ RemovedForGood'
    BY <2>1 DEF SendInv, PeerInv, FinInv, StreamIntact, InterestIffBuffered, FaultsExplained,
                RemovedForGood
  <2> QED
    BY <2>2, <2>3 DEF SendInv
<1> QED
  BY <1>1, SendKeepsInv, UserSendKeepsInv, FunctorKeepsInv, HandleWriteKeepsInv,
     PeerReadsKeepsInv, UserReusesKeepsInv, OtherStepsKeepInv
  DEF Next

LEMMA SendCorrect == Spec => []SendInv
BY SendInvInit, SendInvStep, PTL DEF Spec

-----------------------------------------------------------------------------
(* The variables keep their types, and the kernel's buffer its capacity.   *)
THEOREM TypeCorrect == Spec => []TypeOK
<1>1. SendInv => TypeOK
  BY DEF SendInv
<1> QED
  BY SendCorrect, <1>1, PTL

(* The peer reads the bytes of the messages, as the loop found them when   *)
(* it ran the send, in the order they were sent, none missing and none     *)
(* twice, whatever write(2) takes at a time, unless sendInLoopChar has cut *)
(* a message at a NUL.                                                     *)
THEOREM StreamNeverCorrupted == Spec => []StreamIntact
<1>1. SendInv => StreamIntact
  BY DEF SendInv
<1> QED
  BY SendCorrect, <1>1, PTL

(* The channel waits for POLLOUT exactly as long as bytes are buffered.    *)
THEOREM InterestFollowsBuffer == Spec => []InterestIffBuffered
<1>1. SendInv => InterestIffBuffered
  BY DEF SendInv
<1> QED
  BY SendCorrect, <1>1, PTL

(* A peer that reads the end of the stream has read all that was sent, and *)
(* a message still to be sent was overtaken by the FIN.                    *)
THEOREM EofIsTheEnd == Spec => []EofAfterLastByte
<1>1. ASSUME SendInv
      PROVE  EofAfterLastByte
  <2> SUFFICES ASSUME fin, kernel = <<>>, peer = "open", ~cut
               PROVE  received = sent /\ (SendPosted => overtaken)
    BY DEF EofAfterLastByte
  <2>1. outputBuffer_ = <<>> /\ sent = (received \o kernel) \o outputBuffer_
    BY <1>1 DEF SendInv, FinInv, StreamIntact
  <2>2. received \in Seq(Nat)
    BY <1>1 DEF SendInv, TypeOK
  <2>3. sent = received
    BY <2>1, <2>2, ConcatBytes
  <2> QED
    BY <1>1, <2>3 DEF SendInv, LateInv
<1> QED
  BY SendCorrect, <1>1, PTL

(* SIGPIPE ends the process only after an overtaken send or the close of   *)
(* the peer, the exception of sendInLoopChar only after a cut message, and *)
(* an assertion of handleClose or Channel::remove only after an overtaken  *)
(* send.                                                                   *)
THEOREM NoUnexplainedFault == Spec => []FaultsExplained
<1>1. SendInv => FaultsExplained
  BY DEF SendInv
<1> QED
  BY SendCorrect, <1>1, PTL

(* Only an overtaken send puts the channel back into the poller once       *)
(* connectDestroyed has removed it.                                        *)
THEOREM RemovedStaysRemoved == Spec => []RemovedForGood
<1>1. SendInv => RemovedForGood
  BY DEF SendInv
<1> QED
  BY SendCorrect, <1>1, PTL
=============================================================================
