----------------------------- MODULE Rpc_proofs -----------------------------
(***************************************************************************)
(* Proofs about Codec.tla and Rpc.tla, with bytes of eight bits: what the  *)
(* length header is read back as, and that the server parses whole         *)
(* requests only and answers at most one of a connection.                  *)
(***************************************************************************)
EXTENDS Rpc, SequenceTheorems, TLAPS

(* The four bytes of a header are the digits of the length.                *)
LEMMA Digits ==
    ASSUME NEW n \in Nat, n < 4294967296
    PROVE  /\ (n \div 16777216) % 256 \in 0..255
           /\ (n \div 65536) % 256 \in 0..255
           /\ (n \div 256) % 256 \in 0..255
           /\ n % 256 \in 0..255
           /\ n = 16777216 * ((n \div 16777216) % 256) + 65536 * ((n \div 65536) % 256)
                    + 256 * ((n \div 256) % 256) + (n % 256)
<1>1. \A x \in Nat : x % 256 \in 0..255 /\ x \div 256 \in Nat /\ x = 256 * (x \div 256) + (x % 256)
  BY SMT
<1>2. n \div 65536 = (n \div 256) \div 256 /\ n \div 16777216 = (n \div 65536) \div 256
  BY SMT
<1>3. (n \div 16777216) % 256 = n \div 16777216
  BY SMT
<1>4. n \div 256 \in Nat /\ n \div 65536 \in Nat /\ n \div 16777216 \in Nat
  BY <1>1, <1>2, SMT
<1> QED BY <1>1, <1>2, <1>3, <1>4, SMT

(* For every length of 32 bits: RPC_Server::onMessage and                  *)
(* RPC_Client::onMessage read back what Codec::cal_headers wrote exactly   *)
(* if none of its three low bytes is 128 or more.                          *)
THEOREM HeaderRoundTrip == ByteBase = 256 => HeaderExact
<1> SUFFICES ASSUME ByteBase = 256, NEW n \in UnsignedInt
             PROVE  (ReadHeader(cal_headers(n)) = n) <=> Narrow(n)
  BY SMT DEF HeaderExact
<1>1. Base2 = 65536 /\ Base3 = 16777216 /\ Base4 = 4294967296
  BY SMT DEF Base2, Base3, Base4
<1>2. n \in Nat /\ n < 4294967296
  <2>1. Base4 \in Nat
    BY <1>1, SMT
  <2>2. n \in 0..(Base4 - 1)
    BY DEF UnsignedInt
  <2>3. n \in Nat /\ n < Base4
    BY <2>1, <2>2, SMT
  <2> QED BY <1>1, <2>3, SMT
<1> DEFINE a == (n \div 16777216) % 256
           b == (n \div 65536) % 256
           c == (n \div 256) % 256
           d == n % 256
<1>3. /\ a \in 0..255 /\ b \in 0..255 /\ c \in 0..255 /\ d \in 0..255
      /\ n = 16777216 * a + 65536 * b + 256 * c + d
  BY SMT, <1>2, Digits
<1>4. cal_headers(n) = <<a, b, c, d>>
  BY SMT, <1>1 DEF cal_headers
<1> HIDE DEF a, b, c, d
<1>5. Narrow(n) <=> (2 * b < 256 /\ 2 * c < 256 /\ 2 * d < 256)
  <2>1. 2..4 = {2, 3, 4}
    BY SMT
  <2>2. /\ cal_headers(n)[2] = b
        /\ cal_headers(n)[3] = c
        /\ cal_headers(n)[4] = d
    BY SMT, <1>4
  <2> QED BY SMT, <2>1, <2>2 DEF Narrow
<1>6. ReadHeader(cal_headers(n)) =
          (16777216 * Signed(a) + 65536 * Signed(b) + 256 * Signed(c) + Signed(d)) % 4294967296
  BY SMT, <1>1, <1>4 DEF ReadHeader, HeaderSum
(* A digit of 128 and more takes 256 times its weight off the sum; modulo  *)
(* 2^32 that is nothing exactly for the highest one.                       *)
<1>7. (16777216 * Signed(a) + 65536 * Signed(b) + 256 * Signed(c) + Signed(d)) % 4294967296 = n
          <=> (2 * b < 256 /\ 2 * c < 256 /\ 2 * d < 256)
  BY SMT, <1>2, <1>3 DEF Signed
<1> QED BY SMT, <1>5, <1>6, <1>7

-----------------------------------------------------------------------------
(* The state of the server for the connection.                             *)
server == <<entry, readBuffer, readBytes, answers, crashed, shortHeader>>

(* What has been asked and answered: nothing comes before the first        *)
(* request, and there is at most one answer, for the buffer of the server  *)
(* only grows.                                                             *)
AskedInv ==
    /\ Len(requests) <= MaxCalls
    /\ requests = <<>> => toServer = <<>> /\ ~entry
    /\ answers \in {0, 1}
    /\ answers > 0 => entry /\ requests # <<>> /\ Len(readBuffer) >= readBytes

(* The first request, of length n, is on its way to the server, ...        *)
Unread(n) ==
    /\ Len(toServer) >= n + 4
    /\ \A i \in 1..4 : toServer[i] = cal_headers(n)[i]
    /\ \A i \in 5..(n + 4) : toServer[i] = BodyByte

(* ... or the server has begun to read it.                                 *)
Reading(n) ==
    /\ readBytes = n
    /\ Len(readBuffer) + Len(toServer) >= n
    /\ \A i \in 1..Len(readBuffer) : i <= n => readBuffer[i] = BodyByte
    /\ \A i \in 1..Len(toServer) : i + Len(readBuffer) <= n => toServer[i] = BodyByte

ServerInv ==
    \/ requests = <<>> /\ ~crashed
    \/ shortHeader \/ Misread
    \/ requests # <<>> /\ ~entry /\ ~crashed /\ Unread(requests[1])
    \/ requests # <<>> /\ entry /\ ~crashed /\ Reading(requests[1])

-----------------------------------------------------------------------------
(* Sequences of bytes, cut and joined.                                     *)
LEMMA Cut ==
    ASSUME NEW s \in Seq(Byte), NEW k \in 0..Len(s)
    PROVE  /\ Prefix(s, k) \in Seq(Byte) /\ Len(Prefix(s, k)) = k
           /\ \A i \in 1..k : Prefix(s, k)[i] = s[i]
           /\ From(s, k) \in Seq(Byte) /\ Len(From(s, k)) = Len(s) - k
           /\ \A i \in 1..(Len(s) - k) : From(s, k)[i] = s[i + k]
<1>1. Len(s) \in Nat /\ k \in Nat /\ k <= Len(s) /\ \A i \in 1..Len(s) : s[i] \in Byte
  OBVIOUS
<1>2. /\ Prefix(s, k) \in Seq(Byte) /\ Len(Prefix(s, k)) = k
      /\ \A i \in 1..k : Prefix(s, k)[i] = s[i]
  <2>1. \A i \in 1..k : s[i] \in Byte
    BY <1>1
  <2>2. /\ SubSeq(s, 1, k) \in Seq(Byte)
        /\ Len(SubSeq(s, 1, k)) = IF 1 <= k THEN k - 1 + 1 ELSE 0
        /\ \A i \in 1..(k - 1 + 1) : SubSeq(s, 1, k)[i] = s[1 + i - 1]
    BY <1>1, <2>1, SubSeqProperties
  <2> QED
    BY <1>1, <2>2 DEF Prefix
<1>3. /\ From(s, k) \in Seq(Byte) /\ Len(From(s, k)) = Len(s) - k
      /\ \A i \in 1..(Len(s) - k) : From(s, k)[i] = s[i + k]
  <2>1. k + 1 \in Int /\ Len(s) \in Int /\ \A i \in (k + 1)..Len(s) : s[i] \in Byte
    BY <1>1
  <2>2. /\ SubSeq(s, k + 1, Len(s)) \in Seq(Byte)
        /\ Len(SubSeq(s, k + 1, Len(s))) = IF k + 1 <= Len(s) THEN Len(s) - (k + 1) + 1 ELSE 0
        /\ \A i \in 1..(Len(s) - (k + 1) + 1) : SubSeq(s, k + 1, Len(s))[i] = s[k + 1 + i - 1]
    BY <2>1, SubSeqProperties
  <2>3. \A i \in 1..(Len(s) - k) : k + 1 + i - 1 = i + k /\ i \in 1..(Len(s) - (k + 1) + 1)
    BY <1>1
  <2> QED
    BY <1>1, <2>2, <2>3 DEF From
<1> QED
  BY <1>2, <1>3

LEMMA Join ==
    ASSUME NEW s \in Seq(Byte), NEW t \in Seq(Byte)
    PROVE  /\ s \o t \in Seq(Byte) /\ Len(s \o t) = Len(s) + Len(t)
           /\ Len(s) \in Nat /\ Len(t) \in Nat
           /\ \A i \in 1..Len(s) : (s \o t)[i] = s[i]
           /\ \A i \in 1..Len(t) : (s \o t)[i + Len(s)] = t[i]
<1>1. Len(s) \in Nat /\ Len(t) \in Nat
  OBVIOUS
<1>2. /\ s \o t \in Seq(Byte) /\ Len(s \o t) = Len(s) + Len(t)
      /\ \A i \in 1..(Len(s) + Len(t)) : (s \o t)[i] =
             IF i <= Len(s) THEN s[i] ELSE t[i - Len(s)]
  BY ConcatProperties
<1>3. \A i \in 1..Len(s) : (s \o t)[i] = s[i]
  BY <1>1, <1>2
<1>4. ASSUME NEW i \in 1..Len(t)
      PROVE  (s \o t)[i + Len(s)] = t[i]
  <2>1. i + Len(s) \in 1..(Len(s) + Len(t)) /\ ~(i + Len(s) <= Len(s)) /\ i + Len(s) - Len(s) = i
    BY <1>1
  <2> QED
    BY <1>2, <2>1
<1> QED
  BY <1>1, <1>2, <1>3, <1>4

(* Bytes and lengths.  (Steps in which large numbers occur are for SMT     *)
(* alone.)                                                                 *)
LEMMA Widths ==
    ASSUME ByteBase = 256
    PROVE  Base2 = 65536 /\ Base3 = 16777216 /\ Base4 = 4294967296
BY SMT DEF Base2, Base3, Base4

LEMMA LengthIs ==
    /\ ByteBase = 256 => \A n \in UnsignedInt : n \in Nat /\ n < 4294967296
    /\ ByteBase = 256 => \A n \in Nat : n < 4294967296 => n \in UnsignedInt
<1>1. ASSUME ByteBase = 256, NEW n \in UnsignedInt
      PROVE  n \in Nat /\ n < 4294967296
  <2>1. Base4 = 4294967296
    BY SMT, <1>1, Widths
  <2>2. Base4 \in Nat
    BY SMT, <2>1
  <2>3. n \in 0..(Base4 - 1)
    BY DEF UnsignedInt
  <2>4. n \in Nat /\ n < Base4
    BY SMT, <2>2, <2>3
  <2> QED
    BY SMT, <2>1, <2>4
<1>2. ASSUME ByteBase = 256, NEW n \in Nat, n < 4294967296
      PROVE  n \in UnsignedInt
  <2>1. Base4 = 4294967296 /\ Base4 \in Nat
    BY SMT, <1>2, Widths
  <2>2. n <= Base4 - 1 /\ Base4 - 1 \in Nat
    BY SMT, <1>2, <2>1
  <2>3. n \in 0..(Base4 - 1)
    BY SMT, <2>2
  <2> QED
    BY <2>3 DEF UnsignedInt
<1> QED
  BY SMT, <1>1, <1>2

LEMMA BytesAre ==
    ASSUME ByteBase = 256
    PROVE  /\ Byte = 0..255 /\ BodyByte = 1 /\ BodyByte \in Byte
           /\ UnsignedInt \subseteq Nat
<1>1. \A n \in UnsignedInt : n \in Nat
  BY SMT, LengthIs
<1>2. 256 - 1 = 255
  BY SMT
<1>3. Byte = 0..255
  BY <1>2 DEF Byte
<1> QED
  BY <1>1, <1>3 DEF BodyByte

LEMMA HeaderIs ==
    ASSUME ByteBase = 256, NEW n \in UnsignedInt
    PROVE  cal_headers(n) \in Seq(Byte) /\ Len(cal_headers(n)) = 4
<1>1. n \in Nat /\ n < 4294967296
  BY SMT, LengthIs
<1>2. /\ (n \div 16777216) % 256 \in 0..255 /\ (n \div 65536) % 256 \in 0..255
      /\ (n \div 256) % 256 \in 0..255 /\ n % 256 \in 0..255
  BY SMT, <1>1, Digits
<1>3. cal_headers(n) = <<(n \div 16777216) % 256, (n \div 65536) % 256,
                         (n \div 256) % 256, n % 256>>
  BY SMT, Widths DEF cal_headers
<1> DEFINE a == (n \div 16777216) % 256
           b == (n \div 65536) % 256
           c == (n \div 256) % 256
           d == n % 256
<1>4. a \in Byte /\ b \in Byte /\ c \in Byte /\ d \in Byte
  BY SMT, <1>2, BytesAre
<1>5. cal_headers(n) = <<a, b, c, d>>
  BY SMT, <1>3
<1> HIDE DEF a, b, c, d
<1> QED
  BY SMT, <1>4, <1>5

LEMMA BodyIs ==
    ASSUME ByteBase = 256, NEW n \in Nat
    PROVE  Body(n) \in Seq(Byte) /\ Len(Body(n)) = n /\ \A i \in 1..n : Body(n)[i] = BodyByte
<1>1. Body(n) \in [1..n -> Byte]
  BY BytesAre DEF Body
<1> QED
  BY <1>1 DEF Body

(* A sequence of n bytes of a body is the body.                            *)
LEMMA WholeBody ==
    ASSUME ByteBase = 256, NEW n \in Nat, NEW s \in Seq(Byte), Len(s) = n,
           \A i \in 1..Len(s) : s[i] = BodyByte
    PROVE  s = Body(n)
BY BodyIs, SeqEqual

LEMMA PacketIs ==
    ASSUME ByteBase = 256, NEW n \in UnsignedInt
    PROVE  /\ Packet(n) \in Seq(Byte) /\ Len(Packet(n)) = n + 4
           /\ \A i \in 1..4 : Packet(n)[i] = cal_headers(n)[i]
           /\ \A i \in 5..(n + 4) : Packet(n)[i] = BodyByte
<1>1. n \in Nat
  BY BytesAre
<1>2. cal_headers(n) \in Seq(Byte) /\ Len(cal_headers(n)) = 4
  BY HeaderIs
<1>3. Body(n) \in Seq(Byte) /\ Len(Body(n)) = n /\ \A i \in 1..n : Body(n)[i] = BodyByte
  BY <1>1, BodyIs
<1>4. /\ Packet(n) \in Seq(Byte) /\ Len(Packet(n)) = 4 + n
      /\ \A i \in 1..4 : Packet(n)[i] = cal_headers(n)[i]
      /\ \A i \in 1..n : Packet(n)[i + 4] = Body(n)[i]
  <2> DEFINE h == cal_headers(n)
             b == Body(n)
  <2>1. h \in Seq(Byte) /\ Len(h) = 4 /\ b \in Seq(Byte) /\ Len(b) = n
    BY <1>2, <1>3
  <2>2. Packet(n) = h \o b
    BY DEF Packet
  <2> HIDE DEF h, b
  <2>3. /\ h \o b \in Seq(Byte) /\ Len(h \o b) = Len(h) + Len(b)
        /\ \A i \in 1..Len(h) : (h \o b)[i] = h[i]
        /\ \A i \in 1..Len(b) : (h \o b)[i + Len(h)] = b[i]
    BY <2>1, Join
  <2>4. /\ Packet(n) \in Seq(Byte) /\ Len(Packet(n)) = 4 + n
        /\ \A i \in 1..4 : Packet(n)[i] = h[i]
        /\ \A i \in 1..n : Packet(n)[i + 4] = b[i]
    BY <2>1, <2>2, <2>3, Zenon
  <2> QED
    BY <2>4 DEF h, b
<1>5. ASSUME NEW i \in 5..(n + 4)
      PROVE  Packet(n)[i] = BodyByte
  <2>1. i - 4 \in 1..n /\ (i - 4) + 4 = i
    BY <1>1
  <2> QED
    BY <1>3, <1>4, <2>1
<1> QED
  BY <1>1, <1>4, <1>5

-----------------------------------------------------------------------------
(* What is read as a header.                                               *)
LEMMA ReadBack ==
    ASSUME ByteBase = 256, NEW n \in UnsignedInt, Narrow(n), NEW s,
           \A i \in 1..4 : s[i] = cal_headers(n)[i]
    PROVE  ReadHeader(s) = n
<1>1. ReadHeader(cal_headers(n)) = n
  BY HeaderRoundTrip, Zenon DEF HeaderExact
<1>2. 1 \in 1..4 /\ 2 \in 1..4 /\ 3 \in 1..4 /\ 4 \in 1..4
  BY SMT
<1>3. /\ s[1] = cal_headers(n)[1] /\ s[2] = cal_headers(n)[2]
      /\ s[3] = cal_headers(n)[3] /\ s[4] = cal_headers(n)[4]
  BY <1>2, Zenon
<1>4. ReadHeader(s) = ReadHeader(cal_headers(n))
  BY <1>3, Zenon DEF ReadHeader, HeaderSum
<1> QED
  BY <1>1, <1>4, Zenon

LEMMA ReadsLength ==
    ASSUME ByteBase = 256, NEW s \in Seq(Byte), Len(s) >= 4
    PROVE  ReadHeader(s) \in UnsignedInt
<1>1. s[1] \in Byte /\ s[2] \in Byte /\ s[3] \in Byte /\ s[4] \in Byte
  BY SMT
<1>2. ASSUME NEW b \in Byte
      PROVE  Signed(b) \in Int
  <2>1. Byte = 0..255
    BY BytesAre
  <2>2. b \in Int
    BY SMT, <2>1
  <2> QED
    BY SMT, <2>2 DEF Signed
<1>3. HeaderSum(s) \in Int
  <2> DEFINE a == Signed(s[1])
             b == Signed(s[2])
             c == Signed(s[3])
             d == Signed(s[4])
  <2>1. a \in Int /\ b \in Int /\ c \in Int /\ d \in Int
    BY <1>1, <1>2, Zenon
  <2>2. HeaderSum(s) = 16777216 * a + 65536 * b + 256 * c + d
    BY SMT, Widths DEF HeaderSum
  <2> HIDE DEF a, b, c, d
  <2> QED
    BY SMT, <2>1, <2>2
<1>4. ReadHeader(s) = HeaderSum(s) % 4294967296
  BY SMT, Widths DEF ReadHeader
<1>5. ReadHeader(s) \in Nat /\ ReadHeader(s) < 4294967296
  BY SMT, <1>3, <1>4
<1> QED
  BY SMT, <1>5, LengthIs

-----------------------------------------------------------------------------
(* Types.                                                                  *)

(* What onMessage of the server does to the buffer, ...                    *)
LEMMA ServerBuffers ==
    ASSUME ByteBase = 256, TypeOK, NEW k \in 1..Len(toServer), onMessage(k)
    PROVE  /\ toServer' \in Seq(Byte) /\ readBuffer' \in Seq(Byte) /\ readBytes' \in UnsignedInt
           /\ k \in Nat /\ k > 0 /\ k <= Len(toServer)
           /\ toServer' = From(toServer, k) /\ entry' = TRUE /\ crashed = FALSE
           /\ shortHeader' \in BOOLEAN /\ (shortHeader => shortHeader')
           /\ \/ /\ entry /\ readBytes' = readBytes
                 /\ readBuffer' = readBuffer \o Prefix(toServer, k)
                 /\ Len(readBuffer') = Len(readBuffer) + k
              \/ /\ ~entry /\ k >= 4
                 /\ readBytes' = ReadHeader(Prefix(toServer, k))
                 /\ readBuffer' = From(Prefix(toServer, k), 4)
                 /\ Len(readBuffer') = k - 4
              \/ ~entry /\ shortHeader'
<1> DEFINE chunk == Prefix(toServer, k)
<1>1. toServer \in Seq(Byte) /\ readBuffer \in Seq(Byte) /\ readBytes \in UnsignedInt
      /\ entry \in BOOLEAN /\ shortHeader \in BOOLEAN /\ crashed \in BOOLEAN
  BY DEF TypeOK
<1>2. k \in 0..Len(toServer) /\ k \in Nat /\ k > 0 /\ k <= Len(toServer)
  BY <1>1
<1>3. chunk \in Seq(Byte) /\ Len(chunk) = k /\ From(toServer, k) \in Seq(Byte)
  BY <1>1, <1>2, Cut
<1>4. /\ ~crashed /\ toServer' = From(toServer, k) /\ entry' = TRUE
      /\ readBytes' = IF ~entry /\ k >= 4 THEN ReadHeader(chunk) ELSE readBytes
      /\ shortHeader' = (shortHeader \/ (~entry /\ k < 4))
  BY Zenon DEF onMessage
<1>5. /\ entry => readBuffer' = readBuffer \o chunk
      /\ ~entry /\ k >= 4 => readBuffer' = From(chunk, 4)
      /\ ~entry /\ ~(k >= 4) => readBuffer' = <<>>
  BY <1>1, Zenon DEF onMessage, FirstChunk
<1> HIDE DEF chunk
<1>6. crashed = FALSE /\ shortHeader' \in BOOLEAN /\ (shortHeader => shortHeader')
  BY <1>1, <1>4, Zenon
<1>7. CASE entry
  <2>1. readBuffer' = readBuffer \o chunk /\ readBytes' = readBytes
    BY <1>4, <1>5, <1>7, Zenon
  <2>2. readBuffer' \in Seq(Byte) /\ Len(readBuffer') = Len(readBuffer) + k
    BY <1>1, <1>3, <2>1, Join
  <2> QED
    BY <1>1, <1>2, <1>3, <1>4, <1>6, <1>7, <2>1, <2>2, Zenon DEF chunk
<1>8. CASE ~entry /\ k >= 4
  <2>1. readBuffer' = From(chunk, 4) /\ readBytes' = ReadHeader(chunk)
    BY <1>4, <1>5, <1>8, Zenon
  <2>2. 4 \in 0..Len(chunk) /\ Len(chunk) >= 4
    BY <1>2, <1>3, <1>8
  <2>3. readBuffer' \in Seq(Byte) /\ Len(readBuffer') = k - 4
    BY <1>3, <2>1, <2>2, Cut
  <2>4. readBytes' \in UnsignedInt
    BY <1>3, <2>1, <2>2, ReadsLength
  <2> QED
    BY <1>1, <1>2, <1>3, <1>4, <1>6, <1>8, <2>1, <2>3, <2>4, Zenon DEF chunk
<1>9. CASE ~entry /\ ~(k >= 4)
  <2>1. readBuffer' = <<>> /\ readBytes' = readBytes
    BY <1>4, <1>5, <1>9, Zenon
  <2>2. readBuffer' \in Seq(Byte)
    BY <2>1
  <2>3. k < 4
    BY <1>2, <1>9
  <2>4. shortHeader'
    BY <1>4, <1>9, <2>3, Zenon
  <2> QED
    BY <1>1, <1>2, <1>3, <1>4, <1>6, <1>9, <2>1, <2>2, <2>4, Zenon
<1> QED
  BY <1>7, <1>8, <1>9, Zenon

(* ... and what comes of it.                                               *)
LEMMA ServerAnswers ==
    ASSUME ByteBase = 256, TypeOK, NEW k \in 1..Len(toServer), onMessage(k)
    PROVE  /\ requests' = requests
           /\ \/ /\ Len(readBuffer') = readBytes' /\ readBuffer' = Body(requests[1])
                 /\ answers' = answers + 1 /\ crashed' = crashed
              \/ /\ Len(readBuffer') = readBytes' /\ readBuffer' # Body(requests[1])
                 /\ answers' = answers /\ crashed' = TRUE
              \/ /\ Len(readBuffer') # readBytes'
                 /\ answers' = answers /\ crashed' = crashed
<1>1. /\ requests' = requests
      /\ IF RequestComplete(readBuffer', readBytes')
         THEN handle_request(readBuffer')
         ELSE UNCHANGED <<answers, crashed>>
  BY Zenon DEF onMessage
<1>2. CASE RequestComplete(readBuffer', readBytes') /\ unpack_func_name(readBuffer')
  BY <1>1, <1>2, Zenon DEF RequestComplete, unpack_func_name, handle_request, send_result
<1>3. CASE RequestComplete(readBuffer', readBytes') /\ ~unpack_func_name(readBuffer')
  BY <1>1, <1>3, Zenon DEF RequestComplete, unpack_func_name, handle_request
<1>4. CASE ~RequestComplete(readBuffer', readBytes')
  BY <1>1, <1>4, Zenon DEF RequestComplete
<1> QED
  BY <1>2, <1>3, <1>4, Zenon

(* What the peer sends.                                                    *)
LEMMA CallSends ==
    ASSUME ByteBase = 256, TypeOK, NEW n \in RequestSizes, peerCalls(n)
    PROVE  /\ n \in UnsignedInt /\ n \in Nat /\ n > 0
           /\ toServer' = toServer \o Packet(n) /\ toServer' \in Seq(Byte)
           /\ requests' \in Seq(RequestSizes) /\ requests' # <<>>
           /\ Len(requests') = Len(requests) + 1 /\ Len(requests) < MaxCalls
           /\ requests # <<>> => requests'[1] = requests[1]
           /\ requests = <<>> => requests'[1] = n
           /\ UNCHANGED server
<1>1. n \in UnsignedInt \ {0} /\ n \in Nat
  BY RpcAssumption, BytesAre
<1>2. toServer' = toServer \o Packet(n) /\ toServer' \in Seq(Byte)
  <2>1. toServer \in Seq(Byte) /\ Packet(n) \in Seq(Byte) /\ toServer' = toServer \o Packet(n)
    BY <1>1, PacketIs DEF TypeOK, peerCalls
  <2> QED
    BY <2>1, Join
<1>3. /\ requests \in Seq(RequestSizes) /\ requests' = Append(requests, n)
      /\ Len(requests) < MaxCalls /\ UNCHANGED server
  BY Zenon DEF TypeOK, peerCalls, server
<1>4. /\ requests' \in Seq(RequestSizes) /\ requests' # <<>>
      /\ Len(requests') = Len(requests) + 1
  BY <1>3
<1>5. requests # <<>> => requests'[1] = requests[1]
  BY <1>3
<1>6. requests = <<>> => requests'[1] = n
  BY <1>3
<1> QED
  BY <1>1, <1>2, <1>3, <1>4, <1>5, <1>6

-----------------------------------------------------------------------------
(* Types, and at most one answer.                                          *)
LEMMA AskedStep ==
    ASSUME ByteBase = 256, TypeOK, AskedInv, [Next]_vars
    PROVE  TypeOK' /\ AskedInv'
<1>0. /\ answers \in {0, 1} /\ MaxCalls \in Nat /\ Len(requests) \in Nat /\ Len(requests) <= MaxCalls
      /\ readBytes \in Nat
  BY RpcAssumption, BytesAre DEF TypeOK, AskedInv
<1>1. CASE UNCHANGED vars
  BY <1>1 DEF vars, TypeOK, AskedInv
<1>2. ASSUME NEW k \in 1..Len(toServer), onMessage(k)
      PROVE  TypeOK' /\ AskedInv'
  <2>1. /\ toServer' \in Seq(Byte) /\ readBuffer' \in Seq(Byte) /\ readBytes' \in UnsignedInt
        /\ readBytes' \in Nat /\ toServer # <<>> /\ entry' = TRUE /\ shortHeader' \in BOOLEAN
    <3>1. /\ toServer' \in Seq(Byte) /\ readBuffer' \in Seq(Byte) /\ readBytes' \in UnsignedInt
          /\ entry' = TRUE /\ shortHeader' \in BOOLEAN /\ k \in Nat /\ k > 0 /\ k <= Len(toServer)
      BY <1>2, ServerBuffers, Zenon
    <3>2. readBytes' \in Nat
      BY <3>1, BytesAre
    <3>3. toServer # <<>>
      BY <3>1
    <3> QED
      BY <3>1, <3>2, <3>3
  <2>2. requests' = requests
    BY <1>2, ServerAnswers
  <2>3. requests # <<>>
    BY <2>1 DEF AskedInv
  <2>4. crashed' \in BOOLEAN
    BY <1>2, ServerAnswers, Zenon DEF TypeOK
  <2>5. entry /\ Len(readBuffer) >= readBytes => Len(readBuffer') > readBytes'
    <3>1. k \in Nat /\ k > 0
          /\ (entry => readBytes' = readBytes /\ Len(readBuffer') = Len(readBuffer) + k)
      BY <1>2, ServerBuffers, Zenon
    <3>2. Len(readBuffer) \in Nat
      BY DEF TypeOK
    <3> QED
      BY <1>0, <3>1, <3>2
  <2>6. \/ answers' = answers + 1 /\ Len(readBuffer') = readBytes'
        \/ answers' = answers
    BY <1>2, ServerAnswers, Zenon
  <2>7. answers' \in {0, 1} /\ (answers' > 0 => Len(readBuffer') >= readBytes')
    <3>1. answers = 0 \/ (answers = 1 /\ Len(readBuffer') > readBytes')
      BY <1>0, <2>5 DEF AskedInv
    <3>2. Len(readBuffer') \in Nat
      BY <2>1
    <3> QED
      BY <2>1, <2>6, <3>1, <3>2
  <2>8. answers' \in 0..MaxCalls
    BY <1>0, <2>3, <2>7 DEF TypeOK
  <2>9. TypeOK'
    BY <2>1, <2>2, <2>4, <2>8 DEF TypeOK
  <2>10. AskedInv'
    BY <1>0, <2>1, <2>2, <2>3, <2>7 DEF AskedInv
  <2> QED
    BY <2>9, <2>10
<1>3. ASSUME NEW n \in RequestSizes, peerCalls(n)
      PROVE  TypeOK' /\ AskedInv'
  <2>1. /\ toServer' \in Seq(Byte) /\ requests' \in Seq(RequestSizes) /\ requests' # <<>>
        /\ Len(requests') = Len(requests) + 1 /\ Len(requests) < MaxCalls
        /\ UNCHANGED server
    BY <1>3, CallSends
  <2>2. TypeOK'
    BY <2>1 DEF server, TypeOK
  <2>3. AskedInv'
    BY <1>0, <2>1 DEF server, AskedInv
  <2> QED
    BY <2>2, <2>3
<1> QED
  BY <1>1, <1>2, <1>3 DEF Next, ServerReceives

-----------------------------------------------------------------------------
(* The server.                                                             *)

(* The first request is read on, or begun with its header: what is left is *)
(* the rest of its body.                                                   *)
LEMMA ReadingGoesOn ==
    ASSUME ByteBase = 256, TypeOK, NEW k \in 1..Len(toServer), onMessage(k),
           NEW n \in UnsignedInt, Narrow(n), ~shortHeader',
           (~entry /\ Unread(n)) \/ (entry /\ Reading(n))
    PROVE  Reading(n)'
<1>1. /\ toServer \in Seq(Byte) /\ readBuffer \in Seq(Byte) /\ n \in Nat
      /\ Len(readBuffer) \in Nat /\ Len(toServer) \in Nat
  BY BytesAre DEF TypeOK
<1>2. k \in Nat /\ k > 0 /\ k <= Len(toServer) /\ k \in 0..Len(toServer) /\ toServer' = From(toServer, k)
  <2>1. k \in Nat /\ k > 0 /\ k <= Len(toServer) /\ toServer' = From(toServer, k)
    BY ServerBuffers, Zenon
  <2> QED
    BY <1>1, <2>1
<1> DEFINE chunk == Prefix(toServer, k)
<1>3. /\ chunk \in Seq(Byte) /\ Len(chunk) = k /\ \A i \in 1..k : chunk[i] = toServer[i]
      /\ Len(toServer') = Len(toServer) - k
      /\ \A i \in 1..(Len(toServer) - k) : toServer'[i] = toServer[i + k]
  BY <1>1, <1>2, Cut
<1> HIDE DEF chunk
<1>4. CASE entry /\ Reading(n)
  <2>1. /\ readBytes' = readBytes /\ readBuffer' = readBuffer \o chunk
        /\ Len(readBuffer') = Len(readBuffer) + k
    BY <1>4, ServerBuffers, Zenon DEF chunk
  <2>2. /\ \A i \in 1..Len(readBuffer) : readBuffer'[i] = readBuffer[i]
        /\ \A i \in 1..k : readBuffer'[i + Len(readBuffer)] = chunk[i]
    BY <1>1, <1>3, <2>1, Join
  <2>3. /\ readBytes = n /\ Len(readBuffer) + Len(toServer) >= n
        /\ \A i \in 1..Len(readBuffer) : i <= n => readBuffer[i] = BodyByte
        /\ \A i \in 1..Len(toServer) : i + Len(readBuffer) <= n => toServer[i] = BodyByte
    BY <1>4 DEF Reading
  <2>4. ASSUME NEW i \in 1..Len(readBuffer'), i <= n
        PROVE  readBuffer'[i] = BodyByte
    <3>1. CASE i <= Len(readBuffer)
      BY <1>1, <2>2, <2>3, <2>4, <3>1
    <3>2. CASE ~(i <= Len(readBuffer))
      <4>1. /\ i - Len(readBuffer) \in 1..k /\ i - Len(readBuffer) \in 1..Len(toServer)
            /\ (i - Len(readBuffer)) + Len(readBuffer) = i
        BY <1>1, <1>2, <2>1, <3>2
      <4>2. readBuffer'[i] = toServer[i - Len(readBuffer)]
        BY <1>3, <2>2, <4>1
      <4> QED
        BY <2>3, <2>4, <4>1, <4>2
    <3> QED
      BY <3>1, <3>2
  <2>5. ASSUME NEW i \in 1..Len(toServer'), i + Len(readBuffer') <= n
        PROVE  toServer'[i] = BodyByte
    <3>1. /\ i \in 1..(Len(toServer) - k) /\ i + k \in 1..Len(toServer)
          /\ (i + k) + Len(readBuffer) <= n
      BY <1>1, <1>2, <1>3, <2>1, <2>5
    <3> QED
      BY <1>3, <2>3, <3>1
  <2> QED
    BY <1>1, <1>2, <1>3, <2>1, <2>3, <2>4, <2>5 DEF Reading
<1>5. CASE ~entry /\ Unread(n)
  <2>1. /\ k >= 4 /\ readBytes' = ReadHeader(chunk) /\ readBuffer' = From(chunk, 4)
        /\ Len(readBuffer') = k - 4
    BY <1>5, ServerBuffers, Zenon DEF chunk
  <2>2. \A i \in 1..(k - 4) : readBuffer'[i] = chunk[i + 4]
    <3>1. 4 \in 0..Len(chunk)
      BY <1>2, <1>3, <2>1
    <3>2. \A i \in 1..(Len(chunk) - 4) : From(chunk, 4)[i] = chunk[i + 4]
      BY <1>3, <3>1, Cut
    <3> QED
      BY <1>3, <2>1, <3>2
  <2>3. /\ Len(toServer) >= n + 4
        /\ \A i \in 1..4 : toServer[i] = cal_headers(n)[i]
        /\ \A i \in 5..(n + 4) : toServer[i] = BodyByte
    BY <1>5 DEF Unread
  <2>4. readBytes' = n
    <3>1. \A i \in 1..4 : chunk[i] = cal_headers(n)[i]
      BY <1>2, <1>3, <2>1, <2>3
    <3> QED
      BY <2>1, <3>1, ReadBack
  <2>5. ASSUME NEW i \in 1..Len(readBuffer'), i <= n
        PROVE  readBuffer'[i] = BodyByte
    <3>1. i \in 1..(k - 4) /\ i + 4 \in 1..k /\ i + 4 \in 5..(n + 4)
      BY <1>1, <1>2, <2>1, <2>5
    <3> QED
      BY <1>3, <2>2, <2>3, <3>1
  <2>6. ASSUME NEW i \in 1..Len(toServer'), i + Len(readBuffer') <= n
        PROVE  toServer'[i] = BodyByte
    <3>1. i \in 1..(Len(toServer) - k) /\ i + k \in 5..(n + 4)
      BY <1>1, <1>2, <1>3, <2>1, <2>6
    <3>2. toServer'[i] = toServer[i + k]
      BY <1>3, <3>1
    <3>3. toServer[i + k] = BodyByte
      BY <2>3, <3>1
    <3> QED
      BY <3>2, <3>3, Zenon
  <2> QED
    BY <1>1, <1>2, <1>3, <2>1, <2>3, <2>4, <2>5, <2>6 DEF Reading
<1> QED
  BY <1>4, <1>5

(* A further request is appended to what is on its way.                    *)
LEMMA MoreToRead ==
    ASSUME ByteBase = 256, TypeOK, NEW m \in RequestSizes, peerCalls(m), NEW n \in UnsignedInt
    PROVE  (Unread(n) => Unread(n)') /\ (Reading(n) => Reading(n)')
<1>1. /\ toServer \in Seq(Byte) /\ readBuffer \in Seq(Byte) /\ n \in Nat
      /\ Len(readBuffer) \in Nat /\ Len(toServer) \in Nat
  BY BytesAre DEF TypeOK
<1>2. /\ m \in UnsignedInt /\ toServer' = toServer \o Packet(m)
      /\ UNCHANGED server
  BY CallSends, Zenon
<1>3. readBuffer' = readBuffer /\ readBytes' = readBytes
  BY <1>2 DEF server
<1>4. Packet(m) \in Seq(Byte)
  BY <1>2, PacketIs
<1>5. /\ Len(toServer') \in Nat /\ Len(toServer') >= Len(toServer)
      /\ \A i \in 1..Len(toServer) : toServer'[i] = toServer[i]
  BY <1>1, <1>2, <1>4, Join
<1>6. ASSUME Unread(n)
      PROVE  Unread(n)'
  <2>1. /\ Len(toServer) >= n + 4
        /\ \A i \in 1..4 : toServer[i] = cal_headers(n)[i]
        /\ \A i \in 5..(n + 4) : toServer[i] = BodyByte
    BY <1>6 DEF Unread
  <2>2. \A i \in 1..4 : toServer'[i] = cal_headers(n)[i]
    <3>1. \A i \in 1..4 : i \in 1..Len(toServer)
      BY <1>1, <2>1
    <3> QED
      BY <1>5, <2>1, <3>1, Zenon
  <2>3. \A i \in 5..(n + 4) : toServer'[i] = BodyByte
    <3>1. \A i \in 5..(n + 4) : i \in 1..Len(toServer)
      BY <1>1, <2>1
    <3> QED
      BY <1>5, <2>1, <3>1, Zenon
  <2>4. Len(toServer') >= n + 4
    BY <1>1, <1>5, <2>1
  <2> QED
    BY <2>2, <2>3, <2>4 DEF Unread
<1>7. ASSUME Reading(n)
      PROVE  Reading(n)'
  <2>1. /\ readBytes = n /\ Len(readBuffer) + Len(toServer) >= n
        /\ \A i \in 1..Len(readBuffer) : i <= n => readBuffer[i] = BodyByte
        /\ \A i \in 1..Len(toServer) : i + Len(readBuffer) <= n => toServer[i] = BodyByte
    BY <1>7 DEF Reading
  <2>2. ASSUME NEW i \in 1..Len(toServer'), i + Len(readBuffer) <= n
        PROVE  toServer'[i] = BodyByte
    <3>1. i \in 1..Len(toServer)
      BY <1>1, <1>5, <2>1, <2>2
    <3> QED
      BY <1>5, <2>1, <2>2, <3>1
  <2> QED
    BY <1>1, <1>3, <1>5, <2>1, <2>2 DEF Reading
<1> QED
  BY <1>6, <1>7

LEMMA FirstUnread ==
    ASSUME ByteBase = 256, TypeOK, NEW n \in RequestSizes, peerCalls(n), toServer = <<>>
    PROVE  Unread(n)'
<1>1. n \in UnsignedInt /\ toServer' = toServer \o Packet(n)
  BY CallSends, Zenon
<1>2. /\ Packet(n) \in Seq(Byte) /\ Len(Packet(n)) = n + 4
      /\ \A i \in 1..4 : Packet(n)[i] = cal_headers(n)[i]
      /\ \A i \in 5..(n + 4) : Packet(n)[i] = BodyByte
  BY <1>1, PacketIs
<1>3. toServer' = Packet(n)
  BY <1>1, <1>2
<1>4. Len(Packet(n)) >= n + 4
  BY <1>1, <1>2, BytesAre
<1> QED
  BY <1>2, <1>3, <1>4 DEF Unread

LEMMA ServerStep ==
    ASSUME ByteBase = 256, TypeOK, AskedInv, ServerInv, [Next]_vars
    PROVE  ServerInv'
<1>0. requests # <<>> => requests[1] \in RequestSizes /\ requests[1] \in UnsignedInt
  <2>1. requests \in Seq(RequestSizes) /\ RequestSizes \subseteq UnsignedInt
    BY RpcAssumption DEF TypeOK
  <2> QED
    BY <2>1
<1>1. ASSUME toServer' = toServer, UNCHANGED <<server, requests>>
      PROVE  ServerInv'
  BY <1>1 DEF server, ServerInv, Misread, Unread, Reading
<1>2. ASSUME NEW k \in 1..Len(toServer), onMessage(k)
      PROVE  ServerInv'
  <2>1. /\ entry' = TRUE /\ crashed = FALSE /\ (shortHeader => shortHeader') /\ toServer # <<>>
        /\ readBuffer' \in Seq(Byte)
    <3>1. /\ entry' = TRUE /\ crashed = FALSE /\ (shortHeader => shortHeader') /\ k <= Len(toServer)
          /\ k \in Nat /\ k > 0 /\ readBuffer' \in Seq(Byte)
      BY <1>2, ServerBuffers, Zenon
    <3> QED
      BY <3>1
  <2>2. requests' = requests
    BY <1>2, ServerAnswers
  <2>3. requests # <<>>
    BY <2>1 DEF AskedInv
  <2>4. CASE shortHeader' \/ Misread
    BY <2>2, <2>4, Zenon DEF ServerInv, Misread
  <2>5. CASE ~shortHeader' /\ ~Misread
    <3> DEFINE n == requests[1]
    <3>1. n \in UnsignedInt /\ Narrow(n)
      BY <1>0, <2>3, <2>5 DEF Misread
    <3>2. (~entry /\ Unread(n)) \/ (entry /\ Reading(n))
      BY <2>1, <2>3, <2>5 DEF ServerInv
    <3>3. PICK m \in UnsignedInt : m = n
      BY <3>1
    <3>4. Reading(m)'
      BY <1>2, <2>5, <3>1, <3>2, <3>3, ReadingGoesOn
    <3>5. crashed' = FALSE
      <4>1. Len(readBuffer') = readBytes' => readBuffer' = Body(requests[1])
        <5>1. ASSUME Len(readBuffer') = readBytes'
              PROVE  readBuffer' = Body(requests[1])
          <6>1. /\ readBytes' = m
                /\ \A i \in 1..Len(readBuffer') : i <= m => readBuffer'[i] = BodyByte
            BY <3>4 DEF Reading
          <6>2. m \in Nat
            BY BytesAre
          <6>3. Len(readBuffer') = m /\ \A i \in 1..Len(readBuffer') : readBuffer'[i] = BodyByte
            BY <5>1, <6>1, <6>2
          <6>4. readBuffer' = Body(m)
            BY <2>1, <6>2, <6>3, WholeBody
          <6> QED
            BY <3>3, <6>4
        <5> QED
          BY <5>1
      <4> QED
        BY <1>2, <2>1, <4>1, ServerAnswers, Zenon
    <3>6. Reading(requests[1])'
      BY <2>2, <3>3, <3>4 DEF Reading
    <3> QED
      BY <2>1, <2>2, <2>3, <3>5, <3>6 DEF ServerInv
  <2> QED
    BY <2>4, <2>5
<1>3. ASSUME NEW n \in RequestSizes, peerCalls(n)
      PROVE  ServerInv'
  <2>1. /\ n \in UnsignedInt /\ requests' # <<>>
        /\ requests # <<>> => requests'[1] = requests[1]
        /\ requests = <<>> => requests'[1] = n
        /\ UNCHANGED server
    BY <1>3, CallSends, Zenon
  <2>2. crashed' = crashed /\ entry' = entry /\ shortHeader' = shortHeader
    BY <2>1 DEF server
  <2>3. CASE requests = <<>>
    <3>1. toServer = <<>> /\ ~entry
      BY <2>3 DEF AskedInv
    <3>2. Unread(n)'
      BY <1>3, <3>1, FirstUnread
    <3>3. Unread(requests[1])'
      BY <2>1, <2>3, <3>2 DEF Unread
    <3>4. CASE shortHeader
      BY <2>2, <3>4 DEF ServerInv
    <3>5. CASE ~shortHeader
      <4>1. ~crashed
        BY <2>3, <3>5 DEF ServerInv, Misread
      <4> QED
        BY <2>1, <2>2, <3>1, <3>3, <4>1 DEF ServerInv
    <3> QED
      BY <3>4, <3>5
  <2>4. CASE requests # <<>>
    <3>1. PICK m \in UnsignedInt : m = requests[1]
      BY <1>0, <2>4
    <3>2. (Unread(m) => Unread(m)') /\ (Reading(m) => Reading(m)')
      BY <1>3, MoreToRead
    <3>3. (Unread(m)' => Unread(requests[1])') /\ (Reading(m)' => Reading(requests[1])')
      BY <2>1, <2>4, <3>1 DEF Unread, Reading
    <3>4. Misread => Misread'
      BY <2>1, <2>4 DEF Misread
    <3> QED
      BY <2>1, <2>2, <2>4, <3>1, <3>2, <3>3, <3>4 DEF ServerInv
  <2> QED
    BY <2>3, <2>4
<1>4. CASE UNCHANGED vars
  BY <1>1, <1>4 DEF vars, server
<1> QED
  BY <1>2, <1>3, <1>4 DEF Next, ServerReceives

-----------------------------------------------------------------------------
(* The theorems.                                                           *)
LEMMA RpcInit ==
    ASSUME Init
    PROVE  TypeOK /\ AskedInv /\ ServerInv
<1>1. MaxCalls \in Nat /\ 0 \in UnsignedInt
  <2>1. Base4 \in Nat \ {0}
    <3>1. ByteBase \in Nat \ {0}
      BY CodecAssumption
    <3>2. \A x, y \in Nat \ {0} : x * y \in Nat \ {0}
      BY SMT
    <3>3. Base2 \in Nat \ {0}
      BY <3>1, <3>2 DEF Base2
    <3>4. Base3 \in Nat \ {0}
      BY <3>1, <3>2, <3>3 DEF Base3
    <3> QED
      BY <3>1, <3>2, <3>4 DEF Base4
  <2>2. 0 \in 0..(Base4 - 1)
    BY <2>1
  <2> QED
    BY <2>2, RpcAssumption DEF UnsignedInt
<1>2. TypeOK
  <2>1. <<>> \in Seq(Byte) /\ <<>> \in Seq(RequestSizes)
    OBVIOUS
  <2>2. 0 \in 0..MaxCalls
    BY <1>1
  <2> QED
    BY <1>1, <2>1, <2>2, Zenon DEF Init, TypeOK
<1> QED
  BY <1>1, <1>2 DEF Init, AskedInv, ServerInv

(* Types of the variables of Rpc.tla, for bytes of eight bits.             *)
THEOREM TypeCorrect == ByteBase = 256 => (Spec => []TypeOK)
<1> SUFFICES ASSUME ByteBase = 256
             PROVE  Spec => []TypeOK
  OBVIOUS
<1>1. Init => TypeOK /\ AskedInv
  BY RpcInit
<1>2. TypeOK /\ AskedInv /\ [Next]_vars => (TypeOK /\ AskedInv)'
  BY AskedStep
<1> QED
  BY <1>1, <1>2, PTL DEF Spec

(* RPC_Server::onMessage hands to handle_request nothing but the whole of  *)
(* the first request, for every cut of the stream, every length and any    *)
(* number of calls; json::parse throws only if the header came in two      *)
(* chunks or has a sign bit set in one of its low bytes.                   *)
THEOREM ServerParsesRequests == ByteBase = 256 => (Spec => []ServerParsesWholeRequest)
<1> SUFFICES ASSUME ByteBase = 256
             PROVE  Spec => []ServerParsesWholeRequest
  OBVIOUS
<1> DEFINE Inv == TypeOK /\ AskedInv /\ ServerInv
<1>1. Init => Inv
  BY RpcInit
<1>2. Inv /\ [Next]_vars => Inv'
  BY AskedStep, ServerStep
<1>3. Inv => ServerParsesWholeRequest
  BY DEF ServerInv, ServerParsesWholeRequest
<1> QED
  BY <1>1, <1>2, <1>3, PTL DEF Spec

(* The server sends at most one result on a connection, whatever the peer  *)
(* sends: RPC_Server::onMessage never empties the buffer, so that no later *)
(* chunk compares equal again.                                             *)
THEOREM AtMostOneAnswer == ByteBase = 256 => (Spec => [](answers <= 1))
<1> SUFFICES ASSUME ByteBase = 256
             PROVE  Spec => [](answers <= 1)
  OBVIOUS
<1>1. Init => TypeOK /\ AskedInv
  BY RpcInit
<1>2. TypeOK /\ AskedInv /\ [Next]_vars => (TypeOK /\ AskedInv)'
  BY AskedStep
<1>3. AskedInv => answers <= 1
  BY DEF AskedInv
<1> QED
  BY <1>1, <1>2, <1>3, PTL DEF Spec
=============================================================================
