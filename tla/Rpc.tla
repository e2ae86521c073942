--------------------------------- MODULE Rpc --------------------------------
(***************************************************************************)
(* RPC_Server on one connection: requests behind length headers, cut into  *)
(* chunks anywhere, their reassembly and the answer.                       *)
(*                                                                         *)
(* The stream is taken from SendPath.tla: bytes arrive in order.  A body   *)
(* is a JSON text, of which no proper part is one; its bytes are all       *)
(* alike.  The peer is external: it frames its requests as the code of     *)
(* RPC_Client::call does and sends them when it likes, the next one before *)
(* the last is answered too.  RPC_Client itself is not modelled: nothing   *)
(* runs its loop and nothing registers its onMessage (RPC_Client.h:27), so *)
(* that its call() only ever returns "Connection not established".         *)
(* Every request is answered "Function name unregistered": a program that  *)
(* registers a function does not compile (Codec.h:52 needs a constant).    *)
(***************************************************************************)
EXTENDS Codec, Sequences

CONSTANTS
    RequestSizes,  \* lengths of requests
    MaxCalls       \* bound: requests sent on the connection

ASSUME RpcAssumption ==
    /\ RequestSizes \subseteq UnsignedInt \ {0}
    /\ MaxCalls \in Nat

VARIABLES
    toServer,      \* external: bytes on their way
    requests,      \* external: the lengths of the requests sent
    entry,         \* readBuffers_ has an entry for the connection
    readBuffer,    \* readBuffers_[conn]
    readBytes,     \* read_bytes[conn]
    answers,       \* results sent
    crashed,       \* json::parse threw, and nothing catches it
    shortHeader    \* history: the first chunk was shorter than a header

vars == <<toServer, requests, entry, readBuffer, readBytes, answers, crashed, shortHeader>>

BodyByte == 1
Body(n) == [i \in 1..n |-> BodyByte]
Packet(n) == cal_headers(n) \o Body(n)
Prefix(s, k) == SubSeq(s, 1, k)
From(s, k) == SubSeq(s, k + 1, Len(s))

Init ==
    /\ toServer = <<>> /\ requests = <<>>
    /\ entry = FALSE /\ readBuffer = <<>> /\ readBytes = 0
    /\ answers = 0 /\ crashed = FALSE /\ shortHeader = FALSE

-----------------------------------------------------------------------------
(* RPC_Server, in the thread of the connection's loop.                     *)

(* unpack_func_name can parse buffer.  The name is under "function_name",  *)
(* where it does not look, so that no function is ever found.              *)
unpack_func_name(buffer) == buffer = Body(requests[1])

(* The header and the result, packed and handed to send() one after the    *)
(* other.                                                                  *)
send_result == answers' = answers + 1

handle_request(buffer) ==
    IF unpack_func_name(buffer)
    THEN send_result /\ UNCHANGED crashed
    ELSE crashed' = TRUE /\ UNCHANGED answers

(* Wrong on purpose: >= for ==.                                            *)
RequestComplete_AtLeast(buffer, bytes) == Len(buffer) >= bytes

(* readBuffers_[conn].size() == read_bytes[conn].                          *)
RequestComplete(buffer, bytes) == Len(buffer) = bytes

(* Wrong on purpose: the header counts as part of the request.             *)
FirstChunk_KeepHeader(chunk) == chunk

(* What the first chunk leaves in the buffer.                              *)
FirstChunk(chunk) == From(chunk, 4)

(* onMessage with a chunk of k bytes.  The comparison at its end makes the *)
(* entries with operator[]: a first chunk too short for a header leaves an *)
(* empty buffer with an expected length of 0.                              *)
onMessage(k) ==
    LET chunk == Prefix(toServer, k)
        first == ~entry
    IN  /\ ~crashed
        /\ toServer' = From(toServer, k)
        /\ entry' = TRUE
        /\ readBytes' = IF first /\ k >= 4 THEN ReadHeader(chunk) ELSE readBytes
        /\ readBuffer' = CASE ~first -> readBuffer \o chunk
                           [] first /\ k >= 4 -> FirstChunk(chunk)
                           [] OTHER -> <<>>
        /\ shortHeader' = (shortHeader \/ (first /\ k < 4))
        /\ IF RequestComplete(readBuffer', readBytes')
           THEN handle_request(readBuffer')
           ELSE UNCHANGED <<answers, crashed>>
        /\ UNCHANGED requests

-----------------------------------------------------------------------------
(* External: a peer sends a request of n bytes behind its header, and the  *)
(* network delivers chunks of any length.                                  *)
peerCalls(n) ==
    /\ Len(requests) < MaxCalls
    /\ toServer' = toServer \o Packet(n)
    /\ requests' = Append(requests, n)
    /\ UNCHANGED <<entry, readBuffer, readBytes, answers, crashed, shortHeader>>

ServerReceives == \E k \in 1..Len(toServer) : onMessage(k)

Next == ServerReceives \/ (\E n \in RequestSizes : peerCalls(n))

(* What was sent arrives, and the loop hands it on.                        *)
Spec == Init /\ [][Next]_vars /\ WF_vars(ServerReceives)

-----------------------------------------------------------------------------
(* Types of the variables.                                                 *)
TypeOK ==
    /\ toServer \in Seq(Byte) /\ requests \in Seq(RequestSizes)
    /\ entry \in BOOLEAN /\ readBuffer \in Seq(Byte) /\ readBytes \in UnsignedInt
    /\ answers \in 0..MaxCalls /\ crashed \in BOOLEAN /\ shortHeader \in BOOLEAN

(* The first request is one whose length is not read back.                 *)
Misread == requests # <<>> /\ ~Narrow(requests[1])

(* A chunk held the end of the first request and the beginning of the next *)
(* one: onMessage compares for equality, and the buffer is past it.        *)
Overrun == Len(requests) > 1 /\ Len(readBuffer) > requests[1]

(* However a narrow request is cut and whatever follows it, the server     *)
(* parses nothing but the whole of it; only a header that comes in two     *)
(* chunks, or one whose length is not read back as it was written, ends    *)
(* the server.                                                             *)
ServerParsesWholeRequest == crashed => shortHeader \/ Misread

(* The first request of a connection is answered under the same exceptions *)
(* and the one of a next request that came in the same chunk as its end    *)
(* (later ones never are: the buffer is not emptied).                      *)
RequestAnswered ==
    requests # <<>> ~> answers > 0 \/ shortHeader \/ Misread \/ Overrun

=============================================================================
