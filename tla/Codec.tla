-------------------------------- MODULE Codec -------------------------------
(***************************************************************************)
(* The four-byte length header in front of every request and response:     *)
(* Codec::cal_headers, and the sum with which RPC_Server::onMessage and    *)
(* RPC_Client::onMessage read it back.                                     *)
(***************************************************************************)
EXTENDS Integers

CONSTANT ByteBase   \* 256; smaller for TLC

ASSUME CodecAssumption == ByteBase \in Nat \ {0} /\ ByteBase % 2 = 0

Base2 == ByteBase * ByteBase
Base3 == ByteBase * Base2
Base4 == ByteBase * Base3

Byte == 0..(ByteBase - 1)
UnsignedInt == 0..(Base4 - 1)

cal_headers(bytes) ==
    <<(bytes \div Base3) % ByteBase, (bytes \div Base2) % ByteBase,
      (bytes \div ByteBase) % ByteBase, bytes % ByteBase>>

(* A byte as the (signed) char through which buf[i] is read.               *)
Signed(byte) == IF 2 * byte < ByteBase THEN byte ELSE byte - ByteBase

(* The sum of buf[i] << ...                                                *)
HeaderSum(buf) ==
    Base3 * Signed(buf[1]) + Base2 * Signed(buf[2]) + ByteBase * Signed(buf[3])
        + Signed(buf[4])

(* The sum as it is made, in an unsigned int.                              *)
ReadHeader(buf) == HeaderSum(buf) % Base4

(* The lengths none of whose three low bytes has its sign bit set.         *)
Narrow(bytes) == \A i \in 2..4 : 2 * cal_headers(bytes)[i] < ByteBase

(* A length is read back as it was written exactly if it is narrow.  The   *)
(* sign of the highest byte does not matter: it falls out of the word.     *)
HeaderExact == \A n \in UnsignedInt : (ReadHeader(cal_headers(n)) = n) <=> Narrow(n)

=============================================================================
