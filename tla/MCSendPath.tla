----------------------------- MODULE MCSendPath -----------------------------
(* Messages for TLC: a string, a short array, and two of one length, with  *)
(* and without NUL, so that one can be overwritten with the other.         *)
EXTENDS SendPath

MCStrings == {<<1, 2>>}
MCArrays == {<<3>>, <<3, 4>>, <<0, 4>>}

=============================================================================
