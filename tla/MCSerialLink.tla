---------------------------- MODULE MCSerialLink ----------------------------
(* SerialLink with a short symbol and a few bit patterns.                   *)
EXTENDS SerialLink

BitsOf(n) == [i \in 0..7 |-> (n \div (2^i)) % 2]
MCTwoBytes == {BitsOf(n) : n \in {85, 254}}
MCByte == {BitsOf(n) : n \in {0, 85, 254, 255}}
=============================================================================
