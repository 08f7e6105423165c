------------------------------ MODULE PacketsMC ------------------------------
(* Constants for TLC: see the .cfg file for the instance. *)
EXTENDS Packets, TLC

CONSTANTS c1, c2

\* Bytes 0 to 3; an address is one byte long and a field of a text holds two.
AddressMC == c1 :> <<2>> @@ c2 :> <<3>>
FormsMC == {[type |-> SNIN, texts |-> <<<<1>>, <<3>>>>],
            [type |-> SNIN, texts |-> <<<<1, 3>>, <<3, 1, 2>>>>],
            [type |-> SNUP, texts |-> <<<<1>>, <<1, 2>>, <<>>, <<3, 1>>>>]}
ResultsMC == {<<1>>}
BadPacketMC == <<2>>
=============================================================================
