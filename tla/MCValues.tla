------------------------------ MODULE MCValues ------------------------------
(* Buffer and Address for TLC.  They share no state: one run explores both, *)
(* each while the other is as it began.                                     *)
EXTENDS Buffer, Address

MCContents == {<<>>, <<1>>, <<2, 1>>}
MCSpans == {<<1>>, <<2, 1>>}
MCWords == {<<1, 129>>, <<128, 0, 7, 5>>,
            <<0, 0, 0, 0, 127, 1, 200, 9>>, <<1, 2, 3, 4, 5, 6, 7, 8>>}

\* The edges of the private blocks.
MCV4 == {<<9, 255, 255, 255>>, <<10, 0, 0, 0>>, <<11, 0, 0, 0>>,
         <<100, 63, 255, 255>>, <<100, 64, 0, 0>>, <<100, 127, 255, 255>>,
         <<100, 128, 0, 0>>, <<127, 0, 0, 1>>, <<128, 0, 0, 0>>,
         <<169, 253, 0, 0>>, <<169, 254, 1, 2>>, <<172, 15, 255, 255>>,
         <<172, 16, 0, 0>>, <<172, 31, 255, 255>>, <<172, 32, 0, 0>>,
         <<192, 168, 0, 1>>, <<192, 169, 0, 0>>}
V6Of(a, b, z) == [i \in 1..16 |-> CASE i = 1 -> a [] i = 2 -> b
                                    [] i = 16 -> z [] OTHER -> 0]
MCV6 == {V6Of(0, 0, 1), V6Of(254, 127, 1), V6Of(254, 128, 0),
         V6Of(254, 191, 1), V6Of(253, 0, 1), V6Of(252, 0, 0)}
MCPorts == {<<0, 80>>, <<117, 48>>}

Init == BufferInit /\ AddressInit

\* The address is made once: a constructor starts from the default address.
Next ==
    \/ /\ addr.family = -1
       /\ BufferNext /\ UNCHANGED addressVars
    \/ /\ buffer_ = <<>>
       /\ AddressNext /\ UNCHANGED bufferVars

Spec == Init /\ [][Next]_<<bufferVars, addressVars>>
=============================================================================
