------------------------------- MODULE MCWire -------------------------------
(* The instance of Wire for TLC: strings of one to three bytes, an empty   *)
(* text, and a buffer that is full before two long messages are in it.     *)
EXTENDS Wire

Names == {<<97>>, <<98, 99>>}
Rooms == {<<114>>, <<114, 98>>, <<114, 114, 114>>}
Texts == {<<>>, <<104>>, <<98, 121>>}
=============================================================================
