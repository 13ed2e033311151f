--------------------------- MODULE MCRegSlaveBus ----------------------------
(* Instances of RegSlaveBus for TLC. *)
EXTENDS RegSlaveRefinement

Full(d)    == [data |-> d, strb |-> Lanes]
Partial(d) == [data |-> d, strb |-> {0}]

MCID == {0, 3}

(***************************************************************************)
(* Handshakes, errors and refinement, with the counter stopped: STATUS     *)
(* (0x04), CONFIG (0x08) and an unimplemented address (0x100) that a       *)
(* partial decode would alias onto CTRL.                                   *)
(***************************************************************************)
HandshakeAddrs == {4, 8, 256}
HandshakeBeats == {Full({0}), Partial({2})}
=============================================================================
