-------------------------- MODULE MCRegScoreboard ---------------------------
(* Instances of RegScoreboard for TLC. *)
EXTENDS RegScoreboard

Full(d)    == [data |-> d, strb |-> Lanes]
Partial(d) == [data |-> d, strb |-> {0}]

MCID == {0, 3}

(***************************************************************************)
(* CTRL, STATUS, INT_STATUS, COUNTER and an address both misaligned and    *)
(* unimplemented.  The words enable, stop and clear the counter and clear  *)
(* every event; the last does not have all its strobes.                    *)
(***************************************************************************)
SerialAddrs == {0, 4, 16, 24, 257}
SerialBeats == {Full({0}), Full({1, 3}), Partial({1})}

(* The smallest instances that show the disagreements. *)
StatusAddrs   == {4, 20, 21}
StatusBeats   == {Full({0})}
ScratchAddrs  == {20}
=============================================================================
