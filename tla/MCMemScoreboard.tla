-------------------------- MODULE MCMemScoreboard ---------------------------
(* The smallest instance of MemScoreboard that shows the disagreement. *)
EXTENDS MemScoreboard

Beat(d, s) == [data |-> d, strb |-> s]

OneAddr  == {4096}
TwoBeats == {Beat({0, 1}, {0, 1}), Beat({}, {0, 1})}
=============================================================================
