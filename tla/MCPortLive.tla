----------------------------- MODULE MCPortLive -----------------------------
(* The instance of PortLive for TLC: INT_STATUS (0x10), an unmapped address  *)
(* that is misaligned too, and the word that clears the event a slave        *)
(* without an interconnect raises for it.                                    *)
EXTENDS PortLive

MCID == {0, 3}
LiveAddrs == {16, 5121}
LiveBeats == {[data |-> {MISALIGN}, strb |-> Lanes]}
LiveReads == {[data |-> {0}, resp |-> OKAY]}

\* The array starts with zeros.
MCInit == LiveInit /\ mem = [i \in Bits(NUM_WORDS) |-> {}]
MCSpec == MCInit /\ [][LiveNext]_liveVars
=============================================================================
