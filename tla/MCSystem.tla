------------------------------ MODULE MCSystem ------------------------------
(* The instance of System for TLC: CONFIG (0x08), the first word of the      *)
(* memory and the first address above it.  The one beat is the word that     *)
(* CONFIG holds from reset on, so that what changes is the memory, which     *)
(* reset has to leave alone.                                                 *)
EXTENDS System

MCID == {0, 3}
SysAddrs == {8, 4096, 5120}
SysBeats == {[data |-> {0, 1}, strb |-> Lanes]}

\* The array starts with zeros.
MCInit == SysInit /\ mem = [i \in Bits(NUM_WORDS) |-> {}]
MCSpec == MCInit /\ [][SysNext]_sysVars
=============================================================================
