-------------------------- MODULE MCInterconnectBus -------------------------
(* Instances of InterconnectBus for TLC. *)
EXTENDS InterconnectBus

Full(d) == [data |-> d, strb |-> {0}]

\* The last byte of the register region, the first of the memory and the first
\* above it.
RouteAddrs  == {4095, 4096, 5120}
OneWrite    == {Full({0})}
RouteReads  == {[data |-> {0}, resp |-> OKAY], [data |-> {}, resp |-> SLVERR]}
=============================================================================
