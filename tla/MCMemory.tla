------------------------------ MODULE MCMemory ------------------------------
(***************************************************************************)
(* The memory slave and its scoreboard for TLC: two words of two one-bit   *)
(* lanes, and two workloads side by side.  Any master and any reset, with  *)
(* nobody watching but the bound checker; and the traffic of the sequences *)
(* with the scoreboard.  A behaviour keeps to one of them.                 *)
(***************************************************************************)
EXTENDS MemScoreboard

VARIABLE workload

Beat(d, s) == [data |-> d, strb |-> s]

\* Both words and a misaligned address in the second; a full, a partial and,
\* for the scoreboard, an empty strobe.
MemAddrs == {4096, 4100, 4101}
BusBeats == {Beat({0, 1}, {0, 1}), Beat({}, {1})}
SbBeats  == BusBeats \cup {Beat({0}, {})}

Bus      == INSTANCE MemSlaveBus WITH WBeats <- BusBeats
Directed == INSTANCE MemScoreboard WITH WBeats <- SbBeats

WorkloadInit == SbInit /\ workload \in {"bus", "directed"}

WorkloadNext ==
  /\ \/ workload = "bus" /\ Bus!Next /\ UNCHANGED <<m_mem, m_mem_valid, mismatch>>
     \/ workload = "directed" /\ (Directed!SerialClock \/ Directed!DirectedReset)
  /\ UNCHANGED workload

WorkloadSpec == WorkloadInit /\ [][WorkloadNext]_<<sbVars, workload>>
=============================================================================
