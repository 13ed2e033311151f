------------------------------- MODULE AxiBus -------------------------------
(***************************************************************************)
(* The two ends of an AXI4-Lite port that are not its slave: a master that *)
(* keeps VALID and its payload stable until READY, and the bookkeeping of  *)
(* the bound checker (tb/interface/axi4lite_if.sv) and of the monitor      *)
(* (tb/agent/axi_monitor.sv), which know a transaction only by the beats   *)
(* accepted on the bus.                                                    *)
(*                                                                         *)
(* A channel carries <<>> while its VALID is low and <<beat>> while it is  *)
(* high.                                                                   *)
(***************************************************************************)
EXTENDS AxiLite, Sequences

CONSTANTS
  Addrs,    \* addresses the master uses
  WBeats    \* [data, strb] beats the master writes

ASSUME BusAssumption ==
  Addrs \subseteq Nat /\ WBeats \subseteq [data : Word, strb : Strobe]

VARIABLES
  aw_offered, w_offered, ar_offered,   \* the beat a channel must keep offering
  awq, wq, arq                         \* beats accepted and not yet answered

busVars == <<aw_offered, w_offered, ar_offered, awq, wq, arq>>

Beats(S) == {<<>>} \cup {<<x>> : x \in S}
ArBeats  == [addr : Addrs, writing : BOOLEAN]

BusTypeOK ==
  /\ aw_offered \in Beats(Addrs) /\ w_offered \in Beats(WBeats)
  /\ ar_offered \in Beats(Addrs)
  /\ awq \in Beats(Addrs) /\ wq \in Beats(WBeats) /\ arq \in Beats(ArBeats)

BusIdle ==
  /\ aw_offered = <<>> /\ w_offered = <<>> /\ ar_offered = <<>>
  /\ awq = <<>> /\ wq = <<>> /\ arq = <<>>

\* What a channel may carry: a beat not yet accepted stays where it is.
Offer(offered, S) == IF offered = <<>> THEN Beats(S) ELSE {offered}

\* The beats awaiting their response: the answered one leaves, the one accepted
\* on the same edge joins.
Track(q, answered, accepted) ==
  (IF answered THEN Tail(q) ELSE q) \o accepted

Accepted(beat, hs) == IF hs THEN beat ELSE <<>>
Held(beat, hs)     == IF hs THEN <<>> ELSE beat

\* A read beat remembers whether, when it was accepted, any half of a write was
\* accepted and unanswered: aw_pend || w_pend.
ReadBeat(ar, hs) ==
  IF hs THEN <<[addr |-> Head(ar), writing |-> awq # <<>> \/ wq # <<>>]>>
  ELSE <<>>

(***************************************************************************)
(* One clock edge, given what the channels carried and which handshakes    *)
(* took place: aw_acc, w_acc, ar_acc, b_done, r_done of the checker.       *)
(***************************************************************************)
Observe(aw, aw_acc, w, w_acc, ar, ar_acc, b_done, r_done) ==
  /\ aw_offered' = Held(aw, aw_acc)
  /\ w_offered'  = Held(w, w_acc)
  /\ ar_offered' = Held(ar, ar_acc)
  /\ awq' = Track(awq, b_done, Accepted(aw, aw_acc))
  /\ wq'  = Track(wq, b_done, Accepted(w, w_acc))
  /\ arq' = Track(arq, r_done, ReadBeat(ar, ar_acc))

\* ARESETn falls: the checker and the monitor forget what was in flight, and
\* the master drops every VALID.
BusReset ==
  /\ aw_offered' = <<>> /\ w_offered' = <<>> /\ ar_offered' = <<>>
  /\ awq' = <<>> /\ wq' = <<>> /\ arq' = <<>>
=============================================================================
