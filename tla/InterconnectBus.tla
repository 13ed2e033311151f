--------------------------- MODULE InterconnectBus --------------------------
(***************************************************************************)
(* The interconnect between any AXI4-Lite master and any two AXI4-Lite     *)
(* slaves.  A slave here is only what the protocol makes of it: it raises  *)
(* its READYs when it likes, answers a write once both halves have been    *)
(* accepted and a read once its address has, with whatever response it     *)
(* likes, and keeps the response up until it is taken.                     *)
(***************************************************************************)
EXTENDS Interconnect, AxiBus

CONSTANT RBeats    \* [data, resp] a slave may answer a read with

ASSUME InterconnectBusAssumption ==
  RBeats \subseteq [data : Word, resp : {OKAY, SLVERR}]

VARIABLES
  port,      \* per slave, the beats it has accepted and the responses it offers
  w_answers, \* what slaves answered to the write the master has in flight
  r_answers  \* the same of reads

vars == <<icVars, busVars, port, w_answers, r_answers>>

WResps  == {OKAY, SLVERR}
Port    == [aw : Beats(Addrs), w : Beats(WBeats), b : Beats(WResps),
            ar : Beats(Addrs), r : Beats(RBeats)]
IdlePort == [aw |-> <<>>, w |-> <<>>, b |-> <<>>, ar |-> <<>>, r |-> <<>>]

TypeOK == IcTypeOK /\ BusTypeOK /\ port \in [Slaves -> Port]

Init ==
  /\ IcInReset /\ BusIdle
  /\ port = [s \in Slaves |-> IdlePort]
  /\ w_answers = <<>> /\ r_answers = <<>>

(***************************************************************************)
(* One edge of the clock at the slave ports.  ready holds the READYs and   *)
(* b and r the responses of the slave concerned; what the other slave      *)
(* would do with its own is without effect, since its VALIDs are low and   *)
(* it has nothing to answer.                                               *)
(***************************************************************************)
Driven(ready) ==
  [s \in Slaves |-> [awready |-> ready.aw, wready |-> ready.w,
                     arready |-> ready.ar, b |-> port[s].b, r |-> port[s].r]]

Answer(now, taken, owed, new) ==
  IF taken THEN <<>> ELSE IF now # <<>> THEN now ELSE IF owed THEN new ELSE <<>>

SlavePort(s, ready, b, r) ==
  LET b_done == M_BREADY(s) /\ port[s].b # <<>>
      r_done == M_RREADY(s) /\ port[s].r # <<>>
      aw == Track(port[s].aw, b_done,
                  Accepted(<<aw_addr_q>>, M_AWVALID(s) /\ ready.aw))
      w  == Track(port[s].w, b_done,
                  Accepted(<<[data |-> w_data_q, strb |-> w_strb_q]>>,
                           M_WVALID(s) /\ ready.w))
      ar == Track(port[s].ar, r_done,
                  Accepted(<<ar_addr_q>>, M_ARVALID(s) /\ ready.ar))
  IN  [aw |-> aw, w |-> w, ar |-> ar,
       b |-> Answer(port[s].b, b_done, aw # <<>> /\ w # <<>>, b),
       r |-> Answer(port[s].r, r_done, ar # <<>>, r)]

\* The response of slave s that the interconnect takes on this edge.
TakenB(s) ==
  IF M_BREADY(s) /\ port[s].b # <<>>
    THEN <<[slave |-> s, addr |-> Head(port[s].aw), beat |-> Head(port[s].w),
            resp |-> Head(port[s].b)]>>
    ELSE <<>>
TakenR(s) ==
  IF M_RREADY(s) /\ port[s].r # <<>>
    THEN <<[slave |-> s, addr |-> Head(port[s].ar), beat |-> Head(port[s].r)]>>
    ELSE <<>>

\* The two slave ports, and what has been answered over them.
PortsEdge(bready, rready, ready, b, r) ==
  /\ port' = [s \in Slaves |-> SlavePort(s, ready, b, r)]
  /\ w_answers' = IF S_BVALID /\ bready THEN <<>>
                  ELSE w_answers \o TakenB(DEST_REG) \o TakenB(DEST_MEM)
  /\ r_answers' = IF S_RVALID /\ rready THEN <<>>
                  ELSE r_answers \o TakenR(DEST_REG) \o TakenR(DEST_MEM)

(***************************************************************************)
(* A READY nobody waits for, or an answer nobody is owed, changes nothing, *)
(* so it is left low.                                                      *)
(***************************************************************************)
Signal(awaited) == IF awaited THEN BOOLEAN ELSE {FALSE}

Readys ==
  [aw : Signal(wstate = W_FWD), w : Signal(wstate = W_FWD),
   ar : Signal(rstate = R_FWD)]
NewB == IF wstate \in {W_FWD, W_WAIT_B} THEN Beats(WResps) ELSE {<<>>}
NewR == IF rstate \in {R_FWD, R_WAIT_R} THEN Beats(RBeats) ELSE {<<>>}

Clock ==
  \E aw \in Offer(aw_offered, Addrs), w \in Offer(w_offered, WBeats),
     ar \in Offer(ar_offered, Addrs),
     bready \in Signal(S_BVALID), rready \in Signal(S_RVALID) :
    /\ Observe(aw, s_aw_hs(aw), w, s_w_hs(w), ar, s_ar_hs(ar),
               S_BVALID /\ bready, S_RVALID /\ rready)
    /\ \E ready \in Readys :
         /\ IcClock(aw, w, bready, ar, rready, Driven(ready))
         /\ \E b \in NewB, r \in NewR : PortsEdge(bready, rready, ready, b, r)

\* ARESETn is common to the interconnect, its slaves and its master.
Reset ==
  /\ IcReset /\ BusReset
  /\ port' = [s \in Slaves |-> IdlePort]
  /\ w_answers' = <<>> /\ r_answers' = <<>>

Next == Clock \/ Reset

Spec == Init /\ [][Next]_vars

-----------------------------------------------------------------------------
(***************************************************************************)
(* The owner of an address, by the regions of docs/dut_spec.md section 4   *)
(* as the scoreboard writes them.                                          *)
(***************************************************************************)
is_reg_region(a) == a <= REG_LIMIT
is_mem_region(a) == a >= MEM_BASE /\ a <= MEM_LIMIT
is_unmapped(a)   == a > MEM_LIMIT
Owns(s, a) == IF s = DEST_REG THEN is_reg_region(a) ELSE is_mem_region(a)

(***************************************************************************)
(* Whatever order its halves came in, a write is answered to the master    *)
(* with the answer of the one slave that owns its address, given to        *)
(* exactly its address and data and taken exactly once; an unmapped write  *)
(* is answered DECERR and no slave has seen it.                            *)
(***************************************************************************)
WriteRouted ==
  /\ Len(awq) <= 1 /\ Len(wq) <= 1
  /\ S_BVALID =>
       /\ awq # <<>> /\ wq # <<>>
       /\ IF is_unmapped(Head(awq)) THEN w_answers = <<>> /\ bresp_q = DECERR
          ELSE \E s \in Slaves :
                 /\ Owns(s, Head(awq))
                 /\ w_answers = <<[slave |-> s, addr |-> Head(awq),
                                   beat |-> Head(wq), resp |-> bresp_q]>>

\* The same of reads; an unmapped read returns zero.
ReadRouted ==
  /\ Len(arq) <= 1
  /\ S_RVALID =>
       /\ arq # <<>>
       /\ IF is_unmapped(Head(arq).addr)
            THEN r_answers = <<>> /\ rresp_q = DECERR /\ rdata_q = {}
          ELSE \E s \in Slaves :
                 /\ Owns(s, Head(arq).addr)
                 /\ r_answers = <<[slave |-> s, addr |-> Head(arq).addr,
                                   beat |-> [data |-> rdata_q, resp |-> rresp_q]]>>

(***************************************************************************)
(* The two paths together.                                                 *)
(***************************************************************************)
ResponsesRouted == WriteRouted /\ ReadRouted

(***************************************************************************)
(* A slave only ever holds halves of the write and the read the master has *)
(* in flight, only if it owns their address, and at most one of each: the  *)
(* gap above the memory and the other slave's region stay invisible to it, *)
(* also while nothing has been answered yet.                               *)
(***************************************************************************)
OnlyOwnerSees ==
  \A s \in Slaves :
    /\ port[s].aw # <<>> \/ port[s].w # <<>> =>
         awq # <<>> /\ wq # <<>> /\ Owns(s, Head(awq))
    /\ port[s].aw # <<>> => port[s].aw = awq
    /\ port[s].w # <<>> => port[s].w = wq
    /\ port[s].ar # <<>> =>
         arq # <<>> /\ port[s].ar = <<Head(arq).addr>>
           /\ Owns(s, Head(arq).addr)

(***************************************************************************)
(* At a slave port a beat on offer stays, unchanged, until it is accepted  *)
(* (a_awvalid_stable, a_awaddr_stable and their likes on the checkers      *)
(* bound to the two slaves).                                               *)
(***************************************************************************)
SlavePortStable ==
  [][ \/ Reset
      \/ \A s \in Slaves :
           /\ M_AWVALID(s) /\ port'[s].aw = port[s].aw =>
                M_AWVALID(s)' /\ aw_addr_q' = aw_addr_q
           /\ M_WVALID(s) /\ port'[s].w = port[s].w =>
                M_WVALID(s)' /\ w_data_q' = w_data_q /\ w_strb_q' = w_strb_q
           /\ M_ARVALID(s) /\ port'[s].ar = port[s].ar =>
                M_ARVALID(s)' /\ ar_addr_q' = ar_addr_q
    ]_vars

=============================================================================
