------------------------------ MODULE PortLive ------------------------------
(***************************************************************************)
(* Liveness at the port of a master: of the register slave (tb_top), of    *)
(* the memory slave (tb_top_mem), and of the interconnect between any two  *)
(* slaves.  One of them is at the port of a behaviour, the others stay as  *)
(* reset leaves them.  mem_ and ic_ prefix what would clash with a name of *)
(* the register slave.                                                     *)
(*                                                                         *)
(* An edge of the clock on which nothing happens is a step here, or the    *)
(* clock could only be said to run by making something happen: the parity  *)
(* of the edges is a variable.                                             *)
(***************************************************************************)
EXTENDS RegSlaveBus

CONSTANTS NUM_WORDS, REG_LIMIT, MEM_BASE, MEM_LIMIT, RBeats

VARIABLES
  mem_aw_captured, mem_w_captured, mem_awaddr_q, mem_wdata_q, mem_wstrb_q,
  mem_bvalid_q, mem_bresp_q, mem_rvalid_q, mem_rresp_q, mem_rdata_q, mem,
  wstate, aw_held, w_held, aw_addr_q, w_data_q, w_strb_q, w_dest_q,
  ic_bresp_q, aw_sent, w_sent,
  rstate, ar_addr_q, r_dest_q, ic_rdata_q, ic_rresp_q,
  port, w_answers, r_answers,
  dut,       \* what the master drives
  parity     \* of the number of edges of ACLK

mem_slaveVars ==
  <<mem_aw_captured, mem_w_captured, mem_awaddr_q, mem_wdata_q, mem_wstrb_q,
    mem_bvalid_q, mem_bresp_q, mem_rvalid_q, mem_rresp_q, mem_rdata_q, mem>>
icSideVars ==
  <<wstate, aw_held, w_held, aw_addr_q, w_data_q, w_strb_q, w_dest_q,
    ic_bresp_q, aw_sent, w_sent, rstate, ar_addr_q, r_dest_q, ic_rdata_q,
    ic_rresp_q, port, w_answers, r_answers>>
liveVars == <<vars, mem_slaveVars, icSideVars, dut, parity>>

Mem == INSTANCE MemSlaveBus WITH
  aw_captured <- mem_aw_captured, w_captured <- mem_w_captured,
  awaddr_q <- mem_awaddr_q, wdata_q <- mem_wdata_q, wstrb_q <- mem_wstrb_q,
  bvalid_q <- mem_bvalid_q, bresp_q <- mem_bresp_q,
  rvalid_q <- mem_rvalid_q, rresp_q <- mem_rresp_q, rdata_q <- mem_rdata_q

Ic == INSTANCE InterconnectBus WITH
  bresp_q <- ic_bresp_q, rdata_q <- ic_rdata_q, rresp_q <- ic_rresp_q

\* One edge of the clock, or a reset, of what is at the port.
AtPort(reg, memory, interconnect) ==
  /\ UNCHANGED dut
  /\ \/ dut = "u_reg" /\ reg /\ UNCHANGED <<mem_slaveVars, icSideVars>>
     \/ dut = "u_mem" /\ memory /\ UNCHANGED <<slaveVars, icSideVars>>
     \/ dut = "u_ic" /\ interconnect /\ UNCHANGED <<slaveVars, mem_slaveVars>>

Edge   == AtPort(Clock, Mem!Clock, Ic!Clock) /\ parity' = ~parity
AReset == AtPort(Reset, Mem!Reset, Ic!Reset) /\ UNCHANGED parity

LiveInit ==
  /\ Init /\ Mem!Init /\ Ic!Init
  /\ dut \in {"u_reg", "u_mem", "u_ic"} /\ parity = FALSE
LiveNext == Edge \/ AReset
LiveSpec == LiveInit /\ [][LiveNext]_liveVars

BVALID == bvalid_q \/ mem_bvalid_q \/ Ic!S_BVALID
RVALID == rvalid_q \/ mem_rvalid_q \/ Ic!S_RVALID

-----------------------------------------------------------------------------
(***************************************************************************)
(* Apart from the clock, every assumption is about the master or about a   *)
(* slave behind the interconnect, in terms of what the bus shows: again    *)
(* and again, if something is asked of it, it does it.  []<><<P => A>> is  *)
(* weak fairness of A, where P says when A is possible.                    *)
(***************************************************************************)
ClockRuns == []<><<parity' # parity>>_liveVars

MasterTakesR == []<><<RVALID => arq' = <<>> >>_liveVars
MasterTakesB == []<><<BVALID => awq' = <<>> /\ wq' = <<>> >>_liveVars
MasterSuppliesData ==
  []<><<awq # <<>> => w_offered' # <<>> \/ wq' # <<>> >>_liveVars
MasterSuppliesAddress ==
  []<><<wq # <<>> => aw_offered' # <<>> \/ awq' # <<>> >>_liveVars

SlavesTakeReads ==
  \A s \in Ic!Slaves : []<><<Ic!M_ARVALID(s) => port'[s].ar # <<>> >>_liveVars
SlavesAnswerReads ==
  \A s \in Ic!Slaves : []<><<port[s].ar # <<>> => port'[s].r # <<>> >>_liveVars
SlavesTakeAddresses ==
  \A s \in Ic!Slaves : []<><<Ic!M_AWVALID(s) => port'[s].aw # <<>> >>_liveVars
SlavesTakeData ==
  \A s \in Ic!Slaves : []<><<Ic!M_WVALID(s) => port'[s].w # <<>> >>_liveVars
SlavesAnswerWrites ==
  \A s \in Ic!Slaves :
    []<><<port[s].aw # <<>> /\ port[s].w # <<>> => port'[s].b # <<>> >>_liveVars

ReadFairness ==
  ClockRuns /\ MasterTakesR /\ SlavesTakeReads /\ SlavesAnswerReads
WriteFairness ==
  /\ ClockRuns
  /\ MasterTakesB /\ MasterSuppliesData /\ MasterSuppliesAddress
  /\ SlavesTakeAddresses /\ SlavesTakeData /\ SlavesAnswerWrites

(***************************************************************************)
(* Every accepted read is answered and every read the master offers is     *)
(* accepted, even if the master never takes a write response and a slave   *)
(* behind the interconnect never answers a write: the paths share nothing. *)
(***************************************************************************)
ReadsComplete ==
  ReadFairness =>
    (arq # <<>> ~> arq = <<>>) /\ (ar_offered # <<>> ~> ar_offered = <<>>)

(***************************************************************************)
(* The same of writes, whichever half is accepted first and whatever       *)
(* happens to reads: no order of halves, responses and resets leaves a     *)
(* channel closed for good.                                                *)
(***************************************************************************)
WritesComplete ==
  WriteFairness =>
    /\ (awq # <<>> ~> awq = <<>>) /\ (wq # <<>> ~> wq = <<>>)
    /\ (aw_offered # <<>> ~> aw_offered = <<>>)
    /\ (w_offered # <<>> ~> w_offered = <<>>)
=============================================================================
