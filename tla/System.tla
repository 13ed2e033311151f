------------------------------- MODULE System -------------------------------
(***************************************************************************)
(* tb/tests/tb_top_sys.sv: the interconnect between a master and the two   *)
(* slaves of this repository, on one clock and one reset.                  *)
(*                                                                         *)
(* The register slave and the checker bound to it keep their names, and so *)
(* does the interconnect but for three registers.  Prefixed are the rest:  *)
(* mem_ of the memory slave and its checker, s_ of the checker at the port *)
(* of the master, ic_ of those three.                                      *)
(***************************************************************************)
EXTENDS RegSlaveRefinement

CONSTANTS NUM_WORDS, REG_LIMIT, MEM_BASE, MEM_LIMIT

ASSUME SystemAssumption ==
  /\ STRB_WIDTH # 0 /\ NUM_WORDS \in Nat \ {0}
  /\ REG_LIMIT \in Nat /\ MEM_BASE \in Nat /\ MEM_LIMIT \in Nat
  /\ MEM_BASE = REG_LIMIT + 1 /\ MEM_BASE <= MEM_LIMIT

VARIABLES
  wstate, aw_held, w_held, aw_addr_q, w_data_q, w_strb_q, w_dest_q,
  ic_bresp_q, aw_sent, w_sent,
  rstate, ar_addr_q, r_dest_q, ic_rdata_q, ic_rresp_q,         \* u_ic
  s_aw_offered, s_w_offered, s_ar_offered, s_awq, s_wq, s_arq, \* its port
  mem_aw_captured, mem_w_captured, mem_awaddr_q, mem_wdata_q, mem_wstrb_q,
  mem_bvalid_q, mem_bresp_q, mem_rvalid_q, mem_rresp_q, mem_rdata_q,
  mem,                                                         \* u_mem
  mem_aw_offered, mem_w_offered, mem_ar_offered, mem_awq, mem_wq, mem_arq

ic_vars == <<wstate, aw_held, w_held, aw_addr_q, w_data_q, w_strb_q, w_dest_q,
             ic_bresp_q, aw_sent, w_sent,
             rstate, ar_addr_q, r_dest_q, ic_rdata_q, ic_rresp_q>>
s_vars == <<s_aw_offered, s_w_offered, s_ar_offered, s_awq, s_wq, s_arq>>
mem_vars == <<mem_aw_captured, mem_w_captured, mem_awaddr_q, mem_wdata_q,
              mem_wstrb_q, mem_bvalid_q, mem_bresp_q, mem_rvalid_q,
              mem_rresp_q, mem_rdata_q, mem, mem_aw_offered, mem_w_offered,
              mem_ar_offered, mem_awq, mem_wq, mem_arq>>
sysVars == <<vars, ic_vars, s_vars, mem_vars>>

-----------------------------------------------------------------------------
(***************************************************************************)
(* u_mem and the checker bound to it.                                      *)
(***************************************************************************)
Mem == INSTANCE MemSlaveBus WITH
  aw_captured <- mem_aw_captured, w_captured <- mem_w_captured,
  awaddr_q <- mem_awaddr_q, wdata_q <- mem_wdata_q, wstrb_q <- mem_wstrb_q,
  bvalid_q <- mem_bvalid_q, bresp_q <- mem_bresp_q,
  rvalid_q <- mem_rvalid_q, rresp_q <- mem_rresp_q, rdata_q <- mem_rdata_q,
  aw_offered <- mem_aw_offered, w_offered <- mem_w_offered,
  ar_offered <- mem_ar_offered, awq <- mem_awq, wq <- mem_wq, arq <- mem_arq

(***************************************************************************)
(* u_ic, and what InterconnectBus knows of the slaves behind it: the beats *)
(* they have accepted, the responses they hold up, and the response that   *)
(* the interconnect has from them and the master not yet.                  *)
(***************************************************************************)
Carried(valid, x) == IF valid THEN <<x>> ELSE <<>>

reg_b == Carried(bvalid_q, bresp_q)
reg_r == Carried(rvalid_q, [data |-> rdata_q, resp |-> rresp_q])
mem_b == Carried(mem_bvalid_q, mem_bresp_q)
mem_r == Carried(mem_rvalid_q, [data |-> mem_rdata_q, resp |-> mem_rresp_q])

PortOf(aws, ws, b, ars, r) ==
  [aw |-> aws, w |-> ws, b |-> b,
   ar |-> IF ars = <<>> THEN <<>> ELSE <<Head(ars).addr>>, r |-> r]

portView ==
  [s \in {"DEST_REG", "DEST_MEM"} |->
     IF s = "DEST_REG" THEN PortOf(awq, wq, reg_b, arq, reg_r)
                       ELSE PortOf(mem_awq, mem_wq, mem_b, mem_arq, mem_r)]

wAnswerView ==
  Carried(wstate = "W_RESP" /\ w_dest_q # "DEST_ERR",
          [slave |-> w_dest_q, addr |-> aw_addr_q,
           beat |-> [data |-> w_data_q, strb |-> w_strb_q],
           resp |-> ic_bresp_q])
rAnswerView ==
  Carried(rstate = "R_RESP" /\ r_dest_q # "DEST_ERR",
          [slave |-> r_dest_q, addr |-> ar_addr_q,
           beat |-> [data |-> ic_rdata_q, resp |-> ic_rresp_q]])

\* Neither slave returns data with an error.
ReadAnswers ==
  [data : Word, resp : {OKAY}] \cup [data : {{}}, resp : {SLVERR}]

Ic == INSTANCE InterconnectBus WITH
  bresp_q <- ic_bresp_q, rdata_q <- ic_rdata_q, rresp_q <- ic_rresp_q,
  aw_offered <- s_aw_offered, w_offered <- s_w_offered,
  ar_offered <- s_ar_offered, awq <- s_awq, wq <- s_wq, arq <- s_arq,
  port <- portView, w_answers <- wAnswerView, r_answers <- rAnswerView,
  RBeats <- ReadAnswers

DEST_REG == Ic!DEST_REG
DEST_MEM == Ic!DEST_MEM

-----------------------------------------------------------------------------
(***************************************************************************)
(* The wires m0_* (s = DEST_REG) and m1_* (s = DEST_MEM).                  *)
(***************************************************************************)
AW(s) == Carried(Ic!M_AWVALID(s), aw_addr_q)
W(s)  == Carried(Ic!M_WVALID(s), [data |-> w_data_q, strb |-> w_strb_q])
AR(s) == Carried(Ic!M_ARVALID(s), ar_addr_q)

fromSlaves ==
  [s \in {DEST_REG, DEST_MEM} |->
     IF s = DEST_REG
       THEN [awready |-> AWREADY, wready |-> WREADY, arready |-> ARREADY,
             b |-> reg_b, r |-> reg_r]
       ELSE [awready |-> Mem!AWREADY, wready |-> Mem!WREADY,
             arready |-> Mem!ARREADY, b |-> mem_b, r |-> mem_r]]

(***************************************************************************)
(* One edge of the clock: everything samples what the others held before.  *)
(***************************************************************************)
SysEdge(aw, w, bready, ar, rready) ==
  /\ Ic!Observe(aw, Ic!s_aw_hs(aw), w, Ic!s_w_hs(w), ar, Ic!s_ar_hs(ar),
                Ic!S_BVALID /\ bready, Ic!S_RVALID /\ rready)
  /\ Ic!IcClock(aw, w, bready, ar, rready, fromSlaves)
  /\ BusClock(AW(DEST_REG), W(DEST_REG), Ic!M_BREADY(DEST_REG),
              AR(DEST_REG), Ic!M_RREADY(DEST_REG))
  /\ Mem!BusClock(AW(DEST_MEM), W(DEST_MEM), Ic!M_BREADY(DEST_MEM),
                  AR(DEST_MEM), Ic!M_RREADY(DEST_MEM))

\* ... for anything the master may do.
SysClock ==
  \E aw \in Offer(s_aw_offered, Addrs), w \in Offer(s_w_offered, WBeats),
     ar \in Offer(s_ar_offered, Addrs),
     bready \in Ic!Signal(Ic!S_BVALID), rready \in Ic!Signal(Ic!S_RVALID) :
    SysEdge(aw, w, bready, ar, rready)

\* ARESETn reaches all of them, and the master.
SysReset == Ic!IcReset /\ Ic!BusReset /\ Reset /\ Mem!Reset

SysInit == Ic!IcInReset /\ Ic!BusIdle /\ Init /\ Mem!Init
SysNext == SysClock \/ SysReset
SysSpec == SysInit /\ [][SysNext]_sysVars

-----------------------------------------------------------------------------
(***************************************************************************)
(* "AW and W are forwarded together, so on a slave port they are always    *)
(* accepted in the same cycle" (rtl/axi4lite_interconnect.sv, AN           *)
(* OBSERVATION ABOUT THE SLAVE PORTS): no checker on a slave port ever has *)
(* one half of a write without the other, whatever order the master chose. *)
(* It takes the READYs of these two slaves.                                *)
(***************************************************************************)
HalvesMeetAtSlaves ==
  (awq = <<>> <=> wq = <<>>) /\ (mem_awq = <<>> <=> mem_wq = <<>>)

(***************************************************************************)
(* Each part keeps the promises the models of the others take from it: the *)
(* slaves those that InterconnectBus takes from slaves, the interconnect   *)
(* those that RegSlaveBus and MemSlaveBus take from a master.  So what     *)
(* holds of each in any surroundings holds of it here.                     *)
(***************************************************************************)
PromisesKept == Ic!Spec /\ Spec /\ Mem!Spec

(***************************************************************************)
(* What software sees through the interconnect.  A result is at a port of  *)
(* the abstract files from the edge on which the slave has it to the edge  *)
(* on which the master takes it; it is paired with the beats the master    *)
(* had accepted at its own port.  Each file has the addresses of its own   *)
(* region (docs/dut_spec.md section 4) and no other.                       *)
(***************************************************************************)
RegAddrs == {a \in Addrs : a <= REG_LIMIT}
MemAddrs == {a \in Addrs : a >= MEM_BASE /\ a <= MEM_LIMIT}

wResult(valid, resp, s) ==
  Carried(valid \/ (Ic!S_BVALID /\ w_dest_q = s),
          [addr |-> Head(s_awq), beat |-> Head(s_wq),
           resp |-> IF valid THEN resp ELSE ic_bresp_q])

rResult(valid, data, resp, s) ==
  Carried(valid \/ (Ic!S_RVALID /\ r_dest_q = s),
          [addr |-> Head(s_arq).addr,
           data |-> IF valid THEN data ELSE ic_rdata_q,
           resp |-> IF valid THEN resp ELSE ic_rresp_q])

SysRF == INSTANCE RegFile WITH Addrs <- RegAddrs, bank <- bankView,
           b <- wResult(bvalid_q, bresp_q, DEST_REG),
           r <- rResult(rvalid_q, rdata_q, rresp_q, DEST_REG)
SysMF == INSTANCE MemFile WITH Addrs <- MemAddrs, store <- mem,
           b <- wResult(mem_bvalid_q, mem_bresp_q, DEST_MEM),
           r <- rResult(mem_rvalid_q, mem_rdata_q, mem_rresp_q, DEST_MEM)

(***************************************************************************)
(* Behind the interconnect there are still an atomic register file and an  *)
(* atomic memory: every transaction takes effect at once, in the file that *)
(* owns its address and with the beats the master sent, and its result     *)
(* reaches the master unchanged; no reset ever touches the memory.         *)
(***************************************************************************)
ImplementsFiles == SysRF!Spec /\ SysMF!Spec
=============================================================================
