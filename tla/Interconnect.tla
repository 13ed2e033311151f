---------------------------- MODULE Interconnect ----------------------------
(***************************************************************************)
(* rtl/axi4lite_interconnect.sv, cycle by cycle: one master port, two      *)
(* slave ports.                                                            *)
(*                                                                         *)
(* IcClock(aw, w, bready, ar, rready, m) is one rising edge of ACLK with   *)
(* ARESETn high.  aw, w and ar are what the master drives, <<>> or         *)
(* <<beat>>.  m[s] is what slave s drives: its three READYs, and b and r,  *)
(* which are <<>> while BVALID or RVALID is low and hold the response      *)
(* while it is high.                                                       *)
(***************************************************************************)
EXTENDS AxiLite, Sequences

CONSTANTS REG_LIMIT, MEM_BASE, MEM_LIMIT    \* 0x0FFF, 0x1000, 0x13FF

\* The regions are adjacent; all that is unmapped lies above them.
ASSUME MapAssumption ==
  /\ REG_LIMIT \in Nat /\ MEM_BASE \in Nat /\ MEM_LIMIT \in Nat
  /\ MEM_BASE = REG_LIMIT + 1 /\ MEM_BASE <= MEM_LIMIT

DEST_REG == "DEST_REG"
DEST_MEM == "DEST_MEM"
DEST_ERR == "DEST_ERR"
Slaves == {DEST_REG, DEST_MEM}
Dests  == Slaves \cup {DEST_ERR}

\* Mutant: one bound is compared, so the gap above the memory reaches it.
decode_BitTest(a) == IF a <= REG_LIMIT THEN DEST_REG ELSE DEST_MEM

decode(a) ==
  IF a <= REG_LIMIT THEN DEST_REG
  ELSE IF a >= MEM_BASE /\ a <= MEM_LIMIT THEN DEST_MEM
  ELSE DEST_ERR

VARIABLES
  wstate, aw_held, w_held,        \* the write path; a half of a write is held
  aw_addr_q, w_data_q, w_strb_q, w_dest_q, bresp_q,
  aw_sent, w_sent,                \* the slave has accepted that half
  rstate, ar_addr_q, r_dest_q, rdata_q, rresp_q    \* the read path

writePath == <<wstate, aw_held, w_held, aw_addr_q, w_data_q, w_strb_q,
               w_dest_q, bresp_q, aw_sent, w_sent>>
readPath  == <<rstate, ar_addr_q, r_dest_q, rdata_q, rresp_q>>
icVars    == <<writePath, readPath>>

W_COLLECT == "W_COLLECT"
W_FWD     == "W_FWD"
W_WAIT_B  == "W_WAIT_B"
W_RESP    == "W_RESP"
R_IDLE    == "R_IDLE"
R_FWD     == "R_FWD"
R_WAIT_R  == "R_WAIT_R"
R_RESP    == "R_RESP"

IcTypeOK ==
  /\ wstate \in {W_COLLECT, W_FWD, W_WAIT_B, W_RESP}
  /\ aw_held \in BOOLEAN /\ w_held \in BOOLEAN
  /\ aw_addr_q \in Nat /\ w_data_q \in Word /\ w_strb_q \in Strobe
  /\ w_dest_q \in Dests /\ bresp_q \in {OKAY, SLVERR, DECERR}
  /\ aw_sent \in BOOLEAN /\ w_sent \in BOOLEAN
  /\ rstate \in {R_IDLE, R_FWD, R_WAIT_R, R_RESP}
  /\ ar_addr_q \in Nat /\ r_dest_q \in Dests
  /\ rdata_q \in Word /\ rresp_q \in {OKAY, SLVERR, DECERR}

(***************************************************************************)
(* The master port.                                                        *)
(***************************************************************************)
S_AWREADY == wstate = W_COLLECT /\ ~aw_held
S_WREADY  == wstate = W_COLLECT /\ ~w_held
\* Mutant: a read waits for the write path.
S_ARREADY_AfterWrite == rstate = R_IDLE /\ wstate = W_COLLECT

S_ARREADY == rstate = R_IDLE
S_BVALID  == wstate = W_RESP
S_RVALID  == rstate = R_RESP

s_aw_hs(aw) == aw # <<>> /\ S_AWREADY
s_w_hs(w)   == w # <<>> /\ S_WREADY
s_ar_hs(ar) == ar # <<>> /\ S_ARREADY

(***************************************************************************)
(* The slave ports: payloads come from the latches, VALIDs are steered.    *)
(***************************************************************************)
M_AWVALID(s) == wstate = W_FWD /\ w_dest_q = s /\ ~aw_sent

\* Mutant: the data is held back until the slave has the address.
M_WVALID_AfterAddress(s) == wstate = W_FWD /\ w_dest_q = s /\ aw_sent /\ ~w_sent

M_WVALID(s)  == wstate = W_FWD /\ w_dest_q = s /\ ~w_sent
M_BREADY(s)  == wstate = W_WAIT_B /\ w_dest_q = s
M_ARVALID(s) == rstate = R_FWD /\ r_dest_q = s
M_RREADY(s)  == rstate = R_WAIT_R /\ r_dest_q = s

m_aw_hs(m) == \E s \in Slaves : M_AWVALID(s) /\ m[s].awready
m_w_hs(m)  == \E s \in Slaves : M_WVALID(s) /\ m[s].wready
m_b_hs(m)  == \E s \in Slaves : M_BREADY(s) /\ m[s].b # <<>>
m_ar_hs(m) == \E s \in Slaves : M_ARVALID(s) /\ m[s].arready
m_r_hs(m)  == \E s \in Slaves : M_RREADY(s) /\ m[s].r # <<>>

\* The response collapse.  The write side and the read side select apart.
\* Mutant: the write response is selected by the read destination.
m_bresp_ReadSelect(m) ==
  LET s == IF r_dest_q = DEST_MEM THEN DEST_MEM ELSE DEST_REG
  IN  IF m[s].b = <<>> THEN OKAY ELSE Head(m[s].b)

m_bresp(m) == Head(m[IF w_dest_q = DEST_MEM THEN DEST_MEM ELSE DEST_REG].b)
m_r(m)     == Head(m[IF r_dest_q = DEST_MEM THEN DEST_MEM ELSE DEST_REG].r)

(***************************************************************************)
(* The write path.  The half accepted on this edge is still on the bus.    *)
(***************************************************************************)
aw_addr_now(aw)   == IF aw_held THEN aw_addr_q ELSE Head(aw)
w_both_now(aw, w) == (aw_held \/ s_aw_hs(aw)) /\ (w_held \/ s_w_hs(w))

\* Mutant: a latch is open whenever the master offers something.
WriteLatches_Unready(aw, w) ==
  /\ aw_addr_q' = IF aw # <<>> THEN Head(aw) ELSE aw_addr_q
  /\ w_data_q'  = IF w # <<>> THEN Head(w).data ELSE w_data_q
  /\ w_strb_q'  = IF w # <<>> THEN Head(w).strb ELSE w_strb_q

WriteLatches(aw, w) ==
  /\ aw_addr_q' = IF s_aw_hs(aw) THEN Head(aw) ELSE aw_addr_q
  /\ w_data_q'  = IF s_w_hs(w) THEN Head(w).data ELSE w_data_q
  /\ w_strb_q'  = IF s_w_hs(w) THEN Head(w).strb ELSE w_strb_q

KeepHalves(aw, w) ==
  aw_held' = (aw_held \/ s_aw_hs(aw)) /\ w_held' = (w_held \/ s_w_hs(w))

Collect(aw, w) ==
  /\ wstate = W_COLLECT
  /\ KeepHalves(aw, w)
  /\ IF ~w_both_now(aw, w) THEN UNCHANGED <<wstate, w_dest_q>>
     ELSE /\ w_dest_q' = decode(aw_addr_now(aw))
          /\ wstate' = IF w_dest_q' = DEST_ERR THEN W_RESP ELSE W_FWD
  /\ bresp_q' = IF wstate' = W_RESP THEN DECERR ELSE bresp_q
  /\ aw_sent' = (aw_sent /\ wstate' # W_FWD)
  /\ w_sent'  = (w_sent /\ wstate' # W_FWD)

\* Mutant: the state is left as soon as the address is accepted.
Forward_AddressOnly(aw, w, m) ==
  /\ wstate = W_FWD
  /\ KeepHalves(aw, w)
  /\ aw_sent' = (aw_sent \/ m_aw_hs(m))
  /\ w_sent'  = (w_sent \/ m_w_hs(m))
  /\ wstate'  = IF aw_sent' THEN W_WAIT_B ELSE W_FWD
  /\ UNCHANGED <<w_dest_q, bresp_q>>

Forward(aw, w, m) ==
  /\ wstate = W_FWD
  /\ KeepHalves(aw, w)
  /\ aw_sent' = (aw_sent \/ m_aw_hs(m))
  /\ w_sent'  = (w_sent \/ m_w_hs(m))
  /\ wstate'  = IF aw_sent' /\ w_sent' THEN W_WAIT_B ELSE W_FWD
  /\ UNCHANGED <<w_dest_q, bresp_q>>

WaitB(aw, w, m) ==
  /\ wstate = W_WAIT_B
  /\ KeepHalves(aw, w)
  /\ wstate'  = IF m_b_hs(m) THEN W_RESP ELSE W_WAIT_B
  /\ bresp_q' = IF m_b_hs(m) THEN m_bresp(m) ELSE bresp_q
  /\ UNCHANGED <<w_dest_q, aw_sent, w_sent>>

Respond(bready) ==
  /\ wstate = W_RESP
  /\ IF bready THEN wstate' = W_COLLECT /\ aw_held' = FALSE /\ w_held' = FALSE
               ELSE UNCHANGED <<wstate, aw_held, w_held>>
  /\ UNCHANGED <<w_dest_q, bresp_q, aw_sent, w_sent>>

WritePath(aw, w, bready, m) ==
  /\ WriteLatches(aw, w)
  /\ \/ Collect(aw, w)
     \/ Forward(aw, w, m)
     \/ WaitB(aw, w, m)
     \/ Respond(bready)

(***************************************************************************)
(* The read path: the same without the two halves.                         *)
(***************************************************************************)
Idle(ar) ==
  /\ rstate = R_IDLE
  /\ IF ~s_ar_hs(ar) THEN UNCHANGED readPath
     ELSE /\ ar_addr_q' = Head(ar)
          /\ r_dest_q' = decode(Head(ar))
          /\ IF r_dest_q' = DEST_ERR
               THEN rstate' = R_RESP /\ rdata_q' = {} /\ rresp_q' = DECERR
               ELSE rstate' = R_FWD /\ UNCHANGED <<rdata_q, rresp_q>>

ForwardRead(m) ==
  /\ rstate = R_FWD
  /\ rstate' = IF m_ar_hs(m) THEN R_WAIT_R ELSE R_FWD
  /\ UNCHANGED <<ar_addr_q, r_dest_q, rdata_q, rresp_q>>

\* Mutant: the data of a read that a slave rejected is not passed on, and
\* neither is the rejection.
WaitR_DropsError(m) ==
  /\ rstate = R_WAIT_R
  /\ IF m_r_hs(m)
       THEN rstate' = R_RESP /\ rdata_q' = m_r(m).data /\ rresp_q' = OKAY
       ELSE UNCHANGED <<rstate, rdata_q, rresp_q>>
  /\ UNCHANGED <<ar_addr_q, r_dest_q>>

WaitR(m) ==
  /\ rstate = R_WAIT_R
  /\ IF m_r_hs(m)
       THEN rstate' = R_RESP /\ rdata_q' = m_r(m).data /\ rresp_q' = m_r(m).resp
       ELSE UNCHANGED <<rstate, rdata_q, rresp_q>>
  /\ UNCHANGED <<ar_addr_q, r_dest_q>>

RespondRead(rready) ==
  /\ rstate = R_RESP
  /\ rstate' = IF rready THEN R_IDLE ELSE R_RESP
  /\ UNCHANGED <<ar_addr_q, r_dest_q, rdata_q, rresp_q>>

ReadPath(ar, rready, m) ==
  Idle(ar) \/ ForwardRead(m) \/ WaitR(m) \/ RespondRead(rready)

IcClock(aw, w, bready, ar, rready, m) ==
  WritePath(aw, w, bready, m) /\ ReadPath(ar, rready, m)

(***************************************************************************)
(* The values the asynchronous reset forces.                               *)
(***************************************************************************)
IcInReset ==
  /\ wstate = W_COLLECT /\ aw_held = FALSE /\ w_held = FALSE
  /\ aw_addr_q = 0 /\ w_data_q = {} /\ w_strb_q = {}
  /\ w_dest_q = DEST_REG /\ bresp_q = OKAY
  /\ aw_sent = FALSE /\ w_sent = FALSE
  /\ rstate = R_IDLE /\ ar_addr_q = 0 /\ r_dest_q = DEST_REG
  /\ rdata_q = {} /\ rresp_q = OKAY

IcReset ==
  /\ wstate' = W_COLLECT /\ aw_held' = FALSE /\ w_held' = FALSE
  /\ aw_addr_q' = 0 /\ w_data_q' = {} /\ w_strb_q' = {}
  /\ w_dest_q' = DEST_REG /\ bresp_q' = OKAY
  /\ aw_sent' = FALSE /\ w_sent' = FALSE
  /\ rstate' = R_IDLE /\ ar_addr_q' = 0 /\ r_dest_q' = DEST_REG
  /\ rdata_q' = {} /\ rresp_q' = OKAY
=============================================================================
