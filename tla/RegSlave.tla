------------------------------ MODULE RegSlave ------------------------------
(***************************************************************************)
(* rtl/axi4lite_reg_slave.sv, cycle by cycle.                              *)
(*                                                                         *)
(* SlaveClock(aw, w, bready, ar, rready) is one rising edge of ACLK with   *)
(* ARESETn high: every always_ff block of the module fires at once, each   *)
(* reading the values from before the edge.  The arguments are what the    *)
(* master drives during the cycle: aw, w and ar are <<>> when the VALID of *)
(* that channel is low and <<beat>> when it is high, so that Head(aw) is   *)
(* the payload on the bus.                                                 *)
(***************************************************************************)
EXTENDS RegMap, Sequences

VARIABLES
  aw_captured, w_captured,        \* an unmatched half is held
  awaddr_q, wdata_q, wstrb_q,     \* the latches behind those two flags
  bvalid_q, bresp_q,              \* the write response
  rvalid_q, rresp_q, rdata_q,     \* the read response
  ctrl_enable, config_q, int_enable_q, int_status_q, scratch_q, counter_q,
  status_error                    \* the register bank

channelVars == <<aw_captured, w_captured, awaddr_q, wdata_q, wstrb_q,
                 bvalid_q, bresp_q, rvalid_q, rresp_q, rdata_q>>
bankVars    == <<ctrl_enable, config_q, int_enable_q, int_status_q,
                 scratch_q, counter_q, status_error>>
slaveVars   == <<channelVars, bankVars>>

SlaveTypeOK ==
  /\ aw_captured \in BOOLEAN /\ w_captured \in BOOLEAN
  /\ awaddr_q \in Nat /\ wdata_q \in Word /\ wstrb_q \in Strobe
  /\ bvalid_q \in BOOLEAN /\ bresp_q \in {OKAY, SLVERR}
  /\ rvalid_q \in BOOLEAN /\ rresp_q \in {OKAY, SLVERR} /\ rdata_q \in Word
  /\ ctrl_enable \in BOOLEAN
  /\ config_q \in SUBSET Bits(CONFIG_W)
  /\ int_enable_q \in SUBSET Bits(INT_W) /\ int_status_q \in SUBSET Bits(INT_W)
  /\ scratch_q \in Word
  /\ counter_q \in SUBSET Bits(COUNTER_W)
  /\ status_error \in BOOLEAN

(***************************************************************************)
(* Handshakes.                                                             *)
(***************************************************************************)
\* Mutant: AWREADY forgets the response still waiting for BREADY.
AWREADY_NoResponseGate == ~aw_captured

AWREADY == ~aw_captured /\ ~bvalid_q
WREADY  == ~w_captured /\ ~bvalid_q
ARREADY == ~rvalid_q

aw_hs(aw) == aw # <<>> /\ AWREADY
w_hs(w)   == w # <<>> /\ WREADY
ar_hs(ar) == ar # <<>> /\ ARREADY

(***************************************************************************)
(* Write commit, on the edge that accepts the later half.  The payload of  *)
(* a half accepted on this very edge is still on the bus, not in its latch.*)
(***************************************************************************)
\* Mutant: the halves are only matched when they arrive together.
do_write_Lockstep(aw, w) == aw_hs(aw) /\ w_hs(w) /\ ~bvalid_q

do_write(aw, w) == /\ aw_captured \/ aw_hs(aw)
                   /\ w_captured \/ w_hs(w)
                   /\ ~bvalid_q

\* Mutants: no bypass, the write uses whatever the latch holds.
wr_addr_Stale(aw) == awaddr_q
wr_data_Stale(w)  == wdata_q

wr_addr(aw) == IF aw_captured THEN awaddr_q ELSE Head(aw)
wr_data(w)  == IF w_captured THEN wdata_q ELSE Head(w).data
wr_strb(w)  == IF w_captured THEN wstrb_q ELSE Head(w).strb

wr_error(aw, w)  == WriteError(wr_addr(aw), wr_strb(w))
\* Mutant: an error no longer keeps the write out of the bank.
reg_write_Unguarded(aw, w) == do_write(aw, w)

reg_write(aw, w) == do_write(aw, w) /\ wr_error(aw, w) = {}
writes(aw, w, r) == reg_write(aw, w) /\ Index(wr_addr(aw)) = r

reset_stats_pulse(aw, w) ==
  writes(aw, w, R_CTRL) /\ CTRL_RESET_STATS \in wr_data(w)
w1c_write(aw, w) == writes(aw, w, R_INT_STATUS)

(***************************************************************************)
(* INT_STATUS events of the edge, from both paths.                         *)
(***************************************************************************)
\* Mutant: a reset_stats write on the wrap edge still reports an overflow.
ev_overflow_Despite_reset(aw, w) == ctrl_enable /\ counter_q = Bits(COUNTER_W)

ev_overflow(aw, w) ==
  /\ ctrl_enable
  /\ ~reset_stats_pulse(aw, w)
  /\ counter_q = Bits(COUNTER_W)

\* Mutants: the read path shadows the write path; the address alone raises the
\* event, before the write commits.
int_set_ReadFirst(aw, w, ar) ==
  IF ar_hs(ar) /\ ReadError(Head(ar)) # {} THEN ReadError(Head(ar))
  ELSE IF do_write(aw, w) THEN wr_error(aw, w) ELSE {}

int_set_AtAccept(aw, w, ar) ==
  IF aw_hs(aw) THEN ReadError(Head(aw)) ELSE {}

int_set(aw, w, ar) ==
  (IF do_write(aw, w) THEN wr_error(aw, w) ELSE {})
    \cup (IF ar_hs(ar) THEN ReadError(Head(ar)) ELSE {})
    \cup (IF ev_overflow(aw, w) THEN {OVERFLOW} ELSE {})

\* Mutant: busy drops when the response appears, not when it is taken.
busy_UntilResponse == aw_captured \/ w_captured

busy == aw_captured \/ w_captured \/ bvalid_q

(***************************************************************************)
(* The read mux, from the state before the edge.  CTRL.reset_stats reads 0.*)
(***************************************************************************)
rd_mux(r) ==
  CASE r = R_CTRL       -> IF ctrl_enable THEN {CTRL_ENABLE} ELSE {}
    [] r = R_STATUS     -> (IF busy THEN {STATUS_BUSY} ELSE {})
                             \cup (IF status_error THEN {STATUS_ERROR} ELSE {})
    [] r = R_CONFIG     -> config_q
    [] r = R_INT_ENABLE -> int_enable_q
    [] r = R_INT_STATUS -> int_status_q
    [] r = R_SCRATCH    -> scratch_q
    [] r = R_COUNTER    -> counter_q
    [] r = R_ID         -> ID_RESET

(***************************************************************************)
(* The always_ff blocks.                                                   *)
(***************************************************************************)
WriteChannel(aw, w, bready) ==
  /\ awaddr_q' = IF aw_hs(aw) THEN Head(aw) ELSE awaddr_q
  /\ wdata_q'  = IF w_hs(w) THEN Head(w).data ELSE wdata_q
  /\ wstrb_q'  = IF w_hs(w) THEN Head(w).strb ELSE wstrb_q
  /\ aw_captured' = (~do_write(aw, w) /\ (aw_captured \/ aw_hs(aw)))
  /\ w_captured'  = (~do_write(aw, w) /\ (w_captured \/ w_hs(w)))
  /\ bvalid_q' = (do_write(aw, w) \/ (bvalid_q /\ ~bready))
  /\ bresp_q'  = IF do_write(aw, w) THEN Resp(wr_error(aw, w)) ELSE bresp_q

\* Mutant: an erroneous read returns the register.
ReadChannel_LeaksData(ar, rready) ==
  /\ rvalid_q' = (ar_hs(ar) \/ (rvalid_q /\ ~rready))
  /\ rresp_q'  = IF ar_hs(ar) THEN Resp(ReadError(Head(ar))) ELSE rresp_q
  /\ rdata_q'  = IF ar_hs(ar) THEN rd_mux(Index(Head(ar))) ELSE rdata_q

ReadChannel(ar, rready) ==
  /\ rvalid_q' = (ar_hs(ar) \/ (rvalid_q /\ ~rready))
  /\ rresp_q'  = IF ar_hs(ar) THEN Resp(ReadError(Head(ar))) ELSE rresp_q
  /\ rdata_q'  = IF ~ar_hs(ar) THEN rdata_q
                 ELSE IF ReadError(Head(ar)) # {} THEN {}
                 ELSE rd_mux(Index(Head(ar)))

RegisterBank(aw, w) ==
  /\ ctrl_enable' = IF writes(aw, w, R_CTRL)
                      THEN CTRL_ENABLE \in wr_data(w) ELSE ctrl_enable
  /\ config_q' = IF writes(aw, w, R_CONFIG)
                   THEN wr_data(w) \cap Bits(CONFIG_W) ELSE config_q
  /\ int_enable_q' = IF writes(aw, w, R_INT_ENABLE)
                       THEN wr_data(w) \cap Bits(INT_W) ELSE int_enable_q
  /\ scratch_q' = IF writes(aw, w, R_SCRATCH) THEN wr_data(w) ELSE scratch_q

\* Adding one flips exactly the bits all of whose lower bits are 1, and wraps.
Increment(c) ==
  {i \in Bits(COUNTER_W) : (i \in c) # (\A j \in Bits(i) : j \in c)}

\* Mutant: the increment beats reset_stats.
Counter_IncrementFirst(aw, w) ==
  counter_q' = IF ctrl_enable THEN Increment(counter_q)
               ELSE counter_q

Counter(aw, w) ==
  counter_q' = IF reset_stats_pulse(aw, w) THEN {}
               ELSE IF ctrl_enable THEN Increment(counter_q)
               ELSE counter_q

\* Mutant: the clear beats the set.
IntStatus_ClearFirst(aw, w, ar) ==
  int_status_q' = (int_status_q \cup int_set(aw, w, ar))
                    \ (IF w1c_write(aw, w) THEN wr_data(w) ELSE {})

IntStatus(aw, w, ar) ==
  int_status_q' =
    (int_status_q \ (IF w1c_write(aw, w) THEN wr_data(w) ELSE {}))
      \cup int_set(aw, w, ar)

\* Mutant: a read of STATUS clears the error it reports.
StatusError_NotTransparent(aw, w, ar) ==
  status_error' = IF do_write(aw, w) THEN wr_error(aw, w) # {}
                  ELSE IF ar_hs(ar) THEN ReadError(Head(ar)) # {}
                  ELSE status_error

StatusError(aw, w, ar) ==
  status_error' =
    IF do_write(aw, w) THEN wr_error(aw, w) # {}
    ELSE IF ar_hs(ar)
            /\ ~(ReadError(Head(ar)) = {} /\ Index(Head(ar)) = R_STATUS)
      THEN ReadError(Head(ar)) # {}
    ELSE status_error

SlaveClock(aw, w, bready, ar, rready) ==
  /\ WriteChannel(aw, w, bready)
  /\ ReadChannel(ar, rready)
  /\ RegisterBank(aw, w)
  /\ Counter(aw, w)
  /\ IntStatus(aw, w, ar)
  /\ StatusError(aw, w, ar)

(***************************************************************************)
(* The values the asynchronous reset forces.                               *)
(***************************************************************************)
SlaveInReset ==
  /\ aw_captured = FALSE /\ w_captured = FALSE
  /\ awaddr_q = 0 /\ wdata_q = {} /\ wstrb_q = {}
  /\ bvalid_q = FALSE /\ bresp_q = OKAY
  /\ rvalid_q = FALSE /\ rresp_q = OKAY /\ rdata_q = {}
  /\ ctrl_enable = FALSE /\ config_q = CONFIG_RESET
  /\ int_enable_q = {} /\ int_status_q = {} /\ scratch_q = {}
  /\ counter_q = {} /\ status_error = FALSE

SlaveReset ==
  /\ aw_captured' = FALSE /\ w_captured' = FALSE
  /\ awaddr_q' = 0 /\ wdata_q' = {} /\ wstrb_q' = {}
  /\ bvalid_q' = FALSE /\ bresp_q' = OKAY
  /\ rvalid_q' = FALSE /\ rresp_q' = OKAY /\ rdata_q' = {}
  /\ ctrl_enable' = FALSE /\ config_q' = CONFIG_RESET
  /\ int_enable_q' = {} /\ int_status_q' = {} /\ scratch_q' = {}
  /\ counter_q' = {} /\ status_error' = FALSE
=============================================================================
