------------------------------ MODULE MemSlave ------------------------------
(***************************************************************************)
(* rtl/axi4lite_mem_slave.sv, cycle by cycle, in the style of module       *)
(* RegSlave: MemClock is one rising edge of ACLK with ARESETn high.        *)
(*                                                                         *)
(* The array has no reset value and no reset branch.  What it holds at     *)
(* power-up is unknown, so Init leaves it open.                            *)
(***************************************************************************)
EXTENDS AxiLite, Sequences

CONSTANT NUM_WORDS    \* words of the array (256)

ASSUME MemAssumption ==
  /\ DATA_WIDTH \in Nat /\ STRB_WIDTH \in Nat \ {0}
  /\ NUM_WORDS \in Nat \ {0}

VARIABLES
  aw_captured, w_captured,        \* an unmatched half is held
  awaddr_q, wdata_q, wstrb_q,     \* the latches behind those two flags
  bvalid_q, bresp_q,              \* the write response
  rvalid_q, rresp_q, rdata_q,     \* the read response
  mem                             \* the array

memChannelVars == <<aw_captured, w_captured, awaddr_q, wdata_q, wstrb_q,
                    bvalid_q, bresp_q, rvalid_q, rresp_q, rdata_q>>
memVars == <<memChannelVars, mem>>

MemTypeOK ==
  /\ aw_captured \in BOOLEAN /\ w_captured \in BOOLEAN
  /\ awaddr_q \in Nat /\ wdata_q \in Word /\ wstrb_q \in Strobe
  /\ bvalid_q \in BOOLEAN /\ bresp_q \in {OKAY, SLVERR}
  /\ rvalid_q \in BOOLEAN /\ rresp_q \in {OKAY, SLVERR} /\ rdata_q \in Word
  /\ mem \in [Bits(NUM_WORDS) -> Word]

(***************************************************************************)
(* Handshakes, commit and bypass: the shape of the register slave.         *)
(***************************************************************************)
AWREADY == ~aw_captured /\ ~bvalid_q
WREADY  == ~w_captured /\ ~bvalid_q
\* Mutant: a read is accepted over the response still waiting for RREADY.
ARREADY_Always == TRUE

ARREADY == ~rvalid_q

aw_hs(aw) == aw # <<>> /\ AWREADY
w_hs(w)   == w # <<>> /\ WREADY
ar_hs(ar) == ar # <<>> /\ ARREADY

do_write(aw, w) == /\ aw_captured \/ aw_hs(aw)
                   /\ w_captured \/ w_hs(w)
                   /\ ~bvalid_q

\* Mutant: the write always uses the latched address.
wr_addr_Stale(aw) == awaddr_q

wr_addr(aw) == IF aw_captured THEN awaddr_q ELSE Head(aw)
wr_data(w)  == IF w_captured THEN wdata_q ELSE Head(w).data
wr_strb(w)  == IF w_captured THEN wstrb_q ELSE Head(w).strb

(***************************************************************************)
(* Decode.  Misalignment is the only error; the bits of the address above  *)
(* the array are not looked at.                                            *)
(***************************************************************************)
word(addr)    == (addr \div 4) % NUM_WORDS
MemResp(addr) == IF Misaligned(addr) THEN SLVERR ELSE OKAY

mem_write(aw, w) == do_write(aw, w) /\ ~Misaligned(wr_addr(aw))

(***************************************************************************)
(* Byte-lane masking: bit i of a word belongs to lane i \div (bits per     *)
(* lane), and only the bits of strobed lanes are replaced.                 *)
(***************************************************************************)
lane_bits(strb) ==
  {i \in Bits(DATA_WIDTH) : (i * STRB_WIDTH) \div DATA_WIDTH \in strb}

\* Mutant: the whole word is replaced whatever the strobe.
masked_WholeWord(old, data, strb) == data

masked(old, data, strb) ==
  (old \ lane_bits(strb)) \cup (data \cap lane_bits(strb))

WriteChannel(aw, w, bready) ==
  /\ awaddr_q' = IF aw_hs(aw) THEN Head(aw) ELSE awaddr_q
  /\ wdata_q'  = IF w_hs(w) THEN Head(w).data ELSE wdata_q
  /\ wstrb_q'  = IF w_hs(w) THEN Head(w).strb ELSE wstrb_q
  /\ aw_captured' = (~do_write(aw, w) /\ (aw_captured \/ aw_hs(aw)))
  /\ w_captured'  = (~do_write(aw, w) /\ (w_captured \/ w_hs(w)))
  /\ bvalid_q' = (do_write(aw, w) \/ (bvalid_q /\ ~bready))
  /\ bresp_q'  = IF do_write(aw, w) THEN MemResp(wr_addr(aw)) ELSE bresp_q

MemArray(aw, w) ==
  mem' = IF mem_write(aw, w)
           THEN [mem EXCEPT ![word(wr_addr(aw))] =
                               masked(@, wr_data(w), wr_strb(w))]
           ELSE mem

ReadChannel(ar, rready) ==
  /\ rvalid_q' = (ar_hs(ar) \/ (rvalid_q /\ ~rready))
  /\ rresp_q'  = IF ar_hs(ar) THEN MemResp(Head(ar)) ELSE rresp_q
  /\ rdata_q'  = IF ~ar_hs(ar) THEN rdata_q
                 ELSE IF Misaligned(Head(ar)) THEN {}
                 ELSE mem[word(Head(ar))]

MemClock(aw, w, bready, ar, rready) ==
  WriteChannel(aw, w, bready) /\ MemArray(aw, w) /\ ReadChannel(ar, rready)

(***************************************************************************)
(* The asynchronous reset clears the channels and not the array.           *)
(***************************************************************************)
ChannelsInReset ==
  /\ aw_captured = FALSE /\ w_captured = FALSE
  /\ awaddr_q = 0 /\ wdata_q = {} /\ wstrb_q = {}
  /\ bvalid_q = FALSE /\ bresp_q = OKAY
  /\ rvalid_q = FALSE /\ rresp_q = OKAY /\ rdata_q = {}

MemInReset == ChannelsInReset /\ mem \in [Bits(NUM_WORDS) -> Word]

\* Mutant: reset clears the array.
MemReset_Clears ==
  /\ aw_captured' = FALSE /\ w_captured' = FALSE
  /\ awaddr_q' = 0 /\ wdata_q' = {} /\ wstrb_q' = {}
  /\ bvalid_q' = FALSE /\ bresp_q' = OKAY
  /\ rvalid_q' = FALSE /\ rresp_q' = OKAY /\ rdata_q' = {}
  /\ mem' = [i \in Bits(NUM_WORDS) |-> {}]

MemReset ==
  /\ aw_captured' = FALSE /\ w_captured' = FALSE
  /\ awaddr_q' = 0 /\ wdata_q' = {} /\ wstrb_q' = {}
  /\ bvalid_q' = FALSE /\ bresp_q' = OKAY
  /\ rvalid_q' = FALSE /\ rresp_q' = OKAY /\ rdata_q' = {}
  /\ mem' = mem
=============================================================================
