--------------------------- MODULE RegSlaveProofs ---------------------------
(***************************************************************************)
(* Theorems about the register slave on its bus, for every data width,     *)
(* every set of addresses and every set of write beats; last, that it      *)
(* implements the atomic register file.                                    *)
(***************************************************************************)
EXTENDS RegSlaveRefinement, AxiBusProofs

-----------------------------------------------------------------------------
(***************************************************************************)
(* Type correctness of one edge of the slave.                              *)
(***************************************************************************)
LEMMA WordFacts ==
  ASSUME WidthAssumption
  PROVE  /\ Bits(CONFIG_W) \subseteq Bits(DATA_WIDTH)
         /\ Bits(INT_W) \subseteq Bits(DATA_WIDTH)
         /\ Bits(COUNTER_W) \subseteq Bits(DATA_WIDTH)
         /\ UNIMPL \in Bits(INT_W) /\ MISALIGN \in Bits(INT_W)
         /\ STROBE \in Bits(INT_W) /\ OVERFLOW \in Bits(INT_W)
         /\ CTRL_ENABLE \in Bits(DATA_WIDTH)
         /\ STATUS_BUSY \in Bits(DATA_WIDTH) /\ STATUS_ERROR \in Bits(DATA_WIDTH)
  BY SMT DEF WidthAssumption, Bits, INT_W, UNIMPL, MISALIGN, STROBE, OVERFLOW,
             CTRL_ENABLE, STATUS_BUSY, STATUS_ERROR

LEMMA ErrorsAreEvents ==
  ASSUME WidthAssumption, NEW a, NEW s
  PROVE  /\ ReadError(a) \subseteq Bits(INT_W)
         /\ WriteError(a, s) \subseteq Bits(INT_W)
         /\ Resp(ReadError(a)) \in {OKAY, SLVERR}
         /\ Resp(WriteError(a, s)) \in {OKAY, SLVERR}
  BY WordFacts DEF ReadError, WriteError, Resp

LEMMA MuxType ==
  ASSUME WidthAssumption, SlaveTypeOK, NEW a \in Nat
  PROVE  rd_mux(Index(a)) \in Word
  <1> DEFINE i == Index(a)
  <1>1. i \in 0 .. 7
    BY SMT DEF Index
  <1>2. i \in {R_CTRL, R_STATUS, R_CONFIG, R_INT_ENABLE, R_INT_STATUS,
               R_SCRATCH, R_COUNTER, R_ID}
    BY <1>1, SMT DEF R_CTRL, R_STATUS, R_CONFIG, R_INT_ENABLE, R_INT_STATUS,
                R_SCRATCH, R_COUNTER, R_ID
  <1> HIDE DEF i
  <1>3. /\ {CTRL_ENABLE} \in Word /\ {STATUS_BUSY} \in Word
        /\ {STATUS_ERROR} \in Word /\ {} \in Word /\ ID_RESET \in Word
        /\ config_q \in Word /\ int_enable_q \in Word /\ int_status_q \in Word
        /\ scratch_q \in Word /\ counter_q \in Word
        /\ \A x, y \in Word : x \cup y \in Word
    BY WordFacts DEF Word, SlaveTypeOK, WidthAssumption
  <1>4. rd_mux(i) \in Word
    BY <1>2, <1>3 DEF rd_mux, R_CTRL, R_STATUS, R_CONFIG, R_INT_ENABLE,
       R_INT_STATUS, R_SCRATCH, R_COUNTER, R_ID
  <1> QED
    BY <1>4 DEF i

LEMMA SlaveTypeStep ==
  ASSUME WidthAssumption, BusAssumption, SlaveTypeOK,
         NEW aw, NEW w, NEW bready, NEW ar, NEW rready,
         Inputs(aw, w, bready, ar, rready),
         SlaveClock(aw, w, bready, ar, rready)
  PROVE  SlaveTypeOK'
  <1>1. /\ aw # <<>> => Head(aw) \in Nat
        /\ w # <<>> => Head(w).data \in Word /\ Head(w).strb \in Strobe
        /\ ar # <<>> => Head(ar) \in Nat
    BY PayloadType DEF Inputs
  <1>2. /\ aw_captured' \in BOOLEAN /\ w_captured' \in BOOLEAN
        /\ bvalid_q' \in BOOLEAN
    BY DEF SlaveClock, WriteChannel
  <1>3. awaddr_q' \in Nat /\ wdata_q' \in Word /\ wstrb_q' \in Strobe
    BY <1>1 DEF SlaveClock, WriteChannel, SlaveTypeOK, aw_hs, w_hs
  <1>4. bresp_q' \in {OKAY, SLVERR}
    BY ErrorsAreEvents DEF SlaveClock, WriteChannel, SlaveTypeOK, wr_error
  <1>5. rvalid_q' \in BOOLEAN /\ rresp_q' \in {OKAY, SLVERR}
    BY ErrorsAreEvents DEF SlaveClock, ReadChannel, SlaveTypeOK
  <1>6. rdata_q' \in Word
    <2>1. {} \in Word
      BY DEF Word
    <2>2. CASE ar_hs(ar)
      BY <1>1, <2>1, <2>2, MuxType DEF SlaveClock, ReadChannel, ar_hs
    <2>3. CASE ~ar_hs(ar)
      BY <2>3 DEF SlaveClock, ReadChannel, SlaveTypeOK
    <2> QED
      BY <2>2, <2>3
  <1>7. do_write(aw, w) => wr_data(w) \in Word
    BY <1>1 DEF do_write, wr_data, w_hs, SlaveTypeOK
  <1>8. ctrl_enable' \in BOOLEAN
    <2>1. ctrl_enable' = IF writes(aw, w, R_CTRL)
                           THEN CTRL_ENABLE \in wr_data(w) ELSE ctrl_enable
      BY DEF SlaveClock, RegisterBank
    <2>2. CASE writes(aw, w, R_CTRL)
      <3>1. ctrl_enable' = (CTRL_ENABLE \in wr_data(w))
        BY <2>1, <2>2, Zenon
      <3> QED
        BY <3>1
    <2>3. CASE ~writes(aw, w, R_CTRL)
      BY <2>1, <2>3, Zenon DEF SlaveTypeOK
    <2> QED
      BY <2>2, <2>3
  <1>9. /\ config_q' \in SUBSET Bits(CONFIG_W)
        /\ int_enable_q' \in SUBSET Bits(INT_W)
    BY DEF SlaveClock, RegisterBank, SlaveTypeOK
  <1>10. scratch_q' \in Word
    BY <1>7 DEF SlaveClock, RegisterBank, SlaveTypeOK, writes, reg_write
  <1>11. int_set(aw, w, ar) \in SUBSET Bits(INT_W)
    BY ErrorsAreEvents, WordFacts DEF int_set, wr_error
  <1>12. int_status_q' \in SUBSET Bits(INT_W)
    BY <1>11 DEF SlaveClock, IntStatus, SlaveTypeOK
  <1>13. counter_q' \in SUBSET Bits(COUNTER_W)
    BY DEF SlaveClock, Counter, SlaveTypeOK, Increment
  <1>14. status_error' \in BOOLEAN
    BY DEF SlaveClock, StatusError, SlaveTypeOK
  <1> QED
    BY <1>2, <1>3, <1>4, <1>5, <1>6, <1>8, <1>9, <1>10, <1>12, <1>13, <1>14
    DEF SlaveTypeOK

-----------------------------------------------------------------------------
(***************************************************************************)
(* One edge keeps each half in step with the queue of accepted beats.      *)
(* There are three cases per channel: a beat is accepted, the response is  *)
(* taken, or neither.                                                      *)
(***************************************************************************)
LEMMA AwStep ==
  ASSUME BusAssumption, SlaveTypeOK, LatchesHoldAccepted,
         NEW aw, NEW w, NEW bready, NEW ar, NEW rready,
         Inputs(aw, w, bready, ar, rready),
         BusClock(aw, w, bready, ar, rready)
  PROVE  awq' = IF aw_captured' \/ bvalid_q' THEN <<awaddr_q'>> ELSE <<>>
  <1>1. /\ awaddr_q' = IF aw_hs(aw) THEN Head(aw) ELSE awaddr_q
        /\ aw_captured' = (~do_write(aw, w) /\ (aw_captured \/ aw_hs(aw)))
        /\ bvalid_q' = (do_write(aw, w) \/ (bvalid_q /\ ~bready))
        /\ awq' = Track(awq, bvalid_q /\ bready, Accepted(aw, aw_hs(aw)))
    BY DEF BusClock, Observe, SlaveClock, WriteChannel
  <1>2. CASE aw_hs(aw)
    <2>1. ~aw_captured /\ ~bvalid_q /\ awq = <<>>
      BY <1>2 DEF aw_hs, AWREADY, LatchesHoldAccepted
    <2>2. aw = <<Head(aw)>>
      BY <1>2, PayloadType DEF aw_hs, Inputs
    <2>3. awq' = <<Head(aw)>>
      BY <1>1, <1>2, <2>1, <2>2, BeatFacts DEF Track, Accepted
    <2> QED
      BY <1>1, <1>2, <2>3
  <1>3. CASE ~aw_hs(aw) /\ bvalid_q /\ bready
    <2>1. ~aw_captured /\ awq = <<awaddr_q>>
      BY <1>3 DEF LatchesHoldAccepted
    <2>2. ~do_write(aw, w)
      BY <1>3 DEF do_write
    <2>3. awq' = <<>>
      BY <1>1, <1>3, <2>1, BeatFacts DEF Track, Accepted
    <2> QED
      BY <1>1, <1>3, <2>1, <2>2, <2>3
  <1>4. CASE ~aw_hs(aw) /\ ~(bvalid_q /\ bready)
    <2>1. awq' = awq
      <3>1. awq' = awq \o <<>>
        BY <1>1, <1>4 DEF Track, Accepted
      <3> QED
        BY <3>1, BeatFacts DEF LatchesHoldAccepted
    <2>2. do_write(aw, w) => aw_captured
      BY <1>4 DEF do_write
    <2> QED
      BY <1>1, <1>4, <2>1, <2>2 DEF LatchesHoldAccepted
  <1> QED
    BY <1>2, <1>3, <1>4

LEMMA WStep ==
  ASSUME BusAssumption, SlaveTypeOK, LatchesHoldAccepted,
         NEW aw, NEW w, NEW bready, NEW ar, NEW rready,
         Inputs(aw, w, bready, ar, rready),
         BusClock(aw, w, bready, ar, rready)
  PROVE  wq' = IF w_captured' \/ bvalid_q'
                 THEN <<[data |-> wdata_q', strb |-> wstrb_q']>> ELSE <<>>
  <1>1. /\ wdata_q' = IF w_hs(w) THEN Head(w).data ELSE wdata_q
        /\ wstrb_q' = IF w_hs(w) THEN Head(w).strb ELSE wstrb_q
        /\ w_captured' = (~do_write(aw, w) /\ (w_captured \/ w_hs(w)))
        /\ bvalid_q' = (do_write(aw, w) \/ (bvalid_q /\ ~bready))
        /\ wq' = Track(wq, bvalid_q /\ bready, Accepted(w, w_hs(w)))
    BY DEF BusClock, Observe, SlaveClock, WriteChannel
  <1>2. CASE w_hs(w)
    <2>1. ~w_captured /\ ~bvalid_q /\ wq = <<>>
      BY <1>2 DEF w_hs, WREADY, LatchesHoldAccepted
    <2>2. /\ w = <<Head(w)>>
          /\ Head(w) = [data |-> Head(w).data, strb |-> Head(w).strb]
      BY <1>2, PayloadType DEF w_hs, Inputs
    <2>3. wq' = <<Head(w)>>
      BY <1>1, <1>2, <2>1, <2>2, BeatFacts DEF Track, Accepted
    <2> QED
      BY <1>1, <1>2, <2>2, <2>3
  <1>3. CASE ~w_hs(w) /\ bvalid_q /\ bready
    <2>1. ~w_captured /\ wq = <<[data |-> wdata_q, strb |-> wstrb_q]>>
      BY <1>3 DEF LatchesHoldAccepted
    <2>2. ~do_write(aw, w)
      BY <1>3 DEF do_write
    <2>3. wq' = <<>>
      BY <1>1, <1>3, <2>1, BeatFacts DEF Track, Accepted
    <2> QED
      BY <1>1, <1>3, <2>1, <2>2, <2>3
  <1>4. CASE ~w_hs(w) /\ ~(bvalid_q /\ bready)
    <2>1. wq' = wq
      <3>1. wq' = wq \o <<>>
        BY <1>1, <1>4 DEF Track, Accepted
      <3> QED
        BY <3>1, BeatFacts DEF LatchesHoldAccepted
    <2>2. do_write(aw, w) => w_captured
      BY <1>4 DEF do_write
    <2> QED
      BY <1>1, <1>4, <2>1, <2>2 DEF LatchesHoldAccepted
  <1> QED
    BY <1>2, <1>3, <1>4

LEMMA LatchStep ==
  ASSUME BusAssumption, SlaveTypeOK, LatchesHoldAccepted,
         NEW aw, NEW w, NEW bready, NEW ar, NEW rready,
         Inputs(aw, w, bready, ar, rready),
         BusClock(aw, w, bready, ar, rready)
  PROVE  LatchesHoldAccepted'
  <1>1. /\ awaddr_q' = IF aw_hs(aw) THEN Head(aw) ELSE awaddr_q
        /\ wstrb_q' = IF w_hs(w) THEN Head(w).strb ELSE wstrb_q
        /\ aw_captured' = (~do_write(aw, w) /\ (aw_captured \/ aw_hs(aw)))
        /\ w_captured' = (~do_write(aw, w) /\ (w_captured \/ w_hs(w)))
        /\ bvalid_q' = (do_write(aw, w) \/ (bvalid_q /\ ~bready))
        /\ bresp_q' = IF do_write(aw, w) THEN Resp(wr_error(aw, w)) ELSE bresp_q
    BY DEF BusClock, Observe, SlaveClock, WriteChannel
  <1>2. ~(aw_captured' /\ w_captured')
    BY <1>1 DEF LatchesHoldAccepted, do_write, aw_hs, w_hs, AWREADY, WREADY
  <1>3. bvalid_q' => ~aw_captured' /\ ~w_captured'
    BY <1>1 DEF LatchesHoldAccepted, do_write, aw_hs, w_hs, AWREADY, WREADY
  <1>4. bvalid_q' => bresp_q' = Resp(WriteError(awaddr_q', wstrb_q'))
    <2>1. CASE do_write(aw, w)
      <3>1. wr_addr(aw) = awaddr_q' /\ wr_strb(w) = wstrb_q'
        BY <1>1, <2>1 DEF wr_addr, wr_strb, do_write, aw_hs, w_hs, AWREADY, WREADY
      <3> QED
        BY <1>1, <2>1, <3>1 DEF wr_error
    <2>2. CASE ~do_write(aw, w) /\ bvalid_q
      <3>1. awaddr_q' = awaddr_q /\ wstrb_q' = wstrb_q
        BY <1>1, <2>2 DEF aw_hs, w_hs, AWREADY, WREADY
      <3> QED
        BY <1>1, <2>2, <3>1 DEF LatchesHoldAccepted
    <2> QED
      BY <1>1, <2>1, <2>2
  <1> QED
    BY <1>2, <1>3, <1>4, AwStep, WStep DEF LatchesHoldAccepted

(***************************************************************************)
(* One edge of the read channel.                                           *)
(***************************************************************************)
LEMMA BusyIsOverlap ==
  ASSUME LatchesHoldAccepted
  PROVE  busy <=> (awq # <<>> \/ wq # <<>>)
  BY BeatFacts DEF LatchesHoldAccepted, busy

LEMMA ReadStep ==
  ASSUME BusAssumption, SlaveTypeOK, LatchesHoldAccepted, ReadResponseEarned,
         arq \in Beats(ArBeats),
         NEW aw, NEW w, NEW bready, NEW ar, NEW rready,
         Inputs(aw, w, bready, ar, rready),
         BusClock(aw, w, bready, ar, rready)
  PROVE  arq' \in Beats(ArBeats) /\ ReadResponseEarned'
  <1>1. /\ rvalid_q' = (ar_hs(ar) \/ (rvalid_q /\ ~rready))
        /\ rresp_q' = IF ar_hs(ar) THEN Resp(ReadError(Head(ar))) ELSE rresp_q
        /\ rdata_q' = IF ~ar_hs(ar) THEN rdata_q
                      ELSE IF ReadError(Head(ar)) # {} THEN {}
                      ELSE rd_mux(Index(Head(ar)))
        /\ arq' = Track(arq, rvalid_q /\ rready, ReadBeat(ar, ar_hs(ar)))
    BY DEF BusClock, Observe, SlaveClock, ReadChannel
  <1>2. CASE ar_hs(ar)
    <2> DEFINE rd == [addr |-> Head(ar), writing |-> awq # <<>> \/ wq # <<>>]
    <2>1. ~rvalid_q /\ arq = <<>>
      BY <1>2 DEF ar_hs, ARREADY, ReadResponseEarned
    <2>2. Head(ar) \in Addrs
      <3>1. PICK a \in Addrs : ar = <<a>>
        BY <1>2 DEF ar_hs, Inputs, Beats
      <3> QED
        BY <3>1, BeatFacts
    <2>3. rd \in ArBeats
      BY <2>2 DEF ArBeats
    <2>4. arq' = <<rd>>
      BY <1>1, <1>2, <2>1, BeatFacts DEF Track, ReadBeat
    <2>5. arq' \in Beats(ArBeats)
      BY <2>3, <2>4 DEF Beats
    <2>6. Head(arq') = rd /\ Len(arq') = 1 /\ arq' # <<>>
      BY <2>4, BeatFacts
    <2>7. rd.addr = Head(ar) /\ (rd.writing <=> busy)
      BY BusyIsOverlap
    <2>8. rresp_q' = Resp(ReadError(rd.addr)) /\ rvalid_q'
      BY <1>1, <1>2, <2>7
    <2>9. ASSUME ReadError(rd.addr) = {}, Index(rd.addr) = R_STATUS
          PROVE  (STATUS_BUSY \in rdata_q') <=> rd.writing
      <3>1. rdata_q' = rd_mux(R_STATUS)
        BY <1>1, <1>2, <2>7, <2>9
      <3>2. rd_mux(R_STATUS) = (IF busy THEN {STATUS_BUSY} ELSE {})
                                 \cup (IF status_error THEN {STATUS_ERROR} ELSE {})
        BY DEF rd_mux, R_CTRL, R_STATUS, R_CONFIG, R_INT_ENABLE, R_INT_STATUS,
               R_SCRATCH, R_COUNTER, R_ID
      <3>3. STATUS_BUSY \in rd_mux(R_STATUS) <=> busy
        BY <3>2 DEF STATUS_BUSY, STATUS_ERROR
      <3> QED
        BY <3>1, <3>3, <2>7
    <2> HIDE DEF rd
    <2> QED
      BY <2>5, <2>6, <2>8, <2>9 DEF ReadResponseEarned, RError, RAddr
  <1>3. CASE ~ar_hs(ar) /\ rvalid_q /\ rready
    <2>1. PICK x \in ArBeats : arq = <<x>>
      BY <1>3 DEF ReadResponseEarned, Beats
    <2>2. arq' = <<>> /\ ~rvalid_q'
      BY <1>1, <1>3, <2>1, BeatFacts DEF Track, ReadBeat
    <2> QED
      BY <2>2, BeatFacts DEF ReadResponseEarned, Beats
  <1>4. CASE ~ar_hs(ar) /\ ~(rvalid_q /\ rready)
    <2>1. arq' = arq \o <<>>
      BY <1>1, <1>4 DEF Track, ReadBeat
    <2>2. arq' = arq
      BY <2>1, BeatFacts DEF Beats
    <2>3. rvalid_q' = rvalid_q /\ rresp_q' = rresp_q /\ rdata_q' = rdata_q
      BY <1>1, <1>4 DEF SlaveTypeOK
    <2> QED
      BY <2>2, <2>3 DEF ReadResponseEarned, RError, RAddr
  <1> QED
    BY <1>2, <1>3, <1>4

-----------------------------------------------------------------------------
(***************************************************************************)
(* The inductive invariant.                                                *)
(***************************************************************************)
IInv == TypeOK /\ LatchesHoldAccepted /\ ReadResponseEarned

LEMMA IInvInit ==
  ASSUME WidthAssumption, BusAssumption, Init
  PROVE  IInv
  <1>1. SlaveTypeOK
    BY DEF Init, SlaveInReset, SlaveTypeOK, Word, Strobe, CONFIG_RESET
  <1>2. TypeOK
    BY <1>1 DEF Init, BusIdle, TypeOK, BusTypeOK, Beats
  <1>3. LatchesHoldAccepted
    BY DEF Init, BusIdle, SlaveInReset, LatchesHoldAccepted
  <1>4. ReadResponseEarned
    BY BeatFacts DEF Init, BusIdle, SlaveInReset, ReadResponseEarned
  <1> QED
    BY <1>2, <1>3, <1>4 DEF IInv

LEMMA IInvReset ==
  ASSUME WidthAssumption, BusAssumption, Reset
  PROVE  IInv'
  <1>1. SlaveTypeOK'
    BY DEF Reset, BusReset, SlaveReset, SlaveTypeOK, Word, Strobe, CONFIG_RESET
  <1>2. TypeOK'
    BY <1>1 DEF Reset, BusReset, TypeOK, BusTypeOK, Beats
  <1>3. LatchesHoldAccepted'
    BY DEF Reset, BusReset, SlaveReset, LatchesHoldAccepted
  <1>4. ReadResponseEarned'
    BY BeatFacts DEF Reset, BusReset, SlaveReset, ReadResponseEarned
  <1> QED
    BY <1>2, <1>3, <1>4 DEF IInv

LEMMA IInvClock ==
  ASSUME WidthAssumption, BusAssumption, IInv,
         NEW aw, NEW w, NEW bready, NEW ar, NEW rready,
         Inputs(aw, w, bready, ar, rready),
         BusClock(aw, w, bready, ar, rready)
  PROVE  IInv'
  <1>1. SlaveTypeOK'
    BY SlaveTypeStep DEF IInv, TypeOK, BusTypeOK, BusClock, Observe
  <1>2. LatchesHoldAccepted'
    BY LatchStep DEF IInv, TypeOK, BusTypeOK
  <1>3. ReadResponseEarned' /\ arq' \in Beats(ArBeats)
    BY ReadStep DEF IInv, TypeOK, BusTypeOK
  <1>4. aw_offered' \in Beats(Addrs) /\ w_offered' \in Beats(WBeats)
        /\ ar_offered' \in Beats(Addrs)
    BY DEF BusClock, Observe, Held, Inputs, Beats
  <1>5. awq' \in Beats(Addrs)
    <2>1. Accepted(aw, aw_hs(aw)) \in Beats(Addrs)
      BY DEF Accepted, Inputs, Beats
    <2>2. /\ bvalid_q /\ bready => awq # <<>>
          /\ Accepted(aw, aw_hs(aw)) # <<>> => awq = <<>>
      BY BeatFacts DEF IInv, LatchesHoldAccepted, Accepted, aw_hs, AWREADY
    <2>3. awq' = Track(awq, bvalid_q /\ bready, Accepted(aw, aw_hs(aw)))
      BY DEF BusClock, Observe
    <2> QED
      BY <2>1, <2>2, <2>3, TrackType DEF IInv, TypeOK, BusTypeOK
  <1>6. wq' \in Beats(WBeats)
    <2>1. Accepted(w, w_hs(w)) \in Beats(WBeats)
      BY DEF Accepted, Inputs, Beats
    <2>2. /\ bvalid_q /\ bready => wq # <<>>
          /\ Accepted(w, w_hs(w)) # <<>> => wq = <<>>
      BY BeatFacts DEF IInv, LatchesHoldAccepted, Accepted, w_hs, WREADY
    <2>3. wq' = Track(wq, bvalid_q /\ bready, Accepted(w, w_hs(w)))
      BY DEF BusClock, Observe
    <2> QED
      BY <2>1, <2>2, <2>3, TrackType DEF IInv, TypeOK, BusTypeOK
  <1> QED
    BY <1>1, <1>2, <1>3, <1>4, <1>5, <1>6 DEF IInv, TypeOK, BusTypeOK

LEMMA IInvStep == WidthAssumption /\ BusAssumption /\ IInv /\ [Next]_vars => IInv'
  <1> SUFFICES ASSUME WidthAssumption, BusAssumption, IInv, [Next]_vars
               PROVE  IInv'
    OBVIOUS
  <1>1. CASE Clock
    <2>1. PICK aw \in Offer(aw_offered, Addrs), w \in Offer(w_offered, WBeats),
               ar \in Offer(ar_offered, Addrs), bready \in BOOLEAN,
               rready \in BOOLEAN : BusClock(aw, w, bready, ar, rready)
      BY <1>1 DEF Clock
    <2>2. Inputs(aw, w, bready, ar, rready)
      BY OfferIsBeat DEF Inputs, IInv, TypeOK, BusTypeOK
    <2> QED
      BY <2>1, <2>2, IInvClock
  <1>2. CASE Reset
    BY <1>2, IInvReset
  <1>3. CASE UNCHANGED vars
    BY <1>3 DEF vars, slaveVars, channelVars, bankVars, busVars, IInv, TypeOK, BusTypeOK,
       SlaveTypeOK, LatchesHoldAccepted, ReadResponseEarned, RAddr, RError
  <1> QED
    BY <1>1, <1>2, <1>3 DEF Next

(***************************************************************************)
(* The slave's flops, the offers on the bus and the queues of accepted     *)
(* beats keep their types: in particular no queue ever holds two beats.    *)
(***************************************************************************)
THEOREM Invariance == Spec => []IInv
  <1>1. Init => IInv
    BY IInvInit, WidthAssumption, BusAssumption
  <1>2. IInv /\ [Next]_vars => IInv'
    BY IInvStep, WidthAssumption, BusAssumption
  <1> QED
    BY <1>1, <1>2, PTL DEF Spec

THEOREM TypeCorrect == Spec => []TypeOK
  <1>1. IInv => TypeOK
    BY DEF IInv
  <1> QED
    BY <1>1, Invariance, PTL

(***************************************************************************)
(* A write is answered exactly when both its halves have been accepted,    *)
(* with the error of the halves that were accepted, and no second write is *)
(* accepted before the answer is taken.                                    *)
(***************************************************************************)
THEOREM WriteResponsesEarned == Spec => []WriteResponseEarned
  <1>1. IInv => WriteResponseEarned
    <2> SUFFICES ASSUME IInv PROVE WriteResponseEarned
      OBVIOUS
    <2>1. Len(awq) <= 1 /\ Len(wq) <= 1
      BY BeatFacts DEF IInv, LatchesHoldAccepted
    <2>2. bvalid_q <=> (awq # <<>> /\ wq # <<>>)
      BY BeatFacts DEF IInv, LatchesHoldAccepted
    <2>3. ASSUME bvalid_q PROVE bresp_q = Resp(WError)
      <3>1. Head(awq) = awaddr_q /\ Head(wq).strb = wstrb_q
        BY <2>3, BeatFacts DEF IInv, LatchesHoldAccepted
      <3> QED
        BY <2>3, <3>1 DEF IInv, LatchesHoldAccepted, WError
    <2> QED
      BY <2>1, <2>2, <2>3 DEF WriteResponseEarned
  <1> QED
    BY <1>1, Invariance, PTL

(***************************************************************************)
(* The same of reads, with the truth of the busy bit.                      *)
(***************************************************************************)
THEOREM ReadResponsesEarned == Spec => []ReadResponseEarned
  <1>1. IInv => ReadResponseEarned
    BY DEF IInv
  <1> QED
    BY <1>1, Invariance, PTL

-----------------------------------------------------------------------------
(***************************************************************************)
(* What one edge of the clock may do to the register bank.  The key is     *)
(* that the payload the slave commits, taken from a latch or from the bus, *)
(* is the payload the bus observer has in its queues after the edge.       *)
(***************************************************************************)
LEMMA WriteCommitFacts ==
  ASSUME BusAssumption, WidthAssumption, IInv,
         NEW aw, NEW w, NEW bready, NEW ar, NEW rready,
         Inputs(aw, w, bready, ar, rready),
         BusClock(aw, w, bready, ar, rready)
  PROVE  /\ Commits <=> do_write(aw, w)
         /\ do_write(aw, w) => /\ WAddr' = wr_addr(aw)
                               /\ WData' = wr_data(w)
                               /\ WError' = wr_error(aw, w)
         /\ bvalid_q /\ bvalid_q' => awq' = awq /\ wq' = wq
  <1>1. /\ awaddr_q' = IF aw_hs(aw) THEN Head(aw) ELSE awaddr_q
        /\ wdata_q' = IF w_hs(w) THEN Head(w).data ELSE wdata_q
        /\ wstrb_q' = IF w_hs(w) THEN Head(w).strb ELSE wstrb_q
        /\ bvalid_q' = (do_write(aw, w) \/ (bvalid_q /\ ~bready))
    BY DEF BusClock, Observe, SlaveClock, WriteChannel
  <1>2. LatchesHoldAccepted'
    BY LatchStep DEF IInv, TypeOK, BusTypeOK
  <1>3. Commits <=> do_write(aw, w)
    BY <1>1 DEF Commits, do_write
  <1>4. ASSUME do_write(aw, w)
        PROVE  /\ WAddr' = wr_addr(aw)
               /\ WData' = wr_data(w)
               /\ WError' = wr_error(aw, w)
    <2>1. /\ awaddr_q' = wr_addr(aw) /\ wdata_q' = wr_data(w)
          /\ wstrb_q' = wr_strb(w)
      BY <1>1, <1>4 DEF do_write, wr_addr, wr_data, wr_strb, aw_hs, w_hs,
         AWREADY, WREADY
    <2>2. /\ awq' = <<wr_addr(aw)>>
          /\ wq' = <<[data |-> wr_data(w), strb |-> wr_strb(w)]>>
      BY <1>1, <1>2, <1>4, <2>1 DEF LatchesHoldAccepted
    <2>3. /\ Head(awq') = wr_addr(aw) /\ Head(wq').data = wr_data(w)
          /\ Head(wq').strb = wr_strb(w)
      BY <2>2, BeatFacts
    <2> QED
      BY <2>3 DEF WAddr, WData, WError, wr_error
  <1>5. ASSUME bvalid_q, bvalid_q' PROVE awq' = awq /\ wq' = wq
    <2>1. ~aw_hs(aw) /\ ~w_hs(w) /\ ~do_write(aw, w)
      BY <1>5 DEF aw_hs, w_hs, AWREADY, WREADY, do_write
    <2> QED
      BY <1>1, <1>2, <1>5, <2>1 DEF IInv, LatchesHoldAccepted
  <1> QED
    BY <1>3, <1>4, <1>5

LEMMA ReadCommitFacts ==
  ASSUME BusAssumption, WidthAssumption, IInv,
         NEW aw, NEW w, NEW bready, NEW ar, NEW rready,
         Inputs(aw, w, bready, ar, rready),
         BusClock(aw, w, bready, ar, rready)
  PROVE  /\ Reads <=> ar_hs(ar)
         /\ ar_hs(ar) => RAddr' = Head(ar) /\ RError' = ReadError(Head(ar))
  <1>1. /\ rvalid_q' = (ar_hs(ar) \/ (rvalid_q /\ ~rready))
        /\ arq' = Track(arq, rvalid_q /\ rready, ReadBeat(ar, ar_hs(ar)))
    BY DEF BusClock, Observe, SlaveClock, ReadChannel
  <1>2. Reads <=> ar_hs(ar)
    BY <1>1 DEF Reads, ar_hs, ARREADY
  <1>3. ASSUME ar_hs(ar)
        PROVE  RAddr' = Head(ar) /\ RError' = ReadError(Head(ar))
    <2> DEFINE rd == [addr |-> Head(ar), writing |-> awq # <<>> \/ wq # <<>>]
    <2>1. ~rvalid_q /\ arq = <<>>
      BY <1>3 DEF ar_hs, ARREADY, IInv, ReadResponseEarned
    <2>2. arq' = <<rd>>
      BY <1>1, <1>3, <2>1, BeatFacts DEF Track, ReadBeat
    <2>3. Head(arq').addr = Head(ar)
      BY <2>2, BeatFacts
    <2> QED
      BY <2>3 DEF RAddr, RError
  <1> QED
    BY <1>2, <1>3

-----------------------------------------------------------------------------
(***************************************************************************)
(* Action properties.                                                      *)
(***************************************************************************)
ChangeAllowed ==
  \/ Reset
  \/ /\ ctrl_enable' # ctrl_enable   => CommitsTo(R_CTRL)
     /\ config_q' # config_q         => CommitsTo(R_CONFIG)
     /\ int_enable_q' # int_enable_q => CommitsTo(R_INT_ENABLE)
     /\ scratch_q' # scratch_q       => CommitsTo(R_SCRATCH)

InterruptsKept ==
  \/ Reset
  \/ /\ Commits => WError' \subseteq int_status_q'
     /\ Reads   => RError' \subseteq int_status_q'
     /\ int_status_q # int_status_q' =>
          \A i \in int_status_q \ int_status_q' :
            CommitsTo(R_INT_STATUS) /\ i \in WData'

InterruptsCaused ==
  \A i \in int_status_q' \ int_status_q :
    \/ Commits /\ i \in WError'
    \/ Reads /\ i \in RError'
    \/ i = OVERFLOW /\ counter_q = Bits(COUNTER_W) /\ counter_q' = {}

WrapReported ==
  \/ Reset
  \/ counter_q = Bits(COUNTER_W) /\ counter_q' # counter_q =>
       /\ counter_q' = {}
       /\ IF CommitsTo(R_CTRL) /\ CTRL_RESET_STATS \in WData'
            THEN OVERFLOW \in int_status_q' => OVERFLOW \in int_status_q
            ELSE OVERFLOW \in int_status_q'

LEMMA WritesAreCommits ==
  ASSUME BusAssumption, WidthAssumption, IInv,
         NEW aw, NEW w, NEW bready, NEW ar, NEW rready, NEW r,
         Inputs(aw, w, bready, ar, rready),
         BusClock(aw, w, bready, ar, rready),
         writes(aw, w, r)
  PROVE  CommitsTo(r) /\ WData' = wr_data(w)
  <1>1. do_write(aw, w) /\ wr_error(aw, w) = {} /\ Index(wr_addr(aw)) = r
    BY DEF writes, reg_write
  <1>2. Commits /\ WAddr' = wr_addr(aw) /\ WData' = wr_data(w) /\ WError' = {}
    BY <1>1, WriteCommitFacts
  <1>3. Index(WAddr)' = r
    BY <1>1, <1>2 DEF Index
  <1> QED
    BY <1>2, <1>3 DEF CommitsTo

LEMMA ClockChangeAllowed ==
  ASSUME BusAssumption, WidthAssumption, IInv,
         NEW aw, NEW w, NEW bready, NEW ar, NEW rready,
         Inputs(aw, w, bready, ar, rready),
         BusClock(aw, w, bready, ar, rready)
  PROVE  ChangeAllowed
  <1>1. \A r : writes(aw, w, r) => CommitsTo(r)
    BY WritesAreCommits
  <1>2. RegisterBank(aw, w)
    BY DEF BusClock, Observe, SlaveClock
  <1>3. ctrl_enable' # ctrl_enable => CommitsTo(R_CTRL)
    <2>1. ~writes(aw, w, R_CTRL) => ctrl_enable' = ctrl_enable
      BY <1>2, Zenon DEF RegisterBank
    <2> QED
      BY <1>1, <2>1
  <1>4. /\ config_q' # config_q         => CommitsTo(R_CONFIG)
        /\ int_enable_q' # int_enable_q => CommitsTo(R_INT_ENABLE)
        /\ scratch_q' # scratch_q       => CommitsTo(R_SCRATCH)
    BY <1>1, <1>2 DEF RegisterBank
  <1> QED
    BY <1>3, <1>4 DEF ChangeAllowed

\* Adding one to all ones gives zero.
LEMMA IncrementWraps ==
  Increment(Bits(COUNTER_W)) = {}
  <1>1. COUNTER_W \in Int
    BY WidthAssumption DEF WidthAssumption
  <1>2. ASSUME NEW i \in Bits(COUNTER_W)
        PROVE  \A j \in Bits(i) : j \in Bits(COUNTER_W)
    BY <1>1 DEF Bits
  <1>3. \A i \in Bits(COUNTER_W) :
          ~((i \in Bits(COUNTER_W)) # (\A j \in Bits(i) : j \in Bits(COUNTER_W)))
    BY <1>2, Zenon
  <1> QED
    BY <1>3, Zenon DEF Increment

LEMMA ClockInterrupts ==
  ASSUME BusAssumption, WidthAssumption, IInv,
         NEW aw, NEW w, NEW bready, NEW ar, NEW rready,
         Inputs(aw, w, bready, ar, rready),
         BusClock(aw, w, bready, ar, rready)
  PROVE  InterruptsKept /\ InterruptsCaused
  <1>1. int_status_q' =
          (int_status_q \ (IF w1c_write(aw, w) THEN wr_data(w) ELSE {}))
            \cup int_set(aw, w, ar)
    BY DEF BusClock, Observe, SlaveClock, IntStatus
  <1>2. w1c_write(aw, w) => CommitsTo(R_INT_STATUS) /\ WData' = wr_data(w)
    BY WritesAreCommits DEF w1c_write
  <1>3. /\ Commits <=> do_write(aw, w)
        /\ do_write(aw, w) => WError' = wr_error(aw, w)
    BY WriteCommitFacts
  <1>4. /\ Reads <=> ar_hs(ar)
        /\ ar_hs(ar) => RError' = ReadError(Head(ar))
    BY ReadCommitFacts
  <1>5. ev_overflow(aw, w) => counter_q = Bits(COUNTER_W) /\ counter_q' = {}
    BY IncrementWraps DEF ev_overflow, BusClock, Observe, SlaveClock, Counter
  <1>6. InterruptsKept
    <2>1. Commits => WError' \subseteq int_status_q'
      BY <1>1, <1>3 DEF int_set
    <2>2. Reads => RError' \subseteq int_status_q'
      BY <1>1, <1>4 DEF int_set
    <2>3. \A i \in int_status_q \ int_status_q' :
            CommitsTo(R_INT_STATUS) /\ i \in WData'
      BY <1>1, <1>2
    <2> QED
      BY <2>1, <2>2, <2>3 DEF InterruptsKept
  <1>7. InterruptsCaused
    <2> SUFFICES ASSUME NEW i \in int_status_q' \ int_status_q
                 PROVE  \/ Commits /\ i \in WError'
                        \/ Reads /\ i \in RError'
                        \/ /\ i = OVERFLOW /\ counter_q = Bits(COUNTER_W)
                           /\ counter_q' = {}
      BY DEF InterruptsCaused
    <2>1. i \in int_set(aw, w, ar)
      BY <1>1
    <2>2. \/ do_write(aw, w) /\ i \in wr_error(aw, w)
          \/ ar_hs(ar) /\ i \in ReadError(Head(ar))
          \/ ev_overflow(aw, w) /\ i = OVERFLOW
      BY <2>1 DEF int_set
    <2> QED
      BY <2>2, <1>3, <1>4, <1>5
  <1> QED
    BY <1>6, <1>7

\* An error event is never the overflow bit.
LEMMA NoOverflowEvent ==
  ASSUME NEW a, NEW s
  PROVE  OVERFLOW \notin ReadError(a) /\ OVERFLOW \notin WriteError(a, s)
  BY DEF ReadError, WriteError, OVERFLOW, MISALIGN, UNIMPL, STROBE

\* The commit the observer sees is the write strobe of the slave.
LEMMA CommitsAreWrites ==
  ASSUME BusAssumption, WidthAssumption, IInv,
         NEW aw, NEW w, NEW bready, NEW ar, NEW rready, NEW r,
         Inputs(aw, w, bready, ar, rready),
         BusClock(aw, w, bready, ar, rready),
         CommitsTo(r)
  PROVE  writes(aw, w, r) /\ WData' = wr_data(w)
  <1>1. do_write(aw, w)
    BY WriteCommitFacts DEF CommitsTo
  <1>2. WAddr' = wr_addr(aw) /\ WData' = wr_data(w) /\ WError' = wr_error(aw, w)
    BY <1>1, WriteCommitFacts
  <1>3. Index(wr_addr(aw)) = r
    BY <1>2 DEF CommitsTo, Index
  <1> QED
    BY <1>1, <1>2, <1>3 DEF CommitsTo, writes, reg_write

LEMMA ClockWrap ==
  ASSUME BusAssumption, WidthAssumption, IInv,
         NEW aw, NEW w, NEW bready, NEW ar, NEW rready,
         Inputs(aw, w, bready, ar, rready),
         BusClock(aw, w, bready, ar, rready)
  PROVE  WrapReported
  <1> DEFINE cleared == CommitsTo(R_CTRL) /\ CTRL_RESET_STATS \in WData'
  <1>1. cleared <=> reset_stats_pulse(aw, w)
    BY WritesAreCommits, CommitsAreWrites DEF reset_stats_pulse
  <1> HIDE DEF cleared
  <1>2. int_status_q' =
          (int_status_q \ (IF w1c_write(aw, w) THEN wr_data(w) ELSE {}))
            \cup int_set(aw, w, ar)
    BY DEF BusClock, Observe, SlaveClock, IntStatus
  <1>3. counter_q' = IF reset_stats_pulse(aw, w) THEN {}
                     ELSE IF ctrl_enable THEN Increment(counter_q)
                     ELSE counter_q
    BY DEF BusClock, Observe, SlaveClock, Counter
  <1>4. SUFFICES ASSUME counter_q = Bits(COUNTER_W), counter_q' # counter_q
                 PROVE  /\ counter_q' = {}
                        /\ IF cleared
                             THEN OVERFLOW \in int_status_q' =>
                                    OVERFLOW \in int_status_q
                             ELSE OVERFLOW \in int_status_q'
    BY DEF WrapReported, cleared
  <1>5. CASE reset_stats_pulse(aw, w)
    <2>1. OVERFLOW \notin int_set(aw, w, ar)
      BY <1>5, NoOverflowEvent DEF int_set, ev_overflow, wr_error
    <2> QED
      BY <1>1, <1>2, <1>3, <1>5, <2>1
  <1>6. CASE ~reset_stats_pulse(aw, w)
    <2>1. ctrl_enable /\ counter_q' = Increment(counter_q)
      BY <1>3, <1>4, <1>6
    <2>2. OVERFLOW \in int_set(aw, w, ar)
      BY <1>4, <1>6, <2>1 DEF int_set, ev_overflow
    <2> QED
      BY <1>1, <1>2, <1>4, <1>6, <2>1, <2>2, IncrementWraps
  <1> QED
    BY <1>5, <1>6

\* Every edge is one with inputs of the right type.
LEMMA ClockInputs ==
  ASSUME IInv, Clock
  PROVE  \E aw, w, bready, ar, rready :
           Inputs(aw, w, bready, ar, rready)
           /\ BusClock(aw, w, bready, ar, rready)
  <1>1. PICK aw \in Offer(aw_offered, Addrs), w \in Offer(w_offered, WBeats),
             ar \in Offer(ar_offered, Addrs), bready \in BOOLEAN,
             rready \in BOOLEAN : BusClock(aw, w, bready, ar, rready)
    BY DEF Clock
  <1>2. Inputs(aw, w, bready, ar, rready)
    BY OfferIsBeat DEF Inputs, IInv, TypeOK, BusTypeOK
  <1> QED
    BY <1>1, <1>2

LEMMA EdgeStep ==
  ASSUME IInv, [Next]_vars
  PROVE  /\ [ChangeAllowed]_vars /\ [InterruptsKept]_vars
         /\ [InterruptsCaused]_vars /\ [WrapReported]_vars
  <1>1. CASE Clock
    <2>1. PICK aw, w, bready, ar, rready :
            Inputs(aw, w, bready, ar, rready)
            /\ BusClock(aw, w, bready, ar, rready)
      BY <1>1, ClockInputs
    <2> QED
      BY <2>1, ClockChangeAllowed, ClockInterrupts, ClockWrap, BusAssumption,
         WidthAssumption
  <1>2. CASE Reset
    <2>1. int_status_q' \ int_status_q = {}
      BY <1>2 DEF Reset, BusReset, SlaveReset
    <2> QED
      BY <1>2, <2>1 DEF ChangeAllowed, InterruptsKept, InterruptsCaused,
         WrapReported
  <1>3. CASE UNCHANGED vars
    BY <1>3
  <1> QED
    BY <1>1, <1>2, <1>3 DEF Next

(***************************************************************************)
(* No step but the commit of an OKAY write addressed to it, or the reset,  *)
(* changes a software register.                                            *)
(***************************************************************************)
THEOREM ChangesAreCommits == Spec => ChangedOnlyByCommit
  <1>1. IInv /\ [Next]_vars => [ChangeAllowed]_vars
    BY EdgeStep
  <1>2. Spec => [][ChangeAllowed]_vars
    BY <1>1, Invariance, PTL DEF Spec
  <1> QED
    BY <1>2 DEF ChangedOnlyByCommit, ChangeAllowed

(***************************************************************************)
(* No event of a committing access is lost, whatever is cleared on the     *)
(* same edge, and only a W1C write clears a pending bit.                   *)
(***************************************************************************)
THEOREM InterruptsNeverLost == Spec => NoInterruptLost
  <1>1. IInv /\ [Next]_vars => [InterruptsKept]_vars
    BY EdgeStep
  <1>2. Spec => [][InterruptsKept]_vars
    BY <1>1, Invariance, PTL DEF Spec
  <1> QED
    BY <1>2 DEF NoInterruptLost, InterruptsKept

(***************************************************************************)
(* Every bit that rises has a cause committing on that very edge.          *)
(***************************************************************************)
THEOREM InterruptsNeverInvented == Spec => NoInterruptInvented
  <1>1. IInv /\ [Next]_vars => [InterruptsCaused]_vars
    BY EdgeStep
  <1>2. Spec => [][InterruptsCaused]_vars
    BY <1>1, Invariance, PTL DEF Spec
  <1> QED
    BY <1>2 DEF NoInterruptInvented, InterruptsCaused

(***************************************************************************)
(* COUNTER leaves its maximum for zero only, and the overflow is pending   *)
(* after it unless a reset_stats write commits on that very edge.          *)
(***************************************************************************)
THEOREM WrapsAreReported == Spec => WrapIsReported
  <1>1. IInv /\ [Next]_vars => [WrapReported]_vars
    BY EdgeStep
  <1>2. Spec => [][WrapReported]_vars
    BY <1>1, Invariance, PTL DEF Spec
  <1> QED
    BY <1>2 DEF WrapIsReported, WrapReported

-----------------------------------------------------------------------------
(***************************************************************************)
(* What is in the bank while a write response waits.  Nothing else commits *)
(* meanwhile, so what the commit left there is still there.                *)
(***************************************************************************)
VisInv == IInv /\ WriteVisibleAtResponse /\ ErrorVisibleAtResponse

LEMMA RegisterNames ==
  /\ R_CTRL # R_CONFIG /\ R_CTRL # R_INT_ENABLE /\ R_CTRL # R_SCRATCH
  /\ R_CONFIG # R_INT_ENABLE /\ R_CONFIG # R_SCRATCH
  /\ R_INT_ENABLE # R_SCRATCH
  BY DEF R_CTRL, R_CONFIG, R_INT_ENABLE, R_SCRATCH

LEMMA WriteVisibleStep ==
  ASSUME BusAssumption, WidthAssumption, IInv, WriteVisibleAtResponse,
         NEW aw, NEW w, NEW bready, NEW ar, NEW rready,
         Inputs(aw, w, bready, ar, rready),
         BusClock(aw, w, bready, ar, rready)
  PROVE  WriteVisibleAtResponse'
  <1>1. RegisterBank(aw, w)
    BY DEF BusClock, Observe, SlaveClock
  <1>2. bvalid_q' = (do_write(aw, w) \/ (bvalid_q /\ ~bready))
    BY DEF BusClock, Observe, SlaveClock, WriteChannel
  <1>3. CASE do_write(aw, w)
    <2>1. /\ WAddr' = wr_addr(aw) /\ WData' = wr_data(w)
          /\ WError' = wr_error(aw, w)
      BY <1>3, WriteCommitFacts
    <2>2. Index(WAddr)' = Index(wr_addr(aw))
      BY <2>1 DEF Index
    <2>3. ASSUME WError' = {}
          PROVE  writes(aw, w, Index(WAddr)')
      BY <1>3, <2>1, <2>2, <2>3 DEF writes, reg_write
    <2>4. ASSUME WError' = {}, Index(WAddr)' = R_CTRL
          PROVE  ctrl_enable' = (CTRL_ENABLE \in WData')
      <3>1. writes(aw, w, R_CTRL)
        BY <2>3, <2>4
      <3>2. ctrl_enable' = (CTRL_ENABLE \in wr_data(w))
        BY <1>1, <3>1, Zenon DEF RegisterBank
      <3> QED
        BY <2>1, <3>2
    <2>5. ASSUME WError' = {}
          PROVE  /\ Index(WAddr)' = R_CONFIG => config_q' = WData' \cap Bits(CONFIG_W)
                 /\ Index(WAddr)' = R_INT_ENABLE =>
                      int_enable_q' = WData' \cap Bits(INT_W)
                 /\ Index(WAddr)' = R_SCRATCH => scratch_q' = WData'
      BY <1>1, <2>1, <2>3, <2>5 DEF RegisterBank
    <2> QED
      BY <2>4, <2>5 DEF WriteVisibleAtResponse
  <1>4. CASE ~do_write(aw, w) /\ bvalid_q'
    <2>1. bvalid_q /\ awq' = awq /\ wq' = wq
      BY <1>2, <1>4, WriteCommitFacts
    <2>2. \A r : ~writes(aw, w, r)
      BY <1>4 DEF writes, reg_write
    <2>3. ctrl_enable' = ctrl_enable
      BY <1>1, <2>2, Zenon DEF RegisterBank
    <2>4. config_q' = config_q /\ int_enable_q' = int_enable_q /\ scratch_q' = scratch_q
      BY <1>1, <2>2 DEF RegisterBank
    <2>5. WAddr' = WAddr /\ WData' = WData /\ WError' = WError
          /\ Index(WAddr)' = Index(WAddr)
      BY <2>1 DEF WAddr, WData, WError, Index
    <2> QED
      BY <2>1, <2>3, <2>4, <2>5 DEF WriteVisibleAtResponse
  <1>5. CASE ~bvalid_q'
    BY <1>5 DEF WriteVisibleAtResponse
  <1> QED
    BY <1>3, <1>4, <1>5

LEMMA ErrorVisibleStep ==
  ASSUME BusAssumption, WidthAssumption, IInv, ErrorVisibleAtResponse,
         NEW aw, NEW w, NEW bready, NEW ar, NEW rready,
         Inputs(aw, w, bready, ar, rready),
         BusClock(aw, w, bready, ar, rready)
  PROVE  ErrorVisibleAtResponse'
  <1>1. /\ bvalid_q' = (do_write(aw, w) \/ (bvalid_q /\ ~bready))
        /\ bresp_q' = IF do_write(aw, w) THEN Resp(wr_error(aw, w)) ELSE bresp_q
    BY DEF BusClock, Observe, SlaveClock, WriteChannel
  <1>2. int_status_q' =
          (int_status_q \ (IF w1c_write(aw, w) THEN wr_data(w) ELSE {}))
            \cup int_set(aw, w, ar)
    BY DEF BusClock, Observe, SlaveClock, IntStatus
  <1>3. CASE do_write(aw, w)
    <2>1. WError' = wr_error(aw, w)
      BY <1>3, WriteCommitFacts
    <2>2. WError' \subseteq int_status_q'
      BY <1>2, <1>3, <2>1 DEF int_set
    <2>3. bresp_q' = SLVERR => WError' # {}
      BY <1>1, <1>3, <2>1 DEF Resp, OKAY, SLVERR
    <2> QED
      BY <2>2, <2>3 DEF ErrorVisibleAtResponse
  <1>4. CASE ~do_write(aw, w) /\ bvalid_q'
    <2>1. bvalid_q /\ awq' = awq /\ wq' = wq /\ bresp_q' = bresp_q
      BY <1>1, <1>4, WriteCommitFacts
    <2>2. WError' = WError
      BY <2>1 DEF WError
    <2>3. int_status_q \subseteq int_status_q'
      BY <1>2, <1>4 DEF w1c_write, writes, reg_write
    <2> QED
      BY <2>1, <2>2, <2>3 DEF ErrorVisibleAtResponse
  <1>5. CASE ~bvalid_q'
    BY <1>5 DEF ErrorVisibleAtResponse
  <1> QED
    BY <1>3, <1>4, <1>5

LEMMA VisStep ==
  ASSUME VisInv, [Next]_vars
  PROVE  VisInv'
  <1>1. IInv'
    BY IInvStep, WidthAssumption, BusAssumption DEF VisInv
  <1>2. WriteVisibleAtResponse' /\ ErrorVisibleAtResponse'
    <2>1. CASE Clock
      <3>1. PICK aw, w, bready, ar, rready :
              Inputs(aw, w, bready, ar, rready)
              /\ BusClock(aw, w, bready, ar, rready)
        BY <2>1, ClockInputs DEF VisInv
      <3> QED
        BY <3>1, WriteVisibleStep, ErrorVisibleStep, BusAssumption,
           WidthAssumption DEF VisInv
    <2>2. CASE Reset
      BY <2>2 DEF Reset, BusReset, SlaveReset, WriteVisibleAtResponse,
         ErrorVisibleAtResponse
    <2>3. CASE UNCHANGED vars
      BY <2>3 DEF VisInv, vars, slaveVars, channelVars, bankVars, busVars,
         WriteVisibleAtResponse, ErrorVisibleAtResponse, WAddr, WData, WError,
         Index
    <2> QED
      BY <2>1, <2>2, <2>3 DEF Next
  <1> QED
    BY <1>1, <1>2 DEF VisInv

LEMMA VisInvariance == Spec => []VisInv
  <1>1. Init => VisInv
    BY IInvInit, WidthAssumption, BusAssumption DEF VisInv, Init,
       SlaveInReset, WriteVisibleAtResponse, ErrorVisibleAtResponse
  <1>2. VisInv /\ [Next]_vars => VisInv'
    BY VisStep
  <1> QED
    BY <1>1, <1>2, PTL DEF Spec

(***************************************************************************)
(* A read issued after a write response cannot see the old value, for      *)
(* every width of the registers.                                           *)
(***************************************************************************)
THEOREM WritesVisible == Spec => []WriteVisibleAtResponse
  <1>1. VisInv => WriteVisibleAtResponse
    BY DEF VisInv
  <1> QED
    BY <1>1, VisInvariance, PTL

\* The cause of a failed write is pending for as long as its response waits.
THEOREM ErrorsVisible == Spec => []ErrorVisibleAtResponse
  <1>1. VisInv => ErrorVisibleAtResponse
    BY DEF VisInv
  <1> QED
    BY <1>1, VisInvariance, PTL

-----------------------------------------------------------------------------
(***************************************************************************)
(* The decode of the slave, which slices the address, and that of the      *)
(* scoreboard, which slices it again, name the same errors and registers.  *)
(***************************************************************************)
LEMMA DecodeAgrees ==
  ASSUME NEW a \in Nat
  PROVE  /\ RF!is_misaligned(a) <=> Misaligned(a)
         /\ RF!is_implemented(a) <=> Implemented(a)
         /\ RF!reg_index(a) = Index(a)
  BY SMT DEF RF!is_misaligned, RF!is_implemented, RF!reg_index, Misaligned,
             Implemented, Index

LEMMA EventsAgree ==
  ASSUME NEW a \in Nat, NEW beat
  PROVE  /\ RF!read_event(a) = ReadError(a)
         /\ RF!write_event(a, beat) = WriteError(a, beat.strb)
         /\ RF!exp_resp(ReadError(a)) = Resp(ReadError(a))
         /\ RF!exp_resp(WriteError(a, beat.strb)) = Resp(WriteError(a, beat.strb))
  <1>1. RF!read_event(a) = ReadError(a)
    BY DecodeAgrees DEF RF!read_event, ReadError, RF!MISALIGN, RF!UNIMPL,
       MISALIGN, UNIMPL
  <1>2. RF!write_event(a, beat) = WriteError(a, beat.strb)
    BY DecodeAgrees DEF RF!write_event, WriteError, ReadError, RF!MISALIGN,
       RF!UNIMPL, RF!STROBE, MISALIGN, UNIMPL, STROBE, RF!Lanes, Lanes,
       RF!Bits, Bits
  <1>3. \A e : RF!exp_resp(e) = Resp(e)
    BY DEF RF!exp_resp, Resp, RF!OKAY, RF!SLVERR, OKAY, SLVERR
  <1> QED
    BY <1>1, <1>2, <1>3

-----------------------------------------------------------------------------
Bank(c, f, n, s, x) ==
  [ctrl_enable |-> c, config |-> f, int_enable |-> n, int_status |-> s,
   scratch |-> x]

\* Its updates, named, so that each is reasoned about once.
SetCtrl(m, v)      == [m EXCEPT !.ctrl_enable = v]
SetConfig(m, v)    == [m EXCEPT !.config = v]
SetIntEnable(m, v) == [m EXCEPT !.int_enable = v]
SetScratch(m, v)   == [m EXCEPT !.scratch = v]
AddEvents(m, v)    == [m EXCEPT !.int_status = @ \cup v]
ClearEvents(m, v)  == [m EXCEPT !.int_status = @ \ v]

LEMMA SetCtrlBank ==
  \A c, f, n, s, x, v : SetCtrl(Bank(c, f, n, s, x), v) = Bank(v, f, n, s, x)
  BY DEF Bank, SetCtrl

LEMMA SetConfigBank ==
  \A c, f, n, s, x, v : SetConfig(Bank(c, f, n, s, x), v) = Bank(c, v, n, s, x)
  BY DEF Bank, SetConfig

LEMMA SetIntEnableBank ==
  \A c, f, n, s, x, v :
    SetIntEnable(Bank(c, f, n, s, x), v) = Bank(c, f, v, s, x)
  BY DEF Bank, SetIntEnable

LEMMA SetScratchBank ==
  \A c, f, n, s, x, v : SetScratch(Bank(c, f, n, s, x), v) = Bank(c, f, n, s, v)
  BY DEF Bank, SetScratch

LEMMA IntStatusBank ==
  \A c, f, n, s, x, v :
    /\ AddEvents(Bank(c, f, n, s, x), v) = Bank(c, f, n, s \cup v, x)
    /\ ClearEvents(Bank(c, f, n, s, x), v) = Bank(c, f, n, s \ v, x)
  <1> TAKE c, f, n, s, x, v
  <1> DEFINE m == Bank(c, f, n, s, x)
  <1>1. m.int_status = s
    BY DEF Bank
  <1>2. \A u : [m EXCEPT !.int_status = u] = Bank(c, f, n, u, x)
    BY DEF Bank
  <1> HIDE DEF m
  <1>3. AddEvents(m, v) = Bank(c, f, n, s \cup v, x)
    BY <1>1, <1>2, Zenon DEF AddEvents
  <1>4. ClearEvents(m, v) = Bank(c, f, n, s \ v, x)
    BY <1>1, <1>2, Zenon DEF ClearEvents
  <1> QED
    BY <1>3, <1>4 DEF m

LEMMA AddEventsBank ==
  \A c, f, n, s, x, v : AddEvents(Bank(c, f, n, s, x), v) = Bank(c, f, n, s \cup v, x)
  BY IntStatusBank, Zenon

LEMMA ClearEventsBank ==
  \A c, f, n, s, x, v : ClearEvents(Bank(c, f, n, s, x), v) = Bank(c, f, n, s \ v, x)
  BY IntStatusBank, Zenon

\* A write without an error, by the register it is addressed to.
Written(m, i, d) ==
  IF i = R_CTRL THEN SetCtrl(m, CTRL_ENABLE \in d)
  ELSE IF i = R_CONFIG THEN SetConfig(m, d \cap Bits(CONFIG_W))
  ELSE IF i = R_INT_ENABLE THEN SetIntEnable(m, d \cap Bits(INT_W))
  ELSE IF i = R_SCRATCH THEN SetScratch(m, d)
  ELSE IF i = R_INT_STATUS THEN ClearEvents(m, d)
  ELSE m

LEMMA ModelIsUpdates ==
  ASSUME NEW a \in Nat, NEW beat, NEW m
  PROVE  /\ RF!model_read(m, a) = AddEvents(m, ReadError(a))
         /\ RF!model_write(m, a, beat) =
              IF WriteError(a, beat.strb) # {}
                THEN AddEvents(m, WriteError(a, beat.strb))
                ELSE Written(m, Index(a), beat.data)
  <1>1. /\ RF!read_event(a) = ReadError(a)
        /\ RF!write_event(a, beat) = WriteError(a, beat.strb)
        /\ RF!reg_index(a) = Index(a)
    BY EventsAgree, DecodeAgrees
  <1>2. RF!model_read(m, a) = AddEvents(m, ReadError(a))
    BY <1>1, Zenon DEF RF!model_read, AddEvents
  <1>3. RF!model_write(m, a, beat) =
          IF WriteError(a, beat.strb) # {}
            THEN AddEvents(m, WriteError(a, beat.strb))
            ELSE Written(m, Index(a), beat.data)
    BY <1>1, Zenon DEF RF!model_write, Written, SetCtrl, SetConfig,
       SetIntEnable, SetScratch, AddEvents, ClearEvents, RF!R_CTRL,
       RF!R_CONFIG, RF!R_INT_ENABLE, RF!R_SCRATCH, RF!R_INT_STATUS, R_CTRL,
       R_CONFIG, R_INT_ENABLE, R_SCRATCH, R_INT_STATUS, RF!CTRL_ENABLE,
       CTRL_ENABLE, RF!Bits, Bits, RF!INT_W, INT_W
  <1> QED
    BY <1>2, <1>3

\* Without an event there is nothing to add, whatever was updated before.
LEMMA NoEventsBank ==
  \A c, f, n, s, x : AddEvents(Bank(c, f, n, s, x), {}) = Bank(c, f, n, s, x)
  <1>1. \A s : s \cup {} = s
    OBVIOUS
  <1> QED
    BY <1>1, AddEventsBank

LEMMA NoEventsUpdates ==
  /\ \A v : AddEvents(AddEvents(bankView, v), {}) = AddEvents(bankView, v)
  /\ \A i, d : AddEvents(Written(bankView, i, d), {}) = Written(bankView, i, d)
  <1> DEFINE c == ctrl_enable
             f == config_q
             n == int_enable_q
             s == int_status_q \ {OVERFLOW}
             x == scratch_q
             m == bankView
  <1>0. m = Bank(c, f, n, s, x)
    BY DEF bankView, Bank
  <1> HIDE DEF c, f, n, s, x, m
  <1>1. \A v : AddEvents(AddEvents(m, v), {}) = AddEvents(m, v)
    <2> TAKE v
    <2>1. AddEvents(m, v) = Bank(c, f, n, s \cup v, x)
      BY <1>0, AddEventsBank
    <2> QED
      BY <2>1, NoEventsBank
  <1>2. ASSUME NEW i, NEW d
        PROVE  AddEvents(Written(m, i, d), {}) = Written(m, i, d)
    <2>1. SetCtrl(m, CTRL_ENABLE \in d) = Bank(CTRL_ENABLE \in d, f, n, s, x)
      BY <1>0, SetCtrlBank
    <2>2. SetConfig(m, d \cap Bits(CONFIG_W)) =
            Bank(c, d \cap Bits(CONFIG_W), n, s, x)
      BY <1>0, SetConfigBank
    <2>3. SetIntEnable(m, d \cap Bits(INT_W)) = Bank(c, f, d \cap Bits(INT_W), s, x)
      BY <1>0, SetIntEnableBank
    <2>4. SetScratch(m, d) = Bank(c, f, n, s, d)
      BY <1>0, SetScratchBank
    <2>5. ClearEvents(m, d) = Bank(c, f, n, s \ d, x)
      BY <1>0, ClearEventsBank
    <2>6. \E cc, ff, nn, ss, xx : Written(m, i, d) = Bank(cc, ff, nn, ss, xx)
      BY <1>0, <2>1, <2>2, <2>3, <2>4, <2>5, Zenon DEF Written
    <2> QED
      BY <2>6, NoEventsBank
  <1> QED
    BY <1>1, <1>2 DEF m

\* The write that commits on an edge, and the events of the read.
Payload(w) == [data |-> wr_data(w), strb |-> wr_strb(w)]
ReadEvents(ar) == IF ar_hs(ar) THEN ReadError(Head(ar)) ELSE {}

LEMMA BankStep ==
  ASSUME BusAssumption, WidthAssumption, IInv,
         NEW aw, NEW w, NEW bready, NEW ar, NEW rready,
         Inputs(aw, w, bready, ar, rready),
         BusClock(aw, w, bready, ar, rready)
  PROVE  /\ ~do_write(aw, w) => bankView' = AddEvents(bankView, ReadEvents(ar))
         /\ do_write(aw, w) =>
              bankView' =
                AddEvents(RF!model_write(bankView, wr_addr(aw), Payload(w)),
                          ReadEvents(ar))
  <1> DEFINE a  == wr_addr(aw)
             e  == wr_error(aw, w)
             d  == wr_data(w)
             re == ReadEvents(ar)
             s  == int_status_q \ {OVERFLOW}
             i  == Index(a)
  <1>1. RegisterBank(aw, w)
    BY DEF BusClock, Observe, SlaveClock
  <1>2. int_status_q' =
          (int_status_q \ (IF w1c_write(aw, w) THEN d ELSE {}))
            \cup int_set(aw, w, ar)
    BY DEF BusClock, Observe, SlaveClock, IntStatus
  <1>3. OVERFLOW \notin e /\ OVERFLOW \notin re
    BY NoOverflowEvent DEF wr_error, ReadEvents
  <1>4. int_status_q' \ {OVERFLOW} =
          ((s \ (IF w1c_write(aw, w) THEN d ELSE {}))
             \cup (IF do_write(aw, w) THEN e ELSE {})) \cup re
    <2>1. int_set(aw, w, ar) \ {OVERFLOW} =
            (IF do_write(aw, w) THEN e ELSE {}) \cup re
      BY <1>3 DEF int_set, ReadEvents
    <2> QED
      BY <1>2, <2>1
  <1>5. /\ bankView' = Bank(ctrl_enable', config_q', int_enable_q',
                           int_status_q' \ {OVERFLOW}, scratch_q')
        /\ bankView = Bank(ctrl_enable, config_q, int_enable_q, s, scratch_q)
    BY DEF bankView, OVERFLOW, Bank
  <1>6. ASSUME ~reg_write(aw, w)
        PROVE  /\ ctrl_enable' = ctrl_enable /\ config_q' = config_q
               /\ int_enable_q' = int_enable_q /\ scratch_q' = scratch_q
               /\ ~w1c_write(aw, w)
    <2>1. \A r : ~writes(aw, w, r)
      BY <1>6 DEF writes
    <2>2. ctrl_enable' = ctrl_enable
      BY <1>1, <2>1, Zenon DEF RegisterBank
    <2> QED
      BY <1>1, <2>1, <2>2 DEF RegisterBank, w1c_write
  <1>7. ASSUME ~do_write(aw, w)
        PROVE  bankView' = AddEvents(bankView, re)
    <2>1. ~reg_write(aw, w)
      BY <1>7 DEF reg_write
    <2>2. int_status_q' \ {OVERFLOW} = s \cup re
      BY <1>4, <1>6, <1>7, <2>1
    <2> HIDE DEF re, s
    <2>3. bankView' = Bank(ctrl_enable, config_q, int_enable_q, s \cup re,
                           scratch_q)
      BY <1>5, <1>6, <2>1, <2>2
    <2>4. bankView = Bank(ctrl_enable, config_q, int_enable_q, s, scratch_q)
      BY <1>5
    <2>5. AddEvents(bankView, re) =
            Bank(ctrl_enable, config_q, int_enable_q, s \cup re, scratch_q)
      BY <2>4, AddEventsBank
    <2> QED
      BY <2>3, <2>5
  <1>8. ASSUME do_write(aw, w)
        PROVE  bankView' = AddEvents(RF!model_write(bankView, a, Payload(w)), re)
    <2>1. a \in Nat
      <3>1. aw_hs(aw) => Head(aw) \in Nat
        BY PayloadType DEF Inputs, aw_hs
      <3> QED
        BY <1>8, <3>1 DEF do_write, wr_addr, IInv, TypeOK, BusTypeOK, SlaveTypeOK
    <2>2. RF!model_write(bankView, a, Payload(w)) =
            IF e # {} THEN AddEvents(bankView, e) ELSE Written(bankView, i, d)
      <3>1. Payload(w).data = d /\ Payload(w).strb = wr_strb(w)
        BY DEF Payload
      <3> QED
        BY <2>1, <3>1, ModelIsUpdates, Zenon DEF wr_error
    <2>3. CASE e # {}
      <3>1. ~reg_write(aw, w)
        BY <2>3 DEF reg_write
      <3>2. int_status_q' \ {OVERFLOW} = (s \cup e) \cup re
        BY <1>4, <1>6, <1>8, <3>1
      <3> HIDE DEF a, e, re, s
      <3>3. bankView' = Bank(ctrl_enable, config_q, int_enable_q,
                             (s \cup e) \cup re, scratch_q)
        BY <1>5, <1>6, <3>1, <3>2
      <3>4. AddEvents(AddEvents(bankView, e), re) =
              Bank(ctrl_enable, config_q, int_enable_q,
                   (s \cup e) \cup re, scratch_q)
        <4>1. AddEvents(bankView, e) =
                Bank(ctrl_enable, config_q, int_enable_q, s \cup e, scratch_q)
          BY <1>5, AddEventsBank
        <4> QED
          BY <4>1, AddEventsBank
      <3> QED
        BY <2>2, <2>3, <3>3, <3>4, Zenon
    <2>4. CASE e = {}
      <3>1. \A r : writes(aw, w, r) <=> i = r
        BY <1>8, <2>4 DEF writes, reg_write
      <3>2. /\ i = R_CTRL => ctrl_enable' = (CTRL_ENABLE \in d)
            /\ i # R_CTRL => ctrl_enable' = ctrl_enable
        BY <1>1, <3>1, Zenon DEF RegisterBank
      <3>3. /\ config_q' = IF i = R_CONFIG THEN d \cap Bits(CONFIG_W)
                           ELSE config_q
            /\ int_enable_q' = IF i = R_INT_ENABLE THEN d \cap Bits(INT_W)
                               ELSE int_enable_q
            /\ scratch_q' = IF i = R_SCRATCH THEN d ELSE scratch_q
        BY <1>1, <3>1 DEF RegisterBank
      <3>4. int_status_q' \ {OVERFLOW} =
              (s \ (IF i = R_INT_STATUS THEN d ELSE {})) \cup re
        BY <1>4, <1>8, <2>4, <3>1 DEF w1c_write
      <3>5. RF!model_write(bankView, a, Payload(w)) = Written(bankView, i, d)
        BY <2>2, <2>4, Zenon
      <3>6. /\ R_CTRL = 0 /\ R_CONFIG = 2 /\ R_INT_ENABLE = 3
            /\ R_INT_STATUS = 4 /\ R_SCRATCH = 5
        BY DEF R_CTRL, R_CONFIG, R_INT_ENABLE, R_INT_STATUS, R_SCRATCH
      <3> HIDE DEF a, d, e, i, re, s
      <3>7. Written(bankView, i, d) =
              Bank(IF i = R_CTRL THEN ctrl_enable' ELSE ctrl_enable, config_q',
                   int_enable_q', IF i = R_INT_STATUS THEN s \ d ELSE s,
                   scratch_q')
        <4>1. CASE i = R_CTRL
          <5>1. ctrl_enable' = (CTRL_ENABLE \in d)
            BY <3>2, <4>1, Zenon
          <5>2. /\ config_q' = config_q /\ int_enable_q' = int_enable_q
                /\ scratch_q' = scratch_q /\ i # R_INT_STATUS
            BY <3>3, <3>6, <4>1
          <5>3. Written(bankView, i, d) = SetCtrl(bankView, ctrl_enable')
            BY <4>1, <5>1, Zenon DEF Written
          <5> QED
            BY <1>5, <4>1, <5>2, <5>3, SetCtrlBank
        <4>2. CASE i # R_CTRL
          BY <1>5, <3>3, <3>6, <4>2, SetConfigBank, SetIntEnableBank,
             SetScratchBank, ClearEventsBank DEF Written
        <4> QED
          BY <4>1, <4>2
      <3>8. ctrl_enable' = IF i = R_CTRL THEN ctrl_enable' ELSE ctrl_enable
        BY <3>2, Zenon
      <3>9. int_status_q' \ {OVERFLOW} =
              (IF i = R_INT_STATUS THEN s \ d ELSE s) \cup re
        BY <3>4
      <3> QED
        BY <1>5, <3>5, <3>7, <3>8, <3>9, AddEventsBank
    <2> QED
      BY <2>3, <2>4
  <1> QED
    BY <1>7, <1>8

-----------------------------------------------------------------------------
(***************************************************************************)
(* The two result ports.                                                   *)
(***************************************************************************)
LEMMA WritePortStep ==
  ASSUME BusAssumption, WidthAssumption, IInv, IInv',
         NEW aw, NEW w, NEW bready, NEW ar, NEW rready,
         Inputs(aw, w, bready, ar, rready),
         BusClock(aw, w, bready, ar, rready)
  PROVE  /\ ~do_write(aw, w) => bView' = bView \/ bView' = <<>>
         /\ do_write(aw, w) => /\ wr_addr(aw) \in Addrs /\ Payload(w) \in WBeats
                               /\ RF!Write(wr_addr(aw), Payload(w))
  <1> DEFINE a == wr_addr(aw)
             p == Payload(w)
  <1>1. /\ bvalid_q' = (do_write(aw, w) \/ (bvalid_q /\ ~bready))
        /\ bresp_q' = IF do_write(aw, w) THEN Resp(wr_error(aw, w)) ELSE bresp_q
    BY DEF BusClock, Observe, SlaveClock, WriteChannel
  <1>2. ASSUME ~do_write(aw, w) PROVE bView' = bView \/ bView' = <<>>
    <2>1. CASE bvalid_q'
      <3>1. bvalid_q /\ awq' = awq /\ wq' = wq /\ bresp_q' = bresp_q
        BY <1>1, <1>2, <2>1, WriteCommitFacts
      <3> QED
        BY <2>1, <3>1 DEF bView
    <2>2. CASE ~bvalid_q'
      BY <2>2 DEF bView
    <2> QED
      BY <2>1, <2>2
  <1>3. ASSUME do_write(aw, w)
        PROVE  a \in Addrs /\ p \in WBeats /\ RF!Write(a, p)
    <2>1. ~bvalid_q /\ bvalid_q'
      BY <1>1, <1>3 DEF do_write
    <2>2. /\ awq' = <<awaddr_q'>>
          /\ wq' = <<[data |-> wdata_q', strb |-> wstrb_q']>>
      BY <2>1 DEF IInv, LatchesHoldAccepted
    <2>3. Head(awq') = a /\ Head(wq') = p
      <3>1. /\ awaddr_q' = IF aw_hs(aw) THEN Head(aw) ELSE awaddr_q
            /\ wdata_q' = IF w_hs(w) THEN Head(w).data ELSE wdata_q
            /\ wstrb_q' = IF w_hs(w) THEN Head(w).strb ELSE wstrb_q
        BY DEF BusClock, Observe, SlaveClock, WriteChannel
      <3>2. /\ awaddr_q' = a /\ wdata_q' = wr_data(w) /\ wstrb_q' = wr_strb(w)
        BY <1>3, <3>1 DEF do_write, wr_addr, wr_data, wr_strb, aw_hs, w_hs,
           AWREADY, WREADY
      <3> QED
        BY <2>2, <3>2, BeatFacts DEF Payload
    <2>4. a \in Addrs /\ p \in WBeats
      <3>1. awq' \in Beats(Addrs) /\ wq' \in Beats(WBeats)
        BY DEF IInv, TypeOK, BusTypeOK
      <3>2. PICK x \in Addrs : awq' = <<x>>
        BY <2>2, <3>1, BeatFacts DEF Beats
      <3>3. PICK y \in WBeats : wq' = <<y>>
        BY <2>2, <3>1, BeatFacts DEF Beats
      <3> QED
        BY <2>3, <3>2, <3>3, BeatFacts
    <2>5. bresp_q' = RF!exp_resp(RF!write_event(a, p))
      <3>1. a \in Nat /\ p.strb = wr_strb(w)
        BY <2>4 DEF BusAssumption, Payload
      <3> HIDE DEF a, p
      <3>2. /\ RF!write_event(a, p) = WriteError(a, p.strb)
            /\ RF!exp_resp(WriteError(a, p.strb)) = Resp(WriteError(a, p.strb))
        BY <3>1, EventsAgree
      <3>3. bresp_q' = Resp(WriteError(a, p.strb))
        BY <1>1, <1>3, <3>1 DEF a, wr_error
      <3> QED
        BY <3>2, <3>3
    <2>6. bView = <<>> /\ bView' = <<[addr |-> Head(awq'), beat |-> Head(wq'),
                                      resp |-> bresp_q']>>
      BY <2>1 DEF bView
    <2> HIDE DEF a, p
    <2> QED
      BY <2>3, <2>4, <2>5, <2>6, Zenon DEF RF!Write, RF!WriteResult
  <1> QED
    BY <1>2, <1>3

LEMMA ReadDataStep ==
  ASSUME WidthAssumption, SlaveTypeOK, NEW a \in Nat, ReadError(a) = {}
  PROVE  rd_mux(Index(a)) \in RF!plain_data(bankView, a)
  <1>1. RF!read_event(a) = {} /\ RF!reg_index(a) = Index(a)
    BY EventsAgree, DecodeAgrees
  <1>2. rd_mux(Index(a)) \in Word /\ RF!Word = Word
    BY MuxType DEF RF!Word, Word, RF!Bits, Bits
  <1> DEFINE i == Index(a)
  <1>3. /\ R_CTRL = 0 /\ R_STATUS = 1 /\ R_CONFIG = 2 /\ R_INT_ENABLE = 3
        /\ R_INT_STATUS = 4 /\ R_SCRATCH = 5 /\ R_COUNTER = 6 /\ R_ID = 7
    BY DEF R_CTRL, R_STATUS, R_CONFIG, R_INT_ENABLE, R_INT_STATUS, R_SCRATCH,
       R_COUNTER, R_ID
  <1>4. RF!plain_data(bankView, a) =
          IF i = R_CTRL THEN {IF ctrl_enable THEN {CTRL_ENABLE} ELSE {}}
          ELSE IF i = R_CONFIG THEN {config_q}
          ELSE IF i = R_INT_ENABLE THEN {int_enable_q}
          ELSE IF i = R_INT_STATUS
            THEN {(int_status_q \ {OVERFLOW}) \ {OVERFLOW},
                  (int_status_q \ {OVERFLOW}) \cup {OVERFLOW}}
          ELSE IF i = R_SCRATCH THEN {scratch_q}
          ELSE IF i = R_ID THEN {ID_RESET}
          ELSE Word
    <2>1. /\ bankView.ctrl_enable = ctrl_enable /\ bankView.config = config_q
          /\ bankView.int_enable = int_enable_q
          /\ bankView.int_status = int_status_q \ {OVERFLOW}
          /\ bankView.scratch = scratch_q
      BY DEF bankView
    <2> HIDE DEF i
    <2> QED
      BY <1>1, <1>2, <2>1, Zenon DEF RF!plain_data, RF!R_CTRL, RF!R_CONFIG,
         RF!R_INT_ENABLE, RF!R_INT_STATUS, RF!R_SCRATCH, RF!R_ID, R_CTRL,
         R_CONFIG, R_INT_ENABLE, R_INT_STATUS, R_SCRATCH, R_ID,
         RF!CTRL_ENABLE, CTRL_ENABLE, RF!OVERFLOW, OVERFLOW, i
  <1> HIDE DEF i
  <1>5. CASE i = R_CTRL
    BY <1>3, <1>4, <1>5 DEF rd_mux, i
  <1>6. CASE i = R_CONFIG
    BY <1>3, <1>4, <1>6 DEF rd_mux, i
  <1>7. CASE i = R_INT_ENABLE
    BY <1>3, <1>4, <1>7 DEF rd_mux, i
  <1>8. CASE i = R_INT_STATUS
    <2>1. rd_mux(i) = int_status_q
      BY <1>3, <1>8 DEF rd_mux
    <2>2. \/ int_status_q = (int_status_q \ {OVERFLOW}) \ {OVERFLOW}
          \/ int_status_q = (int_status_q \ {OVERFLOW}) \cup {OVERFLOW}
      OBVIOUS
    <2> QED
      BY <1>3, <1>4, <1>8, <2>1, <2>2 DEF i
  <1>9. CASE i = R_SCRATCH
    BY <1>3, <1>4, <1>9 DEF rd_mux, i
  <1>10. CASE i = R_ID
    BY <1>3, <1>4, <1>10 DEF rd_mux, i
  <1>11. CASE i \notin {R_CTRL, R_CONFIG, R_INT_ENABLE, R_INT_STATUS, R_SCRATCH,
                        R_ID}
    BY <1>2, <1>4, <1>11 DEF i
  <1> QED
    BY <1>5, <1>6, <1>7, <1>8, <1>9, <1>10, <1>11

LEMMA ReadPortStep ==
  ASSUME BusAssumption, WidthAssumption, IInv, IInv',
         NEW aw, NEW w, NEW bready, NEW ar, NEW rready,
         Inputs(aw, w, bready, ar, rready),
         BusClock(aw, w, bready, ar, rready)
  PROVE  /\ ~ar_hs(ar) => rView' = rView \/ rView' = <<>>
         /\ ar_hs(ar) =>
              /\ Head(ar) \in Addrs
              /\ ReadError(Head(ar)) = {} => RF!Read(bankView, Head(ar))
              /\ ReadError(Head(ar)) # {} => \A m : RF!Read(m, Head(ar))
  <1>1. /\ rvalid_q' = (ar_hs(ar) \/ (rvalid_q /\ ~rready))
        /\ rresp_q' = IF ar_hs(ar) THEN Resp(ReadError(Head(ar))) ELSE rresp_q
        /\ rdata_q' = IF ~ar_hs(ar) THEN rdata_q
                      ELSE IF ReadError(Head(ar)) # {} THEN {}
                      ELSE rd_mux(Index(Head(ar)))
        /\ arq' = Track(arq, rvalid_q /\ rready, ReadBeat(ar, ar_hs(ar)))
    BY DEF BusClock, Observe, SlaveClock, ReadChannel
  <1>2. ASSUME ~ar_hs(ar) PROVE rView' = rView \/ rView' = <<>>
    <2>1. CASE rvalid_q'
      <3>1. rvalid_q /\ ~rready
        BY <1>1, <1>2, <2>1
      <3>2. arq' = arq \o <<>>
        BY <1>1, <1>2, <3>1 DEF Track, ReadBeat
      <3>3. arq' = arq
        BY <3>2, BeatFacts DEF IInv, TypeOK, BusTypeOK, Beats
      <3>4. rdata_q' = rdata_q /\ rresp_q' = rresp_q
        BY <1>1, <1>2
      <3> QED
        BY <2>1, <3>1, <3>3, <3>4 DEF rView
    <2>2. CASE ~rvalid_q'
      BY <2>2 DEF rView
    <2> QED
      BY <2>1, <2>2
  <1>3. ASSUME ar_hs(ar)
        PROVE  /\ Head(ar) \in Addrs
               /\ ReadError(Head(ar)) = {} => RF!Read(bankView, Head(ar))
               /\ ReadError(Head(ar)) # {} => \A m : RF!Read(m, Head(ar))
    <2> DEFINE a == Head(ar)
    <2>1. a \in Addrs /\ a \in Nat
      <3>1. PICK x \in Addrs : ar = <<x>>
        BY <1>3 DEF ar_hs, Inputs, Beats
      <3> QED
        BY <3>1, BeatFacts DEF BusAssumption
    <2>2. ~rvalid_q /\ rvalid_q'
      BY <1>1, <1>3 DEF ar_hs, ARREADY, IInv, TypeOK, BusTypeOK, SlaveTypeOK
    <2>3. Head(arq').addr = a
      BY <1>3, ReadCommitFacts DEF RAddr
    <2>4. rresp_q' = RF!exp_resp(RF!read_event(a))
      BY <1>1, <1>3, <2>1, EventsAgree
    <2>5. rView = <<>> /\ rView' = <<RF!ReadResult(a, rdata_q')>>
      <3>1. rView' = <<[addr |-> Head(arq').addr, data |-> rdata_q',
                        resp |-> rresp_q']>>
        BY <2>2 DEF rView
      <3>2. rView = <<>>
        BY <2>2 DEF rView
      <3> HIDE DEF a
      <3> QED
        BY <2>3, <2>4, <3>1, <3>2, Zenon DEF RF!ReadResult
    <2>6. \A m : rdata_q' \in RF!plain_data(m, a) => RF!Read(m, a)
      BY <2>5, Zenon DEF RF!Read
    <2>7. ASSUME ReadError(a) = {} PROVE RF!Read(bankView, a)
      <3>1. rdata_q' = rd_mux(Index(a))
        BY <1>1, <1>3, <2>7
      <3>2. rd_mux(Index(a)) \in RF!plain_data(bankView, a)
        BY <2>1, <2>7, ReadDataStep DEF IInv, TypeOK, BusTypeOK
      <3> QED
        BY <2>6, <3>1, <3>2
    <2>8. ASSUME ReadError(a) # {}, NEW m PROVE RF!Read(m, a)
      <3>1. rdata_q' = {}
        BY <1>1, <1>3, <2>8
      <3>2. RF!plain_data(m, a) = {{}}
        BY <2>1, <2>8, EventsAgree DEF RF!plain_data
      <3> QED
        BY <2>6, <3>1, <3>2
    <2> QED
      BY <2>1, <2>7, <2>8
  <1> QED
    BY <1>2, <1>3

-----------------------------------------------------------------------------
(***************************************************************************)
(* One edge of the clock is a step of the register file.  When a write and *)
(* a read commit together, a read that fails goes second, so that its      *)
(* event survives a W1C write; any other goes first, and returns what the  *)
(* register held.                                                          *)
(***************************************************************************)
LEMMA ClockRefines ==
  ASSUME BusAssumption, WidthAssumption, IInv, IInv',
         NEW aw, NEW w, NEW bready, NEW ar, NEW rready,
         Inputs(aw, w, bready, ar, rready),
         BusClock(aw, w, bready, ar, rready)
  PROVE  RF!Edge
  <1> DEFINE a == wr_addr(aw)
             p == Payload(w)
             ra == Head(ar)
  <1>1. /\ ~do_write(aw, w) => bankView' = AddEvents(bankView, ReadEvents(ar))
        /\ do_write(aw, w) => bankView' = AddEvents(RF!model_write(bankView, a, p),
                                                   ReadEvents(ar))
    BY BankStep
  <1>2. /\ ~do_write(aw, w) => RF!WritePort
        /\ do_write(aw, w) => a \in Addrs /\ p \in WBeats /\ RF!Write(a, p)
    BY WritePortStep DEF RF!WritePort
  <1>3. /\ ~ar_hs(ar) => RF!ReadPort
        /\ ar_hs(ar) =>
              /\ ra \in Addrs
              /\ ReadError(ra) = {} => RF!Read(bankView, ra)
              /\ ReadError(ra) # {} => \A m : RF!Read(m, ra)
    BY ReadPortStep DEF RF!ReadPort
  <1>4. bankView = Bank(ctrl_enable, config_q, int_enable_q,
                        int_status_q \ {OVERFLOW}, scratch_q)
    BY DEF bankView, Bank
  <1>5. AddEvents(bankView, {}) = bankView
    BY <1>4, NoEventsBank
  <1>6. do_write(aw, w) =>
          AddEvents(RF!model_write(bankView, a, p), {}) =
            RF!model_write(bankView, a, p)
    <2> SUFFICES ASSUME do_write(aw, w)
                 PROVE  AddEvents(RF!model_write(bankView, a, p), {}) =
                          RF!model_write(bankView, a, p)
      OBVIOUS
    <2>1. a \in Nat
      BY <1>2 DEF BusAssumption
    <2> HIDE DEF a, p
    <2>2. RF!model_write(bankView, a, p) =
            IF WriteError(a, p.strb) # {}
              THEN AddEvents(bankView, WriteError(a, p.strb))
              ELSE Written(bankView, Index(a), p.data)
      BY <2>1, ModelIsUpdates
    <2>3. /\ \A v : AddEvents(AddEvents(bankView, v), {}) = AddEvents(bankView, v)
          /\ \A j, d : AddEvents(Written(bankView, j, d), {}) =
                        Written(bankView, j, d)
      BY NoEventsUpdates
    <2> QED
      BY <2>2, <2>3
  <1>8. /\ ~ar_hs(ar) => ReadEvents(ar) = {}
        /\ ar_hs(ar) => /\ ReadEvents(ar) = ReadError(ra)
                        /\ \A m : RF!model_read(m, ra) = AddEvents(m, ReadError(ra))
    BY <1>3, ModelIsUpdates DEF ReadEvents, BusAssumption
  <1> HIDE DEF a, p, ra
  <1>9. CASE do_write(aw, w) /\ ar_hs(ar) /\ ReadError(ra) # {}
    <2>1. RF!WriteThenRead(a, p, ra)
      BY <1>1, <1>2, <1>3, <1>8, <1>9, Zenon DEF RF!WriteThenRead
    <2> QED
      BY <1>2, <1>3, <1>9, <2>1, Zenon DEF RF!Edge
  <1>10. CASE do_write(aw, w) /\ ar_hs(ar) /\ ReadError(ra) = {}
    <2>1. RF!model_read(bankView, ra) = bankView
      BY <1>5, <1>8, <1>10
    <2>2. bankView' = RF!model_write(bankView, a, p)
      BY <1>1, <1>6, <1>8, <1>10
    <2>3. RF!ReadThenWrite(a, p, ra)
      BY <1>2, <1>3, <1>10, <2>1, <2>2, Zenon DEF RF!ReadThenWrite
    <2> QED
      BY <1>2, <1>3, <1>10, <2>3, Zenon DEF RF!Edge
  <1>11. CASE do_write(aw, w) /\ ~ar_hs(ar)
    <2>1. bankView' = RF!model_write(bankView, a, p)
      BY <1>1, <1>6, <1>8, <1>11
    <2>2. RF!WriteAlone(a, p)
      BY <1>2, <1>3, <1>11, <2>1, Zenon DEF RF!WriteAlone
    <2> QED
      BY <1>2, <1>11, <2>2, Zenon DEF RF!Edge
  <1>12. CASE ~do_write(aw, w) /\ ar_hs(ar)
    <2>1. bankView' = RF!model_read(bankView, ra)
      BY <1>1, <1>8, <1>12
    <2>2. RF!Read(bankView, ra)
      BY <1>3, <1>12
    <2>3. RF!ReadAlone(ra)
      BY <1>2, <1>12, <2>1, <2>2, Zenon DEF RF!ReadAlone
    <2> QED
      BY <1>3, <1>12, <2>3, Zenon DEF RF!Edge
  <1>13. CASE ~do_write(aw, w) /\ ~ar_hs(ar)
    <2>1. bankView' = bankView
      BY <1>1, <1>5, <1>8, <1>13
    <2> QED
      BY <1>2, <1>3, <1>13, <2>1, Zenon DEF RF!Take, RF!Edge
  <1> QED
    BY <1>9, <1>10, <1>11, <1>12, <1>13

LEMMA ResetRefines ==
  ASSUME Reset
  PROVE  RF!Reset
  <1>1. bView' = <<>> /\ rView' = <<>>
    BY DEF Reset, BusReset, SlaveReset, bView, rView
  <1>2. bankView' = RF!ResetBank
    BY DEF Reset, BusReset, SlaveReset, bankView, RF!ResetBank, CONFIG_RESET,
       RF!CONFIG_RESET, RF!Bits, Bits, OVERFLOW
  <1> QED
    BY <1>1, <1>2 DEF RF!Reset, BusReset

LEMMA InitRefines ==
  ASSUME Init
  PROVE  RF!Init
  <1>1. bView = <<>> /\ rView = <<>>
    BY DEF Init, SlaveInReset, bView, rView
  <1>2. bankView = RF!ResetBank
    BY DEF Init, SlaveInReset, bankView, RF!ResetBank, CONFIG_RESET,
       RF!CONFIG_RESET, RF!Bits, Bits, OVERFLOW
  <1> QED
    BY <1>1, <1>2 DEF RF!Init

LEMMA StepRefines ==
  ASSUME IInv, IInv', [Next]_vars
  PROVE  [RF!Next]_(RF!fileVars)
  <1>1. CASE Clock
    <2>1. PICK aw, w, bready, ar, rready :
            Inputs(aw, w, bready, ar, rready)
            /\ BusClock(aw, w, bready, ar, rready)
      BY <1>1, ClockInputs
    <2> QED
      BY <2>1, ClockRefines, BusAssumption, WidthAssumption DEF RF!Next
  <1>2. CASE Reset
    BY <1>2, ResetRefines DEF RF!Next
  <1>3. CASE UNCHANGED vars
    BY <1>3 DEF vars, slaveVars, channelVars, bankVars, busVars, RF!fileVars,
       bankView, bView, rView, OVERFLOW
  <1> QED
    BY <1>1, <1>2, <1>3 DEF Next

(***************************************************************************)
(* Software sees an atomic register file: whatever the widths, addresses   *)
(* and beats, every behaviour of the slave on its bus is one of the        *)
(* register file under the mapping of RegSlaveRefinement.                  *)
(***************************************************************************)
THEOREM Refinement == Spec => ImplementsRegFile
  <1>1. Init => RF!Init
    BY InitRefines
  <1>2. IInv /\ IInv' /\ [Next]_vars => [RF!Next]_(RF!fileVars)
    BY StepRefines
  <1> QED
    BY <1>1, <1>2, Invariance, PTL DEF Spec, ImplementsRegFile, RF!Spec
=============================================================================
