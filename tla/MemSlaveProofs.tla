--------------------------- MODULE MemSlaveProofs ---------------------------
(***************************************************************************)
(* Theorems about the memory slave on its bus and about its scoreboard,    *)
(* for every data width, number of words and lanes, and every set of       *)
(* addresses and write beats.                                              *)
(***************************************************************************)
EXTENDS MemScoreboard, AxiBusProofs

\* The array is indexed inside its bounds, whatever the address.
LEMMA WordInArray ==
  ASSUME MemAssumption, NEW a \in Nat
  PROVE  word(a) \in Bits(NUM_WORDS)
  <1> DEFINE n == a \div 4
  <1>1. n \in Nat
    BY SMT
  <1>2. NUM_WORDS \in Nat /\ NUM_WORDS > 0
    BY SMT DEF MemAssumption
  <1> HIDE DEF n
  <1>3. n % NUM_WORDS \in 0 .. NUM_WORDS - 1
    BY <1>1, <1>2, SMT
  <1> QED
    BY <1>3 DEF word, Bits, n

-----------------------------------------------------------------------------
(***************************************************************************)
(* The inductive invariant: the latches hold what the bus has accepted,    *)
(* and the response that waits is that of the accepted beats.              *)
(***************************************************************************)
LatchesHold ==
  /\ awq = IF aw_captured \/ bvalid_q THEN <<awaddr_q>> ELSE <<>>
  /\ wq = IF w_captured \/ bvalid_q
            THEN <<[data |-> wdata_q, strb |-> wstrb_q]>> ELSE <<>>
  /\ ~(aw_captured /\ w_captured)
  /\ bvalid_q => ~aw_captured /\ ~w_captured
  /\ bvalid_q => bresp_q = MemResp(awaddr_q)

ReadEarned ==
  /\ Len(arq) <= 1
  /\ rvalid_q <=> arq # <<>>
  /\ rvalid_q => rresp_q = MemResp(Head(arq).addr)
  /\ rvalid_q /\ rresp_q = SLVERR => rdata_q = {}

IInv == TypeOK /\ LatchesHold /\ ReadEarned

(***************************************************************************)
(* Type correctness of one edge.                                           *)
(***************************************************************************)
LEMMA MemTypeStep ==
  ASSUME MemAssumption, BusAssumption, MemTypeOK,
         NEW aw, NEW w, NEW bready, NEW ar, NEW rready,
         Inputs(aw, w, bready, ar, rready),
         MemClock(aw, w, bready, ar, rready)
  PROVE  MemTypeOK'
  <1>1. /\ aw # <<>> => Head(aw) \in Nat
        /\ w # <<>> => Head(w).data \in Word /\ Head(w).strb \in Strobe
        /\ ar # <<>> => Head(ar) \in Nat
    BY PayloadType DEF Inputs
  <1>2. /\ aw_captured' \in BOOLEAN /\ w_captured' \in BOOLEAN
        /\ bvalid_q' \in BOOLEAN
    BY DEF MemClock, WriteChannel
  <1>3. awaddr_q' \in Nat /\ wdata_q' \in Word /\ wstrb_q' \in Strobe
    BY <1>1 DEF MemClock, WriteChannel, MemTypeOK, aw_hs, w_hs
  <1>4. bresp_q' \in {OKAY, SLVERR}
    BY DEF MemClock, WriteChannel, MemTypeOK, MemResp
  <1>5. rvalid_q' \in BOOLEAN /\ rresp_q' \in {OKAY, SLVERR}
    BY DEF MemClock, ReadChannel, MemTypeOK, MemResp
  <1>6. rdata_q' \in Word
    <2>1. {} \in Word
      BY DEF Word
    <2>2. ar_hs(ar) => mem[word(Head(ar))] \in Word
      BY <1>1, WordInArray DEF MemTypeOK, ar_hs
    <2> QED
      BY <2>1, <2>2 DEF MemClock, ReadChannel, MemTypeOK
  <1>7. mem' \in [Bits(NUM_WORDS) -> Word]
    <2>1. do_write(aw, w) => wr_data(w) \in Word
      BY <1>1 DEF do_write, wr_data, w_hs, MemTypeOK
    <2>2. \A old, d \in Word : \A s : masked(old, d, s) \in Word
      BY DEF masked, Word
    <2> QED
      BY <2>1, <2>2 DEF MemClock, MemArray, mem_write, MemTypeOK
  <1> QED
    BY <1>2, <1>3, <1>4, <1>5, <1>6, <1>7 DEF MemTypeOK

-----------------------------------------------------------------------------
(***************************************************************************)
(* One edge keeps each half of a write in step with the queue of accepted  *)
(* beats, and the read response with the read it answers.                  *)
(***************************************************************************)
LEMMA AwStep ==
  ASSUME BusAssumption, MemTypeOK, LatchesHold,
         NEW aw, NEW w, NEW bready, NEW ar, NEW rready,
         Inputs(aw, w, bready, ar, rready),
         BusClock(aw, w, bready, ar, rready)
  PROVE  awq' = IF aw_captured' \/ bvalid_q' THEN <<awaddr_q'>> ELSE <<>>
  <1>1. /\ awaddr_q' = IF aw_hs(aw) THEN Head(aw) ELSE awaddr_q
        /\ aw_captured' = (~do_write(aw, w) /\ (aw_captured \/ aw_hs(aw)))
        /\ bvalid_q' = (do_write(aw, w) \/ (bvalid_q /\ ~bready))
        /\ awq' = Track(awq, bvalid_q /\ bready, Accepted(aw, aw_hs(aw)))
    BY DEF BusClock, Observe, MemClock, WriteChannel
  <1>2. CASE aw_hs(aw)
    <2>1. ~aw_captured /\ ~bvalid_q /\ awq = <<>>
      BY <1>2 DEF aw_hs, AWREADY, LatchesHold
    <2>2. aw = <<Head(aw)>>
      BY <1>2, PayloadType DEF aw_hs, Inputs
    <2>3. awq' = <<Head(aw)>>
      BY <1>1, <1>2, <2>1, <2>2, BeatFacts DEF Track, Accepted
    <2> QED
      BY <1>1, <1>2, <2>3
  <1>3. CASE ~aw_hs(aw) /\ bvalid_q /\ bready
    <2>1. ~aw_captured /\ awq = <<awaddr_q>>
      BY <1>3 DEF LatchesHold
    <2>2. ~do_write(aw, w)
      BY <1>3 DEF do_write
    <2>3. awq' = <<>>
      BY <1>1, <1>3, <2>1, BeatFacts DEF Track, Accepted
    <2> QED
      BY <1>1, <1>3, <2>1, <2>2, <2>3
  <1>4. CASE ~aw_hs(aw) /\ ~(bvalid_q /\ bready)
    <2>1. awq' = awq
      <3>1. awq' = awq \o <<>>
        BY <1>1, <1>4 DEF Track, Accepted
      <3> QED
        BY <3>1, BeatFacts DEF LatchesHold
    <2>2. do_write(aw, w) => aw_captured
      BY <1>4 DEF do_write
    <2> QED
      BY <1>1, <1>4, <2>1, <2>2 DEF LatchesHold
  <1> QED
    BY <1>2, <1>3, <1>4

LEMMA WStep ==
  ASSUME BusAssumption, MemTypeOK, LatchesHold,
         NEW aw, NEW w, NEW bready, NEW ar, NEW rready,
         Inputs(aw, w, bready, ar, rready),
         BusClock(aw, w, bready, ar, rready)
  PROVE  wq' = IF w_captured' \/ bvalid_q'
                 THEN <<[data |-> wdata_q', strb |-> wstrb_q']>> ELSE <<>>
  <1>1. /\ wdata_q' = IF w_hs(w) THEN Head(w).data ELSE wdata_q
        /\ wstrb_q' = IF w_hs(w) THEN Head(w).strb ELSE wstrb_q
        /\ w_captured' = (~do_write(aw, w) /\ (w_captured \/ w_hs(w)))
        /\ bvalid_q' = (do_write(aw, w) \/ (bvalid_q /\ ~bready))
        /\ wq' = Track(wq, bvalid_q /\ bready, Accepted(w, w_hs(w)))
    BY DEF BusClock, Observe, MemClock, WriteChannel
  <1>2. CASE w_hs(w)
    <2>1. ~w_captured /\ ~bvalid_q /\ wq = <<>>
      BY <1>2 DEF w_hs, WREADY, LatchesHold
    <2>2. /\ w = <<Head(w)>>
          /\ Head(w) = [data |-> Head(w).data, strb |-> Head(w).strb]
      BY <1>2, PayloadType DEF w_hs, Inputs
    <2>3. wq' = <<Head(w)>>
      BY <1>1, <1>2, <2>1, <2>2, BeatFacts DEF Track, Accepted
    <2> QED
      BY <1>1, <1>2, <2>2, <2>3
  <1>3. CASE ~w_hs(w) /\ bvalid_q /\ bready
    <2>1. ~w_captured /\ wq = <<[data |-> wdata_q, strb |-> wstrb_q]>>
      BY <1>3 DEF LatchesHold
    <2>2. ~do_write(aw, w)
      BY <1>3 DEF do_write
    <2>3. wq' = <<>>
      BY <1>1, <1>3, <2>1, BeatFacts DEF Track, Accepted
    <2> QED
      BY <1>1, <1>3, <2>1, <2>2, <2>3
  <1>4. CASE ~w_hs(w) /\ ~(bvalid_q /\ bready)
    <2>1. wq' = wq
      <3>1. wq' = wq \o <<>>
        BY <1>1, <1>4 DEF Track, Accepted
      <3> QED
        BY <3>1, BeatFacts DEF LatchesHold
    <2>2. do_write(aw, w) => w_captured
      BY <1>4 DEF do_write
    <2> QED
      BY <1>1, <1>4, <2>1, <2>2 DEF LatchesHold
  <1> QED
    BY <1>2, <1>3, <1>4

\* The write that commits on an edge is the one the latches hold after it.
LEMMA CommitIsLatched ==
  ASSUME NEW aw, NEW w, NEW bready, NEW ar, NEW rready,
         MemClock(aw, w, bready, ar, rready), do_write(aw, w)
  PROVE  /\ bvalid_q' /\ ~bvalid_q
         /\ awaddr_q' = wr_addr(aw)
         /\ wdata_q' = wr_data(w) /\ wstrb_q' = wr_strb(w)
  BY DEF MemClock, WriteChannel, wr_addr, wr_data, wr_strb, do_write, aw_hs,
         w_hs, AWREADY, WREADY

LEMMA LatchStep ==
  ASSUME BusAssumption, MemTypeOK, LatchesHold,
         NEW aw, NEW w, NEW bready, NEW ar, NEW rready,
         Inputs(aw, w, bready, ar, rready),
         BusClock(aw, w, bready, ar, rready)
  PROVE  LatchesHold'
  <1>1. /\ awaddr_q' = IF aw_hs(aw) THEN Head(aw) ELSE awaddr_q
        /\ wstrb_q' = IF w_hs(w) THEN Head(w).strb ELSE wstrb_q
        /\ aw_captured' = (~do_write(aw, w) /\ (aw_captured \/ aw_hs(aw)))
        /\ w_captured' = (~do_write(aw, w) /\ (w_captured \/ w_hs(w)))
        /\ bvalid_q' = (do_write(aw, w) \/ (bvalid_q /\ ~bready))
        /\ bresp_q' = IF do_write(aw, w) THEN MemResp(wr_addr(aw)) ELSE bresp_q
    BY DEF BusClock, Observe, MemClock, WriteChannel
  <1>2. ~(aw_captured' /\ w_captured')
    BY <1>1 DEF LatchesHold, do_write, aw_hs, w_hs, AWREADY, WREADY
  <1>3. bvalid_q' => ~aw_captured' /\ ~w_captured'
    BY <1>1 DEF LatchesHold, do_write, aw_hs, w_hs, AWREADY, WREADY
  <1>4. bvalid_q' => bresp_q' = MemResp(awaddr_q')
    <2>1. CASE do_write(aw, w)
      BY <1>1, <2>1, CommitIsLatched DEF BusClock
    <2>2. CASE ~do_write(aw, w) /\ bvalid_q
      <3>1. awaddr_q' = awaddr_q /\ wstrb_q' = wstrb_q
        BY <1>1, <2>2 DEF aw_hs, w_hs, AWREADY, WREADY
      <3> QED
        BY <1>1, <2>2, <3>1 DEF LatchesHold
    <2> QED
      BY <1>1, <2>1, <2>2
  <1> QED
    BY <1>2, <1>3, <1>4, AwStep, WStep DEF LatchesHold

LEMMA ReadStep ==
  ASSUME BusAssumption, MemTypeOK, ReadEarned, arq \in Beats(ArBeats),
         NEW aw, NEW w, NEW bready, NEW ar, NEW rready,
         Inputs(aw, w, bready, ar, rready),
         BusClock(aw, w, bready, ar, rready)
  PROVE  /\ arq' \in Beats(ArBeats) /\ ReadEarned'
         /\ ar_hs(ar) => /\ ~rvalid_q /\ rvalid_q' /\ Head(arq').addr = Head(ar)
                         /\ Head(ar) \in Addrs
         /\ ~ar_hs(ar) /\ rvalid_q' =>
              rvalid_q /\ arq' = arq /\ rdata_q' = rdata_q /\ rresp_q' = rresp_q
  <1>1. /\ rvalid_q' = (ar_hs(ar) \/ (rvalid_q /\ ~rready))
        /\ rresp_q' = IF ar_hs(ar) THEN MemResp(Head(ar)) ELSE rresp_q
        /\ rdata_q' = IF ~ar_hs(ar) THEN rdata_q
                      ELSE IF Misaligned(Head(ar)) THEN {}
                      ELSE mem[word(Head(ar))]
        /\ arq' = Track(arq, rvalid_q /\ rready, ReadBeat(ar, ar_hs(ar)))
    BY DEF BusClock, Observe, MemClock, ReadChannel
  <1>2. CASE ar_hs(ar)
    <2> DEFINE rd == [addr |-> Head(ar), writing |-> awq # <<>> \/ wq # <<>>]
    <2>1. ~rvalid_q /\ arq = <<>>
      BY <1>2 DEF ar_hs, ARREADY, ReadEarned
    <2>2. Head(ar) \in Addrs
      BY <1>2, PayloadType DEF ar_hs, Inputs
    <2>3. rd \in ArBeats /\ rd.addr = Head(ar)
      BY <2>2 DEF ArBeats
    <2>4. arq' = <<rd>>
      BY <1>1, <1>2, <2>1, BeatFacts DEF Track, ReadBeat
    <2> HIDE DEF rd
    <2>5. arq' \in Beats(ArBeats)
      BY <2>3, <2>4 DEF Beats
    <2>6. Head(arq').addr = Head(ar) /\ Len(arq') = 1 /\ arq' # <<>>
      BY <2>3, <2>4, BeatFacts
    <2>7. /\ rvalid_q' /\ rresp_q' = MemResp(Head(arq').addr)
          /\ rresp_q' = SLVERR => rdata_q' = {}
      BY <1>1, <1>2, <2>6 DEF MemResp, OKAY, SLVERR
    <2> QED
      BY <1>2, <2>1, <2>2, <2>5, <2>6, <2>7 DEF ReadEarned
  <1>3. CASE ~ar_hs(ar) /\ rvalid_q /\ rready
    <2>1. PICK x \in ArBeats : arq = <<x>>
      BY <1>3 DEF ReadEarned, Beats
    <2>2. arq' = <<>> /\ ~rvalid_q'
      BY <1>1, <1>3, <2>1, BeatFacts DEF Track, ReadBeat
    <2> QED
      BY <1>3, <2>2, BeatFacts DEF ReadEarned, Beats
  <1>4. CASE ~ar_hs(ar) /\ ~(rvalid_q /\ rready)
    <2>1. arq' = arq \o <<>>
      BY <1>1, <1>4 DEF Track, ReadBeat
    <2>2. arq' = arq
      BY <2>1, BeatFacts DEF Beats
    <2>3. rvalid_q' = rvalid_q /\ rresp_q' = rresp_q /\ rdata_q' = rdata_q
      BY <1>1, <1>4 DEF MemTypeOK
    <2> QED
      BY <1>4, <2>2, <2>3 DEF ReadEarned
  <1> QED
    BY <1>2, <1>3, <1>4

-----------------------------------------------------------------------------
LEMMA IInvInit ==
  ASSUME MemAssumption, BusAssumption, Init
  PROVE  IInv
  <1>1. MemTypeOK
    BY DEF Init, MemInReset, ChannelsInReset, MemTypeOK, Word, Strobe
  <1>2. TypeOK
    BY <1>1 DEF Init, BusIdle, TypeOK, BusTypeOK, Beats
  <1>3. LatchesHold
    BY DEF Init, BusIdle, MemInReset, ChannelsInReset, LatchesHold
  <1>4. ReadEarned
    BY BeatFacts DEF Init, BusIdle, MemInReset, ChannelsInReset, ReadEarned
  <1> QED
    BY <1>2, <1>3, <1>4 DEF IInv

LEMMA IInvReset ==
  ASSUME MemAssumption, BusAssumption, IInv, Reset
  PROVE  IInv'
  <1>1. MemTypeOK'
    BY DEF Reset, MemReset, MemTypeOK, Word, Strobe, IInv, TypeOK
  <1>2. TypeOK'
    BY <1>1 DEF Reset, BusReset, TypeOK, BusTypeOK, Beats
  <1>3. LatchesHold'
    BY DEF Reset, BusReset, MemReset, LatchesHold
  <1>4. ReadEarned'
    BY BeatFacts DEF Reset, BusReset, MemReset, ReadEarned
  <1> QED
    BY <1>2, <1>3, <1>4 DEF IInv

LEMMA IInvClock ==
  ASSUME MemAssumption, BusAssumption, IInv,
         NEW aw, NEW w, NEW bready, NEW ar, NEW rready,
         Inputs(aw, w, bready, ar, rready),
         BusClock(aw, w, bready, ar, rready)
  PROVE  IInv'
  <1>1. MemTypeOK'
    BY MemTypeStep DEF IInv, TypeOK, BusTypeOK, BusClock, Observe
  <1>2. LatchesHold'
    BY LatchStep DEF IInv, TypeOK, BusTypeOK
  <1>3. ReadEarned' /\ arq' \in Beats(ArBeats)
    BY ReadStep DEF IInv, TypeOK, BusTypeOK
  <1>4. aw_offered' \in Beats(Addrs) /\ w_offered' \in Beats(WBeats)
        /\ ar_offered' \in Beats(Addrs)
    BY DEF BusClock, Observe, Held, Inputs, Beats
  <1>5. awq' \in Beats(Addrs)
    <2>1. Accepted(aw, aw_hs(aw)) \in Beats(Addrs)
      BY DEF Accepted, Inputs, Beats
    <2>2. /\ bvalid_q /\ bready => awq # <<>>
          /\ Accepted(aw, aw_hs(aw)) # <<>> => awq = <<>>
      BY BeatFacts DEF IInv, LatchesHold, Accepted, aw_hs, AWREADY
    <2>3. awq' = Track(awq, bvalid_q /\ bready, Accepted(aw, aw_hs(aw)))
      BY DEF BusClock, Observe
    <2> QED
      BY <2>1, <2>2, <2>3, TrackType DEF IInv, TypeOK, BusTypeOK
  <1>6. wq' \in Beats(WBeats)
    <2>1. Accepted(w, w_hs(w)) \in Beats(WBeats)
      BY DEF Accepted, Inputs, Beats
    <2>2. /\ bvalid_q /\ bready => wq # <<>>
          /\ Accepted(w, w_hs(w)) # <<>> => wq = <<>>
      BY BeatFacts DEF IInv, LatchesHold, Accepted, w_hs, WREADY
    <2>3. wq' = Track(wq, bvalid_q /\ bready, Accepted(w, w_hs(w)))
      BY DEF BusClock, Observe
    <2> QED
      BY <2>1, <2>2, <2>3, TrackType DEF IInv, TypeOK, BusTypeOK
  <1> QED
    BY <1>1, <1>2, <1>3, <1>4, <1>5, <1>6 DEF IInv, TypeOK, BusTypeOK

LEMMA ClockInputs ==
  ASSUME IInv, Clock
  PROVE  \E aw, w, bready, ar, rready :
           Inputs(aw, w, bready, ar, rready) /\ BusClock(aw, w, bready, ar, rready)
  <1>1. PICK aw \in Offer(aw_offered, Addrs), w \in Offer(w_offered, WBeats),
             ar \in Offer(ar_offered, Addrs), bready \in BOOLEAN,
             rready \in BOOLEAN : BusClock(aw, w, bready, ar, rready)
    BY DEF Clock
  <1>2. Inputs(aw, w, bready, ar, rready)
    BY OfferIsBeat DEF Inputs, IInv, TypeOK, BusTypeOK
  <1> QED
    BY <1>1, <1>2

LEMMA IInvStep == MemAssumption /\ BusAssumption /\ IInv /\ [Next]_vars => IInv'
  <1> SUFFICES ASSUME MemAssumption, BusAssumption, IInv, [Next]_vars
               PROVE  IInv'
    OBVIOUS
  <1>1. CASE Clock
    BY <1>1, ClockInputs, IInvClock
  <1>2. CASE Reset
    BY <1>2, IInvReset
  <1>3. CASE UNCHANGED vars
    BY <1>3 DEF vars, memVars, memChannelVars, busVars, IInv, TypeOK, BusTypeOK,
       MemTypeOK, LatchesHold, ReadEarned
  <1> QED
    BY <1>1, <1>2, <1>3 DEF Next

LEMMA Invariance == Spec => []IInv
  <1>1. Init => IInv
    BY IInvInit, MemAssumption, BusAssumption
  <1>2. IInv /\ [Next]_vars => IInv'
    BY IInvStep, MemAssumption, BusAssumption
  <1> QED
    BY <1>1, <1>2, PTL DEF Spec

(***************************************************************************)
(* The slave's flops, its array, the offers on the bus and the queues of   *)
(* accepted beats keep their types, and no queue ever holds two beats.     *)
(***************************************************************************)
THEOREM TypeCorrect == Spec => []TypeOK
  <1>1. IInv => TypeOK
    BY DEF IInv
  <1> QED
    BY <1>1, Invariance, PTL

(***************************************************************************)
(* A write is answered exactly when both its halves have been accepted and *)
(* a read exactly when it has been, with SLVERR exactly when the address   *)
(* is misaligned; no second beat is accepted before the answer is taken.   *)
(***************************************************************************)
THEOREM ResponsesAreEarned == Spec => []ResponsesEarned
  <1>1. IInv => ResponsesEarned
    <2> SUFFICES ASSUME IInv PROVE ResponsesEarned
      OBVIOUS
    <2>1. Len(awq) <= 1 /\ Len(wq) <= 1
      BY BeatFacts DEF IInv, LatchesHold
    <2>2. bvalid_q <=> (awq # <<>> /\ wq # <<>>)
      BY BeatFacts DEF IInv, LatchesHold
    <2>3. bvalid_q => bresp_q = MemResp(Head(awq))
      BY BeatFacts DEF IInv, LatchesHold
    <2> QED
      BY <2>1, <2>2, <2>3 DEF ResponsesEarned, IInv, ReadEarned
  <1> QED
    BY <1>1, Invariance, PTL

-----------------------------------------------------------------------------
(***************************************************************************)
(* Refinement.  The abstract memory decodes the address and merges the     *)
(* lanes in its own words; it agrees with the slave on both.               *)
(***************************************************************************)
LEMMA MergesAgree ==
  ASSUME NEW old \in Word, NEW d \in Word, NEW s
  PROVE  {i \in Bits(DATA_WIDTH) : IF MF!Lane(i) \in s THEN i \in d ELSE i \in old}
           = masked(old, d, s)
  BY DEF masked, lane_bits, MF!Lane, Word

LEMMA WritesAgree ==
  ASSUME MemAssumption, MemTypeOK, NEW a \in Nat, NEW d \in Word, NEW s
  PROVE  /\ MF!Answer(a) = MemResp(a) /\ MF!Cell(a) = word(a)
         /\ MF!Written(a, [data |-> d, strb |-> s]) =
              IF Misaligned(a) THEN mem
              ELSE [mem EXCEPT ![word(a)] = masked(@, d, s)]
  <1>1. MF!Answer(a) = MemResp(a) /\ (MF!Misaligned(a) <=> Misaligned(a))
    BY DEF MF!Answer, MemResp, MF!Misaligned, Misaligned, MF!OKAY, OKAY,
           MF!SLVERR, SLVERR
  <1>2. MF!Cell(a) = word(a)
    BY DEF MF!Cell, word
  <1> DEFINE beat == [data |-> d, strb |-> s]
             new  == {i \in Bits(DATA_WIDTH) :
                        IF MF!Lane(i) \in beat.strb THEN i \in beat.data
                        ELSE i \in mem[word(a)]}
  <1>3. new = masked(mem[word(a)], d, s)
    <2>1. mem[word(a)] \in Word
      BY WordInArray DEF MemTypeOK
    <2>2. beat.data = d /\ beat.strb = s
      OBVIOUS
    <2> HIDE DEF beat
    <2> QED
      BY <2>1, <2>2, MergesAgree
  <1>4. MF!Written(a, beat) =
          IF Misaligned(a) THEN mem ELSE [mem EXCEPT ![word(a)] = new]
    BY <1>1, <1>2, Zenon DEF MF!Written, MF!Bits, Bits
  <1> HIDE DEF beat, new
  <1>5. MF!Written(a, beat) =
          IF Misaligned(a) THEN mem
          ELSE [mem EXCEPT ![word(a)] = masked(@, d, s)]
    BY <1>3, <1>4, Zenon
  <1> QED
    BY <1>1, <1>2, <1>5 DEF beat

Payload(w) == [data |-> wr_data(w), strb |-> wr_strb(w)]

LEMMA WritePortStep ==
  ASSUME MemAssumption, BusAssumption, IInv, IInv',
         NEW aw, NEW w, NEW bready, NEW ar, NEW rready,
         Inputs(aw, w, bready, ar, rready),
         BusClock(aw, w, bready, ar, rready)
  PROVE  /\ ~do_write(aw, w) => mem' = mem /\ (bView' = bView \/ bView' = <<>>)
         /\ do_write(aw, w) => /\ wr_addr(aw) \in Addrs /\ Payload(w) \in WBeats
                               /\ MF!Write(wr_addr(aw), Payload(w))
  <1> DEFINE a == wr_addr(aw)
             p == Payload(w)
  <1>1. /\ bvalid_q' = (do_write(aw, w) \/ (bvalid_q /\ ~bready))
        /\ bresp_q' = IF do_write(aw, w) THEN MemResp(wr_addr(aw)) ELSE bresp_q
        /\ MemArray(aw, w)
    BY DEF BusClock, MemClock, WriteChannel
  <1>2. ASSUME ~do_write(aw, w)
        PROVE  mem' = mem /\ (bView' = bView \/ bView' = <<>>)
    <2>1. mem' = mem
      BY <1>1, <1>2 DEF MemArray, mem_write
    <2>2. CASE bvalid_q'
      <3>1. bvalid_q /\ ~bready /\ bresp_q' = bresp_q
        BY <1>1, <1>2, <2>2
      <3>2. awq' = awq /\ wq' = wq
        <4>1. ~aw_hs(aw) /\ ~w_hs(w)
          BY <3>1 DEF aw_hs, w_hs, AWREADY, WREADY
        <4>2. awq' = awq \o <<>> /\ wq' = wq \o <<>>
          BY <3>1, <4>1 DEF BusClock, Observe, Track, Accepted
        <4> QED
          BY <4>2, BeatFacts DEF IInv, LatchesHold
      <3> QED
        BY <2>1, <2>2, <3>1, <3>2 DEF bView
    <2>3. CASE ~bvalid_q'
      BY <2>1, <2>3 DEF bView
    <2> QED
      BY <2>2, <2>3
  <1>3. ASSUME do_write(aw, w)
        PROVE  a \in Addrs /\ p \in WBeats /\ MF!Write(a, p)
    <2>1. /\ ~bvalid_q /\ bvalid_q' /\ awaddr_q' = a
          /\ wdata_q' = wr_data(w) /\ wstrb_q' = wr_strb(w)
      BY <1>3, CommitIsLatched DEF BusClock
    <2>2. awq' = <<a>> /\ wq' = <<p>>
      BY <2>1 DEF IInv, LatchesHold, Payload
    <2>3. a \in Addrs /\ p \in WBeats
      <3>1. awq' \in Beats(Addrs) /\ wq' \in Beats(WBeats)
        BY DEF IInv, TypeOK, BusTypeOK
      <3> HIDE DEF a, p
      <3>2. PICK x \in Addrs : awq' = <<x>>
        BY <2>2, <3>1, BeatFacts DEF Beats
      <3>3. PICK y \in WBeats : wq' = <<y>>
        BY <2>2, <3>1, BeatFacts DEF Beats
      <3> QED
        BY <2>2, <3>2, <3>3, BeatFacts
    <2>4. a \in Nat /\ wr_data(w) \in Word
      BY <2>1 DEF IInv, TypeOK, MemTypeOK
    <2>5. mem' = MF!Written(a, p)
      <3>1. MF!Written(a, p) =
              IF Misaligned(a) THEN mem
              ELSE [mem EXCEPT ![word(a)] = masked(@, wr_data(w), wr_strb(w))]
        BY <2>4, WritesAgree DEF IInv, TypeOK, Payload
      <3> QED
        BY <1>1, <1>3, <3>1, Zenon DEF MemArray, mem_write
    <2>6. bView = <<>> /\ bView' = <<[addr |-> a, beat |-> p, resp |-> MF!Answer(a)]>>
      <3>1. bresp_q' = MF!Answer(a)
        BY <1>1, <1>3, <2>4, WritesAgree DEF IInv, TypeOK
      <3>2. Head(awq') = a /\ Head(wq') = p
        BY <2>2, BeatFacts
      <3> HIDE DEF a, p
      <3> QED
        BY <2>1, <3>1, <3>2, Zenon DEF bView
    <2> HIDE DEF a, p
    <2> QED
      BY <2>3, <2>5, <2>6, Zenon DEF MF!Write
  <1> QED
    BY <1>2, <1>3

LEMMA ReadPortStep ==
  ASSUME MemAssumption, BusAssumption, IInv, IInv',
         NEW aw, NEW w, NEW bready, NEW ar, NEW rready,
         Inputs(aw, w, bready, ar, rready),
         BusClock(aw, w, bready, ar, rready)
  PROVE  /\ ~ar_hs(ar) => rView' = rView \/ rView' = <<>>
         /\ ar_hs(ar) => Head(ar) \in Addrs /\ MF!Read(Head(ar))
  <1> DEFINE a == Head(ar)
  <1>1. /\ ar_hs(ar) => /\ ~rvalid_q /\ rvalid_q' /\ Head(arq').addr = a
                        /\ a \in Addrs
        /\ ~ar_hs(ar) /\ rvalid_q' =>
             rvalid_q /\ arq' = arq /\ rdata_q' = rdata_q /\ rresp_q' = rresp_q
    BY ReadStep DEF IInv, TypeOK, BusTypeOK
  <1>2. ASSUME ~ar_hs(ar) PROVE rView' = rView \/ rView' = <<>>
    BY <1>1, <1>2 DEF rView
  <1>3. ASSUME ar_hs(ar) PROVE MF!Read(a)
    <2>1. a \in Nat
      BY <1>1, <1>3 DEF BusAssumption
    <2>2. /\ rresp_q' = MF!Answer(a) /\ MF!Cell(a) = word(a)
          /\ MF!Misaligned(a) <=> Misaligned(a)
      <3>1. rresp_q' = MemResp(a)
        BY <1>3 DEF BusClock, MemClock, ReadChannel
      <3> QED
        BY <2>1, <3>1, WritesAgree DEF IInv, TypeOK, MemTypeOK, MF!Misaligned,
           Misaligned
    <2>3. rdata_q' = IF Misaligned(a) THEN {} ELSE mem[word(a)]
      BY <1>3 DEF BusClock, MemClock, ReadChannel
    <2>4. rView = <<>> /\ rView' = <<[addr |-> a, data |-> rdata_q',
                                      resp |-> rresp_q']>>
      BY <1>1, <1>3, Zenon DEF rView
    <2>5. <<[addr |-> a, data |-> rdata_q', resp |-> rresp_q']>> =
            <<[addr |-> a, resp |-> MF!Answer(a),
               data |-> IF MF!Misaligned(a) THEN {} ELSE mem[MF!Cell(a)]]>>
      BY <2>2, <2>3
    <2> HIDE DEF a
    <2> QED
      BY <2>4, <2>5 DEF MF!Read
  <1> QED
    BY <1>1, <1>2, <1>3

\* One edge of the clock is a step of the abstract memory: when a read and a
\* write commit together the read goes first.
LEMMA ClockRefines ==
  ASSUME MemAssumption, BusAssumption, IInv, IInv',
         NEW aw, NEW w, NEW bready, NEW ar, NEW rready,
         Inputs(aw, w, bready, ar, rready),
         BusClock(aw, w, bready, ar, rready)
  PROVE  MF!Edge
  <1> DEFINE a == wr_addr(aw)
             p == Payload(w)
             ra == Head(ar)
  <1>1. /\ ~do_write(aw, w) => MF!WritePort /\ mem' = mem
        /\ do_write(aw, w) => a \in Addrs /\ p \in WBeats /\ MF!Write(a, p)
    BY WritePortStep DEF MF!WritePort
  <1>2. /\ ~ar_hs(ar) => MF!ReadPort
        /\ ar_hs(ar) => ra \in Addrs /\ MF!Read(ra)
    BY ReadPortStep DEF MF!ReadPort
  <1> HIDE DEF a, p, ra
  <1>3. CASE do_write(aw, w) /\ ar_hs(ar)
    BY <1>1, <1>2, <1>3, Zenon DEF MF!ReadThenWrite, MF!Edge
  <1>4. CASE do_write(aw, w) /\ ~ar_hs(ar)
    BY <1>1, <1>2, <1>4, Zenon DEF MF!WriteAlone, MF!Edge
  <1>5. CASE ~do_write(aw, w) /\ ar_hs(ar)
    BY <1>1, <1>2, <1>5, Zenon DEF MF!ReadAlone, MF!Edge
  <1>6. CASE ~do_write(aw, w) /\ ~ar_hs(ar)
    BY <1>1, <1>2, <1>6, Zenon DEF MF!Take, MF!Edge
  <1> QED
    BY <1>3, <1>4, <1>5, <1>6

LEMMA StepRefines ==
  ASSUME IInv, IInv', [Next]_vars
  PROVE  [MF!Next]_(MF!fileVars)
  <1>1. CASE Clock
    BY <1>1, ClockInputs, ClockRefines, BusAssumption, MemAssumption DEF MF!Next
  <1>2. CASE Reset
    BY <1>2 DEF Reset, MemReset, bView, rView, MF!Reset, MF!Next
  <1>3. CASE UNCHANGED vars
    BY <1>3 DEF vars, memVars, memChannelVars, busVars, MF!fileVars, bView, rView
  <1> QED
    BY <1>1, <1>2, <1>3 DEF Next

(***************************************************************************)
(* Software sees an atomic memory that reset does not touch: whatever the  *)
(* widths, the size, the addresses and the beats, every behaviour of the   *)
(* slave on its bus is one of the abstract memory.                         *)
(***************************************************************************)
THEOREM Refinement == Spec => ImplementsMemFile
  <1>1. Init => MF!Init
    BY DEF Init, MemInReset, ChannelsInReset, MF!Init, MF!Bits, Bits, MF!Word,
           Word, bView, rView
  <1>2. IInv /\ IInv' /\ [Next]_vars => [MF!Next]_(MF!fileVars)
    BY StepRefines
  <1> QED
    BY <1>1, <1>2, Invariance, PTL DEF Spec, ImplementsMemFile, MF!Spec

-----------------------------------------------------------------------------
(***************************************************************************)
(* The scoreboard under the traffic of the repository's sequences.  Its    *)
(* model lags the array by the one write that has committed and whose      *)
(* response is still waiting; with that write applied to the model, array  *)
(* and model agree on every lane the model then calls defined.             *)
(***************************************************************************)
Pending(k) == bvalid_q /\ ~Misaligned(awaddr_q) /\ k = word(awaddr_q)

pending_mem(k) ==
  IF Pending(k) THEN masked(m_mem[k], wdata_q, wstrb_q) ELSE m_mem[k]
pending_valid(k) ==
  IF Pending(k) THEN m_mem_valid[k] \cup wstrb_q ELSE m_mem_valid[k]

ModelTypeOK ==
  m_mem \in [Words -> Word] /\ m_mem_valid \in [Words -> Strobe]

ModelAgrees ==
  \A k \in Words :
    mem[k] \cap lane_bits(pending_valid(k))
      = pending_mem(k) \cap lane_bits(pending_valid(k))

NoOverlap == arq # <<>> => awq = <<>> /\ wq = <<>>

ReadIsCurrent ==
  rvalid_q =>
    rdata_q = IF Misaligned(Head(arq).addr) THEN {} ELSE mem[word(Head(arq).addr)]

SInv ==
  /\ IInv /\ ModelTypeOK /\ ModelAgrees /\ NoOverlap /\ ReadIsCurrent
  /\ mismatch = {}

\* Merging the same lanes into two words that agree on some lanes makes them
\* agree on those lanes and the merged ones.
LEMMA MergeKeepsAgreement ==
  ASSUME NEW x, NEW y, NEW v, NEW d, NEW s,
         x \cap lane_bits(v) = y \cap lane_bits(v)
  PROVE  masked(x, d, s) \cap lane_bits(v \cup s)
           = masked(y, d, s) \cap lane_bits(v \cup s)
  <1>1. lane_bits(v \cup s) = lane_bits(v) \cup lane_bits(s)
    BY DEF lane_bits
  <1> QED
    BY <1>1 DEF masked

LEMMA DecodesAgree ==
  \A a : /\ model_word(a) = word(a) /\ exp_resp(a) = MemResp(a)
         /\ exp_resp(a) = OKAY <=> ~Misaligned(a)
  BY DEF model_word, word, exp_resp, MemResp, Misaligned, OKAY, SLVERR

\* The write that the monitor publishes when its response is taken.
LEMMA PublishedWrite ==
  ASSUME IInv, bvalid_q
  PROVE  /\ Head(awq) = awaddr_q /\ awaddr_q \in Nat
         /\ Head(wq).data = wdata_q /\ Head(wq).strb = wstrb_q
         /\ awq # <<>>
         /\ wdata_q \in Word /\ wstrb_q \in Strobe
         /\ WriteMismatch(Head(awq)) = {}
  <1>1. Head(awq) = awaddr_q /\ awq # <<>> /\ bresp_q = MemResp(awaddr_q)
    BY BeatFacts DEF IInv, LatchesHold
  <1>2. Head(wq).data = wdata_q /\ Head(wq).strb = wstrb_q
    <2>1. Head(wq) = [data |-> wdata_q, strb |-> wstrb_q]
      BY BeatFacts DEF IInv, LatchesHold
    <2> QED
      BY <2>1
  <1>3. WriteMismatch(Head(awq)) = {}
    BY <1>1, DecodesAgree DEF WriteMismatch
  <1> QED
    BY <1>1, <1>2, <1>3 DEF IInv, TypeOK, MemTypeOK

\* The read that is published finds what the model holds.
LEMMA PublishedRead ==
  ASSUME MemAssumption, BusAssumption, SInv, rvalid_q
  PROVE  ReadMismatch(Head(arq).addr, m_mem, m_mem_valid) = {} /\ ~bvalid_q
  <1> DEFINE a == Head(arq).addr
             k == word(a)
  <1>1. arq # <<>> /\ rresp_q = MemResp(a)
    BY DEF SInv, IInv, ReadEarned
  <1>2. ~bvalid_q
    BY <1>1, PublishedWrite DEF SInv, NoOverlap
  <1>3. k \in Words
    <2>1. PICK x \in ArBeats : arq = <<x>>
      BY <1>1 DEF SInv, IInv, TypeOK, BusTypeOK, Beats
    <2>2. a \in Nat
      BY <2>1, BeatFacts DEF ArBeats, BusAssumption
    <2> QED
      BY <2>2, WordInArray DEF Words
  <1>4. mem[k] \cap lane_bits(m_mem_valid[k]) = m_mem[k] \cap lane_bits(m_mem_valid[k])
    BY <1>2, <1>3 DEF SInv, ModelAgrees, pending_mem, pending_valid, Pending
  <1>5. rdata_q = IF Misaligned(a) THEN {} ELSE mem[k]
    BY DEF SInv, ReadIsCurrent
  <1> HIDE DEF a, k
  <1>6. DataAgrees(a, m_mem, m_mem_valid)
    BY <1>4, <1>5, DecodesAgree DEF DataAgrees, k
  <1>7. rresp_q = exp_resp(a)
    BY <1>1, DecodesAgree
  <1> QED
    BY <1>2, <1>6, <1>7 DEF ReadMismatch, a

LEMMA ModelStep ==
  ASSUME MemAssumption, BusAssumption, SInv, IInv',
         NEW aw, NEW w, NEW bready, NEW ar, NEW rready,
         Inputs(aw, w, bready, ar, rready),
         BusClock(aw, w, bready, ar, rready), Publish(bready, rready)
  PROVE  ModelTypeOK' /\ ModelAgrees'
  <1>1. /\ bvalid_q' = (do_write(aw, w) \/ (bvalid_q /\ ~bready))
        /\ awaddr_q' = IF aw_hs(aw) THEN Head(aw) ELSE awaddr_q
        /\ wdata_q'  = IF w_hs(w) THEN Head(w).data ELSE wdata_q
        /\ wstrb_q'  = IF w_hs(w) THEN Head(w).strb ELSE wstrb_q
        /\ MemArray(aw, w)
    BY DEF BusClock, MemClock, WriteChannel
  <1>2. CASE bvalid_q /\ bready
    <2>1. check_write_mem(Head(awq), Head(wq))
      BY <1>2 DEF Publish
    <2>2. ~bvalid_q' /\ mem' = mem
      BY <1>1, <1>2 DEF do_write, MemArray, mem_write
    <2>3. CASE Misaligned(awaddr_q)
      <3>1. m_mem' = m_mem /\ m_mem_valid' = m_mem_valid
        BY <1>2, <2>1, <2>3, PublishedWrite, DecodesAgree DEF check_write_mem, SInv
      <3> QED
        BY <2>2, <2>3, <3>1 DEF SInv, ModelTypeOK, ModelAgrees, pending_mem,
           pending_valid, Pending
    <2>4. CASE ~Misaligned(awaddr_q)
      <3> DEFINE j == word(awaddr_q)
      <3>1. /\ m_mem' = [m_mem EXCEPT ![j] = masked(@, wdata_q, wstrb_q)]
            /\ m_mem_valid' = [m_mem_valid EXCEPT ![j] = @ \cup wstrb_q]
        BY <1>2, <2>1, <2>4, PublishedWrite, DecodesAgree
        DEF check_write_mem, SInv, masked, defines
      <3>2. /\ \A x, y \in Word : \A s : masked(x, y, s) \in Word
            /\ \A x, y \in Strobe : x \cup y \in Strobe
            /\ wdata_q \in Word /\ wstrb_q \in Strobe
        BY <1>2, PublishedWrite DEF masked, Word, Strobe, SInv
      <3>3. ModelTypeOK'
        BY <3>1, <3>2 DEF SInv, ModelTypeOK
      <3>4. \A k \in Words : /\ m_mem'[k] = pending_mem(k)
                             /\ m_mem_valid'[k] = pending_valid(k)
        BY <1>2, <2>4, <3>1 DEF SInv, ModelTypeOK, pending_mem, pending_valid,
           Pending
      <3>5. \A k \in Words : /\ pending_mem(k)' = m_mem'[k]
                             /\ pending_valid(k)' = m_mem_valid'[k]
        BY <2>2 DEF pending_mem, pending_valid, Pending
      <3> QED
        BY <2>2, <3>3, <3>4, <3>5 DEF SInv, ModelAgrees
    <2> QED
      BY <2>3, <2>4
  <1>3. CASE do_write(aw, w)
    <2>1. ~bvalid_q /\ m_mem' = m_mem /\ m_mem_valid' = m_mem_valid
      BY <1>3 DEF do_write, Publish
    <2>2. /\ bvalid_q' /\ awaddr_q' = wr_addr(aw)
          /\ wdata_q' = wr_data(w) /\ wstrb_q' = wr_strb(w)
      BY <1>3, CommitIsLatched DEF BusClock
    <2>3. \A k \in Words : mem[k] \cap lane_bits(m_mem_valid[k])
                             = m_mem[k] \cap lane_bits(m_mem_valid[k])
      BY <2>1 DEF SInv, ModelAgrees, pending_mem, pending_valid, Pending
    <2>4. mem' = IF Misaligned(awaddr_q') THEN mem
                 ELSE [mem EXCEPT ![word(awaddr_q')] = masked(@, wdata_q', wstrb_q')]
      BY <1>1, <1>3, <2>2 DEF MemArray, mem_write
    <2>5. ASSUME NEW k \in Words
          PROVE  mem'[k] \cap lane_bits(pending_valid(k)')
                   = pending_mem(k)' \cap lane_bits(pending_valid(k)')
      <3>1. CASE ~Misaligned(awaddr_q') /\ k = word(awaddr_q')
        <4>1. mem'[k] = masked(mem[k], wdata_q', wstrb_q')
          BY <2>4, <3>1 DEF SInv, IInv, TypeOK, MemTypeOK, Words
        <4>2. /\ pending_mem(k)' = masked(m_mem[k], wdata_q', wstrb_q')
              /\ pending_valid(k)' = m_mem_valid[k] \cup wstrb_q'
          BY <2>1, <2>2, <3>1 DEF pending_mem, pending_valid, Pending, masked,
             lane_bits
        <4> QED
          BY <2>3, <4>1, <4>2, MergeKeepsAgreement
      <3>2. CASE Misaligned(awaddr_q') \/ k # word(awaddr_q')
        <4>1. mem'[k] = mem[k]
          BY <2>4, <3>2 DEF SInv, IInv, TypeOK, MemTypeOK, Words
        <4>2. pending_mem(k)' = m_mem[k] /\ pending_valid(k)' = m_mem_valid[k]
          BY <2>1, <3>2 DEF pending_mem, pending_valid, Pending
        <4> QED
          BY <2>3, <4>1, <4>2
      <3> QED
        BY <3>1, <3>2
    <2>6. ModelAgrees'
      BY <2>5 DEF ModelAgrees, Words, lane_bits
    <2> QED
      BY <2>1, <2>6 DEF SInv, ModelTypeOK
  <1>4. CASE ~do_write(aw, w) /\ ~(bvalid_q /\ bready)
    <2>1. /\ m_mem' = m_mem /\ m_mem_valid' = m_mem_valid /\ mem' = mem
          /\ bvalid_q' = bvalid_q
      BY <1>1, <1>4 DEF Publish, MemArray, mem_write, SInv, IInv, TypeOK, MemTypeOK
    <2>2. bvalid_q => awaddr_q' = awaddr_q /\ wdata_q' = wdata_q /\ wstrb_q' = wstrb_q
      BY <1>1 DEF aw_hs, w_hs, AWREADY, WREADY
    <2>3. \A k : pending_mem(k)' = pending_mem(k) /\ pending_valid(k)' = pending_valid(k)
      BY <2>1, <2>2 DEF pending_mem, pending_valid, Pending
    <2> QED
      BY <2>1, <2>3 DEF SInv, ModelTypeOK, ModelAgrees
  <1> QED
    BY <1>2, <1>3, <1>4

LEMMA SerialStep ==
  ASSUME MemAssumption, BusAssumption, SInv, IInv',
         NEW aw, NEW w, NEW bready, NEW ar, NEW rready,
         Inputs(aw, w, bready, ar, rready), OneKind(aw, w, ar),
         BusClock(aw, w, bready, ar, rready), Publish(bready, rready)
  PROVE  SInv'
  <1>1. ModelTypeOK' /\ ModelAgrees'
    BY ModelStep
  <1>2. /\ ar_hs(ar) => ~rvalid_q /\ rvalid_q' /\ Head(arq').addr = Head(ar)
        /\ ~ar_hs(ar) /\ rvalid_q' =>
             rvalid_q /\ arq' = arq /\ rdata_q' = rdata_q
        /\ rvalid_q' <=> arq' # <<>>
    BY ReadStep DEF SInv, IInv, TypeOK, BusTypeOK, ReadEarned
  <1>3. rvalid_q' => aw = <<>> /\ w = <<>> /\ awq = <<>> /\ wq = <<>>
    BY <1>2 DEF OneKind, ar_hs, SInv, IInv, ReadEarned
  <1>4. rvalid_q' => ~aw_hs(aw) /\ ~w_hs(w) /\ ~bvalid_q /\ ~aw_captured
    BY <1>3, BeatFacts DEF aw_hs, w_hs, SInv, IInv, LatchesHold
  <1>5. NoOverlap'
    <2> SUFFICES ASSUME rvalid_q' PROVE awq' = <<>> /\ wq' = <<>>
      BY <1>2 DEF NoOverlap
    <2>1. awq' = <<>> \o <<>> /\ wq' = <<>> \o <<>>
      BY <1>3, <1>4 DEF BusClock, Observe, Track, Accepted
    <2> QED
      BY <2>1, BeatFacts
  <1>6. ReadIsCurrent'
    <2> SUFFICES ASSUME rvalid_q'
                 PROVE  rdata_q' = IF Misaligned(Head(arq').addr) THEN {}
                                   ELSE mem'[word(Head(arq').addr)]
      BY DEF ReadIsCurrent, Misaligned, word
    <2>1. mem' = mem
      BY <1>4 DEF BusClock, MemClock, MemArray, mem_write, do_write
    <2>2. CASE ar_hs(ar)
      BY <1>2, <2>1, <2>2 DEF BusClock, MemClock, ReadChannel
    <2>3. CASE ~ar_hs(ar)
      BY <1>2, <2>1, <2>3 DEF SInv, ReadIsCurrent
    <2> QED
      BY <2>2, <2>3
  <1>7. mismatch' = {}
    <2>1. bvalid_q => WriteMismatch(Head(awq)) = {}
      BY PublishedWrite DEF SInv
    <2>2. rvalid_q => /\ ReadMismatch(Head(arq).addr, m_mem, m_mem_valid) = {}
                      /\ m_mem' = m_mem /\ m_mem_valid' = m_mem_valid
      BY PublishedRead DEF Publish
    <2>3. PICK writeFirst \in BOOLEAN :
            mismatch' = mismatch
              \cup (IF bvalid_q /\ bready THEN WriteMismatch(Head(awq)) ELSE {})
              \cup (IF ~(rvalid_q /\ rready) THEN {}
                    ELSE IF writeFirst
                      THEN ReadMismatch(Head(arq).addr, m_mem', m_mem_valid')
                    ELSE ReadMismatch(Head(arq).addr, m_mem, m_mem_valid))
      BY DEF Publish
    <2> QED
      BY <2>1, <2>2, <2>3 DEF SInv
  <1> QED
    BY <1>1, <1>5, <1>6, <1>7 DEF SInv

LEMMA DirectedResetStep ==
  ASSUME MemAssumption, BusAssumption, SInv, DirectedReset
  PROVE  SInv'
  <1>1. IInv'
    BY IInvReset DEF SInv, DirectedReset, SbReset
  <1>2. /\ ~bvalid_q /\ ~bvalid_q' /\ ~rvalid_q' /\ mem' = mem
        /\ m_mem' = m_mem /\ m_mem_valid' = m_mem_valid /\ mismatch' = mismatch
        /\ awq' = <<>> /\ wq' = <<>>
    BY DEF DirectedReset, SbReset, Reset, MemReset, BusReset
  <1>3. ModelAgrees'
    BY <1>2 DEF SInv, ModelAgrees, pending_mem, pending_valid, Pending
  <1> QED
    BY <1>1, <1>2, <1>3 DEF SInv, ModelTypeOK, NoOverlap, ReadIsCurrent

LEMMA SInvariance == DirectedSpec => []SInv
  <1>1. SbInit => SInv
    <2> SUFFICES ASSUME SbInit PROVE SInv
      OBVIOUS
    <2>1. IInv
      BY IInvInit, MemAssumption, BusAssumption DEF SbInit
    <2>2. ModelTypeOK
      BY DEF SbInit, ModelTypeOK, Word, Strobe
    <2>3. ModelAgrees
      <3>1. \A k \in Words : ~Pending(k) /\ lane_bits(m_mem_valid[k]) = {}
        BY DEF SbInit, Init, MemInReset, ChannelsInReset, Pending, lane_bits
      <3> QED
        BY <3>1 DEF ModelAgrees, pending_mem, pending_valid
    <2> QED
      BY <2>1, <2>2, <2>3 DEF SInv, SbInit, Init, BusIdle, MemInReset,
         ChannelsInReset, NoOverlap, ReadIsCurrent
  <1>2. SInv /\ [SerialClock \/ DirectedReset]_sbVars => SInv'
    <2> SUFFICES ASSUME SInv, [SerialClock \/ DirectedReset]_sbVars PROVE SInv'
      OBVIOUS
    <2> USE MemAssumption, BusAssumption
    <2>1. CASE SerialClock
      <3>1. PICK aw \in Offer(aw_offered, Addrs), w \in Offer(w_offered, WBeats),
                 ar \in Offer(ar_offered, Addrs), bready \in BOOLEAN,
                 rready \in BOOLEAN :
              /\ OneKind(aw, w, ar)
              /\ BusClock(aw, w, bready, ar, rready)
              /\ Publish(bready, rready)
        BY <2>1 DEF SerialClock
      <3>2. Inputs(aw, w, bready, ar, rready)
        BY OfferIsBeat DEF Inputs, SInv, IInv, TypeOK, BusTypeOK
      <3>3. IInv'
        BY <3>1, <3>2, IInvClock DEF SInv
      <3> QED
        BY <3>1, <3>2, <3>3, SerialStep
    <2>2. CASE DirectedReset
      BY <2>2, DirectedResetStep
    <2>3. CASE UNCHANGED sbVars
      <3>1. IInv'
        BY <2>3, IInvStep DEF sbVars, SInv
      <3> QED
        BY <2>3, <3>1 DEF sbVars, vars, memVars, memChannelVars, busVars, SInv,
           ModelTypeOK, ModelAgrees, pending_mem, pending_valid, Pending,
           NoOverlap, ReadIsCurrent
    <2> QED
      BY <2>1, <2>2, <2>3
  <1> QED
    BY <1>1, <1>2, PTL DEF DirectedSpec

(***************************************************************************)
(* Whatever the size of the memory and the traffic, as long as reads and   *)
(* writes take turns and no reset falls between a write's commit and its   *)
(* response, the scoreboard accuses the memory of nothing.                 *)
(***************************************************************************)
THEOREM MemoryNeverAccused == DirectedSpec => []NoMismatch
  <1>1. SInv => NoMismatch
    BY DEF SInv, NoMismatch
  <1> QED
    BY <1>1, SInvariance, PTL

(***************************************************************************)
(* Between writes, model and array agree on every lane the model calls     *)
(* defined.                                                                *)
(***************************************************************************)
THEOREM DefinedLanesAlwaysAgree == DirectedSpec => []DefinedLanesAgree
  <1>1. SInv => DefinedLanesAgree
    <2> SUFFICES ASSUME SInv, awq = <<>> PROVE DefinedLanesAgree
      BY DEF DefinedLanesAgree
    <2>1. ~bvalid_q
      BY PublishedWrite DEF SInv
    <2> QED
      BY <2>1 DEF SInv, ModelAgrees, pending_mem, pending_valid, Pending,
         DefinedLanesAgree
  <1> QED
    BY <1>1, SInvariance, PTL
=============================================================================
