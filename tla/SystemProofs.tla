---------------------------- MODULE SystemProofs ----------------------------
(***************************************************************************)
(* Theorems about the three RTL modules together, for every width, every   *)
(* memory map of two adjacent regions, every size of the memory and every  *)
(* set of addresses and beats.  What the proofs of the parts establish in  *)
(* any surroundings is cited here, not proved again.                       *)
(***************************************************************************)
EXTENDS System, RegSlaveProofs

IcP == INSTANCE InterconnectProofs WITH
  bresp_q <- ic_bresp_q, rdata_q <- ic_rdata_q, rresp_q <- ic_rresp_q,
  aw_offered <- s_aw_offered, w_offered <- s_w_offered,
  ar_offered <- s_ar_offered, awq <- s_awq, wq <- s_wq, arq <- s_arq,
  port <- portView, w_answers <- wAnswerView, r_answers <- rAnswerView,
  RBeats <- ReadAnswers

\* Its scoreboard has no part in what follows.
MemP == INSTANCE MemSlaveProofs WITH
  aw_captured <- mem_aw_captured, w_captured <- mem_w_captured,
  awaddr_q <- mem_awaddr_q, wdata_q <- mem_wdata_q, wstrb_q <- mem_wstrb_q,
  bvalid_q <- mem_bvalid_q, bresp_q <- mem_bresp_q,
  rvalid_q <- mem_rvalid_q, rresp_q <- mem_rresp_q, rdata_q <- mem_rdata_q,
  aw_offered <- mem_aw_offered, w_offered <- mem_w_offered,
  ar_offered <- mem_ar_offered, awq <- mem_awq, wq <- mem_wq, arq <- mem_arq,
  m_mem <- <<>>, m_mem_valid <- <<>>, mismatch <- {}

-----------------------------------------------------------------------------
(***************************************************************************)
(* How the states of the three go together.  These slaves are always ready *)
(* when the interconnect turns to them, so a state that forwards, and one  *)
(* that waits for the answer, last one edge each: no slave latches a half, *)
(* nothing stays on offer at a slave port, and a response is up exactly    *)
(* while the interconnect waits for it.                                    *)
(***************************************************************************)
WriteCoupling ==
  /\ ~aw_captured /\ ~w_captured /\ ~mem_aw_captured /\ ~mem_w_captured
  /\ aw_offered = <<>> /\ w_offered = <<>>
  /\ mem_aw_offered = <<>> /\ mem_w_offered = <<>>
  /\ wstate = Ic!W_FWD => ~aw_sent /\ ~w_sent
  /\ wstate \in {Ic!W_FWD, Ic!W_WAIT_B} => w_dest_q \in {DEST_REG, DEST_MEM}
  /\ bvalid_q = Ic!M_BREADY(DEST_REG)
  /\ mem_bvalid_q = Ic!M_BREADY(DEST_MEM)
  /\ awq = Carried(bvalid_q, aw_addr_q)
  /\ wq = Carried(bvalid_q, [data |-> w_data_q, strb |-> w_strb_q])
  /\ mem_awq = Carried(mem_bvalid_q, aw_addr_q)
  /\ mem_wq = Carried(mem_bvalid_q, [data |-> w_data_q, strb |-> w_strb_q])

\* One read beat in a queue, or none.
OneRead(q, valid, a) ==
  IF valid THEN \E o : q = <<[addr |-> a, writing |-> o]>> ELSE q = <<>>

ReadCoupling ==
  /\ ar_offered = <<>> /\ mem_ar_offered = <<>>
  /\ rstate \in {Ic!R_FWD, Ic!R_WAIT_R} => r_dest_q \in {DEST_REG, DEST_MEM}
  /\ rvalid_q = Ic!M_RREADY(DEST_REG)
  /\ mem_rvalid_q = Ic!M_RREADY(DEST_MEM)
  /\ OneRead(arq, rvalid_q, ar_addr_q) /\ OneRead(mem_arq, mem_rvalid_q, ar_addr_q)

\* What the master sent is what it may send.
MasterBeats ==
  /\ s_aw_offered \in Beats(Addrs) /\ s_w_offered \in Beats(WBeats)
  /\ s_ar_offered \in Beats(Addrs)
  /\ wstate # Ic!W_COLLECT => aw_held /\ w_held
  /\ aw_held => aw_addr_q \in Addrs
  /\ w_held => [data |-> w_data_q, strb |-> w_strb_q] \in WBeats
  /\ rstate # Ic!R_IDLE => ar_addr_q \in Addrs

Coupling == WriteCoupling /\ ReadCoupling /\ MasterBeats

-----------------------------------------------------------------------------
(***************************************************************************)
(* A slave that holds no half is offered both or neither.                  *)
(***************************************************************************)
LEMMA RegWriteEdge ==
  ASSUME NEW aw, NEW w, NEW bready, NEW ar, NEW rready,
         NEW offer \in BOOLEAN, NEW a, NEW d, NEW x, NEW y,
         BusClock(aw, w, bready, ar, rready),
         ~aw_captured, ~w_captured, bvalid_q => bready /\ ~offer,
         aw = Carried(offer, a), w = Carried(offer, d),
         awq = Carried(bvalid_q, x), wq = Carried(bvalid_q, y)
  PROVE  /\ ~aw_captured' /\ ~w_captured' /\ bvalid_q' = offer
         /\ aw_offered' = <<>> /\ w_offered' = <<>>
         /\ awq' = Carried(offer, a) /\ wq' = Carried(offer, d)
  <1>1. /\ (aw # <<>>) = offer /\ (w # <<>>) = offer
        /\ Tail(<<x>>) = <<>> /\ Tail(<<y>>) = <<>>
    BY BeatFacts DEF Carried
  <1>2. /\ aw_hs(aw) = offer /\ w_hs(w) = offer /\ do_write(aw, w) = offer
    BY <1>1 DEF aw_hs, w_hs, do_write, AWREADY, WREADY
  <1>3. ~aw_captured' /\ ~w_captured' /\ bvalid_q' = offer
    BY <1>2 DEF BusClock, SlaveClock, WriteChannel
  <1>4. aw_offered' = <<>> /\ w_offered' = <<>>
    BY <1>1, <1>2 DEF BusClock, Observe, Held
  <1>5. /\ awq' = Track(awq, bvalid_q /\ bready, Accepted(aw, offer))
        /\ wq' = Track(wq, bvalid_q /\ bready, Accepted(w, offer))
    BY <1>2 DEF BusClock, Observe
  <1>6. awq' = Carried(offer, a) /\ wq' = Carried(offer, d)
    BY <1>1, <1>5, BeatFacts DEF Carried, Accepted, Track
  <1> QED
    BY <1>3, <1>4, <1>6

LEMMA MemWriteEdge ==
  ASSUME NEW aw, NEW w, NEW bready, NEW ar, NEW rready,
         NEW offer \in BOOLEAN, NEW a, NEW d, NEW x, NEW y,
         Mem!BusClock(aw, w, bready, ar, rready),
         ~mem_aw_captured, ~mem_w_captured, mem_bvalid_q => bready /\ ~offer,
         aw = Carried(offer, a), w = Carried(offer, d),
         mem_awq = Carried(mem_bvalid_q, x), mem_wq = Carried(mem_bvalid_q, y)
  PROVE  /\ ~mem_aw_captured' /\ ~mem_w_captured' /\ mem_bvalid_q' = offer
         /\ mem_aw_offered' = <<>> /\ mem_w_offered' = <<>>
         /\ mem_awq' = Carried(offer, a) /\ mem_wq' = Carried(offer, d)
  <1>1. /\ (aw # <<>>) = offer /\ (w # <<>>) = offer
        /\ Tail(<<x>>) = <<>> /\ Tail(<<y>>) = <<>>
    BY BeatFacts DEF Carried
  <1>2. Mem!aw_hs(aw) = offer /\ Mem!w_hs(w) = offer /\ Mem!do_write(aw, w) = offer
    BY <1>1 DEF Mem!aw_hs, Mem!w_hs, Mem!do_write, Mem!AWREADY, Mem!WREADY
  <1>3. ~mem_aw_captured' /\ ~mem_w_captured' /\ mem_bvalid_q' = offer
    BY <1>2 DEF Mem!BusClock, Mem!MemClock, Mem!WriteChannel
  <1>4. mem_aw_offered' = <<>> /\ mem_w_offered' = <<>>
    BY <1>1, <1>2 DEF Mem!BusClock, Mem!Observe, Mem!Held
  <1>5. /\ mem_awq' = Track(mem_awq, mem_bvalid_q /\ bready, Accepted(aw, offer))
        /\ mem_wq' = Track(mem_wq, mem_bvalid_q /\ bready, Accepted(w, offer))
    BY <1>2 DEF Mem!BusClock, Mem!Observe, Mem!Track, Mem!Accepted, Track, Accepted
  <1>6. mem_awq' = Carried(offer, a) /\ mem_wq' = Carried(offer, d)
    BY <1>1, <1>5, BeatFacts DEF Carried, Accepted, Track
  <1> QED
    BY <1>3, <1>4, <1>6

LEMMA RegReadEdge ==
  ASSUME NEW aw, NEW w, NEW bready, NEW ar, NEW rready,
         NEW offer \in BOOLEAN, NEW a, NEW x,
         BusClock(aw, w, bready, ar, rready),
         rvalid_q => rready /\ ~offer,
         ar = Carried(offer, a), OneRead(arq, rvalid_q, x)
  PROVE  rvalid_q' = offer /\ ar_offered' = <<>> /\ OneRead(arq', offer, a)
  <1>1. (ar # <<>>) = offer /\ (offer => Head(ar) = a)
    BY BeatFacts DEF Carried
  <1>2. ar_hs(ar) = offer
    BY <1>1 DEF ar_hs, ARREADY
  <1>3. rvalid_q' = offer
    BY <1>2 DEF BusClock, SlaveClock, ReadChannel
  <1>4. ar_offered' = <<>>
    BY <1>1, <1>2 DEF BusClock, Observe, Held
  <1>5. arq' = Track(arq, rvalid_q /\ rready, ReadBeat(ar, offer))
    BY <1>2 DEF BusClock, Observe
  <1>6. OneRead(arq', offer, a)
    <2>1. (IF rvalid_q /\ rready THEN Tail(arq) ELSE arq) = <<>>
      BY BeatFacts DEF OneRead
    <2>2. arq' = <<>> \o ReadBeat(ar, offer)
      BY <1>5, <2>1 DEF Track
    <2>3. offer => ReadBeat(ar, offer) =
                     <<[addr |-> a, writing |-> awq # <<>> \/ wq # <<>>]>>
      BY <1>1 DEF ReadBeat
    <2>4. ~offer => ReadBeat(ar, offer) = <<>>
      BY DEF ReadBeat
    <2> QED
      BY <2>2, <2>3, <2>4, BeatFacts, Zenon DEF OneRead
  <1> QED
    BY <1>3, <1>4, <1>6

LEMMA MemReadEdge ==
  ASSUME NEW aw, NEW w, NEW bready, NEW ar, NEW rready,
         NEW offer \in BOOLEAN, NEW a, NEW x,
         Mem!BusClock(aw, w, bready, ar, rready),
         mem_rvalid_q => rready /\ ~offer,
         ar = Carried(offer, a), OneRead(mem_arq, mem_rvalid_q, x)
  PROVE  /\ mem_rvalid_q' = offer /\ mem_ar_offered' = <<>>
         /\ OneRead(mem_arq', offer, a)
  <1>1. (ar # <<>>) = offer /\ (offer => Head(ar) = a)
    BY BeatFacts DEF Carried
  <1>2. Mem!ar_hs(ar) = offer
    BY <1>1 DEF Mem!ar_hs, Mem!ARREADY
  <1>3. mem_rvalid_q' = offer
    BY <1>2 DEF Mem!BusClock, Mem!MemClock, Mem!ReadChannel
  <1>4. mem_ar_offered' = <<>>
    BY <1>1, <1>2 DEF Mem!BusClock, Mem!Observe, Mem!Held
  <1>5. mem_arq' = (IF mem_rvalid_q /\ rready THEN Tail(mem_arq) ELSE mem_arq)
                     \o Mem!ReadBeat(ar, offer)
    BY <1>2 DEF Mem!BusClock, Mem!Observe, Mem!Track
  <1>6. OneRead(mem_arq', offer, a)
    <2>1. (IF mem_rvalid_q /\ rready THEN Tail(mem_arq) ELSE mem_arq) = <<>>
      BY BeatFacts DEF OneRead
    <2>2. mem_arq' = <<>> \o Mem!ReadBeat(ar, offer)
      BY <1>5, <2>1
    <2>3. offer => Mem!ReadBeat(ar, offer) =
            <<[addr |-> a, writing |-> mem_awq # <<>> \/ mem_wq # <<>>]>>
      BY <1>1 DEF Mem!ReadBeat
    <2>4. ~offer => Mem!ReadBeat(ar, offer) = <<>>
      BY DEF Mem!ReadBeat
    <2> QED
      BY <2>2, <2>3, <2>4, BeatFacts, Zenon DEF OneRead
  <1> QED
    BY <1>3, <1>4, <1>6

-----------------------------------------------------------------------------
(***************************************************************************)
(* The interconnect on one edge, its slaves being ready.                   *)
(***************************************************************************)
LEMMA States ==
  /\ Ic!W_COLLECT # Ic!W_FWD /\ Ic!W_COLLECT # Ic!W_WAIT_B
  /\ Ic!W_COLLECT # Ic!W_RESP /\ Ic!W_FWD # Ic!W_WAIT_B
  /\ Ic!W_FWD # Ic!W_RESP /\ Ic!W_WAIT_B # Ic!W_RESP
  /\ Ic!R_IDLE # Ic!R_FWD /\ Ic!R_IDLE # Ic!R_WAIT_R
  /\ Ic!R_IDLE # Ic!R_RESP /\ Ic!R_FWD # Ic!R_WAIT_R
  /\ Ic!R_FWD # Ic!R_RESP /\ Ic!R_WAIT_R # Ic!R_RESP
  /\ DEST_REG # DEST_MEM /\ DEST_REG # Ic!DEST_ERR /\ DEST_MEM # Ic!DEST_ERR
  /\ Ic!Slaves = {DEST_REG, DEST_MEM}
  /\ \A a : Ic!decode(a) \in {DEST_REG, DEST_MEM, Ic!DEST_ERR}
  BY DEF Ic!W_COLLECT, Ic!W_FWD, Ic!W_WAIT_B, Ic!W_RESP, Ic!R_IDLE, Ic!R_FWD,
         Ic!R_WAIT_R, Ic!R_RESP, DEST_REG, DEST_MEM, Ic!DEST_REG, Ic!DEST_MEM,
         Ic!DEST_ERR, Ic!Slaves, Ic!decode

Forwards(s)     == wstate = Ic!W_FWD /\ w_dest_q = s
ForwardsRead(s) == rstate = Ic!R_FWD /\ r_dest_q = s

LEMMA Offers ==
  ASSUME WriteCoupling
  PROVE  /\ \A s : Ic!M_AWVALID(s) = Forwards(s) /\ Ic!M_WVALID(s) = Forwards(s)
         /\ \A s : Ic!M_ARVALID(s) = ForwardsRead(s)
  BY DEF WriteCoupling, Ic!M_AWVALID, Ic!M_WVALID, Ic!M_ARVALID, Forwards,
         ForwardsRead

\* Whichever slave is forwarded to takes both halves, or the read, at once.
LEMMA SlavesAreReady ==
  ASSUME WriteCoupling, ReadCoupling
  PROVE  /\ wstate = Ic!W_FWD => Ic!m_aw_hs(fromSlaves) /\ Ic!m_w_hs(fromSlaves)
         /\ wstate = Ic!W_WAIT_B => Ic!m_b_hs(fromSlaves)
         /\ rstate = Ic!R_FWD => Ic!m_ar_hs(fromSlaves)
         /\ rstate = Ic!R_WAIT_R => Ic!m_r_hs(fromSlaves)
  <1>1. ASSUME wstate = Ic!W_FWD
        PROVE  Ic!m_aw_hs(fromSlaves) /\ Ic!m_w_hs(fromSlaves)
    <2>1. /\ w_dest_q \in {DEST_REG, DEST_MEM}
          /\ Ic!M_AWVALID(w_dest_q) /\ Ic!M_WVALID(w_dest_q)
      BY <1>1, Offers DEF WriteCoupling, Forwards
    <2>2. AWREADY /\ WREADY /\ Mem!AWREADY /\ Mem!WREADY
      BY <1>1, States DEF WriteCoupling, Ic!M_BREADY, AWREADY, WREADY,
         Mem!AWREADY, Mem!WREADY
    <2>3. fromSlaves[w_dest_q].awready /\ fromSlaves[w_dest_q].wready
      BY <2>1, <2>2, States DEF fromSlaves
    <2> QED
      BY <2>1, <2>3, States DEF Ic!m_aw_hs, Ic!m_w_hs
  <1>2. ASSUME wstate = Ic!W_WAIT_B PROVE Ic!m_b_hs(fromSlaves)
    <2>1. w_dest_q \in {DEST_REG, DEST_MEM} /\ Ic!M_BREADY(w_dest_q)
      BY <1>2 DEF WriteCoupling, Ic!M_BREADY
    <2>2. fromSlaves[w_dest_q].b # <<>>
      BY <2>1, States, BeatFacts DEF fromSlaves, WriteCoupling, reg_b, mem_b,
         Carried
    <2> QED
      BY <2>1, <2>2, States DEF Ic!m_b_hs
  <1>3. ASSUME rstate = Ic!R_FWD PROVE Ic!m_ar_hs(fromSlaves)
    <2>1. r_dest_q \in {DEST_REG, DEST_MEM} /\ Ic!M_ARVALID(r_dest_q)
      BY <1>3 DEF ReadCoupling, Ic!M_ARVALID
    <2>2. ARREADY /\ Mem!ARREADY
      BY <1>3, States DEF ReadCoupling, Ic!M_RREADY, ARREADY, Mem!ARREADY
    <2>3. fromSlaves[r_dest_q].arready
      BY <2>1, <2>2, States DEF fromSlaves
    <2> QED
      BY <2>1, <2>3, States DEF Ic!m_ar_hs
  <1>4. ASSUME rstate = Ic!R_WAIT_R PROVE Ic!m_r_hs(fromSlaves)
    <2>1. r_dest_q \in {DEST_REG, DEST_MEM} /\ Ic!M_RREADY(r_dest_q)
      BY <1>4 DEF ReadCoupling, Ic!M_RREADY
    <2>2. fromSlaves[r_dest_q].r # <<>>
      BY <2>1, States, BeatFacts DEF fromSlaves, ReadCoupling, reg_r, mem_r,
         Carried
    <2> QED
      BY <2>1, <2>2, States DEF Ic!m_r_hs
  <1> QED
    BY <1>1, <1>2, <1>3, <1>4

\* What a slave is offered on this edge is what it answers after it.
LEMMA WriteMoves ==
  ASSUME WriteCoupling, ReadCoupling, NEW aw, NEW w, NEW bready,
         Ic!WritePath(aw, w, bready, fromSlaves)
  PROVE  /\ \A s : Ic!M_BREADY(s)' = Forwards(s)
         /\ wstate' = Ic!W_FWD => ~aw_sent' /\ ~w_sent'
         /\ wstate' \in {Ic!W_FWD, Ic!W_WAIT_B} => w_dest_q' \in {DEST_REG, DEST_MEM}
         /\ wstate = Ic!W_FWD => /\ aw_addr_q' = aw_addr_q
                                 /\ w_data_q' = w_data_q /\ w_strb_q' = w_strb_q
  <1>1. CASE Ic!Collect(aw, w)
    <2>1. /\ wstate = Ic!W_COLLECT
          /\ wstate' \in {Ic!W_COLLECT, Ic!W_RESP, Ic!W_FWD}
          /\ wstate' = Ic!W_FWD =>
               ~aw_sent' /\ ~w_sent' /\ w_dest_q' \in {DEST_REG, DEST_MEM}
      BY <1>1, States DEF Ic!Collect
    <2> QED
      BY <2>1, States DEF Ic!M_BREADY, Forwards
  <1>2. CASE Ic!Forward(aw, w, fromSlaves)
    <2>1. wstate = Ic!W_FWD /\ wstate' = Ic!W_WAIT_B /\ w_dest_q' = w_dest_q
      BY <1>2, SlavesAreReady DEF Ic!Forward
    <2>2. ~Ic!S_AWREADY /\ ~Ic!S_WREADY
      BY <2>1, States DEF Ic!S_AWREADY, Ic!S_WREADY
    <2>3. aw_addr_q' = aw_addr_q /\ w_data_q' = w_data_q /\ w_strb_q' = w_strb_q
      BY <2>2 DEF Ic!WritePath, Ic!WriteLatches, Ic!s_aw_hs, Ic!s_w_hs
    <2> QED
      BY <2>1, <2>3, States DEF Ic!M_BREADY, Forwards, WriteCoupling
  <1>3. CASE Ic!WaitB(aw, w, fromSlaves)
    <2>1. wstate = Ic!W_WAIT_B /\ wstate' = Ic!W_RESP
      BY <1>3, SlavesAreReady DEF Ic!WaitB
    <2> QED
      BY <2>1, States DEF Ic!M_BREADY, Forwards
  <1>4. CASE Ic!Respond(bready)
    <2>1. wstate = Ic!W_RESP /\ wstate' \in {Ic!W_RESP, Ic!W_COLLECT}
      BY <1>4 DEF Ic!Respond
    <2> QED
      BY <2>1, States DEF Ic!M_BREADY, Forwards
  <1> QED
    BY <1>1, <1>2, <1>3, <1>4 DEF Ic!WritePath

LEMMA ReadMoves ==
  ASSUME WriteCoupling, ReadCoupling, NEW ar, NEW rready,
         Ic!ReadPath(ar, rready, fromSlaves)
  PROVE  /\ \A s : Ic!M_RREADY(s)' = ForwardsRead(s)
         /\ rstate' \in {Ic!R_FWD, Ic!R_WAIT_R} => r_dest_q' \in {DEST_REG, DEST_MEM}
         /\ rstate = Ic!R_FWD => ar_addr_q' = ar_addr_q
  <1>1. CASE Ic!Idle(ar)
    <2>1. /\ rstate = Ic!R_IDLE /\ rstate' \in {Ic!R_IDLE, Ic!R_RESP, Ic!R_FWD}
          /\ rstate' = Ic!R_FWD => r_dest_q' \in {DEST_REG, DEST_MEM}
      BY <1>1, States DEF Ic!Idle, Ic!readPath
    <2> QED
      BY <2>1, States DEF Ic!M_RREADY, ForwardsRead
  <1>2. CASE Ic!ForwardRead(fromSlaves)
    <2>1. /\ rstate = Ic!R_FWD /\ rstate' = Ic!R_WAIT_R /\ r_dest_q' = r_dest_q
          /\ ar_addr_q' = ar_addr_q
      BY <1>2, SlavesAreReady DEF Ic!ForwardRead
    <2> QED
      BY <2>1, States DEF Ic!M_RREADY, ForwardsRead, ReadCoupling
  <1>3. CASE Ic!WaitR(fromSlaves)
    <2>1. rstate = Ic!R_WAIT_R /\ rstate' = Ic!R_RESP
      BY <1>3, SlavesAreReady DEF Ic!WaitR
    <2> QED
      BY <2>1, States DEF Ic!M_RREADY, ForwardsRead
  <1>4. CASE Ic!RespondRead(rready)
    <2>1. rstate = Ic!R_RESP /\ rstate' \in {Ic!R_RESP, Ic!R_IDLE}
      BY <1>4 DEF Ic!RespondRead
    <2> QED
      BY <2>1, States DEF Ic!M_RREADY, ForwardsRead
  <1> QED
    BY <1>1, <1>2, <1>3, <1>4 DEF Ic!ReadPath

\* What the slaves hold after an edge is what they were offered on it.
LEMMA SlavesWrite ==
  ASSUME WriteCoupling, NEW aw, NEW w, NEW bready, NEW ar, NEW rready,
         SysEdge(aw, w, bready, ar, rready)
  PROVE  LET beat == [data |-> w_data_q, strb |-> w_strb_q]
         IN  /\ ~aw_captured' /\ ~w_captured' /\ bvalid_q' = Forwards(DEST_REG)
             /\ aw_offered' = <<>> /\ w_offered' = <<>>
             /\ awq' = Carried(Forwards(DEST_REG), aw_addr_q)
             /\ wq' = Carried(Forwards(DEST_REG), beat)
             /\ ~mem_aw_captured' /\ ~mem_w_captured'
             /\ mem_bvalid_q' = Forwards(DEST_MEM)
             /\ mem_aw_offered' = <<>> /\ mem_w_offered' = <<>>
             /\ mem_awq' = Carried(Forwards(DEST_MEM), aw_addr_q)
             /\ mem_wq' = Carried(Forwards(DEST_MEM), beat)
  <1> DEFINE beat == [data |-> w_data_q, strb |-> w_strb_q]
  <1>1. /\ \A s : Forwards(s) \in BOOLEAN
        /\ bvalid_q => Ic!M_BREADY(DEST_REG) /\ ~Forwards(DEST_REG)
        /\ mem_bvalid_q => Ic!M_BREADY(DEST_MEM) /\ ~Forwards(DEST_MEM)
    BY States DEF Forwards, WriteCoupling, Ic!M_BREADY
  <1>2. \A s : AW(s) = Carried(Forwards(s), aw_addr_q)
               /\ W(s) = Carried(Forwards(s), beat)
    BY Offers DEF AW, W
  <1>3. /\ ~aw_captured' /\ ~w_captured' /\ bvalid_q' = Forwards(DEST_REG)
        /\ aw_offered' = <<>> /\ w_offered' = <<>>
        /\ awq' = Carried(Forwards(DEST_REG), aw_addr_q)
        /\ wq' = Carried(Forwards(DEST_REG), beat)
    BY <1>1, <1>2, RegWriteEdge DEF SysEdge, WriteCoupling
  <1>4. /\ ~mem_aw_captured' /\ ~mem_w_captured'
        /\ mem_bvalid_q' = Forwards(DEST_MEM)
        /\ mem_aw_offered' = <<>> /\ mem_w_offered' = <<>>
        /\ mem_awq' = Carried(Forwards(DEST_MEM), aw_addr_q)
        /\ mem_wq' = Carried(Forwards(DEST_MEM), beat)
    BY <1>1, <1>2, MemWriteEdge DEF SysEdge, WriteCoupling
  <1> QED
    BY <1>3, <1>4

LEMMA SlavesRead ==
  ASSUME WriteCoupling, ReadCoupling,
         NEW aw, NEW w, NEW bready, NEW ar, NEW rready,
         SysEdge(aw, w, bready, ar, rready)
  PROVE  /\ rvalid_q' = ForwardsRead(DEST_REG) /\ ar_offered' = <<>>
         /\ OneRead(arq', ForwardsRead(DEST_REG), ar_addr_q)
         /\ mem_rvalid_q' = ForwardsRead(DEST_MEM) /\ mem_ar_offered' = <<>>
         /\ OneRead(mem_arq', ForwardsRead(DEST_MEM), ar_addr_q)
  <1>1. /\ \A s : ForwardsRead(s) \in BOOLEAN
        /\ rvalid_q => Ic!M_RREADY(DEST_REG) /\ ~ForwardsRead(DEST_REG)
        /\ mem_rvalid_q => Ic!M_RREADY(DEST_MEM) /\ ~ForwardsRead(DEST_MEM)
    BY States DEF ForwardsRead, ReadCoupling, Ic!M_RREADY
  <1>2. \A s : AR(s) = Carried(ForwardsRead(s), ar_addr_q)
    BY Offers DEF AR
  <1>3. /\ rvalid_q' = ForwardsRead(DEST_REG) /\ ar_offered' = <<>>
        /\ OneRead(arq', ForwardsRead(DEST_REG), ar_addr_q)
    BY <1>1, <1>2, RegReadEdge DEF SysEdge, ReadCoupling
  <1>4. /\ mem_rvalid_q' = ForwardsRead(DEST_MEM) /\ mem_ar_offered' = <<>>
        /\ OneRead(mem_arq', ForwardsRead(DEST_MEM), ar_addr_q)
    BY <1>1, <1>2, MemReadEdge DEF SysEdge, ReadCoupling
  <1> QED
    BY <1>3, <1>4

LEMMA WriteCouplingStep ==
  ASSUME WriteCoupling, ReadCoupling,
         NEW aw, NEW w, NEW bready, NEW ar, NEW rready,
         SysEdge(aw, w, bready, ar, rready)
  PROVE  WriteCoupling'
  <1> DEFINE beat == [data |-> w_data_q, strb |-> w_strb_q]
  <1>1. /\ Forwards(DEST_REG) => wstate = Ic!W_FWD
        /\ Forwards(DEST_MEM) => wstate = Ic!W_FWD
    BY DEF Forwards
  <1>2. /\ ~aw_captured' /\ ~w_captured' /\ bvalid_q' = Forwards(DEST_REG)
        /\ aw_offered' = <<>> /\ w_offered' = <<>>
        /\ awq' = Carried(Forwards(DEST_REG), aw_addr_q)
        /\ wq' = Carried(Forwards(DEST_REG), beat)
        /\ ~mem_aw_captured' /\ ~mem_w_captured'
        /\ mem_bvalid_q' = Forwards(DEST_MEM)
        /\ mem_aw_offered' = <<>> /\ mem_w_offered' = <<>>
        /\ mem_awq' = Carried(Forwards(DEST_MEM), aw_addr_q)
        /\ mem_wq' = Carried(Forwards(DEST_MEM), beat)
    BY SlavesWrite
  <1>3. /\ \A s : Ic!M_BREADY(s)' = Forwards(s)
        /\ wstate' = Ic!W_FWD => ~aw_sent' /\ ~w_sent'
        /\ wstate' \in {Ic!W_FWD, Ic!W_WAIT_B} => w_dest_q' \in {DEST_REG, DEST_MEM}
        /\ wstate = Ic!W_FWD => aw_addr_q' = aw_addr_q /\ beat' = beat
    BY WriteMoves DEF SysEdge, Ic!IcClock
  <1> HIDE DEF beat
  <1>4. /\ Carried(Forwards(DEST_REG), aw_addr_q) = Carried(bvalid_q', aw_addr_q')
        /\ Carried(Forwards(DEST_REG), beat) = Carried(bvalid_q', beat')
        /\ Carried(Forwards(DEST_MEM), aw_addr_q) = Carried(mem_bvalid_q', aw_addr_q')
        /\ Carried(Forwards(DEST_MEM), beat) = Carried(mem_bvalid_q', beat')
    BY <1>1, <1>2, <1>3 DEF Carried
  <1> QED
    BY <1>2, <1>3, <1>4 DEF WriteCoupling, beat, DEST_REG, DEST_MEM, Ic!W_FWD,
       Ic!W_WAIT_B, Ic!DEST_REG, Ic!DEST_MEM

LEMMA ReadCouplingStep ==
  ASSUME WriteCoupling, ReadCoupling,
         NEW aw, NEW w, NEW bready, NEW ar, NEW rready,
         SysEdge(aw, w, bready, ar, rready)
  PROVE  ReadCoupling'
  <1>1. /\ ForwardsRead(DEST_REG) => rstate = Ic!R_FWD
        /\ ForwardsRead(DEST_MEM) => rstate = Ic!R_FWD
    BY DEF ForwardsRead
  <1>2. /\ rvalid_q' = ForwardsRead(DEST_REG) /\ ar_offered' = <<>>
        /\ OneRead(arq', ForwardsRead(DEST_REG), ar_addr_q)
        /\ mem_rvalid_q' = ForwardsRead(DEST_MEM) /\ mem_ar_offered' = <<>>
        /\ OneRead(mem_arq', ForwardsRead(DEST_MEM), ar_addr_q)
    BY SlavesRead
  <1>3. /\ \A s : Ic!M_RREADY(s)' = ForwardsRead(s)
        /\ rstate' \in {Ic!R_FWD, Ic!R_WAIT_R} => r_dest_q' \in {DEST_REG, DEST_MEM}
        /\ rstate = Ic!R_FWD => ar_addr_q' = ar_addr_q
    BY ReadMoves DEF SysEdge, Ic!IcClock
  <1>4. OneRead(arq', rvalid_q', ar_addr_q')
        /\ OneRead(mem_arq', mem_rvalid_q', ar_addr_q')
    BY <1>1, <1>2, <1>3 DEF OneRead
  <1> QED
    BY <1>2, <1>3, <1>4 DEF ReadCoupling, OneRead, DEST_REG, DEST_MEM,
       Ic!R_FWD, Ic!R_WAIT_R, Ic!DEST_REG, Ic!DEST_MEM

LEMMA MasterBeatsStep ==
  ASSUME BusAssumption, MasterBeats,
         NEW aw, NEW w, NEW bready, NEW ar, NEW rready,
         Inputs(aw, w, bready, ar, rready), SysEdge(aw, w, bready, ar, rready)
  PROVE  MasterBeats'
  <1> DEFINE beat == [data |-> w_data_q, strb |-> w_strb_q]
  <1>1. /\ s_aw_offered' \in Beats(Addrs) /\ s_w_offered' \in Beats(WBeats)
        /\ s_ar_offered' \in Beats(Addrs)
    BY DEF SysEdge, Ic!Observe, Ic!Held, Inputs, Beats
  <1>2. /\ Ic!s_aw_hs(aw) => Head(aw) \in Addrs
        /\ Ic!s_w_hs(w) => [data |-> Head(w).data, strb |-> Head(w).strb] \in WBeats
        /\ Ic!s_ar_hs(ar) => Head(ar) \in Addrs
    <2>1. aw \in Beats(Addrs) /\ ar \in Beats(Addrs) /\ w \in Beats(WBeats)
      BY DEF Inputs
    <2>2. aw # <<>> => Head(aw) \in Addrs
      BY <2>1, PayloadType
    <2>3. ar # <<>> => Head(ar) \in Addrs
      BY <2>1, PayloadType
    <2>4. w # <<>> => Head(w) \in WBeats
                      /\ Head(w) = [data |-> Head(w).data, strb |-> Head(w).strb]
      BY <2>1, PayloadType
    <2> QED
      BY <2>2, <2>3, <2>4, Zenon DEF Ic!s_aw_hs, Ic!s_w_hs, Ic!s_ar_hs
  <1>3. /\ aw_addr_q' = IF Ic!s_aw_hs(aw) THEN Head(aw) ELSE aw_addr_q
        /\ beat' = IF Ic!s_w_hs(w) THEN [data |-> Head(w).data, strb |-> Head(w).strb]
                   ELSE beat
    BY DEF SysEdge, Ic!IcClock, Ic!WritePath, Ic!WriteLatches
  <1>4. /\ aw_held' => aw_held \/ Ic!s_aw_hs(aw)
        /\ w_held' => w_held \/ Ic!s_w_hs(w)
        /\ wstate' # Ic!W_COLLECT => aw_held' /\ w_held'
    <2>1. CASE Ic!Collect(aw, w)
      BY <2>1 DEF Ic!Collect, Ic!KeepHalves, Ic!w_both_now
    <2>2. CASE Ic!Forward(aw, w, fromSlaves)
      BY <2>2, States DEF Ic!Forward, Ic!KeepHalves, MasterBeats
    <2>3. CASE Ic!WaitB(aw, w, fromSlaves)
      BY <2>3, States DEF Ic!WaitB, Ic!KeepHalves, MasterBeats
    <2>4. CASE Ic!Respond(bready)
      BY <2>4, States DEF Ic!Respond, MasterBeats
    <2> QED
      BY <2>1, <2>2, <2>3, <2>4 DEF SysEdge, Ic!IcClock, Ic!WritePath
  <1>5. rstate' # Ic!R_IDLE => ar_addr_q' \in Addrs
    <2>1. CASE Ic!Idle(ar)
      BY <1>2, <2>1 DEF Ic!Idle, Ic!readPath
    <2>2. CASE ~Ic!Idle(ar)
      <3>1. rstate # Ic!R_IDLE /\ ar_addr_q' = ar_addr_q
        BY <2>2, States DEF SysEdge, Ic!IcClock, Ic!ReadPath, Ic!ForwardRead,
           Ic!WaitR, Ic!RespondRead
      <3> QED
        BY <3>1 DEF MasterBeats
    <2> QED
      BY <2>1, <2>2
  <1>6. aw_held' => aw_addr_q' \in Addrs
    BY <1>2, <1>3, <1>4 DEF MasterBeats
  <1>7. w_held' => beat' \in WBeats
    BY <1>2, <1>3, <1>4 DEF MasterBeats
  <1> QED
    BY <1>1, <1>4, <1>5, <1>6, <1>7 DEF MasterBeats, Ic!W_COLLECT, Ic!R_IDLE

-----------------------------------------------------------------------------
LEMMA SysClockInputs ==
  ASSUME Coupling, SysClock
  PROVE  \E aw, w, bready, ar, rready :
           /\ aw \in Offer(s_aw_offered, Addrs) /\ w \in Offer(s_w_offered, WBeats)
           /\ ar \in Offer(s_ar_offered, Addrs)
           /\ bready \in Ic!Signal(Ic!S_BVALID) /\ rready \in Ic!Signal(Ic!S_RVALID)
           /\ Inputs(aw, w, bready, ar, rready)
           /\ SysEdge(aw, w, bready, ar, rready)
  <1>1. PICK aw \in Offer(s_aw_offered, Addrs), w \in Offer(s_w_offered, WBeats),
             ar \in Offer(s_ar_offered, Addrs),
             bready \in Ic!Signal(Ic!S_BVALID), rready \in Ic!Signal(Ic!S_RVALID) :
          SysEdge(aw, w, bready, ar, rready)
    BY DEF SysClock
  <1>2. \A p : Ic!Signal(p) \subseteq BOOLEAN
    BY DEF Ic!Signal
  <1>3. Inputs(aw, w, bready, ar, rready)
    BY <1>2, OfferIsBeat DEF Inputs, Coupling, MasterBeats
  <1> QED
    BY <1>1, <1>3

LEMMA CouplingInit ==
  ASSUME SysInit
  PROVE  Coupling
  <1>1. WriteCoupling
    BY States DEF SysInit, Ic!IcInReset, Init, SlaveInReset, BusIdle, Mem!Init,
       Mem!MemInReset, Mem!ChannelsInReset, Mem!BusIdle, WriteCoupling,
       Ic!M_BREADY, Carried
  <1>2. ReadCoupling
    BY States DEF SysInit, Ic!IcInReset, Init, SlaveInReset, BusIdle, Mem!Init,
       Mem!MemInReset, Mem!ChannelsInReset, Mem!BusIdle, ReadCoupling,
       Ic!M_RREADY, OneRead
  <1>3. MasterBeats
    BY States DEF SysInit, Ic!IcInReset, Ic!BusIdle, MasterBeats, Beats
  <1> QED
    BY <1>1, <1>2, <1>3 DEF Coupling

LEMMA CouplingReset ==
  ASSUME SysReset
  PROVE  Coupling'
  <1>1. WriteCoupling'
    BY States DEF SysReset, Ic!IcReset, Reset, SlaveReset, BusReset, Mem!Reset,
       Mem!MemReset, Mem!BusReset, WriteCoupling, Ic!M_BREADY, Carried
  <1>2. ReadCoupling'
    BY States DEF SysReset, Ic!IcReset, Reset, SlaveReset, BusReset, Mem!Reset,
       Mem!MemReset, Mem!BusReset, ReadCoupling, Ic!M_RREADY, OneRead
  <1>3. MasterBeats'
    BY States DEF SysReset, Ic!IcReset, Ic!BusReset, MasterBeats, Beats
  <1> QED
    BY <1>1, <1>2, <1>3 DEF Coupling

LEMMA CouplingStep == Coupling /\ [SysNext]_sysVars => Coupling'
  <1> SUFFICES ASSUME Coupling, [SysNext]_sysVars PROVE Coupling'
    OBVIOUS
  <1>1. CASE SysClock
    <2>1. PICK aw, w, bready, ar, rready :
            Inputs(aw, w, bready, ar, rready) /\ SysEdge(aw, w, bready, ar, rready)
      BY <1>1, SysClockInputs
    <2> QED
      BY <2>1, WriteCouplingStep, ReadCouplingStep, MasterBeatsStep, BusAssumption
         DEF Coupling
  <1>2. CASE SysReset
    BY <1>2, CouplingReset
  <1>3. CASE UNCHANGED sysVars
    BY <1>3 DEF sysVars, vars, slaveVars, channelVars, bankVars, busVars, ic_vars,
       s_vars, mem_vars, Coupling, WriteCoupling, ReadCoupling, MasterBeats,
       Ic!M_BREADY, Ic!M_RREADY, Carried, OneRead
  <1> QED
    BY <1>1, <1>2, <1>3 DEF SysNext

LEMMA CouplingInvariance == SysSpec => []Coupling
  <1>1. SysInit => Coupling
    BY CouplingInit
  <1> QED
    BY <1>1, CouplingStep, PTL DEF SysSpec

(***************************************************************************)
(* No checker on a slave port ever has one half of a write without the     *)
(* other, whatever order the master chose: the claim of the interconnect's *)
(* header, which rests on the READYs of these two slaves.                  *)
(***************************************************************************)
THEOREM HalvesAlwaysMeet == SysSpec => []HalvesMeetAtSlaves
  <1>1. Coupling => HalvesMeetAtSlaves
    BY BeatFacts DEF Coupling, WriteCoupling, HalvesMeetAtSlaves, Carried
  <1> QED
    BY <1>1, CouplingInvariance, PTL

-----------------------------------------------------------------------------
(***************************************************************************)
(* To each slave the interconnect is a master as RegSlaveBus and           *)
(* MemSlaveBus take one to be.                                             *)
(***************************************************************************)
LEMMA SlaveInputs ==
  ASSUME Coupling, NEW s
  PROVE  Inputs(AW(s), W(s), Ic!M_BREADY(s), AR(s), Ic!M_RREADY(s))
  <1>1. Ic!M_AWVALID(s) => aw_addr_q \in Addrs
    BY States DEF Ic!M_AWVALID, Coupling, MasterBeats
  <1>2. Ic!M_WVALID(s) => [data |-> w_data_q, strb |-> w_strb_q] \in WBeats
    BY States DEF Ic!M_WVALID, Coupling, MasterBeats
  <1>3. Ic!M_ARVALID(s) => ar_addr_q \in Addrs
    BY States DEF Ic!M_ARVALID, Coupling, MasterBeats
  <1>4. Ic!M_BREADY(s) \in BOOLEAN /\ Ic!M_RREADY(s) \in BOOLEAN
    BY DEF Ic!M_BREADY, Ic!M_RREADY
  <1> QED
    BY <1>1, <1>2, <1>3, <1>4 DEF Inputs, AW, W, AR, Carried, Beats

LEMMA SlavesStep ==
  Coupling /\ [SysNext]_sysVars => [Next]_vars /\ [Mem!Next]_(Mem!vars)
  <1> SUFFICES ASSUME Coupling, [SysNext]_sysVars
               PROVE  [Next]_vars /\ [Mem!Next]_(Mem!vars)
    OBVIOUS
  <1>1. CASE SysClock
    <2>1. PICK aw, w, bready, ar, rready : SysEdge(aw, w, bready, ar, rready)
      BY <1>1, SysClockInputs
    <2>2. \A s : Inputs(AW(s), W(s), Ic!M_BREADY(s), AR(s), Ic!M_RREADY(s))
      BY SlaveInputs
    <2>3. Clock
      <3>1. /\ Offer(aw_offered, Addrs) = Beats(Addrs)
            /\ Offer(w_offered, WBeats) = Beats(WBeats)
            /\ Offer(ar_offered, Addrs) = Beats(Addrs)
        BY DEF Coupling, WriteCoupling, ReadCoupling, Offer
      <3>2. Inputs(AW(DEST_REG), W(DEST_REG), Ic!M_BREADY(DEST_REG),
                   AR(DEST_REG), Ic!M_RREADY(DEST_REG))
        BY <2>2
      <3>3. BusClock(AW(DEST_REG), W(DEST_REG), Ic!M_BREADY(DEST_REG),
                     AR(DEST_REG), Ic!M_RREADY(DEST_REG))
        BY <2>1 DEF SysEdge
      <3> QED
        BY <3>1, <3>2, <3>3, Zenon DEF Clock, Inputs
    <2>4. Mem!Clock
      <3>1. /\ Mem!Offer(mem_aw_offered, Addrs) = Beats(Addrs)
            /\ Mem!Offer(mem_w_offered, WBeats) = Beats(WBeats)
            /\ Mem!Offer(mem_ar_offered, Addrs) = Beats(Addrs)
        BY DEF Coupling, WriteCoupling, ReadCoupling, Mem!Offer, Mem!Beats, Beats
      <3>2. Inputs(AW(DEST_MEM), W(DEST_MEM), Ic!M_BREADY(DEST_MEM),
                   AR(DEST_MEM), Ic!M_RREADY(DEST_MEM))
        BY <2>2
      <3>3. Mem!BusClock(AW(DEST_MEM), W(DEST_MEM), Ic!M_BREADY(DEST_MEM),
                         AR(DEST_MEM), Ic!M_RREADY(DEST_MEM))
        BY <2>1 DEF SysEdge
      <3> QED
        BY <3>1, <3>2, <3>3, Zenon DEF Mem!Clock, Inputs
    <2> QED
      BY <2>3, <2>4 DEF Next, Mem!Next
  <1>2. CASE SysReset
    BY <1>2 DEF SysReset, Next, Mem!Next
  <1>3. CASE UNCHANGED sysVars
    BY <1>3 DEF sysVars, mem_vars, Mem!vars, Mem!memVars, Mem!memChannelVars,
       Mem!busVars
  <1> QED
    BY <1>1, <1>2, <1>3 DEF SysNext

LEMMA SlavesAreDriven == SysSpec => Spec /\ Mem!Spec
  <1>1. SysInit => Init /\ Mem!Init
    BY DEF SysInit
  <1> QED
    BY <1>1, SlavesStep, CouplingInvariance, PTL DEF SysSpec, Spec, Mem!Spec

-----------------------------------------------------------------------------
(***************************************************************************)
(* So what RegSlaveProofs and MemSlaveProofs prove of each holds of it     *)
(* here.  MemP names what Mem names.                                       *)
(***************************************************************************)
LEMMA SameMemEdge ==
  ASSUME NEW aw, NEW w, NEW bready, NEW ar, NEW rready,
         Mem!BusClock(aw, w, bready, ar, rready)
  PROVE  MemP!BusClock(aw, w, bready, ar, rready)
  BY DEF Mem!BusClock, MemP!BusClock, Mem!MemClock, MemP!MemClock,
         Mem!WriteChannel, MemP!WriteChannel, Mem!MemArray, MemP!MemArray,
         Mem!ReadChannel, MemP!ReadChannel, Mem!Observe, MemP!Observe,
         Mem!mem_write, MemP!mem_write, Mem!do_write, MemP!do_write,
         Mem!aw_hs, MemP!aw_hs, Mem!w_hs, MemP!w_hs, Mem!ar_hs, MemP!ar_hs,
         Mem!AWREADY, MemP!AWREADY, Mem!WREADY, MemP!WREADY,
         Mem!ARREADY, MemP!ARREADY, Mem!wr_addr, MemP!wr_addr,
         Mem!wr_data, MemP!wr_data, Mem!wr_strb, MemP!wr_strb,
         Mem!word, MemP!word, Mem!MemResp, MemP!MemResp,
         Mem!masked, MemP!masked, Mem!lane_bits, MemP!lane_bits,
         Mem!Misaligned, MemP!Misaligned, Mem!Bits, MemP!Bits,
         Mem!OKAY, MemP!OKAY, Mem!SLVERR, MemP!SLVERR,
         Mem!Held, MemP!Held, Mem!Track, MemP!Track,
         Mem!Accepted, MemP!Accepted, Mem!ReadBeat, MemP!ReadBeat

LEMMA SameMemory == Mem!Spec => MemP!Spec
  <1>1. Mem!Init => MemP!Init
    BY DEF Mem!Init, MemP!Init, Mem!MemInReset, MemP!MemInReset,
       Mem!ChannelsInReset, MemP!ChannelsInReset, Mem!BusIdle, MemP!BusIdle,
       Mem!Bits, MemP!Bits, Mem!Word, MemP!Word, Mem!OKAY, MemP!OKAY
  <1>2. Mem!Clock => MemP!Clock
    <2>1. \A o, S : Mem!Offer(o, S) = MemP!Offer(o, S)
      BY DEF Mem!Offer, MemP!Offer, Mem!Beats, MemP!Beats
    <2> SUFFICES ASSUME Mem!Clock PROVE MemP!Clock
      OBVIOUS
    <2>2. PICK aw \in Mem!Offer(mem_aw_offered, Addrs),
               w \in Mem!Offer(mem_w_offered, WBeats),
               ar \in Mem!Offer(mem_ar_offered, Addrs),
               bready \in BOOLEAN, rready \in BOOLEAN :
            Mem!BusClock(aw, w, bready, ar, rready)
      BY DEF Mem!Clock
    <2>3. MemP!BusClock(aw, w, bready, ar, rready)
      BY <2>2, SameMemEdge
    <2> QED
      BY <2>1, <2>3 DEF MemP!Clock
  <1>3. Mem!Reset => MemP!Reset
    BY DEF Mem!Reset, MemP!Reset, Mem!MemReset, MemP!MemReset, Mem!BusReset,
       MemP!BusReset, Mem!OKAY, MemP!OKAY
  <1>4. UNCHANGED Mem!vars => UNCHANGED MemP!vars
    BY DEF Mem!vars, MemP!vars, Mem!memVars, MemP!memVars, Mem!memChannelVars,
       MemP!memChannelVars, Mem!busVars, MemP!busVars
  <1>5. [Mem!Next]_(Mem!vars) => [MemP!Next]_(MemP!vars)
    BY <1>2, <1>3, <1>4 DEF Mem!Next, MemP!Next
  <1> QED
    BY <1>1, <1>5, PTL DEF Mem!Spec, MemP!Spec

LEMMA PartAssumptions ==
  /\ MemP!MemAssumption /\ MemP!BusAssumption
  /\ IcP!MapAssumption /\ IcP!BusAssumption /\ IcP!InterconnectBusAssumption
  <1>1. MemP!MemAssumption /\ IcP!MapAssumption
    BY SystemAssumption, WidthAssumption DEF SystemAssumption, WidthAssumption,
       MemP!MemAssumption, IcP!MapAssumption
  <1>2. MemP!BusAssumption /\ IcP!BusAssumption
    BY BusAssumption DEF BusAssumption, MemP!BusAssumption, IcP!BusAssumption,
       Word, Strobe, Bits, Lanes, MemP!Word, MemP!Strobe, MemP!Bits, MemP!Lanes,
       IcP!Word, IcP!Strobe, IcP!Bits, IcP!Lanes
  <1>3. {} \in Word
    BY DEF Word
  <1>4. IcP!InterconnectBusAssumption
    BY <1>3 DEF IcP!InterconnectBusAssumption, ReadAnswers, Word, Bits, IcP!Word,
       IcP!Bits, OKAY, SLVERR, IcP!OKAY, IcP!SLVERR
  <1> QED
    BY <1>1, <1>2, <1>4

LEMMA SlavesInvariance == SysSpec => [](IInv /\ MemP!IInv)
  <1>1. MemP!Spec => []MemP!IInv
    BY MemP!Invariance, PartAssumptions
  <1> QED
    BY <1>1, SlavesAreDriven, SameMemory, Invariance, PTL

-----------------------------------------------------------------------------
(***************************************************************************)
(* To the interconnect the two slaves are slaves as InterconnectBus takes  *)
(* them to be: they accept at once, and answer on the same edge.           *)
(***************************************************************************)
ready == [aw |-> wstate = Ic!W_FWD, w |-> wstate = Ic!W_FWD,
          ar |-> rstate = Ic!R_FWD]

LEMMA PortViews ==
  /\ portView[DEST_REG] = PortOf(awq, wq, reg_b, arq, reg_r)
  /\ portView[DEST_MEM] = PortOf(mem_awq, mem_wq, mem_b, mem_arq, mem_r)
  /\ portView'[DEST_REG] = PortOf(awq', wq', reg_b', arq', reg_r')
  /\ portView'[DEST_MEM] = PortOf(mem_awq', mem_wq', mem_b', mem_arq', mem_r')
  /\ portView' = [s \in Ic!Slaves |-> portView'[s]]
  BY DEF portView, PortOf, DEST_REG, DEST_MEM, Ic!DEST_REG, Ic!DEST_MEM, Ic!Slaves

LEMMA SameWires ==
  ASSUME WriteCoupling, ReadCoupling,
         NEW aw, NEW w, NEW bready, NEW ar, NEW rready,
         Ic!IcClock(aw, w, bready, ar, rready, fromSlaves)
  PROVE  Ic!IcClock(aw, w, bready, ar, rready, Ic!Driven(ready))
  <1> DEFINE D == Ic!Driven(ready)
  <1>1. \A s \in Ic!Slaves :
          /\ D[s].b = fromSlaves[s].b /\ D[s].r = fromSlaves[s].r
          /\ D[s].awready = (wstate = Ic!W_FWD) /\ D[s].wready = (wstate = Ic!W_FWD)
          /\ D[s].arready = (rstate = Ic!R_FWD)
    <2>1. /\ portView[DEST_REG].b = reg_b /\ portView[DEST_REG].r = reg_r
          /\ portView[DEST_MEM].b = mem_b /\ portView[DEST_MEM].r = mem_r
      BY PortViews DEF PortOf
    <2>2. /\ fromSlaves[DEST_REG].b = reg_b /\ fromSlaves[DEST_REG].r = reg_r
          /\ fromSlaves[DEST_MEM].b = mem_b /\ fromSlaves[DEST_MEM].r = mem_r
      BY States DEF fromSlaves
    <2>3. \A s \in Ic!Slaves :
            D[s] = [awready |-> wstate = Ic!W_FWD, wready |-> wstate = Ic!W_FWD,
                    arready |-> rstate = Ic!R_FWD,
                    b |-> portView[s].b, r |-> portView[s].r]
      BY DEF Ic!Driven, ready
    <2> QED
      BY <2>1, <2>2, <2>3, States
  <1>2. \A s : Ic!M_AWVALID(s) => wstate = Ic!W_FWD
    BY DEF Ic!M_AWVALID
  <1>3. \A s : Ic!M_WVALID(s) => wstate = Ic!W_FWD
    BY DEF Ic!M_WVALID
  <1>4. \A s : Ic!M_ARVALID(s) => rstate = Ic!R_FWD
    BY DEF Ic!M_ARVALID
  <1> HIDE DEF D
  <1>5. /\ Ic!m_aw_hs(fromSlaves) = Ic!m_aw_hs(D)
        /\ Ic!m_w_hs(fromSlaves) = Ic!m_w_hs(D)
        /\ Ic!m_ar_hs(fromSlaves) = Ic!m_ar_hs(D)
    BY <1>1, <1>2, <1>3, <1>4, SlavesAreReady DEF Ic!m_aw_hs, Ic!m_w_hs, Ic!m_ar_hs
  <1>6. Ic!m_b_hs(fromSlaves) = Ic!m_b_hs(D) /\ Ic!m_r_hs(fromSlaves) = Ic!m_r_hs(D)
    BY <1>1 DEF Ic!m_b_hs, Ic!m_r_hs
  <1>7. Ic!m_bresp(fromSlaves) = Ic!m_bresp(D) /\ Ic!m_r(fromSlaves) = Ic!m_r(D)
    BY <1>1, States DEF Ic!m_bresp, Ic!m_r, DEST_REG, DEST_MEM
  <1>8. Ic!WritePath(aw, w, bready, D)
    BY <1>5, <1>6, <1>7 DEF Ic!IcClock, Ic!WritePath, Ic!Forward, Ic!WaitB
  <1>9. Ic!ReadPath(ar, rready, D)
    BY <1>5, <1>6, <1>7 DEF Ic!IcClock, Ic!ReadPath, Ic!ForwardRead, Ic!WaitR
  <1> QED
    BY <1>8, <1>9 DEF Ic!IcClock, D

\* The answers of this edge.
new_b == IF bvalid_q' THEN reg_b' ELSE IF mem_bvalid_q' THEN mem_b' ELSE <<>>
new_r == IF rvalid_q' THEN reg_r' ELSE IF mem_rvalid_q' THEN mem_r' ELSE <<>>

\* The address of the read in a queue, as a port shows it.
ReadAddr(ars) == IF ars = <<>> THEN <<>> ELSE <<Head(ars).addr>>

LEMMA OneReadAddr ==
  ASSUME NEW q, NEW valid \in BOOLEAN, NEW a, OneRead(q, valid, a)
  PROVE  ReadAddr(q) = Carried(valid, a)
  <1>1. CASE valid
    <2>1. PICK o : q = <<[addr |-> a, writing |-> o]>>
      BY <1>1 DEF OneRead
    <2>2. q # <<>> /\ Head(q) = [addr |-> a, writing |-> o]
      BY <2>1, BeatFacts
    <2> QED
      BY <1>1, <2>2 DEF ReadAddr, Carried
  <1>2. CASE ~valid
    BY <1>2 DEF OneRead, ReadAddr, Carried
  <1> QED
    BY <1>1, <1>2

\* One half of a write, or one read, at a slave port: what is there leaves with
\* the answer, what is forwarded joins.
LEMMA OneBeatTrack ==
  ASSUME NEW q, NEW held \in BOOLEAN, NEW x, NEW offer \in BOOLEAN, NEW y,
         q = Carried(held, x), held => ~offer
  PROVE  Ic!Track(q, held, Ic!Accepted(<<y>>, offer)) = Carried(offer, y)
  BY BeatFacts DEF Carried, Ic!Track, Ic!Accepted

LEMMA PortStep ==
  ASSUME NEW s, NEW b, NEW r, WriteCoupling,
         portView[s].aw = Carried(Ic!M_BREADY(s), aw_addr_q),
         portView[s].w = Carried(Ic!M_BREADY(s),
                                 [data |-> w_data_q, strb |-> w_strb_q]),
         portView[s].ar = Carried(Ic!M_RREADY(s), ar_addr_q),
         (portView[s].b # <<>>) = Ic!M_BREADY(s),
         (portView[s].r # <<>>) = Ic!M_RREADY(s)
  PROVE  Ic!SlavePort(s, ready, b, r) =
           [aw |-> Carried(Forwards(s), aw_addr_q),
            w |-> Carried(Forwards(s), [data |-> w_data_q, strb |-> w_strb_q]),
            ar |-> Carried(ForwardsRead(s), ar_addr_q),
            b |-> IF Forwards(s) THEN b ELSE <<>>,
            r |-> IF ForwardsRead(s) THEN r ELSE <<>>]
  <1> DEFINE beat == [data |-> w_data_q, strb |-> w_strb_q]
             bv == Ic!M_BREADY(s)
             rv == Ic!M_RREADY(s)
  <1>1. /\ Forwards(s) \in BOOLEAN /\ ForwardsRead(s) \in BOOLEAN
        /\ bv \in BOOLEAN /\ rv \in BOOLEAN
        /\ bv => ~Forwards(s)
        /\ rv => ~ForwardsRead(s)
    BY States DEF Forwards, ForwardsRead, Ic!M_BREADY, Ic!M_RREADY
  <1>2. /\ (Ic!M_AWVALID(s) /\ ready.aw) = Forwards(s)
        /\ (Ic!M_WVALID(s) /\ ready.w) = Forwards(s)
        /\ (Ic!M_ARVALID(s) /\ ready.ar) = ForwardsRead(s)
    BY Offers DEF ready, Forwards, ForwardsRead
  <1>3. /\ (Ic!M_BREADY(s) /\ portView[s].b # <<>>) = bv
        /\ (Ic!M_RREADY(s) /\ portView[s].r # <<>>) = rv
    BY <1>1
  <1> HIDE DEF beat, bv, rv
  <1>4. /\ Ic!Track(portView[s].aw, bv, Ic!Accepted(<<aw_addr_q>>, Forwards(s))) =
             Carried(Forwards(s), aw_addr_q)
        /\ Ic!Track(portView[s].w, bv, Ic!Accepted(<<beat>>, Forwards(s))) =
             Carried(Forwards(s), beat)
        /\ Ic!Track(portView[s].ar, rv, Ic!Accepted(<<ar_addr_q>>, ForwardsRead(s))) =
             Carried(ForwardsRead(s), ar_addr_q)
    BY <1>1, OneBeatTrack DEF beat, bv, rv
  <1>5. /\ (Carried(Forwards(s), aw_addr_q) # <<>>
               /\ Carried(Forwards(s), beat) # <<>>) = Forwards(s)
        /\ (Carried(ForwardsRead(s), ar_addr_q) # <<>>) = ForwardsRead(s)
    BY <1>1, BeatFacts DEF Carried
  <1>6. /\ Ic!Answer(portView[s].b, bv, Forwards(s), b) =
             IF Forwards(s) THEN b ELSE <<>>
        /\ Ic!Answer(portView[s].r, rv, ForwardsRead(s), r) =
             IF ForwardsRead(s) THEN r ELSE <<>>
    BY <1>1 DEF Ic!Answer, bv, rv
  <1> QED
    BY <1>2, <1>3, <1>4, <1>5, <1>6 DEF Ic!SlavePort, beat

LEMMA PortsStep ==
  ASSUME WriteCoupling, ReadCoupling,
         NEW aw, NEW w, NEW bready, NEW ar, NEW rready,
         SysEdge(aw, w, bready, ar, rready)
  PROVE  portView' = [s \in Ic!Slaves |-> Ic!SlavePort(s, ready, new_b, new_r)]
  <1>1. /\ bvalid_q' = Forwards(DEST_REG) /\ mem_bvalid_q' = Forwards(DEST_MEM)
        /\ awq' = Carried(Forwards(DEST_REG), aw_addr_q)
        /\ wq' = Carried(Forwards(DEST_REG), [data |-> w_data_q, strb |-> w_strb_q])
        /\ mem_awq' = Carried(Forwards(DEST_MEM), aw_addr_q)
        /\ mem_wq' = Carried(Forwards(DEST_MEM), [data |-> w_data_q, strb |-> w_strb_q])
    BY SlavesWrite
  <1>2. /\ rvalid_q' = ForwardsRead(DEST_REG) /\ mem_rvalid_q' = ForwardsRead(DEST_MEM)
        /\ OneRead(arq', ForwardsRead(DEST_REG), ar_addr_q)
        /\ OneRead(mem_arq', ForwardsRead(DEST_MEM), ar_addr_q)
    BY SlavesRead
  <1>3. \A s : Forwards(s) \in BOOLEAN /\ ForwardsRead(s) \in BOOLEAN
    BY DEF Forwards, ForwardsRead
  <1>4. /\ bvalid_q \in BOOLEAN /\ bvalid_q = Ic!M_BREADY(DEST_REG)
        /\ mem_bvalid_q \in BOOLEAN /\ mem_bvalid_q = Ic!M_BREADY(DEST_MEM)
        /\ rvalid_q \in BOOLEAN /\ rvalid_q = Ic!M_RREADY(DEST_REG)
        /\ mem_rvalid_q \in BOOLEAN /\ mem_rvalid_q = Ic!M_RREADY(DEST_MEM)
    BY DEF WriteCoupling, ReadCoupling, Ic!M_BREADY, Ic!M_RREADY
  <1>5. /\ ReadAddr(arq) = Carried(rvalid_q, ar_addr_q)
        /\ ReadAddr(mem_arq) = Carried(mem_rvalid_q, ar_addr_q)
    BY <1>4, OneReadAddr DEF ReadCoupling
  <1>6. /\ ReadAddr(arq') = Carried(ForwardsRead(DEST_REG), ar_addr_q)
        /\ ReadAddr(mem_arq') = Carried(ForwardsRead(DEST_MEM), ar_addr_q)
    BY <1>2, <1>3, OneReadAddr
  <1>7. /\ Forwards(DEST_REG) => new_b = reg_b'
        /\ Forwards(DEST_MEM) => new_b = mem_b'
        /\ ForwardsRead(DEST_REG) => new_r = reg_r'
        /\ ForwardsRead(DEST_MEM) => new_r = mem_r'
    BY <1>1, <1>2, States DEF new_b, new_r, Forwards, ForwardsRead
  <1>8. /\ reg_b' = IF Forwards(DEST_REG) THEN reg_b' ELSE <<>>
        /\ mem_b' = IF Forwards(DEST_MEM) THEN mem_b' ELSE <<>>
        /\ reg_r' = IF ForwardsRead(DEST_REG) THEN reg_r' ELSE <<>>
        /\ mem_r' = IF ForwardsRead(DEST_MEM) THEN mem_r' ELSE <<>>
    BY <1>1, <1>2 DEF reg_b, mem_b, reg_r, mem_r, Carried
  <1>9. /\ (reg_b # <<>>) = bvalid_q /\ (mem_b # <<>>) = mem_bvalid_q
        /\ (reg_r # <<>>) = rvalid_q /\ (mem_r # <<>>) = mem_rvalid_q
    BY <1>4, BeatFacts DEF reg_b, mem_b, reg_r, mem_r, Carried
  <1>10. portView'[DEST_REG] = Ic!SlavePort(DEST_REG, ready, new_b, new_r)
    <2>1. /\ portView[DEST_REG].aw = Carried(Ic!M_BREADY(DEST_REG), aw_addr_q)
          /\ portView[DEST_REG].w = Carried(Ic!M_BREADY(DEST_REG),
                                            [data |-> w_data_q, strb |-> w_strb_q])
          /\ portView[DEST_REG].ar = Carried(Ic!M_RREADY(DEST_REG), ar_addr_q)
          /\ (portView[DEST_REG].b # <<>>) = Ic!M_BREADY(DEST_REG)
          /\ (portView[DEST_REG].r # <<>>) = Ic!M_RREADY(DEST_REG)
      BY <1>4, <1>5, <1>9, PortViews DEF PortOf, ReadAddr, WriteCoupling
    <2> QED
      BY <1>1, <1>6, <1>7, <1>8, <2>1, PortStep, PortViews DEF PortOf, ReadAddr
  <1>11. portView'[DEST_MEM] = Ic!SlavePort(DEST_MEM, ready, new_b, new_r)
    <2>1. /\ portView[DEST_MEM].aw = Carried(Ic!M_BREADY(DEST_MEM), aw_addr_q)
          /\ portView[DEST_MEM].w = Carried(Ic!M_BREADY(DEST_MEM),
                                            [data |-> w_data_q, strb |-> w_strb_q])
          /\ portView[DEST_MEM].ar = Carried(Ic!M_RREADY(DEST_MEM), ar_addr_q)
          /\ (portView[DEST_MEM].b # <<>>) = Ic!M_BREADY(DEST_MEM)
          /\ (portView[DEST_MEM].r # <<>>) = Ic!M_RREADY(DEST_MEM)
      BY <1>4, <1>5, <1>9, PortViews DEF PortOf, ReadAddr, WriteCoupling
    <2> QED
      BY <1>1, <1>6, <1>7, <1>8, <2>1, PortStep, PortViews DEF PortOf, ReadAddr
  <1> QED
    BY <1>10, <1>11, PortViews, States

\* The response that is taken from a slave is the one that goes to the master.
LEMMA WriteAnswersStep ==
  ASSUME WriteCoupling, ReadCoupling, NEW aw, NEW w, NEW bready,
         Ic!WritePath(aw, w, bready, fromSlaves)
  PROVE  wAnswerView' =
           IF Ic!S_BVALID /\ bready THEN <<>>
           ELSE wAnswerView \o Ic!TakenB(DEST_REG) \o Ic!TakenB(DEST_MEM)
  <1> DEFINE beat == [data |-> w_data_q, strb |-> w_strb_q]
             answer == [slave |-> w_dest_q, addr |-> aw_addr_q, beat |-> beat,
                        resp |-> ic_bresp_q]
             up == wstate = Ic!W_RESP /\ w_dest_q # Ic!DEST_ERR
  <1>1. /\ wAnswerView = Carried(up, answer)
        /\ wAnswerView' = Carried(up', answer')
    BY DEF wAnswerView, Ic!W_RESP, Ic!DEST_ERR, Carried
  <1>2. \A s : ~Ic!M_BREADY(s) => Ic!TakenB(s) = <<>>
    BY DEF Ic!TakenB
  <1>3. wstate # Ic!W_WAIT_B =>
          wAnswerView \o Ic!TakenB(DEST_REG) \o Ic!TakenB(DEST_MEM) = wAnswerView
    <2>1. ASSUME wstate # Ic!W_WAIT_B
          PROVE  Ic!TakenB(DEST_REG) = <<>> /\ Ic!TakenB(DEST_MEM) = <<>>
      BY <1>2, <2>1 DEF Ic!M_BREADY
    <2> HIDE DEF answer, up
    <2> QED
      BY <1>1, <2>1, BeatFacts DEF Carried
  <1>4. CASE Ic!Collect(aw, w)
    <2>1. wstate = Ic!W_COLLECT
      BY <1>4 DEF Ic!Collect
    <2>2. ~up /\ ~up' /\ ~Ic!S_BVALID
      <3>1. \/ wstate' = Ic!W_COLLECT \/ wstate' = Ic!W_FWD
            \/ wstate' = Ic!W_RESP /\ w_dest_q' = Ic!DEST_ERR
        BY <1>4 DEF Ic!Collect
      <3>2. (wstate' = Ic!W_RESP /\ w_dest_q' # Ic!DEST_ERR) = up'
        BY DEF Ic!W_RESP, Ic!DEST_ERR
      <3> QED
        BY <2>1, <3>1, <3>2, States DEF Ic!S_BVALID
    <2> HIDE DEF answer, up
    <2> QED
      BY <1>1, <1>3, <2>1, <2>2, States DEF Carried
  <1>5. CASE Ic!Forward(aw, w, fromSlaves)
    <2>1. wstate = Ic!W_FWD /\ wstate' = Ic!W_WAIT_B
      BY <1>5, SlavesAreReady DEF Ic!Forward
    <2>2. ~up /\ ~up' /\ ~Ic!S_BVALID
      BY <2>1, States DEF Ic!S_BVALID, Ic!W_RESP, Ic!W_WAIT_B
    <2> HIDE DEF answer, up
    <2> QED
      BY <1>1, <1>3, <2>1, <2>2, States DEF Carried
  <1>6. CASE Ic!WaitB(aw, w, fromSlaves)
    <2>1. /\ wstate = Ic!W_WAIT_B /\ wstate' = Ic!W_RESP /\ w_dest_q' = w_dest_q
          /\ ic_bresp_q' = Ic!m_bresp(fromSlaves)
      BY <1>6, SlavesAreReady DEF Ic!WaitB
    <2>2. /\ w_dest_q \in {DEST_REG, DEST_MEM} /\ ~up /\ up' /\ ~Ic!S_BVALID
      BY <2>1, States DEF WriteCoupling, Ic!S_BVALID, Ic!W_RESP, Ic!DEST_ERR
    <2>3. aw_addr_q' = aw_addr_q /\ beat' = beat
      <3>1. ~Ic!S_AWREADY /\ ~Ic!S_WREADY
        BY <2>1, States DEF Ic!S_AWREADY, Ic!S_WREADY
      <3> QED
        BY <3>1 DEF Ic!WritePath, Ic!WriteLatches, Ic!s_aw_hs, Ic!s_w_hs
    <2>4. \A s \in {DEST_REG, DEST_MEM} :
            w_dest_q = s =>
              Ic!TakenB(s) = <<[slave |-> s, addr |-> aw_addr_q, beat |-> beat,
                                resp |-> Head(fromSlaves[s].b)]>>
      <3> SUFFICES ASSUME NEW s \in {DEST_REG, DEST_MEM}, w_dest_q = s
                   PROVE  Ic!TakenB(s) =
                            <<[slave |-> s, addr |-> aw_addr_q, beat |-> beat,
                               resp |-> Head(fromSlaves[s].b)]>>
        OBVIOUS
      <3>1. Ic!M_BREADY(s)
        BY <2>1 DEF Ic!M_BREADY
      <3>2. /\ portView[s].aw = <<aw_addr_q>> /\ portView[s].w = <<beat>>
            /\ portView[s].b # <<>> /\ portView[s].b = fromSlaves[s].b
        BY <3>1, PortViews, States, BeatFacts DEF PortOf, WriteCoupling, Carried,
           reg_b, mem_b, fromSlaves
      <3> HIDE DEF beat
      <3> QED
        BY <3>1, <3>2, BeatFacts DEF Ic!TakenB
    <2>5. Ic!m_bresp(fromSlaves) = Head(fromSlaves[w_dest_q].b)
      BY <2>2, States DEF Ic!m_bresp, DEST_REG, DEST_MEM
    <2>6. answer' = [slave |-> w_dest_q, addr |-> aw_addr_q, beat |-> beat,
                     resp |-> Head(fromSlaves[w_dest_q].b)]
      BY <2>1, <2>3, <2>5
    <2>7. Ic!TakenB(DEST_REG) \o Ic!TakenB(DEST_MEM) = <<answer'>>
      <3>1. CASE w_dest_q = DEST_REG
        <4>1. Ic!TakenB(DEST_MEM) = <<>>
          BY <1>2, <3>1, States DEF Ic!M_BREADY
        <4>2. Ic!TakenB(DEST_REG) = <<answer'>>
          BY <2>4, <2>6, <3>1
        <4> HIDE DEF answer
        <4> QED
          BY <4>1, <4>2, BeatFacts
      <3>2. CASE w_dest_q = DEST_MEM
        <4>1. Ic!TakenB(DEST_REG) = <<>>
          BY <1>2, <3>2, States DEF Ic!M_BREADY
        <4>2. Ic!TakenB(DEST_MEM) = <<answer'>>
          BY <2>4, <2>6, <3>2
        <4> HIDE DEF answer
        <4> QED
          BY <4>1, <4>2, BeatFacts
      <3> QED
        BY <2>2, <3>1, <3>2
    <2> HIDE DEF answer, up
    <2>8. wAnswerView = <<>> /\ wAnswerView' = <<answer'>>
      BY <1>1, <2>2 DEF Carried
    <2>9. <<>> \o Ic!TakenB(DEST_REG) = Ic!TakenB(DEST_REG)
      <3>1. \A s : Ic!TakenB(s) = <<>> \/ \E x : Ic!TakenB(s) = <<x>>
        BY DEF Ic!TakenB
      <3> QED
        BY <3>1, BeatFacts
    <2> QED
      BY <2>2, <2>7, <2>8, <2>9
  <1>7. CASE Ic!Respond(bready)
    <2>1. wstate = Ic!W_RESP
      BY <1>7 DEF Ic!Respond
    <2>2. aw_addr_q' = aw_addr_q /\ beat' = beat
      <3>1. ~Ic!S_AWREADY /\ ~Ic!S_WREADY
        BY <2>1, States DEF Ic!S_AWREADY, Ic!S_WREADY
      <3> QED
        BY <3>1 DEF Ic!WritePath, Ic!WriteLatches, Ic!s_aw_hs, Ic!s_w_hs
    <2>3. CASE bready
      <3>1. ~up' /\ Ic!S_BVALID
        BY <1>7, <2>1, <2>3, States DEF Ic!Respond, Ic!W_RESP, Ic!W_COLLECT, Ic!S_BVALID
      <3> HIDE DEF answer, up
      <3> QED
        BY <1>1, <2>3, <3>1 DEF Carried
    <2>4. CASE ~bready
      <3>1. up' = up /\ answer' = answer
        BY <1>7, <2>1, <2>2, <2>4, States DEF Ic!Respond, Ic!W_RESP, Ic!DEST_ERR
      <3> HIDE DEF answer, up
      <3> QED
        BY <1>1, <1>3, <2>1, <2>4, <3>1, States DEF Carried
    <2> QED
      BY <2>3, <2>4
  <1> QED
    BY <1>4, <1>5, <1>6, <1>7 DEF Ic!WritePath

LEMMA ReadAnswersStep ==
  ASSUME WriteCoupling, ReadCoupling, NEW ar, NEW rready,
         Ic!ReadPath(ar, rready, fromSlaves)
  PROVE  rAnswerView' =
           IF Ic!S_RVALID /\ rready THEN <<>>
           ELSE rAnswerView \o Ic!TakenR(DEST_REG) \o Ic!TakenR(DEST_MEM)
  <1> DEFINE answer == [slave |-> r_dest_q, addr |-> ar_addr_q,
                        beat |-> [data |-> ic_rdata_q, resp |-> ic_rresp_q]]
             up == rstate = Ic!R_RESP /\ r_dest_q # Ic!DEST_ERR
  <1>1. /\ rAnswerView = Carried(up, answer)
        /\ rAnswerView' = Carried(up', answer')
    BY DEF rAnswerView, Ic!R_RESP, Ic!DEST_ERR, Carried
  <1>2. \A s : ~Ic!M_RREADY(s) => Ic!TakenR(s) = <<>>
    BY DEF Ic!TakenR
  <1>3. rstate # Ic!R_WAIT_R =>
          rAnswerView \o Ic!TakenR(DEST_REG) \o Ic!TakenR(DEST_MEM) = rAnswerView
    <2>1. ASSUME rstate # Ic!R_WAIT_R
          PROVE  Ic!TakenR(DEST_REG) = <<>> /\ Ic!TakenR(DEST_MEM) = <<>>
      BY <1>2, <2>1 DEF Ic!M_RREADY
    <2> HIDE DEF answer, up
    <2> QED
      BY <1>1, <2>1, BeatFacts DEF Carried
  <1>4. CASE Ic!Idle(ar)
    <2>1. rstate = Ic!R_IDLE
      BY <1>4 DEF Ic!Idle
    <2>2. ~up /\ ~up' /\ ~Ic!S_RVALID
      <3>1. \/ rstate' = Ic!R_IDLE \/ rstate' = Ic!R_FWD
            \/ rstate' = Ic!R_RESP /\ r_dest_q' = Ic!DEST_ERR
        BY <1>4 DEF Ic!Idle, Ic!readPath
      <3>2. (rstate' = Ic!R_RESP /\ r_dest_q' # Ic!DEST_ERR) = up'
        BY DEF Ic!R_RESP, Ic!DEST_ERR
      <3> QED
        BY <2>1, <3>1, <3>2, States DEF Ic!S_RVALID
    <2> HIDE DEF answer, up
    <2> QED
      BY <1>1, <1>3, <2>1, <2>2, States DEF Carried
  <1>5. CASE Ic!ForwardRead(fromSlaves)
    <2>1. rstate = Ic!R_FWD /\ rstate' = Ic!R_WAIT_R
      BY <1>5, SlavesAreReady DEF Ic!ForwardRead
    <2>2. ~up /\ ~up' /\ ~Ic!S_RVALID
      BY <2>1, States DEF Ic!S_RVALID, Ic!R_RESP, Ic!R_WAIT_R
    <2> HIDE DEF answer, up
    <2> QED
      BY <1>1, <1>3, <2>1, <2>2, States DEF Carried
  <1>6. CASE Ic!WaitR(fromSlaves)
    <2>1. /\ rstate = Ic!R_WAIT_R /\ rstate' = Ic!R_RESP /\ r_dest_q' = r_dest_q
          /\ ar_addr_q' = ar_addr_q
          /\ ic_rdata_q' = Ic!m_r(fromSlaves).data
          /\ ic_rresp_q' = Ic!m_r(fromSlaves).resp
      BY <1>6, SlavesAreReady DEF Ic!WaitR
    <2>2. /\ r_dest_q \in {DEST_REG, DEST_MEM} /\ ~up /\ up' /\ ~Ic!S_RVALID
      BY <2>1, States DEF ReadCoupling, Ic!S_RVALID, Ic!R_RESP, Ic!DEST_ERR
    <2>3. \A s \in {DEST_REG, DEST_MEM} :
            r_dest_q = s =>
              Ic!TakenR(s) = <<[slave |-> s, addr |-> ar_addr_q,
                                beat |-> Head(fromSlaves[s].r)]>>
      <3> SUFFICES ASSUME NEW s \in {DEST_REG, DEST_MEM}, r_dest_q = s
                   PROVE  Ic!TakenR(s) = <<[slave |-> s, addr |-> ar_addr_q,
                                            beat |-> Head(fromSlaves[s].r)]>>
        OBVIOUS
      <3>1. Ic!M_RREADY(s)
        BY <2>1 DEF Ic!M_RREADY
      <3>2. portView[s].ar = <<ar_addr_q>>
        <4>1. /\ rvalid_q \in BOOLEAN /\ mem_rvalid_q \in BOOLEAN
              /\ s = DEST_REG => rvalid_q
              /\ s = DEST_MEM => mem_rvalid_q
          BY <3>1 DEF ReadCoupling, Ic!M_RREADY
        <4>2. /\ ReadAddr(arq) = Carried(rvalid_q, ar_addr_q)
              /\ ReadAddr(mem_arq) = Carried(mem_rvalid_q, ar_addr_q)
          BY <4>1, OneReadAddr DEF ReadCoupling
        <4> QED
          BY <4>1, <4>2, PortViews DEF PortOf, ReadAddr, Carried
      <3>3. portView[s].r # <<>> /\ portView[s].r = fromSlaves[s].r
        BY <3>1, PortViews, States, BeatFacts DEF PortOf, ReadCoupling, Carried,
           reg_r, mem_r, fromSlaves
      <3> QED
        BY <3>1, <3>2, <3>3, BeatFacts DEF Ic!TakenR
    <2>4. Ic!m_r(fromSlaves) = Head(fromSlaves[r_dest_q].r)
      BY <2>2, States DEF Ic!m_r, DEST_REG, DEST_MEM
    <2>5. Head(fromSlaves[r_dest_q].r) = [data |-> ic_rdata_q', resp |-> ic_rresp_q']
      <3>1. \E d, p : Head(fromSlaves[r_dest_q].r) = [data |-> d, resp |-> p]
        <4>1. fromSlaves[r_dest_q].r =
                IF r_dest_q = DEST_REG
                  THEN <<[data |-> rdata_q, resp |-> rresp_q]>>
                  ELSE <<[data |-> mem_rdata_q, resp |-> mem_rresp_q]>>
          BY <2>1, <2>2, States DEF fromSlaves, reg_r, mem_r, Carried, ReadCoupling,
             Ic!M_RREADY
        <4>2. \/ Head(fromSlaves[r_dest_q].r) = [data |-> rdata_q, resp |-> rresp_q]
              \/ Head(fromSlaves[r_dest_q].r) =
                   [data |-> mem_rdata_q, resp |-> mem_rresp_q]
          BY <4>1, BeatFacts
        <4> QED
          BY <4>2, Zenon
      <3> QED
        BY <2>1, <2>4, <3>1
    <2>6. answer' = [slave |-> r_dest_q, addr |-> ar_addr_q,
                     beat |-> Head(fromSlaves[r_dest_q].r)]
      BY <2>1, <2>5
    <2>7. Ic!TakenR(DEST_REG) \o Ic!TakenR(DEST_MEM) = <<answer'>>
      <3>1. CASE r_dest_q = DEST_REG
        <4>1. Ic!TakenR(DEST_MEM) = <<>>
          BY <1>2, <3>1, States DEF Ic!M_RREADY
        <4>2. Ic!TakenR(DEST_REG) = <<answer'>>
          BY <2>3, <2>6, <3>1
        <4> HIDE DEF answer
        <4> QED
          BY <4>1, <4>2, BeatFacts
      <3>2. CASE r_dest_q = DEST_MEM
        <4>1. Ic!TakenR(DEST_REG) = <<>>
          BY <1>2, <3>2, States DEF Ic!M_RREADY
        <4>2. Ic!TakenR(DEST_MEM) = <<answer'>>
          BY <2>3, <2>6, <3>2
        <4> HIDE DEF answer
        <4> QED
          BY <4>1, <4>2, BeatFacts
      <3> QED
        BY <2>2, <3>1, <3>2
    <2> HIDE DEF answer, up
    <2>8. rAnswerView = <<>> /\ rAnswerView' = <<answer'>>
      BY <1>1, <2>2 DEF Carried
    <2>9. <<>> \o Ic!TakenR(DEST_REG) = Ic!TakenR(DEST_REG)
      <3>1. \A s : Ic!TakenR(s) = <<>> \/ \E x : Ic!TakenR(s) = <<x>>
        BY DEF Ic!TakenR
      <3> QED
        BY <3>1, BeatFacts
    <2> QED
      BY <2>2, <2>7, <2>8, <2>9
  <1>7. CASE Ic!RespondRead(rready)
    <2>1. rstate = Ic!R_RESP
      BY <1>7 DEF Ic!RespondRead
    <2>2. CASE rready
      <3>1. ~up' /\ Ic!S_RVALID
        BY <1>7, <2>1, <2>2, States DEF Ic!RespondRead, Ic!R_RESP, Ic!R_IDLE,
           Ic!S_RVALID
      <3> HIDE DEF answer, up
      <3> QED
        BY <1>1, <2>2, <3>1 DEF Carried
    <2>3. CASE ~rready
      <3>1. up' = up /\ answer' = answer
        BY <1>7, <2>1, <2>3, States DEF Ic!RespondRead, Ic!R_RESP, Ic!DEST_ERR
      <3> HIDE DEF answer, up
      <3> QED
        BY <1>1, <1>3, <2>1, <2>3, <3>1, States DEF Carried
    <2> QED
      BY <2>2, <2>3
  <1> QED
    BY <1>4, <1>5, <1>6, <1>7 DEF Ic!ReadPath

LEMMA NewAnswers ==
  ASSUME WriteCoupling, ReadCoupling, IInv', MemP!IInv',
         NEW aw, NEW w, NEW bready, NEW ar, NEW rready,
         SysEdge(aw, w, bready, ar, rready)
  PROVE  new_b \in Ic!NewB /\ new_r \in Ic!NewR
  <1>1. /\ bvalid_q' = Forwards(DEST_REG) /\ mem_bvalid_q' = Forwards(DEST_MEM)
        /\ rvalid_q' = ForwardsRead(DEST_REG) /\ mem_rvalid_q' = ForwardsRead(DEST_MEM)
    BY SlavesWrite, SlavesRead
  <1>2. /\ bresp_q' \in {OKAY, SLVERR} /\ mem_bresp_q' \in {OKAY, SLVERR}
        /\ rresp_q' \in {OKAY, SLVERR} /\ mem_rresp_q' \in {OKAY, SLVERR}
        /\ rdata_q' \in Word /\ mem_rdata_q' \in Word
    BY DEF IInv, TypeOK, SlaveTypeOK, MemP!IInv, MemP!TypeOK, MemP!MemTypeOK,
       MemP!OKAY, MemP!SLVERR, OKAY, SLVERR, MemP!Word, Word, MemP!Bits, Bits
  <1>3. new_b \in Ic!NewB
    <2>1. /\ bvalid_q' \/ mem_bvalid_q' => wstate = Ic!W_FWD
          /\ \/ new_b = <<>>
             \/ (bvalid_q' \/ mem_bvalid_q') /\ \E x \in {OKAY, SLVERR} : new_b = <<x>>
      BY <1>1, <1>2 DEF Forwards, new_b, reg_b, mem_b, Carried
    <2> QED
      BY <2>1 DEF Ic!NewB, Ic!Beats, Ic!WResps, OKAY, SLVERR, Ic!OKAY, Ic!SLVERR
  <1>4. /\ rvalid_q' /\ rresp_q' = SLVERR => rdata_q' = {}
        /\ mem_rvalid_q' /\ mem_rresp_q' = SLVERR => mem_rdata_q' = {}
    <2>1. ASSUME rvalid_q', rresp_q' = SLVERR PROVE rdata_q' = {}
      <3>1. Forwards(DEST_REG) \in BOOLEAN /\ ForwardsRead(DEST_REG)
        BY <1>1, <2>1 DEF Forwards
      <3>2. ar_hs(AR(DEST_REG))
        <4>1. AR(DEST_REG) # <<>>
          BY <3>1, Offers, BeatFacts DEF AR, Carried
        <4>2. ~rvalid_q
          BY <3>1, States DEF ReadCoupling, Ic!M_RREADY, ForwardsRead
        <4> QED
          BY <4>1, <4>2 DEF ar_hs, ARREADY
      <3> QED
        BY <2>1, <3>2 DEF SysEdge, BusClock, SlaveClock, ReadChannel, Resp, OKAY, SLVERR
    <2>2. mem_rvalid_q' /\ mem_rresp_q' = SLVERR => mem_rdata_q' = {}
      BY DEF MemP!IInv, MemP!ReadEarned, MemP!SLVERR, SLVERR
    <2> QED
      BY <2>1, <2>2
  <1>5. new_r \in Ic!NewR
    <2>1. \A d \in Word, p \in {OKAY, SLVERR} :
            (p = SLVERR => d = {}) => [data |-> d, resp |-> p] \in ReadAnswers
      BY DEF ReadAnswers
    <2>2. /\ rvalid_q' => [data |-> rdata_q', resp |-> rresp_q'] \in ReadAnswers
          /\ mem_rvalid_q' =>
               [data |-> mem_rdata_q', resp |-> mem_rresp_q'] \in ReadAnswers
      BY <1>2, <1>4, <2>1
    <2>3. /\ rvalid_q' \/ mem_rvalid_q' => rstate = Ic!R_FWD
          /\ \/ new_r = <<>>
             \/ (rvalid_q' \/ mem_rvalid_q') /\ \E x \in ReadAnswers : new_r = <<x>>
      BY <1>1, <2>2 DEF ForwardsRead, new_r, reg_r, mem_r, Carried
    <2> QED
      BY <2>3 DEF Ic!NewR, Ic!Beats
  <1> QED
    BY <1>3, <1>5

LEMMA InterconnectStep ==
  Coupling /\ IInv' /\ MemP!IInv' /\ [SysNext]_sysVars => [Ic!Next]_(Ic!vars)
  <1> SUFFICES ASSUME Coupling, IInv', MemP!IInv', [SysNext]_sysVars
               PROVE  [Ic!Next]_(Ic!vars)
    OBVIOUS
  <1>1. CASE SysClock
    <2>1. PICK aw, w, bready, ar, rready :
            /\ aw \in Offer(s_aw_offered, Addrs) /\ w \in Offer(s_w_offered, WBeats)
            /\ ar \in Offer(s_ar_offered, Addrs)
            /\ bready \in Ic!Signal(Ic!S_BVALID) /\ rready \in Ic!Signal(Ic!S_RVALID)
            /\ SysEdge(aw, w, bready, ar, rready)
      BY <1>1, SysClockInputs
    <2>2. \A o, S : Ic!Offer(o, S) = Offer(o, S)
      BY DEF Ic!Offer, Offer, Ic!Beats, Beats
    <2>3. /\ Ic!Observe(aw, Ic!s_aw_hs(aw), w, Ic!s_w_hs(w), ar, Ic!s_ar_hs(ar),
                        Ic!S_BVALID /\ bready, Ic!S_RVALID /\ rready)
          /\ Ic!IcClock(aw, w, bready, ar, rready, fromSlaves)
      BY <2>1 DEF SysEdge
    <2>4. Ic!IcClock(aw, w, bready, ar, rready, Ic!Driven(ready))
      BY <2>3, SameWires DEF Coupling
    <2>5. ready \in Ic!Readys
      BY DEF ready, Ic!Readys, Ic!Signal
    <2>6. new_b \in Ic!NewB /\ new_r \in Ic!NewR
      BY <2>1, NewAnswers DEF Coupling
    <2>7. Ic!PortsEdge(bready, rready, ready, new_b, new_r)
      <3>1. portView' = [s \in Ic!Slaves |-> Ic!SlavePort(s, ready, new_b, new_r)]
        BY <2>1, PortsStep DEF Coupling
      <3>2. wAnswerView' =
              IF Ic!S_BVALID /\ bready THEN <<>>
              ELSE wAnswerView \o Ic!TakenB(DEST_REG) \o Ic!TakenB(DEST_MEM)
        BY <2>3, WriteAnswersStep DEF Coupling, Ic!IcClock
      <3>3. rAnswerView' =
              IF Ic!S_RVALID /\ rready THEN <<>>
              ELSE rAnswerView \o Ic!TakenR(DEST_REG) \o Ic!TakenR(DEST_MEM)
        BY <2>3, ReadAnswersStep DEF Coupling, Ic!IcClock
      <3> QED
        BY <3>1, <3>2, <3>3, Zenon DEF Ic!PortsEdge, DEST_REG, DEST_MEM
    <2>8. Ic!Clock
      BY <2>1, <2>2, <2>3, <2>4, <2>5, <2>6, <2>7 DEF Ic!Clock
    <2> QED
      BY <2>8 DEF Ic!Next
  <1>2. CASE SysReset
    <2>1. Ic!IcReset /\ Ic!BusReset /\ wAnswerView' = <<>> /\ rAnswerView' = <<>>
      BY <1>2 DEF SysReset, Ic!IcReset, wAnswerView, rAnswerView, Carried,
         Ic!W_COLLECT, Ic!R_IDLE
    <2>2. portView' = [s \in Ic!Slaves |-> Ic!IdlePort]
      <3>1. /\ reg_b' = <<>> /\ reg_r' = <<>> /\ mem_b' = <<>> /\ mem_r' = <<>>
            /\ awq' = <<>> /\ wq' = <<>> /\ arq' = <<>>
            /\ mem_awq' = <<>> /\ mem_wq' = <<>> /\ mem_arq' = <<>>
        BY <1>2 DEF SysReset, Reset, SlaveReset, BusReset, Mem!Reset, Mem!MemReset,
           Mem!BusReset, reg_b, reg_r, mem_b, mem_r, Carried
      <3>2. portView'[DEST_REG] = Ic!IdlePort /\ portView'[DEST_MEM] = Ic!IdlePort
        BY <3>1, PortViews DEF PortOf, Ic!IdlePort
      <3> QED
        BY <3>2, PortViews, States
    <2> QED
      BY <2>1, <2>2 DEF Ic!Reset, Ic!Next
  <1>3. CASE UNCHANGED sysVars
    BY <1>3 DEF sysVars, vars, slaveVars, channelVars, bankVars, busVars, ic_vars,
       s_vars, mem_vars, Ic!vars, Ic!icVars, Ic!writePath, Ic!readPath, Ic!busVars,
       portView, wAnswerView, rAnswerView, PortOf, reg_b, reg_r, mem_b, mem_r,
       Carried
  <1> QED
    BY <1>1, <1>2, <1>3 DEF SysNext

(***************************************************************************)
(* Each part keeps the promises the models of the others take from it: so  *)
(* every theorem about the slaves on any bus, and about the interconnect   *)
(* between any master and any slaves, holds in the composed system.        *)
(***************************************************************************)
THEOREM PromisesAreKept == SysSpec => PromisesKept
  <1>1. SysInit => Ic!Init
    <2>1. SUFFICES ASSUME SysInit PROVE Ic!Init
      OBVIOUS
    <2>2. wAnswerView = <<>> /\ rAnswerView = <<>>
      BY <2>1 DEF SysInit, Ic!IcInReset, wAnswerView, rAnswerView, Carried,
         Ic!W_COLLECT, Ic!R_IDLE
    <2>3. portView = [s \in Ic!Slaves |-> Ic!IdlePort]
      BY <2>1 DEF SysInit, Init, SlaveInReset, BusIdle, Mem!Init, Mem!MemInReset,
         Mem!ChannelsInReset, Mem!BusIdle, portView, PortOf, reg_b, reg_r, mem_b,
         mem_r, Carried, Ic!IdlePort, Ic!Slaves, Ic!DEST_REG, Ic!DEST_MEM
    <2> QED
      BY <2>1, <2>2, <2>3 DEF SysInit, Ic!Init
  <1>2. SysSpec => Ic!Spec
    BY <1>1, InterconnectStep, CouplingInvariance, SlavesInvariance, PTL
       DEF SysSpec, Ic!Spec
  <1> QED
    BY <1>2, SlavesAreDriven, PTL DEF PromisesKept

-----------------------------------------------------------------------------
(***************************************************************************)
(* So what InterconnectProofs proves holds here too.  IcP names what Ic    *)
(* names.                                                                  *)
(***************************************************************************)
LEMMA SameWritePath ==
  ASSUME NEW aw, NEW w, NEW bready, NEW m, Ic!WritePath(aw, w, bready, m)
  PROVE  IcP!WritePath(aw, w, bready, m)
  BY DEF Ic!WritePath, IcP!WritePath, Ic!WriteLatches, IcP!WriteLatches,
         Ic!Collect, IcP!Collect, Ic!Forward, IcP!Forward, Ic!WaitB, IcP!WaitB,
         Ic!Respond, IcP!Respond, Ic!KeepHalves, IcP!KeepHalves,
         Ic!m_aw_hs, IcP!m_aw_hs, Ic!m_w_hs, IcP!m_w_hs, Ic!m_b_hs, IcP!m_b_hs,
         Ic!m_bresp, IcP!m_bresp, Ic!M_AWVALID, IcP!M_AWVALID,
         Ic!M_WVALID, IcP!M_WVALID, Ic!M_BREADY, IcP!M_BREADY,
         Ic!s_aw_hs, IcP!s_aw_hs, Ic!s_w_hs, IcP!s_w_hs,
         Ic!S_AWREADY, IcP!S_AWREADY, Ic!S_WREADY, IcP!S_WREADY,
         Ic!w_both_now, IcP!w_both_now, Ic!aw_addr_now, IcP!aw_addr_now,
         Ic!decode, IcP!decode, Ic!Slaves, IcP!Slaves, Ic!DEST_REG, IcP!DEST_REG,
         Ic!DEST_MEM, IcP!DEST_MEM, Ic!DEST_ERR, IcP!DEST_ERR,
         Ic!W_COLLECT, IcP!W_COLLECT, Ic!W_FWD, IcP!W_FWD,
         Ic!W_WAIT_B, IcP!W_WAIT_B, Ic!W_RESP, IcP!W_RESP, Ic!DECERR, IcP!DECERR

LEMMA SameReadPath ==
  ASSUME NEW ar, NEW rready, NEW m, Ic!ReadPath(ar, rready, m)
  PROVE  IcP!ReadPath(ar, rready, m)
  BY DEF Ic!ReadPath, IcP!ReadPath, Ic!Idle, IcP!Idle, Ic!ForwardRead,
         IcP!ForwardRead, Ic!WaitR, IcP!WaitR, Ic!RespondRead, IcP!RespondRead,
         Ic!readPath, IcP!readPath, Ic!m_ar_hs, IcP!m_ar_hs,
         Ic!m_r_hs, IcP!m_r_hs, Ic!m_r, IcP!m_r, Ic!M_ARVALID, IcP!M_ARVALID,
         Ic!M_RREADY, IcP!M_RREADY, Ic!s_ar_hs, IcP!s_ar_hs,
         Ic!S_ARREADY, IcP!S_ARREADY, Ic!decode, IcP!decode,
         Ic!Slaves, IcP!Slaves, Ic!DEST_REG, IcP!DEST_REG,
         Ic!DEST_MEM, IcP!DEST_MEM, Ic!DEST_ERR, IcP!DEST_ERR,
         Ic!R_IDLE, IcP!R_IDLE, Ic!R_FWD, IcP!R_FWD,
         Ic!R_WAIT_R, IcP!R_WAIT_R, Ic!R_RESP, IcP!R_RESP, Ic!DECERR, IcP!DECERR

LEMMA SamePortsEdge ==
  ASSUME NEW bready, NEW rready, NEW rdy, NEW b, NEW r,
         Ic!PortsEdge(bready, rready, rdy, b, r)
  PROVE  IcP!PortsEdge(bready, rready, rdy, b, r)
  BY DEF Ic!PortsEdge, IcP!PortsEdge, Ic!SlavePort, IcP!SlavePort,
         Ic!Answer, IcP!Answer, Ic!TakenB, IcP!TakenB, Ic!TakenR, IcP!TakenR,
         Ic!M_AWVALID, IcP!M_AWVALID, Ic!M_WVALID, IcP!M_WVALID,
         Ic!M_BREADY, IcP!M_BREADY, Ic!M_ARVALID, IcP!M_ARVALID,
         Ic!M_RREADY, IcP!M_RREADY, Ic!S_BVALID, IcP!S_BVALID,
         Ic!S_RVALID, IcP!S_RVALID, Ic!Track, IcP!Track, Ic!Accepted, IcP!Accepted,
         Ic!Slaves, IcP!Slaves, Ic!DEST_REG, IcP!DEST_REG,
         Ic!DEST_MEM, IcP!DEST_MEM, Ic!W_FWD, IcP!W_FWD, Ic!W_WAIT_B, IcP!W_WAIT_B,
         Ic!W_RESP, IcP!W_RESP, Ic!R_FWD, IcP!R_FWD, Ic!R_WAIT_R, IcP!R_WAIT_R,
         Ic!R_RESP, IcP!R_RESP

LEMMA SameObserve ==
  ASSUME NEW aw, NEW w, NEW bready, NEW ar, NEW rready,
         Ic!Observe(aw, Ic!s_aw_hs(aw), w, Ic!s_w_hs(w), ar, Ic!s_ar_hs(ar),
                    Ic!S_BVALID /\ bready, Ic!S_RVALID /\ rready)
  PROVE  IcP!Observe(aw, IcP!s_aw_hs(aw), w, IcP!s_w_hs(w), ar, IcP!s_ar_hs(ar),
                     IcP!S_BVALID /\ bready, IcP!S_RVALID /\ rready)
  BY DEF Ic!Observe, IcP!Observe, Ic!Held, IcP!Held, Ic!Track, IcP!Track,
         Ic!Accepted, IcP!Accepted, Ic!ReadBeat, IcP!ReadBeat,
         Ic!s_aw_hs, IcP!s_aw_hs, Ic!s_w_hs, IcP!s_w_hs, Ic!s_ar_hs, IcP!s_ar_hs,
         Ic!S_AWREADY, IcP!S_AWREADY, Ic!S_WREADY, IcP!S_WREADY,
         Ic!S_ARREADY, IcP!S_ARREADY, Ic!S_BVALID, IcP!S_BVALID,
         Ic!S_RVALID, IcP!S_RVALID, Ic!W_COLLECT, IcP!W_COLLECT,
         Ic!W_RESP, IcP!W_RESP, Ic!R_IDLE, IcP!R_IDLE, Ic!R_RESP, IcP!R_RESP

LEMMA SameInterconnect == Ic!Spec => IcP!Spec
  <1>1. Ic!Init => IcP!Init
    BY DEF Ic!Init, IcP!Init, Ic!IcInReset, IcP!IcInReset, Ic!BusIdle, IcP!BusIdle,
       Ic!IdlePort, IcP!IdlePort, Ic!Slaves, IcP!Slaves, Ic!DEST_REG, IcP!DEST_REG,
       Ic!DEST_MEM, IcP!DEST_MEM, Ic!W_COLLECT, IcP!W_COLLECT, Ic!R_IDLE,
       IcP!R_IDLE, Ic!OKAY, IcP!OKAY
  <1>2. Ic!Reset => IcP!Reset
    BY DEF Ic!Reset, IcP!Reset, Ic!IcReset, IcP!IcReset, Ic!BusReset, IcP!BusReset,
       Ic!IdlePort, IcP!IdlePort, Ic!Slaves, IcP!Slaves, Ic!DEST_REG, IcP!DEST_REG,
       Ic!DEST_MEM, IcP!DEST_MEM, Ic!W_COLLECT, IcP!W_COLLECT, Ic!R_IDLE,
       IcP!R_IDLE, Ic!OKAY, IcP!OKAY
  <1>3. Ic!Clock => IcP!Clock
    <2> SUFFICES ASSUME Ic!Clock PROVE IcP!Clock
      OBVIOUS
    <2>1. PICK aw \in Ic!Offer(s_aw_offered, Addrs), w \in Ic!Offer(s_w_offered, WBeats),
               ar \in Ic!Offer(s_ar_offered, Addrs),
               bready \in Ic!Signal(Ic!S_BVALID), rready \in Ic!Signal(Ic!S_RVALID),
               rdy \in Ic!Readys, b \in Ic!NewB, r \in Ic!NewR :
            /\ Ic!Observe(aw, Ic!s_aw_hs(aw), w, Ic!s_w_hs(w), ar, Ic!s_ar_hs(ar),
                          Ic!S_BVALID /\ bready, Ic!S_RVALID /\ rready)
            /\ Ic!IcClock(aw, w, bready, ar, rready, Ic!Driven(rdy))
            /\ Ic!PortsEdge(bready, rready, rdy, b, r)
      BY DEF Ic!Clock
    <2>2. \A o, S : Ic!Offer(o, S) = IcP!Offer(o, S)
      BY DEF Ic!Offer, IcP!Offer, Ic!Beats, IcP!Beats
    <2>3. /\ Ic!Signal(Ic!S_BVALID) = IcP!Signal(IcP!S_BVALID)
          /\ Ic!Signal(Ic!S_RVALID) = IcP!Signal(IcP!S_RVALID)
          /\ Ic!Readys = IcP!Readys /\ Ic!NewB = IcP!NewB /\ Ic!NewR = IcP!NewR
          /\ Ic!Driven(rdy) = IcP!Driven(rdy)
      BY DEF Ic!Signal, IcP!Signal, Ic!S_BVALID, IcP!S_BVALID, Ic!S_RVALID,
         IcP!S_RVALID, Ic!Readys, IcP!Readys, Ic!NewB, IcP!NewB, Ic!NewR, IcP!NewR,
         Ic!Driven, IcP!Driven, Ic!Beats, IcP!Beats, Ic!WResps, IcP!WResps,
         Ic!OKAY, IcP!OKAY, Ic!SLVERR, IcP!SLVERR, Ic!Slaves, IcP!Slaves,
         Ic!DEST_REG, IcP!DEST_REG, Ic!DEST_MEM, IcP!DEST_MEM,
         Ic!W_FWD, IcP!W_FWD, Ic!W_WAIT_B, IcP!W_WAIT_B, Ic!W_RESP, IcP!W_RESP,
         Ic!R_FWD, IcP!R_FWD, Ic!R_WAIT_R, IcP!R_WAIT_R, Ic!R_RESP, IcP!R_RESP
    <2>4. IcP!IcClock(aw, w, bready, ar, rready, IcP!Driven(rdy))
      <3>1. Ic!WritePath(aw, w, bready, Ic!Driven(rdy))
            /\ Ic!ReadPath(ar, rready, Ic!Driven(rdy))
        BY <2>1 DEF Ic!IcClock
      <3>2. IcP!WritePath(aw, w, bready, IcP!Driven(rdy))
            /\ IcP!ReadPath(ar, rready, IcP!Driven(rdy))
        BY <2>3, <3>1, SameWritePath, SameReadPath
      <3> QED
        BY <3>2 DEF IcP!IcClock
    <2>5. /\ IcP!Observe(aw, IcP!s_aw_hs(aw), w, IcP!s_w_hs(w), ar, IcP!s_ar_hs(ar),
                         IcP!S_BVALID /\ bready, IcP!S_RVALID /\ rready)
          /\ IcP!PortsEdge(bready, rready, rdy, b, r)
      BY <2>1, SameObserve, SamePortsEdge
    <2> QED
      BY <2>2, <2>3, <2>4, <2>5, Zenon DEF IcP!Clock
  <1>4. UNCHANGED Ic!vars => UNCHANGED IcP!vars
    BY DEF Ic!vars, IcP!vars, Ic!icVars, IcP!icVars, Ic!writePath, IcP!writePath,
       Ic!readPath, IcP!readPath, Ic!busVars, IcP!busVars
  <1>5. [Ic!Next]_(Ic!vars) => [IcP!Next]_(IcP!vars)
    BY <1>2, <1>3, <1>4 DEF Ic!Next, IcP!Next
  <1> QED
    BY <1>1, <1>5, PTL DEF Ic!Spec, IcP!Spec

LEMMA InterconnectInvariance == SysSpec => []IcP!IInv
  <1>1. IcP!Spec => []IcP!IInv
    BY IcP!Invariance, PartAssumptions
  <1> QED
    BY <1>1, PromisesAreKept, SameInterconnect, PTL DEF PromisesKept

-----------------------------------------------------------------------------
(***************************************************************************)
(* Where a result is: at the slave while it holds the response up, then at *)
(* the interconnect until the master takes it, and always with the beats   *)
(* the master sent.                                                        *)
(***************************************************************************)
w_beat == [data |-> w_data_q, strb |-> w_strb_q]

wHeld(s) == Carried(Ic!S_BVALID /\ w_dest_q = s,
                    [addr |-> aw_addr_q, beat |-> w_beat, resp |-> ic_bresp_q])
rHeld(s) == Carried(Ic!S_RVALID /\ r_dest_q = s,
                    [addr |-> ar_addr_q, data |-> ic_rdata_q, resp |-> ic_rresp_q])

WriteResultsAt ==
  /\ bView = Carried(bvalid_q, [addr |-> aw_addr_q, beat |-> w_beat,
                                resp |-> bresp_q])
  /\ MemP!bView = Carried(mem_bvalid_q, [addr |-> aw_addr_q, beat |-> w_beat,
                                         resp |-> mem_bresp_q])
  /\ wResult(bvalid_q, bresp_q, DEST_REG) =
       IF bvalid_q THEN bView ELSE wHeld(DEST_REG)
  /\ wResult(mem_bvalid_q, mem_bresp_q, DEST_MEM) =
       IF mem_bvalid_q THEN MemP!bView ELSE wHeld(DEST_MEM)

LEMMA WriteViews == Coupling /\ IcP!IInv => WriteResultsAt
  <1> HAVE Coupling /\ IcP!IInv
  <1>1. /\ bView = Carried(bvalid_q, [addr |-> aw_addr_q, beat |-> w_beat,
                                      resp |-> bresp_q])
        /\ MemP!bView = Carried(mem_bvalid_q, [addr |-> aw_addr_q, beat |-> w_beat,
                                               resp |-> mem_bresp_q])
    BY BeatFacts DEF Coupling, WriteCoupling, Carried, bView, MemP!bView, w_beat
  <1>2. /\ bvalid_q => wstate = Ic!W_WAIT_B
        /\ mem_bvalid_q => wstate = Ic!W_WAIT_B
        /\ Ic!S_BVALID => wstate = Ic!W_RESP
    BY DEF Coupling, WriteCoupling, Ic!M_BREADY, Ic!S_BVALID
  <1>3. wstate \in {Ic!W_WAIT_B, Ic!W_RESP} =>
          s_awq = <<aw_addr_q>> /\ s_wq = <<w_beat>>
    BY States DEF Coupling, MasterBeats, IcP!IInv, IcP!WriteInv, w_beat
  <1>4. /\ \A x : Head(<<x>>) = x
        /\ wstate \in {Ic!W_WAIT_B, Ic!W_RESP} =>
             Head(s_awq) = aw_addr_q /\ Head(s_wq) = w_beat
    BY <1>3, BeatFacts
  <1> HIDE DEF w_beat
  <1>5. wResult(bvalid_q, bresp_q, DEST_REG) =
          IF bvalid_q THEN bView ELSE wHeld(DEST_REG)
    BY <1>1, <1>2, <1>4 DEF wResult, wHeld, Carried
  <1>6. wResult(mem_bvalid_q, mem_bresp_q, DEST_MEM) =
          IF mem_bvalid_q THEN MemP!bView ELSE wHeld(DEST_MEM)
    BY <1>1, <1>2, <1>4 DEF wResult, wHeld, Carried
  <1> QED
    BY <1>1, <1>5, <1>6 DEF WriteResultsAt

ReadResultsAt ==
  /\ rView = Carried(rvalid_q, [addr |-> ar_addr_q, data |-> rdata_q,
                                resp |-> rresp_q])
  /\ MemP!rView = Carried(mem_rvalid_q, [addr |-> ar_addr_q, data |-> mem_rdata_q,
                                         resp |-> mem_rresp_q])
  /\ rResult(rvalid_q, rdata_q, rresp_q, DEST_REG) =
       IF rvalid_q THEN rView ELSE rHeld(DEST_REG)
  /\ rResult(mem_rvalid_q, mem_rdata_q, mem_rresp_q, DEST_MEM) =
       IF mem_rvalid_q THEN MemP!rView ELSE rHeld(DEST_MEM)

LEMMA ReadViews == Coupling /\ IcP!IInv => ReadResultsAt
  <1> HAVE Coupling /\ IcP!IInv
  <1>1. /\ rvalid_q => Head(arq).addr = ar_addr_q
        /\ mem_rvalid_q => Head(mem_arq).addr = ar_addr_q
    <2>1. \A q, a : OneRead(q, TRUE, a) => Head(q).addr = a
      BY BeatFacts DEF OneRead
    <2>2. /\ rvalid_q => OneRead(arq, TRUE, ar_addr_q)
          /\ mem_rvalid_q => OneRead(mem_arq, TRUE, ar_addr_q)
      BY DEF Coupling, ReadCoupling, OneRead
    <2> QED
      BY <2>1, <2>2
  <1>2. /\ rView = Carried(rvalid_q, [addr |-> ar_addr_q, data |-> rdata_q,
                                      resp |-> rresp_q])
        /\ MemP!rView = Carried(mem_rvalid_q, [addr |-> ar_addr_q,
                                               data |-> mem_rdata_q,
                                               resp |-> mem_rresp_q])
    BY <1>1 DEF Carried, rView, MemP!rView
  <1>3. /\ rvalid_q => rstate = Ic!R_WAIT_R
        /\ mem_rvalid_q => rstate = Ic!R_WAIT_R
        /\ Ic!S_RVALID => rstate = Ic!R_RESP
    BY DEF Coupling, ReadCoupling, Ic!M_RREADY, Ic!S_RVALID
  <1>4. rstate \in {Ic!R_WAIT_R, Ic!R_RESP} => Head(s_arq).addr = ar_addr_q
    BY States DEF IcP!IInv, IcP!ReadInv, IcP!R_IDLE, Ic!R_IDLE
  <1>5. rResult(rvalid_q, rdata_q, rresp_q, DEST_REG) =
          IF rvalid_q THEN rView ELSE rHeld(DEST_REG)
    BY <1>2, <1>3, <1>4 DEF rResult, rHeld, Carried
  <1>6. rResult(mem_rvalid_q, mem_rdata_q, mem_rresp_q, DEST_MEM) =
          IF mem_rvalid_q THEN MemP!rView ELSE rHeld(DEST_MEM)
    BY <1>2, <1>3, <1>4 DEF rResult, rHeld, Carried
  <1> QED
    BY <1>2, <1>5, <1>6 DEF ReadResultsAt

(***************************************************************************)
(* A result appears at a slave with the edge that forwards, to the slave   *)
(* that owns the address; it moves to the interconnect as it is; and no    *)
(* other result appears.                                                   *)
(***************************************************************************)
LEMMA WriteHeldStep ==
  ASSUME WriteCoupling, ReadCoupling, NEW aw, NEW w, NEW bready,
         Ic!WritePath(aw, w, bready, fromSlaves), NEW s \in {DEST_REG, DEST_MEM}
  PROVE  \/ wHeld(s)' = <<>>
         \/ wHeld(s)' = wHeld(s) /\ wstate = Ic!W_RESP
         \/ /\ Ic!M_BREADY(s)
            /\ wHeld(s)' = <<[addr |-> aw_addr_q, beat |-> w_beat,
                              resp |-> Head(fromSlaves[s].b)]>>
  <1>1. wHeld(s)' = Carried((wstate' = Ic!W_RESP) /\ w_dest_q' = s,
                            [addr |-> aw_addr_q', beat |-> w_beat',
                             resp |-> ic_bresp_q'])
    BY DEF wHeld, Carried, Ic!S_BVALID, Ic!W_RESP
  <1>2. wstate # Ic!W_COLLECT => aw_addr_q' = aw_addr_q /\ w_beat' = w_beat
    <2>1. wstate # Ic!W_COLLECT => ~Ic!S_AWREADY /\ ~Ic!S_WREADY
      BY DEF Ic!S_AWREADY, Ic!S_WREADY
    <2> QED
      BY <2>1 DEF Ic!WritePath, Ic!WriteLatches, Ic!s_aw_hs, Ic!s_w_hs, w_beat
  <1> HIDE DEF w_beat
  <1>3. CASE Ic!Collect(aw, w)
    <2>1. \/ wstate' = Ic!W_COLLECT \/ wstate' = Ic!W_FWD
          \/ wstate' = Ic!W_RESP /\ w_dest_q' = Ic!DEST_ERR
      BY <1>3 DEF Ic!Collect
    <2> QED
      BY <1>1, <2>1, States DEF Carried
  <1>4. CASE Ic!Forward(aw, w, fromSlaves)
    <2>1. wstate' = Ic!W_WAIT_B
      BY <1>4, SlavesAreReady DEF Ic!Forward
    <2> QED
      BY <1>1, <2>1, States DEF Carried
  <1>5. CASE Ic!WaitB(aw, w, fromSlaves)
    <2>1. /\ wstate = Ic!W_WAIT_B /\ wstate' = Ic!W_RESP /\ w_dest_q' = w_dest_q
          /\ ic_bresp_q' = Ic!m_bresp(fromSlaves)
      BY <1>5, SlavesAreReady DEF Ic!WaitB
    <2>2. CASE w_dest_q = s
      <3>1. Ic!m_bresp(fromSlaves) = Head(fromSlaves[s].b) /\ Ic!M_BREADY(s)
        BY <2>1, <2>2, States DEF Ic!m_bresp, Ic!M_BREADY, DEST_REG, DEST_MEM
      <3> QED
        BY <1>1, <1>2, <2>1, <2>2, <3>1, States DEF Carried
    <2>3. CASE w_dest_q # s
      BY <1>1, <2>1, <2>3 DEF Carried
    <2> QED
      BY <2>2, <2>3
  <1>6. CASE Ic!Respond(bready)
    <2>1. /\ wstate = Ic!W_RESP /\ wstate' \in {Ic!W_RESP, Ic!W_COLLECT}
          /\ w_dest_q' = w_dest_q /\ ic_bresp_q' = ic_bresp_q
      BY <1>6 DEF Ic!Respond
    <2>2. wHeld(s) = Carried(w_dest_q = s, [addr |-> aw_addr_q, beat |-> w_beat,
                                            resp |-> ic_bresp_q])
      BY <2>1 DEF wHeld, Carried, Ic!S_BVALID
    <2> QED
      BY <1>1, <1>2, <2>1, <2>2, States DEF Carried
  <1> QED
    BY <1>3, <1>4, <1>5, <1>6 DEF Ic!WritePath

LEMMA ReadHeldStep ==
  ASSUME WriteCoupling, ReadCoupling, NEW ar, NEW rready,
         Ic!ReadPath(ar, rready, fromSlaves), NEW s \in {DEST_REG, DEST_MEM}
  PROVE  \/ rHeld(s)' = <<>>
         \/ rHeld(s)' = rHeld(s) /\ rstate = Ic!R_RESP
         \/ /\ Ic!M_RREADY(s)
            /\ rHeld(s)' = <<[addr |-> ar_addr_q,
                              data |-> Head(fromSlaves[s].r).data,
                              resp |-> Head(fromSlaves[s].r).resp]>>
  <1>1. rHeld(s)' = Carried((rstate' = Ic!R_RESP) /\ r_dest_q' = s,
                            [addr |-> ar_addr_q', data |-> ic_rdata_q',
                             resp |-> ic_rresp_q'])
    BY DEF rHeld, Carried, Ic!S_RVALID, Ic!R_RESP
  <1>2. CASE Ic!Idle(ar)
    <2>1. \/ rstate' = Ic!R_IDLE \/ rstate' = Ic!R_FWD
          \/ rstate' = Ic!R_RESP /\ r_dest_q' = Ic!DEST_ERR
      BY <1>2 DEF Ic!Idle, Ic!readPath
    <2> QED
      BY <1>1, <2>1, States DEF Carried
  <1>3. CASE Ic!ForwardRead(fromSlaves)
    <2>1. rstate' = Ic!R_WAIT_R
      BY <1>3, SlavesAreReady DEF Ic!ForwardRead
    <2> QED
      BY <1>1, <2>1, States DEF Carried
  <1>4. CASE Ic!WaitR(fromSlaves)
    <2>1. /\ rstate = Ic!R_WAIT_R /\ rstate' = Ic!R_RESP
          /\ r_dest_q' = r_dest_q /\ ar_addr_q' = ar_addr_q
          /\ ic_rdata_q' = Ic!m_r(fromSlaves).data
          /\ ic_rresp_q' = Ic!m_r(fromSlaves).resp
      BY <1>4, SlavesAreReady DEF Ic!WaitR
    <2>2. CASE r_dest_q = s
      <3>1. Ic!m_r(fromSlaves) = Head(fromSlaves[s].r) /\ Ic!M_RREADY(s)
        BY <2>1, <2>2, States DEF Ic!m_r, Ic!M_RREADY, DEST_REG, DEST_MEM
      <3> QED
        BY <1>1, <2>1, <2>2, <3>1, States DEF Carried
    <2>3. CASE r_dest_q # s
      BY <1>1, <2>1, <2>3 DEF Carried
    <2> QED
      BY <2>2, <2>3
  <1>5. CASE Ic!RespondRead(rready)
    <2>1. /\ rstate = Ic!R_RESP /\ rstate' \in {Ic!R_RESP, Ic!R_IDLE}
          /\ r_dest_q' = r_dest_q /\ ar_addr_q' = ar_addr_q
          /\ ic_rdata_q' = ic_rdata_q /\ ic_rresp_q' = ic_rresp_q
      BY <1>5 DEF Ic!RespondRead
    <2>2. rHeld(s) = Carried(r_dest_q = s, [addr |-> ar_addr_q, data |-> ic_rdata_q,
                                            resp |-> ic_rresp_q])
      BY <2>1 DEF rHeld, Carried, Ic!S_RVALID
    <2> QED
      BY <1>1, <2>1, <2>2, States DEF Carried
  <1> QED
    BY <1>2, <1>3, <1>4, <1>5 DEF Ic!ReadPath

\* The whole of a result at the port of a file, over one edge: file is what
\* software sees, slave what the slave shows, over the addresses of a region.
Appears(file, fileNext, slave, slaveNext, a, Region) ==
  /\ slaveNext = <<>> => fileNext = file \/ fileNext = <<>>
  /\ slaveNext # <<>> => /\ slave = <<>> /\ file = <<>> /\ fileNext = slaveNext
                         /\ slaveNext[1].addr = a /\ a \in Region

LEMMA WriteResultStep ==
  ASSUME Coupling, Coupling', IcP!IInv, IcP!IInv',
         NEW aw, NEW w, NEW bready, NEW ar, NEW rready,
         SysEdge(aw, w, bready, ar, rready)
  PROVE  /\ Appears(wResult(bvalid_q, bresp_q, DEST_REG),
                    wResult(bvalid_q, bresp_q, DEST_REG)',
                    bView, bView', aw_addr_q, RegAddrs)
         /\ Appears(wResult(mem_bvalid_q, mem_bresp_q, DEST_MEM),
                    wResult(mem_bvalid_q, mem_bresp_q, DEST_MEM)',
                    MemP!bView, MemP!bView', aw_addr_q, MemAddrs)
  <1> DEFINE at(valid, resp) ==
               Carried(valid, [addr |-> aw_addr_q, beat |-> w_beat, resp |-> resp])
  <1>0. WriteResultsAt /\ WriteResultsAt'
    BY WriteViews, PTL
  <1>1. /\ bView = at(bvalid_q, bresp_q)
        /\ MemP!bView = at(mem_bvalid_q, mem_bresp_q)
        /\ wResult(bvalid_q, bresp_q, DEST_REG) =
             IF bvalid_q THEN bView ELSE wHeld(DEST_REG)
        /\ wResult(mem_bvalid_q, mem_bresp_q, DEST_MEM) =
             IF mem_bvalid_q THEN MemP!bView ELSE wHeld(DEST_MEM)
    BY <1>0 DEF WriteResultsAt
  <1>2. /\ bView' = at(bvalid_q, bresp_q)'
        /\ MemP!bView' = at(mem_bvalid_q, mem_bresp_q)'
        /\ wResult(bvalid_q, bresp_q, DEST_REG)' =
             IF bvalid_q' THEN bView' ELSE wHeld(DEST_REG)'
        /\ wResult(mem_bvalid_q, mem_bresp_q, DEST_MEM)' =
             IF mem_bvalid_q' THEN MemP!bView' ELSE wHeld(DEST_MEM)'
    BY <1>0 DEF WriteResultsAt
  <1>3. /\ bvalid_q' = Forwards(DEST_REG) /\ bvalid_q = Ic!M_BREADY(DEST_REG)
        /\ mem_bvalid_q' = Forwards(DEST_MEM) /\ mem_bvalid_q = Ic!M_BREADY(DEST_MEM)
    BY SlavesWrite DEF Coupling, WriteCoupling
  <1>4. /\ Ic!WritePath(aw, w, bready, fromSlaves)
        /\ wstate = Ic!W_FWD => aw_addr_q' = aw_addr_q
    BY WriteMoves DEF SysEdge, Ic!IcClock, Coupling
  <1>5. \A s : Forwards(s) => wHeld(s) = <<>> /\ ~Ic!M_BREADY(s)
    BY States DEF Forwards, wHeld, Ic!S_BVALID, Ic!M_BREADY, Carried
  <1>6. /\ Forwards(DEST_REG) => aw_addr_q \in RegAddrs
        /\ Forwards(DEST_MEM) => aw_addr_q \in MemAddrs
    <2>1. wstate = Ic!W_FWD => aw_addr_q \in Addrs /\ w_dest_q = IcP!decode(aw_addr_q)
      BY States DEF Coupling, MasterBeats, IcP!IInv, IcP!WriteInv, Ic!W_FWD,
         Ic!W_COLLECT, IcP!W_COLLECT
    <2> QED
      BY <2>1 DEF Forwards, IcP!decode, RegAddrs, MemAddrs, DEST_REG, DEST_MEM,
         Ic!DEST_REG, Ic!DEST_MEM, IcP!DEST_REG, IcP!DEST_MEM, IcP!DEST_ERR
  <1>7. /\ bvalid_q => fromSlaves[DEST_REG].b = <<bresp_q>>
        /\ mem_bvalid_q => fromSlaves[DEST_MEM].b = <<mem_bresp_q>>
    BY States DEF fromSlaves, reg_b, mem_b, Carried
  <1>8. \A x : Head(<<x>>) = x /\ <<x>>[1] = x /\ <<x>> # <<>>
    BY BeatFacts
  <1>9. /\ Ic!M_BREADY(DEST_REG) => wstate = Ic!W_WAIT_B
        /\ Ic!M_BREADY(DEST_MEM) => wstate = Ic!W_WAIT_B
        /\ \A s : Forwards(s) => wstate = Ic!W_FWD
    BY DEF Ic!M_BREADY, Forwards
  <1>10. \A s \in {DEST_REG, DEST_MEM} :
           \/ wHeld(s)' = <<>>
           \/ wHeld(s)' = wHeld(s) /\ wstate = Ic!W_RESP
           \/ /\ Ic!M_BREADY(s)
              /\ wHeld(s)' = <<[addr |-> aw_addr_q, beat |-> w_beat,
                                resp |-> Head(fromSlaves[s].b)]>>
    BY <1>4, WriteHeldStep DEF Coupling
  <1> HIDE DEF w_beat
  <1>11. Appears(wResult(bvalid_q, bresp_q, DEST_REG),
                 wResult(bvalid_q, bresp_q, DEST_REG)',
                 bView, bView', aw_addr_q, RegAddrs)
    <2>1. CASE bvalid_q'
      <3>1. /\ bView = <<>> /\ wResult(bvalid_q, bresp_q, DEST_REG) = <<>>
            /\ wResult(bvalid_q, bresp_q, DEST_REG)' = bView'
        BY <1>1, <1>2, <1>3, <1>5, <2>1 DEF Carried
      <3>2. bView' # <<>> /\ bView'[1].addr = aw_addr_q
        BY <1>2, <1>3, <1>4, <1>8, <1>9, <2>1 DEF Carried
      <3> QED
        BY <1>3, <1>6, <2>1, <3>1, <3>2 DEF Appears
    <2>2. CASE ~bvalid_q'
      <3>1. bView' = <<>> /\ wResult(bvalid_q, bresp_q, DEST_REG)' = wHeld(DEST_REG)'
        BY <1>2, <2>2 DEF Carried
      <3>2. \/ wHeld(DEST_REG)' = <<>>
            \/ wHeld(DEST_REG)' = wResult(bvalid_q, bresp_q, DEST_REG)
        BY <1>1, <1>3, <1>7, <1>8, <1>9, <1>10, States DEF Carried
      <3> QED
        BY <3>1, <3>2 DEF Appears
    <2> QED
      BY <2>1, <2>2
  <1>12. Appears(wResult(mem_bvalid_q, mem_bresp_q, DEST_MEM),
                 wResult(mem_bvalid_q, mem_bresp_q, DEST_MEM)',
                 MemP!bView, MemP!bView', aw_addr_q, MemAddrs)
    <2>1. CASE mem_bvalid_q'
      <3>1. /\ MemP!bView = <<>>
            /\ wResult(mem_bvalid_q, mem_bresp_q, DEST_MEM) = <<>>
            /\ wResult(mem_bvalid_q, mem_bresp_q, DEST_MEM)' = MemP!bView'
        BY <1>1, <1>2, <1>3, <1>5, <2>1 DEF Carried
      <3>2. MemP!bView' # <<>> /\ MemP!bView'[1].addr = aw_addr_q
        BY <1>2, <1>3, <1>4, <1>8, <1>9, <2>1 DEF Carried
      <3> QED
        BY <1>3, <1>6, <2>1, <3>1, <3>2 DEF Appears
    <2>2. CASE ~mem_bvalid_q'
      <3>1. /\ MemP!bView' = <<>>
            /\ wResult(mem_bvalid_q, mem_bresp_q, DEST_MEM)' = wHeld(DEST_MEM)'
        BY <1>2, <2>2 DEF Carried
      <3>2. \/ wHeld(DEST_MEM)' = <<>>
            \/ wHeld(DEST_MEM)' = wResult(mem_bvalid_q, mem_bresp_q, DEST_MEM)
        BY <1>1, <1>3, <1>7, <1>8, <1>9, <1>10, States DEF Carried
      <3> QED
        BY <3>1, <3>2 DEF Appears
    <2> QED
      BY <2>1, <2>2
  <1> QED
    BY <1>11, <1>12

LEMMA ReadResultStep ==
  ASSUME Coupling, Coupling', IcP!IInv, IcP!IInv',
         NEW aw, NEW w, NEW bready, NEW ar, NEW rready,
         SysEdge(aw, w, bready, ar, rready)
  PROVE  /\ Appears(rResult(rvalid_q, rdata_q, rresp_q, DEST_REG),
                    rResult(rvalid_q, rdata_q, rresp_q, DEST_REG)',
                    rView, rView', ar_addr_q, RegAddrs)
         /\ Appears(rResult(mem_rvalid_q, mem_rdata_q, mem_rresp_q, DEST_MEM),
                    rResult(mem_rvalid_q, mem_rdata_q, mem_rresp_q, DEST_MEM)',
                    MemP!rView, MemP!rView', ar_addr_q, MemAddrs)
  <1> DEFINE at(valid, data, resp) ==
               Carried(valid, [addr |-> ar_addr_q, data |-> data, resp |-> resp])
             reg == rResult(rvalid_q, rdata_q, rresp_q, DEST_REG)
             memory == rResult(mem_rvalid_q, mem_rdata_q, mem_rresp_q, DEST_MEM)
  <1>0. ReadResultsAt /\ ReadResultsAt'
    BY ReadViews, PTL
  <1>1. /\ rView = at(rvalid_q, rdata_q, rresp_q)
        /\ MemP!rView = at(mem_rvalid_q, mem_rdata_q, mem_rresp_q)
        /\ reg = IF rvalid_q THEN rView ELSE rHeld(DEST_REG)
        /\ memory = IF mem_rvalid_q THEN MemP!rView ELSE rHeld(DEST_MEM)
    BY <1>0 DEF ReadResultsAt
  <1>2. /\ rView' = at(rvalid_q, rdata_q, rresp_q)'
        /\ MemP!rView' = at(mem_rvalid_q, mem_rdata_q, mem_rresp_q)'
        /\ reg' = IF rvalid_q' THEN rView' ELSE rHeld(DEST_REG)'
        /\ memory' = IF mem_rvalid_q' THEN MemP!rView' ELSE rHeld(DEST_MEM)'
    BY <1>0 DEF ReadResultsAt
  <1>3. /\ rvalid_q' = ForwardsRead(DEST_REG) /\ rvalid_q = Ic!M_RREADY(DEST_REG)
        /\ mem_rvalid_q' = ForwardsRead(DEST_MEM)
        /\ mem_rvalid_q = Ic!M_RREADY(DEST_MEM)
    BY SlavesRead DEF Coupling, ReadCoupling
  <1>4. /\ Ic!ReadPath(ar, rready, fromSlaves)
        /\ rstate = Ic!R_FWD => ar_addr_q' = ar_addr_q
    BY ReadMoves DEF SysEdge, Ic!IcClock, Coupling
  <1>5. \A s : ForwardsRead(s) => rHeld(s) = <<>> /\ ~Ic!M_RREADY(s)
    BY States DEF ForwardsRead, rHeld, Ic!S_RVALID, Ic!M_RREADY, Carried
  <1>6. /\ ForwardsRead(DEST_REG) => ar_addr_q \in RegAddrs
        /\ ForwardsRead(DEST_MEM) => ar_addr_q \in MemAddrs
    <2>1. rstate = Ic!R_FWD => ar_addr_q \in Addrs /\ r_dest_q = IcP!decode(ar_addr_q)
      BY States DEF Coupling, MasterBeats, IcP!IInv, IcP!ReadInv, Ic!R_FWD,
         Ic!R_IDLE, IcP!R_IDLE
    <2> QED
      BY <2>1 DEF ForwardsRead, IcP!decode, RegAddrs, MemAddrs, DEST_REG, DEST_MEM,
         Ic!DEST_REG, Ic!DEST_MEM, IcP!DEST_REG, IcP!DEST_MEM, IcP!DEST_ERR
  <1>7. /\ rvalid_q =>
             fromSlaves[DEST_REG].r = <<[data |-> rdata_q, resp |-> rresp_q]>>
        /\ mem_rvalid_q =>
             fromSlaves[DEST_MEM].r = <<[data |-> mem_rdata_q, resp |-> mem_rresp_q]>>
    BY States DEF fromSlaves, reg_r, mem_r, Carried
  <1>8. \A x : Head(<<x>>) = x /\ <<x>>[1] = x /\ <<x>> # <<>>
    BY BeatFacts
  <1>9. /\ Ic!M_RREADY(DEST_REG) => rstate = Ic!R_WAIT_R
        /\ Ic!M_RREADY(DEST_MEM) => rstate = Ic!R_WAIT_R
        /\ \A s : ForwardsRead(s) => rstate = Ic!R_FWD
    BY DEF Ic!M_RREADY, ForwardsRead
  <1>10. \A s \in {DEST_REG, DEST_MEM} :
           \/ rHeld(s)' = <<>>
           \/ rHeld(s)' = rHeld(s) /\ rstate = Ic!R_RESP
           \/ /\ Ic!M_RREADY(s)
              /\ rHeld(s)' = <<[addr |-> ar_addr_q,
                                data |-> Head(fromSlaves[s].r).data,
                                resp |-> Head(fromSlaves[s].r).resp]>>
    BY <1>4, ReadHeldStep DEF Coupling
  <1> HIDE DEF reg, memory
  <1>11. Appears(reg, reg', rView, rView', ar_addr_q, RegAddrs)
    <2>1. CASE rvalid_q'
      <3>1. rView = <<>> /\ reg = <<>> /\ reg' = rView'
        BY <1>1, <1>2, <1>3, <1>5, <2>1 DEF Carried
      <3>2. rView' # <<>> /\ rView'[1].addr = ar_addr_q
        BY <1>2, <1>3, <1>4, <1>8, <1>9, <2>1 DEF Carried
      <3> QED
        BY <1>3, <1>6, <2>1, <3>1, <3>2 DEF Appears
    <2>2. CASE ~rvalid_q'
      <3>1. rView' = <<>> /\ reg' = rHeld(DEST_REG)'
        BY <1>2, <2>2 DEF Carried
      <3>2. rHeld(DEST_REG)' = <<>> \/ rHeld(DEST_REG)' = reg
        BY <1>1, <1>3, <1>7, <1>8, <1>9, <1>10, States DEF Carried
      <3> QED
        BY <3>1, <3>2 DEF Appears
    <2> QED
      BY <2>1, <2>2
  <1>12. Appears(memory, memory', MemP!rView, MemP!rView', ar_addr_q, MemAddrs)
    <2>1. CASE mem_rvalid_q'
      <3>1. MemP!rView = <<>> /\ memory = <<>> /\ memory' = MemP!rView'
        BY <1>1, <1>2, <1>3, <1>5, <2>1 DEF Carried
      <3>2. MemP!rView' # <<>> /\ MemP!rView'[1].addr = ar_addr_q
        BY <1>2, <1>3, <1>4, <1>8, <1>9, <2>1 DEF Carried
      <3> QED
        BY <1>3, <1>6, <2>1, <3>1, <3>2 DEF Appears
    <2>2. CASE ~mem_rvalid_q'
      <3>1. MemP!rView' = <<>> /\ memory' = rHeld(DEST_MEM)'
        BY <1>2, <2>2 DEF Carried
      <3>2. rHeld(DEST_MEM)' = <<>> \/ rHeld(DEST_MEM)' = memory
        BY <1>1, <1>3, <1>7, <1>8, <1>9, <1>10, States DEF Carried
      <3> QED
        BY <3>1, <3>2 DEF Appears
    <2> QED
      BY <2>1, <2>2
  <1> QED
    BY <1>11, <1>12 DEF reg, memory

-----------------------------------------------------------------------------
(***************************************************************************)
(* A transaction of a slave's own file is one of the file that software    *)
(* sees through the interconnect.                                          *)
(***************************************************************************)
LEMMA SameModel ==
  ASSUME NEW m, NEW a
  PROVE  /\ SysRF!model_read(m, a) = RF!model_read(m, a)
         /\ SysRF!plain_data(m, a) = RF!plain_data(m, a)
         /\ \A x : SysRF!ReadResult(a, x) = RF!ReadResult(a, x)
         /\ \A x : SysRF!model_write(m, a, x) = RF!model_write(m, a, x)
         /\ \A x : SysRF!WriteResult(a, x) = RF!WriteResult(a, x)
  <1>1. /\ SysRF!read_event(a) = RF!read_event(a)
        /\ SysRF!reg_index(a) = RF!reg_index(a)
        /\ \A x : SysRF!write_event(a, x) = RF!write_event(a, x)
        /\ \A e : SysRF!exp_resp(e) = RF!exp_resp(e)
        /\ \A n : SysRF!Bits(n) = RF!Bits(n)
        /\ SysRF!Word = RF!Word
    BY DEF SysRF!read_event, RF!read_event, SysRF!write_event, RF!write_event,
       SysRF!is_misaligned, RF!is_misaligned, SysRF!is_implemented,
       RF!is_implemented, SysRF!reg_index, RF!reg_index, SysRF!exp_resp,
       RF!exp_resp, SysRF!Lanes, RF!Lanes, SysRF!Bits, RF!Bits, SysRF!Word, RF!Word,
       SysRF!MISALIGN, RF!MISALIGN, SysRF!UNIMPL, RF!UNIMPL, SysRF!STROBE,
       RF!STROBE, SysRF!OKAY, RF!OKAY, SysRF!SLVERR, RF!SLVERR
  <1>2. /\ SysRF!R_CTRL = RF!R_CTRL /\ SysRF!R_CONFIG = RF!R_CONFIG
        /\ SysRF!R_INT_ENABLE = RF!R_INT_ENABLE /\ SysRF!R_SCRATCH = RF!R_SCRATCH
        /\ SysRF!R_INT_STATUS = RF!R_INT_STATUS /\ SysRF!R_ID = RF!R_ID
        /\ SysRF!INT_W = RF!INT_W /\ SysRF!CTRL_ENABLE = RF!CTRL_ENABLE
        /\ SysRF!OVERFLOW = RF!OVERFLOW
    BY DEF SysRF!R_CTRL, RF!R_CTRL, SysRF!R_CONFIG, RF!R_CONFIG,
       SysRF!R_INT_ENABLE, RF!R_INT_ENABLE, SysRF!R_SCRATCH, RF!R_SCRATCH,
       SysRF!R_INT_STATUS, RF!R_INT_STATUS, SysRF!R_ID, RF!R_ID, SysRF!INT_W,
       RF!INT_W, SysRF!CTRL_ENABLE, RF!CTRL_ENABLE, SysRF!OVERFLOW, RF!OVERFLOW
  <1>3. /\ SysRF!model_read(m, a) = RF!model_read(m, a)
        /\ \A x : SysRF!ReadResult(a, x) = RF!ReadResult(a, x)
        /\ \A x : SysRF!WriteResult(a, x) = RF!WriteResult(a, x)
    BY <1>1 DEF SysRF!model_read, RF!model_read, SysRF!ReadResult, RF!ReadResult,
       SysRF!WriteResult, RF!WriteResult
  <1>4. SysRF!plain_data(m, a) = RF!plain_data(m, a)
    BY <1>1, <1>2 DEF SysRF!plain_data, RF!plain_data
  <1>5. \A x : SysRF!model_write(m, a, x) = RF!model_write(m, a, x)
    BY <1>1, <1>2 DEF SysRF!model_write, RF!model_write
  <1> QED
    BY <1>3, <1>4, <1>5

\* The same array, wherever the results wait.
LEMMA SameArray ==
  ASSUME NEW a, NEW x
  PROVE  /\ SysMF!Written(a, x) = MemP!MF!Written(a, x)
         /\ SysMF!Answer(a) = MemP!MF!Answer(a)
         /\ SysMF!Cell(a) = MemP!MF!Cell(a)
         /\ SysMF!Misaligned(a) = MemP!MF!Misaligned(a)
  BY DEF SysMF!Written, MemP!MF!Written, SysMF!Answer, MemP!MF!Answer,
     SysMF!Cell, MemP!MF!Cell, SysMF!Misaligned, MemP!MF!Misaligned,
     SysMF!Lane, MemP!MF!Lane, SysMF!Bits, MemP!MF!Bits, SysMF!OKAY, MemP!MF!OKAY,
     SysMF!SLVERR, MemP!MF!SLVERR

LEMMA RegEdge ==
  ASSUME RF!Edge, NEW wa, NEW ra,
         Appears(wResult(bvalid_q, bresp_q, DEST_REG),
                 wResult(bvalid_q, bresp_q, DEST_REG)', bView, bView', wa, RegAddrs),
         Appears(rResult(rvalid_q, rdata_q, rresp_q, DEST_REG),
                 rResult(rvalid_q, rdata_q, rresp_q, DEST_REG)',
                 rView, rView', ra, RegAddrs)
  PROVE  SysRF!Edge
  <1> DEFINE sb == wResult(bvalid_q, bresp_q, DEST_REG)
             sr == rResult(rvalid_q, rdata_q, rresp_q, DEST_REG)
  <1>1. \A x : <<x>> # <<>> /\ <<x>>[1] = x
    BY BeatFacts
  <1>2. \A a, x : RF!Write(a, x) => SysRF!Write(a, x) /\ a \in RegAddrs
    <2> SUFFICES ASSUME NEW a, NEW x, RF!Write(a, x)
                 PROVE  SysRF!Write(a, x) /\ a \in RegAddrs
      OBVIOUS
    <2>1. bView' = <<RF!WriteResult(a, x)>> /\ RF!WriteResult(a, x).addr = a
      BY DEF RF!Write, RF!WriteResult
    <2>2. sb = <<>> /\ sb' = bView' /\ a \in RegAddrs
      BY <1>1, <2>1 DEF Appears
    <2> HIDE DEF sb
    <2> QED
      BY <2>1, <2>2, SameModel DEF SysRF!Write, sb
  <1>3. RF!WritePort => SysRF!WritePort
    BY DEF RF!WritePort, SysRF!WritePort, Appears
  <1>4. \A m, a : RF!Read(m, a) => SysRF!Read(m, a) /\ a \in RegAddrs
    <2> SUFFICES ASSUME NEW m, NEW a, RF!Read(m, a)
                 PROVE  SysRF!Read(m, a) /\ a \in RegAddrs
      OBVIOUS
    <2>1. PICK d \in RF!plain_data(m, a) : rView' = <<RF!ReadResult(a, d)>>
      BY DEF RF!Read
    <2>2. RF!ReadResult(a, d).addr = a
      BY DEF RF!ReadResult
    <2>3. sr = <<>> /\ sr' = rView' /\ a \in RegAddrs
      BY <1>1, <2>1, <2>2 DEF Appears
    <2>4. d \in SysRF!plain_data(m, a) /\ SysRF!ReadResult(a, d) = RF!ReadResult(a, d)
      BY SameModel
    <2> HIDE DEF sr
    <2> QED
      BY <2>1, <2>3, <2>4, Zenon DEF SysRF!Read, sr
  <1>5. RF!ReadPort => SysRF!ReadPort
    BY DEF RF!ReadPort, SysRF!ReadPort, Appears
  <1>6. \A a, x : RF!WriteAlone(a, x) => SysRF!WriteAlone(a, x) /\ a \in RegAddrs
    BY <1>2, <1>5, SameModel, Zenon DEF RF!WriteAlone, SysRF!WriteAlone
  <1>7. \A a, x, q : RF!WriteThenRead(a, x, q) =>
          SysRF!WriteThenRead(a, x, q) /\ a \in RegAddrs /\ q \in RegAddrs
    BY <1>2, <1>4, SameModel, Zenon DEF RF!WriteThenRead, SysRF!WriteThenRead
  <1>8. \A a, x, q : RF!ReadThenWrite(a, x, q) =>
          SysRF!ReadThenWrite(a, x, q) /\ a \in RegAddrs /\ q \in RegAddrs
    BY <1>2, <1>4, SameModel, Zenon DEF RF!ReadThenWrite, SysRF!ReadThenWrite
  <1>9. \A q : RF!ReadAlone(q) => SysRF!ReadAlone(q) /\ q \in RegAddrs
    BY <1>3, <1>4, SameModel, Zenon DEF RF!ReadAlone, SysRF!ReadAlone
  <1>10. RF!Take => SysRF!Take
    BY <1>3, <1>5 DEF RF!Take, SysRF!Take
  <1> QED
    BY <1>6, <1>7, <1>8, <1>9, <1>10, Zenon DEF RF!Edge, SysRF!Edge

LEMMA MemEdge ==
  ASSUME MemP!MF!Edge, NEW wa, NEW ra,
         Appears(wResult(mem_bvalid_q, mem_bresp_q, DEST_MEM),
                 wResult(mem_bvalid_q, mem_bresp_q, DEST_MEM)',
                 MemP!bView, MemP!bView', wa, MemAddrs),
         Appears(rResult(mem_rvalid_q, mem_rdata_q, mem_rresp_q, DEST_MEM),
                 rResult(mem_rvalid_q, mem_rdata_q, mem_rresp_q, DEST_MEM)',
                 MemP!rView, MemP!rView', ra, MemAddrs)
  PROVE  SysMF!Edge
  <1> DEFINE sb == wResult(mem_bvalid_q, mem_bresp_q, DEST_MEM)
             sr == rResult(mem_rvalid_q, mem_rdata_q, mem_rresp_q, DEST_MEM)
  <1>1. \A x : <<x>> # <<>> /\ <<x>>[1] = x
    BY BeatFacts
  <1>2. \A a, x : MemP!MF!Write(a, x) => SysMF!Write(a, x) /\ a \in MemAddrs
    <2> SUFFICES ASSUME NEW a, NEW x, MemP!MF!Write(a, x)
                 PROVE  SysMF!Write(a, x) /\ a \in MemAddrs
      OBVIOUS
    <2> DEFINE result == [addr |-> a, beat |-> x, resp |-> MemP!MF!Answer(a)]
    <2>1. /\ MemP!bView' = <<result>> /\ mem' = MemP!MF!Written(a, x)
          /\ result.addr = a
      BY DEF MemP!MF!Write
    <2> HIDE DEF result
    <2>2. sb = <<>> /\ sb' = MemP!bView' /\ a \in MemAddrs
      BY <1>1, <2>1 DEF Appears
    <2> HIDE DEF sb
    <2> QED
      BY <2>1, <2>2, SameArray DEF SysMF!Write, sb, result
  <1>3. MemP!MF!WritePort => SysMF!WritePort
    BY DEF MemP!MF!WritePort, SysMF!WritePort, Appears
  <1>4. \A a : MemP!MF!Read(a) => SysMF!Read(a) /\ a \in MemAddrs
    <2> SUFFICES ASSUME NEW a, MemP!MF!Read(a)
                 PROVE  SysMF!Read(a) /\ a \in MemAddrs
      OBVIOUS
    <2> DEFINE result == [addr |-> a, resp |-> MemP!MF!Answer(a),
                          data |-> IF MemP!MF!Misaligned(a) THEN {}
                                   ELSE mem[MemP!MF!Cell(a)]]
    <2>1. MemP!rView' = <<result>> /\ result.addr = a
      BY DEF MemP!MF!Read
    <2> HIDE DEF result
    <2>2. sr = <<>> /\ sr' = MemP!rView' /\ a \in MemAddrs
      BY <1>1, <2>1 DEF Appears
    <2>3. result = [addr |-> a, resp |-> SysMF!Answer(a),
                    data |-> IF SysMF!Misaligned(a) THEN {} ELSE mem[SysMF!Cell(a)]]
      BY SameArray DEF result
    <2> HIDE DEF sr
    <2> QED
      BY <2>1, <2>2, <2>3 DEF SysMF!Read, sr
  <1>5. MemP!MF!ReadPort => SysMF!ReadPort
    BY DEF MemP!MF!ReadPort, SysMF!ReadPort, Appears
  <1>6. \A a, x : MemP!MF!WriteAlone(a, x) => SysMF!WriteAlone(a, x) /\ a \in MemAddrs
    BY <1>2, <1>5, Zenon DEF MemP!MF!WriteAlone, SysMF!WriteAlone
  <1>7. \A a, x, q : MemP!MF!ReadThenWrite(a, x, q) =>
          SysMF!ReadThenWrite(a, x, q) /\ a \in MemAddrs /\ q \in MemAddrs
    BY <1>2, <1>4, Zenon DEF MemP!MF!ReadThenWrite, SysMF!ReadThenWrite
  <1>8. \A q : MemP!MF!ReadAlone(q) => SysMF!ReadAlone(q) /\ q \in MemAddrs
    BY <1>3, <1>4, Zenon DEF MemP!MF!ReadAlone, SysMF!ReadAlone
  <1>9. MemP!MF!Take => SysMF!Take
    BY <1>3, <1>5 DEF MemP!MF!Take, SysMF!Take
  <1> QED
    BY <1>6, <1>7, <1>8, <1>9, Zenon DEF MemP!MF!Edge, SysMF!Edge

LEMMA FilesEdge ==
  ASSUME Coupling, Coupling', IInv, IInv', MemP!IInv, MemP!IInv',
         IcP!IInv, IcP!IInv', SysClock
  PROVE  SysRF!Edge /\ SysMF!Edge
  <1>1. PICK aw, w, bready, ar, rready : SysEdge(aw, w, bready, ar, rready)
    BY SysClockInputs
  <1>2. \A s : Inputs(AW(s), W(s), Ic!M_BREADY(s), AR(s), Ic!M_RREADY(s))
    BY SlaveInputs
  <1>3. RF!Edge
    <2>1. BusClock(AW(DEST_REG), W(DEST_REG), Ic!M_BREADY(DEST_REG),
                   AR(DEST_REG), Ic!M_RREADY(DEST_REG))
      BY <1>1 DEF SysEdge
    <2> QED
      BY <1>2, <2>1, ClockRefines, BusAssumption, WidthAssumption
  <1>4. MemP!MF!Edge
    <2>1. MemP!BusClock(AW(DEST_MEM), W(DEST_MEM), Ic!M_BREADY(DEST_MEM),
                        AR(DEST_MEM), Ic!M_RREADY(DEST_MEM))
      BY <1>1, SameMemEdge DEF SysEdge
    <2>2. MemP!Inputs(AW(DEST_MEM), W(DEST_MEM), Ic!M_BREADY(DEST_MEM),
                      AR(DEST_MEM), Ic!M_RREADY(DEST_MEM))
      <3>1. Inputs(AW(DEST_MEM), W(DEST_MEM), Ic!M_BREADY(DEST_MEM),
                   AR(DEST_MEM), Ic!M_RREADY(DEST_MEM))
        BY <1>2
      <3> QED
        BY <3>1 DEF Inputs, MemP!Inputs, Beats, MemP!Beats
    <2> QED
      BY <2>1, <2>2, MemP!ClockRefines, PartAssumptions
  <1>5. SysRF!Edge
    BY <1>1, <1>3, WriteResultStep, ReadResultStep, RegEdge
  <1>6. SysMF!Edge
    BY <1>1, <1>4, WriteResultStep, ReadResultStep, MemEdge
  <1> QED
    BY <1>5, <1>6

LEMMA FilesReset ==
  ASSUME SysReset
  PROVE  SysRF!Reset /\ SysMF!Reset
  <1>1. RF!Reset /\ bankView' = RF!ResetBank
    BY ResetRefines DEF SysReset, RF!Reset
  <1>2. /\ ~bvalid_q' /\ ~rvalid_q' /\ ~mem_bvalid_q' /\ ~mem_rvalid_q' /\ mem' = mem
    BY DEF SysReset, Reset, SlaveReset, Mem!Reset, Mem!MemReset
  <1>3. (wstate' # Ic!W_RESP) /\ (rstate' # Ic!R_RESP)
    BY DEF SysReset, Ic!IcReset, Ic!W_COLLECT, Ic!W_RESP, Ic!R_IDLE, Ic!R_RESP
  <1>4. /\ wResult(bvalid_q, bresp_q, DEST_REG)' = <<>>
        /\ rResult(rvalid_q, rdata_q, rresp_q, DEST_REG)' = <<>>
        /\ wResult(mem_bvalid_q, mem_bresp_q, DEST_MEM)' = <<>>
        /\ rResult(mem_rvalid_q, mem_rdata_q, mem_rresp_q, DEST_MEM)' = <<>>
    BY <1>2, <1>3 DEF wResult, rResult, Carried, Ic!S_BVALID, Ic!S_RVALID, Ic!W_RESP,
       Ic!R_RESP
  <1>5. SysRF!ResetBank = RF!ResetBank
    BY DEF SysRF!ResetBank, RF!ResetBank, SysRF!CONFIG_RESET, RF!CONFIG_RESET,
       SysRF!Bits, RF!Bits
  <1> QED
    BY <1>1, <1>2, <1>4, <1>5 DEF SysRF!Reset, SysMF!Reset

LEMMA FilesInit ==
  ASSUME SysInit
  PROVE  SysRF!Init /\ SysMF!Init
  <1>1. bankView = RF!ResetBank
    BY InitRefines DEF SysInit, RF!Init
  <1>2. /\ ~bvalid_q /\ ~rvalid_q /\ ~mem_bvalid_q /\ ~mem_rvalid_q
        /\ ~Ic!S_BVALID /\ ~Ic!S_RVALID
    BY DEF SysInit, Init, SlaveInReset, Mem!Init, Mem!MemInReset, Mem!ChannelsInReset,
       Ic!IcInReset, Ic!S_BVALID, Ic!S_RVALID, Ic!W_COLLECT, Ic!W_RESP, Ic!R_IDLE,
       Ic!R_RESP
  <1>3. /\ wResult(bvalid_q, bresp_q, DEST_REG) = <<>>
        /\ rResult(rvalid_q, rdata_q, rresp_q, DEST_REG) = <<>>
        /\ wResult(mem_bvalid_q, mem_bresp_q, DEST_MEM) = <<>>
        /\ rResult(mem_rvalid_q, mem_rdata_q, mem_rresp_q, DEST_MEM) = <<>>
    BY <1>2 DEF wResult, rResult, Carried
  <1>4. SysRF!ResetBank = RF!ResetBank
    BY DEF SysRF!ResetBank, RF!ResetBank, SysRF!CONFIG_RESET, RF!CONFIG_RESET,
       SysRF!Bits, RF!Bits
  <1>5. mem \in [SysMF!Bits(NUM_WORDS) -> SysMF!Word]
    BY DEF SysInit, Mem!Init, Mem!MemInReset, Mem!Bits, Mem!Word, SysMF!Bits,
       SysMF!Word
  <1> QED
    BY <1>1, <1>3, <1>4, <1>5 DEF SysRF!Init, SysMF!Init

(***************************************************************************)
(* Software sees, through the interconnect, an atomic register file and an *)
(* atomic memory, each at the addresses of its own region: whatever the    *)
(* map, the widths and the master, every transaction takes effect once, in *)
(* the file that owns its address and with the beats the master sent, and  *)
(* its result reaches the master unchanged.  No reset touches the memory.  *)
(***************************************************************************)
THEOREM FilesAreImplemented == SysSpec => ImplementsFiles
  <1> DEFINE Inv == Coupling /\ IInv /\ MemP!IInv /\ IcP!IInv
  <1>1. SysInit => SysRF!Init /\ SysMF!Init
    BY FilesInit
  <1>2. Inv /\ Inv' /\ [SysNext]_sysVars =>
          [SysRF!Next]_(SysRF!fileVars) /\ [SysMF!Next]_(SysMF!fileVars)
    <2> SUFFICES ASSUME Inv, Inv', [SysNext]_sysVars
                 PROVE  /\ [SysRF!Next]_(SysRF!fileVars)
                        /\ [SysMF!Next]_(SysMF!fileVars)
      OBVIOUS
    <2>1. CASE SysClock
      BY <2>1, FilesEdge DEF SysRF!Next, SysMF!Next
    <2>2. CASE SysReset
      BY <2>2, FilesReset DEF SysRF!Next, SysMF!Next
    <2>3. CASE UNCHANGED sysVars
      BY <2>3 DEF sysVars, vars, slaveVars, channelVars, bankVars, busVars, ic_vars,
         s_vars, mem_vars, SysRF!fileVars, SysMF!fileVars, bankView, wResult, rResult,
         Carried, Ic!S_BVALID, Ic!S_RVALID, OVERFLOW
    <2> QED
      BY <2>1, <2>2, <2>3 DEF SysNext
  <1>3. SysSpec => []Inv
    BY CouplingInvariance, SlavesInvariance, InterconnectInvariance, PTL
  <1> QED
    BY <1>1, <1>2, <1>3, PTL DEF SysSpec, ImplementsFiles, SysRF!Spec, SysMF!Spec
=============================================================================
