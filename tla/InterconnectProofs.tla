------------------------- MODULE InterconnectProofs -------------------------
(***************************************************************************)
(* Theorems about the interconnect between any master and any two slaves,  *)
(* for every memory map of two adjacent regions, every width and every set *)
(* of addresses, write beats and read answers.                             *)
(***************************************************************************)
EXTENDS InterconnectBus, AxiBusProofs

\* One edge of the clock for all that is chosen on it.
BusClock(aw, w, bready, ar, rready, ready, b, r) ==
  /\ IcClock(aw, w, bready, ar, rready, Driven(ready))
  /\ Observe(aw, s_aw_hs(aw), w, s_w_hs(w), ar, s_ar_hs(ar),
             S_BVALID /\ bready, S_RVALID /\ rready)
  /\ PortsEdge(bready, rready, ready, b, r)

\* What the two slaves put on their ports on one edge, typed.
PortInputs(ready, b, r) ==
  /\ ready \in [aw : BOOLEAN, w : BOOLEAN, ar : BOOLEAN]
  /\ b \in Beats(WResps) /\ r \in Beats(RBeats)

-----------------------------------------------------------------------------
(***************************************************************************)
(* The inductive invariant.  The write path holds what the master has      *)
(* offered and is waiting for; its destination is that of the address it   *)
(* holds; and a half is at the port of a slave exactly from its acceptance *)
(* there to the answer.                                                    *)
(***************************************************************************)
WriteInv ==
  /\ awq = IF aw_held THEN <<aw_addr_q>> ELSE <<>>
  /\ wq = IF w_held THEN <<[data |-> w_data_q, strb |-> w_strb_q]>> ELSE <<>>
  /\ wstate = W_COLLECT <=> ~(aw_held /\ w_held)
  /\ wstate # W_COLLECT => w_dest_q = decode(aw_addr_q)
  /\ wstate \in {W_FWD, W_WAIT_B} => w_dest_q # DEST_ERR
  /\ wstate = W_FWD => ~(aw_sent /\ w_sent)
  /\ wstate = W_RESP /\ w_dest_q = DEST_ERR => bresp_q = DECERR

AwAt(s) == w_dest_q = s /\ (wstate = W_WAIT_B \/ (wstate = W_FWD /\ aw_sent))
WAt(s)  == w_dest_q = s /\ (wstate = W_WAIT_B \/ (wstate = W_FWD /\ w_sent))

WritePorts ==
  \A s \in Slaves :
    /\ port[s].aw = IF AwAt(s) THEN <<aw_addr_q>> ELSE <<>>
    /\ port[s].w = IF WAt(s) THEN <<[data |-> w_data_q, strb |-> w_strb_q]>>
                   ELSE <<>>
    /\ port[s].b # <<>> => AwAt(s) /\ WAt(s)

\* Exactly one slave has answered once the response is up, and none before.
WriteAnswered ==
  w_answers =
    IF wstate = W_RESP /\ w_dest_q # DEST_ERR
      THEN <<[slave |-> w_dest_q, addr |-> aw_addr_q,
              beat |-> [data |-> w_data_q, strb |-> w_strb_q], resp |-> bresp_q]>>
      ELSE <<>>

\* The same of the read path.
ReadInv ==
  /\ rstate = R_IDLE => arq = <<>>
  /\ rstate # R_IDLE =>
       /\ arq # <<>> /\ Head(arq).addr = ar_addr_q
       /\ r_dest_q = decode(ar_addr_q)
  /\ rstate \in {R_FWD, R_WAIT_R} => r_dest_q # DEST_ERR
  /\ rstate = R_RESP /\ r_dest_q = DEST_ERR => rresp_q = DECERR /\ rdata_q = {}

ArAt(s) == r_dest_q = s /\ rstate = R_WAIT_R

ReadPorts ==
  \A s \in Slaves :
    /\ port[s].ar = IF ArAt(s) THEN <<ar_addr_q>> ELSE <<>>
    /\ port[s].r # <<>> => ArAt(s)

ReadAnswered ==
  r_answers =
    IF rstate = R_RESP /\ r_dest_q # DEST_ERR
      THEN <<[slave |-> r_dest_q, addr |-> ar_addr_q,
              beat |-> [data |-> rdata_q, resp |-> rresp_q]]>>
      ELSE <<>>

IInv ==
  /\ TypeOK
  /\ WriteInv /\ WritePorts /\ WriteAnswered
  /\ ReadInv /\ ReadPorts /\ ReadAnswered

LEMMA States ==
  /\ W_COLLECT # W_FWD /\ W_COLLECT # W_WAIT_B /\ W_COLLECT # W_RESP
  /\ W_FWD # W_WAIT_B /\ W_FWD # W_RESP /\ W_WAIT_B # W_RESP
  /\ R_IDLE # R_FWD /\ R_IDLE # R_WAIT_R /\ R_IDLE # R_RESP
  /\ R_FWD # R_WAIT_R /\ R_FWD # R_RESP /\ R_WAIT_R # R_RESP
  /\ DEST_REG # DEST_MEM /\ DEST_REG # DEST_ERR /\ DEST_MEM # DEST_ERR
  /\ Slaves = {DEST_REG, DEST_MEM} /\ Dests = {DEST_REG, DEST_MEM, DEST_ERR}
  BY DEF W_COLLECT, W_FWD, W_WAIT_B, W_RESP, R_IDLE, R_FWD, R_WAIT_R, R_RESP,
         DEST_REG, DEST_MEM, DEST_ERR, Slaves, Dests

-----------------------------------------------------------------------------
(***************************************************************************)
(* The slave ports on one edge, field by field.                            *)
(***************************************************************************)
LEMMA PortFields ==
  ASSUME NEW ready, NEW b, NEW r, NEW s \in Slaves,
         port' = [q \in Slaves |-> SlavePort(q, ready, b, r)]
  PROVE  /\ port'[s].aw = Track(port[s].aw, M_BREADY(s) /\ port[s].b # <<>>,
                            Accepted(<<aw_addr_q>>, M_AWVALID(s) /\ ready.aw))
         /\ port'[s].w = Track(port[s].w, M_BREADY(s) /\ port[s].b # <<>>,
                           Accepted(<<[data |-> w_data_q, strb |-> w_strb_q]>>,
                                    M_WVALID(s) /\ ready.w))
         /\ port'[s].ar = Track(port[s].ar, M_RREADY(s) /\ port[s].r # <<>>,
                            Accepted(<<ar_addr_q>>, M_ARVALID(s) /\ ready.ar))
         /\ port'[s].b = IF port[s].b # <<>>
                            THEN IF M_BREADY(s) THEN <<>> ELSE port[s].b
                            ELSE IF port'[s].aw # <<>> /\ port'[s].w # <<>>
                                   THEN b ELSE <<>>
         /\ port'[s].r = IF port[s].r # <<>>
                            THEN IF M_RREADY(s) THEN <<>> ELSE port[s].r
                            ELSE IF port'[s].ar # <<>> THEN r ELSE <<>>
  <1>1. port'[s] = SlavePort(s, ready, b, r)
    OBVIOUS
  <1> QED
    BY <1>1 DEF SlavePort, Answer

\* What the interconnect sees of the slave it has steered to.
LEMMA Steered ==
  ASSUME NEW ready
  PROVE  /\ wstate = W_FWD /\ w_dest_q \in Slaves =>
              /\ m_aw_hs(Driven(ready)) <=> ~aw_sent /\ ready.aw
              /\ m_w_hs(Driven(ready)) <=> ~w_sent /\ ready.w
         /\ wstate = W_WAIT_B /\ w_dest_q \in Slaves =>
              /\ m_b_hs(Driven(ready)) <=> port[w_dest_q].b # <<>>
              /\ m_bresp(Driven(ready)) = Head(port[w_dest_q].b)
         /\ rstate = R_FWD /\ r_dest_q \in Slaves =>
              (m_ar_hs(Driven(ready)) <=> ready.ar)
         /\ rstate = R_WAIT_R /\ r_dest_q \in Slaves =>
              /\ m_r_hs(Driven(ready)) <=> port[r_dest_q].r # <<>>
              /\ m_r(Driven(ready)) = Head(port[r_dest_q].r)
  <1>1. \A s \in Slaves : /\ (Driven(ready)[s].awready <=> ready.aw)
                          /\ (Driven(ready)[s].wready <=> ready.w)
                          /\ (Driven(ready)[s].arready <=> ready.ar)
                          /\ Driven(ready)[s].b = port[s].b
                          /\ Driven(ready)[s].r = port[s].r
    BY DEF Driven
  <1>2. /\ w_dest_q \in Slaves =>
             (IF w_dest_q = DEST_MEM THEN DEST_MEM ELSE DEST_REG) = w_dest_q
        /\ r_dest_q \in Slaves =>
             (IF r_dest_q = DEST_MEM THEN DEST_MEM ELSE DEST_REG) = r_dest_q
    BY DEF Slaves
  <1>3. wstate = W_FWD /\ w_dest_q \in Slaves =>
          /\ m_aw_hs(Driven(ready)) <=> ~aw_sent /\ ready.aw
          /\ m_w_hs(Driven(ready)) <=> ~w_sent /\ ready.w
    BY <1>1 DEF m_aw_hs, m_w_hs, M_AWVALID, M_WVALID
  <1>4. wstate = W_WAIT_B /\ w_dest_q \in Slaves =>
          /\ m_b_hs(Driven(ready)) <=> port[w_dest_q].b # <<>>
          /\ m_bresp(Driven(ready)) = Head(port[w_dest_q].b)
    BY <1>1, <1>2 DEF m_b_hs, m_bresp, M_BREADY
  <1>5. rstate = R_FWD /\ r_dest_q \in Slaves =>
          (m_ar_hs(Driven(ready)) <=> ready.ar)
    BY <1>1 DEF m_ar_hs, M_ARVALID
  <1>6. rstate = R_WAIT_R /\ r_dest_q \in Slaves =>
          /\ m_r_hs(Driven(ready)) <=> port[r_dest_q].r # <<>>
          /\ m_r(Driven(ready)) = Head(port[r_dest_q].r)
    BY <1>1, <1>2 DEF m_r_hs, m_r, M_RREADY
  <1> QED
    BY <1>3, <1>4, <1>5, <1>6

LEMMA TrackFacts ==
  /\ Track(<<>>, FALSE, <<>>) = <<>>
  /\ \A x : /\ Track(<<>>, FALSE, <<x>>) = <<x>>
            /\ Track(<<x>>, FALSE, <<>>) = <<x>>
            /\ Track(<<x>>, TRUE, <<>>) = <<>>
  BY BeatFacts DEF Track

-----------------------------------------------------------------------------
(***************************************************************************)
(* The write path on one edge.  At the master's port: a half is accepted,  *)
(* the response is taken, or neither.                                      *)
(***************************************************************************)
LEMMA WriteEdge ==
  ASSUME IInv, NEW aw, NEW w, NEW bready \in BOOLEAN, NEW m,
         WritePath(aw, w, bready, m)
  PROVE  /\ wstate = W_COLLECT => Collect(aw, w)
         /\ wstate = W_FWD => Forward(aw, w, m)
         /\ wstate = W_WAIT_B => WaitB(aw, w, m)
         /\ wstate = W_RESP => Respond(bready)
         /\ aw_held' = IF wstate = W_RESP THEN aw_held /\ ~bready
                       ELSE aw_held \/ s_aw_hs(aw)
         /\ w_held' = IF wstate = W_RESP THEN w_held /\ ~bready
                      ELSE w_held \/ s_w_hs(w)
         /\ wstate # W_COLLECT => /\ ~s_aw_hs(aw) /\ ~s_w_hs(w)
                                  /\ aw_addr_q' = aw_addr_q
                                  /\ w_data_q' = w_data_q /\ w_strb_q' = w_strb_q
  <1>1. /\ wstate = W_COLLECT => Collect(aw, w)
        /\ wstate = W_FWD => Forward(aw, w, m)
        /\ wstate = W_WAIT_B => WaitB(aw, w, m)
        /\ wstate = W_RESP => Respond(bready)
    BY States DEF WritePath, Collect, Forward, WaitB, Respond
  <1>2. wstate \in {W_COLLECT, W_FWD, W_WAIT_B, W_RESP}
        /\ aw_held \in BOOLEAN /\ w_held \in BOOLEAN
    BY DEF IInv, TypeOK, IcTypeOK
  <1>3. /\ aw_held' = IF wstate = W_RESP THEN aw_held /\ ~bready
                      ELSE aw_held \/ s_aw_hs(aw)
        /\ w_held' = IF wstate = W_RESP THEN w_held /\ ~bready
                     ELSE w_held \/ s_w_hs(w)
    <2>1. CASE wstate = W_RESP
      BY <1>1, <1>2, <2>1 DEF Respond
    <2>2. CASE wstate # W_RESP
      BY <1>1, <1>2, <2>2 DEF Collect, Forward, WaitB, KeepHalves
    <2> QED
      BY <2>1, <2>2
  <1>4. wstate # W_COLLECT => ~s_aw_hs(aw) /\ ~s_w_hs(w)
    BY DEF s_aw_hs, s_w_hs, S_AWREADY, S_WREADY
  <1>5. WriteLatches(aw, w)
    BY DEF WritePath
  <1> QED
    BY <1>1, <1>3, <1>4, <1>5 DEF WriteLatches

LEMMA HalvesStep ==
  ASSUME BusAssumption, IInv,
         NEW aw, NEW w, NEW bready, NEW ar, NEW rready, NEW ready, NEW b, NEW r,
         Inputs(aw, w, bready, ar, rready),
         BusClock(aw, w, bready, ar, rready, ready, b, r)
  PROVE  /\ awq' = IF aw_held' THEN <<aw_addr_q'>> ELSE <<>>
         /\ wq' = IF w_held' THEN <<[data |-> w_data_q', strb |-> w_strb_q']>>
                  ELSE <<>>
  <1>1. /\ awq' = Track(awq, S_BVALID /\ bready, Accepted(aw, s_aw_hs(aw)))
        /\ wq' = Track(wq, S_BVALID /\ bready, Accepted(w, s_w_hs(w)))
    BY DEF BusClock, Observe
  <1>2. /\ aw_addr_q' = IF s_aw_hs(aw) THEN Head(aw) ELSE aw_addr_q
        /\ w_data_q' = IF s_w_hs(w) THEN Head(w).data ELSE w_data_q
        /\ w_strb_q' = IF s_w_hs(w) THEN Head(w).strb ELSE w_strb_q
    BY DEF BusClock, IcClock, WritePath, WriteLatches
  <1>3. /\ aw_held' = IF wstate = W_RESP THEN aw_held /\ ~bready
                      ELSE aw_held \/ s_aw_hs(aw)
        /\ w_held' = IF wstate = W_RESP THEN w_held /\ ~bready
                     ELSE w_held \/ s_w_hs(w)
    BY WriteEdge DEF BusClock, IcClock, Inputs
  <1>4. /\ s_aw_hs(aw) => ~aw_held /\ ~S_BVALID /\ aw = <<Head(aw)>>
        /\ s_w_hs(w) => /\ ~w_held /\ ~S_BVALID
                        /\ w = <<[data |-> Head(w).data, strb |-> Head(w).strb]>>
    BY States, PayloadType
    DEF s_aw_hs, s_w_hs, S_AWREADY, S_WREADY, S_BVALID, Inputs
  <1>5. S_BVALID => aw_held /\ w_held
    BY States DEF S_BVALID, IInv, WriteInv
  <1>6. awq' = IF aw_held' THEN <<aw_addr_q'>> ELSE <<>>
    <2>1. CASE s_aw_hs(aw)
      BY <1>1, <1>2, <1>3, <1>4, <2>1, BeatFacts
      DEF Track, Accepted, IInv, WriteInv, S_BVALID
    <2>2. CASE ~s_aw_hs(aw) /\ S_BVALID /\ bready
      BY <1>1, <1>3, <1>5, <2>2, BeatFacts
      DEF Track, Accepted, IInv, WriteInv, S_BVALID
    <2>3. CASE ~s_aw_hs(aw) /\ ~(S_BVALID /\ bready)
      <3>1. awq' = awq \o <<>>
        BY <1>1, <2>3 DEF Track, Accepted
      <3>2. aw_held' = aw_held
        BY <1>3, <2>3 DEF S_BVALID, IInv, TypeOK, IcTypeOK
      <3> QED
        BY <1>2, <2>3, <3>1, <3>2, BeatFacts DEF IInv, WriteInv
    <2> QED
      BY <2>1, <2>2, <2>3
  <1>7. wq' = IF w_held' THEN <<[data |-> w_data_q', strb |-> w_strb_q']>> ELSE <<>>
    <2>1. CASE s_w_hs(w)
      BY <1>1, <1>2, <1>3, <1>4, <2>1, BeatFacts
      DEF Track, Accepted, IInv, WriteInv, S_BVALID
    <2>2. CASE ~s_w_hs(w) /\ S_BVALID /\ bready
      BY <1>1, <1>3, <1>5, <2>2, BeatFacts
      DEF Track, Accepted, IInv, WriteInv, S_BVALID
    <2>3. CASE ~s_w_hs(w) /\ ~(S_BVALID /\ bready)
      <3>1. wq' = wq \o <<>>
        BY <1>1, <2>3 DEF Track, Accepted
      <3>2. w_held' = w_held
        BY <1>3, <2>3 DEF S_BVALID, IInv, TypeOK, IcTypeOK
      <3> QED
        BY <1>2, <2>3, <3>1, <3>2, BeatFacts DEF IInv, WriteInv
    <2> QED
      BY <2>1, <2>2, <2>3
  <1> QED
    BY <1>6, <1>7

LEMMA WriteInvStep ==
  ASSUME BusAssumption, IInv,
         NEW aw, NEW w, NEW bready, NEW ar, NEW rready, NEW ready, NEW b, NEW r,
         Inputs(aw, w, bready, ar, rready),
         BusClock(aw, w, bready, ar, rready, ready, b, r)
  PROVE  WriteInv'
  <1> DEFINE m == Driven(ready)
  <1>1. WritePath(aw, w, bready, m) /\ bready \in BOOLEAN
    BY DEF BusClock, IcClock, Inputs
  <1> HIDE DEF m
  <1>2. /\ wstate \in {W_COLLECT, W_FWD, W_WAIT_B, W_RESP}
        /\ aw_held \in BOOLEAN /\ w_held \in BOOLEAN
        /\ aw_sent \in BOOLEAN /\ w_sent \in BOOLEAN
    BY DEF IInv, TypeOK, IcTypeOK
  <1>3. awq' = (IF aw_held' THEN <<aw_addr_q'>> ELSE <<>>)
        /\ wq' = (IF w_held' THEN <<[data |-> w_data_q', strb |-> w_strb_q']>>
                  ELSE <<>>)
    BY HalvesStep
  <1>4. CASE wstate = W_COLLECT
    <2>1. Collect(aw, w)
      BY <1>1, <1>4, WriteEdge
    <2>2. aw_addr_now(aw) = aw_addr_q' \/ ~w_both_now(aw, w)
      BY <1>1 DEF aw_addr_now, w_both_now, WritePath, WriteLatches, s_aw_hs,
         S_AWREADY
    <2>3. w_both_now(aw, w) <=> aw_held' /\ w_held'
      BY <2>1 DEF Collect, KeepHalves, w_both_now
    <2>4. CASE w_both_now(aw, w)
      BY <1>3, <2>1, <2>2, <2>3, <2>4, States, Zenon
      DEF Collect, WriteInv, decode
    <2>5. CASE ~w_both_now(aw, w)
      BY <1>3, <1>4, <2>1, <2>3, <2>5, States DEF Collect, WriteInv
    <2> QED
      BY <2>4, <2>5
  <1>5. CASE wstate # W_COLLECT
    <2>1. /\ ~s_aw_hs(aw) /\ ~s_w_hs(w) /\ aw_addr_q' = aw_addr_q
          /\ wstate = W_FWD => Forward(aw, w, m)
          /\ wstate = W_WAIT_B => WaitB(aw, w, m)
          /\ wstate = W_RESP => Respond(bready)
      BY <1>1, <1>5, WriteEdge
    <2>2. aw_held /\ w_held /\ w_dest_q = decode(aw_addr_q)
          /\ (wstate \in {W_FWD, W_WAIT_B} => w_dest_q # DEST_ERR)
          /\ (wstate = W_RESP /\ w_dest_q = DEST_ERR => bresp_q = DECERR)
      BY <1>2, <1>5 DEF IInv, WriteInv
    <2>3. w_dest_q' = w_dest_q
      BY <1>2, <1>5, <2>1 DEF Forward, WaitB, Respond
    <2>4. decode(aw_addr_q)' = decode(aw_addr_q)
      BY <2>1 DEF decode
    <2>5. CASE wstate = W_FWD
      BY <1>2, <1>3, <2>1, <2>2, <2>3, <2>4, <2>5, States
      DEF Forward, KeepHalves, WriteInv, decode
    <2>6. CASE wstate = W_WAIT_B
      BY <1>2, <1>3, <2>1, <2>2, <2>3, <2>4, <2>6, States
      DEF WaitB, KeepHalves, WriteInv, decode
    <2>7. CASE wstate = W_RESP
      BY <1>2, <1>3, <2>1, <2>2, <2>3, <2>4, <2>7, States
      DEF Respond, WriteInv, decode
    <2> QED
      BY <1>2, <1>5, <2>5, <2>6, <2>7
  <1> QED
    BY <1>4, <1>5

(***************************************************************************)
(* At the slaves' ports.  Only the slave the write is steered to sees an   *)
(* edge; for the other nothing is offered, taken or owed.                  *)
(***************************************************************************)
LEMMA WritePortsStep ==
  ASSUME BusAssumption, IInv,
         NEW aw, NEW w, NEW bready, NEW ar, NEW rready, NEW ready, NEW b, NEW r,
         Inputs(aw, w, bready, ar, rready), PortInputs(ready, b, r),
         BusClock(aw, w, bready, ar, rready, ready, b, r)
  PROVE  WritePorts'
  <1> DEFINE m == Driven(ready)
             d == [data |-> w_data_q, strb |-> w_strb_q]
  <1>1. WritePath(aw, w, bready, m) /\ bready \in BOOLEAN
    BY DEF BusClock, IcClock, Inputs
  <1>2. /\ wstate \in {W_COLLECT, W_FWD, W_WAIT_B, W_RESP}
        /\ aw_sent \in BOOLEAN /\ w_sent \in BOOLEAN
        /\ ready.aw \in BOOLEAN /\ ready.w \in BOOLEAN /\ w_dest_q \in Dests
    BY DEF IInv, TypeOK, IcTypeOK, PortInputs
  <1> SUFFICES ASSUME NEW s \in Slaves
               PROVE  /\ port'[s].aw = IF AwAt(s)' THEN <<aw_addr_q'>> ELSE <<>>
                      /\ port'[s].w = IF WAt(s)'
                                        THEN <<[data |-> w_data_q', strb |-> w_strb_q']>>
                                        ELSE <<>>
                      /\ port'[s].b # <<>> => AwAt(s)' /\ WAt(s)'
    BY DEF WritePorts, Slaves
  <1>3. /\ port'[s].aw = Track(port[s].aw, M_BREADY(s) /\ port[s].b # <<>>,
                           Accepted(<<aw_addr_q>>, M_AWVALID(s) /\ ready.aw))
        /\ port'[s].w = Track(port[s].w, M_BREADY(s) /\ port[s].b # <<>>,
                          Accepted(<<d>>, M_WVALID(s) /\ ready.w))
        /\ port'[s].b = IF port[s].b # <<>>
                           THEN IF M_BREADY(s) THEN <<>> ELSE port[s].b
                           ELSE IF port'[s].aw # <<>> /\ port'[s].w # <<>>
                                  THEN b ELSE <<>>
    <2>1. port' = [q \in Slaves |-> SlavePort(q, ready, b, r)]
      BY DEF BusClock, PortsEdge
    <2> QED
      BY <2>1, PortFields
  <1>4. /\ port[s].aw = IF AwAt(s) THEN <<aw_addr_q>> ELSE <<>>
        /\ port[s].w = IF WAt(s) THEN <<d>> ELSE <<>>
        /\ port[s].b # <<>> => AwAt(s) /\ WAt(s)
    BY DEF IInv, WritePorts
  <1> HIDE DEF m, d
  <1>5. ASSUME ~AwAt(s), ~WAt(s), ~M_AWVALID(s), ~M_WVALID(s)
        PROVE  port'[s].aw = <<>> /\ port'[s].w = <<>> /\ port'[s].b = <<>>
    <2>1. port[s].aw = <<>> /\ port[s].w = <<>> /\ port[s].b = <<>>
      BY <1>4, <1>5
    <2>2. port'[s].aw = <<>> /\ port'[s].w = <<>>
      BY <1>3, <1>5, <2>1, TrackFacts DEF Accepted
    <2> QED
      BY <1>3, <2>1, <2>2
  <1>6. CASE wstate = W_COLLECT
    <2>1. ~AwAt(s) /\ ~WAt(s) /\ ~M_AWVALID(s) /\ ~M_WVALID(s)
      BY <1>6, States DEF AwAt, WAt, M_AWVALID, M_WVALID
    <2>2. ~AwAt(s)' /\ ~WAt(s)'
      <3>1. Collect(aw, w)
        BY <1>1, <1>6, WriteEdge
      <3>2. wstate' = W_FWD => ~aw_sent' /\ ~w_sent'
        BY <3>1 DEF Collect
      <3>3. wstate' # W_WAIT_B
        BY <1>6, <3>1, States DEF Collect
      <3> QED
        BY <3>2, <3>3 DEF AwAt, WAt
    <2> QED
      BY <1>5, <2>1, <2>2
  <1>7. CASE wstate = W_RESP
    <2>1. ~AwAt(s) /\ ~WAt(s) /\ ~M_AWVALID(s) /\ ~M_WVALID(s)
      BY <1>7, States DEF AwAt, WAt, M_AWVALID, M_WVALID
    <2>2. ~AwAt(s)' /\ ~WAt(s)'
      <3>1. Respond(bready)
        BY <1>1, <1>7, WriteEdge
      <3>2. wstate' \in {W_RESP, W_COLLECT}
        BY <1>7, <3>1 DEF Respond
      <3> QED
        BY <3>2, States DEF AwAt, WAt
    <2> QED
      BY <1>5, <2>1, <2>2
  <1>8. CASE wstate \in {W_FWD, W_WAIT_B}
    <2>1. /\ wstate = W_FWD => Forward(aw, w, m)
          /\ wstate = W_WAIT_B => WaitB(aw, w, m)
          /\ aw_addr_q' = aw_addr_q /\ w_data_q' = w_data_q /\ w_strb_q' = w_strb_q
      BY <1>1, <1>8, WriteEdge, States
    <2>2. w_dest_q' = w_dest_q /\ w_dest_q \in Slaves
      <3>1. w_dest_q # DEST_ERR
        BY <1>8 DEF IInv, WriteInv
      <3> QED
        BY <1>2, <1>8, <2>1, <3>1, States DEF Forward, WaitB
    <2>3. CASE w_dest_q # s
      <3>1. ~AwAt(s) /\ ~WAt(s) /\ ~M_AWVALID(s) /\ ~M_WVALID(s)
        BY <2>3 DEF AwAt, WAt, M_AWVALID, M_WVALID
      <3>2. ~AwAt(s)' /\ ~WAt(s)'
        BY <2>2, <2>3 DEF AwAt, WAt
      <3> QED
        BY <1>5, <3>1, <3>2
    <2>4. CASE w_dest_q = s /\ wstate = W_FWD
      <3>1. /\ aw_sent' = (aw_sent \/ (~aw_sent /\ ready.aw))
            /\ w_sent' = (w_sent \/ (~w_sent /\ ready.w))
            /\ wstate' = IF aw_sent' /\ w_sent' THEN W_WAIT_B ELSE W_FWD
        BY <2>1, <2>2, <2>4, Steered, Zenon DEF Forward, m
      <3>2. /\ AwAt(s) <=> aw_sent
            /\ WAt(s) <=> w_sent
            /\ AwAt(s)' <=> aw_sent'
            /\ WAt(s)' <=> w_sent'
            /\ M_AWVALID(s) <=> ~aw_sent
            /\ M_WVALID(s) <=> ~w_sent
            /\ ~M_BREADY(s) /\ port[s].b = <<>>
        <4>1. ~(aw_sent /\ w_sent)
          BY <2>4 DEF IInv, WriteInv
        <4>2. AwAt(s) <=> aw_sent
          BY <2>4, States DEF AwAt
        <4>3. WAt(s) <=> w_sent
          BY <2>4, States DEF WAt
        <4>4. (AwAt(s)' <=> aw_sent') /\ (WAt(s)' <=> w_sent')
          BY <2>2, <2>4, <3>1, States DEF AwAt, WAt
        <4> QED
          BY <1>4, <2>4, <4>1, <4>2, <4>3, <4>4, States
          DEF M_AWVALID, M_WVALID, M_BREADY
      <3>3. port'[s].aw = IF aw_sent' THEN <<aw_addr_q>> ELSE <<>>
        BY <1>2, <1>3, <1>4, <3>1, <3>2, TrackFacts DEF Accepted
      <3>4. port'[s].w = IF w_sent' THEN <<d>> ELSE <<>>
        BY <1>2, <1>3, <1>4, <3>1, <3>2, TrackFacts DEF Accepted
      <3>5. port'[s].b # <<>> => port'[s].aw # <<>> /\ port'[s].w # <<>>
        BY <1>3, <3>2
      <3> QED
        BY <2>1, <3>2, <3>3, <3>4, <3>5 DEF d
    <2>5. CASE w_dest_q = s /\ wstate = W_WAIT_B
      <3>1. /\ wstate' = IF port[s].b # <<>> THEN W_RESP ELSE W_WAIT_B
            /\ aw_sent' = aw_sent /\ w_sent' = w_sent
        BY <2>1, <2>2, <2>5, Steered DEF WaitB, m
      <3>2. /\ AwAt(s) /\ WAt(s) /\ ~M_AWVALID(s) /\ ~M_WVALID(s) /\ M_BREADY(s)
            /\ AwAt(s)' <=> port[s].b = <<>>
            /\ WAt(s)' <=> port[s].b = <<>>
        BY <2>2, <2>5, <3>1, States
        DEF AwAt, WAt, M_AWVALID, M_WVALID, M_BREADY
      <3>3. port[s].aw = <<aw_addr_q>> /\ port[s].w = <<d>>
        BY <1>4, <3>2
      <3>4. CASE port[s].b = <<>>
        <4>1. port'[s].aw = <<aw_addr_q>> /\ port'[s].w = <<d>>
          BY <1>3, <3>2, <3>3, <3>4, TrackFacts DEF Accepted
        <4> QED
          BY <2>1, <3>2, <3>4, <4>1 DEF d
      <3>5. CASE port[s].b # <<>>
        <4>1. port'[s].aw = <<>> /\ port'[s].w = <<>>
          BY <1>3, <3>2, <3>3, <3>5, TrackFacts DEF Accepted
        <4>2. port'[s].b = <<>>
          BY <1>3, <3>2, <3>5
        <4> QED
          BY <3>2, <3>5, <4>1, <4>2
      <3> QED
        BY <3>4, <3>5
    <2> QED
      BY <1>8, <2>3, <2>4, <2>5
  <1> QED
    BY <1>2, <1>6, <1>7, <1>8

LEMMA WriteAnsweredStep ==
  ASSUME BusAssumption, IInv,
         NEW aw, NEW w, NEW bready, NEW ar, NEW rready, NEW ready, NEW b, NEW r,
         Inputs(aw, w, bready, ar, rready),
         BusClock(aw, w, bready, ar, rready, ready, b, r)
  PROVE  WriteAnswered'
  <1> DEFINE m == Driven(ready)
             d == [data |-> w_data_q, strb |-> w_strb_q]
  <1>1. WritePath(aw, w, bready, m) /\ bready \in BOOLEAN
    BY DEF BusClock, IcClock, Inputs
  <1>2. wstate \in {W_COLLECT, W_FWD, W_WAIT_B, W_RESP} /\ w_dest_q \in Dests
    BY DEF IInv, TypeOK, IcTypeOK
  <1>3. w_answers' = IF S_BVALID /\ bready THEN <<>>
                     ELSE w_answers \o TakenB(DEST_REG) \o TakenB(DEST_MEM)
    BY DEF BusClock, PortsEdge
  <1> HIDE DEF m
  <1>4. ASSUME wstate # W_WAIT_B
        PROVE  TakenB(DEST_REG) = <<>> /\ TakenB(DEST_MEM) = <<>>
    BY <1>4 DEF TakenB, M_BREADY
  <1>5. CASE wstate = W_COLLECT
    <2>1. Collect(aw, w)
      BY <1>1, <1>5, WriteEdge
    <2>2. wstate' = W_RESP => w_dest_q' = DEST_ERR
      BY <1>5, <2>1, States DEF Collect
    <2>3. w_answers' = <<>>
      BY <1>3, <1>4, <1>5, States, BeatFacts DEF S_BVALID, IInv, WriteAnswered
    <2> QED
      BY <2>2, <2>3 DEF WriteAnswered
  <1>6. CASE wstate = W_FWD
    <2>1. Forward(aw, w, m)
      BY <1>1, <1>6, WriteEdge
    <2>2. wstate' # W_RESP
      BY <2>1, States DEF Forward
    <2>3. w_answers' = <<>>
      BY <1>3, <1>4, <1>6, States, BeatFacts DEF S_BVALID, IInv, WriteAnswered
    <2> QED
      BY <2>2, <2>3 DEF WriteAnswered
  <1>7. CASE wstate = W_WAIT_B
    <2> DEFINE s == w_dest_q
    <2>1. /\ WaitB(aw, w, m) /\ aw_addr_q' = aw_addr_q
          /\ w_data_q' = w_data_q /\ w_strb_q' = w_strb_q
      BY <1>1, <1>7, WriteEdge, States
    <2>2. s \in Slaves /\ w_dest_q' = s /\ s # DEST_ERR
      <3>1. w_dest_q # DEST_ERR
        BY <1>7 DEF IInv, WriteInv
      <3> QED
        BY <1>2, <2>1, <3>1, States DEF WaitB
    <2>3. /\ wstate' = IF port[s].b # <<>> THEN W_RESP ELSE W_WAIT_B
          /\ port[s].b # <<>> => bresp_q' = Head(port[s].b)
      BY <1>7, <2>1, <2>2, Steered DEF WaitB, m
    <2>4. /\ port[s].aw = <<aw_addr_q>> /\ port[s].w = <<d>>
      BY <1>7, <2>2 DEF IInv, WritePorts, AwAt, WAt
    <2>5. w_answers' = <<>> \o TakenB(DEST_REG) \o TakenB(DEST_MEM)
      BY <1>3, <1>7, States DEF S_BVALID, IInv, WriteAnswered
    <2>6. \A q \in Slaves : q # s => TakenB(q) = <<>>
      BY DEF TakenB, M_BREADY
    <2>7. CASE port[s].b = <<>>
      <3>1. TakenB(s) = <<>>
        BY <2>7 DEF TakenB
      <3>2. TakenB(DEST_REG) = <<>> /\ TakenB(DEST_MEM) = <<>>
        BY <2>2, <2>6, <3>1, States
      <3>3. w_answers' = <<>> /\ wstate' # W_RESP
        BY <2>3, <2>5, <2>7, <3>2, States, BeatFacts
      <3> QED
        BY <3>3 DEF WriteAnswered
    <2>8. CASE port[s].b # <<>>
      <3> DEFINE x == [slave |-> s, addr |-> aw_addr_q, beat |-> d,
                       resp |-> Head(port[s].b)]
      <3>1. TakenB(s) = <<x>>
        <4>1. TakenB(s) = <<[slave |-> s, addr |-> Head(port[s].aw),
                             beat |-> Head(port[s].w), resp |-> Head(port[s].b)]>>
          BY <1>7, <2>8 DEF TakenB, M_BREADY
        <4>2. Head(port[s].aw) = aw_addr_q /\ Head(port[s].w) = d
          BY <2>4, BeatFacts
        <4> QED
          BY <4>1, <4>2
      <3> HIDE DEF x
      <3>2. w_answers' = <<x>>
        <4>1. CASE s = DEST_REG
          <5>1. TakenB(DEST_MEM) = <<>>
            BY <2>6, <4>1, States
          <5> QED
            BY <2>5, <3>1, <4>1, <5>1, BeatFacts
        <4>2. CASE s = DEST_MEM
          <5>1. TakenB(DEST_REG) = <<>>
            BY <2>6, <4>2, States
          <5> QED
            BY <2>5, <3>1, <4>2, <5>1, BeatFacts
        <4> QED
          BY <2>2, <4>1, <4>2, States
      <3>3. wstate' = W_RESP /\ bresp_q' = Head(port[s].b)
        BY <2>3, <2>8
      <3>4. x = [slave |-> w_dest_q', addr |-> aw_addr_q',
                 beat |-> [data |-> w_data_q', strb |-> w_strb_q'],
                 resp |-> bresp_q']
        BY <2>1, <2>2, <3>3 DEF x
      <3> QED
        BY <2>2, <3>2, <3>3, <3>4 DEF WriteAnswered
    <2> QED
      BY <2>7, <2>8
  <1>8. CASE wstate = W_RESP
    <2>1. /\ Respond(bready) /\ aw_addr_q' = aw_addr_q
          /\ w_data_q' = w_data_q /\ w_strb_q' = w_strb_q
      BY <1>1, <1>8, WriteEdge, States
    <2>2. CASE bready
      BY <1>3, <1>8, <2>1, <2>2, States DEF Respond, S_BVALID, WriteAnswered
    <2>3. CASE ~bready
      <3>1. w_answers' = w_answers \o <<>> \o <<>>
        BY <1>3, <1>4, <1>8, <2>3, States
      <3>2. w_answers' = w_answers
        BY <1>8, <3>1, BeatFacts DEF IInv, WriteAnswered
      <3>3. wstate' = wstate /\ w_dest_q' = w_dest_q /\ bresp_q' = bresp_q
        BY <2>1, <2>3 DEF Respond
      <3> QED
        BY <2>1, <3>2, <3>3 DEF IInv, WriteAnswered
    <2> QED
      BY <2>2, <2>3
  <1> QED
    BY <1>2, <1>5, <1>6, <1>7, <1>8

-----------------------------------------------------------------------------
(***************************************************************************)
(* The read path on one edge.                                              *)
(***************************************************************************)
LEMMA ReadEdge ==
  ASSUME IInv, NEW ar, NEW rready, NEW m, ReadPath(ar, rready, m)
  PROVE  /\ rstate = R_IDLE => Idle(ar)
         /\ rstate = R_FWD => ForwardRead(m)
         /\ rstate = R_WAIT_R => WaitR(m)
         /\ rstate = R_RESP => RespondRead(rready)
  BY States DEF ReadPath, Idle, ForwardRead, WaitR, RespondRead

LEMMA ReadInvStep ==
  ASSUME BusAssumption, IInv,
         NEW aw, NEW w, NEW bready, NEW ar, NEW rready, NEW ready, NEW b, NEW r,
         Inputs(aw, w, bready, ar, rready),
         BusClock(aw, w, bready, ar, rready, ready, b, r)
  PROVE  ReadInv' /\ arq' \in Beats(ArBeats)
  <1> DEFINE m == Driven(ready)
  <1>1. /\ ReadPath(ar, rready, m)
        /\ arq' = Track(arq, S_RVALID /\ rready, ReadBeat(ar, s_ar_hs(ar)))
    BY DEF BusClock, IcClock, Observe
  <1> HIDE DEF m
  <1>2. rstate \in {R_IDLE, R_FWD, R_WAIT_R, R_RESP} /\ arq \in Beats(ArBeats)
    BY DEF IInv, TypeOK, IcTypeOK, BusTypeOK
  <1>3. CASE s_ar_hs(ar)
    <2> DEFINE rd == [addr |-> Head(ar), writing |-> awq # <<>> \/ wq # <<>>]
    <2>1. rstate = R_IDLE /\ arq = <<>>
      BY <1>3 DEF s_ar_hs, S_ARREADY, IInv, ReadInv
    <2>2. Head(ar) \in Addrs
      BY <1>3, PayloadType DEF s_ar_hs, Inputs
    <2>3. rd \in ArBeats /\ rd.addr = Head(ar)
      BY <2>2 DEF ArBeats
    <2>4. arq' = <<rd>>
      BY <1>1, <1>3, <2>1, States, BeatFacts DEF Track, ReadBeat, S_RVALID
    <2>5. Idle(ar)
      BY <1>1, <2>1, ReadEdge
    <2> HIDE DEF rd
    <2>6. Head(arq').addr = Head(ar) /\ arq' # <<>> /\ arq' \in Beats(ArBeats)
      BY <2>3, <2>4, BeatFacts DEF Beats
    <2>7. /\ ar_addr_q' = Head(ar) /\ r_dest_q' = decode(ar_addr_q')
          /\ IF r_dest_q' = DEST_ERR
               THEN rstate' = R_RESP /\ rdata_q' = {} /\ rresp_q' = DECERR
               ELSE rstate' = R_FWD
      BY <1>3, <2>5 DEF Idle
    <2>8. decode(ar_addr_q)' = decode(ar_addr_q')
      BY DEF decode
    <2> QED
      BY <2>6, <2>7, <2>8, States DEF ReadInv
  <1>4. CASE ~s_ar_hs(ar) /\ rstate = R_RESP /\ rready
    <2>1. PICK x \in ArBeats : arq = <<x>>
      BY <1>2, <1>4, States DEF IInv, ReadInv, Beats
    <2>2. arq' = <<>>
      BY <1>1, <1>4, <2>1, BeatFacts DEF Track, ReadBeat, S_RVALID
    <2>3. rstate' = R_IDLE
      BY <1>1, <1>4, ReadEdge DEF RespondRead
    <2> QED
      BY <2>2, <2>3, States DEF ReadInv, Beats
  <1>5. CASE ~s_ar_hs(ar) /\ ~(rstate = R_RESP /\ rready)
    <2>1. arq' = arq \o <<>>
      BY <1>1, <1>5 DEF Track, ReadBeat, S_RVALID
    <2>2. arq' = arq
      BY <1>2, <2>1, BeatFacts DEF Beats
    <2>3. /\ ar_addr_q' = ar_addr_q /\ r_dest_q' = r_dest_q
          /\ (rstate' = R_IDLE) <=> (rstate = R_IDLE)
          /\ rstate' \in {R_FWD, R_WAIT_R} => rstate \in {R_FWD, R_WAIT_R}
          /\ rstate' = R_RESP /\ rstate # R_RESP => rstate = R_WAIT_R
          /\ rstate' = R_RESP /\ rstate = R_RESP =>
               rdata_q' = rdata_q /\ rresp_q' = rresp_q
      BY <1>1, <1>2, <1>5, ReadEdge, States
      DEF Idle, ForwardRead, WaitR, RespondRead, readPath
    <2>4. decode(ar_addr_q)' = decode(ar_addr_q)
      BY <2>3 DEF decode
    <2> QED
      BY <1>2, <2>2, <2>3, <2>4, States DEF IInv, ReadInv
  <1> QED
    BY <1>3, <1>4, <1>5

LEMMA ReadPortsStep ==
  ASSUME BusAssumption, IInv,
         NEW aw, NEW w, NEW bready, NEW ar, NEW rready, NEW ready, NEW b, NEW r,
         PortInputs(ready, b, r),
         BusClock(aw, w, bready, ar, rready, ready, b, r)
  PROVE  ReadPorts'
  <1> DEFINE m == Driven(ready)
  <1>1. ReadPath(ar, rready, m)
    BY DEF BusClock, IcClock
  <1>2. /\ rstate \in {R_IDLE, R_FWD, R_WAIT_R, R_RESP} /\ r_dest_q \in Dests
        /\ ready.ar \in BOOLEAN
    BY DEF IInv, TypeOK, IcTypeOK, PortInputs
  <1> SUFFICES ASSUME NEW s \in Slaves
               PROVE  /\ port'[s].ar = IF ArAt(s)' THEN <<ar_addr_q'>> ELSE <<>>
                      /\ port'[s].r # <<>> => ArAt(s)'
    BY DEF ReadPorts, Slaves
  <1>3. /\ port'[s].ar = Track(port[s].ar, M_RREADY(s) /\ port[s].r # <<>>,
                           Accepted(<<ar_addr_q>>, M_ARVALID(s) /\ ready.ar))
        /\ port'[s].r = IF port[s].r # <<>>
                           THEN IF M_RREADY(s) THEN <<>> ELSE port[s].r
                           ELSE IF port'[s].ar # <<>> THEN r ELSE <<>>
    <2>1. port' = [q \in Slaves |-> SlavePort(q, ready, b, r)]
      BY DEF BusClock, PortsEdge
    <2> QED
      BY <2>1, PortFields
  <1>4. /\ port[s].ar = IF ArAt(s) THEN <<ar_addr_q>> ELSE <<>>
        /\ port[s].r # <<>> => ArAt(s)
    BY DEF IInv, ReadPorts
  <1> HIDE DEF m
  <1>5. ASSUME ~ArAt(s), ~M_ARVALID(s)
        PROVE  port'[s].ar = <<>> /\ port'[s].r = <<>>
    <2>1. port[s].ar = <<>> /\ port[s].r = <<>>
      BY <1>4, <1>5
    <2>2. port'[s].ar = <<>>
      BY <1>3, <1>5, <2>1, TrackFacts DEF Accepted
    <2> QED
      BY <1>3, <2>1, <2>2
  <1>6. CASE rstate \in {R_IDLE, R_RESP}
    <2>1. ~ArAt(s) /\ ~M_ARVALID(s)
      BY <1>6, States DEF ArAt, M_ARVALID
    <2>2. rstate' # R_WAIT_R
      BY <1>1, <1>6, ReadEdge, States DEF Idle, RespondRead, readPath
    <2> QED
      BY <1>5, <2>1, <2>2 DEF ArAt
  <1>7. CASE rstate \in {R_FWD, R_WAIT_R}
    <2>1. /\ rstate = R_FWD => ForwardRead(m)
          /\ rstate = R_WAIT_R => WaitR(m)
      BY <1>1, ReadEdge
    <2>2. /\ r_dest_q' = r_dest_q /\ r_dest_q \in Slaves
          /\ ar_addr_q' = ar_addr_q
      <3>1. r_dest_q # DEST_ERR
        BY <1>7 DEF IInv, ReadInv
      <3> QED
        BY <1>2, <1>7, <2>1, <3>1, States DEF ForwardRead, WaitR
    <2>3. CASE r_dest_q # s
      BY <1>5, <2>2, <2>3 DEF ArAt, M_ARVALID
    <2>4. CASE r_dest_q = s /\ rstate = R_FWD
      <3>1. rstate' = IF ready.ar THEN R_WAIT_R ELSE R_FWD
        BY <2>1, <2>2, <2>4, Steered DEF ForwardRead, m
      <3>2. /\ ~ArAt(s) /\ M_ARVALID(s) /\ ~M_RREADY(s) /\ port[s].r = <<>>
            /\ ArAt(s)' <=> ready.ar
        BY <1>4, <2>2, <2>4, <3>1, States DEF ArAt, M_ARVALID, M_RREADY
      <3>3. port'[s].ar = IF ready.ar THEN <<ar_addr_q>> ELSE <<>>
        BY <1>2, <1>3, <1>4, <3>2, TrackFacts DEF Accepted
      <3>4. port'[s].r # <<>> => port'[s].ar # <<>>
        BY <1>3, <3>2
      <3> QED
        BY <2>2, <3>2, <3>3, <3>4
    <2>5. CASE r_dest_q = s /\ rstate = R_WAIT_R
      <3>1. rstate' = IF port[s].r # <<>> THEN R_RESP ELSE R_WAIT_R
        BY <2>1, <2>2, <2>5, Steered DEF WaitR, m
      <3>2. /\ ArAt(s) /\ ~M_ARVALID(s) /\ M_RREADY(s)
            /\ ArAt(s)' <=> port[s].r = <<>>
        BY <2>2, <2>5, <3>1, States DEF ArAt, M_ARVALID, M_RREADY
      <3>3. port[s].ar = <<ar_addr_q>>
        BY <1>4, <3>2
      <3>4. CASE port[s].r = <<>>
        <4>1. port'[s].ar = <<ar_addr_q>>
          BY <1>3, <3>2, <3>3, <3>4, TrackFacts DEF Accepted
        <4> QED
          BY <2>2, <3>2, <3>4, <4>1
      <3>5. CASE port[s].r # <<>>
        <4>1. port'[s].ar = <<>>
          BY <1>3, <3>2, <3>3, <3>5, TrackFacts DEF Accepted
        <4>2. port'[s].r = <<>>
          BY <1>3, <3>2, <3>5
        <4> QED
          BY <3>2, <3>5, <4>1, <4>2
      <3> QED
        BY <3>4, <3>5
    <2> QED
      BY <1>7, <2>3, <2>4, <2>5
  <1> QED
    BY <1>2, <1>6, <1>7

LEMMA ReadAnsweredStep ==
  ASSUME BusAssumption, InterconnectBusAssumption, IInv,
         NEW aw, NEW w, NEW bready, NEW ar, NEW rready, NEW ready, NEW b, NEW r,
         BusClock(aw, w, bready, ar, rready, ready, b, r)
  PROVE  ReadAnswered'
  <1> DEFINE m == Driven(ready)
  <1>1. ReadPath(ar, rready, m)
    BY DEF BusClock, IcClock
  <1>2. rstate \in {R_IDLE, R_FWD, R_WAIT_R, R_RESP} /\ r_dest_q \in Dests
    BY DEF IInv, TypeOK, IcTypeOK
  <1>3. r_answers' = IF S_RVALID /\ rready THEN <<>>
                     ELSE r_answers \o TakenR(DEST_REG) \o TakenR(DEST_MEM)
    BY DEF BusClock, PortsEdge
  <1> HIDE DEF m
  <1>4. ASSUME rstate # R_WAIT_R
        PROVE  TakenR(DEST_REG) = <<>> /\ TakenR(DEST_MEM) = <<>>
    BY <1>4 DEF TakenR, M_RREADY
  <1>5. CASE rstate \in {R_IDLE, R_FWD}
    <2>1. rstate' = R_RESP => r_dest_q' = DEST_ERR
      BY <1>1, <1>5, ReadEdge, States DEF Idle, ForwardRead, readPath
    <2>2. r_answers' = <<>>
      BY <1>3, <1>4, <1>5, States, BeatFacts DEF S_RVALID, IInv, ReadAnswered
    <2> QED
      BY <2>1, <2>2 DEF ReadAnswered
  <1>6. CASE rstate = R_WAIT_R
    <2> DEFINE s == r_dest_q
    <2>1. WaitR(m)
      BY <1>1, <1>6, ReadEdge
    <2>2. s \in Slaves /\ r_dest_q' = s /\ s # DEST_ERR /\ ar_addr_q' = ar_addr_q
      <3>1. r_dest_q # DEST_ERR
        BY <1>6 DEF IInv, ReadInv
      <3> QED
        BY <1>2, <2>1, <3>1, States DEF WaitR
    <2>3. /\ rstate' = IF port[s].r # <<>> THEN R_RESP ELSE R_WAIT_R
          /\ port[s].r # <<>> => /\ rdata_q' = Head(port[s].r).data
                                 /\ rresp_q' = Head(port[s].r).resp
      BY <1>6, <2>1, <2>2, Steered DEF WaitR, m
    <2>4. port[s].ar = <<ar_addr_q>>
      BY <1>6, <2>2 DEF IInv, ReadPorts, ArAt
    <2>5. r_answers' = <<>> \o TakenR(DEST_REG) \o TakenR(DEST_MEM)
      BY <1>3, <1>6, States DEF S_RVALID, IInv, ReadAnswered
    <2>6. \A q \in Slaves : q # s => TakenR(q) = <<>>
      BY DEF TakenR, M_RREADY
    <2>7. CASE port[s].r = <<>>
      <3>1. TakenR(s) = <<>>
        BY <2>7 DEF TakenR
      <3>2. TakenR(DEST_REG) = <<>> /\ TakenR(DEST_MEM) = <<>>
        BY <2>2, <2>6, <3>1, States
      <3>3. r_answers' = <<>> /\ rstate' # R_RESP
        BY <2>3, <2>5, <2>7, <3>2, States, BeatFacts
      <3> QED
        BY <3>3 DEF ReadAnswered
    <2>8. CASE port[s].r # <<>>
      <3> DEFINE x == [slave |-> s, addr |-> ar_addr_q, beat |-> Head(port[s].r)]
      <3>1. TakenR(s) = <<x>>
        <4>1. TakenR(s) = <<[slave |-> s, addr |-> Head(port[s].ar),
                             beat |-> Head(port[s].r)]>>
          BY <1>6, <2>8 DEF TakenR, M_RREADY
        <4>2. Head(port[s].ar) = ar_addr_q
          BY <2>4, BeatFacts
        <4> QED
          BY <4>1, <4>2
      <3>2. Head(port[s].r) = [data |-> rdata_q', resp |-> rresp_q']
        <4>1. port[s].r \in Beats(RBeats)
          BY <2>2 DEF IInv, TypeOK, Port
        <4>2. PICK y \in RBeats : port[s].r = <<y>>
          BY <2>8, <4>1 DEF Beats
        <4>3. y = [data |-> y.data, resp |-> y.resp]
          BY DEF InterconnectBusAssumption
        <4> QED
          BY <2>3, <2>8, <4>2, <4>3, BeatFacts
      <3>3. x = [slave |-> r_dest_q', addr |-> ar_addr_q',
                 beat |-> [data |-> rdata_q', resp |-> rresp_q']]
        BY <2>2, <3>2
      <3> HIDE DEF x
      <3>4. r_answers' = <<x>>
        <4>1. CASE s = DEST_REG
          <5>1. TakenR(DEST_MEM) = <<>>
            BY <2>6, <4>1, States
          <5> QED
            BY <2>5, <3>1, <4>1, <5>1, BeatFacts
        <4>2. CASE s = DEST_MEM
          <5>1. TakenR(DEST_REG) = <<>>
            BY <2>6, <4>2, States
          <5> QED
            BY <2>5, <3>1, <4>2, <5>1, BeatFacts
        <4> QED
          BY <2>2, <4>1, <4>2, States
      <3>5. rstate' = R_RESP
        BY <2>3, <2>8
      <3> QED
        BY <2>2, <3>3, <3>4, <3>5 DEF ReadAnswered
    <2> QED
      BY <2>7, <2>8
  <1>7. CASE rstate = R_RESP
    <2>1. RespondRead(rready)
      BY <1>1, <1>7, ReadEdge
    <2>2. CASE rready
      BY <1>3, <1>7, <2>1, <2>2, States DEF RespondRead, S_RVALID, ReadAnswered
    <2>3. CASE ~rready
      <3>1. r_answers' = r_answers \o <<>> \o <<>>
        BY <1>3, <1>4, <1>7, <2>3, States
      <3>2. r_answers' = r_answers
        BY <1>7, <3>1, BeatFacts DEF IInv, ReadAnswered
      <3>3. /\ rstate' = rstate /\ r_dest_q' = r_dest_q /\ ar_addr_q' = ar_addr_q
            /\ rdata_q' = rdata_q /\ rresp_q' = rresp_q
        BY <1>7, <2>1, <2>3 DEF RespondRead
      <3> QED
        BY <3>2, <3>3 DEF IInv, ReadAnswered
    <2> QED
      BY <2>2, <2>3
  <1> QED
    BY <1>2, <1>5, <1>6, <1>7

-----------------------------------------------------------------------------
(***************************************************************************)
(* Type correctness of one edge, given what has been shown of the halves,  *)
(* the ports and the read in flight after it.                              *)
(***************************************************************************)
LEMMA IcTypeStep ==
  ASSUME MapAssumption, BusAssumption, InterconnectBusAssumption, IInv,
         NEW aw, NEW w, NEW bready, NEW ar, NEW rready, NEW ready, NEW b, NEW r,
         Inputs(aw, w, bready, ar, rready), PortInputs(ready, b, r),
         BusClock(aw, w, bready, ar, rready, ready, b, r)
  PROVE  IcTypeOK'
  <1> DEFINE m == Driven(ready)
  <1>1. WritePath(aw, w, bready, m) /\ ReadPath(ar, rready, m)
        /\ bready \in BOOLEAN
    BY DEF BusClock, IcClock, Inputs
  <1> HIDE DEF m
  <1>2. IcTypeOK /\ \A s \in Slaves : port[s] \in Port
    BY DEF IInv, TypeOK
  <1>3. \A a : decode(a) \in Dests
    BY States DEF decode
  <1>4. /\ aw_addr_q' \in Nat /\ w_data_q' \in Word /\ w_strb_q' \in Strobe
    BY <1>1, <1>2, PayloadType
    DEF WritePath, WriteLatches, IcTypeOK, s_aw_hs, s_w_hs, Inputs
  <1>5. aw_held' \in BOOLEAN /\ w_held' \in BOOLEAN
    BY <1>1, <1>2, WriteEdge DEF IcTypeOK
  <1>6. /\ wstate' \in {W_COLLECT, W_FWD, W_WAIT_B, W_RESP}
        /\ w_dest_q' \in Dests /\ bresp_q' \in {OKAY, SLVERR, DECERR}
        /\ aw_sent' \in BOOLEAN /\ w_sent' \in BOOLEAN
    <2>1. CASE wstate = W_COLLECT
      <3>1. Collect(aw, w)
        BY <1>1, <2>1, WriteEdge
      <3> QED
        BY <1>2, <1>3, <3>1 DEF Collect, IcTypeOK
    <2>2. CASE wstate = W_FWD
      <3>1. Forward(aw, w, m)
        BY <1>1, <2>2, WriteEdge
      <3> QED
        BY <1>2, <3>1 DEF Forward, IcTypeOK
    <2>3. CASE wstate = W_WAIT_B
      <3>1. WaitB(aw, w, m)
        BY <1>1, <2>3, WriteEdge
      <3>2. w_dest_q \in Slaves
        BY <1>2, <2>3, States DEF IInv, WriteInv, IcTypeOK
      <3>3. m_b_hs(m) => m_bresp(m) \in WResps
        <4>1. port[w_dest_q].b \in Beats(WResps)
          BY <1>2, <3>2 DEF Port
        <4>2. m_b_hs(m) => port[w_dest_q].b # <<>>
                           /\ m_bresp(m) = Head(port[w_dest_q].b)
          BY <2>3, <3>2, Steered DEF m
        <4> QED
          BY <4>1, <4>2, BeatFacts DEF Beats
      <3> QED
        BY <1>2, <3>1, <3>3 DEF WaitB, IcTypeOK, WResps
    <2>4. CASE wstate = W_RESP
      <3>1. Respond(bready)
        BY <1>1, <2>4, WriteEdge
      <3> QED
        BY <1>2, <3>1 DEF Respond, IcTypeOK
    <2> QED
      BY <1>2, <2>1, <2>2, <2>3, <2>4 DEF IcTypeOK
  <1>7. /\ rstate' \in {R_IDLE, R_FWD, R_WAIT_R, R_RESP}
        /\ ar_addr_q' \in Nat /\ r_dest_q' \in Dests
        /\ rdata_q' \in Word /\ rresp_q' \in {OKAY, SLVERR, DECERR}
    <2>1. CASE rstate = R_IDLE
      <3>1. Idle(ar)
        BY <1>1, <2>1, ReadEdge
      <3>2. s_ar_hs(ar) => Head(ar) \in Nat
        BY PayloadType DEF s_ar_hs, Inputs
      <3>3. {} \in Word
        BY DEF Word
      <3> QED
        BY <1>2, <1>3, <3>1, <3>2, <3>3 DEF Idle, IcTypeOK, readPath
    <2>2. CASE rstate = R_FWD
      <3>1. ForwardRead(m)
        BY <1>1, <2>2, ReadEdge
      <3> QED
        BY <1>2, <3>1 DEF ForwardRead, IcTypeOK
    <2>3. CASE rstate = R_WAIT_R
      <3>1. WaitR(m)
        BY <1>1, <2>3, ReadEdge
      <3>2. r_dest_q \in Slaves
        BY <1>2, <2>3, States DEF IInv, ReadInv, IcTypeOK
      <3>3. m_r_hs(m) => m_r(m) \in [data : Word, resp : {OKAY, SLVERR}]
        <4>1. port[r_dest_q].r \in Beats(RBeats)
          BY <1>2, <3>2 DEF Port
        <4>2. m_r_hs(m) => port[r_dest_q].r # <<>>
                           /\ m_r(m) = Head(port[r_dest_q].r)
          BY <2>3, <3>2, Steered DEF m
        <4> QED
          BY <4>1, <4>2, BeatFacts DEF Beats, InterconnectBusAssumption
      <3> QED
        BY <1>2, <3>1, <3>3 DEF WaitR, IcTypeOK
    <2>4. CASE rstate = R_RESP
      <3>1. RespondRead(rready)
        BY <1>1, <2>4, ReadEdge
      <3> QED
        BY <1>2, <3>1 DEF RespondRead, IcTypeOK
    <2> QED
      BY <1>2, <2>1, <2>2, <2>3, <2>4 DEF IcTypeOK
  <1> QED
    BY <1>4, <1>5, <1>6, <1>7 DEF IcTypeOK

LEMMA BusTypeStep ==
  ASSUME BusAssumption, IInv,
         NEW aw, NEW w, NEW bready, NEW ar, NEW rready, NEW ready, NEW b, NEW r,
         Inputs(aw, w, bready, ar, rready),
         BusClock(aw, w, bready, ar, rready, ready, b, r)
  PROVE  BusTypeOK'
  <1>1. aw_offered' \in Beats(Addrs) /\ w_offered' \in Beats(WBeats)
        /\ ar_offered' \in Beats(Addrs)
    BY DEF BusClock, Observe, Held, Inputs, Beats
  <1>2. awq \in Beats(Addrs) /\ wq \in Beats(WBeats)
    BY DEF IInv, TypeOK, BusTypeOK
  <1>3. S_BVALID => awq # <<>> /\ wq # <<>>
    BY States, BeatFacts DEF S_BVALID, IInv, WriteInv
  <1>4. (S_BVALID /\ bready) \in BOOLEAN
    BY DEF S_BVALID, Inputs
  <1>5. awq' \in Beats(Addrs)
    <2>1. Accepted(aw, s_aw_hs(aw)) \in Beats(Addrs)
      BY DEF Accepted, Inputs, Beats
    <2>2. Accepted(aw, s_aw_hs(aw)) # <<>> => awq = <<>>
      BY DEF IInv, WriteInv, Accepted, s_aw_hs, S_AWREADY
    <2>3. awq' = Track(awq, S_BVALID /\ bready, Accepted(aw, s_aw_hs(aw)))
      BY DEF BusClock, Observe
    <2> QED
      BY <1>2, <1>3, <1>4, <2>1, <2>2, <2>3, TrackType
  <1>6. wq' \in Beats(WBeats)
    <2>1. Accepted(w, s_w_hs(w)) \in Beats(WBeats)
      BY DEF Accepted, Inputs, Beats
    <2>2. Accepted(w, s_w_hs(w)) # <<>> => wq = <<>>
      BY DEF IInv, WriteInv, Accepted, s_w_hs, S_WREADY
    <2>3. wq' = Track(wq, S_BVALID /\ bready, Accepted(w, s_w_hs(w)))
      BY DEF BusClock, Observe
    <2> QED
      BY <1>2, <1>3, <1>4, <2>1, <2>2, <2>3, TrackType
  <1> QED
    BY <1>1, <1>5, <1>6, ReadInvStep DEF BusTypeOK

LEMMA PortTypeStep ==
  ASSUME InterconnectBusAssumption, IInv,
         NEW aw, NEW w, NEW bready, NEW ar, NEW rready, NEW ready, NEW b, NEW r,
         PortInputs(ready, b, r),
         BusClock(aw, w, bready, ar, rready, ready, b, r),
         BusTypeOK', WriteInv', WritePorts', ReadInv', ReadPorts'
  PROVE  port' \in [Slaves -> Port]
  <1>1. port' = [q \in Slaves |-> SlavePort(q, ready, b, r)]
    BY DEF BusClock, PortsEdge
  <1> SUFFICES ASSUME NEW s \in Slaves PROVE port'[s] \in Port
    BY <1>1
  <1>2. port'[s] = [aw |-> port'[s].aw, w |-> port'[s].w, b |-> port'[s].b,
                    ar |-> port'[s].ar, r |-> port'[s].r]
    BY <1>1 DEF SlavePort
  <1>3. port'[s].aw \in Beats(Addrs)
    <2>1. AwAt(s)' => awq' = <<aw_addr_q'>>
      BY States DEF AwAt, WriteInv
    <2>2. port'[s].aw = IF AwAt(s)' THEN <<aw_addr_q'>> ELSE <<>>
      BY DEF WritePorts, Slaves
    <2> QED
      BY <2>1, <2>2 DEF BusTypeOK, Beats
  <1>4. port'[s].w \in Beats(WBeats)
    <2>1. WAt(s)' => wq' = <<[data |-> w_data_q', strb |-> w_strb_q']>>
      BY States DEF WAt, WriteInv
    <2>2. port'[s].w = IF WAt(s)' THEN <<[data |-> w_data_q', strb |-> w_strb_q']>>
                       ELSE <<>>
      BY DEF WritePorts, Slaves
    <2> QED
      BY <2>1, <2>2 DEF BusTypeOK, Beats
  <1>5. port'[s].ar \in Beats(Addrs)
    <2>1. port'[s].ar = IF ArAt(s)' THEN <<ar_addr_q'>> ELSE <<>>
      BY DEF ReadPorts, Slaves
    <2>2. ASSUME ArAt(s)' PROVE ar_addr_q' \in Addrs
      <3>1. arq' # <<>> /\ Head(arq').addr = ar_addr_q'
        BY <2>2, States DEF ArAt, ReadInv
      <3>2. PICK x \in ArBeats : arq' = <<x>>
        BY <3>1 DEF BusTypeOK, Beats
      <3> QED
        BY <3>1, <3>2, BeatFacts DEF ArBeats
    <2> QED
      BY <2>1, <2>2 DEF Beats
  <1>6. port'[s].b \in Beats(WResps) /\ port'[s].r \in Beats(RBeats)
    <2>1. /\ port'[s].b \in {<<>>, port[s].b, b}
          /\ port'[s].r \in {<<>>, port[s].r, r}
      BY <1>1, PortFields
    <2>2. port[s].b \in Beats(WResps) /\ port[s].r \in Beats(RBeats)
      BY DEF IInv, TypeOK, Port
    <2> QED
      BY <2>1, <2>2 DEF PortInputs, Beats
  <1> QED
    BY <1>2, <1>3, <1>4, <1>5, <1>6 DEF Port

-----------------------------------------------------------------------------
LEMMA IInvInit ==
  ASSUME Init
  PROVE  IInv
  <1>1. TypeOK
    <2>1. IdlePort \in Port
      BY DEF IdlePort, Port, Beats
    <2> QED
      BY <2>1 DEF Init, IcInReset, BusIdle, TypeOK, IcTypeOK, BusTypeOK, Beats,
         Word, Strobe, Dests, Slaves
  <1>2. WriteInv /\ ReadInv /\ WriteAnswered /\ ReadAnswered
    BY States DEF Init, IcInReset, BusIdle, WriteInv, ReadInv, WriteAnswered,
       ReadAnswered
  <1>3. WritePorts /\ ReadPorts
    BY States DEF Init, IcInReset, WritePorts, ReadPorts, AwAt, WAt, ArAt,
       IdlePort
  <1> QED
    BY <1>1, <1>2, <1>3 DEF IInv

LEMMA IInvReset ==
  ASSUME Reset
  PROVE  IInv'
  <1>1. TypeOK'
    <2>1. IdlePort \in Port
      BY DEF IdlePort, Port, Beats
    <2> QED
      BY <2>1 DEF Reset, IcReset, BusReset, TypeOK, IcTypeOK, BusTypeOK, Beats,
         Word, Strobe, Dests, Slaves
  <1>2. WriteInv' /\ ReadInv' /\ WriteAnswered' /\ ReadAnswered'
    BY States DEF Reset, IcReset, BusReset, WriteInv, ReadInv, WriteAnswered,
       ReadAnswered
  <1>3. WritePorts' /\ ReadPorts'
    BY States DEF Reset, IcReset, WritePorts, ReadPorts, AwAt, WAt, ArAt,
       IdlePort
  <1> QED
    BY <1>1, <1>2, <1>3 DEF IInv

LEMMA IInvClock ==
  ASSUME MapAssumption, BusAssumption, InterconnectBusAssumption, IInv,
         NEW aw, NEW w, NEW bready, NEW ar, NEW rready, NEW ready, NEW b, NEW r,
         Inputs(aw, w, bready, ar, rready), PortInputs(ready, b, r),
         BusClock(aw, w, bready, ar, rready, ready, b, r)
  PROVE  IInv'
  <1>1. WriteInv' /\ WritePorts' /\ WriteAnswered'
    BY WriteInvStep, WritePortsStep, WriteAnsweredStep
  <1>2. ReadInv' /\ ReadPorts' /\ ReadAnswered'
    BY ReadInvStep, ReadPortsStep, ReadAnsweredStep
  <1>3. IcTypeOK' /\ BusTypeOK'
    BY IcTypeStep, BusTypeStep
  <1>4. port' \in [Slaves -> Port]
    BY <1>1, <1>2, <1>3, PortTypeStep
  <1> QED
    BY <1>1, <1>2, <1>3, <1>4 DEF IInv, TypeOK, Slaves, Port, Beats, WResps

LEMMA ClockInputs ==
  ASSUME IInv, Clock
  PROVE  \E aw, w, bready, ar, rready, ready, b, r :
           /\ Inputs(aw, w, bready, ar, rready) /\ PortInputs(ready, b, r)
           /\ BusClock(aw, w, bready, ar, rready, ready, b, r)
  <1>1. PICK aw \in Offer(aw_offered, Addrs), w \in Offer(w_offered, WBeats),
             ar \in Offer(ar_offered, Addrs),
             bready \in Signal(S_BVALID), rready \in Signal(S_RVALID),
             ready \in Readys, b \in NewB, r \in NewR :
          BusClock(aw, w, bready, ar, rready, ready, b, r)
    BY DEF Clock, BusClock
  <1>2. \A p : Signal(p) \subseteq BOOLEAN
    BY DEF Signal
  <1>3. Inputs(aw, w, bready, ar, rready)
    BY <1>2, OfferIsBeat DEF Inputs, IInv, TypeOK, BusTypeOK
  <1>4. ready \in [aw : BOOLEAN, w : BOOLEAN, ar : BOOLEAN]
    BY <1>2 DEF Readys
  <1>5. b \in Beats(WResps) /\ r \in Beats(RBeats)
    BY DEF NewB, NewR, Beats
  <1> QED
    BY <1>1, <1>3, <1>4, <1>5 DEF PortInputs

LEMMA IInvStep == IInv /\ [Next]_vars => IInv'
  <1> SUFFICES ASSUME IInv, [Next]_vars PROVE IInv'
    OBVIOUS
  <1>1. CASE Clock
    BY <1>1, ClockInputs, IInvClock, MapAssumption, BusAssumption,
       InterconnectBusAssumption
  <1>2. CASE Reset
    BY <1>2, IInvReset
  <1>3. CASE UNCHANGED vars
    BY <1>3 DEF vars, icVars, writePath, readPath, busVars, IInv, TypeOK,
       IcTypeOK, BusTypeOK, WriteInv, WritePorts, WriteAnswered, ReadInv,
       ReadPorts, ReadAnswered, AwAt, WAt, ArAt, decode, Slaves, Port, Beats,
       WResps
  <1> QED
    BY <1>1, <1>2, <1>3 DEF Next

LEMMA Invariance == Spec => []IInv
  <1>1. Init => IInv
    BY IInvInit
  <1> QED
    BY <1>1, IInvStep, PTL DEF Spec

(***************************************************************************)
(* The flops, the queues and the slaves' ports keep their types; no queue  *)
(* and no port ever holds two beats of a channel.                          *)
(***************************************************************************)
THEOREM TypeCorrect == Spec => []TypeOK
  <1>1. IInv => TypeOK
    BY DEF IInv
  <1> QED
    BY <1>1, Invariance, PTL

(***************************************************************************)
(* The address map, as the interconnect compares it and as the scoreboard  *)
(* does.                                                                   *)
(***************************************************************************)
LEMMA DecodeIsOwner ==
  ASSUME MapAssumption, NEW a \in Nat
  PROVE  /\ is_unmapped(a) <=> decode(a) = DEST_ERR
         /\ decode(a) # DEST_ERR => Owns(decode(a), a) /\ decode(a) \in Slaves
  BY States DEF MapAssumption, decode, is_unmapped, is_reg_region,
     is_mem_region, Owns

(***************************************************************************)
(* Every response the master sees is that of the one slave that owns the   *)
(* address, given to exactly the master's beats and taken once; what       *)
(* nobody owns is answered DECERR and seen by no slave.                    *)
(***************************************************************************)
THEOREM ResponsesAreRouted == Spec => []ResponsesRouted
  <1>1. IInv => ResponsesRouted
    <2> SUFFICES ASSUME IInv PROVE WriteRouted /\ ReadRouted
      BY DEF ResponsesRouted
    <2>1. ASSUME S_BVALID
          PROVE  /\ awq = <<aw_addr_q>>
                 /\ wq = <<[data |-> w_data_q, strb |-> w_strb_q]>>
                 /\ w_dest_q = decode(aw_addr_q) /\ aw_addr_q \in Nat
      BY <2>1, States DEF S_BVALID, IInv, WriteInv, TypeOK, IcTypeOK
    <2>2. WriteRouted
      <3>1. Len(awq) <= 1 /\ Len(wq) <= 1
        BY BeatFacts DEF IInv, WriteInv
      <3>2. ASSUME S_BVALID, is_unmapped(aw_addr_q)
            PROVE  w_answers = <<>> /\ bresp_q = DECERR
        BY <2>1, <3>2, MapAssumption, DecodeIsOwner
        DEF S_BVALID, IInv, WriteAnswered, WriteInv
      <3>3. ASSUME S_BVALID, ~is_unmapped(aw_addr_q)
            PROVE  /\ w_dest_q \in Slaves /\ Owns(w_dest_q, aw_addr_q)
                   /\ w_answers =
                        <<[slave |-> w_dest_q, addr |-> aw_addr_q,
                           beat |-> [data |-> w_data_q, strb |-> w_strb_q],
                           resp |-> bresp_q]>>
        BY <2>1, <3>3, MapAssumption, DecodeIsOwner
        DEF S_BVALID, IInv, WriteAnswered
      <3>4. S_BVALID => /\ Head(awq) = aw_addr_q /\ awq # <<>> /\ wq # <<>>
                        /\ Head(wq) = [data |-> w_data_q, strb |-> w_strb_q]
        BY <2>1, BeatFacts
      <3> QED
        BY <3>1, <3>2, <3>3, <3>4, Zenon DEF WriteRouted
    <2>3. ReadRouted
      <3>1. Len(arq) <= 1
        <4>1. CASE arq = <<>>
          BY <4>1, BeatFacts
        <4>2. CASE arq # <<>>
          <5>1. PICK x : arq = <<x>>
            BY <4>2 DEF IInv, TypeOK, BusTypeOK, Beats
          <5> QED
            BY <5>1, BeatFacts
        <4> QED
          BY <4>1, <4>2
      <3>2. S_RVALID => /\ arq # <<>> /\ Head(arq).addr = ar_addr_q
                        /\ r_dest_q = decode(ar_addr_q) /\ ar_addr_q \in Nat
        BY States DEF S_RVALID, IInv, ReadInv, TypeOK, IcTypeOK
      <3>3. ASSUME S_RVALID, is_unmapped(ar_addr_q)
            PROVE  r_answers = <<>> /\ rresp_q = DECERR /\ rdata_q = {}
        BY <3>2, <3>3, MapAssumption, DecodeIsOwner
        DEF S_RVALID, IInv, ReadAnswered, ReadInv
      <3>4. ASSUME S_RVALID, ~is_unmapped(ar_addr_q)
            PROVE  /\ r_dest_q \in Slaves /\ Owns(r_dest_q, ar_addr_q)
                   /\ r_answers =
                        <<[slave |-> r_dest_q, addr |-> ar_addr_q,
                           beat |-> [data |-> rdata_q, resp |-> rresp_q]]>>
        BY <3>2, <3>4, MapAssumption, DecodeIsOwner
        DEF S_RVALID, IInv, ReadAnswered
      <3> QED
        BY <3>1, <3>2, <3>3, <3>4, Zenon DEF ReadRouted
    <2> QED
      BY <2>2, <2>3
  <1> QED
    BY <1>1, Invariance, PTL

(***************************************************************************)
(* A slave is only ever shown halves of the transactions in flight that it *)
(* owns.                                                                   *)
(***************************************************************************)
THEOREM OnlyTheOwnerSees == Spec => []OnlyOwnerSees
  <1>1. IInv => OnlyOwnerSees
    <2> SUFFICES ASSUME IInv, NEW s \in Slaves
                 PROVE  /\ port[s].aw # <<>> \/ port[s].w # <<>> =>
                             awq # <<>> /\ wq # <<>> /\ Owns(s, Head(awq))
                        /\ port[s].aw # <<>> => port[s].aw = awq
                        /\ port[s].w # <<>> => port[s].w = wq
                        /\ port[s].ar # <<>> =>
                             arq # <<>> /\ port[s].ar = <<Head(arq).addr>>
                               /\ Owns(s, Head(arq).addr)
      BY DEF OnlyOwnerSees
    <2>1. /\ port[s].aw = IF AwAt(s) THEN <<aw_addr_q>> ELSE <<>>
          /\ port[s].w = IF WAt(s) THEN <<[data |-> w_data_q, strb |-> w_strb_q]>>
                         ELSE <<>>
          /\ port[s].ar = IF ArAt(s) THEN <<ar_addr_q>> ELSE <<>>
      BY DEF IInv, WritePorts, ReadPorts
    <2>2. AwAt(s) \/ WAt(s) =>
            /\ awq = <<aw_addr_q>>
            /\ wq = <<[data |-> w_data_q, strb |-> w_strb_q]>>
            /\ s = decode(aw_addr_q) /\ s # DEST_ERR /\ aw_addr_q \in Nat
      BY States DEF AwAt, WAt, IInv, WriteInv, TypeOK, IcTypeOK
    <2>3. ArAt(s) => /\ arq # <<>> /\ Head(arq).addr = ar_addr_q
                     /\ s = decode(ar_addr_q) /\ s # DEST_ERR
                     /\ ar_addr_q \in Nat
      BY States DEF ArAt, IInv, ReadInv, TypeOK, IcTypeOK
    <2>4. /\ AwAt(s) \/ WAt(s) => Owns(s, aw_addr_q)
          /\ ArAt(s) => Owns(s, ar_addr_q)
      BY <2>2, <2>3, MapAssumption, DecodeIsOwner
    <2> QED
      BY <2>1, <2>2, <2>3, <2>4, BeatFacts
  <1> QED
    BY <1>1, Invariance, PTL

(***************************************************************************)
(* A beat offered to a slave stays, unchanged, until that slave takes it.  *)
(***************************************************************************)
THEOREM SlavePortsStable == Spec => SlavePortStable
  <1> DEFINE Stable(s) ==
        /\ M_AWVALID(s) /\ port'[s].aw = port[s].aw =>
             M_AWVALID(s)' /\ aw_addr_q' = aw_addr_q
        /\ M_WVALID(s) /\ port'[s].w = port[s].w =>
             M_WVALID(s)' /\ w_data_q' = w_data_q /\ w_strb_q' = w_strb_q
        /\ M_ARVALID(s) /\ port'[s].ar = port[s].ar =>
             M_ARVALID(s)' /\ ar_addr_q' = ar_addr_q
  <1>1. ASSUME IInv, IInv', Clock, NEW s \in Slaves
        PROVE  Stable(s)
    <2>1. PICK aw, w, bready, ar, rready, ready, b, r :
            /\ Inputs(aw, w, bready, ar, rready) /\ PortInputs(ready, b, r)
            /\ BusClock(aw, w, bready, ar, rready, ready, b, r)
      BY <1>1, ClockInputs
    <2> DEFINE m == Driven(ready)
    <2>2. /\ WritePath(aw, w, bready, m) /\ ReadPath(ar, rready, m)
          /\ bready \in BOOLEAN
      BY <2>1 DEF BusClock, IcClock, Inputs
    <2> HIDE DEF m
    <2>3. ASSUME wstate = W_FWD
          PROVE  /\ w_dest_q' = w_dest_q /\ wstate' \in {W_FWD, W_WAIT_B}
                 /\ aw_addr_q' = aw_addr_q
                 /\ w_data_q' = w_data_q /\ w_strb_q' = w_strb_q
      BY <1>1, <2>2, <2>3, WriteEdge, States DEF Forward
    <2>4. /\ port[s].aw = IF AwAt(s) THEN <<aw_addr_q>> ELSE <<>>
          /\ port[s].w = IF WAt(s) THEN <<[data |-> w_data_q, strb |-> w_strb_q]>>
                         ELSE <<>>
          /\ port[s].ar = IF ArAt(s) THEN <<ar_addr_q>> ELSE <<>>
          /\ port'[s].aw = IF AwAt(s)' THEN <<aw_addr_q'>> ELSE <<>>
          /\ port'[s].w = IF WAt(s)'
                            THEN <<[data |-> w_data_q', strb |-> w_strb_q']>>
                            ELSE <<>>
          /\ port'[s].ar = IF ArAt(s)' THEN <<ar_addr_q'>> ELSE <<>>
      BY <1>1 DEF IInv, WritePorts, ReadPorts, Slaves
    <2>5. ASSUME M_AWVALID(s), port'[s].aw = port[s].aw
          PROVE  M_AWVALID(s)' /\ aw_addr_q' = aw_addr_q
      <3>1. ~AwAt(s)'
        BY <2>4, <2>5, States, BeatFacts DEF M_AWVALID, AwAt
      <3> QED
        BY <2>3, <2>5, <3>1 DEF M_AWVALID, AwAt
    <2>6. ASSUME M_WVALID(s), port'[s].w = port[s].w
          PROVE  M_WVALID(s)' /\ w_data_q' = w_data_q /\ w_strb_q' = w_strb_q
      <3>1. ~WAt(s)'
        BY <2>4, <2>6, States, BeatFacts DEF M_WVALID, WAt
      <3> QED
        BY <2>3, <2>6, <3>1 DEF M_WVALID, WAt
    <2>7. ASSUME M_ARVALID(s), port'[s].ar = port[s].ar
          PROVE  M_ARVALID(s)' /\ ar_addr_q' = ar_addr_q
      <3>1. ForwardRead(m)
        BY <1>1, <2>2, <2>7, ReadEdge DEF M_ARVALID
      <3>2. ~ArAt(s)'
        BY <2>4, <2>7, States, BeatFacts DEF M_ARVALID, ArAt
      <3> QED
        BY <2>7, <3>1, <3>2 DEF M_ARVALID, ArAt, ForwardRead
    <2> QED
      BY <2>5, <2>6, <2>7
  <1>2. IInv /\ IInv' /\ [Next]_vars =>
          [ \/ Reset
            \/ \A s \in Slaves :
                 /\ M_AWVALID(s) /\ port'[s].aw = port[s].aw =>
                      M_AWVALID(s)' /\ aw_addr_q' = aw_addr_q
                 /\ M_WVALID(s) /\ port'[s].w = port[s].w =>
                      M_WVALID(s)' /\ w_data_q' = w_data_q /\ w_strb_q' = w_strb_q
                 /\ M_ARVALID(s) /\ port'[s].ar = port[s].ar =>
                      M_ARVALID(s)' /\ ar_addr_q' = ar_addr_q
          ]_vars
    BY <1>1 DEF Next
  <1> QED
    BY <1>2, Invariance, PTL DEF Spec, SlavePortStable
=============================================================================
