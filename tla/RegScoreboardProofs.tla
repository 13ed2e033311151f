------------------------- MODULE RegScoreboardProofs ------------------------
(***************************************************************************)
(* Theorems about the scoreboard's register model: whatever the widths,    *)
(* the addresses and the beats, as long as reads and writes take turns it  *)
(* never accuses the slave; and whatever the traffic, never of its         *)
(* responses.                                                              *)
(***************************************************************************)
EXTENDS RegScoreboard, RegSlaveProofs

-----------------------------------------------------------------------------
(***************************************************************************)
(* The scoreboard decodes an address again; both decodes agree.            *)
(***************************************************************************)
LEMMA SbDecodeAgrees ==
  ASSUME NEW a \in Nat, NEW beat
  PROVE  /\ read_event(a) = ReadError(a)
         /\ write_event(a, beat) = WriteError(a, beat.strb)
         /\ reg_index(a) = Index(a)
         /\ \A e : exp_resp(e) = Resp(e)
  <1>1. /\ is_misaligned(a) <=> Misaligned(a)
        /\ is_implemented(a) <=> Implemented(a)
        /\ reg_index(a) = Index(a)
    BY SMT DEF is_misaligned, is_implemented, reg_index, Misaligned, Implemented,
               Index
  <1>2. read_event(a) = ReadError(a)
    BY <1>1 DEF read_event, ReadError
  <1>3. write_event(a, beat) = WriteError(a, beat.strb)
    BY <1>1 DEF write_event, WriteError, ReadError, MISALIGN, UNIMPL
  <1> QED
    BY <1>1, <1>2, <1>3 DEF exp_resp, Resp

(***************************************************************************)
(* The model, field by field: what one transaction does to it.             *)
(***************************************************************************)
Model == [ctrl_enable : BOOLEAN, config : Word, int_enable : Word,
          int_status : Word, scratch : Word, status_error : BOOLEAN,
          counter_zero : BOOLEAN]

\* The write of beat to a, with the error the slave would answer.
WriteOK(a, beat, r) == WriteError(a, beat.strb) = {} /\ Index(a) = r

(***************************************************************************)
(* An update of one field keeps the others.                                *)
(***************************************************************************)
LEMMA FieldUpdates ==
  ASSUME NEW s \in Model
  PROVE
    /\ \A v \in Word : LET u == [s EXCEPT !.config = v] IN
         /\ u \in Model /\ u.config = v
         /\ u.ctrl_enable = s.ctrl_enable /\ u.int_enable = s.int_enable
         /\ u.int_status = s.int_status /\ u.scratch = s.scratch
         /\ u.counter_zero = s.counter_zero
    /\ \A v \in Word : LET u == [s EXCEPT !.int_enable = v] IN
         /\ u \in Model /\ u.int_enable = v
         /\ u.ctrl_enable = s.ctrl_enable /\ u.config = s.config
         /\ u.int_status = s.int_status /\ u.scratch = s.scratch
         /\ u.counter_zero = s.counter_zero
    /\ \A v \in Word : LET u == [s EXCEPT !.scratch = v] IN
         /\ u \in Model /\ u.scratch = v
         /\ u.ctrl_enable = s.ctrl_enable /\ u.config = s.config
         /\ u.int_enable = s.int_enable /\ u.int_status = s.int_status
         /\ u.counter_zero = s.counter_zero
    /\ \A v \in Word : LET u == [s EXCEPT !.int_status = v] IN
         /\ u \in Model /\ u.int_status = v
         /\ u.ctrl_enable = s.ctrl_enable /\ u.config = s.config
         /\ u.int_enable = s.int_enable /\ u.scratch = s.scratch
         /\ u.counter_zero = s.counter_zero
    /\ \A v \in BOOLEAN : LET u == [s EXCEPT !.ctrl_enable = v] IN
         /\ u \in Model /\ u.ctrl_enable = v
         /\ u.config = s.config /\ u.int_enable = s.int_enable
         /\ u.int_status = s.int_status /\ u.scratch = s.scratch
         /\ u.counter_zero = s.counter_zero
  BY DEF Model

(***************************************************************************)
(* A write, whether or not it is an error, takes the software registers of *)
(* s to those of t.                                                        *)
(***************************************************************************)
Wrote(t, s, a, beat) ==
  /\ t.ctrl_enable <=> IF WriteOK(a, beat, R_CTRL)
                         THEN CTRL_ENABLE \in beat.data ELSE s.ctrl_enable
  /\ t.config = IF WriteOK(a, beat, R_CONFIG)
                  THEN beat.data \cap Bits(CONFIG_W) ELSE s.config
  /\ t.int_enable = IF WriteOK(a, beat, R_INT_ENABLE)
                      THEN beat.data \cap Bits(INT_W) ELSE s.int_enable
  /\ t.scratch = IF WriteOK(a, beat, R_SCRATCH) THEN beat.data ELSE s.scratch
  /\ t.int_status = IF WriteOK(a, beat, R_INT_STATUS)
                      THEN s.int_status \ beat.data
                      ELSE s.int_status \cup WriteError(a, beat.strb)

LEMMA ModelWriteFields ==
  ASSUME WidthAssumption, NEW s \in Model, NEW a \in Nat,
         NEW beat, beat.data \in Word
  PROVE  /\ model_write(s, a, beat) \in Model
         /\ Wrote(model_write(s, a, beat), s, a, beat)
         /\ model_write(s, a, beat).counter_zero = s.counter_zero
  <1> DEFINE t == model_write(s, a, beat)
             e == WriteError(a, beat.strb)
             i == Index(a)
             en == CTRL_ENABLE \in beat.data
             cfg == beat.data \cap Bits(CONFIG_W)
             ien == beat.data \cap Bits(INT_W)
             set == s.int_status \cup e
             clr == s.int_status \ beat.data
  <1>1. t = IF e # {} THEN [s EXCEPT !.int_status = set]
            ELSE IF i = R_CTRL THEN [s EXCEPT !.ctrl_enable = en]
            ELSE IF i = R_CONFIG THEN [s EXCEPT !.config = cfg]
            ELSE IF i = R_INT_ENABLE THEN [s EXCEPT !.int_enable = ien]
            ELSE IF i = R_SCRATCH THEN [s EXCEPT !.scratch = beat.data]
            ELSE IF i = R_INT_STATUS THEN [s EXCEPT !.int_status = clr]
            ELSE s
    BY SbDecodeAgrees, Zenon DEF model_write
  <1>2. cfg \in Word /\ ien \in Word /\ set \in Word /\ clr \in Word
    BY ErrorsAreEvents, WordFacts DEF Word, Model
  <1>3. en \in BOOLEAN
    OBVIOUS
  <1>4. \A r : WriteOK(a, beat, r) <=> e = {} /\ i = r
    BY DEF WriteOK
  <1>5. /\ R_CTRL = 0 /\ R_CONFIG = 2 /\ R_INT_ENABLE = 3
        /\ R_INT_STATUS = 4 /\ R_SCRATCH = 5
    BY DEF R_CTRL, R_CONFIG, R_INT_ENABLE, R_INT_STATUS, R_SCRATCH
  <1>6. e = {} => set = s.int_status
    OBVIOUS
  <1>7. en <=> CTRL_ENABLE \in beat.data
    OBVIOUS
  <1> SUFFICES
        /\ t \in Model
        /\ t.ctrl_enable <=> IF e = {} /\ i = R_CTRL THEN en ELSE s.ctrl_enable
        /\ t.config = IF e = {} /\ i = R_CONFIG THEN cfg ELSE s.config
        /\ t.int_enable = IF e = {} /\ i = R_INT_ENABLE THEN ien ELSE s.int_enable
        /\ t.scratch = IF e = {} /\ i = R_SCRATCH THEN beat.data ELSE s.scratch
        /\ t.int_status = IF e = {} /\ i = R_INT_STATUS THEN clr ELSE set
        /\ t.counter_zero = s.counter_zero
    BY <1>4, <1>7, Zenon DEF Wrote
  <1> HIDE DEF t, e, i, en, cfg, ien, set, clr
  <1>8. CASE e # {}
    BY <1>1, <1>2, <1>8, FieldUpdates
  <1>9. CASE e = {} /\ i = R_CTRL
    <2>1. t = [s EXCEPT !.ctrl_enable = en]
      BY <1>1, <1>9, Zenon
    <2> QED
      BY <1>3, <1>5, <1>6, <1>9, <2>1, FieldUpdates
  <1>10. CASE e = {} /\ i = R_CONFIG
    BY <1>1, <1>2, <1>5, <1>6, <1>10, FieldUpdates
  <1>11. CASE e = {} /\ i = R_INT_ENABLE
    BY <1>1, <1>2, <1>5, <1>6, <1>11, FieldUpdates
  <1>12. CASE e = {} /\ i = R_SCRATCH
    BY <1>1, <1>2, <1>5, <1>6, <1>12, FieldUpdates
  <1>13. CASE e = {} /\ i = R_INT_STATUS
    BY <1>1, <1>2, <1>5, <1>6, <1>13, FieldUpdates
  <1>14. CASE e = {} /\ i \notin {R_CTRL, R_CONFIG, R_INT_ENABLE, R_SCRATCH,
                                  R_INT_STATUS}
    <2>1. t = s
      BY <1>1, <1>14
    <2> QED
      BY <1>6, <1>14, <2>1
  <1> QED
    BY <1>8, <1>9, <1>10, <1>11, <1>12, <1>13, <1>14

LEMMA CheckWriteFields ==
  ASSUME WidthAssumption, NEW s \in Model, NEW a \in Nat,
         NEW beat, beat.data \in Word
  PROVE  LET t == check_write(s, a, beat) IN
         /\ t \in Model
         /\ Wrote(t, s, a, beat)
         /\ t.status_error <=> WriteError(a, beat.strb) # {}
         /\ t.counter_zero <=>
              IF WriteOK(a, beat, R_CTRL)
                THEN /\ CTRL_ENABLE \notin beat.data
                     /\ s.counter_zero \/ CTRL_RESET_STATS \in beat.data
                ELSE s.counter_zero
  <1> DEFINE n == model_write(s, a, beat)
             t == check_write(s, a, beat)
             z == CounterZero(s.counter_zero, a, beat)
             x == WriteError(a, beat.strb) # {}
  <1>1. n \in Model /\ Wrote(n, s, a, beat) /\ n.counter_zero = s.counter_zero
    BY ModelWriteFields
  <1>2. t = [n EXCEPT !.status_error = x, !.counter_zero = z]
    BY <1>1, SbDecodeAgrees, Zenon DEF check_write
  <1>3. /\ z \in BOOLEAN
        /\ z <=> IF WriteOK(a, beat, R_CTRL)
                   THEN /\ CTRL_ENABLE \notin beat.data
                        /\ s.counter_zero \/ CTRL_RESET_STATS \in beat.data
                   ELSE s.counter_zero
    BY SbDecodeAgrees DEF CounterZero, Model, WriteOK
  <1>4. x \in BOOLEAN
    OBVIOUS
  <1>5. /\ t \in Model /\ t.status_error = x /\ t.counter_zero = z
        /\ t.ctrl_enable = n.ctrl_enable /\ t.config = n.config
        /\ t.int_enable = n.int_enable /\ t.int_status = n.int_status
        /\ t.scratch = n.scratch
    <2> HIDE DEF n, t, x, z
    <2> QED
      BY <1>1, <1>2, <1>3, <1>4 DEF Model
  <1>6. Wrote(t, s, a, beat)
    <2> HIDE DEF n, t
    <2> QED
      BY <1>1, <1>5, Zenon DEF Wrote
  <1>7. x <=> WriteError(a, beat.strb) # {}
    OBVIOUS
  <1> HIDE DEF n, t, x, z
  <1>8. /\ t.status_error <=> WriteError(a, beat.strb) # {}
        /\ t.counter_zero <=>
             IF WriteOK(a, beat, R_CTRL)
               THEN /\ CTRL_ENABLE \notin beat.data
                    /\ s.counter_zero \/ CTRL_RESET_STATS \in beat.data
               ELSE s.counter_zero
    BY <1>3, <1>5, <1>7, Zenon
  <1> QED
    BY <1>5, <1>6, <1>8 DEF t

LEMMA CheckReadFields ==
  ASSUME WidthAssumption, NEW s \in Model, NEW a \in Nat
  PROVE  LET t == check_read(s, a) IN
         /\ t \in Model
         /\ t.ctrl_enable = s.ctrl_enable /\ t.config = s.config
         /\ t.int_enable = s.int_enable /\ t.scratch = s.scratch
         /\ t.int_status = s.int_status \cup ReadError(a)
         /\ t.status_error <=> IF ReadError(a) = {} /\ Index(a) = R_STATUS
                                 THEN s.status_error
                                 ELSE ReadError(a) # {}
         /\ t.counter_zero = s.counter_zero
  <1> DEFINE t == check_read(s, a)
             v == s.int_status \cup ReadError(a)
             x == ReadError(a) # {}
             n == [s EXCEPT !.int_status = v]
  <1>1. is_status_read(a) <=> ReadError(a) = {} /\ Index(a) = R_STATUS
    BY SbDecodeAgrees DEF is_status_read
  <1>2. t = IF is_status_read(a) THEN s ELSE [n EXCEPT !.status_error = x]
    BY SbDecodeAgrees, Zenon DEF check_read, model_read
  <1>3. v \in Word
    BY ErrorsAreEvents, WordFacts DEF Word, Model
  <1>4. x \in BOOLEAN
    OBVIOUS
  <1>5. ReadError(a) = {} => v = s.int_status
    OBVIOUS
  <1>6. x <=> ReadError(a) # {}
    OBVIOUS
  <1>7. v = s.int_status \cup ReadError(a)
    OBVIOUS
  <1> HIDE DEF t, v, x
  <1>8. /\ t \in Model
        /\ t.ctrl_enable = s.ctrl_enable /\ t.config = s.config
        /\ t.int_enable = s.int_enable /\ t.scratch = s.scratch
        /\ t.int_status = s.int_status \cup ReadError(a)
        /\ t.status_error <=> IF ReadError(a) = {} /\ Index(a) = R_STATUS
                                THEN s.status_error
                                ELSE ReadError(a) # {}
        /\ t.counter_zero = s.counter_zero
    <2>1. CASE is_status_read(a)
      BY <1>1, <1>2, <1>5, <1>7, <2>1
    <2>2. CASE ~is_status_read(a)
      <3>1. t = [n EXCEPT !.status_error = x]
        BY <1>2, <2>2, Zenon
      <3>2. /\ n \in Model /\ n.int_status = v
            /\ n.ctrl_enable = s.ctrl_enable /\ n.config = s.config
            /\ n.int_enable = s.int_enable /\ n.scratch = s.scratch
            /\ n.counter_zero = s.counter_zero
        BY <1>3, FieldUpdates
      <3> HIDE DEF n
      <3>3. /\ t \in Model /\ t.status_error = x /\ t.int_status = n.int_status
            /\ t.ctrl_enable = n.ctrl_enable /\ t.config = n.config
            /\ t.int_enable = n.int_enable /\ t.scratch = n.scratch
            /\ t.counter_zero = n.counter_zero
        BY <1>4, <3>1, <3>2 DEF Model
      <3> QED
        BY <1>1, <1>6, <1>7, <2>2, <3>2, <3>3
    <2> QED
      BY <2>1, <2>2
  <1> QED
    BY <1>8, Zenon DEF t

-----------------------------------------------------------------------------
(***************************************************************************)
(* A model state agrees with the register bank, before an edge and after.  *)
(***************************************************************************)
Agrees(s) ==
  /\ s.ctrl_enable <=> ctrl_enable
  /\ s.config = config_q /\ s.int_enable = int_enable_q
  /\ s.scratch = scratch_q
  /\ s.int_status = int_status_q \ {OVERFLOW}
  /\ s.status_error <=> status_error
  /\ s.counter_zero => counter_q = {} /\ ~ctrl_enable

AgreesAfter(s) ==
  /\ s.ctrl_enable <=> ctrl_enable'
  /\ s.config = config_q' /\ s.int_enable = int_enable_q'
  /\ s.scratch = scratch_q'
  /\ s.int_status = int_status_q' \ {OVERFLOW}
  /\ s.status_error <=> status_error'
  /\ s.counter_zero => counter_q' = {} /\ ~ctrl_enable'

\* The write the slave commits on an edge, as the beat the scoreboard replays.
Beat(w) == [data |-> wr_data(w), strb |-> wr_strb(w)]

LEMMA CommitPayload ==
  ASSUME BusAssumption, IInv, NEW aw, NEW w,
         aw \in Beats(Addrs), w \in Beats(WBeats), do_write(aw, w)
  PROVE  /\ wr_addr(aw) \in Nat
         /\ Beat(w).data = wr_data(w) /\ Beat(w).strb = wr_strb(w)
         /\ wr_data(w) \in Word
  BY PayloadType DEF do_write, wr_addr, wr_data, Beat, aw_hs, w_hs, IInv, TypeOK,
     SlaveTypeOK

\* What the edge does to the bank, in the model's terms.
LEMMA BankEdge ==
  ASSUME NEW aw, NEW w, NEW bready, NEW ar, NEW rready,
         BusClock(aw, w, bready, ar, rready)
  PROVE  /\ ctrl_enable' = IF writes(aw, w, R_CTRL)
                             THEN CTRL_ENABLE \in wr_data(w) ELSE ctrl_enable
         /\ config_q' = IF writes(aw, w, R_CONFIG)
                          THEN wr_data(w) \cap Bits(CONFIG_W) ELSE config_q
         /\ int_enable_q' = IF writes(aw, w, R_INT_ENABLE)
                              THEN wr_data(w) \cap Bits(INT_W) ELSE int_enable_q
         /\ scratch_q' = IF writes(aw, w, R_SCRATCH) THEN wr_data(w)
                         ELSE scratch_q
         /\ counter_q' = IF reset_stats_pulse(aw, w) THEN {}
                         ELSE IF ctrl_enable THEN Increment(counter_q)
                         ELSE counter_q
         /\ int_status_q' \ {OVERFLOW} =
              ((int_status_q \ (IF w1c_write(aw, w) THEN wr_data(w) ELSE {}))
                 \cup (IF do_write(aw, w) THEN wr_error(aw, w) ELSE {})
                 \cup (IF ar_hs(ar) THEN ReadError(Head(ar)) ELSE {}))
                \ {OVERFLOW}
         /\ StatusError(aw, w, ar)
  <1>1. RegisterBank(aw, w) /\ Counter(aw, w) /\ StatusError(aw, w, ar)
    BY DEF BusClock, SlaveClock
  <1>2. int_status_q' =
          (int_status_q \ (IF w1c_write(aw, w) THEN wr_data(w) ELSE {}))
            \cup int_set(aw, w, ar)
    BY DEF BusClock, SlaveClock, IntStatus
  <1>3. int_set(aw, w, ar) \ {OVERFLOW} =
          ((IF do_write(aw, w) THEN wr_error(aw, w) ELSE {})
             \cup (IF ar_hs(ar) THEN ReadError(Head(ar)) ELSE {})) \ {OVERFLOW}
    BY DEF int_set
  <1>4. int_status_q' \ {OVERFLOW} =
          ((int_status_q \ (IF w1c_write(aw, w) THEN wr_data(w) ELSE {}))
             \cup (IF do_write(aw, w) THEN wr_error(aw, w) ELSE {})
             \cup (IF ar_hs(ar) THEN ReadError(Head(ar)) ELSE {}))
            \ {OVERFLOW}
    BY <1>2, <1>3
  <1> QED
    BY <1>1, <1>4 DEF RegisterBank, Counter

(***************************************************************************)
(* A committed write moves bank and model alike.                           *)
(***************************************************************************)
LEMMA WriteAgrees ==
  ASSUME WidthAssumption, BusAssumption, IInv,
         NEW aw, NEW w, NEW bready, NEW ar, NEW rready,
         Inputs(aw, w, bready, ar, rready),
         BusClock(aw, w, bready, ar, rready),
         do_write(aw, w), ~ar_hs(ar),
         NEW s \in Model, Agrees(s)
  PROVE  LET t == check_write(s, wr_addr(aw), Beat(w)) IN
         t \in Model /\ AgreesAfter(t)
  <1> DEFINE t == check_write(s, wr_addr(aw), Beat(w))
             a == wr_addr(aw)
             d == wr_data(w)
             e == wr_error(aw, w)
             wr(r) == writes(aw, w, r)
  <1>1. /\ a \in Nat /\ Beat(w).data = d /\ Beat(w).strb = wr_strb(w)
        /\ d \in Word
    BY CommitPayload DEF Inputs
  <1>2. \A r : WriteOK(a, Beat(w), r) <=> wr(r)
    BY <1>1 DEF WriteOK, writes, reg_write, wr_error
  <1>3. WriteError(a, Beat(w).strb) = e
    BY <1>1 DEF wr_error
  <1>4. /\ t \in Model
        /\ t.ctrl_enable <=> IF wr(R_CTRL) THEN CTRL_ENABLE \in d
                             ELSE s.ctrl_enable
        /\ t.config = IF wr(R_CONFIG) THEN d \cap Bits(CONFIG_W) ELSE s.config
        /\ t.int_enable = IF wr(R_INT_ENABLE) THEN d \cap Bits(INT_W)
                          ELSE s.int_enable
        /\ t.scratch = IF wr(R_SCRATCH) THEN d ELSE s.scratch
        /\ t.int_status = IF wr(R_INT_STATUS) THEN s.int_status \ d
                          ELSE s.int_status \cup e
        /\ t.status_error <=> e # {}
        /\ t.counter_zero <=>
             IF wr(R_CTRL)
               THEN /\ CTRL_ENABLE \notin d
                    /\ s.counter_zero \/ CTRL_RESET_STATS \in d
               ELSE s.counter_zero
    <2>1. /\ t \in Model /\ Wrote(t, s, a, Beat(w))
          /\ t.status_error <=> WriteError(a, Beat(w).strb) # {}
          /\ t.counter_zero <=>
               IF WriteOK(a, Beat(w), R_CTRL)
                 THEN /\ CTRL_ENABLE \notin Beat(w).data
                      /\ s.counter_zero \/ CTRL_RESET_STATS \in Beat(w).data
                 ELSE s.counter_zero
      BY <1>1, CheckWriteFields, Zenon
    <2> HIDE DEF t, a, d, e, wr
    <2>2. /\ WriteOK(a, Beat(w), R_CTRL) <=> wr(R_CTRL)
          /\ WriteOK(a, Beat(w), R_CONFIG) <=> wr(R_CONFIG)
          /\ WriteOK(a, Beat(w), R_INT_ENABLE) <=> wr(R_INT_ENABLE)
          /\ WriteOK(a, Beat(w), R_SCRATCH) <=> wr(R_SCRATCH)
          /\ WriteOK(a, Beat(w), R_INT_STATUS) <=> wr(R_INT_STATUS)
      BY <1>2, Zenon
    <2>3. /\ t.ctrl_enable <=> IF wr(R_CTRL) THEN CTRL_ENABLE \in d
                               ELSE s.ctrl_enable
          /\ t.status_error <=> e # {}
          /\ t.counter_zero <=>
               IF wr(R_CTRL)
                 THEN /\ CTRL_ENABLE \notin d
                      /\ s.counter_zero \/ CTRL_RESET_STATS \in d
                 ELSE s.counter_zero
      BY <1>1, <1>3, <2>1, <2>2, Zenon DEF Wrote
    <2>4. /\ t.config = IF wr(R_CONFIG) THEN d \cap Bits(CONFIG_W) ELSE s.config
          /\ t.int_enable = IF wr(R_INT_ENABLE) THEN d \cap Bits(INT_W)
                            ELSE s.int_enable
          /\ t.scratch = IF wr(R_SCRATCH) THEN d ELSE s.scratch
          /\ t.int_status = IF wr(R_INT_STATUS) THEN s.int_status \ d
                            ELSE s.int_status \cup e
      BY <1>1, <1>3, <2>1, <2>2 DEF Wrote
    <2> QED
      BY <2>1, <2>3, <2>4
  <1>5. /\ reset_stats_pulse(aw, w) <=> wr(R_CTRL) /\ CTRL_RESET_STATS \in d
        /\ w1c_write(aw, w) <=> wr(R_INT_STATUS)
        /\ \A r : wr(r) => e = {}
    BY DEF reset_stats_pulse, w1c_write, writes, reg_write
  <1>6. OVERFLOW \notin e
    BY NoOverflowEvent DEF wr_error
  <1> HIDE DEF t, a, d, e, wr
  <1>7. /\ ctrl_enable' = IF wr(R_CTRL) THEN CTRL_ENABLE \in d ELSE ctrl_enable
        /\ config_q' = IF wr(R_CONFIG) THEN d \cap Bits(CONFIG_W) ELSE config_q
        /\ int_enable_q' = IF wr(R_INT_ENABLE) THEN d \cap Bits(INT_W)
                           ELSE int_enable_q
        /\ scratch_q' = IF wr(R_SCRATCH) THEN d ELSE scratch_q
        /\ counter_q' = IF wr(R_CTRL) /\ CTRL_RESET_STATS \in d THEN {}
                        ELSE IF ctrl_enable THEN Increment(counter_q)
                        ELSE counter_q
    BY <1>5, BankEdge DEF wr, d
  <1>8. t.ctrl_enable <=> ctrl_enable'
    BY <1>4, <1>7, Zenon DEF Agrees
  <1>9. /\ t.config = config_q' /\ t.int_enable = int_enable_q'
        /\ t.scratch = scratch_q'
    BY <1>4, <1>7 DEF Agrees
  <1>10. t.int_status = int_status_q' \ {OVERFLOW}
    <2>1. int_status_q' \ {OVERFLOW} =
            ((int_status_q \ (IF wr(R_INT_STATUS) THEN d ELSE {})) \cup e)
              \ {OVERFLOW}
      BY <1>5, BankEdge DEF wr, d, e
    <2>2. wr(R_INT_STATUS) => e = {}
      BY <1>5
    <2> QED
      BY <1>4, <1>6, <2>1, <2>2 DEF Agrees
  <1>11. t.status_error <=> status_error'
    BY <1>4, BankEdge DEF StatusError, e
  <1>12. t.counter_zero => counter_q' = {} /\ ~ctrl_enable'
    BY <1>4, <1>7 DEF Agrees
  <1>13. t \in Model /\ AgreesAfter(t)
    BY <1>4, <1>8, <1>9, <1>10, <1>11, <1>12 DEF AgreesAfter
  <1> QED
    BY <1>13, Zenon DEF t

(***************************************************************************)
(* So does an accepted read, and an edge with neither leaves both alone    *)
(* but for COUNTER and its overflow.                                       *)
(***************************************************************************)
LEMMA BankKept ==
  ASSUME NEW aw, NEW w, NEW bready, NEW ar, NEW rready,
         BusClock(aw, w, bready, ar, rready), ~do_write(aw, w),
         NEW s \in Model, Agrees(s)
  PROVE  /\ s.ctrl_enable <=> ctrl_enable'
         /\ s.config = config_q' /\ s.int_enable = int_enable_q'
         /\ s.scratch = scratch_q'
         /\ s.counter_zero => counter_q' = {} /\ ~ctrl_enable'
         /\ int_status_q' \ {OVERFLOW} =
              s.int_status \cup (IF ar_hs(ar) THEN ReadError(Head(ar)) ELSE {})
  <1>1. /\ \A r : ~writes(aw, w, r)
        /\ ~reset_stats_pulse(aw, w) /\ ~w1c_write(aw, w)
    BY DEF writes, reg_write, reset_stats_pulse, w1c_write
  <1>2. ctrl_enable' = ctrl_enable
    BY <1>1, BankEdge, Zenon
  <1>3. /\ config_q' = config_q /\ int_enable_q' = int_enable_q
        /\ scratch_q' = scratch_q
        /\ counter_q' = IF ctrl_enable THEN Increment(counter_q) ELSE counter_q
    BY <1>1, BankEdge
  <1>4. int_status_q' \ {OVERFLOW} =
          (int_status_q \cup (IF ar_hs(ar) THEN ReadError(Head(ar)) ELSE {}))
            \ {OVERFLOW}
    BY <1>1, BankEdge
  <1>5. int_status_q' \ {OVERFLOW} =
          s.int_status \cup (IF ar_hs(ar) THEN ReadError(Head(ar)) ELSE {})
    <2>1. OVERFLOW \notin (IF ar_hs(ar) THEN ReadError(Head(ar)) ELSE {})
      BY NoOverflowEvent
    <2> QED
      BY <1>4, <2>1 DEF Agrees
  <1> QED
    BY <1>2, <1>3, <1>5 DEF Agrees

LEMMA ReadAgrees ==
  ASSUME WidthAssumption, BusAssumption, IInv,
         NEW aw, NEW w, NEW bready, NEW ar, NEW rready,
         Inputs(aw, w, bready, ar, rready),
         BusClock(aw, w, bready, ar, rready),
         ~do_write(aw, w), ar_hs(ar),
         NEW s \in Model, Agrees(s)
  PROVE  LET t == check_read(s, Head(ar)) IN
         t \in Model /\ AgreesAfter(t)
  <1> DEFINE t == check_read(s, Head(ar))
             a == Head(ar)
  <1>1. a \in Nat
    BY PayloadType DEF Inputs, ar_hs
  <1>2. /\ t \in Model
        /\ t.ctrl_enable = s.ctrl_enable /\ t.config = s.config
        /\ t.int_enable = s.int_enable /\ t.scratch = s.scratch
        /\ t.int_status = s.int_status \cup ReadError(a)
        /\ t.status_error <=> IF ReadError(a) = {} /\ Index(a) = R_STATUS
                                THEN s.status_error
                                ELSE ReadError(a) # {}
        /\ t.counter_zero = s.counter_zero
    BY <1>1, CheckReadFields, Zenon
  <1> HIDE DEF t
  <1>3. status_error' = IF ReadError(a) = {} /\ Index(a) = R_STATUS
                          THEN status_error ELSE ReadError(a) # {}
    BY BankEdge, Zenon DEF StatusError
  <1>4. t.status_error <=> status_error'
    BY <1>2, <1>3, Zenon DEF Agrees
  <1>5. t \in Model /\ AgreesAfter(t)
    BY <1>2, <1>4, BankKept DEF AgreesAfter
  <1> QED
    BY <1>5, Zenon DEF t

LEMMA IdleAgrees ==
  ASSUME NEW aw, NEW w, NEW bready, NEW ar, NEW rready,
         BusClock(aw, w, bready, ar, rready),
         ~do_write(aw, w), ~ar_hs(ar),
         NEW s \in Model, Agrees(s)
  PROVE  AgreesAfter(s)
  <1>1. status_error' = status_error
    BY BankEdge, Zenon DEF StatusError
  <1> QED
    BY <1>1, BankKept DEF Agrees, AgreesAfter

-----------------------------------------------------------------------------
(***************************************************************************)
(* Responses.  Whatever the traffic, the code a published transaction      *)
(* returned is the one the scoreboard decodes from its beats.              *)
(***************************************************************************)
PendingWrite == [data |-> wdata_q, strb |-> wstrb_q]

LEMMA PublishedWrite ==
  ASSUME IInv, bvalid_q
  PROVE  /\ Head(awq) = awaddr_q /\ Head(wq) = PendingWrite
         /\ awq # <<>> /\ awaddr_q \in Nat /\ PendingWrite.data \in Word
         /\ PendingWrite.strb = wstrb_q
         /\ bresp_q = SLVERR <=> WriteError(awaddr_q, wstrb_q) # {}
         /\ WriteMismatch = {}
  <1>1. Head(awq) = awaddr_q /\ Head(wq) = PendingWrite /\ awq # <<>>
    BY BeatFacts DEF IInv, LatchesHoldAccepted, PendingWrite
  <1>2. /\ awaddr_q \in Nat /\ PendingWrite.data \in Word
        /\ PendingWrite.strb = wstrb_q
    BY DEF IInv, TypeOK, SlaveTypeOK, PendingWrite
  <1>3. bresp_q = Resp(WriteError(awaddr_q, wstrb_q))
    BY DEF IInv, LatchesHoldAccepted
  <1>4. bresp_q = exp_resp(write_event(awaddr_q, PendingWrite))
    BY <1>2, <1>3, SbDecodeAgrees
  <1> QED
    BY <1>1, <1>2, <1>3, <1>4 DEF WriteMismatch, Resp, OKAY, SLVERR

LEMMA PublishedRead ==
  ASSUME BusAssumption, IInv, rvalid_q
  PROVE  /\ arq # <<>> /\ Head(arq).addr \in Nat
         /\ rresp_q = SLVERR <=> ReadError(Head(arq).addr) # {}
         /\ rresp_q = exp_resp(read_event(Head(arq).addr))
  <1>1. arq # <<>> /\ rresp_q = Resp(ReadError(Head(arq).addr))
    BY DEF IInv, ReadResponseEarned, RError
  <1>2. Head(arq).addr \in Nat
    <2>1. PICK x \in ArBeats : arq = <<x>>
      BY <1>1 DEF IInv, TypeOK, BusTypeOK, Beats
    <2> QED
      BY <2>1, BeatFacts DEF ArBeats, BusAssumption
  <1> QED
    BY <1>1, <1>2, SbDecodeAgrees DEF Resp, OKAY, SLVERR

-----------------------------------------------------------------------------
(***************************************************************************)
(* The traffic of the sequences: reads and writes take turns, so at most   *)
(* one response is pending.  The model lags the bank by that transaction:  *)
(* with it applied, model and bank agree, but for the overflow bit and a   *)
(* COUNTER the model does not claim to be zero.                            *)
(***************************************************************************)
Applied ==
  IF bvalid_q THEN check_write(m, awaddr_q, PendingWrite)
  ELSE IF rvalid_q THEN check_read(m, Head(arq).addr)
  ELSE m

NoOverlap == arq # <<>> => awq = <<>> /\ wq = <<>>

ReadIsPredicted == rvalid_q => DataAgrees(m, read_beat, rdata_q)

SInv ==
  /\ IInv /\ m \in Model /\ Agrees(Applied) /\ NoOverlap /\ ReadIsPredicted
  /\ m.status_error <=> last_error
  /\ mismatch = {}

\* Primed, these operators are themselves of the primed flops.
LEMMA AppliedNext ==
  Applied' = IF bvalid_q' THEN check_write(m', awaddr_q', PendingWrite')
             ELSE IF rvalid_q' THEN check_read(m', Head(arq').addr)
             ELSE m'
  BY DEF Applied, check_write, check_read, model_write, model_read,
     write_event, read_event, is_misaligned, is_implemented, reg_index,
     CounterZero, is_status_read, Bits, Lanes

LEMMA PredictedNext ==
  (rvalid_q' => DataAgrees(m', read_beat', rdata_q')) => ReadIsPredicted'
  BY Zenon DEF ReadIsPredicted, DataAgrees, is_status_read, read_event,
     is_misaligned, is_implemented, reg_index, plain_data, Word, Bits

LEMMA AgreesNext ==
  ASSUME AgreesAfter(Applied')
  PROVE  Agrees(Applied)'
  BY DEF Agrees, AgreesAfter

\* The state of an edge that the lemmas below speak of.
SerialEdge(aw, w, bready, ar, rready) ==
  /\ Inputs(aw, w, bready, ar, rready) /\ OneKind(aw, w, ar)
  /\ Observed(aw, w, bready, ar, rready)

\* Reads and writes take turns.
LEMMA TurnsTaken ==
  ASSUME SInv, NEW aw, NEW w, NEW bready, NEW ar, NEW rready,
         SerialEdge(aw, w, bready, ar, rready)
  PROVE  /\ bvalid_q => ~rvalid_q
         /\ ar_hs(ar) => ~rvalid_q /\ ~bvalid_q /\ ~do_write(aw, w) /\ ~busy
         /\ do_write(aw, w) => ~bvalid_q /\ ~rvalid_q /\ ~ar_hs(ar)
         /\ rvalid_q \/ ar_hs(ar) =>
              aw = <<>> /\ w = <<>> /\ awq = <<>> /\ wq = <<>>
  <1>1. rvalid_q <=> arq # <<>>
    BY DEF SInv, IInv, ReadResponseEarned
  <1>2. bvalid_q \/ aw_captured => awq # <<>>
    BY BeatFacts DEF SInv, IInv, LatchesHoldAccepted
  <1>3. busy <=> (awq # <<>> \/ wq # <<>>)
    BY BusyIsOverlap DEF SInv, IInv
  <1>4. rvalid_q \/ ar_hs(ar) =>
          aw = <<>> /\ w = <<>> /\ awq = <<>> /\ wq = <<>>
    BY <1>1 DEF SerialEdge, OneKind, ar_hs
  <1> QED
    BY <1>2, <1>3, <1>4 DEF do_write, aw_hs, ar_hs, ARREADY

\* What the edge publishes.
LEMMA PublishFacts ==
  ASSUME BusAssumption, SInv, NEW aw, NEW w, NEW bready, NEW ar, NEW rready,
         SerialEdge(aw, w, bready, ar, rready)
  PROVE  /\ m' = IF (bvalid_q /\ bready) \/ (rvalid_q /\ rready) THEN Applied ELSE m
         /\ mismatch' = {}
  <1>1. PICK writeFirst \in BOOLEAN :
          LET after_w == IF bvalid_q /\ bready
                           THEN check_write(m, Head(awq), Head(wq)) ELSE m
              after_r == IF rvalid_q /\ rready
                           THEN check_read(m, Head(arq).addr) ELSE m
          IN /\ m' = IF writeFirst
                       THEN IF rvalid_q /\ rready
                              THEN check_read(after_w, Head(arq).addr)
                              ELSE after_w
                       ELSE IF bvalid_q /\ bready
                              THEN check_write(after_r, Head(awq), Head(wq))
                              ELSE after_r
             /\ mismatch' = mismatch
                  \cup (IF bvalid_q /\ bready THEN WriteMismatch ELSE {})
                  \cup (IF rvalid_q /\ rready
                          THEN ReadMismatch(IF writeFirst THEN after_w ELSE m)
                          ELSE {})
    BY Zenon DEF SerialEdge, Observed, Publish
  <1>2. bvalid_q => ~rvalid_q
    BY TurnsTaken
  <1>3. bvalid_q => /\ check_write(m, Head(awq), Head(wq)) = Applied
                    /\ WriteMismatch = {}
    BY PublishedWrite DEF Applied, SInv
  <1>4. rvalid_q => check_read(m, Head(arq).addr) = Applied
    BY <1>2 DEF Applied
  <1>5. rvalid_q => ReadMismatch(m) = {}
    BY PublishedRead DEF SInv, ReadIsPredicted, ReadMismatch
  <1>6. m' = IF (bvalid_q /\ bready) \/ (rvalid_q /\ rready) THEN Applied ELSE m
    BY <1>1, <1>2, <1>3, <1>4
  <1>7. mismatch' = {}
    BY <1>1, <1>2, <1>3, <1>5 DEF SInv
  <1> QED
    BY <1>6, <1>7

\* Whatever the order of the monitor's threads, it has no write to mark.
LEMMA NotMarked ==
  ASSUME awq = <<>>, wq = <<>>, ~bvalid_q, NEW aw, NEW w, NEW bready, NEW ar,
         aw = <<>>, w = <<>>, ar_hs(ar), ar_watch(aw, w, bready, ar)
  PROVE  overlapped' = FALSE
  <1>1. <<>> \o <<>> = <<>>
    BY BeatFacts
  <1>2. PICK b_ran, aw_ran, w_ran \in BOOLEAN :
          overlapped' =
            (\/ Track(awq, b_ran /\ bvalid_q /\ bready,
                      Accepted(aw, aw_ran /\ aw_hs(aw))) # <<>>
             \/ Track(wq, b_ran /\ bvalid_q /\ bready,
                      Accepted(w, w_ran /\ w_hs(w))) # <<>>)
    BY Zenon DEF ar_watch
  <1>3. /\ Track(awq, b_ran /\ bvalid_q /\ bready,
                 Accepted(aw, aw_ran /\ aw_hs(aw))) = <<>>
        /\ Track(wq, b_ran /\ bvalid_q /\ bready,
                 Accepted(w, w_ran /\ w_hs(w))) = <<>>
    BY <1>1 DEF Track, Accepted
  <1> QED
    BY <1>2, <1>3, Zenon

\* The flops of the two channels.
LEMMA ChannelEdge ==
  ASSUME BusAssumption, SInv, NEW aw, NEW w, NEW bready, NEW ar, NEW rready,
         SerialEdge(aw, w, bready, ar, rready)
  PROVE  /\ bvalid_q' <=> do_write(aw, w) \/ (bvalid_q /\ ~bready)
         /\ rvalid_q' <=> ar_hs(ar) \/ (rvalid_q /\ ~rready)
         /\ do_write(aw, w) =>
              awaddr_q' = wr_addr(aw) /\ PendingWrite' = Beat(w)
         /\ bvalid_q => awaddr_q' = awaddr_q /\ PendingWrite' = PendingWrite
         /\ ar_hs(ar) =>
              /\ Head(arq') = [addr |-> Head(ar), writing |-> FALSE]
              /\ read_beat' = [addr |-> Head(ar), overlapped |-> FALSE]
         /\ rvalid_q /\ ~rready =>
              arq' = arq /\ read_beat' = read_beat /\ rdata_q' = rdata_q
         /\ ar_hs(ar) => rdata_q' = IF ReadError(Head(ar)) # {} THEN {}
                                    ELSE rd_mux(Index(Head(ar)))
  <1>1. /\ awaddr_q' = IF aw_hs(aw) THEN Head(aw) ELSE awaddr_q
        /\ wdata_q' = IF w_hs(w) THEN Head(w).data ELSE wdata_q
        /\ wstrb_q' = IF w_hs(w) THEN Head(w).strb ELSE wstrb_q
        /\ bvalid_q' = (do_write(aw, w) \/ (bvalid_q /\ ~bready))
        /\ rvalid_q' = (ar_hs(ar) \/ (rvalid_q /\ ~rready))
        /\ rdata_q'  = IF ~ar_hs(ar) THEN rdata_q
                       ELSE IF ReadError(Head(ar)) # {} THEN {}
                       ELSE rd_mux(Index(Head(ar)))
        /\ arq' = Track(arq, rvalid_q /\ rready, ReadBeat(ar, ar_hs(ar)))
        /\ ar_watch(aw, w, bready, ar)
    BY DEF SerialEdge, Observed, BusClock, Observe, SlaveClock, WriteChannel,
           ReadChannel
  <1>2. do_write(aw, w) => awaddr_q' = wr_addr(aw) /\ PendingWrite' = Beat(w)
    BY <1>1 DEF do_write, wr_addr, wr_data, wr_strb, Beat, PendingWrite, aw_hs,
       w_hs, AWREADY, WREADY
  <1>3. bvalid_q => awaddr_q' = awaddr_q /\ PendingWrite' = PendingWrite
    BY <1>1 DEF PendingWrite, aw_hs, w_hs, AWREADY, WREADY
  <1>4. ASSUME ar_hs(ar)
        PROVE  /\ Head(arq') = [addr |-> Head(ar), writing |-> FALSE]
               /\ read_beat' = [addr |-> Head(ar), overlapped |-> FALSE]
    <2>1. arq = <<>> /\ awq = <<>> /\ wq = <<>> /\ ~rvalid_q
      BY <1>4, TurnsTaken DEF SInv, IInv, ReadResponseEarned
    <2>2. arq' = <<[addr |-> Head(ar), writing |-> FALSE]>>
      BY <1>1, <1>4, <2>1, BeatFacts DEF Track, ReadBeat
    <2>3. aw = <<>> /\ w = <<>> /\ ~bvalid_q
      BY <1>4, TurnsTaken
    <2>4. overlapped' = FALSE
      BY <1>1, <1>4, <2>1, <2>3, NotMarked
    <2>5. Head(arq') = [addr |-> Head(ar), writing |-> FALSE]
      BY <2>2, BeatFacts
    <2>6. Head(arq').addr = Head(ar)
      BY <2>5
    <2>7. read_beat' = [addr |-> Head(arq').addr, overlapped |-> overlapped']
      BY DEF read_beat
    <2> QED
      BY <2>4, <2>5, <2>6, <2>7
  <1>5. ASSUME rvalid_q, ~rready
        PROVE  arq' = arq /\ read_beat' = read_beat /\ rdata_q' = rdata_q
    <2>1. ~ar_hs(ar)
      BY <1>5 DEF ar_hs, ARREADY
    <2>2. arq' = arq \o <<>>
      BY <1>1, <1>5, <2>1 DEF Track, ReadBeat
    <2>3. arq \in Beats(ArBeats)
      BY DEF SInv, IInv, TypeOK, BusTypeOK
    <2> QED
      BY <1>1, <2>1, <2>2, <2>3, BeatFacts DEF Beats, read_beat, ar_watch
  <1> QED
    BY <1>1, <1>2, <1>3, <1>4, <1>5

(***************************************************************************)
(* The model with the pending transaction applied keeps agreeing.          *)
(***************************************************************************)
LEMMA AppliedStep ==
  ASSUME WidthAssumption, BusAssumption, SInv, NEW aw, NEW w, NEW bready, NEW ar,
         NEW rready, SerialEdge(aw, w, bready, ar, rready)
  PROVE  m' \in Model /\ Agrees(Applied)'
  <1>1. /\ IInv /\ Inputs(aw, w, bready, ar, rready)
        /\ BusClock(aw, w, bready, ar, rready)
    BY DEF SInv, SerialEdge, Observed
  <1>2. Applied \in Model
    <2>1. CASE bvalid_q
      BY <1>1, <2>1, PublishedWrite, CheckWriteFields DEF Applied, SInv
    <2>2. CASE ~bvalid_q /\ rvalid_q
      BY <1>1, <2>2, PublishedRead, CheckReadFields DEF Applied, SInv
    <2>3. CASE ~bvalid_q /\ ~rvalid_q
      BY <2>3 DEF Applied, SInv
    <2> QED
      BY <2>1, <2>2, <2>3
  <1>3. m' \in Model
    BY <1>2, PublishFacts DEF SInv
  <1>4. CASE do_write(aw, w)
    <2>1. ~bvalid_q /\ ~rvalid_q /\ ~ar_hs(ar)
      BY <1>4, TurnsTaken
    <2>2. m' = m /\ Applied = m
      BY <2>1, PublishFacts DEF Applied
    <2>3. Applied' = check_write(m, wr_addr(aw), Beat(w))
      BY <1>4, <2>2, AppliedNext, ChannelEdge
    <2>4. AgreesAfter(check_write(m, wr_addr(aw), Beat(w)))
      BY <1>1, <1>4, <2>1, <2>2, WriteAgrees DEF SInv
    <2> QED
      BY <1>3, <2>3, <2>4, AgreesNext
  <1>5. CASE ar_hs(ar)
    <2>1. ~bvalid_q /\ ~rvalid_q /\ ~do_write(aw, w)
      BY <1>5, TurnsTaken
    <2>2. m' = m /\ Applied = m
      BY <2>1, PublishFacts DEF Applied
    <2>3. Head(arq').addr = Head(ar)
      BY <1>5, ChannelEdge
    <2>4. Applied' = check_read(m, Head(ar))
      BY <1>5, <2>1, <2>2, <2>3, AppliedNext, ChannelEdge
    <2>5. AgreesAfter(check_read(m, Head(ar)))
      BY <1>1, <1>5, <2>1, <2>2, ReadAgrees DEF SInv
    <2> QED
      BY <1>3, <2>4, <2>5, AgreesNext
  <1>6. CASE ~do_write(aw, w) /\ ~ar_hs(ar)
    <2>1. Applied' = Applied
      <3>1. CASE bvalid_q
        BY <1>6, <3>1, AppliedNext, ChannelEdge, PublishFacts, TurnsTaken
        DEF Applied
      <3>2. CASE ~bvalid_q /\ rvalid_q
        BY <1>6, <3>2, AppliedNext, ChannelEdge, PublishFacts DEF Applied
      <3>3. CASE ~bvalid_q /\ ~rvalid_q
        BY <1>6, <3>3, AppliedNext, ChannelEdge, PublishFacts DEF Applied
      <3> QED
        BY <3>1, <3>2, <3>3
    <2>2. AgreesAfter(Applied)
      BY <1>1, <1>2, <1>6, IdleAgrees DEF SInv
    <2> QED
      BY <1>3, <2>1, <2>2, AgreesNext
  <1> QED
    BY <1>4, <1>5, <1>6

(***************************************************************************)
(* A read accepted while nothing of a write is in flight returns what a    *)
(* model that agrees with the bank predicts.                               *)
(***************************************************************************)
LEMMA MuxPredicted ==
  ASSUME NEW s \in Model, Agrees(s), TypeOK, WidthAssumption, ~busy,
         NEW a \in Nat, NEW rd, rd.addr = a
  PROVE  DataAgrees(s, rd, IF ReadError(a) # {} THEN {} ELSE rd_mux(Index(a)))
  <1> DEFINE i == Index(a)
             data == IF ReadError(a) # {} THEN {} ELSE rd_mux(i)
  <1>1. /\ read_event(a) = ReadError(a) /\ reg_index(a) = i
        /\ is_status_read(a) <=> ReadError(a) = {} /\ i = R_STATUS
    BY SbDecodeAgrees DEF is_status_read
  <1>2. i \in 0 .. 7
    BY SMT DEF Index
  <1>3. /\ R_CTRL = 0 /\ R_STATUS = 1 /\ R_CONFIG = 2 /\ R_INT_ENABLE = 3
        /\ R_INT_STATUS = 4 /\ R_SCRATCH = 5 /\ R_COUNTER = 6 /\ R_ID = 7
    BY DEF R_CTRL, R_STATUS, R_CONFIG, R_INT_ENABLE, R_INT_STATUS, R_SCRATCH,
           R_COUNTER, R_ID
  <1> HIDE DEF i, data
  <1>4. CASE ReadError(a) # {}
    <2>1. data = {} /\ ~is_status_read(a) /\ plain_data(s, a) = {{}}
      BY <1>1, <1>4 DEF data, plain_data
    <2> QED
      BY <1>1, <1>4, <2>1 DEF DataAgrees, data, i
  <1>5. CASE ReadError(a) = {}
    <2>1. data = rd_mux(i) /\ read_event(a) = {}
      BY <1>1, <1>5 DEF data
    <2>2. CASE i = R_STATUS
      <3>1. rd_mux(i) = IF status_error THEN {STATUS_ERROR} ELSE {}
        BY <1>3, <2>2 DEF rd_mux
      <3>2. STATUS_ERROR # STATUS_BUSY
        BY DEF STATUS_ERROR, STATUS_BUSY
      <3>3. data \ {STATUS_BUSY} = IF s.status_error THEN {STATUS_ERROR} ELSE {}
        BY <2>1, <3>1, <3>2 DEF Agrees
      <3> QED
        BY <1>1, <1>5, <2>2, <3>3 DEF DataAgrees, data, i
    <2>3. CASE i = R_COUNTER
      <3>1. rd_mux(i) = counter_q
        BY <1>3, <2>3 DEF rd_mux
      <3> QED
        BY <1>1, <1>3, <2>1, <2>3, <3>1 DEF DataAgrees, Agrees, data, i
    <2>4. CASE i \notin {R_STATUS, R_COUNTER}
      <3>1. data \in plain_data(s, a)
        <4>1. CASE i = R_CTRL
          <5>1. rd_mux(i) = IF ctrl_enable THEN {CTRL_ENABLE} ELSE {}
            BY <1>3, <4>1 DEF rd_mux
          <5>2. plain_data(s, a) = {IF s.ctrl_enable THEN {CTRL_ENABLE} ELSE {}}
            BY <1>1, <2>1, <4>1 DEF plain_data
          <5> QED
            BY <2>1, <5>1, <5>2 DEF Agrees
        <4>2. CASE i = R_CONFIG
          <5>1. rd_mux(i) = config_q /\ plain_data(s, a) = {s.config}
            BY <1>1, <1>3, <2>1, <4>2 DEF rd_mux, plain_data
          <5> QED
            BY <2>1, <5>1 DEF Agrees
        <4>3. CASE i = R_INT_ENABLE
          <5>1. rd_mux(i) = int_enable_q /\ plain_data(s, a) = {s.int_enable}
            BY <1>1, <1>3, <2>1, <4>3 DEF rd_mux, plain_data
          <5> QED
            BY <2>1, <5>1 DEF Agrees
        <4>4. CASE i = R_INT_STATUS
          <5>1. /\ rd_mux(i) = int_status_q
                /\ plain_data(s, a) = {s.int_status \ {OVERFLOW},
                                       s.int_status \cup {OVERFLOW}}
            BY <1>1, <1>3, <2>1, <4>4 DEF rd_mux, plain_data
          <5>2. \/ int_status_q = s.int_status \ {OVERFLOW}
                \/ int_status_q = s.int_status \cup {OVERFLOW}
            BY DEF Agrees
          <5> QED
            BY <2>1, <5>1, <5>2
        <4>5. CASE i = R_SCRATCH
          <5>1. rd_mux(i) = scratch_q /\ plain_data(s, a) = {s.scratch}
            BY <1>1, <1>3, <2>1, <4>5 DEF rd_mux, plain_data
          <5> QED
            BY <2>1, <5>1 DEF Agrees
        <4>6. CASE i = R_ID
          <5>1. rd_mux(i) = ID_RESET /\ plain_data(s, a) = {ID_RESET}
            BY <1>1, <1>3, <2>1, <4>6 DEF rd_mux, plain_data
          <5> QED
            BY <2>1, <5>1
        <4> QED
          BY <1>2, <1>3, <2>4, <4>1, <4>2, <4>3, <4>4, <4>5, <4>6
      <3> QED
        BY <1>1, <2>4, <3>1 DEF DataAgrees, data, i
    <2> QED
      BY <2>2, <2>3, <2>4
  <1> QED
    BY <1>4, <1>5

LEMMA PredictedStep ==
  ASSUME WidthAssumption, BusAssumption, SInv, NEW aw, NEW w, NEW bready, NEW ar,
         NEW rready, SerialEdge(aw, w, bready, ar, rready)
  PROVE  ReadIsPredicted'
  <1> SUFFICES ASSUME rvalid_q' PROVE DataAgrees(m', read_beat', rdata_q')
    BY PredictedNext
  <1>1. CASE ar_hs(ar)
    <2> DEFINE a == Head(ar)
               rd == [addr |-> a, overlapped |-> FALSE]
    <2>1. ~rvalid_q /\ ~bvalid_q /\ ~busy
      BY <1>1, TurnsTaken
    <2>2. m' = m /\ Applied = m
      BY <2>1, PublishFacts DEF Applied
    <2>3. a \in Nat /\ rd.addr = a
      BY <1>1, PayloadType DEF SerialEdge, Inputs, ar_hs
    <2>4. /\ read_beat' = rd
          /\ rdata_q' = IF ReadError(a) # {} THEN {} ELSE rd_mux(Index(a))
      BY <1>1, ChannelEdge
    <2> HIDE DEF a, rd
    <2>5. DataAgrees(m, rd, IF ReadError(a) # {} THEN {} ELSE rd_mux(Index(a)))
      BY <2>1, <2>2, <2>3, MuxPredicted DEF SInv, IInv
    <2> QED
      BY <2>2, <2>4, <2>5
  <1>2. CASE ~ar_hs(ar)
    <2>1. rvalid_q /\ ~rready /\ ~bvalid_q
      BY <1>2, ChannelEdge, TurnsTaken
    <2>2. m' = m /\ read_beat' = read_beat /\ rdata_q' = rdata_q
      BY <2>1, ChannelEdge, PublishFacts
    <2> QED
      BY <2>1, <2>2 DEF SInv, ReadIsPredicted
  <1> QED
    BY <1>1, <1>2

\* STATUS.error of the model is that of the last published transaction.
LEMMA LastErrorStep ==
  ASSUME WidthAssumption, BusAssumption, SInv, NEW aw, NEW w, NEW bready, NEW ar,
         NEW rready, SerialEdge(aw, w, bready, ar, rready)
  PROVE  m'.status_error <=> last_error'
  <1>1. last_error' = IF bvalid_q /\ bready THEN bresp_q = SLVERR
                      ELSE IF rvalid_q /\ rready /\ ~is_status_read(RAddr)
                        THEN rresp_q = SLVERR
                      ELSE last_error
    BY DEF SerialEdge, Observed, Completed
  <1>2. CASE bvalid_q /\ bready
    <2>1. m' = check_write(m, awaddr_q, PendingWrite)
      BY <1>2, PublishFacts DEF Applied
    <2>2. m'.status_error <=> WriteError(awaddr_q, PendingWrite.strb) # {}
      BY <1>2, <2>1, PublishedWrite, CheckWriteFields DEF SInv
    <2> QED
      BY <1>1, <1>2, <2>2, PublishedWrite DEF SInv
  <1>3. CASE rvalid_q /\ rready
    <2> DEFINE a == Head(arq).addr
    <2>1. ~bvalid_q /\ m' = check_read(m, a)
      BY <1>3, PublishFacts, TurnsTaken DEF Applied
    <2>2. a \in Nat /\ (rresp_q = SLVERR <=> ReadError(a) # {})
      BY <1>3, PublishedRead DEF SInv
    <2> HIDE DEF a
    <2>3. m'.status_error <=> IF ReadError(a) = {} /\ Index(a) = R_STATUS
                                THEN m.status_error ELSE ReadError(a) # {}
      BY <2>1, <2>2, CheckReadFields DEF SInv
    <2>4. is_status_read(RAddr) <=> ReadError(a) = {} /\ Index(a) = R_STATUS
      BY <2>2, SbDecodeAgrees DEF is_status_read, RAddr, a
    <2> QED
      BY <1>1, <1>3, <2>1, <2>2, <2>3, <2>4 DEF SInv
  <1>4. CASE ~(bvalid_q /\ bready) /\ ~(rvalid_q /\ rready)
    <2>1. m' = m /\ last_error' = last_error
      BY <1>1, <1>4, PublishFacts
    <2> QED
      BY <2>1 DEF SInv
  <1> QED
    BY <1>2, <1>3, <1>4

LEMMA NoOverlapStep ==
  ASSUME WidthAssumption, BusAssumption, SInv, IInv', NEW aw, NEW w, NEW bready,
         NEW ar, NEW rready, SerialEdge(aw, w, bready, ar, rready)
  PROVE  NoOverlap'
  <1> SUFFICES ASSUME rvalid_q' PROVE awq' = <<>> /\ wq' = <<>>
    BY DEF NoOverlap, IInv, ReadResponseEarned
  <1>1. rvalid_q \/ ar_hs(ar)
    BY ChannelEdge
  <1>2. /\ aw = <<>> /\ w = <<>> /\ awq = <<>> /\ wq = <<>>
        /\ ~bvalid_q
    BY <1>1, TurnsTaken
  <1>3. awq' = <<>> \o <<>> /\ wq' = <<>> \o <<>>
    BY <1>2 DEF SerialEdge, Observed, BusClock, Observe, Track, Accepted
  <1> QED
    BY <1>3, BeatFacts

\* In reset the model holds the reset values.
LEMMA ResetModelAgrees ==
  ASSUME WidthAssumption
  PROVE  /\ ResetModel \in Model /\ ~ResetModel.status_error
         /\ SlaveReset => AgreesAfter(ResetModel)
         /\ SlaveInReset => Agrees(ResetModel)
  BY WordFacts DEF ResetModel, Model, Word, CONFIG_RESET, SlaveReset, SlaveInReset,
     AgreesAfter, Agrees

LEMMA ObservedInputs ==
  ASSUME IInv, SbClock
  PROVE  \E aw, w, bready, ar, rready :
           /\ Inputs(aw, w, bready, ar, rready)
           /\ Observed(aw, w, bready, ar, rready)
  <1>1. PICK aw \in Offer(aw_offered, Addrs), w \in Offer(w_offered, WBeats),
             ar \in Offer(ar_offered, Addrs), bready \in BOOLEAN,
             rready \in BOOLEAN : Observed(aw, w, bready, ar, rready)
    BY DEF SbClock
  <1>2. Inputs(aw, w, bready, ar, rready)
    BY OfferIsBeat DEF Inputs, IInv, TypeOK, BusTypeOK
  <1> QED
    BY <1>1, <1>2

LEMMA SerialInputs ==
  ASSUME IInv, SerialClock
  PROVE  \E aw, w, bready, ar, rready : SerialEdge(aw, w, bready, ar, rready)
  <1>1. PICK aw \in Offer(aw_offered, Addrs), w \in Offer(w_offered, WBeats),
             ar \in Offer(ar_offered, Addrs), bready \in BOOLEAN,
             rready \in BOOLEAN :
               OneKind(aw, w, ar) /\ Observed(aw, w, bready, ar, rready)
    BY DEF SerialClock
  <1>2. Inputs(aw, w, bready, ar, rready)
    BY OfferIsBeat DEF Inputs, IInv, TypeOK, BusTypeOK
  <1> QED
    BY <1>1, <1>2 DEF SerialEdge

LEMMA SerialStep ==
  ASSUME WidthAssumption, BusAssumption, SInv, NEW aw, NEW w, NEW bready, NEW ar,
         NEW rready, SerialEdge(aw, w, bready, ar, rready)
  PROVE  SInv'
  <1>1. IInv'
    BY IInvClock DEF SInv, SerialEdge, Observed
  <1>2. m' \in Model /\ Agrees(Applied)'
    BY AppliedStep
  <1>3. NoOverlap' /\ ReadIsPredicted'
    BY <1>1, NoOverlapStep, PredictedStep
  <1>4. mismatch' = {} /\ (m'.status_error <=> last_error')
    BY PublishFacts, LastErrorStep
  <1> QED
    BY <1>1, <1>2, <1>3, <1>4 DEF SInv

LEMMA SbResetStep ==
  ASSUME WidthAssumption, BusAssumption, SInv, SbReset
  PROVE  SInv'
  <1>1. IInv'
    BY IInvReset DEF SbReset
  <1>2. /\ m' = ResetModel /\ ~bvalid_q' /\ ~rvalid_q' /\ ~last_error'
        /\ mismatch' = {} /\ arq' = <<>> /\ SlaveReset
    BY DEF SInv, SbReset, Reset, SlaveReset, BusReset
  <1>3. Applied' = ResetModel
    BY <1>2 DEF Applied
  <1>4. Agrees(Applied)'
    BY <1>2, <1>3, ResetModelAgrees, AgreesNext
  <1> QED
    BY <1>1, <1>2, <1>4, ResetModelAgrees DEF SInv, NoOverlap, ReadIsPredicted

(***************************************************************************)
(* The inductive invariant of the scoreboard.                              *)
(***************************************************************************)
LEMMA SInvariance == SerialSpec => []SInv
  <1>1. SbInit => SInv
    <2> SUFFICES ASSUME SbInit PROVE SInv
      OBVIOUS
    <2>1. IInv
      BY IInvInit, WidthAssumption, BusAssumption DEF SbInit
    <2>2. /\ m = ResetModel /\ ~bvalid_q /\ ~rvalid_q /\ ~last_error
          /\ mismatch = {} /\ arq = <<>> /\ SlaveInReset
      BY DEF SbInit, Init, SlaveInReset, BusIdle
    <2>3. Agrees(Applied)
      BY <2>2, ResetModelAgrees, WidthAssumption DEF Applied
    <2> QED
      BY <2>1, <2>2, <2>3, ResetModelAgrees, WidthAssumption
      DEF SInv, NoOverlap, ReadIsPredicted
  <1>2. SInv /\ [SerialClock \/ SbReset]_sbVars => SInv'
    <2> SUFFICES ASSUME SInv, [SerialClock \/ SbReset]_sbVars PROVE SInv'
      OBVIOUS
    <2>1. CASE SerialClock
      <3>1. PICK aw, w, bready, ar, rready : SerialEdge(aw, w, bready, ar, rready)
        BY <2>1, SerialInputs DEF SInv
      <3> QED
        BY <3>1, SerialStep, WidthAssumption, BusAssumption
    <2>2. CASE SbReset
      BY <2>2, SbResetStep, WidthAssumption, BusAssumption
    <2>3. CASE UNCHANGED sbVars
      <3>1. UNCHANGED <<vars, overlapped, m, mismatch, last_error>>
        BY <2>3 DEF sbVars
      <3>2. IInv'
        BY <3>1, IInvStep, WidthAssumption, BusAssumption DEF SInv
      <3>3. /\ bvalid_q' = bvalid_q /\ rvalid_q' = rvalid_q
            /\ awaddr_q' = awaddr_q /\ wdata_q' = wdata_q /\ wstrb_q' = wstrb_q
            /\ rdata_q' = rdata_q
            /\ awq' = awq /\ wq' = wq /\ arq' = arq
            /\ ctrl_enable' = ctrl_enable /\ config_q' = config_q
            /\ int_enable_q' = int_enable_q /\ int_status_q' = int_status_q
            /\ scratch_q' = scratch_q /\ counter_q' = counter_q
            /\ status_error' = status_error
        BY <3>1 DEF vars, slaveVars, channelVars, bankVars, busVars
      <3>4. Applied' = Applied
        BY <3>1, <3>3, AppliedNext DEF Applied, PendingWrite
      <3>5. Agrees(Applied)'
        BY <3>3, <3>4 DEF SInv, Agrees
      <3>6. ReadIsPredicted'
        BY <3>1, <3>3, PredictedNext DEF SInv, ReadIsPredicted, read_beat
      <3> QED
        BY <3>1, <3>2, <3>3, <3>5, <3>6 DEF SInv, NoOverlap
    <2> QED
      BY <2>1, <2>2, <2>3
  <1> QED
    BY <1>1, <1>2, PTL DEF SerialSpec

(***************************************************************************)
(* As long as reads and writes take turns, the scoreboard never accuses    *)
(* the slave, whatever the beats, the resets and the time the master takes *)
(* to answer.                                                              *)
(***************************************************************************)
THEOREM NoFalseAlarm == SerialSpec => []NoMismatch
  <1>1. SInv => NoMismatch
    BY DEF SInv, NoMismatch
  <1> QED
    BY <1>1, SInvariance, PTL

(***************************************************************************)
(* Between transactions model and register bank are the same, but for the  *)
(* overflow bit and a COUNTER the model does not call zero.                *)
(***************************************************************************)
THEOREM ModelTracksBank == SerialSpec => []ModelMatchesSlave
  <1>1. SInv => ModelMatchesSlave
    <2> SUFFICES ASSUME SInv, awq = <<>>, wq = <<>>, arq = <<>>
                 PROVE  /\ m.ctrl_enable = ctrl_enable /\ m.config = config_q
                        /\ m.int_enable = int_enable_q /\ m.scratch = scratch_q
                        /\ m.int_status = int_status_q \ {OVERFLOW}
                        /\ m.status_error = status_error
                        /\ m.counter_zero => counter_q = {} /\ ~ctrl_enable
      BY DEF ModelMatchesSlave
    <2>1. ~bvalid_q /\ ~rvalid_q
      BY PublishedWrite DEF SInv, IInv, ReadResponseEarned
    <2>2. Agrees(m)
      BY <2>1 DEF SInv, Applied
    <2>3. /\ m.ctrl_enable \in BOOLEAN /\ ctrl_enable \in BOOLEAN
          /\ m.status_error \in BOOLEAN /\ status_error \in BOOLEAN
      BY DEF SInv, Model, IInv, TypeOK, SlaveTypeOK
    <2>4. m.ctrl_enable = ctrl_enable /\ m.status_error = status_error
      BY <2>2, <2>3 DEF Agrees
    <2> QED
      BY <2>2, <2>4 DEF Agrees
  <1> QED
    BY <1>1, SInvariance, PTL

(***************************************************************************)
(* STATUS.error, read while nothing is in flight, is the error of the      *)
(* transaction completed last.                                             *)
(***************************************************************************)
StatusTruthful == QuietStatusRead => ((STATUS_ERROR \in rdata_q') <=> last_error)

LEMMA StatusStep ==
  ASSUME SInv, [SerialClock \/ SbReset]_sbVars
  PROVE  [StatusTruthful]_sbVars
  <1>1. CASE SerialClock
    <2>1. PICK aw, w, bready, ar, rready : SerialEdge(aw, w, bready, ar, rready)
      BY <1>1, SerialInputs DEF SInv
    <2>2. SUFFICES ASSUME QuietStatusRead
                   PROVE  (STATUS_ERROR \in rdata_q') <=> last_error
      BY DEF StatusTruthful
    <2> DEFINE a == Head(ar)
    <2>3. ar_hs(ar)
      BY <2>1, <2>2, ChannelEdge, BusAssumption DEF QuietStatusRead, Reads
    <2>4. ~bvalid_q /\ ~rvalid_q /\ ~busy
      BY <2>1, <2>3, TurnsTaken
    <2>5. a \in Nat
      BY <2>1, <2>3, PayloadType, BusAssumption DEF SerialEdge, Inputs, ar_hs
    <2>6. is_status_read(a)
      <3>1. RAddr' = a
        BY <2>1, <2>3, ChannelEdge, BusAssumption DEF RAddr
      <3>2. is_status_read(RAddr)'
        BY <2>2 DEF QuietStatusRead
      <3> QED
        BY <3>1, <3>2 DEF is_status_read, read_event, is_misaligned,
           is_implemented, reg_index
    <2>7. ReadError(a) = {} /\ Index(a) = R_STATUS
      BY <2>5, <2>6, SbDecodeAgrees DEF is_status_read
    <2>8. rdata_q' = rd_mux(R_STATUS)
      BY <2>1, <2>3, <2>7, ChannelEdge, BusAssumption
    <2>9. rd_mux(R_STATUS) = IF status_error THEN {STATUS_ERROR} ELSE {}
      BY <2>4 DEF rd_mux, R_CTRL, R_STATUS, R_CONFIG, R_INT_ENABLE, R_INT_STATUS,
         R_SCRATCH, R_COUNTER, R_ID
    <2>10. status_error <=> last_error
      BY <2>4 DEF SInv, Applied, Agrees
    <2> QED
      BY <2>8, <2>9, <2>10
  <1>2. CASE SbReset
    BY <1>2 DEF SbReset, Reset, SlaveReset, StatusTruthful, QuietStatusRead, Reads
  <1>3. CASE UNCHANGED sbVars
    BY <1>3
  <1> QED
    BY <1>1, <1>2, <1>3

THEOREM StatusReportsLast == SerialSpec => StatusIsLastCompleted
  <1>1. SInv /\ [SerialClock \/ SbReset]_sbVars => [StatusTruthful]_sbVars
    BY StatusStep
  <1> QED
    BY <1>1, SInvariance, PTL DEF SerialSpec, StatusIsLastCompleted, StatusTruthful

-----------------------------------------------------------------------------
(***************************************************************************)
(* Any traffic.  Reads and writes in flight together can make the model    *)
(* wrong about data (the run of SbSpec shows it), never about a response   *)
(* code: the scoreboard may report a wrong RDATA of a correct slave, but   *)
(* never a wrong BRESP or RRESP.                                           *)
(***************************************************************************)
ResponsesNeverAccused == mismatch \subseteq {"RDATA"}

AInv == IInv /\ ResponsesNeverAccused

THEOREM ResponsesTrusted == SbSpec => []ResponsesNeverAccused
  <1>1. SbInit => AInv
    BY IInvInit, WidthAssumption, BusAssumption
    DEF SbInit, AInv, ResponsesNeverAccused
  <1>2. AInv /\ [SbClock \/ SbReset]_sbVars => AInv'
    <2> SUFFICES ASSUME AInv, [SbClock \/ SbReset]_sbVars PROVE AInv'
      OBVIOUS
    <2>1. CASE SbClock
      <3>1. PICK aw, w, bready, ar, rready :
              /\ Inputs(aw, w, bready, ar, rready)
              /\ Observed(aw, w, bready, ar, rready)
        BY <2>1, ObservedInputs DEF AInv
      <3>2. IInv'
        BY <3>1, IInvClock, WidthAssumption, BusAssumption DEF AInv, Observed
      <3>3. PICK s : mismatch' = mismatch
                       \cup (IF bvalid_q /\ bready THEN WriteMismatch ELSE {})
                       \cup (IF rvalid_q /\ rready THEN ReadMismatch(s) ELSE {})
        BY <3>1, Zenon DEF Observed, Publish
      <3>4. bvalid_q => WriteMismatch = {}
        BY PublishedWrite DEF AInv
      <3>5. rvalid_q => ReadMismatch(s) \subseteq {"RDATA"}
        BY PublishedRead, BusAssumption DEF AInv, ReadMismatch
      <3> QED
        BY <3>2, <3>3, <3>4, <3>5 DEF AInv, ResponsesNeverAccused
    <2>2. CASE SbReset
      BY <2>2, IInvReset, WidthAssumption, BusAssumption
      DEF AInv, SbReset, ResponsesNeverAccused
    <2>3. CASE UNCHANGED sbVars
      <3>1. UNCHANGED vars /\ mismatch' = mismatch
        BY <2>3 DEF sbVars
      <3> QED
        BY <3>1, IInvStep, WidthAssumption, BusAssumption
        DEF AInv, ResponsesNeverAccused
    <2> QED
      BY <2>1, <2>2, <2>3
  <1>3. AInv => ResponsesNeverAccused
    BY DEF AInv
  <1> QED
    BY <1>1, <1>2, <1>3, PTL DEF SbSpec

=============================================================================
