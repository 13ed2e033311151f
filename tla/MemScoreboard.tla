---------------------------- MODULE MemScoreboard ---------------------------
(***************************************************************************)
(* The memory slave, the monitor and the memory half of the scoreboard     *)
(* (check_write_mem, check_read_mem of tb/env/axi_scoreboard.sv).  Nothing *)
(* initialises the array, so the model tracks which byte lanes of which    *)
(* words some write it saw has defined, and compares only those.  Neither  *)
(* the array nor its model is reset.                                       *)
(***************************************************************************)
EXTENDS MemSlaveBus

VARIABLES
  m_mem,        \* the model's words
  m_mem_valid,  \* the lanes of each word that are defined
  mismatch      \* what report_mismatch has complained about

sbVars == <<vars, m_mem, m_mem_valid, mismatch>>

Words == Bits(NUM_WORDS)

model_word(a) == (a \div 4) % NUM_WORDS
exp_resp(a)   == IF a % 4 # 0 THEN SLVERR ELSE OKAY

(***************************************************************************)
(* check_write_mem: only the strobed lanes, and each becomes defined.      *)
(***************************************************************************)
\* Mutant: a write defines the whole word.
defines_WholeWord(strb) == Lanes

defines(strb) == strb

check_write_mem(a, beat) ==
  IF exp_resp(a) # OKAY THEN UNCHANGED <<m_mem, m_mem_valid>>
  ELSE /\ m_mem' = [m_mem EXCEPT ![model_word(a)] =
                       (@ \ lane_bits(beat.strb))
                         \cup (beat.data \cap lane_bits(beat.strb))]
       /\ m_mem_valid' =
            [m_mem_valid EXCEPT ![model_word(a)] = @ \cup defines(beat.strb)]

WriteMismatch(a) == IF bresp_q = exp_resp(a) THEN {} ELSE {"BRESP"}

\* check_read_mem compares the bits of the defined lanes.
DataAgrees(a, memory, valid) ==
  IF exp_resp(a) # OKAY THEN rdata_q = {}
  ELSE LET mask == lane_bits(valid[model_word(a)])
       IN  rdata_q \cap mask = memory[model_word(a)] \cap mask

ReadMismatch(a, memory, valid) ==
  (IF rresp_q = exp_resp(a) THEN {} ELSE {"RRESP"})
    \cup (IF DataAgrees(a, memory, valid) THEN {} ELSE {"RDATA"})

(***************************************************************************)
(* Publication on the response handshakes; when both complete on one edge  *)
(* the read may be checked before or after the write has been applied.     *)
(***************************************************************************)
Publish(bready, rready) ==
  /\ IF bvalid_q /\ bready THEN check_write_mem(Head(awq), Head(wq))
     ELSE UNCHANGED <<m_mem, m_mem_valid>>
  /\ \E writeFirst \in BOOLEAN :
       mismatch' = mismatch
         \cup (IF bvalid_q /\ bready THEN WriteMismatch(Head(awq)) ELSE {})
         \cup (IF ~(rvalid_q /\ rready) THEN {}
               ELSE IF writeFirst
                 THEN ReadMismatch(Head(arq).addr, m_mem', m_mem_valid')
               ELSE ReadMismatch(Head(arq).addr, m_mem, m_mem_valid))

\* The traffic of the repository's sequences: reads and writes are never in
\* flight together.
OneKind(aw, w, ar) ==
  (ar # <<>> \/ arq # <<>>) =>
    aw = <<>> /\ w = <<>> /\ awq = <<>> /\ wq = <<>>

SerialClock ==
  \E aw \in Offer(aw_offered, Addrs), w \in Offer(w_offered, WBeats),
     ar \in Offer(ar_offered, Addrs), bready \in BOOLEAN, rready \in BOOLEAN :
    /\ OneKind(aw, w, ar)
    /\ BusClock(aw, w, bready, ar, rready)
    /\ Publish(bready, rready)

SbReset == Reset /\ UNCHANGED <<m_mem, m_mem_valid, mismatch>>

\* The resets of axi_reset_seq fall on an idle bus, on a write of which one half
\* has been accepted, or on a read: never on a write that has committed.
DirectedReset == ~bvalid_q /\ SbReset

SbInit ==
  /\ Init
  /\ m_mem = [k \in Words |-> {}]
  /\ m_mem_valid = [k \in Words |-> {}]
  /\ mismatch = {}

DirectedSpec == SbInit /\ [][SerialClock \/ DirectedReset]_sbVars
SbSpec       == SbInit /\ [][SerialClock \/ SbReset]_sbVars

-----------------------------------------------------------------------------
(***************************************************************************)
(* The scoreboard never accuses a correct memory.                          *)
(***************************************************************************)
NoMismatch == mismatch = {}

(***************************************************************************)
(* While no write is in flight, every lane the model believes defined      *)
(* holds in the array what the model holds.                                *)
(***************************************************************************)
DefinedLanesAgree ==
  awq = <<>> /\ wq = <<>> =>
    \A k \in Words :
      mem[k] \cap lane_bits(m_mem_valid[k])
        = m_mem[k] \cap lane_bits(m_mem_valid[k])
=============================================================================
