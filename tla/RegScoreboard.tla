---------------------------- MODULE RegScoreboard ---------------------------
(***************************************************************************)
(* The register slave, the monitor that joins accepted beats to responses  *)
(* (tb/agent/axi_monitor.sv) and the scoreboard that replays each          *)
(* completed transaction on its reference model (tb/env/axi_scoreboard.sv).*)
(* The slave applies a transaction when it commits, the scoreboard when    *)
(* its response is taken: this module is about the time between the two.   *)
(***************************************************************************)
EXTENDS RegSlaveBus, RefModel

VARIABLES
  overlapped, \* obs_overlapped_write of the read whose response is awaited
  m,          \* the reference model, one field per m_* variable
  mismatch,   \* what report_mismatch has complained about
  last_error  \* did the last completed transaction return SLVERR?

sbVars == <<vars, overlapped, m, mismatch, last_error>>

ResetModel ==
  [ctrl_enable |-> FALSE, config |-> CONFIG_RESET, int_enable |-> {},
   int_status |-> {}, scratch |-> {}, status_error |-> FALSE,
   counter_zero |-> TRUE]

(***************************************************************************)
(* check_write and check_read, with the two fields RefModel leaves out.    *)
(***************************************************************************)
CounterZero(zero, a, beat) ==
  IF write_event(a, beat) # {} \/ reg_index(a) # R_CTRL THEN zero
  ELSE CTRL_ENABLE \notin beat.data /\ (zero \/ CTRL_RESET_STATS \in beat.data)

check_write(s, a, beat) ==
  [model_write(s, a, beat) EXCEPT
     !.status_error = (write_event(a, beat) # {}),
     !.counter_zero = CounterZero(@, a, beat)]

is_status_read(a) == read_event(a) = {} /\ reg_index(a) = R_STATUS

check_read(s, a) ==
  IF is_status_read(a) THEN s
  ELSE [model_read(s, a) EXCEPT !.status_error = (read_event(a) # {})]

\* The data comparison, with its masks.
DataAgrees(s, read, data) ==
  IF is_status_read(read.addr)
    THEN \/ read.overlapped
         \/ data \ {STATUS_BUSY} =
              IF s.status_error THEN {STATUS_ERROR} ELSE {}
  ELSE IF read_event(read.addr) = {} /\ reg_index(read.addr) = R_COUNTER
    THEN s.counter_zero => data = {}
  ELSE data \in plain_data(s, read.addr)

\* What r_watch joins to the response.
read_beat == [addr |-> Head(arq).addr, overlapped |-> overlapped]

WriteMismatch ==
  IF bresp_q = exp_resp(write_event(Head(awq), Head(wq))) THEN {} ELSE {"BRESP"}

ReadMismatch(s) ==
  (IF rresp_q = exp_resp(read_event(Head(arq).addr)) THEN {} ELSE {"RRESP"})
    \cup (IF DataAgrees(s, read_beat, rdata_q) THEN {} ELSE {"RDATA"})

(***************************************************************************)
(* ar_watch marks a read accepted while the mailboxes hold a half of a     *)
(* write.  The simulator runs the threads of an edge in any order, so each *)
(* of b_watch, aw_watch and w_watch may have run before it or not.         *)
(***************************************************************************)
ar_watch(aw, w, bready, ar) ==
  IF ~ar_hs(ar) THEN UNCHANGED overlapped
  ELSE \E b_ran, aw_ran, w_ran \in BOOLEAN :
         LET taken     == b_ran /\ bvalid_q /\ bready
             aw_waits  == Track(awq, taken, Accepted(aw, aw_ran /\ aw_hs(aw)))
             w_waits   == Track(wq, taken, Accepted(w, w_ran /\ w_hs(w)))
         IN overlapped' = (aw_waits # <<>> \/ w_waits # <<>>)

(***************************************************************************)
(* b_watch and r_watch publish on the response handshake.  When both       *)
(* complete on one edge the simulator runs them in either order.           *)
(***************************************************************************)
Publish(bready, rready) ==
  LET w == bvalid_q /\ bready
      rd == rvalid_q /\ rready
      AfterW(s) == IF w THEN check_write(s, Head(awq), Head(wq)) ELSE s
      AfterR(s) == IF rd THEN check_read(s, Head(arq).addr) ELSE s
  IN  \E writeFirst \in BOOLEAN :
        /\ m' = IF writeFirst THEN AfterR(AfterW(m)) ELSE AfterW(AfterR(m))
        /\ mismatch' = mismatch
             \cup (IF w THEN WriteMismatch ELSE {})
             \cup (IF rd THEN ReadMismatch(IF writeFirst THEN AfterW(m) ELSE m)
                         ELSE {})

\* The last completed register transaction: a read of STATUS does not count,
\* and of a write and a read completing together the write is the last.
Completed(bready, rready) ==
  last_error' = IF bvalid_q /\ bready THEN bresp_q = SLVERR
                ELSE IF rvalid_q /\ rready /\ ~is_status_read(RAddr)
                  THEN rresp_q = SLVERR
                ELSE last_error

Observed(aw, w, bready, ar, rready) ==
  /\ BusClock(aw, w, bready, ar, rready)
  /\ ar_watch(aw, w, bready, ar)
  /\ Publish(bready, rready)
  /\ Completed(bready, rready)

SbClock ==
  \E aw \in Offer(aw_offered, Addrs), w \in Offer(w_offered, WBeats),
     ar \in Offer(ar_offered, Addrs), bready \in BOOLEAN, rready \in BOOLEAN :
    Observed(aw, w, bready, ar, rready)

(***************************************************************************)
(* The traffic the repository's random sequence keeps to: reads and writes *)
(* are never in flight together, though each kind may follow itself        *)
(* without a gap (phases 1 to 3 of axi_random_seq).                        *)
(***************************************************************************)
OneKind(aw, w, ar) ==
  (ar # <<>> \/ arq # <<>>) =>
    aw = <<>> /\ w = <<>> /\ awq = <<>> /\ wq = <<>>

SerialClock ==
  \E aw \in Offer(aw_offered, Addrs), w \in Offer(w_offered, WBeats),
     ar \in Offer(ar_offered, Addrs), bready \in BOOLEAN, rready \in BOOLEAN :
    OneKind(aw, w, ar) /\ Observed(aw, w, bready, ar, rready)

\* The scoreboard's write_rst: the register model returns to reset values.
SbReset ==
  /\ Reset /\ overlapped' = FALSE /\ m' = ResetModel
  /\ mismatch' = mismatch /\ last_error' = FALSE

SbInit ==
  /\ Init /\ overlapped = FALSE /\ m = ResetModel
  /\ mismatch = {} /\ last_error = FALSE

SbSpec     == SbInit /\ [][SbClock \/ SbReset]_sbVars
SerialSpec == SbInit /\ [][SerialClock \/ SbReset]_sbVars

-----------------------------------------------------------------------------
(***************************************************************************)
(* The scoreboard never accuses a correct slave.                           *)
(***************************************************************************)
NoMismatch == mismatch = {}

(***************************************************************************)
(* Between transactions the model is the slave: every field equals the     *)
(* flop it predicts, but for the overflow bit it declines to predict, and  *)
(* when it claims COUNTER is zero, COUNTER is zero and stopped.            *)
(***************************************************************************)
ModelMatchesSlave ==
  awq = <<>> /\ wq = <<>> /\ arq = <<>> =>
    /\ m.ctrl_enable = ctrl_enable /\ m.config = config_q
    /\ m.int_enable = int_enable_q /\ m.scratch = scratch_q
    /\ m.int_status = int_status_q \ {OVERFLOW}
    /\ m.status_error = status_error
    /\ m.counter_zero => counter_q = {} /\ ~ctrl_enable

(***************************************************************************)
(* STATUS.error is that of the most recently completed register            *)
(* transaction (docs/dut_spec.md section 5), for a STATUS read accepted    *)
(* when nothing else is in flight.                                         *)
(***************************************************************************)
QuietStatusRead ==
  /\ Reads /\ is_status_read(RAddr)'
  /\ awq = <<>> /\ wq = <<>> /\ awq' = <<>> /\ wq' = <<>>

StatusIsLastCompleted ==
  [][QuietStatusRead => ((STATUS_ERROR \in rdata_q') <=> last_error)]_sbVars
=============================================================================
