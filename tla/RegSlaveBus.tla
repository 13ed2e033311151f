---------------------------- MODULE RegSlaveBus -----------------------------
(***************************************************************************)
(* The register slave on a live AXI4-Lite bus: any master that keeps VALID *)
(* and its payload stable until READY drives the slave of module RegSlave, *)
(* while the bound checker of tb/interface/axi4lite_if.sv records which    *)
(* halves of which transactions have been accepted and not yet answered.   *)
(* The properties speak of those accepted beats, never of the slave's own  *)
(* latches, so they say what a bus observer may rely on.                   *)
(***************************************************************************)
EXTENDS RegSlave, AxiBus

vars == <<slaveVars, busVars>>

TypeOK == SlaveTypeOK /\ BusTypeOK

Init == SlaveInReset /\ BusIdle

BusClock(aw, w, bready, ar, rready) ==
  /\ SlaveClock(aw, w, bready, ar, rready)
  /\ Observe(aw, aw_hs(aw), w, w_hs(w), ar, ar_hs(ar),
             bvalid_q /\ bready, rvalid_q /\ rready)

Clock ==
  \E aw \in Offer(aw_offered, Addrs), w \in Offer(w_offered, WBeats),
     ar \in Offer(ar_offered, Addrs), bready \in BOOLEAN, rready \in BOOLEAN :
    BusClock(aw, w, bready, ar, rready)

\* ARESETn falls: the slave clears at once.  Nothing changes until it rises.
Reset == SlaveReset /\ BusReset

Next == Clock \/ Reset

Spec == Init /\ [][Next]_vars

-----------------------------------------------------------------------------
(***************************************************************************)
(* Why the response can be computed from the latches and the bus: a half   *)
(* is in its latch from its acceptance until the response is taken, and a  *)
(* latched half means there is no response yet.  This is the inductive     *)
(* core of the properties below.                                           *)
(***************************************************************************)
LatchesHoldAccepted ==
  /\ ~(aw_captured /\ w_captured)
  /\ bvalid_q => ~aw_captured /\ ~w_captured
  /\ awq = IF aw_captured \/ bvalid_q THEN <<awaddr_q>> ELSE <<>>
  /\ wq  = IF w_captured \/ bvalid_q
             THEN <<[data |-> wdata_q, strb |-> wstrb_q]>> ELSE <<>>
  /\ bvalid_q => bresp_q = Resp(WriteError(awaddr_q, wstrb_q))

-----------------------------------------------------------------------------
(***************************************************************************)
(* The transaction in flight, as the bus observer knows it.                *)
(***************************************************************************)
WAddr  == Head(awq)
WData  == Head(wq).data
WError == WriteError(Head(awq), Head(wq).strb)
RAddr  == Head(arq).addr
RError == ReadError(Head(arq).addr)

\* A write commits on the edge that raises BVALID, a read on the edge that
\* raises RVALID.
Commits == ~bvalid_q /\ bvalid_q'
Reads   == ~rvalid_q /\ rvalid_q'

\* ... and what the committing write is allowed to do.
CommitsTo(r) == Commits /\ WError' = {} /\ Index(WAddr)' = r

-----------------------------------------------------------------------------
(***************************************************************************)
(* A write response exists exactly while one accepted address and one      *)
(* accepted data beat are unanswered: never earlier, never later, never    *)
(* with a second beat accepted on top, and it reports the error of the     *)
(* beats that were accepted, whichever half came first                     *)
(* (a_bvalid_not_early, a_single_outstanding_write, a_b_not_stalled,       *)
(* a_misaligned_write_errors of axi4lite_if.sv; the bypass muxes).         *)
(***************************************************************************)
WriteResponseEarned ==
  /\ Len(awq) <= 1 /\ Len(wq) <= 1
  /\ bvalid_q <=> (awq # <<>> /\ wq # <<>>)
  /\ bvalid_q => bresp_q = Resp(WError)

(***************************************************************************)
(* The same of reads; and the busy bit of a STATUS read that returns OKAY  *)
(* tells the truth about the moment the read was accepted: 1 exactly when  *)
(* some half of a write was then accepted and unanswered.                  *)
(***************************************************************************)
ReadResponseEarned ==
  /\ Len(arq) <= 1
  /\ rvalid_q <=> arq # <<>>
  /\ rvalid_q => rresp_q = Resp(RError)
  /\ rvalid_q /\ RError = {} /\ Index(RAddr) = R_STATUS =>
       ((STATUS_BUSY \in rdata_q) <=> Head(arq).writing)

(***************************************************************************)
(* Once BVALID is up the write is already in the register bank and nothing *)
(* overtakes it until BREADY: a read issued after the response cannot see  *)
(* the old value.  The data is that of the accepted W beat, cut to the     *)
(* implemented width.                                                      *)
(***************************************************************************)
WriteVisibleAtResponse ==
  bvalid_q /\ WError = {} =>
    /\ Index(WAddr) = R_CTRL       => ctrl_enable = (CTRL_ENABLE \in WData)
    /\ Index(WAddr) = R_CONFIG     => config_q = WData \cap Bits(CONFIG_W)
    /\ Index(WAddr) = R_INT_ENABLE => int_enable_q = WData \cap Bits(INT_W)
    /\ Index(WAddr) = R_SCRATCH    => scratch_q = WData

(***************************************************************************)
(* When an SLVERR write response is visible, its INT_STATUS bit is set and *)
(* stays set until the response is taken: the cause is readable as soon as *)
(* the failure is known.                                                   *)
(***************************************************************************)
ErrorVisibleAtResponse ==
  bvalid_q /\ bresp_q = SLVERR => WError # {} /\ WError \subseteq int_status_q

(***************************************************************************)
(* Only the commit of an OKAY write addressed to it changes a software     *)
(* register: error paths and writes to read-only registers change none     *)
(* (reg_write, and the default branch of the register bank).               *)
(***************************************************************************)
ChangedOnlyByCommit ==
  [][ \/ Reset
      \/ /\ ctrl_enable' # ctrl_enable   => CommitsTo(R_CTRL)
         /\ config_q' # config_q         => CommitsTo(R_CONFIG)
         /\ int_enable_q' # int_enable_q => CommitsTo(R_INT_ENABLE)
         /\ scratch_q' # scratch_q       => CommitsTo(R_SCRATCH)
    ]_vars

(***************************************************************************)
(* No interrupt is lost.  The event of a transaction committing on this    *)
(* edge, on either path, is pending after it whatever a W1C write on the   *)
(* same edge clears; and a pending bit disappears only under an OKAY write *)
(* to INT_STATUS that has a 1 there (f_set_beats_clear, f_w1c_keeps).      *)
(***************************************************************************)
NoInterruptLost ==
  [][ \/ Reset
      \/ /\ Commits => WError' \subseteq int_status_q'
         /\ Reads   => RError' \subseteq int_status_q'
         /\ int_status_q # int_status_q' =>
              \A i \in int_status_q \ int_status_q' :
                CommitsTo(R_INT_STATUS) /\ i \in WData'
    ]_vars

(***************************************************************************)
(* No interrupt is invented: a bit that rises was raised by a transaction  *)
(* committing on this edge or by COUNTER wrapping.                         *)
(***************************************************************************)
NoInterruptInvented ==
  [][ \A i \in int_status_q' \ int_status_q :
        \/ Commits /\ i \in WError'
        \/ Reads /\ i \in RError'
        \/ i = OVERFLOW /\ counter_q = Bits(COUNTER_W) /\ counter_q' = {}
    ]_vars

(***************************************************************************)
(* COUNTER leaves its maximum only for zero, and either it wrapped and     *)
(* OVERFLOW is pending, or a reset_stats write committed on that very edge *)
(* and no overflow is reported for it (reset_stats beats the increment,    *)
(* ev_overflow excludes it).                                               *)
(***************************************************************************)
WrapIsReported ==
  [][ \/ Reset
      \/ counter_q = Bits(COUNTER_W) /\ counter_q' # counter_q =>
           /\ counter_q' = {}
           /\ IF CommitsTo(R_CTRL) /\ CTRL_RESET_STATS \in WData'
                THEN OVERFLOW \in int_status_q' => OVERFLOW \in int_status_q
                ELSE OVERFLOW \in int_status_q'
    ]_vars
=============================================================================
