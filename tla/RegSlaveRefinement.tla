------------------------- MODULE RegSlaveRefinement -------------------------
(***************************************************************************)
(* The register slave on a bus implements the atomic register file.        *)
(* The bank is the slave's own flops; a result waits at a port while the   *)
(* slave holds the VALID of its response channel.                          *)
(***************************************************************************)
EXTENDS RegSlaveBus

bankView ==
  [ctrl_enable |-> ctrl_enable, config |-> config_q,
   int_enable |-> int_enable_q, int_status |-> int_status_q \ {OVERFLOW},
   scratch |-> scratch_q]

bView ==
  IF bvalid_q
    THEN <<[addr |-> Head(awq), beat |-> Head(wq), resp |-> bresp_q]>>
    ELSE <<>>

rView ==
  IF rvalid_q
    THEN <<[addr |-> Head(arq).addr, data |-> rdata_q, resp |-> rresp_q]>>
    ELSE <<>>

RF == INSTANCE RegFile WITH bank <- bankView, b <- bView, r <- rView

(***************************************************************************)
(* Every edge of the clock is one transaction of the register file, two of *)
(* them in some order, or none that software can see, and each response    *)
(* carries the result of the transaction that was accepted on the bus.     *)
(***************************************************************************)
ImplementsRegFile == RF!Spec
=============================================================================
