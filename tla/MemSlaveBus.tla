----------------------------- MODULE MemSlaveBus ----------------------------
(***************************************************************************)
(* The memory slave on a live AXI4-Lite bus, and the abstract memory it    *)
(* implements.                                                             *)
(***************************************************************************)
EXTENDS MemSlave, AxiBus

vars == <<memVars, busVars>>

TypeOK == MemTypeOK /\ BusTypeOK

Init == MemInReset /\ BusIdle

BusClock(aw, w, bready, ar, rready) ==
  /\ MemClock(aw, w, bready, ar, rready)
  /\ Observe(aw, aw_hs(aw), w, w_hs(w), ar, ar_hs(ar),
             bvalid_q /\ bready, rvalid_q /\ rready)

Clock ==
  \E aw \in Offer(aw_offered, Addrs), w \in Offer(w_offered, WBeats),
     ar \in Offer(ar_offered, Addrs), bready \in BOOLEAN, rready \in BOOLEAN :
    BusClock(aw, w, bready, ar, rready)

\* ARESETn falls.  The VALIDs at this port fall with it, as they do where the
\* repository resets a live memory: there the interconnect drives them.  So no
\* edge of the clock finds a write at the array, which has no reset branch.
Reset == MemReset /\ BusReset

Next == Clock \/ Reset

Spec == Init /\ [][Next]_vars

-----------------------------------------------------------------------------
(***************************************************************************)
(* A write response exists exactly while one accepted address and one      *)
(* accepted data beat are unanswered, and is SLVERR exactly when that      *)
(* address was misaligned; the same of reads, whose data is zero on error. *)
(***************************************************************************)
ResponsesEarned ==
  /\ Len(awq) <= 1 /\ Len(wq) <= 1 /\ Len(arq) <= 1
  /\ bvalid_q <=> (awq # <<>> /\ wq # <<>>)
  /\ bvalid_q => bresp_q = MemResp(Head(awq))
  /\ rvalid_q <=> arq # <<>>
  /\ rvalid_q => rresp_q = MemResp(Head(arq).addr)
  /\ rvalid_q /\ rresp_q = SLVERR => rdata_q = {}

-----------------------------------------------------------------------------
(***************************************************************************)
(* Refinement.                                                             *)
(***************************************************************************)
bView ==
  IF bvalid_q
    THEN <<[addr |-> Head(awq), beat |-> Head(wq), resp |-> bresp_q]>>
    ELSE <<>>

rView ==
  IF rvalid_q
    THEN <<[addr |-> Head(arq).addr, data |-> rdata_q, resp |-> rresp_q]>>
    ELSE <<>>

MF == INSTANCE MemFile WITH store <- mem, b <- bView, r <- rView

(***************************************************************************)
(* Every edge is one transaction of the abstract memory, a read followed   *)
(* by a write, or none that software can see; every response carries the   *)
(* result of the accepted transaction; the array changes only by an OKAY   *)
(* write, in the word and the lanes it selects; reset never touches it     *)
(* (mem_write, the byte-lane loop and the missing reset branch).           *)
(***************************************************************************)
ImplementsMemFile == MF!Spec
=============================================================================
