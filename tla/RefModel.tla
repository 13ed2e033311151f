------------------------------ MODULE RefModel ------------------------------
(***************************************************************************)
(* The register half of the reference model of tb/env/axi_scoreboard.sv:   *)
(* what one completed transaction does to the model, and what it must have *)
(* returned.  A model state m is a record with the fields of the m_*       *)
(* variables; these operators touch only the fields they name, so a client *)
(* that leaves some of the fields out can use them too.                    *)
(*                                                                         *)
(* The decode is written out again, as the scoreboard does, so that a      *)
(* wrong slice in the slave shows up as a disagreement.                    *)
(***************************************************************************)
EXTENDS RegMap

is_misaligned(a)  == a % 4 # 0
is_implemented(a) == (a % 4096) \div 32 = 0
reg_index(a)      == (a % 32) \div 4

\* The INT_STATUS bit a transaction raises, as a set; empty when it is OKAY.
read_event(a) ==
  IF is_misaligned(a) THEN {MISALIGN}
  ELSE IF is_implemented(a) THEN {} ELSE {UNIMPL}

write_event(a, beat) ==
  IF is_misaligned(a) THEN {MISALIGN}
  ELSE IF ~is_implemented(a) THEN {UNIMPL}
  ELSE IF beat.strb = Lanes THEN {} ELSE {STROBE}

exp_resp(event) == IF event = {} THEN OKAY ELSE SLVERR

(***************************************************************************)
(* check_write and check_read on the software registers.                   *)
(***************************************************************************)
model_write(m, a, beat) ==
  LET event == write_event(a, beat)
      idx   == reg_index(a)
  IN  IF event # {} THEN [m EXCEPT !.int_status = @ \cup event]
      ELSE IF idx = R_CTRL
        THEN [m EXCEPT !.ctrl_enable = (CTRL_ENABLE \in beat.data)]
      ELSE IF idx = R_CONFIG
        THEN [m EXCEPT !.config = beat.data \cap Bits(CONFIG_W)]
      ELSE IF idx = R_INT_ENABLE
        THEN [m EXCEPT !.int_enable = beat.data \cap Bits(INT_W)]
      ELSE IF idx = R_SCRATCH THEN [m EXCEPT !.scratch = beat.data]
      ELSE IF idx = R_INT_STATUS THEN [m EXCEPT !.int_status = @ \ beat.data]
      ELSE m

model_read(m, a) == [m EXCEPT !.int_status = @ \cup read_event(a)]

(***************************************************************************)
(* The words a read of address a may return when the model is in state m:  *)
(* masked bits are free.  STATUS and COUNTER are left to the client.       *)
(***************************************************************************)
plain_data(m, a) ==
  LET idx == reg_index(a)
  IN  IF read_event(a) # {} THEN {{}}
      ELSE IF idx = R_CTRL
        THEN {IF m.ctrl_enable THEN {CTRL_ENABLE} ELSE {}}
      ELSE IF idx = R_CONFIG THEN {m.config}
      ELSE IF idx = R_INT_ENABLE THEN {m.int_enable}
      ELSE IF idx = R_INT_STATUS
        THEN {m.int_status \ {OVERFLOW}, m.int_status \cup {OVERFLOW}}
      ELSE IF idx = R_SCRATCH THEN {m.scratch}
      ELSE IF idx = R_ID THEN {ID_RESET}
      ELSE Word
=============================================================================
