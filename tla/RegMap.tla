------------------------------- MODULE RegMap -------------------------------
(***************************************************************************)
(* The register map generated into rtl/gen/axi4lite_reg_pkg.sv and the     *)
(* address decode of the register slave, built on it.                      *)
(***************************************************************************)
EXTENDS AxiLite

CONSTANTS
  CONFIG_W,     \* implemented bits of CONFIG (8)
  COUNTER_W,    \* implemented bits of COUNTER (16)
  ID_RESET      \* the constant word ID reads as

\* INT_ENABLE and INT_STATUS are four bits wide, CTRL and STATUS two.
INT_W == 4

ASSUME WidthAssumption ==
  /\ DATA_WIDTH \in Nat /\ STRB_WIDTH \in Nat
  /\ CONFIG_W \in 0 .. DATA_WIDTH
  /\ COUNTER_W \in 1 .. DATA_WIDTH
  /\ INT_W <= DATA_WIDTH
  /\ ID_RESET \in Word

(***************************************************************************)
(* Register indices, ADDR[4:2], and INT_STATUS bit positions.              *)
(***************************************************************************)
R_CTRL       == 0
R_STATUS     == 1
R_CONFIG     == 2
R_INT_ENABLE == 3
R_INT_STATUS == 4
R_SCRATCH    == 5
R_COUNTER    == 6
R_ID         == 7

CTRL_ENABLE      == 0
CTRL_RESET_STATS == 1

STATUS_BUSY  == 0
STATUS_ERROR == 1

UNIMPL   == 0
MISALIGN == 1
STROBE   == 2
OVERFLOW == 3

CONFIG_RESET == Bits(CONFIG_W)

(***************************************************************************)
(* Decode of the register slave.  Only ADDR[11:0] is looked at; ADDR[11:5] *)
(* must be zero, so 0x100 does not alias onto CTRL.                        *)
(***************************************************************************)
\* Mutant: only ADDR[7:5] is compared, so 0x100 aliases onto CTRL.
Implemented_Partial(addr) == (addr \div 32) % 8 = 0

Implemented(addr) == (addr \div 32) % 128 = 0
Index(addr)       == (addr \div 4) % 8

(***************************************************************************)
(* The error cascade as the set of INT_STATUS events an access raises:     *)
(* misaligned first, then unimplemented, then (writes only) a partial      *)
(* strobe.  At most one holds.                                             *)
(***************************************************************************)
ReadError(addr) ==
  IF Misaligned(addr) THEN {MISALIGN}
  ELSE IF ~Implemented(addr) THEN {UNIMPL}
  ELSE {}

WriteError(addr, strb) ==
  IF ReadError(addr) = {} /\ strb # Lanes THEN {STROBE} ELSE ReadError(addr)

Resp(error) == IF error = {} THEN OKAY ELSE SLVERR
=============================================================================
