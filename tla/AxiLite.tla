------------------------------- MODULE AxiLite ------------------------------
(***************************************************************************)
(* What every AXI4-Lite module of this repository shares: data words, byte *)
(* lanes and response codes.                                               *)
(*                                                                         *)
(* A data word is the set of its bit positions that are 1, so truncating   *)
(* to an implemented width is an intersection and a W1C clear a set        *)
(* difference.  An address is a natural number: the decodes slice it.      *)
(***************************************************************************)
EXTENDS Integers

CONSTANTS
  DATA_WIDTH,   \* bits of a data word (32)
  STRB_WIDTH    \* byte lanes of a data word (DATA_WIDTH / 8)

Bits(w) == 0 .. w - 1
Word    == SUBSET Bits(DATA_WIDTH)
Lanes   == Bits(STRB_WIDTH)
Strobe  == SUBSET Lanes

(***************************************************************************)
(* Response codes, RESP_* of the three RTL modules.                        *)
(***************************************************************************)
OKAY   == "OKAY"
SLVERR == "SLVERR"
DECERR == "DECERR"

Misaligned(addr) == addr % 4 # 0
=============================================================================
