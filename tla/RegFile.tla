------------------------------- MODULE RegFile ------------------------------
(***************************************************************************)
(* What the register slave promises software: a bank of registers behind   *)
(* one write port and one read port, where each transaction takes effect   *)
(* all at once, by the rules of the scoreboard's reference model, and its  *)
(* result waits at the port until it is taken.  A write and a read that    *)
(* take effect together look as if one came after the other, in an order   *)
(* nobody controls.                                                        *)
(*                                                                         *)
(* STATUS and COUNTER move with the clock and not with transactions, so    *)
(* their values are left open here, and so is INT_STATUS.overflow.         *)
(***************************************************************************)
EXTENDS RefModel, Sequences

CONSTANTS Addrs, WBeats

VARIABLES
  bank,   \* [ctrl_enable, config, int_enable, int_status, scratch]
  b,      \* <<>> or the write result waiting: <<[addr, beat, resp]>>
  r       \* <<>> or the read result waiting: <<[addr, data, resp]>>

fileVars == <<bank, b, r>>

ResetBank ==
  [ctrl_enable |-> FALSE, config |-> CONFIG_RESET, int_enable |-> {},
   int_status |-> {}, scratch |-> {}]

Init == bank = ResetBank /\ b = <<>> /\ r = <<>>

WriteResult(a, beat) ==
  [addr |-> a, beat |-> beat, resp |-> exp_resp(write_event(a, beat))]
ReadResult(a, data) ==
  [addr |-> a, data |-> data, resp |-> exp_resp(read_event(a))]

WritePort == b' = b \/ b' = <<>>
ReadPort  == r' = r \/ r' = <<>>

Write(a, beat) == b = <<>> /\ b' = <<WriteResult(a, beat)>>
Read(m, a) ==
  r = <<>> /\ \E data \in plain_data(m, a) : r' = <<ReadResult(a, data)>>

WriteAlone(a, beat) ==
  Write(a, beat) /\ bank' = model_write(bank, a, beat) /\ ReadPort

ReadAlone(a) == Read(bank, a) /\ bank' = model_read(bank, a) /\ WritePort

WriteThenRead(a, beat, ra) ==
  /\ Write(a, beat)
  /\ Read(model_write(bank, a, beat), ra)
  /\ bank' = model_read(model_write(bank, a, beat), ra)

ReadThenWrite(a, beat, ra) ==
  /\ Write(a, beat)
  /\ Read(bank, ra)
  /\ bank' = model_write(model_read(bank, ra), a, beat)

Take == WritePort /\ ReadPort /\ bank' = bank

Reset == bank' = ResetBank /\ b' = <<>> /\ r' = <<>>

\* One edge of the clock.
Edge ==
  \/ \E a \in Addrs, beat \in WBeats :
       \/ WriteAlone(a, beat)
       \/ \E ra \in Addrs :
            WriteThenRead(a, beat, ra) \/ ReadThenWrite(a, beat, ra)
  \/ \E ra \in Addrs : ReadAlone(ra)
  \/ Take

Next == Edge \/ Reset

Spec == Init /\ [][Next]_fileVars
=============================================================================
