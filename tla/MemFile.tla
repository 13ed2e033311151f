------------------------------- MODULE MemFile ------------------------------
(***************************************************************************)
(* What the memory slave promises software: an array of words behind one   *)
(* write port and one read port.  Each transaction takes effect all at     *)
(* once and its result waits at the port until it is taken; a reset takes  *)
(* the waiting results away and leaves the array as it is, so a write that *)
(* reset interrupts has happened entirely or not at all.                   *)
(***************************************************************************)
EXTENDS AxiLite, Sequences

CONSTANTS NUM_WORDS, Addrs, WBeats

VARIABLES
  store,   \* the array
  b,       \* <<>> or the write result waiting: <<[addr, beat, resp]>>
  r        \* <<>> or the read result waiting: <<[addr, data, resp]>>

fileVars == <<store, b, r>>

Init == store \in [Bits(NUM_WORDS) -> Word] /\ b = <<>> /\ r = <<>>

Cell(a) == (a \div 4) % NUM_WORDS
Answer(a) == IF Misaligned(a) THEN SLVERR ELSE OKAY

\* Byte lane a bit of a word travels on.
Lane(i) == (i * STRB_WIDTH) \div DATA_WIDTH

\* The array after a write: bits of strobed lanes come from the beat.
Written(a, beat) ==
  IF Misaligned(a) THEN store
  ELSE [store EXCEPT ![Cell(a)] =
          {i \in Bits(DATA_WIDTH) :
             IF Lane(i) \in beat.strb THEN i \in beat.data ELSE i \in @}]

Write(a, beat) ==
  /\ b = <<>> /\ b' = <<[addr |-> a, beat |-> beat, resp |-> Answer(a)]>>
  /\ store' = Written(a, beat)

Read(a) ==
  /\ r = <<>>
  /\ r' = <<[addr |-> a, resp |-> Answer(a),
             data |-> IF Misaligned(a) THEN {} ELSE store[Cell(a)]]>>

WritePort == b' = b \/ b' = <<>>
ReadPort  == r' = r \/ r' = <<>>

WriteAlone(a, beat)       == Write(a, beat) /\ ReadPort
ReadAlone(a)              == Read(a) /\ WritePort /\ store' = store
ReadThenWrite(a, beat, ra) == Read(ra) /\ Write(a, beat)
Take                      == WritePort /\ ReadPort /\ store' = store
Reset                     == b' = <<>> /\ r' = <<>> /\ store' = store

\* One edge of the clock.
Edge ==
  \/ \E a \in Addrs, beat \in WBeats :
       \/ WriteAlone(a, beat)
       \/ \E ra \in Addrs : ReadThenWrite(a, beat, ra)
  \/ \E ra \in Addrs : ReadAlone(ra)
  \/ Take

Next == Edge \/ Reset

Spec == Init /\ [][Next]_fileVars
=============================================================================
