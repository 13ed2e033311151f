---------------------------- MODULE AxiBusProofs ----------------------------
(***************************************************************************)
(* What the proofs about the two slaves and the interconnect share: one    *)
(* beat on a channel, and a queue of accepted beats that holds at most one.*)
(***************************************************************************)
EXTENDS AxiBus, TLAPS

(***************************************************************************)
(* Channels carry zero or one beat; these are the only facts about         *)
(* sequences the proofs need.                                              *)
(***************************************************************************)
LEMMA BeatFacts ==
  /\ \A x : Head(<<x>>) = x /\ Tail(<<x>>) = <<>> /\ <<x>> # <<>>
  /\ \A x : <<>> \o <<x>> = <<x>> /\ <<x>> \o <<>> = <<x>> /\ Len(<<x>>) = 1
  /\ <<>> \o <<>> = <<>> /\ Len(<<>>) = 0
  /\ \A x, y : <<x>> = <<y>> => x = y
  BY SMT

LEMMA OfferIsBeat ==
  ASSUME NEW S, NEW held \in Beats(S), NEW x \in Offer(held, S)
  PROVE  x \in Beats(S)
  BY DEF Offer, Beats

\* The inputs of one edge, typed.
Inputs(aw, w, bready, ar, rready) ==
  /\ aw \in Beats(Addrs) /\ w \in Beats(WBeats) /\ ar \in Beats(Addrs)
  /\ bready \in BOOLEAN /\ rready \in BOOLEAN

(***************************************************************************)
(* What is on the bus or in a latch is a payload of the right type.        *)
(***************************************************************************)
LEMMA PayloadType ==
  ASSUME BusAssumption,
         NEW aw \in Beats(Addrs), NEW w \in Beats(WBeats)
  PROVE  /\ aw # <<>> => aw = <<Head(aw)>> /\ Head(aw) \in Addrs /\ Head(aw) \in Nat
         /\ w # <<>> => /\ w = <<Head(w)>> /\ Head(w) \in WBeats
                        /\ Head(w).data \in Word /\ Head(w).strb \in Strobe
                        /\ Head(w) = [data |-> Head(w).data, strb |-> Head(w).strb]
  <1>1. ASSUME aw # <<>>
        PROVE  aw = <<Head(aw)>> /\ Head(aw) \in Addrs /\ Head(aw) \in Nat
    <2>1. PICK a \in Addrs : aw = <<a>>
      BY <1>1 DEF Beats
    <2> QED
      BY <2>1, BeatFacts DEF BusAssumption
  <1>2. ASSUME w # <<>>
        PROVE  /\ w = <<Head(w)>> /\ Head(w) \in WBeats
               /\ Head(w).data \in Word /\ Head(w).strb \in Strobe
               /\ Head(w) = [data |-> Head(w).data, strb |-> Head(w).strb]
    <2>1. PICK x \in WBeats : w = <<x>>
      BY <1>2 DEF Beats
    <2>2. x \in [data : Word, strb : Strobe]
      BY DEF BusAssumption
    <2> QED
      BY <2>1, <2>2, BeatFacts
  <1> QED
    BY <1>1, <1>2

LEMMA TrackType ==
  ASSUME NEW S, NEW q \in Beats(S), NEW x \in Beats(S), NEW taken \in BOOLEAN,
         taken => q # <<>>, x # <<>> => q = <<>>
  PROVE  Track(q, taken, x) \in Beats(S)
  <1>1. CASE q = <<>>
    <2>1. Track(q, taken, x) = <<>> \o x
      BY <1>1 DEF Track
    <2>2. <<>> \o x = x
      BY DEF Beats
    <2> QED
      BY <2>1, <2>2
  <1>2. CASE q # <<>>
    <2>1. PICK e \in S : q = <<e>>
      BY <1>2 DEF Beats
    <2>2. x = <<>>
      BY <1>2
    <2>3. CASE taken
      BY <2>1, <2>2, <2>3, BeatFacts DEF Track, Beats
    <2>4. CASE ~taken
      <3>1. Track(q, taken, x) = q \o <<>>
        BY <2>2, <2>4 DEF Track
      <3> QED
        BY <3>1, <2>1
    <2> QED
      BY <2>3, <2>4
  <1> QED
    BY <1>1, <1>2

=============================================================================
