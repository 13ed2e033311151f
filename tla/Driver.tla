------------------------------- MODULE Driver -------------------------------
(***************************************************************************)
(* tb/agent/axi_driver.sv: the thread that takes items from the sequencer, *)
(* the five channel threads behind their mailboxes, and the supervisor     *)
(* that kills the five when ARESETn falls and retires what they were       *)
(* doing.  At the other end of the bus is any slave that holds one write   *)
(* and one read at a time and answers with what it accepted.               *)
(*                                                                         *)
(* What takes no simulated time is one step: a thread is not interrupted   *)
(* between two of its event controls.  Items are known by their number in  *)
(* the order the sequencer hands them out; 0 is null, and a low pin.       *)
(***************************************************************************)
EXTENDS Naturals, FiniteSets, SequencesExt

CONSTANTS
  Programs,     \* what the sequences issue: sequences of [kind, from_ral]
  MaxResets     \* bound: times ARESETn falls

Kinds         == {"write", "read"}
Channels(k)   == IF k = "write" THEN {"aw", "w", "b"} ELSE {"ar", "r"}
AllChannels   == Channels("write") \cup Channels("read")
Response(k)   == IF k = "write" THEN "b" ELSE "r"
Kind(c)       == IF c \in Channels("write") THEN "write" ELSE "read"
Addressing    == AllChannels \ {"b", "r"}         \* aw, w and ar

ASSUME ProgramsAssumption ==
  Programs \subseteq Seq([kind : Kinds, from_ral : BOOLEAN])

VARIABLES
  program,        \* the items, in order
  completed,      \* [item -> BOOLEAN], and
  aborted,        \* the same
  taken,          \* items main_loop has got
  main_loop,      \* get_next_item, in dispatch at the slot, or waiting for the RAL item
  slot,           \* write_slot and read_slot
  queue,          \* aw_q .. r_q
  thread,         \* the channel threads
  cur,            \* cur_write and cur_read
  pin,            \* the item whose VALID (READY on b and r) is high
  supervisor, ARESETn,
  slave,          \* [aw, w, ar: the item accepted; b, r: is it answered]
  dispatched, aborts, seen,    \* per kind; seen is the monitor's count
  resets

itemVars  == <<program, completed, aborted, taken>>
slotVars  == <<slot, cur, dispatched, aborts>>
busVars   == <<pin, slave, seen>>
resetVars == <<supervisor, ARESETn, resets>>
vars      == <<itemVars, main_loop, slotVars, queue, thread, busVars, resetVars>>

Items == DOMAIN program

Null(S)  == [x \in S |-> 0]
Dead     == [pc |-> "dead", item |-> 0]
Getting  == [pc |-> "get", item |-> 0]
NoSlave  == [c \in AllChannels |-> IF c \in Addressing THEN 0 ELSE FALSE]

Init ==
  /\ program \in Programs
  /\ completed = [i \in Items |-> FALSE] /\ aborted = [i \in Items |-> FALSE]
  /\ taken = 0 /\ main_loop = "get"
  /\ slot = [k \in Kinds |-> 1] /\ cur = Null(Kinds)
  /\ queue = [c \in AllChannels |-> <<>>] /\ thread = [c \in AllChannels |-> Dead]
  /\ pin = Null(AllChannels) /\ slave = NoSlave
  /\ supervisor = "posedge" /\ ARESETn = FALSE
  /\ dispatched = Null(Kinds) /\ aborts = Null(Kinds) /\ seen = Null(Kinds)
  /\ resets = 0

-----------------------------------------------------------------------------
(* main_loop, which no reset kills.                                        *)

get_next_item ==
  /\ main_loop = "get" /\ taken < Len(program)
  /\ taken' = taken + 1 /\ main_loop' = "slot"
  /\ UNCHANGED <<program, completed, aborted, slotVars, queue, thread, busVars, resetVars>>

\* The slot of its kind, then a place in every mailbox of its kind.  item_done
\* follows at once, except for a RAL item.
dispatch ==
  LET t == program[taken]
  IN /\ main_loop = "slot" /\ slot[t.kind] > 0
     /\ slot' = [slot EXCEPT ![t.kind] = @ - 1]
     /\ dispatched' = [dispatched EXCEPT ![t.kind] = @ + 1]
     /\ cur' = [cur EXCEPT ![t.kind] = taken]
     /\ queue' = [c \in AllChannels |->
                    IF c \in Channels(t.kind) THEN Append(queue[c], taken) ELSE queue[c]]
     /\ main_loop' = IF t.from_ral THEN "ral" ELSE "get"
     /\ UNCHANGED <<itemVars, aborts, thread, busVars, resetVars>>

ral_done ==
  /\ main_loop = "ral" /\ completed[taken]
  /\ main_loop' = "get"
  /\ UNCHANGED <<itemVars, slotVars, queue, thread, busVars, resetVars>>

-----------------------------------------------------------------------------
(* The channel threads: from the mailbox, over the programmed delay, to    *)
(* the handshake.                                                          *)

get(c) ==
  /\ thread[c].pc = "get" /\ queue[c] # <<>>
  /\ thread' = [thread EXCEPT ![c] = [pc |-> "delay", item |-> Head(queue[c])]]
  /\ queue' = [queue EXCEPT ![c] = Tail(@)]
  /\ UNCHANGED <<itemVars, main_loop, slotVars, busVars, resetVars>>

drive(c) ==
  /\ thread[c].pc = "delay"
  /\ thread' = [thread EXCEPT ![c].pc = "handshake"]
  /\ pin' = [pin EXCEPT ![c] = thread[c].item]
  /\ UNCHANGED <<itemVars, main_loop, slotVars, queue, slave, seen, resetVars>>

\* AWREADY, WREADY or ARREADY is sampled high.
accepted(c) ==
  /\ thread[c].pc = "handshake" /\ c \in Addressing
  /\ slave[c] = 0
  /\ slave' = [slave EXCEPT ![c] = pin[c]]
  /\ thread' = [thread EXCEPT ![c] = Getting]
  /\ pin' = [pin EXCEPT ![c] = 0]
  /\ UNCHANGED <<itemVars, main_loop, slotVars, queue, seen, resetVars>>

\* The slave raises BVALID once it has both halves, RVALID once it has AR.
answers(k) ==
  /\ ~slave[Response(k)]
  /\ \A c \in Channels(k) \cap Addressing : slave[c] # 0
  /\ slave' = [slave EXCEPT ![Response(k)] = TRUE]
  /\ UNCHANGED <<itemVars, main_loop, slotVars, queue, thread, pin, seen, resetVars>>

\* BVALID or RVALID is sampled high.
completes(k) ==
  LET c == Response(k) t == thread[c].item
  IN /\ thread[c].pc = "handshake" /\ slave[c]
     /\ completed' = [completed EXCEPT ![t] = TRUE]
     /\ cur' = [cur EXCEPT ![k] = 0]
     /\ slot' = [slot EXCEPT ![k] = @ + 1]
     /\ thread' = [thread EXCEPT ![c] = Getting]
     /\ pin' = [pin EXCEPT ![c] = 0]
     /\ slave' = [x \in AllChannels |->
                    IF x \notin Channels(k) THEN slave[x] ELSE NoSlave[x]]
     /\ seen' = [seen EXCEPT ![k] = @ + 1]
     /\ UNCHANGED <<program, aborted, taken, main_loop, queue, dispatched, aborts, resetVars>>

-----------------------------------------------------------------------------
(* Reset.                                                                  *)

\* The supervisor kills the threads where they are, the pins stay as they are,
\* and the slave forgets.
ARESETn_falls ==
  /\ ARESETn /\ resets < MaxResets
  /\ ARESETn' = FALSE /\ resets' = resets + 1
  /\ supervisor' = "on_reset"
  /\ thread' = [c \in AllChannels |-> Dead]
  /\ slave' = NoSlave
  /\ UNCHANGED <<itemVars, main_loop, slotVars, queue, pin, seen>>

\* Waiting in the mailbox of the response channel.
queued(k) == ToSet(queue[Response(k)])

\* Mutant: only what the mailboxes hold is retired.
dequeued_None(k) == {}

\* Dequeued by the thread that is dead now.
dequeued(k) == IF cur[k] # 0 /\ ~completed[cur[k]] THEN {cur[k]} ELSE {}

Retired(k) == queued(k) \cup dequeued(k)

\* Mutant: the beats waiting in the other mailboxes stay.
left_Beats(c) == IF c \in Addressing THEN queue[c] ELSE <<>>

left(c) == <<>>

\* Mutant: a bare put.
released_Put(n) == n + 1

\* try_get, then put.
released(n) == (IF n > 0 THEN n - 1 ELSE n) + 1

\* One clock after ARESETn fell: the wait inside drive_idle.
on_reset ==
  LET R == Retired("write") \cup Retired("read")
  IN /\ supervisor = "on_reset"
     /\ supervisor' = "posedge"
     /\ pin' = Null(AllChannels)
     /\ queue' = [c \in AllChannels |-> left(c)]
     /\ completed' = [i \in Items |-> completed[i] \/ i \in R]
     /\ aborted' = [i \in Items |-> aborted[i] \/ i \in R]
     /\ aborts' = [k \in Kinds |-> aborts[k] + Cardinality(Retired(k))]
     /\ cur' = Null(Kinds)
     /\ slot' = [k \in Kinds |-> released(slot[k])]
     /\ UNCHANGED <<program, taken, main_loop, dispatched, thread, slave, seen,
                    ARESETn, resets>>

\* ARESETn stays low for five clocks, so it rises after on_reset, and the
\* supervisor starts the threads.
ARESETn_rises ==
  /\ supervisor = "posedge"
  /\ ARESETn' = TRUE
  /\ supervisor' = "run"
  /\ thread' = [c \in AllChannels |-> Getting]
  /\ UNCHANGED <<itemVars, main_loop, slotVars, queue, busVars, resets>>

-----------------------------------------------------------------------------
Main      == dispatch \/ ral_done
Thread(c) == get(c) \/ drive(c) \/ accepted(c)

Next ==
  \/ get_next_item \/ Main
  \/ \E c \in AllChannels : Thread(c)
  \/ \E k \in Kinds : answers(k) \/ completes(k)
  \/ ARESETn_falls \/ on_reset \/ ARESETn_rises

\* Every thread gets its turn when the clock runs, and the slave is one that
\* accepts and answers.
Spec ==
  /\ Init /\ [][Next]_vars
  /\ WF_vars(Main) /\ WF_vars(on_reset) /\ WF_vars(ARESETn_rises)
  /\ \A c \in AllChannels : WF_vars(Thread(c))
  /\ \A k \in Kinds : WF_vars(answers(k)) /\ WF_vars(completes(k))

-----------------------------------------------------------------------------
TypeOK ==
  /\ taken \in 0 .. Len(program) /\ main_loop \in {"get", "slot", "ral"}
  /\ slot \in [Kinds -> {0, 1}] /\ cur \in [Kinds -> 0 .. taken]
  /\ \A c \in AllChannels : Len(queue[c]) <= 1 /\ ToSet(queue[c]) \subseteq Items
  /\ supervisor \in {"run", "on_reset", "posedge"} /\ ARESETn \in BOOLEAN

\* Dispatched and not answered.
InFlight(k) ==
  {i \in 1 .. taken : /\ program[i].kind = k /\ ~completed[i]
                      /\ i = taken => main_loop # "slot"}

(***************************************************************************)
(* Over any number of resets, wherever they fall: a slot is free exactly   *)
(* when nothing of its kind is in flight, so there is never a second       *)
(* transaction of a kind; and every dispatched transaction is in flight,   *)
(* was seen by the monitor, or is counted as aborted, each exactly once    *)
(* (dispatch, on_reset; the end-of-test comparison with the monitor).      *)
(***************************************************************************)
Accounted ==
  /\ TypeOK
  /\ \A k \in Kinds :
       /\ slot[k] + Cardinality(InFlight(k)) = 1
       /\ dispatched[k] = seen[k] + aborts[k] + Cardinality(InFlight(k))
       /\ aborts[k] = Cardinality({i \in Items : aborted[i] /\ program[i].kind = k})

(***************************************************************************)
(* While the channels run, every beat waiting, on the bus or accepted      *)
(* belongs to the transaction in flight: a dead transaction never reaches  *)
(* the slave, and a response is stored in the transaction whose halves the *)
(* slave answered (the drained mailboxes, cur_write and cur_read).         *)
(***************************************************************************)
BeatsAreLive ==
  supervisor = "run" =>
    \A k \in Kinds : \A c \in Channels(k) :
      /\ ToSet(queue[c]) \cup {thread[c].item, pin[c]} \subseteq InFlight(k) \cup {0}
      /\ c \in Addressing => slave[c] \in InFlight(k) \cup {0}

(***************************************************************************)
(* Every item the driver takes is answered, whatever resets do to it: no   *)
(* sequence waits for `completed' for ever and no RAL access blocks the    *)
(* sequencer (BUG-014).                                                    *)
(***************************************************************************)
EveryItemAnswered ==
  \A i \in UNION {DOMAIN p : p \in Programs} :
    taken >= i ~> i \in Items /\ completed[i]
=============================================================================
