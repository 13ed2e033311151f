---------------------------- MODULE DriverProofs ----------------------------
(***************************************************************************)
(* The driver's bookkeeping over resets, for programs of any length and    *)
(* any number of resets: one transaction of a kind is in flight at most,   *)
(* it is cur_write or cur_read, and everything the driver and the slave    *)
(* hold belongs to it.                                                     *)
(***************************************************************************)
EXTENDS Driver, FiniteSetTheorems, TLAPS

ItemType == [kind : Kinds, from_ral : BOOLEAN]
Numbers  == 0 .. Len(program)

DriverTypes ==
  /\ program \in Seq(ItemType)
  /\ completed \in [Items -> BOOLEAN] /\ aborted \in [Items -> BOOLEAN]
  /\ taken \in Numbers /\ main_loop \in {"get", "slot", "ral"}
  /\ main_loop # "get" => taken # 0
  /\ slot \in [Kinds -> {0, 1}] /\ cur \in [Kinds -> Numbers]
  /\ queue = [c \in AllChannels |-> queue[c]]
  /\ thread \in [AllChannels -> [pc : {"dead", "get", "delay", "handshake"}, item : Numbers]]
  /\ pin \in [AllChannels -> Numbers]
  /\ slave = [c \in AllChannels |-> slave[c]]
  /\ supervisor \in {"run", "on_reset", "posedge"} /\ ARESETn \in BOOLEAN
  /\ dispatched \in [Kinds -> Nat] /\ aborts \in [Kinds -> Nat] /\ seen \in [Kinds -> Nat]

\* Nothing is completed before it is dispatched.
NotYet ==
  /\ \A i \in Items : i > taken \/ (i = taken /\ main_loop = "slot") => ~completed[i]
  /\ \A i \in Items : aborted[i] => completed[i]

\* The transaction in flight is the current one of its kind.
OneInFlight ==
  \A k \in Kinds :
    \/ slot[k] = 1 /\ cur[k] = 0 /\ InFlight(k) = {}
    \/ slot[k] = 0 /\ cur[k] # 0 /\ InFlight(k) = {cur[k]}

\* Where it is, on each of its channels.
Queued ==
  \A c \in AllChannels :
    queue[c] = <<>> \/ (cur[Kind(c)] # 0 /\ queue[c] = <<cur[Kind(c)]>>)

Threads ==
  \A c \in AllChannels :
    /\ supervisor # "run" <=> thread[c].pc = "dead"
    /\ thread[c].pc \in {"dead", "get"} => thread[c].item = 0
    /\ thread[c].pc \in {"delay", "handshake"} =>
         /\ thread[c].item = cur[Kind(c)] /\ cur[Kind(c)] # 0
         /\ queue[c] = <<>>
         /\ c \in Addressing => slave[c] = 0

Pins ==
  \A c \in AllChannels :
    /\ pin[c] \in {0, cur[Kind(c)]}
    /\ supervisor = "posedge" => pin[c] = 0
    /\ supervisor = "run" => IF thread[c].pc = "handshake" THEN pin[c] = cur[Kind(c)]
                                                           ELSE pin[c] = 0

Slave ==
  /\ supervisor # "run" => slave = NoSlave
  /\ \A c \in Addressing :
       /\ slave[c] \in {0, cur[Kind(c)]}
       /\ slave[c] # 0 => queue[c] = <<>> /\ thread[c].pc = "get"
  /\ \A k \in Kinds :
       /\ slave[Response(k)] \in BOOLEAN
       /\ slave[Response(k)] => \A c \in Channels(k) \cap Addressing : slave[c] # 0

AbortedOf(k) == {i \in Items : aborted[i] /\ program[i].kind = k}

Counted ==
  \A k \in Kinds :
    /\ dispatched[k] = seen[k] + aborts[k] + (1 - slot[k])
    /\ aborts[k] = Cardinality(AbortedOf(k))

DriverInv ==
  /\ DriverTypes /\ NotYet /\ OneInFlight /\ Queued /\ Threads /\ Pins /\ Slave /\ Counted

-----------------------------------------------------------------------------
LEMMA ChannelFacts ==
  /\ \A k \in Kinds : Channels(k) \subseteq AllChannels /\ Response(k) \in Channels(k)
                      /\ Response(k) \notin Addressing
  /\ \A c \in AllChannels : Kind(c) \in Kinds
  /\ \A c \in AllChannels, k \in Kinds : c \in Channels(k) <=> Kind(c) = k
  /\ \A c \in AllChannels : c \in Addressing \/ c = Response(Kind(c))
  /\ \A k \in Kinds : Kind(Response(k)) = k
  /\ Addressing \subseteq AllChannels
  BY DEF Kinds, Channels, AllChannels, Response, Kind, Addressing

LEMMA ResponseOnly ==
  ASSUME NEW k \in Kinds, NEW c \in AllChannels, c \notin Addressing, Kind(c) = k
  PROVE  c = Response(k)
  BY ChannelFacts

LEMMA ItemFacts ==
  ASSUME program \in Seq(ItemType)
  PROVE  /\ Len(program) \in Nat /\ Items = 1 .. Len(program)
         /\ \A i \in Items : program[i].kind \in Kinds /\ program[i].from_ral \in BOOLEAN
         /\ IsFiniteSet(Items)
         /\ \A k : IsFiniteSet(AbortedOf(k))
  <1>1. Len(program) \in Nat /\ Items = 1 .. Len(program)
    BY DEF Items
  <1>2. \A i \in Items : program[i] \in ItemType
    BY <1>1
  <1>3. \A i \in Items : program[i].kind \in Kinds /\ program[i].from_ral \in BOOLEAN
    BY <1>2 DEF ItemType
  <1>4. IsFiniteSet(Items)
    BY <1>1, FS_Interval
  <1>5. \A k : AbortedOf(k) \subseteq Items
    BY DEF AbortedOf
  <1> QED
    BY <1>1, <1>3, <1>4, <1>5, FS_Subset

LEMMA InFlightFacts ==
  ASSUME program \in Seq(ItemType), taken \in Numbers, NEW k
  PROVE  InFlight(k) \subseteq Items
         /\ \A i \in Items : i \in InFlight(k) <=>
              /\ i <= taken /\ program[i].kind = k /\ ~completed[i]
              /\ i = taken => main_loop # "slot"
  BY ItemFacts DEF InFlight, Numbers

LEMMA DriverStarts ==
  ASSUME ProgramsAssumption, Init
  PROVE  DriverInv
  <1> USE DEF Init
  <1>1. program \in Seq(ItemType)
    BY DEF ProgramsAssumption, ItemType
  <1>2. 0 \in Numbers
    BY <1>1, ItemFacts DEF Numbers
  <1>3. /\ \A k \in Kinds : cur[k] = 0 /\ dispatched[k] = 0 /\ aborts[k] = 0 /\ seen[k] = 0
        /\ \A c \in AllChannels : pin[c] = 0 /\ thread[c] = Dead
    BY DEF Null
  <1>4. DriverTypes
    BY <1>1, <1>2 DEF DriverTypes, Null, Dead, NoSlave, Items
  <1>5. NotYet
    BY DEF NotYet
  <1>6. \A k \in Kinds : InFlight(k) = {}
    BY <1>1 DEF InFlight
  <1>7. OneInFlight
    BY <1>3, <1>6 DEF OneInFlight
  <1>8. Queued /\ Threads /\ Pins
    BY <1>3, ChannelFacts DEF Queued, Threads, Pins, Dead
  <1>9. Slave
    BY ChannelFacts DEF Slave, NoSlave
  <1>10. \A k \in Kinds : AbortedOf(k) = {}
    BY DEF AbortedOf
  <1>11. \A k \in Kinds : slot[k] = 1
    OBVIOUS
  <1>12. Counted
    <2> HIDE DEF Init
    <2>1. Cardinality({}) = 0
      BY FS_EmptySet
    <2>2. \A k \in Kinds : Cardinality(AbortedOf(k)) = 0
      BY <1>10, <2>1
    <2> QED
      BY <1>3, <1>11, <2>2 DEF Counted
  <1> QED
    BY <1>4, <1>5, <1>7, <1>8, <1>9, <1>12 DEF DriverInv

-----------------------------------------------------------------------------
(* The channel threads move the transaction in flight along and leave the  *)
(* books alone.                                                            *)

LEMMA BooksStand ==
  ASSUME DriverInv, UNCHANGED <<itemVars, main_loop, slotVars, seen>>
  PROVE  NotYet' /\ OneInFlight' /\ Counted'
  <1>1. Items' = Items /\ (\A k : InFlight(k)' = InFlight(k)) /\ \A k : AbortedOf(k)' = AbortedOf(k)
    BY DEF Items, InFlight, AbortedOf, itemVars
  <1> QED
    BY <1>1 DEF DriverInv, NotYet, OneInFlight, Counted, itemVars, slotVars

LEMMA GetKeeps ==
  ASSUME DriverInv, NEW c \in AllChannels, get(c)
  PROVE  DriverInv'
  <1>1. /\ thread[c].pc = "get" /\ queue[c] # <<>>
        /\ thread' = [thread EXCEPT ![c] = [pc |-> "delay", item |-> Head(queue[c])]]
        /\ queue' = [queue EXCEPT ![c] = Tail(@)]
        /\ UNCHANGED <<itemVars, main_loop, slotVars, busVars, resetVars>>
    BY DEF get
  <1>2. UNCHANGED <<program, completed, aborted, taken, main_loop, slot, cur, dispatched, aborts,
                    pin, slave, seen, supervisor, ARESETn>>
    BY <1>1 DEF itemVars, slotVars, busVars, resetVars
  <1>3. cur[Kind(c)] # 0 /\ queue[c] = <<cur[Kind(c)]>>
    BY <1>1 DEF DriverInv, Queued
  <1>4. Head(queue[c]) = cur[Kind(c)] /\ Tail(queue[c]) = <<>>
    BY <1>3
  <1>5. /\ queue'[c] = <<>> /\ thread'[c] = [pc |-> "delay", item |-> cur[Kind(c)]]
        /\ \A x \in AllChannels : x # c => queue'[x] = queue[x] /\ thread'[x] = thread[x]
        /\ queue' = [x \in AllChannels |-> queue'[x]]
    BY <1>1, <1>4 DEF DriverInv, DriverTypes
  <1>6. DriverTypes'
    <2>1. cur[Kind(c)] \in Numbers
      BY ChannelFacts DEF DriverInv, DriverTypes
    <2>2. thread' = [thread EXCEPT ![c] = [pc |-> "delay", item |-> cur[Kind(c)]]]
      BY <1>1, <1>4
    <2>3. thread' \in [AllChannels -> [pc : {"dead", "get", "delay", "handshake"}, item : Numbers]]
      BY <2>1, <2>2 DEF DriverInv, DriverTypes
    <2> QED
      BY <1>2, <1>5, <2>3 DEF DriverInv, DriverTypes, Items, Numbers
  <1>7. Queued'
    BY <1>2, <1>5 DEF DriverInv, Queued
  <1>8. c \in Addressing => slave[c] = 0
    BY <1>1 DEF DriverInv, Slave
  <1>9. Threads'
    BY <1>1, <1>2, <1>3, <1>5, <1>8 DEF DriverInv, Threads
  <1>10. Pins'
    BY <1>1, <1>2, <1>5 DEF DriverInv, Pins
  <1>11. Slave'
    BY <1>2, <1>5, <1>8, ChannelFacts DEF DriverInv, Slave
  <1>12. NotYet' /\ OneInFlight' /\ Counted'
    BY <1>1, BooksStand DEF busVars
  <1> QED
    BY <1>6, <1>7, <1>9, <1>10, <1>11, <1>12 DEF DriverInv

LEMMA DriveKeeps ==
  ASSUME DriverInv, NEW c \in AllChannels, drive(c)
  PROVE  DriverInv'
  <1>1. /\ thread[c].pc = "delay"
        /\ thread' = [thread EXCEPT ![c].pc = "handshake"]
        /\ pin' = [pin EXCEPT ![c] = thread[c].item]
        /\ UNCHANGED <<itemVars, main_loop, slotVars, queue, slave, seen, resetVars>>
    BY DEF drive
  <1>2. UNCHANGED <<program, completed, aborted, taken, main_loop, slot, cur, dispatched, aborts,
                    queue, slave, seen, supervisor, ARESETn>>
    BY <1>1 DEF itemVars, slotVars, resetVars
  <1>3. thread[c].item = cur[Kind(c)] /\ supervisor = "run"
    BY <1>1 DEF DriverInv, Threads
  <1>4. /\ thread'[c].pc = "handshake" /\ thread'[c].item = cur[Kind(c)]
        /\ pin'[c] = cur[Kind(c)]
        /\ \A x \in AllChannels : x # c => pin'[x] = pin[x] /\ thread'[x] = thread[x]
    BY <1>1, <1>3 DEF DriverInv, DriverTypes
  <1>5. DriverTypes'
    BY <1>1, <1>2 DEF DriverInv, DriverTypes, Items, Numbers
  <1>6. Queued'
    BY <1>2 DEF DriverInv, Queued
  <1>7. Threads'
    BY <1>1, <1>2, <1>3, <1>4 DEF DriverInv, Threads
  <1>8. Pins'
    BY <1>2, <1>3, <1>4 DEF DriverInv, Pins
  <1>9. Slave'
    BY <1>1, <1>2, <1>4, ChannelFacts DEF DriverInv, Slave
  <1>10. NotYet' /\ OneInFlight' /\ Counted'
    BY <1>1, BooksStand
  <1> QED
    BY <1>5, <1>6, <1>7, <1>8, <1>9, <1>10 DEF DriverInv

LEMMA AcceptedKeeps ==
  ASSUME DriverInv, NEW c \in AllChannels, accepted(c)
  PROVE  DriverInv'
  <1>1. /\ thread[c].pc = "handshake" /\ c \in Addressing /\ slave[c] = 0
        /\ slave' = [slave EXCEPT ![c] = pin[c]]
        /\ thread' = [thread EXCEPT ![c] = Getting]
        /\ pin' = [pin EXCEPT ![c] = 0]
        /\ UNCHANGED <<itemVars, main_loop, slotVars, queue, seen, resetVars>>
    BY DEF accepted
  <1>2. UNCHANGED <<program, completed, aborted, taken, main_loop, slot, cur, dispatched, aborts,
                    queue, seen, supervisor, ARESETn>>
    BY <1>1 DEF itemVars, slotVars, resetVars
  <1>3. supervisor = "run" /\ queue[c] = <<>> /\ pin[c] = cur[Kind(c)] /\ cur[Kind(c)] # 0
    BY <1>1 DEF DriverInv, Threads, Pins
  <1>4. /\ slave'[c] = cur[Kind(c)] /\ pin'[c] = 0 /\ thread'[c].pc = "get" /\ thread'[c].item = 0
        /\ \A x \in AllChannels : x # c =>
             pin'[x] = pin[x] /\ thread'[x] = thread[x] /\ slave'[x] = slave[x]
        /\ slave' = [x \in AllChannels |-> slave'[x]]
    BY <1>1, <1>3 DEF DriverInv, DriverTypes, Getting
  <1>5. DriverTypes'
    <2>1. 0 \in Numbers
      BY ItemFacts DEF DriverInv, DriverTypes, Numbers
    <2> QED
      BY <1>1, <1>2, <1>4, <2>1 DEF DriverInv, DriverTypes, Items, Numbers, Getting
  <1>6. Queued'
    BY <1>2 DEF DriverInv, Queued
  <1>7. Threads'
    BY <1>2, <1>3, <1>4 DEF DriverInv, Threads
  <1>8. Pins'
    BY <1>2, <1>3, <1>4 DEF DriverInv, Pins
  <1>9. Slave'
    <2>1. \A x \in Addressing :
            /\ slave'[x] \in {0, cur'[Kind(x)]}
            /\ slave'[x] # 0 => queue'[x] = <<>> /\ thread'[x].pc = "get"
      BY <1>2, <1>3, <1>4, ChannelFacts DEF DriverInv, Slave
    <2>2. \A k \in Kinds : slave'[Response(k)] = slave[Response(k)]
      BY <1>1, <1>4, ChannelFacts
    <2>3. \A x \in Addressing : slave[x] # 0 => slave'[x] # 0
      BY <1>3, <1>4, ChannelFacts
    <2> QED
      BY <1>2, <1>3, <2>1, <2>2, <2>3 DEF DriverInv, Slave
  <1>10. NotYet' /\ OneInFlight' /\ Counted'
    BY <1>1, BooksStand
  <1> QED
    BY <1>5, <1>6, <1>7, <1>8, <1>9, <1>10 DEF DriverInv

LEMMA AnswersKeep ==
  ASSUME DriverInv, NEW k \in Kinds, answers(k)
  PROVE  DriverInv'
  <1>1. /\ \A c \in Channels(k) \cap Addressing : slave[c] # 0
        /\ slave' = [slave EXCEPT ![Response(k)] = TRUE]
        /\ UNCHANGED <<itemVars, main_loop, slotVars, queue, thread, pin, seen, resetVars>>
    BY DEF answers
  <1>2. UNCHANGED <<program, completed, aborted, taken, main_loop, slot, cur, dispatched, aborts,
                    queue, thread, pin, seen, supervisor, ARESETn>>
    BY <1>1 DEF itemVars, slotVars, resetVars
  <1>3. /\ slave'[Response(k)] = TRUE
        /\ \A x \in AllChannels : x # Response(k) => slave'[x] = slave[x]
        /\ slave' = [x \in AllChannels |-> slave'[x]]
    BY <1>1, ChannelFacts DEF DriverInv, DriverTypes
  <1>4. \A x \in Addressing : slave'[x] = slave[x]
    BY <1>3, ChannelFacts
  <1>5. \E x \in Addressing : slave[x] # 0
    BY <1>1 DEF Channels, Addressing, AllChannels, Kinds
  <1>6. supervisor = "run"
    BY <1>5, ChannelFacts DEF DriverInv, DriverTypes, Slave, NoSlave
  <1>7. DriverTypes'
    BY <1>2, <1>3 DEF DriverInv, DriverTypes, Items, Numbers
  <1>8. Queued' /\ Pins'
    BY <1>2 DEF DriverInv, Queued, Pins
  <1>9. Threads'
    BY <1>2, <1>4 DEF DriverInv, Threads
  <1>10. Slave'
    <2>1. \A j \in Kinds :
            /\ slave'[Response(j)] \in BOOLEAN
            /\ slave'[Response(j)] => \A c \in Channels(j) \cap Addressing : slave'[c] # 0
      <3> SUFFICES ASSUME NEW j \in Kinds
                   PROVE  /\ slave'[Response(j)] \in BOOLEAN
                          /\ slave'[Response(j)] =>
                               \A c \in Channels(j) \cap Addressing : slave'[c] # 0
        OBVIOUS
      <3>1. CASE j = k
        BY <1>1, <1>3, <1>4, <3>1
      <3>2. CASE j # k
        <4>1. Response(j) # Response(k) /\ Response(j) \in AllChannels
          BY <3>2, ChannelFacts
        <4> QED
          BY <1>3, <1>4, <4>1 DEF DriverInv, Slave
      <3> QED
        BY <3>1, <3>2
    <2> QED
      BY <1>2, <1>4, <1>6, <2>1 DEF DriverInv, Slave
  <1>11. NotYet' /\ OneInFlight' /\ Counted'
    BY <1>1, BooksStand
  <1> QED
    BY <1>7, <1>8, <1>9, <1>10, <1>11 DEF DriverInv

-----------------------------------------------------------------------------
(* main_loop.                                                              *)

LEMMA GetItemKeeps ==
  ASSUME DriverInv, get_next_item
  PROVE  DriverInv'
  <1>1. /\ main_loop = "get" /\ taken < Len(program)
        /\ taken' = taken + 1 /\ main_loop' = "slot"
        /\ UNCHANGED <<program, completed, aborted, slotVars, queue, thread, busVars, resetVars>>
    BY DEF get_next_item
  <1>2. UNCHANGED <<program, completed, aborted, slot, cur, dispatched, aborts, queue, thread,
                    pin, slave, seen, supervisor, ARESETn>>
    BY <1>1 DEF slotVars, busVars, resetVars
  <1>3. program \in Seq(ItemType) /\ taken \in Numbers
    BY DEF DriverInv, DriverTypes
  <1>4. Len(program) \in Nat /\ Items = 1 .. Len(program) /\ Items' = Items
    BY <1>1, <1>3, ItemFacts DEF Items
  <1>5. taken' \in Numbers /\ taken' # 0 /\ Numbers' = Numbers
    BY <1>1, <1>3, <1>4 DEF Numbers
  <1>6. DriverTypes'
    BY <1>1, <1>2, <1>4, <1>5 DEF DriverInv, DriverTypes
  <1>7. NotYet'
    BY <1>1, <1>2, <1>3, <1>4 DEF DriverInv, NotYet, Numbers
  <1>8. \A k : InFlight(k)' = InFlight(k)
    BY <1>1, <1>2, <1>3, <1>4 DEF DriverInv, NotYet, InFlight, Numbers
  <1>9. OneInFlight'
    BY <1>2, <1>8 DEF DriverInv, OneInFlight
  <1>10. Queued' /\ Threads' /\ Pins' /\ Slave'
    BY <1>2 DEF DriverInv, Queued, Threads, Pins, Slave
  <1>11. Counted'
    BY <1>2, <1>4 DEF DriverInv, Counted, AbortedOf
  <1> QED
    BY <1>6, <1>7, <1>9, <1>10, <1>11 DEF DriverInv

\* With its slot free, nothing of the item's kind is left anywhere.
LEMMA SlotFree ==
  ASSUME DriverInv, NEW k \in Kinds, slot[k] # 0
  PROVE  /\ slot[k] = 1 /\ cur[k] = 0 /\ InFlight(k) = {}
         /\ \A c \in Channels(k) :
              /\ queue[c] = <<>> /\ pin[c] = 0
              /\ thread[c].pc \in {"dead", "get"} /\ thread[c].item = 0
              /\ c \in Addressing => slave[c] = 0
         /\ slave[Response(k)] = FALSE
  <1>1. slot[k] = 1 /\ cur[k] = 0 /\ InFlight(k) = {}
    BY DEF DriverInv, OneInFlight
  <1>2. \A c \in Channels(k) : c \in AllChannels /\ Kind(c) = k
    BY ChannelFacts
  <1>3. \A c \in Channels(k) :
          /\ queue[c] = <<>> /\ pin[c] = 0
          /\ thread[c].pc \in {"dead", "get"} /\ thread[c].item = 0
          /\ c \in Addressing => slave[c] = 0
    BY <1>1, <1>2 DEF DriverInv, DriverTypes, Queued, Pins, Threads, Slave
  <1>4. \E c \in Channels(k) : c \in Addressing
    BY DEF Channels, Addressing, AllChannels, Kinds
  <1>5. slave[Response(k)] = FALSE
    BY <1>3, <1>4 DEF DriverInv, Slave
  <1> QED
    BY <1>1, <1>3, <1>5

LEMMA DispatchKeeps ==
  ASSUME DriverInv, dispatch
  PROVE  DriverInv'
  <1>1. main_loop = "slot" /\ program \in Seq(ItemType) /\ taken \in Numbers /\ taken # 0
    BY DEF dispatch, DriverInv, DriverTypes
  <1>2. PICK k \in Kinds : k = program[taken].kind
    <2>1. taken \in Items
      BY <1>1, ItemFacts DEF Numbers
    <2> QED
      BY <1>1, <2>1, ItemFacts
  <1>3. /\ main_loop = "slot" /\ slot[k] > 0
        /\ slot' = [slot EXCEPT ![k] = @ - 1]
        /\ dispatched' = [dispatched EXCEPT ![k] = @ + 1]
        /\ cur' = [cur EXCEPT ![k] = taken]
        /\ queue' = [c \in AllChannels |->
                       IF c \in Channels(k) THEN Append(queue[c], taken) ELSE queue[c]]
        /\ main_loop' \in {"ral", "get"}
        /\ UNCHANGED <<itemVars, aborts, thread, busVars, resetVars>>
    BY <1>2 DEF dispatch
  <1>4. UNCHANGED <<program, completed, aborted, taken, aborts, thread, pin, slave, seen,
                    supervisor, ARESETn>>
    BY <1>3 DEF itemVars, busVars, resetVars
  <1>5. taken \in Items /\ Len(program) \in Nat /\ Items = 1 .. Len(program)
        /\ Items' = Items /\ Numbers' = Numbers
    BY <1>4, <1>1, ItemFacts DEF Numbers, Items
  <1>6. slot[k] = 1 /\ cur[k] = 0 /\ InFlight(k) = {}
        /\ \A c \in Channels(k) :
              /\ queue[c] = <<>> /\ pin[c] = 0
              /\ thread[c].pc \in {"dead", "get"} /\ thread[c].item = 0
              /\ c \in Addressing => slave[c] = 0
    <2>1. slot[k] # 0
      BY <1>3, <1>2 DEF DriverInv, DriverTypes
    <2> QED
      BY <1>2, <2>1, SlotFree
  <1>7. /\ slot'[k] = 0 /\ cur'[k] = taken /\ dispatched'[k] = dispatched[k] + 1
        /\ \A j \in Kinds : j # k =>
             slot'[j] = slot[j] /\ cur'[j] = cur[j] /\ dispatched'[j] = dispatched[j]
    BY <1>3, <1>2, <1>6 DEF DriverInv, DriverTypes
  <1>8. /\ \A c \in AllChannels : Kind(c) = k => queue'[c] = <<taken>>
        /\ \A c \in AllChannels : Kind(c) # k => queue'[c] = queue[c]
    <2>1. Append(<<>>, taken) = <<taken>>
      OBVIOUS
    <2> QED
      BY <1>3, <1>2, <1>6, <2>1, ChannelFacts
  <1>9. DriverTypes'
    <2>1. slot' \in [Kinds -> {0, 1}] /\ dispatched' \in [Kinds -> Nat] /\ cur' \in [Kinds -> Numbers]
      BY <1>3, <1>1, <1>2, <1>6 DEF DriverInv, DriverTypes
    <2> QED
      BY <1>3, <1>4, <1>1, <1>5, <2>1 DEF DriverInv, DriverTypes
  <1>10. NotYet'
    BY <1>3, <1>4, <1>5 DEF DriverInv, NotYet
  <1>11. ~completed[taken]
    BY <1>3, <1>5 DEF DriverInv, NotYet
  <1>12. InFlight(k)' = {taken} /\ \A j \in Kinds : j # k => InFlight(j)' = InFlight(j)
    <2>1. \A j \in Kinds, i \in 1 .. taken :
            i \in InFlight(j)' <=> program[i].kind = j /\ ~completed[i]
      BY <1>3, <1>4 DEF InFlight
    <2>2. \A j \in Kinds, i \in 1 .. taken :
            i \in InFlight(j) <=> program[i].kind = j /\ ~completed[i] /\ i # taken
      BY <1>3 DEF InFlight
    <2>3. taken \in 1 .. taken /\ program[taken].kind = k
      BY <1>1, <1>2 DEF Numbers, ItemType
    <2>4. \A j \in Kinds : InFlight(j) \subseteq 1 .. taken /\ InFlight(j)' \subseteq 1 .. taken
      BY <1>4 DEF InFlight
    <2>5. InFlight(k)' = {taken}
      <3>1. \A i \in 1 .. taken : i \in InFlight(k)' => i = taken
        BY <1>2, <1>6, <2>1, <2>2
      <3>2. taken \in InFlight(k)'
        BY <1>2, <1>11, <2>1, <2>3
      <3> QED
        BY <1>2, <2>4, <3>1, <3>2
    <2>6. ASSUME NEW j \in Kinds, j # k
          PROVE  InFlight(j)' = InFlight(j)
      <3>1. \A i \in 1 .. taken : i \in InFlight(j)' <=> i \in InFlight(j)
        BY <2>1, <2>2, <2>3, <2>6
      <3> QED
        BY <2>4, <3>1
    <2> QED
      BY <2>5, <2>6
  <1>13. OneInFlight'
    <2> SUFFICES ASSUME NEW j \in Kinds
                 PROVE  \/ slot'[j] = 1 /\ cur'[j] = 0 /\ InFlight(j)' = {}
                        \/ slot'[j] = 0 /\ cur'[j] # 0 /\ InFlight(j)' = {cur'[j]}
      BY DEF OneInFlight
    <2>1. CASE j = k
      BY <1>1, <1>7, <1>12, <2>1
    <2>2. CASE j # k
      <3>1. slot'[j] = slot[j] /\ cur'[j] = cur[j] /\ InFlight(j)' = InFlight(j)
        BY <1>7, <1>12, <2>2
      <3> QED
        BY <3>1 DEF DriverInv, OneInFlight
    <2> QED
      BY <2>1, <2>2
  <1>14. Queued'
    BY <1>1, <1>7, <1>8, ChannelFacts DEF DriverInv, Queued
  <1>15. Threads'
    <2> SUFFICES ASSUME NEW c \in AllChannels
                 PROVE  /\ supervisor' # "run" <=> thread'[c].pc = "dead"
                        /\ thread'[c].pc \in {"dead", "get"} => thread'[c].item = 0
                        /\ thread'[c].pc \in {"delay", "handshake"} =>
                             /\ thread'[c].item = cur'[Kind(c)] /\ cur'[Kind(c)] # 0
                             /\ queue'[c] = <<>>
                             /\ c \in Addressing => slave'[c] = 0
      BY DEF Threads
    <2>1. CASE Kind(c) = k
      BY <1>4, <1>2, <1>6, <2>1, ChannelFacts DEF DriverInv, Threads
    <2>2. CASE Kind(c) # k
      BY <1>4, <1>7, <1>8, <2>2, ChannelFacts DEF DriverInv, Threads
    <2> QED
      BY <2>1, <2>2
  <1>16. Pins'
    <2> SUFFICES ASSUME NEW c \in AllChannels
                 PROVE  /\ pin'[c] \in {0, cur'[Kind(c)]}
                        /\ supervisor' = "posedge" => pin'[c] = 0
                        /\ supervisor' = "run" =>
                             IF thread'[c].pc = "handshake" THEN pin'[c] = cur'[Kind(c)]
                                                            ELSE pin'[c] = 0
      BY DEF Pins
    <2>1. CASE Kind(c) = k
      BY <1>4, <1>2, <1>6, <2>1, ChannelFacts
    <2>2. CASE Kind(c) # k
      BY <1>4, <1>7, <2>2, ChannelFacts DEF DriverInv, Pins
    <2> QED
      BY <2>1, <2>2
  <1>17. Slave'
    <2>1. ASSUME NEW c \in Addressing
          PROVE  /\ slave'[c] \in {0, cur'[Kind(c)]}
                 /\ slave'[c] # 0 => queue'[c] = <<>> /\ thread'[c].pc = "get"
      <3>1. CASE Kind(c) = k
        BY <1>4, <1>2, <1>6, <3>1, ChannelFacts
      <3>2. CASE Kind(c) # k
        BY <1>4, <1>7, <1>8, <3>2, ChannelFacts DEF DriverInv, Slave
      <3> QED
        BY <3>1, <3>2
    <2> QED
      BY <1>4, <2>1 DEF DriverInv, Slave
  <1>18. Counted'
    <2>1. \A j \in Kinds : AbortedOf(j)' = AbortedOf(j)
      BY <1>4, <1>5 DEF AbortedOf
    <2> QED
      <3> SUFFICES ASSUME NEW j \in Kinds
                   PROVE  /\ dispatched'[j] = seen'[j] + aborts'[j] + (1 - slot'[j])
                          /\ aborts'[j] = Cardinality(AbortedOf(j)')
        BY DEF Counted
      <3>1. dispatched[j] = seen[j] + aborts[j] + (1 - slot[j])
            /\ aborts[j] = Cardinality(AbortedOf(j))
        BY DEF DriverInv, Counted
      <3>2. dispatched[j] \in Nat /\ seen[j] \in Nat /\ aborts[j] \in Nat
        BY DEF DriverInv, DriverTypes
      <3>3. seen'[j] = seen[j] /\ aborts'[j] = aborts[j] /\ AbortedOf(j)' = AbortedOf(j)
        BY <1>4, <2>1
      <3>4. CASE j = k
        BY <1>6, <1>7, <3>1, <3>2, <3>3, <3>4
      <3>5. CASE j # k
        BY <1>7, <3>1, <3>3, <3>5
      <3> QED
        BY <3>4, <3>5
  <1> QED
    BY <1>9, <1>10, <1>13, <1>14, <1>15, <1>16, <1>17, <1>18 DEF DriverInv

LEMMA RalDoneKeeps ==
  ASSUME DriverInv, ral_done
  PROVE  DriverInv'
  <1>1. /\ main_loop = "ral" /\ main_loop' = "get"
        /\ UNCHANGED <<itemVars, slotVars, queue, thread, busVars, resetVars>>
    BY DEF ral_done
  <1>2. UNCHANGED <<program, completed, aborted, taken, slot, cur, dispatched, aborts, queue,
                    thread, pin, slave, seen, supervisor, ARESETn>>
    BY <1>1 DEF itemVars, slotVars, busVars, resetVars
  <1>3. Items' = Items /\ \A k : InFlight(k)' = InFlight(k) /\ AbortedOf(k)' = AbortedOf(k)
    BY <1>1, <1>2 DEF Items, InFlight, AbortedOf
  <1>4. DriverTypes' /\ NotYet'
    BY <1>1, <1>2, <1>3 DEF DriverInv, DriverTypes, NotYet, Numbers
  <1>5. OneInFlight' /\ Counted'
    BY <1>2, <1>3 DEF DriverInv, OneInFlight, Counted
  <1>6. Queued' /\ Threads' /\ Pins' /\ Slave'
    BY <1>2 DEF DriverInv, Queued, Threads, Pins, Slave
  <1> QED
    BY <1>4, <1>5, <1>6 DEF DriverInv

-----------------------------------------------------------------------------
(* The response, and reset.                                                *)

LEMMA CompletesKeep ==
  ASSUME DriverInv, NEW k \in Kinds, completes(k)
  PROVE  DriverInv'
  <1> DEFINE c == Response(k)
  <1>1. c \in AllChannels /\ c \notin Addressing /\ Kind(c) = k
    BY ChannelFacts
  <1>2. /\ thread[c].pc = "handshake" /\ slave[c]
        /\ completed' = [completed EXCEPT ![thread[c].item] = TRUE]
        /\ cur' = [cur EXCEPT ![k] = 0] /\ slot' = [slot EXCEPT ![k] = @ + 1]
        /\ thread' = [thread EXCEPT ![c] = Getting] /\ pin' = [pin EXCEPT ![c] = 0]
        /\ slave' = [x \in AllChannels |-> IF x \notin Channels(k) THEN slave[x] ELSE NoSlave[x]]
        /\ seen' = [seen EXCEPT ![k] = @ + 1]
        /\ UNCHANGED <<program, aborted, taken, main_loop, queue, dispatched, aborts,
                       supervisor, ARESETn>>
    BY DEF completes, resetVars
  <1>3. thread[c].item = cur[k] /\ cur[k] # 0 /\ queue[c] = <<>> /\ supervisor = "run"
    BY <1>1, <1>2 DEF DriverInv, Threads
  <1>4. slot[k] = 0 /\ InFlight(k) = {cur[k]}
    BY <1>3 DEF DriverInv, OneInFlight
  <1>5. \A x \in Channels(k) \cap Addressing :
          queue[x] = <<>> /\ thread[x].pc = "get" /\ thread[x].item = 0 /\ pin[x] = 0
    <2>1. \A x \in Channels(k) \cap Addressing : slave[x] # 0
      BY <1>2 DEF DriverInv, Slave
    <2>2. \A x \in Channels(k) \cap Addressing : queue[x] = <<>> /\ thread[x].pc = "get"
      BY <2>1 DEF DriverInv, Slave
    <2> QED
      BY <1>3, <2>2, ChannelFacts DEF DriverInv, Threads, Pins
  <1>6. program \in Seq(ItemType) /\ taken \in Numbers /\ Items' = Items /\ Numbers' = Numbers
        /\ 0 \in Numbers
    BY <1>2, ItemFacts DEF DriverInv, DriverTypes, Items, Numbers
  <1>7. cur[k] \in Items /\ cur[k] <= taken /\ ~completed[cur[k]]
        /\ program[cur[k]].kind = k /\ ~(cur[k] = taken /\ main_loop = "slot")
    BY <1>4, <1>6, InFlightFacts
  <1>8. /\ cur'[k] = 0 /\ slot'[k] = 1 /\ seen'[k] = seen[k] + 1
        /\ \A j \in Kinds : j # k => cur'[j] = cur[j] /\ slot'[j] = slot[j] /\ seen'[j] = seen[j]
    BY <1>2, <1>4 DEF DriverInv, DriverTypes
  <1>9. /\ thread'[c].pc = "get" /\ thread'[c].item = 0 /\ pin'[c] = 0
        /\ \A x \in AllChannels : x # c => thread'[x] = thread[x] /\ pin'[x] = pin[x]
    BY <1>1, <1>2 DEF DriverInv, DriverTypes, Getting
  <1>10. /\ completed'[cur[k]] = TRUE
         /\ \A i \in Items : i # cur[k] => completed'[i] = completed[i]
    BY <1>2, <1>3, <1>7 DEF DriverInv, DriverTypes
  <1>11. /\ \A x \in AllChannels : Kind(x) # k => slave'[x] = slave[x]
         /\ \A x \in Addressing : Kind(x) = k => slave'[x] = 0
         /\ slave'[c] = FALSE
    BY <1>1, <1>2, ChannelFacts DEF NoSlave
  <1>12. DriverTypes'
    <2>1. slot' \in [Kinds -> {0, 1}] /\ seen' \in [Kinds -> Nat] /\ cur' \in [Kinds -> Numbers]
      BY <1>2, <1>4, <1>6 DEF DriverInv, DriverTypes
    <2>2. completed' \in [Items -> BOOLEAN]
      BY <1>2 DEF DriverInv, DriverTypes
    <2>3. thread' \in [AllChannels -> [pc : {"dead", "get", "delay", "handshake"}, item : Numbers]]
      BY <1>2, <1>6 DEF DriverInv, DriverTypes, Getting
    <2>4. pin' \in [AllChannels -> Numbers]
      BY <1>2, <1>6 DEF DriverInv, DriverTypes
    <2>5. slave' = [x \in AllChannels |-> slave'[x]]
      BY <1>2
    <2> QED
      BY <1>2, <1>6, <2>1, <2>2, <2>3, <2>4, <2>5 DEF DriverInv, DriverTypes
  <1>13. NotYet'
    <2>1. \A i \in Items : i > taken \/ (i = taken /\ main_loop = "slot") => i # cur[k]
      BY <1>6, <1>7, ItemFacts DEF Numbers
    <2>2. \A i \in Items : i > taken \/ (i = taken /\ main_loop = "slot") => ~completed'[i]
      BY <1>10, <2>1 DEF DriverInv, NotYet
    <2>3. \A i \in Items : aborted[i] => completed'[i]
      BY <1>7, <1>10 DEF DriverInv, NotYet
    <2> QED
      BY <1>2, <1>6, <2>2, <2>3 DEF NotYet
  <1>14. InFlight(k)' = {} /\ \A j \in Kinds : j # k => InFlight(j)' = InFlight(j)
    <2>1. \A j : InFlight(j)' \subseteq Items /\ InFlight(j) \subseteq Items
      BY <1>2, <1>6, ItemFacts DEF InFlight, Numbers
    <2>2. \A j : \A i \in Items : i \in InFlight(j)' <=> i \in InFlight(j) /\ i # cur[k]
      BY <1>2, <1>10 DEF InFlight
    <2>3. \A j \in Kinds : j # k => cur[k] \notin InFlight(j)
      BY <1>7 DEF InFlight
    <2>4. InFlight(k)' = {}
      BY <1>4, <2>1, <2>2
    <2>5. ASSUME NEW j \in Kinds, j # k
          PROVE  InFlight(j)' = InFlight(j)
      <3>1. \A i \in Items : i \in InFlight(j)' <=> i \in InFlight(j)
        BY <2>2, <2>3, <2>5
      <3> QED
        BY <2>1, <3>1
    <2> QED
      BY <2>4, <2>5
  <1>15. OneInFlight'
    <2> SUFFICES ASSUME NEW j \in Kinds
                 PROVE  \/ slot'[j] = 1 /\ cur'[j] = 0 /\ InFlight(j)' = {}
                        \/ slot'[j] = 0 /\ cur'[j] # 0 /\ InFlight(j)' = {cur'[j]}
      BY DEF OneInFlight
    <2>1. CASE j = k
      BY <1>8, <1>14, <2>1
    <2>2. CASE j # k
      <3>1. slot'[j] = slot[j] /\ cur'[j] = cur[j] /\ InFlight(j)' = InFlight(j)
        BY <1>8, <1>14, <2>2
      <3> QED
        BY <3>1 DEF DriverInv, OneInFlight
    <2> QED
      BY <2>1, <2>2
  <1>16. \A x \in AllChannels : Kind(x) = k => queue[x] = <<>>
    BY <1>3, <1>5, ChannelFacts
  <1>17. Queued'
    BY <1>2, <1>8, <1>16, ChannelFacts DEF DriverInv, Queued
  <1>18. \A x \in AllChannels : Kind(x) = k =>
           thread'[x].pc = "get" /\ thread'[x].item = 0 /\ pin'[x] = 0
    BY <1>1, <1>5, <1>9, ChannelFacts
  <1>19. \A x \in AllChannels : Kind(x) # k => thread'[x] = thread[x] /\ pin'[x] = pin[x]
    BY <1>1, <1>9
  <1>20. Threads'
    <2> SUFFICES ASSUME NEW x \in AllChannels
                 PROVE  /\ supervisor' # "run" <=> thread'[x].pc = "dead"
                        /\ thread'[x].pc \in {"dead", "get"} => thread'[x].item = 0
                        /\ thread'[x].pc \in {"delay", "handshake"} =>
                             /\ thread'[x].item = cur'[Kind(x)] /\ cur'[Kind(x)] # 0
                             /\ queue'[x] = <<>>
                             /\ x \in Addressing => slave'[x] = 0
      BY DEF Threads
    <2>1. CASE Kind(x) = k
      BY <1>2, <1>3, <1>18, <2>1
    <2>2. CASE Kind(x) # k
      BY <1>2, <1>8, <1>11, <1>19, <2>2, ChannelFacts DEF DriverInv, Threads
    <2> QED
      BY <2>1, <2>2
  <1>21. Pins'
    <2> SUFFICES ASSUME NEW x \in AllChannels
                 PROVE  /\ pin'[x] \in {0, cur'[Kind(x)]}
                        /\ supervisor' = "posedge" => pin'[x] = 0
                        /\ supervisor' = "run" =>
                             IF thread'[x].pc = "handshake" THEN pin'[x] = cur'[Kind(x)]
                                                            ELSE pin'[x] = 0
      BY DEF Pins
    <2>1. CASE Kind(x) = k
      BY <1>18, <2>1
    <2>2. CASE Kind(x) # k
      BY <1>2, <1>8, <1>19, <2>2, ChannelFacts DEF DriverInv, Pins
    <2> QED
      BY <2>1, <2>2
  <1>22. Slave'
    <2>1. ASSUME NEW x \in Addressing
          PROVE  /\ slave'[x] \in {0, cur'[Kind(x)]}
                 /\ slave'[x] # 0 => queue'[x] = <<>> /\ thread'[x].pc = "get"
      <3>1. CASE Kind(x) = k
        BY <1>11, <2>1, <3>1
      <3>2. CASE Kind(x) # k
        <4>1. slave'[x] = slave[x] /\ thread'[x] = thread[x] /\ cur'[Kind(x)] = cur[Kind(x)]
          BY <1>8, <1>11, <1>19, <3>2, ChannelFacts
        <4> QED
          BY <1>2, <4>1 DEF DriverInv, Slave
      <3> QED
        BY <3>1, <3>2
    <2>2. ASSUME NEW j \in Kinds
          PROVE  /\ slave'[Response(j)] \in BOOLEAN
                 /\ slave'[Response(j)] => \A x \in Channels(j) \cap Addressing : slave'[x] # 0
      <3>1. CASE j = k
        BY <1>11, <3>1
      <3>2. CASE j # k
        <4>1. slave'[Response(j)] = slave[Response(j)]
          BY <1>11, <3>2, ChannelFacts
        <4>2. \A x \in Channels(j) \cap Addressing : slave'[x] = slave[x]
          BY <1>11, <3>2, ChannelFacts
        <4> QED
          BY <4>1, <4>2 DEF DriverInv, Slave
      <3> QED
        BY <3>1, <3>2
    <2> QED
      BY <1>2, <1>3, <2>1, <2>2 DEF Slave
  <1>23. Counted'
    <2>1. \A j \in Kinds : AbortedOf(j)' = AbortedOf(j)
      BY <1>2, <1>6 DEF AbortedOf
    <2> SUFFICES ASSUME NEW j \in Kinds
                 PROVE  /\ dispatched'[j] = seen'[j] + aborts'[j] + (1 - slot'[j])
                        /\ aborts'[j] = Cardinality(AbortedOf(j)')
      BY DEF Counted
    <2>2. dispatched[j] = seen[j] + aborts[j] + (1 - slot[j])
          /\ aborts[j] = Cardinality(AbortedOf(j))
      BY DEF DriverInv, Counted
    <2>3. dispatched[j] \in Nat /\ seen[j] \in Nat /\ aborts[j] \in Nat
      BY DEF DriverInv, DriverTypes
    <2>4. dispatched'[j] = dispatched[j] /\ aborts'[j] = aborts[j] /\ AbortedOf(j)' = AbortedOf(j)
      BY <1>2, <2>1
    <2>5. CASE j = k
      BY <1>4, <1>8, <2>2, <2>3, <2>4, <2>5
    <2>6. CASE j # k
      BY <1>8, <2>2, <2>4, <2>6
    <2> QED
      BY <2>5, <2>6
  <1> QED
    BY <1>12, <1>13, <1>15, <1>17, <1>20, <1>21, <1>22, <1>23 DEF DriverInv

LEMMA FallsKeeps ==
  ASSUME DriverInv, ARESETn_falls
  PROVE  DriverInv'
  <1>1. /\ ARESETn' = FALSE /\ supervisor' = "on_reset"
        /\ thread' = [c \in AllChannels |-> Dead] /\ slave' = NoSlave
        /\ UNCHANGED <<itemVars, main_loop, slotVars, queue, pin, seen>>
    BY DEF ARESETn_falls
  <1>2. UNCHANGED <<program, completed, aborted, taken, slot, cur, dispatched, aborts>>
    BY <1>1 DEF itemVars, slotVars
  <1>3. \A c \in AllChannels : thread'[c].pc = "dead" /\ thread'[c].item = 0
    BY <1>1 DEF Dead
  <1>4. (\A c \in Addressing : slave'[c] = 0) /\ \A k \in Kinds : slave'[Response(k)] = FALSE
    BY <1>1, ChannelFacts DEF NoSlave
  <1>5. DriverTypes'
    <2>1. 0 \in Numbers /\ Numbers' = Numbers /\ Items' = Items
      BY <1>2, ItemFacts DEF DriverInv, DriverTypes, Numbers, Items
    <2> QED
      BY <1>1, <1>2, <2>1 DEF DriverInv, DriverTypes, Dead, NoSlave
  <1>6. NotYet' /\ OneInFlight' /\ Counted'
    BY <1>1, BooksStand
  <1>7. Queued'
    BY <1>1, <1>2 DEF DriverInv, Queued
  <1>8. Threads' /\ Pins'
    BY <1>1, <1>2, <1>3 DEF DriverInv, Threads, Pins
  <1>9. Slave'
    BY <1>1, <1>4 DEF Slave
  <1> QED
    BY <1>5, <1>6, <1>7, <1>8, <1>9 DEF DriverInv

LEMMA RisesKeeps ==
  ASSUME DriverInv, ARESETn_rises
  PROVE  DriverInv'
  <1>1. /\ supervisor = "posedge" /\ ARESETn' = TRUE /\ supervisor' = "run"
        /\ thread' = [c \in AllChannels |-> Getting]
        /\ UNCHANGED <<itemVars, main_loop, slotVars, queue, busVars, resets>>
    BY DEF ARESETn_rises
  <1>2. UNCHANGED <<program, completed, aborted, taken, slot, cur, dispatched, aborts, pin,
                    slave, seen>>
    BY <1>1 DEF itemVars, slotVars, busVars
  <1>3. \A c \in AllChannels : thread'[c].pc = "get" /\ thread'[c].item = 0
    BY <1>1 DEF Getting
  <1>4. (\A c \in Addressing : slave[c] = 0) /\ \A k \in Kinds : slave[Response(k)] = FALSE
    BY <1>1, ChannelFacts DEF DriverInv, Slave, NoSlave
  <1>5. DriverTypes'
    <2>1. 0 \in Numbers /\ Numbers' = Numbers /\ Items' = Items
      BY <1>2, ItemFacts DEF DriverInv, DriverTypes, Numbers, Items
    <2> QED
      BY <1>1, <1>2, <2>1 DEF DriverInv, DriverTypes, Getting
  <1>6. NotYet' /\ OneInFlight' /\ Counted'
    BY <1>1, <1>2, BooksStand
  <1>7. Queued'
    BY <1>1, <1>2 DEF DriverInv, Queued
  <1>8. Threads' /\ Pins'
    BY <1>1, <1>2, <1>3 DEF DriverInv, Threads, Pins
  <1>9. Slave'
    BY <1>1, <1>2, <1>4 DEF Slave
  <1> QED
    BY <1>5, <1>6, <1>7, <1>8, <1>9 DEF DriverInv

\* on_reset retires exactly what is in flight.
LEMMA RetiredIsInFlight ==
  ASSUME DriverInv, NEW k \in Kinds
  PROVE  Retired(k) = InFlight(k)
  <1>1. program \in Seq(ItemType) /\ taken \in Numbers
    BY DEF DriverInv, DriverTypes
  <1>2. queue[Response(k)] = <<>> \/ (cur[k] # 0 /\ queue[Response(k)] = <<cur[k]>>)
    BY ChannelFacts DEF DriverInv, Queued
  <1>3. queued(k) \subseteq {cur[k]} /\ (queued(k) # {} => cur[k] # 0)
    BY <1>2 DEF queued, ToSet
  <1>4. CASE cur[k] = 0
    BY <1>3, <1>4 DEF DriverInv, OneInFlight, Retired, dequeued
  <1>5. CASE cur[k] # 0
    <2>1. InFlight(k) = {cur[k]}
      BY <1>5 DEF DriverInv, OneInFlight
    <2>2. ~completed[cur[k]]
      BY <1>1, <2>1, InFlightFacts
    <2> QED
      BY <1>3, <1>5, <2>1, <2>2 DEF Retired, dequeued
  <1> QED
    BY <1>4, <1>5

LEMMA OnResetKeeps ==
  ASSUME DriverInv, on_reset
  PROVE  DriverInv'
  <1> DEFINE R == InFlight("write") \cup InFlight("read")
  <1>1. \A k \in Kinds : Retired(k) = InFlight(k)
    BY RetiredIsInFlight
  <1>2. /\ supervisor = "on_reset" /\ supervisor' = "posedge"
        /\ pin' = Null(AllChannels) /\ queue' = [c \in AllChannels |-> <<>>]
        /\ completed' = [i \in Items |-> completed[i] \/ i \in R]
        /\ aborted' = [i \in Items |-> aborted[i] \/ i \in R]
        /\ aborts' = [k \in Kinds |-> aborts[k] + Cardinality(InFlight(k))]
        /\ cur' = Null(Kinds) /\ slot' = [k \in Kinds |-> released(slot[k])]
        /\ UNCHANGED <<program, taken, main_loop, dispatched, thread, slave, seen, ARESETn>>
    BY <1>1 DEF on_reset, left, Kinds
  <1>3. program \in Seq(ItemType) /\ taken \in Numbers /\ Items' = Items /\ Numbers' = Numbers
        /\ 0 \in Numbers
    BY <1>2, ItemFacts DEF DriverInv, DriverTypes, Items, Numbers
  <1>4. \A i \in Items : i \in R <=> i \in InFlight(program[i].kind)
    BY <1>3, ItemFacts, InFlightFacts DEF Kinds
  <1>5. \A i \in Items : /\ completed'[i] <=> completed[i] \/ i \in R
                         /\ aborted'[i] <=> aborted[i] \/ i \in R
    BY <1>2
  <1>6. \A k \in Kinds : slot'[k] = 1 /\ cur'[k] = 0
    <2> SUFFICES ASSUME NEW k \in Kinds
                 PROVE  slot'[k] = 1 /\ cur'[k] = 0
      OBVIOUS
    <2>1. slot'[k] = released(slot[k]) /\ cur'[k] = 0
      BY <1>2 DEF Null
    <2>2. slot[k] = 0 \/ slot[k] = 1
      BY DEF DriverInv, DriverTypes
    <2>3. released(0) = 1 /\ released(1) = 1
      BY DEF released
    <2> QED
      BY <2>1, <2>2, <2>3
  <1>7. \A c \in AllChannels : queue'[c] = <<>> /\ pin'[c] = 0
    BY <1>2 DEF Null
  <1> HIDE DEF R
  <1>8. DriverTypes'
    <2>1. \A k \in Kinds : IsFiniteSet(InFlight(k)) /\ Cardinality(InFlight(k)) \in Nat
      <3>1. \A k \in Kinds : InFlight(k) \subseteq Items
        BY <1>3, InFlightFacts
      <3> QED
        BY <1>3, <3>1, ItemFacts, FS_Subset, FS_CardinalityType
    <2>2. aborts' \in [Kinds -> Nat]
      BY <1>2, <2>1 DEF DriverInv, DriverTypes
    <2>3. slot' \in [Kinds -> {0, 1}] /\ cur' \in [Kinds -> Numbers]
      BY <1>2, <1>3, <1>6 DEF Null
    <2>4. completed' \in [Items -> BOOLEAN] /\ aborted' \in [Items -> BOOLEAN]
      BY <1>2
    <2>5. queue' = [c \in AllChannels |-> queue'[c]] /\ pin' \in [AllChannels -> Numbers]
      BY <1>2, <1>3 DEF Null
    <2> QED
      BY <1>2, <1>3, <2>2, <2>3, <2>4, <2>5 DEF DriverInv, DriverTypes
  <1>9. NotYet'
    <2>1. \A i \in Items : i > taken \/ (i = taken /\ main_loop = "slot") => i \notin R
      BY <1>3, <1>4, ItemFacts, InFlightFacts DEF Numbers
    <2> QED
      BY <1>2, <1>3, <1>5, <2>1 DEF DriverInv, NotYet
  <1>10. \A k \in Kinds : InFlight(k)' = {}
    <2> SUFFICES ASSUME NEW k \in Kinds, NEW i \in InFlight(k)'
                 PROVE  FALSE
      OBVIOUS
    <2>1. i \in 1 .. taken /\ program[i].kind = k /\ ~completed'[i]
          /\ (i = taken => main_loop # "slot")
      BY <1>2 DEF InFlight
    <2>2. i \in Items
      BY <1>3, <2>1, ItemFacts DEF Numbers
    <2>3. ~completed[i] /\ i \notin R
      BY <1>5, <2>1, <2>2
    <2>4. i \in InFlight(k)
      BY <2>1, <2>3 DEF InFlight
    <2> QED
      BY <1>4, <2>1, <2>2, <2>3, <2>4
  <1>11. OneInFlight'
    BY <1>6, <1>10 DEF OneInFlight
  <1>12. Queued' /\ Pins'
    BY <1>2, <1>7 DEF Queued, Pins
  <1>13. Threads'
    <2>1. \A c \in AllChannels : thread[c].pc = "dead" /\ thread[c].item = 0
      BY <1>2 DEF DriverInv, Threads
    <2> QED
      BY <1>2, <2>1 DEF Threads
  <1>14. Slave'
    <2>1. slave = NoSlave
      BY <1>2 DEF DriverInv, Slave
    <2>2. (\A c \in Addressing : slave[c] = 0) /\ \A k \in Kinds : slave[Response(k)] = FALSE
      BY <2>1, ChannelFacts DEF NoSlave
    <2> QED
      BY <1>2, <2>1, <2>2 DEF Slave
  <1>15. Counted'
    <2> SUFFICES ASSUME NEW k \in Kinds
                 PROVE  /\ dispatched'[k] = seen'[k] + aborts'[k] + (1 - slot'[k])
                        /\ aborts'[k] = Cardinality(AbortedOf(k)')
      BY DEF Counted
    <2>1. dispatched[k] = seen[k] + aborts[k] + (1 - slot[k])
          /\ aborts[k] = Cardinality(AbortedOf(k))
      BY DEF DriverInv, Counted
    <2>2. dispatched[k] \in Nat /\ seen[k] \in Nat /\ aborts[k] \in Nat
      BY DEF DriverInv, DriverTypes
    <2>3. AbortedOf(k)' = AbortedOf(k) \cup InFlight(k)
      <3>1. \A i \in Items : i \in AbortedOf(k)' <=> i \in AbortedOf(k) \cup InFlight(k)
        BY <1>2, <1>3, <1>4, <1>5, InFlightFacts DEF AbortedOf
      <3>2. AbortedOf(k)' \subseteq Items /\ AbortedOf(k) \subseteq Items /\ InFlight(k) \subseteq Items
        BY <1>3, InFlightFacts DEF AbortedOf
      <3> QED
        BY <3>1, <3>2
    <2>4. aborts'[k] = aborts[k] + Cardinality(InFlight(k))
      BY <1>2
    <2>5. CASE slot[k] = 1 /\ InFlight(k) = {}
      <3>1. Cardinality(InFlight(k)) = 0 /\ AbortedOf(k)' = AbortedOf(k)
        BY <2>3, <2>5, FS_EmptySet
      <3> QED
        BY <1>2, <1>6, <2>1, <2>2, <2>4, <2>5, <3>1
    <2>6. CASE slot[k] = 0 /\ InFlight(k) = {cur[k]}
      <3>1. Cardinality(InFlight(k)) = 1
        BY <2>6, FS_Singleton
      <3>2. cur[k] \notin AbortedOf(k)
        BY <1>3, <2>6, InFlightFacts DEF DriverInv, NotYet, AbortedOf
      <3>3. IsFiniteSet(AbortedOf(k))
        BY <1>3, ItemFacts
      <3>4. Cardinality(AbortedOf(k) \cup {cur[k]}) = Cardinality(AbortedOf(k)) + 1
        BY <3>2, <3>3, FS_AddElement
      <3> QED
        BY <1>2, <1>6, <2>1, <2>2, <2>3, <2>4, <2>6, <3>1, <3>4
    <2> QED
      BY <2>5, <2>6 DEF DriverInv, OneInFlight
  <1> QED
    BY <1>8, <1>9, <1>11, <1>12, <1>13, <1>14, <1>15 DEF DriverInv

LEMMA DriverStutters ==
  ASSUME DriverInv, UNCHANGED vars
  PROVE  DriverInv'
  <1>1. UNCHANGED <<program, completed, aborted, taken, main_loop, slot, cur, dispatched, aborts,
                    queue, thread, pin, slave, seen, supervisor, ARESETn>>
    BY DEF vars, itemVars, slotVars, busVars, resetVars
  <1>2. NotYet' /\ OneInFlight' /\ Counted'
    BY BooksStand DEF vars, busVars
  <1> QED
    BY <1>1, <1>2 DEF DriverInv, DriverTypes, Numbers, Items, Queued, Threads, Pins, Slave

-----------------------------------------------------------------------------
(***************************************************************************)
(* The invariant holds over any number of resets.                          *)
(***************************************************************************)
THEOREM DriverInvariant == Spec => []DriverInv
  <1>1. Init => DriverInv
    BY DriverStarts, ProgramsAssumption
  <1>2. DriverInv /\ [Next]_vars => DriverInv'
    <2> SUFFICES ASSUME DriverInv, [Next]_vars
                 PROVE  DriverInv'
      OBVIOUS
    <2>1. CASE get_next_item
      BY <2>1, GetItemKeeps
    <2>2. CASE Main
      BY <2>2, DispatchKeeps, RalDoneKeeps DEF Main
    <2>3. ASSUME NEW c \in AllChannels, Thread(c)
          PROVE  DriverInv'
      BY <2>3, GetKeeps, DriveKeeps, AcceptedKeeps DEF Thread
    <2>4. ASSUME NEW k \in Kinds, answers(k) \/ completes(k)
          PROVE  DriverInv'
      BY <2>4, AnswersKeep, CompletesKeep
    <2>5. CASE ARESETn_falls
      BY <2>5, FallsKeeps
    <2>6. CASE on_reset
      BY <2>6, OnResetKeeps
    <2>7. CASE ARESETn_rises
      BY <2>7, RisesKeeps
    <2>8. CASE UNCHANGED vars
      BY <2>8, DriverStutters
    <2> QED
      BY <2>1, <2>2, <2>3, <2>4, <2>5, <2>6, <2>7, <2>8 DEF Next
  <1> QED
    BY <1>1, <1>2, PTL DEF Spec

(***************************************************************************)
(* A slot is free exactly when nothing of its kind is in flight, and every *)
(* transaction is accounted for once (dispatch, on_reset), for programs of *)
(* any length and any number of resets.                                    *)
(***************************************************************************)
THEOREM EveryTransactionAccounted == Spec => []Accounted
  <1>1. DriverInv => Accounted
    <2> SUFFICES ASSUME DriverInv
                 PROVE  Accounted
      OBVIOUS
    <2>1. program \in Seq(ItemType) /\ taken \in Numbers
      BY DEF DriverInv, DriverTypes
    <2>2. \A k \in Kinds : cur[k] \in 0 .. taken
      <3> SUFFICES ASSUME NEW k \in Kinds
                   PROVE  cur[k] \in 0 .. taken
        OBVIOUS
      <3>1. CASE cur[k] = 0
        BY <2>1, <3>1, ItemFacts DEF Numbers
      <3>2. CASE cur[k] # 0
        <4>1. cur[k] \in InFlight(k)
          BY <3>2 DEF DriverInv, OneInFlight
        <4>2. cur[k] \in Items /\ cur[k] <= taken
          BY <2>1, <4>1, InFlightFacts
        <4> QED
          BY <2>1, <4>2, ItemFacts DEF Numbers
      <3> QED
        BY <3>1, <3>2
    <2>3. \A c \in AllChannels : Len(queue[c]) <= 1 /\ ToSet(queue[c]) \subseteq Items
      <3> SUFFICES ASSUME NEW c \in AllChannels
                   PROVE  Len(queue[c]) <= 1 /\ ToSet(queue[c]) \subseteq Items
        OBVIOUS
      <3>1. CASE queue[c] = <<>>
        BY <3>1 DEF ToSet
      <3>2. CASE cur[Kind(c)] # 0 /\ queue[c] = <<cur[Kind(c)]>>
        <4>1. cur[Kind(c)] \in InFlight(Kind(c))
          BY <3>2, ChannelFacts DEF DriverInv, OneInFlight
        <4>2. cur[Kind(c)] \in Items
          BY <2>1, <4>1, InFlightFacts
        <4> QED
          BY <3>2, <4>2 DEF ToSet
      <3> QED
        BY <3>1, <3>2 DEF DriverInv, Queued
    <2>4. TypeOK
      <3>1. cur \in [Kinds -> 0 .. taken]
        BY <2>2 DEF DriverInv, DriverTypes
      <3> QED
        BY <2>3, <3>1 DEF DriverInv, DriverTypes, TypeOK, Numbers
    <2>5. ASSUME NEW k \in Kinds
          PROVE  /\ slot[k] + Cardinality(InFlight(k)) = 1
                 /\ Cardinality(InFlight(k)) = 1 - slot[k]
      <3>1. CASE slot[k] = 1 /\ InFlight(k) = {}
        BY <3>1, FS_EmptySet
      <3>2. CASE slot[k] = 0 /\ InFlight(k) = {cur[k]}
        <4>1. Cardinality(InFlight(k)) = 1
          BY <3>2, FS_Singleton
        <4> QED
          BY <3>2, <4>1
      <3> QED
        BY <3>1, <3>2 DEF DriverInv, OneInFlight
    <2> QED
      BY <2>4, <2>5 DEF DriverInv, Counted, AbortedOf, Accounted
  <1> QED
    BY <1>1, DriverInvariant, PTL

(***************************************************************************)
(* No beat of a dead transaction is left anywhere once the channels run    *)
(* again (on_reset's drained mailboxes and lowered pins).                  *)
(***************************************************************************)
THEOREM DeadBeatsAreGone == Spec => []BeatsAreLive
  <1>1. DriverInv => BeatsAreLive
    <2> SUFFICES ASSUME DriverInv, supervisor = "run", NEW k \in Kinds, NEW c \in Channels(k)
                 PROVE  /\ ToSet(queue[c]) \cup {thread[c].item, pin[c]} \subseteq InFlight(k) \cup {0}
                        /\ c \in Addressing => slave[c] \in InFlight(k) \cup {0}
      BY DEF BeatsAreLive
    <2>1. c \in AllChannels /\ Kind(c) = k
      BY ChannelFacts
    <2>2. cur[k] \in InFlight(k) \cup {0}
      BY DEF DriverInv, OneInFlight
    <2>3. ToSet(queue[c]) \subseteq {cur[k]}
      BY <2>1 DEF DriverInv, Queued, ToSet
    <2>4. thread[c].item \in {0, cur[k]}
      BY <2>1 DEF DriverInv, DriverTypes, Threads
    <2>5. pin[c] \in {0, cur[k]} /\ (c \in Addressing => slave[c] \in {0, cur[k]})
      BY <2>1 DEF DriverInv, Pins, Slave
    <2> QED
      BY <2>2, <2>3, <2>4, <2>5
  <1> QED
    BY <1>1, DriverInvariant, PTL
=============================================================================
