# A TLA+ model of the AXI4-Lite design, its verification environment and its flow

The repository holds three RTL modules (a register slave, a memory slave and an
interconnect that joins them behind one master port), a UVM environment that
verifies them, and scripts that run the simulations and say what they showed. All
three are programs with concurrency in them: the RTL reacts to five channels that
move independently; the environment rebuilds transactions from the pins in threads
of its own and compares them with a reference model; the scripts are processes
that run simulations in parallel, can die between two file operations, and work on
files that people edit meanwhile. This directory models the three, and in
particular what happens between their parts.

## The system

| Part | State | Operations | Where it is hard |
|---|---|---|---|
| register slave, `rtl/axi4lite_reg_slave.sv` | held halves of a write and their latches, B and R registers, the register bank, COUNTER, INT_STATUS, STATUS.error | one clock edge; asynchronous reset | halves in any order, bypass of the latch on the commit edge, set against clear, wrap against reset_stats, commit order against completion order |
| register map, `rtl/gen/axi4lite_reg_pkg.sv` | none | decode, widths, reset values | full-offset decode |
| memory slave, `rtl/axi4lite_mem_slave.sv` | the same channels; an array without reset | one clock edge; reset of everything but the array | byte lanes, a write interrupted by reset |
| interconnect, `rtl/axi4lite_interconnect.sv` | two state machines, one held write, one held read | one clock edge; reset | W before its destination is known, AW and W accepted apart, decode gap, two responses in flight |
| protocol checker, `tb/interface/axi4lite_if.sv` | pending flags per channel | track handshakes, assert stability and outstanding limits | reset in mid-transaction |
| driver, `tb/agent/axi_driver.sv` | mailboxes, two slots, `cur_write`, `cur_read`, five threads | dispatch, drive, complete, tear down and restart on reset | a reset at any point of a thread, main_loop surviving it |
| monitor, `tb/agent/axi_monitor.sv` | accepted AW, W and AR beats | join beats to a response and publish; flush on reset | B and R on one edge, beats around a reset |
| scoreboard, `tb/env/axi_scoreboard.sv` | register model, memory model with valid lanes | check a write, check a read, reset | it applies a transaction at its response, the slave at its commit |
| RAL, `tb/ral/` | mirror values | adapt, predict | waits inside the driver's main loop |
| sequences and tests, `tb/sequences/`, `tb/tests/` | counts issued | traffic, reset requests, watchdog | which overlaps they allow |
| coverage, `tb/env/axi_coverage.sv` | counters | sample | none |
| regression, `scripts/run_regression.py`, `scripts/parse_log.py` | binaries, queue and results of the job, `results/<stamp>/results.json`, the link `latest`, imported logs | build, run on a pool, read imported logs, write, move the link | killed, hanging and slow simulations; a process that dies between two file operations; sources edited meanwhile |
| triage, `scripts/triage.py`; traceability, `scripts/vplan_trace.py` | none; they read `results/` | cluster, compare with the run before, find flaky tests, rate features | unfinished directories; runs with an outcome and without a signature; several tests and seeds per feature |
| register map flow, `scripts/regmap_gen.py`, `scripts/check_regmap.py` | `regmap.yaml`, section 5 of the specification, three generated files | `make regmap`, `make regcheck` | two orders of the same two steps, hand edits, a kill inside a file |
| other scripts: `coverage_report.py`, `llm_triage.py`, `strip_comments.py` | a history file, a cache of answers | tabulate, annotate, filter | none |

The scripts meet the rest through logs only: what a simulation printed is all a
regression knows of it. The pins join driver, checker, monitor and RTL. Analysis ports join the monitor
to the scoreboard. Reset reaches everything: the slaves and the interconnect at
once, the driver and the monitor through threads that wait for its edges, the
scoreboard through an event of the monitor.

What makes each part correct: a slave answers exactly what was accepted, once,
with the response the specification gives it, and software that has seen the
response sees the effect; the interconnect adds nothing and loses nothing on the
way; the scoreboard never accuses a correct design, and says so only where it
can know; the driver loses no transaction to a reset and keeps one of a kind in
flight; a green regression, a cluster, a [NEW], a flaky test, a PASSING feature and
a green `regcheck` each mean what they say.

## The modules

| Module | What it is |
|---|---|
| `AxiLite` | words, lanes, response codes |
| `AxiBus` | the other side of a port: a master that keeps VALID stable, and the checker's and the monitor's record of accepted, unanswered beats |
| `RegMap` | offsets, fields, widths, decode and error classification |
| `RegSlave` | the register slave, one operator per `wire` and per `always_ff` block |
| `RegSlaveBus` | `RegSlave` on an `AxiBus`, and its properties |
| `RegFile`, `RegSlaveRefinement` | the atomic register file software is promised, and the mapping under which the slave implements it |
| `RefModel` | the scoreboard's own decode and register model, translated from the scoreboard and not from the RTL |
| `RegScoreboard` | slave, monitor and scoreboard together |
| `MemSlave`, `MemSlaveBus`, `MemFile` | the same three for the memory |
| `MemScoreboard` | memory slave, monitor and the memory half of the scoreboard |
| `Interconnect`, `InterconnectBus` | the interconnect, and the interconnect between any master and any two slaves |
| `PortLive` | liveness at the port of a master: of either slave, or of the interconnect |
| `System` | the interconnect between any master and the two slaves of this repository, as `tb_top_sys` wires them |
| `Driver` | the driver's main loop, slots, mailboxes, five channel threads and reset supervisor, with any slave that accepts and answers |
| `ParseLog` | from a log to a verdict and signatures |
| `Regression` | the regression as a process, with the source tree, the simulations and the imported logs around it |
| `Triage`, `VplanTrace` | what the two readers make of `results/` |
| `RegressionFlow` | the three together, and their properties |
| `RegmapFlow` | the register map flow and its properties |
| `Scripts` | the regression flow and the register map flow side by side |
| `MC*` | the instances TLC checks; `MCMemory` holds two workloads of the memory |
| `AxiBusProofs`, `RegSlaveProofs`, `RegScoreboardProofs`, `MemSlaveProofs`, `InterconnectProofs`, `SystemProofs`, `DriverProofs`, `ScriptsProofs` | the theorems |

**How the state corresponds.** An RTL variable keeps its name. A word is the set
of its bits that are one, so truncation is intersection and a W1C clear is
difference; a channel carries `<<>>` while VALID is low and `<<beat>>` while it
is high. Addresses stay numbers, because the decodes slice them. AxPROT is left
out: every module accepts and ignores it. The initial array of the memory is
arbitrary, for the RTL initialises nothing.

**How the steps correspond.** `Clock` is one rising edge of ACLK: everything an
edge does in every `always_ff` block happens in that one step, from the values
before the edge. `Reset` is the fall of ARESETn: the reset values are there at
once and nothing moves until it rises, so the time in between is one state.
`AxiBus!Observe` is the bookkeeping of the bound checker on the same edge.

**What the environment may do.** Every module on a bus takes the weakest master
the protocol allows: any order and gap between the halves of a write, any
back-pressure, reset at any time. `InterconnectBus` takes the weakest slaves
likewise, including ones that accept AW and W on different edges. The two real
slaves close and open both READYs together, and the interconnect's header says that
the halves therefore always meet; the interconnect is written for slaves of the other
sort and is checked for them, and what the header says is a property of `System`.

**The composition.** `System` is one edge of one clock for all three modules: the
interconnect reads the slaves' READYs and responses, the slaves its VALIDs and
payloads, each as they were before the edge. It uses the definitions of `InterconnectBus`, `RegSlaveBus` and
`MemSlaveBus` as they are. What `InterconnectBus` keeps of its slaves is a function of
their state here (`portView`), and so is what it records of their answers
(`wAnswerView`, `rAnswerView`), so that its specification can be asked of the system:
`PromisesKept` says that each part, in the company of the other two, is a behaviour of
its own module, that is, that the three were verified under assumptions they meet.

**The scoreboard.** A slave applies a write when it commits, the model when B is
taken, and a read is sampled when AR is accepted and compared when R is taken.
`RegScoreboard` and `MemScoreboard` contain both moments. The monitor's threads
run in any order on an edge, and the models leave it open: when B and R complete
together either is published first, and the mark `ar_watch` puts on a read that
overlaps a write (`overlapped`) may or may not see a half accepted, or a response
taken, on its own edge. `SerialClock` restricts the traffic to what
`axi_random_seq` issues: bursts of one kind without gaps, never both kinds in
flight. `DirectedReset` restricts resets to those of `axi_reset_seq`. Under
either restriction B and R never fall on one edge; that edge occurs in
`scoreboard_overlap` and under the theorem `ResponsesTrusted` only.

**The driver.** What takes no simulated time is one step, because a thread is not
interrupted between two event controls: `dispatch` takes the slot and fills all the
mailboxes at once, `on_reset` drains them all at once. Between the fall of ARESETn,
at which the supervisor kills the five threads, and `on_reset` lies the clock that
`drive_idle` waits for, and `main_loop` goes on through all of it. ARESETn stays
low for five clocks (`reset_cycles` in `tb_top_sys.sv`), so it rises after
`on_reset`; a reset of one clock would be missed by the code and is not modelled.
Delays are nondeterministic, an item is its number, payloads are left out.

**The regression.** `job` is the process: its program counter, the binaries it has
built, the queue of its pool, the results it has collected. `results` and `latest`
are the file system. `Exposes` says which runs meet which defect of the sources
they were built from and `Manifest` what a run prints that met a given set of them,
so that a property can compare what a report says with what was really there; the
history fields `met` and `whole` of an execution carry that and no code reads them.
`Manifest` is arbitrary: a defect fails several checks of a bench, others on
another bench, hides the lines of another defect, or hangs the run, and unrelated
defects end a bench with one and the same `$fatal`. So a signature is that of a line
and not of a defect, as in `docs/regression.md` (13 failures for BUG-005), and what
triage says is stated of the *failures* a run prints, next to the verdicts, which are
stated of defects. A line of a log is its kind and its text in three parts: what a
signature keeps, what it cuts (past 60, 80 or 90 characters, or the instance path of
an assertion; texts that differ there alone are one failure) and the values it
normalises. The regular expressions are abstracted to these.

**The register map flow.** A document is a sequence of registers with their fields,
and `load` refuses what the script refuses. A generated file is the rows it was
rendered from, or foreign: edited by hand or cut off by a kill.

## What the runs check

| Run | What it shows | Instance |
|---|---|---|
| `slave_handshake` | Responses are earned: B is up exactly while one AW and one W are accepted and unanswered, with their error; R likewise, and a STATUS read's busy bit is true of the moment it was accepted. At an OKAY response the register already holds the data; at an error the interrupt is pending. Registers change by the commit of an OKAY write to them and by nothing else. All of it implements `RegFile` | STATUS, CONFIG, an aliasing unimplemented address; a full and a partial strobe |
| `scoreboard_serial` | No false mismatch; between transactions the model is the slave; STATUS.error is that of the last completed transaction; exactly the real wraps of COUNTER are reported | CTRL, STATUS, INT_STATUS, COUNTER, a misaligned unimplemented address; three beats |
| `scoreboard_status` | *violated*: see below | |
| `scoreboard_overlap` | *violated*: see below | |
| `memory` | Responses are earned, and the slave implements `MemFile`, whose array reset leaves alone; under the repository's traffic and resets no false mismatch, and defined lanes agree | two words of two lanes, a misaligned address; a full, a partial and an empty strobe |
| `mem_scoreboard_reset` | *violated*: see below | one word |
| `interconnect_route` | A write or a read is answered with the answer of the one slave that owns its address, given to exactly its address and data and taken once; an unmapped one with DECERR, seen by nobody; a slave sees only its own; slave-port beats stay until accepted | last register address, first memory address, first unmapped one; two read answers, both write answers |
| `ports_live` | Every accepted beat is answered and every offered beat accepted, by either slave and by the interconnect, of reads although the write path may be stuck, and the reverse; an interrupt survives a simultaneous clear, and none rises without a cause | INT_STATUS and an unmapped, misaligned address; the word that clears the event the slave raises for the latter |
| `system` | Behind the interconnect the halves of a write always meet; each of the three modules keeps what the models of the others assume; together they implement `RegFile` and `MemFile`, each at its own addresses | CONFIG, the first word of the memory, the first unmapped address; one beat, which changes the memory and is what CONFIG holds from reset on |
| `driver` | A slot is free exactly when nothing of its kind is in flight, and dispatched = seen + aborted + in flight; no beat of a dead transaction is left anywhere while the channels run; every item is answered | every program of three items of each kind, two resets |
| `scripts` | The regression: exit 0 means every selected local run ended by itself and clean; `results.json` has every run once with the right verdict; `latest` can be read; a cluster is a failure with all the runs that print it; [NEW] and gone are right, failure by failure; flaky is real; a feature off the problem list was clean on all seeds; every regression ends. The register map flow: green means in sync, and `regcheck` decides | three regressions of which two complete, a bench with two seeds, a second bench, a UVM test; four defects: one fails a check of every bench, twice on one with texts that differ past the cut, one fails another check on one seed and shares that bench's `$fatal` with the first, one is seen by the counters alone, one hangs; one fault and two edits. Two good maps and a broken one, two tables and one that no longer parses |
| `regression_timeout` | *violated*: see below | one regression |

**Why the bounds are enough.** The slaves hold at most one write and one read, so
two addresses and two beats already give every combination of a stale latch and a
fresh bus; the further addresses are one per class of decode (each error, each
register with behaviour of its own). Words have four bits in the register runs
because INT_STATUS has four, COUNTER has two because a wrap needs one carry, and
a memory word has two lanes of one bit because lanes do not interact. The
interconnect only moves data, so one bit of it is enough, and its addresses are
the boundaries of the regions in full size. `system` has one address per destination
and one beat: what a slave does with the others is the business of its own run, and
what is new is how the three go together, over every overlap of a write and a read
(107,114 states). That a register written through the interconnect changes, as the memory
does, is left to the theorem. Nothing else is bounded: time,
transactions and resets are not counted. The scoreboard and memory runs have no
counter that grows, so every run explores its whole state space.

The bounds of the driver are `Programs`, of three items because the
slot of a kind frees after one, the next is then blocked in `dispatch` or waits
behind a RAL item, and a third shows that the sequencer goes on; and `MaxResets`,
two, so that a reset finds what the reset before it left. The regression counts
`MaxStamps`, `MaxResults`, `MaxFaults` and `MaxChanges`: three regressions with two
complete ones give a dead directory before, between or after two reports, which is
what `previous_run` has to tell apart; one fault and two changes (an edit, an
imported log, in any order and at any moment) are the smallest that let a job die
or be cut off on sources other than those it started from. Two workers on three
local runs let a run wait, and end out of order. The register map flow is
unbounded. `Scripts` runs the two flows in one run as two sets of behaviours,
because they share no state; `MCMemory` does the same with its two workloads.

**Mutants.** Each property has a variant of one definition, kept beside the
definition and named after the mistake (`IntStatus_ClearFirst`,
`decode_BitTest`, ...), under which the property fails in the same run. Several
are the repository's own injected bugs.

**Fairness.** The clock runs. The master eventually supplies the other half of a
write and eventually takes a response: `drive_aw` and `drive_w` work through their
queues independently and `drive_b` and `drive_r` raise READY after a delay of at most
twenty clocks (`tb/agent/axi_driver.sv`, `axi_transaction.sv` `c_delay_range`); that it
keeps offering what it offered is the protocol, and part of the model. The slaves
behind the interconnect eventually accept and answer, which is what the same run shows
of the two real ones. Nothing is assumed of the module under check but that its clock
runs. Each liveness property carries its own assumptions as its antecedent, so that
reads are checked without any assumption about writes and writes without any about
reads. For that the clock itself has to be visible: `PortLive` counts edges by their
parity, because otherwise an edge on which nothing happens is no step, and fairness of
the clock would force a stuck party to move.

The driver's threads are scheduled by the simulator, each fairly and on its own,
the slave accepts and answers (`ports_live`), and ARESETn rises again
(`tb_top_sys.sv`). New items are not promised, nor resets. Of a regression only one
thing is assumed: the process runs on, and a simulation that does not end by itself
reaches the time limit `subprocess.run` sets; nothing obliges a person to act.

## Where the code and its documentation part

* **STATUS.error** (`scoreboard_status`). `docs/dut_spec.md` gives the outcome of
  the most recently *completed* transaction, and the comment above the register
  says the difference to the commit order cannot be seen. A read held by
  back-pressure across a write shows it. The repository's sequences avoid the
  situation, and say that the question is open.
* **Overlapped reads** (`scoreboard_overlap`). The scoreboard excuses an
  overlapped read of STATUS only. Any other register read between the commit of
  a write to it and its B handshake is compared with the old value.
* **A memory write lost to reset** (`mem_scoreboard_reset`). A write that has
  committed when reset takes its response away is in the array for good. The
  monitor flushes it and `write_rst` leaves the memory model and its valid lanes
  as they were, so a later read of a lane that was defined before is reported as
  a mismatch. `axi_reset_seq` never resets at that moment, which is why the
  scoreboard's half of `memory` holds under `DirectedReset`.
* **A time-out that loses the regression** (`regression_timeout`). `run_local`
  adds the two streams of `TimeoutExpired`, which are bytes or None whatever `text`
  says; with output on one stream only the addition raises, the exception leaves
  `main`, and a regression whose other runs have all ended writes no
  `results.json`. The docstring promises that the whole output of a failure is
  kept. `GateSound` and the others hold all the same: the exit status is not 0 and
  `latest` still names the report before.

Seen while modelling, with no run of their own:

* a FAIL whose errors no pattern matches has no signature, so triage reports "No
  failures to triage" and exits 0 (the regression itself exits 1);
* `results.json` is not written atomically, and triage of every later regression
  dies on a file cut off (`Dies`);
* the traceability report says "every claiming test passed" also when a claiming
  test is MISSING or UNKNOWN next to one that passed; and a log imported long ago
  counts as PASS for ever;
* `expect` in the test list and the exit code of a simulation have no part in the
  verdict;
* `make regcheck` rewrites what it reports stale, so that a second one is green;
* `make import-log` refuses two of the test names its usage line offers;
* `load` accepts two registers of one name, and `check_regmap` then sees the last.

## What is proved

For every width, address set, beat set and reset identity the assumptions
`WidthAssumption` and `BusAssumption` admit, about `RegSlaveBus!Spec`:

* `TypeCorrect`, `WriteResponsesEarned`, `ReadResponsesEarned`,
  `ChangesAreCommits`, `InterruptsNeverLost`, `InterruptsNeverInvented`,
  `WritesVisible`, `ErrorsVisible`, `WrapsAreReported`,
* `Refinement`: the slave implements `RegFile`,

all in `RegSlaveProofs`.

All rest on `Invariance`. The responses' properties are not inductive: they
speak of the checker's accepted beats while the slave answers from its latches.
The inductive invariant adds `LatchesHoldAccepted`, which says that a latch flag
is up exactly while that half is accepted and the write is not yet committed,
and that the latch then holds it. The proof goes channel by channel, with one
lemma for the halves accepted on the edge (the bypass), one for the commit and
one for the read, and reset apart. The edge properties then follow from the
invariant in the state before the edge, and the refinement maps an edge to a commit, a read, both with the read first, or a step of the counter, by
cases on whether a write commits and whether a read is accepted.

About `RegScoreboard`, under the same assumptions, in `RegScoreboardProofs`:
`NoFalseAlarm`, `ModelTracksBank` and `StatusReportsLast` for the repository's
traffic (`SerialSpec`), and `ResponsesTrusted` for any traffic (`SbSpec`): whatever
overlaps, BRESP and RRESP are predicted right, so that what `scoreboard_overlap`
finds can only be about data. That nothing was reported is far from inductive: the
bank changes at the commit and the model at the B handshake, and COUNTER and
INT_STATUS move with the clock. `SInv` says that the model *with the pending
transaction applied to it* agrees with the flops on every bit the scoreboard
predicts, and that the data of a pending read is what the model predicts, whichever
of the threads of an edge ran first. `SerialClock` is used in one place
only: no write is in flight while a read is.

About `MemSlaveBus!Spec`, for every width, number of words, address set and beat set
(`MemAssumption`, `BusAssumption`), in `MemSlaveProofs`: `TypeCorrect`,
`ResponsesAreEarned` and `Refinement` (the slave implements `MemFile`), along the
same argument as the register slave. And about `MemScoreboard!DirectedSpec`:
`MemoryNeverAccused` and `DefinedLanesAlwaysAgree`. The model is updated when the
response is taken, the array when the write commits, so in between they differ by
one write; the invariant `SInv` says that with that write applied to the model they
agree on every lane then defined, and that a read in flight holds what the array
still holds. `SbSpec`, where a reset may fall in that gap, has no such theorem: it
is the run `mem_scoreboard_reset`.

About `InterconnectBus!Spec`, for every map of two adjacent regions, every width,
address set, beat set and set of read answers (`MapAssumption`, `BusAssumption`,
`InterconnectBusAssumption`), in `InterconnectProofs`: `TypeCorrect`,
`ResponsesAreRouted`, `OnlyTheOwnerSees` and `SlavePortsStable`. None of them
is inductive: they compare what left one side with what entered the other, and the
address travels through `aw_addr_q`, its destination through `w_dest_q`. The
invariant has three parts per path. `WriteInv` ties the held halves to the beats the
master waits for and the destination to the decoding of the held address;
`WritePorts` says that a half is at a slave's port exactly from its acceptance there
to the answer; `WriteAnswered` says that an answer is on record exactly while the
response is up. The read path has the same three. A step is then a lemma per part,
by the state of the path's machine, and reset apart.

What the three slaves' proofs share, the facts about offered, accepted and answered
beats, is in `AxiBusProofs`.

About `System!SysSpec`, for every map of two adjacent regions, every width, size of
the memory, address set and beat set (`SystemAssumption`, `WidthAssumption`,
`BusAssumption`), in `SystemProofs`: `HalvesAlwaysMeet`, `PromisesAreKept` and
`FilesAreImplemented`. The invariant is `Coupling`: the slaves are ready whenever the
interconnect turns to them, so a state that forwards and one that waits for the answer
last one edge each, no slave ever latches a half, a response is up exactly while the
interconnect waits for it, and every beat on the way is one the master sent.
`HalvesAlwaysMeet` is a part of it. `PromisesAreKept` turns it into three step
simulations, and pays for the rest: it makes the invariants of `RegSlaveProofs`,
`MemSlaveProofs` and `InterconnectProofs`, proved there for any surroundings, true of
the system without proving anything of them again (`MemP` and `IcP` are those modules
with the variables of the system for theirs). `FilesAreImplemented` is by where a
result is: in the slave that earned it, in the interconnect that took it, or with the
master. On the one edge on which it moves from the first to the second the abstract
file must not see anything (`WriteHeldStep`, `ReadHeldStep`), and on the edge on which
it appears its address and beats must be those at the master's port, which the
interconnect's invariant knows and the slave's does not.

About `Driver!Spec`, for every set of programs (`ProgramsAssumption`) and any
number of resets, in `DriverProofs`: `EveryTransactionAccounted` and
`DeadBeatsAreGone`. Neither is inductive: that a slot is free exactly when nothing
is in flight says nothing of where the transaction is. `DriverInv` adds that it is
`cur`, and where on each channel it can be: in the mailbox, in the thread, on the
pin or in the slave, and in one of them only. Then `dispatch` finds every mailbox of
its kind empty, a response finds its own transaction in the thread, and `on_reset`
retires exactly one transaction per kind, found in the mailbox, in `cur`, or both.

About `Regression!Spec`, for every test list, set of defects, number of workers and
number of faults (`ManifestAssumption`, `TestlistAssumption`, `DesignsAssumption`,
`BoundsAssumption`), in `ScriptsProofs`: `RegressionTypeCorrect`,
`LatestCanBeRead`, `PassesAreEarned`, `TheGateIsSound`, `ClustersAreTheFailures`,
`NewMeansNew`, `FlakyMeansSeeds`, `PassingMeansClean`. `RegInv` follows a result on its way: the parser passes exactly
the clean logs (`ManifestAssumption`: a run prints something exactly if it met a
defect, and no line escapes both patterns and counters; nothing else is assumed of it),
every selected local run is queued or has one honest result unless some future
raised, the directory of the job in progress is not readable before the link is
due, and is complete from then on. What triage and the traceability matrix say needs
more: `TellInv`, proved on top of it, follows the signatures on the same way, from the
lines of a simulation (the findings are failures that what it met makes it print, all
of them if it was whole) into imported logs, results and reports, and says that the local results of
a report come from one build per target. `Greatest` is the step from "the largest
stamp with a file" to "the most recent complete regression". `TestlistAssumption` says
that a name in the test list stands for one runner and one target. `load_testlist`
does not check it, and `scripts/testlist.yaml` satisfies it by listing each name once;
without it two binaries could pass for two seeds of one test.

About `RegmapFlow!MapSpec`, for every set of documents and tables
(`DocumentsAssumption`, `NamesAssumption`), in `ScriptsProofs`: `GreenIsInSync` and
`RegcheckIsADecision`. `MapInv` says what a target has established at each of its
steps as long as nobody has edited, and what it remembers of the tree it started
from. Nothing in it depends on what a register is. `FlowsAreIndependent` says that each flow
goes on beside the other as if it were alone, so that the theorems of both hold of
`ScriptsSpec`, which the run checks.

The inductive invariants were model-checked before they were proved, `SInv` on the
instance of `scoreboard_serial`, `TellInv` on that of `scripts` and `Coupling` on that
of `system`.

Model-checked only: liveness (`WritesComplete`, `ReadsComplete`, `EveryItemAnswered`,
`RegressionEnds`), which is out of the proof system's reach. Every other property of a
passing run is stated by a theorem. `TypeCorrect` of the interconnect is a theorem
without a run of its own.

## Not modelled

* **Reset as a level with clock edges inside it.** A reset is one state here, in
  every module. Open with it: that `mem_write` is not gated by ARESETn (behind the
  interconnect it does no harm, for the interconnect's own reset drops the VALIDs of
  the memory port at once, which is what `System` takes), the monitor's flush on the
  fall of ARESETn against beats sampled inside reset, and the reset event published
  at its rise.
* **The system scoreboard's routing** and `check_unmapped`: it is the two scoreboards
  that are modelled, chosen by address.
* **RAL**: only the wait it causes in the driver. The mirror is library code.
* **Watchdog**: one thread that samples a count; its properties are about
  simulated time.
* **Coverage collector, `coverage_report.py`, `llm_triage.py`,
  `strip_comments.py`, sanity benches, templates**: counters, tables, text and
  directed stimulus on which no verdict depends.
* **In the modelled parts**: the regular expressions of the parser, the wording and
  layout of reports, two regressions started in the same second (they share a
  directory), delay statistics of the monitor, check tallies, X values other than
  as an arbitrary initial array, timing inside a clock period.
