----------------------------- MODULE Regression -----------------------------
(***************************************************************************)
(* scripts/run_regression.py, with the source tree that changes under it,  *)
(* the simulations it launches and the logs people bring in.               *)
(*                                                                         *)
(* A regression is a process: it builds every target once, runs the local  *)
(* tests on a pool of workers, reads the imported logs, writes             *)
(* results.json and moves the link `latest'.  It can die between any two   *)
(* of these, and a simulation can hang, be killed or be too slow.          *)
(***************************************************************************)
EXTENDS ParseLog, Integers, SequencesExt

CONSTANTS
  Testlist,       \* testlist.yaml: a sequence of test records
  Invocations,    \* the command lines: [only, local_only]
  jobs,           \* --jobs
  Defects,        \* what can be wrong with the sources
  Designs,        \* the sets of defects the source tree goes through
  Exposes,        \* [Defects -> SUBSET <<test, seed>>]: the runs that meet it
  Manifest,       \* [<<test, seed>> -> [SUBSET Defects -> set of lines]]: what a run
                  \* prints that meets these; a line of kind "hang": it never ends
  MaxStamps,      \* bounds: regressions started,
  MaxResults,     \* regressions completed,
  MaxFaults,      \* faults of the machine,
  MaxChanges      \* and edits of the sources and logs brought in

\* A name in the test list stands for one runner and one target.
ASSUME TestlistAssumption ==
  \A i, j \in DOMAIN Testlist : Testlist[i].name = Testlist[j].name =>
    /\ Testlist[i].runner = Testlist[j].runner
    /\ Testlist[i].runner = "local" => Testlist[i].target = Testlist[j].target

ASSUME DesignsAssumption == Designs \subseteq SUBSET Defects

ASSUME BoundsAssumption == MaxFaults \in Nat /\ MaxChanges \in Nat

VARIABLES
  design,         \* the defects now in the source tree
  uvm_logs,       \* sim/logs: [imported test -> <<>> or <<execution>>]
  job,            \* the regression in progress, with the binaries it built
  results,        \* results/<stamp>, as a sequence indexed by the stamp
  latest,         \* the stamp the link names, 0 when there is no link
  exit,           \* the status of the last regression, and its stamp
  faults,
  changes

vars == <<design, uvm_logs, job, results, latest, exit, faults, changes>>

-----------------------------------------------------------------------------
(* The test list.                                                          *)

NoSeed == -1                       \* None, as results.sort orders it

TestRuns(t) ==
  IF t.runner = "local"
    THEN [i \in DOMAIN t.seeds |-> [test |-> t.name, runner |-> "local",
                                    target |-> t.target, seed |-> t.seeds[i]]]
    ELSE <<[test |-> t.name, runner |-> "imported",
            target |-> "", seed |-> NoSeed]>>

\* A run is at <<test, seed>> in the list; what load_testlist returns, a run
\* listed twice being one here.
Places   == UNION {{<<i, k>> : k \in DOMAIN TestRuns(Testlist[i])} : i \in DOMAIN Testlist}
RunAt(p) == TestRuns(Testlist[p[1]])[p[2]]
Runs     == {RunAt(p) : p \in Places}

\* <<q, r>>: q comes before r in the list, and so in the pool's queue.
Sooner(p, q) == p[1] < q[1] \/ (p[1] = q[1] /\ p[2] < q[2])
Order == {<<RunAt(x[1]), RunAt(x[2])>> : x \in {y \in Places \X Places : Sooner(y[1], y[2])}}

Selected(args) == {r \in Runs : /\ args.only # {} => r.test \in args.only
                                /\ args.local_only => r.runner = "local"}

\* Mutant: the selection is not applied to what is run.
LocalRuns_All(args) == {r \in Runs : r.runner = "local"}

LocalRuns(args) == {r \in Selected(args) : r.runner = "local"}

Targets == {r.target : r \in {q \in Runs : q.runner = "local"}}
UvmTests == {r.test : r \in {q \in Runs : q.runner = "imported"}}

-----------------------------------------------------------------------------
(* The simulations: what a run of given sources prints.                    *)

Site(run) == <<run.test, run.seed>>

Met(run, defects) == {d \in defects : Site(run) \in Exposes[d]}

\* A run fails in some way exactly if it meets a defect, and every line it
\* prints then is of a kind the parser or its counters know.
ASSUME ManifestAssumption ==
  \A run \in Runs : \A met \in SUBSET Met(run, Defects) :
    LET lines == Manifest[Site(run)][met]
    IN /\ lines = {} <=> met = {}
       /\ \A l \in lines : l.kind \in PATTERNS \cup COUNTERS \cup {"hang"}

Lines(run, met) == {l \in Manifest[Site(run)][met] : l.kind # "hang"}

Hangs(run, defects) ==
  \E l \in Manifest[Site(run)][Met(run, defects)] : l.kind = "hang"

Printed(run, defects) == Lines(run, Met(run, defects))

\* An execution is its log, with two history fields no code reads: the
\* defects the run met and whether it came to its own end.
\* $fatal ends a bench before it says that it is done.
Whole(run, defects) ==
  [log |-> [lines |-> Printed(run, defects),
            completed |-> \A l \in Printed(run, defects) : l.kind \notin FATAL],
   met |-> Met(run, defects), whole |-> TRUE]

\* Cut off by a signal, a time limit or Playground's own: the log stops
\* anywhere before its last line, the completion marker or that of $fatal.
CutOff(run, defects) ==
  {[log |-> [lines |-> L, completed |-> FALSE],
    met |-> Met(run, defects), whole |-> FALSE] :
     L \in SUBSET {l \in Printed(run, defects) : l.kind \notin FATAL}}

-----------------------------------------------------------------------------
(* The regression process.                                                 *)

\* binary is [target -> the defects compiled into it].  It belongs to the job:
\* no regression runs what an earlier one built.
Idle == [pc |-> "idle", runs |-> {}, targets |-> {}, binary |-> <<>>,
         queue |-> {}, results |-> {}, raised |-> FALSE]

NewDir(runs) == [selected |-> runs, json |-> "absent", runs |-> {}]

stamp == Len(results)
Complete == {s \in DOMAIN results : results[s].json = "whole"}

TypeOK ==
  /\ design \in Designs
  /\ \A t \in UvmTests : Len(uvm_logs[t]) <= 1
  /\ job.pc \in {"idle", "build", "pool", "import", "json", "unlink", "link"}
  /\ DOMAIN job.binary \subseteq Targets
  /\ job.runs \subseteq Runs /\ job.queue \subseteq job.runs
  /\ \A r \in job.results : r.run \in job.runs
  /\ \A s \in DOMAIN results : results[s].json \in {"absent", "partial", "whole"}
  /\ latest \in 0..stamp
  /\ faults \in 0..MaxFaults /\ changes \in 0..MaxChanges

Init ==
  /\ design \in Designs
  /\ uvm_logs = [t \in UvmTests |-> <<>>]
  /\ job = Idle
  /\ results = <<>> /\ latest = 0
  /\ exit = [stamp |-> 0, status |-> 0]
  /\ faults = 0 /\ changes = 0

Fault == faults < MaxFaults /\ faults' = faults + 1

\* The process ends with an exit status; 1 covers sys.exit with a message and
\* a traceback.
Exit(status) ==
  /\ job' = Idle
  /\ exit' = [stamp |-> stamp, status |-> status]

Start(args) ==
  LET runs  == Selected(args)
      local == LocalRuns(args)
  IN /\ job.pc = "idle" /\ runs # {}
     /\ stamp < MaxStamps /\ Cardinality(Complete) < MaxResults
     /\ results' = Append(results, NewDir(runs))
     /\ job' = [Idle EXCEPT !.pc      = IF local = {} THEN "import" ELSE "build",
                            !.runs    = runs,
                            !.targets = {r.target : r \in local},
                            !.queue   = local]
     /\ UNCHANGED <<design, uvm_logs, latest, exit, faults, changes>>

\* One target, from the sources as they are at that moment.  The last one
\* opens the pool.
build_target(t) ==
  /\ job.pc = "build" /\ t \in job.targets
  /\ job' = [job EXCEPT !.targets = @ \ {t},
                        !.binary = [q \in DOMAIN @ \cup {t} |-> IF q = t THEN design ELSE @[q]],
                        !.pc = IF job.targets = {t} THEN "pool" ELSE @]
  /\ UNCHANGED <<design, uvm_logs, results, latest, exit, faults, changes>>

\* Sources that do not compile, no compiler, or its 900 s are over.
build_fails ==
  /\ job.pc = "build" /\ Fault
  /\ Exit(1)
  /\ UNCHANGED <<design, uvm_logs, results, latest, changes>>

\* The workers take the queue in order, so these are the runs in progress.
Active == {r \in job.queue : Cardinality({q \in job.queue : <<q, r>> \in Order}) < jobs}

Result(run, execution) ==
  [run |-> run, status |-> parse(execution.log).status,
   signatures |-> parse(execution.log).signatures,
   met |-> execution.met, whole |-> execution.whole]

TIMEOUT == <<"TIMEOUT", "600s">>

\* subprocess.TimeoutExpired: FAIL whatever the log says, and a signature.
TimeoutResult(run, execution) ==
  [Result(run, execution) EXCEPT !.status = "FAIL", !.signatures = @ \cup {TIMEOUT}]

\* The future of a run completes: with a result, or raising.
Resolve(run, result) ==
  /\ job' = [job EXCEPT !.queue = @ \ {run}, !.results = @ \cup {result}]
  /\ UNCHANGED <<design, uvm_logs, results, latest, exit, changes>>

Raise(run) ==
  /\ job' = [job EXCEPT !.queue = @ \ {run}, !.raised = TRUE]
  /\ UNCHANGED <<design, uvm_logs, results, latest, exit, changes>>

\* Mutant: no build of its own, the sources as they are when the run starts.
Binary_Sources(run) == design

\* What is compiled into the binary the run executes.
Binary(run) == job.binary[run.target]

run_local(run) ==
  LET defects == Binary(run)
  IN /\ job.pc = "pool" /\ run \in Active
     /\ ~Hangs(run, defects)
     /\ Resolve(run, Result(run, Whole(run, defects)))
     /\ UNCHANGED faults

\* The simulation is killed from outside.  Its exit code is kept, not judged.
run_local_killed(run) ==
  /\ job.pc = "pool" /\ run \in Active
  /\ Fault
  /\ \E x \in CutOff(run, Binary(run)) : Resolve(run, Result(run, x))

\* Mutant: the limit does not reach a simulation that never ends.
run_local_timeout_SlowOnly(run) ==
  /\ job.pc = "pool" /\ run \in Active
  /\ ~Hangs(run, Binary(run)) /\ Fault
  /\ \E x \in CutOff(run, Binary(run)) : Resolve(run, TimeoutResult(run, x))

\* The time limit.  The exception carries bytes for a stream that printed and
\* None for one that did not, so adding the two raises TypeError unless both
\* printed or neither did.
run_local_timeout(run) ==
  LET defects == Binary(run)
  IN /\ job.pc = "pool" /\ run \in Active
     /\ IF Hangs(run, defects) THEN UNCHANGED faults ELSE Fault
     /\ \/ \E x \in CutOff(run, defects) : Resolve(run, TimeoutResult(run, x))
        \/ Raise(run)

\* The pool is drained, also when a future raised: the pool's exit waits for
\* the rest, and only then does the exception end the process.
pool_done ==
  /\ job.pc = "pool" /\ job.queue = {}
  /\ IF job.raised THEN Exit(1)
                   ELSE job' = [job EXCEPT !.pc = "import"] /\ UNCHANGED exit
  /\ UNCHANGED <<design, uvm_logs, results, latest, faults, changes>>

Missing(run) ==
  [run |-> run, status |-> "MISSING", signatures |-> {}, met |-> {}, whole |-> FALSE]

Imported == {r \in job.runs : r.runner = "imported"}
Read     == {x.run : x \in job.results}

run_imported(run) ==
  /\ job.pc = "import" /\ run \in Imported \ Read
  /\ job' = [job EXCEPT !.results = @ \cup
               {IF uvm_logs[run.test] = <<>> THEN Missing(run)
                                             ELSE Result(run, uvm_logs[run.test][1])}]
  /\ UNCHANGED <<design, uvm_logs, results, latest, exit, faults, changes>>

\* Mutant: the link is moved before the report is written.
open_json_Links ==
  /\ job.pc = "import" /\ Imported \subseteq Read
  /\ results' = [results EXCEPT ![stamp].json = "partial"]
  /\ latest' = stamp
  /\ job' = [job EXCEPT !.pc = "json"]
  /\ UNCHANGED <<design, uvm_logs, exit, faults, changes>>

\* results.json is opened, and then written: a process that dies in between
\* leaves a file no reader can parse.
open_json ==
  /\ job.pc = "import" /\ Imported \subseteq Read
  /\ results' = [results EXCEPT ![stamp].json = "partial"]
  /\ job' = [job EXCEPT !.pc = "json"]
  /\ UNCHANGED <<design, uvm_logs, latest, exit, faults, changes>>

write_json ==
  /\ job.pc = "json"
  /\ results' = [results EXCEPT ![stamp] =
                   [selected |-> job.runs, json |-> "whole", runs |-> job.results]]
  /\ job' = [job EXCEPT !.pc = "unlink"]
  /\ UNCHANGED <<design, uvm_logs, latest, exit, faults, changes>>

unlink ==
  /\ job.pc = "unlink"
  /\ latest' = 0
  /\ job' = [job EXCEPT !.pc = "link"]
  /\ UNCHANGED <<design, uvm_logs, results, exit, faults, changes>>

\* Mutant: only FAIL counts.
bad_FailOnly(runs) == {x \in runs : x.status = "FAIL"}

bad(runs) == {x \in runs : x.status \in {"FAIL", "INCOMPLETE"}}

\* The link is made, the verdict returned.  MISSING is not bad.
link ==
  /\ job.pc = "link"
  /\ latest' = stamp
  /\ Exit(IF bad(job.results) = {} THEN 0 ELSE 1)
  /\ UNCHANGED <<design, uvm_logs, results, faults, changes>>

\* Ctrl-C, a reboot.
die ==
  /\ job.pc # "idle" /\ Fault
  /\ Exit(130)
  /\ UNCHANGED <<design, uvm_logs, results, latest, changes>>

-----------------------------------------------------------------------------
(* The people around it.                                                   *)

Change == changes < MaxChanges /\ changes' = changes + 1

edit ==
  /\ Change
  /\ design' \in Designs \ {design}
  /\ UNCHANGED <<uvm_logs, job, results, latest, exit, faults>>

\* A UVM test run by hand on the sources of the moment, its log dropped into
\* sim/logs by make import-log.  Playground kills long jobs without a message.
import_log(run) ==
  /\ Change
  /\ \/ /\ ~Hangs(run, design)
        /\ uvm_logs' = [uvm_logs EXCEPT ![run.test] = <<Whole(run, design)>>]
        /\ UNCHANGED faults
     \/ /\ Fault
        /\ \E x \in CutOff(run, design) : uvm_logs' = [uvm_logs EXCEPT ![run.test] = <<x>>]
  /\ UNCHANGED <<design, job, results, latest, exit>>

JobStep ==
  \/ \E t \in Targets : build_target(t)
  \/ build_fails
  \/ \E r \in Runs : run_local(r) \/ run_local_killed(r) \/ run_local_timeout(r)
  \/ pool_done
  \/ \E r \in Runs : run_imported(r)
  \/ open_json \/ write_json \/ unlink \/ link

Next ==
  \/ \E args \in Invocations : Start(args)
  \/ JobStep
  \/ die
  \/ edit
  \/ \E r \in {q \in Runs : q.runner = "imported"} : import_log(r)

Spec == Init /\ [][Next]_vars

\* The process runs on: the machine schedules it, and a simulation that has
\* not ended by itself reaches its time limit.
FairSpec == Spec /\ WF_vars(JobStep)
=============================================================================
