---------------------------- MODULE ScriptsProofs ---------------------------
(***************************************************************************)
(* What a reader of the two flows of scripts/ may rely on.  Of the         *)
(* regression, for every test list, every set of defects, any number of    *)
(* workers and any number of faults: the verdict of every run, the exit    *)
(* status and the link; and what the triage of a report and the            *)
(* traceability matrix say of the defects.  Of the register map, for every *)
(* set of documents and every set of specification tables: its two         *)
(* promises.                                                               *)
(***************************************************************************)
EXTENDS Scripts, FiniteSetTheorems, TLAPS

Building == {"build", "pool"}
Done     == {"json", "unlink", "link"}
States   == Building \cup Done \cup {"idle", "import"}

Locals(runs) == {r \in runs : r.runner = "local"}

\* The parser passes exactly the logs of simulations that ended by themselves
\* and met nothing.
Honest(x) == Verdict(x.log) = "PASS" <=> Clean(x)

HonestResult(x) ==
  /\ x.status = "PASS" <=> Clean(x)
  /\ x.run.runner = "local" => x.status # "MISSING"
  /\ x.status \in {"PASS", "FAIL", "INCOMPLETE", "MISSING"}

-----------------------------------------------------------------------------
(* The inductive invariant, part by part.                                  *)

Shape ==
  /\ job = [pc |-> job.pc, runs |-> job.runs, targets |-> job.targets,
            binary |-> job.binary, queue |-> job.queue, results |-> job.results,
            raised |-> job.raised]
  /\ job.pc \in States
  /\ results \in Seq(ToSet(results))
  /\ \A s \in DOMAIN results :
       results[s] = [selected |-> results[s].selected, json |-> results[s].json,
                     runs |-> results[s].runs]
  /\ exit = [stamp |-> exit.stamp, status |-> exit.status]
  /\ uvm_logs = [t \in UvmTests |-> uvm_logs[t]]

LogsHonest ==
  \A t \in UvmTests : uvm_logs[t] # <<>> => Honest(uvm_logs[t][1])

\* What waits for the pool has been built by the time it opens.
Built ==
  /\ job.pc \in Building => \A t \in DOMAIN job.binary : job.binary[t] \in Designs
  /\ job.pc = "build" => \A r \in job.queue : r.target \in job.targets \cup DOMAIN job.binary
  /\ job.pc = "pool" => \A r \in job.queue : r.target \in DOMAIN job.binary

\* Every selected run is waiting or has one result, but for those that raised.
Accounted ==
  /\ \A x \in job.results : HonestResult(x)
  /\ \A x, y \in job.results : x.run = y.run => x = y
  /\ job.pc \in Building => /\ job.queue \subseteq Locals(job.runs)
                            /\ job.queue \cap Read = {}
                            /\ job.raised \/ Locals(job.runs) \subseteq job.queue \cup Read
                            /\ \A x \in job.results : x.run \in Locals(job.runs)
  /\ job.pc = "import" => Locals(job.runs) \subseteq Read
  /\ job.pc \in Done => job.runs \subseteq Read

\* The directory of the regression in progress.
Directory ==
  job.pc # "idle" =>
    /\ stamp \in DOMAIN results
    /\ results[stamp].selected = job.runs
    /\ job.pc \in {"unlink", "link"} =>
         results[stamp].json = "whole" /\ results[stamp].runs = job.results
    /\ job.pc \notin {"unlink", "link"} => results[stamp].json # "whole"

Reported(dir) ==
  /\ {x.run : x \in dir.runs} = dir.selected
  /\ \A x, y \in dir.runs : x.run = y.run => x = y
  /\ \A x \in dir.runs : HonestResult(x)

Reports == \A s \in Complete : Reported(results[s])

Gate == exit.stamp # 0 /\ exit.status = 0 =>
          /\ exit.stamp \in Complete
          /\ bad(results[exit.stamp].runs) = {}

RegInv ==
  /\ TypeOK /\ Shape /\ LogsHonest /\ Built /\ Accounted /\ Directory
  /\ Reports /\ Gate /\ LatestIsComplete

-----------------------------------------------------------------------------
(* Sequences.                                                              *)

LEMMA Appended ==
  ASSUME NEW f, f \in Seq(ToSet(f)), NEW e
  PROVE  /\ Append(f, e) \in Seq(ToSet(Append(f, e)))
         /\ Len(f) \in Nat /\ DOMAIN f = 1 .. Len(f)
         /\ Len(Append(f, e)) = Len(f) + 1 /\ DOMAIN Append(f, e) = 1 .. Len(f) + 1
         /\ Append(f, e)[Len(f) + 1] = e
         /\ \A i \in 1 .. Len(f) : Append(f, e)[i] = f[i]
  BY DEF ToSet

LEMMA Replaced ==
  ASSUME NEW f, f \in Seq(ToSet(f)), NEW n \in DOMAIN f, NEW e
  PROVE  LET g == [f EXCEPT ![n] = e]
         IN /\ g \in Seq(ToSet(g))
            /\ Len(g) = Len(f) /\ DOMAIN g = DOMAIN f
            /\ g[n] = e
            /\ \A i \in DOMAIN f : i # n => g[i] = f[i]
  <1> DEFINE g == [f EXCEPT ![n] = e]
  <1>1. DOMAIN f = 1 .. Len(f) /\ Len(f) \in Nat
    OBVIOUS
  <1>2. /\ DOMAIN g = DOMAIN f /\ g[n] = e
        /\ \A i \in DOMAIN f : i # n => g[i] = f[i]
    OBVIOUS
  <1>3. ToSet(g) = {g[i] : i \in DOMAIN g}
    BY DEF ToSet
  <1>4. g = [i \in 1 .. Len(f) |-> g[i]] /\ \A i \in 1 .. Len(f) : g[i] \in ToSet(g)
    BY <1>1, <1>2, <1>3
  <1>5. g \in Seq(ToSet(g)) /\ Len(g) = Len(f)
    <2> HIDE DEF g
    <2>1. g \in [1 .. Len(f) -> ToSet(g)]
      BY <1>4
    <2> QED
      BY <1>1, <2>1
  <1> QED
    BY <1>2, <1>5

-----------------------------------------------------------------------------
(* The simulations and the parser.                                         *)

LEMMA VerdictType == ASSUME NEW log PROVE Verdict(log) \in {"PASS", "FAIL", "INCOMPLETE"}
  BY DEF Verdict

LEMMA MetType ==
  ASSUME NEW run, NEW defects \in SUBSET Defects
  PROVE  Met(run, defects) \in SUBSET Met(run, Defects) /\ Met(run, defects) \subseteq Defects
  BY DEF Met

\* A simulation that ends prints a line the parser counts exactly if it meets
\* a defect.
LEMMA PrintedType ==
  ASSUME ManifestAssumption, NEW run \in Runs, NEW defects \in SUBSET Defects,
         ~Hangs(run, defects)
  PROVE  /\ Printed(run, defects) = {} <=> Met(run, defects) = {}
         /\ \A l \in Printed(run, defects) : l.kind \in PATTERNS \cup COUNTERS
  <1> DEFINE lines == Manifest[Site(run)][Met(run, defects)]
  <1>1. /\ lines = {} <=> Met(run, defects) = {}
        /\ \A l \in lines : l.kind \in PATTERNS \cup COUNTERS \cup {"hang"}
    BY MetType DEF ManifestAssumption
  <1>2. \A l \in lines : l.kind # "hang"
    BY DEF Hangs
  <1>3. Printed(run, defects) = lines
    BY <1>2 DEF Printed, Lines
  <1> QED
    BY <1>1, <1>2, <1>3

LEMMA WholeIsHonest ==
  ASSUME ManifestAssumption, NEW run \in Runs, NEW defects \in SUBSET Defects,
         ~Hangs(run, defects)
  PROVE  Honest(Whole(run, defects))
  <1> DEFINE x == Whole(run, defects)
  <1>1. /\ x.whole /\ x.met = Met(run, defects) /\ x.log.lines = Printed(run, defects)
        /\ x.log.completed <=> \A l \in Printed(run, defects) : l.kind \notin FATAL
    BY DEF Whole
  <1> HIDE DEF x
  <1>2. x.log.lines # {} => findings(x.log) # {} \/ errors(x.log) # {}
    BY <1>1, PrintedType DEF findings, errors
  <1>3. x.log.lines = {} => findings(x.log) = {} /\ errors(x.log) = {} /\ x.log.completed
    BY <1>1 DEF findings, errors
  <1>4. Honest(x)
    BY <1>1, <1>2, <1>3, PrintedType DEF Honest, Clean, Verdict
  <1> QED
    BY <1>4 DEF x

LEMMA CutOffIsHonest ==
  ASSUME NEW run, NEW defects, NEW x \in CutOff(run, defects)
  PROVE  Honest(x) /\ ~x.whole
  <1>1. ~x.whole /\ ~x.log.completed
    BY DEF CutOff
  <1> QED
    BY <1>1 DEF Honest, Clean, Verdict

LEMMA ResultIsHonest ==
  ASSUME NEW run, NEW x, Honest(x)
  PROVE  HonestResult(Result(run, x)) /\ Result(run, x).run = run
  <1>1. Result(run, x).run = run /\ Result(run, x).status = Verdict(x.log)
        /\ Result(run, x).met = x.met /\ Result(run, x).whole = x.whole
    BY DEF Result, parse
  <1> QED
    BY <1>1, VerdictType DEF Honest, HonestResult, Clean

LEMMA TimeoutIsHonest ==
  ASSUME NEW run, NEW x, ~x.whole
  PROVE  HonestResult(TimeoutResult(run, x)) /\ TimeoutResult(run, x).run = run
  <1>1. TimeoutResult(run, x).run = run /\ TimeoutResult(run, x).status = "FAIL"
        /\ TimeoutResult(run, x).whole = x.whole
    BY DEF TimeoutResult, Result
  <1> QED
    BY <1>1 DEF HonestResult, Clean

LEMMA MissingIsHonest ==
  ASSUME NEW run, run.runner # "local"
  PROVE  HonestResult(Missing(run)) /\ Missing(run).run = run
  BY DEF Missing, HonestResult, Clean

\* A run is its test's, with the test's runner and target.
LEMMA RunOf ==
  ASSUME NEW r \in Runs
  PROVE  \E i \in DOMAIN Testlist :
           /\ r.test = Testlist[i].name
           /\ Testlist[i].runner = "local" => r.runner = "local" /\ r.target = Testlist[i].target
           /\ Testlist[i].runner # "local" =>
                r = [test |-> Testlist[i].name, runner |-> "imported", target |-> "",
                     seed |-> NoSeed]
  <1>1. PICK i \in DOMAIN Testlist : \E k \in DOMAIN TestRuns(Testlist[i]) :
          r = TestRuns(Testlist[i])[k]
    BY DEF Runs, Places, RunAt
  <1>2. CASE Testlist[i].runner = "local"
    <2> DEFINE seeds == Testlist[i].seeds
               runs  == [k \in DOMAIN seeds |->
                           [test |-> Testlist[i].name, runner |-> "local",
                            target |-> Testlist[i].target, seed |-> seeds[k]]]
    <2>1. TestRuns(Testlist[i]) = runs
      BY <1>2 DEF TestRuns
    <2>2. PICK k \in DOMAIN seeds : r = runs[k]
      BY <1>1, <2>1
    <2>3. r.test = Testlist[i].name /\ r.runner = "local" /\ r.target = Testlist[i].target
      BY <2>2
    <2> QED
      BY <1>2, <2>3
  <1>3. CASE Testlist[i].runner # "local"
    <2> DEFINE run == [test |-> Testlist[i].name, runner |-> "imported", target |-> "",
                       seed |-> NoSeed]
    <2>1. TestRuns(Testlist[i]) = <<run>>
      BY <1>3 DEF TestRuns
    <2>2. r = run
      <3> HIDE DEF run
      <3>1. DOMAIN <<run>> = {1} /\ <<run>>[1] = run
        OBVIOUS
      <3> QED
        BY <1>1, <2>1, <3>1
    <2> QED
      BY <1>3, <2>2
  <1> QED
    BY <1>2, <1>3

LEMMA Runners == \A r \in Runs : r.runner \in {"local", "imported"}
  <1> SUFFICES ASSUME NEW r \in Runs
               PROVE  r.runner \in {"local", "imported"}
    OBVIOUS
  <1>1. PICK i \in DOMAIN Testlist :
          /\ Testlist[i].runner = "local" => r.runner = "local"
          /\ Testlist[i].runner # "local" =>
               r = [test |-> Testlist[i].name, runner |-> "imported", target |-> "",
                    seed |-> NoSeed]
    BY RunOf
  <1>2. CASE Testlist[i].runner = "local"
    BY <1>1, <1>2
  <1>3. CASE Testlist[i].runner # "local"
    <2> DEFINE run == [test |-> Testlist[i].name, runner |-> "imported", target |-> "",
                       seed |-> NoSeed]
    <2>1. r = run
      BY <1>1, <1>3
    <2>2. run.runner = "imported"
      OBVIOUS
    <2> HIDE DEF run
    <2> QED
      BY <2>1, <2>2
  <1> QED
    BY <1>2, <1>3

LEMMA ImportedRun ==
  ASSUME NEW r \in Runs, r.runner = "imported"
  PROVE  r = [test |-> r.test, runner |-> "imported", target |-> "", seed |-> NoSeed]
  BY RunOf

-----------------------------------------------------------------------------
(* The beginning.                                                          *)

LEMMA RegressionStarts ==
  ASSUME BoundsAssumption, Init
  PROVE  RegInv
  <1> USE DEF Init, Idle
  <1>1. job.pc = "idle" /\ job.runs = {} /\ job.queue = {} /\ job.results = {}
        /\ DOMAIN job.binary = {}
    OBVIOUS
  <1>2. Len(results) = 0 /\ DOMAIN results = {} /\ results \in Seq(ToSet(results))
    BY DEF ToSet
  <1>3. TypeOK
    BY <1>1, <1>2 DEF TypeOK, BoundsAssumption, stamp
  <1>4. Shape
    BY <1>2 DEF Shape, States
  <1>5. LogsHonest
    BY DEF LogsHonest
  <1>6. Built /\ Accounted /\ Directory
    BY <1>1 DEF Built, Accounted, Directory, Building, Done
  <1>7. Reports /\ Gate /\ LatestIsComplete
    BY <1>2 DEF Reports, Complete, Gate, LatestIsComplete
  <1> QED
    BY <1>3, <1>4, <1>5, <1>6, <1>7 DEF RegInv

-----------------------------------------------------------------------------
(* How steps of one kind keep the invariant.                               *)

\* The process ends with an error.
LEMMA ExitKeeps ==
  ASSUME RegInv, NEW status, status # 0, Exit(status),
         faults' \in 0 .. MaxFaults,
         UNCHANGED <<design, uvm_logs, results, latest, changes>>
  PROVE  RegInv'
  <1>1. job' = Idle /\ exit' = [stamp |-> stamp, status |-> status]
    BY DEF Exit
  <1>2. /\ job'.pc = "idle" /\ job'.runs = {} /\ job'.queue = {} /\ job'.results = {}
        /\ DOMAIN job'.binary = {}
    BY <1>1 DEF Idle
  <1>3. TypeOK'
    BY <1>2 DEF RegInv, TypeOK, stamp
  <1>4. Shape'
    BY <1>1 DEF RegInv, Shape, Idle, States
  <1>5. Built' /\ Accounted' /\ Directory'
    BY <1>2 DEF Built, Accounted, Directory, Building, Done
  <1>6. Gate'
    BY <1>1 DEF Gate
  <1>7. LogsHonest' /\ Reports' /\ LatestIsComplete'
    BY DEF RegInv, LogsHonest, Reports, Reported, Complete, LatestIsComplete
  <1> QED
    BY <1>3, <1>4, <1>5, <1>6, <1>7 DEF RegInv

\* The job goes on, and the directories, the link and the exit status stay.
LEMMA JobKeeps ==
  ASSUME RegInv,
         UNCHANGED <<uvm_logs, results, latest, exit>>,
         TypeOK', Shape', Built', Accounted',
         job.pc # "idle", job'.pc \notin {"idle", "unlink", "link"},
         job.pc \notin {"unlink", "link"}, job'.runs = job.runs
  PROVE  RegInv'
  <1>1. Directory'
    BY DEF RegInv, Directory, stamp
  <1>2. LogsHonest' /\ Reports' /\ Gate' /\ LatestIsComplete'
    BY DEF RegInv, LogsHonest, Reports, Reported, Complete, Gate, LatestIsComplete
  <1> QED
    BY <1>1, <1>2 DEF RegInv

\* A future completes with a result.
LEMMA ResolveKeeps ==
  ASSUME RegInv, NEW run \in job.queue, job.pc = "pool",
         NEW result, Resolve(run, result), faults' \in 0 .. MaxFaults,
         result.run = run, HonestResult(result)
  PROVE  RegInv'
  <1>1. job' = [job EXCEPT !.queue = @ \ {run}, !.results = @ \cup {result}]
    BY DEF Resolve
  <1>2. /\ job'.pc = job.pc /\ job'.runs = job.runs /\ job'.targets = job.targets
        /\ job'.binary = job.binary /\ job'.queue = job.queue \ {run}
        /\ job'.results = job.results \cup {result} /\ job'.raised = job.raised
    BY <1>1 DEF RegInv, Shape
  <1>3. UNCHANGED <<design, uvm_logs, results, latest, exit, changes>>
    BY DEF Resolve
  <1>4. run \in Locals(job.runs)
    BY DEF RegInv, Accounted, Building
  <1>5. TypeOK'
    BY <1>2, <1>3, <1>4 DEF RegInv, TypeOK, stamp, Locals
  <1>6. Shape'
    BY <1>1, <1>2, <1>3 DEF RegInv, Shape
  <1>7. Built'
    BY <1>2 DEF RegInv, Built, Building
  <1>8. Read' = Read \cup {run}
    BY <1>2 DEF Read
  <1>9. Accounted'
    <2>1. \A x \in job'.results : HonestResult(x)
      BY <1>2 DEF RegInv, Accounted
    <2>2. \A x \in job.results : x.run # run
      BY DEF RegInv, Accounted, Building, Read
    <2>3. \A x, y \in job'.results : x.run = y.run => x = y
      BY <1>2, <2>2 DEF RegInv, Accounted
    <2>4. /\ job'.queue \subseteq Locals(job'.runs)
          /\ job'.queue \cap Read' = {}
          /\ job'.raised \/ Locals(job'.runs) \subseteq job'.queue \cup Read'
          /\ \A x \in job'.results : x.run \in Locals(job'.runs)
      BY <1>2, <1>4, <1>8 DEF RegInv, Accounted, Building
    <2> QED
      BY <1>2, <2>1, <2>3, <2>4 DEF Accounted, Done
  <1> QED
    BY <1>2, <1>3, <1>5, <1>6, <1>7, <1>9, JobKeeps

\* A future raises.
LEMMA RaiseKeeps ==
  ASSUME RegInv, NEW run \in job.queue, job.pc = "pool", Raise(run),
         faults' \in 0 .. MaxFaults
  PROVE  RegInv'
  <1>1. job' = [job EXCEPT !.queue = @ \ {run}, !.raised = TRUE]
    BY DEF Raise
  <1>2. /\ job'.pc = job.pc /\ job'.runs = job.runs /\ job'.targets = job.targets
        /\ job'.binary = job.binary /\ job'.queue = job.queue \ {run}
        /\ job'.results = job.results /\ job'.raised = TRUE
    BY <1>1 DEF RegInv, Shape
  <1>3. UNCHANGED <<design, uvm_logs, results, latest, exit, changes>>
    BY DEF Raise
  <1>4. TypeOK'
    BY <1>2, <1>3 DEF RegInv, TypeOK, stamp
  <1>5. Shape'
    BY <1>1, <1>2, <1>3 DEF RegInv, Shape
  <1>6. Built'
    BY <1>2 DEF RegInv, Built, Building
  <1>7. Accounted'
    BY <1>2 DEF RegInv, Accounted, Building, Done, Read
  <1> QED
    BY <1>2, <1>3, <1>4, <1>5, <1>6, <1>7, JobKeeps

-----------------------------------------------------------------------------
(* The actions.                                                            *)

LEMMA StartKeeps ==
  ASSUME RegInv, NEW args, Start(args)
  PROVE  RegInv'
  <1> DEFINE runs  == Selected(args)
             local == LocalRuns(args)
  <1>1. /\ results' = Append(results, NewDir(runs))
        /\ UNCHANGED <<design, uvm_logs, latest, exit, faults, changes>>
        /\ job.pc = "idle"
    BY DEF Start
  <1>2. /\ job' = [Idle EXCEPT !.pc = IF local = {} THEN "import" ELSE "build",
                               !.runs = runs, !.targets = {r.target : r \in local},
                               !.queue = local]
    BY DEF Start
  <1>3. job' = [pc |-> IF local = {} THEN "import" ELSE "build", runs |-> runs,
                targets |-> {r.target : r \in local}, binary |-> <<>>, queue |-> local,
                results |-> {}, raised |-> FALSE]
    BY <1>2 DEF Idle
  <1>4. runs \subseteq Runs /\ local = Locals(runs)
    BY DEF Selected, LocalRuns, Locals
  <1> HIDE DEF runs, local
  <1>5. /\ job'.pc = (IF local = {} THEN "import" ELSE "build") /\ job'.runs = runs
        /\ job'.targets = {r.target : r \in local} /\ job'.queue = local
        /\ job'.results = {} /\ DOMAIN job'.binary = {}
    BY <1>3
  <1>6. /\ results' \in Seq(ToSet(results'))
        /\ stamp' = stamp + 1 /\ stamp \in Nat /\ DOMAIN results = 1 .. stamp
        /\ DOMAIN results' = 1 .. stamp + 1 /\ results'[stamp + 1] = NewDir(runs)
        /\ \A i \in 1 .. stamp : results'[i] = results[i]
    BY <1>1, Appended DEF RegInv, Shape, stamp
  <1>7. Complete' = Complete
    BY <1>6 DEF Complete, NewDir
  <1>8. \A s \in Complete : results'[s] = results[s]
    BY <1>6 DEF Complete
  <1>9. TypeOK'
    <2>1. \A s \in DOMAIN results' : results'[s].json \in {"absent", "partial", "whole"}
      BY <1>6 DEF RegInv, TypeOK, NewDir
    <2>2. latest' \in 0 .. stamp'
      BY <1>1, <1>6 DEF RegInv, TypeOK
    <2> QED
      BY <1>1, <1>4, <1>5, <2>1, <2>2 DEF RegInv, TypeOK, Locals
  <1>10. Shape'
    <2>1. \A s \in DOMAIN results' :
            results'[s] = [selected |-> results'[s].selected, json |-> results'[s].json,
                           runs |-> results'[s].runs]
      BY <1>6 DEF RegInv, Shape, NewDir
    <2> QED
      BY <1>1, <1>3, <1>5, <1>6, <2>1 DEF RegInv, Shape, States, Building
  <1>11. Built'
    BY <1>5 DEF Built, Building
  <1>12. Accounted'
    BY <1>4, <1>5 DEF Accounted, Building, Done, Read
  <1>13. Directory'
    BY <1>5, <1>6 DEF Directory, NewDir
  <1>14. Reports' /\ Gate' /\ LatestIsComplete'
    BY <1>1, <1>7, <1>8 DEF RegInv, Reports, Gate, LatestIsComplete
  <1>15. LogsHonest'
    BY <1>1 DEF RegInv, LogsHonest
  <1> QED
    BY <1>9, <1>10, <1>11, <1>12, <1>13, <1>14, <1>15 DEF RegInv

LEMMA BuildKeeps ==
  ASSUME RegInv, NEW t \in Targets, build_target(t)
  PROVE  RegInv'
  <1>1. /\ job.pc = "build" /\ t \in job.targets
        /\ UNCHANGED <<design, uvm_logs, results, latest, exit, faults, changes>>
    BY DEF build_target
  <1> DEFINE binary == [q \in DOMAIN job.binary \cup {t} |->
                          IF q = t THEN design ELSE job.binary[q]]
  <1>2. job' = [job EXCEPT !.targets = @ \ {t}, !.binary = binary,
                           !.pc = IF job.targets = {t} THEN "pool" ELSE @]
    BY DEF build_target
  <1>3. DOMAIN binary = DOMAIN job.binary \cup {t}
        /\ \A q \in DOMAIN binary : binary[q] = IF q = t THEN design ELSE job.binary[q]
    OBVIOUS
  <1> HIDE DEF binary
  <1>4. /\ job'.pc = (IF job.targets = {t} THEN "pool" ELSE "build")
        /\ job'.targets = job.targets \ {t} /\ job'.binary = binary
        /\ job'.runs = job.runs /\ job'.queue = job.queue /\ job'.results = job.results
        /\ job'.raised = job.raised
    BY <1>1, <1>2 DEF RegInv, Shape
  <1>5. TypeOK'
    BY <1>1, <1>3, <1>4 DEF RegInv, TypeOK, stamp
  <1>6. Shape'
    BY <1>1, <1>2, <1>4 DEF RegInv, Shape, States, Building
  <1>7. Built'
    <2>1. \A q \in DOMAIN binary : binary[q] \in Designs
      BY <1>1, <1>3 DEF RegInv, TypeOK, Built, Building
    <2>2. \A r \in job.queue : r.target \in (job.targets \ {t}) \cup DOMAIN binary
      BY <1>1, <1>3 DEF RegInv, Built
    <2>3. job.targets = {t} => \A r \in job.queue : r.target \in DOMAIN binary
      BY <2>2
    <2> QED
      BY <1>4, <2>1, <2>2, <2>3 DEF Built
  <1>8. Accounted'
    BY <1>1, <1>4 DEF RegInv, Accounted, Building, Done, Read
  <1> QED
    BY <1>1, <1>4, <1>5, <1>6, <1>7, <1>8, JobKeeps

LEMMA FaultType ==
  ASSUME RegInv, UNCHANGED faults \/ Fault
  PROVE  faults' \in 0 .. MaxFaults
  BY BoundsAssumption DEF RegInv, TypeOK, Fault, BoundsAssumption

LEMMA ActiveWaits == Active \subseteq job.queue
  BY DEF Active

LEMMA BinaryType ==
  ASSUME DesignsAssumption, RegInv, job.pc = "pool", NEW run \in job.queue
  PROVE  Binary(run) \in SUBSET Defects
  BY DEF RegInv, Built, Building, Binary, DesignsAssumption

LEMMA RunLocalKeeps ==
  ASSUME ManifestAssumption, DesignsAssumption, RegInv, NEW run \in Runs, run_local(run)
  PROVE  RegInv'
  <1>1. /\ job.pc = "pool" /\ run \in job.queue /\ ~Hangs(run, Binary(run))
        /\ Resolve(run, Result(run, Whole(run, Binary(run)))) /\ UNCHANGED faults
    BY ActiveWaits DEF run_local
  <1>2. Honest(Whole(run, Binary(run)))
    BY <1>1, BinaryType, WholeIsHonest
  <1> QED
    BY <1>1, <1>2, ResultIsHonest, FaultType, ResolveKeeps

LEMMA RunKilledKeeps ==
  ASSUME RegInv, NEW run \in Runs, run_local_killed(run)
  PROVE  RegInv'
  <1>1. PICK x \in CutOff(run, Binary(run)) : Resolve(run, Result(run, x))
    BY DEF run_local_killed
  <1>2. job.pc = "pool" /\ run \in job.queue /\ Fault
    BY ActiveWaits DEF run_local_killed
  <1> QED
    BY <1>1, <1>2, CutOffIsHonest, ResultIsHonest, FaultType, ResolveKeeps

LEMMA RunTimeoutKeeps ==
  ASSUME RegInv, NEW run \in Runs, run_local_timeout(run)
  PROVE  RegInv'
  <1>1. job.pc = "pool" /\ run \in job.queue /\ faults' \in 0 .. MaxFaults
    BY ActiveWaits, FaultType DEF run_local_timeout
  <1>2. CASE Raise(run)
    BY <1>1, <1>2, RaiseKeeps
  <1>3. ASSUME NEW x \in CutOff(run, Binary(run)), Resolve(run, TimeoutResult(run, x))
        PROVE  RegInv'
    BY <1>1, <1>3, CutOffIsHonest, TimeoutIsHonest, ResolveKeeps
  <1> QED
    BY <1>2, <1>3 DEF run_local_timeout

LEMMA PoolDoneKeeps ==
  ASSUME RegInv, pool_done
  PROVE  RegInv'
  <1>1. /\ job.pc = "pool" /\ job.queue = {}
        /\ UNCHANGED <<design, uvm_logs, results, latest, faults, changes>>
    BY DEF pool_done
  <1>2. CASE job.raised
    BY <1>1, <1>2, FaultType, ExitKeeps DEF pool_done
  <1>3. CASE ~job.raised
    <2>1. job' = [job EXCEPT !.pc = "import"] /\ UNCHANGED exit
      BY <1>3 DEF pool_done
    <2>2. /\ job'.pc = "import" /\ job'.targets = job.targets /\ job'.binary = job.binary
          /\ job'.runs = job.runs /\ job'.queue = job.queue /\ job'.results = job.results
          /\ job'.raised = job.raised
      BY <2>1 DEF RegInv, Shape
    <2>3. TypeOK'
      BY <1>1, <2>1, <2>2 DEF RegInv, TypeOK, stamp
    <2>4. Shape'
      BY <1>1, <2>1, <2>2 DEF RegInv, Shape, States
    <2>5. Built'
      BY <2>2 DEF Built, Building
    <2>6. Accounted'
      BY <1>1, <1>3, <2>2 DEF RegInv, Accounted, Building, Done, Read
    <2> QED
      BY <1>1, <2>1, <2>2, <2>3, <2>4, <2>5, <2>6, JobKeeps
  <1> QED
    BY <1>2, <1>3

LEMMA ImportedKeeps ==
  ASSUME RegInv, NEW run \in Runs, run_imported(run)
  PROVE  RegInv'
  <1> DEFINE result == IF uvm_logs[run.test] = <<>> THEN Missing(run)
                       ELSE Result(run, uvm_logs[run.test][1])
  <1>1. /\ job.pc = "import" /\ run \in Imported \ Read
        /\ job' = [job EXCEPT !.results = @ \cup {result}]
        /\ UNCHANGED <<design, uvm_logs, results, latest, exit, faults, changes>>
    BY DEF run_imported
  <1>2. run \in job.runs /\ run.runner = "imported" /\ run \notin Read
    BY <1>1 DEF Imported
  <1>3. run.test \in UvmTests
    BY <1>2 DEF UvmTests
  <1>4. HonestResult(result) /\ result.run = run
    <2>1. CASE uvm_logs[run.test] = <<>>
      BY <1>2, <2>1, MissingIsHonest
    <2>2. CASE uvm_logs[run.test] # <<>>
      <3>1. Honest(uvm_logs[run.test][1])
        BY <1>3, <2>2 DEF RegInv, LogsHonest
      <3> QED
        BY <2>2, <3>1, ResultIsHonest
    <2> QED
      BY <2>1, <2>2
  <1> HIDE DEF result
  <1>5. /\ job'.pc = "import" /\ job'.runs = job.runs /\ job'.targets = job.targets
        /\ job'.binary = job.binary /\ job'.queue = job.queue
        /\ job'.results = job.results \cup {result} /\ job'.raised = job.raised
    BY <1>1 DEF RegInv, Shape
  <1>6. TypeOK'
    BY <1>1, <1>2, <1>4, <1>5 DEF RegInv, TypeOK, stamp
  <1>7. Shape'
    BY <1>1, <1>5 DEF RegInv, Shape
  <1>8. Built'
    BY <1>5 DEF Built, Building
  <1>9. Accounted'
    <2>1. \A x \in job'.results : HonestResult(x)
      BY <1>4, <1>5 DEF RegInv, Accounted
    <2>2. \A x, y \in job'.results : x.run = y.run => x = y
      BY <1>2, <1>4, <1>5 DEF RegInv, Accounted, Read
    <2>3. Locals(job'.runs) \subseteq Read'
      BY <1>1, <1>5 DEF RegInv, Accounted, Read
    <2> QED
      BY <1>5, <2>1, <2>2, <2>3 DEF Accounted, Building, Done
  <1> QED
    BY <1>1, <1>5, <1>6, <1>7, <1>8, <1>9, JobKeeps

\* The directory in progress changes, but not the link.
LEMMA DirectoryChanges ==
  ASSUME RegInv, job.pc # "idle", job.pc \notin {"unlink", "link"},
         NEW e, results' = [results EXCEPT ![stamp] = e],
         e = [selected |-> e.selected, json |-> e.json, runs |-> e.runs],
         e.selected = job.runs, e.json \in {"partial", "whole"},
         e.json = "whole" => Reported(e),
         UNCHANGED <<design, uvm_logs, latest, exit, faults, changes>>
  PROVE  /\ results' \in Seq(ToSet(results'))
         /\ stamp' = stamp /\ DOMAIN results' = DOMAIN results
         /\ stamp \in DOMAIN results /\ results'[stamp] = e
         /\ \A s \in DOMAIN results' :
              /\ results'[s].json \in {"absent", "partial", "whole"}
              /\ results'[s] = [selected |-> results'[s].selected, json |-> results'[s].json,
                                runs |-> results'[s].runs]
         /\ LogsHonest' /\ Reports' /\ Gate' /\ LatestIsComplete'
  <1>1. stamp \in DOMAIN results /\ results[stamp].json # "whole"
    BY DEF RegInv, Directory
  <1>2. /\ results' \in Seq(ToSet(results'))
        /\ stamp' = stamp /\ DOMAIN results' = DOMAIN results /\ results'[stamp] = e
        /\ \A i \in DOMAIN results : i # stamp => results'[i] = results[i]
    BY <1>1, Replaced DEF RegInv, Shape, stamp
  <1>3. /\ \A s \in Complete : s \in Complete' /\ results'[s] = results[s]
        /\ \A s \in Complete' : s \in Complete \/ (s = stamp /\ e.json = "whole")
    BY <1>1, <1>2 DEF Complete
  <1>4. Reports'
    BY <1>2, <1>3 DEF RegInv, Reports, Reported
  <1>5. Gate' /\ LatestIsComplete'
    BY <1>3 DEF RegInv, Gate, LatestIsComplete
  <1>6. \A s \in DOMAIN results' :
          /\ results'[s].json \in {"absent", "partial", "whole"}
          /\ results'[s] = [selected |-> results'[s].selected, json |-> results'[s].json,
                            runs |-> results'[s].runs]
    BY <1>2 DEF RegInv, TypeOK, Shape
  <1> QED
    BY <1>1, <1>2, <1>4, <1>5, <1>6 DEF RegInv, LogsHonest

LEMMA OpenKeeps ==
  ASSUME RegInv, open_json
  PROVE  RegInv'
  <1> DEFINE e == [results[stamp] EXCEPT !.json = "partial"]
  <1>1. /\ job.pc = "import" /\ Imported \subseteq Read
        /\ results' = [results EXCEPT ![stamp] = e]
        /\ job' = [job EXCEPT !.pc = "json"]
        /\ UNCHANGED <<design, uvm_logs, latest, exit, faults, changes>>
    BY DEF open_json
  <1>2. stamp \in DOMAIN results /\ results[stamp].selected = job.runs
    BY <1>1 DEF RegInv, Directory
  <1>3. results[stamp] = [selected |-> results[stamp].selected, json |-> results[stamp].json,
                          runs |-> results[stamp].runs]
    BY <1>2 DEF RegInv, Shape
  <1>4. /\ e = [selected |-> e.selected, json |-> e.json, runs |-> e.runs]
        /\ e.selected = job.runs /\ e.json = "partial"
    BY <1>2, <1>3
  <1> HIDE DEF e
  <1>5. /\ results' \in Seq(ToSet(results'))
        /\ stamp' = stamp /\ DOMAIN results' = DOMAIN results
        /\ results'[stamp] = e
        /\ \A s \in DOMAIN results' :
             /\ results'[s].json \in {"absent", "partial", "whole"}
             /\ results'[s] = [selected |-> results'[s].selected, json |-> results'[s].json,
                               runs |-> results'[s].runs]
        /\ LogsHonest' /\ Reports' /\ Gate' /\ LatestIsComplete'
    BY <1>1, <1>4, DirectoryChanges
  <1>6. /\ job'.pc = "json" /\ job'.targets = job.targets /\ job'.binary = job.binary
        /\ job'.runs = job.runs /\ job'.queue = job.queue /\ job'.results = job.results
        /\ job'.raised = job.raised
    BY <1>1 DEF RegInv, Shape
  <1>7. TypeOK'
    BY <1>1, <1>5, <1>6 DEF RegInv, TypeOK
  <1>8. Shape'
    BY <1>1, <1>5, <1>6 DEF RegInv, Shape, States, Done
  <1>9. Built'
    BY <1>6 DEF Built, Building
  <1>10. Accounted'
    <2>1. job.runs \subseteq Read
      <3>1. job.runs \subseteq Runs
        BY DEF RegInv, TypeOK
      <3>2. \A r \in job.runs : r \in Locals(job.runs) \/ r \in Imported
        BY <3>1, Runners DEF Locals, Imported
      <3> QED
        BY <1>1, <3>2 DEF RegInv, Accounted
    <2> QED
      BY <1>6, <2>1 DEF RegInv, Accounted, Building, Done, Read
  <1>11. Directory'
    BY <1>2, <1>4, <1>5, <1>6 DEF Directory
  <1> QED
    BY <1>5, <1>7, <1>8, <1>9, <1>10, <1>11 DEF RegInv

LEMMA WriteKeeps ==
  ASSUME RegInv, write_json
  PROVE  RegInv'
  <1> DEFINE e == [selected |-> job.runs, json |-> "whole", runs |-> job.results]
  <1>1. /\ job.pc = "json"
        /\ job' = [job EXCEPT !.pc = "unlink"]
        /\ UNCHANGED <<design, uvm_logs, latest, exit, faults, changes>>
    BY DEF write_json
  <1>2. stamp \in DOMAIN results /\ results[stamp].selected = job.runs
    BY <1>1 DEF RegInv, Directory
  <1>3. results' = [results EXCEPT ![stamp] = e]
    BY DEF write_json
  <1>4. /\ e = [selected |-> e.selected, json |-> e.json, runs |-> e.runs]
        /\ e.selected = job.runs /\ e.json = "whole" /\ e.runs = job.results
    OBVIOUS
  <1>5. Reported(e)
    <2>1. {x.run : x \in job.results} = job.runs
      BY <1>1 DEF RegInv, TypeOK, Accounted, Done, Read
    <2> QED
      BY <1>4, <2>1 DEF RegInv, Accounted, Reported
  <1> HIDE DEF e
  <1>6. /\ results' \in Seq(ToSet(results'))
        /\ stamp' = stamp /\ DOMAIN results' = DOMAIN results
        /\ results'[stamp] = e
        /\ \A s \in DOMAIN results' :
             /\ results'[s].json \in {"absent", "partial", "whole"}
             /\ results'[s] = [selected |-> results'[s].selected, json |-> results'[s].json,
                               runs |-> results'[s].runs]
        /\ LogsHonest' /\ Reports' /\ Gate' /\ LatestIsComplete'
    BY <1>1, <1>3, <1>4, <1>5, DirectoryChanges
  <1>7. /\ job'.pc = "unlink" /\ job'.targets = job.targets /\ job'.binary = job.binary
        /\ job'.runs = job.runs /\ job'.queue = job.queue /\ job'.results = job.results
        /\ job'.raised = job.raised
    BY <1>1 DEF RegInv, Shape
  <1>8. TypeOK'
    BY <1>1, <1>6, <1>7 DEF RegInv, TypeOK
  <1>9. Shape'
    BY <1>1, <1>6, <1>7 DEF RegInv, Shape, States, Done
  <1>10. Built'
    BY <1>7 DEF Built, Building
  <1>11. Accounted'
    BY <1>1, <1>7 DEF RegInv, Accounted, Building, Done, Read
  <1>12. Directory'
    BY <1>2, <1>4, <1>6, <1>7 DEF Directory
  <1> QED
    BY <1>6, <1>8, <1>9, <1>10, <1>11, <1>12 DEF RegInv

LEMMA UnlinkKeeps ==
  ASSUME RegInv, unlink
  PROVE  RegInv'
  <1>1. /\ job.pc = "unlink" /\ latest' = 0
        /\ job' = [job EXCEPT !.pc = "link"]
        /\ UNCHANGED <<design, uvm_logs, results, exit, faults, changes>>
    BY DEF unlink
  <1>2. /\ job'.pc = "link" /\ job'.targets = job.targets /\ job'.binary = job.binary
        /\ job'.runs = job.runs /\ job'.queue = job.queue /\ job'.results = job.results
        /\ job'.raised = job.raised
    BY <1>1 DEF RegInv, Shape
  <1>3. stamp \in Nat
    BY <1>1 DEF RegInv, Shape, stamp
  <1>4. TypeOK'
    BY <1>1, <1>2, <1>3 DEF RegInv, TypeOK, stamp
  <1>5. Shape'
    BY <1>1, <1>2 DEF RegInv, Shape, States, Done
  <1>6. Built' /\ LatestIsComplete'
    BY <1>1, <1>2 DEF Built, Building, LatestIsComplete
  <1>7. Accounted'
    BY <1>1, <1>2 DEF RegInv, Accounted, Building, Done, Read
  <1>8. Directory'
    BY <1>1, <1>2 DEF RegInv, Directory, stamp
  <1>9. LogsHonest' /\ Reports' /\ Gate'
    BY <1>1 DEF RegInv, LogsHonest, Reports, Reported, Complete, Gate
  <1> QED
    BY <1>4, <1>5, <1>6, <1>7, <1>8, <1>9 DEF RegInv

LEMMA LinkKeeps ==
  ASSUME RegInv, link
  PROVE  RegInv'
  <1> DEFINE status == IF bad(job.results) = {} THEN 0 ELSE 1
  <1>1. /\ job.pc = "link" /\ latest' = stamp
        /\ job' = Idle /\ exit' = [stamp |-> stamp, status |-> status]
        /\ UNCHANGED <<design, uvm_logs, results, faults, changes>>
    BY DEF link, Exit
  <1>2. stamp \in Complete /\ results[stamp].runs = job.results
    BY <1>1 DEF RegInv, Directory, Complete
  <1>3. /\ job'.pc = "idle" /\ job'.runs = {} /\ job'.queue = {} /\ job'.results = {}
        /\ DOMAIN job'.binary = {}
    BY <1>1 DEF Idle
  <1>4. stamp \in Nat /\ stamp' = stamp /\ Complete' = Complete
    BY <1>1 DEF RegInv, Shape, stamp, Complete
  <1>5. TypeOK'
    BY <1>1, <1>3, <1>4 DEF RegInv, TypeOK
  <1>6. Shape'
    BY <1>1 DEF RegInv, Shape, Idle, States
  <1>7. Built' /\ Accounted' /\ Directory'
    BY <1>3 DEF Built, Accounted, Directory, Building, Done
  <1>8. Gate'
    <2>1. exit'.status = 0 => bad(job.results) = {}
      BY <1>1
    <2> QED
      BY <1>1, <1>2, <1>4, <2>1 DEF Gate, bad
  <1>9. LatestIsComplete'
    BY <1>1, <1>2, <1>4 DEF LatestIsComplete
  <1>10. LogsHonest' /\ Reports'
    BY <1>1 DEF RegInv, LogsHonest, Reports, Reported, Complete
  <1> QED
    BY <1>5, <1>6, <1>7, <1>8, <1>9, <1>10 DEF RegInv

\* The sources and the imported logs are nobody's but the reader's.
LEMMA OutsideKeeps ==
  ASSUME RegInv, design' \in Designs, LogsHonest',
         \A t \in UvmTests : Len(uvm_logs'[t]) <= 1,
         uvm_logs' = [t \in UvmTests |-> uvm_logs'[t]],
         faults' \in 0 .. MaxFaults, changes' \in 0 .. MaxChanges,
         UNCHANGED <<job, results, latest, exit>>
  PROVE  RegInv'
  <1>1. TypeOK'
    BY DEF RegInv, TypeOK, stamp
  <1>2. Shape'
    BY DEF RegInv, Shape
  <1>3. Built' /\ Accounted' /\ Directory' /\ Reports' /\ Gate' /\ LatestIsComplete'
    BY DEF RegInv, Built, Accounted, Read, Directory, stamp, Reports, Reported, Complete,
           Gate, LatestIsComplete
  <1> QED
    BY <1>1, <1>2, <1>3 DEF RegInv

LEMMA ChangeType ==
  ASSUME RegInv, Change
  PROVE  changes' \in 0 .. MaxChanges
  BY BoundsAssumption DEF RegInv, TypeOK, Change, BoundsAssumption

LEMMA EditKeeps ==
  ASSUME RegInv, edit
  PROVE  RegInv'
  <1>1. Change /\ design' \in Designs /\ UNCHANGED <<uvm_logs, job, results, latest, exit, faults>>
    BY DEF edit
  <1>2. LogsHonest' /\ (\A t \in UvmTests : Len(uvm_logs'[t]) <= 1)
        /\ uvm_logs' = [t \in UvmTests |-> uvm_logs'[t]] /\ faults' \in 0 .. MaxFaults
    BY <1>1, FaultType DEF RegInv, LogsHonest, TypeOK, Shape
  <1> QED
    BY <1>1, <1>2, ChangeType, OutsideKeeps

LEMMA ImportLogKeeps ==
  ASSUME ManifestAssumption, DesignsAssumption,
         RegInv, NEW run \in Runs, run.runner = "imported", import_log(run)
  PROVE  RegInv'
  <1>1. Change /\ UNCHANGED <<design, job, results, latest, exit>>
    BY DEF import_log
  <1>2. faults' \in 0 .. MaxFaults
    BY FaultType DEF import_log
  <1>3. PICK x : uvm_logs' = [uvm_logs EXCEPT ![run.test] = <<x>>] /\ Honest(x)
    <2>1. CASE /\ ~Hangs(run, design)
               /\ uvm_logs' = [uvm_logs EXCEPT ![run.test] = <<Whole(run, design)>>]
      <3>1. design \in SUBSET Defects
        BY DEF RegInv, TypeOK, DesignsAssumption
      <3> QED
        BY <2>1, <3>1, WholeIsHonest
    <2>2. CASE \E x \in CutOff(run, design) : uvm_logs' = [uvm_logs EXCEPT ![run.test] = <<x>>]
      BY <2>2, CutOffIsHonest
    <2> QED
      BY <2>1, <2>2 DEF import_log
  <1>4. run.test \in UvmTests
    BY DEF UvmTests
  <1>5. Len(<<x>>) = 1 /\ <<x>>[1] = x
    OBVIOUS
  <1>6. /\ uvm_logs' = [t \in UvmTests |-> uvm_logs'[t]]
        /\ uvm_logs'[run.test] = <<x>>
        /\ \A t \in UvmTests : t # run.test => uvm_logs'[t] = uvm_logs[t]
    BY <1>3, <1>4 DEF RegInv, Shape
  <1>7. LogsHonest' /\ \A t \in UvmTests : Len(uvm_logs'[t]) <= 1
    BY <1>3, <1>5, <1>6 DEF RegInv, LogsHonest, TypeOK
  <1>8. design' \in Designs
    BY <1>1 DEF RegInv, TypeOK
  <1> QED
    BY <1>1, <1>2, <1>6, <1>7, <1>8, ChangeType, OutsideKeeps

LEMMA DeathKeeps ==
  ASSUME RegInv, build_fails \/ die
  PROVE  RegInv'
  <1>1. Fault /\ UNCHANGED <<design, uvm_logs, results, latest, changes>>
        /\ (Exit(1) \/ Exit(130))
    BY DEF build_fails, die
  <1> QED
    BY <1>1, FaultType, ExitKeeps

LEMMA RegressionStutters ==
  ASSUME RegInv, UNCHANGED vars
  PROVE  RegInv'
  <1>1. LogsHonest' /\ design' \in Designs /\ faults' \in 0 .. MaxFaults
        /\ changes' \in 0 .. MaxChanges /\ UNCHANGED <<uvm_logs, job, results, latest, exit>>
    BY DEF RegInv, vars, LogsHonest, TypeOK
  <1>2. (\A t \in UvmTests : Len(uvm_logs'[t]) <= 1)
        /\ uvm_logs' = [t \in UvmTests |-> uvm_logs'[t]]
    BY <1>1 DEF RegInv, TypeOK, Shape
  <1> QED
    BY <1>1, <1>2, OutsideKeeps

-----------------------------------------------------------------------------
(***************************************************************************)
(* The invariant holds of every behaviour of the regression, its faults    *)
(* and its surroundings.                                                   *)
(***************************************************************************)
THEOREM RegressionInvariant == Spec => []RegInv
  <1>1. Init => RegInv
    BY RegressionStarts, BoundsAssumption
  <1>2. RegInv /\ [Next]_vars => RegInv'
    <2> SUFFICES ASSUME RegInv, [Next]_vars
                 PROVE  RegInv'
      OBVIOUS
    <2>1. ASSUME NEW args \in Invocations, Start(args)
          PROVE  RegInv'
      BY <2>1, StartKeeps
    <2>2. ASSUME NEW t \in Targets, build_target(t)
          PROVE  RegInv'
      BY <2>2, BuildKeeps
    <2>3. ASSUME NEW r \in Runs, run_local(r)
          PROVE  RegInv'
      BY <2>3, RunLocalKeeps, ManifestAssumption, DesignsAssumption
    <2>4. ASSUME NEW r \in Runs, run_local_killed(r)
          PROVE  RegInv'
      BY <2>4, RunKilledKeeps
    <2>5. ASSUME NEW r \in Runs, run_local_timeout(r)
          PROVE  RegInv'
      BY <2>5, RunTimeoutKeeps
    <2>6. CASE pool_done
      BY <2>6, PoolDoneKeeps
    <2>7. ASSUME NEW r \in Runs, run_imported(r)
          PROVE  RegInv'
      BY <2>7, ImportedKeeps
    <2>8. CASE open_json
      BY <2>8, OpenKeeps
    <2>9. CASE write_json
      BY <2>9, WriteKeeps
    <2>10. CASE unlink
      BY <2>10, UnlinkKeeps
    <2>11. CASE link
      BY <2>11, LinkKeeps
    <2>12. CASE build_fails \/ die
      BY <2>12, DeathKeeps
    <2>13. CASE edit
      BY <2>13, EditKeeps
    <2>14. ASSUME NEW r \in Runs, r.runner = "imported", import_log(r)
           PROVE  RegInv'
      BY <2>14, ImportLogKeeps, ManifestAssumption, DesignsAssumption
    <2>15. CASE UNCHANGED vars
      BY <2>15, RegressionStutters
    <2>16. CASE JobStep
      BY <2>2, <2>3, <2>4, <2>5, <2>6, <2>7, <2>8, <2>9, <2>10, <2>11, <2>12, <2>16 DEF JobStep
    <2> QED
      BY <2>1, <2>12, <2>13, <2>14, <2>15, <2>16 DEF Next
  <1> QED
    BY <1>1, <1>2, PTL DEF Spec

(***************************************************************************)
(* `latest' never names a directory without a readable report, wherever    *)
(* the process dies (the order of write, unlink and link in main).         *)
(***************************************************************************)
THEOREM LatestCanBeRead == Spec => []LatestIsComplete
  <1>1. RegInv => LatestIsComplete
    BY DEF RegInv
  <1> QED
    BY <1>1, RegressionInvariant, PTL

(***************************************************************************)
(* A report holds every selected run once, and PASS exactly for the runs   *)
(* that ended by themselves and met no defect (run_local, parse, main).    *)
(***************************************************************************)
THEOREM PassesAreEarned == Spec => []VerdictsEarned
  <1>1. RegInv => VerdictsEarned
    BY DEF RegInv, Reports, Reported, HonestResult, VerdictsEarned
  <1> QED
    BY <1>1, RegressionInvariant, PTL

(***************************************************************************)
(* Exit status 0 means that every selected local run ran to its end and    *)
(* met no defect (main's exit status).                                     *)
(***************************************************************************)
THEOREM TheGateIsSound == Spec => []GateSound
  <1>1. RegInv => GateSound
    <2> SUFFICES ASSUME RegInv, exit.stamp # 0, exit.status = 0,
                        NEW run \in results[exit.stamp].selected, run.runner = "local"
                 PROVE  \E x \in results[exit.stamp].runs : x.run = run /\ Clean(x)
      BY DEF GateSound
    <2>1. exit.stamp \in Complete /\ bad(results[exit.stamp].runs) = {}
      BY DEF RegInv, Gate
    <2>2. PICK x \in results[exit.stamp].runs : x.run = run
      BY <2>1 DEF RegInv, Reports, Reported
    <2>3. HonestResult(x)
      BY <2>1 DEF RegInv, Reports, Reported
    <2>4. x.status \notin {"FAIL", "INCOMPLETE"}
      BY <2>1, <2>2 DEF bad
    <2>5. x.status # "MISSING"
      BY <2>2, <2>3 DEF HonestResult
    <2> QED
      BY <2>2, <2>3, <2>4, <2>5 DEF HonestResult
  <1> QED
    BY <1>1, RegressionInvariant, PTL

(***************************************************************************)
(* The shape of the regression's state, its results and its link.          *)
(***************************************************************************)
THEOREM RegressionTypeCorrect == Spec => []TypeOK
  <1>1. RegInv => TypeOK
    BY DEF RegInv
  <1> QED
    BY <1>1, RegressionInvariant, PTL

-----------------------------------------------------------------------------
(* What the signatures say: a second invariant, on top of the first.       *)

\* A log says what the defects its simulation met show, and all of it when it
\* is whole.
Telling(run, e) ==
  /\ e.met \subseteq Defects
  /\ parse(e.log).signatures \subseteq Shows(run, e.met) \cup {TRUNCATED}
  /\ e.whole => Verdict(e.log) # "INCOMPLETE" /\ parse(e.log).signatures = Shows(run, e.met)

TellingResult(x) ==
  /\ x.met \subseteq Defects
  /\ x.signatures \subseteq Shown(x) \cup {TRUNCATED, TIMEOUT}
  /\ x.whole => x.status # "INCOMPLETE" /\ x.signatures = Shown(x)
  /\ x.status = "MISSING" => ~x.whole /\ x.met = {} /\ x.signatures = {}

LogsTell ==
  \A run \in Runs : run.runner = "imported" /\ uvm_logs[run.test] # <<>> =>
    Telling(run, uvm_logs[run.test][1])

\* The local results are those of the job's binaries.
JobTells ==
  /\ job.pc = "build" => job.results = {}
  /\ \A x \in job.results :
       /\ TellingResult(x)
       /\ x.run.runner = "local" =>
            /\ x.run.target \in DOMAIN job.binary
            /\ job.binary[x.run.target] \in Designs
            /\ x.met = Met(x.run, job.binary[x.run.target])

\* Every local result of a target comes from one build of it.
OneBuild(runs) ==
  \E binary \in [Targets -> Designs] :
    \A x \in runs : x.run.runner = "local" => x.met = Met(x.run, binary[x.run.target])

\* A directory was opened for one command line.
Invoked == \A s \in DOMAIN results : \E args \in Invocations : results[s].selected = Selected(args)

ReportsTell ==
  \A s \in Complete :
    /\ \A x \in results[s].runs : TellingResult(x)
    /\ OneBuild(results[s].runs)

TellInv == LogsTell /\ JobTells /\ Invoked /\ ReportsTell

-----------------------------------------------------------------------------
(* What logs and results tell.                                             *)

LEMMA ShownIsAFailure ==
  ASSUME NEW x
  PROVE  TRUNCATED \notin Shown(x) /\ TIMEOUT \notin Shown(x)
  <1>1. \A kind \in PATTERNS : Prefix(kind) \notin {"INCOMPLETE", "TIMEOUT"}
    BY DEF PATTERNS, Prefix
  <1> QED
    BY <1>1 DEF Shown, Shows, Failure, TRUNCATED, TIMEOUT

\* A run that met nothing shows nothing.
LEMMA NothingShown ==
  ASSUME ManifestAssumption, NEW run \in Runs
  PROVE  Shows(run, {}) = {}
  <1>1. Manifest[Site(run)][{}] = {}
    BY DEF ManifestAssumption
  <1> QED
    BY <1>1 DEF Shows, Lines

\* The parser keeps of a line the failure it stands for.
LEMMA SignatureIsTheFailure == ASSUME NEW l PROVE signature(l) = Failure(l)
  BY DEF signature, normalise, Cut, Failure

\* Of what a simulation prints, the findings are the failures it shows.
LEMMA FindingsTell ==
  ASSUME NEW run, NEW defects, NEW log, log.lines \subseteq Printed(run, defects)
  PROVE  LET F == {signature(l) : l \in findings(log)}
             S == Shows(run, Met(run, defects))
         IN F \subseteq S /\ (log.lines = Printed(run, defects) => F = S)
  <1>1. /\ findings(log) \subseteq {l \in Printed(run, defects) : l.kind \in PATTERNS}
        /\ log.lines = Printed(run, defects) =>
             findings(log) = {l \in Printed(run, defects) : l.kind \in PATTERNS}
    BY DEF findings
  <1>2. Shows(run, Met(run, defects)) =
          {Failure(l) : l \in {m \in Printed(run, defects) : m.kind \in PATTERNS}}
    BY DEF Shows, Printed
  <1> QED
    BY <1>1, <1>2, SignatureIsTheFailure

LEMMA WholeTells ==
  ASSUME ManifestAssumption, NEW run \in Runs, NEW defects \in SUBSET Defects,
         ~Hangs(run, defects)
  PROVE  Telling(run, Whole(run, defects)) /\ Whole(run, defects).met = Met(run, defects)
  <1> DEFINE x == Whole(run, defects)
  <1>1. /\ x.whole /\ x.met = Met(run, defects) /\ x.log.lines = Printed(run, defects)
        /\ x.log.completed <=> \A l \in Printed(run, defects) : l.kind \notin FATAL
    BY DEF Whole
  <1> HIDE DEF x
  <1>2. Verdict(x.log) # "INCOMPLETE"
    <2>1. ~x.log.completed => findings(x.log) # {}
      BY <1>1 DEF findings, FATAL, PATTERNS
    <2> QED
      BY <2>1 DEF Verdict
  <1>3. {signature(l) : l \in findings(x.log)} = Shows(run, x.met)
    BY <1>1, FindingsTell
  <1>4. parse(x.log).signatures = Shows(run, x.met)
    BY <1>2, <1>3 DEF parse
  <1>5. Telling(run, x) /\ x.met = Met(run, defects)
    BY <1>1, <1>2, <1>4, MetType DEF Telling
  <1> QED
    BY <1>5 DEF x

LEMMA CutOffTells ==
  ASSUME NEW run, NEW defects \in SUBSET Defects, NEW x \in CutOff(run, defects)
  PROVE  Telling(run, x) /\ x.met = Met(run, defects)
  <1>1. ~x.whole /\ x.met = Met(run, defects) /\ x.log.lines \subseteq Printed(run, defects)
    BY DEF CutOff
  <1>2. {signature(l) : l \in findings(x.log)} \subseteq Shows(run, x.met)
    BY <1>1, FindingsTell
  <1>3. parse(x.log).signatures \subseteq Shows(run, x.met) \cup {TRUNCATED}
    BY <1>2 DEF parse
  <1> QED
    BY <1>1, <1>3, MetType DEF Telling

LEMMA ResultTells ==
  ASSUME NEW run, NEW x, Telling(run, x)
  PROVE  LET r == Result(run, x) IN TellingResult(r) /\ r.run = run /\ r.met = x.met
  <1> DEFINE r == Result(run, x)
  <1>1. /\ r.run = run /\ r.met = x.met /\ r.whole = x.whole
        /\ r.status = Verdict(x.log) /\ r.signatures = parse(x.log).signatures
    BY DEF Result, parse
  <1> HIDE DEF r
  <1>2. Shown(r) = Shows(run, x.met)
    BY <1>1 DEF Shown
  <1>3. TellingResult(r)
    BY <1>1, <1>2, VerdictType DEF Telling, TellingResult
  <1> QED
    BY <1>1, <1>3 DEF r

LEMMA TimeoutTells ==
  ASSUME NEW run, NEW x, Telling(run, x), ~x.whole
  PROVE  LET r == TimeoutResult(run, x) IN TellingResult(r) /\ r.run = run /\ r.met = x.met
  <1> DEFINE r == TimeoutResult(run, x)
  <1>1. /\ r.run = run /\ r.met = x.met /\ r.whole = x.whole /\ r.status = "FAIL"
        /\ r.signatures = parse(x.log).signatures \cup {TIMEOUT}
    BY DEF TimeoutResult, Result
  <1> HIDE DEF r
  <1>2. Shown(r) = Shows(run, x.met)
    BY <1>1 DEF Shown
  <1>3. TellingResult(r)
    BY <1>1, <1>2 DEF Telling, TellingResult
  <1> QED
    BY <1>1, <1>3 DEF r

LEMMA MissingTells ==
  ASSUME NEW run
  PROVE  TellingResult(Missing(run)) /\ Missing(run).run = run
  BY DEF Missing, TellingResult

-----------------------------------------------------------------------------
(* How steps of one kind keep it.                                          *)

\* The directories stay.
LEMMA DirectoriesKeep ==
  ASSUME Invoked, ReportsTell, UNCHANGED results
  PROVE  Invoked' /\ ReportsTell'
  BY DEF Invoked, ReportsTell, Complete

\* So does what the job has found out.
LEMMA FindingsKeep ==
  ASSUME TellInv, UNCHANGED <<uvm_logs, results>>,
         job'.results = job.results, job'.binary = job.binary,
         job'.pc # "build" \/ job.pc = "build"
  PROVE  TellInv'
  <1>1. LogsTell' /\ JobTells'
    BY DEF TellInv, LogsTell, JobTells
  <1> QED
    BY <1>1, DirectoriesKeep DEF TellInv

\* The process ends.
LEMMA EndKeeps ==
  ASSUME TellInv, UNCHANGED <<uvm_logs, results>>, job' = Idle
  PROVE  TellInv'
  <1>1. job'.pc = "idle" /\ job'.results = {}
    BY DEF Idle
  <1>2. LogsTell' /\ JobTells'
    BY <1>1 DEF TellInv, LogsTell, JobTells
  <1> QED
    BY <1>2, DirectoriesKeep DEF TellInv

\* A result comes in.
LEMMA ResultKeeps ==
  ASSUME TellInv, UNCHANGED <<uvm_logs, results>>,
         job.pc # "build", job'.pc = job.pc, job'.binary = job.binary,
         NEW result, job'.results = job.results \cup {result}, TellingResult(result),
         result.run.runner = "local" =>
           /\ result.run.target \in DOMAIN job.binary
           /\ job.binary[result.run.target] \in Designs
           /\ result.met = Met(result.run, job.binary[result.run.target])
  PROVE  TellInv'
  <1>1. LogsTell' /\ JobTells'
    BY DEF TellInv, LogsTell, JobTells
  <1> QED
    BY <1>1, DirectoriesKeep DEF TellInv

-----------------------------------------------------------------------------
(* The actions.                                                            *)

LEMMA StartTells ==
  ASSUME RegInv, TellInv, NEW args \in Invocations, Start(args)
  PROVE  TellInv'
  <1> DEFINE runs  == Selected(args)
             local == LocalRuns(args)
  <1>1. results' = Append(results, NewDir(runs)) /\ UNCHANGED uvm_logs
    BY DEF Start
  <1>2. job' = [Idle EXCEPT !.pc = IF local = {} THEN "import" ELSE "build",
                            !.runs = runs, !.targets = {r.target : r \in local},
                            !.queue = local]
    BY DEF Start
  <1>3. NewDir(runs).selected = runs /\ NewDir(runs).json = "absent"
    BY DEF NewDir
  <1> HIDE DEF local
  <1>4. job'.results = {}
    BY <1>2 DEF Idle
  <1> HIDE DEF runs
  <1>5. /\ stamp \in Nat /\ DOMAIN results = 1 .. stamp
        /\ DOMAIN results' = 1 .. stamp + 1 /\ results'[stamp + 1] = NewDir(runs)
        /\ \A i \in 1 .. stamp : results'[i] = results[i]
    BY <1>1, Appended DEF RegInv, Shape, stamp
  <1>6. Invoked'
    BY <1>3, <1>5 DEF TellInv, Invoked, runs
  <1>7. \A s \in Complete' : s \in Complete /\ results'[s] = results[s]
    BY <1>3, <1>5 DEF Complete
  <1>8. ReportsTell'
    BY <1>7 DEF TellInv, ReportsTell
  <1>9. LogsTell' /\ JobTells'
    BY <1>1, <1>4 DEF TellInv, LogsTell, JobTells
  <1> QED
    BY <1>6, <1>8, <1>9 DEF TellInv

LEMMA BuildTells ==
  ASSUME RegInv, TellInv, NEW t \in Targets, build_target(t)
  PROVE  TellInv'
  <1>1. job.pc = "build" /\ UNCHANGED <<uvm_logs, results>>
    BY DEF build_target
  <1>2. job'.results = job.results
    BY DEF build_target, RegInv, Shape
  <1>3. LogsTell' /\ JobTells'
    BY <1>1, <1>2 DEF TellInv, LogsTell, JobTells
  <1> QED
    BY <1>1, <1>3, DirectoriesKeep DEF TellInv

LEMMA BinaryOfTheJob ==
  ASSUME DesignsAssumption, RegInv, job.pc = "pool", NEW run \in job.queue
  PROVE  /\ run.target \in DOMAIN job.binary /\ job.binary[run.target] \in Designs
         /\ Binary(run) = job.binary[run.target] /\ Binary(run) \in SUBSET Defects
  BY DEF RegInv, Built, Building, Binary, DesignsAssumption

LEMMA ResolveTells ==
  ASSUME DesignsAssumption, RegInv, TellInv, job.pc = "pool", NEW run \in job.queue,
         NEW result, Resolve(run, result), TellingResult(result),
         result.run = run, result.met = Met(run, Binary(run))
  PROVE  TellInv'
  <1>1. /\ job' = [job EXCEPT !.queue = @ \ {run}, !.results = @ \cup {result}]
        /\ UNCHANGED <<uvm_logs, results>>
    BY DEF Resolve
  <1>2. job'.pc = job.pc /\ job'.binary = job.binary /\ job'.results = job.results \cup {result}
    BY <1>1 DEF RegInv, Shape
  <1> QED
    BY <1>1, <1>2, BinaryOfTheJob, ResultKeeps

LEMMA RunTells ==
  ASSUME ManifestAssumption, DesignsAssumption, RegInv, TellInv, NEW run \in Runs,
         run_local(run) \/ run_local_killed(run) \/ run_local_timeout(run)
  PROVE  TellInv'
  <1>1. job.pc = "pool" /\ run \in job.queue
    BY ActiveWaits DEF run_local, run_local_killed, run_local_timeout
  <1>2. Binary(run) \in SUBSET Defects
    BY <1>1, BinaryOfTheJob
  <1>3. CASE run_local(run)
    <2>1. Resolve(run, Result(run, Whole(run, Binary(run)))) /\ ~Hangs(run, Binary(run))
      BY <1>3 DEF run_local
    <2> QED
      BY <1>1, <1>2, <2>1, WholeTells, ResultTells, ResolveTells
  <1>4. ASSUME NEW x \in CutOff(run, Binary(run)), Resolve(run, Result(run, x))
        PROVE  TellInv'
    BY <1>1, <1>2, <1>4, CutOffTells, ResultTells, ResolveTells
  <1>5. ASSUME NEW x \in CutOff(run, Binary(run)), Resolve(run, TimeoutResult(run, x))
        PROVE  TellInv'
    BY <1>1, <1>2, <1>5, CutOffTells, CutOffIsHonest, TimeoutTells, ResolveTells
  <1>6. CASE Raise(run)
    <2>1. job' = [job EXCEPT !.queue = @ \ {run}, !.raised = TRUE]
          /\ UNCHANGED <<uvm_logs, results>>
      BY <1>6 DEF Raise
    <2>2. job'.pc = job.pc /\ job'.binary = job.binary /\ job'.results = job.results
      BY <2>1 DEF RegInv, Shape
    <2> QED
      BY <2>1, <2>2, FindingsKeep
  <1> QED
    BY <1>3, <1>4, <1>5, <1>6 DEF run_local_killed, run_local_timeout

LEMMA ImportedTells ==
  ASSUME RegInv, TellInv, NEW run \in Runs, run_imported(run)
  PROVE  TellInv'
  <1> DEFINE result == IF uvm_logs[run.test] = <<>> THEN Missing(run)
                       ELSE Result(run, uvm_logs[run.test][1])
  <1>1. /\ job.pc = "import" /\ run \in Imported
        /\ job' = [job EXCEPT !.results = @ \cup {result}]
        /\ UNCHANGED <<uvm_logs, results>>
    BY DEF run_imported
  <1>2. run.runner = "imported" /\ run.test \in UvmTests
    BY <1>1 DEF Imported, UvmTests
  <1>3. TellingResult(result) /\ result.run = run
    <2>1. CASE uvm_logs[run.test] = <<>>
      BY <2>1, MissingTells
    <2>2. CASE uvm_logs[run.test] # <<>>
      <3>1. Telling(run, uvm_logs[run.test][1])
        BY <1>2, <2>2 DEF TellInv, LogsTell
      <3> QED
        BY <2>2, <3>1, ResultTells
    <2> QED
      BY <2>1, <2>2
  <1> HIDE DEF result
  <1>4. job'.pc = job.pc /\ job'.binary = job.binary /\ job'.results = job.results \cup {result}
    BY <1>1 DEF RegInv, Shape
  <1> QED
    BY <1>1, <1>2, <1>3, <1>4, ResultKeeps

\* The directory in progress changes, with the report it gets.
LEMMA DirectoryTells ==
  ASSUME RegInv, TellInv, job.pc # "idle",
         NEW e, results' = [results EXCEPT ![stamp] = e], e.selected = job.runs,
         e.json = "whole" => (\A x \in e.runs : TellingResult(x)) /\ OneBuild(e.runs)
  PROVE  Invoked' /\ ReportsTell'
  <1>1. stamp \in DOMAIN results /\ results[stamp].selected = job.runs
    BY DEF RegInv, Directory
  <1>2. /\ DOMAIN results' = DOMAIN results /\ results'[stamp] = e
        /\ \A i \in DOMAIN results : i # stamp => results'[i] = results[i]
    BY <1>1, Replaced DEF RegInv, Shape, stamp
  <1>3. Invoked'
    BY <1>1, <1>2 DEF TellInv, Invoked
  <1>4. \A s \in Complete' : (s \in Complete /\ results'[s] = results[s])
                             \/ (results'[s] = e /\ e.json = "whole")
    BY <1>1, <1>2 DEF Complete
  <1> QED
    BY <1>3, <1>4 DEF TellInv, ReportsTell

LEMMA OpenTells ==
  ASSUME RegInv, TellInv, open_json
  PROVE  TellInv'
  <1> DEFINE e == [results[stamp] EXCEPT !.json = "partial"]
  <1>1. /\ job.pc = "import" /\ UNCHANGED uvm_logs
        /\ results' = [results EXCEPT ![stamp] = e]
        /\ job' = [job EXCEPT !.pc = "json"]
    BY DEF open_json
  <1>2. stamp \in DOMAIN results /\ results[stamp].selected = job.runs
    BY <1>1 DEF RegInv, Directory
  <1>3. e.selected = job.runs /\ e.json = "partial"
    BY <1>2 DEF RegInv, Shape
  <1> HIDE DEF e
  <1>4. Invoked' /\ ReportsTell'
    BY <1>1, <1>3, DirectoryTells
  <1>5. job'.pc = "json" /\ job'.binary = job.binary /\ job'.results = job.results
    BY <1>1 DEF RegInv, Shape
  <1>6. LogsTell' /\ JobTells'
    BY <1>1, <1>5 DEF TellInv, LogsTell, JobTells
  <1> QED
    BY <1>4, <1>6 DEF TellInv

LEMMA WriteTells ==
  ASSUME RegInv, TellInv, write_json
  PROVE  TellInv'
  <1> DEFINE e == [selected |-> job.runs, json |-> "whole", runs |-> job.results]
  <1>1. /\ job.pc = "json" /\ UNCHANGED uvm_logs
        /\ results' = [results EXCEPT ![stamp] = e]
        /\ job' = [job EXCEPT !.pc = "unlink"]
    BY DEF write_json
  <1>2. e.selected = job.runs /\ e.runs = job.results
    OBVIOUS
  <1> HIDE DEF e
  <1>3. \A x \in job.results : TellingResult(x)
    BY DEF TellInv, JobTells
  <1>4. OneBuild(job.results)
    <2> DEFINE binary == [t \in Targets |-> IF t \in DOMAIN job.binary /\ job.binary[t] \in Designs
                                            THEN job.binary[t] ELSE design]
    <2>1. binary \in [Targets -> Designs]
      BY DEF RegInv, TypeOK
    <2>2. ASSUME NEW x \in job.results, x.run.runner = "local"
          PROVE  x.met = Met(x.run, binary[x.run.target])
      <3>1. /\ x.run.target \in DOMAIN job.binary
            /\ job.binary[x.run.target] \in Designs
            /\ x.met = Met(x.run, job.binary[x.run.target])
        BY <2>2 DEF TellInv, JobTells
      <3>2. x.run.target \in Targets
        BY <3>1 DEF RegInv, TypeOK
      <3> QED
        BY <3>1, <3>2
    <2> HIDE DEF binary
    <2> QED
      BY <2>1, <2>2 DEF OneBuild
  <1>5. Invoked' /\ ReportsTell'
    BY <1>1, <1>2, <1>3, <1>4, DirectoryTells
  <1>6. job'.pc = "unlink" /\ job'.binary = job.binary /\ job'.results = job.results
    BY <1>1 DEF RegInv, Shape
  <1>7. LogsTell' /\ JobTells'
    BY <1>1, <1>6 DEF TellInv, LogsTell, JobTells
  <1> QED
    BY <1>5, <1>7 DEF TellInv

LEMMA PoolDoneTells ==
  ASSUME RegInv, TellInv, pool_done
  PROVE  TellInv'
  <1>1. UNCHANGED <<uvm_logs, results>>
    BY DEF pool_done
  <1>2. CASE job' = Idle
    BY <1>1, <1>2, EndKeeps
  <1>3. CASE job' = [job EXCEPT !.pc = "import"]
    <2>1. job'.pc = "import" /\ job'.binary = job.binary /\ job'.results = job.results
      BY <1>3 DEF RegInv, Shape
    <2> QED
      BY <1>1, <2>1, FindingsKeep
  <1> QED
    BY <1>2, <1>3 DEF pool_done, Exit

LEMMA UnlinkTells ==
  ASSUME RegInv, TellInv, unlink
  PROVE  TellInv'
  <1>1. job' = [job EXCEPT !.pc = "link"] /\ UNCHANGED <<uvm_logs, results>>
    BY DEF unlink
  <1>2. job'.pc = "link" /\ job'.binary = job.binary /\ job'.results = job.results
    BY <1>1 DEF RegInv, Shape
  <1> QED
    BY <1>1, <1>2, FindingsKeep

LEMMA EndTells ==
  ASSUME TellInv, link \/ build_fails \/ die
  PROVE  TellInv'
  BY EndKeeps DEF link, build_fails, die, Exit

LEMMA ImportLogTells ==
  ASSUME ManifestAssumption, DesignsAssumption, RegInv, TellInv,
         NEW run \in Runs, run.runner = "imported", import_log(run)
  PROVE  TellInv'
  <1>1. UNCHANGED <<job, results>>
    BY DEF import_log
  <1>2. design \in SUBSET Defects /\ run.test \in UvmTests
    BY DEF RegInv, TypeOK, DesignsAssumption, UvmTests
  <1>3. PICK x : uvm_logs' = [uvm_logs EXCEPT ![run.test] = <<x>>] /\ Telling(run, x)
    BY <1>2, WholeTells, CutOffTells DEF import_log
  <1>4. LogsTell'
    <2> SUFFICES ASSUME NEW r \in Runs, r.runner = "imported", uvm_logs'[r.test] # <<>>
                 PROVE  Telling(r, uvm_logs'[r.test][1])
      BY DEF LogsTell
    <2>1. r.test \in UvmTests
      BY DEF UvmTests
    <2>2. CASE r.test = run.test
      <3>1. r = run
        BY <2>2, ImportedRun
      <3> QED
        BY <1>2, <1>3, <3>1 DEF RegInv, Shape
    <2>3. CASE r.test # run.test
      BY <1>2, <1>3, <2>1, <2>3 DEF RegInv, Shape, TellInv, LogsTell
    <2> QED
      BY <2>2, <2>3
  <1>5. JobTells'
    BY <1>1 DEF TellInv, JobTells
  <1> QED
    BY <1>1, <1>4, <1>5, DirectoriesKeep DEF TellInv

LEMMA TellingStarts ==
  ASSUME Init
  PROVE  TellInv
  <1>1. /\ job.pc = "idle" /\ job.results = {} /\ DOMAIN results = {}
        /\ \A r \in Runs : r.runner = "imported" => uvm_logs[r.test] = <<>>
    BY DEF Init, Idle, UvmTests
  <1> QED
    BY <1>1 DEF TellInv, LogsTell, JobTells, Invoked, ReportsTell, Complete

(***************************************************************************)
(* What the logs and the reports tell, in every behaviour: nothing but the *)
(* failures that the defects met make that run print, all of them when the *)
(* run came to its own end, and local results that come from one build per *)
(* target (parse, run_local, run_imported, build_targets).                 *)
(***************************************************************************)
THEOREM TellingInvariant == Spec => [](RegInv /\ TellInv)
  <1>1. Init => TellInv
    BY TellingStarts
  <1>2. RegInv /\ TellInv /\ [Next]_vars => TellInv'
    <2> SUFFICES ASSUME RegInv, TellInv, [Next]_vars
                 PROVE  TellInv'
      OBVIOUS
    <2>1. ASSUME NEW args \in Invocations, Start(args)
          PROVE  TellInv'
      BY <2>1, StartTells
    <2>2. ASSUME NEW t \in Targets, build_target(t)
          PROVE  TellInv'
      BY <2>2, BuildTells
    <2>3. ASSUME NEW r \in Runs, run_local(r) \/ run_local_killed(r) \/ run_local_timeout(r)
          PROVE  TellInv'
      BY <2>3, RunTells, ManifestAssumption, DesignsAssumption
    <2>4. CASE pool_done
      BY <2>4, PoolDoneTells
    <2>5. ASSUME NEW r \in Runs, run_imported(r)
          PROVE  TellInv'
      BY <2>5, ImportedTells
    <2>6. CASE open_json
      BY <2>6, OpenTells
    <2>7. CASE write_json
      BY <2>7, WriteTells
    <2>8. CASE unlink
      BY <2>8, UnlinkTells
    <2>9. CASE link \/ build_fails \/ die
      BY <2>9, EndTells
    <2>10. CASE edit
      BY <2>10, FindingsKeep DEF edit
    <2>11. ASSUME NEW r \in Runs, r.runner = "imported", import_log(r)
           PROVE  TellInv'
      BY <2>11, ImportLogTells, ManifestAssumption, DesignsAssumption
    <2>12. CASE UNCHANGED vars
      BY <2>12, FindingsKeep DEF vars
    <2>13. CASE JobStep
      BY <2>2, <2>3, <2>4, <2>5, <2>6, <2>7, <2>8, <2>9, <2>13 DEF JobStep
    <2> QED
      BY <2>1, <2>9, <2>10, <2>11, <2>12, <2>13 DEF Next
  <1> QED
    BY <1>1, <1>2, RegressionInvariant, PTL DEF Spec

-----------------------------------------------------------------------------
(* What the readers of a report conclude from it.                          *)

\* A whole run says FAIL exactly if it met something, and what that shows.
LEMMA WholeResult ==
  ASSUME NEW x, HonestResult(x), TellingResult(x), x.whole
  PROVE  /\ x.status = (IF x.met = {} THEN "PASS" ELSE "FAIL")
         /\ x.signatures = Shown(x)
  BY DEF HonestResult, TellingResult, Clean

LEMMA ReportOf ==
  ASSUME RegInv, TellInv, NEW s \in Complete, NEW x \in results[s].runs
  PROVE  HonestResult(x) /\ TellingResult(x)
  BY DEF RegInv, Reports, Reported, TellInv, ReportsTell

\* A report is on runs of the test list, selected by one command line.
LEMMA ReportIsOfRuns ==
  ASSUME RegInv, TellInv, NEW s \in Complete
  PROVE  \E args \in Invocations :
           /\ {x.run : x \in results[s].runs} = Selected(args)
           /\ \A x \in results[s].runs : x.run \in Runs
  <1>1. PICK args \in Invocations : results[s].selected = Selected(args)
    BY DEF TellInv, Invoked, Complete
  <1>2. {x.run : x \in results[s].runs} = Selected(args)
    BY <1>1 DEF RegInv, Reports, Reported
  <1> QED
    BY <1>2 DEF Selected

\* A run of the list that has something to show met something.
LEMMA ShownWasMet ==
  ASSUME ManifestAssumption, NEW x, x.run \in Runs, x.met = {}
  PROVE  Shown(x) = {}
  BY NothingShown DEF Shown

(***************************************************************************)
(* When no run was cut off, triage's clusters are the failures that the    *)
(* defects met make the runs print, each with exactly the runs that print  *)
(* it (triage.cluster, main and report).                                   *)
(***************************************************************************)
THEOREM ClustersAreTheFailures == Spec => []ClustersAreFailures
  <1>1. RegInv /\ TellInv => ClustersAreFailures
    <2> SUFFICES ASSUME RegInv, TellInv, NEW s \in Complete,
                        \A x \in results[s].runs : x.whole \/ x.status = "MISSING"
                 PROVE  LET R == results[s].runs
                            shown == UNION {Shown(x) : x \in R}
                        IN /\ report(s).clusters =
                                [f \in shown |-> {x.run : x \in {y \in R : f \in Shown(y)}}]
                           /\ triage(s) = 0 <=> shown = {}
                           /\ report(s).not_run = {x.run : x \in {y \in R : ~y.whole}}
      BY DEF ClustersAreFailures
    <2> DEFINE R == results[s].runs
               shown == UNION {Shown(x) : x \in R}
    <2>1. ASSUME NEW x \in R
          PROVE  /\ x.signatures = Shown(x)
                 /\ x.status = "MISSING" <=> ~x.whole
                 /\ Shown(x) # {} => x \in failed(s)
      <3>1. HonestResult(x) /\ TellingResult(x) /\ x.run \in Runs
        BY ReportOf, ReportIsOfRuns
      <3>2. CASE x.whole
        BY <3>1, <3>2, WholeResult, ShownWasMet, ManifestAssumption DEF failed, bad
      <3>3. CASE x.status = "MISSING"
        BY <3>1, <3>3, ShownWasMet, ManifestAssumption DEF TellingResult
      <3> QED
        BY <3>2, <3>3
    <2>2. failed(s) \subseteq R
      BY DEF failed, bad
    <2> HIDE DEF R
    <2>3. Signatures(failed(s)) = shown
      BY <2>1, <2>2 DEF Signatures
    <2>4. \A f : {y \in failed(s) : f \in y.signatures} = {y \in R : f \in Shown(y)}
      BY <2>1, <2>2
    <2>5. cluster(s) = [f \in shown |-> {x.run : x \in {y \in R : f \in Shown(y)}}]
      <3> HIDE DEF shown
      <3> QED
        BY <2>3, <2>4 DEF cluster
    <2>6. report(s).clusters = cluster(s)
          /\ report(s).not_run = {x.run : x \in {y \in R : y.status = "MISSING"}}
      BY DEF report, R
    <2>7. triage(s) = 0 <=> shown = {}
      BY <2>5, <2>6 DEF triage
    <2>8. {y \in R : y.status = "MISSING"} = {y \in R : ~y.whole}
      BY <2>1
    <2> QED
      BY <2>5, <2>6, <2>7, <2>8 DEF R
  <1> QED
    BY <1>1, TellingInvariant, PTL

\* A nonempty set of stamps has a greatest element.
LEMMA Greatest ==
  ASSUME NEW n \in Nat, NEW S, S \subseteq 1 .. n, S # {}
  PROVE  Max(S) \in S /\ \A y \in S : y <= Max(S)
  <1> DEFINE F == {S \cap x .. n : x \in S}
  <1>1. IsFiniteSet(1 .. n)
    BY FS_Interval
  <1>2. F \subseteq FiniteSubsetsOf(1 .. n) /\ F # {}
    <2>1. F \subseteq SUBSET (1 .. n) /\ F # {}
      OBVIOUS
    <2> HIDE DEF F
    <2> QED
      BY <1>1, <2>1, FS_FiniteSubsetsOfFinite
  <1>3. PICK M \in F : \A T \in F : <<T, M>> \notin StrictSubsetOrdering(1 .. n)
    <2> HIDE DEF F
    <2> QED
      BY <1>2, FS_StrictSubsetOrderingWellFounded, WFMin
  <1>4. PICK x \in S : M = S \cap x .. n
    OBVIOUS
  <1>5. ASSUME NEW y \in S, x < y
        PROVE  FALSE
    <2>1. (S \cap y .. n) \in F
      OBVIOUS
    <2>2. (S \cap y .. n) \subseteq M /\ x \in M /\ x \notin S \cap y .. n
      BY <1>4, <1>5
    <2>3. <<S \cap y .. n, M>> \in StrictSubsetOrdering(1 .. n)
      BY <1>4, <2>2 DEF StrictSubsetOrdering
    <2> QED
      BY <1>3, <2>1, <2>3
  <1>6. \A y \in S : x >= y
    BY <1>5
  <1> QED
    BY <1>6 DEF Max

\* The regression triage compares with is the most recent complete one.
LEMMA PreviousIsComplete ==
  ASSUME RegInv, NEW s \in Triaged, Before(s) # {}
  PROVE  /\ previous_run(s) = Max(Before(s)) /\ previous_run(s) # 0
         /\ Max(Before(s)) \in Complete
  <1>1. stamp \in Nat /\ DOMAIN results = 1 .. stamp
    BY DEF RegInv, Shape, stamp
  <1>2. /\ Candidates(s) \subseteq 1 .. stamp /\ Before(s) \subseteq Candidates(s)
        /\ Before(s) \subseteq 1 .. stamp
    BY <1>1 DEF Candidates, Before, Complete
  <1>3. /\ Max(Candidates(s)) \in Candidates(s)
        /\ \A y \in Candidates(s) : y <= Max(Candidates(s))
    BY <1>1, <1>2, Greatest
  <1>4. /\ Max(Before(s)) \in Before(s)
        /\ \A y \in Before(s) : y <= Max(Before(s))
    BY <1>1, <1>2, Greatest
  <1>5. previous_run(s) = Max(Candidates(s)) /\ previous_run(s) # 0
    BY <1>1, <1>2, <1>3 DEF previous_run
  <1>6. results[Max(Candidates(s))].json # "partial"
    BY <1>5 DEF Triaged, Dies
  <1>7. Max(Candidates(s)) \in Before(s)
    BY <1>3, <1>6 DEF Candidates, Before, Complete, RegInv, TypeOK
  <1>8. Max(Candidates(s)) = Max(Before(s))
    <2>1. Max(Before(s)) \in 1 .. stamp /\ Max(Candidates(s)) \in 1 .. stamp
      BY <1>2, <1>3, <1>4
    <2> QED
      BY <1>1, <1>2, <1>3, <1>4, <1>7, <2>1
  <1> QED
    BY <1>4, <1>5, <1>8 DEF Before

(***************************************************************************)
(* What is flagged [NEW] and what is gone, against the failures that the   *)
(* runs of the most recent complete regression before had to show and      *)
(* showed to their end, over any number of regressions that died in        *)
(* between (triage.previous_run and report).                               *)
(***************************************************************************)
THEOREM NewMeansNew == Spec => []NewIsNew
  <1>1. RegInv /\ TellInv => NewIsNew
    <2> SUFFICES ASSUME RegInv, TellInv, NEW s \in Triaged, Before(s) # {}
                 PROVE  LET P == results[Max(Before(s))].runs
                            R == results[s].runs
                            said == report(s)
                            shown(X) == UNION {Shown(x) : x \in X}
                            showed(X) == shown({x \in X : x.whole})
                        IN /\ said.new \cap showed(P) = {}
                           /\ (DOMAIN said.clusters \ {TIMEOUT, TRUNCATED}) \ shown(P)
                                \subseteq said.new
                           /\ said.gone \cap showed(R) = {}
                           /\ showed(P) \ shown(R) \subseteq said.gone
      BY DEF NewIsNew
    <2> DEFINE P == results[Max(Before(s))].runs
               R == results[s].runs
               shown(X) == UNION {Shown(x) : x \in X}
               showed(X) == shown({x \in X : x.whole})
    <2>1. /\ report(s).clusters = cluster(s) /\ report(s).new = new_sigs(s)
          /\ report(s).gone = fixed_sigs(s)
      BY DEF report
    <2>2. /\ previous_run(s) = Max(Before(s)) /\ previous_run(s) # 0
          /\ Max(Before(s)) \in Complete /\ s \in Complete
      BY PreviousIsComplete DEF Triaged
    <2>3. /\ new_sigs(s) = DOMAIN cluster(s) \ Signatures(P)
          /\ fixed_sigs(s) = Signatures(P) \ DOMAIN cluster(s)
          /\ DOMAIN cluster(s) = Signatures(failed(s))
      BY <2>2 DEF new_sigs, fixed_sigs, cluster
    <2>4. /\ \A x \in P : HonestResult(x) /\ TellingResult(x)
          /\ \A x \in R : HonestResult(x) /\ TellingResult(x) /\ x.run \in Runs
      BY <2>2, ReportOf, ReportIsOfRuns
    <2> HIDE DEF P
    <2>5. showed(P) \subseteq Signatures(P)
      BY <2>4, WholeResult DEF Signatures
    <2>6. Signatures(P) \subseteq shown(P) \cup {TIMEOUT, TRUNCATED}
      BY <2>4 DEF TellingResult, Signatures
    <2>7. showed(R) \subseteq Signatures(failed(s))
      <3>1. ASSUME NEW x \in R, x.whole, NEW f \in Shown(x)
            PROVE  x \in failed(s) /\ f \in x.signatures
        BY <2>4, <3>1, WholeResult, ShownWasMet, ManifestAssumption DEF failed, bad
      <3> QED
        BY <3>1 DEF Signatures
    <2>8. Signatures(failed(s)) \subseteq shown(R) \cup {TIMEOUT, TRUNCATED}
      BY <2>4 DEF TellingResult, Signatures, failed, bad
    <2>9. TIMEOUT \notin showed(P) /\ TRUNCATED \notin showed(P)
      BY ShownIsAFailure
    <2> HIDE DEF R, shown, showed
    <2>10. /\ new_sigs(s) \cap showed(P) = {}
           /\ (DOMAIN cluster(s) \ {TIMEOUT, TRUNCATED}) \ shown(P) \subseteq new_sigs(s)
      BY <2>3, <2>5, <2>6
    <2>11. /\ fixed_sigs(s) \cap showed(R) = {}
           /\ showed(P) \ shown(R) \subseteq fixed_sigs(s)
      BY <2>3, <2>5, <2>7, <2>8, <2>9
    <2> QED
      BY <2>1, <2>10, <2>11 DEF P, R, shown, showed
  <1> QED
    BY <1>1, TellingInvariant, PTL

-----------------------------------------------------------------------------
(* The test list.                                                          *)

LEMMA RunsOfATest ==
  ASSUME TestlistAssumption, NEW q \in Runs, NEW r \in Runs, q.test = r.test
  PROVE  /\ q.runner = r.runner
         /\ q.runner = "local" => q.target = r.target
         /\ q.runner # "local" => q = r
  <1>1. PICK i \in DOMAIN Testlist :
           /\ q.test = Testlist[i].name
           /\ Testlist[i].runner = "local" => q.runner = "local" /\ q.target = Testlist[i].target
           /\ Testlist[i].runner # "local" =>
                q = [test |-> Testlist[i].name, runner |-> "imported", target |-> "",
                     seed |-> NoSeed]
    BY RunOf
  <1>2. PICK j \in DOMAIN Testlist :
           /\ r.test = Testlist[j].name
           /\ Testlist[j].runner = "local" => r.runner = "local" /\ r.target = Testlist[j].target
           /\ Testlist[j].runner # "local" =>
                r = [test |-> Testlist[j].name, runner |-> "imported", target |-> "",
                     seed |-> NoSeed]
    BY RunOf
  <1>3. /\ Testlist[i].name = Testlist[j].name
        /\ Testlist[i].runner = Testlist[j].runner
        /\ Testlist[i].runner = "local" => Testlist[i].target = Testlist[j].target
    BY <1>1, <1>2 DEF TestlistAssumption
  <1> QED
    BY <1>1, <1>2, <1>3

LEMMA TwoElements ==
  ASSUME NEW S, Cardinality(S) > 1
  PROVE  \E a, b \in S : a # b
  <1>1. ASSUME S = {}
        PROVE  FALSE
    <2>1. Cardinality(S) = Cardinality({})
      BY <1>1, Zenon
    <2> QED
      BY <2>1, FS_EmptySet
  <1>2. PICK a : a \in S
    BY <1>1
  <1>3. ASSUME S = {a}
        PROVE  FALSE
    <2>1. Cardinality(S) = Cardinality({a})
      BY <1>3, Zenon
    <2> QED
      BY <2>1, FS_Singleton
  <1> QED
    BY <1>2, <1>3

(***************************************************************************)
(* A test triage calls flaky depends on its seed: a defect one of its      *)
(* seeds meets and another does not (triage.find_flaky,                    *)
(* run_regression.build_targets).                                          *)
(***************************************************************************)
THEOREM FlakyMeansSeeds == Spec => []FlakyIsReal
  <1>1. RegInv /\ TellInv => FlakyIsReal
    <2> SUFFICES ASSUME RegInv, TellInv, NEW s \in Complete, NEW t \in report(s).flaky,
                        \A x \in {y \in results[s].runs : y.run.test = t} : x.whole
                 PROVE  \E d \in Defects :
                          \E x, y \in {z \in results[s].runs : z.run.test = t} :
                            d \in x.met /\ Site(y.run) \notin Exposes[d]
      BY DEF FlakyIsReal
    <2> DEFINE R == {x \in results[s].runs : x.run.test = t}
    <2>1. Cardinality(verdicts(s, t)) > 1
      BY DEF report, find_flaky
    <2>2. PICK x, y \in R : x.status # y.status
      <3>1. PICK a, b \in verdicts(s, t) : a # b
        BY <2>1, TwoElements
      <3> QED
        BY <3>1 DEF verdicts
    <2>3. \A z \in R : HonestResult(z) /\ TellingResult(z) /\ z.whole /\ z.run \in Runs
      BY ReportOf, ReportIsOfRuns
    <2>4. \A z \in R : z.status = (IF z.met = {} THEN "PASS" ELSE "FAIL")
      BY <2>3, WholeResult
    <2>5. PICK f, p \in R : f.met # {} /\ p.met = {}
      BY <2>2, <2>4
    <2>6. PICK d \in f.met : d \in Defects
      BY <2>3, <2>5 DEF TellingResult
    <2>7. f.run # p.run
      BY <2>5 DEF RegInv, Reports, Reported
    <2>8. /\ f.run.runner = "local" /\ p.run.runner = "local"
          /\ f.run.target = p.run.target
      BY <2>3, <2>7, RunsOfATest, Runners, TestlistAssumption
    <2>9. PICK binary \in [Targets -> Designs] :
            \A x1 \in results[s].runs :
              x1.run.runner = "local" => x1.met = Met(x1.run, binary[x1.run.target])
      BY DEF TellInv, ReportsTell, OneBuild
    <2>10. f.met = Met(f.run, binary[f.run.target]) /\ p.met = Met(p.run, binary[f.run.target])
      BY <2>8, <2>9
    <2>11. Site(p.run) \notin Exposes[d]
      BY <2>5, <2>10 DEF Met
    <2> QED
      BY <2>6, <2>11
  <1> QED
    BY <1>1, TellingInvariant, PTL

(***************************************************************************)
(* PASSING in the traceability matrix is earned by a claiming test that    *)
(* was clean on all its seeds in the last complete regression, and spoiled *)
(* by any claiming test that was not (vplan_trace.verdict and status_of).  *)
(***************************************************************************)
THEOREM PassingMeansClean == Spec => []PassingIsEarned
  <1>1. RegInv /\ TellInv => PassingIsEarned
    <2> SUFFICES ASSUME RegInv, TellInv, NEW f \in Features \ problems
                 PROVE  /\ \E t \in claims(f) : \A run \in {r \in Runs : r.test = t} :
                             \E x \in results[latest].runs : x.run = run /\ Clean(x)
                        /\ \A x \in results[latest].runs :
                             x.run.test \in claims(f) /\ x.status # "MISSING" => Clean(x)
      BY DEF PassingIsEarned
    <2> DEFINE V == {verdict(t) : t \in claims(f)}
    <2>1. status_of(f) = "PASSING"
      BY DEF problems, rows
    <2>2. "PASS" \in V /\ "FAIL" \notin V
      <3>1. CASE claims(f) = {}
        BY <2>1, <3>1 DEF status_of
      <3>2. CASE "FAIL" \in V
        BY <2>1, <3>2 DEF status_of
      <3>3. CASE claims(f) # {} /\ "PASS" \notin V /\ "FAIL" \notin V
        BY <2>1, <3>3 DEF status_of
      <3> QED
        BY <3>1, <3>2, <3>3
    <2>3. PICK t \in claims(f) : verdict(t) = "PASS"
      BY <2>2
    <2>4. Statuses(t) = {"PASS"}
      BY <2>3 DEF verdict
    <2>5. latest \in Complete /\ latest_runs = results[latest].runs
      BY <2>4 DEF Statuses, latest_runs, RegInv, LatestIsComplete
    <2>6. \A x \in results[latest].runs : HonestResult(x) /\ x.run \in Runs
      BY <2>5, ReportOf, ReportIsOfRuns
    <2>7. ASSUME NEW run \in Runs, run.test = t
          PROVE  \E x \in results[latest].runs : x.run = run /\ Clean(x)
      <3>1. PICK y \in results[latest].runs : y.run.test = t
        BY <2>4, <2>5 DEF Statuses
      <3>2. PICK args \in Invocations : {x.run : x \in results[latest].runs} = Selected(args)
        BY <2>5, ReportIsOfRuns
      <3>3. y.run \in Selected(args) /\ y.run \in Runs
        BY <2>6, <3>1, <3>2
      <3>4. run.runner = y.run.runner
        BY <2>7, <3>1, <3>3, RunsOfATest, TestlistAssumption
      <3>5. run \in Selected(args)
        BY <2>7, <3>1, <3>3, <3>4 DEF Selected
      <3>6. PICK x \in results[latest].runs : x.run = run
        BY <3>2, <3>5
      <3>7. x.status = "PASS"
        BY <2>4, <2>5, <2>7, <3>6 DEF Statuses
      <3> QED
        BY <2>6, <3>6, <3>7 DEF HonestResult
    <2>8. ASSUME NEW x \in results[latest].runs, x.run.test \in claims(f), x.status # "MISSING"
          PROVE  Clean(x)
      <3>1. x.status \in Statuses(x.run.test)
        BY <2>5 DEF Statuses
      <3>2. verdict(x.run.test) # "FAIL"
        BY <2>2, <2>8
      <3>3. x.status \notin {"FAIL", "INCOMPLETE"}
        <4>1. ASSUME x.status \in {"FAIL", "INCOMPLETE"}
              PROVE  verdict(x.run.test) = "FAIL"
          <5> DEFINE S == Statuses(x.run.test)
          <5>1. S # {} /\ S # {"PASS"} /\ S # {"MISSING"} /\ S \cap {"FAIL", "INCOMPLETE"} # {}
            BY <3>1, <4>1
          <5> HIDE DEF S
          <5>2. verdict(x.run.test) =
                  CASE S = {}                             -> "UNKNOWN"
                    [] S = {"PASS"}                       -> "PASS"
                    [] S = {"MISSING"}                    -> "MISSING"
                    [] S \cap {"FAIL", "INCOMPLETE"} # {} -> "FAIL"
                    [] OTHER                              -> "MIXED"
            BY DEF verdict, S
          <5> QED
            BY <5>1, <5>2
        <4> QED
          BY <3>2, <4>1
      <3> QED
        BY <2>6, <2>8, <3>3 DEF HonestResult
    <2> QED
      BY <2>3, <2>7, <2>8
  <1> QED
    BY <1>1, TellingInvariant, PTL

-----------------------------------------------------------------------------
(***************************************************************************)
(* The register map flow.  Nothing here depends on what a register is:     *)
(* loads, Rows and Rendered stay closed.                                   *)
(***************************************************************************)
Goals == {"none", "regmap", "regcheck"}

\* What a target still has to do.
Todos == {<<>>, <<"load", "check">>, <<"render", "check">>, <<"check">>,
          <<"check", "load">>, <<"load">>, <<"render">>}

MapTypeOK ==
  /\ regmap_yaml \in Documents
  /\ make \in [goal : Goals, todo : Todos, doc : Documents \cup {<<>>},
               next : 1 .. 4, stale : BOOLEAN]
  /\ outcome \in [goal : Goals, exit : 0 .. 2, in_sync : BOOLEAN, touched : BOOLEAN]
  /\ outputs = [i \in 1 .. 3 |-> outputs[i]]

\* Where a target can be.
Progress ==
  /\ make.goal = "none" => make.todo = <<>>
  /\ make.goal = "regmap" =>
       make.todo \in {<<"load", "check">>, <<"render", "check">>, <<"check">>}
  /\ make.goal = "regcheck" =>
       make.todo \in {<<"check", "load">>, <<"load">>, <<"render">>}
  /\ make.goal # "none" => outcome.goal = make.goal /\ outcome.exit = 2
  /\ make.todo \in {<<"load", "check">>, <<"check", "load">>, <<"load">>} =>
       make.next = 1 /\ make.stale = FALSE

IsRendering == make.todo \in {<<"render", "check">>, <<"render">>}

\* What it has established so far, as long as nobody has edited anything.
Established ==
  /\ IsRendering => loads(regmap_yaml) /\ make.doc = regmap_yaml
  /\ IsRendering => \A i \in 1 .. 3 : i < make.next => outputs[i] = Rendered(regmap_yaml)
  /\ make.todo = <<"check">> =>
       loads(regmap_yaml) /\ \A i \in 1 .. 3 : outputs[i] = Rendered(regmap_yaml)
  /\ make.todo \in {<<"load">>, <<"render">>} => agrees(regmap_yaml, dut_spec)

\* What it has kept of the tree it started from.
Remembered ==
  /\ make.todo \in {<<"check", "load">>, <<"load">>} => (outcome.in_sync <=> InSync(Tree))
  /\ make.todo = <<"render">> =>
       (outcome.in_sync <=> /\ ~make.stale
                            /\ \A i \in 1 .. 3 : i >= make.next =>
                                 outputs[i] = Rendered(regmap_yaml))

MapInv ==
  /\ MapTypeOK
  /\ Progress
  /\ ~outcome.touched => Established /\ Remembered
  /\ GreenMeansInSync
  /\ RegcheckDecides

-----------------------------------------------------------------------------
(***************************************************************************)
(* What the checker compares is every register of the document, because no *)
(* name occurs twice.                                                      *)
(***************************************************************************)
LEMMA CheckedRows ==
  ASSUME DocumentsAssumption, NamesAssumption, NEW doc \in Documents
  PROVE  yaml_table(doc) = Rows(doc)
  <1>1. DOMAIN doc = 1 .. Len(doc) /\ Len(doc) \in Nat
    BY DEF DocumentsAssumption
  <1>2. \A i \in DOMAIN doc : \A k \in i + 1 .. Len(doc) : doc[k].name # doc[i].name
    BY <1>1 DEF NamesAssumption
  <1> QED
    BY <1>2 DEF yaml_table, Rows, Keyed

LEMMA ThreeOutputs == DOMAIN OUTPUTS = 1 .. 3 /\ Len(OUTPUTS) = 3
  BY DEF OUTPUTS

\* A tree is in sync exactly when the commands of a target agree to it.
LEMMA InSyncParts ==
  ASSUME DocumentsAssumption, NamesAssumption,
         NEW yaml \in Documents, NEW spec, NEW outs
  PROVE  InSync([yaml |-> yaml, spec |-> spec, outputs |-> outs]) <=>
           /\ loads(yaml) /\ agrees(yaml, spec)
           /\ \A i \in 1 .. 3 : outs[i] = Rendered(yaml)
  <1>1. yaml_table(yaml) = Rows(yaml)
    BY CheckedRows
  <1>2. InSync([yaml |-> yaml, spec |-> spec, outputs |-> outs]) <=>
           /\ loads(yaml) /\ Rows(yaml) = spec_table(spec) /\ spec_table(spec) # {}
           /\ \A i \in 1 .. 3 : outs[i] = Rendered(yaml)
    BY ThreeOutputs DEF InSync
  <1> QED
    BY <1>1, <1>2 DEF agrees

LEMMA TodoFacts ==
  /\ \A x : <<x>> # <<>> /\ Head(<<x>>) = x /\ Tail(<<x>>) = <<>>
  /\ \A x, y : <<x, y>> # <<>> /\ Head(<<x, y>>) = x /\ Tail(<<x, y>>) = <<y>>
  /\ \A x, y : <<x>> = <<y>> => x = y
  /\ \A x, y, u, v : <<x, y>> = <<u, v>> => x = u /\ y = v
  /\ \A x, y, z : <<x, y>> # <<z>>
  /\ \A x, y, z : [<<x, y>> EXCEPT ![1] = z] = <<z, y>>
  /\ \A x, z : [<<x>> EXCEPT ![1] = z] = <<z>>
  <1>1. \A x : <<x>> # <<>> /\ Head(<<x>>) = x /\ Tail(<<x>>) = <<>>
    BY SMT
  <1>2. \A x, y : <<x, y>> # <<>> /\ Head(<<x, y>>) = x
    BY SMT
  <1>3. \A x, y : Tail(<<x, y>>) = <<y>>
    BY SMT
  <1>4. \A x, y : <<x>> = <<y>> => x = y
    BY SMT
  <1>5. \A x, y, u, v : <<x, y>> = <<u, v>> => x = u /\ y = v
    BY SMT
  <1>6. \A x, y, z : <<x, y>> # <<z>>
    BY SMT
  <1>7. \A x, y, z : [<<x, y>> EXCEPT ![1] = z] = <<z, y>>
    BY SMT
  <1>8. \A x, z : [<<x>> EXCEPT ![1] = z] = <<z>>
    BY SMT
  <1> QED
    BY <1>1, <1>2, <1>3, <1>4, <1>5, <1>6, <1>7, <1>8
-----------------------------------------------------------------------------
LEMMA MapStarts ==
  ASSUME MapInit
  PROVE  MapInv
  <1> USE DEF MapInit, NoMake
  <1>1. MapTypeOK
    BY ThreeOutputs DEF MapTypeOK, Goals, Todos, InSync
  <1>2. Progress
    BY DEF Progress
  <1>3. make.todo = <<>>
    OBVIOUS
  <1>4. Established /\ Remembered
    BY <1>3 DEF Established, Remembered, IsRendering
  <1>5. GreenMeansInSync /\ RegcheckDecides
    BY DEF GreenMeansInSync, RegcheckDecides
  <1> QED
    BY <1>1, <1>2, <1>4, <1>5 DEF MapInv

\* The trees before and after a step, told by their parts.
Synced ==
  /\ loads(regmap_yaml) /\ agrees(regmap_yaml, dut_spec)
  /\ \A i \in 1 .. 3 : outputs[i] = Rendered(regmap_yaml)

LEMMA TreeIsSynced ==
  ASSUME DocumentsAssumption, NamesAssumption, regmap_yaml \in Documents
  PROVE  InSync(Tree) <=> Synced
  BY InSyncParts DEF Tree, Synced

LEMMA MakeStartsKeeps ==
  ASSUME MapInv, NEW goal \in {"regmap", "regcheck"}, MakeStarts(goal)
  PROVE  MapInv'
  <1>1. /\ make' = [goal |-> goal, todo |-> Commands(goal), doc |-> <<>>, next |-> 1,
                    stale |-> FALSE]
        /\ outcome' = [goal |-> goal, exit |-> 2, in_sync |-> InSync(Tree), touched |-> FALSE]
    <2>1. make' = [NoMake EXCEPT !.goal = goal, !.todo = Commands(goal)]
      BY DEF MakeStarts
    <2> QED
      BY <2>1 DEF MakeStarts, NoMake
  <1>2. InSync(Tree) \in BOOLEAN /\ Commands(goal) \in Todos
    <2>1. InSync(Tree) \in BOOLEAN
      BY DEF InSync
    <2>2. Commands(goal) \in Todos
      BY DEF Commands, Todos
    <2> QED
      BY <2>1, <2>2
  <1>3. MapTypeOK'
    <2>1. UNCHANGED <<regmap_yaml, outputs>>
      BY DEF MakeStarts
    <2>2. make' \in [goal : Goals, todo : Todos, doc : Documents \cup {<<>>},
                     next : 1 .. 4, stale : BOOLEAN]
      BY <1>1, <1>2 DEF Goals
    <2>3. outcome' \in [goal : Goals, exit : 0 .. 2, in_sync : BOOLEAN, touched : BOOLEAN]
      BY <1>1, <1>2 DEF Goals
    <2> QED
      BY <2>1, <2>2, <2>3 DEF MapInv, MapTypeOK
  <1>4. Commands(goal) = IF goal = "regmap" THEN <<"load", "check">> ELSE <<"check", "load">>
    BY DEF Commands
  <1>5. make'.goal = goal /\ make'.todo = Commands(goal)
        /\ make'.next = 1 /\ make'.stale = FALSE
        /\ outcome'.goal = goal /\ outcome'.exit = 2 /\ outcome'.in_sync = InSync(Tree)
    BY <1>1
  <1>6. Progress'
    BY <1>4, <1>5 DEF Progress
  <1>7. make'.todo \in {<<"load", "check">>, <<"check", "load">>}
    BY <1>4, <1>5
  <1>8. /\ ~IsRendering'
        /\ make'.todo # <<"check">> /\ make'.todo # <<"load">> /\ make'.todo # <<"render">>
    BY <1>7 DEF IsRendering
  <1>9. Established'
    BY <1>8 DEF Established
  <1>10. InSync(Tree)' <=> InSync(Tree)
    BY DEF Tree, MakeStarts
  <1>11. Remembered'
    BY <1>5, <1>8, <1>10 DEF Remembered
  <1>12. GreenMeansInSync' /\ RegcheckDecides'
    BY <1>5 DEF GreenMeansInSync, RegcheckDecides
  <1> QED
    BY <1>3, <1>6, <1>9, <1>11, <1>12 DEF MapInv

LEMMA EditsKeep ==
  ASSUME MapInv, edits
  PROVE  MapInv'
  <1>1. MapTypeOK'
    BY ThreeOutputs DEF MapInv, edits, MapTypeOK
  <1>2. Progress'
    BY DEF MapInv, edits, MapTypeOK, Progress
  <1>3. outcome'.touched
    BY DEF MapInv, edits, MapTypeOK
  <1> QED
    BY <1>1, <1>2, <1>3 DEF MapInv, GreenMeansInSync, RegcheckDecides

LEMMA KilledKeeps ==
  ASSUME MapInv, killed
  PROVE  MapInv'
  <1> USE DEF MapInv, killed, NoMake
  <1>1. MapTypeOK'
    BY ThreeOutputs DEF MapTypeOK, Goals, Todos
  <1>2. Progress'
    BY DEF MapTypeOK, Progress
  <1>3. make'.todo = <<>> /\ outcome'.exit = 2
    BY DEF MapTypeOK
  <1>4. Established' /\ Remembered'
    BY <1>3 DEF Established, Remembered, IsRendering
  <1>5. GreenMeansInSync' /\ RegcheckDecides'
    BY <1>3 DEF GreenMeansInSync, RegcheckDecides
  <1> QED
    BY <1>1, <1>2, <1>4, <1>5

\* A target that stops with a failure may only say so of a tree that was out
\* of sync.
LEMMA FailsKeeps ==
  ASSUME MapInv, Fails, make.goal # "none",
         UNCHANGED <<regmap_yaml, dut_spec, outputs>>,
         make.goal = "regcheck" /\ ~outcome.touched => ~outcome.in_sync
  PROVE  MapInv'
  <1> USE DEF MapInv, Fails, NoMake
  <1>1. MapTypeOK'
    BY DEF MapTypeOK, Goals, Todos
  <1>2. Progress'
    BY DEF MapTypeOK, Progress
  <1>3. make'.todo = <<>> /\ outcome'.exit = 1
    BY DEF MapTypeOK
  <1>4. Established' /\ Remembered'
    BY <1>3 DEF Established, Remembered, IsRendering
  <1>5. outcome'.goal = make.goal /\ outcome'.touched = outcome.touched
        /\ outcome'.in_sync = outcome.in_sync
    BY DEF MapTypeOK, Progress
  <1>6. GreenMeansInSync' /\ RegcheckDecides'
    BY <1>3, <1>5 DEF GreenMeansInSync, RegcheckDecides
  <1> QED
    BY <1>1, <1>2, <1>4, <1>6

\* One that succeeds must be right about the tree, and, as `make regcheck',
\* have found it in sync.
LEMMA FinishesKeeps ==
  ASSUME MapInv, Succeeds, make.goal # "none", Tail(make.todo) = <<>>,
         UNCHANGED <<regmap_yaml, dut_spec, outputs>>,
         ~outcome.touched => InSync(Tree),
         make.goal = "regcheck" /\ ~outcome.touched => outcome.in_sync
  PROVE  MapInv'
  <1>0. make' = NoMake /\ outcome' = [outcome EXCEPT !.exit = 0]
    BY DEF Succeeds
  <1>1. MapTypeOK'
    BY <1>0 DEF MapInv, NoMake, MapTypeOK, Goals, Todos
  <1>2. Progress'
    BY <1>0 DEF MapInv, NoMake, MapTypeOK, Progress
  <1>3. make'.todo = <<>> /\ outcome'.exit = 0
    BY <1>0 DEF MapInv, NoMake, MapTypeOK
  <1>4. Established' /\ Remembered'
    BY <1>3 DEF Established, Remembered, IsRendering
  <1>5. outcome'.goal = make.goal /\ outcome'.touched = outcome.touched
        /\ outcome'.in_sync = outcome.in_sync
    BY <1>0 DEF MapInv, MapTypeOK, Progress
  <1>6. InSync(Tree)' <=> InSync(Tree)
    BY DEF Tree
  <1>7. GreenMeansInSync' /\ RegcheckDecides'
    BY <1>3, <1>5, <1>6 DEF GreenMeansInSync, RegcheckDecides
  <1> QED
    BY <1>1, <1>2, <1>4, <1>7 DEF MapInv

-----------------------------------------------------------------------------
(* The commands.                                                           *)

LEMMA CheckKeeps ==
  ASSUME DocumentsAssumption, NamesAssumption, MapInv, check_regmap
  PROVE  MapInv'
  <1>1. regmap_yaml \in Documents /\ make.goal \in Goals /\ make.goal # "none"
    BY DEF MapInv, MapTypeOK, Progress, check_regmap
  <1>2. InSync(Tree) <=> Synced
    BY <1>1, TreeIsSynced
  <1>3. make.todo = <<"check">> \/ make.todo = <<"check", "load">>
    BY <1>1, TodoFacts DEF MapInv, Progress, check_regmap, Goals
  <1>4. make.todo = <<"check">> => make.goal = "regmap"
    BY <1>1, TodoFacts DEF MapInv, Progress, Goals
  <1>5. make.todo = <<"check", "load">> => make.goal = "regcheck"
    BY <1>1, TodoFacts DEF MapInv, Progress, Goals
  <1>6. UNCHANGED <<regmap_yaml, dut_spec, outputs>>
    BY DEF check_regmap
  <1>7. CASE ~agrees(regmap_yaml, dut_spec)
    <2>1. make.goal = "regcheck" /\ ~outcome.touched => ~outcome.in_sync
      BY <1>2, <1>3, <1>4, <1>7 DEF MapInv, Remembered, Synced
    <2> QED
      BY <1>1, <1>6, <1>7, <2>1, FailsKeeps DEF check_regmap
  <1>8. CASE agrees(regmap_yaml, dut_spec) /\ make.todo = <<"check">>
    <2>1. Tail(make.todo) = <<>>
      BY <1>8, TodoFacts
    <2>2. ~outcome.touched => InSync(Tree)
      BY <1>2, <1>8 DEF MapInv, Established, Synced
    <2> QED
      BY <1>1, <1>4, <1>6, <1>8, <2>1, <2>2, FinishesKeeps DEF check_regmap
  <1>9. CASE agrees(regmap_yaml, dut_spec) /\ make.todo = <<"check", "load">>
    <2>1. make' = [make EXCEPT !.todo = <<"load">>] /\ outcome' = outcome
      BY <1>9, TodoFacts DEF check_regmap, Succeeds
    <2>2. make'.todo = <<"load">> /\ make'.goal = "regcheck"
      BY <1>5, <1>9, <2>1 DEF MapInv, MapTypeOK
    <2>3. MapTypeOK'
      BY <1>6, <2>1 DEF MapInv, MapTypeOK, Todos
    <2>4. Progress'
      BY <1>5, <1>9, <2>1, <2>2 DEF MapInv, Progress
    <2>5. ~outcome.touched => Established'
      BY <1>6, <1>9, <2>2, TodoFacts DEF Established, IsRendering
    <2>6. InSync(Tree)' <=> InSync(Tree)
      BY <1>6 DEF Tree
    <2>7. ~outcome.touched => Remembered'
      BY <1>9, <2>1, <2>2, <2>6, TodoFacts DEF MapInv, Remembered
    <2>8. GreenMeansInSync' /\ RegcheckDecides'
      BY <2>2 DEF GreenMeansInSync, RegcheckDecides
    <2> QED
      BY <2>1, <2>3, <2>4, <2>5, <2>7, <2>8 DEF MapInv
  <1> QED
    BY <1>3, <1>7, <1>8, <1>9

LEMMA LoadKeeps ==
  ASSUME DocumentsAssumption, NamesAssumption, MapInv, load
  PROVE  MapInv'
  <1>1. regmap_yaml \in Documents /\ make.goal \in Goals /\ make.goal # "none"
    BY DEF MapInv, MapTypeOK, Progress, load
  <1>2. InSync(Tree) <=> Synced
    BY <1>1, TreeIsSynced
  <1>3. make.todo = <<"load">> \/ make.todo = <<"load", "check">>
    BY <1>1, TodoFacts DEF MapInv, Progress, load, Goals
  <1>4. /\ make.todo = <<"load">> => make.goal = "regcheck"
        /\ make.todo = <<"load", "check">> => make.goal = "regmap"
    BY <1>1, TodoFacts DEF MapInv, Progress, Goals
  <1>5. UNCHANGED <<regmap_yaml, dut_spec, outputs>>
    BY DEF load
  <1>6. CASE ~loads(regmap_yaml)
    <2>1. make.goal = "regcheck" /\ ~outcome.touched => ~outcome.in_sync
      BY <1>2, <1>3, <1>4, <1>6 DEF MapInv, Remembered, Synced
    <2> QED
      BY <1>1, <1>5, <1>6, <2>1, FailsKeeps DEF load
  <1>7. CASE loads(regmap_yaml)
    <2>1. /\ make' = [make EXCEPT !.todo = [@ EXCEPT ![1] = "render"], !.doc = regmap_yaml]
          /\ outcome' = outcome
      BY <1>7 DEF load
    <2>2. /\ make'.todo = [make.todo EXCEPT ![1] = "render"] /\ make'.doc = regmap_yaml
          /\ make'.goal = make.goal /\ make'.next = make.next /\ make'.stale = make.stale
      BY <2>1 DEF MapInv, MapTypeOK
    <2>3. /\ make.todo = <<"load">> => make'.todo = <<"render">>
          /\ make.todo = <<"load", "check">> => make'.todo = <<"render", "check">>
      BY <2>2, TodoFacts
    <2>4. make'.todo \in Todos
      BY <1>3, <2>3 DEF Todos
    <2>5. MapTypeOK'
      BY <1>1, <1>5, <2>1, <2>4 DEF MapInv, MapTypeOK
    <2>6. Progress'
      BY <1>3, <1>4, <2>1, <2>2, <2>3 DEF MapInv, Progress
    <2>7. make'.next = 1 /\ make'.stale = FALSE
      BY <1>3, <2>2 DEF MapInv, Progress
    <2>8. make'.todo \in {<<"render">>, <<"render", "check">>}
      BY <1>3, <2>3
    <2>9. make'.todo = <<"render">> => make.todo = <<"load">>
      BY <1>3, <2>3, TodoFacts
    <2>10. ~outcome.touched => Established'
      <3>1. IsRendering' => loads(regmap_yaml)' /\ make'.doc = regmap_yaml'
        BY <1>5, <1>7, <2>2
      <3>2. IsRendering' => \A i \in 1 .. 3 : i < make'.next => outputs'[i] = Rendered(regmap_yaml)'
        BY <2>7
      <3>3. make'.todo # <<"check">> /\ make'.todo # <<"load">>
        BY <2>8, TodoFacts
      <3>4. ~outcome.touched /\ make'.todo = <<"render">> => agrees(regmap_yaml, dut_spec)'
        BY <1>5, <2>9 DEF MapInv, Established
      <3> QED
        BY <3>1, <3>2, <3>3, <3>4 DEF Established
    <2>11. ~outcome.touched => Remembered'
      <3>1. make'.todo # <<"check", "load">> /\ make'.todo # <<"load">>
        BY <2>8, TodoFacts
      <3>2. ASSUME ~outcome.touched, make'.todo = <<"render">>
            PROVE  outcome'.in_sync <=> /\ ~make'.stale
                                        /\ \A i \in 1 .. 3 : i >= make'.next =>
                                             outputs'[i] = Rendered(regmap_yaml)'
        <4>1. outcome.in_sync <=> Synced
          BY <1>2, <2>9, <3>2 DEF MapInv, Remembered
        <4>2. agrees(regmap_yaml, dut_spec)
          BY <2>9, <3>2 DEF MapInv, Established
        <4> QED
          BY <1>5, <1>7, <2>1, <2>7, <4>1, <4>2 DEF Synced
      <3> QED
        BY <3>1, <3>2 DEF Remembered
    <2>12. GreenMeansInSync' /\ RegcheckDecides'
      BY <1>1, <2>2 DEF GreenMeansInSync, RegcheckDecides
    <2> QED
      BY <2>1, <2>5, <2>6, <2>10, <2>11, <2>12 DEF MapInv
  <1> QED
    BY <1>6, <1>7

\* One file.
LEMMA RenderKeeps ==
  ASSUME MapInv, render
  PROVE  MapInv'
  <1>1. make.goal \in Goals /\ make.goal # "none" /\ make.next \in 1 .. 3
    BY ThreeOutputs DEF MapInv, MapTypeOK, Progress, render, Rendering
  <1>2. make.todo = <<"render">> \/ make.todo = <<"render", "check">>
    BY <1>1, TodoFacts DEF MapInv, Progress, render, Rendering, Goals
  <1>3. UNCHANGED <<regmap_yaml, dut_spec, outcome>>
    BY DEF render
  <1>4. make' = [make EXCEPT !.next = make.next + 1, !.stale = make.stale \/ changed(make.next)]
    BY DEF render
  <1>5. /\ make'.todo = make.todo /\ make'.doc = make.doc /\ make'.goal = make.goal
        /\ make'.next = make.next + 1
        /\ make'.stale = (make.stale \/ changed(make.next))
    BY <1>4 DEF MapInv, MapTypeOK
  <1>6. /\ outputs' = [i \in 1 .. 3 |-> outputs'[i]]
        /\ outputs'[make.next] = Rendered(make.doc)
        /\ \A i \in 1 .. 3 : i # make.next => outputs'[i] = outputs[i]
    BY <1>1 DEF MapInv, MapTypeOK, render, changed
  <1>7. changed(make.next) \in BOOLEAN
    BY DEF changed
  <1>8. MapTypeOK'
    <2>1. make.next + 1 \in 1 .. 4
      BY <1>1
    <2>2. (make.stale \/ changed(make.next)) \in BOOLEAN
      OBVIOUS
    <2>3. make' \in [goal : Goals, todo : Todos, doc : Documents \cup {<<>>},
                     next : 1 .. 4, stale : BOOLEAN]
      BY <1>4, <2>1, <2>2 DEF MapInv, MapTypeOK
    <2> QED
      BY <1>3, <1>6, <2>3 DEF MapInv, MapTypeOK
  <1>9. Progress'
    BY <1>2, <1>3, <1>5, TodoFacts DEF MapInv, Progress
  <1>10. ~outcome.touched => Established'
    <2> SUFFICES ASSUME ~outcome.touched
                 PROVE  Established'
      OBVIOUS
    <2>1. loads(regmap_yaml) /\ make.doc = regmap_yaml
      BY <1>2 DEF MapInv, Established, IsRendering
    <2>2. \A i \in 1 .. 3 : i < make.next => outputs[i] = Rendered(regmap_yaml)
      BY <1>2 DEF MapInv, Established, IsRendering
    <2>3. \A i \in 1 .. 3 : i < make'.next => outputs'[i] = Rendered(regmap_yaml)'
      BY <1>1, <1>3, <1>5, <1>6, <2>1, <2>2
    <2>4. make'.todo # <<"check">> /\ make'.todo # <<"load">>
      BY <1>2, <1>5, TodoFacts
    <2>5. make'.todo = <<"render">> => agrees(regmap_yaml, dut_spec)'
      BY <1>3, <1>5 DEF MapInv, Established
    <2> QED
      BY <1>3, <1>5, <2>1, <2>3, <2>4, <2>5 DEF Established
  <1>11. ~outcome.touched => Remembered'
    <2> SUFFICES ASSUME ~outcome.touched
                 PROVE  Remembered'
      OBVIOUS
    <2>1. make'.todo # <<"check", "load">> /\ make'.todo # <<"load">>
      BY <1>2, <1>5, TodoFacts
    <2>2. ASSUME make.todo = <<"render">>
          PROVE  outcome.in_sync <=> /\ ~make'.stale
                                     /\ \A i \in 1 .. 3 : i >= make'.next =>
                                          outputs'[i] = Rendered(regmap_yaml)
      <3>1. make.doc = regmap_yaml
        BY <2>2 DEF MapInv, Established, IsRendering
      <3>2. outcome.in_sync <=> /\ ~make.stale
                                /\ \A i \in 1 .. 3 : i >= make.next =>
                                     outputs[i] = Rendered(regmap_yaml)
        BY <2>2 DEF MapInv, Remembered
      <3>3. changed(make.next) <=> outputs[make.next] # Rendered(regmap_yaml)
        BY <3>1 DEF changed
      <3>4. make'.stale <=> make.stale \/ changed(make.next)
        BY <1>5
      <3>5. (\A i \in 1 .. 3 : i >= make'.next => outputs'[i] = Rendered(regmap_yaml))
              <=> \A i \in 1 .. 3 : i >= make.next + 1 => outputs[i] = Rendered(regmap_yaml)
        BY <1>1, <1>5, <1>6
      <3>6. (\A i \in 1 .. 3 : i >= make.next => outputs[i] = Rendered(regmap_yaml))
              <=> /\ outputs[make.next] = Rendered(regmap_yaml)
                  /\ \A i \in 1 .. 3 : i >= make.next + 1 => outputs[i] = Rendered(regmap_yaml)
        BY <1>1
      <3> QED
        BY <3>2, <3>3, <3>4, <3>5, <3>6
    <2> QED
      BY <1>3, <1>5, <2>1, <2>2 DEF Remembered
  <1>12. GreenMeansInSync' /\ RegcheckDecides'
    BY <1>1, <1>5 DEF GreenMeansInSync, RegcheckDecides
  <1> QED
    BY <1>3, <1>8, <1>9, <1>10, <1>11, <1>12 DEF MapInv

\* All three are done.
LEMMA RenderedKeeps ==
  ASSUME DocumentsAssumption, NamesAssumption, MapInv, rendered
  PROVE  MapInv'
  <1>1. regmap_yaml \in Documents /\ make.goal \in Goals /\ make.goal # "none" /\ make.next = 4
    BY ThreeOutputs DEF MapInv, MapTypeOK, Progress, rendered
  <1>2. InSync(Tree) <=> Synced
    BY <1>1, TreeIsSynced
  <1>3. make.todo = <<"render">> \/ make.todo = <<"render", "check">>
    BY <1>1, TodoFacts DEF MapInv, Progress, rendered, Goals
  <1>4. /\ make.todo = <<"render">> => make.goal = "regcheck"
        /\ make.todo = <<"render", "check">> => make.goal = "regmap"
    BY <1>1, TodoFacts DEF MapInv, Progress, Goals
  <1>5. UNCHANGED <<regmap_yaml, dut_spec, outputs>>
    BY DEF rendered
  <1>6. ~outcome.touched =>
          loads(regmap_yaml) /\ \A i \in 1 .. 3 : outputs[i] = Rendered(regmap_yaml)
    <2> SUFFICES ASSUME ~outcome.touched
                 PROVE  loads(regmap_yaml) /\ \A i \in 1 .. 3 : outputs[i] = Rendered(regmap_yaml)
      OBVIOUS
    <2>1. IsRendering
      BY <1>3 DEF IsRendering
    <2>2. loads(regmap_yaml) /\ \A i \in 1 .. 3 : i < make.next => outputs[i] = Rendered(regmap_yaml)
      BY <2>1 DEF MapInv, Established
    <2>3. \A i \in 1 .. 3 : i < make.next
      BY <1>1
    <2> QED
      BY <2>2, <2>3
  <1>7. CASE make.todo = <<"render">>
    <2>1. ~outcome.touched => (outcome.in_sync <=> ~make.stale)
      BY <1>1, <1>7 DEF MapInv, Remembered
    <2>2. CASE make.stale
      <3>1. make.goal = "regcheck" /\ ~outcome.touched => ~outcome.in_sync
        BY <2>1, <2>2
      <3> QED
        BY <1>1, <1>4, <1>5, <1>7, <2>2, <3>1, FailsKeeps DEF rendered
    <2>3. CASE ~make.stale
      <3>1. Succeeds /\ Tail(make.todo) = <<>>
        BY <1>7, <2>3, TodoFacts DEF rendered
      <3>2. ~outcome.touched => InSync(Tree)
        BY <1>2, <1>6, <1>7 DEF MapInv, Established, Synced
      <3> QED
        BY <1>1, <1>5, <2>1, <2>3, <3>1, <3>2, FinishesKeeps
    <2> QED
      BY <2>2, <2>3
  <1>8. CASE make.todo = <<"render", "check">>
    <2>1. make' = [make EXCEPT !.todo = <<"check">>] /\ outcome' = outcome
      BY <1>4, <1>8, TodoFacts DEF rendered, Succeeds
    <2>2. make'.todo = <<"check">> /\ make'.goal = "regmap"
      BY <1>4, <1>8, <2>1 DEF MapInv, MapTypeOK
    <2>3. MapTypeOK'
      BY <1>5, <2>1 DEF MapInv, MapTypeOK, Todos
    <2>4. Progress'
      BY <1>4, <1>8, <2>1, <2>2, TodoFacts DEF MapInv, Progress
    <2>5. ~outcome.touched => Established'
      BY <1>5, <1>6, <2>2, TodoFacts DEF Established, IsRendering
    <2>6. ~outcome.touched => Remembered'
      BY <2>2, TodoFacts DEF Remembered
    <2>7. GreenMeansInSync' /\ RegcheckDecides'
      BY <2>2 DEF GreenMeansInSync, RegcheckDecides
    <2> QED
      BY <2>1, <2>3, <2>4, <2>5, <2>6, <2>7 DEF MapInv
  <1> QED
    BY <1>3, <1>7, <1>8

LEMMA StutterKeeps ==
  ASSUME MapInv, UNCHANGED mapVars
  PROVE  MapInv'
  BY DEF MapInv, mapVars, MapTypeOK, Progress, Established, Remembered, IsRendering,
         GreenMeansInSync, RegcheckDecides, Tree

-----------------------------------------------------------------------------
(***************************************************************************)
(* Every state of the flow satisfies the invariant: the targets of the     *)
(* Makefile, run, killed and edited under in any order.                    *)
(***************************************************************************)
THEOREM MapInvariant == MapSpec => []MapInv
  <1>1. MapInit => MapInv
    BY MapStarts
  <1>2. MapInv /\ [MapNext]_mapVars => MapInv'
    <2> SUFFICES ASSUME MapInv, [MapNext]_mapVars
                 PROVE  MapInv'
      OBVIOUS
    <2>1. ASSUME NEW goal \in {"regmap", "regcheck"}, MakeStarts(goal)
          PROVE  MapInv'
      BY <2>1, MakeStartsKeeps
    <2>2. CASE check_regmap
      BY <2>2, CheckKeeps, DocumentsAssumption, NamesAssumption
    <2>3. CASE load
      BY <2>3, LoadKeeps, DocumentsAssumption, NamesAssumption
    <2>4. CASE render
      BY <2>4, RenderKeeps
    <2>5. CASE rendered
      BY <2>5, RenderedKeeps, DocumentsAssumption, NamesAssumption
    <2>6. CASE killed
      BY <2>6, KilledKeeps
    <2>7. CASE edits
      BY <2>7, EditsKeep
    <2>8. CASE UNCHANGED mapVars
      BY <2>8, StutterKeeps
    <2> QED
      BY <2>1, <2>2, <2>3, <2>4, <2>5, <2>6, <2>7, <2>8 DEF MapNext
  <1> QED
    BY <1>1, <1>2, PTL DEF MapSpec

(***************************************************************************)
(* A green target on an unedited tree leaves the map, the specification    *)
(* and the three generated files in agreement (Makefile, regmap and        *)
(* regcheck), for every register map there can be.                         *)
(***************************************************************************)
THEOREM GreenIsInSync == MapSpec => []GreenMeansInSync
  <1>1. MapInv => GreenMeansInSync
    BY DEF MapInv
  <1> QED
    BY <1>1, MapInvariant, PTL

(***************************************************************************)
(* `make regcheck' succeeds exactly on a tree that was in sync when it     *)
(* started, although regmap_gen.py rewrites stale files under --check.     *)
(***************************************************************************)
THEOREM RegcheckIsADecision == MapSpec => []RegcheckDecides
  <1>1. MapInv => RegcheckDecides
    BY DEF MapInv
  <1> QED
    BY <1>1, MapInvariant, PTL

-----------------------------------------------------------------------------
(***************************************************************************)
(* The two flows side by side: each goes on as if it were alone, so what   *)
(* holds of it holds here.                                                 *)
(***************************************************************************)
THEOREM FlowsAreIndependent == ScriptsSpec => Spec /\ MapSpec
  <1>1. ScriptsInit => Init /\ MapInit
    BY DEF ScriptsInit
  <1>2. [ScriptsNext]_scriptVars => [Next]_vars /\ [MapNext]_mapVars
    BY DEF ScriptsNext, scriptVars
  <1> QED
    BY <1>1, <1>2, PTL DEF ScriptsSpec, Spec, MapSpec
=============================================================================
