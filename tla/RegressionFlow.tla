--------------------------- MODULE RegressionFlow ---------------------------
(***************************************************************************)
(* What the regression, the triage and the traceability matrix together    *)
(* promise whoever reads them: stated against what the simulations really  *)
(* met, which only the history fields of an execution know.                *)
(***************************************************************************)
EXTENDS Triage, VplanTrace

\* The run came to its own end and met no defect.
Clean(x) == x.whole /\ x.met = {}

\* Regressions `make triage' gets through.
Triaged == {s \in Complete : ~Dies(s)}

(***************************************************************************)
(* Exit status 0 is a gate: every local run that was selected really ran   *)
(* to its end, on a binary that was built, and met no defect               *)
(* (run_regression.main and everything it calls, parse's INCOMPLETE).      *)
(***************************************************************************)
GateSound ==
  exit.stamp # 0 /\ exit.status = 0 =>
    \A run \in results[exit.stamp].selected : run.runner = "local" =>
      \E x \in results[exit.stamp].runs : x.run = run /\ Clean(x)

(***************************************************************************)
(* A results.json holds every selected run exactly once, whatever the      *)
(* order they ended in, and PASS exactly for the runs that ended by        *)
(* themselves and met nothing.                                             *)
(***************************************************************************)
VerdictsEarned ==
  \A s \in Complete :
    /\ {x.run : x \in results[s].runs} = results[s].selected
    /\ \A x, y \in results[s].runs : x.run = y.run => x = y
    /\ \A x \in results[s].runs : x.status = "PASS" <=> Clean(x)

(***************************************************************************)
(* Wherever a regression died, `latest' names a directory whose            *)
(* results.json can be read, or nothing (the order of write, unlink and    *)
(* link).                                                                  *)
(***************************************************************************)
LatestIsComplete == latest # 0 => latest \in Complete

\* A failure is what a check, an assertion or a fatal has to say, apart from
\* the values it says it with and from what the parser cuts.
Failure(l) == <<Prefix(l.kind), l.what>>

\* The failures a run prints that meets these defects and comes to its end.
Shows(run, met) == {Failure(l) : l \in {m \in Lines(run, met) : m.kind \in PATTERNS}}

Shown(x) == Shows(x.run, x.met)

(***************************************************************************)
(* A cluster is a failure: when no run was cut off, triage lists exactly   *)
(* the failures that the defects met make some run print, each with all    *)
(* the runs that print it, over all seeds and benches; make triage fails   *)
(* exactly if there is one.  A defect is as many of them as its lines say, *)
(* and two defects may share one (signature, cluster, report).             *)
(***************************************************************************)
ClustersAreFailures ==
  \A s \in Complete :
    LET R == results[s].runs
        shown == UNION {Shown(x) : x \in R}
    IN (\A x \in R : x.whole \/ x.status = "MISSING") =>
         /\ report(s).clusters = [f \in shown |-> {x.run : x \in {y \in R : f \in Shown(y)}}]
         /\ triage(s) = 0 <=> shown = {}
         /\ report(s).not_run = {x.run : x \in {y \in R : ~y.whole}}

(***************************************************************************)
(* [NEW] means new, over regressions that died in between: a failure that  *)
(* some run of the most recent complete regression showed to its end is    *)
(* not flagged, and one that none of its runs had to show is.  Gone means  *)
(* gone: no run now showed it to its end, and what some run showed then    *)
(* and none has to show now is listed (previous_run, report).              *)
(***************************************************************************)
Before(s) == {q \in Complete : q < s}

NewIsNew ==
  \A s \in Triaged : Before(s) # {} =>
    LET P == results[Max(Before(s))].runs
        R == results[s].runs
        said == report(s)
        shown(X) == UNION {Shown(x) : x \in X}
        showed(X) == shown({x \in X : x.whole})
    IN /\ said.new \cap showed(P) = {}
       /\ (DOMAIN said.clusters \ {TIMEOUT, TRUNCATED}) \ shown(P) \subseteq said.new
       /\ said.gone \cap showed(R) = {}
       /\ showed(P) \ shown(R) \subseteq said.gone

(***************************************************************************)
(* A flaky test depends on its seed: unless a run of it was cut off, two   *)
(* verdicts of one test mean a defect that one of its seeds meets and      *)
(* another does not, in one and the same binary (build_targets before the  *)
(* pool, find_flaky).                                                      *)
(***************************************************************************)
FlakyIsReal ==
  \A s \in Complete : \A t \in report(s).flaky :
    LET R == {x \in results[s].runs : x.run.test = t}
    IN (\A x \in R : x.whole) =>
         \E d \in Defects : \E x, y \in R :
           d \in x.met /\ Site(y.run) \notin Exposes[d]

(***************************************************************************)
(* PASSING is earned: some claiming test was clean on every seed the test  *)
(* list gives it, and no claiming test that ran met a defect.  Of a        *)
(* feature that is not listed as a problem (status_of, on results/latest). *)
(***************************************************************************)
PassingIsEarned ==
  \A f \in Features \ problems :
    /\ \E t \in claims(f) : \A run \in {r \in Runs : r.test = t} :
         \E x \in results[latest].runs : x.run = run /\ Clean(x)
    /\ \A x \in results[latest].runs :
         x.run.test \in claims(f) /\ x.status # "MISSING" => Clean(x)

(***************************************************************************)
(* Every regression ends, also when a simulation hangs (the timeout).      *)
(***************************************************************************)
RegressionEnds == job.pc # "idle" ~> job.pc = "idle"

(***************************************************************************)
(* "Its whole stdout is kept -- a failure is only debuggable from the log" *)
(* (run_local): once the pool has been opened, only a fault of the machine *)
(* ends the regression without the report of the runs it waited for.       *)
(***************************************************************************)
EveryRunIsReported ==
  [][job.pc = "pool" /\ job'.pc = "idle" => faults' # faults]_vars
=============================================================================
