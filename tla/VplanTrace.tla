----------------------------- MODULE VplanTrace -----------------------------
(***************************************************************************)
(* scripts/vplan_trace.py: from the plan's features over the tests that    *)
(* claim them to what the last complete regression says of each.           *)
(***************************************************************************)
EXTENDS Regression

CONSTANT Features        \* section 3 of docs/verification_plan.md

claims(f) == {Testlist[i].name : i \in {j \in DOMAIN Testlist : f \in Testlist[j].features}}

\* results/latest/results.json, no runs when the link is missing.
latest_runs == IF latest = 0 THEN {} ELSE results[latest].runs

Statuses(test) == {x.status : x \in {y \in latest_runs : y.run.test = test}}

\* Mutant: a test passes when some seed of it did.
verdict_AnySeed(test) ==
  LET S == Statuses(test)
  IN CASE S = {}          -> "UNKNOWN"
       [] "PASS" \in S    -> "PASS"
       [] S = {"MISSING"} -> "MISSING"
       [] OTHER           -> "FAIL"

verdict(test) ==
  LET S == Statuses(test)
  IN CASE S = {}                             -> "UNKNOWN"
       [] S = {"PASS"}                       -> "PASS"
       [] S = {"MISSING"}                    -> "MISSING"
       [] S \cap {"FAIL", "INCOMPLETE"} # {} -> "FAIL"
       [] OTHER                              -> "MIXED"

status_of(f) ==
  LET V == {verdict(t) : t \in claims(f)}
  IN CASE claims(f) = {}  -> "UNCOVERED"
       [] "FAIL" \in V    -> "FAILING"
       [] "PASS" \in V /\ "FAIL" \notin V -> "PASSING"
       [] V = {"MISSING"} -> "NOT RUN"
       [] OTHER           -> "UNKNOWN"

\* The matrix, and the rows the report lists under `Everything not passing'.
rows     == [f \in Features |-> status_of(f)]
problems == {f \in Features : rows[f] # "PASSING"}
=============================================================================
