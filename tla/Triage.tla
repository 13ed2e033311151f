------------------------------- MODULE Triage -------------------------------
(***************************************************************************)
(* scripts/triage.py: what one results.json says of what broke, and what   *)
(* changed since the regression before it.                                 *)
(***************************************************************************)
EXTENDS Regression

\* Mutant: the directories before this one, with a results.json or without.
Candidates_AnyDir(s) == {q \in DOMAIN results : q < s}

\* The directories before this one that hold a results.json, readable or not.
Candidates(s) == {q \in DOMAIN results : q < s /\ results[q].json # "absent"}

\* The most recent of them, 0 when there is none.
previous_run(s) == IF Candidates(s) = {} THEN 0 ELSE Max(Candidates(s))

\* json.loads raises on a file its writer never finished.
Dies(s) == LET p == previous_run(s) IN p # 0 /\ results[p].json = "partial"

failed(s) == bad(results[s].runs)

Signatures(runs) == UNION {x.signatures : x \in runs}

cluster(s) == [sig \in Signatures(failed(s)) |->
                 {x.run : x \in {y \in failed(s) : sig \in y.signatures}}]

new_sigs(s) ==
  IF previous_run(s) = 0 THEN {}
  ELSE DOMAIN cluster(s) \ Signatures(results[previous_run(s)].runs)

fixed_sigs(s) ==
  IF previous_run(s) = 0 THEN {}
  ELSE Signatures(results[previous_run(s)].runs) \ DOMAIN cluster(s)

\* The verdicts of a test over its seeds.  A run nobody made has none.
verdicts(s, test) ==
  {x.status : x \in {y \in results[s].runs : /\ y.run.test = test
                                             /\ y.status # "MISSING"}}

find_flaky(s) ==
  {t \in {x.run.test : x \in results[s].runs} : Cardinality(verdicts(s, t)) > 1}

\* What the report says: the clusters with their runs, which of them are
\* flagged [NEW], what is gone, what is flaky, what was not run.
report(s) ==
  [clusters |-> cluster(s), new |-> new_sigs(s), gone |-> fixed_sigs(s),
   flaky |-> find_flaky(s),
   not_run |-> {x.run : x \in {y \in results[s].runs : y.status = "MISSING"}}]

\* The exit status of make triage.
triage(s) == IF DOMAIN report(s).clusters = {} THEN 0 ELSE 1
=============================================================================
