-------------------------- MODULE MCRegressionFlow --------------------------
(* Instances of RegressionFlow for TLC. *)
EXTENDS RegressionFlow

\* Two seeds of one bench, a second bench of its own target, a UVM test.
MCTestlist == <<
  [name |-> "rand", runner |-> "local", target |-> "rand", seeds |-> <<1, 2>>,
   features |-> {"F01", "F02"}],
  [name |-> "reg", runner |-> "local", target |-> "reg", seeds |-> <<0>>,
   features |-> {"F02"}],
  [name |-> "ral", runner |-> "imported", target |-> "", seeds |-> <<>>,
   features |-> {"F02", "F10"}]>>

MCFeatures == {"F01", "F02", "F10", "F24"}

All == [only |-> {}, local_only |-> FALSE]
MCInvocations == {All, [only |-> {"rand"}, local_only |-> TRUE]}

\* decode fails a check of every local run, twice on reg with texts that
\* differ past the cut; race another check on one seed; after a check failed
\* the bench ends in its $fatal, the same for both.  ral is an error of the UVM
\* test that no pattern matches, stall a simulation that never ends.
MCDefects == {"decode", "race", "ral", "stall"}
MCExposes == "decode" :> {<<"rand", 1>>, <<"rand", 2>>, <<"reg", 0>>} @@
             "race" :> {<<"rand", 2>>} @@ "ral" :> {<<"ral", NoSeed>>} @@
             "stall" :> {<<"reg", 0>>}

MCText(kind, what, rest, values) ==
  [kind |-> kind, what |-> what, rest |-> rest, values |-> values]

MCChecks(bench, seed, met) ==
  (IF "decode" \notin met THEN {}
   ELSE {MCText("bench_fail", "decerr", i, seed) :
           i \in IF bench = "reg" THEN {1, 2} ELSE {1}}) \cup
  (IF "race" \in met THEN {MCText("bench_fail", "rdata", 1, seed)} ELSE {})

MCManifest ==
  [site \in UNION {MCExposes[d] : d \in MCDefects} |-> [met \in SUBSET MCDefects |->
     LET bench == site[1]
         seed  == site[2]
         checks == MCChecks(bench, seed, met)
     IN checks
          \cup (IF checks = {} THEN {} ELSE {MCText("verilator_fatal", bench, 1, seed)})
          \cup (IF "ral" \in met THEN {MCText("uvm_other", "summary", 1, seed)} ELSE {})
          \cup (IF "stall" \in met THEN {MCText("hang", "stall", 1, seed)} ELSE {})]]

MCDesigns == {{}, {"decode", "ral"}, {"race", "stall"}}
=============================================================================
