------------------------------ MODULE ParseLog ------------------------------
(***************************************************************************)
(* scripts/parse_log.py: from the log of one simulation to a verdict and   *)
(* the signatures of what failed.                                          *)
(*                                                                         *)
(* A log is the lines that report something, and whether one of the        *)
(* COMPLETION markers is in it.  A line is its kind, which is the pattern  *)
(* it matches (one that matches two patterns is two here), and its text in *)
(* three parts: values, which differ between two reports of one failure    *)
(* (times, addresses, the seed, the got/expected columns); what, the       *)
(* constant text as far as a signature keeps it; and rest, the constant    *)
(* text that a signature leaves out, past its 60, 80 or 90 characters or,  *)
(* of an assertion, the instance path before its name.                     *)
(***************************************************************************)
EXTENDS Naturals, FiniteSets, Sequences

PATTERNS == {"uvm", "xcelium_assert", "verilator_assert", "verilator_fatal",
             "watchdog", "bench_fail", "sv_fatal", "elab"}

\* Lines only the counters see: a UVM_ERROR or UVM_FATAL in another format
\* than the pattern's, or in the report summary alone.
COUNTERS == {"uvm", "uvm_other"}

\* normalise and strip_value_column: the values become tokens or are dropped.
normalise(line) == <<line.what, line.rest>>

\* The slices [:60], [:80] and [:90], and the leaf of an instance path.
Cut(text) == text[1]

Prefix(kind) ==
  CASE kind = "uvm"                                    -> "UVM"
    [] kind \in {"xcelium_assert", "verilator_assert"} -> "ASSERT"
    [] kind = "watchdog"                               -> "WATCHDOG"
    [] kind = "bench_fail"                             -> "CHECK"
    [] kind \in {"sv_fatal", "verilator_fatal"}        -> "FATAL"
    [] kind = "elab"                                   -> "ELAB"

\* Mutant: the values stay in, one signature per seed or address.
signature_KeepsValues(line) == <<Prefix(line.kind), line.what, line.values>>

\* A signature belongs to a line, not to a defect: one defect prints several,
\* others on other benches, and lines of two defects can have the same one.
signature(line) == <<Prefix(line.kind), Cut(normalise(line))>>

TRUNCATED == <<"INCOMPLETE", "no completion marker">>

findings(log) == {l \in log.lines : l.kind \in PATTERNS}

\* The lines of a $fatal, the last thing a bench prints.
FATAL == {"sv_fatal", "verilator_fatal"}

errors(log) == {l \in log.lines : l.kind \in COUNTERS}

\* Mutant: the verdict from the patterns alone.
Verdict_PatternsOnly(log) ==
  IF findings(log) # {} THEN "FAIL"
  ELSE IF ~log.completed THEN "INCOMPLETE" ELSE "PASS"

Verdict(log) ==
  IF findings(log) # {} \/ errors(log) # {} THEN "FAIL"
  ELSE IF ~log.completed THEN "INCOMPLETE" ELSE "PASS"

parse(log) ==
  [status     |-> Verdict(log),
   signatures |-> {signature(l) : l \in findings(log)} \cup
                  (IF Verdict(log) = "INCOMPLETE" THEN {TRUNCATED} ELSE {})]
=============================================================================
