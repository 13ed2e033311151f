----------------------------- MODULE RegmapFlow -----------------------------
(***************************************************************************)
(* The register map flow: scripts/regmap_gen.py generates three files from *)
(* regmap.yaml, scripts/check_regmap.py compares regmap.yaml with the      *)
(* specification, and `make regmap' and `make regcheck' run the two in     *)
(* opposite orders.  People edit all five files, generated ones included,  *)
(* and a command can be killed in the middle of a file.                    *)
(***************************************************************************)
EXTENDS Naturals, Sequences, FiniteSets

CONSTANTS
  Documents,     \* the contents regmap.yaml goes through: sequences of registers
  SpecTables,    \* the contents of section 5 of docs/dut_spec.md: sequences of rows
  data_width, index_msb, index_lsb         \* regmap.yaml, block

ASSUME DocumentsAssumption ==
  \A doc \in Documents : doc \in Seq({doc[i] : i \in DOMAIN doc})

\* load accepts a name twice.  The package then declares a parameter twice,
\* which no compiler takes, so such a document is not followed further.
ASSUME NamesAssumption ==
  \A doc \in Documents : \A i, j \in DOMAIN doc : doc[i].name = doc[j].name => i = j

VARIABLES
  regmap_yaml, dut_spec,
  outputs,       \* the three generated files
  make,          \* the make target in progress
  outcome        \* the exit status of the last target, and, as history, whether the
                 \* tree was in sync when it started and was edited since

mapVars == <<regmap_yaml, dut_spec, outputs, make, outcome>>

-----------------------------------------------------------------------------
(* A register is [name, offset, access, fields], a field [msb, lsb,        *)
(* access, reset], a mask or a reset value the set of its one bits.        *)

SUPPORTED_ACCESS == {"RW", "RO", "W1C", "WC"}

bits(f) == f.lsb .. f.msb

mask(r) == UNION {bits(r.fields[i]) : i \in DOMAIN r.fields}

Ones(n) == {b \in 0 .. data_width - 1 : (n \div 2^b) % 2 = 1}

reset(r) == UNION {{b + r.fields[i].lsb : b \in Ones(r.fields[i].reset)} :
                     i \in DOMAIN r.fields}

\* No field reaches a bit an earlier one took.
Disjoint(fields, i) == \A j \in 1 .. i - 1 : bits(fields[i]) \cap bits(fields[j]) = {}

FieldAccepted(fields, i) ==
  LET f == fields[i]
  IN /\ f.access \in SUPPORTED_ACCESS
     /\ f.msb >= f.lsb /\ f.msb < data_width
     /\ Disjoint(fields, i)
     /\ f.reset < 2^(f.msb - f.lsb + 1)

RegisterAccepted(doc, i) ==
  /\ \A j \in 1 .. i - 1 : doc[j].offset # doc[i].offset
  /\ doc[i].offset % (data_width \div 8) = 0
  /\ doc[i].access \in SUPPORTED_ACCESS
  /\ \A k \in DOMAIN doc[i].fields : FieldAccepted(doc[i].fields, k)

\* load raises no RegmapError.
loads(doc) ==
  /\ \A i \in DOMAIN doc : RegisterAccepted(doc, i)
  /\ Len(doc) <= 2^(index_msb - index_lsb + 1)

Row(r) == [name |-> r.name, offset |-> r.offset, access |-> r.access,
           reset |-> reset(r), mask |-> mask(r)]

Rows(doc) == {Row(doc[i]) : i \in DOMAIN doc}

\* What a template makes of a document: a text per file, told apart by its rows.
Rendered(doc) == [text |-> "generated", rows |-> Rows(doc)]

\* No file; and one changed by hand or cut off in the writing.
Absent  == [text |-> "absent", rows |-> {}]
Foreign == [text |-> "foreign", rows |-> {}]

\* check_regmap's tables are keyed by name, so of two entries of one name they
\* hold the last.
Keyed(entries) ==
  {i \in DOMAIN entries :
     \A k \in i + 1 .. Len(entries) : entries[k].name # entries[i].name}

yaml_table(doc) == {Row(doc[i]) : i \in Keyed(doc)}

\* A row of the specification, [name, offset, access, reset, msb, lsb], gives
\* the implemented bits as one range.
SpecRow(row) == [name |-> row.name, offset |-> row.offset, access |-> row.access,
                 reset |-> Ones(row.reset), mask |-> row.lsb .. row.msb]

spec_table(section) == {SpecRow(section[i]) : i \in Keyed(section)}

\* The tables agree on names, offsets, access, resets and masks, and there is one.
agrees(doc, section) ==
  spec_table(section) # {} /\ yaml_table(doc) = spec_table(section)

-----------------------------------------------------------------------------
OUTPUTS == <<"axi4lite_reg_pkg.sv", "axi_reg_block.sv", "register_map.md">>

NoMake == [goal |-> "none", todo |-> <<>>, doc |-> <<>>, next |-> 1, stale |-> FALSE]

Tree == [yaml |-> regmap_yaml, spec |-> dut_spec, outputs |-> outputs]

InSync(tree) ==
  /\ loads(tree.yaml) /\ Rows(tree.yaml) = spec_table(tree.spec)
  /\ spec_table(tree.spec) # {}
  /\ \A i \in DOMAIN OUTPUTS : tree.outputs[i] = Rendered(tree.yaml)

MapInit ==
  /\ regmap_yaml \in Documents /\ dut_spec \in SpecTables
  /\ outputs = [i \in DOMAIN OUTPUTS |-> Absent]
  /\ make = NoMake
  /\ outcome = [goal |-> "none", exit |-> 0, in_sync |-> InSync(Tree), touched |-> FALSE]

\* The commands of a target, in the Makefile's order.
Commands(goal) == IF goal = "regmap" THEN <<"load", "check">> ELSE <<"check", "load">>

MakeStarts(goal) ==
  /\ make.goal = "none"
  /\ make' = [NoMake EXCEPT !.goal = goal, !.todo = Commands(goal)]
  /\ outcome' = [goal |-> goal, exit |-> 2, in_sync |-> InSync(Tree), touched |-> FALSE]
  /\ UNCHANGED <<regmap_yaml, dut_spec, outputs>>

\* make stops at the first command that fails.
Succeeds ==
  LET rest == Tail(make.todo)
  IN /\ make' = IF rest = <<>> THEN NoMake ELSE [make EXCEPT !.todo = rest]
     /\ outcome' = IF rest = <<>> THEN [outcome EXCEPT !.exit = 0] ELSE outcome

Fails ==
  /\ make' = NoMake
  /\ outcome' = [outcome EXCEPT !.exit = 1]

check_regmap ==
  /\ make.todo # <<>> /\ Head(make.todo) = "check"
  /\ IF agrees(regmap_yaml, dut_spec) THEN Succeeds ELSE Fails
  /\ UNCHANGED <<regmap_yaml, dut_spec, outputs>>

load ==
  /\ make.todo # <<>> /\ Head(make.todo) = "load"
  /\ IF loads(regmap_yaml)
       THEN /\ make' = [make EXCEPT !.todo = [@ EXCEPT ![1] = "render"],
                                       !.doc = regmap_yaml]
            /\ UNCHANGED outcome
       ELSE Fails
  /\ UNCHANGED <<regmap_yaml, dut_spec, outputs>>

Rendering == make.todo # <<>> /\ Head(make.todo) = "render" /\ make.next \in DOMAIN OUTPUTS

\* Mutant: a file that is there is taken to be current.
changed_Exists(i) == outputs[i] = Absent

changed(i) == outputs[i] # Rendered(make.doc)

\* One file, written only if its text would change, also under --check.
render ==
  /\ Rendering
  /\ outputs' = IF changed(make.next) THEN [outputs EXCEPT ![make.next] = Rendered(make.doc)]
                ELSE outputs
  /\ make' = [make EXCEPT !.next = @ + 1, !.stale = @ \/ changed(make.next)]
  /\ UNCHANGED <<regmap_yaml, dut_spec, outcome>>

\* Mutant: what was rewritten on the way is no reason to fail.
rendered_NeverStale ==
  /\ make.todo # <<>> /\ Head(make.todo) = "render" /\ make.next = Len(OUTPUTS) + 1
  /\ Succeeds
  /\ UNCHANGED <<regmap_yaml, dut_spec, outputs>>

\* --check fails if any output was stale; without it the generator succeeds.
rendered ==
  /\ make.todo # <<>> /\ Head(make.todo) = "render" /\ make.next = Len(OUTPUTS) + 1
  /\ IF make.goal = "regcheck" /\ make.stale THEN Fails ELSE Succeeds
  /\ UNCHANGED <<regmap_yaml, dut_spec, outputs>>

\* Killed: a file being written is cut off.
killed ==
  /\ make.goal # "none"
  /\ make' = NoMake
  /\ outputs' \in {outputs} \cup
       (IF Rendering /\ changed(make.next)
          THEN {[outputs EXCEPT ![make.next] = Foreign]} ELSE {})
  /\ outcome' = [outcome EXCEPT !.exit = 2]
  /\ UNCHANGED <<regmap_yaml, dut_spec>>

\* Somebody changes a file, while a target runs or between two.
edits ==
  /\ \/ regmap_yaml' \in Documents \ {regmap_yaml} /\ UNCHANGED <<dut_spec, outputs>>
     \/ dut_spec' \in SpecTables \ {dut_spec} /\ UNCHANGED <<regmap_yaml, outputs>>
     \/ /\ \E i \in DOMAIN OUTPUTS : outputs' = [outputs EXCEPT ![i] = Foreign]
        /\ UNCHANGED <<regmap_yaml, dut_spec>>
  /\ outcome' = [outcome EXCEPT !.touched = TRUE]
  /\ UNCHANGED make

MapNext ==
  \/ \E goal \in {"regmap", "regcheck"} : MakeStarts(goal)
  \/ check_regmap \/ load \/ render \/ rendered
  \/ killed \/ edits

MapSpec == MapInit /\ [][MapNext]_mapVars

-----------------------------------------------------------------------------
(***************************************************************************)
(* Green means in sync: after either target has succeeded and as long as   *)
(* nobody has edited since it started, the map is well formed, agrees with *)
(* the specification, and is what all three files were generated from,     *)
(* whatever hand edits and kills went before.                              *)
(***************************************************************************)
GreenMeansInSync ==
  outcome.goal # "none" /\ make.goal = "none" /\ outcome.exit = 0 /\ ~outcome.touched
    => InSync(Tree)

(***************************************************************************)
(* `make regcheck' decides: it succeeds exactly on a tree that was in sync *)
(* when it started, although its generator repairs the files on the way    *)
(* (main's --check).                                                       *)
(***************************************************************************)
RegcheckDecides ==
  outcome.goal = "regcheck" /\ make.goal = "none" /\ ~outcome.touched /\ outcome.exit # 2
    => (outcome.exit = 0 <=> outcome.in_sync)
=============================================================================
