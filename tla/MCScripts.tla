----------------------------- MODULE MCScripts ------------------------------
(* The instance of Scripts for TLC. *)
EXTENDS Scripts, MCRegressionFlow

Field(msb, lsb, access, value) ==
  [msb |-> msb, lsb |-> lsb, access |-> access, reset |-> value]
Register(name, offset, access, fields) ==
  [name |-> name, offset |-> offset, access |-> access, fields |-> fields]

CTRL   == Register("CTRL", 0, "RW", <<Field(0, 0, "RW", 0), Field(1, 1, "WC", 0)>>)
CONFIG == Register("CONFIG", 1, "RW", <<Field(7, 4, "RW", 15)>>)
NARROW == Register("CONFIG", 1, "RW", <<Field(6, 4, "RW", 7)>>)

\* Two good maps; and one whose fields overlap, as the second table would have.
WIDE   == Register("CTRL", 0, "RW", <<Field(1, 0, "RW", 0), Field(1, 1, "WC", 0)>>)
MCDocuments == {<<CTRL, CONFIG>>, <<CTRL, NARROW>>, <<WIDE, NARROW>>}
\* The tables of the first two, and a section whose rows no longer parse.
SpecLine(r, msb, lsb, value) ==
  [name |-> r.name, offset |-> r.offset, access |-> r.access, reset |-> value,
   msb |-> msb, lsb |-> lsb]
MCTables == {<<SpecLine(CTRL, 1, 0, 0), SpecLine(CONFIG, 7, 4, 240)>>,
             <<SpecLine(CTRL, 1, 0, 0), SpecLine(NARROW, 6, 4, 112)>>,
             <<>>}
=============================================================================
