------------------------------ MODULE Scripts -------------------------------
(***************************************************************************)
(* The two flows of scripts/ side by side.  They share no state, so a      *)
(* behaviour is one of the regression flow or one of the register map      *)
(* flow, and the other stays as it starts.                                 *)
(***************************************************************************)
EXTENDS RegressionFlow, RegmapFlow

VARIABLE flow

scriptVars == <<vars, mapVars, flow>>

RegressionFirst == CHOOSE x \in Documents \X SpecTables : TRUE

ScriptsInit ==
  \/ /\ flow = "regression" /\ Init
     /\ MapInit /\ <<regmap_yaml, dut_spec>> = RegressionFirst
  \/ /\ flow = "regmap" /\ MapInit
     /\ Init /\ design = CHOOSE d \in Designs : TRUE

ScriptsNext ==
  \/ flow = "regression" /\ Next /\ UNCHANGED <<mapVars, flow>>
  \/ flow = "regmap" /\ MapNext /\ UNCHANGED <<vars, flow>>

ScriptsSpec ==
  ScriptsInit /\ [][ScriptsNext]_scriptVars
    /\ WF_scriptVars(JobStep /\ UNCHANGED <<mapVars, flow>>)
=============================================================================
