------------------------------ MODULE MCIngest ------------------------------
(***************************************************************************)
(* From a load profile to a report's measurements: two shards push batches *)
(* at once ("absorb"), and beside it the two instances of MCLoadPlan, how  *)
(* a deploy shards the load and a trigger starts it.  A behaviour is of    *)
(* one of the three.                                                       *)
(***************************************************************************)
EXTENDS MCReportProgress

VARIABLES mode, profile, deploy, deploys, staged, engines, run, doubt

planVars == <<profile, deploy, deploys, staged, engines, run, doubt>>

L == INSTANCE MCLoadPlan WITH pods <- engines

NoPlan == /\ profile = <<>> /\ deploy = <<>> /\ deploys = <<>> /\ staged = <<>>
          /\ engines = <<>> /\ run = <<>> /\ doubt = <<>>

MCInit == \/ mode = "absorb" /\ Init /\ NoPlan
          \/ L!Init /\ Init
MCNext == \/ mode = "absorb" /\ Next /\ UNCHANGED <<mode, planVars>>
          \/ mode # "absorb" /\ L!Next /\ UNCHANGED vars
MCSpec == MCInit /\ [][MCNext]_<<mode, vars, planVars>>

----------------------------------------------------------------------------
(* The property of LoadPlan, by name.                                      *)
LoadAddsUp == mode # "absorb" => L!LoadAddsUp
=============================================================================
