------------------------------ MODULE MCCampaign ------------------------------
(***************************************************************************)
(* A campaign of one native and one incumbent run.                         *)
(***************************************************************************)
EXTENDS Campaign

MCRuns   == 1..2
MCNative == {1}
MCSplits == 1..2
================================================================================
