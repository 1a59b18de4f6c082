---------------------------- MODULE MCGeneratedConfig ----------------------------
(* Instances of GeneratedConfig for TLC.                                   *)
EXTENDS GeneratedConfig

CONSTANTS c1, c2
================================================================================
