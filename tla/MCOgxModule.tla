------------------------------ MODULE MCOgxModule ------------------------------
(* Instances of OgxModule for TLC.                                         *)
EXTENDS OgxModule

CONSTANTS o1, o2
================================================================================
