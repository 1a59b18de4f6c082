------------------------------ MODULE MCMigration ------------------------------
(* Small instances of Migration for TLC.                                   *)
EXTENDS Migration

CONSTANTS a, b, c

MCSrc == {a}
MCDst == {a, b, c}
MCDstSmall == {a, b}
MCSpecs == {[praxisEnabled |-> FALSE, migrationJob |-> "enabled"],
            [praxisEnabled |-> TRUE, migrationJob |-> "enabled"]}
================================================================================
