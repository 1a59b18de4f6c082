----------------------------- MODULE MigrationGate -----------------------------
(***************************************************************************)
(* What the Praxis migration promises to whoever watches the cutover gate  *)
(* (status condition PraxisCutoverReady): attempts complete, and the gate  *)
(* stands open for an attempt only after that attempt completed.           *)
(***************************************************************************)
CONSTANTS
    Keys,     \* migration attempts
    Closed    \* the gate's value while cutover is blocked

VARIABLES
    done,     \* attempts whose migration Job completed
    gate      \* the attempt the gate is open for, or Closed

vars == <<done, gate>>

Init == done = {} /\ gate = Closed

Complete ==
    /\ \E k \in Keys \ done : done' = done \cup {k}
    /\ UNCHANGED gate

Open == gate' \in done /\ UNCHANGED done

Close == gate' = Closed /\ UNCHANGED done

Next == Complete \/ Open \/ Close

Spec == Init /\ [][Next]_vars
================================================================================
