------------------------------ MODULE ClauseLog ------------------------------
(***************************************************************************)
(* What the rest of the tracer takes the clause database for: a sequence   *)
(* of records that grows at its end until there is no space left, and that *)
(* is read from the first record to the last one, again and again.         *)
(***************************************************************************)
EXTENDS Naturals, Sequences

CONSTANT Shapes     \* what a record may be

VARIABLES
    log,
    mode,           \* "write", "read" or "failed"
    place           \* the record being read, 0 before and after

Init == log = <<>> /\ mode = "write" /\ place = 0

Append_ ==
    /\ mode = "write"
    /\ \E r \in Shapes : log' = Append(log, r)
    /\ UNCHANGED <<mode, place>>

Fail ==
    /\ mode = "write"
    /\ mode' = "failed"
    /\ UNCHANGED <<log, place>>

ReadFirst ==
    /\ mode # "failed" /\ place = 0
    /\ mode' = "read"
    /\ place' = IF log = <<>> THEN 0 ELSE 1
    /\ UNCHANGED log

ReadNext ==
    /\ mode = "read" /\ place # 0
    /\ place' = IF place = Len(log) THEN 0 ELSE place + 1
    /\ UNCHANGED <<log, mode>>

Next == Append_ \/ Fail \/ ReadFirst \/ ReadNext
Spec == Init /\ [][Next]_<<log, mode, place>>
=============================================================================
