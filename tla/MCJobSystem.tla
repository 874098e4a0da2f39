------------------------------ MODULE MCJobSystem ------------------------------
(***************************************************************************)
(* An instance of JobSystem: a simulation pool of two callers and two      *)
(* workers, with a job whose chunks fail in two ways and a caller outside  *)
(* the canonical environment.                                              *)
(***************************************************************************)
EXTENDS JobSystem

CONSTANTS t1, t2, w1, w2

MCCaller == {t1, t2}
MCWorker == {w1, w2}
MCCrew == {{}, {w1, w2}}

MCJob == {
    [count |-> 2, fate |-> [c \in 0 .. 1 |-> "leaves"], clean |-> FALSE],
    [count |-> 2, fate |-> [c \in 0 .. 1 |-> IF c = 0 THEN "throws" ELSE "both"], clean |-> TRUE],
    [count |-> 2, fate |-> [c \in 0 .. 1 |-> "ok"], clean |-> TRUE]}

=============================================================================
