--------------------------- MODULE MCEventStream ---------------------------
(* Instances of EventStream for TLC.  The appenders are interchangeable;   *)
(* the runs with a liveness property do without the reduction.             *)
EXTENDS EventStream, TLC

AppenderSymmetry == Permutations(Appenders)

=============================================================================
