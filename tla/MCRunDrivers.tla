---------------------------- MODULE MCRunDrivers ----------------------------
(* Instance of RunDrivers for TLC: the requests are interchangeable.       *)
EXTENDS RunDrivers, TLC

RequestSymmetry == Permutations(Requests)

=============================================================================
