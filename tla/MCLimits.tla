------------------------------ MODULE MCLimits ------------------------------
(* Values of the constants of Conf and Limits for TLC: numbers of four     *)
(* bits.  The order of bounds and defaults is that of conf.hpp, with 8 as  *)
(* the first number that is negative as a signed one.                      *)
EXTENDS Limits, TLC

CONSTANT a

UsedBy == a :> {"max_pool_sockets", "pool_sockets", "timeout", "verbose"}

Numbers == {-1, 0}

Minimum == [o \in Options |->
  CASE o = "timeout" -> 2 [] o = "max_pool_count" -> 3
    [] o = "verbose" -> 0 [] OTHER -> 1]
Maximum == [o \in Options |->
  CASE o = "timeout" -> 6 [] o = "verbose" -> VerboseMax [] OTHER -> 15]
AtStart == [o \in Options |->
  CASE o = "timeout" -> 4 [] o = "max_pool_count" -> 5
    [] o = "max_pool_sockets" -> 2 [] o = "request_limit" -> 7 [] OTHER -> 1]

Symmetry == Permutations(Users)
=============================================================================
