-------------------------- MODULE MCGreeterServer --------------------------
(* TLC instance of GreeterServer and its history: users and callers are    *)
(* interchangeable.                                                        *)
EXTENDS StepwiseServer, TLC

Symmetry == Permutations(Users) \union Permutations(Callers)
=============================================================================
