---------------------------- MODULE MCPortfolio ----------------------------
(* Instances of Portfolio for TLC.                                          *)
EXTENDS Portfolio

CONSTANTS p

NoAssumptions   == {{}}
SomeAssumptions == {{}, {p}}

NoFaults == {{}}

\* One fault, which may happen or not.
OneFault == {{"signal"}, {"spurious"}, {"create"}}

=============================================================================
