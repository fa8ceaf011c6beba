---------------------------- MODULE MCController ----------------------------
(* Angles in steps of 15 degrees, a limit of 60 degrees, and three rates.   *)
EXTENDS Controller

MCRates == {-4, 2, 9}
=============================================================================
