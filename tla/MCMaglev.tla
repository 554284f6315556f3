------------------------------ MODULE MCMaglev ------------------------------
(* The instance of Maglev for TLC: the second of the destinations fails    *)
(* and comes back, or all of them do.                                      *)
EXTENDS Maglev

SecondOrAllFail == {{}, {2}, Dests}
=============================================================================
