----------------------------- MODULE MCGslbCore -----------------------------
(* Instances of GslbCore for TLC.                                          *)
EXTENDS GslbCore

(* "inner" lies in the prefixes of both regions, the longer one is of the  *)
(* second; "outer" in the first's only, "stranger" in none.                *)
Askers == {"inner", "outer", "stranger"}
Nested == << {[bits |-> 24, covers |-> {"inner", "outer"}]},
             {[bits |-> 28, covers |-> {"inner"}]} >>

(* The first two PoPs change places; the third is as near as the second to *)
(* the second region.                                                      *)
Reroutings == { << <<1, 2, 3>>, <<3, 2, 2>> >>,
                << <<2, 1, 3>>, <<1, 3, 3>> >> }
=============================================================================
