--------------------------- MODULE ToolRuntimeMC ---------------------------
(* Instances of ToolRuntime for TLC: two tools, one of which only one call *)
(* may use at a time.                                                      *)
EXTENDS ToolRuntime

CONSTANTS r1, r2, forecast, venue, hop1, hop2, gate, weather, places, routes

MCToolOf == [i \in Items |-> CASE i = forecast -> weather [] i = gate -> weather
                               [] i \in {hop1, hop2} -> routes [] OTHER -> places]
MCLimit == [t \in Tools |-> IF t = places THEN 2 ELSE 1]
MCTtl == [t \in Tools |-> IF t = weather THEN 1 ELSE IF t = places THEN 2 ELSE 0]

MCSymmetry == Permutations(Runs)
=============================================================================
