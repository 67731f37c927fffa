------------------------------- MODULE MCVariables -------------------------------
(* Instances of VariableAccess for TLC. *)
EXTENDS VariableAccess, TLC

CONSTANTS c1, c2, fuel, zoom, flag, knob, digits, key

Symmetries == Permutations({c1, c2})

Indices == {0, 2, 100}
Sims == zoom :> 5 @@ fuel :> 40
Tokens == flag :> 1 @@ fuel :> 2
Leading == [n \in Names |-> IF n = digits THEN 0 ELSE -1]

Wish(type, name) == [type |-> type, name |-> name, byId |-> FALSE, index |-> 0, unit |-> None,
                     unitById |-> FALSE, create |-> FALSE]

Wishes ==
    {[Wish("L", fuel) EXCEPT !.create = TRUE, !.unit = "feet"], Wish("L", fuel),
     [Wish("L", fuel) EXCEPT !.byId = TRUE, !.unit = "feet", !.unitById = TRUE],
     [Wish("L", digits) EXCEPT !.create = TRUE, !.unit = BadUnit],
     Wish("T", fuel), [Wish("T", flag) EXCEPT !.byId = TRUE], Wish("B", knob), Wish("A", zoom),
     [Wish("A", zoom) EXCEPT !.index = 2, !.unit = "string"],
     [Wish("A", fuel) EXCEPT !.byId = TRUE, !.unit = "string"],
     [Wish("A", fuel) EXCEPT !.byId = TRUE, !.index = 2, !.unit = "feet", !.unitById = TRUE]} \cup
    {[Wish("A", zoom) EXCEPT !.byId = b, !.index = i, !.unit = "feet"] : b \in BOOLEAN, i \in {2, 100}}

Request(type, name, unit, size) == [type |-> type, name |-> name, index |-> 0, unit |-> unit, size |-> size]
Requests ==
    {Request("L", fuel, None, "double"), Request("T", fuel, None, "double"), Request("T", flag, None, "int"),
     Request("A", fuel, "feet", "double"), Request("A", fuel, "string", "chars"),
     Request("A", zoom, "string", "chars"), Request("A", zoom, "feet", "int"),
     Request("B", knob, None, "int"), Request("B", fuel, None, "double"),
     [Request("A", zoom, "feet", "double") EXCEPT !.index = 2]}
==================================================================================
