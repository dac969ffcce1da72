--------------------------- MODULE MCUpdateEngine ---------------------------
(* Model-checking instances of UpdateEngine.                               *)
EXTENDS UpdateEngine

(* An image with one item for each part of the system, named for slot A,   *)
(* and one with the items of both slots for one part.                      *)
ItemsOfA == {InA("boot"), InA("system")}
ItemsOfBoth == {InA("boot"), InB("boot"), InA("system")}
=============================================================================
