---------------------------- MODULE MCYoRegistry ----------------------------
(***************************************************************************)
(* Three registries that can form a chain, two of them with the same name, *)
(* or with names that differ in case only: both collide among siblings,    *)
(* the same name alone along a path.  Variables of one name, or not.      *)
(***************************************************************************)
EXTENDS YoRegistry

CONSTANTS a, b, c, twin, v1, v2, v3

NamesOfOneKey == (a :> "a") @@ (b :> "b") @@ (c :> "A")
TwinNames == (a :> "a") @@ (b :> "b") @@ (twin :> "a")
OneRegistryName == a :> "a"
SameName == (v1 :> "x") @@ (v2 :> "x")
LowerNames == ("a" :> "a") @@ ("b" :> "b") @@ ("A" :> "a")
OneName == v1 :> "x"
OwnNames == (v1 :> "x") @@ (v2 :> "y") @@ (v3 :> "z")

\* Two variables of the same name are told apart by nothing.
VariableSymmetry == Permutations(Variable)

\* The history of the last call is looked at by properties of steps only.
NoHistory == <<parent, children, childMap, level, namespace, variables, registry, fullName, listening>>
=============================================================================
