-------------------------- MODULE MCParameterFiles --------------------------
(***************************************************************************)
(* A root registry with one parameter and a child of it with another one,  *)
(* whose listener asks for both of them.                                   *)
(* Documents of somebody else: one that covers the root only, one that     *)
(* covers the child, from the root and on its own, the latter with a text  *)
(* that does not parse.  What one covers is unknown to the other.          *)
(***************************************************************************)
EXTENDS ParameterFiles

CONSTANTS root, child, first, second

Paths == (root :> <<"root">>) @@ (child :> <<"root", "child">>)
OwnerOfEach == (first :> root) @@ (second :> child)
RootFirst == <<first, second>>

DefaultOne == [p \in Parameter |-> 1]
LastDigitLost == [v \in Value |-> IF v = 1 THEN 0 ELSE v]

AskForBoth == (first :> {}) @@ (second :> {first, second})

ForeignDocuments ==
    { <<[name |-> <<"root", first>>, text |-> 2]>>,
      <<[name |-> <<"root", "child", second>>, text |-> 2], [name |-> <<"child", second>>, text |-> Bad]>> }

\* No step reads the two histories.
NoHistory == <<value, status, holder, attended, loopVars, fileVars>>
=============================================================================
