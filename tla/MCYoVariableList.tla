-------------------------- MODULE MCYoVariableList --------------------------
(* Two homonyms that differ in case and one in a namespace whose name only  *)
(* ends with the text of another one.                                       *)
EXTENDS YoVariableList

CONSTANTS v1, v2, v3

MCLowerOf == [c \in {"a", "b", "A", "B", "."} |->
                CASE c = "A" -> "a" [] c = "B" -> "b" [] OTHER -> c]
MCNameOf == (v1 :> <<"a">>) @@ (v2 :> <<"A">>) @@ (v3 :> <<"a">>)
MCOwnNamespaces == {<<"a">>, <<"b", "a">>, <<"A", ".", "b">>}
MCParentName == <<"b">>
=============================================================================
