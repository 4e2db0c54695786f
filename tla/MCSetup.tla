------------------------------ MODULE MCSetup -------------------------------
EXTENDS Setup

(* Addresses, a name, and a candidate whose port is no number.             *)
SomeEndpoints ==
    [parses : {TRUE}, at : {{2}, {3}, {6}, {}}] \cup [parses : {FALSE}, at : {{}}]

OneAddress == {1}

(* No name, example and www.example; example itself and *.example.         *)
SomeNames == {<<>>, <<"e">>, <<"w", ".", "e">>}
SomePatterns == [wild : BOOLEAN, name : {<<"e">>}]
=============================================================================
