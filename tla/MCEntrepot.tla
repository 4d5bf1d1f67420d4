----------------------------- MODULE MCEntrepot -----------------------------
(* Instances of Entrepot: three objects, one of them perhaps flawed or late. *)
EXTENDS Entrepot

AllGood == <<"good", "good", "good">>
Flawed == {AllGood, <<"good", "corrupt", "good">>, <<"good", "absent", "garbled">>,
           <<"absent", "absent", "good">>}
Second == {2}
FirstTwo == {1, 2}

=============================================================================
