------------------------------ MODULE MCLeaf ------------------------------
(* Instances of Leaf: two workers over two leaves, in one process or two.   *)
EXTENDS Leaf

Workers == {"btc", "eth"}
Apart == [btc |-> "p1", eth |-> "p2"]
Together == [btc |-> "p1", eth |-> "p1"]
EitherWay == {Apart, Together}
OneProcess == {Together}
TwoLeaves == <<"orderbooks", "trades">>
OneLeaf == <<"trades">>
Both == {"orderbooks", "trades"}
Books == {Both, {"trades"}}
Prints == {{"trades"}}

=============================================================================
