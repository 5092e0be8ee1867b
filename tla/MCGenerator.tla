----------------------------- MODULE MCGenerator -----------------------------
(* Names of two words: make_order and MakeOrder, which have the same files, and takeOrder,
   whose first letter is lost. *)
EXTENDS Generator

C(letter) == [letter |-> letter, upper |-> TRUE]
L(letter) == [letter |-> letter, upper |-> FALSE]

make_order == << L("m"), Underline, L("o") >>
MakeOrder  == << C("m"), C("o") >>
takeOrder  == << L("t"), C("o") >>

M(name, type) == [name |-> name, type |-> type]

MCProtos == { << M(make_order, 1) >>, << M(MakeOrder, 2), M(takeOrder, 1) >> }
=============================================================================
