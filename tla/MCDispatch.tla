----------------------------- MODULE MCDispatch -----------------------------
(* One service made by the generator and one that is not; ids of two digits of base 2. *)
EXTENDS Dispatch, TLC

CONSTANTS r1, r2

MCRequests == {r1, r2}
MCServices == << "pkg", "Order" >> :> {"make"} @@ << "Test" >> :> {"make"}
MCNames == { <<>>, << "make" >>, << "Nobody", "make" >>, << "Test", "take" >>,
             << "pkg", "Order", "make" >>, << "Test", "make" >> }
MCPlain == { << "Test" >> }
=============================================================================
