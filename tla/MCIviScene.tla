----------------------------- MODULE MCIviScene -----------------------------
(* The instance of IviScene that TLC checks: every field, and rectangles    *)
(* with a negative argument for one that another request changes.           *)
EXTENDS IviScene, TLC

CONSTANTS s1, l1

Change(o, ch) == [obj |-> o, change |-> ch]
Rectangle(r, pos, length) == <<r, "pos">> :> pos @@ <<r, "size">> :> length
MCChanges == {Change(s1, <<"opacity", "value">> :> 1),
              Change(s1, Rectangle("destination", 1, 1)),
              Change(s1, Rectangle("destination", Keep, 0)),
              Change(s1, Rectangle("source", 1, Keep)),
              Change(l1, <<"visibility", "value">> :> 1),
              Change(l1, <<"opacity", "value">> :> 1),
              Change(l1, Rectangle("source", Keep, 1))}
MCOrders == {<<s1>>}
MCParams == {{"opacity", "size"}}

Symmetry == Permutations(Clients)
=============================================================================
