--------------------------- MODULE MCHttpBoundary ---------------------------
(* A small instance of HttpBoundary: a process that fails closed and one   *)
(* that fails open, as while the mode is being changed, and requests of    *)
(* the shapes that dispatch treats differently.                            *)
EXTENDS HttpBoundary, TLC

CONSTANTS p1, p2

OneOfEach == {p1, p2}
BothModes == p1 :> "closed" @@ p2 :> "open"

Plain    == [secure |-> TRUE, limited |-> TRUE, cookie |-> FALSE, token |-> FALSE]
FourShapes ==
    { Plain, [Plain EXCEPT !.secure = FALSE], [Plain EXCEPT !.limited = FALSE],
      [Plain EXCEPT !.cookie = TRUE] }

MCSymmetry == Permutations(Requests)

=============================================================================
