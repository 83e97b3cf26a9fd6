----------------------------- MODULE MCContents -----------------------------
(* Contents as the .cfg file of its run instantiates it. *)
EXTENDS Contents

CONSTANTS s, t, x, y, daily, other

\* Two sources that may list the same articles, in either order.
Lists == {<<x, y>>, <<y, x>>}
Of    == [r \in Runs |-> IF r = other THEN t ELSE s]
Mode  == [r \in Runs |-> IF r = daily THEN "retry" ELSE "abort"]
=============================================================================
