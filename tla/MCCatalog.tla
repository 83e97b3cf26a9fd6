----------------------------- MODULE MCCatalog -----------------------------
(* Catalog as the .cfg file of its run instantiates it. *)
EXTENDS Catalog

CONSTANTS a, b, c1, c2

Same == Permutations(Clients)

E(name, settings) == [name |-> name, settings |-> settings]

\* A file that loads, one with an unsound entry, two files of which one is
\* malformed, and no file at all.
Files    == {<<<<E(a, "v1"), E(b, "v1")>>>>, <<<<E(a, "v2"), E(b, "unsound")>>>>,
             <<<<E(a, "v2")>>, <<E(b, "malformed")>>>>, <<>>}
SubFiles == {<<<<E(a, "v1"), E(b, "v1")>>>>, <<<<E(a, "v2"), E(b, "unsound")>>>>, <<>>}

Topics == {[sources |-> <<E(b, "v2")>>, sub |-> E(b, "v1")],
           [sources |-> <<E(a, "v2")>>, sub |-> E(a, "unsound")]}
=============================================================================
