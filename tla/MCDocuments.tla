---------------------------- MODULE MCDocuments ----------------------------
(* Small instances of Documents. *)
EXTENDS Documents, TLC

CONSTANTS d1, d2, f1, f2, k1, k2, c1, c2

\* Two files of one collection that share a chunk.
OneHome == f1 :> c1 @@ f2 :> c1
Shared  == f1 :> {k1} @@ f2 :> {k1, k2}

\* The same chunk in two collections.
TwoHomes == f1 :> c1 @@ f2 :> c2
Same     == f1 :> {k1} @@ f2 :> {k1}

Interchangeable ==
    Permutations(Doc) \union Permutations(Upload) \union Permutations(Eraser)
=============================================================================
