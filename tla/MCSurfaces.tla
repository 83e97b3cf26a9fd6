----------------------------- MODULE MCSurfaces -----------------------------
(* Surfaces with interchangeable clients. *)
EXTENDS Surfaces, TLC

Interchangeable == Permutations(Clients)
=============================================================================
