----------------------------- MODULE MCCatalog -----------------------------
(* Catalog with model values for credentials and calls; calls are          *)
(* interchangeable: no property singles one out.                           *)
EXTENDS Catalog, TLC

Symmetry == Permutations(Call)
=============================================================================
