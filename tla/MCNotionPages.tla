--------------------------- MODULE MCNotionPages ---------------------------
(* NotionPages with symmetric refreshes, for TLC. *)
EXTENDS NotionPages, TLC
Symmetric == Permutations(Syncs) \cup Permutations(Positions)
=============================================================================
