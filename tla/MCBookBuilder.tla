--------------------------- MODULE MCBookBuilder ---------------------------
EXTENDS BookBuilder, TLC

\* The references cluster around the end of tables of any size.
Clustered == 1 :> 7 @@ 2 :> 7 @@ 3 :> 0 @@ 4 :> 6

\* Levels are found by price and storage by address; neither are compared,
\* and which free storage is taken next makes no difference.
Interchangeable == Permutations(Prices) \cup Permutations(Objects)
=============================================================================
