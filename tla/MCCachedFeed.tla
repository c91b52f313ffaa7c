----------------------------- MODULE MCCachedFeed ----------------------------
(* Instances of CachedFeed for TLC; the bounds are in the .cfg files.        *)
EXTENDS CachedFeed, TLC

\* Task slots, books and URLs are interchangeable (no property here is a
\* liveness property, so symmetry is sound).
Symmetry == Permutations(Task) \cup Permutations(Book) \cup Permutations(Url)
=============================================================================
