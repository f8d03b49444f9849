--------------------------- MODULE MCDatabaseResults ---------------------------
EXTENDS DatabaseResults, TLC

CONSTANTS h1, h2, h3, p1, p2, d1, d2

\* The dbresults, the pointers and the delayed commands are alike.
MCSymmetry ==
  Permutations({h1, h2, h3}) \union Permutations({p1, p2}) \union Permutations({d1, d2})
=============================================================================
