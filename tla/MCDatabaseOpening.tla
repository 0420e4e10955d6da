------------------------- MODULE MCDatabaseOpening -------------------------
\* DatabaseOpening for TLC: two rules of parents, one row of the access log.
\* Two crashes interrupt an opening and the one that follows it; two edits are
\* made before or after them.
EXTENDS DatabaseOpening, TLC

CONSTANTS r1, r2, row

MCParentRules == {r1, r2}
MCRows == {row}
============================================================================
