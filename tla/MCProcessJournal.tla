-------------------------- MODULE MCProcessJournal --------------------------
EXTENDS ProcessJournal

\* Keys differ in their values only.
KeySymmetry == Permutations(Keys)
=============================================================================
