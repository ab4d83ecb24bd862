-------------------------- MODULE MCFolderTransfer --------------------------
EXTENDS FolderTransfer, TLC

\* The goroutines are alike.
Symmetry == Permutations(Task)
=============================================================================
