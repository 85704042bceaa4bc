----------------------------- MODULE MCSyncVault -----------------------------
(* Small vaults for TLC. *)
EXTENDS SyncVault

CONSTANTS d1, d2, a, b, F, G

\* A file at the root, and the places files may have.
OneFile == [p \in {<<a>>} |-> "v1"]
RootPaths == {<<a>>, <<b>>}
NoPaths == {}

\* A folder with a file in it, and the places files and folders may have.
FileInFolder == [p \in {<<F>>, <<F, a>>} |-> IF p = <<F>> THEN Folder ELSE "v1"]
NestedPaths == {<<a>>, <<F, a>>}
ManyPaths == {<<a>>, <<F, a>>, <<G, a>>}
FolderPaths == {<<F>>, <<G>>}

\* Who edits.
OneUser == {{d1}}
BothUsers == {{d1, d2}}
OneOrBoth == OneUser \cup BothUsers

\* The devices start alike and nothing tells them apart.
Symmetry == Permutations({d1, d2})
==============================================================================
