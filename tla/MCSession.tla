----------------------------- MODULE MCSession -----------------------------
(* Files and releases for the TLC runs of Session: two releases fastsacct  *)
(* implements, one it does not.                                            *)
EXTENDS SessionInv

LibFile(r) == [release |-> r, version |-> TRUE, api |-> TRUE]

\* A good file of each release, and one release's file in every way a library
\* can disappoint.
AllFiles == {LibFile(r) : r \in Release} \cup [release : {"v25_05"}, version : BOOLEAN, api : BOOLEAN]

\* One good library, for the run about what is not released.
OneFile == {LibFile(r) : r \in Implemented}
=============================================================================
