---------------------------- MODULE MCPostCache ----------------------------
(* Instances of PostCache for TLC. *)
EXTENDS PostCache, TLC

CONSTANTS t1, t2, o1, o2, o3

\* Threads and struct posts are interchangeable
Sym == Permutations({t1, t2}) \cup Permutations({o1, o2, o3})

\* One directory entry per post
OneDirent == [d \in Dirents |-> d]
=============================================================================
