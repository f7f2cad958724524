--------------------------- MODULE MCReleaseChain ---------------------------
(* The release pipeline with two operators for TLC: two candidates and the *)
(* release of the older one.                                               *)
EXTENDS ReleaseChain, TLC

CONSTANTS ann, bob, old, new, release

MCOperators == {ann, bob}
MCSymmetry == Permutations(MCOperators)
MCCommits == {old, new, release}
MCParents == [c \in MCCommits |-> IF c = old THEN {} ELSE {old}]
MCVersion == [c \in MCCommits |-> IF c = release THEN Target ELSE Candidate]
=============================================================================
