---------------------------- MODULE MCTagServer ----------------------------
(* Small instances of TagServer for TLC. *)
EXTENDS TagServer, TLC

\* The longest name of the first publication is shorter than that of the
\* later ones, so that whether a prefix is too long depends on the reload.
MCLongestName == [g \in 1..MaxPublish |-> IF g = 1 THEN 1 ELSE 2]

MCSymmetry == Permutations(Clients)
=============================================================================
