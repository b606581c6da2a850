------------------------------ MODULE MCRaces ------------------------------
(* One Change, two requests at a time: every interleaving of two handlers;  *)
(* or three Changes, two of which touch the same project: lands that must   *)
(* and lands that need not be revalidated against each other.               *)
EXTENDS ChangeServer, TLC

MCTouches == [c \in Changes |-> {"p"}]
MCTierTouches == [c \in Changes |-> IF c = "c3" THEN {"q"} ELSE {"p"}]

\* Handlers are interchangeable: no action tells one from another.
MCSymmetry == Permutations(Handlers)
=============================================================================
