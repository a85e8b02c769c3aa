--------------------------- MODULE MCChunkEngine ---------------------------
(* Instances: one dispatch of every image, or two dispatches of one half each. *)
EXTENDS ChunkEngine, TLC

CONSTANTS m1, m2

OneDispatch  == m1 :> Items
Half         == {i \in Items : Rank(i, Items) < Cardinality(Items) \div 2}
TwoDispatches == m1 :> Half @@ m2 :> Items \ Half

Symmetry == Permutations(Retries)
=============================================================================
