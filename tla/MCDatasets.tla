----------------------------- MODULE MCDatasets -----------------------------
EXTENDS Datasets, TLC

CONSTANTS d1, s1, k, a, w1, chat, e1, p1

V(x, y) == (k :> x @@ a :> y)
Wide == [schema |-> V("required", "nullable"), key |-> {k}]
Empty == [schema |-> NoSchema, key |-> {}]

MCShapes == {Wide, Empty}
MCBatches == {<<V(1, Null)>>, <<V(2, 1), V(1, Null)>>}
MCChanges == {(k :> 2)}
=============================================================================
