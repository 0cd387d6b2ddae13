-------------------------- MODULE MCConfiguration ---------------------------
EXTENDS Configuration, TLC

\* At first one of the providers has the model.
MCFirstModels == {<<"q", "n">>}
MCPairs == MCFirstModels \cup {<<"p", "n">>}
MCIn == [d \in Paths |-> IF d = "d1" THEN {"a", "b"} ELSE {"a"}]

\* Requests do not differ.
MCSymmetry == Permutations(Requests)
=============================================================================
