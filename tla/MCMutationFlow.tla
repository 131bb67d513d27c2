--------------------------- MODULE MCMutationFlow ---------------------------
(* MutationFlow on a document of operations that start alike. *)
EXTENDS MutationFlow

MCFixture == [op \in Operations |-> [f \in Fields |-> CHOOSE v \in Values : TRUE]]
=============================================================================
