------------------------------- MODULE MCAwgKeys -------------------------------
(***************************************************************************)
(* Small instances of AwgKeys.                                             *)
(***************************************************************************)
EXTENDS AwgKeys, TLC

\* A hand-made peer has the highest address.
LastAddr == [f \in Foreign |-> PoolSize]

Interchangeable == Permutations(Keys)
=============================================================================
