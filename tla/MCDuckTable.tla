---------------------------- MODULE MCDuckTable ----------------------------
(***************************************************************************)
(* Values for model-checking DuckTable: two partitions, spelled alike or   *)
(* differently by pyarrow and by the f-strings of the store.               *)
(***************************************************************************)
EXTENDS DuckTable, TLC

TwoPartitions == {"a", "b"}
SameNames     == [p \in TwoPartitions |-> p]

(* A boolean partition key: pyarrow writes flag=true, an f-string flag=True. *)
BooleanDirName  == ("a" :> "true") @@ ("b" :> "false")
BooleanPathName == ("a" :> "True") @@ ("b" :> "False")

WriterSymmetry == Permutations(Writers)
ReaderSymmetry == Permutations(Readers)

=============================================================================
