---------------------------- MODULE MCVastStore ----------------------------
(***************************************************************************)
(* Values for model-checking VastStore: one table (tables do not interact),*)
(* declared in three shapes; VAST DB stores a large string as a string.    *)
(***************************************************************************)
EXTENDS VastStore, TLC

MCColumns == {"id", "tag", "note", "written_at"}
MCTypes   == {"int", "str", "large", "time"}
MCStored  == [t \in MCTypes |-> IF t = "large" THEN "str" ELSE t]
NoValues  == [t \in MCTypes |-> {}]

Req(type) == [type |-> type, nullable |-> FALSE]
Opt(type) == [type |-> type, nullable |-> TRUE]

Base    == ("id" :> Req("int")) @@ ("tag" :> Opt("large"))
Wide    == Base @@ ("note" :> Opt("str"))
Retyped == ("id" :> Req("str")) @@ Base

Call(schema, keys) == [table |-> "rois", decl |-> [schema |-> schema, partition_by |-> keys]]

MCTableCalls == {Call(Base, <<"tag">>), Call(Wide, <<"tag">>), Call(Retyped, << >>)}

Stamped == [i \in Instances |-> TRUE]

InstanceSymmetry == Permutations(Instances)

=============================================================================
