--------------------------- MODULE MCDuckRegistry ---------------------------
(***************************************************************************)
(* Values for model-checking DuckRegistry: two tables and the declarations *)
(* that tell its rules apart.                                              *)
(***************************************************************************)
EXTENDS DuckRegistry, TLC

MCColumns == {"id", "region", "note"}
MCTypes   == {"int", "str"}
MCValues  == {1, 2}
MCValuesOf == [t \in MCTypes |-> IF t = "int" THEN {1} ELSE {2}]

Req(type) == [type |-> type, nullable |-> FALSE]
Opt(type) == [type |-> type, nullable |-> TRUE]

BaseSchema == ("id" :> Req("int")) @@ ("region" :> Req("str"))

Base    == [schema |-> BaseSchema, partition_by |-> <<"region">>]
Wide    == [schema |-> BaseSchema @@ ("note" :> Opt("str")), partition_by |-> <<"region">>]
WideSchema == BaseSchema @@ ("note" :> Opt("str"))
Flat    == [schema |-> WideSchema, partition_by |-> << >>]
Retyped == [schema |-> ("id" :> Req("str")) @@ WideSchema, partition_by |-> <<"region">>]
Unkeyed == [schema |-> BaseSchema, partition_by |-> <<"note">>]

Call(table, decl) == [table |-> table, decl |-> decl]

(* A table created in two incompatible shapes, a second
   table, and a declaration that _prepare_schema rejects. *)
MCCreateCalls ==
  {Call("rois", Base), Call("rois", Flat), Call("bins", Base), Call("bins", Unkeyed)}

MCRegisterCalls == {Call("rois", Wide), Call("rois", Flat), Call("bins", Wide)}

(* Smaller sets, for the runs with crashes, faults and races. *)
FewCreateCalls   == {Call("rois", Base), Call("rois", Wide), Call("bins", Base)}
RetypingCalls    == FewCreateCalls \cup {Call("rois", Retyped)}

RacingCreateCalls   == {Call("rois", Base), Call("bins", Base), Call("bins", Unkeyed)}
RacingRegisterCalls == {Call("rois", Flat)}

MCLegacyFiles == {"rois" :> Base}
NoLegacyFiles == {}

InstanceSymmetry == Permutations(Instances)

(* Where nobody registers, no guard and no property of the racing run reads
   what instances have declared or found, or what listings have said. *)
RacesView == <<file, pc, registry, call, migrator, alone, created>>

=============================================================================
