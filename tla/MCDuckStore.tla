----------------------------- MODULE MCDuckStore ----------------------------
(***************************************************************************)
(* Values for model-checking DuckStore: one table with two partition keys, *)
(* its extension by a column, and a declaration of another layout.         *)
(***************************************************************************)
EXTENDS DuckStore

MCColumns  == {"region", "day", "note", "tag"}
MCTypes    == {"int", "str"}
MCValues   == {1, 2, 11, 12}
MCValuesOf == ("int" :> {1, 2}) @@ ("str" :> {11, 12})

(* Arrow casts 1 to "1"; a dict becomes a text. *)
MCCasts == ("int" :> (1 :> 1 @@ 2 :> 2 @@ 12 :> 2))
           @@ ("str" :> (11 :> 11 @@ 12 :> 12 @@ 1 :> 11))
MCJson  == 90 :> 12

MCDirName   == [v \in MCValues |-> ToString(v)]
MCParseName == [type \in MCTypes |->
  [name \in {MCDirName[v] : v \in MCValuesOf[type]} |->
     CHOOSE v \in MCValuesOf[type] : MCDirName[v] = name]]

Req(type) == [type |-> type, nullable |-> FALSE]
Opt(type) == [type |-> type, nullable |-> TRUE]

BaseSchema == ("region" :> Req("str")) @@ ("day" :> Req("int")) @@ ("note" :> Opt("str"))
WideSchema == BaseSchema @@ ("tag" :> Opt("int"))

Decl(schema, keys) == [schema |-> schema, partition_by |-> keys]
Call(decl) == [table |-> "rois", decl |-> decl]

Base == Decl(BaseSchema, <<"region", "day">>)
Wide == Decl(WideSchema, <<"region", "day">>)
Flat == Decl(WideSchema, << >>)

MCCreateCalls   == {Call(Base), Call(Wide), Call(Flat)}
MCRegisterCalls == {Call(Base), Call(Wide)}

Records(records) == [kind |-> "list", columns |-> {}, records |-> records]
Table(columns, records) == [kind |-> "table", columns |-> columns, records |-> records]

At(region, day) == ("region" :> region) @@ ("day" :> day)

MCInputs == {
  Records(<<At(11, 1), At(12, 1) @@ ("note" :> 90)>>),
  Table({"region", "day", "tag", "extra"},
        <<At(1, 12) @@ ("tag" :> NULL) @@ ("extra" :> 7),
          At(11, 2) @@ ("tag" :> 2) @@ ("extra" :> 7)>>),
  Table({"region", "day"}, << >>),
  Records(<<At(12, 2), ("region" :> 12)>>),
  Records(<<"region" :> 12>>),
  Records(<<At(NULL, 1)>>),
  Records(<<At(11, 12)>>)}

On(field, cond) == [field |-> field, cond |-> cond]
Is(v)  == "equals" :> v
In(vs) == "in" :> vs

MCFilterDicts == {
  << >>,
  <<On("region", Is(11))>>,
  <<On("day", Is(1))>>,
  <<On("day", Is(1)), On("region", Is(11))>>,
  <<On("region", In(<<11, 12>>)), On("day", Is(2))>>,
  <<On("region", In(<< >>)), On("day", Is(1))>>,
  <<On("day", ("gte" :> 1) @@ ("lt" :> 2)), On("region", Is(12))>>,
  <<On("day", ("gt" :> 1) @@ ("lte" :> 2)), On("note", In(<<12>>))>>,
  <<On("note", [op \in {} |-> op]), On("region", Is(12))>>,
  <<On("note", "gte" :> 11)>>,
  <<On("tag", Is(2)), On("region", In(<<11>>))>>}

MCProjections == {NULL, << >>, <<"region">>, <<"tag", "day">>, <<"tag", "tag">>}

InstanceSymmetry == Permutations(Instances)

=============================================================================
