--------------------------- MODULE MCVastQueries ---------------------------
(***************************************************************************)
(* Values for model-checking VastQueries: two items whose rows the filters *)
(* tell apart, with a column that is NULL in one of them.                  *)
(***************************************************************************)
EXTENDS VastQueries

NoValues  == [t \in {} |-> t]
MCColumns == {"id", "depth", "blob"}

Item(id, depth, blob) ==
  [index   |-> ("id" :> id) @@ ("depth" :> depth),
   payload |-> ("id" :> id) @@ ("depth" :> depth) @@ ("blob" :> blob)]

MCItems == {Item(1, 5, 10), Item(2, NULL, 11)}

On1(field, cond) == [field |-> field, cond |-> cond]
Is(v)  == "equals" :> v
In(vs) == "in" :> vs

MCFilterDicts == {
  << >>,
  <<On1("id", Is(1))>>,
  <<On1("depth", [op \in {} |-> op])>>,
  <<On1("depth", ("gte" :> 5) @@ ("lt" :> 6)), On1("id", In(<<1, 2>>))>>,
  <<On1("id", Is(2)), On1("depth", In(<< >>))>>,
  <<On1("id", In(<<2>>)), On1("depth", ("gt" :> 4) @@ ("lte" :> 5))>>}

Sides(index, payload) == [index |-> index, payload |-> payload]

MCJoinFilters == {
  Sides(<< >>, << >>),
  Sides(<<On1("depth", "gte" :> 5)>>, << >>),
  Sides(<< >>, <<On1("id", Is(2)), On1("depth", In(<< >>))>>),
  Sides(<<On1("id", In(<<1, 2>>))>>, <<On1("blob", "gt" :> 10)>>)}

WriterSymmetry == Permutations(Writers)

=============================================================================
