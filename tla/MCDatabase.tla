---------------------------- MODULE MCDatabase ----------------------------
(* A small instance of Database: one table, two fields, records that share    *)
(* values, lack a field or hold null, and queries that use none, one or both  *)
(* of the indices there may be.                                              *)
EXTENDS Database, TLC

MCObjects == {[a |-> 1, b |-> 1], [a |-> 2], [a |-> Null, b |-> 1]}
MCScalars == {Null}
MCGiven == {[a |-> 1, b |-> 1], [a |-> 2], Null}

Is(f, v)  == [field |-> f, is |-> v]
Ops(f, o) == [field |-> f, ops |-> o]

MCQueries ==
  {<<Is("a", 1), Is("b", 1)>>,
   <<Ops("b", "$gt" :> 0 @@ "$lt" :> 7), Is("__proto__", 1)>>,
   <<Ops("a", "$eq" :> 2)>>,
   <<Ops("b", "$eq" :> 1 @@ "$lt" :> 1)>>,
   <<Is("a", Null)>>,
   <<Is("__proto__", 1)>>}

MCSorts == {Nothing, [field |-> "a", asc |-> TRUE], [field |-> "b", asc |-> FALSE]}

\* A record under the first id the counter gives, with times it gives as well.
MCOld ==
  {[t \in Table |-> <<[id |-> 0, timestamp |-> 0, content |-> [a |-> Null, b |-> 1], updatedAt |-> 1]>>]}
=============================================================================
