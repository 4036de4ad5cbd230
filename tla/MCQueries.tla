------------------------------ MODULE MCQueries ------------------------------
(* A term on each field: what is built of them tells apart all records. *)
EXTENDS Queries

MCTerms ==
  {[type |-> "TERM", name |-> "x", comparison |-> "EQUALS_TO", value |-> 1],
   [type |-> "TERM", name |-> "y", comparison |-> "NOT_IN", value |-> {1}]}

=============================================================================
