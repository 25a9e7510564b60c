------------------------------ MODULE MCQueries ------------------------------
(***************************************************************************)
(* Instances of Queries for TLC: two starts on either side of a period's    *)
(* end, bounds inside, outside and with a digit less.                      *)
(***************************************************************************)
EXTENDS Queries, TLC

Race(series, car, old, new, grid, finish, incidents) ==
  [series |-> series, car |-> car, old |-> old, new |-> new,
   grid |-> grid, finish |-> finish, incidents |-> incidents]

MCRaces == {Race(1, 1, 5, 7, 3, 0, 1), Race(1, 2, 7, 4, 1, 4, 2), Race(2, 1, 4, 4, 5, 2, 0)}
MCRanges == {<<11, 15>>, <<11, 13>>, <<14, 12>>, <<2, 15>>, <<1, 15>>}
MCGroupBys == {<<>>, <<"series">>, <<"series", "car">>}
============================================================================
