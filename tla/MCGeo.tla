------------------------------- MODULE MCGeo -------------------------------
(* Small instances of Geo: the names of a place, and the places nearby,    *)
(* which take the same names.                                              *)
EXTENDS Geo

CONSTANTS r1, r2, r3, names, places

NamesAndPlaces == {<<names>>, <<places, names>>}
=============================================================================
