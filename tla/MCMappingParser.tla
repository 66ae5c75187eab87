--------------------------- MODULE MCMappingParser ---------------------------
(* Entries of up to three descriptors of two TVDB shows: s1 and another scope*)
(* with none, one, two or three source episodes, written as one range, two   *)
(* ranges or a range that is still open.                                     *)
EXTENDS MappingParser, TLC

CONSTANTS d1, d2, d3

MCDescriptors == {d1, d2, d3}
MCIds == {1, 2}
MCSymmetry == Permutations(MCDescriptors)

R(first, last) == [first |-> first, last |-> last]
MCRanges == {<<R(0, 0), R(0, 0)>>, <<R(1, Open), R(0, 0)>>, <<R(1, 2), R(0, 0)>>,
             <<R(1, 2), R(3, Open)>>, <<R(3, 1), R(0, 3)>>}
MCTargets == [tvdb : {7, 8}, s1 : BOOLEAN, ranges : MCRanges]
=============================================================================
