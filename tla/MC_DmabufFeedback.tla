-------------------------- MODULE MC_DmabufFeedback --------------------------
(* Tables of two lengths, one of which an index of the other exceeds; one or *)
(* two tranches, formats in one event or in two; advertisements with a new   *)
(* table and without.                                                        *)
EXTENDS DmabufFeedback

MCEntries == {"linear", "tiled"}
Tables == {<<>>, <<"tiled">>, <<"linear", "tiled">>}
RawTranches ==
  {[target_device |-> 1, flags |-> 1, indices |-> <<<<1>>>>],
   [target_device |-> 0, flags |-> 0, indices |-> <<<<0>>, <<1, 0>>>>]}
MCAdverts ==
  [table : Tables, main_device : {1},
   tranches : {<<x>> : x \in RawTranches} \cup {<<x, y>> : x \in RawTranches, y \in RawTranches}]
=============================================================================
