-------------------------- MODULE MCBatchCreation --------------------------
(* An instance of BatchCreation for TLC.  Members 1 to 4 are older than the  *)
(* email, member 6 is newer; a page holds two.                               *)
EXTENDS BatchCreation

MCIds == {1, 2, 3, 4, 6}

\* Of what getSegments returns: one text for all, and one for each group.
MCSegmentations ==
  {<<{"free", "tier", "paid"}>>, <<{"free"}, {"tier"}, {"paid"}>>}

=============================================================================
