------------------------ MODULE MCSmmCoreDumpTransfer ------------------------
(* Instances of SmmCoreDumpTransfer for TLC. *)
EXTENDS SmmCoreDumpTransfer

Entry(c, s) == [conventional |-> c, size |-> s]

(* No entry at all; none usable; the first usable entry behind one that is  *)
(* too small and one of the wrong type, with room for one byte or for two.  *)
MCRegionTables ==
  { <<>>, <<Entry(FALSE, 4), Entry(TRUE, 2)>>,
    <<Entry(TRUE, 2), Entry(FALSE, 5), Entry(TRUE, 3), Entry(TRUE, 4)>>,
    <<Entry(TRUE, 4), Entry(TRUE, 3)>> }
=============================================================================
