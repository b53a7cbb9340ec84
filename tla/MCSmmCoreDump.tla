----------------------------- MODULE MCSmmCoreDump -----------------------------
(* Small platforms for the SmmCoreDump driver and application. *)
EXTENDS SmmCoreDumpSystem, SequencesExt

Img(n, b, c) == [name |-> n, base |-> b, size |-> 5, core |-> c]
InUefi(i, s) == i @@ [smram |-> s]

CoreImage == Img("SmmCore", 10, TRUE)
ImageA == Img("A", 20, FALSE)
ImageB == Img("B", 30, FALSE)

(* The SMM core knows its own image or it does not; every SMM image is also *)
(* in the UEFI handle database, with `plain' images outside SMRAM.          *)
ImageTables(plain) ==
  { [smmImages |-> s,
     dxeImages |-> <<InUefi(CoreImage, TRUE), InUefi(ImageA, TRUE), InUefi(ImageB, TRUE)>>
                   \o [i \in 1..plain |-> InUefi(Img("Dxe", 100 + 10 * i, FALSE), FALSE)]]
    : s \in {<<CoreImage, ImageA, ImageB>>, <<ImageA, ImageB>>} }

(* An interface inside an image, and one outside it that only the function  *)
(* pointer of a known protocol places.                                      *)
Inside(g) == [guid |-> g, addr |-> 22, func |-> 0]
Outside(g) == [guid |-> g, addr |-> 50, func |-> 32]

HandleLists ==
  { <<>>, <<[id |-> "h1", interfaces |-> <<Inside("P")>>]>>,
    <<[id |-> "h1", interfaces |-> <<Inside("P"), Outside("K")>>],
      [id |-> "h2", interfaces |-> <<Outside("P")>>]>> }

OfGuid(handles, g) ==
  LET all == FoldLeft(LAMBDA acc, h : acc \o h.interfaces, <<>>, handles)
  IN  SelectSeq(all, LAMBDA i : i.guid = g)

ProtocolList(handles, notifies) ==
  <<[guid |-> "P", interfaces |-> OfGuid(handles, "P"), notifies |-> <<>>],
    [guid |-> "K", interfaces |-> OfGuid(handles, "K"), notifies |-> notifies]>>

SmiLists == { <<>>, <<[type |-> "G1", handlers |-> <<21, 31>>], [type |-> "G2", handlers |-> <<90>>]>> }

Children == { [lib |-> "Null", found |-> FALSE, callbacks |-> <<>>],
              [lib |-> "Nt32", found |-> FALSE, callbacks |-> <<>>],
              [lib |-> "Nt32", found |-> TRUE, callbacks |-> <<>>],
              [lib |-> "Nt32", found |-> TRUE, callbacks |-> <<33, 90>>] }

PlatformsWith(plain) ==
  { t @@ [handles |-> h, protocols |-> ProtocolList(h, n), smis |-> s, roots |-> r, child |-> c] :
    t \in ImageTables(plain), h \in HandleLists, n \in {<<>>, <<24>>}, s \in SmiLists,
    r \in {<<>>, <<34>>}, c \in Children }

(* As many images outside SMRAM as inside, or none. *)
RoomyPlatforms == PlatformsWith(3)
CrampedPlatforms == { p \in PlatformsWith(0) : p.handles = <<>> }

(* The hypothesis of ReportRightAlways. *)
ASSUME RoomyTablesAgree == \A p \in RoomyPlatforms : TablesAgree(p)
=============================================================================
