------------------------------- MODULE MCScan -------------------------------
(***************************************************************************)
(* Three trees: everything a name and a content can be, side by side; an   *)
(* output directory, a junction and a nested one in the middle; nothing.   *)
(***************************************************************************)
EXTENDS Scan

File(d, name, small, content) ==
  [depth |-> d, type |-> "file", name |-> name, small |-> small, content |-> content]

Directory(d, type, name) ==
  [depth |-> d, type |-> type, name |-> name, small |-> FALSE, content |-> "junk"]

Flat ==
  << File(1, "pe", FALSE, "pe"), File(1, "companion", FALSE, "pe"),
     File(1, "so", FALSE, "overlimit"), File(1, "package", FALSE, "package"),
     File(1, "metadata", TRUE, "metadata"), File(1, "pe", FALSE, "locked"),
     File(1, "asset", FALSE, "pe"), File(1, "so", FALSE, "junk"),
     File(1, "metadata", FALSE, "so") >>

Deep ==
  << Directory(1, "dir", "asset"), File(2, "so", FALSE, "so"),
     Directory(2, "dir", "unpack"), File(3, "pe", FALSE, "pe"),
     Directory(3, "dir", "asset"), File(4, "so", FALSE, "so"),
     File(2, "pe", FALSE, "panics"), Directory(2, "broken", "asset"),
     Directory(1, "junction", "asset"), File(2, "pe", FALSE, "pe"),
     File(1, "unpack", FALSE, "pe"), File(1, "pe", TRUE, "pe"),
     File(1, "metadata", FALSE, "metadata") >>

AllTrees == {Flat, Deep, <<>>}
=============================================================================
