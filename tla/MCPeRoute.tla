------------------------------ MODULE MCPeRoute ------------------------------
(***************************************************************************)
(* Every input up to what no stage of it looks at: an input without a      *)
(* spliced companion has no overlays, one with it no DLL layout.           *)
(***************************************************************************)
EXTENDS PeRoute

FatesOf(dll, exe) == [l \in Layouts |-> IF l = "dll" THEN dll ELSE exe]

Plain ==
  [kind : {"exe", "dll"}, companion : {"absent", "unreadable", "other"}, declares : BOOLEAN,
   fate : {FatesOf(d, e) : d, e \in Fates}, tls : {{}}, managed : {TRUE},
   overlaid : {"clean"}, writable : BOOLEAN]

Paired ==
  [kind : {"exe", "dll"}, companion : {"pairs"}, declares : BOOLEAN,
   fate : {FatesOf("clean", e) : e \in Fates}, tls : SUBSET TlsParts, managed : BOOLEAN,
   overlaid : Reports, writable : BOOLEAN]

Foreign ==
  [kind : {"none"}, companion : {"absent", "pairs"}, declares : {FALSE},
   fate : {FatesOf("error", "error")}, tls : {{}}, managed : {TRUE}, overlaid : {"clean"},
   writable : {TRUE}]

AllInputs == Plain \cup Paired \cup Foreign
=============================================================================
