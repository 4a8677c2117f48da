----------------------------- MODULE MCFolderRun -----------------------------
(***************************************************************************)
(* Small folders for FolderRun.  Libraries "A" and "A2" carry the same     *)
(* application's two modules, "B" another application's, "N" none; "A"     *)
(* embeds metadata.  "v24" needs a module, "v29" does not.                 *)
(***************************************************************************)
EXTENDS FolderRun

MCModuleOf == [c \in Library |-> CASE c = "A"  -> "mA"
                                   [] c = "A2" -> "mA2"
                                   [] c = "B"  -> "mB"
                                   [] OTHER    -> NoModule]

Loose(content, root, pos) ==
  [package |-> 0, nested |-> 0, pos |-> pos, so |-> content \in Library,
   content |-> content, root |-> root]

Entry(content, package, nested, pos) ==
  [package |-> package, nested |-> nested, pos |-> pos, so |-> content \in Library,
   content |-> content, root |-> NoName]

Apk(name)     == [bundle |-> FALSE, dir |-> 1, names |-> <<name>>]
Bundle(names) == [bundle |-> TRUE, dir |-> 1, names |-> names]

\* A loose tree, a loose blob outside it, a PE, and an .apk that repeats the
\* tree's library for another application.
Tree ==
  [packages |-> <<Apk("game")>>,
   files |-> {Loose("pe", NoName, 1), Loose("A", "root", 2), Loose("v24", "root", 3),
              Loose("v29", NoName, 4),
              Entry("A", 1, 1, 1), Entry("v24", 1, 1, 2)}]

\* A split set whose metadata comes first in walk order, an unrelated .apk
\* between its members, and a conflicting module in the last split.
Split ==
  [packages |-> <<Apk("game"), Apk("other"), Apk("game")>>,
   files |-> {Entry("v24", 1, 1, 1), Entry("A", 3, 1, 2), Entry("A2", 1, 1, 3),
              Entry("B", 2, 1, 1), Entry("v24", 2, 1, 2)}]

\* A bundle of two applications and an unnamed nested APK, with the .apk of
\* one of them behind it in walk order.
Bundles ==
  [packages |-> <<Bundle(<<"game", NoName, "game", "other">>), Apk("game")>>,
   files |-> {Entry("v24", 1, 1, 1), Entry("v24", 1, 2, 1), Entry("A", 1, 3, 1),
              Entry("B", 1, 4, 1), Entry("N", 1, 4, 2), Entry("v24", 1, 4, 3),
              Entry("A", 2, 1, 1)}]

\* Repeated blobs, a repeated library without a module and an entry that is
\* no target.
Repeats ==
  [packages |-> <<Apk(NoName), Apk("game"), Apk("game")>>,
   files |-> {Entry("v29", 1, 1, 1), Entry("v29", 2, 1, 1), Entry("other", 2, 1, 2),
              Entry("N", 3, 1, 1), Entry("v24", 3, 1, 2), Entry("N", 1, 1, 2),
              Entry("B", 2, 1, 3), Entry("v24", 2, 1, 4)}]

\* An .apk whose two libraries disagree, one of them a copy of a loose one.
Conflict ==
  [packages |-> <<Apk("game")>>,
   files |-> {Loose("A", "root", 1), Loose("v24", "root", 2),
              Entry("A", 1, 1, 1), Entry("B", 1, 1, 2), Entry("v24", 1, 1, 3)}]

MCFolders == {Tree, Split, Bundles, Repeats, Conflict}
=============================================================================
