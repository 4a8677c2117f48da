------------------------------ MODULE MCWebApp ------------------------------
(***************************************************************************)
(* Small pages: a DLL with a companion, an EXE, and drops that repeat a    *)
(* name in another size or under another kind.                             *)
(***************************************************************************)
EXTENDS WebApp

MCCompanionOf == [m \in Modules |-> CASE m = "a" -> "a._" [] m = "b" -> "b._"]

File(name, size, kind) == [name |-> name, size |-> size, kind |-> kind]

\* The companion alone fits the limit, with its base it does not.
MCDrops ==
  {<<File("a", 1, "dll")>>,
   <<File("b", 1, "exe"), File("a", 2, "dll")>>,
   <<File("a._", 1, "unknown"), File("b", 1, "metadata")>>,
   <<File("b", 2, "android")>>,
   <<File("a", 1, "unknown"), File("b", 1, "metadata")>>}

\* Repeats of one module, the second time with a companion or a larger file.
MCGuardDrops ==
  {<<File("a", 1, "dll")>>,
   <<File("a._", 1, "unknown"), File("b", 1, "exe")>>}
=============================================================================
