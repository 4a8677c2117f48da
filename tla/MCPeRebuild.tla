----------------------------- MODULE MCPeRebuild -----------------------------
(* Protected files that differ from a plain one of their kind in at most  *)
(* two ways.                                                              *)
EXTENDS PeRebuild

Plain ==
  [kind |-> "exe64", header |-> "good", payload |-> 1, longer |-> TRUE, tables |-> <<1, 2>>, second |-> 2,
   counted |-> TRUE, third |-> 17, eighth |-> 2, stage3 |-> 4, stage5 |-> 3, damaged |-> "nothing",
   small |-> TRUE, anchor |-> "found", anchored |-> "table", listed |-> "table", new |-> FALSE, slots |-> TRUE,
   operations |-> TRUE, blocks |-> "good", compressed |-> TRUE, decryptor |-> 0, wiped |-> FALSE,
   inBlocks |-> {"code", "open", "dll name"}, inText |-> {"code", "clr", "metadata", "resources"},
   pages |-> 4, padding |-> 40, page |-> "page15", oracle |-> FALSE,
   names |-> [n \in {"open", "dll name"} |-> 1], table |-> TRUE, tableLast |-> FALSE, room |-> TRUE, idata |-> FALSE,
   oversize |-> FALSE, exports |-> "held", entry |-> "text", tls |-> "stub", sections |-> TRUE,
   clr |-> "none", resources |-> FALSE, relocatable |-> TRUE, flags |-> "movable", custom |-> "found",
   dll |-> FALSE]

Old64 == Plain
New64 == [Plain EXCEPT !.new = TRUE, !.inText = @ \cup {"open", "dll name", "meta"},
                   !.inBlocks = @ \cup {"meta"}, !.dll = TRUE]
Program32 == [Plain EXCEPT !.kind = "exe32", !.inText = {"code", "open"}]
Library64 == [Plain EXCEPT !.kind = "dll64", !.page = "none", !.dll = TRUE]

Shared ==
  [header |-> {"magic"}, payload |-> {2}, anchored |-> {"none"}, listed |-> {"none"}, operations |-> {FALSE},
   blocks |-> {"section decompression"}, inBlocks |-> {{"code"}}, padding |-> {0, 10}, pages |-> {0, 1},
   page |-> {"none", "page0"}, names |-> {[n \in {"open"} |-> 2]}, exports |-> {"none", "unheld"},
   tls |-> {"none", "kept", "lost"}, clr |-> {"whole", "no signature", "blank"}, relocatable |-> {FALSE},
   flags |-> {"zero", "other"}, dll |-> {TRUE, FALSE}, entry |-> {"zero", "data"}]

Only64 ==
  [anchor |-> {"no anchor", "no stage 1 descriptor"}, damaged |-> {"stage1", "stage2", "stage4"},
   stage3 |-> {0, 8, NoCandidate}, stage5 |-> {7, NoCandidate}, small |-> {FALSE}, slots |-> {FALSE}, table |-> {FALSE}, oracle |-> {TRUE}, resources |-> {TRUE},
   clr |-> {"foreign"}, page |-> {"page0"}]

Only32 ==
  [damaged |-> {"fourth", "fifth", "seventh"}, longer |-> {FALSE}, tables |-> {<<>>, <<2>>, <<1>>}, counted |-> {FALSE},
   third |-> {19, 11, NoCandidate}, eighth |-> {1, NoCandidate}, decryptor |-> {1, 2, NoCandidate}, compressed |-> {FALSE}, wiped |-> {TRUE},
   custom |-> {"custom decryptor not found", "bytecode"},
   tableLast |-> {TRUE}, room |-> {FALSE}, idata |-> {TRUE}, oversize |-> {TRUE}, sections |-> {FALSE}]

OnlyDll == [damaged |-> {"descriptor", "block1", "block2", "block3", "block4"}, resources |-> {TRUE}]

Changed(files, choices) ==
  files \cup UNION {{[p EXCEPT ![f] = v] : p \in files, v \in choices[f]} : f \in DOMAIN choices}

Twice(plain, only) ==
  LET once == Changed({plain}, Shared) \cup Changed({plain}, only)
  IN Changed(once, Shared) \cup Changed(once, only)

\* A header of managed code is empty in the protected files of native libraries only.
Considered(p) == p.clr = "whole" => "clr" \notin p.inBlocks

MCFiles ==
  {p \in Twice(Old64, Only64) \cup Twice(New64, Only64) \cup Twice(Program32, Only32) \cup Twice(Library64, OnlyDll) :
     Considered(p)}
===============================================================================
