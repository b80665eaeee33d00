--------------------------- MODULE MCOperationRun ---------------------------
(* The operation run on a small machine: a disk with two partitions, four    *)
(* devices stacked over the first, the last with partitions of its own, one  *)
(* more over the second and one of those, a loop device and an image file.   *)
EXTENDS OperationRun

MCDisks == {"sda", "loop0"}
MCParts == {"sda1", "sda2", "md3p1", "md3p2"}
MCStacked == {"md0", "md1", "md2", "md3", "md4"}
MCParent == [sda1 |-> "sda", sda2 |-> "sda", md3p1 |-> "md3", md3p2 |-> "md3"]
MCSlaves == [md0 |-> {"sda1"}, md1 |-> {"md0"}, md2 |-> {"md1"}, md3 |-> {"md2"},
             md4 |-> {"sda2", "md3p1"}]
MCExtent == [d \in MCDisks \cup MCParts \cup MCStacked |->
  CASE d = "sda" -> {1, 2, 3}
    [] d = "sda2" -> {3}
    [] d = "md3p1" -> {1}
    [] d = "md3p2" -> {2}
    [] d = "md4" -> {1, 3}
    [] d = "loop0" -> {9}
    [] OTHER -> {1, 2}]
MCTargets == {"sda", "md3p2", "img1"}
MCUses == [kind : {"mount"}, on : {"sda", "md3p2", "md4", "loop0", "img1"}]
            \cup [kind : {"media"}, on : {"md3p2"}]
            \cup [kind : {"anon"}, on : {"md3"}]
            \cup [kind : {"swap"}, on : {"sda2", "img1"}]
MCIdKind == [card1 |-> "hw", card2 |-> "number"]
MCLabel == [m \in {"card1", "card2"} |-> [d \in MCDisks \cup MCParts \cup MCStacked |-> "slot"]]

Module(format, caps, trusted) == [format |-> format, caps |-> caps, trusted |-> trusted, v2 |-> TRUE]
Every == {"analyse", "relayout", "growth", "recover"}
Installed(new, alt) == [f \in {"NEW.so", "ALT.so", "OFS.so"} |->
  CASE f = "NEW.so" -> new [] f = "ALT.so" -> alt
    [] OTHER -> Module("ofs", Every \ {"growth"}, TRUE)]
MCInstallations ==
  { Installed(Module("newfs", Every, TRUE), NoModule),
    Installed(Module("newfs", Every, TRUE), Module("newfs", Every, TRUE)),
    Installed(Module("other", Every, TRUE), Module("newfs", {"analyse", "relayout"}, TRUE)),
    Installed(Module("newfs", Every, FALSE), NoModule) }
(* The argument list of desktop_operation_arguments, in its order and in the *)
(* reverse one, whole or with one option left out, repeated or wrong.        *)
Whole(o, f) == << <<"--filesystem", f>>, <<"--write">>, <<"--confirm", "/target">>,
                  <<"--journal", "state.journal">> >>
                \o (IF o = "growth-defrag" THEN << <<"--growth-percent", "10">> >> ELSE <<>>)
Flat(options) == FoldLeft(LAMBDA a, b : a \o b, <<>>, options)
Variants(w) == {w, Reverse(w)} \cup {RemoveAt(w, i) : i \in DOMAIN w} \cup {Append(w, w[1]), Append(w, <<"--filesystem", "affs">>)}
                 \cup {Append(w, <<"--ram-buffer", "8">>), Append(w, <<"--unknown">>),
                       Append(w, <<"--confirm">>)}
(* Values spelled as options: of the two the policy reads the same, and of three *)
(* more the engine takes one for its own.                                        *)
MCAttached == ("--filesystem=affs" :> "affs")
Spelled(o, tail) == <<o, "/target">> \o Flat(Whole(o, "newfs")) \o tail
MCArguments ==
  {<<o, "/target">> \o Flat(v) : <<o, v>> \in
     {"growth-defrag"} \X Variants(Whole("growth-defrag", "newfs"))
       \cup {"recover"} \X {Whole("recover", "newfs"), Reverse(Whole("recover", "newfs"))}
       \cup {"defrag"} \X {Whole("defrag", f) : f \in {"affs", "swap", "New-FS", "bad/fs"}}}
    \cup { Spelled("growth-defrag", <<"--ram-buffer", "--confirm">>),
           Spelled("growth-defrag", <<"--ram-buffer", "--write">>),
           Spelled("growth-defrag", <<"--ram-buffer", "--filesystem=affs">>),
           Spelled("recover", <<"--ram-buffer", "--filesystem", "--batch-clusters", "8">>),
           Spelled("recover", <<"--ram-buffer", "--filesystem">>),
           Spelled("growth-defrag", <<"--ram-buffer", "--version">>),
           <<"recover", "/other">> \o Flat(Whole("recover", "newfs")),
           <<"analyse", "/target">>, <<>> }
=============================================================================
