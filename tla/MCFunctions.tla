----------------------------- MODULE MCFunctions -----------------------------
(***************************************************************************)
(* The functions of the file system, of the C library and of grep against  *)
(* reference definitions, over every small input: each initial state is    *)
(* one input.                                                              *)
(***************************************************************************)
EXTENDS FileSystemInputs, CLibraryInputs, GrepInputs

\* One conversion with every number, two with a few.
FewTokens ==
  {t \in Tokens : t.form \in {"hex", "padded", "unsigned", "signed"}
                    => t.arg \in {0, 10, WordValues - 1}}
SomePrints ==
  [kind : {"print"},
   tokens : {<<t>> : t \in Tokens} \cup {<<t, u>> : t, u \in FewTokens}]

\* The buffer held one byte before, everywhere.
SomeSearches == SearchesOf({[i \in 0 .. BUFSIZE |-> old] : old \in {0, 98}})

Init == FileInput \/ MemoryOrString \/ input \in SomePrints \cup SomeSearches
Next == SameInput
Spec == Init /\ [][Next]_input
=============================================================================
