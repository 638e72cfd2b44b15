------------------------------- MODULE MC_ImportCmdLine -------------------------------
(***************************************************************************)
(* Command lines of up to three words for the two import tools.  A         *)
(* top-level path with an "_" in it and the rows of the tables around it:  *)
(* one under it, one of a sibling directory whose name differs from it at  *)
(* the "_", one elsewhere.                                                 *)
(***************************************************************************)
EXTENDS ImportCmdLine

CONSTANT MCNoArg

Short(n) == [kind |-> "short", name |-> n, arg |-> MCNoArg]
Long(n) == [kind |-> "long", name |-> n, arg |-> MCNoArg]
Operand(p) == [kind |-> "operand", name |-> p, arg |-> MCNoArg]

MCTop == <<"/", "a", "_">>
MCDbPaths == {<<"/", "a", "_", "/", "b">>, <<"/", "a", "b", "/", "b">>, <<"/", "b", "/", "a">>}

\* Words of both tools: the command options, the flags, -c with its
\* argument attached and without, an unknown option, an operand.
CommonWords ==
  {Short("r"), Long("retry"), Short("F"), Long("forget_failures"), Short("h"),
   Short("f"), Long("list_failures"), [Short("c") EXCEPT !.arg = "file"], Short("c"),
   Short("z"), Operand(MCTop)}
DirsWords == CommonWords \cup {Short("d"), Long("delta")}
FilesWords == CommonWords \cup {Short("x"), [Short("s") EXCEPT !.arg = "cls"], Short("k")}

ArgvsOver(W) == UNION {[1..n -> W] : n \in 0..3}
MCDirsArgvs == ArgvsOver(DirsWords)
MCFilesArgvs == ArgvsOver(FilesWords)

====
