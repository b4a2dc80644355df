---------------------------- MODULE FlatReading ----------------------------
(***************************************************************************)
(* The flat reading of a file, from the outside in: an option stands under *)
(* the last Host or Match line before it in its own file, and if there is  *)
(* none under the conditions in force where its file is included.  (So a   *)
(* Host or Match line of an included file leaves the block that includes   *)
(* it, which parser.go:121 does not say: IncludedInherit in ConfigParser.) *)
(* A file that is being read already is passed over.                       *)
(***************************************************************************)
EXTENDS ConfigParser

\* The files of a glob in lexical order; "read" is what each of them says.
LastFile == Max(Files \cup {0})
OfGlob(glob, read) ==
  FlattenSeq([n \in 1 .. LastFile + 1 |-> IF n - 1 \in glob THEN read[n - 1] ELSE <<>>])
OfGlobs(globs, read) == FlattenSeq([i \in DOMAIN globs |-> OfGlob(globs[i], read)])

\* The conditions at line i, by the lines themselves and by where the file is included.
Blocks(lines, i) == {b \in 1 .. i : lines[b].kind = "block"}
Own(lines, i) == IF Blocks(lines, i) = {} THEN <<>> ELSE lines[Max(Blocks(lines, i))].conds
InForceAt(lines, i, outer) == IF Own(lines, i) = <<>> THEN outer ELSE Own(lines, i)

\* A file, the conditions where it is included, and the files it is included from.
Place == Files \X Seq(Conditions) \X SUBSET Files

OfLine(line, conds, open, deeper) ==
  CASE line.kind = "option"  -> <<[conds |-> conds, dir |-> line.dir]>>
    [] line.kind = "include" -> OfGlobs(line.paths, [f \in Files |-> deeper[<<f, conds, open>>]])
    [] OTHER                 -> <<>>

OfLines(lines, outer, open, deeper) ==
  [i \in DOMAIN lines |-> OfLine(lines[i], InForceAt(lines, i, outer), open, deeper)]

OfFile(t, f, outer, open, deeper) ==
  IF f \in open \/ t[f].kind # "text" THEN <<>>
  ELSE FlattenSeq(OfLines(t[f].lines, outer, open \cup {f}, deeper))

\* What there is to read at each place of the files t, through n files that include each other.
Reading(t) ==
  LET within[n \in 0 .. MaxDepth + 1] ==
        [p \in Place |-> IF n = 0 THEN <<>> ELSE OfFile(t, p[1], p[2], p[3], within[n - 1])]
  IN within

\* ParseFile follows at most MaxDepth Includes.
FlatReadingOf(f) == Reading(tree)[MaxDepth + 1][<<f, <<>>, {}>>]
=============================================================================
