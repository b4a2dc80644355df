---------------------------- MODULE ConfigParser ----------------------------
(***************************************************************************)
(* ParseFile of pkg/sshconfig: one file read line by line, Include lines   *)
(* read recursively.  The recursion is a stack of frames.  A file is its   *)
(* lines; a file's number is its place in lexical order, so that a glob    *)
(* can be a set of files.  An empty sequence of conditions is Go's nil.    *)
(***************************************************************************)
EXTENDS Naturals, Sequences, SequencesExt

CONSTANTS
  Files,       \* every file, or directory, that an Include may match
  Conditions,  \* the conditions of Host and Match lines
  Directives,  \* keyword and value of the other lines
  Trees,       \* what the files may hold
  MaxDepth     \* deepest Include (16 in the code)

Line ==
  [kind : {"block"}, conds : Seq(Conditions)]       \* Host, Match
    \cup [kind : {"option"}, dir : Directives]
    \cup [kind : {"include"}, paths : Seq(SUBSET Files)]
    \cup [kind : {"bad"}]                           \* unreadable or malformed

File == [kind : {"text"}, lines : Seq(Line)]
          \cup [kind : {"unreadable", "directory", "dangling"}]

Entry == [conds : Seq(Conditions), dir : Directives]

ASSUME FilesAssumption == Files \subseteq Nat /\ IsFiniteSet(Files)
ASSUME TreesAssumption == Trees \subseteq [Files -> File]
ASSUME DepthAssumption == MaxDepth \in Nat

VARIABLES
  tree,     \* the contents of the files, chosen at the start
  stack,    \* parseReader's frames, the innermost last
  visited,  \* visitedFiles
  status,   \* of the parse: idle, reading, parsed or failed
  result    \* what ParseFile returned

parserVars == <<tree, stack, visited, status, result>>

Frame ==
  [file : Files, line : Nat, conds : Seq(Conditions), entries : Seq(Entry),
   including : BOOLEAN, paths : Seq(SUBSET Files), matches : SUBSET Files,
   included : Seq(Entry)]

ParserTypeOK ==
  /\ tree \in [Files -> File]
  /\ stack \in Seq(Frame)
  /\ visited \in SUBSET Files
  /\ status \in {"idle", "reading", "parsed", "failed"}
  /\ result \in Seq(Entry)

ParserInit ==
  /\ tree \in Trees
  /\ stack = <<>>
  /\ visited = {}
  /\ status = "idle"
  /\ result = <<>>

-----------------------------------------------------------------------------

Top == Last(stack)
WithTop(f) == [stack EXCEPT ![Len(stack)] = f]

NewFrame(f) ==
  [file |-> f, line |-> 0, conds |-> <<>>, entries |-> <<>>,
   including |-> FALSE, paths |-> <<>>, matches |-> {}, included |-> <<>>]

\* Any error ends the whole parse; the deferred deletes empty visitedFiles.
Fail ==
  /\ status' = "failed" /\ stack' = <<>> /\ visited' = {}
  /\ UNCHANGED <<tree, result>>

\* Replaces the innermost frame.
Becomes(f) ==
  /\ stack' = WithTop(f)
  /\ UNCHANGED <<tree, visited, status, result>>

\* ParseFile: parseFile at depth 0.
Start(f) ==
  /\ status = "idle"
  /\ \/ /\ tree[f].kind = "text"
        /\ status' = "reading" /\ stack' = <<NewFrame(f)>> /\ visited' = {f}
        /\ UNCHANGED <<tree, result>>
     \/ tree[f].kind # "text" /\ Fail

(* parseReader: one step per line *)

BetweenLines == status = "reading" /\ ~Top.including
AtEnd == Top.line = Len(tree[Top.file].lines)
NextLine == tree[Top.file].lines[Top.line + 1]
At(kind) == BetweenLines /\ ~AtEnd /\ NextLine.kind = kind

ReadBlock ==
  /\ At("block")
  /\ Becomes([Top EXCEPT !.line = @ + 1, !.conds = NextLine.conds])

ReadOption ==
  /\ At("option")
  /\ Becomes([Top EXCEPT !.line = @ + 1,
       !.entries = Append(@, [conds |-> Top.conds, dir |-> NextLine.dir])])

ReadBad == At("bad") /\ Fail

\* handleInclude: paths are globs, taken one after the other.
ReadInclude ==
  /\ At("include")
  /\ Becomes([Top EXCEPT !.line = @ + 1, !.including = TRUE, !.paths = NextLine.paths])

(* handleInclude: one step per path, and per match in lexical order *)

Including == status = "reading" /\ Top.including
Match(f) == Including /\ f \in Top.matches /\ \A g \in Top.matches : f <= g
After(f) == [Top EXCEPT !.matches = @ \ {f}]

\* A slip: no cycle detection.
NeverSeen(f) == FALSE

IsFile(f) == tree[f].kind \in {"text", "unreadable"}
TooDeep == Len(stack) > MaxDepth
Seen(f) == f \in visited

NextPath ==
  /\ Including /\ Top.matches = {} /\ Top.paths # <<>>
  /\ Becomes([Top EXCEPT !.matches = Head(Top.paths), !.paths = Tail(@)])

SkipMatch(f) == Match(f) /\ ~IsFile(f) /\ Becomes(After(f))

ExceedDepth(f) == Match(f) /\ IsFile(f) /\ TooDeep /\ Fail

\* Already being read: skip to avoid a cycle.
SkipVisited(f) == Match(f) /\ IsFile(f) /\ ~TooDeep /\ Seen(f) /\ Becomes(After(f))

OpenMatch(f) ==
  /\ Match(f) /\ IsFile(f) /\ ~TooDeep /\ ~Seen(f)
  /\ \/ tree[f].kind = "unreadable" /\ Fail
     \/ /\ tree[f].kind = "text"
        /\ stack' = Append(WithTop(After(f)), NewFrame(f))
        /\ visited' = visited \cup {f}
        /\ UNCHANGED <<tree, status, result>>

\* A slip: the conditions of the including block replace those of the entry.
Overrule(entries, conds) ==
  [i \in DOMAIN entries |->
    IF conds # <<>> THEN [entries[i] EXCEPT !.conds = conds] ELSE entries[i]]

\* Included entries without conditions get those of the including block.
Inherit(entries, conds) ==
  [i \in DOMAIN entries |->
    IF entries[i].conds = <<>> THEN [entries[i] EXCEPT !.conds = conds] ELSE entries[i]]

\* A slip: handleInclude is called again for the same line.
EndIncludeAgain ==
  /\ Including /\ Top.matches = {} /\ Top.paths = <<>>
  /\ Becomes([Top EXCEPT !.included = <<>>, !.entries = @ \o Inherit(Top.included, Top.conds)])

EndInclude ==
  /\ Including /\ Top.matches = {} /\ Top.paths = <<>>
  /\ Becomes([Top EXCEPT !.including = FALSE, !.included = <<>>,
       !.entries = @ \o Inherit(Top.included, Top.conds)])

\* parseFile returns, to handleInclude of the frame below or to ParseFile's caller.
EndFile ==
  /\ BetweenLines /\ AtEnd
  /\ visited' = visited \ {Top.file}
  /\ \/ /\ Len(stack) = 1
        /\ stack' = <<>> /\ status' = "parsed" /\ result' = Top.entries
     \/ /\ Len(stack) > 1
        /\ stack' = [Front(stack) EXCEPT ![Len(stack) - 1].included = @ \o Top.entries]
        /\ UNCHANGED <<status, result>>
  /\ UNCHANGED tree

ParserStep ==
  \/ ReadBlock \/ ReadOption \/ ReadBad \/ ReadInclude
  \/ NextPath \/ EndInclude \/ EndFile
  \/ \E f \in Files : SkipMatch(f) \/ ExceedDepth(f) \/ SkipVisited(f) \/ OpenMatch(f)

ParserNext == (\E f \in Files : Start(f)) \/ ParserStep

ParserSpec == ParserInit /\ [][ParserNext]_parserVars
-----------------------------------------------------------------------------
(* Properties *)

\* Cycle detection (parser.go:60-64): visitedFiles is emptied on the way back, so
\* it is exactly the set of the files being read, and no file is being read twice.
\* Otherwise a file included in two places would be read once, or a cycle for ever.
VisitedAreBeingRead ==
  /\ visited = {stack[i].file : i \in DOMAIN stack}
  /\ \A i, j \in DOMAIN stack : stack[i].file = stack[j].file => i = j

\* A file that includes itself, directly or not, is no error (parser.go:61): a
\* parse only fails over something that cannot be read, or over a chain of more
\* files than the deepest Include.
CyclesAreHarmless ==
  status = "failed" =>
    \/ \E f \in Files : \/ tree[f].kind \in {"unreadable", "directory"}
                        \/ /\ tree[f].kind = "text"
                           /\ \E i \in DOMAIN tree[f].lines : tree[f].lines[i].kind = "bad"
    \/ Cardinality({f \in Files : IsFile(f)}) > MaxDepth

\* parser.go:121: "Included entries inherit the current conditions context".  When an Include
\* line is done, each of the entries that it has added stands under all the conditions that
\* are in force at that line, besides its own.  (Only entries without conditions do.)
IncludedInherit ==
  [][EndInclude =>
       LET entries == Last(stack').entries
           added == SubSeq(entries, Len(Top.entries) + 1, Len(entries))
       IN \A i \in DOMAIN added : ToSet(Top.conds) \subseteq ToSet(added[i].conds)]_parserVars
=============================================================================
