------------------------ MODULE ConfigParser_proofs ------------------------
(***************************************************************************)
(* Proofs about ConfigParser, for any files and any depth of Include.      *)
(*                                                                         *)
(* VisitedAreBeingRead is kept by a step that pushes a frame because the   *)
(* new file is not visited, and by one that pops a frame because no other  *)
(* frame reads the same file.  That every frame stands in the text of its  *)
(* file (FramesInText) is what types the next line; together with          *)
(* VisitedAreBeingRead it makes a deep stack a set of as many text files,  *)
(* hence CyclesAreHarmless.                                                *)
(*                                                                         *)
(* The second half is about the flat reading of FlatReading.  A file says  *)
(* under conditions what it says under none, made to inherit them, so the  *)
(* parser may fill them in on its way back.  StackReads says what every    *)
(* frame has of the flat reading of its file; the parts that are pending   *)
(* are the frame above and what is left of the globs.                      *)
(*                                                                         *)
(* The last part is about Patterns, for names over any characters.  A loop *)
(* over a list goes one element further at a time, so each of its results  *)
(* is found by induction over what is done or what is left.                *)
(***************************************************************************)
EXTENDS FlatReading, Patterns, SequenceTheorems, FiniteSetTheorems, WellFoundedInduction, TLAPS

FramesInText ==
  /\ status = "reading" <=> stack # <<>>
  /\ \A i \in 1 .. Len(stack) :
       /\ tree[stack[i].file].kind = "text"
       /\ stack[i].line <= Len(tree[stack[i].file].lines)

ParserInv == ParserTypeOK /\ VisitedAreBeingRead /\ FramesInText

-----------------------------------------------------------------------------
(* The lines of a file, one by one.                                        *)

LEMMA LinesOfText ==
  ASSUME NEW f \in Files, tree \in [Files -> File], tree[f].kind = "text"
  PROVE  tree[f].lines \in Seq(Line)
BY DEF File

LEMMA LineTypes ==
  ASSUME NEW l \in Line
  PROVE  /\ l.kind = "block" => l.conds \in Seq(Conditions)
         /\ l.kind = "option" => l.dir \in Directives
         /\ l.kind = "include" => l.paths \in Seq(SUBSET Files)
BY DEF Line

LEMMA InheritTyped ==
  ASSUME NEW entries \in Seq(Entry), NEW conds \in Seq(Conditions)
  PROVE  Inherit(entries, conds) \in Seq(Entry)
<1>1. /\ Len(entries) \in Nat /\ DOMAIN entries = 1 .. Len(entries)
      /\ \A i \in 1 .. Len(entries) : entries[i] \in Entry
  BY LenProperties, ElementOfSeq
<1>2. ASSUME NEW e \in Entry PROVE [e EXCEPT !.conds = conds] \in Entry
  BY DEF Entry
<1>3. Inherit(entries, conds) \in [1 .. Len(entries) -> Entry]
  BY <1>1, <1>2 DEF Inherit
<1>4. QED
  BY <1>1, <1>3, SeqDef

-----------------------------------------------------------------------------
(* The stack.                                                              *)

LEMMA TopProperties ==
  ASSUME ParserInv, stack # <<>>
  PROVE  /\ Len(stack) \in Nat \ {0} /\ Top = stack[Len(stack)] /\ Top \in Frame
         /\ Top.file \in Files /\ Top.file \in visited
         /\ tree[Top.file].kind = "text" /\ tree[Top.file].lines \in Seq(Line)
         /\ Top.line <= Len(tree[Top.file].lines)
<1>1. Len(stack) \in Nat \ {0} /\ DOMAIN stack = 1 .. Len(stack)
  BY EmptySeq, LenProperties DEF ParserInv, ParserTypeOK
<1>2. Top = stack[Len(stack)] /\ Top \in Frame
  BY <1>1, ElementOfSeq DEF ParserInv, ParserTypeOK, Top, Last
<1>3. /\ Top.file \in visited /\ tree[Top.file].kind = "text"
      /\ Top.line <= Len(tree[Top.file].lines)
  BY <1>1, <1>2 DEF ParserInv, VisitedAreBeingRead, FramesInText
<1>4. Top.file \in Files
  BY <1>2 DEF Frame
<1>5. QED
  BY <1>1, <1>2, <1>3, <1>4, LinesOfText DEF ParserInv, ParserTypeOK

\* A step that replaces the innermost frame, in the same file, keeps the invariant.
LEMMA BecomesKeeps ==
  ASSUME ParserInv, status = "reading", NEW f \in Frame, f.file = Top.file,
         f.line <= Len(tree[Top.file].lines), Becomes(f)
  PROVE  ParserInv'
<1>1. stack # <<>>
  BY DEF ParserInv, FramesInText
<1>2. /\ stack \in Seq(Frame) /\ Len(stack) \in Nat \ {0} /\ Top = stack[Len(stack)]
      /\ Len(stack) \in 1 .. Len(stack)
  BY <1>1, TopProperties DEF ParserInv, ParserTypeOK
<1>3. /\ stack' \in Seq(Frame) /\ Len(stack') = Len(stack)
      /\ \A j \in 1 .. Len(stack) : stack'[j] = IF j = Len(stack) THEN f ELSE stack[j]
  BY <1>2, ExceptSeq DEF Becomes, WithTop
<1>4. DOMAIN stack = 1 .. Len(stack) /\ DOMAIN stack' = 1 .. Len(stack)
  BY <1>2, <1>3, LenProperties
<1>5. \A j \in 1 .. Len(stack) : stack'[j].file = stack[j].file
  BY <1>2, <1>3
<1>6. ParserTypeOK'
  BY <1>3 DEF ParserInv, ParserTypeOK, Becomes
<1>7. VisitedAreBeingRead'
  BY <1>4, <1>5 DEF ParserInv, VisitedAreBeingRead, Becomes
<1>8. FramesInText'
  <2>1. stack' # <<>>
    BY <1>2, <1>3, EmptySeq
  <2>2. \A i \in 1 .. Len(stack') : /\ tree[stack'[i].file].kind = "text"
                                    /\ stack'[i].line <= Len(tree[stack'[i].file].lines)
    BY <1>1, <1>2, <1>3, TopProperties DEF ParserInv, FramesInText
  <2>3. QED
    BY <1>1, <2>1, <2>2 DEF ParserInv, FramesInText, Becomes
<1>9. QED
  BY <1>6, <1>7, <1>8 DEF ParserInv

\* An error ends the parse and empties visitedFiles.
LEMMA FailKeeps ==
  ASSUME ParserInv, Fail
  PROVE  ParserInv'
<1>1. ParserTypeOK'
  BY EmptySeq DEF ParserInv, ParserTypeOK, Fail
<1>2. Len(stack') = 0 /\ DOMAIN stack' = {}
  BY EmptySeq DEF Fail
<1>3. QED
  BY <1>1, <1>2 DEF ParserInv, VisitedAreBeingRead, FramesInText, Fail

-----------------------------------------------------------------------------
(* One lemma per group of actions.                                         *)

LEMMA NewFrameTyped ==
  ASSUME NEW f \in Files
  PROVE  NewFrame(f) \in Frame /\ NewFrame(f).file = f /\ NewFrame(f).line = 0
<1>1. <<>> \in Seq(Conditions) /\ <<>> \in Seq(Entry) /\ <<>> \in Seq(SUBSET Files)
  BY EmptySeq
<1>2. QED
  BY <1>1 DEF NewFrame, Frame

LEMMA StartKeeps ==
  ASSUME ParserInv, NEW f \in Files, Start(f)
  PROVE  ParserInv'
<1>1. CASE Fail
  BY <1>1, FailKeeps
<1>2. CASE /\ tree[f].kind = "text" /\ status' = "reading"
           /\ stack' = <<NewFrame(f)>> /\ visited' = {f} /\ UNCHANGED <<tree, result>>
  <2>1. NewFrame(f) \in Frame /\ NewFrame(f).file = f /\ NewFrame(f).line = 0
    BY NewFrameTyped
  <2> DEFINE g == NewFrame(f)
  <2> HIDE DEF g
  <2>2. /\ stack' = <<g>> /\ stack' \in Seq(Frame) /\ Len(stack') = 1 /\ stack'[1] = g
        /\ DOMAIN stack' = {1} /\ stack' # <<>>
    BY <1>2, <2>1 DEF g
  <2>3. ParserTypeOK'
    BY <1>2, <2>2 DEF ParserInv, ParserTypeOK
  <2>4. VisitedAreBeingRead'
    BY <1>2, <2>1, <2>2 DEF VisitedAreBeingRead, g
  <2>5. tree[f].lines \in Seq(Line)
    BY <1>2, LinesOfText DEF ParserInv, ParserTypeOK
  <2>6. 0 <= Len(tree[f].lines)
    BY <2>5, LenProperties
  <2>7. FramesInText'
    BY <1>2, <2>1, <2>2, <2>6 DEF FramesInText, g
  <2>8. QED
    BY <2>3, <2>4, <2>7 DEF ParserInv
<1>3. QED
  BY <1>1, <1>2 DEF Start

\* Reading a line leaves the file and moves to a line that exists.
LEMMA LineKeeps ==
  ASSUME ParserInv, ReadBlock \/ ReadOption \/ ReadInclude
  PROVE  ParserInv'
<1>1. status = "reading" /\ ~AtEnd /\ stack # <<>>
  BY DEF ReadBlock, ReadOption, ReadInclude, At, BetweenLines, ParserInv, FramesInText
<1>2. /\ Top \in Frame /\ tree[Top.file].lines \in Seq(Line)
      /\ Top.line <= Len(tree[Top.file].lines)
  BY <1>1, TopProperties
<1>3. Top.line \in Nat /\ Top.line + 1 \in 1 .. Len(tree[Top.file].lines)
  <2>1. Top.line \in Nat /\ Len(tree[Top.file].lines) \in Nat
    BY <1>2, LenProperties DEF Frame
  <2>2. QED
    BY <1>1, <1>2, <2>1 DEF AtEnd
<1>3a. Top.line + 1 \in Nat
  BY <1>3
<1>4. NextLine \in Line
  BY <1>2, <1>3, ElementOfSeq DEF NextLine
<1>5. CASE ReadBlock
  <2> DEFINE f == [Top EXCEPT !.line = @ + 1, !.conds = NextLine.conds]
  <2>1. NextLine.conds \in Seq(Conditions)
    BY <1>4, <1>5, LineTypes DEF ReadBlock, At
  <2>2. f \in Frame /\ f.file = Top.file /\ f.line = Top.line + 1
    BY <1>2, <1>3a, <2>1 DEF Frame
  <2>3. Becomes(f)
    BY <1>5 DEF ReadBlock
  <2> HIDE DEF f
  <2>4. QED
    BY <1>1, <1>3, <2>2, <2>3, BecomesKeeps
<1>6. CASE ReadOption
  <2> DEFINE e == [conds |-> Top.conds, dir |-> NextLine.dir]
             f == [Top EXCEPT !.line = @ + 1, !.entries = Append(@, e)]
  <2>1. e \in Entry
    BY <1>2, <1>4, <1>6, LineTypes DEF ReadOption, At, Frame, Entry
  <2>2. Append(Top.entries, e) \in Seq(Entry)
    BY <1>2, <2>1, AppendProperties DEF Frame
  <2>3. Becomes(f)
    BY <1>6 DEF ReadOption
  <2> HIDE DEF e
  <2>4. f \in Frame /\ f.file = Top.file /\ f.line = Top.line + 1
    BY <1>2, <1>3a, <2>2 DEF Frame
  <2> HIDE DEF f
  <2>5. QED
    BY <1>1, <1>3, <2>3, <2>4, BecomesKeeps
<1>7. CASE ReadInclude
  <2> DEFINE f == [Top EXCEPT !.line = @ + 1, !.including = TRUE, !.paths = NextLine.paths]
  <2>1. NextLine.paths \in Seq(SUBSET Files)
    BY <1>4, <1>7, LineTypes DEF ReadInclude, At
  <2>2. f \in Frame /\ f.file = Top.file /\ f.line = Top.line + 1
    BY <1>2, <1>3a, <2>1 DEF Frame
  <2>3. Becomes(f)
    BY <1>7 DEF ReadInclude
  <2> HIDE DEF f
  <2>4. QED
    BY <1>1, <1>3, <2>2, <2>3, BecomesKeeps
<1>8. QED
  BY <1>5, <1>6, <1>7

\* Between the matches of an Include the frame keeps its file and its line.
LEMMA IncludeKeeps ==
  ASSUME ParserInv,
         \/ NextPath \/ EndInclude
         \/ \E f \in Files : SkipMatch(f) \/ SkipVisited(f)
  PROVE  ParserInv'
<1>1. status = "reading" /\ stack # <<>>
  BY DEF NextPath, EndInclude, SkipMatch, SkipVisited, Match, Including, ParserInv, FramesInText
<1>2. Top \in Frame /\ Top.line <= Len(tree[Top.file].lines)
  BY <1>1, TopProperties
<1>3. CASE NextPath
  <2> DEFINE f == [Top EXCEPT !.matches = Head(Top.paths), !.paths = Tail(@)]
  <2>1. Head(Top.paths) \in SUBSET Files /\ Tail(Top.paths) \in Seq(SUBSET Files)
    BY <1>2, <1>3, HeadTailProperties DEF NextPath, Frame
  <2>2. f \in Frame /\ f.file = Top.file /\ f.line = Top.line
    BY <1>2, <2>1 DEF Frame
  <2>3. Becomes(f)
    BY <1>3 DEF NextPath
  <2> HIDE DEF f
  <2>4. QED
    BY <1>1, <1>2, <2>2, <2>3, BecomesKeeps
<1>4. CASE \E f \in Files : SkipMatch(f) \/ SkipVisited(f)
  <2>1. PICK f \in Files : Becomes(After(f))
    BY <1>4 DEF SkipMatch, SkipVisited
  <2>2. After(f) \in Frame /\ After(f).file = Top.file /\ After(f).line = Top.line
    BY <1>2 DEF After, Frame
  <2>3. QED
    BY <1>1, <1>2, <2>1, <2>2, BecomesKeeps
<1>5. CASE EndInclude
  <2> DEFINE g == Inherit(Top.included, Top.conds)
             f == [Top EXCEPT !.including = FALSE, !.included = <<>>, !.entries = @ \o g]
  <2>1. g \in Seq(Entry)
    BY <1>2, InheritTyped DEF Frame
  <2>2. Becomes(f)
    BY <1>5 DEF EndInclude
  <2> HIDE DEF g
  <2>3. Top.entries \o g \in Seq(Entry) /\ <<>> \in Seq(Entry)
    BY <1>2, <2>1, ConcatProperties, EmptySeq DEF Frame
  <2>4. f \in Frame /\ f.file = Top.file /\ f.line = Top.line
    BY <1>2, <2>3 DEF Frame
  <2> HIDE DEF f
  <2>5. QED
    BY <1>1, <1>2, <2>2, <2>4, BecomesKeeps
<1>6. QED
  BY <1>3, <1>4, <1>5

\* A file that is opened is not yet visited, so no frame reads it already.
LEMMA OpenKeeps ==
  ASSUME ParserInv, NEW f \in Files, OpenMatch(f)
  PROVE  ParserInv'
<1>1. status = "reading" /\ stack # <<>> /\ f \notin visited
  BY DEF OpenMatch, Match, Including, Seen, ParserInv, FramesInText
<1>2. CASE Fail
  BY <1>2, FailKeeps
<1>3. CASE /\ tree[f].kind = "text"
           /\ stack' = Append(WithTop(After(f)), NewFrame(f))
           /\ visited' = visited \cup {f} /\ UNCHANGED <<tree, status, result>>
  <2> DEFINE n == Len(stack)
             g == After(f)
             h == NewFrame(f)
             s == WithTop(g)
  <2>1. /\ n \in Nat \ {0} /\ n \in 1 .. n /\ stack \in Seq(Frame) /\ Top = stack[n]
        /\ Top \in Frame /\ Top.line <= Len(tree[Top.file].lines)
    BY <1>1, TopProperties DEF ParserInv, ParserTypeOK
  <2>2. g \in Frame /\ g.file = Top.file /\ g.line = Top.line
    BY <2>1 DEF After, Frame
  <2>3. h \in Frame /\ h.file = f /\ h.line = 0
    BY NewFrameTyped
  <2> HIDE DEF g, h
  <2>4. /\ s \in Seq(Frame) /\ Len(s) = n
        /\ \A j \in 1 .. n : s[j] = IF j = n THEN g ELSE stack[j]
    BY <2>1, <2>2, ExceptSeq DEF WithTop
  <2> HIDE DEF s
  <2>5. /\ stack' \in Seq(Frame) /\ Len(stack') = n + 1 /\ stack'[n + 1] = h /\ stack' # <<>>
        /\ \A j \in 1 .. n : stack'[j] = s[j]
    BY <1>3, <2>3, <2>4, AppendProperties DEF s, g, h
  <2>6. DOMAIN stack = 1 .. n /\ DOMAIN stack' = 1 .. n + 1
    BY <2>1, <2>5, LenProperties
  <2>7. /\ \A j \in 1 .. n : stack'[j].file = stack[j].file
        /\ stack'[n + 1].file = f
    BY <2>1, <2>2, <2>3, <2>4, <2>5
  <2>8. ParserTypeOK'
    BY <1>3, <2>5 DEF ParserInv, ParserTypeOK
  <2>9. VisitedAreBeingRead'
    <3>1. \A j \in 1 .. n : stack[j].file \in visited
      BY <2>6 DEF ParserInv, VisitedAreBeingRead
    <3>2. 1 .. n + 1 = (1 .. n) \cup {n + 1}
      BY <2>1
    <3>3. visited' = {stack'[i].file : i \in DOMAIN stack'}
      BY <1>3, <2>6, <2>7, <3>2 DEF ParserInv, VisitedAreBeingRead
    <3>4. \A i, j \in DOMAIN stack' : stack'[i].file = stack'[j].file => i = j
      BY <1>1, <2>6, <2>7, <3>1, <3>2 DEF ParserInv, VisitedAreBeingRead
    <3>5. QED
      BY <3>3, <3>4 DEF VisitedAreBeingRead
  <2>10. FramesInText'
    <3>1. 0 <= Len(tree[f].lines)
      BY <1>3, LinesOfText, LenProperties DEF ParserInv, ParserTypeOK
    <3>2. \A i \in 1 .. Len(stack') : /\ tree[stack'[i].file].kind = "text"
                                      /\ stack'[i].line <= Len(tree[stack'[i].file].lines)
      <4>1. ASSUME NEW i \in 1 .. n
            PROVE  /\ tree[stack'[i].file].kind = "text"
                   /\ stack'[i].line <= Len(tree[stack'[i].file].lines)
        BY <2>1, <2>2, <2>4, <2>5, <2>7 DEF ParserInv, FramesInText
      <4>2. QED
        BY <1>3, <2>1, <2>3, <2>5, <3>1, <4>1
    <3>3. QED
      BY <1>1, <1>3, <2>5, <3>2 DEF FramesInText
  <2>11. QED
    BY <2>8, <2>9, <2>10 DEF ParserInv
<1>4. QED
  BY <1>2, <1>3 DEF OpenMatch

\* The file that has been read is unmarked, and only its frame is gone.
LEMMA EndFileKeeps ==
  ASSUME ParserInv, EndFile
  PROVE  ParserInv'
<1> DEFINE n == Len(stack)
<1>1. status = "reading" /\ stack # <<>>
  BY DEF EndFile, BetweenLines, ParserInv, FramesInText
<1>2. /\ n \in Nat \ {0} /\ n \in 1 .. n /\ stack \in Seq(Frame) /\ DOMAIN stack = 1 .. n
      /\ Top = stack[n] /\ Top \in Frame /\ Top.entries \in Seq(Entry)
  <2>1. stack \in Seq(Frame)
    BY DEF ParserInv, ParserTypeOK
  <2>2. n \in Nat \ {0} /\ Top = stack[n] /\ Top \in Frame
    BY <1>1, TopProperties
  <2>3. DOMAIN stack = 1 .. n
    BY <2>1, LenProperties
  <2>4. Top.entries \in Seq(Entry)
    BY <2>2 DEF Frame
  <2>5. QED
    BY <2>1, <2>2, <2>3, <2>4
<1>3. visited' = visited \ {Top.file} /\ UNCHANGED tree
  BY DEF EndFile
<1>4. CASE n = 1 /\ stack' = <<>> /\ status' = "parsed" /\ result' = Top.entries
  <2>1. stack' \in Seq(Frame) /\ Len(stack') = 0 /\ DOMAIN stack' = {}
    BY <1>4, EmptySeq
  <2>2. ParserTypeOK'
    BY <1>2, <1>3, <1>4, <2>1 DEF ParserInv, ParserTypeOK
  <2>3. visited' = {}
    BY <1>2, <1>3, <1>4 DEF ParserInv, VisitedAreBeingRead
  <2>4. QED
    BY <1>4, <2>1, <2>2, <2>3 DEF ParserInv, VisitedAreBeingRead, FramesInText
<1>5. CASE /\ n > 1 /\ UNCHANGED <<status, result>>
           /\ stack' = [Front(stack) EXCEPT ![n - 1].included = @ \o Top.entries]
  <2> DEFINE s == Front(stack)
             b == stack[n - 1]
             g == [b EXCEPT !.included = @ \o Top.entries]
  <2>1. n - 1 \in Nat \ {0} /\ n - 1 \in 1 .. n /\ n - 1 \in 1 .. n - 1
    BY <1>2, <1>5
  <2>2. b \in Frame
    BY <1>2, <2>1, ElementOfSeq
  <2>3. b.included \o Top.entries \in Seq(Entry)
    BY <1>2, <2>2, ConcatProperties DEF Frame
  <2>4. g \in Frame /\ g.file = b.file /\ g.line = b.line
    BY <2>2, <2>3 DEF Frame
  <2>5. /\ s \in Seq(Frame) /\ Len(s) = n - 1
        /\ \A i \in 1 .. n - 1 : s[i] = stack[i]
    <3>1. \A i \in 1 .. n - 1 : stack[i] \in Frame
      BY <1>2, ElementOfSeq
    <3>2. QED
      BY <1>2, <2>1, <3>1, SubSeqProperties DEF Front
  <2>6. stack' = [s EXCEPT ![n - 1] = g]
    <3>1. s[n - 1] = b
      BY <2>1, <2>5
    <3> HIDE DEF s, b
    <3>2. QED
      BY <1>5, <3>1 DEF s, g
  <2> HIDE DEF s, g
  <2>7. /\ stack' \in Seq(Frame) /\ Len(stack') = n - 1
        /\ \A j \in 1 .. n - 1 : stack'[j] = IF j = n - 1 THEN g ELSE s[j]
    BY <2>1, <2>4, <2>5, <2>6, ExceptSeq
  <2>8. DOMAIN stack' = 1 .. n - 1 /\ stack' # <<>>
    BY <2>1, <2>7, LenProperties, EmptySeq
  <2>9. \A j \in 1 .. n - 1 : stack'[j].file = stack[j].file /\ stack'[j].line = stack[j].line
    BY <2>4, <2>5, <2>7
  <2>10. ParserTypeOK'
    BY <1>3, <1>5, <2>7 DEF ParserInv, ParserTypeOK
  <2>11. VisitedAreBeingRead'
    <3>1. 1 .. n = (1 .. n - 1) \cup {n} /\ n \notin 1 .. n - 1
      BY <1>2
    <3>2. visited' = {stack'[i].file : i \in DOMAIN stack'}
      BY <1>2, <1>3, <2>8, <2>9, <3>1 DEF ParserInv, VisitedAreBeingRead
    <3>3. QED
      BY <1>2, <2>8, <2>9, <3>1, <3>2 DEF ParserInv, VisitedAreBeingRead
  <2>12. FramesInText'
    BY <1>1, <1>2, <1>3, <1>5, <2>1, <2>7, <2>8, <2>9 DEF ParserInv, FramesInText
  <2>13. QED
    BY <2>10, <2>11, <2>12 DEF ParserInv
<1>6. QED
  BY <1>4, <1>5 DEF EndFile

\* Every step of parseReader keeps the invariant.
LEMMA StepKeeps ==
  ASSUME ParserInv, ParserStep
  PROVE  ParserInv'
<1>1. CASE ReadBad \/ \E f \in Files : ExceedDepth(f)
  BY <1>1, FailKeeps DEF ReadBad, ExceedDepth
<1>2. QED
  BY <1>1, LineKeeps, IncludeKeeps, OpenKeeps, EndFileKeeps DEF ParserStep

-----------------------------------------------------------------------------
(* The results.                                                            *)

\* The frames of a stack are as many different text files.
LEMMA DeepStackManyFiles ==
  ASSUME ParserInv
  PROVE  Len(stack) <= Cardinality({f \in Files : IsFile(f)})
<1> DEFINE n == Len(stack)
           T == {f \in Files : IsFile(f)}
           inj == [i \in 1 .. n |-> stack[i].file]
<1>1. /\ n \in Nat /\ DOMAIN stack = 1 .. n /\ \A i \in 1 .. n : stack[i] \in Frame
  BY LenProperties, ElementOfSeq DEF ParserInv, ParserTypeOK
<1>2. \A i \in 1 .. n : stack[i].file \in T
  BY <1>1 DEF ParserInv, FramesInText, Frame, IsFile
<1>3. IsFiniteSet(T)
  BY FilesAssumption, FS_Subset
<1>4. inj \in [1 .. n -> T] /\ \A i, j \in 1 .. n : inj[i] = inj[j] => i = j
  BY <1>1, <1>2 DEF ParserInv, VisitedAreBeingRead
<1> HIDE DEF T, inj
<1>5. inj \in Injection(1 .. n, T)
  BY <1>4 DEF Injection, IsInjective
<1>6. Cardinality(1 .. n) = n
  BY <1>1, FS_Interval
<1>7. Cardinality(1 .. n) <= Cardinality(T)
  BY <1>3, <1>5, FS_Injection
<1>8. QED
  BY <1>6, <1>7 DEF T

\* A step of parseReader fails only over a file or over depth, never over a cycle.
LEMMA FailureExplained ==
  ASSUME ParserInv, ParserStep, status' = "failed"
  PROVE  CyclesAreHarmless'
<1>1. status # "failed"
  BY DEF ParserStep, ReadBlock, ReadOption, ReadBad, ReadInclude, NextPath, EndInclude, EndFile,
         SkipMatch, ExceedDepth, SkipVisited, OpenMatch, Match, Including, At, BetweenLines
<1>2. CASE ReadBad
  <2>1. stack # <<>> /\ ~AtEnd /\ NextLine.kind = "bad" /\ tree' = tree
    BY <1>2 DEF ReadBad, At, BetweenLines, Fail, ParserInv, FramesInText
  <2>2. /\ Top.file \in Files /\ tree[Top.file].kind = "text" /\ Top \in Frame
        /\ tree[Top.file].lines \in Seq(Line) /\ Top.line <= Len(tree[Top.file].lines)
    BY <2>1, TopProperties
  <2>3. Top.line + 1 \in DOMAIN tree[Top.file].lines
    <3>1. /\ Top.line \in Nat /\ Len(tree[Top.file].lines) \in Nat
          /\ DOMAIN tree[Top.file].lines = 1 .. Len(tree[Top.file].lines)
      BY <2>2, LenProperties DEF Frame
    <3>2. QED
      BY <2>1, <2>2, <3>1 DEF AtEnd
  <2>4. QED
    BY <2>1, <2>2, <2>3 DEF CyclesAreHarmless, NextLine
<1>3. CASE \E f \in Files : ExceedDepth(f)
  <2>1. Len(stack) > MaxDepth /\ tree' = tree
    BY <1>3 DEF ExceedDepth, TooDeep, Fail
  <2>2. Cardinality({f \in Files : IsFile(f)}) > MaxDepth
    <3>1. Len(stack) \in Nat /\ Cardinality({f \in Files : IsFile(f)}) \in Nat
      BY LenProperties, FilesAssumption, FS_Subset, FS_CardinalityType DEF ParserInv, ParserTypeOK
    <3>2. QED
      BY <2>1, <3>1, DeepStackManyFiles, DepthAssumption
  <2>3. {f \in Files : IsFile(f)}' = {f \in Files : IsFile(f)}
    BY <2>1 DEF IsFile
  <2>4. QED
    BY <2>2, <2>3 DEF CyclesAreHarmless
<1>4. CASE \E f \in Files : OpenMatch(f)
  <2>1. PICK f \in Files : tree[f].kind = "unreadable" /\ tree' = tree
    BY <1>1, <1>4 DEF OpenMatch, Fail
  <2>2. QED
    BY <2>1 DEF CyclesAreHarmless
<1>5. QED
  BY <1>1, <1>2, <1>3, <1>4
  DEF ParserStep, ReadBlock, ReadOption, ReadInclude, NextPath, EndInclude, EndFile,
      SkipMatch, SkipVisited, Becomes

LEMMA ParserInitInv == ParserInit => ParserInv
<1> SUFFICES ASSUME ParserInit PROVE ParserInv
  OBVIOUS
<1>1. Len(stack) = 0 /\ DOMAIN stack = {}
  BY EmptySeq DEF ParserInit
<1>2. ParserTypeOK
  BY TreesAssumption, EmptySeq DEF ParserInit, ParserTypeOK
<1>3. QED
  BY <1>1, <1>2 DEF ParserInit, ParserInv, VisitedAreBeingRead, FramesInText

\* ParseFile, alone: whatever the files include, visitedFiles is the set of the files
\* being read, and each is read by one call of parseFile (parser.go:60-64).
THEOREM ParserInvariance == ParserSpec => [](ParserTypeOK /\ VisitedAreBeingRead)
<1>1. ParserInv /\ [ParserNext]_parserVars => ParserInv'
  <2> SUFFICES ASSUME ParserInv, [ParserNext]_parserVars PROVE ParserInv'
    OBVIOUS
  <2>1. CASE ParserNext
    BY <2>1, StartKeeps, StepKeeps DEF ParserNext
  <2>2. CASE UNCHANGED parserVars
    BY <2>2 DEF ParserInv, ParserTypeOK, VisitedAreBeingRead, FramesInText, parserVars
  <2>3. QED
    BY <2>1, <2>2
<1>2. ParserInv => ParserTypeOK /\ VisitedAreBeingRead
  BY DEF ParserInv
<1>3. QED
  BY ParserInitInv, <1>1, <1>2, PTL DEF ParserSpec

-----------------------------------------------------------------------------
(* Induction, and sequences put one behind the other.                      *)

Associative(E) == \A a, b, c \in Seq(E) : (a \o b) \o c = a \o (b \o c)

LEMMA ConcatThree == ASSUME NEW E PROVE Associative(E)
BY ConcatAssociative DEF Associative

\* Every set of natural numbers that is not empty has a least one.
LEMMA Least ==
  ASSUME NEW T, T \subseteq Nat, T # {}
  PROVE  \E x \in T : \A y \in T : x <= y
<1>1. IsWellFoundedOn(OpToRel(<, Nat), Nat)
  BY NatLessThanWellFounded
<1>2. PICK x \in T : \A y \in T : ~(<<y, x>> \in OpToRel(<, Nat))
  BY <1>1, WFMin
<1>3. \A y \in T : ~(y < x)
  BY <1>2 DEF OpToRel
<1>4. QED
  BY <1>3

\* Induction up to m, for a set of numbers.
LEMMA InductionUpTo ==
  ASSUME NEW m \in Nat, NEW N, 0 \in N, \A n \in Nat : n < m /\ n \in N => n + 1 \in N
  PROVE  \A n \in 0 .. m : n \in N
<1> SUFFICES ASSUME {n \in 0 .. m : n \notin N} # {} PROVE FALSE
  OBVIOUS
<1>1. PICK x \in {n \in 0 .. m : n \notin N} : \A y \in {n \in 0 .. m : n \notin N} : x <= y
  <2>1. {n \in 0 .. m : n \notin N} \subseteq Nat
    OBVIOUS
  <2>2. QED
    BY <2>1, Least
<1>2. x - 1 \in Nat /\ x - 1 < m /\ x - 1 \notin N
  BY <1>1
<1>3. QED
  BY <1>1, <1>2

\* The first i parts, one behind the other.
UpTo(parts) ==
  LET upTo[i \in 0 .. Len(parts)] == IF i = 0 THEN <<>> ELSE upTo[i - 1] \o parts[i] IN upTo

LEMMA PartByPart ==
  ASSUME NEW E, NEW parts \in Seq(Seq(E))
  PROVE  /\ UpTo(parts)[0] = <<>>
         /\ \A i \in 1 .. Len(parts) : UpTo(parts)[i] = UpTo(parts)[i - 1] \o parts[i]
<1> DEFINE Add(s, i) == s \o parts[i]
           Body(g, n) == [i \in 0 .. n |-> IF i = 0 THEN <<>> ELSE Add(g[i - 1], i)]
           N == {n \in Nat : \E g : g = Body(g, n)}
<1>m. Len(parts) \in Nat
  BY LenProperties
<1>a. UpTo(parts) = CHOOSE g : g = Body(g, Len(parts))
  BY DEF UpTo
<1>b. \A s, i : Add(s, i) = s \o parts[i]
  OBVIOUS
<1> HIDE DEF Add
<1>1. 0 \in N
  <2> DEFINE g == [i \in 0 .. 0 |-> <<>>]
  <2>1. g = Body(g, 0)
    OBVIOUS
  <2>2. QED
    BY <2>1
<1>2. ASSUME NEW n \in Nat, n \in N PROVE n + 1 \in N
  <2>1. PICK g : g = Body(g, n)
    BY <1>2
  <2> DEFINE h == [i \in 0 .. n + 1 |-> IF i = n + 1 THEN Add(g[n], n + 1) ELSE g[i]]
  <2>2. h = Body(h, n + 1)
    <3> SUFFICES ASSUME NEW i \in 0 .. n + 1 PROVE h[i] = Body(h, n + 1)[i]
      OBVIOUS
    <3>1. CASE i = n + 1
      <4>1. h[n] = g[n] /\ h[n + 1] = Add(g[n], n + 1) /\ n + 1 # 0 /\ n + 1 - 1 = n
        OBVIOUS
      <4>2. QED
        BY <3>1, <4>1
    <3>2. CASE i \in 0 .. n
      <4>1. h[i] = g[i] /\ g[i] = Body(g, n)[i]
        BY <2>1, <3>2
      <4>2. CASE i = 0
        BY <4>1, <4>2
      <4>3. CASE i # 0
        <5>1. i - 1 \in 0 .. n /\ i - 1 # n + 1 /\ i - 1 \in 0 .. n + 1
          BY <3>2, <4>3
        <5>2. h[i - 1] = g[i - 1]
          BY <5>1
        <5>3. QED
          BY <3>2, <4>1, <4>3, <5>2
      <4>4. QED
        BY <4>2, <4>3
    <3>3. QED
      BY <3>1, <3>2
  <2>3. \E f : f = Body(f, n + 1)
    <3> HIDE DEF h
    <3> QED
      BY <2>2
  <2>4. n + 1 \in Nat
    OBVIOUS
  <2> HIDE DEF Body, h
  <2>5. QED
    BY <2>3, <2>4
<1>3. Len(parts) \in N
  <2>1. \A n \in 0 .. Len(parts) : n \in N
    <3> HIDE DEF N
    <3> QED BY <1>m, <1>1, <1>2, InductionUpTo
  <2>2. Len(parts) \in 0 .. Len(parts)
    BY <1>m
  <2> HIDE DEF N
  <2>3. QED
    BY <2>1, <2>2
<1>4. UpTo(parts) = Body(UpTo(parts), Len(parts))
  BY <1>3, <1>a
<1> DEFINE U == UpTo(parts)
<1>5. U = Body(U, Len(parts))
  BY <1>4
<1> HIDE DEF U
<1>6. U[0] = <<>>
  BY <1>m, <1>5
<1>7. ASSUME NEW i \in 1 .. Len(parts) PROVE U[i] = Add(U[i - 1], i)
  <2>1. i \in 0 .. Len(parts) /\ i # 0
    BY <1>m
  <2>2. QED
    BY <1>5, <2>1
<1>8. QED
  BY <1>6, <1>7, <1>b DEF U

LEMMA PartsTyped ==
  ASSUME NEW E, NEW parts \in Seq(Seq(E))
  PROVE  \A i \in 0 .. Len(parts) : UpTo(parts)[i] \in Seq(E)
<1> DEFINE N == {n \in Nat : UpTo(parts)[n] \in Seq(E)}
<1>m. Len(parts) \in Nat
  BY LenProperties
<1>p. \A i \in 1 .. Len(parts) : parts[i] \in Seq(E)
  BY ElementOfSeq
<1>1. 0 \in N
  <2>1. UpTo(parts)[0] = <<>>
    BY PartByPart
  <2>2. <<>> \in Seq(E)
    BY EmptySeq
  <2>3. QED
    BY <2>1, <2>2
<1>2. ASSUME NEW n \in Nat, n < Len(parts), n \in N PROVE n + 1 \in N
  <2>1. PICK k \in 1 .. Len(parts) : k = n + 1 /\ k - 1 = n
    BY <1>m, <1>2
  <2>2. UpTo(parts)[k] = UpTo(parts)[k - 1] \o parts[k]
    BY PartByPart
  <2>3. UpTo(parts)[k - 1] \in Seq(E) /\ parts[k] \in Seq(E)
    BY <1>2, <1>p, <2>1
  <2>4. UpTo(parts)[k] \in Seq(E)
    BY <2>2, <2>3, ConcatProperties
  <2>5. QED
    BY <2>1, <2>4
<1>3. \A n \in 0 .. Len(parts) : n \in N
  <2> HIDE DEF N
  <2> QED BY <1>m, <1>1, <1>2, InductionUpTo
<1>4. QED
  BY <1>3

\* All parts, one behind the other.
LEMMA AllParts ==
  ASSUME NEW E, NEW parts \in Seq(Seq(E))
  PROVE  /\ FlattenSeq(parts) = UpTo(parts)[Len(parts)]
         /\ FlattenSeq(parts) \in Seq(E)
<1> DEFINE n == Len(parts)
<1>m. n \in Nat
  BY LenProperties
<1>p. \A i \in 1 .. n : parts[i] \in Seq(E)
  BY ElementOfSeq
<1>1. CASE n = 0
  <2>1. parts = <<>>
    BY <1>1, EmptySeq
  <2>2. QED
    BY <1>1, <2>1, PartByPart, EmptySeq DEF FlattenSeq
<1>2. CASE n # 0
  <2> DEFINE Add(r, i) == r \o parts[i]
             Body(f) == [i \in 1 .. n |-> IF i = 1 THEN parts[i] ELSE Add(f[i - 1], i)]
             flat == CHOOSE f : f = Body(f)
             up == [i \in 1 .. n |-> UpTo(parts)[i]]
  <2>0. FlattenSeq(parts) = flat[n]
    BY <1>2 DEF FlattenSeq
  <2>a. \A i \in 1 .. n : UpTo(parts)[i] = Add(UpTo(parts)[i - 1], i)
    BY PartByPart
  <2>b. Add(UpTo(parts)[0], 1) = parts[1]
    <3>1. parts[1] \in Seq(E)
      BY <1>m, <1>p, <1>2
    <3>2. QED
      BY <3>1, PartByPart, ConcatEmptySeq
  <2> HIDE DEF Add
  <2>1. up = Body(up)
    <3> SUFFICES ASSUME NEW i \in 1 .. n PROVE up[i] = Body(up)[i]
      OBVIOUS
    <3>1. UpTo(parts)[i] = Add(UpTo(parts)[i - 1], i)
      BY <2>a
    <3>2. CASE i = 1
      <4>1. i - 1 = 0
        BY <3>2
      <4>2. QED
        BY <2>b, <3>1, <3>2, <4>1
    <3>3. CASE i # 1
      <4>1. i - 1 \in 1 .. n
        BY <1>m, <3>3
      <4>2. QED
        BY <3>1, <3>3, <4>1
    <3>4. QED
      BY <3>2, <3>3
  <2>2. flat = Body(flat)
    <3>1. \E f : f = Body(f)
      <4> HIDE DEF up
      <4> QED BY <2>1
    <3>2. QED
      BY <3>1
  <2> DEFINE N == {i \in Nat : i = 0 \/ flat[i] = up[i]}
  <2> HIDE DEF flat, up
  <2>3. ASSUME NEW i \in Nat, i < n, i \in N PROVE i + 1 \in N
    <3>1. PICK k \in 1 .. n : k = i + 1 /\ k - 1 = i
      BY <1>m, <2>3
    <3>2. flat[k] = IF k = 1 THEN parts[k] ELSE Add(flat[k - 1], k)
      BY <2>2
    <3>3. up[k] = IF k = 1 THEN parts[k] ELSE Add(up[k - 1], k)
      BY <2>1
    <3>4. k # 1 => flat[k - 1] = up[k - 1]
      BY <2>3, <3>1
    <3>5. flat[k] = up[k]
      BY <3>2, <3>3, <3>4
    <3>6. QED
      BY <3>1, <3>5
  <2>4. \A i \in 0 .. n : i \in N
    <3>1. 0 \in N
      OBVIOUS
    <3> HIDE DEF N
    <3> QED BY <1>m, <2>3, <3>1, InductionUpTo
  <2>5. flat[n] = up[n]
    <3>1. n \in 0 .. n
      BY <1>m
    <3>2. QED
      BY <1>2, <2>4, <3>1
  <2>6. up[n] = UpTo(parts)[n] /\ n \in 0 .. n
    BY <1>m, <1>2 DEF up
  <2>7. QED
    BY <2>0, <2>5, <2>6, PartsTyped
<1>3. QED
  BY <1>1, <1>2

\* The first part goes before the others.
LEMMA FirstPart ==
  ASSUME NEW E, NEW parts \in Seq(Seq(E)), parts # <<>>
  PROVE  FlattenSeq(parts) = Head(parts) \o FlattenSeq(Tail(parts))
<1>c. Associative(E)
  BY ConcatThree
<1> DEFINE first == Head(parts)
           rest == Tail(parts)
           n == Len(rest)
           all == UpTo(parts)
           behind == UpTo(rest)
           N == {i \in Nat : i <= n => all[i + 1] = first \o behind[i]}
<1>1. /\ first \in Seq(E) /\ rest \in Seq(Seq(E)) /\ first = parts[1]
      /\ Len(rest) = Len(parts) - 1 /\ \A i \in 1 .. Len(rest) : rest[i] = parts[i + 1]
  BY HeadTailProperties
<1>2. n \in Nat /\ Len(parts) = n + 1
  <2>1. Len(rest) \in Nat /\ Len(parts) \in Nat
    BY <1>1, LenProperties
  <2>2. QED
    BY <1>1, <2>1
<1>3. all[0] = <<>> /\ behind[0] = <<>>
  BY <1>1, PartByPart
<1>4. \A i \in 1 .. n + 1 : all[i] = all[i - 1] \o parts[i]
  BY <1>2, PartByPart
<1>5. \A i \in 1 .. n : behind[i] = behind[i - 1] \o rest[i]
  BY <1>1, PartByPart
<1>6. FlattenSeq(parts) = all[n + 1] /\ FlattenSeq(rest) = behind[n]
  BY <1>1, <1>2, AllParts
<1>7. \A i \in 0 .. n : behind[i] \in Seq(E)
  BY <1>1, PartsTyped
<1>8. \A i \in 1 .. n : rest[i] \in Seq(E)
  BY <1>1, ElementOfSeq
<1> HIDE DEF first, rest, all, behind, n
<1>9. 0 \in N
  <2>1. all[1] = all[0] \o parts[1]
    <3>1. 1 \in 1 .. n + 1 /\ 1 - 1 = 0
      BY <1>2
    <3>2. QED
      BY <1>4, <3>1
  <2>2. all[1] = first /\ first \o behind[0] = first
    BY <1>1, <1>3, <2>1, ConcatEmptySeq
  <2>3. 0 + 1 = 1
    OBVIOUS
  <2>4. QED
    BY <2>2, <2>3
<1>10. ASSUME NEW i \in Nat, i < n, i \in N PROVE i + 1 \in N
  <2>1. PICK k \in 1 .. n : k = i + 1 /\ k - 1 = i
    BY <1>2, <1>10
  <2>2. k - 1 \in 0 .. n /\ i <= n
    BY <1>2, <2>1
  <2>3. all[k + 1] = all[k] \o parts[k + 1]
    <3>1. PICK j \in 1 .. n + 1 : j = k + 1 /\ j - 1 = k
      BY <1>2
    <3>2. all[j] = all[j - 1] \o parts[j]
      BY <1>4
    <3>3. QED
      BY <3>1, <3>2
  <2>4. all[k] = first \o behind[k - 1]
    BY <1>10, <2>1, <2>2
  <2>5. parts[k + 1] = rest[k] /\ behind[k] = behind[k - 1] \o rest[k]
    BY <1>1, <1>5 DEF n
  <2>6. behind[k - 1] \in Seq(E) /\ rest[k] \in Seq(E) /\ first \in Seq(E)
    BY <1>1, <1>7, <1>8, <2>2
  <2>7. (first \o behind[k - 1]) \o rest[k] = first \o (behind[k - 1] \o rest[k])
    <3> DEFINE r == behind[k - 1]
               q == rest[k]
    <3>1. first \in Seq(E) /\ r \in Seq(E) /\ q \in Seq(E)
      BY <2>6
    <3> HIDE DEF first, r, q
    <3>2. (first \o r) \o q = first \o (r \o q)
      BY <1>c, <3>1 DEF Associative
    <3>3. QED
      BY <3>2 DEF first, r, q
  <2>8. all[k + 1] = first \o behind[k]
    BY <2>3, <2>4, <2>5, <2>7
  <2>9. QED
    BY <2>1, <2>8
<1>11. \A i \in 0 .. n : i \in N
  <2> HIDE DEF N
  <2> QED BY <1>2, <1>9, <1>10, InductionUpTo
<1>12. n \in 0 .. n /\ n <= n
  BY <1>2
<1>13. all[n + 1] = first \o behind[n]
  BY <1>11, <1>12
<1>14. QED
  BY <1>6, <1>13 DEF first, rest

\* Parts that say nothing.
LEMMA EmptyParts ==
  ASSUME NEW E, NEW parts \in Seq(Seq(E)), \A i \in 1 .. Len(parts) : parts[i] = <<>>
  PROVE  FlattenSeq(parts) = <<>>
<1> DEFINE all == UpTo(parts)
           N == {i \in Nat : all[i] = <<>>}
<1>1. Len(parts) \in Nat
  BY LenProperties
<1>2. 0 \in N
  BY PartByPart
<1>3. ASSUME NEW i \in Nat, i < Len(parts), i \in N PROVE i + 1 \in N
  <2>0. i \in Nat /\ i < Len(parts)
    BY <1>3
  <2>1. PICK k \in 1 .. Len(parts) : k = i + 1 /\ k - 1 = i
    <3> HIDE DEF N
    <3> QED BY <1>1, <2>0
  <2>2. all[k] = all[k - 1] \o parts[k]
    BY PartByPart
  <2>3. all[k - 1] = <<>> /\ parts[k] = <<>> /\ <<>> \o <<>> = <<>>
    BY <1>3, <2>1
  <2>4. all[k] = <<>>
    BY <2>2, <2>3
  <2>5. QED
    BY <2>1, <2>4
<1>4. \A i \in 0 .. Len(parts) : i \in N
  <2> HIDE DEF N
  <2> QED BY <1>1, <1>2, <1>3, InductionUpTo
<1>5. Len(parts) \in 0 .. Len(parts)
  BY <1>1
<1>6. QED
  BY <1>4, <1>5, AllParts

-----------------------------------------------------------------------------
(* Entries inherit conditions one by one.                                  *)

LEMMA InheritConcat ==
  ASSUME NEW a \in Seq(Entry), NEW b \in Seq(Entry), NEW c \in Seq(Conditions)
  PROVE  Inherit(a \o b, c) = Inherit(a, c) \o Inherit(b, c)
<1> DEFINE Heir(e) == IF e.conds = <<>> THEN [e EXCEPT !.conds = c] ELSE e
           ia == Inherit(a, c)
           ib == Inherit(b, c)
           iab == Inherit(a \o b, c)
<1>1. a \o b \in Seq(Entry) /\ Len(a \o b) = Len(a) + Len(b) /\ Len(a) \in Nat /\ Len(b) \in Nat
  BY ConcatProperties, LenProperties
<1>2. /\ ia = [i \in 1 .. Len(a) |-> Heir(a[i])] /\ ib = [i \in 1 .. Len(b) |-> Heir(b[i])]
      /\ iab = [i \in 1 .. Len(a \o b) |-> Heir((a \o b)[i])]
  BY <1>1, LenProperties DEF Inherit
<1>3. ia \in Seq(Entry) /\ ib \in Seq(Entry) /\ iab \in Seq(Entry)
  BY <1>1, InheritTyped
<1> HIDE DEF Heir, ia, ib, iab
<1>4. Len(ia) = Len(a) /\ Len(ib) = Len(b) /\ Len(iab) = Len(a) + Len(b)
  <2>1. DOMAIN ia = 1 .. Len(a) /\ DOMAIN ib = 1 .. Len(b) /\ DOMAIN iab = 1 .. Len(a \o b)
    BY <1>2
  <2>2. QED
    BY <1>1, <1>3, <2>1, LenProperties
<1>5. ia \o ib \in Seq(Entry) /\ Len(ia \o ib) = Len(a) + Len(b)
  <2>1. ia \o ib \in Seq(Entry) /\ Len(ia \o ib) = Len(ia) + Len(ib)
    BY <1>3, ConcatProperties
  <2>2. QED
    BY <1>4, <2>1
<1>6. ASSUME NEW i \in 1 .. Len(iab) PROVE iab[i] = (ia \o ib)[i]
  <2>1. i \in 1 .. Len(a) + Len(b)
    BY <1>4
  <2>2. iab[i] = Heir((a \o b)[i])
    BY <1>1, <1>2, <2>1
  <2>3. CASE i <= Len(a)
    <3>1. i \in 1 .. Len(a)
      BY <1>1, <2>1, <2>3
    <3>2. (a \o b)[i] = a[i] /\ (ia \o ib)[i] = ia[i]
      BY <1>3, <1>4, <2>1, <2>3, ConcatProperties
    <3>3. QED
      BY <1>2, <2>2, <3>1, <3>2
  <2>4. CASE ~(i <= Len(a))
    <3>1. i - Len(a) \in 1 .. Len(b)
      BY <1>1, <2>1, <2>4
    <3>2. (a \o b)[i] = b[i - Len(a)] /\ (ia \o ib)[i] = ib[i - Len(a)]
      BY <1>3, <1>4, <2>1, <2>4, ConcatProperties
    <3>3. QED
      BY <1>2, <2>2, <3>1, <3>2
  <2>5. QED
    BY <2>3, <2>4
<1>7. iab = ia \o ib
  BY <1>3, <1>4, <1>5, <1>6, SeqEqual
<1>8. QED
  BY <1>7 DEF ia, ib, iab

\* What inherits once does not inherit again.
LEMMA InheritTwice ==
  ASSUME NEW a \in Seq(Entry), NEW own \in Seq(Conditions), NEW outer \in Seq(Conditions)
  PROVE  Inherit(Inherit(a, own), outer) = Inherit(a, IF own = <<>> THEN outer ELSE own)
<1> DEFINE Heir(e, c) == IF e.conds = <<>> THEN [e EXCEPT !.conds = c] ELSE e
           force == IF own = <<>> THEN outer ELSE own
<1>1. /\ Len(a) \in Nat /\ DOMAIN a = 1 .. Len(a)
      /\ \A i \in 1 .. Len(a) : a[i] \in Entry
  BY LenProperties, ElementOfSeq
<1>2. \A c : Inherit(a, c) = [i \in 1 .. Len(a) |-> Heir(a[i], c)]
  BY <1>1 DEF Inherit
<1>3. Inherit(Inherit(a, own), outer) = [i \in 1 .. Len(a) |-> Heir(Heir(a[i], own), outer)]
  <2> DEFINE b == [i \in 1 .. Len(a) |-> Heir(a[i], own)]
  <2>1. Inherit(a, own) = b
    BY <1>2
  <2>2. DOMAIN b = 1 .. Len(a) /\ \A i \in 1 .. Len(a) : b[i] = Heir(a[i], own)
    OBVIOUS
  <2> HIDE DEF b
  <2>3. Inherit(b, outer) = [i \in 1 .. Len(a) |-> Heir(b[i], outer)]
    BY <2>2 DEF Inherit
  <2> HIDE DEF Heir
  <2>4. QED
    BY <2>1, <2>2, <2>3
<1>4. ASSUME NEW e \in Entry PROVE Heir(Heir(e, own), outer) = Heir(e, force)
  BY DEF Entry
<1> HIDE DEF Heir
<1>5. [i \in 1 .. Len(a) |-> Heir(Heir(a[i], own), outer)] = [i \in 1 .. Len(a) |-> Heir(a[i], force)]
  BY <1>1, <1>4
<1>6. Inherit(a, force) = [i \in 1 .. Len(a) |-> Heir(a[i], force)]
  BY <1>2
<1>7. QED
  BY <1>3, <1>5, <1>6

LEMMA InheritEmpty ==
  ASSUME NEW c
  PROVE  Inherit(<<>>, c) = <<>>
BY DEF Inherit

\* What is read in parts inherits in parts.
LEMMA InheritParts ==
  ASSUME NEW parts \in Seq(Seq(Entry)), NEW heirs \in Seq(Seq(Entry)), NEW c \in Seq(Conditions),
         Len(heirs) = Len(parts), \A i \in 1 .. Len(parts) : heirs[i] = Inherit(parts[i], c)
  PROVE  FlattenSeq(heirs) = Inherit(FlattenSeq(parts), c)
<1> DEFINE n == Len(parts)
           p == UpTo(parts)
           h == UpTo(heirs)
           N == {i \in Nat : h[i] = Inherit(p[i], c)}
<1>1. n \in Nat
  BY LenProperties
<1>2. 0 \in N
  <2>1. h[0] = <<>> /\ p[0] = <<>>
    BY PartByPart
  <2>2. QED
    BY <2>1, InheritEmpty
<1>3. \A i \in 0 .. n : p[i] \in Seq(Entry)
  BY PartsTyped
<1>4. \A i \in 1 .. n : parts[i] \in Seq(Entry)
  BY ElementOfSeq
<1>5. \A i \in 1 .. n : p[i] = p[i - 1] \o parts[i] /\ h[i] = h[i - 1] \o heirs[i]
  BY PartByPart
<1>6. FlattenSeq(parts) = p[n] /\ FlattenSeq(heirs) = h[n]
  BY AllParts
<1> HIDE DEF p, h
<1>7. ASSUME NEW i \in Nat, i < n, i \in N PROVE i + 1 \in N
  <2>0. i \in Nat /\ i < n
    BY <1>7
  <2>1. PICK k \in 1 .. n : k = i + 1 /\ k - 1 = i /\ k - 1 \in 0 .. n
    <3> HIDE DEF N
    <3> QED BY <1>1, <2>0
  <2>2. h[k - 1] = Inherit(p[k - 1], c) /\ heirs[k] = Inherit(parts[k], c)
    BY <1>7, <2>1
  <2>3. Inherit(p[k - 1] \o parts[k], c) = Inherit(p[k - 1], c) \o Inherit(parts[k], c)
    BY <1>3, <1>4, <2>1, InheritConcat
  <2>4. h[k] = Inherit(p[k], c)
    BY <1>5, <2>2, <2>3
  <2>5. QED
    BY <2>1, <2>4
<1>8. \A i \in 0 .. n : i \in N
  <2> HIDE DEF N
  <2> QED BY <1>1, <1>2, <1>7, InductionUpTo
<1>9. n \in 0 .. n
  BY <1>1
<1>10. QED
  BY <1>6, <1>8, <1>9

-----------------------------------------------------------------------------
(* Globs.                                                                  *)

LEMMA MaxIs ==
  ASSUME NEW S, S \subseteq Nat, NEW m \in S, \A x \in S : x <= m
  PROVE  Max(S) = m
<1>1. \A x \in S : m >= x
  OBVIOUS
<1>2. Max(S) \in S /\ \A x \in S : Max(S) >= x
  BY <1>1 DEF Max
<1>3. Max(S) >= m /\ Max(S) <= m /\ Max(S) \in Nat /\ m \in Nat
  BY <1>2
<1>4. QED
  BY <1>3

\* Finitely many numbers have a bound.
LEMMA Bounded ==
  ASSUME NEW S, S \subseteq Nat, IsFiniteSet(S)
  PROVE  \E m \in Nat : \A x \in S : x <= m
<1> DEFINE n == Cardinality(S)
<1>1. n \in Nat /\ ExistsBijection(1 .. n, S)
  BY FS_CardinalityType
<1>2. PICK b : b \in Bijection(1 .. n, S)
  BY <1>1 DEF ExistsBijection
<1>3. b \in [1 .. n -> S] /\ \A x \in S : \E i \in 1 .. n : b[i] = x
  BY <1>2 DEF Bijection, Injection, Surjection
<1> DEFINE N == {k \in Nat : k <= n => \E m \in Nat : \A i \in 1 .. k : b[i] <= m}
<1> HIDE DEF n
<1>4. 0 \in N
  OBVIOUS
<1>5. ASSUME NEW k \in Nat, k < n, k \in N PROVE k + 1 \in N
  <2>1. PICK m \in Nat : \A i \in 1 .. k : b[i] <= m
    BY <1>1, <1>5
  <2>2. k + 1 \in 1 .. n
    BY <1>1, <1>5
  <2>3. b[k + 1] \in Nat
    BY <1>3, <2>2
  <2> DEFINE q == IF b[k + 1] <= m THEN m ELSE b[k + 1]
  <2>4. q \in Nat /\ b[k + 1] <= q /\ m <= q
    BY <2>3
  <2>5. \A i \in 1 .. k + 1 : i = k + 1 \/ i \in 1 .. k
    OBVIOUS
  <2>6. \A i \in 1 .. k : b[i] \in Nat
    <3>1. \A i \in 1 .. n : b[i] \in Nat
      BY <1>3
    <3>2. \A i \in 1 .. k : i \in 1 .. n
      BY <1>1, <1>5
    <3>3. QED
      BY <3>1, <3>2
  <2> HIDE DEF q
  <2>7. \A i \in 1 .. k + 1 : b[i] <= q
    BY <2>1, <2>4, <2>5, <2>6
  <2>8. QED
    BY <2>4, <2>7
<1>6. \A k \in 0 .. n : k \in N
  <2> HIDE DEF N
  <2> QED BY <1>1, <1>4, <1>5, InductionUpTo
<1>7. n \in 0 .. n /\ n <= n
  BY <1>1
<1>8. PICK m \in Nat : \A i \in 1 .. n : b[i] <= m
  BY <1>6, <1>7
<1>9. QED
  BY <1>3, <1>8

LEMMA LastOfFiles ==
  LastFile \in Nat /\ \A f \in Files : f \in Nat /\ f + 1 \in 1 .. LastFile + 1
<1> DEFINE S == Files \cup {0}
           B == {m \in Nat : \A x \in S : x <= m}
<1>1. S \subseteq Nat /\ 0 \in S
  BY FilesAssumption
<1>2. PICK b \in Nat : \A x \in Files : x <= b
  BY FilesAssumption, Bounded
<1>3. b \in B
  BY <1>2
<1>4. PICK m \in B : \A y \in B : m <= y
  BY <1>3, Least
<1>5. m \in S
  <2> SUFFICES ASSUME m \notin S PROVE FALSE
    OBVIOUS
  <2>1. m # 0 /\ m - 1 \in Nat
    BY <1>1
  <2>2. \A x \in S : x <= m - 1
    BY <1>1, <2>1
  <2>3. m - 1 \in B
    BY <2>1, <2>2
  <2>4. QED
    BY <1>4, <2>1, <2>3
<1>6. LastFile = m
  BY <1>1, <1>5, MaxIs DEF LastFile
<1>7. m \in Nat /\ \A f \in Files : f \in Nat /\ f <= m
  BY <1>1
<1>8. QED
  BY <1>6, <1>7

GlobParts(glob, read) == [n \in 1 .. LastFile + 1 |-> IF n - 1 \in glob THEN read[n - 1] ELSE <<>>]

LEMMA GlobPartsTyped ==
  ASSUME NEW E, NEW glob \in SUBSET Files, NEW read \in [Files -> Seq(E)]
  PROVE  /\ GlobParts(glob, read) \in Seq(Seq(E)) /\ Len(GlobParts(glob, read)) = LastFile + 1
         /\ OfGlob(glob, read) = FlattenSeq(GlobParts(glob, read))
         /\ OfGlob(glob, read) \in Seq(E)
<1>1. <<>> \in Seq(E) /\ LastFile + 1 \in Nat
  BY LastOfFiles, EmptySeq
<1>2. GlobParts(glob, read) \in [1 .. LastFile + 1 -> Seq(E)]
  BY <1>1 DEF GlobParts
<1>3. GlobParts(glob, read) \in Seq(Seq(E))
  BY <1>1, <1>2, SeqDef
<1>4. DOMAIN GlobParts(glob, read) = 1 .. LastFile + 1
  BY <1>2
<1>5. Len(GlobParts(glob, read)) = LastFile + 1
  BY <1>1, <1>3, <1>4, LenProperties
<1>6. OfGlob(glob, read) = FlattenSeq(GlobParts(glob, read))
  BY DEF OfGlob, GlobParts
<1>7. QED
  BY <1>3, <1>5, <1>6, AllParts

LEMMA EmptyGlob ==
  ASSUME NEW E, NEW read \in [Files -> Seq(E)]
  PROVE  OfGlob({}, read) = <<>>
<1>1. \A n \in 1 .. LastFile + 1 : GlobParts({}, read)[n] = <<>>
  BY DEF GlobParts
<1>2. QED
  BY <1>1, GlobPartsTyped, EmptyParts

\* The first file of a glob goes before the others.
LEMMA FirstOfGlob ==
  ASSUME NEW E, NEW glob \in SUBSET Files, NEW read \in [Files -> Seq(E)],
         NEW f \in glob, \A g \in glob : f <= g
  PROVE  OfGlob(glob, read) = read[f] \o OfGlob(glob \ {f}, read)
<1> DEFINE a == GlobParts(glob, read)
           b == GlobParts(glob \ {f}, read)
           ua == UpTo(a)
           ub == UpTo(b)
           m == LastFile + 1
           s == read[f]
<1>1. m \in Nat /\ f \in Nat /\ f + 1 \in 1 .. m /\ s \in Seq(E) /\ \A g \in glob : g \in Nat
  BY LastOfFiles
<1>2. /\ a \in Seq(Seq(E)) /\ b \in Seq(Seq(E)) /\ Len(a) = m /\ Len(b) = m
      /\ OfGlob(glob, read) = FlattenSeq(a) /\ OfGlob(glob \ {f}, read) = FlattenSeq(b)
  BY GlobPartsTyped
<1>3. FlattenSeq(a) = ua[m] /\ FlattenSeq(b) = ub[m]
  BY <1>2, AllParts
<1>4. ua[0] = <<>> /\ ub[0] = <<>>
  BY <1>2, PartByPart
<1>5. \A i \in 1 .. m : ua[i] = ua[i - 1] \o a[i] /\ ub[i] = ub[i - 1] \o b[i]
  BY <1>2, PartByPart
<1>6. \A i \in 0 .. m : ub[i] \in Seq(E)
  BY <1>2, PartsTyped
<1>7. \A i \in 1 .. m : b[i] \in Seq(E)
  BY <1>2, ElementOfSeq
<1>8. \A i \in 1 .. m : /\ i - 1 < f => a[i] = <<>> /\ b[i] = <<>>
                        /\ i - 1 = f => a[i] = s /\ b[i] = <<>>
                        /\ i - 1 > f => a[i] = b[i]
  BY <1>1 DEF GlobParts
<1> DEFINE N == {i \in Nat : /\ i <= f => ua[i] = <<>> /\ ub[i] = <<>>
                             /\ i > f => ua[i] = s \o ub[i]}
<1> HIDE DEF a, b, ua, ub, m, s
<1>9. 0 \in N
  BY <1>1, <1>4
<1>10. ASSUME NEW i \in Nat, i < m, i \in N PROVE i + 1 \in N
  <2>0. i \in Nat /\ i < m
    BY <1>10
  <2>1. PICK k \in 1 .. m : k = i + 1 /\ k - 1 = i /\ k - 1 \in 0 .. m
    <3> HIDE DEF N
    <3> QED BY <1>1, <2>0
  <2>2. ua[k] = ua[k - 1] \o a[k] /\ ub[k] = ub[k - 1] \o b[k]
    BY <1>5
  <2>3. <<>> \o <<>> = <<>> /\ <<>> \o s = s /\ s \o <<>> = s
    BY <1>1, ConcatEmptySeq
  <2>4. CASE i < f
    <3>1. ua[k] = <<>> /\ ub[k] = <<>>
      BY <1>1, <1>8, <1>10, <2>1, <2>2, <2>3, <2>4
    <3>2. k <= f
      BY <1>1, <2>1, <2>4
    <3>3. QED
      BY <1>1, <2>1, <3>1, <3>2
  <2>5. CASE i = f
    <3>1. ua[k] = s /\ ub[k] = <<>>
      BY <1>1, <1>8, <1>10, <2>1, <2>2, <2>3, <2>5
    <3>2. ~(k <= f)
      BY <1>1, <2>1, <2>5
    <3>3. QED
      BY <1>1, <2>1, <2>3, <3>1, <3>2
  <2>6. CASE i > f
    <3>1. ua[k - 1] = s \o ub[k - 1] /\ a[k] = b[k]
      BY <1>1, <1>8, <1>10, <2>1, <2>6
    <3>2. ub[k - 1] \in Seq(E) /\ b[k] \in Seq(E)
      BY <1>6, <1>7, <2>1
    <3> DEFINE r == ub[k - 1]
               q == b[k]
    <3>3. s \in Seq(E) /\ r \in Seq(E) /\ q \in Seq(E)
      BY <1>1, <3>2
    <3> HIDE DEF r, q
    <3>4. (s \o r) \o q = s \o (r \o q)
      BY <3>3, ConcatAssociative
    <3>5. ua[k] = s \o ub[k]
      BY <2>2, <3>1, <3>4 DEF r, q
    <3>6. ~(k <= f)
      BY <1>1, <2>1, <2>6
    <3>7. QED
      BY <1>1, <2>1, <3>5, <3>6
  <2>7. QED
    BY <1>1, <2>4, <2>5, <2>6
<1>11. \A i \in 0 .. m : i \in N
  <2> HIDE DEF N
  <2> QED BY <1>1, <1>9, <1>10, InductionUpTo
<1>12. m \in 0 .. m /\ m > f
  BY <1>1
<1>13. ua[m] = s \o ub[m]
  BY <1>11, <1>12
<1>14. QED
  BY <1>2, <1>3, <1>13 DEF s

LEMMA GlobInherits ==
  ASSUME NEW glob \in SUBSET Files, NEW read \in [Files -> Seq(Entry)], NEW c \in Seq(Conditions)
  PROVE  OfGlob(glob, [f \in Files |-> Inherit(read[f], c)]) = Inherit(OfGlob(glob, read), c)
<1> DEFINE heirs == [f \in Files |-> Inherit(read[f], c)]
           p == GlobParts(glob, read)
           h == GlobParts(glob, heirs)
<1>1. heirs \in [Files -> Seq(Entry)]
  BY InheritTyped
<1>2. /\ p \in Seq(Seq(Entry)) /\ h \in Seq(Seq(Entry)) /\ Len(p) = LastFile + 1 /\ Len(h) = LastFile + 1
      /\ OfGlob(glob, read) = FlattenSeq(p) /\ OfGlob(glob, heirs) = FlattenSeq(h)
  BY <1>1, GlobPartsTyped
<1>3. ASSUME NEW n \in 1 .. LastFile + 1 PROVE h[n] = Inherit(p[n], c)
  <2>1. CASE n - 1 \in glob
    <3>1. h[n] = heirs[n - 1] /\ p[n] = read[n - 1]
      BY <2>1 DEF GlobParts
    <3>2. QED
      BY <2>1, <3>1
  <2>2. CASE n - 1 \notin glob
    <3>1. h[n] = <<>> /\ p[n] = <<>>
      BY <2>2 DEF GlobParts
    <3>2. QED
      BY <3>1, InheritEmpty
  <2>3. QED
    BY <2>1, <2>2
<1> HIDE DEF p, h
<1>4. FlattenSeq(h) = Inherit(FlattenSeq(p), c)
  BY <1>2, <1>3, InheritParts
<1>5. QED
  BY <1>2, <1>4

GlobsParts(globs, read) == [i \in DOMAIN globs |-> OfGlob(globs[i], read)]

LEMMA GlobsPartsTyped ==
  ASSUME NEW E, NEW globs \in Seq(SUBSET Files), NEW read \in [Files -> Seq(E)]
  PROVE  /\ GlobsParts(globs, read) \in Seq(Seq(E)) /\ Len(GlobsParts(globs, read)) = Len(globs)
         /\ \A i \in 1 .. Len(globs) : GlobsParts(globs, read)[i] = OfGlob(globs[i], read)
         /\ OfGlobs(globs, read) = FlattenSeq(GlobsParts(globs, read))
         /\ OfGlobs(globs, read) \in Seq(E)
<1>1. Len(globs) \in Nat /\ DOMAIN globs = 1 .. Len(globs)
  BY LenProperties
<1>2. \A i \in 1 .. Len(globs) : globs[i] \in SUBSET Files
  BY ElementOfSeq
<1>3. GlobsParts(globs, read) \in [1 .. Len(globs) -> Seq(E)]
  BY <1>1, <1>2, GlobPartsTyped DEF GlobsParts
<1>4. GlobsParts(globs, read) \in Seq(Seq(E))
  BY <1>1, <1>3, SeqDef
<1>5. DOMAIN GlobsParts(globs, read) = 1 .. Len(globs)
  BY <1>3
<1>6. Len(GlobsParts(globs, read)) = Len(globs)
  BY <1>1, <1>4, <1>5, LenProperties
<1>7. \A i \in 1 .. Len(globs) : GlobsParts(globs, read)[i] = OfGlob(globs[i], read)
  BY <1>1 DEF GlobsParts
<1>8. OfGlobs(globs, read) = FlattenSeq(GlobsParts(globs, read))
  BY DEF OfGlobs, GlobsParts
<1>9. QED
  BY <1>4, <1>6, <1>7, <1>8, AllParts

LEMMA FirstOfGlobs ==
  ASSUME NEW E, NEW globs \in Seq(SUBSET Files), globs # <<>>, NEW read \in [Files -> Seq(E)]
  PROVE  OfGlobs(globs, read) = OfGlob(Head(globs), read) \o OfGlobs(Tail(globs), read)
<1> DEFINE p == GlobsParts(globs, read)
           q == GlobsParts(Tail(globs), read)
<1>1. /\ Tail(globs) \in Seq(SUBSET Files) /\ Head(globs) = globs[1]
      /\ Len(Tail(globs)) = Len(globs) - 1
      /\ \A i \in 1 .. Len(Tail(globs)) : Tail(globs)[i] = globs[i + 1]
  BY HeadTailProperties
<1>2. Len(globs) \in Nat \ {0}
  BY LenProperties, EmptySeq
<1>3. /\ p \in Seq(Seq(E)) /\ Len(p) = Len(globs) /\ OfGlobs(globs, read) = FlattenSeq(p)
      /\ \A i \in 1 .. Len(globs) : p[i] = OfGlob(globs[i], read)
  BY GlobsPartsTyped
<1>4. /\ q \in Seq(Seq(E)) /\ Len(q) = Len(globs) - 1 /\ OfGlobs(Tail(globs), read) = FlattenSeq(q)
      /\ \A i \in 1 .. Len(globs) - 1 : q[i] = OfGlob(Tail(globs)[i], read)
  BY <1>1, GlobsPartsTyped
<1> HIDE DEF p, q
<1>5. p # <<>>
  BY <1>2, <1>3, EmptySeq
<1>6. /\ FlattenSeq(p) = Head(p) \o FlattenSeq(Tail(p))
  BY <1>3, <1>5, FirstPart
<1>7. /\ Head(p) = p[1] /\ Tail(p) \in Seq(Seq(E)) /\ Len(Tail(p)) = Len(globs) - 1
      /\ \A i \in 1 .. Len(globs) - 1 : Tail(p)[i] = p[i + 1]
  BY <1>3, <1>5, HeadTailProperties
<1>8. ASSUME NEW i \in 1 .. Len(globs) - 1 PROVE Tail(p)[i] = q[i]
  <2>1. PICK k \in 1 .. Len(globs) : k = i + 1
    BY <1>2
  <2>2. Tail(p)[i] = p[k] /\ Tail(globs)[i] = globs[k]
    BY <1>1, <1>7, <2>1
  <2>3. QED
    BY <1>3, <1>4, <2>2
<1>9. Tail(p) = q
  BY <1>4, <1>7, <1>8, SeqEqual
<1>10. p[1] = OfGlob(Head(globs), read)
  BY <1>1, <1>2, <1>3
<1>11. QED
  BY <1>3, <1>4, <1>6, <1>7, <1>9, <1>10

LEMMA NoGlobs ==
  ASSUME NEW E, NEW read \in [Files -> Seq(E)]
  PROVE  OfGlobs(<<>>, read) = <<>>
<1> DEFINE none == <<>>
           p == GlobsParts(none, read)
<1>1. none \in Seq(SUBSET Files) /\ Len(none) = 0
  BY EmptySeq
<1>2. p \in Seq(Seq(E)) /\ Len(p) = Len(none) /\ OfGlobs(none, read) = FlattenSeq(p)
  BY <1>1, GlobsPartsTyped
<1> HIDE DEF p, none
<1>3. \A i \in 1 .. Len(p) : p[i] = <<>>
  BY <1>1, <1>2
<1>4. FlattenSeq(p) = <<>>
  BY <1>2, <1>3, EmptyParts
<1>5. QED
  BY <1>2, <1>4 DEF none

LEMMA GlobsInherit ==
  ASSUME NEW globs \in Seq(SUBSET Files), NEW read \in [Files -> Seq(Entry)], NEW c \in Seq(Conditions)
  PROVE  OfGlobs(globs, [f \in Files |-> Inherit(read[f], c)]) = Inherit(OfGlobs(globs, read), c)
<1> DEFINE heirs == [f \in Files |-> Inherit(read[f], c)]
           p == GlobsParts(globs, read)
           h == GlobsParts(globs, heirs)
<1>1. heirs \in [Files -> Seq(Entry)]
  BY InheritTyped
<1>2. /\ p \in Seq(Seq(Entry)) /\ h \in Seq(Seq(Entry)) /\ Len(p) = Len(globs) /\ Len(h) = Len(globs)
      /\ OfGlobs(globs, read) = FlattenSeq(p) /\ OfGlobs(globs, heirs) = FlattenSeq(h)
  BY <1>1, GlobsPartsTyped
<1>3. ASSUME NEW i \in 1 .. Len(globs) PROVE h[i] = Inherit(p[i], c)
  <2>1. globs[i] \in SUBSET Files
    BY ElementOfSeq
  <2>2. h[i] = OfGlob(globs[i], heirs) /\ p[i] = OfGlob(globs[i], read)
    BY <1>1, GlobsPartsTyped
  <2>3. QED
    BY <2>1, <2>2, GlobInherits
<1> HIDE DEF p, h
<1>4. FlattenSeq(h) = Inherit(FlattenSeq(p), c)
  BY <1>2, <1>3, InheritParts
<1>5. QED
  BY <1>2, <1>4

-----------------------------------------------------------------------------
(* Lines.                                                                  *)

LEMMA OwnNext ==
  ASSUME NEW lines, NEW i \in Nat
  PROVE  /\ Own(lines, 0) = <<>>
         /\ lines[i + 1].kind = "block" => Own(lines, i + 1) = lines[i + 1].conds
         /\ lines[i + 1].kind # "block" => Own(lines, i + 1) = Own(lines, i)
<1>1. Own(lines, 0) = <<>>
  BY DEF Own, Blocks
<1>2. CASE lines[i + 1].kind = "block"
  <2>1. /\ Blocks(lines, i + 1) \subseteq Nat /\ i + 1 \in Blocks(lines, i + 1)
        /\ \A b \in Blocks(lines, i + 1) : b <= i + 1
    BY <1>2 DEF Blocks
  <2>2. Max(Blocks(lines, i + 1)) = i + 1
    BY <2>1, MaxIs
  <2>3. QED
    BY <1>1, <1>2, <2>1, <2>2 DEF Own
<1>3. CASE lines[i + 1].kind # "block"
  <2>1. Blocks(lines, i + 1) = Blocks(lines, i)
    BY <1>3 DEF Blocks
  <2>2. QED
    BY <1>1, <1>3, <2>1 DEF Own
<1>4. QED
  BY <1>2, <1>3

LEMMA OwnTyped ==
  ASSUME NEW lines \in Seq(Line)
  PROVE  \A i \in 0 .. Len(lines) : Own(lines, i) \in Seq(Conditions)
<1> DEFINE N == {i \in Nat : Own(lines, i) \in Seq(Conditions)}
<1>1. Len(lines) \in Nat
  BY LenProperties
<1>2. 0 \in N
  <2>1. Own(lines, 0) = <<>> /\ <<>> \in Seq(Conditions)
    BY OwnNext, EmptySeq
  <2>2. QED
    BY <2>1
<1>3. ASSUME NEW i \in Nat, i < Len(lines), i \in N PROVE i + 1 \in N
  <2>1. i + 1 \in 1 .. Len(lines)
    <3>1. i \in Nat /\ i < Len(lines)
      BY <1>3
    <3> HIDE DEF N
    <3>2. QED
      BY <1>1, <3>1
  <2>2. lines[i + 1] \in Line
    BY <2>1, ElementOfSeq
  <2>3. CASE lines[i + 1].kind = "block"
    <3>1. lines[i + 1].conds \in Seq(Conditions)
      BY <2>2, <2>3, LineTypes
    <3>2. Own(lines, i + 1) = lines[i + 1].conds
      BY <2>3, OwnNext
    <3>3. QED
      BY <3>1, <3>2
  <2>4. CASE lines[i + 1].kind # "block"
    <3>1. Own(lines, i + 1) = Own(lines, i)
      BY <2>4, OwnNext
    <3>2. QED
      BY <1>3, <3>1
  <2>5. QED
    BY <2>3, <2>4
<1>4. \A i \in 0 .. Len(lines) : i \in N
  <2> HIDE DEF N
  <2> QED BY <1>1, <1>2, <1>3, InductionUpTo
<1>5. QED
  BY <1>4

\* What is read where line i stands, in a file included under nothing, or under c.
LEMMA ForceTyped ==
  ASSUME NEW lines \in Seq(Line), NEW i \in 1 .. Len(lines), NEW c \in Seq(Conditions)
  PROVE  /\ Own(lines, i) \in Seq(Conditions) /\ InForceAt(lines, i, <<>>) = Own(lines, i)
         /\ InForceAt(lines, i, c) = (IF Own(lines, i) = <<>> THEN c ELSE Own(lines, i))
         /\ InForceAt(lines, i, c) \in Seq(Conditions)
<1>1. i \in 0 .. Len(lines)
  BY LenProperties
<1>2. Own(lines, i) \in Seq(Conditions)
  BY <1>1, OwnTyped
<1>3. QED
  BY <1>2 DEF InForceAt

ReadUnder(deeper, c, open) == [f \in Files |-> deeper[<<f, c, open>>]]

LEMMA ReadTyped ==
  ASSUME NEW deeper \in [Place -> Seq(Entry)], NEW c \in Seq(Conditions), NEW open \in SUBSET Files
  PROVE  ReadUnder(deeper, c, open) \in [Files -> Seq(Entry)]
<1>1. ASSUME NEW f \in Files PROVE deeper[<<f, c, open>>] \in Seq(Entry)
  BY DEF Place
<1>2. QED
  BY <1>1 DEF ReadUnder

LEMMA LineTyped ==
  ASSUME NEW line \in Line, NEW c \in Seq(Conditions), NEW open \in SUBSET Files,
         NEW deeper \in [Place -> Seq(Entry)]
  PROVE  /\ OfLine(line, c, open, deeper) \in Seq(Entry)
         /\ line.kind = "include" =>
              OfLine(line, c, open, deeper) = OfGlobs(line.paths, ReadUnder(deeper, c, open))
         /\ line.kind = "option" => OfLine(line, c, open, deeper) = <<[conds |-> c, dir |-> line.dir]>>
         /\ line.kind \notin {"option", "include"} => OfLine(line, c, open, deeper) = <<>>
<1>1. ReadUnder(deeper, c, open) \in [Files -> Seq(Entry)]
  BY ReadTyped
<1>2. CASE line.kind = "include"
  <2>1. OfLine(line, c, open, deeper) = OfGlobs(line.paths, ReadUnder(deeper, c, open))
    BY <1>2 DEF OfLine, ReadUnder
  <2>2. line.paths \in Seq(SUBSET Files)
    BY <1>2, LineTypes
  <2>3. OfGlobs(line.paths, ReadUnder(deeper, c, open)) \in Seq(Entry)
    BY <1>1, <2>2, GlobsPartsTyped
  <2>4. QED
    BY <1>2, <2>1, <2>3
<1>3. CASE line.kind = "option"
  <2>1. OfLine(line, c, open, deeper) = <<[conds |-> c, dir |-> line.dir]>>
    BY <1>3 DEF OfLine
  <2>2. [conds |-> c, dir |-> line.dir] \in Entry
    BY <1>3, LineTypes DEF Entry
  <2>3. QED
    BY <1>3, <2>1, <2>2
<1>4. CASE line.kind \notin {"option", "include"}
  <2>1. OfLine(line, c, open, deeper) = <<>>
    BY <1>4 DEF OfLine
  <2>2. QED
    BY <1>4, <2>1, EmptySeq
<1>5. QED
  BY <1>2, <1>3, <1>4

LEMMA LinesTyped ==
  ASSUME NEW lines \in Seq(Line), NEW c \in Seq(Conditions), NEW open \in SUBSET Files,
         NEW deeper \in [Place -> Seq(Entry)]
  PROVE  /\ OfLines(lines, c, open, deeper) \in Seq(Seq(Entry))
         /\ Len(OfLines(lines, c, open, deeper)) = Len(lines)
         /\ \A i \in 1 .. Len(lines) :
              OfLines(lines, c, open, deeper)[i] = OfLine(lines[i], InForceAt(lines, i, c), open, deeper)
<1> DEFINE p == OfLines(lines, c, open, deeper)
<1>1. Len(lines) \in Nat /\ DOMAIN lines = 1 .. Len(lines)
  BY LenProperties
<1>2. \A i \in 1 .. Len(lines) : lines[i] \in Line
  BY ElementOfSeq
<1>3. \A i \in 1 .. Len(lines) : OfLine(lines[i], InForceAt(lines, i, c), open, deeper) \in Seq(Entry)
  BY <1>2, ForceTyped, LineTyped
<1>4. p = [i \in 1 .. Len(lines) |-> OfLine(lines[i], InForceAt(lines, i, c), open, deeper)]
  BY <1>1 DEF OfLines
<1>5. p \in [1 .. Len(lines) -> Seq(Entry)]
  BY <1>3, <1>4
<1>6. p \in Seq(Seq(Entry))
  BY <1>1, <1>5, SeqDef
<1>7. DOMAIN p = 1 .. Len(lines)
  BY <1>5
<1>8. Len(p) = Len(lines)
  BY <1>1, <1>6, <1>7, LenProperties
<1>9. QED
  BY <1>4, <1>6, <1>8

-----------------------------------------------------------------------------
(* The recursion of Reading.                                               *)

LEMMA LevelByLevel ==
  ASSUME NEW t
  PROVE  /\ Reading(t)[0] = [p \in Place |-> <<>>]
         /\ \A n \in 1 .. MaxDepth + 1 :
              Reading(t)[n] = [p \in Place |-> OfFile(t, p[1], p[2], p[3], Reading(t)[n - 1])]
<1> DEFINE Deeper(d) == [p \in Place |-> OfFile(t, p[1], p[2], p[3], d)]
           none == [p \in Place |-> <<>>]
           Body(g, n) == [i \in 0 .. n |-> IF i = 0 THEN none ELSE Deeper(g[i - 1])]
           N == {n \in Nat : \E g : g = Body(g, n)}
           m == MaxDepth + 1
<1>m. m \in Nat
  BY DepthAssumption
<1>a. Reading(t) = CHOOSE g : g = Body(g, m)
  <2> DEFINE Spelt(g) == [n \in 0 .. MaxDepth + 1 |->
               [p \in Place |-> IF n = 0 THEN <<>> ELSE OfFile(t, p[1], p[2], p[3], g[n - 1])]]
  <2>1. Reading(t) = CHOOSE g : g = Spelt(g)
    BY DEF Reading
  <2>2. ASSUME NEW g PROVE Spelt(g) = Body(g, m)
    <3>1. ASSUME NEW n \in 0 .. m
          PROVE  [p \in Place |-> IF n = 0 THEN <<>> ELSE OfFile(t, p[1], p[2], p[3], g[n - 1])]
                   = (IF n = 0 THEN none ELSE Deeper(g[n - 1]))
      <4>1. CASE n = 0
        BY <4>1
      <4>2. CASE n # 0
        BY <4>2
      <4>3. QED
        BY <4>1, <4>2
    <3>2. QED
      BY <3>1
  <2> HIDE DEF Spelt, Body
  <2>3. QED
    BY <2>1, <2>2
<1>b. \A d : Deeper(d) = [p \in Place |-> OfFile(t, p[1], p[2], p[3], d)]
  OBVIOUS
<1> HIDE DEF Deeper, none, m
<1>1. 0 \in N
  <2> DEFINE g == [i \in 0 .. 0 |-> none]
  <2>1. g = Body(g, 0)
    OBVIOUS
  <2>2. QED
    BY <2>1
<1>2. ASSUME NEW n \in Nat, n \in N PROVE n + 1 \in N
  <2>1. PICK g : g = Body(g, n)
    BY <1>2
  <2> DEFINE h == [i \in 0 .. n + 1 |-> IF i = n + 1 THEN Deeper(g[n]) ELSE g[i]]
  <2>2. h = Body(h, n + 1)
    <3> SUFFICES ASSUME NEW i \in 0 .. n + 1 PROVE h[i] = Body(h, n + 1)[i]
      OBVIOUS
    <3>1. CASE i = n + 1
      <4>1. h[n] = g[n] /\ h[n + 1] = Deeper(g[n]) /\ n + 1 # 0 /\ n + 1 - 1 = n
        OBVIOUS
      <4>2. QED
        BY <3>1, <4>1
    <3>2. CASE i \in 0 .. n
      <4>1. h[i] = g[i] /\ g[i] = Body(g, n)[i]
        BY <2>1, <3>2
      <4>2. CASE i = 0
        BY <4>1, <4>2
      <4>3. CASE i # 0
        <5>1. i - 1 \in 0 .. n /\ i - 1 # n + 1 /\ i - 1 \in 0 .. n + 1
          BY <3>2, <4>3
        <5>2. h[i - 1] = g[i - 1]
          BY <5>1
        <5>3. QED
          BY <3>2, <4>1, <4>3, <5>2
      <4>4. QED
        BY <4>2, <4>3
    <3>3. QED
      BY <3>1, <3>2
  <2>3. \E f : f = Body(f, n + 1)
    <3> HIDE DEF h
    <3> QED
      BY <2>2
  <2>4. n + 1 \in Nat
    OBVIOUS
  <2> HIDE DEF Body, h
  <2>5. QED
    BY <2>3, <2>4
<1>3. m \in N
  <2>1. \A n \in 0 .. m : n \in N
    <3> HIDE DEF N
    <3> QED BY <1>m, <1>1, <1>2, InductionUpTo
  <2>2. m \in 0 .. m
    BY <1>m
  <2> HIDE DEF N
  <2>3. QED
    BY <2>1, <2>2
<1>4. Reading(t) = Body(Reading(t), m)
  BY <1>3, <1>a
<1> DEFINE U == Reading(t)
<1>5. U = Body(U, m)
  BY <1>4
<1> HIDE DEF U
<1>6. U[0] = none
  BY <1>m, <1>5
<1>7. ASSUME NEW i \in 1 .. m PROVE U[i] = Deeper(U[i - 1])
  BY <1>m, <1>5
<1>8. QED
  BY <1>6, <1>7, <1>b DEF U, none, m

LEMMA OfFileTyped ==
  ASSUME NEW t \in [Files -> File], NEW f \in Files, NEW c \in Seq(Conditions),
         NEW open \in SUBSET Files, NEW deeper \in [Place -> Seq(Entry)]
  PROVE  OfFile(t, f, c, open, deeper) \in Seq(Entry)
<1>1. CASE f \in open \/ t[f].kind # "text"
  BY <1>1, EmptySeq DEF OfFile
<1>2. CASE ~(f \in open \/ t[f].kind # "text")
  <2>1. t[f].lines \in Seq(Line)
    BY <1>2 DEF File
  <2>2. open \cup {f} \in SUBSET Files
    OBVIOUS
  <2>3. OfFile(t, f, c, open, deeper) = FlattenSeq(OfLines(t[f].lines, c, open \cup {f}, deeper))
    BY <1>2 DEF OfFile
  <2>4. QED
    BY <2>1, <2>2, <2>3, LinesTyped, AllParts
<1>3. QED
  BY <1>1, <1>2

LEMMA ReadingTyped ==
  ASSUME NEW t \in [Files -> File]
  PROVE  \A n \in 0 .. MaxDepth + 1 : Reading(t)[n] \in [Place -> Seq(Entry)]
<1> DEFINE N == {n \in Nat : Reading(t)[n] \in [Place -> Seq(Entry)]}
           m == MaxDepth + 1
<1>1. m \in Nat
  BY DepthAssumption
<1>2. 0 \in N
  <2>1. <<>> \in Seq(Entry)
    BY EmptySeq
  <2>2. QED
    BY <2>1, LevelByLevel
<1>3. ASSUME NEW n \in Nat, n < m, n \in N PROVE n + 1 \in N
  <2>0. n \in Nat /\ n < m
    BY <1>3
  <2>1. PICK k \in 1 .. m : k = n + 1 /\ k - 1 = n
    <3> HIDE DEF N
    <3> QED BY <1>1, <2>0
  <2> DEFINE d == Reading(t)[k - 1]
  <2>2. Reading(t)[k] = [p \in Place |-> OfFile(t, p[1], p[2], p[3], d)]
    BY LevelByLevel
  <2>3. d \in [Place -> Seq(Entry)]
    BY <1>3, <2>1
  <2> HIDE DEF d
  <2>4. \A p \in Place : OfFile(t, p[1], p[2], p[3], d) \in Seq(Entry)
    BY <2>3, OfFileTyped DEF Place
  <2>5. Reading(t)[k] \in [Place -> Seq(Entry)]
    BY <2>2, <2>4
  <2>6. QED
    BY <2>1, <2>5
<1>4. \A n \in 0 .. m : n \in N
  <2> HIDE DEF N
  <2> QED BY <1>1, <1>2, <1>3, InductionUpTo
<1>5. QED
  BY <1>4

LEMMA InheritOne ==
  ASSUME NEW x \in Entry, NEW c \in Seq(Conditions)
  PROVE  Inherit(<<x>>, c) = <<IF x.conds = <<>> THEN [x EXCEPT !.conds = c] ELSE x>>
<1> DEFINE heir == IF x.conds = <<>> THEN [x EXCEPT !.conds = c] ELSE x
           one == <<x>>
<1>1. one \in Seq(Entry) /\ Len(one) = 1 /\ DOMAIN one = 1 .. 1 /\ one[1] = x
  OBVIOUS
<1>2. heir \in Entry
  BY DEF Entry
<1>3. Inherit(one, c) \in Seq(Entry)
  BY <1>1, InheritTyped
<1>4. Inherit(one, c) = [i \in 1 .. 1 |-> heir]
  BY <1>1 DEF Inherit
<1> HIDE DEF heir, one
<1>5. DOMAIN Inherit(one, c) = 1 .. 1 /\ Inherit(one, c)[1] = heir
  BY <1>4
<1>6. Len(Inherit(one, c)) = 1
  BY <1>3, <1>5, LenProperties
<1>7. <<heir>> \in Seq(Entry) /\ Len(<<heir>>) = 1 /\ <<heir>>[1] = heir
  BY <1>2
<1>8. Inherit(one, c) = <<heir>>
  BY <1>3, <1>5, <1>6, <1>7, SeqEqual
<1>9. QED
  BY <1>8 DEF heir, one

\* A line read under c is the line read under nothing, made to inherit c.
LEMMA LineInherits ==
  ASSUME NEW deeper \in [Place -> Seq(Entry)], NEW open \in SUBSET Files,
         \A f \in Files : \A c \in Seq(Conditions) :
           deeper[<<f, c, open>>] = Inherit(deeper[<<f, <<>>, open>>], c),
         NEW line \in Line, NEW own \in Seq(Conditions), NEW outer \in Seq(Conditions)
  PROVE  OfLine(line, IF own = <<>> THEN outer ELSE own, open, deeper)
           = Inherit(OfLine(line, own, open, deeper), outer)
<1> DEFINE force == IF own = <<>> THEN outer ELSE own
           nothing == <<>>
           plain == ReadUnder(deeper, nothing, open)
<1>1. nothing \in Seq(Conditions) /\ force \in Seq(Conditions)
  BY EmptySeq
<1>2. plain \in [Files -> Seq(Entry)]
  BY <1>1, ReadTyped
<1>3. ASSUME NEW c \in Seq(Conditions)
      PROVE  ReadUnder(deeper, c, open) = [f \in Files |-> Inherit(plain[f], c)]
  BY DEF ReadUnder
<1> HIDE DEF plain, nothing
<1>4. CASE line.kind = "include"
  <2> DEFINE globs == line.paths
             all == OfGlobs(globs, plain)
  <2>1. globs \in Seq(SUBSET Files)
    BY <1>4, LineTypes
  <2>2. all \in Seq(Entry)
    BY <1>2, <2>1, GlobsPartsTyped
  <2>3. ASSUME NEW c \in Seq(Conditions) PROVE OfLine(line, c, open, deeper) = Inherit(all, c)
    <3>1. OfLine(line, c, open, deeper) = OfGlobs(globs, ReadUnder(deeper, c, open))
      BY <1>4, LineTyped
    <3>2. OfGlobs(globs, [f \in Files |-> Inherit(plain[f], c)]) = Inherit(all, c)
      BY <1>2, <2>1, GlobsInherit
    <3>3. QED
      BY <1>3, <3>1, <3>2
  <2> HIDE DEF all, force
  <2>4. OfLine(line, force, open, deeper) = Inherit(all, force)
    BY <1>1, <2>3
  <2>5. OfLine(line, own, open, deeper) = Inherit(all, own)
    BY <2>3
  <2>6. Inherit(Inherit(all, own), outer) = Inherit(all, force)
    BY <2>2, InheritTwice DEF force
  <2>7. QED
    BY <2>4, <2>5, <2>6 DEF force
<1>5. CASE line.kind = "option"
  <2> DEFINE e(c) == [conds |-> c, dir |-> line.dir]
  <2>1. \A c \in Seq(Conditions) : OfLine(line, c, open, deeper) = <<e(c)>>
    BY <1>5, LineTyped
  <2>2. Inherit(<<e(own)>>, outer) = <<e(force)>>
    <3>1. e(own) \in Entry /\ [e(own) EXCEPT !.conds = outer] = e(outer) /\ e(own).conds = own
      BY <1>5, LineTypes DEF Entry
    <3> DEFINE x == e(own)
    <3> HIDE DEF x
    <3>2. Inherit(<<x>>, outer) = <<IF x.conds = <<>> THEN [x EXCEPT !.conds = outer] ELSE x>>
      BY <3>1, InheritOne DEF x
    <3>3. QED
      BY <3>1, <3>2 DEF x
  <2> HIDE DEF e, force
  <2>3. QED
    BY <1>1, <2>1, <2>2 DEF force
<1>6. CASE line.kind \notin {"include", "option"}
  <2>1. \A c \in Seq(Conditions) : OfLine(line, c, open, deeper) = <<>>
    BY <1>6, LineTyped
  <2>2. QED
    BY <1>1, <2>1, InheritEmpty
<1>7. QED
  BY <1>4, <1>5, <1>6

\* What a file says under c is what it says under nothing, made to inherit c.
LEMMA FileInherits ==
  ASSUME NEW t \in [Files -> File], NEW deeper \in [Place -> Seq(Entry)],
         \A o \in SUBSET Files : \A f \in Files : \A c \in Seq(Conditions) :
           deeper[<<f, c, o>>] = Inherit(deeper[<<f, <<>>, o>>], c),
         NEW f \in Files, NEW open \in SUBSET Files, NEW c \in Seq(Conditions)
  PROVE  OfFile(t, f, c, open, deeper) = Inherit(OfFile(t, f, <<>>, open, deeper), c)
<1>1. CASE f \in open \/ t[f].kind # "text"
  <2>1. OfFile(t, f, c, open, deeper) = <<>> /\ OfFile(t, f, <<>>, open, deeper) = <<>>
    BY <1>1 DEF OfFile
  <2>2. QED
    BY <2>1, InheritEmpty
<1>2. CASE ~(f \in open \/ t[f].kind # "text")
  <2> DEFINE lines == t[f].lines
             nothing == <<>>
             o == open \cup {f}
             p == OfLines(lines, nothing, o, deeper)
             h == OfLines(lines, c, o, deeper)
  <2>1. lines \in Seq(Line) /\ o \in SUBSET Files /\ nothing \in Seq(Conditions)
    BY <1>2, EmptySeq DEF File
  <2>2. OfFile(t, f, c, open, deeper) = FlattenSeq(h)
    BY <1>2 DEF OfFile
  <2>3. OfFile(t, f, nothing, open, deeper) = FlattenSeq(p)
    BY <1>2 DEF OfFile
  <2>4. ASSUME NEW g \in Files, NEW b \in Seq(Conditions)
        PROVE  deeper[<<g, b, o>>] = Inherit(deeper[<<g, <<>>, o>>], b)
    BY <2>1
  <2>5. \A i \in 1 .. Len(lines) : lines[i] \in Line
    BY <2>1, ElementOfSeq
  <2> HIDE DEF lines, o
  <2>6. p \in Seq(Seq(Entry)) /\ h \in Seq(Seq(Entry)) /\ Len(p) = Len(lines) /\ Len(h) = Len(lines)
    BY <2>1, LinesTyped
  <2>7. ASSUME NEW i \in 1 .. Len(lines) PROVE h[i] = Inherit(p[i], c)
    <3> DEFINE own == Own(lines, i)
    <3>1. h[i] = OfLine(lines[i], InForceAt(lines, i, c), o, deeper)
      BY <2>1, LinesTyped
    <3>2. p[i] = OfLine(lines[i], InForceAt(lines, i, nothing), o, deeper)
      BY <2>1, LinesTyped
    <3>3. /\ own \in Seq(Conditions) /\ InForceAt(lines, i, nothing) = own
          /\ InForceAt(lines, i, c) = (IF own = <<>> THEN c ELSE own)
      BY <2>1, ForceTyped
    <3> HIDE DEF own, p, h
    <3>4. OfLine(lines[i], IF own = <<>> THEN c ELSE own, o, deeper)
            = Inherit(OfLine(lines[i], own, o, deeper), c)
      <4>1. own \in Seq(Conditions) /\ lines[i] \in Line
        BY <2>5, <3>3
      <4>2. \A g \in Files : \A b \in Seq(Conditions) :
              deeper[<<g, b, o>>] = Inherit(deeper[<<g, <<>>, o>>], b)
        BY <2>4
      <4>3. QED
        BY <2>1, <4>1, <4>2, LineInherits
    <3>5. QED
      BY <3>1, <3>2, <3>3, <3>4
  <2> HIDE DEF p, h
  <2>8. FlattenSeq(h) = Inherit(FlattenSeq(p), c)
    BY <2>6, <2>7, InheritParts
  <2>9. QED
    BY <2>2, <2>3, <2>8 DEF nothing
<1>3. QED
  BY <1>1, <1>2

Inherits(deeper) ==
  \A o \in SUBSET Files : \A f \in Files : \A c \in Seq(Conditions) :
    deeper[<<f, c, o>>] = Inherit(deeper[<<f, <<>>, o>>], c)

LEMMA ReadingInherits ==
  ASSUME NEW t \in [Files -> File]
  PROVE  \A n \in 0 .. MaxDepth + 1 : Inherits(Reading(t)[n])
<1> DEFINE N == {n \in Nat : Inherits(Reading(t)[n])}
           m == MaxDepth + 1
<1>1. m \in Nat /\ <<>> \in Seq(Conditions)
  BY DepthAssumption, EmptySeq
<1>2. 0 \in N
  <2> SUFFICES ASSUME NEW o \in SUBSET Files, NEW f \in Files, NEW c \in Seq(Conditions)
               PROVE  Reading(t)[0][<<f, c, o>>] = Inherit(Reading(t)[0][<<f, <<>>, o>>], c)
    BY DEF Inherits
  <2>1. <<f, c, o>> \in Place /\ <<f, <<>>, o>> \in Place
    BY <1>1 DEF Place
  <2>2. Reading(t)[0][<<f, c, o>>] = <<>> /\ Reading(t)[0][<<f, <<>>, o>>] = <<>>
    BY <2>1, LevelByLevel
  <2>3. QED
    BY <2>2, InheritEmpty
<1>3. ASSUME NEW n \in Nat, n < m, n \in N PROVE n + 1 \in N
  <2>0. n \in Nat /\ n < m
    BY <1>3
  <2>1. PICK k \in 1 .. m : k = n + 1 /\ k - 1 = n /\ k - 1 \in 0 .. m
    <3> HIDE DEF N
    <3> QED BY <1>1, <2>0
  <2> DEFINE d == Reading(t)[k - 1]
  <2>2. Reading(t)[k] = [p \in Place |-> OfFile(t, p[1], p[2], p[3], d)]
    BY LevelByLevel
  <2>3. d \in [Place -> Seq(Entry)]
    BY <2>1, ReadingTyped
  <2>4. Inherits(d)
    BY <1>3, <2>1
  <2> HIDE DEF d
  <2>5. ASSUME NEW o \in SUBSET Files, NEW f \in Files, NEW c \in Seq(Conditions)
        PROVE  Reading(t)[k][<<f, c, o>>] = Inherit(Reading(t)[k][<<f, <<>>, o>>], c)
    <3>1. <<f, c, o>> \in Place /\ <<f, <<>>, o>> \in Place
      BY <1>1 DEF Place
    <3>2. Reading(t)[k][<<f, c, o>>] = OfFile(t, f, c, o, d)
      BY <2>2, <3>1
    <3>3. Reading(t)[k][<<f, <<>>, o>>] = OfFile(t, f, <<>>, o, d)
      BY <2>2, <3>1
    <3>4. OfFile(t, f, c, o, d) = Inherit(OfFile(t, f, <<>>, o, d), c)
      BY <2>3, <2>4, FileInherits DEF Inherits
    <3>5. QED
      BY <3>2, <3>3, <3>4
  <2>6. Inherits(Reading(t)[k])
    BY <2>5 DEF Inherits
  <2>7. QED
    BY <2>1, <2>6
<1>4. \A n \in 0 .. m : n \in N
  <2> HIDE DEF N
  <2> QED BY <1>1, <1>2, <1>3, InductionUpTo
<1>5. QED
  BY <1>4

-----------------------------------------------------------------------------
(* The frames, against the flat reading.                                   *)

\* What the lines of frame g say up to line n, if "deeper" is what is said further in.
SaidBy(t, g, deeper, open) == UpTo(OfLines(t[g.file].lines, <<>>, open, deeper))

\* A frame between two lines has the entries of the lines before.  One that is including has
\* those before the Include, and what it has included, what the frame above is about to return
\* and what is left of the globs are together what the Include line says.
FrameReads(t, g, deeper, open, pending) ==
  LET lines == t[g.file].lines
      read  == ReadUnder(deeper, <<>>, open)
  IN /\ g.conds = Own(lines, g.line)
     /\ ~g.including => /\ g.entries = SaidBy(t, g, deeper, open)[g.line]
                        /\ g.included = <<>> /\ g.matches = {}
     /\ g.including =>
          /\ g.line # 0 /\ lines[g.line].kind = "include"
          /\ g.entries = SaidBy(t, g, deeper, open)[g.line - 1]
          /\ g.included \o (pending \o (OfGlob(g.matches, read) \o OfGlobs(g.paths, read)))
               = OfGlobs(lines[g.line].paths, read)

Opened(s, i) == {s[j].file : j \in 1 .. i}
Deeper(t, i) == Reading(t)[MaxDepth + 1 - i]
Pending(t, s, i) ==
  IF i < Len(s) THEN Deeper(t, i)[<<s[i + 1].file, <<>>, Opened(s, i)>>] ELSE <<>>

FrameAt(t, s, i) ==
  /\ i < Len(s) => s[i].including
  /\ FrameReads(t, s[i], Deeper(t, i), Opened(s, i), Pending(t, s, i))

StackReads(t, s) == Len(s) <= MaxDepth + 1 /\ \A i \in 1 .. Len(s) : FrameAt(t, s, i)

\* A step changes frame k and what is above it.
LEMMA LowerFrames ==
  ASSUME NEW t, NEW s \in Seq(Frame), StackReads(t, s), NEW r \in Seq(Frame),
         NEW k \in 1 .. Len(s), k <= Len(r), Len(r) <= MaxDepth + 1,
         \A j \in 1 .. k - 1 : r[j] = s[j], r[k].file = s[k].file,
         \A i \in k .. Len(r) : FrameAt(t, r, i)
  PROVE  StackReads(t, r)
<1>1. Len(s) \in Nat /\ Len(r) \in Nat
  BY LenProperties
<1>2. \A j \in 1 .. k : r[j].file = s[j].file
  BY <1>1
<1>3. ASSUME NEW i \in 1 .. Len(r) PROVE FrameAt(t, r, i)
  <2>1. CASE i >= k
    BY <1>1, <2>1
  <2>2. CASE i < k
    <3>1. i \in 1 .. k - 1 /\ i \in 1 .. Len(s) /\ i < Len(s) /\ i < Len(r) /\ i + 1 \in 1 .. k
      BY <1>1, <2>2
    <3>2. r[i] = s[i] /\ r[i + 1].file = s[i + 1].file
      BY <1>2, <3>1
    <3>3. Opened(r, i) = Opened(s, i)
      <4>1. \A j \in 1 .. i : r[j].file = s[j].file
        BY <1>1, <1>2, <3>1
      <4>2. QED
        BY <4>1 DEF Opened
    <3>4. Pending(t, r, i) = Pending(t, s, i)
      BY <3>1, <3>2, <3>3 DEF Pending
    <3>5. FrameAt(t, s, i)
      BY <3>1 DEF StackReads
    <3>6. QED
      BY <3>1, <3>2, <3>3, <3>4, <3>5 DEF FrameAt
  <2>3. QED
    BY <1>1, <2>1, <2>2
<1>4. QED
  BY <1>3 DEF StackReads

\* The innermost frame, whose files are those that are visited.
LEMMA TopReads ==
  ASSUME ParserInv, StackReads(tree, stack), stack # <<>>
  PROVE  /\ FrameReads(tree, Top, Deeper(tree, Len(stack)), visited, <<>>)
         /\ Opened(stack, Len(stack)) = visited
         /\ Len(stack) \in 1 .. MaxDepth + 1
         /\ Deeper(tree, Len(stack)) \in [Place -> Seq(Entry)]
         /\ visited \in SUBSET Files
         /\ tree \in [Files -> File] /\ stack \in Seq(Frame)
<1> DEFINE n == Len(stack)
<1>1. n \in Nat \ {0} /\ DOMAIN stack = 1 .. n /\ Top = stack[n]
  BY TopProperties, LenProperties DEF ParserInv, ParserTypeOK
<1>2. Opened(stack, n) = visited
  BY <1>1 DEF ParserInv, VisitedAreBeingRead, Opened
<1>3. n <= MaxDepth + 1 /\ FrameAt(tree, stack, n)
  BY <1>1 DEF StackReads
<1>4. Pending(tree, stack, n) = <<>>
  BY <1>1 DEF Pending
<1>5. MaxDepth + 1 - n \in 0 .. MaxDepth + 1
  BY <1>1, <1>3, DepthAssumption
<1>6. tree \in [Files -> File]
  BY DEF ParserInv, ParserTypeOK
<1>7. Deeper(tree, n) \in [Place -> Seq(Entry)]
  BY <1>5, <1>6, ReadingTyped DEF Deeper
<1>8. QED
  BY <1>1, <1>2, <1>3, <1>4, <1>6, <1>7, DepthAssumption
     DEF FrameAt, ParserInv, ParserTypeOK

\* Another innermost frame, of the same file.
LEMMA TopReplaced ==
  ASSUME ParserInv, StackReads(tree, stack), stack # <<>>, NEW g \in Frame, g.file = Top.file,
         FrameReads(tree, g, Deeper(tree, Len(stack)), visited, <<>>)
  PROVE  StackReads(tree, WithTop(g)) /\ WithTop(g) # <<>> /\ WithTop(g)[1].file = stack[1].file
<1> DEFINE n == Len(stack)
           r == WithTop(g)
<1>1. /\ n \in 1 .. MaxDepth + 1 /\ Opened(stack, n) = visited /\ stack \in Seq(Frame)
  BY TopReads
<1>2. n \in Nat /\ Top = stack[n] /\ n <= MaxDepth + 1 /\ n \in 1 .. n /\ 1 \in 1 .. n
  BY <1>1, TopProperties, DepthAssumption
<1>3. /\ r \in Seq(Frame) /\ Len(r) = n
      /\ \A j \in 1 .. n : r[j] = IF j = n THEN g ELSE stack[j]
  BY <1>1, <1>2, ExceptSeq DEF WithTop
<1> HIDE DEF r
<1>4. Opened(r, n) = visited
  <2>1. \A j \in 1 .. n : r[j].file = stack[j].file
    BY <1>2, <1>3
  <2>2. QED
    BY <1>1, <2>1 DEF Opened
<1>5. Pending(tree, r, n) = <<>>
  BY <1>2, <1>3 DEF Pending
<1>6. FrameAt(tree, r, n)
  BY <1>2, <1>3, <1>4, <1>5 DEF FrameAt
<1>7. \A i \in n .. Len(r) : i = n
  BY <1>2, <1>3
<1>8. \A j \in 1 .. n - 1 : r[j] = stack[j]
  BY <1>2, <1>3
<1>9. r[n].file = stack[n].file /\ r[1].file = stack[1].file
  BY <1>2, <1>3
<1>10. StackReads(tree, r)
  BY <1>1, <1>2, <1>3, <1>6, <1>7, <1>8, <1>9, LowerFrames
<1>11. r # <<>>
  BY <1>2, <1>3, EmptySeq
<1>12. QED
  BY <1>9, <1>10, <1>11 DEF r

-----------------------------------------------------------------------------
(* One step of the parser.                                                 *)

\* What reading one more line adds.
LEMMA NextSaid ==
  ASSUME NEW lines \in Seq(Line), NEW open \in SUBSET Files, NEW deeper \in [Place -> Seq(Entry)],
         NEW k \in 1 .. Len(lines)
  PROVE  /\ UpTo(OfLines(lines, <<>>, open, deeper))[k]
              = UpTo(OfLines(lines, <<>>, open, deeper))[k - 1] \o OfLine(lines[k], Own(lines, k), open, deeper)
         /\ UpTo(OfLines(lines, <<>>, open, deeper))[k - 1] \in Seq(Entry)
         /\ Own(lines, k) \in Seq(Conditions) /\ lines[k] \in Line
<1> DEFINE none == <<>>
           p == OfLines(lines, none, open, deeper)
<1>1. none \in Seq(Conditions) /\ lines[k] \in Line
  BY EmptySeq, ElementOfSeq
<1>2. p \in Seq(Seq(Entry)) /\ Len(p) = Len(lines) /\ p[k] = OfLine(lines[k], InForceAt(lines, k, none), open, deeper)
  BY <1>1, LinesTyped
<1>3. InForceAt(lines, k, none) = Own(lines, k) /\ Own(lines, k) \in Seq(Conditions)
  BY <1>1, ForceTyped
<1> HIDE DEF p, none
<1>4. UpTo(p)[k] = UpTo(p)[k - 1] \o p[k]
  BY <1>2, PartByPart
<1>5. Len(lines) \in Nat
  BY LenProperties
<1>6. k - 1 \in 0 .. Len(p)
  BY <1>2, <1>5
<1>7. UpTo(p)[k - 1] \in Seq(Entry)
  BY <1>2, <1>6, PartsTyped
<1>8. QED
  BY <1>1, <1>2, <1>3, <1>4, <1>7 DEF p, none

LEMMA LineReads ==
  ASSUME ParserInv, StackReads(tree, stack), ReadBlock \/ ReadOption \/ ReadInclude
  PROVE  \E g \in Frame : /\ Becomes(g) /\ g.file = Top.file
                          /\ FrameReads(tree, g, Deeper(tree, Len(stack)), visited, <<>>)
<1> DEFINE lines == tree[Top.file].lines
           deeper == Deeper(tree, Len(stack))
           said == UpTo(OfLines(lines, <<>>, visited, deeper))
           read == ReadUnder(deeper, <<>>, visited)
<1>1. status = "reading" /\ stack # <<>> /\ ~AtEnd /\ ~Top.including
  BY DEF ReadBlock, ReadOption, ReadInclude, At, BetweenLines, ParserInv, FramesInText
<1>2. /\ Top \in Frame /\ lines \in Seq(Line) /\ Top.line <= Len(lines)
  BY <1>1, TopProperties
<1>3. Top.line \in Nat /\ Len(lines) \in Nat /\ Top.line # Len(lines)
  BY <1>1, <1>2, LenProperties DEF AtEnd, Frame
<1>3a. Top.line + 1 \in Nat
  BY <1>3
<1>4. PICK k \in 1 .. Len(lines) : k = Top.line + 1 /\ k - 1 = Top.line /\ k # 0
  BY <1>2, <1>3
<1>5. /\ Top.conds = Own(lines, k - 1) /\ Top.entries = said[k - 1]
      /\ Top.included = <<>> /\ Top.matches = {} /\ deeper \in [Place -> Seq(Entry)]
      /\ visited \in SUBSET Files
  BY <1>1, <1>4, TopReads DEF FrameReads, SaidBy
<1>6. NextLine = lines[k]
  BY <1>4 DEF NextLine
<1>7. /\ said[k] = said[k - 1] \o OfLine(lines[k], Own(lines, k), visited, deeper)
      /\ said[k - 1] \in Seq(Entry) /\ Own(lines, k) \in Seq(Conditions) /\ lines[k] \in Line
  BY <1>2, <1>5, NextSaid
<1>8. /\ lines[k].kind = "block" => Own(lines, k) = lines[k].conds
      /\ lines[k].kind # "block" => Own(lines, k) = Own(lines, k - 1)
  BY <1>3, <1>4, OwnNext
<1>9. ASSUME NEW g, g.file = Top.file
      PROVE  FrameReads(tree, g, deeper, visited, <<>>) <=>
               /\ g.conds = Own(lines, g.line)
               /\ ~g.including => g.entries = said[g.line] /\ g.included = <<>> /\ g.matches = {}
               /\ g.including =>
                    /\ g.line # 0 /\ lines[g.line].kind = "include" /\ g.entries = said[g.line - 1]
                    /\ g.included \o (<<>> \o (OfGlob(g.matches, read) \o OfGlobs(g.paths, read)))
                         = OfGlobs(lines[g.line].paths, read)
  BY <1>9 DEF FrameReads, SaidBy
<1> HIDE DEF lines, deeper, said, read
<1>10. CASE ReadBlock
  <2> DEFINE g == [Top EXCEPT !.line = @ + 1, !.conds = NextLine.conds]
  <2>1. lines[k].kind = "block" /\ Becomes(g)
    BY <1>6, <1>10 DEF ReadBlock, At
  <2>2. lines[k].conds \in Seq(Conditions)
    BY <1>7, <2>1, LineTypes
  <2>3. /\ g \in Frame /\ g.file = Top.file /\ g.line = k /\ g.conds = lines[k].conds
        /\ g.entries = Top.entries /\ g.including = Top.including
        /\ g.included = Top.included /\ g.matches = Top.matches
    <3>1. NextLine.conds \in Seq(Conditions)
      BY <1>6, <2>2
    <3>2. g \in Frame
      BY <1>2, <1>3a, <3>1 DEF Frame
    <3>3. /\ g.file = Top.file /\ g.line = Top.line + 1 /\ g.conds = NextLine.conds
          /\ g.entries = Top.entries /\ g.including = Top.including
          /\ g.included = Top.included /\ g.matches = Top.matches
      BY <1>2 DEF Frame
    <3>4. QED
      BY <1>4, <1>6, <3>2, <3>3
  <2>4. OfLine(lines[k], Own(lines, k), visited, deeper) = <<>>
    <3>1. lines[k].kind \notin {"option", "include"}
      BY <2>1
    <3>2. QED
      BY <1>5, <1>7, <3>1, LineTyped
  <2>5. said[k] = said[k - 1]
    BY <1>7, <2>4, ConcatEmptySeq
  <2> HIDE DEF g
  <2>6. FrameReads(tree, g, deeper, visited, <<>>)
    BY <1>1, <1>5, <1>8, <1>9, <2>1, <2>3, <2>5
  <2>7. QED
    BY <2>1, <2>3, <2>6 DEF deeper
<1>11. CASE ReadOption
  <2> DEFINE e == [conds |-> Top.conds, dir |-> NextLine.dir]
             g == [Top EXCEPT !.line = @ + 1, !.entries = Append(@, e)]
  <2>1. lines[k].kind = "option" /\ Becomes(g)
    BY <1>6, <1>11 DEF ReadOption, At
  <2>2. e \in Entry
    <3>1. Top.conds \in Seq(Conditions)
      BY <1>2 DEF Frame
    <3>2. NextLine.dir \in Directives
      BY <1>6, <1>7, <2>1, LineTypes
    <3>3. QED
      BY <3>1, <3>2 DEF Entry
  <2>3. OfLine(lines[k], Own(lines, k), visited, deeper) = <<e>>
    <3>1. Own(lines, k) = Top.conds
      BY <1>5, <1>8, <2>1
    <3>2. OfLine(lines[k], Own(lines, k), visited, deeper)
            = <<[conds |-> Own(lines, k), dir |-> lines[k].dir]>>
      <4>1. /\ lines[k] \in Line /\ lines[k].kind = "option" /\ Own(lines, k) \in Seq(Conditions)
            /\ visited \in SUBSET Files /\ deeper \in [Place -> Seq(Entry)]
        BY <1>5, <1>7, <2>1
      <4>2. QED
        BY <4>1, LineTyped
    <3>3. QED
      BY <1>6, <3>1, <3>2
  <2> HIDE DEF e
  <2>4. said[k] = Append(said[k - 1], e) /\ Append(said[k - 1], e) \in Seq(Entry)
    BY <1>7, <2>2, <2>3, AppendIsConcat, AppendProperties
  <2>5. /\ g \in Frame /\ g.file = Top.file /\ g.line = k /\ g.conds = Top.conds
        /\ g.entries = Append(Top.entries, e) /\ g.including = Top.including
        /\ g.included = Top.included /\ g.matches = Top.matches
    <3>1. Append(Top.entries, e) \in Seq(Entry)
      BY <1>5, <2>4
    <3>2. g \in Frame
      BY <1>2, <1>3a, <3>1 DEF Frame
    <3>3. /\ g.file = Top.file /\ g.line = Top.line + 1 /\ g.conds = Top.conds
          /\ g.entries = Append(Top.entries, e) /\ g.including = Top.including
          /\ g.included = Top.included /\ g.matches = Top.matches
      BY <1>2 DEF Frame
    <3>4. QED
      BY <1>4, <3>2, <3>3
  <2> HIDE DEF g
  <2>6. FrameReads(tree, g, deeper, visited, <<>>)
    BY <1>1, <1>5, <1>8, <1>9, <2>1, <2>4, <2>5
  <2>7. QED
    BY <2>1, <2>5, <2>6 DEF deeper
<1>12. CASE ReadInclude
  <2> DEFINE g == [Top EXCEPT !.line = @ + 1, !.including = TRUE, !.paths = NextLine.paths]
  <2>1. lines[k].kind = "include" /\ Becomes(g)
    BY <1>6, <1>12 DEF ReadInclude, At
  <2>2. lines[k].paths \in Seq(SUBSET Files)
    BY <1>7, <2>1, LineTypes
  <2>3. /\ g \in Frame /\ g.file = Top.file /\ g.line = k /\ g.conds = Top.conds
        /\ g.entries = Top.entries /\ g.including = TRUE /\ g.paths = lines[k].paths
        /\ g.included = Top.included /\ g.matches = Top.matches
    <3>1. NextLine.paths \in Seq(SUBSET Files)
      BY <1>6, <2>2
    <3>2. g \in Frame
      BY <1>2, <1>3a, <3>1 DEF Frame
    <3>3. /\ g.file = Top.file /\ g.line = Top.line + 1 /\ g.conds = Top.conds
          /\ g.entries = Top.entries /\ g.including = TRUE /\ g.paths = NextLine.paths
          /\ g.included = Top.included /\ g.matches = Top.matches
      BY <1>2 DEF Frame
    <3>4. QED
      BY <1>4, <1>6, <3>2, <3>3
  <2>4. read \in [Files -> Seq(Entry)]
    BY <1>5, EmptySeq, ReadTyped DEF read
  <2>5. OfGlob({}, read) = <<>> /\ OfGlobs(lines[k].paths, read) \in Seq(Entry)
    BY <2>2, <2>4, EmptyGlob, GlobsPartsTyped
  <2>6. <<>> \o (<<>> \o (<<>> \o OfGlobs(lines[k].paths, read))) = OfGlobs(lines[k].paths, read)
    BY <2>5, ConcatEmptySeq
  <2> HIDE DEF g
  <2>7. g.included \o (<<>> \o (OfGlob(g.matches, read) \o OfGlobs(g.paths, read)))
          = OfGlobs(lines[g.line].paths, read)
    BY <1>5, <2>3, <2>5, <2>6
  <2>8. FrameReads(tree, g, deeper, visited, <<>>)
    BY <1>4, <1>5, <1>8, <1>9, <2>1, <2>3, <2>7
  <2>9. QED
    BY <2>1, <2>3, <2>8 DEF deeper
<1>13. QED
  BY <1>10, <1>11, <1>12

\* A file that is being read, or is no text, is passed over however deep.
LEMMA PassedOver ==
  ASSUME ParserInv, StackReads(tree, stack), stack # <<>>, NEW f \in Files,
         f \in visited \/ tree[f].kind # "text"
  PROVE  Deeper(tree, Len(stack))[<<f, <<>>, visited>>] = <<>>
<1> DEFINE n == MaxDepth + 1 - Len(stack)
<1>1. n \in 0 .. MaxDepth + 1
  <2>1. Len(stack) \in 1 .. MaxDepth + 1
    BY TopReads
  <2>2. QED
    BY <2>1, DepthAssumption
<1>2. <<f, <<>>, visited>> \in Place
  BY TopReads, EmptySeq DEF Place
<1> HIDE DEF n
<1>3. CASE n = 0
  BY <1>2, <1>3, LevelByLevel DEF Deeper, n
<1>4. CASE n # 0
  <2>1. n \in 1 .. MaxDepth + 1
    BY <1>1, <1>4
  <2>2. Reading(tree)[n][<<f, <<>>, visited>>] = OfFile(tree, f, <<>>, visited, Reading(tree)[n - 1])
    <3> DEFINE d == Reading(tree)[n - 1]
    <3>1. Reading(tree)[n] = [p \in Place |-> OfFile(tree, p[1], p[2], p[3], d)]
      BY <2>1, LevelByLevel
    <3> HIDE DEF d
    <3>2. Reading(tree)[n][<<f, <<>>, visited>>] = OfFile(tree, f, <<>>, visited, d)
      BY <1>2, <3>1
    <3>3. QED
      BY <3>2 DEF d
  <2>3. QED
    BY <2>2 DEF OfFile, Deeper, n
<1>5. QED
  BY <1>3, <1>4

LEMMA TopInherits ==
  ASSUME ParserInv, StackReads(tree, stack), stack # <<>>, NEW f \in Files, NEW c \in Seq(Conditions)
  PROVE  Deeper(tree, Len(stack))[<<f, c, visited>>]
           = Inherit(Deeper(tree, Len(stack))[<<f, <<>>, visited>>], c)
<1>1. MaxDepth + 1 - Len(stack) \in 0 .. MaxDepth + 1
  <2>1. Len(stack) \in 1 .. MaxDepth + 1
    BY TopReads
  <2>2. QED
    BY <2>1, DepthAssumption
<1>2. Inherits(Deeper(tree, Len(stack)))
  BY <1>1, TopReads, ReadingInherits DEF Deeper
<1>3. QED
  BY <1>2, TopReads DEF Inherits

\* An innermost frame that is including.
LEMMA IncludingTop ==
  ASSUME ParserInv, StackReads(tree, stack), Including,
         NEW read, read = ReadUnder(Deeper(tree, Len(stack)), <<>>, visited)
  PROVE  /\ stack # <<>> /\ Top \in Frame /\ Top.including = TRUE
         /\ read \in [Files -> Seq(Entry)]
         /\ Top.conds = Own(tree[Top.file].lines, Top.line)
         /\ Top.line \in 1 .. Len(tree[Top.file].lines) /\ Top.line # 0
         /\ tree[Top.file].lines[Top.line].kind = "include"
         /\ Top.entries = SaidBy(tree, Top, Deeper(tree, Len(stack)), visited)[Top.line - 1]
         /\ Top.matches \in SUBSET Files /\ Top.paths \in Seq(SUBSET Files)
         /\ Top.included \in Seq(Entry)
         /\ OfGlob(Top.matches, read) \in Seq(Entry) /\ OfGlobs(Top.paths, read) \in Seq(Entry)
         /\ Top.included \o (OfGlob(Top.matches, read) \o OfGlobs(Top.paths, read))
              = OfGlobs(tree[Top.file].lines[Top.line].paths, read)
<1> DEFINE x == OfGlob(Top.matches, read)
           y == OfGlobs(Top.paths, read)
<1>1. stack # <<>> /\ Top.including
  BY DEF Including, ParserInv, FramesInText
<1>2. /\ Top \in Frame /\ tree[Top.file].lines \in Seq(Line) /\ Top.line <= Len(tree[Top.file].lines)
  BY <1>1, TopProperties
<1>3. /\ Top.matches \in SUBSET Files /\ Top.paths \in Seq(SUBSET Files)
      /\ Top.included \in Seq(Entry) /\ Top.including = TRUE /\ Top.line \in Nat
  BY <1>1, <1>2 DEF Frame
<1>4. read \in [Files -> Seq(Entry)]
  BY <1>1, TopReads, ReadTyped, EmptySeq
<1>5. x \in Seq(Entry) /\ y \in Seq(Entry)
  BY <1>3, <1>4, GlobPartsTyped, GlobsPartsTyped
<1>6. /\ Top.conds = Own(tree[Top.file].lines, Top.line) /\ Top.line # 0
      /\ tree[Top.file].lines[Top.line].kind = "include"
      /\ Top.entries = SaidBy(tree, Top, Deeper(tree, Len(stack)), visited)[Top.line - 1]
      /\ Top.included \o (<<>> \o (x \o y)) = OfGlobs(tree[Top.file].lines[Top.line].paths, read)
  BY <1>1, TopReads DEF FrameReads
<1> HIDE DEF x, y
<1>7. x \o y \in Seq(Entry)
  BY <1>5, ConcatProperties
<1>8. <<>> \o (x \o y) = x \o y
  BY <1>7, ConcatEmptySeq
<1>9. Top.line \in 1 .. Len(tree[Top.file].lines)
  <2>1. Top.line \in Nat /\ Top.line # 0 /\ Top.line <= Len(tree[Top.file].lines)
    BY <1>2, <1>3, <1>6
  <2>2. Len(tree[Top.file].lines) \in Nat
    BY <1>2, LenProperties
  <2>3. QED
    BY <2>1, <2>2
<1>10. QED
  BY <1>1, <1>2, <1>3, <1>4, <1>5, <1>6, <1>8, <1>9 DEF x, y

\* Two frames of one Include, the second of which is further on in its globs.
LEMMA FurtherOn ==
  ASSUME ParserInv, StackReads(tree, stack), Including, NEW g \in Frame,
         g.file = Top.file, g.line = Top.line, g.conds = Top.conds, g.entries = Top.entries,
         g.including = TRUE, NEW pending,
         NEW read, read = ReadUnder(Deeper(tree, Len(stack)), <<>>, visited),
         g.included \o (pending \o (OfGlob(g.matches, read) \o OfGlobs(g.paths, read)))
           = OfGlobs(tree[Top.file].lines[Top.line].paths, read)
  PROVE  FrameReads(tree, g, Deeper(tree, Len(stack)), visited, pending)
<1>1. /\ Top.conds = Own(tree[Top.file].lines, Top.line)
      /\ tree[Top.file].lines[Top.line].kind = "include"
      /\ Top.entries = SaidBy(tree, Top, Deeper(tree, Len(stack)), visited)[Top.line - 1]
      /\ Top.line # 0
  BY IncludingTop
<1>2. QED
  BY <1>1 DEF FrameReads, SaidBy

LEMMA IncludeReads ==
  ASSUME ParserInv, StackReads(tree, stack),
         \/ NextPath \/ EndInclude
         \/ \E f \in Files : SkipMatch(f) \/ SkipVisited(f)
  PROVE  \E g \in Frame : /\ Becomes(g) /\ g.file = Top.file
                          /\ FrameReads(tree, g, Deeper(tree, Len(stack)), visited, <<>>)
<1> DEFINE lines == tree[Top.file].lines
           deeper == Deeper(tree, Len(stack))
           read == ReadUnder(deeper, <<>>, visited)
           globs == OfGlobs(Top.paths, read)
           nothing == <<>>
<1>1. Including /\ stack # <<>>
  BY DEF NextPath, EndInclude, SkipMatch, SkipVisited, Match, Including, ParserInv, FramesInText
<1>2. /\ Top \in Frame /\ Top.including = TRUE /\ read \in [Files -> Seq(Entry)]
      /\ Top.matches \in SUBSET Files /\ Top.paths \in Seq(SUBSET Files)
      /\ Top.included \in Seq(Entry) /\ globs \in Seq(Entry)
      /\ Top.line \in 1 .. Len(lines) /\ lines[Top.line].kind = "include"
      /\ Top.conds = Own(lines, Top.line)
  BY <1>1, IncludingTop
<1>3. Top.included \o (OfGlob(Top.matches, read) \o globs) = OfGlobs(lines[Top.line].paths, read)
  BY <1>1, IncludingTop
<1>4. deeper \in [Place -> Seq(Entry)] /\ visited \in SUBSET Files /\ nothing \in Seq(Conditions)
      /\ nothing \in Seq(Entry)
  BY <1>1, TopReads, EmptySeq
<1>5. OfGlob({}, read) = <<>> /\ nothing \o globs = globs
  BY <1>2, <1>4, EmptyGlob, ConcatEmptySeq
<1>6. CASE NextPath
  <2> DEFINE g == [Top EXCEPT !.matches = Head(Top.paths), !.paths = Tail(@)]
             x == OfGlob(Head(Top.paths), read)
             y == OfGlobs(Tail(Top.paths), read)
  <2>1. Top.matches = {} /\ Top.paths # <<>> /\ Becomes(g)
    BY <1>6 DEF NextPath
  <2>2. Head(Top.paths) \in SUBSET Files /\ Tail(Top.paths) \in Seq(SUBSET Files)
    BY <1>2, <2>1, HeadTailProperties
  <2>3. g \in Frame
    BY <1>2, <2>2 DEF Frame
  <2>4. /\ g.file = Top.file /\ g.line = Top.line /\ g.conds = Top.conds /\ g.entries = Top.entries
        /\ g.including = TRUE /\ g.included = Top.included
        /\ g.matches = Head(Top.paths) /\ g.paths = Tail(Top.paths)
    BY <1>2 DEF Frame
  <2>5. globs = x \o y /\ x \in Seq(Entry) /\ y \in Seq(Entry)
    BY <1>2, <2>1, <2>2, FirstOfGlobs, GlobPartsTyped, GlobsPartsTyped
  <2> HIDE DEF x, y, globs
  <2>6. nothing \o (x \o y) = x \o y /\ OfGlob(Top.matches, read) \o globs = x \o y
    BY <1>5, <2>1, <2>5
  <2>7. g.included \o (<<>> \o (OfGlob(g.matches, read) \o OfGlobs(g.paths, read)))
          = OfGlobs(lines[Top.line].paths, read)
    BY <1>3, <2>4, <2>6 DEF x, y
  <2> HIDE DEF g, read, deeper
  <2>8. FrameReads(tree, g, deeper, visited, <<>>)
    BY <1>1, <2>3, <2>4, <2>7, FurtherOn DEF read, deeper
  <2>9. QED
    BY <2>1, <2>3, <2>4, <2>8 DEF deeper
<1>7. CASE \E f \in Files : SkipMatch(f) \/ SkipVisited(f)
  <2>1. PICK f \in Files : SkipMatch(f) \/ SkipVisited(f)
    BY <1>7
  <2> DEFINE g == After(f)
             x == OfGlob(Top.matches \ {f}, read)
  <2>2. f \in Top.matches /\ (\A h \in Top.matches : f <= h) /\ Becomes(g)
    BY <2>1 DEF SkipMatch, SkipVisited, Match
  <2>3. g \in Frame
    BY <1>2 DEF Frame, After
  <2>4. /\ g.file = Top.file /\ g.line = Top.line /\ g.conds = Top.conds /\ g.entries = Top.entries
        /\ g.including = TRUE /\ g.included = Top.included
        /\ g.matches = Top.matches \ {f} /\ g.paths = Top.paths
    BY <1>2 DEF Frame, After
  <2>5. read[f] = <<>>
    <3>1. f \in visited \/ tree[f].kind # "text"
      BY <2>1 DEF SkipMatch, SkipVisited, IsFile, Seen
    <3>2. Deeper(tree, Len(stack))[<<f, <<>>, visited>>] = <<>>
      BY <1>1, <1>4, <3>1, PassedOver
    <3>3. QED
      BY <3>2 DEF ReadUnder
  <2>6. OfGlob(Top.matches, read) = read[f] \o x /\ x \in Seq(Entry)
    <3>1. f \in Top.matches /\ \A h \in Top.matches : f <= h
      BY <2>2
    <3>2. /\ Top.matches \in SUBSET Files /\ Top.matches \ {f} \in SUBSET Files
          /\ read \in [Files -> Seq(Entry)]
      BY <1>2
    <3> HIDE DEF read
    <3>3. OfGlob(Top.matches, read) = read[f] \o x
      BY <3>1, <3>2, FirstOfGlob
    <3>4. x \in Seq(Entry)
      BY <3>2, GlobPartsTyped
    <3>5. QED
      BY <3>3, <3>4
  <2> HIDE DEF x, globs
  <2>7. OfGlob(Top.matches, read) = x /\ x \o globs \in Seq(Entry)
    BY <1>2, <2>5, <2>6, ConcatEmptySeq, ConcatProperties
  <2>8. nothing \o (x \o globs) = OfGlob(Top.matches, read) \o globs
    BY <2>7, ConcatEmptySeq
  <2>9. g.included \o (<<>> \o (OfGlob(g.matches, read) \o OfGlobs(g.paths, read)))
          = OfGlobs(lines[Top.line].paths, read)
    BY <1>3, <2>4, <2>8 DEF x, globs
  <2> HIDE DEF g, read, deeper
  <2>10. FrameReads(tree, g, deeper, visited, <<>>)
    BY <1>1, <2>3, <2>4, <2>9, FurtherOn DEF read, deeper
  <2>11. QED
    BY <2>2, <2>3, <2>4, <2>10 DEF deeper
<1>8. CASE EndInclude
  <2> DEFINE heirs == Inherit(Top.included, Top.conds)
             g == [Top EXCEPT !.including = FALSE, !.included = <<>>, !.entries = @ \o heirs]
             said == UpTo(OfLines(lines, <<>>, visited, deeper))
             line == lines[Top.line]
  <2>1. Top.matches = {} /\ Top.paths = <<>> /\ Becomes(g)
    BY <1>8 DEF EndInclude
  <2>2. heirs \in Seq(Entry) /\ Top.entries \in Seq(Entry) /\ Top.conds \in Seq(Conditions)
    BY <1>2, InheritTyped DEF Frame
  <2>3. Top.included = OfGlobs(line.paths, read)
    <3>1. globs = <<>>
      BY <1>2, <2>1, NoGlobs
    <3>2. Top.included \o (<<>> \o <<>>) = OfGlobs(line.paths, read)
      BY <1>3, <1>5, <2>1, <3>1
    <3>3. QED
      BY <1>2, <3>2, ConcatEmptySeq
  <2> DEFINE k == Top.line
  <2>4. lines \in Seq(Line)
    BY <1>1, TopProperties
  <2>5. /\ said[k] = said[k - 1] \o OfLine(line, Own(lines, k), visited, deeper) /\ line \in Line
    BY <1>2, <1>4, <2>4, NextSaid
  <2>6. heirs = OfLine(line, Own(lines, k), visited, deeper)
    <3>1. OfLine(line, Top.conds, visited, deeper) = OfGlobs(line.paths, ReadUnder(deeper, Top.conds, visited))
      BY <1>2, <1>4, <2>2, <2>5, LineTyped
    <3>2. ReadUnder(deeper, Top.conds, visited) = [f \in Files |-> Inherit(read[f], Top.conds)]
      BY <1>1, <2>2, TopInherits DEF ReadUnder
    <3>3. line.paths \in Seq(SUBSET Files)
      BY <1>2, <2>5, LineTypes
    <3>4. OfGlobs(line.paths, [f \in Files |-> Inherit(read[f], Top.conds)])
            = Inherit(OfGlobs(line.paths, read), Top.conds)
      BY <1>2, <2>2, <3>3, GlobsInherit
    <3>5. QED
      BY <1>2, <2>3, <3>1, <3>2, <3>4
  <2>7. Top.entries = said[k - 1]
    BY <1>1, IncludingTop DEF SaidBy
  <2> HIDE DEF heirs
  <2>8. Top.entries \o heirs \in Seq(Entry)
    BY <2>2, ConcatProperties
  <2>9. g \in Frame
    BY <1>2, <1>4, <2>8 DEF Frame
  <2>10. /\ g.file = Top.file /\ g.line = Top.line /\ g.conds = Top.conds /\ g.including = FALSE
         /\ g.entries = Top.entries \o heirs /\ g.included = <<>> /\ g.matches = {}
    BY <1>2, <2>1 DEF Frame
  <2> HIDE DEF g
  <2>11. g.entries = said[g.line]
    BY <2>5, <2>6, <2>7, <2>10
  <2>12. FrameReads(tree, g, deeper, visited, <<>>)
    BY <1>2, <2>10, <2>11 DEF FrameReads, SaidBy
  <2>13. QED
    BY <2>1, <2>9, <2>10, <2>12
<1>9. QED
  BY <1>6, <1>7, <1>8

\* A file that is opened: what it will say is what the Include waits for.
LEMMA OpenReads ==
  ASSUME ParserInv, ParserInv', StackReads(tree, stack), NEW f \in Files, OpenMatch(f), ~Fail
  PROVE  StackReads(tree, stack') /\ stack' # <<>> /\ stack'[1].file = stack[1].file
<1> DEFINE n == Len(stack)
           g == After(f)
           h == NewFrame(f)
           lines == tree[Top.file].lines
           deeper == Deeper(tree, n)
           read == ReadUnder(deeper, <<>>, visited)
           globs == OfGlobs(Top.paths, read)
           x == OfGlob(Top.matches \ {f}, read)
           s == read[f]
           r == stack'
           inner == visited \cup {f}
<1>1. /\ Including /\ stack # <<>> /\ f \in Top.matches /\ (\A o \in Top.matches : f <= o)
      /\ f \notin visited /\ tree[f].kind = "text" /\ ~TooDeep
      /\ stack' = Append(WithTop(g), h) /\ tree' = tree
  BY DEF OpenMatch, Match, Seen, Including, ParserInv, FramesInText
<1>2. /\ n \in 1 .. MaxDepth + 1 /\ Opened(stack, n) = visited /\ stack \in Seq(Frame)
      /\ deeper \in [Place -> Seq(Entry)] /\ visited \in SUBSET Files
  BY <1>1, TopReads
<1>3. n \in Nat /\ n <= MaxDepth /\ Top = stack[n] /\ n \in 1 .. n
  BY <1>1, <1>2, TopProperties, DepthAssumption DEF TooDeep
<1>4. /\ Top \in Frame /\ Top.including = TRUE /\ read \in [Files -> Seq(Entry)]
      /\ Top.matches \in SUBSET Files /\ Top.included \in Seq(Entry) /\ globs \in Seq(Entry)
      /\ Top.included \o (OfGlob(Top.matches, read) \o globs) = OfGlobs(lines[Top.line].paths, read)
  BY <1>1, IncludingTop
<1>5. /\ g \in Frame /\ g.file = Top.file /\ g.line = Top.line /\ g.conds = Top.conds
      /\ g.entries = Top.entries /\ g.including = TRUE /\ g.included = Top.included
      /\ g.matches = Top.matches \ {f} /\ g.paths = Top.paths
  <2>1. g \in Frame
    BY <1>4 DEF Frame, After
  <2>2. QED
    BY <1>4, <2>1 DEF Frame, After
<1>6. FrameReads(tree, g, deeper, visited, s)
  <2>1. OfGlob(Top.matches, read) = s \o x /\ x \in Seq(Entry) /\ s \in Seq(Entry)
    <3>1. Top.matches \ {f} \in SUBSET Files
      BY <1>4
    <3> HIDE DEF read
    <3>2. x \in Seq(Entry)
      BY <1>4, <3>1, GlobPartsTyped
    <3>3. s \in Seq(Entry)
      BY <1>4
    <3>4. OfGlob(Top.matches, read) = s \o x
      <4>1. f \in Top.matches /\ \A o \in Top.matches : f <= o
        BY <1>1
      <4>2. Top.matches \in SUBSET Files /\ read \in [Files -> Seq(Entry)]
        BY <1>4
      <4>3. QED
        BY <4>1, <4>2, FirstOfGlob
    <3>5. QED
      BY <3>2, <3>3, <3>4
  <2>2. (s \o x) \o globs = s \o (x \o globs)
    <3>1. s \in Seq(Entry) /\ x \in Seq(Entry) /\ globs \in Seq(Entry)
      BY <1>4, <2>1
    <3> HIDE DEF s, x, globs
    <3>2. QED
      BY <3>1, ConcatThree DEF Associative
  <2> HIDE DEF s, x, globs
  <2>3. g.included \o (s \o (OfGlob(g.matches, read) \o OfGlobs(g.paths, read)))
          = OfGlobs(lines[Top.line].paths, read)
    BY <1>4, <1>5, <2>1, <2>2 DEF x, globs
  <2> HIDE DEF g, read, deeper
  <2>4. QED
    BY <1>1, <1>5, <2>3, FurtherOn DEF read, deeper
<1>7. /\ h \in Frame /\ h.file = f /\ h.line = 0 /\ h.conds = <<>> /\ h.entries = <<>>
      /\ h.including = FALSE /\ h.included = <<>> /\ h.matches = {}
  BY NewFrameTyped DEF NewFrame
<1>8. FrameReads(tree, h, Deeper(tree, n + 1), inner, <<>>)
  <2>1. Own(tree[f].lines, 0) = <<>>
    BY OwnNext
  <2>2. Deeper(tree, n + 1) \in [Place -> Seq(Entry)] /\ inner \in SUBSET Files
    <3>1. MaxDepth + 1 - (n + 1) \in 0 .. MaxDepth + 1
      BY <1>3, DepthAssumption
    <3>2. tree \in [Files -> File]
      BY DEF ParserInv, ParserTypeOK
    <3>3. QED
      BY <1>2, <3>1, <3>2, ReadingTyped DEF Deeper
  <2>3. OfLines(tree[f].lines, <<>>, inner, Deeper(tree, n + 1)) \in Seq(Seq(Entry))
    <3>1. tree[f].lines \in Seq(Line)
      BY <1>1, LinesOfText DEF ParserInv, ParserTypeOK
    <3>2. QED
      BY <2>2, <3>1, EmptySeq, LinesTyped
  <2>4. SaidBy(tree, h, Deeper(tree, n + 1), inner)[0] = <<>>
    BY <1>7, <2>3, PartByPart DEF SaidBy
  <2> HIDE DEF h, inner
  <2>5. QED
    BY <1>7, <2>1, <2>4 DEF FrameReads
<1> HIDE DEF g, h
<1>9. /\ r \in Seq(Frame) /\ Len(r) = n + 1 /\ r[n + 1] = h
      /\ \A j \in 1 .. n : r[j] = IF j = n THEN g ELSE stack[j]
  <2>1. /\ WithTop(g) \in Seq(Frame) /\ Len(WithTop(g)) = n
        /\ \A j \in 1 .. n : WithTop(g)[j] = IF j = n THEN g ELSE stack[j]
    BY <1>2, <1>3, <1>5, ExceptSeq DEF WithTop
  <2>2. QED
    BY <1>1, <1>7, <2>1, AppendProperties
<1>10. \A j \in 1 .. n : r[j].file = stack[j].file
  BY <1>3, <1>5, <1>9
<1>11. Opened(r, n) = visited
  BY <1>2, <1>10 DEF Opened
<1>12. Opened(r, n + 1) = inner
  <2>1. 1 .. n + 1 = (1 .. n) \cup {n + 1}
    BY <1>3
  <2>2. QED
    BY <1>7, <1>9, <1>11, <2>1 DEF Opened
<1>13. Pending(tree, r, n) = s
  BY <1>3, <1>7, <1>9, <1>11 DEF Pending, ReadUnder
<1>14. Pending(tree, r, n + 1) = <<>>
  BY <1>3, <1>9 DEF Pending
<1> HIDE DEF r, s, inner, deeper, read, x, globs, lines
<1>15. FrameAt(tree, r, n)
  BY <1>3, <1>5, <1>6, <1>9, <1>11, <1>13 DEF FrameAt, deeper
<1>16. FrameAt(tree, r, n + 1)
  <2>1. ~(n + 1 < Len(r))
    BY <1>3, <1>9
  <2>2. QED
    BY <1>8, <1>9, <1>12, <1>14, <2>1 DEF FrameAt
<1>17. \A i \in n .. Len(r) : i = n \/ i = n + 1
  BY <1>3, <1>9
<1>18. \A i \in n .. Len(r) : FrameAt(tree, r, i)
  BY <1>15, <1>16, <1>17
<1>19. n <= Len(r) /\ Len(r) <= MaxDepth + 1
  BY <1>3, <1>9, DepthAssumption
<1>20. \A j \in 1 .. n - 1 : r[j] = stack[j]
  BY <1>3, <1>9
<1>21. StackReads(tree, r)
  BY <1>3, <1>2, <1>9, <1>10, <1>18, <1>19, <1>20, LowerFrames
<1>22. r # <<>> /\ r[1].file = stack[1].file
  BY <1>3, <1>9, <1>10, EmptySeq
<1>23. QED
  BY <1>21, <1>22 DEF r

\* The file that ends has said what the reading of it says.
LEMMA EndOfFile ==
  ASSUME ParserInv, StackReads(tree, stack), EndFile
  PROVE  LET n == Len(stack) IN
         Top.entries = OfFile(tree, Top.file, <<>>, Opened(stack, n - 1), Deeper(tree, n))
<1> DEFINE n == Len(stack)
           lines == tree[Top.file].lines
           deeper == Deeper(tree, n)
           below == Opened(stack, n - 1)
           p == OfLines(lines, <<>>, visited, deeper)
<1>1. stack # <<>> /\ ~Top.including /\ Top.line = Len(lines)
  BY DEF EndFile, BetweenLines, AtEnd, ParserInv, FramesInText
<1>2. /\ n \in Nat \ {0} /\ Top = stack[n] /\ DOMAIN stack = 1 .. n /\ tree[Top.file].kind = "text"
      /\ lines \in Seq(Line)
  BY <1>1, TopProperties, LenProperties DEF ParserInv, ParserTypeOK
<1>3. /\ Opened(stack, n) = visited /\ deeper \in [Place -> Seq(Entry)] /\ visited \in SUBSET Files
      /\ Top.entries = UpTo(p)[Len(lines)]
  BY <1>1, TopReads DEF FrameReads, SaidBy
<1>4. 1 .. n = (1 .. n - 1) \cup {n} /\ n \notin 1 .. n - 1
  BY <1>2
<1>5. visited = below \cup {Top.file}
  BY <1>2, <1>3, <1>4 DEF Opened
<1>6. Top.file \notin below
  <2> HIDE DEF n
  <2>1. \A j \in 1 .. n - 1 : j \in 1 .. n /\ j # n
    BY <1>4
  <2>2. \A j \in 1 .. n - 1 : stack[j].file # stack[n].file
    BY <1>2, <1>4, <2>1 DEF ParserInv, VisitedAreBeingRead
  <2>3. QED
    BY <1>2, <2>2 DEF Opened
<1>7. p \in Seq(Seq(Entry)) /\ Len(p) = Len(lines)
  <2> DEFINE none == <<>>
             q == OfLines(lines, none, visited, deeper)
  <2>1. none \in Seq(Conditions)
    BY EmptySeq
  <2> HIDE DEF none, lines, deeper
  <2>2. q \in Seq(Seq(Entry)) /\ Len(q) = Len(lines)
    BY <1>2, <1>3, <2>1, LinesTyped
  <2>3. q = p
    BY DEF none
  <2>4. QED
    BY <2>2, <2>3
<1>8. Top.entries = FlattenSeq(p)
  BY <1>3, <1>7, AllParts
<1>9. OfFile(tree, Top.file, <<>>, below, deeper) = FlattenSeq(p)
  BY <1>2, <1>5, <1>6 DEF OfFile
<1>10. QED
  BY <1>8, <1>9

LEMMA ReturnReads ==
  ASSUME ParserInv, ParserInv', StackReads(tree, stack), EndFile, Len(stack) # 1
  PROVE  StackReads(tree, stack') /\ stack' # <<>> /\ stack'[1].file = stack[1].file
<1> DEFINE n == Len(stack)
<1>1. stack # <<>>
  BY DEF EndFile, BetweenLines, ParserInv, FramesInText
<1>2. /\ n \in Nat \ {0} /\ n \in 1 .. MaxDepth + 1 /\ Top = stack[n] /\ Top \in Frame
      /\ stack \in Seq(Frame) /\ tree \in [Files -> File]
  BY <1>1, TopProperties, TopReads
<1> USE DepthAssumption
<1>0. PICK k \in Nat : k + 1 = n /\ n - 1 = k /\ k \in 1 .. MaxDepth + 1
  <2>1. n \in 1 .. MaxDepth + 1 /\ n # 1
    BY <1>2
  <2> HIDE DEF n
  <2>2. n - 1 \in Nat /\ (n - 1) + 1 = n /\ n - 1 \in 1 .. MaxDepth + 1
    BY <2>1
  <2>3. QED
    BY <2>2
<1> DEFINE b == stack[k]
           open == Opened(stack, k)
           deeper == Deeper(tree, k)
           s == Top.entries
           g == [b EXCEPT !.included = @ \o s]
           r == stack'
           read == ReadUnder(deeper, <<>>, open)
           x == OfGlob(b.matches, read)
           y == OfGlobs(b.paths, read)
<1>3. /\ k \in Nat /\ k \in 1 .. n /\ k \in 1 .. k /\ 1 \in 1 .. k /\ n > 1 /\ k < n /\ k + 1 = n
      /\ k <= MaxDepth + 1 /\ k \in 1 .. MaxDepth + 1 /\ n - 1 = k
  <2> HIDE DEF n
  <2> QED BY <1>0
<1>4. b \in Frame /\ s \in Seq(Entry)
  BY <1>2, <1>3, ElementOfSeq DEF Frame
<1>5. stack' = [Front(stack) EXCEPT ![n - 1].included = @ \o s] /\ tree' = tree
  BY <1>2, <1>3 DEF EndFile
<1>6. b.included \in Seq(Entry) /\ b.included \o s \in Seq(Entry)
  BY <1>4, ConcatProperties DEF Frame
<1>7. /\ g \in Frame /\ g.file = b.file /\ g.line = b.line /\ g.conds = b.conds
      /\ g.entries = b.entries /\ g.including = b.including /\ g.included = b.included \o s
      /\ g.matches = b.matches /\ g.paths = b.paths
  <2>1. g \in Frame
    BY <1>4, <1>6 DEF Frame
  <2>2. QED
    BY <1>4, <2>1 DEF Frame
<1>8. /\ r \in Seq(Frame) /\ Len(r) = k
      /\ \A j \in 1 .. k : r[j] = IF j = k THEN g ELSE stack[j]
  <2> DEFINE q == Front(stack)
  <2>1. q \in Seq(Frame) /\ Len(q) = k /\ \A i \in 1 .. k : q[i] = stack[i]
    <3>1. \A i \in 1 .. k : stack[i] \in Frame
      BY <1>2, <1>3, ElementOfSeq
    <3>2. QED
      BY <1>2, <1>3, <3>1, SubSeqProperties DEF Front
  <2>2. r = [q EXCEPT ![k] = g]
    <3>1. q[k] = b
      BY <1>3, <2>1
    <3> HIDE DEF q, b
    <3>2. r = [q EXCEPT ![k].included = @ \o s]
      BY <1>0, <1>5 DEF q
    <3> HIDE DEF r, s
    <3>3. QED
      BY <3>1, <3>2
  <2> HIDE DEF q, g
  <2>3. QED
    BY <1>3, <1>7, <2>1, <2>2, ExceptSeq
<1>9. FrameAt(tree, stack, k)
  BY <1>3 DEF StackReads
<1>10. b.including /\ FrameReads(tree, b, deeper, open, Pending(tree, stack, k))
  BY <1>3, <1>9 DEF FrameAt
<1>11. Pending(tree, stack, k) = s
  <2>1. Pending(tree, stack, k) = deeper[<<Top.file, <<>>, open>>]
    BY <1>2, <1>3 DEF Pending
  <2>2. s = OfFile(tree, Top.file, <<>>, open, Deeper(tree, n))
    <3>1. Top.entries = OfFile(tree, Top.file, <<>>, Opened(stack, n - 1), Deeper(tree, n))
      BY EndOfFile
    <3>2. QED
      BY <1>0, <3>1
  <2> DEFINE i == MaxDepth + 1 - k
  <2>3. i \in 1 .. MaxDepth + 1 /\ i - 1 = MaxDepth + 1 - n
    BY <1>2, <1>3, DepthAssumption
  <2>4. <<Top.file, <<>>, open>> \in Place
    <3>1. open \in SUBSET Files
      <4>1. \A j \in 1 .. k : stack[j] \in Frame
        BY <1>2, <1>3, ElementOfSeq
      <4>2. QED
        BY <4>1 DEF Opened, Frame
    <3>2. Top.file \in Files
      BY <1>2 DEF Frame
    <3> HIDE DEF open
    <3>3. QED
      BY <3>1, <3>2, EmptySeq DEF Place
  <2> DEFINE d == Reading(tree)[i - 1]
  <2> HIDE DEF i
  <2>5. Reading(tree)[i] = [p \in Place |-> OfFile(tree, p[1], p[2], p[3], d)]
    BY <2>3, LevelByLevel
  <2>6. deeper = Reading(tree)[i] /\ Deeper(tree, n) = d
    BY <2>3 DEF Deeper, i
  <2> HIDE DEF d, i, deeper, open
  <2>7. deeper[<<Top.file, <<>>, open>>] = OfFile(tree, Top.file, <<>>, open, d)
    BY <2>4, <2>5, <2>6
  <2>8. QED
    BY <2>1, <2>2, <2>6, <2>7
<1>12. deeper \in [Place -> Seq(Entry)] /\ open \in SUBSET Files
  <2>1. MaxDepth + 1 - k \in 0 .. MaxDepth + 1
    BY <1>3, DepthAssumption
  <2>2. \A j \in 1 .. k : stack[j] \in Frame
    BY <1>2, <1>3, ElementOfSeq
  <2>3. open \in SUBSET Files
    BY <2>2 DEF Opened, Frame
  <2>4. deeper \in [Place -> Seq(Entry)]
    BY <1>2, <2>1, ReadingTyped DEF Deeper
  <2> HIDE DEF open, deeper
  <2>5. QED
    BY <2>3, <2>4
<1>13. FrameReads(tree, g, deeper, open, <<>>)
  <2>1. read \in [Files -> Seq(Entry)]
    BY <1>12, EmptySeq, ReadTyped
  <2>2. b.matches \in SUBSET Files /\ b.paths \in Seq(SUBSET Files)
    BY <1>4 DEF Frame
  <2>3. x \in Seq(Entry) /\ y \in Seq(Entry)
    BY <2>1, <2>2, GlobPartsTyped, GlobsPartsTyped
  <2>4. /\ b.conds = Own(tree[b.file].lines, b.line) /\ b.line # 0
        /\ tree[b.file].lines[b.line].kind = "include"
        /\ b.entries = SaidBy(tree, b, deeper, open)[b.line - 1]
        /\ b.included \o (s \o (x \o y)) = OfGlobs(tree[b.file].lines[b.line].paths, read)
    BY <1>10, <1>11 DEF FrameReads
  <2> HIDE DEF x, y, s
  <2>5. x \o y \in Seq(Entry)
    BY <2>3, ConcatProperties
  <2> DEFINE xy == x \o y
  <2>6. xy \in Seq(Entry)
    BY <2>5
  <2> HIDE DEF xy
  <2>7. <<>> \o xy = xy
    BY <2>6, ConcatEmptySeq
  <2>8. (b.included \o s) \o xy = b.included \o (s \o xy)
    <3> DEFINE i == b.included
    <3>1. i \in Seq(Entry)
      BY <1>6
    <3> HIDE DEF i
    <3>2. (i \o s) \o xy = i \o (s \o xy)
      BY <1>4, <2>6, <3>1, ConcatAssociative
    <3>3. QED
      BY <3>2 DEF i
  <2> HIDE DEF g, b
  <2>9. g.included \o (<<>> \o (OfGlob(g.matches, read) \o OfGlobs(g.paths, read)))
          = OfGlobs(tree[b.file].lines[b.line].paths, read)
    BY <1>7, <2>4, <2>7, <2>8 DEF x, y, xy
  <2>10. QED
    BY <1>7, <1>10, <2>4, <2>9 DEF FrameReads, SaidBy
<1> HIDE DEF r, g, s
<1>14. \A j \in 1 .. k : r[j].file = stack[j].file
  BY <1>7, <1>8
<1>15. Opened(r, k) = open
  BY <1>14 DEF Opened
<1>16. Pending(tree, r, k) = <<>>
  BY <1>3, <1>8 DEF Pending
<1>17. FrameAt(tree, r, k)
  BY <1>3, <1>8, <1>13, <1>15, <1>16 DEF FrameAt
<1>18. \A i \in k .. Len(r) : FrameAt(tree, r, i)
  <2>1. Len(r) = k
    BY <1>8
  <2>2. \A i \in k .. k : i = k
    BY <1>0
  <2>3. QED
    BY <1>17, <2>1, <2>2
<1>19. \A j \in 1 .. k - 1 : r[j] = stack[j]
  <2>1. \A j \in 1 .. k - 1 : j \in 1 .. k /\ j # k
    BY <1>0
  <2>2. QED
    BY <1>8, <2>1
<1>20. k \in 1 .. Len(stack) /\ k <= Len(r) /\ Len(r) <= MaxDepth + 1
  BY <1>3, <1>8
<1>21. r[k].file = stack[k].file
  BY <1>3, <1>14
<1>22. StackReads(tree, r)
  BY <1>2, <1>8, <1>18, <1>19, <1>20, <1>21, LowerFrames
<1>23. r # <<>> /\ r[1].file = stack[1].file
  BY <1>3, <1>8, <1>14, EmptySeq
<1>24. QED
  BY <1>22, <1>23 DEF r

\* One frame, which returns to ParseFile.
LEMMA ParseReads ==
  ASSUME ParserInv, StackReads(tree, stack), EndFile, Len(stack) = 1
  PROVE  result' = FlatReadingOf(stack[1].file)
<1>1. stack # <<>> /\ stack' = <<>> /\ result' = Top.entries
  BY DEF EndFile, BetweenLines, ParserInv, FramesInText
<1>2. /\ Top = stack[1] /\ Top.file \in Files
  BY <1>1, TopProperties
<1>3. Top.entries = OfFile(tree, Top.file, <<>>, Opened(stack, 0), Deeper(tree, 1))
  BY EndOfFile
<1>4. Opened(stack, 0) = {}
  BY DEF Opened
<1> DEFINE m == MaxDepth + 1
           d == Reading(tree)[m - 1]
<1>5. m \in 1 .. MaxDepth + 1 /\ m - 1 = MaxDepth + 1 - 1
  BY DepthAssumption
<1>6. Reading(tree)[m] = [p \in Place |-> OfFile(tree, p[1], p[2], p[3], d)]
  BY <1>5, LevelByLevel
<1>7. Deeper(tree, 1) = d
  BY <1>5 DEF Deeper
<1>8. <<Top.file, <<>>, {}>> \in Place
  BY <1>2, EmptySeq DEF Place
<1> HIDE DEF d
<1>9. Reading(tree)[m][<<Top.file, <<>>, {}>>] = OfFile(tree, Top.file, <<>>, {}, d)
  BY <1>6, <1>8
<1>10. QED
  BY <1>1, <1>2, <1>3, <1>4, <1>7, <1>9 DEF FlatReadingOf

LEMMA StartReads ==
  ASSUME ParserInv, NEW f \in Files, Start(f), status' = "reading"
  PROVE  StackReads(tree, stack') /\ stack' # <<>> /\ stack'[1].file = f
<1> DEFINE h == NewFrame(f)
           r == stack'
           inner == {f}
           deeper == Deeper(tree, 1)
<1>1. tree[f].kind = "text" /\ stack' = <<h>>
  BY DEF Start, Fail
<1>2. /\ h \in Frame /\ h.file = f /\ h.line = 0 /\ h.conds = <<>> /\ h.entries = <<>>
      /\ h.including = FALSE /\ h.included = <<>> /\ h.matches = {}
  BY NewFrameTyped DEF NewFrame
<1>3. deeper \in [Place -> Seq(Entry)] /\ tree[f].lines \in Seq(Line) /\ inner \in SUBSET Files
  <2>1. MaxDepth + 1 - 1 \in 0 .. MaxDepth + 1
    BY DepthAssumption
  <2>2. tree \in [Files -> File]
    BY DEF ParserInv, ParserTypeOK
  <2>3. QED
    BY <1>1, <2>1, <2>2, LinesOfText, ReadingTyped DEF Deeper
<1>4. OfLines(tree[f].lines, <<>>, inner, deeper) \in Seq(Seq(Entry))
  BY <1>3, EmptySeq, LinesTyped
<1>5. SaidBy(tree, h, deeper, inner)[0] = <<>> /\ Own(tree[f].lines, 0) = <<>>
  BY <1>2, <1>4, PartByPart, OwnNext DEF SaidBy
<1> HIDE DEF h
<1>6. r = <<h>> /\ Len(r) = 1 /\ r[1] = h /\ r # <<>>
  BY <1>1
<1> HIDE DEF r, inner, deeper
<1>7. FrameReads(tree, h, deeper, inner, <<>>)
  BY <1>2, <1>5 DEF FrameReads
<1>8. Opened(r, 1) = inner /\ Pending(tree, r, 1) = <<>>
  BY <1>2, <1>6 DEF Opened, Pending, inner
<1>9. FrameAt(tree, r, 1)
  BY <1>6, <1>7, <1>8 DEF FrameAt, deeper
<1>10. StackReads(tree, r)
  BY <1>6, <1>9, DepthAssumption DEF StackReads
<1>11. QED
  BY <1>2, <1>6, <1>10 DEF r

\* Every step of the parser keeps to the flat reading of the file it was called for.
LEMMA StepReads ==
  ASSUME ParserInv, ParserInv', StackReads(tree, stack), ParserStep
  PROVE  /\ tree' = tree
         /\ status' = "reading" => StackReads(tree, stack') /\ stack'[1].file = stack[1].file
         /\ status' = "parsed" => result' = FlatReadingOf(stack[1].file)
<1>1. status = "reading" /\ stack # <<>>
  BY DEF ParserStep, ReadBlock, ReadOption, ReadBad, ReadInclude, NextPath, EndInclude, EndFile,
         SkipMatch, ExceedDepth, SkipVisited, OpenMatch, Match, Including, At, BetweenLines,
         ParserInv, FramesInText
<1>2. CASE Fail
  BY <1>2 DEF Fail
<1>3. ASSUME NEW g \in Frame, Becomes(g), g.file = Top.file,
             FrameReads(tree, g, Deeper(tree, Len(stack)), visited, <<>>)
      PROVE  /\ tree' = tree /\ status' = "reading"
             /\ StackReads(tree, stack') /\ stack'[1].file = stack[1].file
  BY <1>1, <1>3, TopReplaced DEF Becomes
<1>4. CASE ReadBlock \/ ReadOption \/ ReadInclude
  BY <1>3, <1>4, LineReads
<1>5. CASE NextPath \/ EndInclude \/ \E f \in Files : SkipMatch(f) \/ SkipVisited(f)
  BY <1>3, <1>5, IncludeReads
<1>6. CASE \E f \in Files : OpenMatch(f) /\ ~Fail
  BY <1>1, <1>6, OpenReads DEF OpenMatch
<1>7. CASE EndFile
  <2>1. CASE Len(stack) = 1
    BY <1>7, <2>1, ParseReads DEF EndFile
  <2>2. CASE Len(stack) # 1
    BY <1>1, <1>7, <2>2, ReturnReads DEF EndFile
  <2>3. QED
    BY <2>1, <2>2
<1>8. QED
  BY <1>2, <1>4, <1>5, <1>6, <1>7 DEF ParserStep, ReadBad, ExceedDepth

-----------------------------------------------------------------------------
(* Patterns and lists.  A loop over a list is a recursion over its length, *)
(* and what it goes through stays in a set S.                              *)

Runs(g, S, a, m, F) ==
  g \in [0 .. m -> S] /\ g[0] = a /\ \A i \in 1 .. m : g[i] = F[<<g[i - 1], i>>]

LEMMA Recursion ==
  ASSUME NEW S, NEW a \in S, NEW m \in Nat, NEW F \in [S \X (1 .. m) -> S]
  PROVE  \E g : Runs(g, S, a, m, F)
<1> DEFINE Upto(n) == \E g \in [0 .. n -> S] : g[0] = a /\ \A i \in 1 .. n : g[i] = F[<<g[i - 1], i>>]
           N == {n \in Nat : Upto(n)}
<1>1. 0 \in N
  <2> DEFINE g == [i \in 0 .. 0 |-> a]
  <2>1. g \in [0 .. 0 -> S] /\ g[0] = a /\ 1 .. 0 = {}
    OBVIOUS
  <2>2. Upto(0)
    BY <2>1
  <2>3. QED
    BY <2>2
<1>2. ASSUME NEW n \in Nat, n < m, n \in N PROVE n + 1 \in N
  <2>1. PICK g \in [0 .. n -> S] : g[0] = a /\ \A i \in 1 .. n : g[i] = F[<<g[i - 1], i>>]
    BY <1>2
  <2> DEFINE h == [i \in 0 .. n + 1 |-> IF i = n + 1 THEN F[<<g[n], n + 1>>] ELSE g[i]]
  <2>2. F[<<g[n], n + 1>>] \in S
    BY <1>2, <2>1
  <2>3. h \in [0 .. n + 1 -> S] /\ h[0] = a
    BY <2>1, <2>2
  <2>4. ASSUME NEW i \in 1 .. n + 1 PROVE h[i] = F[<<h[i - 1], i>>]
    <3>1. CASE i = n + 1
      <4>1. h[n + 1] = F[<<g[n], n + 1>>] /\ h[n] = g[n]
        OBVIOUS
      <4>2. i - 1 = n
        BY <3>1
      <4> HIDE DEF h
      <4>3. QED
        BY <3>1, <4>1, <4>2
    <3>2. CASE i \in 1 .. n
      <4>1. h[i] = g[i] /\ h[i - 1] = g[i - 1]
        BY <3>2
      <4>2. QED
        BY <2>1, <3>2, <4>1
    <3>3. QED
      BY <3>1, <3>2
  <2>5. Upto(n + 1)
    <3> HIDE DEF h
    <3> QED
      BY <2>3, <2>4
  <2>6. QED
    BY <2>5
<1>3. \A n \in 0 .. m : n \in N
  <2> HIDE DEF N
  <2> QED
    BY <1>1, <1>2, InductionUpTo
<1>4. m \in 0 .. m
  OBVIOUS
<1>5. Upto(m)
  BY <1>3, <1>4
<1>6. QED
  BY <1>5 DEF Runs

-----------------------------------------------------------------------------
(* The matcher that takes star by star.                                    *)

\* The numbers up to m that are no less than one of S.
Above(S, m) == {k \in 0 .. m : \E l \in 0 .. k : l \in S}

\* What the pattern's n-th character from the end makes of what fits the ones behind it.
Fitting(p, n, name, S) ==
  IF FromEnd(p, n) = Star THEN Above(S, Len(name))
  ELSE {k \in 1 .. Len(name) : Agree(p, n, name, k) /\ k - 1 \in S}

LEMMA GlobStep ==
  ASSUME NEW C, NEW p \in Seq(C), NEW name \in Seq(C)
  PROVE  /\ GlobFits(p, name) \in [0 .. Len(p) -> SUBSET (0 .. Len(name))]
         /\ GlobFits(p, name)[0] = {0}
         /\ \A n \in 1 .. Len(p) :
              GlobFits(p, name)[n] = Fitting(p, n, name, GlobFits(p, name)[n - 1])
<1> DEFINE m == Len(p)
           w == Len(name)
           S == SUBSET (0 .. w)
           Star1(n, s) == {k \in 0 .. w : n = 1 \/ s \cap 0 .. k # {}}
           Other(n, s) == {k \in 1 .. w : Agree(p, n, name, k) /\ k - 1 \in s}
           Step(n, s) == IF FromEnd(p, n) = Star THEN Star1(n, s) ELSE Other(n, s)
           F == [x \in S \X (1 .. m) |-> Step(x[2], x[1])]
           Body(g) == [n \in 0 .. m |-> IF n = 0 THEN {0} ELSE Step(n, g[n - 1])]
           G == GlobFits(p, name)
<1>1. m \in Nat /\ w \in Nat
  BY LenProperties
<1> HIDE DEF m, w
<1>2. G = CHOOSE g : g = Body(g)
  <2> DEFINE Spelt(g) ==
        [n \in 0 .. m |->
           IF n = 0 THEN {0} ELSE IF FromEnd(p, n) = Star THEN Star1(n, g[n - 1]) ELSE Other(n, g[n - 1])]
  <2>1. G = CHOOSE g : g = Spelt(g)
    BY DEF GlobFits, m, w
  <2>2. \A g : Spelt(g) = Body(g)
    OBVIOUS
  <2> HIDE DEF Spelt, Body, G
  <2>3. QED
    BY <2>1, <2>2
<1>3. \A n \in 1 .. m : \A s \in S : Step(n, s) \in S
  OBVIOUS
<1>4. {0} \in S
  BY <1>1
<1>5. \A n \in 1 .. m : \A s : FromEnd(p, n) = Star => Step(n, s) = Star1(n, s)
  OBVIOUS
<1>6. \A n \in 1 .. m : \A s : FromEnd(p, n) # Star => Step(n, s) = Other(n, s)
  OBVIOUS
<1> HIDE DEF Step
<1>7. F \in [S \X (1 .. m) -> S]
  BY <1>3
<1>8. PICK g \in [0 .. m -> S] : g[0] = {0} /\ \A n \in 1 .. m : g[n] = F[<<g[n - 1], n>>]
  <2> DEFINE none == {0}
  <2>1. none \in S
    BY <1>4
  <2> HIDE DEF F, S, none
  <2>2. \E g : Runs(g, S, none, m, F)
    BY <1>1, <1>7, <2>1, Recursion
  <2>3. QED
    BY <2>2 DEF none, Runs
<1>9. g = Body(g)
  <2> SUFFICES ASSUME NEW n \in 0 .. m PROVE g[n] = IF n = 0 THEN {0} ELSE Step(n, g[n - 1])
    BY <1>8
  <2>1. CASE n = 0
    BY <1>8, <2>1
  <2>2. CASE n # 0
    <3>1. n \in 1 .. m /\ n - 1 \in 0 .. m
      BY <1>1, <2>2
    <3>2. g[n] = F[<<g[n - 1], n>>] /\ <<g[n - 1], n>> \in S \X (1 .. m)
      BY <1>8, <3>1
    <3>3. QED
      BY <2>2, <3>2
  <2>3. QED
    BY <2>1, <2>2
<1>10. G = Body(G)
  <2> HIDE DEF Body, G
  <2> QED
    BY <1>2, <1>9
<1> HIDE DEF G
<1>11. G[0] = {0} /\ \A n \in 1 .. m : G[n] = Step(n, G[n - 1])
  <2>1. DOMAIN G = 0 .. m /\ \A n \in 0 .. m : G[n] = IF n = 0 THEN {0} ELSE Step(n, G[n - 1])
    BY <1>10
  <2>2. 0 \in 0 .. m /\ \A n \in 1 .. m : n \in 0 .. m /\ n # 0
    BY <1>1
  <2>3. QED
    BY <2>1, <2>2
<1> DEFINE N == {i \in 0 .. m : G[i] \in S}
<1>12. \A n \in 0 .. m : n \in N
  <2>1. 0 \in N
    BY <1>1, <1>4, <1>11
  <2>2. ASSUME NEW n \in Nat, n < m, n \in N PROVE n + 1 \in N
    <3>1. n + 1 \in 1 .. m /\ n + 1 \in 0 .. m /\ n + 1 - 1 = n
      BY <1>1, <2>2
    <3>2. G[n + 1] = Step(n + 1, G[n])
      BY <1>11, <3>1
    <3>3. G[n] \in S
      BY <2>2
    <3> HIDE DEF S
    <3>4. G[n + 1] \in S
      BY <1>3, <3>1, <3>2, <3>3
    <3>5. QED
      BY <3>1, <3>4
  <2> HIDE DEF N
  <2>3. QED
    BY <1>1, <2>1, <2>2, InductionUpTo
<1>13. ASSUME NEW n \in 1 .. m PROVE G[n] = Fitting(p, n, name, G[n - 1])
  <2>1. G[n] = Step(n, G[n - 1])
    BY <1>11
  <2>2. CASE FromEnd(p, n) # Star
    BY <1>6, <2>1, <2>2 DEF Fitting, w
  <2>3. CASE FromEnd(p, n) = Star
    <3>1. G[n] = Star1(n, G[n - 1])
      BY <1>5, <2>1, <2>3
    <3>2. n = 1 => G[n - 1] = {0}
      BY <1>11
    <3>3. Star1(n, G[n - 1]) = Above(G[n - 1], w)
      <4>1. CASE n = 1
        <5>1. \A k \in 0 .. w : 0 \in 0 .. k
          BY <1>1
        <5>2. QED
          BY <3>2, <4>1, <5>1 DEF Above
      <4>2. CASE n # 1
        BY <4>2 DEF Above
      <4>3. QED
        BY <4>1, <4>2
    <3>4. QED
      BY <2>3, <3>1, <3>3 DEF Fitting, w
  <2>4. QED
    BY <2>2, <2>3
<1>14. G \in [0 .. m -> S]
  <2>1. G = [n \in 0 .. m |-> G[n]]
    <3> DEFINE E(n) == IF n = 0 THEN {0} ELSE Step(n, G[n - 1])
    <3>1. G = [n \in 0 .. m |-> E(n)]
      BY <1>10
    <3> HIDE DEF E
    <3>2. QED
      BY <3>1
  <2>2. \A n \in 0 .. m : G[n] \in S
    BY <1>12
  <2> HIDE DEF S
  <2>3. QED
    BY <2>1, <2>2
<1>15. QED
  BY <1>11, <1>13, <1>14 DEF G, m, w

-----------------------------------------------------------------------------
(* The matcher that takes a run of stars at once.                          *)

LEMMA AboveTwice ==
  ASSUME NEW m \in Nat, NEW S
  PROVE  Above(Above(S, m), m) = Above(S, m)
<1>1. ASSUME NEW k \in 0 .. m, NEW l \in 0 .. k, NEW i \in 0 .. l, i \in S PROVE \E j \in 0 .. k : j \in S
  <2>1. i \in 0 .. k
    BY <1>1
  <2>2. QED
    BY <1>1, <2>1
<1>2. ASSUME NEW k \in 0 .. m, NEW l \in 0 .. k, l \in S PROVE l \in Above(S, m)
  <2>1. l \in 0 .. m /\ l \in 0 .. l
    BY <1>2
  <2>2. QED
    BY <1>2, <2>1 DEF Above
<1>3. QED
  BY <1>1, <1>2 DEF Above

\* What is left after a run of stars, and where the run ends.
LEMMA StarsEnd ==
  ASSUME NEW p, NEW n \in Nat, n # 0, FromEnd(p, n) = Star
  PROVE  /\ AfterStars(p, n) \in 0 .. n - 1
         /\ \A i \in AfterStars(p, n) + 1 .. n : FromEnd(p, i) = Star
<1> DEFINE T == {m \in 0 .. n : m = 0 \/ FromEnd(p, m) # Star}
<1>1. PICK d \in {n - m : m \in T} : \A e \in {n - m : m \in T} : d <= e
  <2>1. 0 \in T
    OBVIOUS
  <2>2. n \in {n - m : m \in T} /\ {n - m : m \in T} \subseteq Nat
    BY <2>1
  <2>3. QED
    BY <2>2, Least
<1>2. PICK m \in T : d = n - m
  BY <1>1
<1>3. \A x \in T : x <= m
  <2> SUFFICES ASSUME NEW x \in T PROVE x <= m
    OBVIOUS
  <2>1. d <= n - x
    BY <1>1
  <2>2. QED
    BY <1>2, <2>1
<1>4. AfterStars(p, n) = m
  <2>1. T \subseteq Nat
    OBVIOUS
  <2>2. AfterStars(p, n) = Max(T)
    BY DEF AfterStars
  <2> HIDE DEF T
  <2>3. QED
    BY <1>3, <2>1, <2>2, MaxIs
<1>5. m \in 0 .. n - 1
  BY <1>2
<1>6. ASSUME NEW i \in m + 1 .. n PROVE FromEnd(p, i) = Star
  <2>1. i \notin T
    BY <1>3, <1>5
  <2>2. i \in 0 .. n /\ i # 0
    BY <1>5
  <2>3. QED
    BY <2>1, <2>2
<1>7. QED
  BY <1>4, <1>5, <1>6

\* A run of stars matches what its first star does.
LEMMA RunOfStars ==
  ASSUME NEW C, NEW p \in Seq(C), NEW name \in Seq(C),
         NEW n \in 1 .. Len(p), NEW m \in 0 .. n - 1,
         \A i \in m + 1 .. n : FromEnd(p, i) = Star
  PROVE  GlobFits(p, name)[n] = Above(GlobFits(p, name)[m], Len(name))
<1> DEFINE G == GlobFits(p, name)
           w == Len(name)
           N == {d \in Nat : m + 1 + d <= n => G[m + 1 + d] = Above(G[m], w)}
<1>1. Len(p) \in Nat /\ w \in Nat
  BY LenProperties
<1>2. ASSUME NEW i \in m + 1 .. n PROVE G[i] = Above(G[i - 1], w)
  <2>1. i \in 1 .. Len(p)
    BY <1>1
  <2>2. G[i] = Fitting(p, i, name, G[i - 1])
    BY <2>1, GlobStep
  <2>3. QED
    BY <2>2 DEF Fitting
<1> HIDE DEF G, w
<1>3. 0 \in N
  <2>1. m + 1 \in m + 1 .. n /\ m + 1 - 1 = m /\ m + 1 + 0 = m + 1
    OBVIOUS
  <2>2. G[m + 1] = Above(G[m], w)
    BY <1>2, <2>1
  <2>3. QED
    BY <2>1, <2>2
<1>4. ASSUME NEW d \in Nat, d < n, d \in N PROVE d + 1 \in N
  <2> SUFFICES ASSUME m + 1 + (d + 1) <= n PROVE G[m + 1 + (d + 1)] = Above(G[m], w)
    OBVIOUS
  <2>1. m + 1 + (d + 1) \in m + 1 .. n /\ m + 1 + (d + 1) - 1 = m + 1 + d /\ m + 1 + d <= n
    OBVIOUS
  <2>2. G[m + 1 + (d + 1)] = Above(G[m + 1 + d], w)
    BY <1>2, <2>1
  <2>3. G[m + 1 + d] = Above(G[m], w)
    BY <1>4, <2>1
  <2>4. QED
    BY <1>1, <2>2, <2>3, AboveTwice
<1>5. \A d \in 0 .. n : d \in N
  <2> HIDE DEF N
  <2>1. n \in Nat
    OBVIOUS
  <2>2. QED
    BY <1>3, <1>4, <2>1, InductionUpTo
<1>6. n - m - 1 \in 0 .. n /\ m + 1 + (n - m - 1) = n
  OBVIOUS
<1>7. n - m - 1 \in N
  BY <1>5, <1>6
<1>8. QED
  BY <1>6, <1>7 DEF G, w

LEMMA SameFits ==
  ASSUME NEW C, NEW p \in Seq(C), NEW name \in Seq(C)
  PROVE  Fits(p, name)[Len(p)] = GlobFits(p, name)[Len(p)]
<1> DEFINE m == Len(p)
           w == Len(name)
           G == GlobFits(p, name)
           U == Fits(p, name)
           AtStar(g, n) == {k \in 0 .. w : AfterStars(p, n) = 0 \/ g[AfterStars(p, n)] \cap 0 .. k # {}}
           Other(g, n) == {k \in 1 .. w : Agree(p, n, name, k) /\ k - 1 \in g[n - 1]}
           Step(g, n) == IF n = 0 THEN {0} ELSE IF FromEnd(p, n) = Star THEN AtStar(g, n) ELSE Other(g, n)
           Body(g) == [n \in 0 .. m |-> Step(g, n)]
<1>1. m \in Nat /\ w \in Nat
  BY LenProperties
<1>2. U = CHOOSE g : g = Body(g)
  BY DEF Fits
<1> HIDE DEF m, w
<1>3. /\ G \in [0 .. m -> SUBSET (0 .. w)] /\ G[0] = {0}
      /\ \A n \in 1 .. m : G[n] = Fitting(p, n, name, G[n - 1])
  BY GlobStep DEF m, w
<1> HIDE DEF G, U
<1>4. \A g, n : n # 0 /\ FromEnd(p, n) = Star => Step(g, n) = AtStar(g, n)
  OBVIOUS
<1>5. \A g, n : n # 0 /\ FromEnd(p, n) # Star => Step(g, n) = Other(g, n)
  OBVIOUS
<1>6. \A g : Step(g, 0) = {0}
  OBVIOUS
<1>7. ASSUME NEW n \in 1 .. m PROVE G[n] = Step(G, n)
  <2>1. n # 0 /\ n \in Nat
    OBVIOUS
  <2>2. CASE FromEnd(p, n) # Star
    BY <1>3, <1>5, <2>1, <2>2 DEF Fitting, w
  <2>3. CASE FromEnd(p, n) = Star
    <3> DEFINE r == AfterStars(p, n)
    <3>1. r \in 0 .. n - 1 /\ \A i \in r + 1 .. n : FromEnd(p, i) = Star
      BY <2>1, <2>3, StarsEnd
    <3> HIDE DEF r
    <3>2. G[n] = Above(G[r], w)
      BY <3>1, RunOfStars DEF G, w, m
    <3>3. Above(G[r], w) = AtStar(G, n)
      <4>1. CASE r = 0
        <5>1. \A k \in 0 .. w : 0 \in 0 .. k
          BY <1>1
        <5>2. QED
          BY <1>3, <4>1, <5>1 DEF Above, r
      <4>2. CASE r # 0
        BY <4>2 DEF Above, r
      <4>3. QED
        BY <4>1, <4>2
    <3>4. QED
      BY <1>4, <2>1, <2>3, <3>2, <3>3
  <2>4. QED
    BY <2>2, <2>3
<1> HIDE DEF Step
<1>8. ASSUME NEW g, NEW h, NEW n \in 1 .. m, \A i \in 0 .. n - 1 : g[i] = h[i]
      PROVE  Step(g, n) = Step(h, n)
  <2>1. n # 0 /\ n \in Nat /\ n - 1 \in 0 .. n - 1
    OBVIOUS
  <2>2. CASE FromEnd(p, n) # Star
    <3>1. g[n - 1] = h[n - 1]
      BY <1>8, <2>1
    <3>2. QED
      BY <1>5, <2>1, <2>2, <3>1
  <2>3. CASE FromEnd(p, n) = Star
    <3>1. AfterStars(p, n) \in 0 .. n - 1
      BY <2>1, <2>3, StarsEnd
    <3>2. g[AfterStars(p, n)] = h[AfterStars(p, n)]
      BY <1>8, <3>1
    <3>3. AtStar(g, n) = AtStar(h, n)
      BY <3>2
    <3>4. QED
      BY <1>4, <2>1, <2>3, <3>3
  <2>4. QED
    BY <2>2, <2>3
<1>9. G = Body(G)
  <2>1. \A n \in 0 .. m : G[n] = Step(G, n)
    <3> SUFFICES ASSUME NEW n \in 0 .. m PROVE G[n] = Step(G, n)
      OBVIOUS
    <3>1. CASE n = 0
      BY <1>3, <1>6, <3>1
    <3>2. CASE n # 0
      BY <1>7, <3>2
    <3>3. QED
      BY <3>1, <3>2
  <2>2. QED
    BY <1>3, <2>1
<1>10. U = Body(U)
  <2> HIDE DEF Body
  <2>1. QED
    BY <1>2, <1>9
<1> DEFINE Differ == {n \in 0 .. m : U[n] # G[n]}
<1>11. Differ = {}
  <2> SUFFICES ASSUME Differ # {} PROVE FALSE
    OBVIOUS
  <2>1. PICK n \in Differ : \A i \in Differ : n <= i
    <3>1. Differ \subseteq Nat
      OBVIOUS
    <3> HIDE DEF Differ
    <3>2. QED
      BY <3>1, Least
  <2>2. \A i \in 0 .. m : i < n => U[i] = G[i]
    BY <2>1
  <2>3. U[n] = Step(U, n) /\ G[n] = Step(G, n)
    BY <1>9, <1>10
  <2>4. CASE n = 0
    BY <1>6, <2>3, <2>4
  <2>5. CASE n # 0
    <3>1. n \in 1 .. m /\ \A i \in 0 .. n - 1 : i \in 0 .. m /\ i < n
      BY <1>1, <2>5
    <3>2. \A i \in 0 .. n - 1 : U[i] = G[i]
      BY <2>2, <3>1
    <3>3. Step(U, n) = Step(G, n)
      BY <1>8, <3>1, <3>2
    <3>4. QED
      BY <2>3, <3>3
  <2>6. QED
    BY <2>4, <2>5
<1>12. m \in 0 .. m
  BY <1>1
<1>13. QED
  BY <1>11, <1>12 DEF U, G, m

-----------------------------------------------------------------------------
(* What both of them mean.                                                 *)

\* The n-th character of the pattern from the end takes the name from a characters left to b.
Piece(p, n, name, a, b) ==
  \/ FromEnd(p, n) = Star /\ a <= b
  \/ b = a + 1 /\ FromEnd(p, n) \in {AnyOne, FromEnd(name, b)}

\* The last n characters of the pattern are cut into these pieces of the name's last k.
Cuts(p, name, n, k, cut) ==
  /\ cut \in [0 .. n -> 0 .. Len(name)]
  /\ cut[0] = 0 /\ cut[n] = k
  /\ \A i \in 1 .. n : Piece(p, i, name, cut[i - 1], cut[i])

LEMMA FitIsPiece ==
  ASSUME NEW p, NEW name, Len(name) \in Nat, NEW n, NEW S \in SUBSET (0 .. Len(name)), NEW k
  PROVE  k \in Fitting(p, n, name, S) <=>
           k \in 0 .. Len(name) /\ \E a \in S : Piece(p, n, name, a, k)
<1> DEFINE w == Len(name)
<1>1. w \in Nat /\ S \in SUBSET (0 .. w)
  OBVIOUS
<1>2. FromEnd(name, k) = FromEnd(name, k)
  OBVIOUS
<1> HIDE DEF w
<1>3. CASE FromEnd(p, n) = Star
  <2>1. k \in Fitting(p, n, name, S) <=> k \in 0 .. w /\ \E a \in 0 .. k : a \in S
    BY <1>3 DEF Fitting, Above, w
  <2>2. ASSUME k \in 0 .. w PROVE (\E a \in 0 .. k : a \in S) <=> \E a \in S : Piece(p, n, name, a, k)
    <3>1. ASSUME NEW a \in S PROVE a \in 0 .. k <=> Piece(p, n, name, a, k)
      <4>1. a \in 0 .. w
        BY <1>1
      <4>2. Piece(p, n, name, a, k) <=> a <= k
        BY <1>1, <1>3, <2>2, <4>1 DEF Piece
      <4>3. QED
        BY <1>1, <2>2, <4>1, <4>2
    <3>2. QED
      BY <3>1
  <2>3. QED
    BY <2>1, <2>2 DEF w
<1>4. CASE FromEnd(p, n) # Star
  <2>1. k \in Fitting(p, n, name, S) <=> k \in 1 .. w /\ Agree(p, n, name, k) /\ k - 1 \in S
    BY <1>4 DEF Fitting, w
  <2>2. \A a \in S : Piece(p, n, name, a, k) <=> k = a + 1 /\ Agree(p, n, name, k)
    BY <1>4 DEF Piece, Agree
  <2>3. \A a \in S : a \in 0 .. w
    BY <1>1
  <2>4. ASSUME k \in 1 .. w, Agree(p, n, name, k), k - 1 \in S
        PROVE  k \in 0 .. w /\ \E a \in S : Piece(p, n, name, a, k)
    <3>1. k = (k - 1) + 1
      BY <1>1, <2>4
    <3>2. QED
      BY <1>1, <2>2, <2>4, <3>1
  <2>5. ASSUME k \in 0 .. w, NEW a \in S, Piece(p, n, name, a, k)
        PROVE  k \in 1 .. w /\ Agree(p, n, name, k) /\ k - 1 \in S
    <3>1. k = a + 1 /\ Agree(p, n, name, k)
      BY <2>2, <2>5
    <3>2. a \in Nat /\ k - 1 = a
      BY <2>3, <3>1
    <3>3. QED
      BY <1>1, <2>5, <3>1, <3>2
  <2>6. QED
    BY <2>1, <2>4, <2>5 DEF w
<1>5. QED
  BY <1>3, <1>4

LEMMA OneMorePiece ==
  ASSUME NEW p, NEW name, Len(name) \in Nat, NEW n \in Nat, NEW k \in 0 .. Len(name)
  PROVE  (\E cut : Cuts(p, name, n + 1, k, cut)) <=>
           \E a \in 0 .. Len(name) : /\ \E cut : Cuts(p, name, n, a, cut)
                                    /\ Piece(p, n + 1, name, a, k)
<1> DEFINE w == Len(name)
<1>1. ASSUME NEW cut, Cuts(p, name, n + 1, k, cut)
      PROVE  \E a \in 0 .. w : (\E c : Cuts(p, name, n, a, c)) /\ Piece(p, n + 1, name, a, k)
  <2> DEFINE c == [i \in 0 .. n |-> cut[i]]
  <2>1. /\ cut \in [0 .. n + 1 -> 0 .. w] /\ cut[0] = 0 /\ cut[n + 1] = k
        /\ \A i \in 1 .. n + 1 : Piece(p, i, name, cut[i - 1], cut[i])
    BY <1>1 DEF Cuts
  <2>2. \A i \in 0 .. n : c[i] = cut[i]
    OBVIOUS
  <2>3. c \in [0 .. n -> 0 .. w]
    BY <2>1
  <2> HIDE DEF c
  <2>4. c[0] = 0 /\ c[n] = cut[n] /\ cut[n] \in 0 .. w
    BY <2>1, <2>2
  <2>5. ASSUME NEW i \in 1 .. n PROVE Piece(p, i, name, c[i - 1], c[i])
    <3>1. i \in 0 .. n /\ i - 1 \in 0 .. n /\ i \in 1 .. n + 1
      OBVIOUS
    <3>2. c[i - 1] = cut[i - 1] /\ c[i] = cut[i]
      BY <2>2, <3>1
    <3>3. QED
      BY <2>1, <3>1, <3>2
  <2>6. Cuts(p, name, n, cut[n], c)
    BY <2>3, <2>4, <2>5 DEF Cuts
  <2>7. n + 1 \in 1 .. n + 1 /\ n + 1 - 1 = n
    OBVIOUS
  <2>8. Piece(p, n + 1, name, cut[n], k)
    BY <2>1, <2>7
  <2>9. QED
    BY <2>4, <2>6, <2>8
<1>2. ASSUME NEW a \in 0 .. w, NEW c, Cuts(p, name, n, a, c), Piece(p, n + 1, name, a, k)
      PROVE  \E cut : Cuts(p, name, n + 1, k, cut)
  <2> DEFINE cut == [i \in 0 .. n + 1 |-> IF i = n + 1 THEN k ELSE c[i]]
  <2>1. /\ c \in [0 .. n -> 0 .. w] /\ c[0] = 0 /\ c[n] = a
        /\ \A i \in 1 .. n : Piece(p, i, name, c[i - 1], c[i])
    BY <1>2 DEF Cuts
  <2>2. cut[n + 1] = k /\ \A i \in 0 .. n : cut[i] = c[i]
    OBVIOUS
  <2>3. cut \in [0 .. n + 1 -> 0 .. w]
    BY <2>1
  <2> HIDE DEF cut
  <2>4. ASSUME NEW i \in 1 .. n + 1 PROVE Piece(p, i, name, cut[i - 1], cut[i])
    <3>1. CASE i = n + 1
      <4>1. i - 1 = n /\ n \in 0 .. n
        BY <3>1
      <4>2. cut[i - 1] = a /\ cut[i] = k
        BY <2>1, <2>2, <3>1, <4>1
      <4>3. QED
        BY <1>2, <3>1, <4>2
    <3>2. CASE i \in 1 .. n
      <4>1. i \in 0 .. n /\ i - 1 \in 0 .. n
        BY <3>2
      <4>2. cut[i - 1] = c[i - 1] /\ cut[i] = c[i]
        BY <2>2, <4>1
      <4>3. QED
        BY <2>1, <3>2, <4>2
    <3>3. QED
      BY <3>1, <3>2
  <2>5. cut[0] = 0
    BY <2>1, <2>2
  <2>6. Cuts(p, name, n + 1, k, cut)
    BY <2>2, <2>3, <2>4, <2>5 DEF Cuts
  <2>7. QED
    BY <2>6
<1>3. QED
  BY <1>1, <1>2

LEMMA FitsAreCuts ==
  ASSUME NEW C, NEW p \in Seq(C), NEW name \in Seq(C)
  PROVE  \A n \in 0 .. Len(p) : \A k \in 0 .. Len(name) :
           k \in GlobFits(p, name)[n] <=> \E cut : Cuts(p, name, n, k, cut)
<1> DEFINE m == Len(p)
           w == Len(name)
           G == GlobFits(p, name)
           N == {n \in 0 .. m : \A k \in 0 .. w : k \in G[n] <=> \E cut : Cuts(p, name, n, k, cut)}
<1>1. m \in Nat /\ w \in Nat
  BY LenProperties
<1>2. /\ G \in [0 .. m -> SUBSET (0 .. w)] /\ G[0] = {0}
      /\ \A n \in 1 .. m : G[n] = Fitting(p, n, name, G[n - 1])
  BY GlobStep
<1> HIDE DEF G
<1>3. 0 \in N
  <2> SUFFICES ASSUME NEW k \in 0 .. w PROVE k = 0 <=> \E cut : Cuts(p, name, 0, k, cut)
    BY <1>1, <1>2
  <2> DEFINE cut == [i \in 0 .. 0 |-> 0]
  <2>1. cut \in [0 .. 0 -> 0 .. w] /\ cut[0] = 0 /\ 1 .. 0 = {}
    BY <1>1
  <2>2. Cuts(p, name, 0, 0, cut)
    BY <2>1 DEF Cuts
  <2>3. \A c : Cuts(p, name, 0, k, c) => k = 0
    BY DEF Cuts
  <2> HIDE DEF cut
  <2>4. QED
    BY <2>2, <2>3
<1>4. ASSUME NEW n \in Nat, n < m, n \in N PROVE n + 1 \in N
  <2>1. n + 1 \in 1 .. m /\ n + 1 \in 0 .. m /\ n \in 0 .. m /\ n + 1 - 1 = n
    BY <1>1, <1>4
  <2>2. G[n] \in SUBSET (0 .. w) /\ G[n + 1] = Fitting(p, n + 1, name, G[n])
    BY <1>2, <2>1
  <2>3. ASSUME NEW k \in 0 .. w PROVE k \in G[n + 1] <=> \E cut : Cuts(p, name, n + 1, k, cut)
    <3>1. k \in G[n + 1] <=> \E a \in G[n] : Piece(p, n + 1, name, a, k)
      <4> DEFINE S == G[n]
      <4>1. S \in SUBSET (0 .. Len(name)) /\ G[n + 1] = Fitting(p, n + 1, name, S) /\ Len(name) \in Nat
        BY <1>1, <2>2
      <4> HIDE DEF S
      <4>2. k \in Fitting(p, n + 1, name, S) <=> k \in 0 .. Len(name) /\ \E a \in S : Piece(p, n + 1, name, a, k)
        BY <4>1, FitIsPiece
      <4>3. QED
        BY <4>1, <4>2 DEF S
    <3>2. \A a \in 0 .. w : a \in G[n] <=> \E cut : Cuts(p, name, n, a, cut)
      BY <1>4
    <3>3. k \in G[n + 1] <=> \E a \in 0 .. w : (\E cut : Cuts(p, name, n, a, cut)) /\ Piece(p, n + 1, name, a, k)
      <4> HIDE DEF w
      <4>1. \A a \in G[n] : a \in 0 .. w
        BY <2>2
      <4>2. QED
        BY <3>1, <3>2, <4>1
    <3>4. QED
      BY <1>1, <3>3, OneMorePiece
  <2>4. QED
    BY <2>1, <2>3
<1>5. \A n \in 0 .. m : n \in N
  <2> HIDE DEF N, m
  <2>1. QED
    BY <1>1, <1>3, <1>4, InductionUpTo
<1>6. QED
  BY <1>5 DEF G

\* To cut from the end, or from the front.
LEMMA CutsTurned ==
  ASSUME NEW C, NEW p \in Seq(C), NEW name \in Seq(C)
  PROVE  (\E cut : Cuts(p, name, Len(p), Len(name), cut)) <=> Denotes(p, name)
<1> DEFINE m == Len(p)
           w == Len(name)
           Turned(c) == [i \in 0 .. m |-> w - c[m - i]]
<1>1. m \in Nat /\ w \in Nat /\ DOMAIN p = 1 .. m
  BY LenProperties
<1>2. /\ \A i : FromEnd(p, i) = p[m - i + 1]
      /\ \A i : FromEnd(name, i) = name[w - i + 1]
  BY DEF FromEnd
<1>3. Denotes(p, name) <=>
        \E cut \in [0 .. m -> 0 .. w] :
          /\ cut[0] = 0 /\ cut[m] = w
          /\ \A i \in 1 .. m :
               \/ p[i] = Star /\ cut[i - 1] <= cut[i]
               \/ cut[i] = cut[i - 1] + 1 /\ p[i] \in {AnyOne, name[cut[i]]}
  BY <1>1 DEF Denotes
<1> HIDE DEF m, w
<1>4. ASSUME NEW c \in [0 .. m -> 0 .. w]
      PROVE  /\ Turned(c) \in [0 .. m -> 0 .. w]
             /\ Turned(c)[0] = w - c[m] /\ Turned(c)[m] = w - c[0]
             /\ \A i \in 1 .. m : /\ m - i + 1 \in 1 .. m /\ m - (m - i + 1) + 1 = i
                                  /\ Turned(c)[i] = w - c[m - i]
                                  /\ Turned(c)[i - 1] = w - c[m - i + 1]
                                  /\ c[m - i] \in 0 .. w /\ c[m - i + 1] \in 0 .. w
  <2>1. ASSUME NEW i \in 0 .. m PROVE c[m - i] \in 0 .. w /\ w - c[m - i] \in 0 .. w
    <3>1. m - i \in 0 .. m
      BY <1>1
    <3>2. QED
      BY <1>1, <3>1
  <2>2. Turned(c) \in [0 .. m -> 0 .. w]
    BY <2>1
  <2>3. 0 \in 0 .. m /\ m \in 0 .. m /\ m - 0 = m /\ m - m = 0
    BY <1>1
  <2>4. Turned(c)[0] = w - c[m] /\ Turned(c)[m] = w - c[0]
    BY <2>3
  <2>5. ASSUME NEW i \in 1 .. m
        PROVE  /\ m - i + 1 \in 1 .. m /\ m - (m - i + 1) + 1 = i
               /\ i \in 0 .. m /\ i - 1 \in 0 .. m /\ m - (i - 1) = m - i + 1
    BY <1>1
  <2>6. ASSUME NEW i \in 1 .. m
        PROVE  /\ Turned(c)[i] = w - c[m - i] /\ Turned(c)[i - 1] = w - c[m - i + 1]
               /\ c[m - i] \in 0 .. w /\ c[m - i + 1] \in 0 .. w
    <3>1. Turned(c)[i] = w - c[m - i] /\ Turned(c)[i - 1] = w - c[m - (i - 1)]
      BY <2>5
    <3>2. c[m - i] \in 0 .. w /\ c[m - (i - 1)] \in 0 .. w
      BY <2>1, <2>5
    <3>3. QED
      BY <2>5, <3>1, <3>2
  <2>7. QED
    BY <2>2, <2>4, <2>5, <2>6
<1>5. ASSUME NEW c, Cuts(p, name, m, w, c) PROVE Denotes(p, name)
  <2> DEFINE t == Turned(c)
  <2>1. /\ c \in [0 .. m -> 0 .. w] /\ c[0] = 0 /\ c[m] = w
        /\ \A i \in 1 .. m : Piece(p, i, name, c[i - 1], c[i])
    BY <1>5 DEF Cuts, w
  <2>2. /\ t \in [0 .. m -> 0 .. w] /\ t[0] = 0 /\ t[m] = w
    BY <1>1, <1>4, <2>1
  <2>3. ASSUME NEW i \in 1 .. m
        PROVE  \/ p[i] = Star /\ t[i - 1] <= t[i]
               \/ t[i] = t[i - 1] + 1 /\ p[i] \in {AnyOne, name[t[i]]}
    <3> DEFINE n == m - i + 1
               a == c[m - i]
               b == c[m - i + 1]
    <3>1. n \in 1 .. m /\ m - n + 1 = i /\ t[i] = w - a /\ t[i - 1] = w - b /\ a \in 0 .. w /\ b \in 0 .. w
      BY <1>4, <2>1
    <3>2. n - 1 = m - i
      BY <1>1
    <3> HIDE DEF t
    <3>3. Piece(p, n, name, a, b)
      BY <2>1, <3>1, <3>2
    <3>4. FromEnd(p, n) = p[i] /\ FromEnd(name, b) = name[w - b + 1]
      BY <1>2, <3>1
    <3> HIDE DEF n, a, b
    <3>5. CASE p[i] = Star /\ a <= b
      BY <1>1, <3>1, <3>5
    <3>6. CASE b = a + 1 /\ p[i] \in {AnyOne, name[w - b + 1]}
      <4>1. w - b + 1 = w - a /\ w - a = w - b + 1
        BY <1>1, <3>1, <3>6
      <4>2. QED
        BY <3>1, <3>6, <4>1
    <3>7. QED
      BY <3>3, <3>4, <3>5, <3>6 DEF Piece
  <2> HIDE DEF t
  <2>4. QED
    BY <1>3, <2>2, <2>3
<1>6. ASSUME Denotes(p, name) PROVE \E cut : Cuts(p, name, m, w, cut)
  <2>1. PICK c \in [0 .. m -> 0 .. w] :
          /\ c[0] = 0 /\ c[m] = w
          /\ \A i \in 1 .. m :
               \/ p[i] = Star /\ c[i - 1] <= c[i]
               \/ c[i] = c[i - 1] + 1 /\ p[i] \in {AnyOne, name[c[i]]}
    BY <1>3, <1>6
  <2> DEFINE t == Turned(c)
  <2>2. /\ t \in [0 .. m -> 0 .. w] /\ t[0] = 0 /\ t[m] = w
    BY <1>1, <1>4, <2>1
  <2>3. ASSUME NEW n \in 1 .. m PROVE Piece(p, n, name, t[n - 1], t[n])
    <3> DEFINE i == m - n + 1
               a == c[m - n]
               b == c[m - n + 1]
    <3>1. i \in 1 .. m /\ t[n] = w - a /\ t[n - 1] = w - b /\ a \in 0 .. w /\ b \in 0 .. w
      BY <1>4
    <3>2. i - 1 = m - n /\ c[i] = b /\ c[i - 1] = a
      BY <1>1
    <3> HIDE DEF t
    <3>3. \/ p[i] = Star /\ a <= b
          \/ b = a + 1 /\ p[i] \in {AnyOne, name[b]}
      BY <2>1, <3>1, <3>2
    <3>4. FromEnd(p, n) = p[i] /\ FromEnd(name, w - a) = name[w - (w - a) + 1]
      BY <1>2
    <3> HIDE DEF i, a, b
    <3>5. CASE p[i] = Star /\ a <= b
      <4>1. w - b <= w - a
        BY <1>1, <3>1, <3>5
      <4>2. QED
        BY <3>1, <3>4, <3>5, <4>1 DEF Piece
    <3>6. CASE b = a + 1 /\ p[i] \in {AnyOne, name[b]}
      <4>1. w - a = w - b + 1 /\ w - (w - a) + 1 = b
        BY <1>1, <3>1, <3>6
      <4>2. FromEnd(p, n) \in {AnyOne, FromEnd(name, t[n])}
        BY <3>1, <3>4, <3>6, <4>1
      <4>3. t[n] = t[n - 1] + 1
        BY <3>1, <4>1
      <4>4. QED
        BY <4>2, <4>3 DEF Piece
    <3>7. QED
      BY <3>3, <3>5, <3>6
  <2> HIDE DEF t
  <2>4. Cuts(p, name, m, w, t)
    BY <2>2, <2>3 DEF Cuts, w
  <2>5. QED
    BY <2>4
<1>7. QED
  BY <1>5, <1>6 DEF m, w

\* pattern.go:5-47, session/match.go:14-44, default_session.go:370-398: for any pattern and
\* any name, the loop that takes a run of stars at once and the one that takes star by
\* star answer the same, and what a pattern means: that the name can be cut into pieces.
THEOREM PatternsDenote ==
  ASSUME NEW C, NEW p \in Seq(C), NEW name \in Seq(C)
  PROVE  /\ MatchPattern(p, name) <=> Denotes(p, name)
         /\ MatchGlob(p, name) <=> Denotes(p, name)
<1>1. Len(p) \in Nat /\ Len(name) \in Nat
  BY LenProperties
<1>2. Len(p) \in 0 .. Len(p) /\ Len(name) \in 0 .. Len(name)
  BY <1>1
<1>3. MatchGlob(p, name) <=> \E cut : Cuts(p, name, Len(p), Len(name), cut)
  BY <1>2, FitsAreCuts DEF MatchGlob
<1>4. MatchPattern(p, name) <=> MatchGlob(p, name)
  BY SameFits DEF MatchPattern, MatchGlob
<1>5. QED
  BY <1>3, <1>4, CutsTurned

-----------------------------------------------------------------------------
(* Lists of patterns.                                                      *)

\* A term of a list that matches the name, among the first n.
Hit(list, name, n, negated) ==
  \E i \in 1 .. n : list[i].negated = negated /\ MatchPattern(list[i].pattern, name)

VerdictOf(list, name, n) ==
  IF Hit(list, name, n, TRUE) THEN "excluded"
  ELSE IF Hit(list, name, n, FALSE) THEN "matched" ELSE "open"

LEMMA OneMoreTerm ==
  ASSUME NEW list, NEW name, NEW n \in Nat, list[n + 1].negated \in BOOLEAN
  PROVE  VerdictOf(list, name, n + 1) =
           IF VerdictOf(list, name, n) = "excluded" \/ ~MatchPattern(list[n + 1].pattern, name)
           THEN VerdictOf(list, name, n)
           ELSE IF list[n + 1].negated THEN "excluded" ELSE "matched"
<1>1. \A negated : Hit(list, name, n + 1, negated) <=>
                     \/ Hit(list, name, n, negated)
                     \/ list[n + 1].negated = negated /\ MatchPattern(list[n + 1].pattern, name)
  <2> SUFFICES ASSUME NEW negated
               PROVE  Hit(list, name, n + 1, negated) <=>
                        \/ Hit(list, name, n, negated)
                        \/ list[n + 1].negated = negated /\ MatchPattern(list[n + 1].pattern, name)
    OBVIOUS
  <2>1. 1 .. n + 1 = (1 .. n) \cup {n + 1}
    OBVIOUS
  <2> DEFINE H(i) == list[i].negated = negated /\ MatchPattern(list[i].pattern, name)
  <2>2. \A k : Hit(list, name, k, negated) <=> \E i \in 1 .. k : H(i)
    BY DEF Hit
  <2> HIDE DEF H
  <2>3. Hit(list, name, n + 1, negated) <=> Hit(list, name, n, negated) \/ H(n + 1)
    BY <2>1, <2>2
  <2>4. QED
    BY <2>3 DEF H
<1>2. CASE list[n + 1].negated
  BY <1>1, <1>2 DEF VerdictOf
<1>3. CASE ~list[n + 1].negated
  <2>1. list[n + 1].negated = FALSE
    BY <1>3
  <2>2. QED
    BY <1>1, <2>1 DEF VerdictOf
<1>4. QED
  BY <1>2, <1>3

LEMMA VerdictsAre ==
  ASSUME NEW C, NEW list \in Seq([pattern : Seq(C), negated : BOOLEAN]), NEW name
  PROVE  Verdicts(list, name)[Len(list)] = VerdictOf(list, name, Len(list))
<1> DEFINE m == Len(list)
           V == Verdicts(list, name)
           Step(v, i) == IF v = "excluded" \/ ~MatchPattern(list[i].pattern, name) THEN v
                         ELSE IF list[i].negated THEN "excluded" ELSE "matched"
           Body(h) == [i \in 0 .. m |-> IF i = 0 THEN "open" ELSE Step(h[i - 1], i)]
           W == [i \in 0 .. m |-> VerdictOf(list, name, i)]
           N == {i \in 0 .. m : V[i] = W[i]}
<1>1. m \in Nat /\ \A i \in 1 .. m : list[i].negated \in BOOLEAN
  <2>1. m \in Nat /\ \A i \in 1 .. m : list[i] \in [pattern : Seq(C), negated : BOOLEAN]
    BY LenProperties, ElementOfSeq
  <2>2. QED
    BY <2>1
<1>2. V = CHOOSE h : h = Body(h)
  BY DEF Verdicts
<1> HIDE DEF V, m
<1>3. VerdictOf(list, name, 0) = "open"
  BY DEF VerdictOf, Hit
<1>4. ASSUME NEW i \in 1 .. m
      PROVE  VerdictOf(list, name, i) = Step(VerdictOf(list, name, i - 1), i)
  <2>1. i - 1 \in Nat /\ (i - 1) + 1 = i
    OBVIOUS
  <2>2. list[(i - 1) + 1].negated \in BOOLEAN
    BY <1>1, <2>1
  <2>3. VerdictOf(list, name, (i - 1) + 1) = Step(VerdictOf(list, name, i - 1), (i - 1) + 1)
    BY <2>1, <2>2, OneMoreTerm
  <2>4. QED
    BY <2>1, <2>3
<1> HIDE DEF Step
<1>5. W = Body(W)
  <2> SUFFICES ASSUME NEW i \in 0 .. m
               PROVE  VerdictOf(list, name, i) = IF i = 0 THEN "open" ELSE Step(W[i - 1], i)
    OBVIOUS
  <2>1. CASE i = 0
    BY <1>3, <2>1
  <2>2. CASE i # 0
    <3>1. i \in 1 .. m /\ W[i - 1] = VerdictOf(list, name, i - 1)
      BY <1>1, <2>2
    <3>2. QED
      BY <1>4, <2>2, <3>1
  <2>3. QED
    BY <2>1, <2>2
<1> HIDE DEF W
<1>6. V = Body(V)
  <2> HIDE DEF Body
  <2>1. QED
    BY <1>2, <1>5
<1>7. 0 \in N
  BY <1>1, <1>5, <1>6
<1>8. ASSUME NEW i \in Nat, i < m, i \in N PROVE i + 1 \in N
  <2>1. i + 1 \in 0 .. m /\ i + 1 # 0 /\ i + 1 - 1 = i
    BY <1>1, <1>8
  <2>2. V[i + 1] = Step(V[i + 1 - 1], i + 1)
    BY <1>6, <2>1
  <2>3. W[i + 1] = Step(W[i + 1 - 1], i + 1)
    <3>1. i + 1 \in 1 .. m /\ i \in 0 .. m
      BY <1>1, <2>1
    <3>2. W[i + 1] = VerdictOf(list, name, i + 1) /\ W[i] = VerdictOf(list, name, i)
      BY <2>1, <3>1 DEF W
    <3>3. QED
      BY <1>4, <2>1, <3>1, <3>2
  <2>4. V[i] = W[i]
    BY <1>8
  <2>5. QED
    BY <2>1, <2>2, <2>3, <2>4
<1>9. \A i \in 0 .. m : i \in N
  <2> HIDE DEF N
  <2>1. QED
    BY <1>1, <1>7, <1>8, InductionUpTo
<1>10. m \in 0 .. m
  BY <1>1
<1>11. V[m] = W[m] /\ W[m] = VerdictOf(list, name, m)
  BY <1>9, <1>10 DEF W
<1>12. QED
  BY <1>11 DEF V, m

\* pattern.go:49-79: for any list and any name, leaving the loop at the first negated pattern
\* that matches makes no difference: a list is two sets of names, those some pattern
\* stands for and those a negated one takes out, wherever in the list it is.
THEOREM ListsAreSets ==
  ASSUME NEW C, NEW list \in Seq([pattern : Seq(C), negated : BOOLEAN]), NEW name \in Seq(C)
  PROVE  MatchPatternList(list, name) <=>
           /\ \E i \in 1 .. Len(list) : ~list[i].negated /\ Denotes(list[i].pattern, name)
           /\ ~\E i \in 1 .. Len(list) : list[i].negated /\ Denotes(list[i].pattern, name)
<1>1. ASSUME NEW i \in 1 .. Len(list)
      PROVE  /\ list[i].negated \in BOOLEAN
             /\ MatchPattern(list[i].pattern, name) <=> Denotes(list[i].pattern, name)
  <2>1. list[i] \in [pattern : Seq(C), negated : BOOLEAN]
    BY ElementOfSeq
  <2>2. list[i].pattern \in Seq(C) /\ list[i].negated \in BOOLEAN
    BY <2>1
  <2>3. QED
    BY <2>2, PatternsDenote
<1>2. Hit(list, name, Len(list), TRUE) <=>
        \E i \in 1 .. Len(list) : list[i].negated /\ Denotes(list[i].pattern, name)
  BY <1>1 DEF Hit
<1>3. Hit(list, name, Len(list), FALSE) <=>
        \E i \in 1 .. Len(list) : ~list[i].negated /\ Denotes(list[i].pattern, name)
  BY <1>1 DEF Hit
<1>4. MatchPatternList(list, name) <=> VerdictOf(list, name, Len(list)) = "matched"
  BY VerdictsAre DEF MatchPatternList
<1>5. QED
  BY <1>2, <1>3, <1>4 DEF VerdictOf

-----------------------------------------------------------------------------
(* Algorithm lists.                                                        *)

LEMMA StaysIn ==
  ASSUME NEW S, NEW m \in Nat, NEW U, U[0] \in S,
         \A i \in 1 .. m : U[i - 1] \in S => U[i] \in S
  PROVE  \A i \in 0 .. m : U[i] \in S
<1> DEFINE N == {i \in 0 .. m : U[i] \in S}
<1>1. 0 \in N
  OBVIOUS
<1>2. ASSUME NEW i \in Nat, i < m, i \in N PROVE i + 1 \in N
  <2>1. i + 1 \in 1 .. m /\ i + 1 - 1 = i /\ i + 1 \in 0 .. m
    BY <1>2
  <2>2. U[i] \in S
    BY <1>2
  <2>3. QED
    BY <2>1, <2>2
<1>3. \A i \in 0 .. m : i \in N
  <2> HIDE DEF N
  <2>1. QED
    BY <1>1, <1>2, InductionUpTo
<1>4. QED
  BY <1>3

LEMMA WordsOfAppend ==
  ASSUME NEW E, NEW s \in Seq(E), NEW x \in E
  PROVE  /\ Append(s, x) \in Seq(E) /\ Len(Append(s, x)) = Len(s) + 1
         /\ \A i \in 1 .. Len(s) : Append(s, x)[i] = s[i]
         /\ Append(s, x)[Len(s) + 1] = x
         /\ ToSet(Append(s, x)) = ToSet(s) \cup {x}
<1>1. /\ Append(s, x) \in Seq(E) /\ Len(Append(s, x)) = Len(s) + 1
      /\ \A i \in 1 .. Len(s) : Append(s, x)[i] = s[i]
      /\ Append(s, x)[Len(s) + 1] = x
  BY AppendProperties
<1>2. Len(s) \in Nat /\ DOMAIN s = 1 .. Len(s) /\ DOMAIN Append(s, x) = 1 .. Len(s) + 1
  BY <1>1, LenProperties
<1> DEFINE t == Append(s, x)
           n == Len(s)
<1>3. n \in Nat /\ DOMAIN s = 1 .. n /\ DOMAIN t = 1 .. n + 1
      /\ (\A i \in 1 .. n : t[i] = s[i]) /\ t[n + 1] = x
  BY <1>1, <1>2
<1> HIDE DEF t, n
<1>4. 1 .. n + 1 = (1 .. n) \cup {n + 1}
  BY <1>3
<1>5. ToSet(t) = ToSet(s) \cup {x}
  BY <1>3, <1>4 DEF ToSet
<1>6. QED
  BY <1>1, <1>5 DEF t

LEMMA ExtendedSteps ==
  ASSUME NEW E, NEW list \in Seq(E), NEW names \in Seq(E)
  PROVE  /\ Extended(list, names)[0] = list
         /\ \A i \in 1 .. Len(names) :
              Extended(list, names)[i] =
                IF names[i] \in ToSet(Extended(list, names)[i - 1]) THEN Extended(list, names)[i - 1]
                ELSE Append(Extended(list, names)[i - 1], names[i])
         /\ \A i \in 0 .. Len(names) : Extended(list, names)[i] \in Seq(E)
<1> DEFINE m == Len(names)
           S == Seq(E)
           X == Extended(list, names)
           Step(s, i) == IF names[i] \in ToSet(s) THEN s ELSE Append(s, names[i])
           F == [x \in S \X (1 .. m) |-> Step(x[1], x[2])]
           Body(h) == [i \in 0 .. m |-> IF i = 0 THEN list ELSE Step(h[i - 1], i)]
<1>1. m \in Nat /\ \A i \in 1 .. m : names[i] \in E
  BY LenProperties, ElementOfSeq
<1>2. X = CHOOSE h : h = Body(h)
  BY DEF Extended
<1> HIDE DEF X, m
<1>3. ASSUME NEW i \in 1 .. m, NEW s \in S PROVE Step(s, i) \in S
  BY <1>1, AppendProperties
<1>s. \A s, i : Step(s, i) = IF names[i] \in ToSet(s) THEN s ELSE Append(s, names[i])
  OBVIOUS
<1> HIDE DEF Step
<1>4. F \in [S \X (1 .. m) -> S]
  BY <1>3
<1>5. PICK h : Runs(h, S, list, m, F)
  <2>1. list \in S
    OBVIOUS
  <2> HIDE DEF F, S
  <2>2. QED
    BY <1>1, <1>4, <2>1, Recursion
<1>6. h = Body(h)
  <2>1. h \in [0 .. m -> S] /\ h[0] = list /\ \A i \in 1 .. m : h[i] = F[<<h[i - 1], i>>]
    BY <1>5 DEF Runs
  <2>2. ASSUME NEW i \in 0 .. m PROVE h[i] = IF i = 0 THEN list ELSE Step(h[i - 1], i)
    <3>1. CASE i = 0
      BY <2>1, <3>1
    <3>2. CASE i # 0
      <4>1. i \in 1 .. m /\ i - 1 \in 0 .. m
        BY <1>1, <3>2
      <4>2. h[i] = F[<<h[i - 1], i>>] /\ <<h[i - 1], i>> \in S \X (1 .. m)
        BY <2>1, <4>1
      <4>3. QED
        BY <3>2, <4>2
    <3>3. QED
      BY <3>1, <3>2
  <2>3. QED
    BY <2>1, <2>2
<1>7. X = Body(X)
  <2> HIDE DEF Body
  <2>1. QED
    BY <1>2, <1>6
<1>8. X[0] = list
  BY <1>1, <1>7
<1>9. ASSUME NEW i \in 1 .. m PROVE X[i] = Step(X[i - 1], i)
  <2>1. i \in 0 .. m /\ i # 0
    BY <1>1
  <2>2. QED
    BY <1>7, <2>1
<1>10. \A i \in 0 .. m : X[i] \in S
  <2>1. X[0] \in S
    BY <1>8
  <2>2. \A i \in 1 .. m : X[i - 1] \in S => X[i] \in S
    BY <1>3, <1>9
  <2> HIDE DEF S
  <2>3. QED
    BY <1>1, <2>1, <2>2, StaysIn
<1>11. QED
  BY <1>8, <1>9, <1>10, <1>s DEF X, m

LEMMA RetainedSteps ==
  ASSUME NEW E, NEW names \in Seq(E), NEW kept
  PROVE  /\ Retained(names, kept)[0] = <<>>
         /\ \A i \in 1 .. Len(names) :
              Retained(names, kept)[i] =
                IF names[i] \in kept THEN Append(Retained(names, kept)[i - 1], names[i])
                ELSE Retained(names, kept)[i - 1]
         /\ \A i \in 0 .. Len(names) : Retained(names, kept)[i] \in Seq(E)
<1> DEFINE m == Len(names)
           S == Seq(E)
           X == Retained(names, kept)
           none == <<>>
           Step(s, i) == IF names[i] \in kept THEN Append(s, names[i]) ELSE s
           F == [x \in S \X (1 .. m) |-> Step(x[1], x[2])]
           Body(h) == [i \in 0 .. m |-> IF i = 0 THEN none ELSE Step(h[i - 1], i)]
<1>1. m \in Nat /\ \A i \in 1 .. m : names[i] \in E
  BY LenProperties, ElementOfSeq
<1>2. X = CHOOSE h : h = Body(h)
  BY DEF Retained
<1>0. none \in S /\ none = <<>>
  BY EmptySeq
<1> HIDE DEF X, m, none
<1>3. ASSUME NEW i \in 1 .. m, NEW s \in S PROVE Step(s, i) \in S
  BY <1>1, AppendProperties
<1>s. \A s, i : Step(s, i) = IF names[i] \in kept THEN Append(s, names[i]) ELSE s
  OBVIOUS
<1> HIDE DEF Step
<1>4. F \in [S \X (1 .. m) -> S]
  BY <1>3
<1>5. PICK h : Runs(h, S, none, m, F)
  <2>1. none \in S
    BY <1>0
  <2> HIDE DEF F, S
  <2>2. QED
    BY <1>1, <1>4, <2>1, Recursion
<1>6. h = Body(h)
  <2>1. h \in [0 .. m -> S] /\ h[0] = none /\ \A i \in 1 .. m : h[i] = F[<<h[i - 1], i>>]
    BY <1>5 DEF Runs
  <2>2. ASSUME NEW i \in 0 .. m PROVE h[i] = IF i = 0 THEN none ELSE Step(h[i - 1], i)
    <3>1. CASE i = 0
      BY <2>1, <3>1
    <3>2. CASE i # 0
      <4>1. i \in 1 .. m /\ i - 1 \in 0 .. m
        BY <1>1, <3>2
      <4>2. h[i] = F[<<h[i - 1], i>>] /\ <<h[i - 1], i>> \in S \X (1 .. m)
        BY <2>1, <4>1
      <4>3. QED
        BY <3>2, <4>2
    <3>3. QED
      BY <3>1, <3>2
  <2>3. QED
    BY <2>1, <2>2
<1>7. X = Body(X)
  <2> HIDE DEF Body
  <2>1. QED
    BY <1>2, <1>6
<1>8. X[0] = none
  BY <1>1, <1>7
<1>9. ASSUME NEW i \in 1 .. m PROVE X[i] = Step(X[i - 1], i)
  <2>1. i \in 0 .. m /\ i # 0
    BY <1>1
  <2>2. QED
    BY <1>7, <2>1
<1>10. \A i \in 0 .. m : X[i] \in S
  <2>1. X[0] \in S
    BY <1>0, <1>8
  <2>2. \A i \in 1 .. m : X[i - 1] \in S => X[i] \in S
    BY <1>3, <1>9
  <2> HIDE DEF S
  <2>3. QED
    BY <1>1, <2>1, <2>2, StaysIn
<1>11. QED
  BY <1>0, <1>8, <1>9, <1>10, <1>s DEF X, m

\* One more word, from a place behind all others.
LEMMA OneMorePlace ==
  ASSUME NEW E, NEW r \in Seq(E), NEW all \in Seq(E), NEW P, NEW n \in 1 .. Len(all),
         StandsAt(r, all, P), \A i \in P : i < n
  PROVE  StandsAt(Append(r, all[n]), all, P \cup {n})
<1> DEFINE m == Len(r)
           w == Len(all)
           q == Append(r, all[n])
<1>1. m \in Nat /\ w \in Nat /\ all[n] \in E
  BY LenProperties, ElementOfSeq
<1>2. Len(q) = m + 1 /\ (\A i \in 1 .. m : q[i] = r[i]) /\ q[m + 1] = all[n]
  BY <1>1, WordsOfAppend
<1>3. PICK place \in [1 .. m -> 1 .. w] :
        /\ \A j, k \in 1 .. m : j < k => place[j] < place[k]
        /\ \A k \in 1 .. m : r[k] = all[place[k]]
        /\ {place[k] : k \in 1 .. m} = P
  BY DEF StandsAt
<1>4. n \in 1 .. w
  OBVIOUS
<1> HIDE DEF m, w, q
<1> DEFINE f == [k \in 1 .. m + 1 |-> IF k = m + 1 THEN n ELSE place[k]]
<1>5. f \in [1 .. m + 1 -> 1 .. w] /\ f[m + 1] = n /\ \A k \in 1 .. m : f[k] = place[k]
  BY <1>1, <1>3, <1>4
<1> HIDE DEF f
<1>6. 1 .. m + 1 = (1 .. m) \cup {m + 1}
  BY <1>1
<1>7. \A k \in 1 .. m : f[k] \in P /\ f[k] < n
  BY <1>3, <1>5
<1>8. ASSUME NEW j \in 1 .. m + 1, NEW k \in 1 .. m + 1, j < k PROVE f[j] < f[k]
  <2>1. j \in 1 .. m
    BY <1>1, <1>8
  <2>2. CASE k = m + 1
    BY <1>5, <1>7, <2>1, <2>2
  <2>3. CASE k \in 1 .. m
    BY <1>3, <1>5, <1>8, <2>1, <2>3
  <2>4. QED
    BY <1>6, <2>2, <2>3
<1>9. ASSUME NEW k \in 1 .. m + 1 PROVE q[k] = all[f[k]]
  <2>1. CASE k = m + 1
    BY <1>2, <1>5, <2>1
  <2>2. CASE k \in 1 .. m
    BY <1>2, <1>3, <1>5, <2>2
  <2>3. QED
    BY <1>6, <2>1, <2>2
<1>10. {f[k] : k \in 1 .. m + 1} = P \cup {n}
  <2>1. {f[k] : k \in 1 .. m} = P
    BY <1>3, <1>5
  <2>2. {f[k] : k \in 1 .. m + 1} = {f[k] : k \in 1 .. m} \cup {f[m + 1]}
    BY <1>6
  <2>3. QED
    BY <1>5, <2>1, <2>2
<1>11. StandsAt(q, all, P \cup {n})
  <2>1. f \in [1 .. Len(q) -> 1 .. Len(all)]
    BY <1>2, <1>5 DEF w
  <2>2. /\ \A j, k \in 1 .. Len(q) : j < k => f[j] < f[k]
        /\ \A k \in 1 .. Len(q) : q[k] = all[f[k]]
        /\ {f[k] : k \in 1 .. Len(q)} = P \cup {n}
    BY <1>2, <1>8, <1>9, <1>10
  <2>3. QED
    BY <2>1, <2>2 DEF StandsAt
<1>12. QED
  BY <1>11 DEF q

LEMMA NothingStands ==
  ASSUME NEW all PROVE StandsAt(<<>>, all, {})
<1> DEFINE f == [k \in 1 .. 0 |-> 0]
<1>1. f \in [1 .. 0 -> 1 .. Len(all)] /\ 1 .. 0 = {} /\ {f[k] : k \in 1 .. 0} = {}
  OBVIOUS
<1>2. Len(<<>>) = 0
  OBVIOUS
<1> HIDE DEF f
<1>3. QED
  BY <1>1, <1>2 DEF StandsAt

LEMMA OnlyIs ==
  ASSUME NEW E, NEW names \in Seq(E), NEW kept
  PROVE  /\ Only(names, kept) \in Seq(E)
         /\ StandsAt(Only(names, kept), names, {i \in 1 .. Len(names) : names[i] \in kept})
<1> DEFINE m == Len(names)
           X == Retained(names, kept)
           P(n) == {i \in 1 .. n : names[i] \in kept}
           N == {n \in 0 .. m : StandsAt(X[n], names, P(n))}
<1>1. m \in Nat
  BY LenProperties
<1>2. /\ X[0] = <<>>
      /\ \A i \in 1 .. m : X[i] = IF names[i] \in kept THEN Append(X[i - 1], names[i]) ELSE X[i - 1]
      /\ \A i \in 0 .. m : X[i] \in Seq(E)
  BY RetainedSteps
<1> HIDE DEF X
<1>3. 0 \in N
  <2>1. P(0) = {}
    OBVIOUS
  <2>2. StandsAt(<<>>, names, {})
    BY NothingStands
  <2>3. QED
    BY <1>1, <1>2, <2>1, <2>2
<1>4. ASSUME NEW n \in Nat, n < m, n \in N PROVE n + 1 \in N
  <2>1. n + 1 \in 1 .. m /\ n \in 0 .. m /\ n + 1 \in 0 .. m /\ n + 1 - 1 = n
    BY <1>1, <1>4
  <2>2. X[n + 1] = IF names[n + 1] \in kept THEN Append(X[n], names[n + 1]) ELSE X[n]
    <3> DEFINE k == n + 1
    <3>1. k \in 1 .. m /\ k - 1 = n
      BY <2>1
    <3> HIDE DEF k
    <3>2. X[k] = IF names[k] \in kept THEN Append(X[k - 1], names[k]) ELSE X[k - 1]
      BY <1>2, <3>1
    <3>3. QED
      BY <3>1, <3>2 DEF k
  <2>3. StandsAt(X[n], names, P(n)) /\ X[n] \in Seq(E)
    BY <1>2, <1>4, <2>1
  <2>4. 1 .. n + 1 = (1 .. n) \cup {n + 1}
    OBVIOUS
  <2>5. CASE names[n + 1] \in kept
    <3>1. P(n + 1) = P(n) \cup {n + 1} /\ \A i \in P(n) : i < n + 1
      BY <2>4, <2>5
    <3> HIDE DEF P
    <3>2. StandsAt(Append(X[n], names[n + 1]), names, P(n) \cup {n + 1})
      BY <2>1, <2>3, <3>1, OneMorePlace
    <3>3. QED
      BY <2>1, <2>2, <2>5, <3>1, <3>2
  <2>6. CASE names[n + 1] \notin kept
    <3>1. P(n + 1) = P(n)
      BY <2>4, <2>6
    <3> HIDE DEF P
    <3>2. QED
      BY <2>1, <2>2, <2>3, <2>6, <3>1
  <2>7. QED
    BY <2>5, <2>6
<1>5. \A n \in 0 .. m : n \in N
  <2> HIDE DEF N, m
  <2>1. QED
    BY <1>1, <1>3, <1>4, InductionUpTo
<1>6. m \in 0 .. m
  BY <1>1
<1>7. StandsAt(X[m], names, P(m)) /\ X[m] \in Seq(E)
  BY <1>2, <1>5, <1>6
<1>8. QED
  BY <1>7 DEF Only, X

\* The words at some places.
LEMMA WordsAt ==
  ASSUME NEW E, NEW r \in Seq(E), NEW all, NEW P, StandsAt(r, all, P)
  PROVE  ToSet(r) = {all[i] : i \in P}
<1>1. DOMAIN r = 1 .. Len(r)
  BY LenProperties
<1>2. PICK place \in [1 .. Len(r) -> 1 .. Len(all)] :
        /\ \A k \in 1 .. Len(r) : r[k] = all[place[k]]
        /\ {place[k] : k \in 1 .. Len(r)} = P
  BY DEF StandsAt
<1>3. QED
  BY <1>1, <1>2 DEF ToSet

LEMMA WithNewIs ==
  ASSUME NEW E, NEW list \in Seq(E), NEW names \in Seq(E)
  PROVE  /\ WithNew(list, names) \in Seq(E)
         /\ ToSet(WithNew(list, names)) = ToSet(list) \cup ToSet(names)
         /\ IsInjective(list) =>
              StandsAt(WithNew(list, names), list \o names, FirstPlaces(list \o names))
<1> DEFINE m == Len(names)
           w == Len(list)
           all == list \o names
           X == Extended(list, names)
           Words(n) == {all[i] : i \in 1 .. w + n}
           P(n) == {i \in 1 .. w + n : \A h \in 1 .. i - 1 : all[h] # all[i]}
           N == {n \in 0 .. m : ToSet(X[n]) = Words(n) /\ (IsInjective(list) => StandsAt(X[n], all, P(n)))}
<1>1. m \in Nat /\ w \in Nat /\ DOMAIN list = 1 .. w /\ DOMAIN names = 1 .. m
      /\ (\A i \in 1 .. m : names[i] \in E)
  BY LenProperties, ElementOfSeq
<1>2. all \in Seq(E) /\ Len(all) = w + m
      /\ (\A i \in 1 .. w : all[i] = list[i]) /\ (\A i \in 1 .. m : all[w + i] = names[i])
  <2>1. all \in Seq(E) /\ Len(all) = w + m
        /\ \A i \in 1 .. w + m : all[i] = IF i <= w THEN list[i] ELSE names[i - w]
    BY ConcatProperties
  <2> HIDE DEF all, w, m
  <2>2. ASSUME NEW i \in 1 .. w PROVE all[i] = list[i]
    BY <1>1, <2>1
  <2>3. ASSUME NEW i \in 1 .. m PROVE all[w + i] = names[i]
    <3> DEFINE k == w + i
    <3>1. k \in 1 .. w + m /\ ~(k <= w) /\ k - w = i
      BY <1>1
    <3> HIDE DEF k
    <3>2. all[k] = names[k - w]
      BY <2>1, <3>1
    <3>3. QED
      BY <3>1, <3>2 DEF k
  <2>4. QED
    BY <2>1, <2>2, <2>3
<1>3. /\ X[0] = list
      /\ \A i \in 1 .. m : X[i] = IF names[i] \in ToSet(X[i - 1]) THEN X[i - 1] ELSE Append(X[i - 1], names[i])
      /\ \A i \in 0 .. m : X[i] \in Seq(E)
  BY ExtendedSteps
<1> HIDE DEF X, all, m, w
<1>4. 0 \in N
  <2>1. w + 0 = w /\ 0 \in 0 .. m
    BY <1>1
  <2>2. ToSet(list) = Words(0)
    BY <1>1, <1>2, <2>1 DEF ToSet
  <2>3. ASSUME IsInjective(list) PROVE StandsAt(list, all, P(0))
    <3> DEFINE f == [k \in 1 .. w |-> k]
    <3>1. 1 .. w \subseteq 1 .. w + m
      BY <1>1
    <3>2. f \in [1 .. w -> 1 .. w + m] /\ (\A k \in 1 .. w : f[k] = k) /\ {f[k] : k \in 1 .. w} = 1 .. w
      BY <3>1
    <3>3. P(0) = 1 .. w
      <4>1. ASSUME NEW i \in 1 .. w, NEW h \in 1 .. i - 1 PROVE all[h] # all[i]
        <5>1. h \in 1 .. w /\ h # i
          BY <1>1
        <5>2. list[h] # list[i]
          BY <1>1, <2>3, <5>1 DEF IsInjective
        <5>3. QED
          BY <1>2, <5>1, <5>2
      <4>2. QED
        BY <2>1, <4>1
    <3> HIDE DEF f, P
    <3>4. f \in [1 .. Len(list) -> 1 .. Len(all)]
      BY <1>2, <3>2 DEF w
    <3>5. /\ \A j, k \in 1 .. Len(list) : j < k => f[j] < f[k]
          /\ \A k \in 1 .. Len(list) : list[k] = all[f[k]]
          /\ {f[k] : k \in 1 .. Len(list)} = P(0)
      BY <1>2, <3>2, <3>3 DEF w
    <3>6. QED
      BY <3>4, <3>5 DEF StandsAt
  <2>4. QED
    BY <1>3, <2>1, <2>2, <2>3
<1>5. ASSUME NEW n \in Nat, n < m, n \in N PROVE n + 1 \in N
  <2> DEFINE k == w + (n + 1)
  <2>1. /\ n + 1 \in 1 .. m /\ n \in 0 .. m /\ n + 1 \in 0 .. m /\ n + 1 - 1 = n
        /\ k \in 1 .. w + m /\ 1 .. k = (1 .. w + n) \cup {k} /\ k - 1 = w + n
        /\ (\A i \in 1 .. w + n : i < k)
    BY <1>1, <1>5
  <2>2. X[n + 1] = IF names[n + 1] \in ToSet(X[n]) THEN X[n] ELSE Append(X[n], names[n + 1])
    BY <1>3, <2>1
  <2>3. all[k] = names[n + 1] /\ X[n] \in Seq(E) /\ names[n + 1] \in E
    BY <1>1, <1>2, <1>3, <2>1
  <2>4. ToSet(X[n]) = Words(n) /\ (IsInjective(list) => StandsAt(X[n], all, P(n)))
    BY <1>5
  <2> HIDE DEF k
  <2>5. Words(n + 1) = Words(n) \cup {all[k]}
    <3>1. Words(n + 1) = {all[i] : i \in 1 .. k}
      BY DEF k
    <3>2. QED
      BY <2>1, <3>1
  <2>6. P(n + 1) = IF names[n + 1] \in ToSet(X[n]) THEN P(n) ELSE P(n) \cup {k}
    <3>1. P(n + 1) = {i \in 1 .. k : \A h \in 1 .. i - 1 : all[h] # all[i]}
      BY DEF k
    <3>2. (\A h \in 1 .. k - 1 : all[h] # all[k]) <=> names[n + 1] \notin ToSet(X[n])
      BY <2>1, <2>3, <2>4
    <3>3. QED
      BY <2>1, <3>1, <3>2
  <2>7. CASE names[n + 1] \in ToSet(X[n])
    <3>1. X[n + 1] = X[n] /\ P(n + 1) = P(n)
      BY <2>2, <2>6, <2>7
    <3>2. Words(n + 1) = Words(n)
      BY <2>3, <2>4, <2>5, <2>7
    <3> HIDE DEF P, Words
    <3>3. QED
      BY <2>1, <2>4, <3>1, <3>2
  <2>8. CASE names[n + 1] \notin ToSet(X[n])
    <3>1. X[n + 1] = Append(X[n], all[k]) /\ P(n + 1) = P(n) \cup {k}
      BY <2>2, <2>3, <2>6, <2>8
    <3>2. ToSet(X[n + 1]) = Words(n + 1)
      <4> HIDE DEF Words
      <4>1. ToSet(Append(X[n], all[k])) = ToSet(X[n]) \cup {all[k]}
        BY <2>3, WordsOfAppend
      <4>2. QED
        BY <2>4, <2>5, <3>1, <4>1
    <3>3. ASSUME IsInjective(list) PROVE StandsAt(X[n + 1], all, P(n + 1))
      <4>1. \A i \in P(n) : i < k
        BY <2>1
      <4> HIDE DEF P
      <4>2. k \in 1 .. Len(all) /\ StandsAt(X[n], all, P(n))
        BY <1>2, <2>1, <2>4, <3>3
      <4>3. StandsAt(Append(X[n], all[k]), all, P(n) \cup {k})
        BY <1>2, <2>3, <4>1, <4>2, OneMorePlace
      <4>4. QED
        BY <3>1, <4>3
    <3> HIDE DEF P, Words
    <3>4. QED
      BY <2>1, <3>2, <3>3
  <2>9. QED
    BY <2>7, <2>8
<1>6. \A n \in 0 .. m : n \in N
  <2> HIDE DEF N
  <2>1. QED
    BY <1>1, <1>4, <1>5, InductionUpTo
<1>7. m \in 0 .. m
  BY <1>1
<1>8. ToSet(X[m]) = Words(m) /\ (IsInjective(list) => StandsAt(X[m], all, P(m))) /\ X[m] \in Seq(E)
  BY <1>3, <1>6, <1>7
<1>9. P(m) = FirstPlaces(all)
  BY <1>2 DEF FirstPlaces
<1>10. Words(m) = ToSet(list) \cup ToSet(names)
  <2>1. ASSUME NEW i \in 1 .. w + m PROVE i \in 1 .. w \/ (i - w \in 1 .. m /\ w + (i - w) = i)
    BY <1>1
  <2>2. ASSUME NEW i \in 1 .. m PROVE w + i \in 1 .. w + m
    BY <1>1
  <2>3. 1 .. w \subseteq 1 .. w + m
    BY <1>1
  <2>4. ToSet(list) = {list[i] : i \in 1 .. w} /\ ToSet(names) = {names[i] : i \in 1 .. m}
    BY <1>1 DEF ToSet
  <2>5. ASSUME NEW x \in Words(m) PROVE x \in ToSet(list) \cup ToSet(names)
    <3>1. PICK i \in 1 .. w + m : x = all[i]
      OBVIOUS
    <3>2. CASE i \in 1 .. w
      BY <1>2, <2>4, <3>1, <3>2
    <3>3. CASE i - w \in 1 .. m /\ w + (i - w) = i
      <4>1. all[w + (i - w)] = names[i - w]
        BY <1>2, <3>3
      <4>2. QED
        BY <2>4, <3>1, <3>3, <4>1
    <3>4. QED
      BY <2>1, <3>2, <3>3
  <2>6. ASSUME NEW x \in ToSet(list) PROVE x \in Words(m)
    <3>1. PICK i \in 1 .. w : x = list[i]
      BY <2>4
    <3>2. QED
      BY <1>2, <2>3, <3>1
  <2>7. ASSUME NEW x \in ToSet(names) PROVE x \in Words(m)
    <3>1. PICK i \in 1 .. m : x = names[i]
      BY <2>4
    <3>2. QED
      BY <1>2, <2>2, <3>1
  <2>8. QED
    BY <2>5, <2>6, <2>7
<1>11. QED
  BY <1>8, <1>9, <1>10 DEF WithNew, X, m, all

\* In an order without repetition nothing is repeated.
LEMMA FirstsAreOnce ==
  ASSUME NEW E, NEW r \in Seq(E), NEW all, NEW P, StandsAt(r, all, P),
         P \subseteq Nat, \A i, j \in P : i < j => all[i] # all[j]
  PROVE  IsInjective(r)
<1>1. DOMAIN r = 1 .. Len(r) /\ Len(r) \in Nat
  BY LenProperties
<1>2. PICK place \in [1 .. Len(r) -> 1 .. Len(all)] :
        /\ \A j, k \in 1 .. Len(r) : j < k => place[j] < place[k]
        /\ \A k \in 1 .. Len(r) : r[k] = all[place[k]]
        /\ {place[k] : k \in 1 .. Len(r)} = P
  BY DEF StandsAt
<1>3. ASSUME NEW j \in 1 .. Len(r), NEW k \in 1 .. Len(r), j < k PROVE r[j] # r[k]
  <2>1. place[j] \in P /\ place[k] \in P /\ place[j] < place[k]
    BY <1>2, <1>3
  <2>2. all[place[j]] # all[place[k]]
    BY <2>1
  <2>3. QED
    BY <1>2, <2>2
<1>4. ASSUME NEW j \in 1 .. Len(r), NEW k \in 1 .. Len(r), r[j] = r[k] PROVE j = k
  <2>1. ~(j < k) /\ ~(k < j)
    BY <1>3, <1>4
  <2>2. QED
    BY <1>1, <2>1
<1>5. QED
  BY <1>1, <1>4 DEF IsInjective

\* listop.go:7-13: for any value, any defaults and any patterns in them, + puts the new names
\* behind the defaults and ^ before them, each name where it stands first, - leaves out what
\* some pattern stands for and keeps the order of the rest, and unless the defaults repeat a
\* name the result does not either.
THEOREM OperatorsKeepOrder ==
  ASSUME NEW C, NEW value, value.names \in Seq(Seq(C)),
         NEW defaults \in Seq(Seq(C)), IsInjective(defaults)
  PROVE  LET r == ApplyListOp(value, defaults) IN
         /\ value.op = "+" => StandsAt(r, defaults \o value.names, FirstPlaces(defaults \o value.names))
         /\ value.op = "^" => StandsAt(r, value.names \o defaults, FirstPlaces(value.names \o defaults))
         /\ value.op = "-" =>
              StandsAt(r, defaults, {i \in 1 .. Len(defaults) :
                                       \A j \in 1 .. Len(value.names) : ~Denotes(value.names[j], defaults[i])})
         /\ value.op \in {"+", "^", "-"} => r \in Seq(Seq(C)) /\ IsInjective(r)
<1> DEFINE names == value.names
           r == ApplyListOp(value, defaults)
           E == Seq(C)
<1>1. names \in Seq(E) /\ defaults \in Seq(E)
  OBVIOUS
<1>2. ASSUME NEW all, NEW i \in FirstPlaces(all), NEW j \in FirstPlaces(all), i < j PROVE all[i] # all[j]
  <2>1. i \in Nat /\ j \in Nat /\ i \in 1 .. j - 1
    BY <1>2 DEF FirstPlaces
  <2>2. QED
    BY <2>1 DEF FirstPlaces
<1>3. \A all : FirstPlaces(all) \subseteq Nat
  BY DEF FirstPlaces
<1>4. CASE value.op = "+"
  <2>1. r = WithNew(defaults, names)
    BY <1>4 DEF ApplyListOp
  <2> HIDE DEF r, names, E
  <2>2. r \in Seq(E) /\ StandsAt(r, defaults \o names, FirstPlaces(defaults \o names))
    BY <1>1, <2>1, WithNewIs
  <2>3. IsInjective(r)
    BY <1>2, <1>3, <2>2, FirstsAreOnce
  <2>4. QED
    BY <1>4, <2>2, <2>3 DEF r, names, E
<1>5. CASE value.op = "^"
  <2> DEFINE none == <<>>
             all == names \o defaults
  <2>1. r = WithNew(none, all)
    BY <1>5 DEF ApplyListOp
  <2>2. none \in Seq(E) /\ IsInjective(none) /\ all \in Seq(E) /\ none \o all = all
    <3>1. none \in Seq(E) /\ IsInjective(none)
      BY EmptySeq DEF IsInjective
    <3>2. all \in Seq(E)
      BY <1>1, ConcatProperties
    <3> HIDE DEF all
    <3>3. none \o all = all
      BY <3>2, ConcatEmptySeq
    <3>4. QED
      BY <3>1, <3>2, <3>3
  <2> HIDE DEF r, names, E, none, all
  <2>3. r \in Seq(E) /\ StandsAt(r, all, FirstPlaces(all))
    <3>1. r \in Seq(E) /\ StandsAt(r, none \o all, FirstPlaces(none \o all))
      BY <2>1, <2>2, WithNewIs
    <3>2. QED
      BY <2>2, <3>1
  <2>4. IsInjective(r)
    BY <1>2, <1>3, <2>3, FirstsAreOnce
  <2>5. QED
    BY <1>5, <2>3, <2>4 DEF r, names, E, all
<1>6. CASE value.op = "-"
  <2> DEFINE kept == {d \in ToSet(defaults) : ~matchesAnyPattern(d, names)}
             P == {i \in 1 .. Len(defaults) : \A j \in 1 .. Len(names) : ~Denotes(names[j], defaults[i])}
             Q == {i \in 1 .. Len(defaults) : defaults[i] \in kept}
  <2>1. r = Only(defaults, kept)
    BY <1>6 DEF ApplyListOp
  <2>2. DOMAIN defaults = 1 .. Len(defaults) /\ DOMAIN names = 1 .. Len(names)
    BY <1>1, LenProperties
  <2>3. \A i \in 1 .. Len(defaults) : \A j \in 1 .. Len(names) :
          MatchPattern(names[j], defaults[i]) <=> Denotes(names[j], defaults[i])
    <3> SUFFICES ASSUME NEW i \in 1 .. Len(defaults), NEW j \in 1 .. Len(names)
                 PROVE  MatchPattern(names[j], defaults[i]) <=> Denotes(names[j], defaults[i])
      OBVIOUS
    <3> HIDE DEF names
    <3>1. names[j] \in E /\ defaults[i] \in E
      BY <1>1, ElementOfSeq
    <3>2. QED
      BY <3>1, PatternsDenote
  <2>4. Q = P
    <3>1. \A i \in 1 .. Len(defaults) : defaults[i] \in ToSet(defaults)
      BY <2>2 DEF ToSet
    <3>2. \A d : matchesAnyPattern(d, names) <=> \E j \in 1 .. Len(names) : MatchPattern(names[j], d)
      BY <2>2 DEF matchesAnyPattern, ToSet
    <3> HIDE DEF names
    <3>3. QED
      BY <2>3, <3>1, <3>2
  <2>5. r \in Seq(E) /\ StandsAt(r, defaults, Q)
    <3> HIDE DEF r, E, kept
    <3>1. QED
      BY <1>1, <2>1, OnlyIs
  <2>6. P \subseteq Nat
    OBVIOUS
  <2>7. \A i, j \in P : i < j => defaults[i] # defaults[j]
    <3> SUFFICES ASSUME NEW i \in P, NEW j \in P, i < j PROVE defaults[i] # defaults[j]
      OBVIOUS
    <3>1. i \in DOMAIN defaults /\ j \in DOMAIN defaults /\ i # j
      BY <2>2, <2>6
    <3> HIDE DEF P
    <3>2. QED
      BY <3>1 DEF IsInjective
  <2> HIDE DEF r, E, P, Q
  <2>8. IsInjective(r)
    BY <2>4, <2>5, <2>6, <2>7, FirstsAreOnce
  <2>9. QED
    BY <1>6, <2>4, <2>5, <2>8 DEF r, E, P
<1>7. QED
  BY <1>4, <1>5, <1>6

\* Without wildcards a pattern stands for itself.
LEMMA PlainDenotesItself ==
  ASSUME NEW C, NEW p \in Seq(C), NEW name \in Seq(C), ~IsWild(p)
  PROVE  Denotes(p, name) <=> p = name
<1> DEFINE m == Len(p)
           w == Len(name)
<1>1. m \in Nat /\ w \in Nat /\ DOMAIN p = 1 .. m /\ \A i \in 1 .. m : p[i] # Star /\ p[i] # AnyOne
  <2>1. m \in Nat /\ w \in Nat /\ DOMAIN p = 1 .. m
    BY LenProperties
  <2>2. QED
    BY <2>1 DEF IsWild, ToSet
<1>2. ASSUME Denotes(p, name) PROVE p = name
  <2>1. PICK cut \in [0 .. m -> 0 .. w] :
          /\ cut[0] = 0 /\ cut[m] = w
          /\ \A i \in 1 .. m : cut[i] = cut[i - 1] + 1 /\ p[i] = name[cut[i]]
    BY <1>1, <1>2 DEF Denotes
  <2> HIDE DEF m, w
  <2> DEFINE N == {i \in 0 .. m : cut[i] = i}
  <2>2. 0 \in N
    BY <1>1, <2>1
  <2>3. ASSUME NEW i \in Nat, i < m, i \in N PROVE i + 1 \in N
    <3> DEFINE k == i + 1
    <3>1. k \in 1 .. m /\ k - 1 = i /\ k \in 0 .. m
      BY <1>1, <2>3
    <3> HIDE DEF k
    <3>2. cut[k] = cut[k - 1] + 1
      BY <2>1, <3>1
    <3>3. cut[i] = i
      BY <2>3
    <3>4. QED
      BY <3>1, <3>2, <3>3 DEF k
  <2>4. \A i \in 0 .. m : i \in N
    <3> HIDE DEF N
    <3>1. QED
      BY <1>1, <2>2, <2>3, InductionUpTo
  <2>5. m = w
    BY <1>1, <2>1, <2>4
  <2>6. ASSUME NEW i \in 1 .. m PROVE p[i] = name[i]
    <3>1. cut[i] = i
      BY <1>1, <2>4
    <3>2. p[i] = name[cut[i]]
      BY <2>1
    <3>3. QED
      BY <3>1, <3>2
  <2>7. QED
    BY <2>5, <2>6, SeqEqual DEF m, w
<1>3. ASSUME p = name PROVE Denotes(p, name)
  <2> DEFINE cut == [i \in 0 .. m |-> i]
  <2>1. w = m /\ cut \in [0 .. m -> 0 .. m] /\ cut[0] = 0 /\ cut[m] = m
    BY <1>1, <1>3
  <2>2. ASSUME NEW i \in 1 .. m PROVE cut[i] = cut[i - 1] + 1 /\ p[i] \in {AnyOne, name[cut[i]]}
    <3>1. i \in 0 .. m /\ i - 1 \in 0 .. m
      BY <1>1
    <3>2. cut[i] = i /\ cut[i - 1] = i - 1
      BY <3>1
    <3>3. QED
      BY <1>3, <3>2
  <2> HIDE DEF cut, m, w
  <2>3. QED
    BY <1>1, <2>1, <2>2 DEF Denotes, m, w
<1>4. QED
  BY <1>2, <1>3

\* Candidate c puts x among the algorithms that are offered.
Brings(c, x, supported) ==
  \/ c \in ToSet(supported) /\ x = c
  \/ c \notin ToSet(supported) /\ IsWild(c) /\ MatchPattern(c, x)

\* What one candidate adds to the algorithms that are offered.
Adds(s, c, supported) ==
  IF c \in ToSet(supported) THEN Append(s, c)
  ELSE IF IsWild(c)
  THEN WithNew(s, Only(supported, {x \in ToSet(supported) : MatchPattern(c, x)}))
  ELSE s

LEMMA AddsTyped ==
  ASSUME NEW E, NEW s \in Seq(E), NEW c \in E, NEW supported \in Seq(E)
  PROVE  /\ Adds(s, c, supported) \in Seq(E)
         /\ ToSet(Adds(s, c, supported)) =
              ToSet(s) \cup {x \in ToSet(supported) : Brings(c, x, supported)}
<1>1. CASE c \in ToSet(supported)
  <2>1. Adds(s, c, supported) = Append(s, c)
    BY <1>1 DEF Adds
  <2>2. Append(s, c) \in Seq(E) /\ ToSet(Append(s, c)) = ToSet(s) \cup {c}
    BY WordsOfAppend
  <2>3. QED
    BY <1>1, <2>1, <2>2 DEF Brings
<1>2. CASE c \notin ToSet(supported) /\ IsWild(c)
  <2> DEFINE kept == {x \in ToSet(supported) : MatchPattern(c, x)}
             more == Only(supported, kept)
             P == {i \in 1 .. Len(supported) : supported[i] \in kept}
  <2>1. Adds(s, c, supported) = WithNew(s, more)
    BY <1>2 DEF Adds
  <2>2. more \in Seq(E) /\ ToSet(more) = {supported[i] : i \in P}
    <3> HIDE DEF kept
    <3>1. more \in Seq(E) /\ StandsAt(more, supported, P)
      BY OnlyIs
    <3> HIDE DEF more, P
    <3>2. QED
      BY <3>1, WordsAt
  <2>3. {supported[i] : i \in P} = kept
    <3>1. DOMAIN supported = 1 .. Len(supported)
      BY LenProperties
    <3>2. QED
      BY <3>1 DEF ToSet
  <2> HIDE DEF more, P
  <2>4. WithNew(s, more) \in Seq(E) /\ ToSet(WithNew(s, more)) = ToSet(s) \cup ToSet(more)
    BY <2>2, WithNewIs
  <2>5. {x \in ToSet(supported) : Brings(c, x, supported)} = kept
    BY <1>2 DEF Brings
  <2> HIDE DEF kept
  <2>6. QED
    BY <2>1, <2>2, <2>3, <2>4, <2>5
<1>3. CASE c \notin ToSet(supported) /\ ~IsWild(c)
  BY <1>3 DEF Adds, Brings
<1>4. QED
  BY <1>1, <1>2, <1>3

LEMMA SupportedSteps ==
  ASSUME NEW E, NEW candidates \in Seq(E), NEW supported \in Seq(E)
  PROVE  /\ Supported(candidates, supported)[0] = <<>>
         /\ \A i \in 1 .. Len(candidates) :
              Supported(candidates, supported)[i] =
                Adds(Supported(candidates, supported)[i - 1], candidates[i], supported)
         /\ \A i \in 0 .. Len(candidates) : Supported(candidates, supported)[i] \in Seq(E)
<1> DEFINE m == Len(candidates)
           S == Seq(E)
           X == Supported(candidates, supported)
           none == <<>>
           Step(s, i) == Adds(s, candidates[i], supported)
           F == [x \in S \X (1 .. m) |-> Step(x[1], x[2])]
           Body(h) == [i \in 0 .. m |-> IF i = 0 THEN none ELSE Step(h[i - 1], i)]
<1>1. m \in Nat /\ \A i \in 1 .. m : candidates[i] \in E
  BY LenProperties, ElementOfSeq
<1>2. X = CHOOSE h : h = Body(h)
  <2> DEFINE Spelt(h) ==
        [i \in 0 .. m |->
           IF i = 0 THEN <<>>
           ELSE IF candidates[i] \in ToSet(supported) THEN Append(h[i - 1], candidates[i])
           ELSE IF IsWild(candidates[i])
           THEN WithNew(h[i - 1],
                        Only(supported, {x \in ToSet(supported) : MatchPattern(candidates[i], x)}))
           ELSE h[i - 1]]
  <2>1. X = CHOOSE h : h = Spelt(h)
    BY DEF Supported
  <2>2. \A h : Spelt(h) = Body(h)
    BY DEF Adds
  <2> HIDE DEF Spelt, Body, X
  <2>3. QED
    BY <2>1, <2>2
<1>0. none \in S /\ none = <<>>
  BY EmptySeq
<1> HIDE DEF X, m, none
<1>3. ASSUME NEW i \in 1 .. m, NEW s \in S PROVE Step(s, i) \in S
  BY <1>1, AddsTyped
<1>s. \A s, i : Step(s, i) = Adds(s, candidates[i], supported)
  OBVIOUS
<1> HIDE DEF Step
<1>4. F \in [S \X (1 .. m) -> S]
  BY <1>3
<1>5. PICK h : Runs(h, S, none, m, F)
  <2>1. none \in S
    BY <1>0
  <2> HIDE DEF F, S
  <2>2. QED
    BY <1>1, <1>4, <2>1, Recursion
<1>6. h = Body(h)
  <2>1. h \in [0 .. m -> S] /\ h[0] = none /\ \A i \in 1 .. m : h[i] = F[<<h[i - 1], i>>]
    BY <1>5 DEF Runs
  <2>2. ASSUME NEW i \in 0 .. m PROVE h[i] = IF i = 0 THEN none ELSE Step(h[i - 1], i)
    <3>1. CASE i = 0
      BY <2>1, <3>1
    <3>2. CASE i # 0
      <4>1. i \in 1 .. m /\ i - 1 \in 0 .. m
        BY <1>1, <3>2
      <4>2. h[i] = F[<<h[i - 1], i>>] /\ <<h[i - 1], i>> \in S \X (1 .. m)
        BY <2>1, <4>1
      <4>3. QED
        BY <3>2, <4>2
    <3>3. QED
      BY <3>1, <3>2
  <2>3. QED
    BY <2>1, <2>2
<1>7. X = Body(X)
  <2> HIDE DEF Body
  <2>1. QED
    BY <1>2, <1>6
<1>8. X[0] = none
  BY <1>1, <1>7
<1>9. ASSUME NEW i \in 1 .. m PROVE X[i] = Step(X[i - 1], i)
  <2>1. i \in 0 .. m /\ i # 0
    BY <1>1
  <2>2. QED
    BY <1>7, <2>1
<1>10. \A i \in 0 .. m : X[i] \in S
  <2>1. X[0] \in S
    BY <1>0, <1>8
  <2>2. \A i \in 1 .. m : X[i - 1] \in S => X[i] \in S
    BY <1>3, <1>9
  <2> HIDE DEF S
  <2>3. QED
    BY <1>1, <2>1, <2>2, StaysIn
<1>11. QED
  BY <1>0, <1>8, <1>9, <1>10, <1>s DEF X, m

\* What the words of a list bring together.
Brought(candidates, supported) ==
  {x \in ToSet(supported) : \E c \in ToSet(candidates) : Brings(c, x, supported)}

LEMMA OfferedWords ==
  ASSUME NEW E, NEW candidates \in Seq(E), NEW supported \in Seq(E)
  PROVE  ToSet(filterSupported(candidates, supported)) = Brought(candidates, supported)
<1> DEFINE m == Len(candidates)
           X == Supported(candidates, supported)
           Words(n) == {x \in ToSet(supported) : \E i \in 1 .. n : Brings(candidates[i], x, supported)}
           N == {n \in 0 .. m : ToSet(X[n]) = Words(n)}
<1>1. m \in Nat /\ DOMAIN candidates = 1 .. m /\ \A i \in 1 .. m : candidates[i] \in E
  BY LenProperties, ElementOfSeq
<1>2. /\ X[0] = <<>>
      /\ \A i \in 1 .. m : X[i] = Adds(X[i - 1], candidates[i], supported)
      /\ \A i \in 0 .. m : X[i] \in Seq(E)
  BY SupportedSteps
<1>3. \A s \in Seq(E), c \in E :
        ToSet(Adds(s, c, supported)) = ToSet(s) \cup {x \in ToSet(supported) : Brings(c, x, supported)}
  BY AddsTyped
<1> HIDE DEF X, m
<1>4. 0 \in N
  <2>1. 1 .. 0 = {} /\ DOMAIN <<>> = {} /\ 0 \in 0 .. m
    BY <1>1
  <2>2. ToSet(<<>>) = {}
    BY <2>1 DEF ToSet
  <2>3. Words(0) = {}
    BY <2>1
  <2>4. QED
    BY <1>2, <2>1, <2>2, <2>3
<1>5. ASSUME NEW n \in Nat, n < m, n \in N PROVE n + 1 \in N
  <2> DEFINE k == n + 1
  <2>1. k \in 1 .. m /\ k - 1 = n /\ n \in 0 .. m /\ k \in 0 .. m /\ 1 .. k = (1 .. n) \cup {k}
    BY <1>1, <1>5
  <2> HIDE DEF k
  <2>2. X[k] = Adds(X[k - 1], candidates[k], supported)
    BY <1>2, <2>1
  <2>3. X[k] = Adds(X[n], candidates[k], supported) /\ X[n] \in Seq(E) /\ candidates[k] \in E
    BY <1>1, <1>2, <2>1, <2>2
  <2>4. ToSet(X[k]) = ToSet(X[n]) \cup {x \in ToSet(supported) : Brings(candidates[k], x, supported)}
    BY <1>3, <2>3
  <2>5. Words(k) = Words(n) \cup {x \in ToSet(supported) : Brings(candidates[k], x, supported)}
    BY <2>1
  <2>6. ToSet(X[n]) = Words(n)
    BY <1>5
  <2> HIDE DEF Words
  <2>7. ToSet(X[k]) = Words(k)
    BY <2>4, <2>5, <2>6
  <2>8. QED
    BY <2>1, <2>7 DEF k
<1>6. \A n \in 0 .. m : n \in N
  <2> HIDE DEF N
  <2>1. QED
    BY <1>1, <1>4, <1>5, InductionUpTo
<1>7. m \in 0 .. m
  BY <1>1
<1>8. ToSet(X[m]) = Words(m)
  BY <1>6, <1>7
<1>9. Words(m) = Brought(candidates, supported)
  BY <1>1 DEF ToSet, Brought
<1>10. filterSupported(candidates, supported) = X[m]
  BY DEF filterSupported, X, m
<1> HIDE DEF Words
<1>11. QED
  BY <1>8, <1>9, <1>10

\* A value as it is parsed: its operator and its names.
Values(E) == [op : {"", "+", "-", "^"}, names : Seq(E)]

LEMMA ListOpTyped ==
  ASSUME NEW E, NEW value \in Values(E), NEW defaults \in Seq(E)
  PROVE  ApplyListOp(value, defaults) \in Seq(E)
<1> DEFINE names == value.names
           all == names \o defaults
           none == <<>>
           kept == {d \in ToSet(defaults) : ~matchesAnyPattern(d, names)}
           r == ApplyListOp(value, defaults)
<1>1. names \in Seq(E) /\ all \in Seq(E) /\ none \in Seq(E) /\ value.op \in {"", "+", "-", "^"}
  BY ConcatProperties, EmptySeq DEF Values
<1>2. /\ value.op = "" => r \in {defaults, names}
      /\ value.op = "+" => r = WithNew(defaults, names)
      /\ value.op = "^" => r = WithNew(none, all)
      /\ value.op = "-" => r = Only(defaults, kept)
  BY DEF ApplyListOp
<1> HIDE DEF names, all, none, kept, r
<1>3. WithNew(defaults, names) \in Seq(E) /\ WithNew(none, all) \in Seq(E)
  BY <1>1, WithNewIs
<1>4. Only(defaults, kept) \in Seq(E)
  BY OnlyIs
<1>5. QED
  BY <1>1, <1>2, <1>3, <1>4 DEF r

\* What of the supported names a list brings is what its patterns stand for.
LEMMA BroughtDenoted ==
  ASSUME NEW C, NEW wanted \in Seq(Seq(C)), NEW supported \in Seq(Seq(C)),
         \A s \in ToSet(supported) : ~IsWild(s)
  PROVE  Brought(wanted, supported) =
           {s \in ToSet(supported) : \E w \in ToSet(wanted) : Denotes(w, s)}
<1>1. ASSUME NEW E, NEW s \in Seq(E), NEW x \in ToSet(s) PROVE x \in E
  <2>1. PICK i \in DOMAIN s : x = s[i]
    BY DEF ToSet
  <2>2. i \in 1 .. Len(s)
    BY LenProperties
  <2>3. QED
    BY <2>1, <2>2, ElementOfSeq
<1>2. ASSUME NEW c \in ToSet(wanted), NEW x \in ToSet(supported)
      PROVE  Denotes(c, x) <=> Brings(c, x, supported)
  <2>1. c \in Seq(C) /\ x \in Seq(C)
    BY <1>1
  <2>2. MatchPattern(c, x) <=> Denotes(c, x)
    BY <2>1, PatternsDenote
  <2>3. ~IsWild(c) => (Denotes(c, x) <=> c = x)
    BY <2>1, PlainDenotesItself
  <2>4. c \in ToSet(supported) => ~IsWild(c)
    OBVIOUS
  <2>5. QED
    BY <2>2, <2>3, <2>4 DEF Brings
<1>3. QED
  BY <1>2 DEF Brought

\* crypto.go:92-124 of pkg/sshclient and pkg/sshserver/crypto.go:86-113: for any value, defaults
\* and supported names, of which none looks like a pattern, nothing is offered that is not
\* supported, and of what is supported everything that the list names, or a pattern in it
\* stands for, is offered.
THEOREM SupportedAreOffered ==
  ASSUME NEW C, NEW value \in Values(Seq(C)), NEW defaults \in Seq(Seq(C)),
         NEW supported \in Seq(Seq(C)), \A s \in ToSet(supported) : ~IsWild(s)
  PROVE  ToSet(resolveAlgorithmList(value, defaults, supported)) =
           {s \in ToSet(supported) : \E w \in ToSet(ApplyListOp(value, defaults)) : Denotes(w, s)}
<1> DEFINE wanted == ApplyListOp(value, defaults)
           E == Seq(C)
<1>1. resolveAlgorithmList(value, defaults, supported) = filterSupported(wanted, supported)
  BY DEF resolveAlgorithmList
<1> HIDE DEF E
<1>2. value \in Values(E) /\ defaults \in Seq(E) /\ supported \in Seq(E)
  BY DEF E
<1>3. ApplyListOp(value, defaults) \in Seq(E)
  BY <1>2, ListOpTyped
<1>4. wanted \in Seq(E)
  BY <1>3
<1> HIDE DEF wanted
<1>5. ToSet(filterSupported(wanted, supported)) = Brought(wanted, supported)
  BY <1>2, <1>4, OfferedWords
<1>6. Brought(wanted, supported) = {s \in ToSet(supported) : \E w \in ToSet(wanted) : Denotes(w, s)}
  BY <1>4, BroughtDenoted DEF E
<1>7. QED
  BY <1>1, <1>5, <1>6 DEF wanted
=============================================================================
