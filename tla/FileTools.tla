------------------------------- MODULE FileTools -------------------------------
(***************************************************************************)
(* The file tools of runs that work on one file of the same workspace      *)
(* (tools/operation_tools.py): read_file, which an agent repeats page by   *)
(* page, and write_file, which reads the file, looks for old_content and   *)
(* replaces the whole file.  Runs are threads of one daemon, and nothing   *)
(* locks the file.                                                         *)
(*                                                                         *)
(* A text is a sequence of characters: lf and cr end lines, ff (form feed) *)
(* stands for the others at which splitlines() breaks, everything else is  *)
(* no line break.  The path is one that the tools accept.                  *)
(***************************************************************************)
EXTENDS Integers, Sequences, FiniteSets, FiniteSetsExt

CONSTANTS Runs,          \* each makes one call of write_file or reads the file once
          Characters,    \* with lf and cr
          NoFile,        \* the file does not exist
          NoJob,         \* a run that is not in write_file
          InitialTexts,  \* what the file may hold at first
          OldContents, NewContents, Keywords,  \* what the agents pass
          MaxReadFileLines, MaxKeywordMatches, ContextLines,
          MaxWriteSize,  \* MAX_WRITE_FILE_BYTES, in characters
          Faults         \* a subset of {"write"}: the disk may refuse a write

Texts == Seq(Characters)

\* A call of write_file: its arguments, the text it read, the one it will write
\* and where in it the new content begins.
Jobs == [old : OldContents, new : NewContents, seen : Texts, text : Texts, at : Nat]

ASSUME FileToolsAssumption ==
  /\ {"lf", "cr"} \subseteq Characters
  /\ InitialTexts \cup OldContents \cup NewContents \cup Keywords \subseteq Texts
  /\ NoFile \notin Texts /\ NoJob \notin Jobs
  /\ MaxReadFileLines \in Nat \ {0} /\ MaxKeywordMatches \in Nat \ {0}
  /\ ContextLines \in Nat /\ MaxWriteSize \in Nat
  /\ 2 * ContextLines + 1 <= MaxReadFileLines   \* 10 and 200 in the code
  /\ <<>> \notin Keywords
  /\ Faults \subseteq {"write"}

VARIABLES
  file,    \* the bytes of the file, or NoFile
  pc,      \* where each run stands
  job,     \* per run: the call of write_file it executes
  page,    \* per run: the next line to read and the lines it was shown
  steady   \* history, per run: the file has not changed since it looked at it

vars == <<file, pc, job, page, steady>>

-------------------------------------------------------------------------------
(* Lines.                                                                  *)

\* The members of S, a finite set of numbers, in order.
Ascending(S) ==
  [k \in 1..Cardinality(S) |-> CHOOSE i \in S : Cardinality({j \in S : j <= i}) = k]

IsCrLf(text, i) == text[i] = "cr" /\ i < Len(text) /\ text[i + 1] = "lf"

\* read_text() turns each of cr lf, cr and lf into lf.
Decode(text) ==
  LET kept == Ascending({i \in DOMAIN text : ~IsCrLf(text, i)})
  IN  [k \in DOMAIN kept |-> IF text[kept[k]] = "cr" THEN "lf" ELSE text[kept[k]]]

Breaks(text) == {i \in DOMAIN text : text[i] \in {"lf", "cr", "ff"} /\ ~IsCrLf(text, i)}

\* splitlines(): the last line need not be ended by a break.
LineEnds(text) ==
  LET open == IF text = <<>> \/ Len(text) \in Breaks(text) THEN {} ELSE {Len(text) + 1}
  IN  Ascending(Breaks(text) \cup open)

Lines(text) ==
  LET ends == LineEnds(text)
  IN  [k \in DOMAIN ends |->
         SubSeq(text, IF k = 1 THEN 1 ELSE ends[k - 1] + 1, ends[k] - 1)]

-------------------------------------------------------------------------------
(* read_file.                                                              *)

\* The numbers of the lines asked for; the model's arguments are positive.
SelectLineRange(lines, start, end) ==
  {i \in DOMAIN lines : start <= i /\ i <= end}

\* Mutant: a long answer is cut without a word.
LimitSilently(numbers) ==
  [shown |-> {i \in numbers : Cardinality({j \in numbers : j <= i}) <= MaxReadFileLines},
   truncated |-> FALSE]

LimitNumberedLines(numbers) ==
  [shown |-> {i \in numbers : Cardinality({j \in numbers : j <= i}) <= MaxReadFileLines},
   truncated |-> Cardinality(numbers) > MaxReadFileLines]

Occurrences(text, part) ==
  {i \in 1..Len(text) - Len(part) + 1 : SubSeq(text, i, i + Len(part) - 1) = part}

\* Mutant: a list of matches is cut without a word.
ReadKeywordSilently(lines, keyword, start, end) ==
  LET selected == SelectLineRange(lines, start, end)
      matches == {i \in selected : Occurrences(lines[i], keyword) # {}}
      first == {i \in matches :
                  Cardinality({j \in matches : j <= i}) <= MaxKeywordMatches}
  IN  [count |-> Cardinality(matches), shown |-> first, listed |-> first, truncated |-> FALSE]

\* read_file with a keyword: nothing, the lines around the one match, or a list
\* of the matches.
ReadKeyword(lines, keyword, start, end) ==
  LET selected == SelectLineRange(lines, start, end)
      matches == {i \in selected : Occurrences(lines[i], keyword) # {}}
      context(m) == {i \in selected : m - ContextLines <= i /\ i <= m + ContextLines}
      first == {i \in matches :
                  Cardinality({j \in matches : j <= i}) <= MaxKeywordMatches}
  IN  IF Cardinality(matches) = 1
      THEN LET limited == LimitNumberedLines(UNION {context(m) : m \in matches})
           IN  [count |-> 1, shown |-> limited.shown, listed |-> matches,
                truncated |-> limited.truncated]
      ELSE [count |-> Cardinality(matches), shown |-> {}, listed |-> first,
            truncated |-> matches # first]

-------------------------------------------------------------------------------
(* write_file.                                                             *)

\* Where old_content is found, each search starting behind the last match.
Positions(text, old) ==
  LET from[i \in 1..Len(text) + 1] ==
        LET next == {j \in Occurrences(text, old) : i <= j}
        IN  IF next = {} THEN <<>>
            ELSE LET j == Min(next) IN <<j>> \o from[j + Len(old)]
  IN  from[1]

\* Mutant: a last line that is ended counts as one more.
EndLineByNewlines(start, content) ==
  start + Cardinality({i \in DOMAIN content : content[i] = "lf"})

LineNumberAt(text, i) == 1 + Cardinality({j \in 1..i - 1 : text[j] = "lf"})
EndLine(start, content) == start + Len(LineEnds(content)) - 1

\* Mutant: the replaced part ends one character early.
ReplacedShort(text, old, new) ==
  IF text = <<>> THEN [ok |-> TRUE, text |-> new, at |-> 1]
  ELSE IF old = <<>> \/ Len(Positions(text, old)) # 1 THEN [ok |-> FALSE]
  ELSE LET i == Positions(text, old)[1]
       IN  [ok |-> TRUE, at |-> i,
            text |-> SubSeq(text, 1, i - 1) \o new \o SubSeq(text, i + Len(old) - 1, Len(text))]

\* _modify_existing_file on the text it read.
Replaced(text, old, new) ==
  IF text = <<>> THEN [ok |-> TRUE, text |-> new, at |-> 1]
  ELSE IF old = <<>> \/ Len(Positions(text, old)) # 1 THEN [ok |-> FALSE]
  ELSE LET i == Positions(text, old)[1]
       IN  [ok |-> TRUE, at |-> i,
            text |-> SubSeq(text, 1, i - 1) \o new \o SubSeq(text, i + Len(old), Len(text))]

-------------------------------------------------------------------------------
Init ==
  /\ file \in InitialTexts \cup {NoFile}
  /\ pc = [r \in Runs |-> "ready"]
  /\ job = [r \in Runs |-> NoJob]
  /\ page = [r \in Runs |-> [next |-> 1, shown |-> <<>>]]
  /\ steady = [r \in Runs |-> TRUE]

Goto(r, there) == pc' = [pc EXCEPT ![r] = there]

\* Mutant: the confirmation of a new file is taken as one of replacing the old.
BeginWriteConfirmed(r) ==
  /\ pc[r] = "ready"
  /\ \E old \in OldContents, new \in NewContents, confirm \in BOOLEAN :
       IF Len(new) > MaxWriteSize \/ (file = NoFile /\ ~confirm)
       THEN Goto(r, "refused") /\ UNCHANGED job
       ELSE /\ Goto(r, IF confirm THEN "replace" ELSE "match")
            /\ job' = [job EXCEPT ![r] = [old |-> old, new |-> new, seen |-> <<>>,
                                         text |-> new, at |-> 1]]
  /\ steady' = [steady EXCEPT ![r] = TRUE]
  /\ UNCHANGED <<file, page>>

\* write_file: the arguments are checked, then the file is looked for.
BeginWrite(r) ==
  /\ pc[r] = "ready"
  /\ \E old \in OldContents, new \in NewContents, confirm \in BOOLEAN :
       IF Len(new) > MaxWriteSize \/ (file = NoFile /\ ~confirm)
       THEN Goto(r, "refused") /\ UNCHANGED job
       ELSE /\ Goto(r, IF file = NoFile THEN "replace" ELSE "match")
            /\ job' = [job EXCEPT ![r] = [old |-> old, new |-> new, seen |-> <<>>,
                                         text |-> new, at |-> 1]]
  /\ steady' = [steady EXCEPT ![r] = TRUE]
  /\ UNCHANGED <<file, page>>

\* Mutant: only the new content's size is checked, not that of the updated text.
MatchAnySize(r) ==
  /\ pc[r] = "match"
  /\ LET seen == Decode(file)
         edit == Replaced(seen, job[r].old, job[r].new)
     IN  IF edit.ok
         THEN /\ Goto(r, "replace")
              /\ job' = [job EXCEPT ![r].seen = seen, ![r].text = edit.text, ![r].at = edit.at]
         ELSE Goto(r, "refused") /\ job' = [job EXCEPT ![r] = NoJob]
  /\ steady' = [steady EXCEPT ![r] = TRUE]
  /\ UNCHANGED <<file, page>>

\* _modify_existing_file: read the file, find old_content, put the new text together.
Match(r) ==
  /\ pc[r] = "match"
  /\ LET seen == Decode(file)
         edit == Replaced(seen, job[r].old, job[r].new)
     IN  IF edit.ok /\ Len(edit.text) <= MaxWriteSize
         THEN /\ Goto(r, "replace")
              /\ job' = [job EXCEPT ![r].seen = seen, ![r].text = edit.text, ![r].at = edit.at]
         ELSE Goto(r, "refused") /\ job' = [job EXCEPT ![r] = NoJob]
  /\ steady' = [steady EXCEPT ![r] = TRUE]
  /\ UNCHANGED <<file, page>>

\* _atomic_write_text: a temporary file takes the place of the file, or is removed.
Replace(r) ==
  /\ pc[r] = "replace"
  /\ file' = job[r].text
  /\ steady' = [q \in Runs |-> steady[q] /\ (q = r \/ file' = file)]
  /\ Goto(r, "written")
  /\ job' = [job EXCEPT ![r] = NoJob]
  /\ UNCHANGED page

ReplaceFails(r) ==
  /\ "write" \in Faults
  /\ pc[r] = "replace"
  /\ Goto(r, "refused")
  /\ job' = [job EXCEPT ![r] = NoJob]
  /\ UNCHANGED <<file, page, steady>>

\* An agent reads the file with read_file, page by page: the first call from line
\* 1, the next from behind the end_line of an answer that said truncated.
ReadPage(r) ==
  /\ pc[r] \in {"ready", "reading"} /\ file # NoFile
  /\ LET lines == Lines(Decode(file))
         answer == LimitNumberedLines(SelectLineRange(lines, page[r].next, Len(lines)))
         numbers == Ascending(answer.shown)
     IN  /\ page' = [page EXCEPT ![r] =
              [next |-> @.next + Len(numbers),
               shown |-> @.shown \o [k \in DOMAIN numbers |-> lines[numbers[k]]]]]
         /\ Goto(r, IF answer.truncated THEN "reading" ELSE "read")
  /\ steady' = [steady EXCEPT ![r] = @ \/ pc[r] = "ready"]
  /\ UNCHANGED <<file, job>>

Next == \E r \in Runs : \/ BeginWrite(r) \/ Match(r) \/ Replace(r) \/ ReplaceFails(r)
                        \/ ReadPage(r)

Spec == Init /\ [][Next]_vars

-------------------------------------------------------------------------------
(* Properties.                                                             *)

\* Every variable has its type, and no write makes the file larger than it may be.
TypeOK ==
  /\ file \in Texts \cup {NoFile}
  /\ file \notin InitialTexts \cup {NoFile} => Len(file) <= MaxWriteSize
  /\ pc \in [Runs -> {"ready", "match", "replace", "reading", "read", "written", "refused"}]
  /\ job \in [Runs -> Jobs \cup {NoJob}]
  /\ \A r \in Runs : job[r] # NoJob <=> pc[r] \in {"match", "replace"}
  /\ page \in [Runs -> [next : Nat \ {0}, shown : Seq(Texts)]]
  /\ steady \in [Runs -> BOOLEAN]

\* An edit puts the new content in the place of the old and leaves the rest as it
\* was read, whatever line ends the file and the new content have; only a cr at
\* the end of the new content and an lf behind it become one line end.
RestIsKept ==
  [][\A r \in Runs : pc[r] = "replace" /\ pc'[r] = "written" /\ job[r].seen # <<>> =>
       LET j == job[r]
           before == SubSeq(j.seen, 1, j.at - 1)
           after == SubSeq(j.seen, j.at + Len(j.old), Len(j.seen))
           joined == j.new # <<>> /\ j.new[Len(j.new)] = "cr" /\ after # <<>> /\ after[1] = "lf"
       IN  Decode(file') = before \o Decode(j.new) \o (IF joined THEN Tail(after) ELSE after)]_vars

\* The number read_file gives to the line of a character of the file.
LineNumberIn(text, i) == 1 + Cardinality({b \in Breaks(text) : b < i})

\* The lines that a successful write_file reports are those at which read_file
\* finds the new content - unless the text before has a line break that is not
\* a newline, which write_file does not count.
ReportedLines ==
  [][\A r \in Runs : pc[r] = "replace" /\ pc'[r] = "written" =>
       LET j == job[r]
           first == LineNumberAt(j.text, j.at)
       IN  (\A i \in 1..j.at - 1 : j.text[i] # "ff") /\ j.new # <<>> =>
             /\ first = LineNumberIn(file', j.at)
             /\ EndLine(first, j.new) = LineNumberIn(file', j.at + Len(j.new) - 1)]_vars

\* An edit is one of the current file, unless another run replaced the file after
\* this call looked at it; nothing prevents that ("old_content does not match
\* current file; reread before writing", operation_tools.py:926).  It is also
\* unambiguous ("old_content is ambiguous; provide a more specific old_content",
\* operation_tools.py:928): no two occurrences that do not overlap, and of those
\* that do it is the first that is replaced.
EditsCurrentFile ==
  [][\A r \in Runs : pc[r] = "replace" /\ pc'[r] = "written" /\ steady[r] =>
       LET old == job[r].old
           new == job[r].new
           text == IF file = NoFile THEN <<>> ELSE Decode(file)
           found == Occurrences(text, old)
       IN  IF text = <<>> THEN file' = new
           ELSE \E i \in found :
                  /\ \A k \in found : i <= k /\ k < i + Len(old)
                  /\ file' = SubSeq(text, 1, i - 1) \o new
                              \o SubSeq(text, i + Len(old), Len(text))]_vars

\* An agent that follows end_line and truncated has seen every line of a file that
\* did not change meanwhile, once and in order.
PagesCover ==
  \A r \in Runs : pc[r] = "read" /\ steady[r] => page[r].shown = Lines(Decode(file))

\* A keyword search counts every line that holds the keyword.  If it is one, the
\* line is shown with all its neighbours in the range asked for, and nothing is
\* cut; of several the first ones are listed, and the answer says if that is not
\* all of them.
KeywordIsTold ==
  file # NoFile =>
    LET lines == Lines(Decode(file))
    IN  \A keyword \in Keywords : \A start, end \in 1..Len(lines) :
          LET answer == ReadKeyword(lines, keyword, start, end)
              matches == {i \in start..end : Occurrences(lines[i], keyword) # {}}
          IN  /\ answer.count = Cardinality(matches)
              /\ \A m \in matches : answer.count = 1 =>
                   /\ ~answer.truncated
                   /\ {i \in start..end : m - ContextLines <= i /\ i <= m + ContextLines}
                        \subseteq answer.shown
              /\ \A i \in answer.listed : i \in matches /\ \A j \in matches : j < i => j \in answer.listed
              /\ matches \subseteq answer.listed \/ answer.truncated
===============================================================================
