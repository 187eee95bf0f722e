-------------------------------- MODULE ListDir --------------------------------
(***************************************************************************)
(* list_dir (tools/operation_tools.py) and an agent that looks for every   *)
(* file of its workspace with it.  One answer shows at most MaxEntries     *)
(* paths: the target's own entries first, then, depth first and as far as  *)
(* one shared budget goes, what is below them.  A directory whose content  *)
(* is left out, wholly or in part, is marked, and the agent is told to     *)
(* list the marked directories next.  A directory that cannot be read gets *)
(* an error entry, which the budget does not count.  A keyword turns the   *)
(* call into a search below the target.                                    *)
(*                                                                         *)
(* Nodes 1..Nodes are paths below the workspace's root, 0, numbered in the *)
(* order of their names; nothing changes the tree while the agent looks.   *)
(***************************************************************************)
EXTENDS Integers, Sequences, FiniteSets

CONSTANTS Nodes,         \* paths below the root
          MaxEntries,    \* DEFAULT_MAX_ENTRIES, whatever the agent asks for
          CollapseFiles, \* MAX_CHILD_FILES_BEFORE_COLLAPSE
          CollapseDirs,  \* MAX_CHILD_DIRS_BEFORE_COLLAPSE
          Matching       \* the sets of paths that the keywords match

ASSUME ListDirAssumption ==
  /\ Nodes \in Nat /\ MaxEntries \in Nat \ {0}
  /\ CollapseFiles \in Nat /\ CollapseDirs \in Nat
  /\ Matching \subseteq SUBSET (1..Nodes)

Root == 0
Paths == 1..Nodes

VARIABLES
  parent,   \* the tree: each path's directory
  kind,     \* file, dir, unreadable (iterdir raises), filtered (never shown)
  src,      \* the directory that is named "src", or 0
  todo,     \* directories the agent was told to list and has not listed yet
  seen,     \* paths it has been shown
  whole,    \* no answer said that a target's own entries are incomplete
  answer    \* the last answer

tree == <<parent, kind, src>>
vars == <<tree, todo, seen, whole, answer>>

\* wanted: what the call asked for; errors: the directories with an error entry.
Answer(target, wanted, shown, marked, errors, truncated) ==
  [target |-> target, wanted |-> wanted, shown |-> shown, marked |-> marked,
   errors |-> errors, truncated |-> truncated]

NoAnswer == Answer(Root, {}, {}, {}, {}, FALSE)

Init ==
  /\ parent \in {f \in [Paths -> 0..Nodes - 1] : \A n \in Paths : f[n] < n}
  /\ kind \in [Paths -> {"file", "dir", "unreadable", "filtered"}]
  /\ \A n \in Paths : parent[n] # Root => kind[parent[n]] = "dir"
  /\ src \in {Root} \cup {n \in Paths : kind[n] = "dir"}
  /\ todo = {Root}
  /\ seen = {}
  /\ whole = TRUE
  /\ answer = NoAnswer

-------------------------------------------------------------------------------
IsDir(n) == n = Root \/ kind[n] \in {"dir", "unreadable"}

\* iterdir() raises, or yields the paths of which the filtered ones are left out.
IncludedChildren(d) == {n \in Paths : parent[n] = d /\ kind[n] # "filtered"}

\* The paths of S by their names.
Ascending(S) ==
  [k \in 1..Cardinality(S) |-> CHOOSE n \in S : Cardinality({m \in S : m <= n}) = k]

\* _sort_children: src, then files, then directories, each by name.
SortChildren(d) ==
  LET children == IncludedChildren(d)
      dirs == {n \in children : IsDir(n)}
  IN  Ascending(children \cap {src}) \o Ascending(children \ dirs) \o Ascending(dirs \ {src})

Set(s) == {s[i] : i \in DOMAIN s}

\* Never the directory that was asked for.
ShouldCollapse(d, requested) ==
  /\ d # requested
  /\ \/ Cardinality({n \in IncludedChildren(d) : ~IsDir(n)}) > CollapseFiles
     \/ Cardinality({n \in IncludedChildren(d) : IsDir(n)}) > CollapseDirs

-------------------------------------------------------------------------------
(* What a part of the answer adds to it: the paths shown and marked, the   *)
(* directories with an error entry, the budget left, whether a claim       *)
(* failed (_EntryBudget.truncated), and whether the part says that         *)
(* something is missing.                                                   *)

Part(left, over) ==
  [shown |-> {}, marked |-> {}, errors |-> {}, left |-> left, over |-> over, cut |-> FALSE]

\* An error entry (_included_children), which claims nothing.
Unread(d, left, over) == [Part(left, over) EXCEPT !.errors = {d}]

\* The part later, which began where earlier ended.
Joined(earlier, later) ==
  [later EXCEPT !.shown = @ \cup earlier.shown, !.marked = @ \cup earlier.marked,
                !.errors = @ \cup earlier.errors, !.cut = @ \/ earlier.cut]

Marked(d, part) == [part EXCEPT !.marked = @ \cup {d}, !.cut = TRUE]

\* A loop over the children of dir that has come to the one numbered next.
Loops == [dir : 0..Nodes, next : 1..Nodes + 1, left : 0..MaxEntries, over : BOOLEAN]
Loop(d, k, left, over) == [dir |-> d, next |-> k, left |-> left, over |-> over]

(***************************************************************************)
(* _nested_directory_entries: each entry claims its place in the budget;   *)
(* only a directory that is shown as a whole is expanded further, which    *)
(* expand does for every loop.  An error entry is all there is of a        *)
(* directory that cannot be read.                                          *)
(***************************************************************************)
NestedEntries(d, left, over, expand) ==
  LET children == SortChildren(d)
  IN  IF kind[d] = "unreadable" THEN Unread(d, left, over)
      ELSE IF Len(children) > left
      THEN [Part(0, TRUE) EXCEPT !.shown = {children[i] : i \in 1..left}, !.cut = TRUE]
      ELSE LET part == expand[Loop(d, 1, left - Len(children), over)]
           IN  [part EXCEPT !.shown = @ \cup Set(children), !.cut = @ \/ part.over]

\* Mutant: a directory that meets an exhausted budget is not marked.
ExpandUntilSpent(d, requested, left, over, expand) ==
  IF ~IsDir(d) \/ left = 0 THEN Part(left, over)
  ELSE IF ShouldCollapse(d, requested) THEN Marked(d, Part(left, over))
  ELSE LET nested == NestedEntries(d, left, over, expand)
       IN  IF nested.cut THEN Marked(d, nested) ELSE nested

(***************************************************************************)
(* The body of the loop of _expand_child_directories: a crowded directory, *)
(* and one with children that meets an exhausted budget, is marked instead *)
(* of being expanded; so is one whose content did not fit.                 *)
(***************************************************************************)
ExpandDirectory(d, requested, left, over, expand) ==
  IF ~IsDir(d) THEN Part(left, over)
  ELSE IF ShouldCollapse(d, requested) THEN Marked(d, Part(left, over))
  ELSE IF left = 0
  THEN IF IncludedChildren(d) = {} THEN Part(left, over) ELSE Marked(d, Part(left, over))
  ELSE LET nested == NestedEntries(d, left, over, expand)
       IN  IF nested.cut THEN Marked(d, nested) ELSE nested

\* What a loop still adds, when expand has what the later ones do.
ExpandFrom(loop, requested, expand) ==
  LET children == SortChildren(loop.dir)
  IN  IF loop.next > Len(children) THEN Part(loop.left, loop.over)
      ELSE LET part == ExpandDirectory(children[loop.next], requested,
                                       loop.left, loop.over, expand)
           IN  Joined(part, expand[Loop(loop.dir, loop.next + 1, part.left, part.over)])

\* _expand_child_directories, for the children of d.
ExpandDirectories(d, requested, left, over) ==
  LET expand[loop \in Loops] == ExpandFrom(loop, requested, expand)
  IN  expand[Loop(d, 1, left, over)]

\* _directory_entries: too many entries of the target itself are cut off, and
\* then nothing is expanded.
DirectoryEntries(target) ==
  LET children == SortChildren(target)
  IN  IF target # Root /\ kind[target] = "unreadable" THEN Unread(target, MaxEntries, FALSE)
      ELSE IF Len(children) > MaxEntries
      THEN [Part(0, FALSE) EXCEPT !.shown = {children[i] : i \in 1..MaxEntries}, !.cut = TRUE]
      ELSE LET part == ExpandDirectories(target, target, MaxEntries - Len(children), FALSE)
           IN  [part EXCEPT !.shown = @ \cup Set(children), !.cut = @ \/ part.over]

DirectEntriesComplete(target) == Len(SortChildren(target)) <= MaxEntries

\* What _walk_included_paths yields from the k-th child of d on, when walk has
\* what comes later.
WalkFrom(d, k, walk) ==
  LET children == SortChildren(d)
  IN  IF k > Len(children) THEN <<>>
      ELSE <<children[k]>> \o (IF IsDir(children[k]) THEN walk[<<children[k], 1>>] ELSE <<>>)
           \o walk[<<d, k + 1>>]

\* _walk_included_paths: everything below d, in preorder.
Walk(d) ==
  LET walk[at \in (0..Nodes) \X (1..Nodes + 1)] == WalkFrom(at[1], at[2], walk)
  IN  walk[<<d, 1>>]

\* Mutant: the search stops at the last match it may return.
SearchShort(matches) ==
  LET walk == Walk(Root)
      found == {i \in DOMAIN walk : walk[i] \in matches}
      returned == {i \in found : Cardinality({j \in found : j < i}) < MaxEntries}
  IN  Answer(Root, {walk[i] : i \in found}, {walk[i] : i \in returned}, {}, {},
             Cardinality(returned) = MaxEntries)

(***************************************************************************)
(* _search_paths_by_name, for a keyword that the names of matches contain: *)
(* a match that comes after MaxEntries others ends the search.             *)
(***************************************************************************)
SearchPaths(matches) ==
  LET walk == Walk(Root)
      found == {i \in DOMAIN walk : walk[i] \in matches}
      returned == {i \in found : Cardinality({j \in found : j < i}) < MaxEntries}
  IN  Answer(Root, {walk[i] : i \in found}, {walk[i] : i \in returned}, {}, {},
             found # returned)

-------------------------------------------------------------------------------
(* The agent's calls.                                                      *)

\* list_dir on a directory it was told to look into, or, once more, on one of
\* which the last answer said that it cannot be read.
List(d) ==
  /\ d \in todo \cup answer.errors
  /\ LET part == DirectoryEntries(d)
     IN  /\ answer' = Answer(d, Set(Walk(d)), part.shown, part.marked, part.errors, part.cut)
         /\ seen' = seen \cup part.shown
         /\ todo' = (todo \ {d}) \cup part.marked
  /\ whole' = (whole /\ DirectEntriesComplete(d))
  /\ UNCHANGED tree

\* list_dir with a keyword (and one search, before it lists).
Search(matches) ==
  /\ answer = NoAnswer
  /\ answer' = SearchPaths(matches)
  /\ seen' = seen \cup answer'.shown
  /\ UNCHANGED <<tree, todo, whole>>

Next ==
  \/ \E d \in todo \cup answer.errors : List(d)
  \/ \E matches \in Matching : Search(matches)

Spec == Init /\ [][Next]_vars

-------------------------------------------------------------------------------
(* Properties.                                                             *)

(***************************************************************************)
(* Whatever the shape of the workspace, an agent that lists the root and   *)
(* then every directory marked as truncated has been shown every path that *)
(* is not filtered once nothing marked is left - unless an answer told it  *)
(* that a directory has more entries of its own than one answer holds.     *)
(* Nothing falls between the budget, the collapsed directories and those   *)
(* that are cut in the middle.                                             *)
(***************************************************************************)
EverythingFound ==
  todo = {} /\ whole => seen = Set(Walk(Root))

(***************************************************************************)
(* An answer never shows more paths than its limit, shows only what was    *)
(* asked for, and says that it is truncated exactly when it leaves some of *)
(* that out.  The error entries that come on top of the limit are for      *)
(* directories that cannot be read and that the answer shows, one each, or *)
(* for the directory asked for.                                            *)
(***************************************************************************)
AnswersAreTruthful ==
  /\ Cardinality(answer.shown) <= MaxEntries
  /\ \A d \in answer.errors :
       kind[d] = "unreadable" /\ d \in answer.shown \cup {answer.target}
  /\ answer.shown \subseteq answer.wanted
  /\ answer.truncated <=> answer.shown # answer.wanted
===============================================================================
