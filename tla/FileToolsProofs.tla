---------------------------- MODULE FileToolsProofs ----------------------------
(***************************************************************************)
(* What the file tools promise, for any number of runs, any texts and any  *)
(* limits.                                                                 *)
(***************************************************************************)
EXTENDS FileTools, SequenceTheorems, FiniteSetTheorems, FunctionTheorems, WellFoundedInduction, TLAPS

-------------------------------------------------------------------------------
(* Numbers in order.                                                       *)

\* The members of S up to i.
Below(S, i) == {j \in S : j <= i}
Numbers(S) == IsFiniteSet(S) /\ \A x \in S : x \in Int
OneToOne(f, S) == \A i, j \in S : f[i] = f[j] => i = j
Reaches(f, S, T) == \A t \in T : \E i \in S : f[i] = t
Rises(e, m) == \A k, l \in 1..m : k < l => e[k] < e[l]

\* A number is found among the others by how many are not above it.
LEMMA BelowStep ==
  ASSUME NEW S, Numbers(S), NEW i \in S, NEW j \in S, i < j
  PROVE  /\ Cardinality(Below(S, i)) \in 1..Cardinality(S)
         /\ Cardinality(Below(S, i)) < Cardinality(Below(S, j))
<1> USE DEF Numbers
<1>0. i \in Int /\ j \in Int
  OBVIOUS
<1>1. Below(S, i) \in SUBSET Below(S, j) /\ Below(S, j) \in SUBSET S
  <2>1. ASSUME NEW x \in Below(S, i)  PROVE x \in Below(S, j)
    BY <1>0 DEF Below
  <2>2. Below(S, j) \subseteq S
    BY DEF Below
  <2> QED
    BY <2>1, <2>2
<1>2. IsFiniteSet(Below(S, j)) /\ IsFiniteSet(Below(S, i))
  BY <1>1, FS_Subset
<1>3. j \in Below(S, j) /\ j \notin Below(S, i) /\ i \in Below(S, i)
  BY <1>0 DEF Below
<1>4. Cardinality(Below(S, i)) <= Cardinality(Below(S, j))
      /\ Cardinality(Below(S, i)) # Cardinality(Below(S, j))
  BY <1>1, <1>2, <1>3, FS_Subset
<1>5. Cardinality(Below(S, j)) <= Cardinality(S)
  BY <1>1, FS_Subset
<1>6. Cardinality(Below(S, i)) # 0
  BY <1>2, <1>3, FS_EmptySet
<1>7. Cardinality(Below(S, i)) \in Nat /\ Cardinality(Below(S, j)) \in Nat /\ Cardinality(S) \in Nat
  BY <1>2, FS_CardinalityType
<1> QED
  BY <1>4, <1>5, <1>6, <1>7

\* There are members of S up to a member, and no more than S has.
LEMMA BelowType ==
  ASSUME NEW S, Numbers(S), NEW i \in S
  PROVE  Cardinality(Below(S, i)) \in 1..Cardinality(S)
<1> USE DEF Numbers
<1>1. Below(S, i) \in SUBSET S /\ i \in Below(S, i)
  BY DEF Below
<1>2. IsFiniteSet(Below(S, i)) /\ Cardinality(Below(S, i)) <= Cardinality(S)
  BY <1>1, FS_Subset
<1>3. Cardinality(Below(S, i)) # 0
  BY <1>1, <1>2, FS_EmptySet
<1>4. Cardinality(Below(S, i)) \in Nat /\ Cardinality(S) \in Nat
  BY <1>2, FS_CardinalityType
<1> QED
  BY <1>2, <1>3, <1>4

\* Injections between finite sets of one size reach everything.
LEMMA AllReached ==
  ASSUME NEW S, NEW T, IsFiniteSet(S), IsFiniteSet(T), Cardinality(S) = Cardinality(T),
         NEW f \in [S -> T], OneToOne(f, S)
  PROVE  Reaches(f, S, T)
<1>1. f \in Injection(S, T)
  BY Fun_IsInj DEF OneToOne
<1>2. f \in Surjection(S, T)
  BY <1>1, FS_Injection
<1> QED
  BY <1>2, Fun_SurjectionProperties DEF Reaches

\* As many members as places in a list without repetition.
LEMMA Counted ==
  ASSUME NEW T, NEW n \in Nat, NEW f \in [1..n -> T], OneToOne(f, 1..n), Reaches(f, 1..n, T)
  PROVE  IsFiniteSet(T) /\ Cardinality(T) = n
<1> PICK S : S = 1..n
  OBVIOUS
<1>1. f \in Bijection(S, T)
  BY Fun_IsBij DEF OneToOne, Reaches
<1>2. ExistsBijection(S, T)
  BY <1>1 DEF ExistsBijection
<1>3. IsFiniteSet(S) /\ Cardinality(S) = n
  BY FS_Interval
<1> QED
  BY <1>2, <1>3, FS_Bijection

\* Every place is taken: the counts are all different.
LEMMA PlaceTaken ==
  ASSUME NEW S, Numbers(S), NEW k \in 1..Cardinality(S)
  PROVE  \E i \in S : Cardinality(Below(S, i)) = k
<1> PICK n : n = Cardinality(S)
  OBVIOUS
<1>1. n \in Nat
  BY FS_CardinalityType DEF Numbers
<1> PICK place : place = [i \in S |-> Cardinality(Below(S, i))]
  OBVIOUS
<1>2. place \in [S -> 1..n]
  BY BelowType
<1>3. ASSUME NEW i \in S, NEW j \in S, place[i] = place[j]  PROVE i = j
  <2>1. ~(i < j)
    BY <1>1, <1>3, BelowStep
  <2>2. ~(j < i)
    BY <1>1, <1>3, BelowStep
  <2>3. i \in Int /\ j \in Int
    BY DEF Numbers
  <2> QED
    BY <2>1, <2>2, <2>3
<1>4. OneToOne(place, S)
  BY <1>3 DEF OneToOne
<1>5. Reaches(place, S, 1..n)
  <2> PICK T : T = 1..n
    OBVIOUS
  <2>1. IsFiniteSet(T) /\ Cardinality(T) = Cardinality(S) /\ place \in [S -> T]
    BY <1>1, <1>2, FS_Interval
  <2>2. Reaches(place, S, T)
    BY <1>4, <2>1, AllReached DEF Numbers
  <2> QED
    BY <2>2
<1>6. PICK i \in S : place[i] = k
  BY <1>5 DEF Reaches
<1> QED
  BY <1>6

\* Ascending lists all members, and each at its place.
LEMMA AscendingType ==
  ASSUME NEW S, Numbers(S)
  PROVE  /\ Cardinality(S) \in Nat
         /\ Ascending(S) \in Seq(S) /\ Len(Ascending(S)) = Cardinality(S)
         /\ DOMAIN Ascending(S) = 1..Cardinality(S)
         /\ \A k \in 1..Cardinality(S) : /\ Ascending(S)[k] \in S
                                         /\ Cardinality(Below(S, Ascending(S)[k])) = k
<1>1. Cardinality(S) \in Nat
  BY FS_CardinalityType DEF Numbers
<1>2. Ascending(S) = [k \in 1..Cardinality(S) |-> CHOOSE i \in S : Cardinality(Below(S, i)) = k]
  BY DEF Ascending, Below
<1>3. ASSUME NEW k \in 1..Cardinality(S)
      PROVE  Ascending(S)[k] \in S /\ Cardinality(Below(S, Ascending(S)[k])) = k
  <2>1. Ascending(S)[k] = CHOOSE i \in S : Cardinality(Below(S, i)) = k
    BY <1>2
  <2> QED
    BY <2>1, PlaceTaken
<1>4. Ascending(S) \in Seq(S) /\ Len(Ascending(S)) = Cardinality(S)
  BY <1>1, <1>2, <1>3
<1> QED
  BY <1>1, <1>2, <1>3, <1>4

\* The list is the only one that ascends and has all members.
LEMMA AscendingUnique ==
  ASSUME NEW S, Numbers(S), NEW m \in Nat, NEW e \in [1..m -> S],
         Rises(e, m), Reaches(e, 1..m, S)
  PROVE  Ascending(S) = e /\ Cardinality(S) = m
<1>1. ASSUME NEW k \in 1..m, NEW l \in 1..m
      PROVE  (e[k] <= e[l] <=> k <= l) /\ (e[k] = e[l] => k = l)
  <2>1. k \in Int /\ l \in Int /\ e[k] \in Int /\ e[l] \in Int
    <3>1. e[k] \in S /\ e[l] \in S
      OBVIOUS
    <3>2. \A x \in S : x \in Int
      BY DEF Numbers
    <3> QED
      BY <3>1, <3>2
  <2>2. (k < l => e[k] < e[l]) /\ (l < k => e[l] < e[k])
    BY DEF Rises
  <2>3. k = l => e[k] = e[l]
    OBVIOUS
  <2> QED
    BY <2>1, <2>2, <2>3
<1>2. ASSUME NEW k \in 1..m  PROVE Cardinality(Below(S, e[k])) = k
  <2> PICK f : f = [l \in 1..k |-> e[l]]
    OBVIOUS
  <2>1. f \in [1..k -> Below(S, e[k])]
    BY <1>1 DEF Below
  <2>2. OneToOne(f, 1..k)
    BY <1>1 DEF OneToOne
  <2>3. Reaches(f, 1..k, Below(S, e[k]))
    <3> SUFFICES \A i \in Below(S, e[k]) : \E l \in 1..k : f[l] = i
      BY DEF Reaches
    <3> TAKE i \in Below(S, e[k])
    <3>1. PICK l \in 1..m : e[l] = i
      BY DEF Below, Reaches
    <3>2. l <= k
      BY <1>1, <3>1 DEF Below
    <3> QED
      BY <3>1, <3>2
  <2> PICK T : T = Below(S, e[k])
    OBVIOUS
  <2>4. k \in Nat /\ f \in [1..k -> T] /\ Reaches(f, 1..k, T)
    BY <2>1, <2>3
  <2> QED
    BY <2>2, <2>4, Counted
<1>3. Cardinality(S) = m
  <2>1. OneToOne(e, 1..m)
    BY <1>1 DEF OneToOne
  <2> QED
    BY <2>1, Counted
<1>4. ASSUME NEW k \in 1..m  PROVE Ascending(S)[k] = e[k]
  <2>1. Ascending(S)[k] \in S /\ Cardinality(Below(S, Ascending(S)[k])) = k
    BY <1>3, AscendingType
  <2>2. PICK l \in 1..m : e[l] = Ascending(S)[k]
    BY <2>1 DEF Reaches
  <2>3. k = l
    BY <1>2, <2>1, <2>2
  <2> QED
    BY <2>2, <2>3
<1>5. Ascending(S) \in [1..m -> S]
  BY <1>3, AscendingType, LenProperties
<1>6. Ascending(S) = e
  BY <1>4, <1>5
<1> QED
  BY <1>3, <1>6

\* In particular an interval.
LEMMA AscendingInterval ==
  ASSUME NEW a \in Int, NEW b \in Int, a <= b + 1
  PROVE  /\ Ascending(a..b) = [k \in 1..(b - a + 1) |-> a + k - 1]
         /\ Len(Ascending(a..b)) = b - a + 1
<1> PICK m, e : m = b - a + 1 /\ e = [k \in 1..m |-> a + k - 1]
  OBVIOUS
<1>1. m \in Nat /\ e \in [1..m -> a..b]
  OBVIOUS
<1>2. Numbers(a..b)
  BY FS_Interval DEF Numbers
<1>3. Rises(e, m)
  BY DEF Rises
<1>4. Reaches(e, 1..m, a..b)
  <2> SUFFICES ASSUME NEW i \in a..b  PROVE \E k \in 1..m : e[k] = i
    BY DEF Reaches
  <2>1. i - a + 1 \in 1..m /\ e[i - a + 1] = i
    OBVIOUS
  <2> QED
    BY <2>1
<1>5. Ascending(a..b) = e /\ Cardinality(a..b) = m
  BY <1>1, <1>2, <1>3, <1>4, AscendingUnique
<1> QED
  BY <1>2, <1>5, AscendingType

-------------------------------------------------------------------------------
(* Texts and their lines.                                                  *)

\* The places Decode keeps: all but a cr before an lf.
Kept(text) == {i \in DOMAIN text : ~IsCrLf(text, i)}

\* A set of places of a text has an order.
LEMMA PlacesAreNumbers ==
  ASSUME NEW n \in Nat, NEW S, S \subseteq 1..n
  PROVE  Numbers(S)
<1>1. IsFiniteSet(1..n)
  BY FS_Interval
<1>2. IsFiniteSet(S)
  BY <1>1, FS_Subset
<1> QED
  BY <1>2 DEF Numbers

\* The places of a text, those Decode keeps and those that end a line.
LEMMA TextFacts ==
  ASSUME NEW text \in Texts
  PROVE  /\ Len(text) \in Nat /\ DOMAIN text = 1..Len(text)
         /\ \A i \in 1..Len(text) : text[i] \in Characters
         /\ Kept(text) \subseteq 1..Len(text) /\ Numbers(Kept(text))
         /\ Breaks(text) \subseteq 1..Len(text) /\ Numbers(Breaks(text))
<1>1. Len(text) \in Nat /\ DOMAIN text = 1..Len(text) /\ \A i \in 1..Len(text) : text[i] \in Characters
  BY DEF Texts
<1>2. Kept(text) \subseteq 1..Len(text) /\ Breaks(text) \subseteq 1..Len(text)
  BY <1>1 DEF Kept, Breaks
<1> QED
  BY <1>1, <1>2, PlacesAreNumbers

\* What is decoded has a character for each one kept, and no cr.
LEMMA DecodeFacts ==
  ASSUME NEW text \in Texts, NEW kept, kept = Ascending(Kept(text))
  PROVE  /\ Decode(text) \in Seq(Characters \ {"cr"}) /\ Decode(text) \in Texts
         /\ Len(Decode(text)) = Cardinality(Kept(text))
         /\ \A k \in 1..Cardinality(Kept(text)) :
              /\ kept[k] \in Kept(text)
              /\ Decode(text)[k] = IF text[kept[k]] = "cr" THEN "lf" ELSE text[kept[k]]
<1> PICK n : n = Cardinality(Kept(text))
  OBVIOUS
<1>1. n \in Nat /\ DOMAIN kept = 1..n /\ \A k \in 1..n : kept[k] \in Kept(text)
  BY TextFacts, AscendingType
<1>2. Decode(text) = [k \in 1..n |-> IF text[kept[k]] = "cr" THEN "lf" ELSE text[kept[k]]]
  BY <1>1 DEF Decode, Kept
<1>3. \A k \in 1..n : text[kept[k]] \in Characters
  BY <1>1, TextFacts
<1>4. "lf" \in Characters
  BY FileToolsAssumption
<1>5. \A k \in 1..n : Decode(text)[k] \in Characters \ {"cr"}
  BY <1>2, <1>3, <1>4
<1>6. Decode(text) \in Seq(Characters \ {"cr"}) /\ Decode(text) \in Texts /\ Len(Decode(text)) = n
  BY <1>1, <1>2, <1>5 DEF Texts
<1> QED
  BY <1>1, <1>2, <1>6

\* A text ends in a line break, or its last line is open: one line more than
\* there are breaks before the last character.
LEMMA LineEndsFacts ==
  ASSUME NEW text \in Texts
  PROVE  /\ LineEnds(text) \in Seq(1..Len(text) + 1)
         /\ DOMAIN LineEnds(text) = 1..Len(LineEnds(text))
         /\ text # <<>> =>
              Len(LineEnds(text)) = Cardinality({b \in Breaks(text) : b < Len(text)}) + 1
<1> PICK n, open, early : /\ n = Len(text) /\ early = {b \in Breaks(text) : b < n}
                          /\ open = IF text = <<>> \/ n \in Breaks(text) THEN {} ELSE {n + 1}
  OBVIOUS
<1>1. n \in Nat /\ Breaks(text) \subseteq 1..n
  BY TextFacts
<1>2. Breaks(text) \cup open \subseteq 1..n + 1
  BY <1>1
<1>3. Numbers(Breaks(text) \cup open)
  BY <1>1, <1>2, PlacesAreNumbers
<1>4. LineEnds(text) = Ascending(Breaks(text) \cup open)
  BY DEF LineEnds
<1>5. /\ LineEnds(text) \in Seq(Breaks(text) \cup open)
      /\ Len(LineEnds(text)) = Cardinality(Breaks(text) \cup open)
      /\ DOMAIN LineEnds(text) = 1..Len(LineEnds(text))
  BY <1>3, <1>4, AscendingType
<1>6. LineEnds(text) \in Seq(1..n + 1)
  BY <1>2, <1>5, SeqMonotonic
<1>7. ASSUME text # <<>>  PROVE Cardinality(Breaks(text) \cup open) = Cardinality(early) + 1
  <2> PICK last : last = IF n \in Breaks(text) THEN n ELSE n + 1
    OBVIOUS
  <2>1. n > 0
    BY <1>7, <1>1 DEF Texts
  <2>2. Breaks(text) \cup open = early \cup {last} /\ last \notin early
    BY <1>1, <1>7, <2>1
  <2>3. early \subseteq 1..n
    BY <1>1
  <2>4. IsFiniteSet(early)
    BY <1>1, <2>3, PlacesAreNumbers DEF Numbers
  <2>5. Cardinality(early \cup {last}) = Cardinality(early) + 1
    BY <2>2, <2>4, FS_AddElement
  <2> QED
    BY <2>2, <2>5
<1> QED
  BY <1>5, <1>6, <1>7

\* The lines of a text are texts.
LEMMA LinesType ==
  ASSUME NEW text \in Texts
  PROVE  /\ Lines(text) \in Seq(Texts) /\ DOMAIN Lines(text) = 1..Len(Lines(text))
<1> PICK ends : ends = LineEnds(text)
  OBVIOUS
<1>1. /\ ends \in Seq(1..Len(text) + 1) /\ DOMAIN ends = 1..Len(ends) /\ Len(ends) \in Nat
      /\ Len(text) \in Nat
  <2>1. ends \in Seq(1..Len(text) + 1) /\ DOMAIN ends = 1..Len(ends) /\ Len(text) \in Nat
    BY LineEndsFacts, TextFacts
  <2>2. Len(ends) \in Nat
    BY <2>1, LenProperties
  <2> QED
    BY <2>1, <2>2
<1>2. Lines(text) = [k \in 1..Len(ends) |->
                       SubSeq(text, IF k = 1 THEN 1 ELSE ends[k - 1] + 1, ends[k] - 1)]
  BY <1>1 DEF Lines
<1>3. ASSUME NEW k \in 1..Len(ends)
      PROVE  SubSeq(text, IF k = 1 THEN 1 ELSE ends[k - 1] + 1, ends[k] - 1) \in Texts
  <2> PICK a, b : a = (IF k = 1 THEN 1 ELSE ends[k - 1] + 1) /\ b = ends[k] - 1
    OBVIOUS
  <2>1. ends[k] \in 1..Len(text) + 1 /\ (k # 1 => ends[k - 1] \in 1..Len(text) + 1)
    BY <1>1
  <2>2. a \in Int /\ b \in Int /\ a >= 1 /\ b <= Len(text)
    <3> PICK n, e, d : n = Len(text) /\ e = ends[k] /\ d = ends[k - 1]
      OBVIOUS
    <3>1. n \in Nat /\ e \in 1..n + 1 /\ (k # 1 => d \in 1..n + 1)
      BY <1>1, <2>1
    <3>2. b = e - 1 /\ a = (IF k = 1 THEN 1 ELSE d + 1)
      OBVIOUS
    <3>3. a \in Int /\ b \in Int /\ a >= 1 /\ b <= n
      BY ONLY <3>1, <3>2
    <3> QED
      BY <3>3
  <2>3. \A i \in a..b : text[i] \in Characters
    BY <1>1, <2>2, TextFacts
  <2>4. SubSeq(text, a, b) \in Texts
    BY <2>2, <2>3, SubSeqProperties DEF Texts
  <2> QED
    BY <2>4
<1> QED
  BY <1>1, <1>2, <1>3

-------------------------------------------------------------------------------
(* Occurrences.                                                            *)

\* An occurrence lies within the text.
LEMMA OccurrencesFacts ==
  ASSUME NEW text \in Texts, NEW part \in Texts, part # <<>>
  PROVE  /\ Len(part) \in Nat \ {0}
         /\ Occurrences(text, part) \subseteq 1..Len(text)
         /\ \A i \in Occurrences(text, part) : i + Len(part) <= Len(text) + 1
<1>1. Len(part) \in Nat \ {0} /\ Len(text) \in Nat
  BY DEF Texts
<1> QED
  BY <1>1 DEF Occurrences

\* Natural numbers, if there are any, have a least one.
LEMMA NatMinimum ==
  ASSUME NEW S, S \subseteq Nat, S # {}
  PROVE  \E x \in S : \A y \in S : x <= y
<1>1. PICK x \in S : \A y \in S : ~(<<y, x>> \in OpToRel(<, Nat))
  BY NatLessThanWellFounded, WFMin
<1>2. \A y \in S : ~(y < x)
  BY <1>1 DEF OpToRel
<1> QED
  BY <1>2

\* Min is that one.
LEMMA MinFacts ==
  ASSUME NEW S, S \subseteq Nat, S # {}
  PROVE  Min(S) \in S /\ \A y \in S : Min(S) <= y
BY NatMinimum DEF Min

\* One step of the search for old_content from i on, when f has the rest.
Found(f, text, old, i) ==
  LET next == {j \in Occurrences(text, old) : i <= j}
  IN  IF next = {} THEN <<>> ELSE LET j == Min(next) IN <<j>> \o f[j + Len(old)]

\* f is right from m on.
Searches(f, text, old, m) ==
  /\ f \in [1..Len(text) + 1 -> Seq(Nat)]
  /\ \A i \in 1..Len(text) + 1 : i >= m => f[i] = Found(f, text, old, i)

\* g and f agree behind i.
SameBehind(g, f, n, i) == \A k \in 1..n : k > i => g[k] = f[k]

\* The search only looks at what is behind i.
LEMMA FoundBehind ==
  ASSUME NEW text \in Texts, NEW old \in Texts, old # <<>>, NEW i \in 1..Len(text) + 1,
         NEW f \in [1..Len(text) + 1 -> Seq(Nat)]
  PROVE  /\ Found(f, text, old, i) \in Seq(Nat)
         /\ \A g : (\A k \in 1..Len(text) + 1 : k > i => g[k] = f[k]) =>
              Found(g, text, old, i) = Found(f, text, old, i)
<1> PICK n, next : n = Len(text) + 1 /\ next = {j \in Occurrences(text, old) : i <= j}
  OBVIOUS
<1>1. n \in Nat /\ Len(old) \in Nat \ {0} /\ next \subseteq Nat /\ i \in Nat
  BY OccurrencesFacts, TextFacts
<1>2. CASE next = {}
  <2>1. <<>> \in Seq(Nat)
    OBVIOUS
  <2> QED
    BY <1>2, <2>1 DEF Found
<1>3. CASE next # {}
  <2> PICK j : j = Min(next)
    OBVIOUS
  <2>1. j \in next
    BY <1>1, <1>3, MinFacts
  <2>2. j \in Nat /\ i <= j /\ j + Len(old) <= n
    BY <1>1, <2>1, OccurrencesFacts, TextFacts
  <2>3. j + Len(old) \in 1..n /\ j + Len(old) > i
    BY <1>1, <2>2
  <2>4. \A g : Found(g, text, old, i) = <<j>> \o g[j + Len(old)]
    BY <1>3 DEF Found
  <2>5. f[j + Len(old)] \in Seq(Nat)
    BY <2>3
  <2>6. <<j>> \o f[j + Len(old)] \in Seq(Nat)
    BY <2>2, <2>5
  <2> QED
    BY <2>3, <2>4, <2>6
<1> QED
  BY <1>2, <1>3

\* The same, of searches that agree behind i.
LEMMA FoundSame ==
  ASSUME NEW text \in Texts, NEW old \in Texts, old # <<>>, NEW n, n = Len(text) + 1, NEW i \in 1..n,
         NEW f \in [1..n -> Seq(Nat)], NEW g, SameBehind(g, f, n, i)
  PROVE  Found(g, text, old, i) = Found(f, text, old, i)
BY FoundBehind DEF SameBehind

\* There is such a search: were there a last place from which it fails, it
\* could be continued there.
LEMMA SearchExists ==
  ASSUME NEW text \in Texts, NEW old \in Texts, old # <<>>
  PROVE  \E f : Searches(f, text, old, 1)
<1> PICK n : n = Len(text) + 1
  OBVIOUS
<1>1. n \in Nat \ {0}
  BY TextFacts
<1> PICK Bad : Bad = {d \in 0..n : ~\E f : Searches(f, text, old, n + 1 - d)}
  OBVIOUS
<1>2. Bad = {}
  <2> SUFFICES ASSUME Bad # {}  PROVE FALSE
    OBVIOUS
  <2>1. PICK d \in Bad : \A y \in Bad : d <= y
    <3>1. Bad \subseteq Nat
      BY <1>1
    <3> QED
      BY <3>1, NatMinimum
  <2>2. d \in 0..n /\ d \in Nat
    BY <1>1
  <2>3. CASE d = 0
    <3> PICK f : f = [i \in 1..n |-> <<>>]
      OBVIOUS
    <3>1. <<>> \in Seq(Nat)
      OBVIOUS
    <3>2. Searches(f, text, old, n + 1 - d)
      BY <1>1, <2>3, <3>1 DEF Searches
    <3> QED
      BY <3>2
  <2>4. CASE d # 0
    <3> PICK m : m = n + 1 - d
      OBVIOUS
    <3>1. m \in 1..n /\ m \in Nat /\ d - 1 \in 0..n /\ n + 1 - (d - 1) = m + 1
      BY <1>1, <2>2, <2>4
    <3>2. d - 1 \notin Bad
      BY <2>1, <2>2
    <3>3. PICK f : Searches(f, text, old, m + 1)
      BY <3>1, <3>2
    <3>4. f \in [1..n -> Seq(Nat)] /\ \A i \in 1..n : i >= m + 1 => f[i] = Found(f, text, old, i)
      BY <3>3 DEF Searches
    <3> PICK g : g = [f EXCEPT ![m] = Found(f, text, old, m)]
      OBVIOUS
    <3>5. /\ g \in [1..n -> Seq(Nat)] /\ g[m] = Found(f, text, old, m)
          /\ \A k \in 1..n : k # m => g[k] = f[k]
      <4>1. Found(f, text, old, m) \in Seq(Nat)
        BY <3>1, <3>4, FoundBehind
      <4> QED
        BY <3>1, <3>4, <4>1
    <3>6. ASSUME NEW i \in 1..n, i >= m  PROVE g[i] = Found(g, text, old, i)
      <4>1. SameBehind(g, f, n, i)
        <5>1. \A k \in 1..n : k > i => k # m
          BY <1>1, <3>1, <3>6
        <5> QED
          BY <3>5, <5>1 DEF SameBehind
      <4>2. Found(g, text, old, i) = Found(f, text, old, i)
        BY <3>4, <4>1, FoundSame
      <4>3. g[i] = Found(f, text, old, i)
        <5>1. CASE i = m
          BY <3>5, <5>1
        <5>2. CASE i # m
          BY <1>1, <3>1, <3>4, <3>5, <3>6, <5>2
        <5> QED
          BY <5>1, <5>2
      <4> QED
        BY <4>2, <4>3
    <3>7. Searches(g, text, old, m)
      BY <3>5, <3>6 DEF Searches
    <3> QED
      BY <3>7
  <2> QED
    BY <2>3, <2>4
<1>3. n \in 0..n /\ n + 1 - n = 1
  BY <1>1
<1> QED
  BY <1>2, <1>3

\* So Positions is the result of one.
LEMMA PositionsFound ==
  ASSUME NEW text \in Texts, NEW old \in Texts, old # <<>>
  PROVE  \E f : Searches(f, text, old, 1) /\ Positions(text, old) = f[1]
<1> PICK n, f : n = Len(text) + 1 /\ Searches(f, text, old, 1)
  BY SearchExists
<1> DEFINE IsSearch(g) == g = [i \in 1..Len(text) + 1 |-> Found(g, text, old, i)]
<1>1. n \in Nat
  BY TextFacts
<1>2. IsSearch(f)
  BY <1>1 DEF Searches
<1>3. PICK g : IsSearch(g) /\ Positions(text, old) = g[1]
  <2> PICK first : first = CHOOSE h : IsSearch(h)
    OBVIOUS
  <2>1. Positions(text, old) = first[1]
    BY DEF Positions, Found
  <2>2. IsSearch(first)
    BY <1>2
  <2> HIDE DEF IsSearch
  <2> QED
    BY <2>1, <2>2
<1>5. \A i \in 1..n : g[i] = Found(g, text, old, i) /\ f[i] = Found(f, text, old, i)
  BY <1>1, <1>2, <1>3
<1>6. f \in [1..n -> Seq(Nat)]
  BY DEF Searches
<1>7. ASSUME NEW m \in 1..n, SameBehind(g, f, n, m)  PROVE g[m] = f[m]
  <2>1. Found(g, text, old, m) = Found(f, text, old, m)
    BY <1>6, <1>7, FoundSame
  <2> QED
    BY <1>5, <2>1
<1> HIDE DEF IsSearch
<1> PICK Bad : Bad = {d \in 0..n - 1 : g[n - d] # f[n - d]}
  OBVIOUS
<1>8. Bad = {}
  <2> SUFFICES ASSUME Bad # {}  PROVE FALSE
    OBVIOUS
  <2>1. Bad \subseteq Nat
    BY <1>1
  <2>2. PICK d \in Bad : \A y \in Bad : d <= y
    BY <2>1, NatMinimum
  <2> PICK m : m = n - d
    OBVIOUS
  <2>3. m \in 1..n /\ d \in 0..n - 1
    BY <1>1
  <2>4. ASSUME NEW k \in 1..n, k > m  PROVE g[k] = f[k]
    <3>1. n - k \in 0..n - 1 /\ n - k < d /\ n - (n - k) = k
      BY <1>1, <2>3, <2>4
    <3>2. n - k \notin Bad
      BY <1>1, <2>2, <2>3, <3>1
    <3> QED
      BY <3>1, <3>2
  <2>5. SameBehind(g, f, n, m)
    BY <2>4 DEF SameBehind
  <2>6. g[m] = f[m]
    BY <1>7, <2>3, <2>5
  <2> QED
    BY <2>2, <2>6
<1>9. g[1] = f[1]
  <2>1. n - 1 \in 0..n - 1 /\ n - (n - 1) = 1
    BY <1>1
  <2> QED
    BY <1>8, <2>1
<1> QED
  BY <1>3, <1>9

\* One position: it is the first occurrence, and every other overlaps it.
LEMMA OnePosition ==
  ASSUME NEW text \in Texts, NEW old \in Texts, old # <<>>, Len(Positions(text, old)) = 1,
         NEW at, at = Positions(text, old)[1]
  PROVE  /\ at \in Occurrences(text, old)
         /\ \A k \in Occurrences(text, old) : at <= k /\ k < at + Len(old)
<1> PICK n, found : n = Len(text) + 1 /\ found = Occurrences(text, old)
  OBVIOUS
<1>1. PICK f : Searches(f, text, old, 1) /\ Positions(text, old) = f[1]
  BY PositionsFound
<1>2. n \in Nat \ {0} /\ Len(old) \in Nat \ {0} /\ found \subseteq 1..n
      /\ \A i \in found : i + Len(old) \in 1..n
  BY OccurrencesFacts, TextFacts
<1>3. f \in [1..n -> Seq(Nat)] /\ \A i \in 1..n : f[i] = Found(f, text, old, i)
  BY <1>1, <1>2 DEF Searches
<1>4. f[1] = IF found = {} THEN <<>> ELSE <<Min(found)>> \o f[Min(found) + Len(old)]
  <2>1. {j \in found : 1 <= j} = found
    BY <1>2
  <2>2. 1 \in 1..n
    BY <1>2
  <2> QED
    BY <1>3, <2>1, <2>2 DEF Found
<1>5. found # {}
  BY <1>1, <1>4
<1> PICK i, rest : i = Min(found) /\ rest = {j \in found : i + Len(old) <= j}
  OBVIOUS
<1>6. i \in found /\ \A y \in found : i <= y
  <2>1. found \subseteq Nat
    BY <1>2
  <2> QED
    BY <1>5, <2>1, MinFacts
<1>7. f[1] = <<i>> \o f[i + Len(old)] /\ f[i + Len(old)] \in Seq(Nat) /\ i \in Nat
      /\ f[i + Len(old)] = Found(f, text, old, i + Len(old))
  <2>1. f[1] = <<i>> \o f[i + Len(old)]
    BY <1>4, <1>5
  <2>2. i + Len(old) \in 1..n /\ i \in Nat
    BY <1>2, <1>6
  <2> QED
    BY <1>3, <2>1, <2>2
<1>8. at = i /\ f[i + Len(old)] = <<>>
  <2> PICK tail : tail = f[i + Len(old)]
    OBVIOUS
  <2>1. tail \in Seq(Nat) /\ <<i>> \in Seq(Nat) /\ Len(<<i>>) = 1 /\ <<i>>[1] = i
    BY <1>7
  <2>2. /\ Len(<<i>> \o tail) = 1 + Len(tail) /\ Len(tail) \in Nat
        /\ (<<i>> \o tail)[1] = i
    BY <2>1, ConcatProperties
  <2>3. Len(tail) = 0
    BY <1>1, <1>7, <2>2
  <2> QED
    BY <1>1, <1>7, <2>1, <2>2, <2>3
<1>9. rest = {}
  <2> SUFFICES ASSUME rest # {}  PROVE FALSE
    OBVIOUS
  <2>1. f[i + Len(old)] = <<Min(rest)>> \o f[Min(rest) + Len(old)]
    BY <1>7 DEF Found
  <2>2. Min(rest) \in rest
    <3>1. rest \subseteq Nat
      BY <1>2
    <3> QED
      BY <3>1, MinFacts
  <2>3. f[Min(rest) + Len(old)] \in Seq(Nat) /\ Min(rest) \in Nat
    BY <1>2, <1>3, <2>2
  <2>4. <<Min(rest)>> \in Seq(Nat) /\ Len(<<Min(rest)>>) = 1
    BY <2>3
  <2>5. Len(f[i + Len(old)]) = 1 + Len(f[Min(rest) + Len(old)])
    BY <2>1, <2>3, <2>4, ConcatProperties
  <2>6. Len(f[i + Len(old)]) = 0 /\ Len(f[Min(rest) + Len(old)]) \in Nat
    BY <1>8, <2>3
  <2> QED
    BY <2>5, <2>6
<1> QED
  BY <1>2, <1>6, <1>8, <1>9

-------------------------------------------------------------------------------
(* What a run may rely on.                                                 *)

\* The text of the file as a run reads it.
Current == IF file = NoFile THEN <<>> ELSE Decode(file)

\* text is seen with new in the place of the one occurrence of old, at at.
Edited(seen, old, new, text, at) ==
  IF seen = <<>> THEN text = new /\ at = 1
  ELSE /\ old # <<>>
       /\ at \in Occurrences(seen, old)
       /\ \A k \in Occurrences(seen, old) : at <= k /\ k < at + Len(old)
       /\ text = SubSeq(seen, 1, at - 1) \o new \o SubSeq(seen, at + Len(old), Len(seen))

\* Who looked at the file found one; it is not removed.
FileThere(r) == pc[r] \in {"match", "reading", "read"} => file # NoFile

\* An edit that is about to be written is one of the text that was read, which
\* still is the current one if nobody wrote meanwhile.
EditReady(r) ==
  pc[r] = "replace" =>
    /\ Len(job[r].text) <= MaxWriteSize
    /\ job[r].seen \in Seq(Characters \ {"cr"})
    /\ Edited(job[r].seen, job[r].old, job[r].new, job[r].text, job[r].at)
    /\ steady[r] => job[r].seen = Current

\* A reader has the lines before the next one.
PagesRead(r) ==
  /\ pc[r] = "ready" => page[r] = [next |-> 1, shown |-> <<>>]
  /\ pc[r] \in {"reading", "read"} /\ steady[r] =>
       /\ page[r].next <= Len(Lines(Decode(file))) + 1
       /\ page[r].shown = SubSeq(Lines(Decode(file)), 1, page[r].next - 1)
       /\ pc[r] = "read" => page[r].next = Len(Lines(Decode(file))) + 1

\* The inductive invariant: the types, and what each run may rely on.
ToolsInv == TypeOK /\ \A r \in Runs : FileThere(r) /\ EditReady(r) /\ PagesRead(r)

\* Names for the parts of TypeOK.
JobTyped(r) == job[r] # NoJob <=> pc[r] \in {"match", "replace"}
Pages == [next : Nat \ {0}, shown : Seq(Texts)]
Places == {"ready", "match", "replace", "reading", "read", "written", "refused"}

\* TypeOK, in parts.
LEMMA TypeParts ==
  TypeOK <=> /\ file \in Texts \cup {NoFile}
             /\ file \notin InitialTexts \cup {NoFile} => Len(file) <= MaxWriteSize
             /\ pc \in [Runs -> Places] /\ job \in [Runs -> Jobs \cup {NoJob}]
             /\ \A r \in Runs : JobTyped(r)
             /\ page \in [Runs -> Pages]
             /\ steady \in [Runs -> BOOLEAN]
BY DEF TypeOK, Places, JobTyped, Pages

\* What the assumption says of the constants, in parts.
LEMMA Passed ==
  /\ InitialTexts \subseteq Texts /\ OldContents \subseteq Texts
  /\ NewContents \subseteq Texts /\ Keywords \subseteq Texts
  /\ NoFile \notin Texts /\ NoJob \notin Jobs /\ <<>> \in Texts
BY FileToolsAssumption DEF Texts, Jobs

\* What is put together is an edit of what was read.
LEMMA ReplacedFacts ==
  ASSUME NEW seen \in Texts, NEW old \in Texts, NEW new \in Texts,
         NEW edit, edit = Replaced(seen, old, new), edit.ok
  PROVE  /\ edit.text \in Texts /\ edit.at \in Nat
         /\ Edited(seen, old, new, edit.text, edit.at)
<1>1. CASE seen = <<>>
  BY <1>1 DEF Replaced, Edited
<1>2. CASE seen # <<>>
  <2> PICK i : i = Positions(seen, old)[1]
    OBVIOUS
  <2> PICK put : put = SubSeq(seen, 1, i - 1) \o new \o SubSeq(seen, i + Len(old), Len(seen))
    OBVIOUS
  <2>1. old # <<>> /\ Len(Positions(seen, old)) = 1
    <3>1. ASSUME old = <<>> \/ Len(Positions(seen, old)) # 1  PROVE FALSE
      <4>1. edit = [ok |-> FALSE]
        BY <1>2, <3>1 DEF Replaced
      <4> QED
        BY <4>1
    <3> QED
      BY <3>1
  <2>2. i \in Occurrences(seen, old) /\ \A k \in Occurrences(seen, old) : i <= k /\ k < i + Len(old)
    BY <2>1, OnePosition
  <2>3. i \in 1..Len(seen) /\ Len(old) \in Nat \ {0} /\ Len(seen) \in Nat
    BY <2>1, <2>2, OccurrencesFacts, TextFacts
  <2>4. SubSeq(seen, 1, i - 1) \in Texts /\ SubSeq(seen, i + Len(old), Len(seen)) \in Texts
    <3>1. \A k \in 1..i - 1 : seen[k] \in Characters
      BY <2>3, TextFacts
    <3>2. \A k \in i + Len(old)..Len(seen) : seen[k] \in Characters
      BY <2>3, TextFacts
    <3>3. 1 \in Int /\ i - 1 \in Int /\ i + Len(old) \in Int /\ Len(seen) \in Int
      BY <2>3
    <3>4. SubSeq(seen, 1, i - 1) \in Seq(Characters)
      BY <3>1, <3>3, SubSeqProperties
    <3>5. SubSeq(seen, i + Len(old), Len(seen)) \in Seq(Characters)
      BY <3>2, <3>3, SubSeqProperties
    <3> QED
      BY <3>4, <3>5 DEF Texts
  <2>5. put \in Texts
    <3> PICK a, b : a = SubSeq(seen, 1, i - 1) /\ b = SubSeq(seen, i + Len(old), Len(seen))
      OBVIOUS
    <3>1. a \o new \in Seq(Characters) /\ b \in Seq(Characters)
      BY <2>4, ConcatProperties DEF Texts
    <3>2. (a \o new) \o b \in Seq(Characters)
      BY <3>1, ConcatProperties
    <3> QED
      BY <3>2 DEF Texts
  <2>6. edit.at = i /\ edit.text = put
    <3>1. edit = [ok |-> TRUE, at |-> i, text |-> put]
      BY <1>2, <2>1 DEF Replaced
    <3>2. /\ [ok |-> TRUE, at |-> i, text |-> put].at = i
          /\ [ok |-> TRUE, at |-> i, text |-> put].text = put
      OBVIOUS
    <3> QED
      BY <3>1, <3>2
  <2>7. Edited(seen, old, new, put, i)
    BY <1>2, <2>1, <2>2 DEF Edited
  <2> QED
    BY <2>3, <2>5, <2>6, <2>7
<1> QED
  BY <1>1, <1>2

\* The invariant holds at first.
LEMMA ToolsInit == Init => ToolsInv
<1> SUFFICES ASSUME Init  PROVE ToolsInv
  OBVIOUS
<1>1. TypeOK
  <2>1. file \in Texts \cup {NoFile} /\ file \in InitialTexts \cup {NoFile}
    BY Passed DEF Init
  <2>2. \A r \in Runs : JobTyped(r)
    BY DEF Init, JobTyped
  <2>3. [next |-> 1, shown |-> <<>>] \in Pages
    BY DEF Pages
  <2>4. job \in [Runs -> Jobs \cup {NoJob}]
        /\ page \in [Runs -> Pages] /\ pc \in [Runs -> Places] /\ steady \in [Runs -> BOOLEAN]
    BY <2>3 DEF Init, Places
  <2> QED
    BY <2>1, <2>2, <2>4, TypeParts
<1>2. \A r \in Runs : FileThere(r) /\ EditReady(r) /\ PagesRead(r)
  BY DEF Init, FileThere, EditReady, PagesRead
<1> QED
  BY <1>1, <1>2 DEF ToolsInv

\* A step of r that leaves the file alone concerns nobody else.
LEMMA OthersKeep ==
  ASSUME ToolsInv, NEW r \in Runs, file' = file,
         \A q \in Runs \ {r} : pc'[q] = pc[q] /\ job'[q] = job[q] /\ page'[q] = page[q]
                               /\ steady'[q] = steady[q],
         pc' \in [Runs -> Places], job' \in [Runs -> Jobs \cup {NoJob}],
         page' \in [Runs -> Pages], steady' \in [Runs -> BOOLEAN],
         JobTyped(r)', FileThere(r)', EditReady(r)', PagesRead(r)'
  PROVE  ToolsInv'
<1>1. ASSUME NEW q \in Runs \ {r}
      PROVE  JobTyped(q)' /\ FileThere(q)' /\ EditReady(q)' /\ PagesRead(q)'
  <2>1. JobTyped(q) /\ FileThere(q) /\ EditReady(q) /\ PagesRead(q)
    BY TypeParts DEF ToolsInv
  <2>2. JobTyped(q)' /\ FileThere(q)'
    BY <2>1 DEF JobTyped, FileThere
  <2>3. EditReady(q)'
    BY <2>1 DEF EditReady, Current
  <2>4. PagesRead(q)'
    BY <2>1 DEF PagesRead
  <2> QED
    BY <2>2, <2>3, <2>4
<1>2. \A q \in Runs : JobTyped(q)' /\ FileThere(q)' /\ EditReady(q)' /\ PagesRead(q)'
  BY <1>1
<1>3. TypeOK'
  <2>1. file' \in Texts \cup {NoFile} /\ (file' \notin InitialTexts \cup {NoFile} => Len(file') <= MaxWriteSize)
    BY TypeParts DEF ToolsInv
  <2> QED
    BY <1>2, <2>1 DEF TypeOK, Places, JobTyped, Pages
<1> QED
  BY <1>2, <1>3 DEF ToolsInv

-------------------------------------------------------------------------------
(* Every step.                                                             *)

\* A write_file that opens the file, or is refused before, keeps the invariant.
LEMMA BeginWriteKeeps ==
  ASSUME ToolsInv, NEW r \in Runs, BeginWrite(r)
  PROVE  ToolsInv'
<1>1. /\ file' = file /\ page' = page /\ pc[r] = "ready" /\ steady' = [steady EXCEPT ![r] = TRUE]
  BY DEF BeginWrite
<1>2. /\ pc \in [Runs -> Places] /\ page \in [Runs -> Pages] /\ steady \in [Runs -> BOOLEAN]
      /\ job \in [Runs -> Jobs \cup {NoJob}] /\ JobTyped(r) /\ file \in Texts \cup {NoFile}
  BY TypeParts DEF ToolsInv
<1>3. PICK old \in OldContents, new \in NewContents, confirm \in BOOLEAN :
        IF Len(new) > MaxWriteSize \/ (file = NoFile /\ ~confirm)
        THEN Goto(r, "refused") /\ UNCHANGED job
        ELSE /\ Goto(r, IF file = NoFile THEN "replace" ELSE "match")
             /\ job' = [job EXCEPT ![r] = [old |-> old, new |-> new, seen |-> <<>>,
                                          text |-> new, at |-> 1]]
  BY DEF BeginWrite
<1>4. CASE Len(new) > MaxWriteSize \/ (file = NoFile /\ ~confirm)
  <2>1. pc' = [pc EXCEPT ![r] = "refused"] /\ job' = job
    BY <1>3, <1>4 DEF Goto
  <2>2. pc' \in [Runs -> Places] /\ pc'[r] = "refused" /\ \A q \in Runs \ {r} : pc'[q] = pc[q]
    BY <1>2, <2>1 DEF Places
  <2>3. steady' \in [Runs -> BOOLEAN] /\ \A q \in Runs \ {r} : steady'[q] = steady[q]
    BY <1>1, <1>2
  <2>4. JobTyped(r)'
    BY <1>1, <1>2, <2>1, <2>2 DEF JobTyped
  <2>5. FileThere(r)' /\ EditReady(r)' /\ PagesRead(r)'
    BY <2>2 DEF FileThere, EditReady, PagesRead
  <2> QED
    BY <1>1, <1>2, <2>1, <2>2, <2>3, <2>4, <2>5, OthersKeep
<1>5. CASE ~(Len(new) > MaxWriteSize \/ (file = NoFile /\ ~confirm))
  <2> PICK there, call : /\ there = (IF file = NoFile THEN "replace" ELSE "match")
                         /\ call = [old |-> old, new |-> new, seen |-> <<>>, text |-> new, at |-> 1]
    OBVIOUS
  <2>1. pc' = [pc EXCEPT ![r] = there] /\ job' = [job EXCEPT ![r] = call]
    BY <1>3, <1>5 DEF Goto
  <2>2. new \in Texts /\ Len(new) <= MaxWriteSize /\ call \in Jobs
    <3>1. old \in OldContents /\ new \in NewContents /\ new \in Texts /\ <<>> \in Texts
      BY Passed
    <3>2. Len(new) \in Nat /\ MaxWriteSize \in Nat
      BY <3>1, TextFacts, FileToolsAssumption
    <3> QED
      BY <1>5, <3>1, <3>2 DEF Jobs
  <2>3. pc' \in [Runs -> Places] /\ pc'[r] = there /\ \A q \in Runs \ {r} : pc'[q] = pc[q]
    BY <1>2, <2>1 DEF Places
  <2>4. steady' \in [Runs -> BOOLEAN] /\ \A q \in Runs \ {r} : steady'[q] = steady[q]
    BY <1>1, <1>2
  <2>5. /\ job' \in [Runs -> Jobs \cup {NoJob}] /\ job'[r] = call
        /\ \A q \in Runs \ {r} : job'[q] = job[q]
    BY <1>2, <2>1, <2>2
  <2>6. JobTyped(r)'
    BY <2>2, <2>3, <2>5, Passed DEF JobTyped
  <2>7. FileThere(r)' /\ PagesRead(r)'
    BY <1>1, <2>3 DEF FileThere, PagesRead
  <2>8. EditReady(r)'
    <3>1. call.text = new /\ call.new = new /\ call.seen = <<>> /\ call.at = 1
      OBVIOUS
    <3>2. Edited(call.seen, call.old, call.new, call.text, call.at)
      BY <3>1 DEF Edited
    <3>3. <<>> \in Seq(Characters \ {"cr"})
      OBVIOUS
    <3>4. there = "replace" => Current' = <<>>
      BY <1>1 DEF Current
    <3> QED
      BY <2>2, <2>3, <2>5, <3>1, <3>2, <3>3, <3>4 DEF EditReady
  <2> QED
    BY <1>1, <1>2, <2>3, <2>4, <2>5, <2>6, <2>7, <2>8, OthersKeep
<1> QED
  BY <1>4, <1>5

\* Finding old_content in what was read gives an edit of it, or a refusal.
LEMMA MatchKeeps ==
  ASSUME ToolsInv, NEW r \in Runs, Match(r)
  PROVE  ToolsInv'
<1>1. /\ file' = file /\ page' = page /\ pc[r] = "match" /\ steady' = [steady EXCEPT ![r] = TRUE]
  BY DEF Match
<1>2. /\ pc \in [Runs -> Places] /\ page \in [Runs -> Pages] /\ steady \in [Runs -> BOOLEAN]
      /\ job \in [Runs -> Jobs \cup {NoJob}] /\ JobTyped(r) /\ file \in Texts \cup {NoFile}
      /\ FileThere(r)
  BY TypeParts DEF ToolsInv
<1>3. job[r] \in Jobs /\ file \in Texts /\ file # NoFile
  BY <1>1, <1>2 DEF JobTyped, FileThere
<1> PICK seen, edit, old, new : /\ seen = Decode(file) /\ old = job[r].old /\ new = job[r].new
                                /\ edit = Replaced(seen, old, new)
  OBVIOUS
<1>4. seen \in Texts /\ seen \in Seq(Characters \ {"cr"}) /\ old \in Texts /\ new \in Texts
      /\ old \in OldContents /\ new \in NewContents
  <2>1. old \in OldContents /\ new \in NewContents
    BY <1>3 DEF Jobs
  <2> QED
    BY <1>3, <2>1, DecodeFacts, Passed
<1>5. steady' \in [Runs -> BOOLEAN] /\ \A q \in Runs \ {r} : steady'[q] = steady[q]
  BY <1>1, <1>2
<1>6. CASE edit.ok /\ Len(edit.text) <= MaxWriteSize
  <2> PICK call : call = [old |-> old, new |-> new, seen |-> seen, text |-> edit.text, at |-> edit.at]
    OBVIOUS
  <2>1. pc' = [pc EXCEPT ![r] = "replace"]
        /\ job' = [job EXCEPT ![r].seen = seen, ![r].text = edit.text, ![r].at = edit.at]
    BY <1>6 DEF Match, Goto
  <2>2. edit.text \in Texts /\ edit.at \in Nat /\ Edited(seen, old, new, edit.text, edit.at)
    BY <1>4, <1>6, ReplacedFacts
  <2>3. call \in Jobs
    BY <1>4, <2>2 DEF Jobs
  <2>4. job'[r] = call /\ \A q \in Runs \ {r} : job'[q] = job[q]
    BY <1>2, <1>3, <2>1 DEF Jobs
  <2>5. job' \in [Runs -> Jobs \cup {NoJob}]
    <3>1. job' \in [Runs -> {job'[q] : q \in Runs}]
      BY <1>2, <2>1
    <3> QED
      BY <1>2, <2>3, <2>4, <3>1
  <2>6. pc' \in [Runs -> Places] /\ pc'[r] = "replace" /\ \A q \in Runs \ {r} : pc'[q] = pc[q]
    BY <1>2, <2>1 DEF Places
  <2>7. JobTyped(r)' /\ FileThere(r)' /\ PagesRead(r)'
    BY <2>3, <2>4, <2>6, Passed DEF JobTyped, FileThere, PagesRead
  <2>8. EditReady(r)'
    <3>1. /\ call.text = edit.text /\ call.new = new /\ call.seen = seen /\ call.at = edit.at
          /\ call.old = old
      OBVIOUS
    <3>2. Current' = seen
      BY <1>1, <1>3 DEF Current
    <3>3. Edited(call.seen, call.old, call.new, call.text, call.at)
      BY <2>2, <3>1
    <3> QED
      BY <1>4, <1>6, <2>4, <3>1, <3>2, <3>3 DEF EditReady
  <2> QED
    BY <1>1, <1>2, <1>5, <2>4, <2>5, <2>6, <2>7, <2>8, OthersKeep
<1>7. CASE ~(edit.ok /\ Len(edit.text) <= MaxWriteSize)
  <2>1. pc' = [pc EXCEPT ![r] = "refused"] /\ job' = [job EXCEPT ![r] = NoJob]
    BY <1>7 DEF Match, Goto
  <2>2. pc' \in [Runs -> Places] /\ pc'[r] = "refused" /\ \A q \in Runs \ {r} : pc'[q] = pc[q]
    BY <1>2, <2>1 DEF Places
  <2>3. /\ job' \in [Runs -> Jobs \cup {NoJob}] /\ job'[r] = NoJob
        /\ \A q \in Runs \ {r} : job'[q] = job[q]
    BY <1>2, <2>1
  <2>4. JobTyped(r)' /\ FileThere(r)' /\ EditReady(r)' /\ PagesRead(r)'
    BY <2>2, <2>3 DEF JobTyped, FileThere, EditReady, PagesRead
  <2> QED
    BY <1>1, <1>2, <1>5, <2>2, <2>3, <2>4, OthersKeep
<1> QED
  BY <1>6, <1>7

\* A replacement that fails leaves the file as it was.
LEMMA ReplaceFailsKeeps ==
  ASSUME ToolsInv, NEW r \in Runs, ReplaceFails(r)
  PROVE  ToolsInv'
<1>1. /\ file' = file /\ page' = page /\ steady' = steady
      /\ pc' = [pc EXCEPT ![r] = "refused"] /\ job' = [job EXCEPT ![r] = NoJob]
  BY DEF ReplaceFails, Goto
<1>2. /\ pc \in [Runs -> Places] /\ page \in [Runs -> Pages] /\ steady \in [Runs -> BOOLEAN]
      /\ job \in [Runs -> Jobs \cup {NoJob}]
  BY TypeParts DEF ToolsInv
<1>3. pc' \in [Runs -> Places] /\ pc'[r] = "refused" /\ \A q \in Runs \ {r} : pc'[q] = pc[q]
  BY <1>1, <1>2 DEF Places
<1>4. /\ job' \in [Runs -> Jobs \cup {NoJob}] /\ job'[r] = NoJob
      /\ \A q \in Runs \ {r} : job'[q] = job[q]
  BY <1>1, <1>2
<1>5. JobTyped(r)' /\ FileThere(r)' /\ EditReady(r)' /\ PagesRead(r)'
  BY <1>3, <1>4 DEF JobTyped, FileThere, EditReady, PagesRead
<1> QED
  BY <1>1, <1>2, <1>3, <1>4, <1>5, OthersKeep

\* A replacement changes the file: the other runs are no longer steady, if it differs.
LEMMA ReplaceKeeps ==
  ASSUME ToolsInv, NEW r \in Runs, Replace(r)
  PROVE  ToolsInv'
<1>1. /\ file' = job[r].text /\ page' = page /\ pc[r] = "replace"
      /\ steady' = [q \in Runs |-> steady[q] /\ (q = r \/ file' = file)]
      /\ pc' = [pc EXCEPT ![r] = "written"] /\ job' = [job EXCEPT ![r] = NoJob]
  BY DEF Replace, Goto
<1>2. /\ pc \in [Runs -> Places] /\ page \in [Runs -> Pages] /\ steady \in [Runs -> BOOLEAN]
      /\ job \in [Runs -> Jobs \cup {NoJob}] /\ \A q \in Runs : JobTyped(q)
  BY TypeParts DEF ToolsInv
<1>3. job[r] \in Jobs /\ file' \in Texts /\ file' # NoFile /\ Len(file') <= MaxWriteSize
  <2>1. job[r] \in Jobs
    BY <1>1, <1>2 DEF JobTyped
  <2>2. file' \in Texts
    BY <1>1, <2>1 DEF Jobs
  <2>3. Len(job[r].text) <= MaxWriteSize
    BY <1>1 DEF ToolsInv, EditReady
  <2> QED
    BY <1>1, <2>1, <2>2, <2>3, Passed
<1>4. pc' \in [Runs -> Places] /\ pc'[r] = "written" /\ \A q \in Runs \ {r} : pc'[q] = pc[q]
  BY <1>1, <1>2 DEF Places
<1>5. /\ job' \in [Runs -> Jobs \cup {NoJob}] /\ job'[r] = NoJob
      /\ \A q \in Runs \ {r} : job'[q] = job[q]
  BY <1>1, <1>2
<1>6. steady' \in [Runs -> BOOLEAN] /\ \A q \in Runs \ {r} : steady'[q] => steady[q] /\ file' = file
  BY <1>1, <1>2
<1>7. \A q \in Runs : JobTyped(q)'
  BY <1>2, <1>4, <1>5 DEF JobTyped
<1>8. TypeOK'
  BY <1>1, <1>2, <1>3, <1>4, <1>5, <1>6, <1>7 DEF TypeOK, Places, JobTyped, Pages
<1>9. ASSUME NEW q \in Runs  PROVE FileThere(q)' /\ EditReady(q)' /\ PagesRead(q)'
  <2>1. CASE q = r
    BY <1>4, <2>1 DEF FileThere, EditReady, PagesRead
  <2>2. CASE q # r
    <3>1. FileThere(q) /\ EditReady(q) /\ PagesRead(q) /\ pc'[q] = pc[q] /\ job'[q] = job[q]
          /\ (steady'[q] => steady[q] /\ file' = file)
      BY <1>4, <1>5, <1>6, <2>2 DEF ToolsInv
    <3>2. FileThere(q)'
      BY <1>3, <3>1 DEF FileThere
    <3>3. EditReady(q)'
      BY <3>1 DEF EditReady, Current
    <3>4. PagesRead(q)'
      BY <1>1, <3>1 DEF PagesRead
    <3> QED
      BY <3>2, <3>3, <3>4
  <2> QED
    BY <2>1, <2>2
<1> QED
  BY <1>8, <1>9 DEF ToolsInv

\* What one call of read_file shows: the lines from next to last, the largest
\* number allowed; it says truncated when there are more.
LEMMA PageAnswer ==
  ASSUME NEW n \in Nat, NEW next \in Nat \ {0}, NEW lines, DOMAIN lines = 1..n,
         NEW answer, answer = LimitNumberedLines(SelectLineRange(lines, next, n))
  PROVE  \E last :
           /\ last \in Int /\ last >= next - 1 /\ (last <= n \/ last = next - 1)
           /\ answer.shown = next..last
           /\ next <= n + 1 => last <= n /\ (~answer.truncated => last = n)
<1> PICK numbers, last : /\ numbers = next..n
                         /\ last = IF n >= next + MaxReadFileLines THEN next + MaxReadFileLines - 1
                                   ELSE IF next <= n THEN n ELSE next - 1
  OBVIOUS
<1>1. MaxReadFileLines \in Nat \ {0}
  BY FileToolsAssumption
<1>2. SelectLineRange(lines, next, n) = numbers
  BY DEF SelectLineRange
<1>3. ASSUME NEW i \in numbers
      PROVE  Cardinality({j \in numbers : j <= i}) = i - next + 1
  <2>1. {j \in numbers : j <= i} = next..i
    OBVIOUS
  <2>2. i \in Int /\ next <= i
    OBVIOUS
  <2>3. Cardinality(next..i) = i - next + 1
    BY <2>2, FS_Interval
  <2> QED
    BY <2>1, <2>3
<1>4. Cardinality(numbers) = IF next > n THEN 0 ELSE n - next + 1
  BY FS_Interval
<1>5. /\ answer.shown = {i \in numbers : Cardinality({j \in numbers : j <= i}) <= MaxReadFileLines}
      /\ answer.truncated <=> (Cardinality(numbers) > MaxReadFileLines)
  BY <1>2 DEF LimitNumberedLines
<1>6. last \in Int /\ last >= next - 1 /\ (last <= n \/ last = next - 1)
  BY <1>1
<1>7. answer.shown = next..last
  <2>1. answer.shown = {i \in numbers : i - next + 1 <= MaxReadFileLines}
    BY <1>3, <1>5
  <2>2. {i \in numbers : i - next + 1 <= MaxReadFileLines} = next..last
    BY <1>1
  <2> QED
    BY <2>1, <2>2
<1>8. next <= n + 1 => last <= n /\ (~answer.truncated => last = n)
  BY <1>1, <1>4, <1>5
<1> QED
  BY <1>6, <1>7, <1>8

\* A page read by a steady reader continues the lines it holds.
LEMMA ReadPageKeeps ==
  ASSUME ToolsInv, NEW r \in Runs, ReadPage(r)
  PROVE  ToolsInv'
<1>1. /\ file' = file /\ job' = job /\ pc[r] \in {"ready", "reading"} /\ file # NoFile
      /\ steady' = [steady EXCEPT ![r] = @ \/ pc[r] = "ready"]
  BY DEF ReadPage
<1>2. /\ pc \in [Runs -> Places] /\ page \in [Runs -> Pages] /\ steady \in [Runs -> BOOLEAN]
      /\ job \in [Runs -> Jobs \cup {NoJob}] /\ JobTyped(r) /\ file \in Texts /\ PagesRead(r)
  BY <1>1, TypeParts DEF ToolsInv
<1> PICK lines, next, shown : lines = Lines(Decode(file)) /\ next = page[r].next /\ shown = page[r].shown
  OBVIOUS
<1>3. lines \in Seq(Texts) /\ Len(lines) \in Nat /\ DOMAIN lines = 1..Len(lines)
  <2>1. Decode(file) \in Texts
    BY <1>2, DecodeFacts
  <2> QED
    BY <2>1, LinesType
<1>4. next \in Nat \ {0} /\ shown \in Seq(Texts) /\ page[r] = [next |-> next, shown |-> shown]
  BY <1>2 DEF Pages
<1> PICK answer : answer = LimitNumberedLines(SelectLineRange(lines, next, Len(lines)))
  OBVIOUS
<1>5. PICK last : /\ last \in Int /\ last >= next - 1 /\ (last <= Len(lines) \/ last = next - 1)
                  /\ answer.shown = next..last
                  /\ next <= Len(lines) + 1 =>
                       last <= Len(lines) /\ (~answer.truncated => last = Len(lines))
  BY <1>3, <1>4, PageAnswer
<1> PICK numbers, more, there :
      /\ numbers = Ascending(answer.shown) /\ more = [k \in DOMAIN numbers |-> lines[numbers[k]]]
      /\ there = (IF answer.truncated THEN "reading" ELSE "read")
  OBVIOUS
<1>6. /\ page' = [page EXCEPT ![r] = [next |-> @.next + Len(numbers), shown |-> @.shown \o more]]
      /\ pc' = [pc EXCEPT ![r] = there]
  BY DEF ReadPage, Goto
<1>7. numbers = [k \in 1..(last - next + 1) |-> next + k - 1] /\ Len(numbers) = last - next + 1
  <2>1. next \in Int /\ last \in Int /\ next <= last + 1
    BY <1>4, <1>5
  <2>2. numbers = Ascending(next..last)
    BY <1>5
  <2> QED
    BY <2>1, <2>2, AscendingInterval
<1>8. more = [k \in 1..(last - next + 1) |-> lines[next + k - 1]]
  BY <1>7
<1>9. page' = [page EXCEPT ![r] = [next |-> last + 1, shown |-> shown \o more]]
  <2>1. next + Len(numbers) = last + 1
    BY <1>4, <1>5, <1>7
  <2>2. page[r].next = next /\ page[r].shown = shown
    OBVIOUS
  <2>3. page' = [page EXCEPT ![r] = [next |-> page[r].next + Len(numbers),
                                    shown |-> page[r].shown \o more]]
    BY <1>6
  <2> QED
    BY <2>1, <2>2, <2>3
<1>10. pc' \in [Runs -> Places] /\ pc'[r] = there /\ \A q \in Runs \ {r} : pc'[q] = pc[q]
  BY <1>2, <1>6 DEF Places
<1>11. steady' \in [Runs -> BOOLEAN] /\ \A q \in Runs \ {r} : steady'[q] = steady[q]
  BY <1>1, <1>2
<1>12. steady'[r] => steady[r] \/ pc[r] = "ready"
  BY <1>1, <1>2
<1>13. more \in Seq(Texts) /\ Len(more) = last - next + 1
  <2>1. last - next + 1 \in Nat
    BY <1>4, <1>5
  <2>2. ASSUME NEW k \in 1..(last - next + 1)  PROVE lines[next + k - 1] \in Texts
    <3>1. next + k - 1 \in 1..Len(lines)
      <4> PICK i, size : i = next + k - 1 /\ size = Len(lines)
        OBVIOUS
      <4>1. next \in Nat \ {0} /\ last \in Int /\ (last <= size \/ last = next - 1) /\ size \in Nat
        BY <1>3, <1>4, <1>5
      <4>2. k \in Nat \ {0} /\ k <= last - next + 1
        BY <2>1
      <4>3. last # next - 1
        BY <4>1, <4>2
      <4>4. i = next + k - 1
        OBVIOUS
      <4>5. i \in 1..size
        BY ONLY <4>1, <4>2, <4>3, <4>4
      <4> QED
        BY <4>5
    <3> QED
      BY <1>3, <3>1
  <2> QED
    BY <1>8, <2>1, <2>2
<1>14. shown \o more \in Seq(Texts) /\ last + 1 \in Nat \ {0}
  <2>1. shown \o more \in Seq(Texts)
    BY <1>4, <1>13, ConcatProperties
  <2> QED
    BY <1>4, <1>5, <2>1
<1>15. /\ page' \in [Runs -> Pages] /\ page'[r] = [next |-> last + 1, shown |-> shown \o more]
       /\ \A q \in Runs \ {r} : page'[q] = page[q]
  <2>1. [next |-> last + 1, shown |-> shown \o more] \in Pages
    BY <1>14 DEF Pages
  <2> QED
    BY <1>2, <1>9, <2>1
<1>16. JobTyped(r)' /\ FileThere(r)' /\ EditReady(r)'
  BY <1>1, <1>2, <1>10 DEF JobTyped, FileThere, EditReady
<1>17. ASSUME steady'[r]
       PROVE  /\ last + 1 <= Len(lines) + 1
              /\ shown \o more = SubSeq(lines, 1, last)
              /\ there = "read" => last = Len(lines)
  <2>1. next <= Len(lines) + 1 /\ shown = SubSeq(lines, 1, next - 1)
    <3>1. CASE pc[r] = "ready"
      <4>1. page[r] = [next |-> 1, shown |-> <<>>]
        BY <1>2, <3>1 DEF PagesRead
      <4>2. next = 1 /\ shown = <<>>
        BY <4>1
      <4>3. SubSeq(lines, 1, 0) = <<>>
        BY SubSeqEmpty
      <4> QED
        BY <1>3, <4>2, <4>3
    <3>2. CASE pc[r] = "reading"
      <4>1. steady[r]
        BY <1>12, <1>17, <3>2
      <4> QED
        BY <1>2, <3>2, <4>1 DEF PagesRead
    <3> QED
      BY <1>1, <3>1, <3>2
  <2>2. last <= Len(lines) /\ (~answer.truncated => last = Len(lines))
    BY <1>5, <2>1
  <2>3. more = SubSeq(lines, next, last)
    <3>1. \A i \in next..last : lines[i] \in Texts
      <4>1. next \in Nat \ {0} /\ last \in Int
        BY <1>4, <1>5
      <4>2. \A i \in next..last : i \in 1..Len(lines)
        BY <1>3, <2>2, <4>1
      <4> QED
        BY <1>3, <4>2
    <3>2. SubSeq(lines, next, last) \in Seq(Texts)
          /\ Len(SubSeq(lines, next, last)) = last - next + 1
          /\ \A k \in 1..(last - next + 1) : SubSeq(lines, next, last)[k] = lines[next + k - 1]
      <4>1. next \in Int /\ last \in Int /\ (next <= last \/ last - next + 1 = 0)
        BY <1>4, <1>5
      <4>2. /\ SubSeq(lines, next, last) \in Seq(Texts)
            /\ Len(SubSeq(lines, next, last)) = IF next <= last THEN last - next + 1 ELSE 0
            /\ \A k \in 1..last - next + 1 :
                 SubSeq(lines, next, last)[k] = lines[next + k - 1]
        BY ONLY <3>1, <4>1, SubSeqProperties
      <4>3. (IF next <= last THEN last - next + 1 ELSE 0) = last - next + 1
        BY ONLY <4>1
      <4> QED
        BY ONLY <4>2, <4>3
    <3> QED
      <4> PICK part : part = SubSeq(lines, next, last)
        OBVIOUS
      <4>1. Len(more) = Len(part) /\ part \in Seq(Texts) /\ more \in Seq(Texts)
        BY <1>13, <3>2
      <4>2. \A k \in 1..Len(more) : more[k] = part[k]
        <5> PICK m : m = last - next + 1
          OBVIOUS
        <5>1. \A k \in 1..m : more[k] = lines[next + k - 1]
          BY <1>8
        <5>2. Len(more) = m /\ \A k \in 1..m : part[k] = lines[next + k - 1]
          BY <1>13, <3>2
        <5> QED
          BY ONLY <5>1, <5>2
      <4>3. more = part
        BY ONLY <4>1, <4>2, SeqEqual
      <4> QED
        BY <4>3
  <2>4. SubSeq(lines, 1, next - 1) \o SubSeq(lines, next, last) = SubSeq(lines, 1, last)
    <3> PICK k : k = next - 1
      OBVIOUS
    <3>1. 1 \in 1..Len(lines) + 1 /\ k \in 1 - 1..Len(lines) /\ last \in k..Len(lines) /\ next = k + 1
      <4> PICK size : size = Len(lines)
        OBVIOUS
      <4>1. /\ size \in Nat /\ next \in Nat \ {0} /\ last \in Int /\ k = next - 1
            /\ last >= next - 1 /\ last <= size
        BY <1>3, <1>4, <1>5, <2>2
      <4>2. 1 \in 1..size + 1 /\ k \in 1 - 1..size /\ last \in k..size /\ next = k + 1
        BY ONLY <4>1
      <4> QED
        BY <4>2
    <3>2. SubSeq(lines, 1, k) \o SubSeq(lines, k + 1, last) = SubSeq(lines, 1, last)
      BY <1>3, <3>1, ConcatAdjacentSubSeq
    <3> QED
      BY <3>1, <3>2
  <2> QED
    <3>1. there = "read" => ~answer.truncated
      OBVIOUS
    <3>2. last + 1 <= Len(lines) + 1
      <4>1. last \in Int /\ last <= Len(lines) /\ Len(lines) \in Int
        <5>1. last \in Int
          BY <1>5
        <5>2. Len(lines) \in Int
          BY <1>3
        <5> QED
          BY <2>2, <5>1, <5>2
      <4> QED
        BY ONLY <4>1
    <3>3. shown \o more = SubSeq(lines, 1, last)
      BY <2>1, <2>3, <2>4
    <3> QED
      BY <2>2, <3>1, <3>2, <3>3
<1>18. PagesRead(r)'
  <2>1. there # "ready" /\ pc'[r] = there
    BY <1>10
  <2>2. page'[r].next = last + 1 /\ page'[r].shown = shown \o more /\ page'[r].next - 1 = last
    <3>1. last \in Int
      BY <1>5
    <3>2. page'[r].next = last + 1 /\ page'[r].shown = shown \o more
      <4> PICK now : now = [next |-> last + 1, shown |-> shown \o more]
        OBVIOUS
      <4>1. now.next = last + 1 /\ now.shown = shown \o more
        OBVIOUS
      <4>2. page'[r] = now
        BY <1>15
      <4> QED
        BY <4>1, <4>2
    <3>3. \A x : x = last + 1 => x - 1 = last
      BY ONLY <3>1
    <3> QED
      BY ONLY <3>2, <3>3
  <2>3. Lines(Decode(file')) = lines
    BY <1>1
  <2>4. SubSeq(lines, 1, page'[r].next - 1) = SubSeq(lines, 1, last)
    BY <2>2
  <2> QED
    BY <1>17, <2>1, <2>2, <2>3, <2>4 DEF PagesRead
<1> QED
  BY <1>1, <1>2, <1>10, <1>11, <1>15, <1>16, <1>18, OthersKeep

\* Every step keeps the invariant.
LEMMA StepKeeps == ToolsInv /\ [Next]_vars => ToolsInv'
<1> SUFFICES ASSUME ToolsInv, [Next]_vars  PROVE ToolsInv'
  OBVIOUS
<1>1. CASE Next
  <2>1. PICK r \in Runs : BeginWrite(r) \/ Match(r) \/ Replace(r) \/ ReplaceFails(r) \/ ReadPage(r)
    BY <1>1 DEF Next
  <2> QED
    BY <2>1, BeginWriteKeeps, MatchKeeps, ReplaceKeeps, ReplaceFailsKeeps, ReadPageKeeps
<1>2. CASE UNCHANGED vars
  <2>1. file' = file /\ pc' = pc /\ job' = job /\ page' = page /\ steady' = steady
    BY <1>2 DEF vars
  <2>2. TypeOK'
    BY <2>1 DEF ToolsInv, TypeOK
  <2>3. ASSUME NEW r \in Runs  PROVE FileThere(r)' /\ EditReady(r)' /\ PagesRead(r)'
    BY <2>1 DEF ToolsInv, FileThere, EditReady, PagesRead, Current
  <2> QED
    BY <2>2, <2>3 DEF ToolsInv
<1> QED
  BY <1>1, <1>2

-------------------------------------------------------------------------------
(* What follows.                                                           *)

\* In every state the invariant holds.
LEMMA ToolsInvHolds == Spec => []ToolsInv
BY ToolsInit, StepKeeps, PTL DEF Spec

\* The variables have their types, and no write, whatever the edit, makes the
\* file larger than write_file may make it.
THEOREM Types == Spec => []TypeOK
<1>1. ToolsInv => TypeOK
  BY DEF ToolsInv
<1> QED
  BY <1>1, ToolsInvHolds, PTL

\* An agent that goes through a file page by page, as the end_line and the
\* truncated of read_file say, has seen each of its lines once and in order - if
\* nobody wrote meanwhile.
THEOREM PagesAreComplete == Spec => []PagesCover
<1>1. ToolsInv => PagesCover
  <2> SUFFICES ASSUME ToolsInv, NEW r \in Runs, pc[r] = "read", steady[r]
               PROVE  page[r].shown = Lines(Decode(file))
    BY DEF PagesCover
  <2> PICK lines : lines = Lines(Decode(file))
    OBVIOUS
  <2>1. lines \in Seq(Texts) /\ Len(lines) \in Nat
    <3>1. file \in Texts
      BY TypeParts DEF ToolsInv, FileThere
    <3> QED
      BY <3>1, DecodeFacts, LinesType
  <2>2. page[r].shown = SubSeq(lines, 1, page[r].next - 1) /\ page[r].next = Len(lines) + 1
    BY DEF ToolsInv, PagesRead
  <2>3. page[r].shown = SubSeq(lines, 1, Len(lines))
    <3>1. page[r].next - 1 = Len(lines)
      BY <2>1, <2>2
    <3> QED
      BY <2>2, <3>1
  <2> QED
    BY <2>1, <2>3, SubSeqFull
<1> QED
  BY <1>1, ToolsInvHolds, PTL

\* It is its own step with which a call of write_file succeeds.
LEMMA WrittenByReplace ==
  ASSUME ToolsInv, [Next]_vars, NEW r \in Runs, pc[r] = "replace", pc'[r] = "written"
  PROVE  /\ file' = job[r].text /\ job[r] \in Jobs /\ EditReady(r)
         /\ file \in Texts \cup {NoFile} /\ steady[r] \in BOOLEAN
<1>1. pc' # pc
  OBVIOUS
<1>2. Next
  BY <1>1 DEF vars
<1>3. PICK q \in Runs : BeginWrite(q) \/ Match(q) \/ Replace(q) \/ ReplaceFails(q) \/ ReadPage(q)
  BY <1>2 DEF Next
<1>4. /\ pc \in [Runs -> Places] /\ job \in [Runs -> Jobs \cup {NoJob}] /\ JobTyped(r)
      /\ file \in Texts \cup {NoFile} /\ steady \in [Runs -> BOOLEAN]
  BY TypeParts DEF ToolsInv
<1>5. Replace(r)
  <2>1. \E there \in Places : pc' = [pc EXCEPT ![q] = there]
    BY <1>3 DEF BeginWrite, Match, Replace, ReplaceFails, ReadPage, Goto, Places
  <2>2. q = r
    BY <1>4, <2>1
  <2>3. ~BeginWrite(r) /\ ~ReadPage(r)
    BY DEF BeginWrite, ReadPage
  <2>4. ~Match(r)
    BY DEF Match
  <2>5. ~ReplaceFails(r)
    BY <1>4 DEF ReplaceFails, Goto
  <2> QED
    BY <1>3, <2>2, <2>3, <2>4, <2>5
<1>6. job[r] \in Jobs
  BY <1>4 DEF JobTyped
<1> QED
  BY <1>4, <1>5, <1>6 DEF Replace, ToolsInv

\* A write_file that succeeds has edited the file as it was when it was replaced,
\* at the one place where old_content was - unless another run replaced the file
\* between the read and the write, which nothing prevents.
THEOREM EditsAreCurrent == Spec => EditsCurrentFile
<1>1. ToolsInv /\ [Next]_vars =>
        \A r \in Runs : pc[r] = "replace" /\ pc'[r] = "written" /\ steady[r] =>
          LET old == job[r].old
              new == job[r].new
              text == IF file = NoFile THEN <<>> ELSE Decode(file)
              found == Occurrences(text, old)
          IN  IF text = <<>> THEN file' = new
              ELSE \E i \in found :
                     /\ \A k \in found : i <= k /\ k < i + Len(old)
                     /\ file' = SubSeq(text, 1, i - 1) \o new
                                 \o SubSeq(text, i + Len(old), Len(text))
  <2> SUFFICES ASSUME ToolsInv, [Next]_vars, NEW r \in Runs,
                      pc[r] = "replace", pc'[r] = "written", steady[r],
                      NEW old, old = job[r].old, NEW new, new = job[r].new,
                      NEW seen, seen = Current, NEW at, at = job[r].at
               PROVE  IF seen = <<>> THEN file' = new
                      ELSE /\ at \in Occurrences(seen, old)
                           /\ \A k \in Occurrences(seen, old) : at <= k /\ k < at + Len(old)
                           /\ file' = SubSeq(seen, 1, at - 1) \o new
                                       \o SubSeq(seen, at + Len(old), Len(seen))
    BY ZenonT(60) DEF Current
  <2>1. file' = job[r].text /\ EditReady(r)
    BY WrittenByReplace
  <2>2. Edited(seen, old, new, file', at)
    BY <2>1 DEF EditReady
  <2> QED
    BY <2>2 DEF Edited
<1> QED
  BY <1>1, ToolsInvHolds, PTL DEF Spec, EditsCurrentFile

\* Few numbers are all shown.
LEMMA FewAreShown ==
  ASSUME NEW S, NEW a \in Int, NEW b \in Int, S \subseteq a..b, b - a + 1 <= MaxReadFileLines,
         NEW answer, answer = LimitNumberedLines(S)
  PROVE  ~answer.truncated /\ answer.shown = S
<1>1. MaxReadFileLines \in Nat \ {0} /\ IsFiniteSet(a..b)
      /\ Cardinality(a..b) = IF a > b THEN 0 ELSE b - a + 1
  BY FS_Interval, FileToolsAssumption
<1>2. Cardinality(a..b) <= MaxReadFileLines /\ Cardinality(a..b) \in Nat
  BY <1>1
<1>3. ASSUME NEW part, part \subseteq S  PROVE Cardinality(part) <= MaxReadFileLines
  <2>1. part \in SUBSET (a..b)
    BY <1>3
  <2>2. IsFiniteSet(part) /\ Cardinality(part) <= Cardinality(a..b)
    BY <1>1, <2>1, FS_Subset
  <2>3. Cardinality(part) \in Nat
    BY <2>2, FS_CardinalityType
  <2> QED
    BY <1>1, <1>2, <2>2, <2>3
<1>4. Cardinality(S) <= MaxReadFileLines /\ Cardinality(S) \in Nat
  <2>1. S \in SUBSET (a..b)
    OBVIOUS
  <2>2. IsFiniteSet(S)
    BY <1>1, <2>1, FS_Subset
  <2> QED
    BY <1>3, <2>2, FS_CardinalityType
<1>5. ASSUME NEW i \in S  PROVE Cardinality({j \in S : j <= i}) <= MaxReadFileLines
  BY <1>3
<1>6. /\ answer.shown = {i \in S : Cardinality({j \in S : j <= i}) <= MaxReadFileLines}
      /\ answer.truncated <=> Cardinality(S) > MaxReadFileLines
  BY DEF LimitNumberedLines
<1>7. ~answer.truncated
  BY <1>1, <1>4, <1>6
<1>8. {i \in S : Cardinality({j \in S : j <= i}) <= MaxReadFileLines} = S
  BY <1>5
<1> QED
  BY <1>6, <1>7, <1>8

\* The lines from start to end that hold the keyword.
Holding(lines, keyword, start, end) == {i \in start..end : Occurrences(lines[i], keyword) # {}}

\* What an answer tells of the matches.
Told(answer, matches, start, end) ==
  /\ answer.count = Cardinality(matches)
  /\ \A m \in matches : answer.count = 1 =>
       /\ ~answer.truncated
       /\ {i \in start..end : m - ContextLines <= i /\ i <= m + ContextLines} \subseteq answer.shown
  /\ \A i \in answer.listed : i \in matches /\ \A j \in matches : j < i => j \in answer.listed
  /\ matches \subseteq answer.listed \/ answer.truncated

\* A keyword search in any lines.
LEMMA KeywordAnswer ==
  ASSUME NEW n \in Nat, NEW lines, DOMAIN lines = 1..n, NEW keyword,
         NEW start \in 1..n, NEW end \in 1..n
  PROVE  Told(ReadKeyword(lines, keyword, start, end), Holding(lines, keyword, start, end),
              start, end)
<1> PICK answer, matches : /\ answer = ReadKeyword(lines, keyword, start, end)
                           /\ matches = Holding(lines, keyword, start, end)
  OBVIOUS
<1> SUFFICES Told(answer, matches, start, end)
  OBVIOUS
<1> DEFINE selected == SelectLineRange(lines, start, end)
           holding == {i \in selected : Occurrences(lines[i], keyword) # {}}
           context(m) == {i \in selected : m - ContextLines <= i /\ i <= m + ContextLines}
           first == {i \in holding :
                       Cardinality({j \in holding : j <= i}) <= MaxKeywordMatches}
           limited == LimitNumberedLines(UNION {context(m) : m \in holding})
<1>0. answer = IF Cardinality(holding) = 1
               THEN [count |-> 1, shown |-> limited.shown, listed |-> holding,
                     truncated |-> limited.truncated]
               ELSE [count |-> Cardinality(holding), shown |-> {}, listed |-> first,
                     truncated |-> holding # first]
  BY DEF ReadKeyword
<1>1. selected = start..end
  BY DEF SelectLineRange
<1>2. IsFiniteSet(start..end) /\ matches \in SUBSET (start..end)
  BY FS_Interval DEF Holding
<1>3. IsFiniteSet(matches)
  BY <1>2, FS_Subset
<1>4. matches = holding /\ first \subseteq matches
  BY <1>1 DEF Holding
<1> HIDE DEF holding, first, selected, limited
<1>5. CASE Cardinality(matches) = 1
  <2>1. PICK m : matches = {m}
    BY <1>3, <1>5, FS_Singleton
  <2> PICK around, list : around = context(m) /\ list = limited
    OBVIOUS
  <2>2. list = LimitNumberedLines(around)
    <3> HIDE DEF context
    <3>1. UNION {context(k) : k \in holding} = context(m)
      BY <1>4, <2>1
    <3> QED
      BY <3>1 DEF limited
  <2>3. answer = [count |-> 1, shown |-> list.shown, listed |-> matches,
                  truncated |-> list.truncated]
    BY <1>0, <1>4, <1>5
  <2>4. m \in start..end /\ m \in Int /\ ContextLines \in Nat /\ MaxReadFileLines \in Nat
        /\ 2 * ContextLines + 1 <= MaxReadFileLines
    BY <1>2, <2>1, FileToolsAssumption
  <2>5. around = {i \in start..end : m - ContextLines <= i /\ i <= m + ContextLines}
    BY <1>1
  <2>6. around \subseteq m - ContextLines..m + ContextLines
    BY <1>1, <2>4
  <2>7. ~list.truncated /\ list.shown = around
    <3> PICK a, b : a = m - ContextLines /\ b = m + ContextLines
      OBVIOUS
    <3>1. a \in Int /\ b \in Int /\ around \subseteq a..b /\ b - a + 1 <= MaxReadFileLines
      BY <2>4, <2>6
    <3> QED
      BY <2>2, <3>1, FewAreShown
  <2>8. /\ answer.count = 1 /\ answer.shown = around /\ answer.listed = matches
        /\ ~answer.truncated
    BY <2>3, <2>7
  <2> QED
    BY ONLY <1>5, <2>1, <2>4, <2>5, <2>8 DEF Told
<1>6. CASE Cardinality(matches) # 1
  <2>1. answer = [count |-> Cardinality(matches), shown |-> {}, listed |-> first,
                  truncated |-> matches # first]
    BY <1>0, <1>4, <1>6
  <2>2. /\ answer.count = Cardinality(matches) /\ answer.listed = first
        /\ answer.truncated = (matches # first)
    BY <2>1
  <2>3. ASSUME NEW i \in first, NEW j \in matches, j < i  PROVE j \in first
    <3> PICK J, I : J = {l \in matches : l <= j} /\ I = {l \in matches : l <= i}
      OBVIOUS
    <3>1. i \in Int /\ j \in Int /\ \A l \in matches : l \in Int
      BY <1>2, <1>4, <2>3
    <3>2. \A l \in J : l \in I
      BY <2>3, <3>1
    <3>3. J \in SUBSET I /\ I \in SUBSET matches
      BY <3>2
    <3>4. IsFiniteSet(I) /\ IsFiniteSet(J) /\ Cardinality(J) <= Cardinality(I)
      BY <1>3, <3>3, FS_Subset
    <3>5. Cardinality(J) \in Nat /\ Cardinality(I) \in Nat
      BY <3>4, FS_CardinalityType
    <3>6. Cardinality(I) <= MaxKeywordMatches
      BY <1>4, <2>3 DEF first
    <3>7. Cardinality(J) <= MaxKeywordMatches
      BY <3>4, <3>5, <3>6, FileToolsAssumption
    <3> QED
      BY <1>4, <3>7 DEF first
  <2> QED
    BY ONLY <1>4, <1>6, <2>2, <2>3 DEF Told
<1> QED
  BY <1>5, <1>6

\* A keyword search counts what it finds and withholds nothing silently: the one
\* match comes with all its neighbours, and of several the first ones are listed
\* and the rest is reported as cut.
THEOREM KeywordsAreTold == Spec => []KeywordIsTold
<1>1. ToolsInv => KeywordIsTold
  <2> SUFFICES ASSUME ToolsInv, file # NoFile,
                      NEW keyword \in Keywords, NEW start \in 1..Len(Lines(Decode(file))),
                      NEW end \in 1..Len(Lines(Decode(file)))
               PROVE  Told(ReadKeyword(Lines(Decode(file)), keyword, start, end),
                           Holding(Lines(Decode(file)), keyword, start, end), start, end)
    BY DEF KeywordIsTold, Told, Holding
  <2> PICK lines, n : lines = Lines(Decode(file)) /\ n = Len(lines)
    OBVIOUS
  <2>1. Len(lines) \in Nat /\ DOMAIN lines = 1..Len(lines)
    <3>1. file \in Texts
      BY TypeParts DEF ToolsInv
    <3> QED
      BY <3>1, DecodeFacts, LinesType
  <2>2. n \in Nat /\ DOMAIN lines = 1..n /\ start \in 1..n /\ end \in 1..n
    BY <2>1
  <2>3. Told(ReadKeyword(lines, keyword, start, end), Holding(lines, keyword, start, end), start, end)
    BY <2>2, KeywordAnswer
  <2> QED
    BY <2>3
<1> QED
  BY <1>1, ToolsInvHolds, PTL

-------------------------------------------------------------------------------
(* An edited text.                                                         *)

\* Moved numbers are as many.
LEMMA ShiftKeeps ==
  ASSUME NEW S, Numbers(S), NEW d \in Int, NEW T, T = {d + x : x \in S}
  PROVE  IsFiniteSet(T) /\ Cardinality(T) = Cardinality(S)
<1> PICK f : f = [x \in S |-> d + x]
  OBVIOUS
<1>1. \A x \in S : x \in Int
  BY DEF Numbers
<1>2. f \in [S -> T]
  OBVIOUS
<1>3. ASSUME NEW x \in S, NEW y \in S, f[x] = f[y]  PROVE x = y
  <2>1. d + x = d + y /\ x \in Int /\ y \in Int
    BY <1>1, <1>3
  <2> QED
    BY <2>1
<1>4. \A t \in T : \E x \in S : f[x] = t
  OBVIOUS
<1>5. f \in Bijection(S, T)
  BY <1>2, <1>3, <1>4, Fun_IsBij
<1>6. ExistsBijection(S, T)
  BY <1>5 DEF ExistsBijection
<1> QED
  BY <1>6, FS_Bijection DEF Numbers

\* Three texts, one behind the other.
LEMMA ThreeParts ==
  ASSUME NEW S, NEW b \in Seq(S), NEW n \in Seq(S), NEW a \in Seq(S),
         NEW t, t = (b \o n) \o a
  PROVE  /\ t \in Seq(S) /\ Len(t) = Len(b) + Len(n) + Len(a)
         /\ \A i \in 1..Len(b) : t[i] = b[i]
         /\ \A k \in 1..Len(n) : t[Len(b) + k] = n[k]
         /\ \A k \in 1..Len(a) : t[Len(b) + Len(n) + k] = a[k]
<1> PICK c, lb, ln, la : /\ c = b \o n /\ lb = Len(b) /\ ln = Len(n) /\ la = Len(a)
  OBVIOUS
<1>1. lb \in Nat /\ ln \in Nat /\ la \in Nat
  BY LenProperties
<1>2. /\ c \in Seq(S) /\ Len(c) = lb + ln
      /\ \A i \in 1..lb + ln : c[i] = IF i <= lb THEN b[i] ELSE n[i - lb]
  BY ConcatProperties
<1>3. /\ t \in Seq(S) /\ Len(t) = lb + ln + la
      /\ \A i \in 1..lb + ln + la : t[i] = IF i <= lb + ln THEN c[i] ELSE a[i - (lb + ln)]
  BY <1>2, ConcatProperties
<1>4. ASSUME NEW i \in 1..lb  PROVE t[i] = b[i]
  <2>1. i \in 1..lb + ln /\ i \in 1..lb + ln + la /\ i <= lb + ln /\ i <= lb
    BY <1>1
  <2> QED
    BY <1>2, <1>3, <2>1
<1>5. ASSUME NEW k \in 1..ln  PROVE t[lb + k] = n[k]
  <2> PICK i : i = lb + k
    OBVIOUS
  <2>1. i \in 1..lb + ln /\ i \in 1..lb + ln + la /\ i <= lb + ln /\ ~(i <= lb) /\ i - lb = k
    BY <1>1
  <2>2. t[i] = c[i] /\ c[i] = n[i - lb]
    BY <1>2, <1>3, <2>1
  <2> QED
    BY <2>1, <2>2
<1>6. ASSUME NEW k \in 1..la  PROVE t[lb + ln + k] = a[k]
  <2> PICK i : i = lb + ln + k
    OBVIOUS
  <2>1. i \in 1..lb + ln + la /\ ~(i <= lb + ln) /\ i - (lb + ln) = k
    BY <1>1
  <2>2. t[i] = a[i - (lb + ln)]
    BY <1>3, <2>1
  <2> QED
    BY <2>1, <2>2
<1> QED
  BY <1>3, <1>4, <1>5, <1>6

\* Where the parts of an edited text are: what was before the new content has no
\* cr, for it was decoded.
LEMMA EditLayout ==
  ASSUME NEW seen \in Texts, seen \in Seq(Characters \ {"cr"}), NEW old \in Texts, NEW new \in Texts,
         NEW text, NEW at, Edited(seen, old, new, text, at)
  PROVE  /\ text \in Texts /\ at \in Nat \ {0}
         /\ at - 1 + Len(new) <= Len(text)
         /\ \A i \in 1..at - 1 : text[i] # "cr"
         /\ \A k \in 1..Len(new) : text[at - 1 + k] = new[k]
<1>1. CASE seen = <<>>
  <2>1. text = new /\ at = 1
    BY <1>1 DEF Edited
  <2>2. Len(new) \in Nat
    BY TextFacts
  <2> QED
    BY <2>1, <2>2
<1>2. CASE seen # <<>>
  <2>1. /\ old # <<>> /\ at \in Occurrences(seen, old)
        /\ text = SubSeq(seen, 1, at - 1) \o new \o SubSeq(seen, at + Len(old), Len(seen))
    BY <1>2 DEF Edited
  <2>2. at \in 1..Len(seen) /\ Len(old) \in Nat \ {0} /\ Len(seen) \in Nat /\ Len(new) \in Nat
    BY <2>1, OccurrencesFacts, TextFacts
  <2> PICK b, a : b = SubSeq(seen, 1, at - 1) /\ a = SubSeq(seen, at + Len(old), Len(seen))
    OBVIOUS
  <2>3. /\ b \in Seq(Characters) /\ Len(b) = at - 1
        /\ \A i \in 1..at - 1 : b[i] # "cr"
    <3>1. \A i \in 1..at - 1 : seen[i] \in Characters /\ seen[i] # "cr"
      BY <2>2
    <3>2. 1 \in Int /\ at - 1 \in Int /\ at - 1 - 1 + 1 = at - 1 /\ at - 1 >= 0
      BY <2>2
    <3>3. /\ b \in Seq(Characters) /\ Len(b) = IF 1 <= at - 1 THEN (at - 1) - 1 + 1 ELSE 0
          /\ \A i \in 1..(at - 1) - 1 + 1 : b[i] = seen[1 + i - 1]
      BY <3>1, <3>2, SubSeqProperties
    <3>4. Len(b) = at - 1
      BY <3>2, <3>3
    <3>5. ASSUME NEW i \in 1..at - 1  PROVE b[i] # "cr"
      <4>1. i \in 1..(at - 1) - 1 + 1 /\ 1 + i - 1 = i
        BY <2>2
      <4> QED
        BY <3>1, <3>3, <4>1
    <3> QED
      BY <3>3, <3>4, <3>5
  <2>4. a \in Seq(Characters) /\ Len(a) \in Nat
    <3>1. \A k \in at + Len(old)..Len(seen) : seen[k] \in Characters
      BY <2>2, TextFacts
    <3>2. at + Len(old) \in Int /\ Len(seen) \in Int
      BY <2>2
    <3>3. a \in Seq(Characters)
      BY <3>1, <3>2, SubSeqProperties
    <3> QED
      BY <3>3, LenProperties
  <2>5. text = (b \o new) \o a /\ new \in Seq(Characters)
    BY <2>1 DEF Texts
  <2>6. /\ text \in Seq(Characters) /\ Len(text) = Len(b) + Len(new) + Len(a)
        /\ \A i \in 1..Len(b) : text[i] = b[i]
        /\ \A k \in 1..Len(new) : text[Len(b) + k] = new[k]
    <3>1. b \in Seq(Characters) /\ a \in Seq(Characters) /\ new \in Seq(Characters)
      BY <2>3, <2>4, <2>5
    <3> QED
      BY ONLY <2>5, <3>1, ThreeParts
  <2>7. \A i \in 1..at - 1 : text[i] # "cr"
    BY <2>3, <2>6
  <2>8. \A k \in 1..Len(new) : text[at - 1 + k] = new[k]
    BY <2>3, <2>6
  <2>9. at - 1 + Len(new) <= Len(text)
    BY ONLY <2>2, <2>3, <2>4, <2>6
  <2> QED
    <3>1. at \in Nat \ {0}
      BY <2>2
    <3>2. text \in Texts
      BY <2>6 DEF Texts
    <3> QED
      BY <2>7, <2>8, <2>9, <3>1, <3>2
<1> QED
  BY <1>1, <1>2

\* part is in text, behind the first d characters.
HasPart(text, d, part) ==
  d + Len(part) <= Len(text) /\ \A k \in 1..Len(part) : text[d + k] = part[k]

\* The first line that write_file reports: before it, every line break is an lf.
LEMMA FirstLine ==
  ASSUME NEW text \in Texts, NEW at \in Nat \ {0}, at - 1 <= Len(text),
         \A i \in 1..at - 1 : text[i] # "cr", \A i \in 1..at - 1 : text[i] # "ff"
  PROVE  LineNumberAt(text, at) = LineNumberIn(text, at)
<1> PICK feeds, breaks : /\ feeds = {j \in 1..at - 1 : text[j] = "lf"}
                         /\ breaks = {b \in Breaks(text) : b < at}
  OBVIOUS
<1>1. Len(text) \in Nat /\ DOMAIN text = 1..Len(text)
  BY TextFacts
<1>2. ASSUME NEW j \in feeds  PROVE j \in breaks
  <2>1. j \in DOMAIN text /\ text[j] = "lf" /\ j < at
    BY <1>1
  <2>2. ~IsCrLf(text, j)
    BY <2>1 DEF IsCrLf
  <2> QED
    BY <2>1, <2>2 DEF Breaks
<1>3. ASSUME NEW j \in breaks  PROVE j \in feeds
  <2>1. j \in DOMAIN text /\ text[j] \in {"lf", "cr", "ff"} /\ j < at
    BY DEF Breaks
  <2>2. j \in 1..at - 1
    BY <1>1, <2>1
  <2> QED
    BY <2>1, <2>2
<1>4. feeds = breaks
  BY <1>2, <1>3
<1> QED
  BY <1>4 DEF LineNumberAt, LineNumberIn

\* The breaks in a part of a text, its last character apart, are those of the part.
LEMMA PartBreaks ==
  ASSUME NEW text \in Texts, NEW part \in Texts, NEW d \in Nat, HasPart(text, d, part),
         NEW k \in 1..Len(part), k < Len(part)
  PROVE  d + k \in Breaks(text) <=> k \in Breaks(part)
<1>0. d + Len(part) <= Len(text) /\ \A l \in 1..Len(part) : text[d + l] = part[l]
  BY DEF HasPart
<1>1. Len(text) \in Nat /\ DOMAIN text = 1..Len(text) /\ Len(part) \in Nat /\ DOMAIN part = 1..Len(part)
  BY TextFacts
<1> PICK i : i = d + k
  OBVIOUS
<1>2. k + 1 \in 1..Len(part) /\ d + (k + 1) = i + 1 /\ i < Len(text) /\ i \in 1..Len(text)
  BY <1>0, <1>1
<1>3. text[i] = part[k] /\ text[i + 1] = part[k + 1]
  <2>1. text[d + k] = part[k] /\ text[d + (k + 1)] = part[k + 1]
    BY <1>0, <1>2
  <2> QED
    BY <1>2, <2>1
<1>4. IsCrLf(text, i) <=> IsCrLf(part, k)
  BY <1>2, <1>3 DEF IsCrLf
<1> QED
  BY <1>1, <1>2, <1>3, <1>4 DEF Breaks

\* The last line that write_file reports.
LEMMA LastLine ==
  ASSUME NEW text \in Texts, NEW new \in Texts, new # <<>>, NEW d \in Nat,
         HasPart(text, d, new)
  PROVE  EndLine(LineNumberIn(text, d + 1), new) = LineNumberIn(text, d + Len(new))
<1> PICK n, before, inside, moved, all :
      /\ n = Len(new)
      /\ before = {b \in Breaks(text) : b < d + 1} /\ all = {b \in Breaks(text) : b < d + n}
      /\ inside = {b \in Breaks(new) : b < n} /\ moved = {d + b : b \in inside}
  OBVIOUS
<1>1. n \in Nat \ {0} /\ Len(text) \in Nat
  BY TextFacts DEF Texts
<1>2. Breaks(text) \subseteq 1..Len(text) /\ Breaks(new) \subseteq 1..n
  BY TextFacts
<1>3. Numbers(inside) /\ Numbers(before) /\ Numbers(all)
  <2>1. inside \subseteq 1..n /\ before \subseteq 1..Len(text) /\ all \subseteq 1..Len(text)
    BY <1>2
  <2> QED
    BY <1>1, <2>1, PlacesAreNumbers
<1>4. ASSUME NEW k \in 1..n, k < n  PROVE d + k \in Breaks(text) <=> k \in Breaks(new)
  BY <1>4, PartBreaks
<1>5. IsFiniteSet(moved) /\ Cardinality(moved) = Cardinality(inside)
  BY <1>3, ShiftKeeps
<1>6. ASSUME NEW b \in moved  PROVE b \in all /\ b \notin before
  <2>1. PICK k \in inside : b = d + k
    OBVIOUS
  <2>2. k \in 1..n /\ k < n /\ k \in Breaks(new)
    BY <1>2
  <2>3. b \in Breaks(text)
    BY <1>4, <2>1, <2>2
  <2> QED
    BY <1>1, <2>1, <2>2, <2>3
<1>7. ASSUME NEW b \in all, b \notin before  PROVE b \in moved
  <2>1. b \in Breaks(text) /\ b \in Int /\ b < d + n /\ ~(b < d + 1)
    BY <1>2, <1>7
  <2>2. b - d \in 1..n /\ b - d < n /\ d + (b - d) = b
    BY <1>1, <2>1
  <2>3. b - d \in Breaks(new)
    BY <1>4, <2>1, <2>2
  <2>4. b - d \in inside
    BY <2>2, <2>3
  <2> QED
    BY <2>2, <2>4
<1>8. ASSUME NEW b \in before  PROVE b \in all
  BY <1>1, <1>2
<1>9. all = before \cup moved /\ before \cap moved = {}
  BY <1>6, <1>7, <1>8
<1>10. Cardinality(all) = Cardinality(before) + Cardinality(inside)
  <2>1. Cardinality(before \cup moved) =
          Cardinality(before) + Cardinality(moved) - Cardinality(before \cap moved)
    <3>1. IsFiniteSet(before) /\ IsFiniteSet(moved)
      BY <1>3, <1>5 DEF Numbers
    <3> QED
      BY ONLY <3>1, FS_Union
  <2>2. Cardinality(before \cap moved) = 0
    BY <1>9, FS_EmptySet
  <2>3. Cardinality(before) \in Nat /\ Cardinality(inside) \in Nat
    BY <1>3, FS_CardinalityType DEF Numbers
  <2> QED
    <3> PICK ca, cb, cm, ci, co :
          /\ ca = Cardinality(all) /\ cb = Cardinality(before) /\ cm = Cardinality(moved)
          /\ ci = Cardinality(inside) /\ co = Cardinality(before \cap moved)
      OBVIOUS
    <3>1. ca = cb + cm - co /\ co = 0 /\ cm = ci /\ cb \in Nat /\ ci \in Nat
      BY <1>5, <1>9, <2>1, <2>2, <2>3
    <3>2. ca = cb + ci
      BY <3>1
    <3> QED
      BY <3>2
<1>11. Len(LineEnds(new)) = Cardinality(inside) + 1
  BY LineEndsFacts
<1>12. Cardinality(before) \in Nat /\ Cardinality(inside) \in Nat
  BY <1>3, FS_CardinalityType DEF Numbers
<1>13. EndLine(1 + Cardinality(before), new) = 1 + Cardinality(all)
  BY <1>10, <1>11, <1>12 DEF EndLine
<1> QED
  BY <1>13 DEF LineNumberIn

\* A write_file that succeeds reports the lines under which read_file shows the
\* new content, whatever line ends it has; only a form feed in the text before,
\* or another break that is no newline, makes it count wrong.
THEOREM LinesAreReported == Spec => ReportedLines
<1>1. ToolsInv /\ [Next]_vars =>
        \A r \in Runs : pc[r] = "replace" /\ pc'[r] = "written" =>
          LET j == job[r]
              first == LineNumberAt(j.text, j.at)
          IN  (\A i \in 1..j.at - 1 : j.text[i] # "ff") /\ j.new # <<>> =>
                /\ first = LineNumberIn(file', j.at)
                /\ EndLine(first, j.new) = LineNumberIn(file', j.at + Len(j.new) - 1)
  <2> SUFFICES ASSUME ToolsInv, [Next]_vars, NEW r \in Runs,
                      pc[r] = "replace", pc'[r] = "written",
                      \A i \in 1..job[r].at - 1 : job[r].text[i] # "ff", job[r].new # <<>>
               PROVE  /\ LineNumberAt(job[r].text, job[r].at) = LineNumberIn(file', job[r].at)
                      /\ EndLine(LineNumberAt(job[r].text, job[r].at), job[r].new)
                           = LineNumberIn(file', job[r].at + Len(job[r].new) - 1)
    OBVIOUS
  <2> PICK seen, old, new, text, at, now :
        /\ seen = job[r].seen /\ old = job[r].old /\ new = job[r].new /\ text = job[r].text
        /\ at = job[r].at /\ now = file'
    OBVIOUS
  <2>1. now = text /\ job[r] \in Jobs /\ EditReady(r)
    BY WrittenByReplace
  <2>2. /\ seen \in Texts /\ old \in Texts /\ new \in Texts /\ text \in Texts
        /\ seen \in Seq(Characters \ {"cr"}) /\ Edited(seen, old, new, text, at)
    BY <2>1, Passed DEF Jobs, EditReady
  <2>3. /\ at \in Nat \ {0} /\ at - 1 + Len(new) <= Len(text)
        /\ \A i \in 1..at - 1 : text[i] # "cr"
        /\ \A k \in 1..Len(new) : text[at - 1 + k] = new[k]
    BY <2>2, EditLayout
  <2> PICK d : d = at - 1
    OBVIOUS
  <2>4. /\ d \in Nat /\ at = d + 1 /\ d + Len(new) <= Len(text) /\ Len(new) \in Nat
        /\ Len(text) \in Nat /\ at - 1 <= Len(text) /\ at + Len(new) - 1 = d + Len(new)
    <3>1. Len(new) \in Nat /\ Len(text) \in Nat
      BY <2>2, TextFacts
    <3>2. at \in Nat \ {0} /\ at - 1 + Len(new) <= Len(text) /\ d = at - 1
      BY <2>3
    <3> QED
      BY ONLY <3>1, <3>2
  <2>7. HasPart(text, d, new)
    BY <2>3, <2>4 DEF HasPart
  <2>5. LineNumberAt(text, at) = LineNumberIn(text, at)
    BY <2>2, <2>3, <2>4, FirstLine
  <2>6. EndLine(LineNumberIn(text, at), new) = LineNumberIn(text, at + Len(new) - 1)
    <3>1. EndLine(LineNumberIn(text, d + 1), new) = LineNumberIn(text, d + Len(new))
      BY <2>2, <2>4, <2>7, LastLine
    <3> QED
      BY <2>4, <3>1
  <2> QED
    BY <2>1, <2>5, <2>6
<1> QED
  BY <1>1, ToolsInvHolds, PTL DEF Spec, ReportedLines

-------------------------------------------------------------------------------
(* What an edit leaves alone.                                              *)

\* The list of numbers in order rises and reaches each of them.
LEMMA AscendingRises ==
  ASSUME NEW S, Numbers(S)
  PROVE  Rises(Ascending(S), Cardinality(S)) /\ Reaches(Ascending(S), 1..Cardinality(S), S)
<1> PICK m, a : m = Cardinality(S) /\ a = Ascending(S)
  OBVIOUS
<1>1. m \in Nat /\ \A k \in 1..m : a[k] \in S /\ Cardinality(Below(S, a[k])) = k
  BY AscendingType
<1>2. ASSUME NEW x \in S, NEW y \in S, Cardinality(Below(S, x)) <= Cardinality(Below(S, y))
      PROVE  x <= y /\ x \in Int /\ y \in Int
  <2>1. x \in Int /\ y \in Int
    BY DEF Numbers
  <2>2. ~(y < x)
    <3>1. Cardinality(Below(S, x)) \in Int /\ Cardinality(Below(S, y)) \in Int
      BY BelowType
    <3>2. y < x => Cardinality(Below(S, y)) < Cardinality(Below(S, x))
      BY BelowStep
    <3> QED
      BY <1>2, <3>1, <3>2
  <2> QED
    BY <2>1, <2>2
<1>3. ASSUME NEW k \in 1..m, NEW l \in 1..m, k < l  PROVE a[k] < a[l]
  <2>1. a[k] <= a[l] /\ a[k] \in Int /\ a[l] \in Int
    BY <1>1, <1>2, <1>3
  <2>2. a[k] # a[l]
    BY <1>1, <1>3
  <2> QED
    BY <2>1, <2>2
<1>4. ASSUME NEW t \in S  PROVE \E k \in 1..m : a[k] = t
  <2> PICK k : k = Cardinality(Below(S, t))
    OBVIOUS
  <2>1. k \in 1..m /\ k <= k
    BY BelowType
  <2>2. a[k] <= t /\ t <= a[k] /\ a[k] \in Int /\ t \in Int
    <3>1. a[k] \in S /\ Cardinality(Below(S, a[k])) = k
      BY <1>1, <2>1
    <3> QED
      BY <1>2, <2>1, <3>1
  <2> QED
    BY <2>1, <2>2
<1> QED
  BY <1>3, <1>4 DEF Rises, Reaches

\* The largest number is the last; the others keep their places without it.
LEMMA AscendingTop ==
  ASSUME NEW S, Numbers(S), NEW z \in S, \A x \in S : x <= z, NEW R, R = S \ {z}
  PROVE  /\ Cardinality(S) \in Nat \ {0} /\ Ascending(S)[Cardinality(S)] = z
         /\ Cardinality(R) = Cardinality(S) - 1
         /\ \A k \in 1..Cardinality(S) - 1 : Ascending(R)[k] = Ascending(S)[k]
<1> PICK m, a : m = Cardinality(S) /\ a = Ascending(S)
  OBVIOUS
<1>1. m \in Nat /\ \A k \in 1..m : a[k] \in S
  BY AscendingType
<1>2. (\A k, l \in 1..m : k < l => a[k] < a[l]) /\ \A t \in S : \E k \in 1..m : a[k] = t
  BY AscendingRises DEF Rises, Reaches
<1>3. PICK top \in 1..m : a[top] = z
  BY <1>2
<1>4. m \in 1..m /\ m \in Nat \ {0}
  BY <1>1, <1>3
<1>5. top = m
  <2>1. a[m] \in S /\ a[m] <= z /\ a[m] \in Int /\ z \in Int
    BY <1>1, <1>4 DEF Numbers
  <2>2. ~(top < m)
    BY <1>2, <1>3, <1>4, <2>1
  <2> QED
    BY <1>4, <2>2
<1>6. a[m] = z
  BY <1>3, <1>5
<1> PICK e : e = [k \in 1..m - 1 |-> a[k]]
  OBVIOUS
<1>7. Numbers(R)
  BY FS_RemoveElement DEF Numbers
<1>8. e \in [1..m - 1 -> R]
  <2> SUFFICES ASSUME NEW k \in 1..m - 1  PROVE a[k] \in R
    OBVIOUS
  <2>1. k \in 1..m /\ k < m
    BY <1>4
  <2>2. a[k] < z /\ a[k] \in S
    BY <1>1, <1>2, <1>4, <1>6, <2>1
  <2>3. z \in Int /\ a[k] \in Int
    BY <2>2 DEF Numbers
  <2> QED
    BY <2>2, <2>3
<1>9. Rises(e, m - 1)
  <2> SUFFICES ASSUME NEW k \in 1..m - 1, NEW l \in 1..m - 1, k < l  PROVE e[k] < e[l]
    BY DEF Rises
  <2>1. k \in 1..m /\ l \in 1..m
    BY <1>4
  <2> QED
    BY <1>2, <2>1
<1>10. Reaches(e, 1..m - 1, R)
  <2> SUFFICES ASSUME NEW t \in R  PROVE \E k \in 1..m - 1 : e[k] = t
    BY DEF Reaches
  <2>1. PICK k \in 1..m : a[k] = t
    BY <1>2
  <2>2. k # m
    BY <1>6, <2>1
  <2>3. k \in 1..m - 1
    BY <1>4, <2>2
  <2> QED
    BY <2>1, <2>3
<1>11. Ascending(R) = e /\ Cardinality(R) = m - 1
  <2>1. m - 1 \in Nat
    BY <1>4
  <2> QED
    BY <1>7, <1>8, <1>9, <1>10, <2>1, AscendingUnique
<1> QED
  BY <1>4, <1>6, <1>11

\* K holds places of a middle part of n places; InOrder is the order of the
\* places Spread keeps: all lb before, those of K, and all la behind.
Within(K, n) == K \subseteq 1..n
InOrder(all, size, lb, n, la, m, mid) ==
  /\ m \in Nat /\ size = lb + m + la
  /\ \A p \in 1..lb : all[p] = p
  /\ \A k \in 1..m : all[lb + k] = lb + mid[k]
  /\ \A k \in 1..la : all[lb + m + k] = lb + n + k
Spread(lb, n, la, K) == (1..lb) \cup {lb + i : i \in K} \cup (lb + n + 1..lb + n + la)

\* Three sets of numbers, each behind the one before: the first and the last
\* without a gap.
LEMMA AscendingParts ==
  ASSUME NEW lb \in Nat, NEW n \in Nat, NEW la \in Nat, NEW K, Within(K, n),
         NEW m, m = Cardinality(K), NEW mid, mid = Ascending(K),
         NEW S, S = Spread(lb, n, la, K)
  PROVE  InOrder(Ascending(S), Cardinality(S), lb, n, la, m, mid)
<1>0. S = (1..lb) \cup {lb + i : i \in K} \cup (lb + n + 1..lb + n + la) /\ K \subseteq 1..n
  BY DEF Spread, Within
<1>1. Numbers(K)
  BY <1>0, PlacesAreNumbers
<1>2. m \in Nat /\ \A k \in 1..m : mid[k] \in K
  BY <1>1, AscendingType
<1>3. (\A k, l \in 1..m : k < l => mid[k] < mid[l]) /\ \A t \in K : \E k \in 1..m : mid[k] = t
  BY <1>1, AscendingRises DEF Rises, Reaches
<1> PICK e : e = [p \in 1..lb + m + la |-> IF p <= lb THEN p
                                          ELSE IF p <= lb + m THEN lb + mid[p - lb] ELSE p - m + n]
  OBVIOUS
<1>4. ASSUME NEW p \in 1..lb  PROVE p \in 1..lb + m + la /\ e[p] = p
  BY <1>2
<1>5. ASSUME NEW k \in 1..m
      PROVE  /\ lb + k \in 1..lb + m + la /\ e[lb + k] = lb + mid[k]
             /\ mid[k] \in 1..n /\ lb + mid[k] \in S
  <2>1. lb + k \in 1..lb + m + la /\ ~(lb + k <= lb) /\ lb + k <= lb + m /\ lb + k - lb = k
    BY <1>2
  <2> PICK p : p = lb + k
    OBVIOUS
  <2>2. e[p] = lb + mid[p - lb]
    BY <2>1
  <2>3. mid[k] \in K /\ mid[k] \in 1..n /\ lb + mid[k] \in {lb + i : i \in K}
    BY <1>0, <1>2
  <2> QED
    BY <1>0, <2>1, <2>2, <2>3
<1>6. ASSUME NEW k \in 1..la
      PROVE  lb + m + k \in 1..lb + m + la /\ e[lb + m + k] = lb + n + k /\ lb + n + k \in S
  <2> PICK p : p = lb + m + k
    OBVIOUS
  <2>1. p \in 1..lb + m + la /\ ~(p <= lb) /\ ~(p <= lb + m) /\ p - m + n = lb + n + k
    <3>1. /\ m \in Nat /\ k \in Nat \ {0} /\ k <= la /\ p = lb + m + k
          /\ lb \in Nat /\ n \in Nat /\ la \in Nat
      BY <1>2
    <3>2. p - m + n = lb + n + k
      BY ONLY <3>1
    <3>3. p \in Nat /\ 1 <= p /\ p <= lb + m + la
      BY ONLY <3>1
    <3>4. ~(p <= lb) /\ ~(p <= lb + m) /\ lb + m + la \in Int
      BY ONLY <3>1
    <3> QED
      BY <3>2, <3>3, <3>4
  <2>2. lb + n + k \in lb + n + 1..lb + n + la
    OBVIOUS
  <2> QED
    BY <1>0, <2>1, <2>2
<1>7. ASSUME NEW p \in 1..lb + m + la
      PROVE  \/ p \in 1..lb
             \/ p - lb \in 1..m /\ p = lb + (p - lb)
             \/ p - lb - m \in 1..la /\ p = lb + m + (p - lb - m)
  BY <1>2
<1>8. e \in [1..lb + m + la -> S]
  <2> SUFFICES ASSUME NEW p \in 1..lb + m + la  PROVE e[p] \in S
    OBVIOUS
  <2>1. CASE p \in 1..lb
    BY <1>0, <1>4, <2>1
  <2>2. CASE p - lb \in 1..m /\ p = lb + (p - lb)
    BY <1>5, <2>2
  <2>3. CASE p - lb - m \in 1..la /\ p = lb + m + (p - lb - m)
    BY <1>6, <2>3
  <2> QED
    BY <1>7, <2>1, <2>2, <2>3
<1>9. Numbers(S)
  <2>1. S \subseteq 1..lb + n + la
    BY <1>0
  <2>2. lb + n + la \in Nat
    OBVIOUS
  <2> QED
    BY <2>1, <2>2, PlacesAreNumbers
<1>10. Rises(e, lb + m + la)
  <2> SUFFICES ASSUME NEW p \in 1..lb + m + la, NEW q \in 1..lb + m + la, p < q
               PROVE  e[p] < e[q]
    BY DEF Rises
  <2> PICK k, l : k = p - lb /\ l = q - lb
    OBVIOUS
  <2>1. CASE q <= lb
    BY <1>4, <2>1
  <2>2. CASE lb < q /\ q <= lb + m
    <3>1. l \in 1..m /\ q = lb + l
      BY <1>2, <2>2
    <3>2. e[q] = lb + mid[l] /\ mid[l] \in 1..n
      BY <1>5, <3>1
    <3>3. CASE p <= lb
      BY <1>4, <3>2, <3>3
    <3>4. CASE lb < p
      <4>1. k \in 1..m /\ p = lb + k /\ k < l
        BY <1>2, <2>2, <3>4
      <4>2. e[p] = lb + mid[k] /\ mid[k] \in 1..n /\ mid[k] < mid[l]
        BY <1>3, <1>5, <3>1, <4>1
      <4> QED
        BY <3>2, <4>2
    <3> QED
      BY <3>3, <3>4
  <2>3. CASE lb + m < q
    <3>1. l - m \in 1..la /\ q = lb + m + (l - m)
      BY <1>2, <2>3
    <3>2. e[q] = lb + n + (l - m)
      BY <1>6, <3>1
    <3>3. CASE p <= lb
      BY <1>4, <3>1, <3>2, <3>3
    <3>4. CASE lb < p /\ p <= lb + m
      <4>1. k \in 1..m /\ p = lb + k
        BY <1>2, <3>4
      <4>2. e[p] = lb + mid[k] /\ mid[k] \in 1..n
        BY <1>5, <4>1
      <4> QED
        BY <3>1, <3>2, <4>2
    <3>5. CASE lb + m < p
      <4>1. k - m \in 1..la /\ p = lb + m + (k - m) /\ k - m < l - m
        <5>1. m \in Nat /\ p \in Int /\ q \in Int /\ k = p - lb /\ l = q - lb
          BY <1>2
        <5>2. k - m < l - m /\ p = lb + m + (k - m)
          BY <5>1
        <5>3. k - m \in Int /\ 1 <= k - m /\ k - m <= la
          BY <3>5, <5>1
        <5> QED
          BY <5>2, <5>3
      <4>2. e[p] = lb + n + (k - m)
        BY <1>6, <4>1
      <4> PICK x, y : x = k - m /\ y = l - m
        OBVIOUS
      <4>3. x \in Int /\ y \in Int /\ x < y /\ e[p] = lb + n + x /\ e[q] = lb + n + y
        BY <3>1, <3>2, <4>1, <4>2
      <4> QED
        BY <4>3
    <3> QED
      BY <1>2, <3>3, <3>4, <3>5
  <2> QED
    BY <1>2, <2>1, <2>2, <2>3
<1>11. Reaches(e, 1..lb + m + la, S)
  <2> SUFFICES ASSUME NEW t \in S  PROVE \E p \in 1..lb + m + la : e[p] = t
    BY DEF Reaches
  <2>1. CASE t \in 1..lb
    BY <1>4, <2>1
  <2>2. CASE t \in {lb + i : i \in K}
    <3>1. PICK i \in K : t = lb + i
      BY <2>2
    <3>2. PICK k \in 1..m : mid[k] = i
      BY <1>3
    <3> QED
      BY <1>5, <3>1, <3>2
  <2>3. CASE t \in lb + n + 1..lb + n + la
    <3> PICK k : k = t - (lb + n)
      OBVIOUS
    <3>1. k \in 1..la /\ t = lb + n + k
      BY <2>3
    <3> QED
      BY <1>6, <3>1
  <2> QED
    BY <1>0, <2>1, <2>2, <2>3
<1>12. Ascending(S) = e /\ Cardinality(S) = lb + m + la
  <2>1. lb + m + la \in Nat
    BY <1>2
  <2> QED
    BY <1>8, <1>9, <1>10, <1>11, <2>1, AscendingUnique
<1> QED
  BY <1>2, <1>4, <1>5, <1>6, <1>12 DEF InOrder

\* A cr at the end of the new content and an lf behind it become one line end.
PlainTexts == Seq(Characters \ {"cr"})
\* A cr at the end of the new content met by an lf of the text behind it.
Joined(new, a) == new # <<>> /\ new[Len(new)] = "cr" /\ a # <<>> /\ a[1] = "lf"
KeptOf(new, a) == IF Joined(new, a) THEN Kept(new) \ {Len(new)} ELSE Kept(new)

\* Between texts without cr, the new content keeps its characters, but for that cr.
LEMMA KeptParts ==
  ASSUME NEW b \in PlainTexts, NEW new \in Texts, NEW a \in PlainTexts,
         NEW text, text = (b \o new) \o a
  PROVE  /\ text \in Texts
         /\ Kept(text) = Spread(Len(b), Len(new), Len(a), KeptOf(new, a))
<1> PICK lb, n, la, S, K : /\ lb = Len(b) /\ n = Len(new) /\ la = Len(a) /\ K = KeptOf(new, a)
                           /\ S = Spread(lb, n, la, K)
  OBVIOUS
<1>1. b \in Seq(Characters) /\ new \in Seq(Characters) /\ a \in Seq(Characters)
  BY DEF Texts, PlainTexts
<1>2. lb \in Nat /\ n \in Nat /\ la \in Nat
  BY <1>1, LenProperties
<1>3. /\ text \in Seq(Characters) /\ Len(text) = lb + n + la
      /\ \A i \in 1..lb : text[i] = b[i]
      /\ \A k \in 1..n : text[lb + k] = new[k]
      /\ \A k \in 1..la : text[lb + n + k] = a[k]
  BY <1>1, ThreeParts
<1>4. DOMAIN text = 1..lb + n + la /\ DOMAIN new = 1..n
  BY <1>1, <1>3, LenProperties
<1>5. /\ \A i \in 1..lb : b[i] # "cr"
      /\ \A i \in 1..la : a[i] # "cr"
  BY DEF PlainTexts
<1>6. ASSUME NEW i \in 1..lb  PROVE i \in Kept(text)
  <2>1. i \in DOMAIN text /\ text[i] # "cr"
    BY <1>2, <1>3, <1>4, <1>5
  <2> QED
    BY <2>1 DEF Kept, IsCrLf
<1>7. ASSUME NEW k \in 1..la  PROVE lb + n + k \in Kept(text)
  <2>1. lb + n + k \in DOMAIN text
    BY <1>2, <1>4
  <2>2. text[lb + n + k] # "cr"
    BY <1>3, <1>5
  <2> QED
    BY <2>1, <2>2 DEF Kept, IsCrLf
<1>8. ASSUME NEW k \in 1..n  PROVE lb + k \in Kept(text) <=> k \in K
  <2> PICK i : i = lb + k
    OBVIOUS
  <2>1. i \in 1..lb + n + la /\ text[i] = new[k]
    BY <1>2, <1>3
  <2>2. i \in Kept(text) <=> ~IsCrLf(text, i)
    BY <1>4, <2>1 DEF Kept
  <2>3. k \in Kept(new) <=> ~IsCrLf(new, k)
    BY <1>4 DEF Kept
  <2>4. CASE k < n
    <3>1. k + 1 \in 1..n /\ lb + (k + 1) = i + 1 /\ i < lb + n + la
      BY <1>2, <2>4
    <3>2. text[i + 1] = new[k + 1]
      <4>1. text[lb + (k + 1)] = new[k + 1]
        BY <1>3, <3>1
      <4> QED
        BY <3>1, <4>1
    <3>3. IsCrLf(text, i) <=> IsCrLf(new, k)
      BY <1>3, <2>1, <2>4, <3>1, <3>2 DEF IsCrLf
    <3>4. k \in K <=> k \in Kept(new)
      BY <1>2, <2>4 DEF KeptOf
    <3> QED
      BY <2>2, <2>3, <3>3, <3>4
  <2>5. CASE k = n
    <3>1. k \in Kept(new) /\ new # <<>>
      BY <1>2, <2>3, <2>5 DEF IsCrLf
    <3>2. k \in K <=> ~Joined(new, a)
      BY <2>5, <3>1 DEF KeptOf
    <3>3. IsCrLf(text, i) <=> Joined(new, a)
      <4>1. CASE la = 0
        <5>1. a = <<>>
          BY <1>1, <4>1, EmptySeq
        <5>2. ~(i < Len(text))
          BY <1>2, <1>3, <2>5, <4>1
        <5> QED
          BY <5>1, <5>2 DEF IsCrLf, Joined
      <4>2. CASE la # 0
        <5>1. a # <<>> /\ 1 \in 1..la /\ i < Len(text) /\ lb + n + 1 = i + 1
          BY <1>2, <1>3, <2>5, <4>2
        <5>2. text[i + 1] = a[1]
          <6>1. text[lb + n + 1] = a[1]
            BY <1>3, <5>1
          <6> QED
            BY <5>1, <6>1
        <5>3. text[i] = new[n]
          BY <2>1, <2>5
        <5> QED
          BY <3>1, <5>1, <5>2, <5>3 DEF IsCrLf, Joined
      <4> QED
        BY <4>1, <4>2
    <3> QED
      BY <2>2, <3>2, <3>3
  <2> QED
    BY <1>2, <2>4, <2>5
<1>9. K \subseteq 1..n
  BY <1>4 DEF KeptOf, Kept
<1>10. ASSUME NEW i \in Kept(text)  PROVE i \in S
  <2>1. i \in 1..lb + n + la
    BY <1>4 DEF Kept
  <2>2. CASE i <= lb
    BY <1>2, <2>1, <2>2 DEF Spread
  <2>3. CASE lb < i /\ i <= lb + n
    <3>1. i - lb \in 1..n /\ lb + (i - lb) = i
      BY <1>2, <2>1, <2>3
    <3>2. i - lb \in K
      BY <1>8, <3>1
    <3> QED
      BY <3>1, <3>2 DEF Spread
  <2>4. CASE lb + n < i
    BY <1>2, <2>1, <2>4 DEF Spread
  <2> QED
    BY <1>2, <2>1, <2>2, <2>3, <2>4
<1>11. ASSUME NEW i \in S  PROVE i \in Kept(text)
  <2>1. CASE i \in 1..lb
    BY <1>6, <2>1
  <2>2. CASE i \in {lb + k : k \in K}
    BY <1>8, <1>9, <2>2
  <2>3. CASE i \in lb + n + 1..lb + n + la
    <3>1. i - (lb + n) \in 1..la /\ lb + n + (i - (lb + n)) = i
      BY <1>2, <2>3
    <3> QED
      BY <1>7, <3>1
  <2> QED
    BY <2>1, <2>2, <2>3 DEF Spread
<1>12. Kept(text) = S
  BY <1>10, <1>11
<1> QED
  BY <1>3, <1>12 DEF Texts

\* A line end as Decode gives it.
Norm(c) == IF c = "cr" THEN "lf" ELSE c

\* What is kept of the new content, decoded.
LEMMA KeptOfFacts ==
  ASSUME NEW new \in Texts, NEW a, NEW K, K = KeptOf(new, a), NEW m, m = Cardinality(K)
  PROVE  /\ K \subseteq 1..Len(new) /\ m \in Nat
         /\ \A k \in 1..m : /\ Ascending(K)[k] \in 1..Len(new)
                            /\ Decode(new)[k] = Norm(new[Ascending(K)[k]])
         /\ Joined(new, a) => Len(Decode(new)) = m + 1 /\ Decode(new)[m + 1] = "lf"
         /\ ~Joined(new, a) => Len(Decode(new)) = m
<1> PICK n, all, kept : n = Len(new) /\ all = Kept(new) /\ kept = Ascending(all)
  OBVIOUS
<1>1. n \in Nat /\ DOMAIN new = 1..n /\ all \subseteq 1..n /\ Numbers(all)
  BY TextFacts
<1>2. K \subseteq 1..n
  BY <1>1 DEF KeptOf
<1>3. Numbers(K)
  BY <1>1, <1>2, PlacesAreNumbers
<1>4. m \in Nat /\ \A k \in 1..m : Ascending(K)[k] \in K
  BY <1>3, AscendingType
<1>5. /\ Len(Decode(new)) = Cardinality(all)
      /\ \A k \in 1..Cardinality(all) : Decode(new)[k] = Norm(new[kept[k]])
  BY DecodeFacts DEF Norm
<1>6. CASE ~Joined(new, a)
  <2>1. K = all
    BY <1>6 DEF KeptOf
  <2> QED
    BY <1>2, <1>4, <1>5, <1>6, <2>1
<1>7. CASE Joined(new, a)
  <2>1. K = all \ {n} /\ new # <<>> /\ new[n] = "cr"
    BY <1>7 DEF KeptOf, Joined
  <2>2. n \in all
    <3>1. n \in 1..n
      BY <1>1, <2>1 DEF Texts
    <3> QED
      BY <1>1, <3>1 DEF Kept, IsCrLf
  <2>3. \A x \in all : x <= n
    BY <1>1
  <2>4. /\ Cardinality(all) \in Nat \ {0} /\ kept[Cardinality(all)] = n
        /\ m = Cardinality(all) - 1
        /\ \A k \in 1..Cardinality(all) - 1 : Ascending(K)[k] = kept[k]
    BY <1>1, <2>1, <2>2, <2>3, AscendingTop
  <2>5. Cardinality(all) = m + 1 /\ m + 1 \in 1..Cardinality(all)
    BY <1>4, <2>4
  <2>6. Decode(new)[m + 1] = "lf"
    <3>1. Decode(new)[m + 1] = Norm(new[kept[m + 1]])
      BY <1>5, <2>5
    <3>2. kept[m + 1] = n
      BY <2>4, <2>5
    <3> QED
      BY <2>1, <3>1, <3>2 DEF Norm
  <2>7. ASSUME NEW k \in 1..m  PROVE Decode(new)[k] = Norm(new[Ascending(K)[k]])
    <3>1. k \in 1..Cardinality(all) /\ k \in 1..Cardinality(all) - 1
      BY <1>4, <2>5
    <3> QED
      BY <1>5, <2>4, <3>1
  <2> QED
    BY <1>2, <1>4, <1>5, <1>7, <2>5, <2>6, <2>7
<1> QED
  BY <1>6, <1>7

\* t is b, then n, then a.
Laid(t, b, n, a) ==
  /\ Len(t) = Len(b) + Len(n) + Len(a)
  /\ \A i \in 1..Len(b) : t[i] = b[i]
  /\ \A k \in 1..Len(n) : t[Len(b) + k] = n[k]
  /\ \A k \in 1..Len(a) : t[Len(b) + Len(n) + k] = a[k]

\* A text laid out from three parts is those parts, one behind the other.
LEMMA LaidOnce ==
  ASSUME NEW S, NEW b \in Seq(S), NEW n \in Seq(S), NEW a \in Seq(S),
         NEW t \in Seq(S), Laid(t, b, n, a)
  PROVE  t = (b \o n) \o a
<1> PICK u, lb, ln, la : u = (b \o n) \o a /\ lb = Len(b) /\ ln = Len(n) /\ la = Len(a)
  OBVIOUS
<1>1. lb \in Nat /\ ln \in Nat /\ la \in Nat
  BY LenProperties
<1>2. /\ u \in Seq(S) /\ Len(u) = lb + ln + la
      /\ \A i \in 1..lb : u[i] = b[i]
      /\ \A k \in 1..ln : u[lb + k] = n[k]
      /\ \A k \in 1..la : u[lb + ln + k] = a[k]
  BY ThreeParts
<1>3. /\ Len(t) = lb + ln + la
      /\ \A i \in 1..lb : t[i] = b[i]
      /\ \A k \in 1..ln : t[lb + k] = n[k]
      /\ \A k \in 1..la : t[lb + ln + k] = a[k]
  BY DEF Laid
<1>4. ASSUME NEW p \in 1..lb + ln + la  PROVE t[p] = u[p]
  <2>1. CASE p \in 1..lb
    BY <1>2, <1>3, <2>1
  <2>2. CASE p - lb \in 1..ln
    <3> PICK k : k = p - lb
      OBVIOUS
    <3>1. k \in 1..ln /\ p = lb + k
      BY <1>1, <2>2
    <3> QED
      BY <1>2, <1>3, <3>1
  <2>3. CASE p - lb - ln \in 1..la
    <3> PICK k : k = p - lb - ln
      OBVIOUS
    <3>1. k \in 1..la /\ p = lb + ln + k
      BY <1>1, <2>3
    <3> QED
      BY <1>2, <1>3, <3>1
  <2>4. p \in 1..lb \/ p - lb \in 1..ln \/ p - lb - ln \in 1..la
    BY <1>1
  <2> QED
    BY <2>1, <2>2, <2>3, <2>4
<1> QED
  BY <1>2, <1>3, <1>4, SeqEqual

\* The new content between the text before and the text behind.
Put(b, n, a) == (b \o n) \o a

\* s is the first m of t.
Begins(s, t, m) == Len(s) = m /\ \A k \in 1..m : s[k] = t[k]

\* The decoded text is that before, what is kept of the new content, and that behind.
LEMMA DecodedParts ==
  ASSUME NEW b \in PlainTexts, NEW new \in Texts, NEW a \in PlainTexts,
         NEW text, text = Put(b, new, a),
         NEW middle \in Seq(Characters), Begins(middle, Decode(new), Cardinality(KeptOf(new, a)))
  PROVE  Decode(text) = Put(b, middle, a)
<1> PICK lb, n, la, K, S, m : /\ lb = Len(b) /\ n = Len(new) /\ la = Len(a) /\ K = KeptOf(new, a)
                              /\ S = Kept(text) /\ m = Cardinality(K)
  OBVIOUS
<1>1. b \in Seq(Characters) /\ new \in Seq(Characters) /\ a \in Seq(Characters)
  BY DEF Texts, PlainTexts
<1>2. lb \in Nat /\ n \in Nat /\ la \in Nat
  BY <1>1, LenProperties
<1>3. /\ \A i \in 1..lb : text[i] = b[i]
      /\ \A k \in 1..n : text[lb + k] = new[k]
      /\ \A k \in 1..la : text[lb + n + k] = a[k]
  BY <1>1, ThreeParts DEF Put
<1>4. text \in Texts /\ S = Spread(lb, n, la, K)
  BY KeptParts DEF Put
<1>5. /\ K \subseteq 1..n /\ m \in Nat
      /\ \A k \in 1..m : /\ Ascending(K)[k] \in 1..n
                         /\ Decode(new)[k] = Norm(new[Ascending(K)[k]])
  <2>1. new \in Texts
    OBVIOUS
  <2>2. \A k_, m_ : k_ = KeptOf(new, a) /\ m_ = Cardinality(k_) =>
          /\ k_ \subseteq 1..Len(new) /\ m_ \in Nat
          /\ \A k \in 1..m_ : /\ Ascending(k_)[k] \in 1..Len(new)
                              /\ Decode(new)[k] = Norm(new[Ascending(k_)[k]])
    BY ONLY <2>1, KeptOfFacts
  <2> QED
    BY <2>2
<1> PICK at : at = Ascending(S)
  OBVIOUS
<1>6. /\ Cardinality(S) = lb + m + la
      /\ \A p \in 1..lb : at[p] = p
      /\ \A k \in 1..m : at[lb + k] = lb + Ascending(K)[k]
      /\ \A k \in 1..la : at[lb + m + k] = lb + n + k
  <2> PICK mid : mid = Ascending(K)
    OBVIOUS
  <2>1. K \subseteq 1..n
    BY <1>5
  <2>2. /\ m \in Nat /\ Cardinality(S) = lb + m + la
        /\ \A p \in 1..lb : Ascending(S)[p] = p
        /\ \A k \in 1..m : Ascending(S)[lb + k] = lb + mid[k]
        /\ \A k \in 1..la : Ascending(S)[lb + m + k] = lb + n + k
    <3>1. S = Spread(lb, n, la, K) /\ m = Cardinality(K) /\ mid = Ascending(K) /\ Within(K, n)
      BY <1>4, <1>5 DEF Within
    <3>2. InOrder(Ascending(S), Cardinality(S), lb, n, la, m, mid)
      BY ONLY <1>2, <3>1, AscendingParts
    <3> QED
      BY <3>2 DEF InOrder
  <2> QED
    BY <2>2
<1> PICK now : now = Decode(text)
  OBVIOUS
<1>7. /\ now \in Seq(Characters) /\ Len(now) = lb + m + la
      /\ \A p \in 1..lb + m + la : now[p] = Norm(text[at[p]])
  <2>1. /\ Decode(text) \in Texts /\ Len(Decode(text)) = Cardinality(Kept(text))
        /\ \A p \in 1..Cardinality(Kept(text)) :
             Decode(text)[p] = Norm(text[Ascending(Kept(text))[p]])
    <3>1. text \in Texts
      BY <1>4
    <3> QED
      BY ONLY <3>1, DecodeFacts DEF Norm
  <2>2. Cardinality(Kept(text)) = lb + m + la
    BY <1>6
  <2>3. /\ now \in Texts /\ Len(now) = lb + m + la
        /\ \A p \in 1..lb + m + la : now[p] = Norm(text[at[p]])
    BY <2>1, <2>2
  <2> QED
    BY <2>3 DEF Texts
<1>9. ASSUME NEW p \in 1..lb  PROVE now[p] = b[p]
  <2>1. p \in 1..lb + m + la
    BY <1>2, <1>5
  <2>2. b[p] # "cr"
    BY DEF PlainTexts
  <2>3. now[p] = Norm(b[p])
    <3>1. now[p] = Norm(text[at[p]])
      BY <1>7, <2>1
    <3>2. at[p] = p /\ text[p] = b[p]
      BY <1>3, <1>6
    <3> QED
      BY <3>1, <3>2
  <2> QED
    BY <2>2, <2>3 DEF Norm
<1>10. ASSUME NEW k \in 1..m  PROVE now[lb + k] = middle[k]
  <2>1. lb + k \in 1..lb + m + la
    BY <1>2, <1>5
  <2> PICK i : i = Ascending(K)[k]
    OBVIOUS
  <2>2. i \in 1..n /\ Decode(new)[k] = Norm(new[i])
    BY <1>5
  <2>3. at[lb + k] = lb + i /\ text[lb + i] = new[i]
    BY <1>3, <1>6, <2>2
  <2>4. now[lb + k] = Norm(new[i])
    <3>1. now[lb + k] = Norm(text[at[lb + k]])
      BY <1>7, <2>1
    <3> QED
      BY <2>3, <3>1
  <2>5. middle[k] = Decode(new)[k]
    BY DEF Begins
  <2> QED
    BY <2>2, <2>4, <2>5
<1>11. ASSUME NEW k \in 1..la  PROVE now[lb + m + k] = a[k]
  <2>1. lb + m + k \in 1..lb + m + la
    BY <1>2, <1>5
  <2>2. a[k] # "cr"
    BY DEF PlainTexts
  <2>3. at[lb + m + k] = lb + n + k /\ text[lb + n + k] = a[k]
    BY <1>3, <1>6
  <2>4. now[lb + m + k] = Norm(a[k])
    <3>1. now[lb + m + k] = Norm(text[at[lb + m + k]])
      BY <1>7, <2>1
    <3> QED
      BY <2>3, <3>1
  <2> QED
    BY <2>2, <2>4 DEF Norm
<1>12. Laid(now, b, middle, a)
  BY <1>7, <1>9, <1>10, <1>11 DEF Laid, Begins
<1>13. now = Put(b, middle, a)
  BY <1>1, <1>7, <1>12, LaidOnce DEF Put
<1> QED
  BY <1>13

\* Texts put together may be grouped in any way.
Grouped(s, t, u) == (s \o t) \o u = s \o (t \o u)

LEMMA ConcatGroups == \A S : \A s, t, u \in Seq(S) : Grouped(s, t, u)
BY ConcatAssociative, Zenon DEF Grouped

\* A part may move from one text to the next.
Moves(b, m, one, a) == (b \o m) \o (one \o a) = (b \o (m \o one)) \o a

LEMMA MoveOne ==
  ASSUME NEW S, NEW b \in Seq(S), NEW m \in Seq(S), NEW one \in Seq(S), NEW a \in Seq(S)
  PROVE  Moves(b, m, one, a)
<1>1. b \in Seq(S) /\ m \in Seq(S) /\ one \in Seq(S) /\ a \in Seq(S) /\ b \o m \in Seq(S)
  BY ConcatProperties
<1>2. Grouped(b \o m, one, a) /\ Grouped(b, m, one)
  BY ONLY <1>1, ConcatGroups
<1> QED
  BY <1>2 DEF Moves, Grouped

\* One element of a sequence as a sequence.
LEMMA OneOf ==
  ASSUME NEW S, NEW s \in Seq(S), NEW p \in 1..Len(s)
  PROVE  SubSeq(s, p, p) = <<s[p]>>
<1> PICK t, u : t = SubSeq(s, p, p) /\ u = <<s[p]>>
  OBVIOUS
<1>1. p \in Int /\ s[p] \in S
  OBVIOUS
<1>2. \A i \in p..p : s[i] \in S
  BY <1>1
<1>3. t \in Seq(S) /\ Len(t) = (IF p <= p THEN p - p + 1 ELSE 0) /\ \A i \in 1..p - p + 1 : t[i] = s[p + i - 1]
  BY <1>1, <1>2, SubSeqProperties
<1>4. p <= p /\ p - p + 1 = 1 /\ p + 1 - 1 = p /\ 1 \in 1..1
  BY <1>1
<1>5. Len(t) = 1 /\ t[1] = s[p]
  <2>1. Len(t) = 1
    BY <1>3, <1>4
  <2>2. \A i \in 1..1 : t[i] = s[p + i - 1]
    BY <1>3, <1>4
  <2>3. t[1] = s[p + 1 - 1]
    BY <1>4, <2>2
  <2> QED
    BY <1>4, <2>1, <2>3
<1>6. u \in Seq(S) /\ Len(u) = 1 /\ u[1] = s[p]
  BY <1>1
<1>7. \A i \in 1..Len(t) : t[i] = u[i]
  BY <1>5, <1>6
<1> QED
  BY <1>3, <1>5, <1>6, <1>7, SeqEqual

\* An edit decoded is the text before, the new content decoded, and the text
\* behind, whose first lf a cr before it has taken.
LEMMA EditDecoded ==
  ASSUME NEW b \in PlainTexts, NEW new \in Texts, NEW a \in PlainTexts,
         NEW text, text = Put(b, new, a)
  PROVE  Decode(text) = Put(b, Decode(new), IF Joined(new, a) THEN Tail(a) ELSE a)
<1> PICK m, whole : m = Cardinality(KeptOf(new, a)) /\ whole = Decode(new)
  OBVIOUS
<1>0. /\ b \in PlainTexts /\ new \in Texts /\ a \in PlainTexts
      /\ text = Put(b, new, a) /\ m = Cardinality(KeptOf(new, a))
  OBVIOUS
<1>1. whole \in Seq(Characters) /\ b \in Seq(Characters) /\ a \in Seq(Characters)
  BY DecodeFacts DEF Texts, PlainTexts
<1>2. m \in Nat /\ (Joined(new, a) => Len(whole) = m + 1 /\ whole[m + 1] = "lf")
      /\ (~Joined(new, a) => Len(whole) = m)
  BY KeptOfFacts
<1>3. CASE ~Joined(new, a)
  <2>1. Begins(whole, Decode(new), m)
    BY <1>2, <1>3 DEF Begins
  <2>2. Decode(text) = Put(b, whole, a)
    BY ONLY <1>0, <1>1, <2>1, DecodedParts
  <2> QED
    BY <1>3, <2>2
<1>4. CASE Joined(new, a)
  <2> PICK middle, one, rest : middle = SubSeq(whole, 1, m) /\ one = <<"lf">> /\ rest = Tail(a)
    OBVIOUS
  <2>1. a # <<>> /\ a[1] = "lf"
    BY <1>4 DEF Joined
  <2>2. rest \in Seq(Characters) /\ a = one \o rest
    BY <1>1, <2>1
  <2>3. middle \in Seq(Characters) /\ Len(middle) = m /\ \A k \in 1..m : middle[k] = whole[k]
    <3>1. \A i \in 1..m : whole[i] \in Characters
      BY <1>1, <1>2, <1>4
    <3> QED
      BY <1>2, <3>1, SubSeqProperties
  <2>4. whole = middle \o one
    <3>1. whole = SubSeq(whole, 1, m + 1)
      BY <1>1, <1>2, <1>4, SubSeqFull
    <3>2. SubSeq(whole, 1, m) \o SubSeq(whole, m + 1, m + 1) = SubSeq(whole, 1, m + 1)
      <4>1. 1 \in 1..Len(whole) + 1 /\ m \in 1 - 1..Len(whole) /\ m + 1 \in m..Len(whole)
        BY <1>2, <1>4
      <4> QED
        BY <1>1, <4>1, ConcatAdjacentSubSeq
    <3>3. SubSeq(whole, m + 1, m + 1) = one
      <4>1. m + 1 \in 1..Len(whole) /\ whole[m + 1] = "lf"
        BY <1>2, <1>4
      <4>2. SubSeq(whole, m + 1, m + 1) = <<whole[m + 1]>>
        BY <1>1, <4>1, OneOf
      <4> QED
        BY <4>1, <4>2
    <3> QED
      BY <3>1, <3>2, <3>3
  <2>5. Decode(text) = Put(b, middle, a)
    <3>1. Begins(middle, Decode(new), m)
      BY <2>3 DEF Begins
    <3> QED
      BY ONLY <1>0, <2>3, <3>1, DecodedParts
  <2>6. (b \o middle) \o (one \o rest) = (b \o (middle \o one)) \o rest
    <3>1. one \in Seq(Characters)
      BY FileToolsAssumption
    <3>2. middle \in Seq(Characters) /\ rest \in Seq(Characters)
      BY <2>2, <2>3
    <3> QED
      <4>1. Moves(b, middle, one, rest)
        BY ONLY <1>1, <3>1, <3>2, MoveOne
      <4> QED
        BY <4>1 DEF Moves
  <2>7. Decode(text) = Put(b, whole, rest)
    BY <2>2, <2>4, <2>5, <2>6 DEF Put
  <2> QED
    BY <1>4, <2>7
<1> QED
  BY <1>3, <1>4

\* An edit leaves the text around the new content as it was read, and the new
\* content is read back as it was given, line ends apart: whoever reads the file
\* next has the three parts, but for one lf when a cr at the end of the new
\* content meets it.
THEOREM TheRestIsKept == Spec => RestIsKept
<1>1. ToolsInv /\ [Next]_vars =>
        \A r \in Runs : pc[r] = "replace" /\ pc'[r] = "written" /\ job[r].seen # <<>> =>
          LET j == job[r]
              before == SubSeq(j.seen, 1, j.at - 1)
              after == SubSeq(j.seen, j.at + Len(j.old), Len(j.seen))
              joined == j.new # <<>> /\ j.new[Len(j.new)] = "cr" /\ after # <<>> /\ after[1] = "lf"
          IN  Decode(file') = before \o Decode(j.new) \o (IF joined THEN Tail(after) ELSE after)
  <2> SUFFICES ASSUME ToolsInv, [Next]_vars, NEW r \in Runs,
                      pc[r] = "replace", pc'[r] = "written", job[r].seen # <<>>
               PROVE  LET j == job[r]
                          before == SubSeq(j.seen, 1, j.at - 1)
                          after == SubSeq(j.seen, j.at + Len(j.old), Len(j.seen))
                      IN  Decode(file') = (before \o Decode(j.new))
                                            \o (IF Joined(j.new, after) THEN Tail(after) ELSE after)
    BY DEF Joined
  <2> PICK seen, old, new, at, b, a :
        /\ seen = job[r].seen /\ old = job[r].old /\ new = job[r].new /\ at = job[r].at
        /\ b = SubSeq(seen, 1, at - 1) /\ a = SubSeq(seen, at + Len(old), Len(seen))
    OBVIOUS
  <2> PICK text, now : text = job[r].text /\ now = file'
    OBVIOUS
  <2>1. now = text /\ job[r] \in Jobs /\ EditReady(r)
    BY WrittenByReplace
  <2>2. /\ seen \in Texts /\ old \in Texts /\ new \in Texts
        /\ seen \in PlainTexts /\ Edited(seen, old, new, text, at)
    BY <2>1, Passed DEF Jobs, EditReady, PlainTexts
  <2>3. old # <<>> /\ at \in Occurrences(seen, old) /\ text = Put(b, new, a)
    BY <2>2 DEF Edited, Put
  <2>4. at \in 1..Len(seen) /\ Len(old) \in Nat \ {0} /\ Len(seen) \in Nat
    BY <2>2, <2>3, OccurrencesFacts, TextFacts
  <2>5. \A k \in 1..Len(seen) : seen[k] \in Characters \ {"cr"}
    BY <2>2 DEF PlainTexts
  <2>6. b \in PlainTexts /\ a \in PlainTexts
    <3>1. \A k \in 1..at - 1 : seen[k] \in Characters \ {"cr"}
      <4>1. \A k \in 1..at - 1 : k \in 1..Len(seen)
        BY <2>4
      <4> QED
        BY <2>5, <4>1
    <3>2. \A k \in at + Len(old)..Len(seen) : seen[k] \in Characters \ {"cr"}
      BY <2>4, <2>5
    <3>3. 1 \in Int /\ at - 1 \in Int /\ at + Len(old) \in Int /\ Len(seen) \in Int
      BY <2>4
    <3>4. b \in PlainTexts
      BY <3>1, <3>3, SubSeqProperties DEF PlainTexts
    <3>5. a \in PlainTexts
      BY <3>2, <3>3, SubSeqProperties DEF PlainTexts
    <3> QED
      BY <3>4, <3>5
  <2>7. Decode(text) = Put(b, Decode(new), IF Joined(new, a) THEN Tail(a) ELSE a)
    BY ONLY <2>2, <2>3, <2>6, EditDecoded
  <2> QED
    BY <2>1, <2>7 DEF Put
<1> QED
  BY <1>1, ToolsInvHolds, PTL DEF Spec, RestIsKept

===============================================================================
