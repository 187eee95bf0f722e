---------------------------- MODULE ListDirProofs ------------------------------
(***************************************************************************)
(* What list_dir promises, for a workspace of any size and shape and for   *)
(* any limits.                                                             *)
(***************************************************************************)
EXTENDS ListDir, SequenceTheorems, FiniteSetTheorems, FunctionTheorems, WellFoundedInduction, TLAPS

-------------------------------------------------------------------------------
(* Recursion.                                                              *)

\* Natural numbers, if there are any, have a least one.
LEMMA NatMinimum ==
  ASSUME NEW S, S \subseteq Nat, S # {}
  PROVE  \E x \in S : \A y \in S : x <= y
<1>1. PICK x \in S : \A y \in S : ~(<<y, x>> \in OpToRel(<, Nat))
  BY NatLessThanWellFounded, WFMin
<1>2. \A y \in S : ~(y < x)
  BY <1>1 DEF OpToRel
<1> QED
  BY <1>2

\* Among members of D that have a rank, there is one of the least.
LEMMA LeastRank ==
  ASSUME NEW D, NEW rank \in [D -> Nat], NEW S, S \subseteq D, S # {}
  PROVE  \E x \in S : \A y \in S : rank[x] <= rank[y]
<1> PICK R : R = {rank[x] : x \in S}
  OBVIOUS
<1>1. R \subseteq Nat /\ R # {}
  OBVIOUS
<1>2. PICK r \in R : \A q \in R : r <= q
  BY <1>1, NatMinimum
<1> QED
  BY <1>2

\* f and g agree on what has a lower rank than x.
SameBelow(f, g, D, rank, x) == \A y \in D : rank[y] < rank[x] => f[y] = g[y]

\* step computes a value from those of lower rank; ranks go up to N.
Descends(step, D, S, rank, N) ==
  /\ rank \in [D -> 0..N]
  /\ step \in [[D -> S] \X D -> S]
  /\ \A x \in D : \A f, g \in [D -> S] :
       SameBelow(f, g, D, rank, x) => step[<<f, x>>] = step[<<g, x>>]

\* f is what step computes, for ranks below n.
Computed(f, step, D, S, rank, n) ==
  f \in [D -> S] /\ \A x \in D : rank[x] < n => f[x] = step[<<f, x>>]

\* f is what step computes.
Solves(f, step, D, S) == f \in [D -> S] /\ \A x \in D : f[x] = step[<<f, x>>]

\* A recursion that descends in rank defines a function: were there a rank at
\* which it fails, the function for the lower ones could be continued.
LEMMA RecursionExists ==
  ASSUME NEW D, NEW S, S # {}, NEW N \in Nat, NEW rank,
         NEW step, Descends(step, D, S, rank, N)
  PROVE  \E f : Solves(f, step, D, S)
<1>0. rank \in [D -> 0..N]
  BY DEF Descends
<1> PICK Bad : Bad = {n \in 0..N + 1 : ~\E f : Computed(f, step, D, S, rank, n)}
  OBVIOUS
<1>1. Bad = {}
  <2> SUFFICES ASSUME Bad # {}  PROVE FALSE
    OBVIOUS
  <2>1. Bad \subseteq Nat
    OBVIOUS
  <2>2. PICK n \in Bad : \A m \in Bad : n <= m
    BY <2>1, NatMinimum
  <2>3. n \in 0..N + 1 /\ n \in Nat
    OBVIOUS
  <2>4. CASE n = 0
    <3> PICK s \in S : TRUE
      OBVIOUS
    <3> PICK f : f = [x \in D |-> s]
      OBVIOUS
    <3>1. Computed(f, step, D, S, rank, n)
      BY <1>0, <2>4 DEF Computed
    <3> QED
      BY <3>1
  <2>5. CASE n # 0
    <3>1. n - 1 \in 0..N + 1 /\ n - 1 \notin Bad
      BY <2>2, <2>3, <2>5
    <3>2. PICK f : Computed(f, step, D, S, rank, n - 1)
      BY <3>1
    <3>3. f \in [D -> S] /\ \A x \in D : rank[x] < n - 1 => f[x] = step[<<f, x>>]
      BY <3>2 DEF Computed
    <3> PICK g : g = [x \in D |-> IF rank[x] < n THEN step[<<f, x>>] ELSE f[x]]
      OBVIOUS
    <3>4. step \in [[D -> S] \X D -> S]
      BY DEF Descends
    <3>5. g \in [D -> S]
      BY <3>3, <3>4
    <3>6. ASSUME NEW x \in D, rank[x] < n  PROVE g[x] = step[<<g, x>>]
      <4>1. ASSUME NEW y \in D, rank[y] < rank[x]  PROVE f[y] = g[y]
        <5>1. rank[y] \in Nat /\ rank[x] \in Nat
          BY <1>0
        <5>2. rank[y] < n /\ rank[y] < n - 1
          BY <2>3, <3>6, <4>1, <5>1
        <5> QED
          BY <3>3, <5>2
      <4>2. SameBelow(f, g, D, rank, x)
        BY <4>1 DEF SameBelow
      <4>3. step[<<f, x>>] = step[<<g, x>>]
        BY <3>3, <3>5, <4>2 DEF Descends
      <4> QED
        BY <3>6, <4>3
    <3>7. Computed(g, step, D, S, rank, n)
      BY <3>5, <3>6 DEF Computed
    <3> QED
      BY <3>7
  <2> QED
    BY <2>4, <2>5
<1>2. N + 1 \in 0..N + 1 /\ \A x \in D : rank[x] < N + 1
  BY <1>0
<1>3. PICK f : Computed(f, step, D, S, rank, N + 1)
  BY <1>1, <1>2
<1> QED
  BY <1>2, <1>3 DEF Computed, Solves

-------------------------------------------------------------------------------
(* Numbers in order.                                                       *)

\* The members of S up to i.
UpTo(S, i) == {j \in S : j <= i}
Numbers(S) == IsFiniteSet(S) /\ \A x \in S : x \in Int
OneToOne(f, S) == \A i, j \in S : f[i] = f[j] => i = j
Reaches(f, S, T) == \A t \in T : \E i \in S : f[i] = t

\* A number is found among the others by how many are not above it.
LEMMA UpToStep ==
  ASSUME NEW S, Numbers(S), NEW i \in S, NEW j \in S, i < j
  PROVE  /\ Cardinality(UpTo(S, i)) \in 1..Cardinality(S)
         /\ Cardinality(UpTo(S, i)) < Cardinality(UpTo(S, j))
<1> USE DEF Numbers
<1>0. i \in Int /\ j \in Int
  OBVIOUS
<1>1. UpTo(S, i) \in SUBSET UpTo(S, j) /\ UpTo(S, j) \in SUBSET S
  <2>1. ASSUME NEW x \in UpTo(S, i)  PROVE x \in UpTo(S, j)
    BY <1>0 DEF UpTo
  <2>2. UpTo(S, j) \subseteq S
    BY DEF UpTo
  <2> QED
    BY <2>1, <2>2
<1>2. IsFiniteSet(UpTo(S, j)) /\ IsFiniteSet(UpTo(S, i))
  BY <1>1, FS_Subset
<1>3. j \in UpTo(S, j) /\ j \notin UpTo(S, i) /\ i \in UpTo(S, i)
  BY <1>0 DEF UpTo
<1>4. Cardinality(UpTo(S, i)) <= Cardinality(UpTo(S, j))
      /\ Cardinality(UpTo(S, i)) # Cardinality(UpTo(S, j))
  BY <1>1, <1>2, <1>3, FS_Subset
<1>5. Cardinality(UpTo(S, j)) <= Cardinality(S)
  BY <1>1, FS_Subset
<1>6. Cardinality(UpTo(S, i)) # 0
  BY <1>2, <1>3, FS_EmptySet
<1>7. Cardinality(UpTo(S, i)) \in Nat /\ Cardinality(UpTo(S, j)) \in Nat /\ Cardinality(S) \in Nat
  BY <1>2, FS_CardinalityType
<1> QED
  BY <1>4, <1>5, <1>6, <1>7

\* There are members of S up to a member, and no more than S has.
LEMMA UpToType ==
  ASSUME NEW S, Numbers(S), NEW i \in S
  PROVE  Cardinality(UpTo(S, i)) \in 1..Cardinality(S)
<1> USE DEF Numbers
<1>1. UpTo(S, i) \in SUBSET S /\ i \in UpTo(S, i)
  BY DEF UpTo
<1>2. IsFiniteSet(UpTo(S, i)) /\ Cardinality(UpTo(S, i)) <= Cardinality(S)
  BY <1>1, FS_Subset
<1>3. Cardinality(UpTo(S, i)) # 0
  BY <1>1, <1>2, FS_EmptySet
<1>4. Cardinality(UpTo(S, i)) \in Nat /\ Cardinality(S) \in Nat
  BY <1>2, FS_CardinalityType
<1> QED
  BY <1>2, <1>3, <1>4

\* Injections between finite sets of one size reach everything.
LEMMA AllReached ==
  ASSUME NEW S, NEW T, IsFiniteSet(S), IsFiniteSet(T), Cardinality(S) = Cardinality(T),
         NEW f \in [S -> T], OneToOne(f, S)
  PROVE  Reaches(f, S, T)
<1>1. f \in Injection(S, T)
  BY Fun_IsInj DEF OneToOne
<1>2. f \in Surjection(S, T)
  BY <1>1, FS_Injection
<1> QED
  BY <1>2, Fun_SurjectionProperties DEF Reaches

\* As many members as places in a list without repetition.
LEMMA Counted ==
  ASSUME NEW T, NEW n \in Nat, NEW f \in [1..n -> T], OneToOne(f, 1..n), Reaches(f, 1..n, T)
  PROVE  IsFiniteSet(T) /\ Cardinality(T) = n
<1> PICK S : S = 1..n
  OBVIOUS
<1>1. f \in Bijection(S, T)
  BY Fun_IsBij DEF OneToOne, Reaches
<1>2. ExistsBijection(S, T)
  BY <1>1 DEF ExistsBijection
<1>3. IsFiniteSet(S) /\ Cardinality(S) = n
  BY FS_Interval
<1> QED
  BY <1>2, <1>3, FS_Bijection

\* Every place is taken: the counts are all different.
LEMMA PlaceTaken ==
  ASSUME NEW S, Numbers(S), NEW k \in 1..Cardinality(S)
  PROVE  \E i \in S : Cardinality(UpTo(S, i)) = k
<1> PICK n : n = Cardinality(S)
  OBVIOUS
<1>1. n \in Nat
  BY FS_CardinalityType DEF Numbers
<1> PICK place : place = [i \in S |-> Cardinality(UpTo(S, i))]
  OBVIOUS
<1>2. place \in [S -> 1..n]
  BY UpToType
<1>3. ASSUME NEW i \in S, NEW j \in S, place[i] = place[j]  PROVE i = j
  <2>1. ~(i < j)
    BY <1>1, <1>3, UpToStep
  <2>2. ~(j < i)
    BY <1>1, <1>3, UpToStep
  <2>3. i \in Int /\ j \in Int
    BY DEF Numbers
  <2> QED
    BY <2>1, <2>2, <2>3
<1>4. OneToOne(place, S)
  BY <1>3 DEF OneToOne
<1>5. Reaches(place, S, 1..n)
  <2> PICK T : T = 1..n
    OBVIOUS
  <2>1. IsFiniteSet(T) /\ Cardinality(T) = Cardinality(S) /\ place \in [S -> T]
    BY <1>1, <1>2, FS_Interval
  <2>2. Reaches(place, S, T)
    BY <1>4, <2>1, AllReached DEF Numbers
  <2> QED
    BY <2>2
<1>6. PICK i \in S : place[i] = k
  BY <1>5 DEF Reaches
<1> QED
  BY <1>6

\* Ascending lists all members, and each at its place.
LEMMA AscendingType ==
  ASSUME NEW S, Numbers(S)
  PROVE  /\ Cardinality(S) \in Nat
         /\ Ascending(S) \in Seq(S) /\ Len(Ascending(S)) = Cardinality(S)
         /\ DOMAIN Ascending(S) = 1..Cardinality(S)
         /\ \A k \in 1..Cardinality(S) : /\ Ascending(S)[k] \in S
                                         /\ Cardinality(UpTo(S, Ascending(S)[k])) = k
<1>1. Cardinality(S) \in Nat
  BY FS_CardinalityType DEF Numbers
<1>2. Ascending(S) = [k \in 1..Cardinality(S) |-> CHOOSE i \in S : Cardinality(UpTo(S, i)) = k]
  BY DEF Ascending, UpTo
<1>3. ASSUME NEW k \in 1..Cardinality(S)
      PROVE  Ascending(S)[k] \in S /\ Cardinality(UpTo(S, Ascending(S)[k])) = k
  <2>1. Ascending(S)[k] = CHOOSE i \in S : Cardinality(UpTo(S, i)) = k
    BY <1>2
  <2> QED
    BY <2>1, PlaceTaken
<1>4. Ascending(S) \in Seq(S) /\ Len(Ascending(S)) = Cardinality(S)
  BY <1>1, <1>2, <1>3
<1> QED
  BY <1>1, <1>2, <1>3, <1>4


-------------------------------------------------------------------------------
(* The tree.                                                               *)

\* The workspaces that Init admits.
IsTree ==
  /\ parent \in [Paths -> 0..Nodes - 1] /\ \A n \in Paths : parent[n] < n
  /\ kind \in [Paths -> {"file", "dir", "unreadable", "filtered"}]
  /\ \A n \in Paths : parent[n] # Root => kind[parent[n]] = "dir"
  /\ src \in {Root} \cup {n \in Paths : kind[n] = "dir"}

Folders == 0..Nodes

\* S has the entries of d, and those of its own members.
Closed(d, S) == IncludedChildren(d) \subseteq S /\ \A m \in S : IncludedChildren(m) \subseteq S

\* What lies below d and is not filtered.
Below(d) == {n \in Paths : \A S \in SUBSET Paths : Closed(d, S) => n \in S}

\* An entry lies behind its directory, and only directories have entries.
LEMMA ChildrenFacts ==
  ASSUME IsTree, NEW d \in Folders
  PROVE  /\ IncludedChildren(d) \subseteq Paths
         /\ \A n \in IncludedChildren(d) : n \in Folders /\ n > d /\ parent[n] = d
         /\ IncludedChildren(d) # {} => IsDir(d) /\ (d # Root => kind[d] = "dir")
<1>1. ASSUME NEW n \in IncludedChildren(d)  PROVE n \in Paths /\ n > d /\ parent[n] = d
  BY DEF IsTree, IncludedChildren
<1>2. \A n \in Paths : n \in Folders
  BY ListDirAssumption DEF Paths, Folders
<1>3. ASSUME IncludedChildren(d) # {}  PROVE IsDir(d) /\ (d # Root => kind[d] = "dir")
  <2>1. PICK n \in IncludedChildren(d) : TRUE
    BY <1>3
  <2> QED
    BY <1>1, <2>1 DEF IsTree, IsDir
<1> QED
  BY <1>1, <1>2, <1>3

\* Below(d) is closed, and the least such set.
LEMMA BelowLeast ==
  ASSUME IsTree, NEW d \in Folders
  PROVE  /\ Below(d) \subseteq Paths /\ Closed(d, Below(d))
         /\ \A S \in SUBSET Paths : Closed(d, S) => Below(d) \subseteq S
<1>1. \A n \in Paths : n \in Folders
  BY ListDirAssumption DEF Paths, Folders
<1>2. IncludedChildren(d) \subseteq Below(d)
  BY ChildrenFacts DEF Below, Closed
<1>3. ASSUME NEW m \in Below(d), NEW n \in IncludedChildren(m)  PROVE n \in Below(d)
  <2>1. m \in Paths /\ n \in Paths
    BY <1>1, ChildrenFacts DEF Below
  <2>2. ASSUME NEW S \in SUBSET Paths, Closed(d, S)  PROVE n \in S
    <3>1. m \in S
      BY <2>2 DEF Below
    <3> QED
      BY <2>2, <3>1 DEF Closed
  <2> QED
    BY <2>1, <2>2 DEF Below
<1>4. Closed(d, Below(d))
  BY <1>2, <1>3 DEF Closed
<1> QED
  BY <1>4 DEF Below

\* What is below d lies behind it, and so does its directory, unless that is d.
LEMMA BelowParent ==
  ASSUME IsTree, NEW d \in Folders, NEW n \in Below(d)
  PROVE  n \in Folders /\ n > d /\ (parent[n] = d \/ parent[n] \in Below(d))
<1> PICK S : S = {m \in Below(d) : m > d /\ (parent[m] = d \/ parent[m] \in Below(d))}
  OBVIOUS
<1>1. \A m \in Paths : m \in Folders
  BY ListDirAssumption DEF Paths, Folders
<1>2. Below(d) \subseteq Paths /\ Closed(d, Below(d))
  BY BelowLeast
<1>3. IncludedChildren(d) \subseteq S
  BY <1>2, ChildrenFacts DEF Closed
<1>4. ASSUME NEW m \in S, NEW c \in IncludedChildren(m)  PROVE c \in S
  <2>1. m \in Below(d) /\ m \in Folders /\ m > d
    BY <1>1, <1>2
  <2>2. c > m /\ parent[c] = m /\ c \in Folders /\ c \in Below(d)
    BY <1>2, <2>1, ChildrenFacts DEF Closed
  <2>3. c > d
    BY <2>1, <2>2 DEF Folders
  <2> QED
    BY <2>1, <2>2, <2>3
<1>5. Closed(d, S) /\ S \in SUBSET Paths
  BY <1>2, <1>3, <1>4 DEF Closed
<1>6. Below(d) \subseteq S
  BY <1>5, BelowLeast
<1> QED
  BY <1>1, <1>2, <1>6

\* What is below something below d is below d.
LEMMA BelowInside ==
  ASSUME IsTree, NEW d \in Folders, NEW c \in Below(d)
  PROVE  c \in Folders /\ Below(c) \subseteq Below(d)
<1>1. c \in Folders
  BY BelowParent
<1>2. Below(d) \in SUBSET Paths /\ Closed(c, Below(d))
  BY BelowLeast DEF Closed
<1> QED
  BY <1>1, <1>2, BelowLeast

\* Below d are its entries, and what is below them.
LEMMA BelowEntries ==
  ASSUME IsTree, NEW d \in Folders, NEW n
  PROVE  n \in Below(d) <=> \E c \in IncludedChildren(d) : n = c \/ n \in Below(c)
<1> PICK S : S = {m \in Paths : \E c \in IncludedChildren(d) : m = c \/ m \in Below(c)}
  OBVIOUS
<1>1. \A c \in IncludedChildren(d) : c \in Folders /\ c \in Paths /\ Below(c) \subseteq Paths
  BY ChildrenFacts, BelowLeast
<1>2. IncludedChildren(d) \subseteq S
  BY <1>1
<1>3. ASSUME NEW m \in S, NEW k \in IncludedChildren(m)  PROVE k \in S
  <2>1. PICK c \in IncludedChildren(d) : m = c \/ m \in Below(c)
    OBVIOUS
  <2>2. k \in Below(c)
    BY <1>1, <2>1, BelowLeast DEF Closed
  <2> QED
    BY <1>1, <2>2
<1>4. Below(d) \subseteq S
  BY <1>2, <1>3, BelowLeast DEF Closed
<1>5. ASSUME NEW c \in IncludedChildren(d), n = c \/ n \in Below(c)  PROVE n \in Below(d)
  <2>1. c \in Below(d)
    BY BelowLeast DEF Closed
  <2> QED
    BY <1>5, <2>1, BelowInside
<1> QED
  BY <1>4, <1>5

\* Two entries of d have nothing below them in common, and are not below each other.
LEMMA EntriesApart ==
  ASSUME IsTree, NEW d \in Folders, NEW c \in IncludedChildren(d), NEW e \in IncludedChildren(d)
  PROVE  /\ c \notin Below(e)
         /\ c # e => \A n \in Below(c) : n \notin Below(e)
<1>1. \A k \in IncludedChildren(d) : k \in Folders /\ k > d /\ parent[k] = d
  BY ChildrenFacts
<1>2. ASSUME NEW k \in IncludedChildren(d), NEW l \in IncludedChildren(d)  PROVE k \notin Below(l)
  <2> SUFFICES ASSUME k \in Below(l)  PROVE FALSE
    OBVIOUS
  <2>1. d = l \/ d \in Below(l)
    BY <1>1, BelowParent
  <2>2. l > d /\ d \in Folders /\ l \in Folders
    BY <1>1
  <2>3. d > l
    BY <2>1, <2>2, BelowParent DEF Folders
  <2> QED
    BY <2>2, <2>3 DEF Folders
<1>3. ASSUME c # e, NEW x \in Below(c), x \in Below(e)  PROVE FALSE
  <2> PICK Both : Both = Below(c) \cap Below(e)
    OBVIOUS
  <2>1. Both \subseteq Nat /\ Both # {} /\ c \in Folders /\ e \in Folders
    <3>1. Both \subseteq Folders /\ c \in Folders /\ e \in Folders
      BY <1>1, BelowParent
    <3> QED
      BY <1>3, <3>1 DEF Folders
  <2>2. PICK n \in Both : \A m \in Both : n <= m
    BY <2>1, NatMinimum
  <2>3. n \in Below(c) /\ n \in Below(e)
    OBVIOUS
  <2>4. parent[n] = c \/ parent[n] \in Below(c)
    BY <2>1, <2>3, BelowParent
  <2>5. parent[n] = e \/ parent[n] \in Below(e)
    BY <2>1, <2>3, BelowParent
  <2>6. parent[n] \in Both
    BY <1>2, <1>3, <2>4, <2>5
  <2>7. n \in Paths /\ parent[n] < n
    BY <2>1, <2>3, BelowLeast DEF IsTree
  <2>8. n \in Nat /\ parent[n] \in Nat /\ n <= parent[n]
    BY <2>1, <2>2, <2>6
  <2> QED
    BY <2>7, <2>8
<1> QED
  BY <1>2, <1>3

-------------------------------------------------------------------------------
(* Lists of paths.                                                         *)

\* Nothing occurs twice in s.
Distinct(s) == \A i, j \in DOMAIN s : s[i] = s[j] => i = j

\* A list of the members of T, each once.
Lists(s, T) == s \in Seq(Paths) /\ Set(s) = T /\ Distinct(s)

\* The indexes of a list of paths.
LEMMA ListIndexes ==
  ASSUME NEW s \in Seq(Paths)
  PROVE  /\ Len(s) \in Nat /\ DOMAIN s = 1..Len(s)
         /\ \A i \in 1..Len(s) : s[i] \in Paths /\ s[i] \in Set(s)
         /\ \A n \in Set(s) : \E i \in 1..Len(s) : n = s[i]
BY LenProperties, ElementOfSeq DEF Set

\* Lists of different paths make up one list.
LEMMA ConcatLists ==
  ASSUME NEW s, NEW S, Lists(s, S), NEW t, NEW T, Lists(t, T), \A n \in S : n \notin T
  PROVE  Lists(s \o t, S \cup T)
<1> PICK u, l, m : u = s \o t /\ l = Len(s) /\ m = Len(t)
  OBVIOUS
<1>1. s \in Seq(Paths) /\ t \in Seq(Paths) /\ Set(s) = S /\ Set(t) = T
  BY DEF Lists
<1>2. l \in Nat /\ m \in Nat /\ DOMAIN s = 1..l /\ DOMAIN t = 1..m
  BY <1>1, LenProperties
<1>3. /\ u \in Seq(Paths) /\ DOMAIN u = 1..l + m
      /\ \A i \in 1..l + m : u[i] = IF i <= l THEN s[i] ELSE t[i - l]
  BY <1>1, ConcatProperties, LenProperties
<1>4. \A i \in 1..l : s[i] \in S
  BY <1>1, <1>2 DEF Set
<1>5. \A i \in 1..m : t[i] \in T
  BY <1>1, <1>2 DEF Set
<1>6. ASSUME NEW i \in 1..l + m
      PROVE  \/ i \in 1..l /\ u[i] = s[i]
             \/ i > l /\ i - l \in 1..m /\ u[i] = t[i - l]
  BY <1>2, <1>3
<1>7. Set(u) \subseteq S \cup T
  BY <1>3, <1>4, <1>5, <1>6 DEF Set
<1>8. ASSUME NEW n \in S  PROVE n \in Set(u)
  <2>1. PICK i \in 1..l : n = s[i]
    BY <1>1, <1>2 DEF Set
  <2>2. i \in 1..l + m /\ u[i] = s[i]
    BY <1>2, <1>3
  <2> QED
    BY <1>3, <2>1, <2>2 DEF Set
<1>9. ASSUME NEW n \in T  PROVE n \in Set(u)
  <2>1. PICK i \in 1..m : n = t[i]
    BY <1>1, <1>2 DEF Set
  <2>2. i + l \in 1..l + m /\ u[i + l] = t[i]
    <3>1. i + l \in 1..l + m /\ ~(i + l <= l) /\ i + l - l = i
      BY <1>2
    <3> QED
      BY <1>3, <3>1
  <2> QED
    BY <1>3, <2>1, <2>2 DEF Set
<1>10. ASSUME NEW i \in 1..l + m, NEW j \in 1..l + m, u[i] = u[j]  PROVE i = j
  <2>1. \A k1, k2 \in 1..l : s[k1] = s[k2] => k1 = k2
    BY <1>2 DEF Lists, Distinct
  <2>2. \A k1, k2 \in 1..m : t[k1] = t[k2] => k1 = k2
    BY <1>2 DEF Lists, Distinct
  <2>3. CASE i \in 1..l /\ u[i] = s[i]
    <3>1. j \in 1..l /\ u[j] = s[j]
      BY <1>4, <1>5, <1>6, <1>10, <2>3
    <3> QED
      BY <1>10, <2>1, <2>3, <3>1
  <2>4. CASE i > l /\ i - l \in 1..m /\ u[i] = t[i - l]
    <3>1. j > l /\ j - l \in 1..m /\ u[j] = t[j - l]
      BY <1>4, <1>5, <1>6, <1>10, <2>4
    <3>2. i - l = j - l
      BY <1>10, <2>2, <2>4, <3>1
    <3> QED
      BY <1>2, <2>4, <3>1, <3>2
  <2> QED
    BY <1>6, <2>3, <2>4
<1>11. Set(u) = S \cup T
  BY <1>7, <1>8, <1>9
<1>12. Distinct(u)
  BY <1>3, <1>10 DEF Distinct
<1> QED
  BY <1>3, <1>11, <1>12 DEF Lists

\* One path makes up a list.
LEMMA OneListed ==
  ASSUME NEW n \in Paths
  PROVE  Lists(<<n>>, {n}) /\ Lists(<<>>, {})
<1>1. <<n>> \in Seq(Paths) /\ DOMAIN <<n>> = 1..1 /\ <<n>>[1] = n
  OBVIOUS
<1>2. <<>> \in Seq(Paths) /\ DOMAIN <<>> = 1..0
  OBVIOUS
<1>3. Lists(<<n>>, {n})
  BY <1>1 DEF Lists, Set, Distinct
<1>4. Lists(<<>>, {})
  BY <1>2 DEF Lists, Set, Distinct
<1> QED
  BY <1>3, <1>4

\* Ascending lists any set of paths.
LEMMA AscendingLists ==
  ASSUME NEW S, S \subseteq Paths
  PROVE  Lists(Ascending(S), S)
<1> PICK s, m : s = Ascending(S) /\ m = Cardinality(S)
  OBVIOUS
<1>1. Numbers(S)
  <2>1. IsFiniteSet(Paths)
    BY ListDirAssumption, FS_Interval DEF Paths
  <2>2. IsFiniteSet(S)
    BY <2>1, FS_Subset
  <2>3. \A x \in Paths : x \in Int
    BY DEF Paths
  <2> QED
    BY <2>2, <2>3 DEF Numbers
<1>2. /\ m \in Nat /\ s \in Seq(S) /\ DOMAIN s = 1..m
      /\ \A k \in 1..m : s[k] \in S /\ Cardinality(UpTo(S, s[k])) = k
  BY <1>1, AscendingType
<1>3. s \in Seq(Paths)
  BY <1>2, SeqMonotonic
<1>4. Distinct(s)
  BY <1>2 DEF Distinct
<1>5. ASSUME NEW n \in S  PROVE n \in Set(s)
  <2> PICK k : k = Cardinality(UpTo(S, n))
    OBVIOUS
  <2>1. k \in 1..m
    BY <1>1, UpToType
  <2>2. s[k] \in S /\ Cardinality(UpTo(S, s[k])) = k
    BY <1>2, <2>1
  <2>3. ~(s[k] < n) /\ ~(n < s[k])
    BY <1>1, <1>2, <2>1, <2>2, UpToStep
  <2>4. s[k] = n
    <3>1. s[k] \in Int /\ n \in Int
      BY <1>1, <2>2 DEF Numbers
    <3> QED
      BY <2>3, <3>1
  <2> QED
    BY <1>2, <2>1, <2>4 DEF Set
<1>6. Set(s) = S
  BY <1>2, <1>5 DEF Set
<1> QED
  BY <1>3, <1>4, <1>6 DEF Lists

\* A list is as long as it has members.
LEMMA ListLength ==
  ASSUME NEW s, NEW T, Lists(s, T)
  PROVE  /\ IsFiniteSet(T) /\ Len(s) = Cardinality(T) /\ Len(s) \in Nat
         /\ Len(s) <= Nodes
<1> PICK n : n = Len(s)
  OBVIOUS
<1>1. n \in Nat /\ s \in [1..n -> Paths] /\ DOMAIN s = 1..n
  BY LenProperties DEF Lists
<1>2. T \in SUBSET Paths /\ s \in [1..n -> T]
  BY <1>1 DEF Lists, Set
<1>3. OneToOne(s, 1..n) /\ Reaches(s, 1..n, T)
  BY <1>1 DEF Lists, Set, Distinct, OneToOne, Reaches
<1>4. IsFiniteSet(T) /\ Cardinality(T) = n
  BY <1>1, <1>2, <1>3, Counted
<1>5. IsFiniteSet(Paths) /\ Cardinality(Paths) = Nodes
  BY ListDirAssumption, FS_Interval DEF Paths
<1>6. Cardinality(T) <= Cardinality(Paths)
  BY <1>2, <1>5, FS_Subset
<1> QED
  BY <1>1, <1>4, <1>5, <1>6

\* The sorted children are the included ones.
LEMMA ChildrenListed ==
  ASSUME IsTree, NEW d \in Folders
  PROVE  Lists(SortChildren(d), IncludedChildren(d))
<1> PICK children, dirs, one, files, others :
      /\ children = IncludedChildren(d) /\ dirs = {n \in children : IsDir(n)}
      /\ one = children \cap {src} /\ files = children \ dirs /\ others = dirs \ {src}
  OBVIOUS
<1>1. children \subseteq Paths
  BY ChildrenFacts
<1>2. Lists(Ascending(one), one) /\ Lists(Ascending(files), files)
      /\ Lists(Ascending(others), others)
  BY <1>1, AscendingLists
<1> HIDE DEF IsDir
<1>3. src \in children => src \in dirs
  BY DEF IsTree, IsDir, IncludedChildren, Paths
<1>4. /\ \A n \in one : n \notin files
      /\ \A n \in one \cup files : n \notin others
      /\ (one \cup files) \cup others = children
  BY <1>3
<1>5. Lists(Ascending(one) \o Ascending(files), one \cup files)
  BY <1>2, <1>4, ConcatLists
<1>6. Lists((Ascending(one) \o Ascending(files)) \o Ascending(others), children)
  BY <1>2, <1>4, <1>5, ConcatLists
<1> QED
  BY <1>6 DEF SortChildren

-------------------------------------------------------------------------------
(* The walk.                                                               *)

\* The loop over d's children is at the k-th; deeper loops and later children
\* have a lower rank.
Rank(d, k) == (Nodes - d) * (Nodes + 2) + (Nodes + 1 - k)
Ranks == (Nodes + 1) * (Nodes + 2)
Numbering == 1..Nodes + 1

\* Every step of a loop goes down in rank.
LEMMA RankDescends ==
  ASSUME NEW d \in Folders, NEW k \in Numbering
  PROVE  /\ Ranks \in Nat /\ Rank(d, k) \in 0..Ranks
         /\ k <= Nodes => k + 1 \in Numbering /\ Rank(d, k + 1) < Rank(d, k)
         /\ \A c \in Folders, l \in Numbering : c > d => Rank(c, l) < Rank(d, k)
<1> PICK w : w = Nodes + 2
  OBVIOUS
<1>1. Nodes \in Nat /\ w \in Nat /\ w = Nodes + 2
  BY ListDirAssumption
<1>2. \A a, b \in Nat : a * w \in Nat /\ (a <= b => a * w <= b * w) /\ (a + 1) * w = a * w + w
  <2>1. ASSUME NEW a \in Nat, NEW b \in Nat, a <= b  PROVE a * w <= b * w
    <3> PICK e : e = b - a
      OBVIOUS
    <3>1. e \in Nat /\ b = a + e
      BY <2>1
    <3>2. (a + e) * w = a * w + e * w
      BY ONLY <1>1, <3>1, a \in Nat
    <3>3. e * w \in Nat /\ a * w \in Nat
      BY ONLY <1>1, <3>1, a \in Nat
    <3> QED
      BY <3>1, <3>2, <3>3
  <2>2. \A a \in Nat : a * w \in Nat /\ (a + 1) * w = a * w + w
    BY ONLY <1>1
  <2> QED
    BY <2>1, <2>2
<1> PICK p : p = Nodes - d
  OBVIOUS
<1>3. d \in Nat /\ d <= Nodes /\ p \in Nat /\ p <= Nodes
  BY <1>1 DEF Folders
<1>4. k \in Nat /\ 1 <= k /\ k <= Nodes + 1
  BY <1>1 DEF Numbering
<1>5. Rank(d, k) = p * w + (Nodes + 1 - k) /\ Ranks = (Nodes + 1) * w
  BY <1>1 DEF Rank, Ranks
<1>6. p * w \in Nat /\ p * w <= Nodes * w /\ (Nodes + 1) * w = Nodes * w + w /\ Nodes * w \in Nat
  BY <1>1, <1>2, <1>3
<1>7. Ranks \in Nat /\ Rank(d, k) \in 0..Ranks
  BY ONLY <1>1, <1>4, <1>5, <1>6
<1>8. ASSUME k <= Nodes  PROVE k + 1 \in Numbering /\ Rank(d, k + 1) < Rank(d, k)
  <2>1. Rank(d, k + 1) = p * w + (Nodes + 1 - (k + 1))
    BY <1>1 DEF Rank
  <2>2. k + 1 \in Numbering
    BY <1>1, <1>4, <1>8 DEF Numbering
  <2>3. Rank(d, k + 1) < Rank(d, k)
    BY ONLY <1>1, <1>4, <1>5, <1>6, <2>1
  <2> QED
    BY <2>2, <2>3
<1>9. ASSUME NEW c \in Folders, NEW l \in Numbering, c > d  PROVE Rank(c, l) < Rank(d, k)
  <2> PICK q : q = Nodes - c
    OBVIOUS
  <2>1. q \in Nat /\ q + 1 <= p
    BY <1>1, <1>3, <1>9 DEF Folders
  <2>2. Rank(c, l) = q * w + (Nodes + 1 - l)
    BY <1>1 DEF Rank
  <2>3. q * w \in Nat /\ (q + 1) * w = q * w + w /\ (q + 1) * w <= p * w
    <3>1. q + 1 \in Nat
      BY <2>1
    <3> QED
      BY <1>2, <1>3, <2>1, <3>1
  <2>4. l \in Nat /\ 1 <= l /\ l <= Nodes + 1
    BY <1>1 DEF Numbering
  <2> QED
    BY ONLY <1>1, <1>4, <1>5, <1>6, <2>2, <2>3, <2>4
<1> QED
  BY <1>7, <1>8, <1>9

\* The children of d from the k-th on, and what is below them.
FromChild(d, k) ==
  {n \in Paths : \E i \in k..Len(SortChildren(d)) :
                   n = SortChildren(d)[i] \/ n \in Below(SortChildren(d)[i])}

\* There are at most Nodes children, and each is listed once.
LEMMA ChildFacts ==
  ASSUME IsTree, NEW d \in Folders
  PROVE  /\ Len(SortChildren(d)) \in 0..Nodes
         /\ Len(SortChildren(d)) = Cardinality(IncludedChildren(d))
         /\ DOMAIN SortChildren(d) = 1..Len(SortChildren(d))
         /\ \A i \in 1..Len(SortChildren(d)) :
              LET c == SortChildren(d)[i]
              IN  c \in IncludedChildren(d) /\ c \in Paths /\ c \in Folders /\ c > d
         /\ \A i, j \in 1..Len(SortChildren(d)) :
              SortChildren(d)[i] = SortChildren(d)[j] => i = j
         /\ \A c \in IncludedChildren(d) : \E i \in 1..Len(SortChildren(d)) : SortChildren(d)[i] = c
<1> PICK s, T : s = SortChildren(d) /\ T = IncludedChildren(d)
  OBVIOUS
<1>1. Lists(s, T) /\ T \subseteq Paths /\ \A c \in T : c \in Folders /\ c > d
  BY ChildrenListed, ChildrenFacts
<1>2. Len(s) \in 0..Nodes /\ Len(s) = Cardinality(T)
  BY <1>1, ListLength, ListDirAssumption
<1>3. DOMAIN s = 1..Len(s) /\ Set(s) = T /\ Distinct(s)
  BY <1>1, ListIndexes DEF Lists
<1>4. \A i \in 1..Len(s) : s[i] \in T
  BY <1>3 DEF Set
<1>5. \A c \in T : \E i \in 1..Len(s) : s[i] = c
  BY <1>3 DEF Set
<1>6. \A i, j \in 1..Len(s) : s[i] = s[j] => i = j
  BY <1>3 DEF Distinct
<1> QED
  BY <1>1, <1>2, <1>3, <1>4, <1>5, <1>6

\* The k-th child and what is below it are apart from the later ones.
LEMMA FromChildSplits ==
  ASSUME IsTree, NEW d \in Folders, NEW k \in 1..Len(SortChildren(d)), NEW c, c = SortChildren(d)[k]
  PROVE  /\ FromChild(d, k) = ({c} \cup Below(c)) \cup FromChild(d, k + 1)
         /\ \A n \in {c} \cup Below(c) : n \notin FromChild(d, k + 1)
<1> PICK s, m : s = SortChildren(d) /\ m = Len(s)
  OBVIOUS
<1>1. /\ m \in Nat /\ k \in 1..m /\ c = s[k]
      /\ \A i \in 1..m : s[i] \in IncludedChildren(d) /\ s[i] \in Paths /\ s[i] \in Folders
      /\ \A i, j \in 1..m : s[i] = s[j] => i = j
  BY ChildFacts
<1>2. Below(c) \subseteq Paths /\ c \in Paths
  BY <1>1, BelowLeast
<1>3. \A i : i \in k..m <=> i = k \/ i \in k + 1..m
  BY <1>1
<1>4. \A j : FromChild(d, j) = {n \in Paths : \E i \in j..m : n = s[i] \/ n \in Below(s[i])}
  BY DEF FromChild
<1>5. FromChild(d, k) = ({c} \cup Below(c)) \cup FromChild(d, k + 1)
  BY <1>1, <1>2, <1>3, <1>4
<1>6. ASSUME NEW n \in {c} \cup Below(c), n \in FromChild(d, k + 1)  PROVE FALSE
  <2>1. PICK i \in k + 1..m : n = s[i] \/ n \in Below(s[i])
    BY <1>4, <1>6
  <2>2. i \in 1..m /\ i # k
    BY <1>1
  <2>3. s[i] # c /\ s[i] \in IncludedChildren(d) /\ c \in IncludedChildren(d)
    BY <1>1, <2>2
  <2>4. c \notin Below(s[i]) /\ s[i] \notin Below(c) /\ \A x \in Below(c) : x \notin Below(s[i])
    BY <2>3, EntriesApart
  <2> QED
    BY <1>6, <2>1, <2>3, <2>4
<1> QED
  BY <1>5, <1>6

\* All of them are what is below d.
LEMMA FromFirstChild ==
  ASSUME IsTree, NEW d \in Folders
  PROVE  FromChild(d, 1) = Below(d)
<1> PICK s, m : s = SortChildren(d) /\ m = Len(s)
  OBVIOUS
<1>1. /\ \A i \in 1..m : s[i] \in IncludedChildren(d)
      /\ \A c \in IncludedChildren(d) : \E i \in 1..m : s[i] = c
  BY ChildFacts
<1>2. Below(d) \subseteq Paths
  BY BelowLeast
<1>3. FromChild(d, 1) = {n \in Paths : \E i \in 1..m : n = s[i] \/ n \in Below(s[i])}
  BY DEF FromChild
<1>4. \A n : n \in Below(d) <=> \E c \in IncludedChildren(d) : n = c \/ n \in Below(c)
  BY BelowEntries
<1>5. ASSUME NEW n \in FromChild(d, 1)  PROVE n \in Below(d)
  <2>1. PICK i \in 1..m : n = s[i] \/ n \in Below(s[i])
    BY <1>3
  <2> QED
    BY <1>1, <1>4, <2>1
<1>6. ASSUME NEW n \in Below(d)  PROVE n \in FromChild(d, 1)
  <2>1. PICK c \in IncludedChildren(d) : n = c \/ n \in Below(c)
    BY <1>4
  <2>2. PICK i \in 1..m : s[i] = c
    BY <1>1
  <2>3. n = s[i] \/ n \in Below(s[i])
    BY <2>1, <2>2
  <2> QED
    BY <1>2, <1>3, <2>3
<1> QED
  BY <1>5, <1>6

\* What the walk goes through.
Places == (0..Nodes) \X (1..Nodes + 1)
PlaceRank == [at \in Places |-> Rank(at[1], at[2])]
WalkStep == [x \in [Places -> Seq(Paths)] \X Places |-> WalkFrom(x[2][1], x[2][2], x[1])]
IsWalk(walk) == walk = [at \in Places |-> WalkFrom(at[1], at[2], walk)]

\* A place, by its parts.
LEMMA PlaceParts ==
  ASSUME NEW d \in Folders, NEW k \in Numbering
  PROVE  /\ <<d, k>> \in Places /\ PlaceRank[<<d, k>>] = Rank(d, k)
         /\ \A at \in Places : \E e \in Folders, l \in Numbering : at = <<e, l>>
BY DEF Places, PlaceRank, Folders, Numbering

\* One step of the walk: nothing is left, or there is one more child.
LEMMA OneWalkStep ==
  ASSUME IsTree, NEW d \in Folders, NEW k \in Numbering
  PROVE  \/ /\ FromChild(d, k) = {}
            /\ \A walk : WalkFrom(d, k, walk) = <<>>
         \/ \E c \in IncludedChildren(d) :
              /\ c \in Paths /\ c \in Folders /\ c > d
              /\ k <= Nodes /\ k + 1 \in Numbering
              /\ FromChild(d, k) = ({c} \cup Below(c)) \cup FromChild(d, k + 1)
              /\ \A n \in {c} \cup Below(c) : n \notin FromChild(d, k + 1)
              /\ \A walk : WalkFrom(d, k, walk) =
                   (<<c>> \o (IF IsDir(c) THEN walk[<<c, 1>>] ELSE <<>>)) \o walk[<<d, k + 1>>]
<1> PICK s, m : s = SortChildren(d) /\ m = Len(s)
  OBVIOUS
<1>1. m \in 0..Nodes /\ k \in Nat /\ 1 <= k /\ Nodes \in Nat
  BY ChildFacts, ListDirAssumption DEF Numbering
<1>2. CASE k > m
  <2>1. \A i : i \notin k..m
    BY <1>1, <1>2
  <2>2. FromChild(d, k) = {}
    BY <2>1 DEF FromChild
  <2>3. \A walk : WalkFrom(d, k, walk) = <<>>
    BY <1>2 DEF WalkFrom
  <2> QED
    BY <2>2, <2>3
<1>3. CASE ~(k > m)
  <2>1. k \in 1..m /\ k <= Nodes /\ k + 1 \in Numbering
    BY <1>1, <1>3 DEF Numbering
  <2> PICK c : c = s[k]
    OBVIOUS
  <2>2. c \in IncludedChildren(d) /\ c \in Paths /\ c \in Folders /\ c > d
    BY <2>1, ChildFacts
  <2>3. /\ FromChild(d, k) = ({c} \cup Below(c)) \cup FromChild(d, k + 1)
        /\ \A n \in {c} \cup Below(c) : n \notin FromChild(d, k + 1)
    BY <2>1, FromChildSplits
  <2>4. \A walk : WalkFrom(d, k, walk) =
          (<<c>> \o (IF IsDir(c) THEN walk[<<c, 1>>] ELSE <<>>)) \o walk[<<d, k + 1>>]
    BY <1>3 DEF WalkFrom
  <2> QED
    BY <2>1, <2>2, <2>3, <2>4
<1> QED
  BY <1>2, <1>3

\* The walk's recursion descends.
LEMMA WalkDescends ==
  ASSUME IsTree
  PROVE  Descends(WalkStep, Places, Seq(Paths), PlaceRank, Ranks) /\ Ranks \in Nat
<1>1. ASSUME NEW f \in [Places -> Seq(Paths)], NEW at \in Places
      PROVE  /\ WalkStep[<<f, at>>] \in Seq(Paths)
             /\ \A g \in [Places -> Seq(Paths)] :
                  SameBelow(f, g, Places, PlaceRank, at) => WalkStep[<<f, at>>] = WalkStep[<<g, at>>]
  <2>1. PICK d \in Folders, k \in Numbering : at = <<d, k>>
    BY DEF Places, Folders, Numbering
  <2>2. \A g \in [Places -> Seq(Paths)] : WalkStep[<<g, at>>] = WalkFrom(d, k, g)
    BY <2>1 DEF WalkStep
  <2>3. CASE \A walk : WalkFrom(d, k, walk) = <<>>
    <3>1. <<>> \in Seq(Paths)
      OBVIOUS
    <3>2. \A g \in [Places -> Seq(Paths)] : WalkStep[<<g, at>>] = <<>>
      BY <2>2, <2>3
    <3>3. WalkStep[<<f, at>>] = <<>>
      BY <3>2
    <3> QED
      BY <3>1, <3>2, <3>3
  <2>4. ASSUME NEW c \in Paths, c \in Folders, c > d, k <= Nodes, k + 1 \in Numbering,
               \A walk : WalkFrom(d, k, walk) =
                 (<<c>> \o (IF IsDir(c) THEN walk[<<c, 1>>] ELSE <<>>)) \o walk[<<d, k + 1>>]
        PROVE  /\ WalkStep[<<f, at>>] \in Seq(Paths)
               /\ \A g \in [Places -> Seq(Paths)] :
                    SameBelow(f, g, Places, PlaceRank, at) =>
                      WalkStep[<<f, at>>] = WalkStep[<<g, at>>]
    <3>1. 1 \in Numbering
      BY ListDirAssumption DEF Numbering
    <3>2. /\ <<c, 1>> \in Places /\ <<d, k + 1>> \in Places
          /\ PlaceRank[<<c, 1>>] < PlaceRank[at] /\ PlaceRank[<<d, k + 1>>] < PlaceRank[at]
      <4>1. PlaceRank[at] = Rank(d, k)
        BY <2>1, PlaceParts
      <4>2. <<c, 1>> \in Places /\ PlaceRank[<<c, 1>>] = Rank(c, 1)
        BY <2>4, <3>1, PlaceParts
      <4>3. <<d, k + 1>> \in Places /\ PlaceRank[<<d, k + 1>>] = Rank(d, k + 1)
        BY <2>4, PlaceParts
      <4>4. Rank(c, 1) < Rank(d, k)
        BY <2>4, <3>1, RankDescends
      <4>5. Rank(d, k + 1) < Rank(d, k)
        BY <2>4, RankDescends
      <4> QED
        BY <4>1, <4>2, <4>3, <4>4, <4>5
    <3>3. <<c>> \o (IF IsDir(c) THEN f[<<c, 1>>] ELSE <<>>) \in Seq(Paths)
      <4>1. <<c>> \in Seq(Paths) /\ <<>> \in Seq(Paths) /\ f[<<c, 1>>] \in Seq(Paths)
        BY <3>2
      <4> QED
        BY <4>1, ConcatProperties
    <3>4. WalkFrom(d, k, f) \in Seq(Paths)
      <4>1. f[<<d, k + 1>>] \in Seq(Paths)
        BY <3>2
      <4>2. WalkFrom(d, k, f) = (<<c>> \o (IF IsDir(c) THEN f[<<c, 1>>] ELSE <<>>)) \o f[<<d, k + 1>>]
        BY <2>4
      <4> QED
        BY <3>3, <4>1, <4>2, ConcatProperties
    <3>5. ASSUME NEW g \in [Places -> Seq(Paths)], SameBelow(f, g, Places, PlaceRank, at)
          PROVE  WalkFrom(d, k, f) = WalkFrom(d, k, g)
      <4>1. f[<<c, 1>>] = g[<<c, 1>>] /\ f[<<d, k + 1>>] = g[<<d, k + 1>>]
        BY <3>2, <3>5 DEF SameBelow
      <4> QED
        BY <2>4, <4>1
    <3> QED
      BY <2>2, <3>4, <3>5
  <2> QED
    BY <2>3, <2>4, OneWalkStep
<1>2. WalkStep \in [[Places -> Seq(Paths)] \X Places -> Seq(Paths)]
  BY <1>1 DEF WalkStep
<1>3. Ranks \in Nat /\ PlaceRank \in [Places -> 0..Ranks]
  <2>1. 0 \in Folders /\ 1 \in Numbering
    BY ListDirAssumption DEF Folders, Numbering
  <2>2. Ranks \in Nat
    BY <2>1, RankDescends
  <2>3. ASSUME NEW at \in Places  PROVE Rank(at[1], at[2]) \in 0..Ranks
    BY RankDescends DEF Places, Folders, Numbering
  <2> QED
    BY <2>2, <2>3 DEF PlaceRank
<1> QED
  BY <1>1, <1>2, <1>3 DEF Descends

\* So there is a walk, and Walk is what one yields.
LEMMA WalkExists ==
  ASSUME IsTree, NEW d
  PROVE  \E walk : IsWalk(walk) /\ Walk(d) = walk[<<d, 1>>]
<1>2. Seq(Paths) # {}
  <2>1. <<>> \in Seq(Paths)
    OBVIOUS
  <2> QED
    BY <2>1
<1>3. PICK f : Solves(f, WalkStep, Places, Seq(Paths))
  BY <1>2, WalkDescends, RecursionExists
<1>4. \A at \in Places : f[at] = WalkFrom(at[1], at[2], f)
  BY <1>3 DEF WalkStep, Solves
<1>5. IsWalk(f)
  BY <1>3, <1>4 DEF IsWalk, Solves
<1> PICK first : first = CHOOSE walk : IsWalk(walk)
  OBVIOUS
<1>6. IsWalk(first)
  BY <1>5
<1>7. Walk(d) = first[<<d, 1>>]
  BY DEF Walk, IsWalk, Places
<1> QED
  BY <1>6, <1>7

\* A file has nothing below it.
LEMMA FilesAreEmpty ==
  ASSUME IsTree, NEW d \in Folders, IncludedChildren(d) = {}
  PROVE  Below(d) = {}
BY BelowEntries

\* The walk below d yields all that is below d, and nothing twice: were there
\* places where it does not, it would at the one of the lowest rank.
LEMMA WalkLists ==
  ASSUME IsTree, NEW d \in Folders
  PROVE  Lists(Walk(d), Below(d))
<1> PICK walk : IsWalk(walk) /\ Walk(d) = walk[<<d, 1>>]
  BY WalkExists
<1>1. \A at \in Places : walk[at] = WalkFrom(at[1], at[2], walk)
  BY DEF IsWalk
<1> PICK Bad : Bad = {at \in Places : ~Lists(walk[at], FromChild(at[1], at[2]))}
  OBVIOUS
<1>2. Bad = {}
  <2> SUFFICES ASSUME Bad # {}  PROVE FALSE
    OBVIOUS
  <2>1. PlaceRank \in [Places -> Nat] /\ Bad \subseteq Places
    <3>1. ASSUME NEW at \in Places  PROVE Rank(at[1], at[2]) \in Nat
      BY RankDescends DEF Places, Folders, Numbering
    <3> QED
      BY <3>1 DEF PlaceRank
  <2>2. PICK at \in Bad : \A other \in Bad : PlaceRank[at] <= PlaceRank[other]
    BY <2>1, LeastRank
  <2>3. PICK e \in Folders, k \in Numbering : at = <<e, k>>
    BY DEF Places, Folders, Numbering
  <2>4. walk[at] = WalkFrom(e, k, walk) /\ ~Lists(walk[at], FromChild(e, k))
    BY <1>1, <2>1, <2>3
  <2>5. ASSUME FromChild(e, k) = {}, \A w : WalkFrom(e, k, w) = <<>>  PROVE FALSE
    <3>1. Lists(<<>>, {})
      <4>1. <<>> \in Seq(Paths) /\ DOMAIN <<>> = 1..0
        OBVIOUS
      <4> QED
        BY <4>1 DEF Lists, Set, Distinct
    <3> QED
      BY <2>4, <2>5, <3>1
  <2>6. ASSUME NEW c \in Paths, c \in Folders, c > e, k <= Nodes, k + 1 \in Numbering,
               FromChild(e, k) = ({c} \cup Below(c)) \cup FromChild(e, k + 1),
               \A n \in {c} \cup Below(c) : n \notin FromChild(e, k + 1),
               \A w : WalkFrom(e, k, w) =
                 (<<c>> \o (IF IsDir(c) THEN w[<<c, 1>>] ELSE <<>>)) \o w[<<e, k + 1>>]
        PROVE  FALSE
    <3>1. 1 \in Numbering
      BY ListDirAssumption DEF Numbering
    <3>2. /\ <<c, 1>> \in Places /\ <<e, k + 1>> \in Places
          /\ PlaceRank[<<c, 1>>] < PlaceRank[at] /\ PlaceRank[<<e, k + 1>>] < PlaceRank[at]
      BY <2>3, <2>6, <3>1, PlaceParts, RankDescends
    <3>3. <<c, 1>> \notin Bad /\ <<e, k + 1>> \notin Bad
      <4>1. ASSUME NEW x \in Bad  PROVE ~(PlaceRank[x] < PlaceRank[at])
        <5>1. PlaceRank[x] \in Nat /\ PlaceRank[at] \in Nat /\ PlaceRank[at] <= PlaceRank[x]
          BY <2>1, <2>2
        <5> QED
          BY <5>1
      <4> QED
        BY <3>2, <4>1
    <3>4. Lists(walk[<<c, 1>>], Below(c)) /\ Lists(walk[<<e, k + 1>>], FromChild(e, k + 1))
      <4>1. Lists(walk[<<c, 1>>], FromChild(c, 1))
        BY <3>2, <3>3
      <4>2. FromChild(c, 1) = Below(c)
        BY <2>6, FromFirstChild
      <4>3. Lists(walk[<<e, k + 1>>], FromChild(e, k + 1))
        BY <3>2, <3>3
      <4> QED
        BY <4>1, <4>2, <4>3
    <3> PICK inside : inside = IF IsDir(c) THEN walk[<<c, 1>>] ELSE <<>>
      OBVIOUS
    <3>5. Lists(inside, Below(c))
      <4>1. CASE IsDir(c)
        BY <3>4, <4>1
      <4>2. CASE ~IsDir(c)
        <5>1. Below(c) = {}
          BY <2>6, <4>2, ChildrenFacts, FilesAreEmpty
        <5>2. Lists(<<>>, {})
          BY OneListed
        <5> QED
          BY <4>2, <5>1, <5>2
      <4> QED
        BY <4>1, <4>2
    <3>6. c \notin Below(c)
      BY <2>6, BelowParent DEF Folders
    <3>7. Lists(<<c>> \o inside, {c} \cup Below(c))
      BY <3>5, <3>6, OneListed, ConcatLists
    <3>8. Lists((<<c>> \o inside) \o walk[<<e, k + 1>>], FromChild(e, k))
      BY <2>6, <3>4, <3>7, ConcatLists
    <3> QED
      BY <2>4, <2>6, <3>8
  <2> QED
    BY <2>5, <2>6, OneWalkStep
<1>3. 1 \in Numbering
  BY ListDirAssumption DEF Numbering
<1>4. <<d, 1>> \in Places
  BY <1>3, PlaceParts
<1>5. Lists(walk[<<d, 1>>], FromChild(d, 1))
  BY <1>2, <1>4
<1> QED
  BY <1>5, FromFirstChild

-------------------------------------------------------------------------------
(* Parts of an answer.                                                     *)

Budgets == 0..MaxEntries
Unreadable == {n \in Paths : kind[n] = "unreadable"}
Parts == [shown : SUBSET Paths, marked : SUBSET Paths, errors : SUBSET Unreadable,
          left : Budgets, over : BOOLEAN, cut : BOOLEAN]

\* A part that answers for the paths of B out of the budget left: it shows some
\* of them, marks only what M has, has errors for those and for what else M has,
\* says whether it shows them all, and claims in vain only when nothing is left.
Fits(part, B, M, left, over) ==
  /\ part \in Parts
  /\ part.shown \subseteq B /\ part.marked \subseteq M
  /\ \A n \in part.errors : n \in part.shown \/ (n \in M /\ n \notin B)
  /\ Cardinality(part.shown) + part.left <= left
  /\ part.over => part.left = 0 /\ (over \/ part.cut)
  /\ part.cut <=> part.shown # B

\* What it does not show is below what it marks.
Covers(part, B) == \A n \in B : n \in part.shown \/ \E m \in part.marked : n \in Below(m)

\* Sets of paths are finite.
LEMMA PathsFinite ==
  ASSUME NEW S, S \subseteq Paths
  PROVE  IsFiniteSet(S) /\ Cardinality(S) \in Nat
<1>1. IsFiniteSet(Paths)
  BY ListDirAssumption, FS_Interval DEF Paths
<1>2. IsFiniteSet(S)
  BY <1>1, FS_Subset
<1> QED
  BY <1>2, FS_CardinalityType

\* An empty part.
LEMMA PartFacts ==
  ASSUME NEW left \in Budgets, NEW over \in BOOLEAN, over => left = 0
  PROVE  Part(left, over) \in Parts /\ \A M : Fits(Part(left, over), {}, M, left, over)
<1> PICK p : p = Part(left, over)
  OBVIOUS
<1>1. /\ p \in Parts /\ p.shown = {} /\ p.marked = {} /\ p.errors = {} /\ p.left = left
      /\ p.over = over /\ p.cut = FALSE
  BY DEF Part, Parts
<1>2. Cardinality({}) = 0 /\ left \in Int
  BY FS_EmptySet DEF Budgets
<1> QED
  BY <1>1, <1>2 DEF Fits

\* An error entry.
LEMMA UnreadFacts ==
  ASSUME NEW c \in Paths, kind[c] = "unreadable", NEW left \in Budgets, NEW over \in BOOLEAN,
         over => left = 0
  PROVE  /\ Unread(c, left, over) \in Parts
         /\ Fits(Unread(c, left, over), {}, {c}, left, over)
<1> PICK p : p = Unread(c, left, over)
  OBVIOUS
<1>1. /\ p.shown = {} /\ p.marked = {} /\ p.errors = {c} /\ p.left = left
      /\ p.over = over /\ p.cut = FALSE
  BY DEF Unread, Part
<1>2. p \in Parts
  <2>1. p = [shown |-> {}, marked |-> {}, errors |-> {c}, left |-> left, over |-> over,
             cut |-> FALSE]
    BY DEF Unread, Part
  <2>2. {c} \in SUBSET Unreadable
    BY DEF Unreadable
  <2> QED
    BY ONLY <2>1, <2>2, left \in Budgets, over \in BOOLEAN DEF Parts
<1>3. Cardinality({}) = 0 /\ left \in Int
  BY FS_EmptySet DEF Budgets
<1> QED
  BY <1>1, <1>2, <1>3 DEF Fits

\* Two parts that answer for different paths, one after the other.
LEMMA JoinedFits ==
  ASSUME NEW p, NEW q, NEW B, NEW C, NEW M, NEW N, NEW left \in Budgets, NEW over \in BOOLEAN,
         B \subseteq Paths, C \subseteq Paths,
         B \subseteq M, C \subseteq N, \A n \in M : n \notin N,
         Fits(p, B, M, left, over), Covers(p, B),
         Fits(q, C, N, p.left, p.over), Covers(q, C)
  PROVE  /\ Fits(Joined(p, q), B \cup C, M \cup N, left, over)
         /\ Covers(Joined(p, q), B \cup C)
<1> PICK j : j = Joined(p, q)
  OBVIOUS
<1>1. p \in Parts /\ q \in Parts
  BY DEF Fits
<1>2. /\ j \in Parts /\ j.shown = q.shown \cup p.shown /\ j.marked = q.marked \cup p.marked
      /\ j.errors = q.errors \cup p.errors
      /\ j.left = q.left /\ j.over = q.over /\ (j.cut <=> q.cut \/ p.cut)
  BY <1>1 DEF Joined, Parts
<1>3. /\ p.shown \subseteq B /\ q.shown \subseteq C /\ p.marked \subseteq M /\ q.marked \subseteq N
      /\ (p.cut <=> p.shown # B) /\ (q.cut <=> q.shown # C)
  BY DEF Fits
<1>4. Cardinality(j.shown) + j.left <= left
  <2> PICK a, b, c, i : /\ a = Cardinality(p.shown) /\ b = Cardinality(q.shown)
                        /\ c = Cardinality(j.shown) /\ i = Cardinality(q.shown \cap p.shown)
    OBVIOUS
  <2>1. p.shown \subseteq Paths /\ q.shown \subseteq Paths /\ q.shown \cap p.shown \subseteq Paths
    BY <1>3
  <2>2. a \in Nat /\ b \in Nat /\ i \in Nat /\ IsFiniteSet(p.shown) /\ IsFiniteSet(q.shown)
    BY <2>1, PathsFinite
  <2>3. c = b + a - i
    <3> PICK P, Q : P = p.shown /\ Q = q.shown
      OBVIOUS
    <3>1. Cardinality(Q \cup P) = Cardinality(Q) + Cardinality(P) - Cardinality(Q \cap P)
      BY <2>2, FS_Union
    <3> QED
      BY <1>2, <3>1
  <2>4. p.left \in Int /\ q.left \in Int /\ left \in Int
    BY <1>1 DEF Parts, Budgets
  <2>5. a + p.left <= left /\ b + q.left <= p.left
    BY DEF Fits
  <2>6. c + q.left <= left
    BY ONLY <2>2, <2>3, <2>4, <2>5
  <2> QED
    BY <1>2, <2>6
<1>5. j.over => j.left = 0 /\ (over \/ j.cut)
  <2>1. q.over => q.left = 0 /\ (p.over \/ q.cut)
    BY DEF Fits
  <2>2. p.over => over \/ p.cut
    BY DEF Fits
  <2> QED
    BY <1>2, <2>1, <2>2
<1>6. j.cut <=> j.shown # B \cup C
  <2>1. j.shown = B \cup C <=> p.shown = B /\ q.shown = C
    BY <1>2, <1>3
  <2> QED
    BY <1>2, <1>3, <2>1
<1>7. Covers(j, B \cup C)
  <2>1. ASSUME NEW n \in B  PROVE n \in j.shown \/ \E m \in j.marked : n \in Below(m)
    BY <1>2 DEF Covers
  <2>2. ASSUME NEW n \in C  PROVE n \in j.shown \/ \E m \in j.marked : n \in Below(m)
    BY <1>2 DEF Covers
  <2> QED
    BY <2>1, <2>2 DEF Covers
<1>8. j.shown \subseteq B \cup C /\ j.marked \subseteq M \cup N
  BY <1>2, <1>3
<1>9. ASSUME NEW n \in j.errors
      PROVE  n \in j.shown \/ (n \in M \cup N /\ n \notin B \cup C)
  <2>1. CASE n \in p.errors
    <3>1. n \in p.shown \/ (n \in M /\ n \notin B)
      BY <2>1 DEF Fits
    <3> QED
      BY <1>2, <3>1
  <2>2. CASE n \in q.errors
    <3>1. n \in q.shown \/ (n \in N /\ n \notin C)
      BY <2>2 DEF Fits
    <3> QED
      BY <1>2, <3>1
  <2> QED
    BY <1>2, <2>1, <2>2
<1> QED
  BY <1>2, <1>4, <1>5, <1>6, <1>7, <1>8, <1>9 DEF Fits

\* A directory whose content is left out, wholly or in part, is marked.
LEMMA MarkedFits ==
  ASSUME NEW c \in Paths, NEW p \in Parts, NEW left \in Budgets, NEW over \in BOOLEAN,
         c \notin Below(c), p.shown \subseteq Below(c), p.shown # Below(c),
         p.marked \subseteq {c} \cup Below(c), p.errors \subseteq p.shown \cup {c},
         Cardinality(p.shown) + p.left <= left, p.over => p.left = 0
  PROVE  /\ Fits(Marked(c, p), Below(c), {c} \cup Below(c), left, over)
         /\ Covers(Marked(c, p), Below(c))
<1> PICK q : q = Marked(c, p)
  OBVIOUS
<1>1. /\ q \in Parts /\ q.shown = p.shown /\ q.marked = p.marked \cup {c} /\ q.left = p.left
      /\ q.errors = p.errors /\ q.over = p.over /\ q.cut = TRUE
  BY DEF Marked, Parts
<1>2. Covers(q, Below(c))
  BY <1>1 DEF Covers
<1> QED
  BY <1>1, <1>2 DEF Fits

-------------------------------------------------------------------------------
(* The expansion.                                                          *)

\* What is below the children of d from the k-th on.
BelowFrom(d, k) ==
  {n \in Paths : \E i \in k..Len(SortChildren(d)) : n \in Below(SortChildren(d)[i])}

\* What is below the k-th child is apart from what is below later ones.
LEMMA BelowFromSplits ==
  ASSUME IsTree, NEW d \in Folders, NEW k \in 1..Len(SortChildren(d)), NEW c, c = SortChildren(d)[k]
  PROVE  /\ BelowFrom(d, k) = Below(c) \cup BelowFrom(d, k + 1)
         /\ \A n \in Below(c) : n \notin BelowFrom(d, k + 1)
<1> PICK s, m : s = SortChildren(d) /\ m = Len(s)
  OBVIOUS
<1>1. m \in Nat /\ k \in 1..m /\ c = s[k] /\ c \in Folders
  BY ChildFacts
<1>2. Below(c) \subseteq Paths
  BY <1>1, BelowLeast
<1>3. \A i : i \in k..m <=> i = k \/ i \in k + 1..m
  BY <1>1
<1>4. \A j : BelowFrom(d, j) = {n \in Paths : \E i \in j..m : n \in Below(s[i])}
  BY DEF BelowFrom
<1>5. BelowFrom(d, k) = Below(c) \cup BelowFrom(d, k + 1)
  BY <1>1, <1>2, <1>3, <1>4
<1>6. BelowFrom(d, k + 1) \subseteq FromChild(d, k + 1)
  BY DEF BelowFrom, FromChild
<1>7. \A n \in Below(c) : n \notin FromChild(d, k + 1)
  BY <1>1, FromChildSplits
<1> QED
  BY <1>5, <1>6, <1>7

\* Below d are its entries and what is below them, and no entry is both.
LEMMA BelowFromFirst ==
  ASSUME IsTree, NEW d \in Folders
  PROVE  /\ Below(d) = IncludedChildren(d) \cup BelowFrom(d, 1)
         /\ \A n \in IncludedChildren(d) : n \notin BelowFrom(d, 1)
         /\ BelowFrom(d, 1) \subseteq Paths
<1> PICK s, m : s = SortChildren(d) /\ m = Len(s)
  OBVIOUS
<1>1. /\ \A i \in 1..m : s[i] \in IncludedChildren(d)
      /\ \A c \in IncludedChildren(d) : \E i \in 1..m : s[i] = c
  BY ChildFacts
<1>2. Below(d) \subseteq Paths
  BY BelowLeast
<1>3. BelowFrom(d, 1) = {n \in Paths : \E i \in 1..m : n \in Below(s[i])}
  BY DEF BelowFrom
<1>4. \A n : n \in Below(d) <=> \E c \in IncludedChildren(d) : n = c \/ n \in Below(c)
  BY BelowEntries
<1>5. ASSUME NEW n \in BelowFrom(d, 1)  PROVE n \in Below(d) /\ n \notin IncludedChildren(d)
  <2>1. PICK i \in 1..m : n \in Below(s[i])
    BY <1>3
  <2>2. s[i] \in IncludedChildren(d)
    BY <1>1
  <2>3. n \notin IncludedChildren(d)
    BY <2>1, <2>2, EntriesApart
  <2> QED
    BY <1>4, <2>1, <2>2, <2>3
<1>6. ASSUME NEW n \in Below(d)  PROVE n \in IncludedChildren(d) \/ n \in BelowFrom(d, 1)
  <2>1. PICK c \in IncludedChildren(d) : n = c \/ n \in Below(c)
    BY <1>4
  <2>2. PICK i \in 1..m : s[i] = c
    BY <1>1
  <2> QED
    BY <1>2, <1>3, <2>1, <2>2
<1>7. IncludedChildren(d) \subseteq Below(d)
  BY <1>4
<1> QED
  BY <1>2, <1>3, <1>5, <1>6, <1>7

\* The loops over the entries of c are answered for.
LoopsFit(expand, c) ==
  \A l \in Budgets, o \in BOOLEAN : (o => l = 0) =>
    /\ Fits(expand[Loop(c, 1, l, o)], BelowFrom(c, 1), Below(c), l, o)
    /\ Covers(expand[Loop(c, 1, l, o)], BelowFrom(c, 1))

\* A directory's entries, and what its loop adds to them.
LEMMA ShownEntries ==
  ASSUME IsTree, NEW c \in Folders, NEW s, NEW m, s = SortChildren(c), m = Len(s),
         NEW left \in Budgets, m <= left,
         NEW part, Fits(part, BelowFrom(c, 1), Below(c), left - m, FALSE),
         Covers(part, BelowFrom(c, 1)),
         NEW p, p = [part EXCEPT !.shown = @ \cup Set(s), !.cut = @ \/ part.over]
  PROVE  Fits(p, Below(c), Below(c), left, FALSE) /\ Covers(p, Below(c))
<1> PICK C, B : C = IncludedChildren(c) /\ B = BelowFrom(c, 1)
  OBVIOUS
<1>1. Set(s) = C /\ C \subseteq Paths /\ m = Cardinality(C) /\ m \in Nat /\ IsFiniteSet(C)
  <2>1. Lists(s, C)
    BY ChildrenListed
  <2>2. C \subseteq Paths
    BY ChildrenFacts
  <2> QED
    BY <2>1, <2>2, ListLength DEF Lists
<1>2. Below(c) = C \cup B /\ B \subseteq Paths /\ \A n \in C : n \notin B
  BY BelowFromFirst
<1>3. /\ part \in Parts /\ part.shown \subseteq B /\ part.marked \subseteq Below(c)
      /\ \A n \in part.errors : n \in part.shown \/ (n \in Below(c) /\ n \notin B)
      /\ (part.over => part.left = 0 /\ part.cut) /\ (part.cut <=> part.shown # B)
      /\ Cardinality(part.shown) + part.left <= left - m
  BY DEF Fits
<1>4. /\ p \in Parts /\ p.shown = part.shown \cup C /\ p.marked = part.marked /\ p.left = part.left
      /\ p.errors = part.errors /\ p.over = part.over /\ (p.cut <=> part.cut)
  <2>1. /\ p.shown = part.shown \cup C /\ p.marked = part.marked /\ p.left = part.left
        /\ p.errors = part.errors
        /\ p.over = part.over /\ p.cut = (part.cut \/ part.over)
    BY <1>1, <1>3 DEF Parts
  <2>2. p.cut <=> part.cut
    BY <1>3, <2>1
  <2>3. p \in Parts
    BY <1>1, <1>3 DEF Parts
  <2> QED
    BY <2>1, <2>2, <2>3
<1>5. Cardinality(p.shown) + p.left <= left
  <2> PICK a, b, i : /\ a = Cardinality(part.shown) /\ b = Cardinality(p.shown)
                     /\ i = Cardinality(part.shown \cap C)
    OBVIOUS
  <2>1. part.shown \subseteq Paths /\ part.shown \cap C \subseteq Paths
    BY <1>1, <1>2, <1>3
  <2>2. a \in Nat /\ i \in Nat /\ IsFiniteSet(part.shown)
    BY <2>1, PathsFinite
  <2>3. b = a + m - i
    <3>1. Cardinality(part.shown \cup C) = a + m - i
      BY ONLY <1>1, <2>2, a = Cardinality(part.shown), i = Cardinality(part.shown \cap C),
              FS_Union
    <3> QED
      BY <1>4, <3>1
  <2>4. part.left \in Int /\ left \in Int
    BY <1>3 DEF Parts, Budgets
  <2>5. a + part.left <= left - m
    BY <1>3
  <2>6. b + part.left <= left
    BY ONLY <1>1, <2>2, <2>3, <2>4, <2>5
  <2> QED
    BY <1>4, <2>6
<1>6. p.cut <=> p.shown # Below(c)
  <2>1. p.shown = Below(c) <=> part.shown = B
    BY <1>2, <1>3, <1>4
  <2> QED
    BY <1>3, <1>4, <2>1
<1>7. Covers(p, Below(c))
  BY <1>2, <1>4 DEF Covers
<1>8. p.shown \subseteq Below(c) /\ p.marked \subseteq Below(c)
  BY <1>2, <1>3, <1>4
<1>9. p.over => p.left = 0 /\ p.cut
  BY <1>3, <1>4
<1>10. \A n \in p.errors : n \in p.shown
  BY <1>2, <1>3, <1>4
<1> QED
  BY <1>4, <1>5, <1>6, <1>7, <1>8, <1>9, <1>10 DEF Fits

\* The first of a directory's entries, when not all fit.
LEMMA FirstEntries ==
  ASSUME IsTree, NEW c \in Folders, NEW left \in Budgets, left < Len(SortChildren(c)),
         NEW shown, shown = {SortChildren(c)[i] : i \in 1..left}
  PROVE  /\ shown \subseteq IncludedChildren(c) /\ shown \subseteq Paths
         /\ shown \subseteq Below(c) /\ shown # Below(c)
         /\ Cardinality(shown) <= left
<1> PICK s, m : s = SortChildren(c) /\ m = Len(s)
  OBVIOUS
<1>1. /\ m \in Nat /\ \A i \in 1..m : s[i] \in IncludedChildren(c) /\ s[i] \in Paths
      /\ \A i, j \in 1..m : s[i] = s[j] => i = j
  BY ChildFacts
<1>2. left \in Nat /\ left + 1 \in 1..m /\ \A i \in 1..left : i \in 1..m /\ i # left + 1
  BY <1>1, ListDirAssumption DEF Budgets
<1>3. shown \subseteq IncludedChildren(c) /\ shown \subseteq Paths
  BY <1>1, <1>2
<1>4. s[left + 1] \notin shown
  BY <1>1, <1>2
<1>5. IncludedChildren(c) \subseteq Below(c)
  BY BelowLeast DEF Closed
<1>6. s[left + 1] \in Below(c)
  BY <1>1, <1>2, <1>5
<1>7. Cardinality(shown) <= left
  <2> PICK f, D : D = 1..left /\ f = [i \in D |-> s[i]]
    OBVIOUS
  <2>1. IsFiniteSet(D) /\ Cardinality(D) = left
    <3>1. left \in Int /\ 1 \in Int
      BY <1>2
    <3>2. IsFiniteSet(1..left) /\ Cardinality(1..left) = IF 1 > left THEN 0 ELSE left - 1 + 1
      BY <3>1, FS_Interval
    <3>3. Cardinality(1..left) = left
      BY ONLY <1>2, <3>2
    <3> QED
      BY <3>2, <3>3
  <2>2. f \in Surjection(D, shown)
    <3>1. f \in [D -> shown] /\ \A t \in shown : \E i \in D : f[i] = t
      OBVIOUS
    <3> QED
      BY <3>1, Fun_IsSurj
  <2> QED
    BY <2>1, <2>2, FS_Surjection
<1> QED
  BY <1>3, <1>4, <1>5, <1>6, <1>7

\* A nested directory: it says whether it shows all, and if it does not say so,
\* the directories that it marks have the rest.
LEMMA NestedFits ==
  ASSUME IsTree, NEW c \in Paths, NEW left \in Budgets, left # 0, NEW expand, LoopsFit(expand, c),
         NEW p, p = NestedEntries(c, left, FALSE, expand)
  PROVE  Fits(p, Below(c), {c} \cup Below(c), left, FALSE) /\ (~p.cut => Covers(p, Below(c)))
<1> PICK s, m : s = SortChildren(c) /\ m = Len(s)
  OBVIOUS
<1>0. c \in Folders /\ c # Root
  BY ListDirAssumption DEF Paths, Folders, Root
<1>1. m \in Nat /\ left \in Nat /\ left <= MaxEntries /\ MaxEntries \in Nat
  BY <1>0, ChildFacts, ListDirAssumption DEF Budgets
<1>2. CASE kind[c] = "unreadable"
  <2>1. p = Unread(c, left, FALSE)
    BY <1>2 DEF NestedEntries
  <2>2. Below(c) = {}
    BY <1>0, <1>2, ChildrenFacts, FilesAreEmpty
  <2>3. Fits(p, {}, {c}, left, FALSE)
    BY <1>2, <2>1, UnreadFacts
  <2>4. {c} \cup {} = {c}
    OBVIOUS
  <2> QED
    BY <2>2, <2>3, <2>4 DEF Covers
<1>3. CASE kind[c] # "unreadable" /\ m > left
  <2> PICK shown : shown = {s[i] : i \in 1..left}
    OBVIOUS
  <2>1. p = [Part(0, TRUE) EXCEPT !.shown = shown, !.cut = TRUE]
    BY <1>3 DEF NestedEntries
  <2>2. /\ shown \subseteq Paths /\ shown \subseteq Below(c) /\ shown # Below(c)
        /\ Cardinality(shown) <= left
    <3>1. left < Len(SortChildren(c))
      BY <1>1, <1>3
    <3>2. shown = {SortChildren(c)[i] : i \in 1..left}
      OBVIOUS
    <3>3. c \in Folders /\ left \in Budgets
      BY <1>0
    <3>4. /\ shown \subseteq Paths /\ shown \subseteq Below(c) /\ shown # Below(c)
          /\ Cardinality(shown) <= left
      BY ONLY IsTree, <3>1, <3>2, <3>3, FirstEntries
    <3> QED
      BY <3>4
  <2>3. /\ p.shown = shown /\ p.marked = {} /\ p.errors = {} /\ p.left = 0
        /\ p.over = TRUE /\ p.cut = TRUE
    BY <2>1 DEF Part
  <2>4. p \in Parts
    <3>1. p = [shown |-> shown, marked |-> {}, errors |-> {}, left |-> 0, over |-> TRUE,
               cut |-> TRUE]
      BY <2>1 DEF Part
    <3>2. 0 \in Budgets
      BY <1>1 DEF Budgets
    <3> QED
      BY ONLY <2>2, <3>1, <3>2 DEF Parts
  <2>5. Cardinality(p.shown) + p.left <= left
    <3>1. Cardinality(shown) \in Nat
      BY <2>2, PathsFinite
    <3>2. Cardinality(shown) + 0 <= left
      BY ONLY <1>1, <2>2, <3>1
    <3> QED
      BY <2>3, <3>2
  <2> QED
    BY <2>2, <2>3, <2>4, <2>5 DEF Fits
<1>4. CASE kind[c] # "unreadable" /\ ~(m > left)
  <2> PICK part : part = expand[Loop(c, 1, left - m, FALSE)]
    OBVIOUS
  <2>1. p = [part EXCEPT !.shown = @ \cup Set(s), !.cut = @ \/ part.over]
    BY <1>4 DEF NestedEntries
  <2>2. left - m \in Budgets /\ m <= left
    BY <1>1, <1>4 DEF Budgets
  <2>3. Fits(part, BelowFrom(c, 1), Below(c), left - m, FALSE) /\ Covers(part, BelowFrom(c, 1))
    BY <2>2 DEF LoopsFit
  <2>4. Fits(p, Below(c), Below(c), left, FALSE) /\ Covers(p, Below(c))
    BY ONLY IsTree, s = SortChildren(c), m = Len(s), left \in Budgets,
            <1>0, <2>1, <2>2, <2>3, ShownEntries
  <2> QED
    BY <2>4 DEF Fits
<1> QED
  BY <1>2, <1>3, <1>4

\* One directory of the loop.
LEMMA DirectoryFits ==
  ASSUME IsTree, NEW c \in Paths, NEW requested, NEW left \in Budgets, NEW over \in BOOLEAN,
         over => left = 0, NEW expand, LoopsFit(expand, c),
         NEW p, p = ExpandDirectory(c, requested, left, over, expand)
  PROVE  Fits(p, Below(c), {c} \cup Below(c), left, over) /\ Covers(p, Below(c))
<1> PICK empty : empty = Part(left, over)
  OBVIOUS
<1>0. c \in Folders /\ Below(c) \subseteq Paths /\ c \notin Below(c)
  <2>1. c \in Folders
    BY ListDirAssumption DEF Paths, Folders
  <2>2. ~(c > c)
    BY DEF Paths
  <2> QED
    BY <2>1, <2>2, BelowLeast, BelowParent
<1>1. empty \in Parts /\ \A M : Fits(empty, {}, M, left, over)
  BY PartFacts
<1>2. ASSUME IncludedChildren(c) = {}, p = empty
      PROVE  Fits(p, Below(c), {c} \cup Below(c), left, over) /\ Covers(p, Below(c))
  <2>1. Below(c) = {}
    BY <1>0, <1>2, FilesAreEmpty
  <2> QED
    BY <1>1, <1>2, <2>1 DEF Covers
<1>3. ASSUME IncludedChildren(c) # {}, p = Marked(c, empty)
      PROVE  Fits(p, Below(c), {c} \cup Below(c), left, over) /\ Covers(p, Below(c))
  <2>1. Below(c) # {}
    BY <1>0, <1>3, BelowEntries
  <2>2. Fits(empty, {}, {}, left, over)
    BY <1>1
  <2>3. /\ empty.shown = {} /\ empty.marked = {} /\ empty.errors = {} /\ empty.left = left /\ empty.over = over
    BY DEF Part
  <2>4. Cardinality(empty.shown) + empty.left <= left /\ (empty.over => empty.left = 0)
    BY <2>2 DEF Fits
  <2> QED
    BY <1>0, <1>1, <1>3, <2>1, <2>3, <2>4, MarkedFits
<1>4. CASE ~IsDir(c)
  <2>1. IncludedChildren(c) = {} /\ p = empty
    BY <1>0, <1>4, ChildrenFacts DEF ExpandDirectory
  <2> QED
    BY <1>2, <2>1
<1>5. CASE IsDir(c) /\ ShouldCollapse(c, requested)
  <2>1. IncludedChildren(c) # {}
    <3> SUFFICES ASSUME IncludedChildren(c) = {}  PROVE FALSE
      OBVIOUS
    <3>1. \/ Cardinality({n \in {} : ~IsDir(n)}) > CollapseFiles
          \/ Cardinality({n \in {} : IsDir(n)}) > CollapseDirs
      BY <1>5 DEF ShouldCollapse
    <3>2. {n \in {} : ~IsDir(n)} = {} /\ {n \in {} : IsDir(n)} = {}
      OBVIOUS
    <3>3. 0 > CollapseFiles \/ 0 > CollapseDirs
      BY <3>1, <3>2, FS_EmptySet
    <3> QED
      BY <3>3, ListDirAssumption
  <2>2. p = Marked(c, empty)
    BY <1>5 DEF ExpandDirectory
  <2> QED
    BY <1>3, <2>1, <2>2
<1>6. CASE IsDir(c) /\ ~ShouldCollapse(c, requested) /\ left = 0
  <2>1. p = IF IncludedChildren(c) = {} THEN empty ELSE Marked(c, empty)
    BY <1>6 DEF ExpandDirectory
  <2> QED
    BY <1>2, <1>3, <2>1
<1>7. CASE IsDir(c) /\ ~ShouldCollapse(c, requested) /\ left # 0
  <2> PICK nested : nested = NestedEntries(c, left, over, expand)
    OBVIOUS
  <2>1. p = IF nested.cut THEN Marked(c, nested) ELSE nested
    BY <1>7 DEF ExpandDirectory
  <2>2. over = FALSE
    BY <1>7
  <2>3. /\ Fits(nested, Below(c), {c} \cup Below(c), left, over)
        /\ ~nested.cut => Covers(nested, Below(c))
    BY <1>7, <2>2, NestedFits
  <2>4. CASE nested.cut
    <3>1. /\ nested \in Parts /\ nested.shown \subseteq Below(c) /\ nested.shown # Below(c)
          /\ nested.marked \subseteq {c} \cup Below(c) /\ nested.errors \subseteq nested.shown \cup {c}
          /\ Cardinality(nested.shown) + nested.left <= left /\ (nested.over => nested.left = 0)
      BY <2>3, <2>4 DEF Fits
    <3> QED
      BY <1>0, <2>1, <2>4, <3>1, MarkedFits
  <2>5. CASE ~nested.cut
    BY <2>1, <2>3, <2>5 DEF Fits
  <2> QED
    BY <2>4, <2>5
<1> QED
  BY <1>4, <1>5, <1>6, <1>7

-------------------------------------------------------------------------------
(* The recursion of the expansion.                                         *)

LoopRank == [loop \in Loops |-> Rank(loop.dir, loop.next)]
ExpandStep(requested) ==
  [x \in [Loops -> Parts] \X Loops |-> ExpandFrom(x[2], requested, x[1])]
IsExpansion(expand, requested) ==
  expand = [loop \in Loops |-> ExpandFrom(loop, requested, expand)]

\* f and g do the same in the directory c.
SameInside(f, g, c) == \A l \in Budgets, o \in BOOLEAN : f[Loop(c, 1, l, o)] = g[Loop(c, 1, l, o)]

\* A loop, by its parts.
LEMMA LoopParts ==
  ASSUME NEW d \in Folders, NEW k \in Numbering, NEW l \in Budgets, NEW o \in BOOLEAN
  PROVE  LET loop == Loop(d, k, l, o)
         IN  /\ loop \in Loops /\ LoopRank[loop] = Rank(d, k)
             /\ loop.dir = d /\ loop.next = k /\ loop.left = l /\ loop.over = o
BY DEF Loop, Loops, LoopRank, Folders, Numbering, Budgets

\* Every loop has such parts.
LEMMA LoopIs ==
  ASSUME NEW loop \in Loops
  PROVE  \E d \in Folders, k \in Numbering, l \in Budgets, o \in BOOLEAN : loop = Loop(d, k, l, o)
<1>1. /\ loop.dir \in Folders /\ loop.next \in Numbering /\ loop.left \in Budgets
      /\ loop.over \in BOOLEAN
  BY DEF Loops, Folders, Numbering, Budgets
<1>2. loop = Loop(loop.dir, loop.next, loop.left, loop.over)
  BY DEF Loops, Loop
<1> QED
  BY <1>1, <1>2

\* What a part is made of.
LEMMA PartTypes ==
  ASSUME NEW left \in Budgets, NEW over \in BOOLEAN
  PROVE  /\ Part(left, over) \in Parts
         /\ \A c \in Paths : kind[c] = "unreadable" => Unread(c, left, over) \in Parts
         /\ \A c \in Paths, p \in Parts : Marked(c, p) \in Parts
         /\ \A p, q \in Parts : Joined(p, q) \in Parts
<1>1. Part(left, over) \in Parts
  BY DEF Part, Parts
<1>2. ASSUME NEW c \in Paths, NEW p \in Parts  PROVE Marked(c, p) \in Parts
  BY DEF Marked, Parts
<1>3. ASSUME NEW p \in Parts, NEW q \in Parts  PROVE Joined(p, q) \in Parts
  <2>1. Joined(p, q) = [q EXCEPT !.shown = q.shown \cup p.shown,
                                 !.marked = q.marked \cup p.marked,
                                 !.errors = q.errors \cup p.errors, !.cut = q.cut \/ p.cut]
    BY DEF Joined, Parts
  <2> QED
    BY <2>1 DEF Parts
<1>4. ASSUME NEW c \in Paths, kind[c] = "unreadable"  PROVE Unread(c, left, over) \in Parts
  <2> PICK p : p = Unread(c, left, over)
    OBVIOUS
  <2>1. p = [shown |-> {}, marked |-> {}, errors |-> {c}, left |-> left, over |-> over,
             cut |-> FALSE]
    BY DEF Unread, Part
  <2>2. {c} \in SUBSET Unreadable
    BY <1>4 DEF Unreadable
  <2>3. p \in Parts
    BY ONLY <2>1, <2>2, left \in Budgets, over \in BOOLEAN DEF Parts
  <2> QED
    BY <2>3
<1> QED
  BY <1>1, <1>2, <1>3, <1>4

\* What a directory adds is a part, and depends on the loop inside it alone.
LEMMA DirectoryType ==
  ASSUME IsTree, NEW c \in Paths, NEW requested, NEW left \in Budgets, NEW over \in BOOLEAN,
         NEW f \in [Loops -> Parts]
  PROVE  /\ ExpandDirectory(c, requested, left, over, f) \in Parts
         /\ \A g : SameInside(f, g, c) => ExpandDirectory(c, requested, left, over, g) =
                                            ExpandDirectory(c, requested, left, over, f)
<1> PICK s, m : s = SortChildren(c) /\ m = Len(s)
  OBVIOUS
<1>1. c \in Folders /\ m \in Nat /\ 1 \in Numbering /\ MaxEntries \in Nat
      /\ \A i \in 1..m : s[i] \in Paths
  <2>1. c \in Folders /\ 1 \in Numbering
    BY ListDirAssumption DEF Paths, Folders, Numbering
  <2> QED
    BY <2>1, ChildFacts, ListDirAssumption
<1>2. /\ NestedEntries(c, left, over, f) \in Parts
      /\ \A g : SameInside(f, g, c) =>
           NestedEntries(c, left, over, g) = NestedEntries(c, left, over, f)
  <2>1. CASE kind[c] = "unreadable"
    BY <2>1, PartTypes DEF NestedEntries
  <2>2. CASE kind[c] # "unreadable" /\ m > left
    <3> PICK shown : shown = {s[i] : i \in 1..left}
      OBVIOUS
    <3>1. \A g : NestedEntries(c, left, over, g) =
                   [shown |-> shown, marked |-> {}, errors |-> {}, left |-> 0, over |-> TRUE,
                    cut |-> TRUE]
      BY <2>2 DEF NestedEntries, Part
    <3>2. shown \subseteq Paths /\ 0 \in Budgets
      <4>1. left \in Nat /\ left <= m
        BY <1>1, <2>2 DEF Budgets
      <4>2. \A i \in 1..left : i \in 1..m
        BY <1>1, <4>1
      <4> QED
        BY <1>1, <4>2 DEF Budgets
    <3>3. [shown |-> shown, marked |-> {}, errors |-> {}, left |-> 0, over |-> TRUE,
           cut |-> TRUE] \in Parts
      BY ONLY <3>2 DEF Parts
    <3> QED
      BY <3>1, <3>3
  <2>3. CASE kind[c] # "unreadable" /\ ~(m > left)
    <3> PICK l : l = left - m
      OBVIOUS
    <3>1. l \in Budgets
      BY <1>1, <2>3 DEF Budgets
    <3>2. f[Loop(c, 1, l, over)] \in Parts
      BY <1>1, <3>1, LoopParts
    <3> PICK part : part = f[Loop(c, 1, l, over)]
      OBVIOUS
    <3>3. \A g : NestedEntries(c, left, over, g) =
            LET p == g[Loop(c, 1, l, over)]
            IN  [p EXCEPT !.shown = @ \cup Set(s), !.cut = @ \/ p.over]
      BY <2>3 DEF NestedEntries
    <3>4. Set(s) \subseteq Paths
      <4>1. Lists(s, IncludedChildren(c)) /\ IncludedChildren(c) \subseteq Paths
        BY <1>1, ChildrenListed, ChildrenFacts
      <4> QED
        BY <4>1 DEF Lists
    <3>5. [part EXCEPT !.shown = @ \cup Set(s), !.cut = @ \/ part.over] \in Parts
      <4> PICK more : more = Set(s)
        OBVIOUS
      <4>1. part \in Parts /\ more \subseteq Paths
        BY <3>2, <3>4
      <4>2. [part EXCEPT !.shown = @ \cup more, !.cut = @ \/ part.over] \in Parts
        BY ONLY <4>1 DEF Parts
      <4> QED
        BY <4>2
    <3>6. \A g : SameInside(f, g, c) => g[Loop(c, 1, l, over)] = part
      BY <3>1 DEF SameInside
    <3> PICK entered : entered = [part EXCEPT !.shown = @ \cup Set(s), !.cut = @ \/ part.over]
      OBVIOUS
    <3>7. NestedEntries(c, left, over, f) = entered /\ entered \in Parts
      BY <3>3, <3>5
    <3>8. ASSUME NEW g, SameInside(f, g, c)  PROVE NestedEntries(c, left, over, g) = entered
      <4>1. g[Loop(c, 1, l, over)] = part
        BY <3>6, <3>8
      <4>2. NestedEntries(c, left, over, g) =
              LET p == g[Loop(c, 1, l, over)]
              IN  [p EXCEPT !.shown = @ \cup Set(s), !.cut = @ \/ p.over]
        BY <2>3 DEF NestedEntries
      <4> QED
        BY <4>1, <4>2
    <3> QED
      BY <3>7, <3>8
  <2> QED
    BY <2>1, <2>2, <2>3
<1> PICK empty : empty = Part(left, over)
  OBVIOUS
<1>3. empty \in Parts /\ \A p \in Parts : Marked(c, p) \in Parts
  BY PartTypes
<1>4. \A g : ExpandDirectory(c, requested, left, over, g) =
        IF ~IsDir(c) THEN empty
        ELSE IF ShouldCollapse(c, requested) THEN Marked(c, empty)
        ELSE IF left = 0
        THEN IF IncludedChildren(c) = {} THEN empty ELSE Marked(c, empty)
        ELSE IF NestedEntries(c, left, over, g).cut
        THEN Marked(c, NestedEntries(c, left, over, g)) ELSE NestedEntries(c, left, over, g)
  BY DEF ExpandDirectory
<1> HIDE DEF IsDir
<1>5. ExpandDirectory(c, requested, left, over, f) \in Parts
  BY <1>2, <1>3, <1>4
<1>6. ASSUME NEW g, SameInside(f, g, c)
      PROVE  ExpandDirectory(c, requested, left, over, g) =
               ExpandDirectory(c, requested, left, over, f)
  <2>1. NestedEntries(c, left, over, g) = NestedEntries(c, left, over, f)
    BY <1>2, <1>6
  <2> QED
    BY <1>4, <2>1
<1> QED
  BY <1>5, <1>6

\* The rest of the loop, from the k-th child c of d on, when f has the later loops.
Onward(c, d, k, requested, l, o, f) ==
  LET part == ExpandDirectory(c, requested, l, o, f)
  IN  Joined(part, f[Loop(d, k + 1, part.left, part.over)])

\* One step of a loop: nothing is left, or there is one more child.
LEMMA OneLoopStep ==
  ASSUME IsTree, NEW d \in Folders, NEW k \in Numbering, NEW l \in Budgets, NEW o \in BOOLEAN,
         NEW requested
  PROVE  \/ /\ BelowFrom(d, k) = {}
            /\ \A f : ExpandFrom(Loop(d, k, l, o), requested, f) = Part(l, o)
         \/ \E c \in IncludedChildren(d) :
              /\ c \in Paths /\ c \in Folders /\ c > d
              /\ k <= Nodes /\ k + 1 \in Numbering
              /\ BelowFrom(d, k) = Below(c) \cup BelowFrom(d, k + 1)
              /\ \A n \in Below(c) : n \notin BelowFrom(d, k + 1)
              /\ FromChild(d, k) = ({c} \cup Below(c)) \cup FromChild(d, k + 1)
              /\ \A n \in {c} \cup Below(c) : n \notin FromChild(d, k + 1)
              /\ \A f : ExpandFrom(Loop(d, k, l, o), requested, f) =
                          Onward(c, d, k, requested, l, o, f)
<1> PICK s, m, loop : s = SortChildren(d) /\ m = Len(s) /\ loop = Loop(d, k, l, o)
  OBVIOUS
<1>0. loop.dir = d /\ loop.next = k /\ loop.left = l /\ loop.over = o
  BY LoopParts
<1>1. m \in 0..Nodes /\ k \in Nat /\ 1 <= k /\ Nodes \in Nat
  BY ChildFacts, ListDirAssumption DEF Numbering
<1>2. CASE k > m
  <2>1. \A i : i \notin k..m
    BY <1>1, <1>2
  <2>2. BelowFrom(d, k) = {}
    BY <2>1 DEF BelowFrom
  <2>3. \A f : ExpandFrom(loop, requested, f) = Part(l, o)
    BY <1>0, <1>2 DEF ExpandFrom
  <2> QED
    BY <2>2, <2>3
<1>3. CASE ~(k > m)
  <2>1. k \in 1..m /\ k <= Nodes /\ k + 1 \in Numbering
    BY <1>1, <1>3 DEF Numbering
  <2> PICK c : c = s[k]
    OBVIOUS
  <2>2. c \in IncludedChildren(d) /\ c \in Paths /\ c \in Folders /\ c > d
    BY <2>1, ChildFacts
  <2>3. /\ FromChild(d, k) = ({c} \cup Below(c)) \cup FromChild(d, k + 1)
        /\ \A n \in {c} \cup Below(c) : n \notin FromChild(d, k + 1)
        /\ BelowFrom(d, k) = Below(c) \cup BelowFrom(d, k + 1)
        /\ \A n \in Below(c) : n \notin BelowFrom(d, k + 1)
    BY <2>1, FromChildSplits, BelowFromSplits
  <2>4. \A f : ExpandFrom(loop, requested, f) = Onward(c, d, k, requested, l, o, f)
    BY <1>0, <1>3 DEF ExpandFrom, Onward
  <2> QED
    BY <2>1, <2>2, <2>3, <2>4
<1> QED
  BY <1>2, <1>3

\* A loop inside c and the rest of the loop have a lower rank.
LEMMA LowerLoops ==
  ASSUME NEW d \in Folders, NEW k \in Numbering, NEW l \in Budgets, NEW o \in BOOLEAN,
         NEW c \in Folders, c > d, k <= Nodes, NEW i \in Budgets, NEW u \in BOOLEAN
  PROVE  /\ Loop(c, 1, i, u) \in Loops /\ Loop(d, k + 1, i, u) \in Loops
         /\ LoopRank[Loop(c, 1, i, u)] < LoopRank[Loop(d, k, l, o)]
         /\ LoopRank[Loop(d, k + 1, i, u)] < LoopRank[Loop(d, k, l, o)]
<1>1. 1 \in Numbering
  BY ListDirAssumption DEF Numbering
<1>2. k + 1 \in Numbering /\ Rank(d, k + 1) < Rank(d, k) /\ Rank(c, 1) < Rank(d, k)
  BY <1>1, RankDescends
<1> QED
  BY <1>1, <1>2, LoopParts

\* The ranks of loops.
LEMMA LoopRanks ==
  Ranks \in Nat /\ LoopRank \in [Loops -> 0..Ranks] /\ LoopRank \in [Loops -> Nat]
<1>1. Ranks \in Nat
  <2>1. 0 \in Folders /\ 1 \in Numbering
    BY ListDirAssumption DEF Folders, Numbering
  <2> QED
    BY <2>1, RankDescends
<1>2. ASSUME NEW loop \in Loops  PROVE Rank(loop.dir, loop.next) \in 0..Ranks
  BY RankDescends DEF Loops, Folders, Numbering
<1>3. \A loop \in Loops : Rank(loop.dir, loop.next) \in Nat
  BY <1>1, <1>2
<1> QED
  BY <1>1, <1>2, <1>3 DEF LoopRank

\* The expansion's recursion descends.
LEMMA ExpansionDescends ==
  ASSUME IsTree, NEW requested
  PROVE  Descends(ExpandStep(requested), Loops, Parts, LoopRank, Ranks)
<1> PICK step : step = ExpandStep(requested)
  OBVIOUS
<1>1. ASSUME NEW f \in [Loops -> Parts], NEW loop \in Loops
      PROVE  /\ ExpandFrom(loop, requested, f) \in Parts
             /\ \A g \in [Loops -> Parts] : SameBelow(f, g, Loops, LoopRank, loop) =>
                  ExpandFrom(loop, requested, f) = ExpandFrom(loop, requested, g)
  <2>1. PICK d \in Folders, k \in Numbering, l \in Budgets, o \in BOOLEAN : loop = Loop(d, k, l, o)
    BY LoopIs
  <2>2. CASE \A g : ExpandFrom(loop, requested, g) = Part(l, o)
    BY <2>2, PartTypes
  <2>3. ASSUME NEW c \in Paths, c \in Folders, c > d, k <= Nodes,
               \A g : ExpandFrom(loop, requested, g) = Onward(c, d, k, requested, l, o, g)
        PROVE  /\ ExpandFrom(loop, requested, f) \in Parts
               /\ \A g \in [Loops -> Parts] : SameBelow(f, g, Loops, LoopRank, loop) =>
                    ExpandFrom(loop, requested, f) = ExpandFrom(loop, requested, g)
    <3> PICK part : part = ExpandDirectory(c, requested, l, o, f)
      OBVIOUS
    <3>1. part \in Parts
      BY DirectoryType
    <3>2. part.left \in Budgets /\ part.over \in BOOLEAN
      BY <3>1 DEF Parts
    <3> PICK later : later = Loop(d, k + 1, part.left, part.over)
      OBVIOUS
    <3>3. later \in Loops /\ LoopRank[later] < LoopRank[loop]
      BY <2>1, <2>3, <3>2, LowerLoops
    <3>4. f[later] \in Parts
      BY <3>3
    <3>5. ExpandFrom(loop, requested, f) = Joined(part, f[later])
      BY <2>3 DEF Onward
    <3>6. Joined(part, f[later]) \in Parts
      BY <3>1, <3>4, PartTypes
    <3>7. ASSUME NEW g \in [Loops -> Parts], SameBelow(f, g, Loops, LoopRank, loop)
          PROVE  ExpandFrom(loop, requested, f) = ExpandFrom(loop, requested, g)
      <4>1. SameInside(f, g, c)
        <5>1. ASSUME NEW i \in Budgets, NEW u \in BOOLEAN
              PROVE  f[Loop(c, 1, i, u)] = g[Loop(c, 1, i, u)]
          <6>1. Loop(c, 1, i, u) \in Loops /\ LoopRank[Loop(c, 1, i, u)] < LoopRank[loop]
            BY <2>1, <2>3, LowerLoops
          <6> QED
            BY <3>7, <6>1 DEF SameBelow
        <5> QED
          BY <5>1 DEF SameInside
      <4>2. ExpandDirectory(c, requested, l, o, g) = part
        BY <4>1, DirectoryType
      <4>3. f[later] = g[later]
        BY <3>3, <3>7 DEF SameBelow
      <4>4. ExpandFrom(loop, requested, g) = Joined(part, g[later])
        BY <2>3, <4>2 DEF Onward
      <4> QED
        BY <3>5, <4>3, <4>4
    <3> QED
      BY <3>5, <3>6, <3>7
  <2> QED
    BY <2>1, <2>2, <2>3, OneLoopStep
<1>2. \A f \in [Loops -> Parts], loop \in Loops : step[<<f, loop>>] = ExpandFrom(loop, requested, f)
  BY DEF ExpandStep
<1>3. step \in [[Loops -> Parts] \X Loops -> Parts]
  BY <1>1 DEF ExpandStep
<1>4. ASSUME NEW loop \in Loops, NEW f \in [Loops -> Parts], NEW g \in [Loops -> Parts],
             SameBelow(f, g, Loops, LoopRank, loop)
      PROVE  step[<<f, loop>>] = step[<<g, loop>>]
  BY <1>1, <1>2, <1>4
<1> QED
  BY <1>3, <1>4, LoopRanks DEF Descends

\* So ExpandDirectories is what an expansion does.
LEMMA ExpansionExists ==
  ASSUME IsTree, NEW d, NEW requested, NEW left, NEW over
  PROVE  \E expand : /\ IsExpansion(expand, requested)
                     /\ ExpandDirectories(d, requested, left, over) =
                          expand[Loop(d, 1, left, over)]
<1>1. Parts # {}
  <2>1. 0 \in Budgets /\ FALSE \in BOOLEAN
    BY ListDirAssumption DEF Budgets
  <2>2. Part(0, FALSE) \in Parts
    BY <2>1, PartTypes
  <2> QED
    BY <2>2
<1>2. PICK f : Solves(f, ExpandStep(requested), Loops, Parts)
  BY <1>1, LoopRanks, ExpansionDescends, RecursionExists
<1>3. f \in [Loops -> Parts] /\ \A loop \in Loops : f[loop] = ExpandFrom(loop, requested, f)
  BY <1>2 DEF ExpandStep, Solves
<1>4. IsExpansion(f, requested)
  BY <1>3 DEF IsExpansion
<1> PICK first : first = CHOOSE expand : IsExpansion(expand, requested)
  OBVIOUS
<1>5. IsExpansion(first, requested)
  BY <1>4
<1>6. ExpandDirectories(d, requested, left, over) = first[Loop(d, 1, left, over)]
  BY DEF ExpandDirectories, IsExpansion
<1> QED
  BY <1>5, <1>6

\* A loop is answered for.
LoopFits(part, loop) ==
  /\ Fits(part, BelowFrom(loop.dir, loop.next), FromChild(loop.dir, loop.next), loop.left, loop.over)
  /\ Covers(part, BelowFrom(loop.dir, loop.next))

\* One step of a loop keeps that, when the loops of a lower rank are answered for.
LEMMA LoopStep ==
  ASSUME IsTree, NEW expand, NEW requested, IsExpansion(expand, requested),
         NEW loop \in Loops, loop.over => loop.left = 0,
         \A lower \in Loops : LoopRank[lower] < LoopRank[loop] /\ (lower.over => lower.left = 0)
                                => LoopFits(expand[lower], lower)
  PROVE  LoopFits(expand[loop], loop)
<1>1. PICK d \in Folders, k \in Numbering, l \in Budgets, o \in BOOLEAN : loop = Loop(d, k, l, o)
  BY LoopIs
<1>2. loop.dir = d /\ loop.next = k /\ loop.left = l /\ loop.over = o
  BY <1>1, LoopParts
<1>3. expand[loop] = ExpandFrom(loop, requested, expand)
  BY DEF IsExpansion
<1>4. CASE BelowFrom(d, k) = {} /\ \A f : ExpandFrom(loop, requested, f) = Part(l, o)
  <2>1. Fits(Part(l, o), {}, FromChild(d, k), l, o)
    BY <1>2, PartFacts
  <2>2. expand[loop] = Part(l, o) /\ Covers(Part(l, o), {})
    BY <1>3, <1>4 DEF Covers
  <2> QED
    BY <1>2, <1>4, <2>1, <2>2 DEF LoopFits
<1>5. ASSUME NEW c \in Paths, c \in Folders, c > d, k <= Nodes, k + 1 \in Numbering,
             BelowFrom(d, k) = Below(c) \cup BelowFrom(d, k + 1),
             \A n \in Below(c) : n \notin BelowFrom(d, k + 1),
             FromChild(d, k) = ({c} \cup Below(c)) \cup FromChild(d, k + 1),
             \A n \in {c} \cup Below(c) : n \notin FromChild(d, k + 1),
             \A f : ExpandFrom(loop, requested, f) = Onward(c, d, k, requested, l, o, f)
      PROVE  LoopFits(expand[loop], loop)
  <2>1. LoopsFit(expand, c)
    <3>1. ASSUME NEW i \in Budgets, NEW u \in BOOLEAN, u => i = 0
          PROVE  /\ Fits(expand[Loop(c, 1, i, u)], BelowFrom(c, 1), Below(c), i, u)
                 /\ Covers(expand[Loop(c, 1, i, u)], BelowFrom(c, 1))
      <4> PICK inner : inner = Loop(c, 1, i, u)
        OBVIOUS
      <4>1. inner \in Loops /\ LoopRank[inner] < LoopRank[loop]
        BY <1>1, <1>5, LowerLoops
      <4>2. inner.dir = c /\ inner.next = 1 /\ inner.left = i /\ inner.over = u
        BY DEF Loop
      <4>3. LoopFits(expand[inner], inner)
        BY <3>1, <4>1, <4>2
      <4>4. FromChild(c, 1) = Below(c)
        BY <1>5, FromFirstChild
      <4> QED
        BY <4>2, <4>3, <4>4 DEF LoopFits
    <3> QED
      BY <3>1 DEF LoopsFit
  <2> PICK part : part = ExpandDirectory(c, requested, l, o, expand)
    OBVIOUS
  <2>2. Fits(part, Below(c), {c} \cup Below(c), l, o) /\ Covers(part, Below(c))
    BY <1>2, <2>1, DirectoryFits
  <2>3. /\ part.left \in Budgets /\ part.over \in BOOLEAN /\ (part.over => part.left = 0)
    BY <2>2 DEF Fits, Parts
  <2> PICK later : later = Loop(d, k + 1, part.left, part.over)
    OBVIOUS
  <2>4. later \in Loops /\ LoopRank[later] < LoopRank[loop]
    BY <1>1, <1>5, <2>3, LowerLoops
  <2>5. /\ later.dir = d /\ later.next = k + 1
        /\ later.left = part.left /\ later.over = part.over
    BY DEF Loop
  <2>6. LoopFits(expand[later], later)
    BY <2>3, <2>4, <2>5
  <2>7. /\ Fits(expand[later], BelowFrom(d, k + 1), FromChild(d, k + 1), part.left, part.over)
        /\ Covers(expand[later], BelowFrom(d, k + 1))
    BY <2>5, <2>6 DEF LoopFits
  <2>8. Below(c) \subseteq Paths /\ BelowFrom(d, k + 1) \subseteq Paths
    BY <1>5, BelowLeast DEF BelowFrom
  <2>9. BelowFrom(d, k + 1) \subseteq FromChild(d, k + 1)
    BY DEF BelowFrom, FromChild
  <2>10. /\ Fits(Joined(part, expand[later]), BelowFrom(d, k), FromChild(d, k), l, o)
        /\ Covers(Joined(part, expand[later]), BelowFrom(d, k))
    <3> PICK q, B, C, M, N : /\ q = expand[later] /\ B = Below(c) /\ C = BelowFrom(d, k + 1)
                             /\ M = {c} \cup Below(c) /\ N = FromChild(d, k + 1)
      OBVIOUS
    <3>1. /\ l \in Budgets /\ o \in BOOLEAN
          /\ B \subseteq Paths /\ C \subseteq Paths
          /\ B \subseteq M /\ C \subseteq N /\ \A n \in M : n \notin N
          /\ Fits(part, B, M, l, o) /\ Covers(part, B)
          /\ Fits(q, C, N, part.left, part.over) /\ Covers(q, C)
      BY <1>5, <2>2, <2>7, <2>8, <2>9
    <3>2. Fits(Joined(part, q), B \cup C, M \cup N, l, o) /\ Covers(Joined(part, q), B \cup C)
      BY ONLY <3>1, JoinedFits
    <3> QED
      BY <1>5, <3>2
  <2>11. expand[loop] = Joined(part, expand[later])
    BY <1>3, <1>5 DEF Onward
  <2> QED
    BY <1>2, <2>10, <2>11 DEF LoopFits
<1> QED
  BY <1>1, <1>4, <1>5, OneLoopStep

\* Every loop is answered for: were there some that are not, one of the lowest
\* rank would be.
LEMMA ExpandedFits ==
  ASSUME IsTree, NEW d \in Folders, NEW requested, NEW left \in Budgets
  PROVE  LET part == ExpandDirectories(d, requested, left, FALSE)
         IN  /\ Fits(part, BelowFrom(d, 1), Below(d), left, FALSE)
             /\ Covers(part, BelowFrom(d, 1))
<1> PICK loop : loop = Loop(d, 1, left, FALSE)
  OBVIOUS
<1>1. PICK expand : /\ IsExpansion(expand, requested)
                    /\ ExpandDirectories(d, requested, left, FALSE) = expand[loop]
  BY ExpansionExists
<1> PICK Bad : Bad = {x \in Loops : (x.over => x.left = 0) /\ ~LoopFits(expand[x], x)}
  OBVIOUS
<1>2. Bad = {}
  <2> SUFFICES ASSUME Bad # {}  PROVE FALSE
    OBVIOUS
  <2>1. PICK x \in Bad : \A y \in Bad : LoopRank[x] <= LoopRank[y]
    <3>1. Bad \subseteq Loops
      OBVIOUS
    <3> QED
      BY <3>1, LoopRanks, LeastRank
  <2>2. ASSUME NEW lower \in Loops, LoopRank[lower] < LoopRank[x], lower.over => lower.left = 0
        PROVE  LoopFits(expand[lower], lower)
    <3>1. LoopRank[lower] \in Nat /\ LoopRank[x] \in Nat
      BY LoopRanks
    <3>2. ~(LoopRank[x] <= LoopRank[lower])
      BY <2>2, <3>1
    <3>3. lower \notin Bad
      BY <2>1, <3>2
    <3> QED
      BY <2>2, <3>3
  <2>3. LoopFits(expand[x], x)
    BY <1>1, <2>2, LoopStep
  <2> QED
    BY <2>3
<1>3. 1 \in Numbering
  BY ListDirAssumption DEF Numbering
<1>4. /\ loop \in Loops /\ loop.dir = d /\ loop.next = 1 /\ loop.left = left /\ loop.over = FALSE
  <2>1. loop \in Loops
    BY <1>3, LoopParts
  <2> QED
    BY <2>1 DEF Loop
<1>5. LoopFits(expand[loop], loop)
  BY <1>2, <1>4
<1>6. FromChild(d, 1) = Below(d)
  BY FromFirstChild
<1> QED
  BY <1>1, <1>4, <1>5, <1>6 DEF LoopFits

-------------------------------------------------------------------------------
(* Answers.                                                                *)

\* An answer holds no more than its limit, shows only what is below the
\* directory, says whether that is all, and marks the way to the rest.
LEMMA ListingFits ==
  ASSUME IsTree, NEW d \in Folders, NEW p, p = DirectoryEntries(d)
  PROVE  /\ Fits(p, Below(d), {d} \cup Below(d), MaxEntries, FALSE)
         /\ DirectEntriesComplete(d) => Covers(p, Below(d))
<1> PICK s, m : s = SortChildren(d) /\ m = Len(s)
  OBVIOUS
<1>1. m \in Nat /\ MaxEntries \in Nat /\ MaxEntries \in Budgets /\ 0 \in Budgets
  BY ChildFacts, ListDirAssumption DEF Budgets
<1>2. CASE d # Root /\ kind[d] = "unreadable"
  <2>1. p = Unread(d, MaxEntries, FALSE)
    BY <1>2 DEF DirectoryEntries
  <2>2. Below(d) = {} /\ {d} \cup {} = {d}
    BY <1>2, ChildrenFacts, FilesAreEmpty
  <2>3. d \in Paths
    BY <1>2, ListDirAssumption DEF Folders, Paths, Root
  <2>4. Fits(p, {}, {d}, MaxEntries, FALSE)
    BY <1>1, <1>2, <2>1, <2>3, UnreadFacts
  <2> QED
    BY <2>2, <2>4 DEF Covers
<1>3. CASE ~(d # Root /\ kind[d] = "unreadable") /\ m > MaxEntries
  <2> PICK shown : shown = {s[i] : i \in 1..MaxEntries}
    OBVIOUS
  <2>1. p = [shown |-> shown, marked |-> {}, errors |-> {}, left |-> 0, over |-> FALSE,
             cut |-> TRUE]
    BY <1>3 DEF DirectoryEntries, Part
  <2>2. /\ shown \subseteq Paths /\ shown \subseteq Below(d) /\ shown # Below(d)
        /\ Cardinality(shown) <= MaxEntries
    <3>1. MaxEntries < Len(SortChildren(d))
      BY <1>1, <1>3
    <3>2. shown = {SortChildren(d)[i] : i \in 1..MaxEntries}
      OBVIOUS
    <3>3. d \in Folders /\ MaxEntries \in Budgets
      BY <1>1
    <3>4. /\ shown \subseteq Paths /\ shown \subseteq Below(d) /\ shown # Below(d)
          /\ Cardinality(shown) <= MaxEntries
      BY ONLY IsTree, <3>1, <3>2, <3>3, FirstEntries
    <3> QED
      BY <3>4
  <2>3. p \in Parts
    BY ONLY <1>1, <2>1, <2>2 DEF Parts
  <2>4. Cardinality(shown) + 0 <= MaxEntries
    <3>1. Cardinality(shown) \in Nat
      BY <2>2, PathsFinite
    <3> QED
      BY ONLY <1>1, <2>2, <3>1
  <2>5. ~DirectEntriesComplete(d)
    BY <1>1, <1>3 DEF DirectEntriesComplete
  <2>6. /\ p.shown = shown /\ p.marked = {} /\ p.errors = {} /\ p.left = 0
        /\ p.over = FALSE /\ p.cut = TRUE
    BY <2>1
  <2> QED
    BY <2>2, <2>3, <2>4, <2>5, <2>6 DEF Fits
<1>4. CASE ~(d # Root /\ kind[d] = "unreadable") /\ ~(m > MaxEntries)
  <2> PICK part : part = ExpandDirectories(d, d, MaxEntries - m, FALSE)
    OBVIOUS
  <2>1. p = [part EXCEPT !.shown = @ \cup Set(s), !.cut = @ \/ part.over]
    BY <1>4 DEF DirectoryEntries
  <2>2. MaxEntries - m \in Budgets /\ m <= MaxEntries
    BY <1>1, <1>4 DEF Budgets
  <2>3. /\ Fits(part, BelowFrom(d, 1), Below(d), MaxEntries - m, FALSE)
        /\ Covers(part, BelowFrom(d, 1))
    BY <2>2, ExpandedFits
  <2>4. Fits(p, Below(d), Below(d), MaxEntries, FALSE) /\ Covers(p, Below(d))
    BY ONLY IsTree, d \in Folders, s = SortChildren(d), m = Len(s), <1>1, <2>1, <2>2, <2>3,
            ShownEntries
  <2> QED
    BY <2>4 DEF Fits
<1> QED
  BY <1>2, <1>3, <1>4

\* The numbers of found before i.
Before(found, i) == {j \in found : j < i}

\* There are more of them the farther i is.
LEMMA BeforeStep ==
  ASSUME NEW found, found \subseteq Nat, IsFiniteSet(found), NEW i \in found, NEW j \in found, i < j
  PROVE  Cardinality(Before(found, i)) # Cardinality(Before(found, j))
<1>1. i \in Nat /\ j \in Nat /\ \A k \in found : k \in Nat
  OBVIOUS
<1>2. Before(found, i) \in SUBSET Before(found, j)
  <2>1. ASSUME NEW x \in Before(found, i)  PROVE x \in Before(found, j)
    <3>1. x \in found /\ x < i
      BY DEF Before
    <3>2. x \in Nat
      BY <1>1, <3>1
    <3>3. x < j
      BY ONLY <1>1, <3>1, <3>2, i < j
    <3> QED
      BY <3>1, <3>3 DEF Before
  <2> QED
    BY <2>1
<1>3. i \in Before(found, j) /\ i \notin Before(found, i)
  BY <1>1 DEF Before
<1>4. IsFiniteSet(Before(found, j))
  <2>1. Before(found, j) \in SUBSET found
    BY DEF Before
  <2> QED
    BY <2>1, FS_Subset
<1> QED
  BY <1>2, <1>3, <1>4, FS_Subset

\* A search's answer holds no more than its limit, only what matches, and says
\* whether that is all.
LEMMA SearchFits ==
  ASSUME IsTree, NEW matches, NEW a, a = SearchPaths(matches)
  PROVE  /\ a.shown \subseteq Below(Root)
         /\ Cardinality(a.shown) <= MaxEntries
         /\ a.shown \subseteq a.wanted
         /\ a.truncated <=> a.shown # a.wanted
         /\ a.errors = {}
<1> PICK w, found : w = Walk(Root) /\ found = {i \in DOMAIN w : w[i] \in matches}
  OBVIOUS
<1> PICK returned : returned = {i \in found : Cardinality(Before(found, i)) < MaxEntries}
  OBVIOUS
<1>0. Root \in Folders /\ MaxEntries \in Nat
  BY ListDirAssumption DEF Root, Folders
<1>1. Lists(w, Below(Root))
  BY <1>0, WalkLists
<1>2. /\ Len(w) \in Nat /\ DOMAIN w = 1..Len(w) /\ \A i \in DOMAIN w : w[i] \in Below(Root)
      /\ \A i, j \in DOMAIN w : w[i] = w[j] => i = j
  BY <1>1, ListIndexes DEF Lists, Distinct, Set
<1>3. /\ a.wanted = {w[i] : i \in found} /\ a.shown = {w[i] : i \in returned}
      /\ a.truncated = (found # returned)
  BY DEF SearchPaths, Before, Answer
<1>4. found \subseteq Nat /\ IsFiniteSet(found) /\ IsFiniteSet(returned) /\ found \subseteq DOMAIN w
  <2>1. IsFiniteSet(1..Len(w))
    BY <1>2, FS_Interval
  <2>2. found \in SUBSET (1..Len(w)) /\ returned \in SUBSET (1..Len(w))
    BY <1>2
  <2>3. IsFiniteSet(found) /\ IsFiniteSet(returned)
    BY <2>1, <2>2, FS_Subset
  <2> QED
    BY <1>2, <2>2, <2>3
<1>5. Cardinality(returned) <= MaxEntries
  <2> PICK T, place : /\ T = 0..MaxEntries - 1
                      /\ place = [i \in returned |-> Cardinality(Before(found, i))]
    OBVIOUS
  <2>1. ASSUME NEW i \in returned  PROVE Cardinality(Before(found, i)) \in T
    <3>1. Before(found, i) \in SUBSET found
      BY DEF Before
    <3>2. Cardinality(Before(found, i)) \in Nat
      BY <1>4, <3>1, FS_Subset, FS_CardinalityType
    <3>3. Cardinality(Before(found, i)) < MaxEntries
      OBVIOUS
    <3> QED
      BY <1>0, <3>2, <3>3
  <2>2. place \in [returned -> T]
    BY <2>1
  <2>3. ASSUME NEW i \in returned, NEW j \in returned, place[i] = place[j]  PROVE i = j
    <3>1. i \in found /\ j \in found /\ i \in Nat /\ j \in Nat
      BY <1>4
    <3>2. Cardinality(Before(found, i)) = Cardinality(Before(found, j))
      BY <2>3
    <3>3. ~(i < j) /\ ~(j < i)
      BY <1>4, <3>1, <3>2, BeforeStep
    <3> QED
      BY <3>1, <3>3
  <2>4. place \in Injection(returned, T)
    BY <2>2, <2>3, Fun_IsInj
  <2>5. IsFiniteSet(T) /\ Cardinality(T) = MaxEntries
    <3>1. 0 \in Int /\ MaxEntries - 1 \in Int
      BY <1>0
    <3>2. IsFiniteSet(0..MaxEntries - 1)
          /\ Cardinality(0..MaxEntries - 1) =
               IF 0 > MaxEntries - 1 THEN 0 ELSE MaxEntries - 1 - 0 + 1
      BY <3>1, FS_Interval
    <3>3. Cardinality(0..MaxEntries - 1) = MaxEntries
      BY ONLY <1>0, <3>2
    <3> QED
      BY <3>2, <3>3
  <2> QED
    BY <2>4, <2>5, FS_Injection
<1>6. Cardinality(a.shown) <= MaxEntries
  <2> PICK f, S : S = a.shown /\ f = [i \in returned |-> w[i]]
    OBVIOUS
  <2>1. S = {w[i] : i \in returned}
    BY <1>3
  <2>2. f \in [returned -> S] /\ \A t \in S : \E i \in returned : f[i] = t
    <3>1. DOMAIN f = returned /\ \A i \in returned : f[i] = w[i]
      OBVIOUS
    <3>2. \A i \in returned : f[i] \in S
      BY <2>1, <3>1
    <3>3. f = [i \in returned |-> f[i]]
      BY <3>1
    <3>4. \A t \in S : \E i \in returned : f[i] = t
      BY <2>1, <3>1
    <3> QED
      BY <3>2, <3>3, <3>4
  <2>3. f \in Surjection(returned, S)
    BY ONLY <2>2, Fun_IsSurj
  <2>4. Cardinality(S) <= Cardinality(returned) /\ IsFiniteSet(S)
    BY <1>4, <2>3, FS_Surjection
  <2>5. Cardinality(S) \in Nat /\ Cardinality(returned) \in Nat
    BY <1>4, <2>4, FS_CardinalityType
  <2>6. Cardinality(S) <= MaxEntries
    BY ONLY <1>0, <1>5, <2>4, <2>5
  <2> QED
    BY <2>6
<1>7. a.shown \subseteq a.wanted /\ a.shown \subseteq Below(Root)
  <2>1. ASSUME NEW n \in a.shown  PROVE n \in a.wanted /\ n \in Below(Root)
    <3>1. PICK i \in returned : n = w[i]
      BY <1>3
    <3>2. i \in found /\ i \in DOMAIN w
      BY <1>4
    <3>3. w[i] \in Below(Root)
      BY <1>2, <3>2
    <3> QED
      BY <1>3, <3>1, <3>2, <3>3
  <2> QED
    BY <2>1
<1>8. ASSUME a.shown = a.wanted  PROVE found = returned
  <2>1. ASSUME NEW i \in found  PROVE i \in returned
    <3>1. w[i] \in a.shown
      BY <1>3, <1>8
    <3>2. PICK j \in returned : w[i] = w[j]
      BY <1>3, <3>1
    <3>3. i = j
      BY <1>2, <1>4, <3>2
    <3> QED
      BY <3>2, <3>3
  <2> QED
    BY <2>1
<1>9. a.truncated <=> a.shown # a.wanted
  BY <1>3, <1>8
<1>10. a.errors = {}
  BY DEF SearchPaths, Answer
<1> QED
  BY <1>6, <1>7, <1>9, <1>10

-------------------------------------------------------------------------------
(* The invariant.                                                          *)

\* What is not seen yet is below a directory that is still to be listed,
\* unless an answer said that a directory's own entries are incomplete.
NothingLost ==
  whole => \A n \in Below(Root) : n \in seen \/ \E d \in todo : n \in Below(d)

Inv ==
  /\ IsTree
  /\ todo \subseteq {Root} \cup Below(Root) /\ seen \subseteq Below(Root) /\ whole \in BOOLEAN
  /\ answer.target \in {Root} \cup Below(Root) /\ answer.shown \subseteq Below(Root)
  /\ NothingLost
  /\ AnswersAreTruthful

\* A workspace that stays as it is has the same below each directory.
LEMMA TreeKept ==
  ASSUME UNCHANGED tree
  PROVE  (IsTree => IsTree') /\ \A d : Below(d)' = Below(d)
<1>1. parent' = parent /\ kind' = kind /\ src' = src
  BY DEF tree
<1>2. \A d : IncludedChildren(d)' = IncludedChildren(d)
  BY <1>1 DEF IncludedChildren
<1>3. \A d, S : Closed(d, S)' <=> Closed(d, S)
  BY <1>2 DEF Closed
<1>4. \A d : Below(d)' = Below(d)
  BY <1>3 DEF Below
<1>5. IsTree => IsTree'
  BY <1>1 DEF IsTree
<1> QED
  BY <1>4, <1>5

\* In the beginning nothing is seen and the root is to be listed.
LEMMA InitInv == Init => Inv
<1> SUFFICES ASSUME Init  PROVE Inv
  OBVIOUS
<1>1. IsTree
  BY DEF Init, IsTree
<1>2. todo = {Root} /\ seen = {} /\ whole = TRUE /\ answer = NoAnswer
  BY DEF Init
<1>3. NothingLost
  BY <1>2 DEF NothingLost
<1>4. AnswersAreTruthful
  <2>1. Cardinality({}) = 0 /\ 0 <= MaxEntries
    BY FS_EmptySet, ListDirAssumption
  <2>2. /\ answer.shown = {} /\ answer.wanted = {} /\ answer.errors = {}
        /\ answer.truncated = FALSE
    BY <1>2 DEF NoAnswer, Answer
  <2> QED
    BY <2>1, <2>2 DEF AnswersAreTruthful
<1>5. answer.target = Root /\ answer.shown = {}
  BY <1>2 DEF NoAnswer, Answer
<1> QED
  BY <1>1, <1>2, <1>3, <1>4, <1>5 DEF Inv

\* Listing a directory: what was below it is shown, or below what is marked.
LEMMA ListStep ==
  ASSUME Inv, NEW d \in todo \cup answer.errors, List(d)
  PROVE  Inv'
<1> PICK p : p = DirectoryEntries(d)
  OBVIOUS
<1>1. /\ answer'.wanted = Set(Walk(d)) /\ answer'.shown = p.shown /\ answer'.truncated = p.cut
      /\ answer'.errors = p.errors /\ answer'.target = d
      /\ seen' = seen \cup p.shown /\ todo' = (todo \ {d}) \cup p.marked
      /\ whole' = (whole /\ DirectEntriesComplete(d)) /\ UNCHANGED tree
  BY DEF List, Answer
<1>2. IsTree /\ Root \in Folders
  BY ListDirAssumption DEF Inv, Root, Folders
<1>3. d \in {Root} \cup Below(Root) /\ d \in Folders /\ Below(d) \subseteq Below(Root)
  <2>1. d \in {Root} \cup Below(Root)
    BY DEF Inv, AnswersAreTruthful
  <2> QED
    BY <1>2, <2>1, BelowInside
<1>4. /\ Fits(p, Below(d), {d} \cup Below(d), MaxEntries, FALSE)
      /\ DirectEntriesComplete(d) => Covers(p, Below(d))
  BY <1>2, <1>3, ListingFits
<1>5. /\ p \in Parts /\ p.shown \subseteq Below(d) /\ p.marked \subseteq {d} \cup Below(d)
      /\ \A n \in p.errors : n \in Unreadable /\ n \in p.shown \cup {d}
      /\ Cardinality(p.shown) + p.left <= MaxEntries /\ (p.cut <=> p.shown # Below(d))
  BY <1>4 DEF Fits, Parts
<1>6. IsTree' /\ Below(Root)' = Below(Root) /\ \A n : Below(n)' = Below(n)
  BY <1>1, <1>2, TreeKept
<1>7. /\ todo' \subseteq {Root} \cup Below(Root) /\ seen' \subseteq Below(Root)
      /\ whole' \in BOOLEAN
      /\ answer'.target \in {Root} \cup Below(Root) /\ answer'.shown \subseteq Below(Root)
  BY <1>1, <1>3, <1>5 DEF Inv
<1>8. NothingLost'
  <2>1. ASSUME whole', NEW n \in Below(Root)
        PROVE  n \in seen' \/ \E e \in todo' : n \in Below(e)
    <3>1. n \in seen \/ \E e \in todo : n \in Below(e)
      BY <1>1, <2>1 DEF Inv, NothingLost
    <3>2. CASE n \in Below(d)
      <4>1. n \in p.shown \/ \E m \in p.marked : n \in Below(m)
        BY <1>1, <1>4, <2>1, <3>2 DEF Covers
      <4> QED
        BY <1>1, <4>1
    <3>3. CASE n \notin Below(d)
      BY <1>1, <3>1, <3>3
    <3> QED
      BY <3>2, <3>3
  <2> QED
    BY <1>6, <2>1 DEF NothingLost
<1>9. AnswersAreTruthful'
  <2>1. Set(Walk(d)) = Below(d)
    BY <1>2, <1>3, WalkLists DEF Lists
  <2>2. Cardinality(p.shown) <= MaxEntries
    <3>1. p.left \in Nat /\ MaxEntries \in Nat
      BY <1>5, ListDirAssumption DEF Parts, Budgets
    <3>2. Cardinality(p.shown) \in Nat
      BY <1>5, PathsFinite DEF Parts
    <3> QED
      BY ONLY <1>5, <3>1, <3>2
  <2>3. \A n \in answer'.errors :
          kind'[n] = "unreadable" /\ n \in answer'.shown \cup {answer'.target}
    BY <1>1, <1>5 DEF Unreadable, tree
  <2> QED
    BY <1>1, <1>5, <2>1, <2>2, <2>3 DEF AnswersAreTruthful
<1> QED
  BY <1>6, <1>7, <1>8, <1>9 DEF Inv

\* Searching: only what is below the root is shown.
LEMMA SearchStep ==
  ASSUME Inv, NEW matches, Search(matches)
  PROVE  Inv'
<1> PICK a : a = SearchPaths(matches)
  OBVIOUS
<1>1. /\ answer' = a /\ seen' = seen \cup a.shown /\ UNCHANGED <<tree, todo, whole>>
      /\ a.target = Root
  BY DEF Search, SearchPaths, Answer
<1>2. IsTree
  BY DEF Inv
<1>3. /\ a.shown \subseteq Below(Root) /\ Cardinality(a.shown) <= MaxEntries
      /\ a.shown \subseteq a.wanted /\ (a.truncated <=> a.shown # a.wanted) /\ a.errors = {}
  BY <1>2, SearchFits
<1>4. IsTree' /\ \A n : Below(n)' = Below(n)
  BY <1>1, <1>2, TreeKept
<1>5. NothingLost'
  BY <1>1, <1>4 DEF Inv, NothingLost
<1>6. AnswersAreTruthful'
  BY <1>1, <1>3 DEF AnswersAreTruthful
<1>7. /\ todo' \subseteq {Root} \cup Below(Root) /\ seen' \subseteq Below(Root)
      /\ whole' \in BOOLEAN
      /\ answer'.target \in {Root} \cup Below(Root) /\ answer'.shown \subseteq Below(Root)
  BY <1>1, <1>3 DEF Inv
<1> QED
  BY <1>4, <1>5, <1>6, <1>7 DEF Inv

\* Every step keeps the invariant.
LEMMA NextInv == Inv /\ [Next]_vars => Inv'
<1> SUFFICES ASSUME Inv, [Next]_vars  PROVE Inv'
  OBVIOUS
<1>1. ASSUME NEW d \in todo \cup answer.errors, List(d)  PROVE Inv'
  BY <1>1, ListStep
<1>2. ASSUME NEW matches \in Matching, Search(matches)  PROVE Inv'
  BY <1>2, SearchStep
<1>3. CASE UNCHANGED vars
  <2>1. UNCHANGED tree /\ todo' = todo /\ seen' = seen /\ whole' = whole /\ answer' = answer
    BY <1>3 DEF vars
  <2>2. IsTree' /\ \A n : Below(n)' = Below(n)
    BY <2>1, TreeKept DEF Inv
  <2>3. NothingLost' /\ AnswersAreTruthful'
    BY <2>1, <2>2 DEF Inv, NothingLost, AnswersAreTruthful, tree
  <2> QED
    BY <2>1, <2>2, <2>3 DEF Inv
<1> QED
  BY <1>1, <1>2, <1>3 DEF Next

\* The invariant holds throughout.
LEMMA Reachable == Spec => []Inv
BY InitInv, NextInv, PTL DEF Spec

-------------------------------------------------------------------------------
(* Theorems.                                                               *)

(***************************************************************************)
(* In a workspace of any shape and size, an agent that follows the marks   *)
(* has been shown every path when nothing is left to list, unless an       *)
(* answer said that a directory's own entries are incomplete: what it has  *)
(* not seen is always below a directory that it was told to list.          *)
(***************************************************************************)
THEOREM AllFound == Spec => []EverythingFound
<1>1. Inv => EverythingFound
  <2> SUFFICES ASSUME Inv, todo = {}, whole  PROVE seen = Set(Walk(Root))
    BY DEF EverythingFound
  <2>1. IsTree /\ Root \in Folders
    BY ListDirAssumption DEF Inv, Root, Folders
  <2>2. Set(Walk(Root)) = Below(Root)
    BY <2>1, WalkLists DEF Lists
  <2> QED
    BY <2>2 DEF Inv, NothingLost
<1> QED
  BY <1>1, Reachable, PTL

(***************************************************************************)
(* Whatever the limits, an answer never shows more paths than its limit,   *)
(* shows only what was asked for, and says that it is truncated exactly    *)
(* when it leaves some of that out; its error entries are for unreadable   *)
(* directories that it shows, or for the one that was asked for.           *)
(***************************************************************************)
THEOREM TruthfulAnswers == Spec => []AnswersAreTruthful
<1>1. Inv => AnswersAreTruthful
  BY DEF Inv
<1> QED
  BY <1>1, Reachable, PTL

===============================================================================
