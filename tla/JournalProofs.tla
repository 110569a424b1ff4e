---------------------------- MODULE JournalProofs ---------------------------
(***************************************************************************)
(* Proofs about Journal: that what was journalled is read back, that a       *)
(* session is as its owner left it, and that a working directory resolves to *)
(* the innermost repo around it, for any registry of any paths and any       *)
(* working directory.  The first rests on the counts of rows, of what was    *)
(* sent and of what was acknowledged; the last is a fact about the           *)
(* registry's every state, and rests on what the path operators compute,     *)
(* position by position.                                                     *)
(***************************************************************************)
EXTENDS Journal, FiniteSetTheorems, NaturalsInduction, WellFoundedInduction, TLAPS

-----------------------------------------------------------------------------
(* Numbers and sequences *)

\* A set of numbers has a least one.
LEMMA LeastNumber ==
    ASSUME NEW T, \A y \in T : y \in Nat, T # {}
    PROVE  \E m \in T : \A y \in T : ~(y < m)
<1> DEFINE R == {ss \in Nat \X Nat : ss[1] < ss[2]}
<1>1. IsWellFoundedOn(R, Nat)
  BY NatLessThanWellFounded, Zenon DEF OpToRel
<1>2. T \subseteq Nat
  OBVIOUS
<1> HIDE DEF R
<1>3. PICK m \in T : \A y \in T : ~(<<y, m>> \in R)
  BY <1>1, <1>2, WFMin
<1>4. \A y \in T : y < m => <<y, m>> \in R
  BY DEF R
<1> QED
  BY <1>3, <1>4

\* A bounded set of numbers has a largest one.
LEMMA Largest ==
    ASSUME NEW n \in Nat, NEW T, \A y \in T : y \in Nat /\ y <= n, T # {}
    PROVE  \E m \in T : \A y \in T : y <= m
<1> DEFINE D == {n - y : y \in T}
<1>1. (\A d \in D : d \in Nat) /\ D # {}
    OBVIOUS
<1>2. PICK d \in D : \A e \in D : ~(e < d)
    <2> HIDE DEF D
    <2> QED BY <1>1, LeastNumber
<1>3. PICK m \in T : d = n - m
    BY <1>2
<1>4. \A y \in T : ~(n - y < n - m)
    BY <1>2, <1>3
<1> QED BY <1>3, <1>4

LEMMA BeginningOf ==
    ASSUME NEW S, NEW s \in Seq(S), NEW m \in 0..Len(s)
    PROVE  /\ SubSeq(s, 1, m) \in Seq(S) /\ Len(SubSeq(s, 1, m)) = m
           /\ \A i \in 1..m : SubSeq(s, 1, m)[i] = s[i]
OBVIOUS

LEMMA AppendedIs ==
    ASSUME NEW S, NEW s \in Seq(S), NEW e \in S
    PROVE  /\ Append(s, e) \in Seq(S) /\ Len(Append(s, e)) = Len(s) + 1
           /\ Append(s, e)[Len(s) + 1] = e /\ Len(s) \in Nat
           /\ \A i \in 1..Len(s) : Append(s, e)[i] = s[i]
OBVIOUS

LEMMA SameElements ==
    ASSUME NEW S, NEW s \in Seq(S), NEW t \in Seq(S), Len(s) = Len(t),
           \A i \in 1..Len(s) : s[i] = t[i]
    PROVE  s = t
OBVIOUS

LEMMA SameBeginning ==
    ASSUME NEW S, NEW s \in Seq(S), NEW t \in Seq(S),
           NEW m, m \in 0..Len(s), m \in 0..Len(t),
           \A i \in 1..m : s[i] = t[i]
    PROVE  SubSeq(s, 1, m) = SubSeq(t, 1, m)
<1> DEFINE a == SubSeq(s, 1, m)
           b == SubSeq(t, 1, m)
<1>1. a \in Seq(S) /\ Len(a) = m /\ \A i \in 1..m : a[i] = s[i]
    BY BeginningOf
<1>2. b \in Seq(S) /\ Len(b) = m /\ \A i \in 1..m : b[i] = t[i]
    BY BeginningOf
<1> HIDE DEF a, b
<1>3. a = b
    BY <1>1, <1>2, SameElements
<1> QED BY <1>3 DEF a, b

LEMMA WholeBeginning ==
    ASSUME NEW S, NEW s \in Seq(S)
    PROVE  SubSeq(s, 1, Len(s)) = s
OBVIOUS

-----------------------------------------------------------------------------
(* Paths *)

\* m is where the path ends when the slashes at its end are gone.
EndsAt(path, m) ==
    /\ m \in 0..Len(path)
    /\ Len(path) <= 1 => m = Len(path)
    /\ Len(path) > 1 => /\ m > 0 => path[m] # "/"
                        /\ \A i \in m + 1..Len(path) : path[i] = "/"

LEMMA Trimmed ==
    ASSUME NEW path \in Seq(Chars)
    PROVE  \E m : EndsAt(path, m) /\ TrimSlashes(path) = SubSeq(path, 1, m)
<1>1. CASE Len(path) <= 1
    <2>1. TrimSlashes(path) = SubSeq(path, 1, Len(path))
        BY <1>1, WholeBeginning DEF TrimSlashes
    <2>2. EndsAt(path, Len(path))
        BY <1>1 DEF EndsAt
    <2> QED BY <2>1, <2>2
<1>2. CASE ~(Len(path) <= 1)
    <2> DEFINE body == {i \in 1..Len(path) : path[i] # "/"}
    <2>1. CASE body = {}
        <3>1. EndsAt(path, 0)
            BY <1>2, <2>1 DEF EndsAt
        <3>2. SubSeq(path, 1, 0) = <<>>
            OBVIOUS
        <3> QED BY <1>2, <2>1, <3>1, <3>2 DEF TrimSlashes
    <2>2. CASE body # {}
        <3> DEFINE m == CHOOSE i \in body : \A j \in body : j <= i
        <3>1. \E i \in body : \A j \in body : j <= i
            <4>1. Len(path) \in Nat /\ \A j \in body : j \in Nat /\ j <= Len(path)
                OBVIOUS
            <4> HIDE DEF body
            <4> QED BY <2>2, <4>1, Largest
        <3>2. m \in body /\ \A j \in body : j <= m
            <4> HIDE DEF body
            <4> QED BY <3>1
        <3>3. TrimSlashes(path) = SubSeq(path, 1, m)
            BY <1>2, <2>2 DEF TrimSlashes
        <3> HIDE DEF m
        <3>4. EndsAt(path, m)
            <4>1. m \in 1..Len(path) /\ path[m] # "/"
                BY <3>2
            <4>2. \A i \in m + 1..Len(path) : i \in 1..Len(path) /\ ~(i <= m)
                BY <4>1
            <4>3. \A i \in m + 1..Len(path) : path[i] = "/"
                BY <3>2, <4>2
            <4> QED BY <1>2, <4>1, <4>3 DEF EndsAt
        <3> QED BY <3>3, <3>4
    <2> QED BY <2>1, <2>2
<1> QED BY <1>1, <1>2

\* What is left of a path without its blanks is a path.
LEMMA TrimmedIsPath ==
    ASSUME NEW path \in Seq(Chars)
    PROVE  Trim(path) \in Seq(Chars)
<1> DEFINE ink == {i \in 1..Len(path) : path[i] # " "}
           first == CHOOSE i \in ink : \A j \in ink : i <= j
           end == CHOOSE i \in ink : \A j \in ink : j <= i
<1>1. CASE ink = {}
    <2>1. Trim(path) = <<>>
        BY <1>1 DEF Trim
    <2> QED BY <2>1
<1>2. CASE ink # {}
    <2> HIDE DEF first, end
    <2>0. Len(path) \in Nat /\ ink \subseteq 1..Len(path)
        <3>1. ink \subseteq 1..Len(path)
            BY Zenon
        <3> HIDE DEF ink
        <3> QED BY <3>1
    <2>1. \A j \in ink : j \in Nat /\ j <= Len(path)
        <3> HIDE DEF ink
        <3> QED BY <2>0
    <2>2. \E i \in ink : \A j \in ink : ~(j < i)
        <3> HIDE DEF ink
        <3> QED BY <1>2, <2>1, LeastNumber
    <2>3. \E i \in ink : \A j \in ink : i <= j
        <3> HIDE DEF ink
        <3> QED BY <2>1, <2>2
    <2>4. \E i \in ink : \A j \in ink : j <= i
        <3> HIDE DEF ink
        <3> QED BY <1>2, <2>0, <2>1, Largest
    <2>5. first \in ink /\ end \in ink
        <3> HIDE DEF ink
        <3> QED BY <2>3, <2>4 DEF first, end
    <2>6. first \in 1..Len(path) /\ end \in 1..Len(path)
        BY <2>0, <2>5
    <2>7. Trim(path) = SubSeq(path, first, end)
        BY <1>2 DEF Trim, first, end
    <2> QED BY <2>6, <2>7
<1> QED BY <1>1, <1>2

\* normalize_path: no slash at the end, except of the root.
LEMMA NormalizedHasNoSlash ==
    ASSUME NEW cwd \in Seq(Chars), NEW dir, dir = NormalizePath(cwd)
    PROVE  dir \in Seq(Chars) /\ (Len(dir) > 1 => dir[Len(dir)] # "/")
<1> DEFINE path == Trim(cwd)
<1>0. path \in Seq(Chars) /\ dir = TrimSlashes(path)
    BY TrimmedIsPath DEF NormalizePath
<1> HIDE DEF path
<1>1. PICK m : EndsAt(path, m) /\ TrimSlashes(path) = SubSeq(path, 1, m)
    BY <1>0, Trimmed
<1>2. m \in 0..Len(path)
    BY <1>1 DEF EndsAt
<1>3. dir \in Seq(Chars) /\ Len(dir) = m /\ \A i \in 1..m : dir[i] = path[i]
    BY <1>0, <1>1, <1>2, BeginningOf
<1> QED BY <1>0, <1>1, <1>2, <1>3 DEF EndsAt

\* What starts_with compares.
LEMMA PrefixMeans ==
    ASSUME NEW s \in Seq(Chars), NEW t \in Seq(Chars)
    PROVE  IsPrefix(s, t) <=> Len(s) <= Len(t) /\ \A i \in 1..Len(s) : s[i] = t[i]
<1>1. ASSUME IsPrefix(s, t)
      PROVE  Len(s) <= Len(t) /\ \A i \in 1..Len(s) : s[i] = t[i]
    <2>1. Len(s) <= Len(t) /\ SubSeq(s, 1, Len(s)) = SubSeq(t, 1, Len(s))
        BY <1>1 DEF IsPrefix
    <2>2. Len(s) \in 0..Len(s) /\ Len(s) \in 0..Len(t)
        BY <2>1
    <2>3. \A i \in 1..Len(s) : SubSeq(s, 1, Len(s))[i] = s[i] /\ SubSeq(t, 1, Len(s))[i] = t[i]
        BY <2>2, BeginningOf
    <2> QED BY <2>1, <2>3
<1>2. ASSUME Len(s) <= Len(t), \A i \in 1..Len(s) : s[i] = t[i]
      PROVE  IsPrefix(s, t)
    <2>1. Len(s) \in 0..Len(s) /\ Len(s) \in 0..Len(t)
        BY <1>2
    <2>2. SubSeq(s, 1, Len(s)) = SubSeq(t, 1, Len(s))
        BY <1>2, <2>1, SameBeginning
    <2> QED BY <1>2, <2>2 DEF IsPrefix
<1> QED BY <1>1, <1>2

\* The path, and a slash after it.
LEMMA UnderMeans ==
    ASSUME NEW path \in Seq(Chars), NEW dir \in Seq(Chars)
    PROVE  IsPrefix(Append(path, "/"), dir) <=>
             /\ Len(path) < Len(dir) /\ dir[Len(path) + 1] = "/"
             /\ \A i \in 1..Len(path) : path[i] = dir[i]
<1> DEFINE long == Append(path, "/")
           n == Len(path)
<1>1. /\ n \in Nat /\ long \in Seq(Chars) /\ Len(long) = n + 1 /\ long[n + 1] = "/"
      /\ \A i \in 1..n : long[i] = path[i]
    <2>1. "/" \in Chars
        BY DEF Chars
    <2> QED BY <2>1, AppendedIs
<1>2. Len(dir) \in Nat
    OBVIOUS
<1>3. IsPrefix(long, dir) <=> Len(long) <= Len(dir) /\ \A i \in 1..Len(long) : long[i] = dir[i]
    BY <1>1, PrefixMeans
<1> HIDE DEF long
<1>4. (\A i \in 1..n + 1 : long[i] = dir[i]) <=>
        dir[n + 1] = "/" /\ \A i \in 1..n : path[i] = dir[i]
    <2>1. \A i : i \in 1..n + 1 <=> i \in 1..n \/ i = n + 1
        BY <1>1
    <2> HIDE DEF n
    <2> QED BY <1>1, <2>1
<1> QED BY <1>1, <1>2, <1>3, <1>4 DEF long

\* A path that resolve_repo takes does contain the directory.
LEMMA MatchEncloses ==
    ASSUME NEW path \in Seq(Chars), NEW cwd \in Seq(Chars), NEW dir, dir = NormalizePath(cwd),
           Matches(dir, path)
    PROVE  Encloses(path, dir)
<1>1. PICK m : EndsAt(path, m) /\ TrimSlashes(path) = SubSeq(path, 1, m)
    BY Trimmed
<1>2. m \in 0..Len(path) /\ Len(path) \in Nat
    BY <1>1 DEF EndsAt
<1>3. dir \in Seq(Chars) /\ (Len(dir) > 1 => dir[Len(dir)] # "/")
    BY NormalizedHasNoSlash
<1>4. CASE dir = path
    <2>1. m = Len(path)
        BY <1>1, <1>2, <1>3, <1>4 DEF EndsAt
    <2>2. TrimSlashes(path) = dir
        BY <1>1, <1>4, <2>1, WholeBeginning
    <2> QED BY <2>2 DEF Encloses
<1>5. CASE IsPrefix(Append(path, "/"), dir)
    <2>1. /\ Len(path) < Len(dir) /\ dir[Len(path) + 1] = "/"
          /\ \A i \in 1..Len(path) : path[i] = dir[i]
        BY <1>3, <1>5, UnderMeans
    <2>2. m + 1 \in 1..Len(dir) /\ m \in 0..Len(dir) /\ (m + 1) - 1 = m
        BY <1>2, <1>3, <2>1
    <2>3. dir[m + 1] = "/"
        <3>1. CASE m = Len(path)
            BY <2>1, <3>1
        <3>2. CASE m # Len(path)
            <4>1. m + 1 \in m + 1..Len(path) /\ m + 1 \in 1..Len(path) /\ Len(path) > 1
                BY <1>1, <1>2, <3>2 DEF EndsAt
            <4>2. path[m + 1] = "/"
                BY <1>1, <4>1 DEF EndsAt
            <4> QED BY <2>1, <4>1, <4>2
        <3> QED BY <3>1, <3>2
    <2>4. SubSeq(dir, 1, m) = SubSeq(path, 1, m)
        <3>1. \A i \in 1..m : dir[i] = path[i]
            BY <1>2, <2>1
        <3> QED BY <1>2, <1>3, <2>2, <3>1, SameBeginning
    <2>5. \E i \in 1..Len(dir) : dir[i] = "/" /\ SubSeq(dir, 1, i - 1) = TrimSlashes(path)
        BY <1>1, <2>2, <2>3, <2>4
    <2> QED BY <2>5 DEF Encloses
<1> QED BY <1>4, <1>5 DEF Matches

\* A path that contains the directory is one that resolve_repo takes, unless a
\* slash is at its end.
LEMMA EnclosingMatches ==
    ASSUME NEW path \in Seq(Chars), NEW dir \in Seq(Chars),
           ~EndsInSlash(path), Encloses(path, dir)
    PROVE  Matches(dir, path)
<1>1. PICK m : EndsAt(path, m) /\ TrimSlashes(path) = SubSeq(path, 1, m)
    BY Trimmed
<1>2. m = Len(path)
    <2>1. CASE Len(path) <= 1
        BY <1>1, <2>1 DEF EndsAt
    <2>2. CASE ~(Len(path) <= 1)
        <3>1. path # <<>> /\ Len(path) \in Nat /\ Len(path) > 1
            BY <2>2
        <3>2. path[Len(path)] # "/"
            BY <3>1 DEF EndsInSlash
        <3> QED BY <1>1, <3>1, <3>2 DEF EndsAt
    <2> QED BY <2>1, <2>2
<1>3. TrimSlashes(path) = path
    BY <1>1, <1>2, WholeBeginning
<1>4. path # <<"/">>
    BY DEF EndsInSlash
<1>5. CASE dir = path
    BY <1>5 DEF Matches
<1>6. ASSUME NEW i \in 1..Len(dir), dir[i] = "/", SubSeq(dir, 1, i - 1) = path
      PROVE  Matches(dir, path)
    <2>1. i - 1 \in 0..Len(dir) /\ Len(dir) \in Nat /\ i \in Nat
        OBVIOUS
    <2>2. Len(path) = i - 1 /\ \A j \in 1..i - 1 : path[j] = dir[j]
        BY <1>6, <2>1, BeginningOf
    <2>3. Len(path) < Len(dir) /\ dir[Len(path) + 1] = "/"
        <3>1. Len(path) + 1 = i
            BY <2>1, <2>2
        <3> QED BY <1>6, <2>1, <2>2, <3>1
    <2> QED BY <2>2, <2>3, UnderMeans DEF Matches
<1> QED BY <1>3, <1>4, <1>5, <1>6 DEF Encloses

\* No path is longer than a directory it matches.
LEMMA MatchIsNoLonger ==
    ASSUME NEW path \in Seq(Chars), NEW dir \in Seq(Chars), Matches(dir, path)
    PROVE  Len(path) \in Nat /\ Len(dir) \in Nat /\ Len(path) <= Len(dir)
<1>1. CASE dir = path
    BY <1>1
<1>2. CASE IsPrefix(Append(path, "/"), dir)
    BY <1>2, UnderMeans
<1> QED BY <1>1, <1>2 DEF Matches

-----------------------------------------------------------------------------
(* Resolution *)

Registry == repo \in [ToRepos -> Paths \cup {None}]

\* The list has the registered repos, and all of them.
LEMMA ListedAre ==
    ASSUME Registry
    PROVE  /\ Len(Repos) \in Nat /\ ListRepos \subseteq 1..Len(Repos)
           /\ \A k \in ListRepos : Repos[k] \in ToRepos /\ repo[Repos[k]] # None
           /\ \A n \in ToRepos : repo[n] # None => \E k \in ListRepos : Repos[k] = n
<1>1. Repos \in Seq(ToRepos) /\ DOMAIN Repos = 1..Len(Repos) /\ Len(Repos) \in Nat
    BY JournalAssumption
<1>2. \A n \in ToRepos : \E i \in DOMAIN Repos : Repos[i] = n
    BY DEF ToRepos, ToSet
<1> QED BY <1>1, <1>2 DEF ListRepos

\* Of the registered repos whose path matches, the answer's is a longest one; there
\* is no answer only when there are none.
LEMMA ResolvesLongest ==
    ASSUME Registry, NEW cwd \in Cwds, NEW dir, dir = NormalizePath(cwd)
    PROVE  /\ ResolveRepo(cwd) = "NotFound" =>
                \A n \in ToRepos : repo[n] # None => ~Matches(dir, repo[n])
           /\ ResolveRepo(cwd) # "NotFound" =>
                /\ ResolveRepo(cwd) \in ToRepos /\ repo[ResolveRepo(cwd)] \in Paths
                /\ Matches(dir, repo[ResolveRepo(cwd)])
                /\ \A n \in ToRepos : repo[n] # None /\ Matches(dir, repo[n]) =>
                        Len(repo[ResolveRepo(cwd)]) >= Len(repo[n])
<1> DEFINE rows == Repos
           hits == {i \in ListRepos : Matches(dir, repo[rows[i]])}
           size(i) == Len(repo[rows[i]])
           Best(i) == \A j \in hits : size(j) < size(i) \/ (size(j) = size(i) /\ j <= i)
<1>0. dir \in Seq(Chars)
    BY JournalAssumption, NormalizedHasNoSlash
<1>1. /\ Len(rows) \in Nat /\ ListRepos \subseteq 1..Len(rows)
      /\ \A k \in ListRepos : rows[k] \in ToRepos /\ repo[rows[k]] # None
      /\ \A n \in ToRepos : repo[n] # None => \E k \in ListRepos : rows[k] = n
    BY ListedAre
<1>2. Innermost(cwd) = IF hits = {} THEN None ELSE rows[CHOOSE i \in hits : Best(i)]
    BY DEF Innermost
<1> HIDE DEF rows
<1>3. \A i \in hits : /\ i \in Nat /\ i <= Len(rows) /\ rows[i] \in ToRepos
                      /\ repo[rows[i]] \in Paths /\ Matches(dir, repo[rows[i]])
                      /\ size(i) \in Nat /\ size(i) <= Len(dir)
    <2>1. \A i \in hits : /\ i \in Nat /\ i <= Len(rows) /\ rows[i] \in ToRepos
                          /\ repo[rows[i]] # None /\ Matches(dir, repo[rows[i]])
        BY <1>1
    <2>2. \A i \in hits : repo[rows[i]] \in Paths
        BY <2>1 DEF Registry
    <2>3. \A i \in hits : repo[rows[i]] \in Seq(Chars)
        BY <2>2, JournalAssumption
    <2> QED BY <1>0, <2>1, <2>2, <2>3, MatchIsNoLonger
<1>4. \A n \in ToRepos : repo[n] # None /\ Matches(dir, repo[n]) => \E k \in hits : rows[k] = n
    BY <1>1
<1>5. CASE hits = {}
    <2>1. ResolveRepo(cwd) = "NotFound"
        BY <1>2, <1>5 DEF ResolveRepo
    <2> HIDE DEF hits
    <2> QED BY <1>4, <1>5, <2>1
<1>6. CASE hits # {}
    <2> HIDE DEF hits
    <2>1. PICK a \in hits : \A j \in hits : size(j) <= size(a)
        <3> DEFINE T == {size(j) : j \in hits}
        <3>1. Len(dir) \in Nat
            BY <1>0
        <3>2. (\A y \in T : y \in Nat /\ y <= Len(dir)) /\ T # {}
            BY <1>3, <1>6
        <3>3. \E m \in T : \A y \in T : y <= m
            <4> HIDE DEF T
            <4> QED BY <3>1, <3>2, Largest
        <3> QED BY <3>3
    <2>2. PICK b \in hits : size(b) = size(a) /\ \A j \in hits : size(j) = size(a) => j <= b
        <3> DEFINE T == {j \in hits : size(j) = size(a)}
        <3>1. (\A y \in T : y \in Nat /\ y <= Len(rows)) /\ T # {}
            BY <1>3, <2>1
        <3>2. \E m \in T : \A y \in T : y <= m
            <4> HIDE DEF T
            <4> QED BY <1>1, <3>1, Largest
        <3> QED BY <3>2
    <2>3. Best(b)
        BY <1>3, <2>1, <2>2
    <2> DEFINE c == CHOOSE i \in hits : Best(i)
    <2>4. c \in hits /\ Best(c)
        <3> HIDE DEF Best
        <3> QED BY <2>2, <2>3
    <2> HIDE DEF c
    <2>5. ResolveRepo(cwd) = rows[c] /\ rows[c] # "NotFound"
        <3>1. Innermost(cwd) = rows[c]
            BY <1>2, <1>6 DEF c
        <3>2. rows[c] # None /\ rows[c] # "NotFound"
            BY <1>3, <2>4, JournalAssumption
        <3> QED BY <3>1, <3>2 DEF ResolveRepo
    <2>6. \A j \in hits : Len(repo[rows[c]]) >= Len(repo[rows[j]])
        BY <1>3, <2>4
    <2> QED BY <1>3, <1>4, <2>4, <2>5, <2>6
<1> QED BY <1>5, <1>6

LEMMA RegistryResolves ==
    ASSUME Registry
    PROVE  MostSpecific
<1> SUFFICES ASSUME NEW cwd \in Cwds, NEW r, r = ResolveRepo(cwd),
                    NEW dir, dir = NormalizePath(cwd)
             PROVE  /\ r # "NotFound" => Encloses(repo[r], dir)
                    /\ \A n \in ToRepos :
                        repo[n] # None /\ ~EndsInSlash(repo[n]) /\ Encloses(repo[n], dir) =>
                            r # "NotFound" /\ Len(repo[r]) >= Len(repo[n])
    BY DEF MostSpecific
<1>1. cwd \in Seq(Chars) /\ dir \in Seq(Chars)
    BY JournalAssumption, NormalizedHasNoSlash
<1>2. ASSUME r # "NotFound"
      PROVE  Encloses(repo[r], dir)
    <2>1. repo[r] \in Paths /\ Matches(dir, repo[r])
        BY <1>2, ResolvesLongest
    <2>2. repo[r] \in Seq(Chars)
        BY <2>1, JournalAssumption
    <2> QED BY <1>1, <2>1, <2>2, MatchEncloses
<1>3. ASSUME NEW n \in ToRepos, repo[n] # None, ~EndsInSlash(repo[n]), Encloses(repo[n], dir)
      PROVE  r # "NotFound" /\ Len(repo[r]) >= Len(repo[n])
    <2>1. repo[n] \in Seq(Chars)
        BY <1>3, JournalAssumption DEF Registry
    <2>2. Matches(dir, repo[n])
        BY <1>1, <1>3, <2>1, EnclosingMatches
    <2> QED BY <1>3, <2>2, ResolvesLongest
<1> QED BY <1>2, <1>3

-----------------------------------------------------------------------------
(* Reads *)

Distinct(s) == \A i, j \in 1..Len(s) : s[i] = s[j] => i = j

\* No element comes after one that it precedes in R.
InOrder(s, R) == \A i, j \in 1..Len(s) : i < j => <<s[j], s[i]>> \notin R

LEMMA RankingIs ==
    ASSUME NEW S, IsFiniteSet(S), NEW R, NEW s \in Rankings(S, R)
    PROVE  /\ s \in Seq(S) /\ Distinct(s) /\ InOrder(s, R)
           /\ \A x \in S : \E i \in 1..Len(s) : s[i] = x
<1>1. Cardinality(S) \in Nat
    BY FS_CardinalityType
<1>2. s \in [1..Cardinality(S) -> S]
    BY DEF Rankings, Bijection, Injection
<1>3. s \in Seq(S) /\ Len(s) = Cardinality(S) /\ DOMAIN s = 1..Len(s)
    BY <1>1, <1>2
<1>4. Distinct(s)
    BY <1>3 DEF Rankings, Bijection, Injection, IsInjective, Distinct
<1>5. InOrder(s, R)
    BY <1>3 DEF Rankings, InOrder
<1>6. \A x \in S : \E i \in 1..Len(s) : s[i] = x
    BY <1>3 DEF Rankings, Bijection, Surjection
<1> QED BY <1>3, <1>4, <1>5, <1>6

\* list has n elements of S at most, each once, none before one it precedes in
\* `later`; it has all of S, or it is full and no missing one precedes one it has.
LatestOf(list, S, later, n) ==
    /\ list \in Seq(S) /\ Len(list) \in Nat /\ Len(list) <= n
    /\ Distinct(list)
    /\ \A k, l \in 1..Len(list) : k < l => <<list[k], list[l]>> \notin later
    /\ \A x \in S : \/ \E k \in 1..Len(list) : list[k] = x
                    \/ Len(list) = n /\ \A k \in 1..Len(list) : <<x, list[k]>> \notin later

\* ORDER BY .. DESC LIMIT n, and the reversal after it.
LEMMA NewestIs ==
    ASSUME NEW S, IsFiniteSet(S), NEW later, NEW n \in Nat, NEW list \in Newest(S, later, n)
    PROVE  LatestOf(list, S, later, n)
<1>1. PICK s \in Rankings(S, later) : list = Reverse(Truncate(s, n))
    BY DEF Newest
<1>2. /\ s \in Seq(S) /\ Distinct(s) /\ InOrder(s, later)
      /\ \A x \in S : \E i \in 1..Len(s) : s[i] = x
    BY <1>1, RankingIs
<1> DEFINE m == IF Len(s) < n THEN Len(s) ELSE n
           t == SubSeq(s, 1, m)
<1>3. Len(s) \in Nat /\ m \in 0..Len(s) /\ m <= n /\ (m = Len(s) \/ m = n)
    BY <1>2
<1>4. list = Reverse(t)
    BY <1>1 DEF Truncate
<1> HIDE DEF m
<1>5. t \in Seq(S) /\ Len(t) = m /\ \A i \in 1..m : t[i] = s[i]
    BY <1>2, <1>3, BeginningOf
<1> HIDE DEF t
<1>6. /\ list \in Seq(S) /\ Len(list) = m
      /\ \A k \in 1..m : (m - k) + 1 \in 1..m /\ list[k] = s[(m - k) + 1]
    <2>1. \A k \in 1..m : (m - k) + 1 \in 1..m
        BY <1>3
    <2>2. list = [k \in 1..m |-> t[(m - k) + 1]]
        BY <1>4, <1>5 DEF Reverse
    <2>3. ASSUME NEW k \in 1..m
          PROVE  list[k] = s[(m - k) + 1] /\ list[k] \in S
        <3>1. list[k] = t[(m - k) + 1]
            BY <2>2
        <3>2. t[(m - k) + 1] = s[(m - k) + 1] /\ (m - k) + 1 \in 1..Len(s)
            BY <1>3, <1>5, <2>1
        <3> QED BY <1>2, <3>1, <3>2
    <2>4. list \in [1..m -> S]
        BY <2>2, <2>3
    <2> QED BY <1>3, <2>1, <2>3, <2>4
<1>7. \A k \in 1..m : (m - k) + 1 \in 1..Len(s)
    BY <1>3
<1>8. Distinct(list)
    <2> SUFFICES ASSUME NEW k \in 1..m, NEW l \in 1..m, list[k] = list[l] PROVE k = l
        BY <1>6 DEF Distinct
    <2>1. s[(m - k) + 1] = s[(m - l) + 1]
        BY <1>6
    <2>2. (m - k) + 1 = (m - l) + 1
        BY <1>2, <1>7, <2>1 DEF Distinct
    <2> QED BY <1>3, <2>2
<1>9. ASSUME NEW k \in 1..m, NEW l \in 1..m, k < l
      PROVE  <<list[k], list[l]>> \notin later
    <2>1. (m - l) + 1 < (m - k) + 1
        BY <1>3, <1>9
    <2>2. <<s[(m - k) + 1], s[(m - l) + 1]>> \notin later
        BY <1>2, <1>7, <2>1 DEF InOrder
    <2> QED BY <1>6, <2>2
<1>10. ASSUME NEW x \in S, ~ \E k \in 1..m : list[k] = x
       PROVE  m = n /\ \A k \in 1..m : <<x, list[k]>> \notin later
    <2>1. PICK i \in 1..Len(s) : s[i] = x
        BY <1>2
    <2>2. ~(i <= m)
        <3> SUFFICES ASSUME i <= m PROVE FALSE
            OBVIOUS
        <3>1. (m - i) + 1 \in 1..m /\ (m - ((m - i) + 1)) + 1 = i
            BY <1>3
        <3>2. list[(m - i) + 1] = s[i]
            BY <1>6, <3>1
        <3> QED BY <1>10, <2>1, <3>1, <3>2
    <2>3. m = n
        BY <1>3, <2>2
    <2>4. \A k \in 1..m : (m - k) + 1 < i
        BY <1>3, <2>2
    <2>5. \A k \in 1..m : <<s[i], s[(m - k) + 1]>> \notin later
        BY <1>2, <1>7, <2>4 DEF InOrder
    <2> QED BY <1>6, <2>1, <2>3, <2>5
<1>11. Len(list) = m /\ m \in Nat
    BY <1>3, <1>6
<1> QED BY <1>3, <1>6, <1>8, <1>9, <1>10, <1>11 DEF LatestOf

\* A set that f maps one to one into m numbers has at most m.
LEMMA NoMoreThan ==
    ASSUME NEW m \in Nat, NEW K, IsFiniteSet(K), NEW f,
           \A k \in K : f[k] \in 1..m,
           \A k, l \in K : f[k] = f[l] => k = l
    PROVE  Cardinality(K) \in Nat /\ Cardinality(K) <= m
<1> DEFINE h == [k \in K |-> f[k]]
<1>1. h \in Injection(K, 1..m)
    BY DEF Injection, IsInjective
<1>2. IsFiniteSet(1..m) /\ Cardinality(1..m) = m
    BY FS_Interval
<1> HIDE DEF h
<1>3. Cardinality(K) <= Cardinality(1..m)
    BY <1>1, <1>2, FS_Injection
<1> QED BY <1>2, <1>3, FS_CardinalityType

\* A set that f maps onto m numbers has at least m.
LEMMA NoFewerThan ==
    ASSUME NEW m \in Nat, NEW K, IsFiniteSet(K), NEW f,
           \A k \in K : f[k] \in 1..m,
           \A j \in 1..m : \E k \in K : f[k] = j
    PROVE  Cardinality(K) \in Nat /\ m <= Cardinality(K)
<1> DEFINE h == [k \in K |-> f[k]]
<1>1. h \in Surjection(K, 1..m)
    BY DEF Surjection
<1>2. IsFiniteSet(1..m) /\ Cardinality(1..m) = m
    BY FS_Interval
<1> HIDE DEF h
<1>3. Cardinality(1..m) <= Cardinality(K)
    BY <1>1, FS_Surjection
<1> QED BY <1>2, <1>3, FS_CardinalityType

-----------------------------------------------------------------------------
(* What is stored *)

Rows == [ns : Principals, agent : Agents, ts : Clock]

\* The tables and the counts of what was sent and acknowledged: a row for each
\* turn and entry that was acknowledged, and none that was not sent.
CountInv ==
    /\ turns \in [Turn -> Nat]
    /\ sent \in [Turn \cup Entry -> Nat] /\ acked \in [Turn \cup Entry -> Nat]
    /\ \A t \in Turn : acked[t] <= turns[t] /\ turns[t] <= sent[t]
    /\ \A p \in Principals, s \in SessionIds : IsFiniteSet(TurnRows(p, s))
    /\ diary \in Seq(Rows)
    /\ \A p \in Principals, a \in Agents :
        /\ acked[<<p, a>>] <= Cardinality(EntryRows(p, a))
        /\ Cardinality(EntryRows(p, a)) <= sent[<<p, a>>]

LEMMA TurnIsNoEntry == \A t \in Turn : t \notin Entry
<1> SUFFICES ASSUME NEW p, NEW s, NEW i, NEW q, NEW a, <<p, s, i>> = <<q, a>> PROVE FALSE
    BY DEF Turn, Entry
<1>1. Len(<<p, s, i>>) = 3 /\ Len(<<q, a>>) = 2
    OBVIOUS
<1> QED BY <1>1

LEMMA EntriesFinite ==
    ASSUME CountInv, NEW p, NEW a
    PROVE  /\ EntryRows(p, a) \subseteq 1..Len(diary) /\ Len(diary) \in Nat
           /\ IsFiniteSet(EntryRows(p, a)) /\ Cardinality(EntryRows(p, a)) \in Nat
<1>1. EntryRows(p, a) \subseteq 1..Len(diary) /\ Len(diary) \in Nat
    BY DEF CountInv, EntryRows
<1>2. IsFiniteSet(1..Len(diary))
    BY <1>1, FS_Interval
<1> QED BY <1>1, <1>2, FS_Subset, FS_CardinalityType

\* append_diary adds one row to one diary.
LEMMA EntriesGrow ==
    ASSUME CountInv, NEW p \in Principals, NEW a \in Agents, AppendEntry(p, a)
    PROVE  /\ diary' \in Seq(Rows)
           /\ \A q \in Principals, b \in Agents :
                Cardinality(EntryRows(q, b))' =
                    Cardinality(EntryRows(q, b)) + (IF <<q, b>> = <<p, a>> THEN 1 ELSE 0)
<1>1. PICK now \in Clock : diary' = Append(diary, FromEntry(p, a, now))
    BY DEF AppendEntry
<1> DEFINE row == FromEntry(p, a, now)
           n == Len(diary)
<1>2. row \in Rows /\ row.ns = p /\ row.agent = a
    BY DEF FromEntry, Rows
<1>3. diary \in Seq(Rows)
    BY DEF CountInv
<1> HIDE DEF row
<1>4. /\ diary' \in Seq(Rows) /\ Len(diary') = n + 1 /\ diary'[n + 1] = row /\ n \in Nat
      /\ \A i \in 1..n : diary'[i] = diary[i]
    BY <1>1, <1>2, <1>3, AppendedIs DEF row
<1>5. DOMAIN diary = 1..n /\ DOMAIN diary' = 1..n + 1
    BY <1>3, <1>4
<1> HIDE DEF n
<1>6. \A i : i \in 1..n + 1 <=> i \in 1..n \/ i = n + 1
    BY <1>4
<1>7. ASSUME NEW q \in Principals, NEW b \in Agents
      PROVE  Cardinality(EntryRows(q, b))' =
                    Cardinality(EntryRows(q, b)) + (IF <<q, b>> = <<p, a>> THEN 1 ELSE 0)
    <2>0. /\ EntryRows(q, b) \subseteq 1..n /\ IsFiniteSet(EntryRows(q, b))
          /\ Cardinality(EntryRows(q, b)) \in Nat
        BY EntriesFinite DEF n
    <2>1. \A i : i \in EntryRows(q, b)' <=> i \in 1..n + 1 /\ diary'[i].ns = q /\ diary'[i].agent = b
        BY <1>5 DEF EntryRows
    <2>2. \A i : i \in EntryRows(q, b) <=> i \in 1..n /\ diary[i].ns = q /\ diary[i].agent = b
        BY <1>5 DEF EntryRows
    <2>3. CASE <<q, b>> = <<p, a>>
        <3>1. EntryRows(q, b)' = EntryRows(q, b) \cup {n + 1}
            BY <1>2, <1>4, <1>6, <2>1, <2>2, <2>3
        <3>2. n + 1 \notin EntryRows(q, b)
            BY <1>4, <2>0
        <3>3. Cardinality(EntryRows(q, b) \cup {n + 1}) = Cardinality(EntryRows(q, b)) + 1
            BY <2>0, <3>2, FS_AddElement
        <3> QED BY <2>3, <3>1, <3>3
    <2>4. CASE <<q, b>> # <<p, a>>
        <3>1. q # p \/ b # a
            BY <2>4
        <3>2. EntryRows(q, b)' = EntryRows(q, b)
            BY <1>2, <1>4, <1>6, <2>1, <2>2, <3>1
        <3> QED BY <2>0, <2>4, <3>2
    <2> QED BY <2>3, <2>4
<1> QED BY <1>4, <1>7

\* create_turn adds one row to one session.
LEMMA TurnsGrow ==
    ASSUME CountInv, NEW t \in Turn, StoreTurn(t)
    PROVE  /\ turns' \in [Turn -> Nat]
           /\ \A u \in Turn : turns'[u] = turns[u] + (IF u = t THEN 1 ELSE 0)
           /\ \A p \in Principals, s \in SessionIds : IsFiniteSet(TurnRows(p, s))'
<1>1. turns \in [Turn -> Nat] /\ turns' = [turns EXCEPT ![t] = @ + 1]
    BY DEF CountInv, StoreTurn
<1>2. turns' \in [Turn -> Nat] /\ \A u \in Turn : turns'[u] = IF u = t THEN turns[u] + 1 ELSE turns[u]
    BY <1>1
<1>3. ASSUME NEW p \in Principals, NEW s \in SessionIds
      PROVE  IsFiniteSet(TurnRows(p, s))'
    <2>1. \A i \in Indexes : <<p, s, i>> \in Turn
        BY DEF Turn
    <2>2. IsFiniteSet(TurnRows(p, s))
        BY DEF CountInv
    <2>3. IsFiniteSet(TurnRows(p, s) \cup {<<t[3], turns[t] + 1>>})
        BY <2>2, FS_AddElement
    <2>4. TurnRows(p, s)' \subseteq TurnRows(p, s) \cup {<<t[3], turns[t] + 1>>}
        <3> SUFFICES ASSUME NEW x \in TurnRows(p, s)', x \notin TurnRows(p, s)
                     PROVE  x = <<t[3], turns[t] + 1>>
            OBVIOUS
        <3>a. PICK i \in Indexes : x \in {i} \X (1..turns'[<<p, s, i>>])
            BY DEF TurnRows
        <3>0. PICK k \in 1..turns'[<<p, s, i>>] : x = <<i, k>>
            BY <3>a
        <3>1. k \notin 1..turns[<<p, s, i>>]
            BY <3>0 DEF TurnRows
        <3>2. turns[<<p, s, i>>] \in Nat
            BY <1>1, <2>1
        <3>3. <<p, s, i>> = t /\ k = turns[t] + 1
            BY <1>2, <2>1, <3>1, <3>2
        <3> QED BY <3>0, <3>3
    <2> QED BY <2>3, <2>4, FS_Subset
<1> QED BY <1>1, <1>2, <1>3

LEMMA CountStep == CountInv /\ [Next]_vars => CountInv'
<1> SUFFICES ASSUME CountInv, [Next]_vars PROVE CountInv'
    OBVIOUS
<1>0. /\ turns \in [Turn -> Nat]
      /\ sent \in [Turn \cup Entry -> Nat] /\ acked \in [Turn \cup Entry -> Nat]
    BY DEF CountInv
<1>1. \A p \in Principals, a \in Agents : <<p, a>> \in Entry
    BY DEF Entry
<1>2. \A p \in Principals, a \in Agents : Cardinality(EntryRows(p, a)) \in Nat
    BY EntriesFinite
\* Nothing was stored: what was sent can only have grown.
<1>3. ASSUME UNCHANGED <<turns, acked>>, sent' \in [Turn \cup Entry -> Nat],
             \A x \in Turn \cup Entry : sent[x] <= sent'[x]
      PROVE  /\ turns' \in [Turn -> Nat] /\ acked' \in [Turn \cup Entry -> Nat]
             /\ \A t \in Turn : acked'[t] <= turns'[t] /\ turns'[t] <= sent'[t]
             /\ \A p \in Principals, s \in SessionIds : IsFiniteSet(TurnRows(p, s))'
    <2>1. \A t \in Turn : acked'[t] <= turns'[t] /\ turns'[t] <= sent'[t]
        BY <1>0, <1>3 DEF CountInv
    <2>2. \A p \in Principals, s \in SessionIds : IsFiniteSet(TurnRows(p, s))'
        <3>1. \A p, s : TurnRows(p, s)' = TurnRows(p, s)
            BY <1>3 DEF TurnRows
        <3> QED BY <3>1 DEF CountInv
    <2> QED BY <1>0, <1>3, <2>1, <2>2
<1>4. ASSUME UNCHANGED <<diary, acked>>, sent' \in [Turn \cup Entry -> Nat],
             \A x \in Turn \cup Entry : sent[x] <= sent'[x]
      PROVE  /\ diary' \in Seq(Rows)
             /\ \A p \in Principals, a \in Agents :
                    /\ acked'[<<p, a>>] <= Cardinality(EntryRows(p, a))'
                    /\ Cardinality(EntryRows(p, a))' <= sent'[<<p, a>>]
    <2>1. \A p \in Principals, a \in Agents : Cardinality(EntryRows(p, a))' = Cardinality(EntryRows(p, a))
        BY <1>4 DEF EntryRows
    <2>2. ASSUME NEW p \in Principals, NEW a \in Agents
          PROVE  /\ acked'[<<p, a>>] <= Cardinality(EntryRows(p, a))'
                 /\ Cardinality(EntryRows(p, a))' <= sent'[<<p, a>>]
        <3> DEFINE c == Cardinality(EntryRows(p, a))
                   e == <<p, a>>
        <3>1. c \in Nat /\ acked[e] <= c /\ c <= sent[e] /\ c' = c
            BY <1>2, <2>1 DEF CountInv
        <3>2. e \in Turn \cup Entry
            BY <1>1
        <3> HIDE DEF c, e
        <3>3. acked'[e] <= c' /\ c' <= sent'[e]
            BY <1>0, <1>4, <3>1, <3>2
        <3> QED BY <3>3 DEF c, e
    <2>3. diary' \in Seq(Rows)
        BY <1>4 DEF CountInv
    <2> QED BY <2>2, <2>3
<1>5. ASSUME UNCHANGED <<turns, diary, sent, acked>> PROVE CountInv'
    <2>1. sent' \in [Turn \cup Entry -> Nat] /\ \A x \in Turn \cup Entry : sent[x] <= sent'[x]
        BY <1>0, <1>5
    <2> QED BY <1>3, <1>4, <1>5, <2>1 DEF CountInv
<1>6. ASSUME NEW x \in Turn \cup Entry, sent' = [sent EXCEPT ![x] = @ + 1]
      PROVE  /\ sent' \in [Turn \cup Entry -> Nat]
             /\ \A y \in Turn \cup Entry :
                    sent[y] <= sent'[y] /\ sent'[y] = sent[y] + (IF y = x THEN 1 ELSE 0)
    BY <1>0, <1>6
<1>7. ASSUME NEW x \in Turn \cup Entry, acked' = [acked EXCEPT ![x] = @ + 1] \/ UNCHANGED acked
      PROVE  /\ acked' \in [Turn \cup Entry -> Nat]
             /\ \A y \in Turn \cup Entry : acked'[y] <= acked[y] + (IF y = x THEN 1 ELSE 0)
    BY <1>0, <1>7
<1>8. ASSUME NEW t \in Turn, sent' = [sent EXCEPT ![t] = @ + 1], StoreTurn(t), UNCHANGED diary,
             acked' = [acked EXCEPT ![t] = @ + 1] \/ UNCHANGED acked
      PROVE  CountInv'
    <2>1. /\ turns' \in [Turn -> Nat]
          /\ \A u \in Turn : turns'[u] = turns[u] + (IF u = t THEN 1 ELSE 0)
          /\ \A p \in Principals, s \in SessionIds : IsFiniteSet(TurnRows(p, s))'
        BY <1>8, TurnsGrow
    <2>2. /\ sent' \in [Turn \cup Entry -> Nat]
          /\ \A y \in Turn \cup Entry :
                sent[y] <= sent'[y] /\ sent'[y] = sent[y] + (IF y = t THEN 1 ELSE 0)
        BY <1>6, <1>8
    <2>3. /\ acked' \in [Turn \cup Entry -> Nat]
          /\ \A y \in Turn \cup Entry : acked'[y] <= acked[y] + (IF y = t THEN 1 ELSE 0)
        BY <1>7, <1>8
    <2>4. ASSUME NEW u \in Turn PROVE acked'[u] <= turns'[u] /\ turns'[u] <= sent'[u]
        <3>1. acked[u] <= turns[u] /\ turns[u] <= sent[u]
            BY DEF CountInv
        <3> QED BY <1>0, <2>1, <2>2, <2>3, <3>1
    <2>5. ASSUME NEW p \in Principals, NEW a \in Agents
          PROVE  /\ acked'[<<p, a>>] <= Cardinality(EntryRows(p, a))'
                 /\ Cardinality(EntryRows(p, a))' <= sent'[<<p, a>>]
        <3> DEFINE c == Cardinality(EntryRows(p, a))
                   e == <<p, a>>
        <3>1. c \in Nat /\ acked[e] <= c /\ c <= sent[e]
            BY <1>2 DEF CountInv
        <3>2. c' = c
            BY <1>8 DEF EntryRows
        <3>3. e \in Turn \cup Entry /\ e # t
            BY <1>1, TurnIsNoEntry
        <3> HIDE DEF c, e
        <3>4. acked'[e] <= c' /\ c' <= sent'[e]
            BY <1>0, <2>2, <2>3, <3>1, <3>2, <3>3
        <3> QED BY <3>4 DEF c, e
    <2>6. diary' \in Seq(Rows)
        BY <1>8 DEF CountInv
    <2> QED BY <2>1, <2>2, <2>3, <2>4, <2>5, <2>6 DEF CountInv
<1>9. ASSUME NEW p \in Principals, NEW a \in Agents, sent' = [sent EXCEPT ![<<p, a>>] = @ + 1],
             AppendEntry(p, a), UNCHANGED turns,
             acked' = [acked EXCEPT ![<<p, a>>] = @ + 1] \/ UNCHANGED acked
      PROVE  CountInv'
    <2> DEFINE d == <<p, a>>
    <2>0. d \in Turn \cup Entry
        BY <1>1
    <2>1. /\ diary' \in Seq(Rows)
          /\ \A q \in Principals, b \in Agents :
                Cardinality(EntryRows(q, b))' =
                    Cardinality(EntryRows(q, b)) + (IF <<q, b>> = d THEN 1 ELSE 0)
        BY <1>9, EntriesGrow
    <2>2. /\ sent' \in [Turn \cup Entry -> Nat]
          /\ \A y \in Turn \cup Entry :
                sent[y] <= sent'[y] /\ sent'[y] = sent[y] + (IF y = d THEN 1 ELSE 0)
        BY <1>6, <1>9, <2>0
    <2>3. /\ acked' \in [Turn \cup Entry -> Nat]
          /\ \A y \in Turn \cup Entry : acked'[y] <= acked[y] + (IF y = d THEN 1 ELSE 0)
        BY <1>7, <1>9, <2>0
    <2>4. ASSUME NEW u \in Turn PROVE acked'[u] <= turns'[u] /\ turns'[u] <= sent'[u]
        <3>1. acked[u] <= turns[u] /\ turns[u] <= sent[u] /\ turns'[u] = turns[u] /\ turns[u] \in Nat
            BY <1>0, <1>9 DEF CountInv
        <3>2. u # d
            BY <1>1, TurnIsNoEntry
        <3> HIDE DEF d
        <3> QED BY <1>0, <2>2, <2>3, <3>1, <3>2
    <2>5. ASSUME NEW q \in Principals, NEW b \in Agents
          PROVE  /\ acked'[<<q, b>>] <= Cardinality(EntryRows(q, b))'
                 /\ Cardinality(EntryRows(q, b))' <= sent'[<<q, b>>]
        <3> DEFINE c == Cardinality(EntryRows(q, b))
                   e == <<q, b>>
        <3>1. c \in Nat /\ acked[e] <= c /\ c <= sent[e]
            BY <1>2 DEF CountInv
        <3>2. c' = c + (IF e = d THEN 1 ELSE 0)
            BY <2>1
        <3>3. e \in Turn \cup Entry
            BY <1>1
        <3> HIDE DEF c, e, d
        <3>4. acked'[e] <= c' /\ c' <= sent'[e]
            BY <1>0, <2>2, <2>3, <3>1, <3>2, <3>3
        <3> QED BY <3>4 DEF c, e
    <2>6. \A q \in Principals, s \in SessionIds : IsFiniteSet(TurnRows(q, s))'
        <3>1. \A q, s : TurnRows(q, s)' = TurnRows(q, s)
            BY <1>9 DEF TurnRows
        <3> QED BY <3>1 DEF CountInv
    <2>7. turns' \in [Turn -> Nat]
        BY <1>0, <1>9
    <2> QED BY <2>1, <2>2, <2>3, <2>4, <2>5, <2>6, <2>7 DEF CountInv
\* The request never arrived.
<1>10. ASSUME NEW x \in Turn \cup Entry, sent' = [sent EXCEPT ![x] = @ + 1],
              UNCHANGED <<turns, diary, acked>>
       PROVE  CountInv'
    <2>1. sent' \in [Turn \cup Entry -> Nat] /\ \A y \in Turn \cup Entry : sent[y] <= sent'[y]
        BY <1>6, <1>10
    <2> QED BY <1>3, <1>4, <1>10, <2>1 DEF CountInv
<1>11. ASSUME NEW t \in Turn, IngestTurn(t) PROVE CountInv'
    BY <1>8, <1>11 DEF IngestTurn
<1>12. ASSUME NEW t \in Turn, NEW stored \in BOOLEAN, IngestUnheard(t, stored) PROVE CountInv'
    <2>1. CASE stored
        BY <1>8, <1>12, <2>1 DEF IngestUnheard
    <2>2. CASE ~stored
        BY <1>10, <1>12, <2>2 DEF IngestUnheard
    <2> QED BY <2>1, <2>2
<1>13. ASSUME NEW p \in Principals, NEW s \in SessionIds, CreateSession(p, s) \/ EndSession(p, s)
       PROVE  CountInv'
    BY <1>5, <1>13 DEF CreateSession, EndSession
<1>14. ASSUME NEW p \in Principals, NEW a \in Agents, WriteDiary(p, a) PROVE CountInv'
    BY <1>9, <1>14 DEF WriteDiary
<1>15. ASSUME NEW p \in Principals, NEW a \in Agents, NEW stored \in BOOLEAN, DiaryUnheard(p, a, stored)
       PROVE  CountInv'
    <2>1. CASE stored
        BY <1>9, <1>15, <2>1 DEF DiaryUnheard
    <2>2. CASE ~stored
        <3>1. <<p, a>> \in Turn \cup Entry
            BY <1>1
        <3> QED BY <1>10, <1>15, <2>2, <3>1 DEF DiaryUnheard
    <2> QED BY <2>1, <2>2
<1>16. ASSUME NEW n \in ToRepos, NEW path \in Paths, RegisterRepo(n, path) PROVE CountInv'
    BY <1>5, <1>16 DEF RegisterRepo
<1>17. CASE UNCHANGED vars
    BY <1>5, <1>17 DEF vars
<1> QED BY <1>11, <1>12, <1>13, <1>14, <1>15, <1>16, <1>17 DEF Next

LEMMA CountInit == Init => CountInv
<1> SUFFICES ASSUME Init PROVE CountInv
    OBVIOUS
<1>1. \A p, a : EntryRows(p, a) = {}
    BY DEF Init, EntryRows
<1>2. \A p \in Principals, s \in SessionIds : TurnRows(p, s) = {}
    <2> SUFFICES ASSUME NEW p \in Principals, NEW s \in SessionIds, NEW x \in TurnRows(p, s) PROVE FALSE
        OBVIOUS
    <2>1. PICK i \in Indexes : x \in {i} \X (1..turns[<<p, s, i>>])
        BY DEF TurnRows
    <2>2. <<p, s, i>> \in Turn
        BY DEF Turn
    <2>3. turns[<<p, s, i>>] = 0
        BY <2>2 DEF Init
    <2> QED BY <2>1, <2>3
<1>3. IsFiniteSet({}) /\ Cardinality({}) = 0
    BY FS_EmptySet
<1>4. \A p \in Principals, a \in Agents : <<p, a>> \in Turn \cup Entry
    BY DEF Entry
<1>5. \A p \in Principals, a \in Agents :
        /\ acked[<<p, a>>] = 0 /\ sent[<<p, a>>] = 0 /\ Cardinality(EntryRows(p, a)) = 0
    BY <1>1, <1>3, <1>4 DEF Init
<1>6. \A p \in Principals, s \in SessionIds : IsFiniteSet(TurnRows(p, s))
    BY <1>2, <1>3
<1>7. diary \in Seq(Rows)
    BY DEF Init
<1> QED BY <1>5, <1>6, <1>7 DEF Init, CountInv

\* session_turns: of every turn the list shows the rows, but for a cut of the oldest.
LEMMA TurnsAreRead ==
    ASSUME CountInv, NEW p \in Principals, NEW s \in SessionIds, NEW n \in Nat,
           NEW list \in LatestTurns(p, s, n)
    PROVE  TurnsRead(p, s, list, n)
<1> DEFINE R == TurnRows(p, s)
           later == {r \in R \X R : r[1][1] > r[2][1]}
           rows(i) == turns[<<p, s, i>>]
           Shown(i) == {k \in 1..Len(list) : list[k][1] = i}
<1>1. IsFiniteSet(R)
    BY DEF CountInv
<1>2. LatestOf(list, R, later, n)
    BY <1>1, NewestIs DEF LatestTurns
<1>3. \A i \in Indexes : /\ <<p, s, i>> \in Turn /\ rows(i) \in Nat /\ i \in Nat
                         /\ acked[<<p, s, i>>] <= rows(i) /\ rows(i) <= sent[<<p, s, i>>]
                         /\ acked[<<p, s, i>>] \in Nat /\ sent[<<p, s, i>>] \in Nat
    <2>1. \A i \in Indexes : <<p, s, i>> \in Turn
        BY DEF Turn
    <2> QED BY <2>1, JournalAssumption DEF CountInv
<1>4. \A x \in R : x[1] \in Indexes /\ x[2] \in 1..rows(x[1]) /\ x = <<x[1], x[2]>>
    <2> SUFFICES ASSUME NEW x \in R
                 PROVE  x[1] \in Indexes /\ x[2] \in 1..rows(x[1]) /\ x = <<x[1], x[2]>>
        OBVIOUS
    <2>1. PICK i \in Indexes : x \in {i} \X (1..rows(i))
        BY DEF TurnRows
    <2> HIDE DEF rows, R
    <2> QED BY <2>1
<1>5. \A i \in Indexes : \A j \in 1..rows(i) : <<i, j>> \in R
    BY DEF TurnRows
<1> HIDE DEF R, rows
<1>6. \A x \in R, y \in R : <<x, y>> \notin later => x[1] <= y[1]
    <2>1. \A x \in R : x[1] \in Nat
        BY <1>3, <1>4
    <2> QED BY <2>1
<1> HIDE DEF later
<1>7. Len(list) \in Nat /\ Len(list) <= n /\ \A k \in 1..Len(list) : list[k] \in R
    BY <1>2 DEF LatestOf
<1>8. \A k, l \in 1..Len(list) : k < l => list[k][1] <= list[l][1]
    BY <1>2, <1>6, <1>7 DEF LatestOf
<1>9. ASSUME NEW i \in Indexes
      PROVE  /\ Cardinality(Shown(i)) <= sent[<<p, s, i>>]
             /\ \/ acked[<<p, s, i>>] <= Cardinality(Shown(i))
                \/ Len(list) = n /\ \A k \in 1..Len(list) : list[k][1] >= i
    <2> DEFINE f == [k \in 1..Len(list) |-> list[k][2]]
               K == Shown(i)
    <2>1. IsFiniteSet(K)
        <3>1. IsFiniteSet(1..Len(list))
            BY <1>7, FS_Interval
        <3> QED BY <3>1, FS_Subset
    <2>2. \A k \in K : k \in 1..Len(list) /\ f[k] \in 1..rows(i) /\ list[k] = <<i, f[k]>>
        BY <1>4, <1>7
    <2>3. \A k, l \in K : f[k] = f[l] => k = l
        <3> SUFFICES ASSUME NEW k \in K, NEW l \in K, f[k] = f[l] PROVE k = l
            OBVIOUS
        <3>1. list[k] = list[l] /\ k \in 1..Len(list) /\ l \in 1..Len(list)
            BY <2>2
        <3> QED BY <1>2, <3>1 DEF LatestOf, Distinct
    <2>4. Cardinality(K) \in Nat /\ Cardinality(K) <= rows(i)
        <3> HIDE DEF K, f
        <3> QED BY <1>3, <2>1, <2>2, <2>3, NoMoreThan
    <2>5. ASSUME ~(Len(list) = n /\ \A k \in 1..Len(list) : list[k][1] >= i)
          PROVE  rows(i) <= Cardinality(K)
        <3>1. ASSUME NEW j \in 1..rows(i) PROVE \E k \in K : f[k] = j
            <4>1. <<i, j>> \in R
                BY <1>5
            <4>2. ~(Len(list) = n /\ \A k \in 1..Len(list) : <<<<i, j>>, list[k]>> \notin later)
                <5> SUFFICES ASSUME Len(list) = n,
                                    \A k \in 1..Len(list) : <<<<i, j>>, list[k]>> \notin later
                             PROVE  FALSE
                    OBVIOUS
                <5>1. \A k \in 1..Len(list) : i <= list[k][1] /\ list[k][1] \in Nat
                    <6>1. \A k \in 1..Len(list) : <<i, j>>[1] <= list[k][1]
                        BY <1>6, <1>7, <4>1
                    <6> QED BY <1>3, <1>4, <1>7, <6>1
                <5> QED BY <1>3, <2>5, <5>1
            <4>3. PICK k \in 1..Len(list) : list[k] = <<i, j>>
                BY <1>2, <4>1, <4>2 DEF LatestOf
            <4> QED BY <4>3
        <3> HIDE DEF K, f
        <3> QED BY <1>3, <2>1, <2>2, <3>1, NoFewerThan
    <2> HIDE DEF K
    <2>6. /\ Cardinality(K) <= sent[<<p, s, i>>]
          /\ \/ acked[<<p, s, i>>] <= Cardinality(K)
             \/ Len(list) = n /\ \A k \in 1..Len(list) : list[k][1] >= i
        BY <1>3, <2>4, <2>5
    <2> QED BY <2>6 DEF K
<1> QED BY <1>7, <1>8, <1>9 DEF TurnsRead

\* read_diary: the entries by the clock, but for a cut of the oldest.
LEMMA EntriesAreRead ==
    ASSUME CountInv, NEW p \in Principals, NEW a \in Agents, NEW n \in Nat,
           NEW list \in DiaryRows(p, a, n)
    PROVE  EntriesRead(p, a, list, n)
<1> DEFINE R == EntryRows(p, a)
           later == {r \in R \X R : diary[r[1]].ts > diary[r[2]].ts}
<1>1. IsFiniteSet(R) /\ Cardinality(R) \in Nat /\ R \subseteq 1..Len(diary)
    BY EntriesFinite
<1>2. LatestOf(list, R, later, n)
    BY <1>1, NewestIs DEF DiaryRows
<1>3. \A x \in R : diary[x].ts \in Nat
    <2>1. \A x \in R : diary[x] \in Rows
        BY <1>1 DEF CountInv
    <2> HIDE DEF R
    <2> QED BY <2>1, JournalAssumption DEF Rows
<1>4. \A i \in DOMAIN diary : diary[i].ns = p /\ diary[i].agent = a => i \in R
    BY DEF EntryRows
<1>5. /\ acked[<<p, a>>] <= Cardinality(R) /\ Cardinality(R) <= sent[<<p, a>>]
      /\ acked[<<p, a>>] \in Nat /\ sent[<<p, a>>] \in Nat
    <2>1. <<p, a>> \in Entry
        BY DEF Entry
    <2> QED BY <2>1 DEF CountInv
<1> HIDE DEF R
<1>6. \A x \in R, y \in R : <<x, y>> \notin later => diary[x].ts <= diary[y].ts
    BY <1>3
<1> HIDE DEF later
<1>7. Len(list) \in Nat /\ Len(list) <= n /\ \A k \in 1..Len(list) : list[k] \in R
    BY <1>2 DEF LatestOf
<1>8. \A k, l \in 1..Len(list) :
        k < l => list[k] # list[l] /\ diary[list[k]].ts <= diary[list[l]].ts
    <2> SUFFICES ASSUME NEW k \in 1..Len(list), NEW l \in 1..Len(list), k < l
                 PROVE  list[k] # list[l] /\ diary[list[k]].ts <= diary[list[l]].ts
        OBVIOUS
    <2>1. k # l /\ Distinct(list) /\ <<list[k], list[l]>> \notin later
        BY <1>2, <1>7 DEF LatestOf
    <2> QED BY <1>6, <1>7, <2>1 DEF Distinct
<1>9. \A x \in R : \/ \E k \in 1..Len(list) : list[k] = x
                   \/ Len(list) = n /\ \A k \in 1..Len(list) : diary[x].ts <= diary[list[k]].ts
    BY <1>2, <1>6, <1>7 DEF LatestOf
<1>10. IsFiniteSet(1..Len(list)) /\ Cardinality(1..Len(list)) = Len(list)
    <2>1. \A k \in Nat : IsFiniteSet(1..k) /\ Cardinality(1..k) = k
        BY FS_Interval
    <2> QED BY <1>7, <2>1
<1>11. Len(list) <= Cardinality(R)
    <2> DEFINE h == [k \in 1..Len(list) |-> list[k]]
    <2>1. h \in Injection(1..Len(list), R)
        BY <1>2, <1>7 DEF Injection, IsInjective, LatestOf, Distinct
    <2> HIDE DEF h
    <2>2. Cardinality(1..Len(list)) <= Cardinality(R)
        BY <1>1, <2>1, FS_Injection
    <2> QED BY <1>10, <2>2
<1>12. Len(list) = n \/ Cardinality(R) <= Len(list)
    <2> SUFFICES ASSUME Len(list) # n PROVE Cardinality(R) <= Len(list)
        OBVIOUS
    <2> DEFINE h == [k \in 1..Len(list) |-> list[k]]
    <2>1. \A x \in R : \E k \in 1..Len(list) : list[k] = x
        BY <1>9
    <2>2. h \in Surjection(1..Len(list), R)
        BY <1>7, <2>1 DEF Surjection
    <2> HIDE DEF h
    <2>3. Cardinality(R) <= Cardinality(1..Len(list))
        BY <1>10, <2>2, FS_Surjection
    <2> QED BY <1>10, <2>3
<1>13. /\ Len(list) <= sent[<<p, a>>]
       /\ acked[<<p, a>>] <= Len(list) \/ Len(list) = n
    BY <1>1, <1>5, <1>7, <1>11, <1>12
<1> QED BY <1>4, <1>7, <1>8, <1>9, <1>13 DEF EntriesRead

-----------------------------------------------------------------------------
(* The theorems *)

\* The record of a session agrees with what its owner last did to it, whatever
\* others did to the same id since.
Kept(s) ==
    session[s] # None =>
        /\ session[s] \in [ns : Principals, ended : {"yes", "no"}]
        /\ session[s].ended = IF last[session[s].ns][s] = "ended" THEN "yes" ELSE "no"

JournalInv ==
    /\ Registry
    /\ \E R : session \in [SessionIds -> R]
    /\ \E L : last \in [Principals -> [SessionIds -> L]]
    /\ \A s \in SessionIds : Kept(s)

LEMMA JournalInvariant == Spec => []JournalInv
<1>1. Init => JournalInv
    <2> SUFFICES ASSUME Init PROVE JournalInv
        OBVIOUS
    <2>1. Registry /\ session \in [SessionIds -> {None}]
        BY DEF Init, Registry
    <2>2. last \in [Principals -> [SessionIds -> {None}]]
        BY DEF Init
    <2>3. \A s \in SessionIds : Kept(s)
        BY DEF Init, Kept
    <2> QED BY <2>1, <2>2, <2>3 DEF JournalInv
<1>2. JournalInv /\ [Next]_vars => JournalInv'
    <2> SUFFICES ASSUME JournalInv, [Next]_vars PROVE JournalInv'
        OBVIOUS
    <2>0. PICK R, L : session \in [SessionIds -> R] /\ last \in [Principals -> [SessionIds -> L]]
        BY DEF JournalInv
    <2>1. ASSUME UNCHANGED <<session, last, repo>>
          PROVE  JournalInv'
        BY <2>1 DEF JournalInv, Registry, Kept
    <2>2. ASSUME NEW p \in Principals, NEW s \in SessionIds, CreateSession(p, s)
          PROVE  JournalInv'
        <3> DEFINE row == [ns |-> p, ended |-> "no"]
        <3>1. /\ UNCHANGED repo
              /\ session' = [session EXCEPT ![s] = row]
              /\ last' = [last EXCEPT ![p][s] = "created"]
            BY <2>2 DEF CreateSession, UpsertSession, FromSession
        <3>2. session' \in [SessionIds -> R \cup {row}]
            BY <2>0, <3>1
        <3>3. last' \in [Principals -> [SessionIds -> L \cup {"created"}]]
            BY <2>0, <3>1
        <3>4. ASSUME NEW q \in SessionIds PROVE Kept(q)'
            BY <2>0, <3>1 DEF JournalInv, Kept
        <3>5. Registry'
            BY <3>1 DEF JournalInv, Registry
        <3> QED BY <3>2, <3>3, <3>4, <3>5 DEF JournalInv
    <2>3. ASSUME NEW p \in Principals, NEW s \in SessionIds, EndSession(p, s)
          PROVE  JournalInv'
        <3>1. /\ UNCHANGED repo
              /\ session' = IF session[s] # None /\ session[s].ns = p
                            THEN [session EXCEPT ![s].ended = "yes"] ELSE session
              /\ last' = [last EXCEPT ![p][s] = "ended"]
            BY <2>3 DEF EndSession, UpdateEnded
        <3>2. session' \in [SessionIds -> R \cup {[session[s] EXCEPT !.ended = "yes"]}]
            BY <2>0, <3>1
        <3>3. last' \in [Principals -> [SessionIds -> L \cup {"ended"}]]
            BY <2>0, <3>1
        <3>4. ASSUME NEW q \in SessionIds PROVE Kept(q)'
            BY <2>0, <3>1 DEF JournalInv, Kept
        <3>5. Registry'
            BY <3>1 DEF JournalInv, Registry
        <3> QED BY <3>2, <3>3, <3>4, <3>5 DEF JournalInv
    <2>4. ASSUME NEW n \in ToRepos, NEW path \in Paths, RegisterRepo(n, path)
          PROVE  JournalInv'
        BY <2>4 DEF RegisterRepo, UpsertRepo, JournalInv, Registry, Kept
    <2>5. CASE UNCHANGED vars
        BY <2>1, <2>5 DEF vars
    <2>6. ASSUME NEW t \in Turn, NEW stored \in BOOLEAN, IngestTurn(t) \/ IngestUnheard(t, stored)
          PROVE  JournalInv'
        BY <2>1, <2>6 DEF IngestTurn, IngestUnheard
    <2>7. ASSUME NEW p \in Principals, NEW a \in Agents, NEW stored \in BOOLEAN,
                 WriteDiary(p, a) \/ DiaryUnheard(p, a, stored)
          PROVE  JournalInv'
        BY <2>1, <2>7 DEF WriteDiary, DiaryUnheard
    <2> QED BY <2>2, <2>3, <2>4, <2>5, <2>6, <2>7 DEF Next
<1> QED BY <1>1, <1>2, PTL DEF Spec

\* OwnAsLeft (create_session's UPSERT by id, end_session's UPDATE by namespace and
\* id): the sessions of a namespace are listed as their owner left them, however
\* many principals use the same ids.
THEOREM SessionsAreAsLeft == Spec => []OwnAsLeft
<1>1. JournalInv => OwnAsLeft
    BY DEF JournalInv, Kept, OwnAsLeft, ListSessions, OwnSessions
<1> QED BY <1>1, JournalInvariant, PTL

\* MostSpecific (resolve_repo, normalize_path): in every state of the registry,
\* whatever paths were sent and whatever directory is asked about, the answer is a
\* repo that contains the directory, and no registered one within it does, except
\* one whose path was sent with a slash at its end.
THEOREM ReposResolve == Spec => []MostSpecific
<1>1. JournalInv => MostSpecific
    BY RegistryResolves DEF JournalInv
<1> QED BY <1>1, JournalInvariant, PTL

\* JournalReadsBack (ingest_turn and write_diary, session_turns and read_diary):
\* however many principals share session ids, whatever replies are lost, whatever
\* the clock reads and however the database orders rows that tie, a read shows, in
\* order, what was acknowledged and nothing more often than it was sent, and its
\* limit costs only the oldest.
THEOREM JournalIsReadBack == Spec => []JournalReadsBack
<1>1. CountInv => JournalReadsBack
    <2> SUFFICES ASSUME CountInv, NEW p \in Principals, NEW limit \in {None} \cup 0..MaxOps
                 PROVE  /\ \A s \in SessionIds : \A list \in SessionTurns(p, s, limit) :
                            TurnsRead(p, s, list, Limit(limit))
                        /\ \A a \in Agents : \A list \in ReadDiary(p, a, limit) :
                            EntriesRead(p, a, list, DiaryLimit(limit))
        BY DEF JournalReadsBack
    <2>1. Limit(limit) \in Nat
        BY JournalAssumption DEF Limit
    <2>2. DiaryLimit(limit) \in Nat
        BY <2>1, JournalAssumption DEF DiaryLimit
    <2>3. \A s \in SessionIds : \A list \in SessionTurns(p, s, limit) :
            TurnsRead(p, s, list, Limit(limit))
        BY <2>1, TurnsAreRead DEF SessionTurns
    <2>4. \A a \in Agents : \A list \in ReadDiary(p, a, limit) :
            EntriesRead(p, a, list, DiaryLimit(limit))
        BY <2>2, EntriesAreRead DEF ReadDiary
    <2> QED BY <2>3, <2>4
<1> QED BY <1>1, CountInit, CountStep, PTL DEF Spec

=============================================================================
