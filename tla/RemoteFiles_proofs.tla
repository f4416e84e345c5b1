------------------------- MODULE RemoteFiles_proofs -------------------------
(* What file calls do to the trees of both sides, for any names, places,     *)
(* depths and numbers of calls: the trees stay trees, a transfer is of the   *)
(* files that match, as far as the server lists them, each in a place of its *)
(* own, and an uploaded script is gone afterwards, unless the server keeps   *)
(* it.  Stated here for a step of FilesNext; Session_proofs     *)
(* concludes for the behaviours.                                             *)
EXTENDS RemoteFiles, SequenceTheorems, FiniteSetTheorems, WellFoundedInduction, TLAPS

Words    == FileNames \cup {"script"}
Anywhere == Seq(Words)
Paths    == Seq(FileNames)
Given    == Paths \ {<<>>}

\* Prefixes by their elements.
LEMMA PrefixMeans ==
  ASSUME NEW p \in Anywhere, NEW q \in Anywhere
  PROVE  IsPrefix(p, q) <=> Len(p) <= Len(q) /\ \A i \in 1..Len(p) : p[i] = q[i]
<1>1. Len(p) \in Nat /\ Len(q) \in Nat
  BY LenProperties DEF Anywhere
<1>2. CASE ~(Len(p) <= Len(q))
  BY <1>2 DEF IsPrefix
<1>3. CASE Len(p) <= Len(q)
  <2>1. SubSeq(p, 1, Len(p)) = p
    BY SubSeqFull DEF Anywhere
  <2>2. \A i \in 1..Len(p) : q[i] \in Words
    BY <1>1, <1>3, ElementOfSeq DEF Anywhere
  <2>3. /\ SubSeq(q, 1, Len(p)) \in Anywhere /\ Len(SubSeq(q, 1, Len(p))) = Len(p)
        /\ \A i \in 1..Len(p) : SubSeq(q, 1, Len(p))[i] = q[i]
    BY <1>1, <2>2, SubSeqProperties DEF Anywhere
  <2>4. (\A i \in 1..Len(p) : p[i] = q[i]) => p = SubSeq(q, 1, Len(p))
    BY <2>3, SeqEqual DEF Anywhere
  <2> QED
    BY <1>3, <2>1, <2>3, <2>4 DEF IsPrefix
<1> QED
  BY <1>2, <1>3

\* Prefixes are an order, by their lengths on the way to one path.
LEMMA PrefixOrder ==
  /\ <<>> \in Anywhere /\ \A p \in Anywhere : IsPrefix(p, p) /\ IsPrefix(<<>>, p)
  /\ \A p, q \in Anywhere : IsPrefix(p, q) /\ Len(q) <= Len(p) => p = q
  /\ \A p, q \in Anywhere : IsStrictPrefix(p, q) => Len(p) < Len(q)
  /\ \A p, q, r \in Anywhere : IsPrefix(p, q) /\ IsPrefix(q, r) => IsPrefix(p, r)
  /\ \A p, q, r \in Anywhere : IsPrefix(p, r) /\ IsPrefix(q, r) /\ Len(p) <= Len(q) => IsPrefix(p, q)
<1>0. \A p \in Anywhere : Len(p) \in Nat
  BY LenProperties DEF Anywhere
<1>1. <<>> \in Anywhere /\ Len(<<>>) = 0
  BY EmptySeq DEF Anywhere
<1>2. \A p \in Anywhere : IsPrefix(p, p) /\ IsPrefix(<<>>, p)
  BY <1>0, <1>1, PrefixMeans
<1>3. ASSUME NEW p \in Anywhere, NEW q \in Anywhere, IsPrefix(p, q), Len(q) <= Len(p)
      PROVE  p = q
  BY <1>0, <1>3, PrefixMeans, SeqEqual DEF Anywhere
<1>4. ASSUME NEW p \in Anywhere, NEW q \in Anywhere, IsStrictPrefix(p, q)
      PROVE  Len(p) < Len(q)
  BY <1>0, <1>3, <1>4 DEF IsStrictPrefix
<1>5. ASSUME NEW p \in Anywhere, NEW q \in Anywhere, NEW r \in Anywhere,
             IsPrefix(p, q), IsPrefix(q, r)
      PROVE  IsPrefix(p, r)
  BY <1>0, <1>5, PrefixMeans
<1>6. ASSUME NEW p \in Anywhere, NEW q \in Anywhere, NEW r \in Anywhere,
             IsPrefix(p, r), IsPrefix(q, r), Len(p) <= Len(q)
      PROVE  IsPrefix(p, q)
  BY <1>0, <1>6, PrefixMeans
<1> QED
  BY <1>1, <1>2, <1>3, <1>4, <1>5, <1>6

LEMMA StrictOrder ==
  /\ \A p, q, r \in Anywhere : IsStrictPrefix(p, q) /\ IsPrefix(q, r) => IsStrictPrefix(p, r)
  /\ \A p, q, r \in Anywhere : IsPrefix(p, q) /\ IsStrictPrefix(q, r) => IsStrictPrefix(p, r)
  /\ \A p \in Anywhere : p # <<>> => IsStrictPrefix(<<>>, p)
  /\ \A p \in Anywhere : ~IsStrictPrefix(p, <<>>)
<1>0. \A p \in Anywhere : Len(p) \in Nat
  BY LenProperties DEF Anywhere
<1>1. \A p, q \in Anywhere : IsPrefix(p, q) /\ IsPrefix(q, p) => p = q
  BY <1>0, PrefixOrder, PrefixMeans
<1> QED
  BY <1>1, PrefixOrder DEF IsStrictPrefix

\* The part of a path up to a length.
LEMMA UpTo ==
  ASSUME NEW p \in Anywhere, NEW n \in 0..Len(p)
  PROVE  /\ SubSeq(p, 1, n) \in Anywhere /\ Len(SubSeq(p, 1, n)) = n
         /\ IsPrefix(SubSeq(p, 1, n), p)
         /\ p \in Paths => SubSeq(p, 1, n) \in Paths
<1>1. Len(p) \in Nat
  BY LenProperties DEF Anywhere
<1>2. ASSUME NEW S, p \in Seq(S)
      PROVE  /\ SubSeq(p, 1, n) \in Seq(S) /\ Len(SubSeq(p, 1, n)) = n
             /\ \A i \in 1..n : SubSeq(p, 1, n)[i] = p[i]
  <2>1. \A i \in 1..n : p[i] \in S
    BY <1>1, <1>2, ElementOfSeq
  <2> QED
    BY <1>1, <2>1, SubSeqProperties
<1>3. p \in Paths => SubSeq(p, 1, n) \in Paths
  BY <1>2 DEF Paths
<1>4. /\ SubSeq(p, 1, n) \in Anywhere /\ Len(SubSeq(p, 1, n)) = n
      /\ \A i \in 1..n : SubSeq(p, 1, n)[i] = p[i]
  BY <1>2 DEF Anywhere
<1>5. IsPrefix(SubSeq(p, 1, n), p)
  <2> DEFINE q == SubSeq(p, 1, n)
  <2>1. q \in Anywhere /\ Len(q) = n /\ \A i \in 1..n : q[i] = p[i]
    BY <1>4
  <2> HIDE DEF q
  <2>2. IsPrefix(q, p)
    BY <1>1, <2>1, PrefixMeans
  <2> QED
    BY <2>2 DEF q
<1> QED
  BY <1>3, <1>4, <1>5

LEMMA PartOf ==
  ASSUME NEW p \in Anywhere, NEW q \in Anywhere, IsPrefix(q, p)
  PROVE  Len(q) \in 0..Len(p) /\ q = SubSeq(p, 1, Len(q)) /\ (p \in Paths => q \in Paths)
<1>1. Len(q) \in 0..Len(p)
  BY LenProperties, PrefixMeans DEF Anywhere
<1>2. q = SubSeq(p, 1, Len(q))
  <2>1. SubSeq(q, 1, Len(q)) = q
    BY SubSeqFull DEF Anywhere
  <2> QED
    BY <2>1 DEF IsPrefix
<1> QED
  BY <1>1, <1>2, UpTo

LEMMA AboveIs ==
  ASSUME NEW p \in Anywhere
  PROVE  /\ \A q : q \in Above(p) <=> q \in Anywhere /\ IsStrictPrefix(q, p) /\ q # <<>>
         /\ p \in Paths => Above(p) \subseteq Given
<1>1. ASSUME NEW q
      PROVE  q \in Above(p) <=> (\E l \in 0..Len(p) : q = SubSeq(p, 1, l)) /\ q # p /\ q # <<>>
  BY Zenon DEF Above, Prefixes
<1>2. \A q : q \in Above(p) => q \in Anywhere /\ IsStrictPrefix(q, p) /\ q # <<>>
  BY <1>1, UpTo DEF IsStrictPrefix
<1>3. \A q \in Anywhere : IsStrictPrefix(q, p) /\ q # <<>> => q \in Above(p)
  BY <1>1, PartOf DEF IsStrictPrefix
<1>4. p \in Paths => \A q \in Above(p) : q \in Given
  BY <1>2, PartOf DEF IsStrictPrefix, Given
<1> QED
  BY <1>2, <1>3, <1>4

LEMMA FrontIs ==
  ASSUME NEW p \in Anywhere, p # <<>>
  PROVE  /\ Front(p) \in Anywhere /\ IsStrictPrefix(Front(p), p) /\ Len(Front(p)) = Len(p) - 1
         /\ p \in Paths => Front(p) \in Paths
         /\ \A q \in Anywhere : IsStrictPrefix(q, p) <=> IsPrefix(q, Front(p))
<1>1. Len(p) \in Nat \ {0}
  BY EmptySeq DEF Anywhere
<1>2. /\ Front(p) \in Anywhere /\ Len(Front(p)) = Len(p) - 1 /\ IsPrefix(Front(p), p)
      /\ p \in Paths => Front(p) \in Paths
  <2> DEFINE n == Len(p) - 1
  <2>1. n \in 0..Len(p) /\ Front(p) = SubSeq(p, 1, n) /\ n = Len(p) - 1
    BY <1>1 DEF Front
  <2> HIDE DEF n
  <2> QED
    BY <2>1, UpTo
<1>3. IsStrictPrefix(Front(p), p)
  BY <1>1, <1>2 DEF IsStrictPrefix
<1>4. ASSUME NEW q \in Anywhere
      PROVE  IsStrictPrefix(q, p) <=> IsPrefix(q, Front(p))
  <2>1. Len(q) \in Nat
    BY LenProperties DEF Anywhere
  <2>2. CASE IsStrictPrefix(q, p)
    BY <1>1, <1>2, <2>1, <2>2, PrefixOrder DEF IsStrictPrefix
  <2>3. CASE IsPrefix(q, Front(p))
    BY <1>2, <1>3, <2>3, StrictOrder
  <2> QED
    BY <2>2, <2>3
<1> QED
  BY <1>2, <1>3, <1>4

LEMMA AppendIs ==
  ASSUME NEW p \in Anywhere, NEW n \in Words
  PROVE  /\ Append(p, n) \in Anywhere /\ Append(p, n) # <<>>
         /\ Front(Append(p, n)) = p /\ Last(Append(p, n)) = n
         /\ p \in Paths /\ n \in FileNames => Append(p, n) \in Given
<1>1. /\ Append(p, n) \in Anywhere /\ Append(p, n) # <<>> /\ Len(Append(p, n)) = Len(p) + 1
      /\ \A i \in 1..Len(p) : Append(p, n)[i] = p[i]
      /\ Append(p, n)[Len(p) + 1] = n /\ Len(p) \in Nat
  BY AppendProperties, LenProperties DEF Anywhere
<1>2. Front(Append(p, n)) \in Anywhere /\ IsPrefix(Front(Append(p, n)), Append(p, n))
      /\ Len(Front(Append(p, n))) = Len(p)
  <2> DEFINE q == Append(p, n)
  <2>1. q \in Anywhere /\ q # <<>> /\ Len(q) - 1 = Len(p)
    BY <1>1
  <2> HIDE DEF q
  <2>2. Front(q) \in Anywhere /\ IsPrefix(Front(q), q) /\ Len(Front(q)) = Len(p)
    BY <2>1, FrontIs DEF IsStrictPrefix
  <2> QED
    BY <2>2 DEF q
<1>3. Front(Append(p, n)) = p
  BY <1>1, <1>2, PrefixMeans, SeqEqual DEF Anywhere
<1>4. p \in Paths /\ n \in FileNames => Append(p, n) \in Given
  BY <1>1, AppendProperties DEF Paths, Given
<1> QED
  BY <1>1, <1>3, <1>4 DEF Last

LEMMA ConcatIs ==
  ASSUME NEW p \in Anywhere, NEW r \in Anywhere
  PROVE  /\ p \o r \in Anywhere /\ IsPrefix(p, p \o r) /\ Relative(p, p \o r) = r
         /\ p \in Given /\ r \in Paths => p \o r \in Given
<1>1. Len(p) \in Nat /\ Len(r) \in Nat
  BY LenProperties DEF Anywhere
<1>2. /\ p \o r \in Anywhere /\ Len(p \o r) = Len(p) + Len(r)
      /\ \A i \in 1..(Len(p) + Len(r)) : (p \o r)[i] = IF i <= Len(p) THEN p[i] ELSE r[i - Len(p)]
  BY ConcatProperties DEF Anywhere
<1> DEFINE q == p \o r
<1>3. /\ q \in Anywhere /\ Len(q) = Len(p) + Len(r)
      /\ \A i \in 1..(Len(p) + Len(r)) : q[i] = IF i <= Len(p) THEN p[i] ELSE r[i - Len(p)]
  BY <1>2
<1>4. p \in Given /\ r \in Paths => q \in Given
  <2>1. p # <<>> => Len(p) # 0
    BY EmptySeq DEF Anywhere
  <2>2. p # <<>> => q # <<>>
    BY <1>1, <1>3, <2>1, EmptySeq
  <2> QED
    BY <2>2, ConcatProperties DEF Given, Paths
<1> HIDE DEF q
<1>5. IsPrefix(p, q)
  BY <1>1, <1>3, PrefixMeans
<1>6. Relative(p, q) = r
  <2> DEFINE s == SubSeq(q, Len(p) + 1, Len(q))
  <2>1. \A i \in (Len(p) + 1)..Len(q) : q[i] \in Words
    BY <1>1, <1>3, ElementOfSeq DEF Anywhere
  <2>2. /\ s \in Anywhere
        /\ Len(s) = IF Len(p) + 1 <= Len(q) THEN Len(q) - (Len(p) + 1) + 1 ELSE 0
        /\ \A i \in 1..(Len(q) - (Len(p) + 1) + 1) : s[i] = q[(Len(p) + 1) + i - 1]
    BY <1>1, <1>3, <2>1, SubSeqProperties DEF Anywhere
  <2> HIDE DEF s
  <2>3. Len(s) = Len(r) /\ \A i \in 1..Len(r) : s[i] = r[i]
    <3>1. Len(s) = Len(r)
      BY <1>1, <1>3, <2>2
    <3>2. ASSUME NEW i \in 1..Len(r)
          PROVE  s[i] = r[i]
      <4>1. s[i] = q[Len(p) + i] /\ Len(p) + i \in 1..(Len(p) + Len(r)) /\ ~(Len(p) + i <= Len(p))
        BY <1>1, <1>3, <2>2
      <4>2. q[Len(p) + i] = r[(Len(p) + i) - Len(p)]
        BY <1>3, <4>1
      <4> QED
        BY <1>1, <4>1, <4>2
    <3> QED
      BY <3>1, <3>2
  <2>4. s = r
    BY <2>2, <2>3, SeqEqual DEF Anywhere
  <2> QED
    BY <2>4 DEF s, Relative
<1> QED
  BY <1>3, <1>4, <1>5, <1>6 DEF q

LEMMA Relatives ==
  ASSUME NEW p \in Anywhere, NEW root \in Anywhere
  PROVE  Relative(root, p) \in Anywhere /\ (p \in Paths => Relative(root, p) \in Paths)
<1>1. Len(p) \in Nat /\ Len(root) \in Nat
  BY LenProperties DEF Anywhere
<1>2. ASSUME NEW S, p \in Seq(S)
      PROVE  SubSeq(p, Len(root) + 1, Len(p)) \in Seq(S)
  <2>1. \A i \in (Len(root) + 1)..Len(p) : p[i] \in S
    BY <1>1, <1>2, ElementOfSeq
  <2> QED
    BY <1>1, <2>1, SubSeqProperties
<1> QED
  BY <1>2 DEF Relative, Anywhere, Paths

\* A path that begins with root is root and what is relative to it.
LEMMA RelativeIs ==
  ASSUME NEW p \in Anywhere, NEW root \in Anywhere, IsPrefix(root, p)
  PROVE  root \o Relative(root, p) = p
<1>1. Len(p) \in Nat /\ Len(root) \in Nat /\ Len(root) <= Len(p)
      /\ \A i \in 1..Len(root) : root[i] = p[i]
  BY LenProperties, PrefixMeans DEF Anywhere
<1> DEFINE s == SubSeq(p, Len(root) + 1, Len(p))
<1>2. \A i \in (Len(root) + 1)..Len(p) : p[i] \in Words
  BY <1>1, ElementOfSeq DEF Anywhere
<1>3. /\ s \in Anywhere
      /\ Len(s) = IF Len(root) + 1 <= Len(p) THEN Len(p) - (Len(root) + 1) + 1 ELSE 0
      /\ \A i \in 1..(Len(p) - (Len(root) + 1) + 1) : s[i] = p[(Len(root) + 1) + i - 1]
  BY <1>1, <1>2, SubSeqProperties DEF Anywhere
<1> HIDE DEF s
<1>4. Len(s) = Len(p) - Len(root) /\ \A i \in 1..Len(s) : s[i] = p[Len(root) + i]
  BY <1>1, <1>3
<1> DEFINE q == root \o s
<1>5. /\ q \in Anywhere /\ Len(q) = Len(root) + Len(s)
      /\ \A i \in 1..(Len(root) + Len(s)) : q[i] = IF i <= Len(root) THEN root[i] ELSE s[i - Len(root)]
  BY <1>3, ConcatProperties DEF Anywhere
<1> HIDE DEF q
<1>6. Len(q) = Len(p) /\ \A i \in 1..Len(q) : q[i] = p[i]
  BY <1>1, <1>4, <1>5
<1>7. q = p
  BY <1>5, <1>6, SeqEqual DEF Anywhere
<1> QED
  BY <1>7 DEF q, s, Relative

LEMMA ConcatPrefix ==
  ASSUME NEW p \in Anywhere, NEW r \in Anywhere, NEW s \in Anywhere
  PROVE  IsPrefix(p \o r, p \o s) <=> IsPrefix(r, s)
<1>1. Len(p) \in Nat /\ Len(r) \in Nat /\ Len(s) \in Nat
  BY LenProperties DEF Anywhere
<1> DEFINE a == p \o r
           b == p \o s
<1>2. /\ a \in Anywhere /\ Len(a) = Len(p) + Len(r)
      /\ \A i \in 1..(Len(p) + Len(r)) : a[i] = IF i <= Len(p) THEN p[i] ELSE r[i - Len(p)]
  BY ConcatProperties DEF Anywhere
<1>3. /\ b \in Anywhere /\ Len(b) = Len(p) + Len(s)
      /\ \A i \in 1..(Len(p) + Len(s)) : b[i] = IF i <= Len(p) THEN p[i] ELSE s[i - Len(p)]
  BY ConcatProperties DEF Anywhere
<1> HIDE DEF a, b
<1>4. ASSUME IsPrefix(a, b)
      PROVE  IsPrefix(r, s)
  <2>1. Len(r) <= Len(s)
    BY <1>1, <1>2, <1>3, <1>4, PrefixMeans
  <2>2. ASSUME NEW i \in 1..Len(r)
        PROVE  r[i] = s[i]
    <3>1. Len(p) + i \in 1..Len(a) /\ Len(p) + i \in 1..Len(b)
      BY <1>1, <1>2, <1>3, <2>1
    <3>2. a[Len(p) + i] = b[Len(p) + i]
      BY <1>2, <1>3, <1>4, <3>1, PrefixMeans
    <3>3. a[Len(p) + i] = r[i] /\ b[Len(p) + i] = s[i]
      BY <1>1, <1>2, <1>3, <3>1
    <3> QED
      BY <3>2, <3>3
  <2> QED
    BY <2>1, <2>2, PrefixMeans
<1>5. ASSUME IsPrefix(r, s)
      PROVE  IsPrefix(a, b)
  <2>1. Len(r) <= Len(s) /\ \A i \in 1..Len(r) : r[i] = s[i]
    BY <1>5, PrefixMeans
  <2>2. Len(a) <= Len(b) /\ \A i \in 1..Len(a) : a[i] = b[i]
    BY <1>1, <1>2, <1>3, <2>1
  <2> QED
    BY <1>2, <1>3, <2>2, PrefixMeans
<1> QED
  BY <1>4, <1>5 DEF a, b

\* Paths below one root are as far apart as those they are mapped to.
LEMMA Moved ==
  ASSUME NEW to \in Anywhere, NEW root \in Anywhere, NEW p \in Anywhere, NEW q \in Anywhere,
         IsPrefix(root, p), IsPrefix(root, q)
  PROVE  /\ IsPrefix(to \o Relative(root, p), to \o Relative(root, q)) <=> IsPrefix(p, q)
         /\ to \o Relative(root, p) = to \o Relative(root, q) => p = q
<1> DEFINE r == Relative(root, p)
           s == Relative(root, q)
<1>1. r \in Anywhere /\ s \in Anywhere /\ root \o r = p /\ root \o s = q
  BY Relatives, RelativeIs
<1> HIDE DEF r, s
<1>2. IsPrefix(to \o r, to \o s) <=> IsPrefix(r, s)
  BY <1>1, ConcatPrefix
<1>3. IsPrefix(root \o r, root \o s) <=> IsPrefix(r, s)
  BY <1>1, ConcatPrefix
<1>4. Relative(to, to \o r) = r /\ Relative(to, to \o s) = s
  BY <1>1, ConcatIs
<1> QED
  BY <1>1, <1>2, <1>3, <1>4 DEF r, s

\* The script has a name of its own, right below the root.
LEMMA GivenPaths ==
  /\ Script \in Anywhere /\ Script # <<>> /\ Script \notin Paths
  /\ Given \subseteq Paths /\ Paths \subseteq Anywhere /\ <<>> \in Paths
  /\ Places \subseteq Given
  /\ \A q \in Anywhere : IsStrictPrefix(q, Script) => q = <<>>
  /\ \A p \in Paths : ~IsPrefix(Script, p)
<1>1. Script \in Anywhere /\ Script # <<>> /\ Len(Script) = 1 /\ Script[1] = "script"
  BY DEF Script, Anywhere, Words
<1>2. ASSUME NEW p \in Paths
      PROVE  p \in Anywhere /\ ~IsPrefix(Script, p)
  <2>1. p \in Anywhere
    BY SeqMonotonic DEF Paths, Anywhere, Words
  <2>2. \A i \in 1..Len(p) : p[i] \in FileNames
    BY ElementOfSeq DEF Paths
  <2>3. Len(p) \in Nat
    BY LenProperties DEF Paths
  <2>4. ~IsPrefix(Script, p)
    BY <1>1, <2>1, <2>2, <2>3, PrefixMeans, ScriptAssumption
  <2> QED
    BY <2>1, <2>4
<1>3. Script \notin Paths
  BY <1>1, <1>2, PrefixOrder
<1>4. ASSUME NEW q \in Anywhere, IsStrictPrefix(q, Script)
      PROVE  q = <<>>
  BY <1>1, <1>4, PrefixOrder, EmptySeq DEF Anywhere
<1>5. <<>> \in Paths
  BY EmptySeq DEF Paths
<1> QED
  BY <1>1, <1>2, <1>3, <1>4, <1>5, PlacesAssumption DEF Given, Paths

-----------------------------------------------------------------------------
(* Trees *)

\* The paths of a tree are finitely many, and the root is a directory.
GoodTree(tree) ==
  /\ DOMAIN tree \subseteq Paths \cup {Script} /\ IsFiniteSet(DOMAIN tree)
  /\ <<>> \in DOMAIN tree /\ tree[<<>>] = Dir

OnDirs(tree, p) == \A q \in Anywhere : IsStrictPrefix(q, p) => IsDir(tree, q)
Whole(tree)     == \A p \in DOMAIN tree : OnDirs(tree, p)

LEMMA GoodPaths ==
  ASSUME NEW tree, GoodTree(tree)
  PROVE  DOMAIN tree \subseteq Anywhere
BY GivenPaths DEF GoodTree

LEMMA OnFront ==
  ASSUME NEW tree, Whole(tree), NEW p \in Anywhere, p # <<>>, IsDir(tree, Front(p))
  PROVE  OnDirs(tree, p)
<1> SUFFICES ASSUME NEW q \in Anywhere, IsStrictPrefix(q, p)
             PROVE  IsDir(tree, q)
  BY DEF OnDirs
<1>1. IsPrefix(q, Front(p))
  BY FrontIs
<1>2. OnDirs(tree, Front(p))
  BY DEF Whole, IsDir
<1> QED
  BY <1>1, <1>2 DEF OnDirs, IsStrictPrefix

LEMMA NothingBelow ==
  ASSUME NEW tree, Whole(tree), NEW p \in Anywhere, ~IsDir(tree, p)
  PROVE  Below(tree, p) = {}
BY DEF Whole, OnDirs, Below

LEMMA WithGood ==
  ASSUME NEW tree, GoodTree(tree), NEW p \in Given \cup {Script}, NEW node
  PROVE  GoodTree(With(tree, p, node)) /\ DOMAIN With(tree, p, node) = DOMAIN tree \cup {p}
<1>1. IsFiniteSet(DOMAIN tree \cup {p})
  BY FS_AddElement DEF GoodTree
<1> QED
  BY <1>1, GivenPaths DEF GoodTree, With, Given

LEMMA WithWhole ==
  ASSUME NEW tree, GoodTree(tree), Whole(tree), NEW p \in Given \cup {Script},
         OnDirs(tree, p), NEW node, node = Dir \/ Below(tree, p) = {}
  PROVE  Whole(With(tree, p, node))
<1> DEFINE now == With(tree, p, node)
<1>1. /\ DOMAIN now = DOMAIN tree \cup {p}
      /\ now[p] = node /\ \A q \in DOMAIN tree : q # p => now[q] = tree[q]
  BY DEF With
<1> HIDE DEF now
<1>2. p \in Anywhere
  BY GivenPaths
<1>3. ASSUME NEW r \in DOMAIN now, NEW q \in Anywhere, IsStrictPrefix(q, r)
      PROVE  IsDir(now, q)
  <2>1. IsDir(tree, q)
    BY <1>1, <1>3 DEF Whole, OnDirs
  <2>2. CASE q = p /\ r # p
    <3>1. r \in Below(tree, p)
      BY <1>1, <1>3, <2>2 DEF Below
    <3> QED
      BY <1>1, <2>2, <3>1 DEF IsDir
  <2>3. CASE q # p
    BY <1>1, <2>1, <2>3 DEF IsDir
  <2>4. q # r
    BY <1>3 DEF IsStrictPrefix
  <2> QED
    BY <2>2, <2>3, <2>4
<1> QED
  BY <1>3 DEF Whole, OnDirs, now

LEMMA WithoutGood ==
  ASSUME NEW tree, GoodTree(tree), NEW p, p # <<>>
  PROVE  /\ GoodTree(Without(tree, p)) /\ DOMAIN Without(tree, p) = DOMAIN tree \ {p}
         /\ Whole(tree) /\ Below(tree, p) = {} => Whole(Without(tree, p))
<1>1. IsFiniteSet(DOMAIN tree \ {p})
  BY FS_RemoveElement DEF GoodTree
<1>2. GoodTree(Without(tree, p)) /\ DOMAIN Without(tree, p) = DOMAIN tree \ {p}
  BY <1>1 DEF GoodTree, Without
<1>3. ASSUME Whole(tree), Below(tree, p) = {}
      PROVE  Whole(Without(tree, p))
  <2> DEFINE now == Without(tree, p)
  <2>1. DOMAIN now = DOMAIN tree \ {p} /\ \A q \in DOMAIN now : now[q] = tree[q]
    BY DEF Without
  <2> HIDE DEF now
  <2>2. ASSUME NEW r \in DOMAIN now, NEW q \in Anywhere, IsStrictPrefix(q, r)
        PROVE  IsDir(now, q)
    <3>1. IsDir(tree, q)
      BY <1>3, <2>1, <2>2 DEF Whole, OnDirs
    <3>2. q # p
      BY <1>3, <2>1, <2>2 DEF Below
    <3> QED
      BY <2>1, <3>1, <3>2 DEF IsDir
  <2> QED
    BY <2>2 DEF Whole, OnDirs, now
<1> QED
  BY <1>2, <1>3

LEMMA MkDirsIs ==
  ASSUME NEW tree, NEW dirs
  PROVE  LET now == MkDirs(tree, dirs) IN
         /\ DOMAIN tree \subseteq DOMAIN now /\ \A q \in DOMAIN tree : now[q] = tree[q]
         /\ \A q \in DOMAIN now \ DOMAIN tree : q \in dirs /\ now[q] = Dir /\ ~Blocked(tree, q)
         /\ \A q \in dirs : ~Blocked(tree, q) /\ ~IsFile(tree, q) => IsDir(now, q)
<1> DEFINE new == {q \in dirs \ DOMAIN tree : ~Blocked(tree, q)}
<1>1. MkDirs(tree, dirs) = [q \in DOMAIN tree \cup new |-> IF q \in new THEN Dir ELSE tree[q]]
  BY DEF MkDirs
<1>2. \A q : q \in new <=> q \in dirs /\ q \notin DOMAIN tree /\ ~Blocked(tree, q)
  OBVIOUS
<1> HIDE DEF new
<1> QED
  BY <1>1, <1>2 DEF IsDir, IsFile

LEMMA MkDirsGood ==
  ASSUME NEW tree, GoodTree(tree), NEW dirs, dirs \subseteq Given, IsFiniteSet(dirs)
  PROVE  /\ GoodTree(MkDirs(tree, dirs))
         /\ DOMAIN MkDirs(tree, dirs) \subseteq DOMAIN tree \cup Given
<1> DEFINE now == MkDirs(tree, dirs)
<1>1. /\ DOMAIN tree \subseteq DOMAIN now /\ \A q \in DOMAIN tree : now[q] = tree[q]
      /\ \A q \in DOMAIN now \ DOMAIN tree : q \in dirs
  BY MkDirsIs
<1> HIDE DEF now
<1>2. IsFiniteSet(DOMAIN tree \cup dirs) /\ DOMAIN now \subseteq DOMAIN tree \cup dirs
  BY <1>1, FS_Union DEF GoodTree
<1>3. IsFiniteSet(DOMAIN now)
  BY <1>2, FS_Subset
<1> QED
  BY <1>1, <1>3, GivenPaths DEF GoodTree, now

\* Directories that are made with those above them leave a whole tree whole.
LEMMA MkDirsWhole ==
  ASSUME NEW tree, GoodTree(tree), Whole(tree), NEW dirs, dirs \subseteq Given,
         \A d \in dirs : Above(d) \subseteq dirs
  PROVE  Whole(MkDirs(tree, dirs))
<1> DEFINE now == MkDirs(tree, dirs)
<1>1. /\ DOMAIN tree \subseteq DOMAIN now /\ \A q \in DOMAIN tree : now[q] = tree[q]
      /\ \A q \in DOMAIN now \ DOMAIN tree : q \in dirs /\ now[q] = Dir /\ ~Blocked(tree, q)
      /\ \A q \in dirs : ~Blocked(tree, q) /\ ~IsFile(tree, q) => IsDir(now, q)
  BY MkDirsIs
<1> HIDE DEF now
<1>2. ASSUME NEW r \in DOMAIN tree, NEW q \in Anywhere, IsStrictPrefix(q, r)
      PROVE  IsDir(now, q)
  BY <1>1, <1>2 DEF Whole, OnDirs, IsDir
<1>3. ASSUME NEW r \in DOMAIN now \ DOMAIN tree, NEW q \in Anywhere, IsStrictPrefix(q, r), q # <<>>
      PROVE  IsDir(now, q)
  <2>1. r \in dirs /\ r \in Anywhere /\ ~Blocked(tree, r)
    BY <1>1, <1>3, GivenPaths
  <2>2. q \in Above(r) /\ q \in dirs
    BY <1>3, <2>1, AboveIs
  <2>3. ~IsFile(tree, q)
    BY <2>1, <2>2 DEF Blocked
  <2>4. \A s \in Above(q) : s \in Above(r)
    BY <1>3, <2>1, AboveIs, StrictOrder DEF IsStrictPrefix
  <2>5. ~Blocked(tree, q)
    BY <2>1, <2>4 DEF Blocked
  <2> QED
    BY <1>1, <2>2, <2>3, <2>5
<1>4. IsDir(now, <<>>)
  BY <1>1 DEF GoodTree, IsDir
<1> QED
  BY <1>2, <1>3, <1>4 DEF Whole, OnDirs, now

LEMMA AboveFinite ==
  ASSUME NEW p \in Anywhere
  PROVE  IsFiniteSet(Above(p))
<1> DEFINE part == [l \in 0..Len(p) |-> SubSeq(p, 1, l)]
           all  == {part[l] : l \in 0..Len(p)}
<1>1. IsFiniteSet(0..Len(p))
  BY LenProperties, FS_Interval DEF Anywhere
<1>2. part \in Surjection(0..Len(p), all)
  BY DEF Surjection
<1>3. IsFiniteSet(all)
  BY <1>1, <1>2, FS_Surjection
<1>4. \A q : q \in Above(p) => \E l \in 0..Len(p) : q = SubSeq(p, 1, l)
  BY Zenon DEF Above, Prefixes
<1>5. Above(p) \subseteq all
  BY <1>4
<1> HIDE DEF all
<1> QED
  BY <1>3, <1>5, FS_Subset

LEMMA AllAboveFinite ==
  ASSUME NEW files, IsFiniteSet(files), NEW place \in [files -> Anywhere]
  PROVE  IsFiniteSet(UNION {Above(place[f]) : f \in files})
<1> DEFINE above == [f \in files |-> Above(place[f])]
           all   == {above[f] : f \in files}
<1>1. above \in Surjection(files, all)
  BY DEF Surjection
<1>2. IsFiniteSet(all)
  BY <1>1, FS_Surjection
<1>3. \A a \in all : IsFiniteSet(a)
  BY AboveFinite
<1>4. IsFiniteSet(UNION all)
  BY <1>2, <1>3, FS_UNION
<1>5. UNION all = UNION {Above(place[f]) : f \in files}
  BY Zenon
<1> QED
  BY <1>4, <1>5

LEMMA ParentIs ==
  ASSUME NEW tree, GoodTree(tree), NEW p \in Given
  PROVE  LET now == EnsureParent(tree, p) IN
         /\ GoodTree(now) /\ DOMAIN now \subseteq DOMAIN tree \cup Given
         /\ DOMAIN tree \subseteq DOMAIN now /\ \A q \in DOMAIN tree : now[q] = tree[q]
         /\ \A q \in DOMAIN now \ DOMAIN tree : IsStrictPrefix(q, p) /\ now[q] = Dir
         /\ \A q \in Anywhere : ~IsStrictPrefix(q, p) => Below(now, q) = Below(tree, q)
         /\ Whole(tree) => Whole(now)
         /\ ~Blocked(tree, p) => OnDirs(now, p)
<1> DEFINE now == EnsureParent(tree, p)
<1>1. /\ p \in Anywhere /\ Above(p) \subseteq Given /\ IsFiniteSet(Above(p))
      /\ \A q : q \in Above(p) <=> q \in Anywhere /\ IsStrictPrefix(q, p) /\ q # <<>>
  BY GivenPaths, AboveIs, AboveFinite
<1>2. \A d \in Above(p) : Above(d) \subseteq Above(p)
  BY <1>1, AboveIs, StrictOrder DEF IsStrictPrefix
<1>3. now = MkDirs(tree, Above(p))
  BY DEF EnsureParent
<1> HIDE DEF now
<1>4. GoodTree(now) /\ DOMAIN now \subseteq DOMAIN tree \cup Given /\ (Whole(tree) => Whole(now))
  BY <1>1, <1>2, <1>3, MkDirsGood, MkDirsWhole
<1>5. /\ DOMAIN tree \subseteq DOMAIN now /\ \A q \in DOMAIN tree : now[q] = tree[q]
      /\ \A q \in DOMAIN now \ DOMAIN tree : q \in Above(p) /\ now[q] = Dir
      /\ \A q \in Above(p) : ~Blocked(tree, q) /\ ~IsFile(tree, q) => IsDir(now, q)
  BY <1>3, MkDirsIs
<1>6. ASSUME NEW q \in Anywhere, ~IsStrictPrefix(q, p)
      PROVE  Below(now, q) = Below(tree, q)
  <2>1. \A r \in DOMAIN now \ DOMAIN tree : ~IsStrictPrefix(q, r)
    BY <1>1, <1>5, <1>6, StrictOrder DEF IsStrictPrefix
  <2> QED
    BY <1>5, <2>1 DEF Below
<1>7. ASSUME ~Blocked(tree, p)
      PROVE  OnDirs(now, p)
  <2>1. IsDir(now, <<>>)
    BY <1>4 DEF GoodTree, IsDir
  <2>2. ASSUME NEW q \in Above(p)
        PROVE  IsDir(now, q)
    <3>1. ~Blocked(tree, q) /\ ~IsFile(tree, q)
      BY <1>2, <1>7, <2>2 DEF Blocked
    <3> QED
      BY <1>5, <3>1
  <2> QED
    BY <1>1, <2>1, <2>2 DEF OnDirs
<1> QED
  BY <1>1, <1>4, <1>5, <1>6, <1>7 DEF now

LEMMA SeedGood ==
  ASSUME NEW side
  PROVE  GoodTree(Seed(side)) /\ Whole(Seed(side)) /\ Script \notin DOMAIN Seed(side)
<1>1. /\ Folder \in FileNames /\ Matching \subseteq FileNames /\ IsFiniteSet(FileNames)
      /\ Folder \in Words /\ FileNames \subseteq Words
  BY PlacesAssumption, NamesAssumption DEF Words
<1> DEFINE level1 == {<<Folder, n>> : n \in FileNames \ {Folder}}
           level2 == {<<Folder, Folder, n>> : n \in Matching}
           files  == level1 \cup level2
           one    == <<Folder>>
           two    == <<Folder, Folder>>
           tree   == Seed(side)
<1>2. IsFiniteSet(files)
  <2>1. IsFiniteSet(FileNames \ {Folder}) /\ IsFiniteSet(Matching)
    BY <1>1, FS_Subset
  <2>2. [n \in FileNames \ {Folder} |-> <<Folder, n>>] \in Surjection(FileNames \ {Folder}, level1)
    BY DEF Surjection
  <2>3. [n \in Matching |-> <<Folder, Folder, n>>] \in Surjection(Matching, level2)
    BY DEF Surjection
  <2>4. IsFiniteSet(level1)
    BY <2>1, <2>2, FS_Surjection
  <2>5. IsFiniteSet(level2)
    BY <2>1, <2>3, FS_Surjection
  <2> HIDE DEF level1, level2
  <2> QED
    BY <2>4, <2>5, FS_Union
<1>3. /\ one \in Given /\ two \in Given /\ files \subseteq Given
      /\ one # two /\ one \notin files /\ two \notin files /\ <<>> \notin files
  <2>1. one \in Given /\ two \in Given /\ one # two
    BY <1>1 DEF Given, Paths
  <2>2. \A n \in FileNames : <<Folder, n>> \in Given /\ <<Folder, Folder, n>> \in Given
    BY <1>1 DEF Given, Paths
  <2>3. <<>> \notin files
    BY <2>2, <1>1 DEF Given
  <2>4. \A n \in FileNames : /\ one # <<Folder, n>> /\ one # <<Folder, Folder, n>>
                             /\ two # <<Folder, Folder, n>>
                             /\ n # Folder => two # <<Folder, n>>
    BY <1>1
  <2> QED
    BY <1>1, <2>1, <2>2, <2>3, <2>4
<1>4. /\ \A q \in Anywhere : IsStrictPrefix(q, one) => q = <<>>
      /\ \A q \in Anywhere : IsStrictPrefix(q, two) => q \in {<<>>, one}
      /\ \A q \in Anywhere, f \in files : IsStrictPrefix(q, f) => q \in {<<>>, one, two}
  <2>1. ASSUME NEW p \in Anywhere, NEW n \in Words
        PROVE  /\ Append(p, n) \in Anywhere
               /\ \A q \in Anywhere : IsStrictPrefix(q, Append(p, n)) => q = p \/ IsStrictPrefix(q, p)
    <3> DEFINE a == Append(p, n)
    <3>1. a \in Anywhere /\ a # <<>> /\ Front(a) = p
      BY AppendIs
    <3> HIDE DEF a
    <3>2. \A q \in Anywhere : IsStrictPrefix(q, a) => IsPrefix(q, p)
      BY <3>1, FrontIs
    <3> QED
      BY <3>1, <3>2 DEF IsStrictPrefix, a
  <2>2. /\ one = Append(<<>>, Folder) /\ two = Append(one, Folder)
        /\ \A n : <<Folder, n>> = Append(one, n) /\ <<Folder, Folder, n>> = Append(two, n)
    OBVIOUS
  <2>3. <<>> \in Anywhere /\ one \in Anywhere /\ two \in Anywhere
    BY <1>3, GivenPaths
  <2> HIDE DEF one, two
  <2>4. \A q \in Anywhere : IsStrictPrefix(q, one) => q = <<>>
    BY <1>1, <2>1, <2>2, <2>3, StrictOrder
  <2>5. \A q \in Anywhere : IsStrictPrefix(q, two) => q \in {<<>>, one}
    BY <1>1, <2>1, <2>2, <2>3, <2>4
  <2>6. \A f \in files : \E n \in Words : f = Append(one, n) \/ f = Append(two, n)
    BY <1>1, <2>2
  <2> HIDE DEF files
  <2>7. \A q \in Anywhere, f \in files : IsStrictPrefix(q, f) => q \in {<<>>, one, two}
    <3> SUFFICES ASSUME NEW q \in Anywhere, NEW f \in files, IsStrictPrefix(q, f)
                 PROVE  q \in {<<>>, one, two}
      OBVIOUS
    <3>1. PICK n \in Words : f = Append(one, n) \/ f = Append(two, n)
      BY <2>6
    <3>2. q = one \/ q = two \/ IsStrictPrefix(q, one) \/ IsStrictPrefix(q, two)
      BY <2>1, <2>3, <3>1
    <3> QED
      BY <2>4, <2>5, <3>2
  <2> QED
    BY <2>4, <2>5, <2>7
<1>5. /\ DOMAIN tree = files \cup {<<>>, one, two}
      /\ \A p \in DOMAIN tree : p \notin files => tree[p] = Dir
  BY DEF Seed
<1> HIDE DEF files, one, two, tree
<1>6. IsFiniteSet(DOMAIN tree)
  <2>1. IsFiniteSet({<<>>, one, two})
    <3>1. IsFiniteSet({<<>>}) /\ IsFiniteSet({one}) /\ IsFiniteSet({two})
      BY FS_Singleton
    <3>2. IsFiniteSet({<<>>} \cup {one})
      BY <3>1, FS_Union
    <3>3. IsFiniteSet(({<<>>} \cup {one}) \cup {two})
      BY <3>1, <3>2, FS_Union
    <3>4. ({<<>>} \cup {one}) \cup {two} = {<<>>, one, two}
      OBVIOUS
    <3> QED
      BY <3>3, <3>4
  <2> QED
    BY <1>2, <1>5, <2>1, FS_Union
<1>7. GoodTree(tree) /\ Script \notin DOMAIN tree
  BY <1>3, <1>5, <1>6, GivenPaths DEF GoodTree, Given
<1>8. Whole(tree)
  <2>1. IsDir(tree, <<>>) /\ IsDir(tree, one) /\ IsDir(tree, two)
    BY <1>3, <1>5 DEF IsDir
  <2> QED
    BY <1>4, <1>5, <2>1, StrictOrder DEF Whole, OnDirs
<1> QED
  BY <1>7, <1>8 DEF tree

-----------------------------------------------------------------------------
(* The walk: that a definition by recursion computes what the reference says *)
(* takes an induction over the levels that are left, here as a least number. *)

LEMMA Least ==
  ASSUME NEW S \in SUBSET Nat, S # {}
  PROVE  \E n \in S : \A m \in S : n <= m
<1>1. PICK n \in S : \A m \in S : <<m, n>> \notin OpToRel(<, Nat)
  BY WFMin, NatLessThanWellFounded, Zenon
<1>2. \A m \in S : ~(m < n)
  BY <1>1, Zenon DEF OpToRel
<1> QED
  BY <1>2

\* The directories at and below dir, down to a length.
Reach(tree, dir, length) ==
  {dir} \cup {q \in DOMAIN tree : IsDir(tree, q) /\ IsStrictPrefix(dir, q) /\ Len(q) <= length}

SubDirs(tree, dir) == {q \in DOMAIN tree : IsDir(tree, q) /\ q # <<>> /\ Front(q) = dir}

LEMMA ReachSteps ==
  ASSUME NEW tree, GoodTree(tree), Whole(tree), NEW dir \in DOMAIN tree, NEW length \in Nat
  PROVE  /\ Len(dir) \in Nat
         /\ \A q \in SubDirs(tree, dir) : q \in DOMAIN tree /\ Len(q) = Len(dir) + 1
         /\ Len(dir) < length =>
              Reach(tree, dir, length) =
                {dir} \cup UNION {Reach(tree, q, length) : q \in SubDirs(tree, dir)}
         /\ Len(dir) >= length => Reach(tree, dir, length) = {dir}
<1>1. DOMAIN tree \subseteq Anywhere /\ \A p \in Anywhere : Len(p) \in Nat
  BY GoodPaths, LenProperties DEF Anywhere
<1>2. ASSUME NEW q \in SubDirs(tree, dir)
      PROVE  q \in DOMAIN tree /\ IsDir(tree, q) /\ Len(q) = Len(dir) + 1 /\ IsStrictPrefix(dir, q)
  BY <1>1, FrontIs DEF SubDirs
<1>3. ASSUME Len(dir) < length, NEW x \in Reach(tree, dir, length), x # dir
      PROVE  \E q \in SubDirs(tree, dir) : x \in Reach(tree, q, length)
  <2>1. x \in DOMAIN tree /\ IsDir(tree, x) /\ IsStrictPrefix(dir, x) /\ Len(x) <= length
    BY <1>3 DEF Reach
  <2> DEFINE n == Len(dir) + 1
             q == SubSeq(x, 1, n)
  <2>2. x \in Anywhere /\ Len(dir) < Len(x) /\ n \in 0..Len(x) /\ n \in 1..Len(x)
    BY <1>1, <2>1, PrefixOrder
  <2>3. q \in Anywhere /\ Len(q) = n /\ IsPrefix(q, x)
    BY <2>2, UpTo
  <2> HIDE DEF q
  <2>4. IsDir(tree, q)
    BY <2>1, <2>3 DEF Whole, OnDirs, IsStrictPrefix
  <2>5. q # <<>> /\ IsPrefix(dir, Front(q))
    <3>1. q # <<>>
      BY <1>1, <2>3, EmptySeq DEF Anywhere
    <3>2. IsPrefix(dir, q)
      BY <1>1, <2>1, <2>3, PrefixOrder DEF IsStrictPrefix
    <3>3. dir # q
      BY <1>1, <2>3
    <3> QED
      BY <1>1, <2>3, <3>1, <3>2, <3>3, FrontIs DEF IsStrictPrefix
  <2>6. Front(q) = dir
    <3>1. Front(q) \in Anywhere /\ Len(Front(q)) = Len(dir)
      BY <1>1, <2>3, <2>5, FrontIs
    <3> QED
      BY <1>1, <2>5, <3>1, PrefixOrder
  <2>7. q \in SubDirs(tree, dir)
    BY <2>4, <2>5, <2>6 DEF SubDirs, IsDir
  <2>8. x \in Reach(tree, q, length)
    BY <2>1, <2>3 DEF Reach, IsStrictPrefix
  <2> QED
    BY <2>7, <2>8
<1>4. ASSUME Len(dir) < length, NEW q \in SubDirs(tree, dir), NEW x \in Reach(tree, q, length)
      PROVE  x \in Reach(tree, dir, length)
  <2>1. q \in DOMAIN tree /\ IsDir(tree, q) /\ Len(q) <= length /\ IsStrictPrefix(dir, q)
    BY <1>1, <1>2, <1>4
  <2>2. CASE x = q
    BY <2>1, <2>2 DEF Reach
  <2>3. CASE x # q
    <3>1. x \in DOMAIN tree /\ IsDir(tree, x) /\ IsStrictPrefix(q, x) /\ Len(x) <= length
      BY <1>4, <2>3 DEF Reach
    <3>2. IsStrictPrefix(dir, x)
      BY <1>1, <2>1, <3>1, StrictOrder DEF IsStrictPrefix
    <3> QED
      BY <3>1, <3>2 DEF Reach
  <2> QED
    BY <2>2, <2>3
<1>5. ASSUME Len(dir) < length
      PROVE  Reach(tree, dir, length) =
               {dir} \cup UNION {Reach(tree, q, length) : q \in SubDirs(tree, dir)}
  <2> DEFINE below == UNION {Reach(tree, q, length) : q \in SubDirs(tree, dir)}
  <2>1. \A x : x \in below <=> \E q \in SubDirs(tree, dir) : x \in Reach(tree, q, length)
    BY Zenon
  <2> HIDE DEF below
  <2>2. dir \in Reach(tree, dir, length)
    BY DEF Reach
  <2>3. \A x : x \in Reach(tree, dir, length) <=> x = dir \/ x \in below
    BY <1>3, <1>4, <1>5, <2>1, <2>2
  <2>4. Reach(tree, dir, length) = {dir} \cup below
    BY <2>3
  <2> QED
    BY <2>4 DEF below
<1>6. ASSUME Len(dir) >= length
      PROVE  Reach(tree, dir, length) = {dir}
  <2>1. \A q \in DOMAIN tree : ~(IsStrictPrefix(dir, q) /\ Len(q) <= length)
    BY <1>1, <1>6, PrefixOrder
  <2> QED
    BY <2>1 DEF Reach
<1> QED
  BY <1>1, <1>2, <1>5, <1>6

LEMMA WalkReaches ==
  ASSUME NEW tree, GoodTree(tree), Whole(tree), NEW root, IsDir(tree, root), NEW limit \in Nat
  PROVE  Walked(tree, root, limit) = Reach(tree, root, Len(root) + limit)
<1>1. root \in DOMAIN tree /\ Len(root) \in Nat /\ Len(root) + limit \in Nat
      /\ \A dir \in DOMAIN tree : Len(dir) \in Nat
  BY ReachSteps, GoodPaths, LenProperties DEF IsDir, Anywhere
<1> DEFINE length == Len(root) + limit
           Once(f) == [dir \in DOMAIN tree |->
                         {dir} \cup IF Descends(Len(dir) - Len(root), limit)
                                    THEN UNION {f[q] : q \in SubDirs(tree, dir)} ELSE {}]
           reach   == [dir \in DOMAIN tree |-> Reach(tree, dir, length)]
<1>2. \A dir \in DOMAIN tree : Descends(Len(dir) - Len(root), limit) <=> Len(dir) < length
  BY <1>1 DEF Descends
<1>3. length \in Nat
  BY <1>1
<1> HIDE DEF length
<1>4. \A dir \in DOMAIN tree :
        /\ Len(dir) < length =>
             Reach(tree, dir, length) =
               {dir} \cup UNION {Reach(tree, q, length) : q \in SubDirs(tree, dir)}
        /\ Len(dir) >= length => Reach(tree, dir, length) = {dir}
        /\ \A q \in SubDirs(tree, dir) : q \in DOMAIN tree /\ Len(q) = Len(dir) + 1
  BY <1>3, ReachSteps
<1>5. ASSUME NEW f, NEW dir \in DOMAIN tree,
             \A q \in SubDirs(tree, dir) : Len(dir) < length => f[q] = Reach(tree, q, length)
      PROVE  Once(f)[dir] = Reach(tree, dir, length)
  <2>1. CASE Len(dir) < length
    <3>1. {f[q] : q \in SubDirs(tree, dir)} = {Reach(tree, q, length) : q \in SubDirs(tree, dir)}
      BY <1>5, <2>1, Zenon
    <3>2. Once(f)[dir] = {dir} \cup UNION {f[q] : q \in SubDirs(tree, dir)}
      BY <1>2, <2>1, Zenon
    <3> QED
      BY <1>4, <2>1, <3>1, <3>2, Zenon
  <2>2. CASE ~(Len(dir) < length)
    <3>1. Once(f)[dir] = {dir}
      BY <1>2, <2>2
    <3> QED
      BY <1>1, <1>3, <1>4, <2>2, <3>1
  <2> QED
    BY <2>1, <2>2
<1>6. \A f : Once(f) = [dir \in DOMAIN tree |-> Once(f)[dir]]
  BY Zenon
<1> HIDE DEF Once
<1>7. Once(reach) = reach
  <2>1. \A dir \in DOMAIN tree : \A q \in SubDirs(tree, dir) : reach[q] = Reach(tree, q, length)
    BY <1>4
  <2> HIDE DEF reach
  <2>2. \A dir \in DOMAIN tree : Once(reach)[dir] = Reach(tree, dir, length)
    BY <1>5, <2>1, Zenon
  <2>3. Once(reach) = [dir \in DOMAIN tree |-> Once(reach)[dir]]
    BY <1>6
  <2> QED
    BY <2>2, <2>3, Zenon DEF reach
<1>8. ASSUME NEW f, f = Once(f)
      PROVE  f = reach
  <2>1. f = [dir \in DOMAIN tree |-> f[dir]]
    BY <1>8, <1>6, Zenon
  <2> DEFINE left == {n \in Nat : \E dir \in DOMAIN tree :
                        f[dir] # Reach(tree, dir, length) /\ Len(dir) + n = length}
  <2>2. left = {}
    <3> SUFFICES ASSUME left # {}
                 PROVE  FALSE
      OBVIOUS
    <3>1. PICK n \in left : \A m \in left : n <= m
      BY Least
    <3>2. PICK dir \in DOMAIN tree : f[dir] # Reach(tree, dir, length) /\ Len(dir) + n = length
      BY <3>1
    <3>3. PICK q \in SubDirs(tree, dir) : Len(dir) < length /\ f[q] # Reach(tree, q, length)
      BY <1>5, <1>8, <3>2, Zenon
    <3>4. q \in DOMAIN tree /\ Len(q) = Len(dir) + 1
      BY <1>4
    <3>5. n - 1 \in left
      BY <1>1, <1>3, <3>2, <3>3, <3>4
    <3> QED
      BY <1>1, <3>1, <3>5
  <2>3. ASSUME NEW dir \in DOMAIN tree
        PROVE  f[dir] = Reach(tree, dir, length)
    <3>1. CASE Len(dir) <= length
      <4>1. length - Len(dir) \in Nat /\ Len(dir) + (length - Len(dir)) = length
        BY <1>1, <1>3, <3>1
      <4> QED
        BY <2>2, <4>1
    <3>2. CASE ~(Len(dir) <= length)
      <4>1. ~(Len(dir) < length)
        BY <1>1, <1>3, <3>2
      <4> QED
        BY <1>5, <1>8, <4>1, Zenon
    <3> QED
      BY <3>1, <3>2
  <2> QED
    BY <2>1, <2>3, Zenon
<1> DEFINE walk[dir \in DOMAIN tree] ==
        {dir} \cup IF Descends(Len(dir) - Len(root), limit)
                   THEN UNION {walk[q] : q \in SubDirs(tree, dir)} ELSE {}
<1>9. walk = reach
  <2>1. \A f : f = Once(f) <=> f = reach
    BY <1>7, <1>8
  <2> HIDE DEF reach
  <2> QED
    BY <2>1, Zenon DEF Once
<1>10. Walked(tree, root, limit) = walk[root]
  BY Zenon DEF Walked, SubDirs
<1> QED
  BY <1>1, <1>9, <1>10, Zenon DEF length

\* What is selected is what the reference wants.
LEMMA FilesWalked ==
  ASSUME NEW tree, GoodTree(tree), Whole(tree), Script \notin DOMAIN tree,
         NEW root \in Paths, NEW limit \in Nat, NEW names
  PROVE  WalkedFiles(tree, root, limit, names) =
           {p \in DOMAIN tree : /\ IsFile(tree, p) /\ IsDir(tree, root) /\ IsStrictPrefix(root, p)
                                /\ Len(p) <= Len(root) + 1 + limit /\ Last(p) \in names}
<1>1. /\ DOMAIN tree \subseteq Anywhere /\ root \in Anywhere /\ Len(root) \in Nat
      /\ \A p \in DOMAIN tree : Len(p) \in Nat
  BY GoodPaths, GivenPaths, LenProperties DEF Anywhere
<1>2. CASE ~IsDir(tree, root)
  BY <1>2 DEF WalkedFiles, Walked
<1>3. CASE IsDir(tree, root)
  <2> DEFINE walked == Walked(tree, root, limit)
  <2>1. walked = Reach(tree, root, Len(root) + limit)
    BY <1>3, WalkReaches
  <2> HIDE DEF walked
  <2>2. ASSUME NEW p \in DOMAIN tree, IsFile(tree, p)
        PROVE  /\ p # <<>>
               /\ Front(p) \in walked <=>
                    IsStrictPrefix(root, p) /\ Len(p) <= Len(root) + 1 + limit
    <3>1. p # <<>>
      BY <2>2 DEF GoodTree, IsFile
    <3>2. /\ Front(p) \in Anywhere /\ IsStrictPrefix(Front(p), p) /\ Len(Front(p)) = Len(p) - 1
          /\ IsStrictPrefix(root, p) <=> IsPrefix(root, Front(p))
      BY <1>1, <3>1, FrontIs
    <3>3. IsDir(tree, Front(p))
      BY <3>2 DEF Whole, OnDirs
    <3>4. CASE Front(p) = root
      <4>1. Front(p) \in walked
        BY <2>1, <3>4 DEF Reach
      <4>2. IsPrefix(root, Front(p))
        BY <1>1, <3>4, PrefixOrder
      <4>3. Len(p) <= Len(root) + 1 + limit
        BY <1>1, <3>2, <3>4
      <4> QED
        BY <3>1, <3>2, <4>1, <4>2, <4>3
    <3>5. CASE Front(p) # root
      <4>1. Front(p) \in walked <=>
              IsStrictPrefix(root, Front(p)) /\ Len(Front(p)) <= Len(root) + limit
        BY <2>1, <3>3, <3>5 DEF Reach, IsDir
      <4>2. Len(Front(p)) <= Len(root) + limit <=> Len(p) <= Len(root) + 1 + limit
        BY <1>1, <3>2
      <4>3. IsStrictPrefix(root, Front(p)) <=> IsStrictPrefix(root, p)
        BY <3>2, <3>5 DEF IsStrictPrefix
      <4> QED
        BY <3>1, <4>1, <4>2, <4>3
    <3> QED
      BY <3>4, <3>5
  <2>3. WalkedFiles(tree, root, limit, names) =
          {p \in DOMAIN tree \ {<<>>} : IsFile(tree, p) /\ Front(p) \in walked /\ Last(p) \in names}
    BY DEF WalkedFiles, walked
  <2> QED
    BY <1>3, <2>2, <2>3
<1> QED
  BY <1>2, <1>3

\* walk_dir and _walk_local_dir: over a tree of any depth the walk finds exactly
\* the files that match by their names and depth, for every choice of files.
THEOREM SelectedIsWanted ==
  ASSUME NEW tree, GoodTree(tree), Whole(tree), Script \notin DOMAIN tree,
         NEW spec \in Specs, ~SelectRaises(tree, spec)
  PROVE  Selected(tree, spec) = Wanted(tree, spec)
<1>1. /\ spec.at \in Paths /\ spec.glob \in BOOLEAN /\ spec.recursive \in BOOLEAN
      /\ Limit(spec) \in Nat
      /\ Limit(spec) = IF spec.recursive THEN spec.depth ELSE 0
  BY PlacesAssumption DEF Paths, Limit
<1>2. \A names : WalkedFiles(tree, spec.at, Limit(spec), names) =
        {p \in DOMAIN tree :
           /\ IsFile(tree, p) /\ IsDir(tree, spec.at) /\ IsStrictPrefix(spec.at, p)
           /\ Len(p) <= Len(spec.at) + 1 + Limit(spec) /\ Last(p) \in names}
  BY <1>1, FilesWalked
<1>3. Wanted(tree, spec) =
        {p \in DOMAIN tree :
           /\ IsFile(tree, p)
           /\ \/ ~spec.glob /\ p = spec.at
              \/ /\ IsDir(tree, spec.at) /\ IsStrictPrefix(spec.at, p)
                 /\ Len(p) <= Len(spec.at) + 1 + Limit(spec)
                 /\ spec.glob => Last(p) \in Matching}
  BY <1>1 DEF Wanted, Last
<1>4. CASE spec.glob
  <2>1. Selected(tree, spec) = WalkedFiles(tree, spec.at, Limit(spec), Matching)
    BY <1>4 DEF Selected
  <2> QED
    BY <1>1, <1>2, <1>3, <1>4, <2>1
<1>5. CASE ~spec.glob /\ IsFile(tree, spec.at)
  <2>1. Selected(tree, spec) = {spec.at} /\ ~IsDir(tree, spec.at)
    BY <1>5 DEF Selected, IsFile, IsDir
  <2> QED
    BY <1>3, <1>5, <2>1 DEF IsFile
<1>6. CASE ~spec.glob /\ ~IsFile(tree, spec.at)
  <2>1. Selected(tree, spec) = WalkedFiles(tree, spec.at, Limit(spec), FileNames)
    BY <1>6 DEF Selected
  <2>2. ASSUME NEW p \in DOMAIN tree, IsFile(tree, p)
        PROVE  Last(p) \in FileNames
    <3>1. p \in Paths /\ p # <<>>
      BY <2>2 DEF GoodTree, IsFile
    <3> QED
      BY <3>1, EmptySeq, ElementOfSeq DEF Paths, Last
  <2> QED
    BY <1>2, <1>3, <1>6, <2>1, <2>2
<1> QED
  BY <1>1, <1>4, <1>5, <1>6

\* What is selected is there, begins with the root of its places, and no file
\* is a directory for another.
LEMMA SelectedApart ==
  ASSUME NEW tree, GoodTree(tree), Whole(tree), Script \notin DOMAIN tree,
         NEW spec \in Specs, ~SelectRaises(tree, spec), NEW f \in Selected(tree, spec)
  PROVE  /\ f \in Given /\ IsFile(tree, f)
         /\ spec.glob => IsPrefix(spec.at, f)
         /\ Front(spec.at) \in Paths /\ IsPrefix(Front(spec.at), f)
         /\ IsDir(tree, spec.at) => IsPrefix(spec.at, f)
         /\ \A g \in Selected(tree, spec) : ~IsStrictPrefix(f, g)
<1>1. spec.at \in Paths /\ spec.at \in Anywhere /\ DOMAIN tree \subseteq Anywhere
  BY PlacesAssumption, GivenPaths, GoodPaths DEF Paths
<1>2. \A g \in Selected(tree, spec) :
        /\ g \in DOMAIN tree /\ IsFile(tree, g)
        /\ (~spec.glob /\ g = spec.at) \/ (IsDir(tree, spec.at) /\ IsStrictPrefix(spec.at, g))
  BY SelectedIsWanted DEF Wanted
<1>3. f \in Given /\ f \in Anywhere
  BY <1>1, <1>2 DEF GoodTree, IsFile, Given
<1>4. IsPrefix(spec.at, f)
  BY <1>1, <1>2, <1>3, PrefixOrder DEF IsStrictPrefix
<1>5. Front(spec.at) \in Paths /\ IsPrefix(Front(spec.at), f)
  <2>1. CASE spec.at = <<>>
    <3>1. Len(spec.at) = 0
      BY <2>1
    <3>2. Front(spec.at) = <<>>
      BY <3>1, SubSeqEmpty DEF Front
    <3> QED
      BY <1>3, <3>2, PrefixOrder, GivenPaths
  <2>2. CASE spec.at # <<>>
    BY <1>1, <1>3, <1>4, <2>2, FrontIs, PrefixOrder DEF IsStrictPrefix
  <2> QED
    BY <2>1, <2>2
<1>6. \A g \in Selected(tree, spec) : ~IsStrictPrefix(f, g)
  BY <1>1, <1>2 DEF Whole, OnDirs, IsDir, IsFile
<1> QED
  BY <1>2, <1>3, <1>4, <1>5, <1>6

-----------------------------------------------------------------------------
(* Transfers *)

\* What is selected are files that are there, from a torn tree too.
LEMMA SelectedThere ==
  ASSUME NEW tree, GoodTree(tree), Script \notin DOMAIN tree, NEW spec
  PROVE  /\ IsFiniteSet(Selected(tree, spec))
         /\ \A f \in Selected(tree, spec) : f \in Given /\ IsFile(tree, f)
<1>1. \A f \in Selected(tree, spec) : IsFile(tree, f)
  BY DEF Selected, WalkedFiles
<1>2. \A f \in Selected(tree, spec) : f \in DOMAIN tree /\ f \in Given
  BY <1>1 DEF IsFile, GoodTree, Given
<1>3. Selected(tree, spec) \subseteq DOMAIN tree
  BY <1>2
<1>4. IsFiniteSet(Selected(tree, spec))
  BY <1>3, FS_Subset DEF GoodTree
<1> QED
  BY <1>1, <1>2, <1>4

LEMMA PickedSome ==
  ASSUME NEW all, IsFiniteSet(all), NEW one \in BOOLEAN, NEW files \in Picked(all, one)
  PROVE  /\ files \subseteq all /\ IsFiniteSet(files)
         /\ ~one => files = all
<1>1. files \subseteq all /\ (~one => files = all)
  BY DEF Picked
<1> QED
  BY <1>1, FS_Subset

\* Two files are more than one.
LEMMA OnlyOne ==
  ASSUME NEW files, IsFiniteSet(files), ~(Cardinality(files) > 1), NEW f \in files, NEW g \in files
  PROVE  f = g
<1>1. Cardinality(files) \in Nat /\ Cardinality(files) # 0
  BY FS_CardinalityType, FS_EmptySet
<1>2. Cardinality(files) = 1
  BY <1>1
<1>3. \E x : files = {x}
  BY <1>2, FS_Singleton
<1> QED
  BY <1>3

LEMMA GetPlaces ==
  ASSUME NEW spec \in Specs, NEW files, NEW into \in Given, NEW f \in Given
  PROVE  /\ GetPlace(spec, files, into, f) \in Given
         /\ IsPrefix(into, GetPlace(spec, files, into, f))
<1>1. spec.at \in Paths /\ spec.at \in Anywhere /\ into \in Anywhere /\ f \in Paths /\ f \in Anywhere
  BY PlacesAssumption, GivenPaths DEF Paths, Given
<1>2. GetRoot(spec) \in Anywhere
  <2>1. Front(spec.at) \in Anywhere
    <3>1. CASE spec.at = <<>>
      <4>1. Len(spec.at) = 0
        BY <3>1
      <4>2. Front(spec.at) = <<>>
        BY <4>1, SubSeqEmpty DEF Front
      <4> QED
        BY <4>2, PrefixOrder
    <3>2. CASE spec.at # <<>>
      BY <1>1, <3>2, FrontIs
    <3> QED
      BY <3>1, <3>2
  <2> QED
    BY <1>1, <2>1 DEF GetRoot
<1>3. Relative(GetRoot(spec), f) \in Anywhere /\ Relative(GetRoot(spec), f) \in Paths
  BY <1>1, <1>2, Relatives
<1>4. /\ into \o Relative(GetRoot(spec), f) \in Given
      /\ IsPrefix(into, into \o Relative(GetRoot(spec), f))
  BY <1>1, <1>3, ConcatIs
<1> QED
  BY <1>1, <1>4, PrefixOrder DEF GetPlace

LEMMA GetApart ==
  ASSUME NEW tree, GoodTree(tree), Whole(tree), Script \notin DOMAIN tree,
         NEW spec \in Specs, ~SelectRaises(tree, spec), NEW into \in Given,
         NEW files, files \subseteq Selected(tree, spec), IsFiniteSet(files),
         NEW f \in files, NEW g \in files
  PROVE  LET Place(x) == GetPlace(spec, files, into, x) IN
         (Place(f) = Place(g) => f = g) /\ ~IsStrictPrefix(Place(f), Place(g))
<1> DEFINE root == GetRoot(spec)
<1>1. /\ f \in Anywhere /\ g \in Anywhere /\ into \in Anywhere /\ root \in Anywhere
      /\ IsPrefix(root, f) /\ IsPrefix(root, g) /\ ~IsStrictPrefix(f, g)
  <2>1. spec.at \in Anywhere /\ spec.glob \in BOOLEAN
    BY PlacesAssumption, GivenPaths DEF Paths
  <2> QED
    BY <2>1, SelectedApart, GivenPaths DEF GetRoot
<1>2. CASE GetMany(spec, files)
  <2>1. /\ GetPlace(spec, files, into, f) = into \o Relative(root, f)
        /\ GetPlace(spec, files, into, g) = into \o Relative(root, g)
    BY <1>2 DEF GetPlace
  <2> HIDE DEF root
  <2>2. /\ IsPrefix(into \o Relative(root, f), into \o Relative(root, g)) <=> IsPrefix(f, g)
        /\ into \o Relative(root, f) = into \o Relative(root, g) => f = g
    BY <1>1, Moved
  <2> QED
    BY <1>1, <2>1, <2>2 DEF IsStrictPrefix
<1>3. CASE ~GetMany(spec, files)
  <2>1. f = g
    BY <1>3, OnlyOne DEF GetMany
  <2> QED
    BY <2>1 DEF IsStrictPrefix
<1> QED
  BY <1>2, <1>3

LEMMA PutPlaces ==
  ASSUME NEW tree, GoodTree(tree), Whole(tree), Script \notin DOMAIN tree,
         NEW spec \in Specs, ~SelectRaises(tree, spec), NEW remote \in Given,
         NEW slash \in BOOLEAN, NEW f \in Selected(tree, spec), NEW g \in Selected(tree, spec)
  PROVE  LET Place(x) == PutPlace(tree, spec, Selected(tree, spec), remote, slash, x) IN
         /\ Place(f) \in Given
         /\ (Place(f) = Place(g) => f = g) /\ ~IsStrictPrefix(Place(f), Place(g))
<1> DEFINE root  == PutRoot(tree, spec)
           files == Selected(tree, spec)
<1>1. /\ f \in Anywhere /\ g \in Anywhere /\ remote \in Anywhere /\ root \in Anywhere /\ f \in Paths
      /\ IsPrefix(root, f) /\ IsPrefix(root, g) /\ ~IsStrictPrefix(f, g)
  <2>1. spec.at \in Anywhere /\ spec.glob \in BOOLEAN
    BY PlacesAssumption, GivenPaths DEF Paths
  <2> QED
    BY <2>1, SelectedApart, GivenPaths DEF PutRoot
<1> HIDE DEF root
<1>2. CASE Cardinality(files) = 1 /\ ~slash
  <2>1. IsFiniteSet(files)
    BY SelectedThere
  <2>2. f = g
    BY <1>2, <2>1, OnlyOne
  <2>3. PutPlace(tree, spec, files, remote, slash, f) = remote
    BY <1>2 DEF PutPlace
  <2> QED
    BY <2>2, <2>3 DEF IsStrictPrefix
<1>3. CASE ~(Cardinality(files) = 1 /\ ~slash)
  <2>1. /\ PutPlace(tree, spec, files, remote, slash, f) = remote \o Relative(root, f)
        /\ PutPlace(tree, spec, files, remote, slash, g) = remote \o Relative(root, g)
    BY <1>3 DEF PutPlace, root
  <2>2. Relative(root, f) \in Anywhere /\ Relative(root, f) \in Paths
    BY <1>1, Relatives
  <2>3. remote \o Relative(root, f) \in Given
    BY <1>1, <2>2, ConcatIs
  <2>4. /\ IsPrefix(remote \o Relative(root, f), remote \o Relative(root, g)) <=> IsPrefix(f, g)
        /\ remote \o Relative(root, f) = remote \o Relative(root, g) => f = g
    BY <1>1, Moved
  <2> QED
    BY <1>1, <2>1, <2>3, <2>4 DEF IsStrictPrefix
<1> QED
  BY <1>2, <1>3

LEMMA Landings ==
  ASSUME NEW tree, NEW from \in Given, NEW to \in Given
  PROVE  LET place == Landing(tree, to, Last(from)) IN
         /\ place \in Given /\ place \in {to, Append(to, Last(from))}
         /\ Append(to, Last(from)) \in Given /\ Front(Append(to, Last(from))) = to
         /\ OnDirs(tree, to) => OnDirs(tree, place)
<1>1. Last(from) \in FileNames /\ Last(from) \in Words /\ to \in Paths /\ to \in Anywhere
  BY EmptySeq, ElementOfSeq, GivenPaths DEF Given, Paths, Last, Words
<1> DEFINE in == Append(to, Last(from))
<1>2. in \in Given /\ in \in Anywhere /\ in # <<>> /\ Front(in) = to
  BY <1>1, AppendIs
<1> HIDE DEF in
<1>3. ASSUME OnDirs(tree, to), IsDir(tree, to)
      PROVE  OnDirs(tree, in)
  BY <1>1, <1>2, <1>3, FrontIs DEF OnDirs, IsStrictPrefix
<1> QED
  BY <1>1, <1>2, <1>3 DEF Landing, in

\* Places none of which is below another are apart wherever SCP lands.
LEMMA LandingsApart ==
  ASSUME NEW from1 \in Given, NEW from2 \in Given, NEW to1 \in Given, NEW to2 \in Given,
         to1 # to2, ~IsStrictPrefix(to1, to2), ~IsStrictPrefix(to2, to1),
         NEW a \in {to1, Append(to1, Last(from1))}, NEW b \in {to2, Append(to2, Last(from2))}
  PROVE  a # b
<1>1. /\ to1 \in Anywhere /\ to2 \in Anywhere
      /\ Append(to1, Last(from1)) \in Given /\ Front(Append(to1, Last(from1))) = to1
      /\ Append(to2, Last(from2)) \in Given /\ Front(Append(to2, Last(from2))) = to2
  BY Landings, GivenPaths
<1>2. /\ IsStrictPrefix(to1, Append(to1, Last(from1)))
      /\ IsStrictPrefix(to2, Append(to2, Last(from2)))
  <2>1. \A p \in Given : p \in Anywhere /\ p # <<>>
    BY GivenPaths DEF Given
  <2>2. \A p \in Given : IsStrictPrefix(Front(p), p)
    BY <2>1, FrontIs
  <2> QED
    BY <1>1, <2>2
<1> QED
  BY <1>1, <1>2

LEMMA DirsStay ==
  ASSUME NEW tree, NEW p, ~IsDir(tree, p), NEW node
  PROVE  /\ \A q : IsDir(tree, q) => IsDir(With(tree, p, node), q)
         /\ \A q : OnDirs(tree, q) => OnDirs(With(tree, p, node), q)
<1>1. \A q : IsDir(tree, q) => IsDir(With(tree, p, node), q)
  BY DEF IsDir, With
<1> QED
  BY <1>1 DEF OnDirs

\* A whole tree has an entry for each name that a listing meets.
LEMMA NoneBreaks ==
  ASSUME NEW tree, GoodTree(tree), Whole(tree), NEW root, NEW limit \in Nat
  PROVE  ~ListingBreaks(tree, root, limit)
<1> SUFFICES ASSUME NEW dir \in Walked(tree, root, limit), NEW q \in Below(tree, dir)
             PROVE  SubSeq(q, 1, Len(dir) + 1) \in DOMAIN tree
  BY DEF ListingBreaks
<1>1. dir \in DOMAIN tree
  <2>1. IsDir(tree, root)
    BY DEF Walked
  <2> QED
    BY <2>1, WalkReaches DEF Reach, IsDir
<1>2. /\ dir \in Anywhere /\ q \in DOMAIN tree /\ q \in Anywhere /\ Len(dir) < Len(q)
      /\ Len(dir) \in Nat /\ Len(q) \in Nat
  BY <1>1, GoodPaths, PrefixOrder, LenProperties DEF Below, Anywhere
<1> DEFINE n == Len(dir) + 1
           r == SubSeq(q, 1, n)
<1>3. n \in 0..Len(q)
  BY <1>2
<1>4. r \in Anywhere /\ IsPrefix(r, q)
  BY <1>2, <1>3, UpTo
<1> HIDE DEF r
<1>5. r \in DOMAIN tree
  BY <1>2, <1>4 DEF Whole, OnDirs, IsDir, IsStrictPrefix
<1> QED
  BY <1>5 DEF r

-----------------------------------------------------------------------------
(* The invariant *)

\* Both sides are trees, the server's while the sim has not torn it.
TreesInv ==
  /\ GoodTree(fs) /\ GoodTree(local) /\ Script \notin DOMAIN local
  /\ Whole(local) /\ (~torn => Whole(fs))

CallInv ==
  /\ driver \in {"sim", "ssh"} /\ means \in {"sftp", "scp"} /\ lost \in BOOLEAN /\ torn \in BOOLEAN
  /\ torn => driver = "sim"
  /\ means = "scp" => driver = "ssh"
  /\ call \in Ended \cup {"get", "put", "run", "cleanup", "left"}
  /\ mappings # {} <=> call \in {"get", "put"}
  /\ calls \in 0..MaxFileCalls /\ others \in 0..MaxOthers

\* The script is not there while files are transferred.
ScriptInv ==
  /\ call \in {"get", "put"} => Script \notin DOMAIN fs
  /\ ScriptLeavesNoTrace

\* The directories of what is got are made before the first file comes.
MappingsInv ==
  /\ \A m \in mappings : m.from \in Given /\ m.to \in Given
  /\ call = "get" => \A m \in mappings : OnDirs(local, m.to)

Landed(tree, source, m) ==
  LET place == Landing(tree, m.to, Last(m.from)) IN
  m.from \in DOMAIN source /\ place \in DOMAIN tree /\ tree[place] = source[m.from]

\* No place of a transfer is, or is below, another, and what is through is
\* where it should be.
GoalInv ==
  /\ call # "crashed" /\ mappings \subseteq goal
  /\ \A m \in goal : m.from \in Given /\ m.to \in Given
  /\ \A m, n \in goal : (m.to = n.to => m = n) /\ ~IsStrictPrefix(m.to, n.to)
  /\ call \in {"get", "got"} =>
       \A m \in goal \ mappings : m.from \in touched \/ Landed(local, fs, m)
  /\ call \in {"put", "stored"} =>
       /\ \A m \in goal : IsFile(local, m.from)
       /\ \A m \in goal \ mappings : m.to \in touched \/ Landed(fs, local, m)

FilesInv == TreesInv /\ CallInv /\ ScriptInv /\ MappingsInv /\ (~torn => GoalInv)

LEMMA FilesInitial ==
  ASSUME FilesInit
  PROVE  FilesInv
<1>1. TreesInv
  BY SeedGood DEF FilesInit, TreesInv
<1>2. CallInv
  <2>1. calls \in 0..MaxFileCalls /\ others \in 0..MaxOthers
    BY PlacesAssumption DEF FilesInit
  <2> QED
    BY <2>1, Zenon DEF FilesInit, CallInv, Ended
<1>3. MappingsInv /\ GoalInv
  BY DEF FilesInit, MappingsInv, GoalInv
<1>4. ScriptInv
  BY SeedGood DEF FilesInit, ScriptInv, ScriptLeavesNoTrace, Ended
<1> QED
  BY <1>1, <1>2, <1>3, <1>4 DEF FilesInv

LEMMA FilesStutter ==
  ASSUME FilesInv, UNCHANGED fileVars
  PROVE  FilesInv'
BY DEF FilesInv, TreesInv, CallInv, ScriptInv, ScriptLeavesNoTrace, MappingsInv, GoalInv,
       Landed, Landing, fileVars

\* A call begins where no script is.
LEMMA AtBegin ==
  ASSUME FilesInv, Begin
  PROVE  /\ Script \notin DOMAIN fs /\ calls' \in 0..MaxFileCalls /\ touched' = {}
         /\ ~lost /\ call \in Ended
BY PlacesAssumption DEF FilesInv, CallInv, ScriptInv, ScriptLeavesNoTrace, Begin, MayBegin

\* A call that has failed, or does not transfer, has nothing more to land.
LEMMA NothingLeft ==
  ASSUME mappings' = {}, goal' = {}, call' # "crashed"
  PROVE  MappingsInv' /\ GoalInv'
BY DEF MappingsInv, GoalInv

-----------------------------------------------------------------------------
(* The steps *)

\* What the listings show of a tree is a tree, and where they start is in it.
LEMMA ListedTree ==
  ASSUME NEW tree, GoodTree(tree), Script \notin DOMAIN tree, NEW at \in Paths,
         NEW refused \in SUBSET {d \in DOMAIN tree : IsPrefix(at, d)}
  PROVE  LET seen == Listed(tree, refused) IN
         /\ GoodTree(seen) /\ Script \notin DOMAIN seen
         /\ Whole(tree) => Whole(seen)
         /\ at \in DOMAIN tree <=> at \in DOMAIN seen
         /\ IsDir(tree, at) <=> IsDir(seen, at)
<1> DEFINE seen == Listed(tree, refused)
<1>1. /\ \A p : p \in DOMAIN seen <=> p \in DOMAIN tree /\ \A d \in refused : ~IsStrictPrefix(d, p)
      /\ \A p \in DOMAIN seen : seen[p] = tree[p]
  BY DEF Listed
<1> HIDE DEF seen
<1>2. at \in Anywhere /\ DOMAIN tree \subseteq Anywhere /\ refused \subseteq Anywhere
  BY GivenPaths, GoodPaths
<1>3. GoodTree(seen) /\ Script \notin DOMAIN seen
  <2>1. IsFiniteSet(DOMAIN seen)
    BY <1>1, FS_Subset DEF GoodTree
  <2>2. <<>> \in DOMAIN seen
    BY <1>1, <1>2, StrictOrder DEF GoodTree
  <2> QED
    BY <1>1, <2>1, <2>2 DEF GoodTree
<1>4. ASSUME Whole(tree), NEW p \in DOMAIN seen, NEW q \in Anywhere, IsStrictPrefix(q, p)
      PROVE  IsDir(seen, q)
  <2>1. IsDir(tree, q) /\ p \in Anywhere
    BY <1>1, <1>2, <1>4 DEF Whole, OnDirs
  <2>2. \A d \in refused : ~IsStrictPrefix(d, q)
    BY <1>1, <1>2, <1>4, <2>1, StrictOrder DEF IsStrictPrefix
  <2> QED
    BY <1>1, <2>1, <2>2 DEF IsDir
<1>5. \A d \in refused : ~IsStrictPrefix(d, at)
  BY <1>2, PrefixOrder DEF IsStrictPrefix
<1>6. (at \in DOMAIN tree <=> at \in DOMAIN seen) /\ (IsDir(tree, at) <=> IsDir(seen, at))
  BY <1>1, <1>5 DEF IsDir
<1> QED
  BY <1>3, <1>4, <1>6 DEF seen, Whole, OnDirs

LEMMA GetStarts ==
  ASSUME FilesInv, NEW by \in Means, NEW spec \in Specs, NEW one \in BOOLEAN, NEW into \in Places,
         NEW slash \in BOOLEAN, SftpGet(by, spec, one, into, slash)
  PROVE  FilesInv'
<1>1. /\ Begin /\ UNCHANGED <<driver, fs, torn, others>> /\ means' = by
      /\ Script \notin DOMAIN fs /\ calls' \in 0..MaxFileCalls
      /\ into \in Given /\ into \in Anywhere /\ Above(into) \subseteq Given
      /\ IsFiniteSet(Above(into)) /\ TreesInv /\ CallInv /\ lost' \in BOOLEAN
  <2>1. lost' \in BOOLEAN
    BY DEF SftpGet, FilesInv, CallInv
  <2> QED
    BY <2>1, AtBegin, GivenPaths, AboveIs, AboveFinite DEF SftpGet, FilesInv
<1>2. ASSUME call' \in {"raised", "crashed", "get", "got"}, mappings' # {} <=> call' = "get"
      PROVE  CallInv' /\ ScriptInv'
  BY <1>1, <1>2 DEF CallInv, ScriptInv, ScriptLeavesNoTrace, Ended, Means
<1>3. ASSUME GoodTree(local'), Script \notin DOMAIN local', Whole(local')
      PROVE  TreesInv'
  BY <1>1, <1>3 DEF TreesInv
<1>4. ASSUME NoTransfer("raised"), GoodTree(local'), Script \notin DOMAIN local', Whole(local')
      PROVE  FilesInv'
  BY <1>2, <1>3, <1>4, NothingLeft DEF NoTransfer, FilesInv
<1>5. CASE NoTransfer("raised") /\ UNCHANGED local
  BY <1>1, <1>4, <1>5 DEF TreesInv
<1>6. CASE /\ driver = "sim" /\ ListingBreaks(fs, spec.at, Limit(spec))
           /\ NoTransfer("crashed") /\ UNCHANGED local
  <2>1. torn
    BY <1>1, <1>6, NoneBreaks, PlacesAssumption DEF TreesInv, CallInv, Limit
  <2> QED
    BY <1>1, <1>2, <1>3, <1>6, <2>1 DEF NoTransfer, FilesInv, TreesInv, MappingsInv
<1>7. ASSUME ~SelectRaises(fs, spec), NEW seen \in Views(spec),
             MapGet(seen, spec, one, into, slash)
      PROVE  FilesInv'
  <2>0. /\ GoodTree(seen) /\ Script \notin DOMAIN seen /\ (Whole(fs) => Whole(seen))
        /\ ~SelectRaises(seen, spec)
    <3>1. CASE seen = fs
      BY <1>1, <1>7, <3>1 DEF TreesInv
    <3>2. CASE seen # fs
      <4>1. PICK refused \in SUBSET {d \in DOMAIN fs : IsPrefix(spec.at, d)} :
              seen = Listed(fs, refused)
        BY <3>2 DEF Views
      <4>2. spec.at \in Paths
        BY PlacesAssumption DEF Paths
      <4> QED
        BY <1>1, <1>7, <4>1, <4>2, ListedTree DEF TreesInv, SelectRaises
    <3> QED
      BY <3>1, <3>2
  <2> DEFINE Place(files, f) == GetPlace(spec, files, into, f)
             Dirs(files, done) == (UNION {Above(Place(files, f)) : f \in done}) \cup
                                    (IF files # {} /\ GetMany(spec, files) THEN {into} ELSE {})
             Mapped(files, fset) == {[from |-> f, to |-> Place(files, f)] : f \in fset}
             Goal(files) == IF one THEN files \cap Wanted(seen, spec) ELSE Wanted(seen, spec)
  <2>1. PICK files \in Picked(Selected(seen, spec), one) :
          \/ /\ NoTransfer("raised") /\ local' = EnsureParent(local, into)
          \/ /\ NoTransfer("raised")
             /\ \E done \in SUBSET files :
                  local' = MkDirs(local, Dirs(files, done) \cup Above(into))
          \/ /\ Transfer(Mapped(files, files), Mapped(files, Goal(files)), "get", "got")
             /\ local' = MkDirs(local, Dirs(files, files))
             /\ ~\E d \in Dirs(files, files) : IsFile(local, d)
    BY <1>7, Zenon DEF MapGet
  <2>2. /\ files \subseteq Selected(seen, spec) /\ IsFiniteSet(files)
        /\ \A f \in files : f \in Given
        /\ ~one => files = Selected(seen, spec)
    BY <2>0, SelectedThere, PickedSome
  <2>3. \A f \in files : Place(files, f) \in Given /\ IsPrefix(into, Place(files, f))
    BY <1>1, <2>2, GetPlaces
  <2>4. ASSUME NEW done \in SUBSET files
        PROVE  /\ Dirs(files, done) \subseteq Given /\ IsFiniteSet(Dirs(files, done))
               /\ \A d \in Dirs(files, done) : Above(d) \subseteq Dirs(files, done) \cup Above(into)
               /\ done = files => Above(into) \subseteq Dirs(files, files) \/ files = {}
    <3> DEFINE place == [f \in done |-> Place(files, f)]
               above == UNION {Above(place[f]) : f \in done}
               root  == IF files # {} /\ GetMany(spec, files) THEN {into} ELSE {}
    <3>1. /\ IsFiniteSet(done) /\ place \in [done -> Anywhere]
          /\ \A f \in done : /\ place[f] \in Given /\ place[f] \in Anywhere
                             /\ IsPrefix(into, place[f])
      BY <2>2, <2>3, FS_Subset, GivenPaths
    <3>2. Dirs(files, done) = above \cup root
      BY Zenon
    <3> HIDE DEF place, Dirs
    <3>3. /\ IsFiniteSet(above)
          /\ \A d : d \in above <=> \E f \in done : d \in Above(place[f])
      BY <3>1, AllAboveFinite
    <3> HIDE DEF above
    <3>4. IsFiniteSet(root) /\ root \subseteq {into}
      BY FS_EmptySet, FS_Singleton
    <3> HIDE DEF root
    <3>5. above \subseteq Given
      BY <3>1, <3>3, AboveIs DEF Given
    <3>6. \A d \in above : Above(d) \subseteq above
      <4> SUFFICES ASSUME NEW d \in above, NEW e \in Above(d)
                   PROVE  e \in above
        OBVIOUS
      <4>1. PICK f \in done : d \in Above(place[f])
        BY <3>3
      <4>2. e \in Above(place[f])
        BY <3>1, <4>1, AboveIs, StrictOrder DEF IsStrictPrefix
      <4> QED
        BY <3>3, <4>2
    <3>7. done # {} => Above(into) \subseteq above
      BY <1>1, <3>1, <3>3, AboveIs, StrictOrder
    <3>8. IsFiniteSet(above \cup root)
      BY <3>3, <3>4, FS_Union
    <3> QED
      BY <1>1, <3>2, <3>4, <3>5, <3>6, <3>7, <3>8
  <2> HIDE DEF Dirs
  <2>5. CASE NoTransfer("raised") /\ local' = EnsureParent(local, into)
    BY <1>1, <1>4, <2>5, ParentIs, GivenPaths DEF TreesInv
  <2>6. ASSUME NEW done \in SUBSET files, NoTransfer("raised"),
               local' = MkDirs(local, Dirs(files, done) \cup Above(into))
        PROVE  FilesInv'
    <3> DEFINE dirs == Dirs(files, done) \cup Above(into)
    <3>1. dirs \subseteq Given /\ IsFiniteSet(dirs)
      BY <1>1, <2>4, FS_Union
    <3>2. \A d \in dirs : Above(d) \subseteq dirs
      BY <1>1, <2>4, AboveIs, StrictOrder DEF IsStrictPrefix
    <3> HIDE DEF dirs
    <3>3. /\ GoodTree(MkDirs(local, dirs)) /\ Whole(MkDirs(local, dirs))
          /\ Script \notin DOMAIN MkDirs(local, dirs)
      BY <1>1, <3>1, <3>2, MkDirsGood, MkDirsWhole, GivenPaths DEF TreesInv
    <3> QED
      BY <1>4, <2>6, <3>3 DEF dirs
  <2>7. CASE /\ Transfer(Mapped(files, files), Mapped(files, Goal(files)), "get", "got")
             /\ local' = MkDirs(local, Dirs(files, files))
             /\ ~\E d \in Dirs(files, files) : IsFile(local, d)
    <3> DEFINE dirs == Dirs(files, files)
    <3>1. /\ dirs \subseteq Given /\ IsFiniteSet(dirs)
          /\ \A d \in dirs : Above(d) \subseteq dirs
      <4>1. CASE files # {}
        BY <2>4, <4>1
      <4>2. CASE files = {}
        <5>1. dirs = {}
          BY <4>2 DEF Dirs
        <5> QED
          BY <5>1, FS_EmptySet
      <4> QED
        BY <4>1, <4>2
    <3>2. \A f \in files : Above(Place(files, f)) \subseteq dirs
      BY DEF Dirs
    <3> HIDE DEF dirs
    <3>3. /\ GoodTree(local') /\ Whole(local') /\ Script \notin DOMAIN local'
          /\ \A d \in dirs : IsDir(local', d)
      <4>1. GoodTree(local') /\ Whole(local') /\ Script \notin DOMAIN local'
        BY <1>1, <2>7, <3>1, MkDirsGood, MkDirsWhole, GivenPaths DEF TreesInv, dirs
      <4>2. \A d \in dirs : ~Blocked(local, d) /\ ~IsFile(local, d)
        BY <2>7, <3>1 DEF Blocked, dirs
      <4>3. \A d \in dirs : IsDir(local', d)
        BY <2>7, <4>2, MkDirsIs DEF dirs
      <4> QED
        BY <4>1, <4>3
    <3>4. \A f \in files : OnDirs(local', Place(files, f))
      <4>1. IsDir(local', <<>>)
        BY <3>3 DEF GoodTree, IsDir
      <4> QED
        BY <2>3, <3>2, <3>3, <4>1, AboveIs, GivenPaths DEF OnDirs
    <3>5. /\ mappings' = Mapped(files, files) /\ goal' = Mapped(files, Goal(files))
          /\ call' \in {"get", "got"} /\ (mappings' # {} <=> call' = "get")
      BY <2>7 DEF Transfer
    <3>6. ASSUME NEW m \in Mapped(files, files)
          PROVE  \E f \in files : m.from = f /\ m.to = Place(files, f)
      <4>1. PICK f \in files : m = [from |-> f, to |-> Place(files, f)]
        OBVIOUS
      <4> HIDE DEF Place
      <4> QED
        BY <4>1
    <3>7. MappingsInv'
      BY <2>2, <2>3, <3>4, <3>5, <3>6 DEF MappingsInv
    <3>8. ASSUME ~torn'
          PROVE  GoalInv'
      <4>1. Whole(seen)
        BY <1>1, <2>0, <3>8 DEF TreesInv
      <4>2. Goal(files) = files
        <5>1. Selected(seen, spec) = Wanted(seen, spec)
          BY <2>0, <4>1, SelectedIsWanted
        <5> QED
          BY <2>2, <5>1
      <4>3. goal' = mappings' /\ goal' = Mapped(files, files)
        BY <3>5, <4>2
      <4>4. \A f, g \in files :
              /\ Place(files, f) = Place(files, g) => f = g
              /\ ~IsStrictPrefix(Place(files, f), Place(files, g))
        BY <1>1, <2>0, <2>2, <4>1, GetApart
      <4>5. \A m \in goal' : m.from \in Given /\ m.to \in Given
        BY <2>2, <2>3, <3>6, <4>3
      <4>6. ASSUME NEW m \in goal', NEW n \in goal'
            PROVE  (m.to = n.to => m = n) /\ ~IsStrictPrefix(m.to, n.to)
        <5>1. PICK f \in files : m = [from |-> f, to |-> Place(files, f)]
          BY <4>3
        <5>2. PICK g \in files : n = [from |-> g, to |-> Place(files, g)]
          BY <4>3
        <5> HIDE DEF Place
        <5> QED
          BY <4>4, <5>1, <5>2
      <4> QED
        BY <3>5, <4>3, <4>5, <4>6 DEF GoalInv
    <3> QED
      BY <1>2, <1>3, <3>3, <3>5, <3>7, <3>8 DEF FilesInv
  <2> QED
    BY <2>1, <2>5, <2>6, <2>7
<1> QED
  BY <1>5, <1>6, <1>7 DEF SftpGet

LEMMA PutStarts ==
  ASSUME FilesInv, NEW by \in Means, NEW spec \in Specs, NEW remote \in Places,
         NEW slash \in BOOLEAN, SftpPut(by, spec, remote, slash)
  PROVE  FilesInv'
<1>1. /\ Begin /\ UNCHANGED <<driver, fs, local, lost, torn, others>> /\ means' = by
      /\ Script \notin DOMAIN fs /\ calls' \in 0..MaxFileCalls
      /\ remote \in Given /\ TreesInv /\ TreesInv' /\ CallInv
      /\ GoodTree(local) /\ Whole(local) /\ Script \notin DOMAIN local
  BY AtBegin, GivenPaths DEF SftpPut, FilesInv, TreesInv
<1>2. ASSUME call' \in {"raised", "put", "stored"}, mappings' # {} <=> call' = "put"
      PROVE  CallInv' /\ ScriptInv'
  BY <1>1, <1>2 DEF CallInv, ScriptInv, ScriptLeavesNoTrace, Ended, Means
<1>3. CASE NoTransfer("raised")
  BY <1>1, <1>2, <1>3, NothingLeft DEF NoTransfer, FilesInv
<1>4. CASE ~SelectRaises(local, spec) /\ ~NoTransfer("raised")
  <2> DEFINE files == Selected(local, spec)
             Place(f) == PutPlace(local, spec, files, remote, slash, f)
             Mapped(fset) == {[from |-> f, to |-> Place(f)] : f \in fset}
  <2>1. Transfer(Mapped(files), Mapped(Wanted(local, spec)), "put", "stored")
    BY <1>4, Zenon DEF SftpPut
  <2>2. /\ files = Wanted(local, spec)
        /\ \A f \in files : f \in Given /\ IsFile(local, f)
    BY <1>1, <1>4, SelectedIsWanted, SelectedThere
  <2>3. \A f, g \in files :
          /\ Place(f) \in Given /\ (Place(f) = Place(g) => f = g)
          /\ ~IsStrictPrefix(Place(f), Place(g))
    BY <1>1, <1>4, PutPlaces
  <2>4. /\ mappings' = Mapped(files) /\ goal' = mappings'
        /\ call' \in {"put", "stored"} /\ (mappings' # {} <=> call' = "put")
    BY <2>1, <2>2 DEF Transfer
  <2> HIDE DEF files, Place
  <2>5. ASSUME NEW m \in mappings', NEW n \in mappings'
        PROVE  /\ m.from \in Given /\ m.to \in Given /\ IsFile(local, m.from)
               /\ (m.to = n.to => m = n) /\ ~IsStrictPrefix(m.to, n.to)
    <3>1. PICK f \in files : m = [from |-> f, to |-> Place(f)]
      BY <2>4
    <3>2. PICK g \in files : n = [from |-> g, to |-> Place(g)]
      BY <2>4
    <3> QED
      BY <2>2, <2>3, <3>1, <3>2
  <2> HIDE DEF Mapped
  <2>6. MappingsInv' /\ GoalInv'
    BY <1>1, <2>4, <2>5 DEF MappingsInv, GoalInv
  <2> QED
    BY <1>1, <1>2, <2>4, <2>6 DEF FilesInv
<1>5. NoTransfer("raised") \/ ~SelectRaises(local, spec)
  BY DEF SftpPut
<1> QED
  BY <1>3, <1>4, <1>5

\* Where one file has landed another does not.
LEMMA LandsElsewhere ==
  ASSUME NEW m, NEW n, m.from \in Given, n.from \in Given, m.to \in Given, n.to \in Given,
         m.to # n.to, ~IsStrictPrefix(m.to, n.to), ~IsStrictPrefix(n.to, m.to),
         NEW place \in {m.to, Append(m.to, Last(m.from))}, NEW tree
  PROVE  n.to # place /\ Landing(tree, n.to, Last(n.from)) # place
<1>1. \A b \in {n.to, Append(n.to, Last(n.from))} : place # b
  BY LandingsApart
<1> QED
  BY <1>1 DEF Landing

LEMMA JustLanded ==
  ASSUME NEW m, m.from \in Given, m.to \in Given, NEW tree, NEW now,
         NEW place, place = Landing(tree, m.to, Last(m.from)),
         place \in DOMAIN now, now[place] # Dir,
         \A q \in DOMAIN tree : q # place => q \in DOMAIN now /\ now[q] = tree[q]
  PROVE  Landing(now, m.to, Last(m.from)) = place
<1>1. Append(m.to, Last(m.from)) # m.to
  <2>1. Append(m.to, Last(m.from)) \in Given /\ Front(Append(m.to, Last(m.from))) = m.to
    BY Landings
  <2>2. \A p \in Given : p \in Anywhere /\ p # <<>>
    BY GivenPaths DEF Given
  <2>3. \A p \in Given : IsStrictPrefix(Front(p), p)
    BY <2>2, FrontIs
  <2> QED
    BY <2>1, <2>3 DEF IsStrictPrefix
<1>2. CASE means = "scp" /\ IsDir(tree, m.to)
  BY <1>1, <1>2 DEF Landing, IsDir
<1>3. CASE ~(means = "scp" /\ IsDir(tree, m.to))
  BY <1>3 DEF Landing, IsDir
<1> QED
  BY <1>2, <1>3

LEMMA GetsFile ==
  ASSUME FilesInv, NEW m \in mappings, GetFile(m)
  PROVE  FilesInv'
<1> DEFINE here == Landing(local, m.to, Last(m.from))
<1>1. /\ call = "get" /\ UNCHANGED <<driver, fs, means, lost, touched, torn, calls, others>>
      /\ m.from \in Given /\ m.to \in Given /\ Script \notin DOMAIN fs
      /\ TreesInv /\ CallInv /\ MappingsInv
      /\ GoodTree(local) /\ Whole(local) /\ Script \notin DOMAIN local
  BY DEF GetFile, FilesInv, TreesInv, MappingsInv, ScriptInv
<1>2. /\ here \in Given /\ here \in {m.to, Append(m.to, Last(m.from))} /\ OnDirs(local, here)
      /\ here # Script /\ here \in Anywhere
  BY <1>1, Landings, GivenPaths DEF MappingsInv, Given
<1>3. ASSUME ~IsDir(local, here), NEW node
      PROVE  /\ GoodTree(With(local, here, node)) /\ Whole(With(local, here, node))
             /\ Script \notin DOMAIN With(local, here, node)
             /\ \A q : OnDirs(local, q) => OnDirs(With(local, here, node), q)
  <2> HIDE DEF here
  <2>1. Below(local, here) = {}
    BY <1>1, <1>2, <1>3, NothingBelow
  <2>2. GoodTree(With(local, here, node)) /\ Whole(With(local, here, node))
    BY <1>1, <1>2, <2>1, WithGood, WithWhole
  <2>3. Script \notin DOMAIN With(local, here, node)
    <3>1. DOMAIN With(local, here, node) = DOMAIN local \cup {here}
      BY <1>1, <1>2, WithGood
    <3> QED
      BY <1>1, <1>2, <3>1
  <2> QED
    BY <1>3, <2>2, <2>3, DirsStay
<1>4. ASSUME mappings' = {} \/ call' # "raised", call' \in {"raised", "get", "got"},
             mappings' # {} <=> call' = "get"
      PROVE  CallInv' /\ ScriptInv'
  BY <1>1, <1>4 DEF CallInv, ScriptInv, ScriptLeavesNoTrace, Ended
<1>5. ASSUME GoodTree(local'), Whole(local'), Script \notin DOMAIN local'
      PROVE  TreesInv'
  BY <1>1, <1>5 DEF TreesInv
<1>6. CASE IsFile(fs, m.from) /\ ~IsDir(local, here)
  <2>1. Transferred(m, "got") /\ local' = With(local, here, fs[m.from])
    BY <1>6 DEF GetFile
  <2>2. /\ GoodTree(local') /\ Whole(local') /\ Script \notin DOMAIN local'
        /\ \A q : OnDirs(local, q) => OnDirs(local', q)
    BY <1>3, <1>6, <2>1
  <2>3. /\ mappings' = mappings \ {m} /\ goal' = goal
        /\ call' \in {"get", "got"} /\ (mappings' # {} <=> call' = "get")
    BY <1>1, <2>1 DEF Transferred
  <2>4. MappingsInv'
    BY <1>1, <2>2, <2>3 DEF MappingsInv
  <2>5. ASSUME ~torn'
        PROVE  GoalInv'
    <3>1. GoalInv
      BY <1>1, <2>5 DEF FilesInv
    <3>2. /\ here \in DOMAIN local' /\ local'[here] = fs[m.from] /\ fs[m.from] # Dir
          /\ \A q \in DOMAIN local : q # here => q \in DOMAIN local' /\ local'[q] = local[q]
          /\ \A q \in DOMAIN local' : q # here => q \in DOMAIN local /\ local'[q] = local[q]
      BY <1>6, <2>1 DEF With, IsFile
    <3>3. \A q : q # here /\ IsDir(local', q) => IsDir(local, q)
      BY <3>2 DEF IsDir
    <3> HIDE DEF here
    <3>4. Landing(local', m.to, Last(m.from)) = here
      BY <1>1, <3>2, JustLanded DEF here
    <3>5. ASSUME NEW n \in goal \ mappings
          PROVE  n.from \in touched \/ Landed(local, fs, n)'
      <4>1. n.from \in touched \/ Landed(local, fs, n)
        BY <1>1, <3>1, <3>5 DEF GoalInv
      <4>2. /\ n.from \in Given /\ n.to \in Given /\ m.to # n.to
            /\ ~IsStrictPrefix(m.to, n.to) /\ ~IsStrictPrefix(n.to, m.to)
        BY <3>1, <3>5 DEF GoalInv
      <4>3. n.to # here /\ Landing(local, n.to, Last(n.from)) # here
        BY <1>1, <1>2, <4>2, LandsElsewhere
      <4>4. Landing(local', n.to, Last(n.from)) = Landing(local, n.to, Last(n.from))
        BY <3>2, <3>3, <4>3 DEF Landing, IsDir
      <4> QED
        BY <1>1, <3>2, <4>1, <4>3, <4>4 DEF Landed, Landing
    <3>6. Landed(local, fs, m)'
      BY <1>1, <1>6, <3>2, <3>4 DEF Landed, Landing, IsFile
    <3>7. \A n \in goal' \ mappings' : n.from \in touched' \/ Landed(local, fs, n)'
      BY <1>1, <2>3, <3>5, <3>6
    <3> QED
      BY <1>1, <2>3, <3>1, <3>7 DEF GoalInv
  <2> QED
    BY <1>4, <1>5, <2>2, <2>3, <2>4, <2>5 DEF FilesInv
<1>7. CASE ~(IsFile(fs, m.from) /\ ~IsDir(local, here))
  <2>1. /\ NoTransfer("raised")
        /\ \/ UNCHANGED local
           \/ ~IsDir(local, here) /\ local' = With(local, here, Part)
    BY <1>7 DEF GetFile
  <2>2. GoodTree(local') /\ Whole(local') /\ Script \notin DOMAIN local'
    BY <1>1, <1>3, <2>1
  <2> QED
    BY <1>4, <1>5, <2>1, <2>2, NothingLeft DEF NoTransfer, FilesInv
<1> QED
  BY <1>6, <1>7

\* The server's files with the directories on the way to a file that is put.
LEMMA MadeIs ==
  ASSUME GoodTree(fs), Script \notin DOMAIN fs, means = "scp" => driver = "ssh", NEW to \in Given
  PROVE  LET made == Made(to) IN
         /\ GoodTree(made) /\ Script \notin DOMAIN made /\ (Whole(fs) => Whole(made))
         /\ DOMAIN fs \subseteq DOMAIN made /\ \A q \in DOMAIN fs : made[q] = fs[q]
         /\ means = "scp" => made = fs
         /\ Below(made, to) = Below(fs, to)
         /\ Whole(fs) /\ ~Refused(to) =>
              OnDirs(made, to) /\ (driver = "ssh" => Below(fs, to) = {})
<1>1. to \in Anywhere /\ to # <<>> /\ ~IsStrictPrefix(to, to)
  BY GivenPaths DEF Given, IsStrictPrefix
<1>2. CASE means # "scp"
  <2>1. Made(to) = EnsureParent(fs, to)
    BY <1>2 DEF Made
  <2>2. /\ GoodTree(EnsureParent(fs, to)) /\ DOMAIN EnsureParent(fs, to) \subseteq DOMAIN fs \cup Given
        /\ DOMAIN fs \subseteq DOMAIN EnsureParent(fs, to)
        /\ \A q \in DOMAIN fs : EnsureParent(fs, to)[q] = fs[q]
        /\ Below(EnsureParent(fs, to), to) = Below(fs, to)
        /\ Whole(fs) => Whole(EnsureParent(fs, to))
        /\ ~Blocked(fs, to) => OnDirs(EnsureParent(fs, to), to)
    BY <1>1, ParentIs
  <2>3. Script \notin DOMAIN EnsureParent(fs, to)
    BY <2>2, GivenPaths
  <2>4. ~Refused(to) => ~Blocked(fs, to) /\ (driver = "ssh" => ~IsDir(fs, to))
    BY DEF Refused
  <2> QED
    BY <1>1, <1>2, <2>1, <2>2, <2>3, <2>4, NothingBelow
<1>3. CASE means = "scp"
  <2>1. Made(to) = fs
    BY <1>3 DEF Made
  <2>2. ~Refused(to) => ~Blocked(fs, to) /\ ~IsDir(fs, to) /\ Front(to) \in DOMAIN fs
    BY <1>3, <2>1 DEF Refused
  <2>3. ~Refused(to) => IsDir(fs, Front(to))
    <3>1. Front(to) # <<>> => Front(to) \in Above(to)
      BY <1>1, AboveIs, FrontIs
    <3>2. Front(to) = <<>> => IsDir(fs, Front(to))
      BY DEF GoodTree, IsDir
    <3> QED
      BY <2>2, <3>1, <3>2 DEF Blocked, IsFile, IsDir
  <2>4. Whole(fs) /\ ~Refused(to) => OnDirs(fs, to) /\ Below(fs, to) = {}
    BY <1>1, <2>2, <2>3, OnFront, NothingBelow
  <2> QED
    BY <2>1, <2>4
<1> QED
  BY <1>2, <1>3

\* The file that is put, or a part of it, on the server.
LEMMA PutGood ==
  ASSUME GoodTree(fs), Script \notin DOMAIN fs, means = "scp" => driver = "ssh", NEW to \in Given,
         NEW node
  PROVE  /\ GoodTree(With(Made(to), to, node)) /\ Script \notin DOMAIN With(Made(to), to, node)
         /\ Whole(fs) /\ ~Refused(to) /\ ~Tears(to) /\ driver \in {"sim", "ssh"} =>
              Whole(With(Made(to), to, node))
<1> DEFINE made == Made(to)
<1>1. /\ GoodTree(made) /\ Script \notin DOMAIN made /\ (Whole(fs) => Whole(made))
      /\ Below(made, to) = Below(fs, to)
      /\ Whole(fs) /\ ~Refused(to) => OnDirs(made, to) /\ (driver = "ssh" => Below(fs, to) = {})
  BY MadeIs
<1> HIDE DEF made
<1>2. to # Script
  BY GivenPaths
<1>3. GoodTree(With(made, to, node)) /\ DOMAIN With(made, to, node) = DOMAIN made \cup {to}
  BY <1>1, WithGood
<1>4. ASSUME Whole(fs), ~Refused(to), ~Tears(to), driver \in {"sim", "ssh"}
      PROVE  Whole(With(made, to, node))
  <2>1. Below(made, to) = {}
    BY <1>1, <1>4 DEF Tears
  <2> QED
    BY <1>1, <1>4, <2>1, WithWhole
<1> QED
  BY <1>1, <1>2, <1>3, <1>4 DEF made

LEMMA PutsFile ==
  ASSUME FilesInv, NEW m \in mappings, PutFile(m)
  PROVE  FilesInv'
<1> DEFINE there == Landing(fs, m.to, Last(m.from))
           made  == Made(there)
<1>1. /\ call = "put" /\ UNCHANGED <<driver, local, means, lost, touched, calls, others>>
      /\ m.from \in Given /\ m.to \in Given /\ GoodTree(fs) /\ Script \notin DOMAIN fs
      /\ means = "scp" => driver = "ssh"
      /\ torn' \in BOOLEAN /\ (torn \/ torn' => driver = "sim" /\ torn')
      /\ driver \in {"sim", "ssh"}
      /\ TreesInv /\ CallInv /\ MappingsInv
  BY DEF PutFile, FilesInv, TreesInv, MappingsInv, ScriptInv, CallInv, Tears
<1>2. there \in Given /\ there \in {m.to, Append(m.to, Last(m.from))}
  BY <1>1, Landings
<1>3. /\ GoodTree(made) /\ Script \notin DOMAIN made /\ (Whole(fs) => Whole(made))
      /\ DOMAIN fs \subseteq DOMAIN made /\ \A q \in DOMAIN fs : made[q] = fs[q]
      /\ means = "scp" => made = fs
  BY <1>1, <1>2, MadeIs
<1>4. ASSUME mappings' = {} \/ call' # "raised", call' \in {"raised", "put", "stored"},
             mappings' # {} <=> call' = "put", Script \notin DOMAIN fs'
      PROVE  CallInv' /\ ScriptInv'
  BY <1>1, <1>4 DEF CallInv, ScriptInv, ScriptLeavesNoTrace, Ended
<1>5. ASSUME GoodTree(fs'), ~torn' => Whole(fs')
      PROVE  TreesInv'
  BY <1>1, <1>5 DEF TreesInv
<1>6. CASE Refused(there)
  <2>1. NoTransfer("raised") /\ fs' = made /\ UNCHANGED torn
    BY <1>6 DEF PutFile
  <2>2. TreesInv'
    BY <1>1, <1>3, <1>5, <2>1 DEF TreesInv
  <2> QED
    BY <1>3, <1>4, <2>1, <2>2, NothingLeft DEF NoTransfer, FilesInv
<1>7. CASE ~Refused(there)
  <2>1. /\ Transferred(m, "stored") /\ fs' = With(made, there, local[m.from])
        /\ torn' = (torn \/ Tears(there))
    BY <1>7 DEF PutFile
  <2>2. GoodTree(fs') /\ Script \notin DOMAIN fs' /\ (~torn' => Whole(fs'))
    BY <1>1, <1>2, <1>7, <2>1, PutGood DEF TreesInv
  <2>3. /\ mappings' = mappings \ {m} /\ goal' = goal
        /\ call' \in {"put", "stored"} /\ (mappings' # {} <=> call' = "put")
    BY <1>1, <2>1 DEF Transferred
  <2>4. MappingsInv'
    BY <1>1, <2>3 DEF MappingsInv
  <2>5. ASSUME ~torn'
        PROVE  GoalInv'
    <3>1. GoalInv /\ IsFile(local, m.from)
      BY <1>1, <2>5 DEF FilesInv, GoalInv
    <3>2. /\ there \in DOMAIN fs' /\ fs'[there] = local[m.from] /\ local[m.from] # Dir
          /\ \A q \in DOMAIN fs : q # there => q \in DOMAIN fs' /\ fs'[q] = fs[q]
          /\ \A q : q # there /\ q \in DOMAIN fs' => q \in DOMAIN made /\ fs'[q] = made[q]
      BY <1>3, <2>1, <3>1 DEF With, IsFile
    <3>3. means = "scp" => \A q : q # there /\ IsDir(fs', q) => IsDir(fs, q)
      BY <1>3, <3>2 DEF IsDir
    <3> HIDE DEF there, made
    <3>4. Landing(fs', m.to, Last(m.from)) = there
      BY <1>1, <3>2, JustLanded DEF there
    <3>5. ASSUME NEW n \in goal \ mappings
          PROVE  n.to \in touched \/ Landed(fs, local, n)'
      <4>1. n.to \in touched \/ Landed(fs, local, n)
        BY <1>1, <3>1, <3>5 DEF GoalInv
      <4>2. /\ n.from \in Given /\ n.to \in Given /\ m.to # n.to
            /\ ~IsStrictPrefix(m.to, n.to) /\ ~IsStrictPrefix(n.to, m.to)
        BY <3>1, <3>5 DEF GoalInv
      <4>3. n.to # there /\ Landing(fs, n.to, Last(n.from)) # there
        BY <1>1, <1>2, <4>2, LandsElsewhere
      <4>4. Landing(fs', n.to, Last(n.from)) = Landing(fs, n.to, Last(n.from))
        BY <3>2, <3>3, <4>3 DEF Landing, IsDir
      <4> QED
        BY <1>1, <3>2, <4>1, <4>3, <4>4 DEF Landed, Landing
    <3>6. Landed(fs, local, m)'
      BY <1>1, <3>1, <3>2, <3>4 DEF Landed, Landing, IsFile
    <3>7. \A n \in goal' \ mappings' : n.to \in touched' \/ Landed(fs, local, n)'
      BY <1>1, <2>3, <3>5, <3>6
    <3> QED
      BY <1>1, <2>3, <3>1, <3>7 DEF GoalInv
  <2> QED
    BY <1>4, <1>5, <2>2, <2>3, <2>4, <2>5 DEF FilesInv
<1> QED
  BY <1>6, <1>7

LEMMA FileFails ==
  ASSUME FilesInv, NEW m \in mappings, TransferFails(m)
  PROVE  FilesInv'
<1> DEFINE here  == Landing(local, m.to, Last(m.from))
           there == Landing(fs, m.to, Last(m.from))
<1>1. /\ driver = "ssh" /\ call \in {"get", "put"} /\ NoTransfer("raised") /\ lost' \in BOOLEAN
      /\ UNCHANGED <<driver, means, touched, torn, calls, others>>
      /\ m.from \in Given /\ m.to \in Given /\ Script \notin DOMAIN fs /\ ~torn
      /\ GoodTree(fs) /\ Whole(fs) /\ GoodTree(local) /\ Whole(local) /\ Script \notin DOMAIN local
      /\ CallInv /\ (call = "get" => OnDirs(local, m.to))
  BY DEF TransferFails, FilesInv, TreesInv, MappingsInv, ScriptInv, CallInv
<1>2. /\ here \in Given /\ there \in Given /\ here \in Anywhere /\ here # Script
      /\ OnDirs(local, m.to) => OnDirs(local, here)
  BY <1>1, Landings, GivenPaths
<1>3. /\ GoodTree(local') /\ Whole(local') /\ Script \notin DOMAIN local'
      /\ GoodTree(fs') /\ Whole(fs') /\ Script \notin DOMAIN fs'
  <2>1. \/ UNCHANGED <<local, fs>>
        \/ /\ call = "get" /\ ~IsDir(local, here)
           /\ local' = With(local, here, Part) /\ UNCHANGED fs
        \/ fs' = Made(there) /\ UNCHANGED local
        \/ ~Refused(there) /\ fs' = With(Made(there), there, Part) /\ UNCHANGED local
    BY DEF TransferFails
  <2> HIDE DEF here, there
  <2>2. CASE /\ call = "get" /\ ~IsDir(local, here)
             /\ local' = With(local, here, Part) /\ UNCHANGED fs
    <3>1. Below(local, here) = {} /\ OnDirs(local, here)
      BY <1>1, <1>2, <2>2, NothingBelow
    <3>2. GoodTree(local') /\ DOMAIN local' = DOMAIN local \cup {here}
      BY <1>1, <1>2, <2>2, WithGood
    <3>3. Whole(local')
      BY <1>1, <1>2, <2>2, <3>1, WithWhole
    <3> QED
      BY <1>1, <1>2, <2>2, <3>2, <3>3
  <2>3. CASE fs' = Made(there) /\ UNCHANGED local
    BY <1>1, <1>2, <2>3, MadeIs
  <2>4. CASE ~Refused(there) /\ fs' = With(Made(there), there, Part) /\ UNCHANGED local
    BY <1>1, <1>2, <2>4, PutGood DEF Tears
  <2> QED
    BY <1>1, <2>1, <2>2, <2>3, <2>4
<1>4. TreesInv' /\ CallInv'
  BY <1>1, <1>3 DEF TreesInv, CallInv, NoTransfer, Ended
<1>5. ScriptInv'
  BY <1>1, <1>3 DEF ScriptInv, ScriptLeavesNoTrace, NoTransfer
<1> QED
  BY <1>1, <1>4, <1>5, NothingLeft DEF NoTransfer, FilesInv

\* mkdir, remove and rename leave a good tree, without the script.
LEMMA SingleCall ==
  ASSUME FilesInv, NEW tree, NEW result \in {"raised", "done"}, Result(tree, result),
         GoodTree(tree), Script \notin DOMAIN tree, torn' \in BOOLEAN,
         torn' => driver = "sim", ~torn' => Whole(tree)
  PROVE  FilesInv'
<1>1. /\ NoTransfer(result) /\ fs' = tree /\ UNCHANGED <<driver, local, means, lost, others>>
      /\ calls' \in 0..MaxFileCalls /\ TreesInv /\ CallInv
  BY AtBegin DEF Result, FilesInv
<1>2. TreesInv'
  BY <1>1 DEF TreesInv
<1>3. CallInv'
  BY <1>1 DEF CallInv, NoTransfer, Ended
<1>4. ScriptInv'
  BY <1>1 DEF ScriptInv, ScriptLeavesNoTrace, NoTransfer
<1> QED
  BY <1>1, <1>2, <1>3, <1>4, NothingLeft DEF NoTransfer, FilesInv

\* What every single call begins with.
LEMMA SingleBegins ==
  ASSUME FilesInv, Begin
  PROVE  /\ GoodTree(fs) /\ Script \notin DOMAIN fs /\ (~torn => Whole(fs))
         /\ torn \in BOOLEAN /\ (torn => driver = "sim") /\ driver \in {"sim", "ssh"}
BY AtBegin DEF FilesInv, TreesInv, CallInv

LEMMA Mkdirs ==
  ASSUME FilesInv, NEW p \in Places, SftpMkdir(p)
  PROVE  FilesInv'
<1>1. Begin /\ UNCHANGED torn
  BY DEF SftpMkdir, Result
<1>2. /\ GoodTree(fs) /\ Script \notin DOMAIN fs /\ (~torn => Whole(fs))
      /\ torn \in BOOLEAN /\ (torn => driver = "sim")
  BY <1>1, SingleBegins
<1>3. p \in Given /\ p # Script
  BY GivenPaths
<1> DEFINE made == EnsureParent(fs, p)
<1>4. /\ GoodTree(made) /\ Script \notin DOMAIN made /\ (Whole(fs) => Whole(made))
      /\ ~Blocked(fs, p) => OnDirs(made, p)
  BY <1>2, <1>3, ParentIs, GivenPaths
<1>5. \/ Result(made, "raised") /\ Blocked(fs, p)
      \/ Result(fs, "done")
      \/ Result(With(made, p, Dir), "done") /\ ~Blocked(fs, p)
  BY DEF SftpMkdir
<1> HIDE DEF made
<1>6. /\ GoodTree(With(made, p, Dir)) /\ DOMAIN With(made, p, Dir) = DOMAIN made \cup {p}
      /\ Whole(made) /\ OnDirs(made, p) => Whole(With(made, p, Dir))
  BY <1>3, <1>4, WithGood, WithWhole
<1>7. CASE Result(made, "raised")
  BY <1>1, <1>2, <1>4, <1>7, SingleCall
<1>8. CASE Result(fs, "done")
  BY <1>1, <1>2, <1>8, SingleCall
<1>9. CASE Result(With(made, p, Dir), "done") /\ ~Blocked(fs, p)
  <2>1. Script \notin DOMAIN With(made, p, Dir)
    BY <1>3, <1>4, <1>6
  <2> QED
    BY <1>1, <1>2, <1>4, <1>6, <1>9, <2>1, SingleCall
<1> QED
  BY <1>5, <1>7, <1>8, <1>9

LEMMA Removes ==
  ASSUME FilesInv, NEW p \in Places, SftpRemove(p)
  PROVE  FilesInv'
<1> DEFINE fails == p \notin DOMAIN fs \/ (driver = "ssh" /\ IsDir(fs, p))
<1>1. /\ Begin /\ torn' = (torn \/ (~fails /\ Tears(p)))
      /\ IF fails THEN Result(fs, "raised") ELSE Result(Without(fs, p), "done")
  BY DEF SftpRemove, Result
<1>2. /\ GoodTree(fs) /\ Script \notin DOMAIN fs /\ (~torn => Whole(fs))
      /\ torn \in BOOLEAN /\ (torn => driver = "sim") /\ driver \in {"sim", "ssh"}
      /\ torn' \in BOOLEAN /\ (torn' => driver = "sim") /\ (torn => torn')
  BY <1>1, SingleBegins DEF Tears
<1>3. p \in Anywhere /\ p # <<>>
  BY GivenPaths DEF Given
<1>4. CASE fails
  BY <1>1, <1>2, <1>4, SingleCall
<1>5. CASE ~fails
  <2>1. /\ GoodTree(Without(fs, p)) /\ DOMAIN Without(fs, p) = DOMAIN fs \ {p}
        /\ Whole(fs) /\ Below(fs, p) = {} => Whole(Without(fs, p))
    BY <1>2, <1>3, WithoutGood
  <2>2. ~torn' => Below(fs, p) = {}
    BY <1>1, <1>2, <1>3, <1>5, NothingBelow DEF Tears
  <2> QED
    BY <1>1, <1>2, <1>5, <2>1, <2>2, SingleCall
<1> QED
  BY <1>4, <1>5

LEMMA RenamesSim ==
  ASSUME FilesInv, NEW old \in Places, NEW new \in Places, driver = "sim", RenameSim(old, new)
  PROVE  FilesInv'
<1> DEFINE made == EnsureParent(fs, new)
           put  == With(made, new, fs[old])
<1>1. /\ Begin
      /\ torn' = (torn \/ (old \in DOMAIN fs /\ ~Blocked(fs, new)
                           /\ (Tears(old) \/ IsStrictPrefix(old, new)
                               \/ (Tears(new) /\ IsFile(fs, old)))))
      /\ \/ old \notin DOMAIN fs /\ Result(fs, "raised")
         \/ Blocked(fs, new) /\ Result(made, "raised")
         \/ /\ old \in DOMAIN fs /\ ~Blocked(fs, new)
            /\ Result(Without(put, old), "done")
  BY DEF RenameSim, Result
<1>2. /\ GoodTree(fs) /\ Script \notin DOMAIN fs /\ (~torn => Whole(fs))
      /\ torn \in BOOLEAN /\ torn' \in BOOLEAN /\ (torn => torn')
  BY <1>1, SingleBegins
<1>3. /\ new \in Given /\ new # Script /\ new \in Anywhere /\ old \in Anywhere /\ old # <<>>
  BY GivenPaths DEF Given
<1>4. /\ GoodTree(made) /\ Script \notin DOMAIN made /\ (Whole(fs) => Whole(made))
      /\ DOMAIN fs \subseteq DOMAIN made /\ \A q \in DOMAIN fs : made[q] = fs[q]
      /\ \A q \in Anywhere : ~IsStrictPrefix(q, new) => Below(made, q) = Below(fs, q)
      /\ ~Blocked(fs, new) => OnDirs(made, new)
  BY <1>2, <1>3, ParentIs, GivenPaths
<1> HIDE DEF made
<1>5. CASE Result(fs, "raised")
  BY <1>2, <1>5, SingleCall
<1>6. CASE Result(made, "raised")
  BY <1>2, <1>4, <1>6, SingleCall
<1>7. CASE old \in DOMAIN fs /\ ~Blocked(fs, new) /\ Result(Without(put, old), "done")
  <2>1. GoodTree(put) /\ DOMAIN put = DOMAIN made \cup {new}
    BY <1>3, <1>4, WithGood
  <2>2. ASSUME ~torn'
        PROVE  Whole(put) /\ Below(put, old) = {}
    <3>1. /\ Whole(fs) /\ Below(fs, old) = {} /\ ~IsStrictPrefix(old, new)
          /\ Below(fs, new) = {} \/ ~IsFile(fs, old)
      BY <1>1, <1>2, <1>7, <2>2 DEF Tears
    <3>2. Below(made, new) = Below(fs, new) /\ Below(made, old) = {}
      BY <1>3, <1>4, <3>1 DEF IsStrictPrefix
    <3>3. fs[old] = Dir \/ Below(made, new) = {}
      BY <1>7, <3>1, <3>2 DEF IsFile
    <3>4. Whole(put)
      BY <1>3, <1>4, <1>7, <3>1, <3>3, WithWhole
    <3>5. Below(put, old) = {}
      BY <2>1, <3>1, <3>2 DEF Below
    <3> QED
      BY <3>4, <3>5
  <2> HIDE DEF put
  <2>3. /\ GoodTree(Without(put, old)) /\ DOMAIN Without(put, old) = DOMAIN put \ {old}
        /\ Whole(put) /\ Below(put, old) = {} => Whole(Without(put, old))
    BY <1>3, <2>1, WithoutGood
  <2>4. Script \notin DOMAIN Without(put, old)
    BY <1>3, <1>4, <2>1, <2>3
  <2> QED
    BY <1>2, <1>7, <2>2, <2>3, <2>4, SingleCall
<1> QED
  BY <1>1, <1>5, <1>6, <1>7

LEMMA RenamesServer ==
  ASSUME FilesInv, NEW old \in Places, NEW new \in Places, driver = "ssh", RenameServer(old, new)
  PROVE  FilesInv'
<1> DEFINE moved == {q \in DOMAIN fs : IsPrefix(old, q)}
           New(q) == new \o Relative(old, q)
           news  == {New(q) : q \in moved}
           tree  == [p \in (DOMAIN fs \ moved) \cup news |->
                       IF IsPrefix(new, p) THEN fs[old \o Relative(new, p)] ELSE fs[p]]
<1>1. /\ Begin /\ UNCHANGED torn
      /\ \/ Result(fs, "raised")
         \/ /\ Result(tree, "done") /\ old \in DOMAIN fs /\ new \notin DOMAIN fs
            /\ IsDir(fs, Front(new)) /\ ~IsPrefix(old, new)
  <2>1. UNCHANGED torn /\ (Result(fs, "raised") \/
           /\ Result(tree, "done") /\ old \in DOMAIN fs /\ new \notin DOMAIN fs
           /\ IsDir(fs, Front(new)) /\ ~IsPrefix(old, new))
    BY Zenon DEF RenameServer
  <2> QED
    BY <2>1 DEF Result
<1>2. /\ GoodTree(fs) /\ Script \notin DOMAIN fs /\ Whole(fs) /\ torn = FALSE
      /\ DOMAIN fs \subseteq Anywhere
  <2>1. /\ GoodTree(fs) /\ Script \notin DOMAIN fs /\ (~torn => Whole(fs))
        /\ torn \in BOOLEAN /\ (torn => driver = "sim")
    BY <1>1, SingleBegins
  <2> QED
    BY <2>1, GoodPaths
<1>3. /\ old \in Given /\ new \in Given /\ old \in Anywhere /\ new \in Anywhere
      /\ old # <<>> /\ new # <<>>
  BY GivenPaths DEF Given
<1>4. CASE Result(fs, "raised")
  BY <1>1, <1>2, <1>4, SingleCall
<1>5. CASE /\ Result(tree, "done") /\ old \in DOMAIN fs /\ new \notin DOMAIN fs
           /\ IsDir(fs, Front(new)) /\ ~IsPrefix(old, new)
  <2>1. OnDirs(fs, new)
    BY <1>2, <1>3, <1>5, OnFront
  <2>2. ASSUME NEW q \in moved
        PROVE  /\ New(q) \in Given /\ New(q) \in Anywhere /\ IsPrefix(new, New(q))
               /\ Relative(new, New(q)) = Relative(old, q) /\ old \o Relative(new, New(q)) = q
               /\ q \in DOMAIN fs /\ q \in Anywhere
    <3>1. /\ q \in Anywhere /\ q \in Paths /\ IsPrefix(old, q) /\ q \in DOMAIN fs
      BY <1>2 DEF GoodTree
    <3>2. Relative(old, q) \in Anywhere /\ Relative(old, q) \in Paths
      BY <1>3, <3>1, Relatives
    <3>3. old \o Relative(old, q) = q
      BY <1>3, <3>1, RelativeIs
    <3> QED
      BY <1>3, <3>1, <3>2, <3>3, ConcatIs, GivenPaths
  <2> HIDE DEF New
  <2>3. IsFiniteSet(news)
    <3>1. [q \in moved |-> New(q)] \in Surjection(moved, news)
      BY DEF Surjection
    <3>2. IsFiniteSet(moved)
      BY <1>2, FS_Subset DEF GoodTree
    <3> QED
      BY <3>1, <3>2, FS_Surjection
  <2>4. \A p : p \in news <=> \E q \in moved : p = New(q)
    OBVIOUS
  <2>5. \A p : p \in moved <=> p \in DOMAIN fs /\ IsPrefix(old, p)
    OBVIOUS
  <2>6. /\ DOMAIN tree = (DOMAIN fs \ moved) \cup news
        /\ \A p \in DOMAIN tree :
             tree[p] = IF IsPrefix(new, p) THEN fs[old \o Relative(new, p)] ELSE fs[p]
    OBVIOUS
  <2> HIDE DEF moved, news, tree
  <2>7. GoodTree(tree) /\ Script \notin DOMAIN tree
    <3>1. IsFiniteSet(DOMAIN tree)
      <4>1. IsFiniteSet(DOMAIN fs \ moved)
        BY <1>2, FS_Difference DEF GoodTree
      <4> QED
        BY <2>3, <2>6, <4>1, FS_Union
    <3>2. DOMAIN tree \subseteq Paths /\ Script \notin DOMAIN tree
      BY <1>2, <2>2, <2>4, <2>6, GivenPaths DEF GoodTree
    <3>3. ~IsPrefix(old, <<>>) /\ ~IsPrefix(new, <<>>)
      BY <1>3, StrictOrder, PrefixOrder DEF IsStrictPrefix
    <3>4. <<>> \in DOMAIN tree /\ tree[<<>>] = Dir
      BY <1>2, <2>5, <2>6, <3>3 DEF GoodTree
    <3> QED
      BY <3>1, <3>2, <3>4 DEF GoodTree
  <2>8. ASSUME NEW r \in Anywhere, IsDir(fs, r), ~IsPrefix(old, r), ~IsPrefix(new, r)
        PROVE  IsDir(tree, r)
    BY <2>5, <2>6, <2>8 DEF IsDir
  <2>9. \A r \in DOMAIN fs : ~IsPrefix(new, r)
    BY <1>2, <1>3, <1>5 DEF Whole, OnDirs, IsDir, IsStrictPrefix
  <2>10. ASSUME NEW p \in DOMAIN fs \ moved, NEW r \in Anywhere, IsStrictPrefix(r, p)
         PROVE  IsDir(tree, r)
    <3>1. IsDir(fs, r) /\ r \in DOMAIN fs /\ p \in Anywhere
      BY <1>2, <2>10 DEF Whole, OnDirs, IsDir
    <3>2. ~IsPrefix(old, r)
      BY <1>3, <2>5, <2>10, <3>1, PrefixOrder DEF IsStrictPrefix
    <3> QED
      BY <2>8, <2>9, <3>1, <3>2
  <2>11. ASSUME NEW q \in moved, NEW r \in Anywhere, IsStrictPrefix(r, New(q))
         PROVE  IsDir(tree, r)
    <3>1. CASE IsPrefix(new, r)
      <4> DEFINE s == old \o Relative(new, r)
      <4>1. Relative(new, r) \in Anywhere /\ new \o Relative(new, r) = r
        BY <1>3, <3>1, Relatives, RelativeIs
      <4>2. s \in Anywhere /\ IsPrefix(old, s) /\ Relative(old, s) = Relative(new, r)
        BY <1>3, <4>1, ConcatIs
      <4>3. IsPrefix(s, q) /\ (s = q => r = New(q))
        <5>1. /\ IsPrefix(old \o Relative(new, r), old \o Relative(new, New(q)))
                   <=> IsPrefix(r, New(q))
          BY <1>3, <2>2, <2>11, <3>1, Moved
        <5>2. s = q => r = New(q)
            <6> HIDE DEF s
            <6> QED
              BY <4>1, <4>2 DEF New
        <5> QED
          BY <2>2, <2>11, <5>1, <5>2 DEF IsStrictPrefix
      <4> HIDE DEF s
      <4>4. IsStrictPrefix(s, q)
        BY <2>11, <4>3 DEF IsStrictPrefix
      <4>5. IsDir(fs, s)
        BY <1>2, <2>2, <4>2, <4>4 DEF Whole, OnDirs
      <4>6. s \in moved /\ r = New(s)
        <5>1. s \in moved
          BY <2>5, <4>2, <4>5 DEF IsDir
        <5> QED
          BY <4>1, <4>2, <5>1 DEF New
      <4>7. r \in DOMAIN tree /\ tree[r] = fs[s]
        BY <2>4, <2>6, <3>1, <4>6 DEF s
      <4> QED
        BY <4>5, <4>7 DEF IsDir
    <3>2. CASE ~IsPrefix(new, r)
      <4>1. IsStrictPrefix(r, new)
        <5>1. IsPrefix(r, New(q)) /\ IsPrefix(new, New(q)) /\ New(q) \in Anywhere
          BY <2>2, <2>11 DEF IsStrictPrefix
        <5>2. Len(r) \in Nat /\ Len(new) \in Nat
          BY <1>3, LenProperties DEF Anywhere
        <5>3. IsPrefix(r, new)
          BY <1>3, <3>2, <5>1, <5>2, PrefixOrder
        <5> QED
          BY <3>2, <5>3 DEF IsStrictPrefix
      <4>2. IsDir(fs, r)
        BY <2>1, <4>1 DEF OnDirs
      <4>3. ~IsPrefix(old, r)
        BY <1>3, <1>5, <4>1, PrefixOrder DEF IsStrictPrefix
      <4> QED
        BY <2>8, <3>2, <4>2, <4>3
    <3> QED
      BY <3>1, <3>2
  <2>12. Whole(tree)
    BY <2>4, <2>6, <2>10, <2>11 DEF Whole, OnDirs
  <2> QED
    BY <1>1, <1>2, <1>5, <2>7, <2>12, SingleCall DEF tree
<1> QED
  BY <1>1, <1>4, <1>5

-----------------------------------------------------------------------------
(* The delivery of a script *)

\* The script is at the root, and nothing is below it.
LEMMA ScriptAtRoot ==
  ASSUME NEW tree, GoodTree(tree)
  PROVE  OnDirs(tree, Script) /\ Below(tree, Script) = {}
<1>1. OnDirs(tree, Script)
  BY GivenPaths DEF OnDirs, GoodTree, IsDir
<1>2. ~IsStrictPrefix(Script, Script)
  BY DEF IsStrictPrefix
<1>3. \A q \in DOMAIN tree : ~IsStrictPrefix(Script, q)
  BY <1>2, GivenPaths DEF GoodTree, IsStrictPrefix
<1> QED
  BY <1>1, <1>3 DEF Below

LEMMA Uploads ==
  ASSUME FilesInv, Upload
  PROVE  FilesInv'
<1>1. /\ driver = "ssh" /\ Begin /\ goal' = {} /\ mappings' = {}
      /\ UNCHANGED <<driver, local, means, lost, torn, others>>
      /\ \/ call' = "run" /\ fs' = With(fs, Script, Body)
         \/ call' = "cleanup" /\ (fs' = fs \/ fs' = With(fs, Script, Part))
  BY DEF Upload
<1>2. /\ Script \notin DOMAIN fs /\ calls' \in 0..MaxFileCalls
      /\ TreesInv /\ CallInv /\ ~torn /\ GoodTree(fs) /\ Whole(fs)
  BY <1>1, AtBegin DEF FilesInv, TreesInv, CallInv
<1>3. ASSUME NEW node
      PROVE  /\ GoodTree(With(fs, Script, node)) /\ Whole(With(fs, Script, node))
             /\ Script \in DOMAIN With(fs, Script, node) /\ With(fs, Script, node)[Script] = node
  <2>1. GoodTree(With(fs, Script, node)) /\ Whole(With(fs, Script, node))
    BY <1>2, ScriptAtRoot, WithGood, WithWhole
  <2> QED
    BY <2>1 DEF With
<1>4. TreesInv'
  BY <1>1, <1>2, <1>3 DEF TreesInv
<1>5. CallInv'
  BY <1>1, <1>2 DEF CallInv
<1>6. ScriptInv'
  BY <1>1, <1>3 DEF ScriptInv, ScriptLeavesNoTrace, Ended
<1>7. MappingsInv' /\ GoalInv'
  BY <1>1, NothingLeft
<1> QED
  BY <1>4, <1>5, <1>6, <1>7 DEF FilesInv

LEMMA RunsScript ==
  ASSUME FilesInv, RunScript
  PROVE  FilesInv'
<1>1. /\ call = "run" /\ call' = "cleanup" /\ lost' \in BOOLEAN
      /\ UNCHANGED <<driver, fs, local, mappings, means, goal, touched, torn, calls, others>>
  BY DEF RunScript, ScriptStep
<1> QED
  BY <1>1 DEF FilesInv, TreesInv, CallInv, ScriptInv, ScriptLeavesNoTrace, MappingsInv, GoalInv,
              Ended

LEMMA CleansUp ==
  ASSUME FilesInv, CleanUp
  PROVE  FilesInv'
<1>1. /\ call = "cleanup" /\ call' \in {"done", "raised", "left"} /\ UNCHANGED lost
      /\ UNCHANGED <<driver, local, mappings, means, goal, touched, torn, calls, others>>
      /\ \/ call' # "left" /\ fs' = IF lost THEN fs ELSE Without(fs, Script)
         \/ call' = "left" /\ fs' = fs
  BY DEF CleanUp, RemoveRefused, ScriptStep
<1>2. /\ GoodTree(Without(fs, Script)) /\ Script \notin DOMAIN Without(fs, Script)
      /\ Whole(fs) => Whole(Without(fs, Script))
  BY ScriptAtRoot, WithoutGood, GivenPaths DEF FilesInv, TreesInv
<1>3. TreesInv' /\ ScriptInv'
  BY <1>1, <1>2 DEF FilesInv, TreesInv, ScriptInv, ScriptLeavesNoTrace, Ended
<1>4. CallInv' /\ MappingsInv' /\ mappings = {}
  BY <1>1 DEF FilesInv, CallInv, MappingsInv, Ended
<1>5. GoalInv => GoalInv'
  BY <1>1 DEF GoalInv
<1> QED
  BY <1>1, <1>3, <1>4, <1>5 DEF FilesInv

-----------------------------------------------------------------------------
(* What others change while a call is on *)

LEMMA ChangesOfOthers ==
  ASSUME FilesInv, NEW p \in Concerned, Others(p)
  PROVE  FilesInv'
<1>1. /\ driver = "ssh" /\ others < MaxOthers /\ others' = others + 1
      /\ touched' = touched \cup {p}
      /\ UNCHANGED <<driver, local, call, mappings, means, lost, goal, torn, calls>>
      /\ \/ IsDir(fs, Front(p)) /\ ~IsDir(fs, p) /\ fs' = With(fs, p, Foreign)
         \/ IsFile(fs, p) /\ fs' = Without(fs, p)
  BY DEF Others
<1>2. ~torn /\ GoodTree(fs) /\ Whole(fs) /\ CallInv /\ GoalInv /\ MappingsInv /\ ScriptInv
  BY <1>1 DEF FilesInv, TreesInv, CallInv
<1>3. /\ p \in Given \cup {Script} /\ p \in Anywhere /\ p # <<>>
      /\ p = Script => call = "run"
      /\ call = "run" => p = Script
  BY <1>2, GivenPaths DEF Concerned, MappingsInv, Given
<1>4. Foreign # Dir
  BY DEF Foreign, Dir
<1>5. /\ GoodTree(fs') /\ Whole(fs') /\ \A q : IsDir(fs, q) <=> IsDir(fs', q)
      /\ \A q \in DOMAIN fs : q # p => q \in DOMAIN fs' /\ fs'[q] = fs[q]
      /\ \A q \in DOMAIN fs' : q # p => q \in DOMAIN fs
  <2>1. Below(fs, p) = {}
    BY <1>1, <1>2, <1>3, NothingBelow DEF IsFile, IsDir
  <2>2. CASE IsDir(fs, Front(p)) /\ ~IsDir(fs, p) /\ fs' = With(fs, p, Foreign)
    <3>1. OnDirs(fs, p)
      BY <1>2, <1>3, <2>2, OnFront
    <3>2. GoodTree(fs') /\ Whole(fs')
      BY <1>2, <1>3, <2>1, <2>2, <3>1, WithGood, WithWhole
    <3> QED
      BY <1>4, <2>2, <3>2 DEF With, IsDir
  <2>3. CASE IsFile(fs, p) /\ fs' = Without(fs, p)
    <3>1. GoodTree(fs') /\ Whole(fs')
      BY <1>2, <1>3, <2>1, <2>3, WithoutGood
    <3> QED
      BY <2>3, <3>1 DEF Without, IsDir, IsFile
  <2> QED
    BY <1>1, <2>2, <2>3
<1>6. TreesInv' /\ CallInv' /\ MappingsInv'
  <2>1. TreesInv'
    BY <1>1, <1>5 DEF FilesInv, TreesInv
  <2>2. CallInv'
    BY <1>1, <1>2, PlacesAssumption DEF CallInv
  <2> QED
    BY <1>1, <1>2, <2>1, <2>2 DEF MappingsInv, OnDirs
<1>7. ScriptInv'
  BY <1>1, <1>2, <1>3, <1>5 DEF ScriptInv, ScriptLeavesNoTrace, Ended
<1>8. GoalInv'
  <2>1. call \in {"get", "put", "run"}
    BY <1>2 DEF Concerned, CallInv
  <2>2. ASSUME call = "get", NEW m \in goal \ mappings
        PROVE  m.from \in touched' \/ Landed(local, fs, m)'
    <3>1. m.from \in touched \/ Landed(local, fs, m)
      BY <1>2, <2>2 DEF GoalInv
    <3> QED
      BY <1>1, <1>5, <3>1 DEF Landed, Landing
  <2>3. ASSUME call = "put", NEW m \in goal \ mappings
        PROVE  m.to \in touched' \/ Landed(fs, local, m)'
    <3>1. PICK n \in mappings : p = n.to
      BY <2>3 DEF Concerned
    <3>2. /\ m \in goal /\ n \in goal /\ m # n
          /\ m.from \in Given /\ m.to \in Given /\ n.from \in Given /\ n.to \in Given
          /\ m.to # n.to /\ ~IsStrictPrefix(m.to, n.to) /\ ~IsStrictPrefix(n.to, m.to)
      BY <1>2, <2>3 DEF GoalInv
    <3>3. Landing(fs, m.to, Last(m.from)) # p
      BY <3>1, <3>2, LandsElsewhere
    <3>4. Landing(fs, m.to, Last(m.from))' = Landing(fs, m.to, Last(m.from))
      BY <1>1, <1>5 DEF Landing
    <3>5. m.to \in touched \/ Landed(fs, local, m)
      BY <1>2, <2>3 DEF GoalInv
    <3> QED
      BY <1>1, <1>5, <3>3, <3>4, <3>5 DEF Landed
  <2> QED
    BY <1>1, <1>2, <2>1, <2>2, <2>3 DEF GoalInv
<1> QED
  BY <1>6, <1>7, <1>8 DEF FilesInv

-----------------------------------------------------------------------------
(* Every step, and what the invariant says *)

\* Every step of FilesNext, a listing or a remove that the server refuses among
\* them, keeps both sides trees, the transfer on course and the script accounted
\* for.
THEOREM FilesStep ==
  ASSUME FilesInv, FilesNext
  PROVE  FilesInv'
<1>1. CASE \E by \in Means, spec \in Specs, to \in Places, slash, one \in BOOLEAN :
             SftpGet(by, spec, one, to, slash) \/ SftpPut(by, spec, to, slash)
  BY <1>1, GetStarts, PutStarts
<1>2. CASE \E m \in mappings : GetFile(m) \/ PutFile(m) \/ TransferFails(m)
  BY <1>2, GetsFile, PutsFile, FileFails
<1>3. CASE \E p \in Places : SftpMkdir(p) \/ SftpRemove(p) \/ \E q \in Places : SftpRename(p, q)
  <2>1. driver \in {"sim", "ssh"}
    BY DEF FilesInv, CallInv
  <2>2. \A p, q \in Places : SftpRename(p, q) =>
          \/ driver = "sim" /\ RenameSim(p, q)
          \/ driver = "ssh" /\ RenameServer(p, q)
    BY <2>1 DEF SftpRename
  <2> QED
    BY <1>3, <2>2, Mkdirs, Removes, RenamesSim, RenamesServer
<1>4. CASE Upload \/ RunScript \/ CleanUp
  BY <1>4, Uploads, RunsScript, CleansUp
<1>5. CASE \E p \in Concerned : Others(p)
  BY <1>5, ChangesOfOthers
<1> QED
  BY <1>1, <1>2, <1>3, <1>4, <1>5 DEF FilesNext

LEMMA FilesTypes ==
  ASSUME FilesInv
  PROVE  FilesTypeOK
<1>1. ASSUME NEW tree, GoodTree(tree), Whole(tree), NEW p \in DOMAIN tree \ {<<>>}
      PROVE  IsDir(tree, Front(p))
  <2>1. p \in Anywhere
    BY <1>1, GoodPaths
  <2>2. Front(p) \in Anywhere /\ IsStrictPrefix(Front(p), p)
    BY <1>1, <2>1, FrontIs
  <2> QED
    BY <1>1, <2>2 DEF Whole, OnDirs
<1> QED
  BY <1>1 DEF FilesInv, TreesInv, CallInv, FilesTypeOK

LEMMA FilesComplete ==
  ASSUME FilesInv
  PROVE  TransfersComplete /\ ScriptLeavesNoTrace
<1>1. ScriptLeavesNoTrace
  BY DEF FilesInv, ScriptInv
<1>2. ASSUME ~torn
      PROVE  GoalInv /\ (call \in {"got", "stored"} => mappings = {})
  BY <1>2 DEF FilesInv, CallInv
<1> QED
  BY <1>1, <1>2 DEF TransfersComplete, GoalInv, Landed
=============================================================================
