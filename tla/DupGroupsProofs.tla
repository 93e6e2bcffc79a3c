-------------------------- MODULE DupGroupsProofs --------------------------
(***************************************************************************)
(* Union-find of group_emails, for any messages and any number of records: *)
(* types, the refinement of Components, and that the groups are the        *)
(* classes of linked e-mails.                                              *)
(***************************************************************************)
EXTENDS DupGroups, FiniteSetTheorems, WellFoundedInduction, TLAPS

Finding == {"findA", "findB", "link"}

\* The sets of e-mails that no pair of R straddles.
Closed(R) == {S \in SUBSET Idx : \A s \in R : s[1] \in S <=> s[2] \in S}

\* The array separates exactly what the unions made so far leave apart.
Progress ==
    /\ shares \subseteq Unions
    /\ pc = "collect" => parent = [i \in Idx |-> i]
    /\ pc \in {"next", "number", "done"} => Unbroken = Closed(Unions \ shares)
    /\ pc \in Finding =>
         \E s \in Unions \ shares :
            /\ SameTree(s[1], a) /\ SameTree(s[2], b)
            /\ Unbroken = Closed((Unions \ shares) \ {s})
    /\ pc \in {"findB", "link"} => IsRoot(a)
    /\ pc = "link" => IsRoot(b)
    /\ pc \in {"number", "done"} => shares = {}

\* The array is a forest: f gives each e-mail's root, and d decreases on the
\* way to it.
IsForest(f, d) ==
    /\ \A i \in Idx : f[parent[i]] = f[i] /\ parent[f[i]] = f[i]
    /\ \A i \in Idx : parent[i] = i => f[i] = i
    /\ \A i \in Idx : parent[i] # i => d[parent[i]] < d[i]
    /\ \A S \in Unbroken : \A i \in Idx : i \in S <=> f[i] \in S

Forest == \E f \in [Idx -> Idx], d \in [Idx -> Nat] : IsForest(f, d)

Numbered ==
    pc = "done" =>
        group = [i \in Idx |-> IF i \in InAnyCross THEN Members(i) ELSE None]

IInv == TypeOK /\ Progress /\ Forest /\ Numbered

-----------------------------------------------------------------------------
(* The pairs.                                                              *)

LEMMA UnionsType == Unions \subseteq Idx \X Idx
BY DEF Unions, FirstWithEach, Holders

LEMMA SubsetsFinite ==
    ASSUME NEW S \in SUBSET Idx
    PROVE  IsFiniteSet(S) /\ Cardinality(S) \in Nat
<1>1. IsFiniteSet(Idx)
  BY FS_Interval, GroupsAssumption DEF Idx
<1>2. IsFiniteSet(S)
  BY <1>1, FS_Subset
<1>3. QED BY <1>2, FS_CardinalityType

LEMMA HasLeast ==
    ASSUME NEW S \in SUBSET Idx, S # {}
    PROVE  \E i \in S : \A k \in S : i <= k
<1>1. S \subseteq Nat
  BY GroupsAssumption DEF Idx
<1>2. PICK i \in S : \A k \in S : ~(<<k, i>> \in OpToRel(<, Nat))
  BY <1>1, NatLessThanWellFounded, WFMin
<1>3. ASSUME NEW k \in S PROVE i <= k
  <2>1. k \in Nat /\ i \in Nat
    BY <1>1
  <2>2. ~(k < i)
    BY <1>2, <2>1 DEF OpToRel
  <2>3. QED BY <2>1, <2>2
<1>4. QED BY <1>3

\* What is computed from the records stays while they do.
LEMMA InputStays ==
    ASSUME input' = input
    PROVE  /\ Unions' = Unions /\ InAnyCross' = InAnyCross
           /\ CrossHashes' = CrossHashes
BY DEF Unions, InAnyCross, CrossHashes, Holders, HashesAt

-----------------------------------------------------------------------------
(* Halving and linking.                                                    *)

LEMMA HalveKeeps ==
    ASSUME parent \in [Idx -> Idx], NEW x \in Idx, parent' = Halve(x)
    PROVE  Unbroken' = Unbroken
<1>1. /\ parent'[x] = parent[parent[x]]
      /\ \A i \in Idx : i # x => parent'[i] = parent[i]
      /\ parent[x] \in Idx
  BY DEF Halve
<1>2. ASSUME NEW S \in SUBSET Idx
      PROVE  (\A i \in Idx : i \in S <=> parent[i] \in S)
               <=> (\A i \in Idx : i \in S <=> parent'[i] \in S)
  <2>1. CASE parent[x] = x
    BY <1>1, <2>1
  <2>2. CASE parent[x] # x
    BY <1>1, <2>2
  <2>3. QED BY <2>1, <2>2
<1>3. QED BY <1>2 DEF Unbroken

LEMMA LinkJoins ==
    ASSUME parent \in [Idx -> Idx], a \in Idx, b \in Idx, IsRoot(a),
           parent' = [parent EXCEPT ![a] = b]
    PROVE  Unbroken' = {S \in Unbroken : a \in S <=> b \in S}
<1>1. /\ parent'[a] = b /\ parent[a] = a
      /\ \A i \in Idx : i # a => parent'[i] = parent[i]
  BY DEF IsRoot
<1>2. ASSUME NEW S \in SUBSET Idx
      PROVE  (\A i \in Idx : i \in S <=> parent'[i] \in S)
               <=> /\ \A i \in Idx : i \in S <=> parent[i] \in S
                   /\ a \in S <=> b \in S
  BY <1>1
<1>3. QED BY <1>2 DEF Unbroken

LEMMA HalveKeepsForest ==
    ASSUME parent \in [Idx -> Idx], NEW x \in Idx, ~IsRoot(x),
           parent' = Halve(x), Forest
    PROVE  Forest'
<1>1. PICK f \in [Idx -> Idx], d \in [Idx -> Nat] : IsForest(f, d)
  BY DEF Forest
<1>2. /\ parent'[x] = parent[parent[x]]
      /\ \A i \in Idx : i # x => parent'[i] = parent[i]
      /\ parent[x] \in Idx /\ parent[x] # x /\ parent[parent[x]] \in Idx
  BY DEF Halve, IsRoot
<1>3. d[parent[parent[x]]] < d[x]
  <2>1. /\ d[parent[x]] < d[x]
        /\ d[parent[x]] \in Nat /\ d[x] \in Nat /\ d[parent[parent[x]]] \in Nat
    BY <1>1, <1>2 DEF IsForest
  <2>2. \/ parent[parent[x]] = parent[x]
        \/ d[parent[parent[x]]] < d[parent[x]]
    BY <1>1, <1>2 DEF IsForest
  <2>3. QED BY <2>1, <2>2
<1>4. \A i \in Idx : f[parent'[i]] = f[i] /\ parent'[f[i]] = f[i]
  <2>1. \A i \in Idx : f[i] # x
    BY <1>1, <1>2 DEF IsForest
  <2>2. f[parent[parent[x]]] = f[x]
    BY <1>1, <1>2 DEF IsForest
  <2>3. QED BY <1>1, <1>2, <2>1, <2>2 DEF IsForest
<1>5. \A i \in Idx : parent'[i] = i => f[i] = i
  <2>1. parent'[x] # x
    <3>1. d[x] \in Nat
      OBVIOUS
    <3>2. QED BY <1>2, <1>3, <3>1
  <2>2. QED BY <1>1, <1>2, <2>1 DEF IsForest
<1>6. \A i \in Idx : parent'[i] # i => d[parent'[i]] < d[i]
  BY <1>1, <1>2, <1>3 DEF IsForest
<1>7. \A S \in Unbroken' : \A i \in Idx : i \in S <=> f[i] \in S
  BY <1>1, HalveKeeps DEF IsForest
<1>8. IsForest(f, d)'
  BY <1>4, <1>5, <1>6, <1>7 DEF IsForest
<1>9. QED BY <1>8 DEF Forest

LEMMA LinkKeepsForest ==
    ASSUME parent \in [Idx -> Idx], a \in Idx, b \in Idx, IsRoot(a), IsRoot(b),
           parent' = [parent EXCEPT ![a] = b], Forest
    PROVE  Forest'
<1>1. PICK f \in [Idx -> Idx], d \in [Idx -> Nat] : IsForest(f, d)
  BY DEF Forest
<1>2. /\ parent'[a] = b /\ parent[a] = a /\ parent[b] = b
      /\ \A i \in Idx : i # a => parent'[i] = parent[i]
      /\ f[a] = a /\ f[b] = b
  BY <1>1 DEF IsRoot, IsForest
<1>3. CASE a = b
  <2>1. parent' = parent
    BY <1>2, <1>3
  <2>2. Unbroken' = Unbroken
    BY <2>1 DEF Unbroken
  <2>3. IsForest(f, d)'
    BY <1>1, <2>1, <2>2 DEF IsForest
  <2>4. QED BY <2>3 DEF Forest
<1>4. CASE a # b
  <2>0. PICK x \in Idx, y \in Idx : x = a /\ y = b
    OBVIOUS
  <2> DEFINE g == [i \in Idx |-> IF f[i] = x THEN y ELSE f[i]]
             h == [i \in Idx |-> IF f[i] = x THEN d[i] + d[y] + 1 ELSE d[i]]
  <2>1. g \in [Idx -> Idx] /\ h \in [Idx -> Nat]
    <3>1. \A i \in Idx : d[i] \in Nat /\ d[y] \in Nat /\ f[i] \in Idx
      OBVIOUS
    <3>2. QED BY <3>1
  <2>2. ASSUME NEW i \in Idx PROVE g[parent'[i]] = g[i] /\ parent'[g[i]] = g[i]
    <3>1. CASE i = a
      BY <1>2, <1>4, <2>0, <3>1
    <3>2. CASE i # a
      <4>1. f[parent[i]] = f[i] /\ parent[f[i]] = f[i] /\ parent'[i] = parent[i]
        BY <1>1, <1>2, <3>2 DEF IsForest
      <4>2. g[parent'[i]] = g[i]
        BY <4>1
      <4>3. CASE f[i] = a
        BY <1>2, <1>4, <2>0, <4>2, <4>3
      <4>4. CASE f[i] # a
        BY <1>2, <2>0, <4>1, <4>2, <4>4
      <4>5. QED BY <4>3, <4>4
    <3>3. QED BY <3>1, <3>2
  <2>3. ASSUME NEW i \in Idx, parent'[i] = i PROVE g[i] = i
    <3>1. i # a
      BY <1>2, <1>4, <2>3
    <3>2. f[i] = i
      BY <1>1, <1>2, <2>3, <3>1 DEF IsForest
    <3>3. QED BY <2>0, <3>1, <3>2
  <2>4. ASSUME NEW i \in Idx, parent'[i] # i PROVE h[parent'[i]] < h[i]
    <3>1. CASE i = a
      <4>1. h[a] = d[a] + d[b] + 1 /\ h[b] = d[b] /\ d[a] \in Nat /\ d[b] \in Nat
        BY <1>2, <1>4, <2>0
      <4>2. QED BY <1>2, <3>1, <4>1
    <3>2. CASE i # a
      <4>1. /\ parent'[i] = parent[i] /\ parent[i] \in Idx
            /\ f[parent[i]] = f[i] /\ d[parent[i]] < d[i]
        BY <1>1, <1>2, <2>4, <3>2 DEF IsForest
      <4>2. d[parent[i]] \in Nat /\ d[i] \in Nat /\ d[y] \in Nat
        BY <4>1
      <4>3. QED BY <4>1, <4>2
    <3>3. QED BY <3>1, <3>2
  <2>5. ASSUME NEW S \in Unbroken', NEW i \in Idx PROVE i \in S <=> g[i] \in S
    <3>1. S \in Unbroken /\ (a \in S <=> b \in S)
      BY LinkJoins
    <3>2. i \in S <=> f[i] \in S
      BY <1>1, <3>1 DEF IsForest
    <3>3. QED BY <2>0, <3>1, <3>2
  <2> HIDE DEF g, h
  <2>6. IsForest(g, h)'
    BY <2>2, <2>3, <2>4, <2>5 DEF IsForest
  <2>7. QED BY <2>1, <2>6 DEF Forest
<1>5. QED BY <1>3, <1>4
-----------------------------------------------------------------------------
(* The inductive invariant.                                                *)

LEMMA InitIInv == Init => IInv
<1> SUFFICES ASSUME Init PROVE IInv
  OBVIOUS
<1>1. 1 \in Idx
  BY GroupsAssumption DEF Idx
<1>2. TypeOK
  BY <1>1 DEF Init, TypeOK
<1>3. Progress
  BY DEF Init, Progress, Finding
<1>4. Forest
  <2> DEFINE f == [i \in Idx |-> i]
             d == [i \in Idx |-> 0]
  <2>1. f \in [Idx -> Idx] /\ d \in [Idx -> Nat]
    OBVIOUS
  <2>2. IsForest(f, d)
    BY DEF Init, IsForest
  <2>3. QED BY <2>1, <2>2 DEF Forest
<1>5. Numbered
  BY DEF Init, Numbered
<1>6. QED BY <1>2, <1>3, <1>4, <1>5 DEF IInv

\* The array is not assigned.
LEMMA SameArray ==
    ASSUME parent' = parent
    PROVE  /\ Unbroken' = Unbroken
           /\ \A i, j : SameTree(i, j)' <=> SameTree(i, j)
           /\ Forest => Forest'
           /\ \A i : IsRoot(i)' <=> IsRoot(i)
<1>1. Unbroken' = Unbroken
  BY DEF Unbroken
<1>2. QED BY <1>1 DEF SameTree, Forest, IsForest, IsRoot

\* Nor are the records.
LEMMA SameMembers ==
    ASSUME parent' = parent, InAnyCross' = InAnyCross
    PROVE  \A i : Members(i)' = Members(i)
<1>1. \A i : Root(i)' = Root(i)
  BY Zenon DEF Root, IsRoot, SameTree, Unbroken
<1>2. QED BY <1>1 DEF Members

LEMMA CollectStep ==
    ASSUME IInv, Collect
    PROVE  IInv'
<1> USE DEF IInv
<1>1. Unions' = Unions
  BY InputStays DEF Collect
<1>2. TypeOK'
  BY UnionsType DEF TypeOK, Collect
<1>3. Progress'
  <2>1. Unbroken' = SUBSET Idx
    BY DEF Progress, Collect, Unbroken, TypeOK
  <2>2. Unions' \ shares' = {} /\ shares' \subseteq Unions'
    BY <1>1 DEF Collect
  <2>3. Unbroken' = Closed(Unions' \ shares')
    BY <2>1, <2>2 DEF Closed
  <2>4. QED BY <2>2, <2>3 DEF Progress, Collect, Closed, Finding
<1>4. Forest'
  BY SameArray DEF Collect
<1>5. Numbered'
  BY DEF Collect, Numbered
<1>6. QED BY <1>2, <1>3, <1>4, <1>5

LEMMA NextUnionStep ==
    ASSUME IInv, NextUnion
    PROVE  IInv'
<1> USE DEF IInv
<1>1. Unions' = Unions /\ Unbroken' = Unbroken /\ Unbroken = Closed(Unions \ shares)
  BY InputStays, SameArray DEF NextUnion, Progress
<1>2. TypeOK'
  <2>1. CASE pc' = "number"
    BY <2>1 DEF TypeOK, NextUnion
  <2>2. CASE pc' = "findA"
    BY <2>2 DEF TypeOK, NextUnion
  <2>3. QED BY <2>1, <2>2 DEF NextUnion
<1>3. Progress'
  <2>1. CASE shares = {} /\ pc' = "number" /\ UNCHANGED <<a, b, shares>>
    BY <1>1, <2>1 DEF Progress, Finding, Closed
  <2>2. ASSUME NEW s \in shares,
               a' = s[1], b' = s[2], shares' = shares \ {s}, pc' = "findA"
        PROVE  Progress'
    <3>1. s \in Unions \ shares'
      BY <2>2 DEF Progress
    <3>2. (Unions \ shares') \ {s} = Unions \ shares
      BY <2>2 DEF Progress
    <3>3. SameTree(s[1], a)' /\ SameTree(s[2], b)'
      BY <2>2 DEF SameTree
    <3>4. Closed((Unions \ shares') \ {s}) = Unbroken'
      BY <1>1, <3>2
    <3>5. QED BY <1>1, <2>2, <3>1, <3>3, <3>4 DEF Progress, Finding, Closed
  <2>3. QED BY <2>1, <2>2 DEF NextUnion
<1>4. Forest'
  BY SameArray DEF NextUnion
<1>5. Numbered'
  BY DEF NextUnion, Numbered
<1>6. QED BY <1>2, <1>3, <1>4, <1>5

\* A step of find stays in the tree.
LEMMA HalveStays ==
    ASSUME parent \in [Idx -> Idx], NEW x \in Idx, NEW i,
           parent' = Halve(x), SameTree(i, x)
    PROVE  \A S \in Unbroken' : i \in S <=> parent[parent[x]] \in S
<1>1. Unbroken' = Unbroken
  BY HalveKeeps
<1>2. ASSUME NEW S \in Unbroken PROVE x \in S <=> parent[parent[x]] \in S
  <2>1. \A k \in Idx : k \in S <=> parent[k] \in S
    BY DEF Unbroken
  <2>2. parent[x] \in Idx
    OBVIOUS
  <2>3. QED BY <2>1, <2>2
<1>3. QED BY <1>1, <1>2 DEF SameTree

LEMMA FindAStep ==
    ASSUME IInv, FindA
    PROVE  IInv'
<1> USE DEF IInv
<1>1. /\ Unions' = Unions /\ shares' = shares /\ b' = b
      /\ parent \in [Idx -> Idx] /\ a \in Idx /\ b \in Idx /\ pc = "findA"
  BY InputStays DEF FindA, TypeOK
<1>2. PICK s \in Unions \ shares :
         /\ SameTree(s[1], a) /\ SameTree(s[2], b)
         /\ Unbroken = Closed((Unions \ shares) \ {s})
  BY <1>1 DEF Progress, Finding
<1>3. Numbered'
  BY DEF FindA, Numbered
<1>4. CASE IsRoot(a)
  <2>1. parent' = parent /\ a' = a /\ pc' = "findB"
    BY <1>4 DEF FindA
  <2>2. TypeOK'
    BY <2>1 DEF TypeOK, FindA
  <2>3. Progress'
    BY <1>1, <1>2, <1>4, <2>1, SameArray DEF Progress, Finding, Closed
  <2>4. Forest'
    BY <2>1, SameArray
  <2>5. QED BY <1>3, <2>2, <2>3, <2>4
<1>5. CASE ~IsRoot(a)
  <2>1. /\ parent' = Halve(a) /\ pc' = "findA"
        /\ a' = parent[parent[a]] /\ a' \in Idx /\ parent' \in [Idx -> Idx]
    <3>1. parent' = Halve(a) /\ a' = parent'[a] /\ pc' = "findA"
      BY <1>1, <1>5 DEF FindA
    <3>2. QED BY <1>1, <3>1 DEF Halve
  <2>2. TypeOK'
    BY <1>1, <2>1 DEF TypeOK, FindA
  <2>3. Unbroken' = Unbroken
    BY <1>1, <2>1, HalveKeeps
  <2>4. SameTree(s[1], a)' /\ SameTree(s[2], b)'
    <3>1. SameTree(s[1], a)'
      <4>1. \A S \in Unbroken' : s[1] \in S <=> parent[parent[a]] \in S
        BY <1>1, <1>2, <2>1, HalveStays
      <4>2. QED BY <2>1, <4>1 DEF SameTree
    <3>2. SameTree(s[2], b)'
      BY <1>1, <1>2, <2>3 DEF SameTree
    <3>3. QED BY <3>1, <3>2
  <2>5. Progress'
    BY <1>1, <1>2, <2>1, <2>3, <2>4 DEF Progress, Finding, Closed
  <2>6. Forest'
    BY <1>1, <1>5, <2>1, HalveKeepsForest
  <2>7. QED BY <1>3, <2>2, <2>5, <2>6
<1>6. QED BY <1>4, <1>5

LEMMA FindBStep ==
    ASSUME IInv, FindB
    PROVE  IInv'
<1> USE DEF IInv
<1>1. /\ Unions' = Unions /\ shares' = shares /\ a' = a
      /\ parent \in [Idx -> Idx] /\ a \in Idx /\ b \in Idx /\ pc = "findB"
  BY InputStays DEF FindB, TypeOK
<1>2. PICK s \in Unions \ shares :
         /\ SameTree(s[1], a) /\ SameTree(s[2], b)
         /\ Unbroken = Closed((Unions \ shares) \ {s})
  BY <1>1 DEF Progress, Finding
<1>3. Numbered' /\ IsRoot(a)
  BY <1>1 DEF FindB, Numbered, Progress
<1>4. CASE IsRoot(b)
  <2>1. parent' = parent /\ b' = b /\ pc' = "link"
    BY <1>4 DEF FindB
  <2>2. TypeOK'
    BY <2>1 DEF TypeOK, FindB
  <2>3. Progress'
    BY <1>1, <1>2, <1>3, <1>4, <2>1, SameArray DEF Progress, Finding, Closed
  <2>4. Forest'
    BY <2>1, SameArray
  <2>5. QED BY <1>3, <2>2, <2>3, <2>4
<1>5. CASE ~IsRoot(b)
  <2>1. /\ parent' = Halve(b) /\ pc' = "findB"
        /\ b' = parent[parent[b]] /\ b' \in Idx /\ parent' \in [Idx -> Idx]
    <3>1. parent' = Halve(b) /\ b' = parent'[b] /\ pc' = "findB"
      BY <1>1, <1>5 DEF FindB
    <3>2. QED BY <1>1, <3>1 DEF Halve
  <2>2. TypeOK'
    BY <1>1, <2>1 DEF TypeOK, FindB
  <2>3. Unbroken' = Unbroken
    BY <1>1, <2>1, HalveKeeps
  <2>4. SameTree(s[1], a)' /\ SameTree(s[2], b)'
    <3>1. SameTree(s[2], b)'
      <4>1. \A S \in Unbroken' : s[2] \in S <=> parent[parent[b]] \in S
        BY <1>1, <1>2, <2>1, HalveStays
      <4>2. QED BY <2>1, <4>1 DEF SameTree
    <3>2. SameTree(s[1], a)'
      BY <1>1, <1>2, <2>3 DEF SameTree
    <3>3. QED BY <3>1, <3>2
  <2>5. IsRoot(a)'
    <3>1. a # b
      BY <1>3, <1>5
    <3>2. QED BY <1>1, <1>3, <2>1, <3>1 DEF IsRoot, Halve
  <2>6. Progress'
    BY <1>1, <1>2, <2>1, <2>3, <2>4, <2>5 DEF Progress, Finding, Closed
  <2>7. Forest'
    BY <1>1, <1>5, <2>1, HalveKeepsForest
  <2>8. QED BY <1>3, <2>2, <2>6, <2>7
<1>6. QED BY <1>4, <1>5

LEMMA LinkStep ==
    ASSUME IInv, Link
    PROVE  /\ IInv'
           /\ \E s \in Unions : Unbroken' = Partition!Joined(Unbroken, s[1], s[2])
<1> USE DEF IInv
<1>1. /\ Unions' = Unions /\ shares' = shares /\ a' = a /\ b' = b
      /\ parent \in [Idx -> Idx] /\ a \in Idx /\ b \in Idx /\ pc = "link"
      /\ pc' = "next" /\ parent' = [parent EXCEPT ![a] = b]
  BY InputStays DEF Link, TypeOK
<1>2. PICK s \in Unions \ shares :
         /\ SameTree(s[1], a) /\ SameTree(s[2], b)
         /\ Unbroken = Closed((Unions \ shares) \ {s})
  BY <1>1 DEF Progress, Finding
<1>3. Numbered' /\ IsRoot(a) /\ IsRoot(b)
  BY <1>1 DEF Numbered, Progress
<1>4. TypeOK'
  BY <1>1 DEF TypeOK, Link
<1>5. Unbroken' = {S \in Unbroken : s[1] \in S <=> s[2] \in S}
  <2>1. Unbroken' = {S \in Unbroken : a \in S <=> b \in S}
    BY <1>1, <1>3, LinkJoins
  <2>2. QED BY <1>2, <2>1 DEF SameTree
<1>6. Unbroken' = Closed(Unions \ shares)
  <2>1. ASSUME NEW S
        PROVE  S \in Closed(Unions \ shares) <=>
                  S \in Closed((Unions \ shares) \ {s}) /\ (s[1] \in S <=> s[2] \in S)
    BY DEF Closed
  <2>2. QED BY <1>2, <1>5, <2>1
<1>7. Progress'
  BY <1>1, <1>6 DEF Progress, Finding, Closed
<1>8. Forest'
  BY <1>1, <1>3, LinkKeepsForest
<1>9. Unbroken' = Partition!Joined(Unbroken, s[1], s[2])
  BY <1>5 DEF Partition!Joined
<1>10. QED BY <1>2, <1>3, <1>4, <1>7, <1>8, <1>9

LEMMA NumberStep ==
    ASSUME IInv, Number
    PROVE  IInv'
<1> USE DEF IInv
<1>1. /\ Unions' = Unions /\ shares' = shares /\ parent' = parent
      /\ InAnyCross' = InAnyCross /\ Unbroken' = Unbroken
      /\ pc = "number" /\ pc' = "done"
  BY InputStays, SameArray DEF Number
<1>2. \A i : Members(i) \in SUBSET Idx
  BY DEF Members, InAnyCross, Holders
<1>3. \A i \in Idx : RankIn(Members(i), i) \in Nat
  <2>1. ASSUME NEW i \in Idx PROVE RankIn(Members(i), i) \in Nat
    <3>1. {j \in Members(i) : Before(j, i)} \in SUBSET Idx
      BY <1>2
    <3>2. QED BY <3>1, SubsetsFinite DEF RankIn
  <2>2. QED BY <2>1
<1>4. TypeOK'
  <2>1. group' \in [Idx -> (SUBSET Idx) \cup {None}]
    BY <1>2 DEF Number, GroupId
  <2>2. rank' \in [Idx -> Nat \cup {None}]
    BY <1>3 DEF Number
  <2>3. QED BY <1>1, <2>1, <2>2 DEF TypeOK, Number
<1>5. Progress'
  BY <1>1 DEF Progress, Finding, Closed
<1>6. Forest'
  BY <1>1, SameArray
<1>7. Numbered'
  <2>1. \A i : Members(i)' = Members(i)
    BY <1>1, SameMembers
  <2>2. QED BY <1>1, <2>1 DEF Numbered, Number, GroupId
<1>8. QED BY <1>4, <1>5, <1>6, <1>7

LEMMA NextIInv == IInv /\ [Next]_vars => IInv'
<1> SUFFICES ASSUME IInv, [Next]_vars PROVE IInv'
  OBVIOUS
<1>1. CASE UNCHANGED vars
  <2>1. /\ Unions' = Unions /\ InAnyCross' = InAnyCross /\ Unbroken' = Unbroken
        /\ parent' = parent
    BY <1>1, InputStays, SameArray DEF vars
  <2>2. TypeOK'
    BY <1>1 DEF IInv, TypeOK, vars
  <2>3. Progress'
    BY <1>1, <2>1, SameArray DEF IInv, Progress, Closed, Finding, vars, SameTree
  <2>4. Forest'
    BY <2>1, SameArray DEF IInv
  <2>5. Numbered'
    <3>1. \A i : Members(i)' = Members(i)
      BY <2>1, SameMembers
    <3>2. QED BY <1>1, <2>1, <3>1 DEF IInv, Numbered, vars
  <2>6. QED BY <2>2, <2>3, <2>4, <2>5 DEF IInv
<1>2. QED
  BY <1>1, CollectStep, NextUnionStep, FindAStep, FindBStep, LinkStep, NumberStep
     DEF Next

\* The state variables have the types the code gives them, whatever records
\* and messages there are.
THEOREM TypeCorrect == Spec => []TypeOK
<1>1. IInv => TypeOK
  BY DEF IInv
<1>2. QED BY InitIInv, NextIInv, <1>1, PTL DEF Spec

\* Union-find, which rewrites its array while it follows it, implements a
\* partition that is only ever coarsened, and only by joining two e-mails that
\* share a hash (dedup.py, find and union).
THEOREM Implements == Spec => JoinsOnly
<1>1. Init => Partition!Init
  <2>1. Init => Unbroken = SUBSET Idx
    BY DEF Init, Unbroken
  <2>2. QED BY <2>1, UnionsType DEF Partition!Init
<1>2. IInv /\ [Next]_vars => [Partition!Join]_<<Unions, Unbroken>>
  <2> SUFFICES ASSUME IInv, [Next]_vars
               PROVE  [Partition!Join]_<<Unions, Unbroken>>
    OBVIOUS
  <2>1. input' = input
    BY DEF Next, Collect, NextUnion, FindA, FindB, Link, Number, vars
  <2>2. Unions' = Unions
    BY <2>1, InputStays
  <2>3. CASE Link
    BY <2>2, <2>3, LinkStep DEF Partition!Join
  <2>4. CASE parent' = parent
    BY <2>2, <2>4, SameArray
  <2>5. CASE FindA /\ ~IsRoot(a)
    BY <2>2, <2>5, HalveKeeps DEF FindA, IInv, TypeOK
  <2>6. CASE FindB /\ ~IsRoot(b)
    BY <2>2, <2>6, HalveKeeps DEF FindB, IInv, TypeOK
  <2>7. QED
    BY <2>3, <2>4, <2>5, <2>6
       DEF Next, Collect, NextUnion, FindA, FindB, Number, vars
<1>3. QED
  BY InitIInv, NextIInv, <1>1, <1>2, PTL DEF Spec, JoinsOnly, Partition!Spec

-----------------------------------------------------------------------------
(* The groups.                                                             *)

\* A set is closed under the pairs if and only if it is closed under sharing
\* a hash.
LEMMA PairsSuffice ==
    ASSUME NEW S \in SUBSET Idx
    PROVE  S \in Closed(Unions) <=>
              \A x, y \in Idx : Share(x, y) => (x \in S <=> y \in S)
<1>1. ASSUME S \in Closed(Unions), NEW x \in Idx, NEW y \in Idx, Share(x, y)
      PROVE  x \in S <=> y \in S
  <2>1. PICK h : h \in HashesAt(x) /\ h \in HashesAt(y)
    BY <1>1 DEF Share
  <2>2. x \in Holders(h) /\ y \in Holders(h) /\ Holders(h) \in SUBSET Idx
    BY <2>1 DEF Holders
  <2>3. CASE x = y
    BY <2>3
  <2>4. CASE x # y
    <3>1. Cardinality(Holders(h)) >= 2
      <4>1. IsFiniteSet(Holders(h)) /\ {x, y} \subseteq Holders(h)
        BY <2>2, SubsetsFinite
      <4>2. Cardinality({x, y}) = 2
        <5>1. Cardinality({y}) = 1 /\ IsFiniteSet({y})
          BY FS_Singleton
        <5>2. Cardinality({y} \cup {x}) = Cardinality({y}) + 1
          BY <2>4, <5>1, FS_AddElement
        <5>3. {x, y} = {y} \cup {x}
          OBVIOUS
        <5>4. QED BY <5>1, <5>2, <5>3
      <4>3. Cardinality({x, y}) <= Cardinality(Holders(h))
        BY <4>1, FS_Subset
      <4>4. Cardinality(Holders(h)) \in Nat
        BY <2>2, SubsetsFinite
      <4>5. QED BY <4>2, <4>3, <4>4
    <3>2. h \in CrossHashes
      BY <2>1, <3>1 DEF CrossHashes
    <3>3. PICK k \in Holders(h) : \A z \in Holders(h) : k <= z
      BY <2>2, HasLeast
    <3>4. ASSUME NEW z \in Holders(h) PROVE k \in S <=> z \in S
      <4>1. CASE z = k
        BY <4>1
      <4>2. CASE z # k
        <5>1. <<k, z>> \in FirstWithEach(Holders(h))
          BY <3>3, <4>2 DEF FirstWithEach
        <5>2. <<k, z>> \in Unions
          BY <3>2, <5>1 DEF Unions
        <5>3. QED BY <1>1, <5>2 DEF Closed
      <4>3. QED BY <4>1, <4>2
    <3>5. QED BY <2>2, <3>4
  <2>5. QED BY <2>3, <2>4
<1>2. ASSUME \A x, y \in Idx : Share(x, y) => (x \in S <=> y \in S),
             NEW s \in Unions
      PROVE  s[1] \in S <=> s[2] \in S
  <2>1. PICK h \in CrossHashes : s[1] \in Holders(h) /\ s[2] \in Holders(h)
    BY DEF Unions, FirstWithEach
  <2>2. Share(s[1], s[2]) /\ s[1] \in Idx /\ s[2] \in Idx
    BY <2>1 DEF Holders, Share
  <2>3. QED BY <1>2, <2>2
<1>3. QED BY <1>1, <1>2 DEF Closed

\* A part is marked if and only if its e-mail is in a group.
LEMMA MarkedIffGrouped ==
    ASSUME NEW i \in Idx
    PROVE  IsDup(i) # {} <=> i \in InAnyCross
<1>1. HashesAt(i) = {Hash("library", input[i], k) : k \in PartsOf("library", input[i])} \ {<<>>}
  BY DEF HashesAt, Hashes
<1>2. \A h \in CrossHashes : h # <<>>
  BY DEF CrossHashes, HashesAt, Hashes
<1>3. i \in InAnyCross <=> \E h \in CrossHashes : h \in HashesAt(i)
  BY DEF InAnyCross, Holders
<1>4. QED BY <1>1, <1>2, <1>3 DEF IsDup

\* In a forest, what find returns is the root f gives.
LEMMA RootIs ==
    ASSUME parent \in [Idx -> Idx],
           NEW f \in [Idx -> Idx], NEW d \in [Idx -> Nat], IsForest(f, d),
           NEW x \in Idx
    PROVE  /\ Root(x) = f[x]
           /\ \A y \in Idx : SameTree(x, y) <=> f[x] = f[y]
<1>1. ASSUME NEW y \in Idx, SameTree(x, y)
      PROVE  f[x] = f[y]
  <2> DEFINE T == {i \in Idx : f[i] = f[x]}
  <2>1. T \in Unbroken
    BY DEF IsForest, Unbroken
  <2>2. QED BY <1>1, <2>1 DEF SameTree
<1>2. ASSUME NEW y \in Idx, f[x] = f[y]
      PROVE  SameTree(x, y)
  BY <1>2 DEF SameTree, IsForest
<1>3. ASSUME NEW r \in Idx
      PROVE  IsRoot(r) /\ SameTree(x, r) <=> r = f[x]
  <2>1. f[x] \in Idx /\ parent[f[x]] = f[x] /\ f[f[x]] = f[x]
    BY DEF IsForest
  <2>2. IsRoot(r) => f[r] = r
    BY DEF IsRoot, IsForest
  <2>3. QED BY <1>1, <1>2, <2>1, <2>2 DEF IsRoot
<1>4. Root(x) = f[x]
  BY <1>3 DEF Root
<1>5. QED BY <1>1, <1>2, <1>4

LEMMA GroupsFollow == IInv => GroupsAreComponents
<1> SUFFICES ASSUME IInv, pc = "done", NEW i \in Idx, NEW j \in Idx
             PROVE  /\ group[i] # None <=> IsDup(i) # {}
                    /\ IsDup(i) # {} /\ IsDup(j) # {} =>
                           (group[i] = group[j] <=> Linked(i, j))
  BY DEF GroupsAreComponents
<1>1. PICK f \in [Idx -> Idx], d \in [Idx -> Nat] : IsForest(f, d)
  BY DEF IInv, Forest
<1>2. /\ parent \in [Idx -> Idx]
      /\ group = [k \in Idx |-> IF k \in InAnyCross THEN Members(k) ELSE None]
      /\ Unbroken = Closed(Unions)
  <2>1. Unions \ shares = Unions
    BY DEF IInv, Progress
  <2>2. QED BY <2>1 DEF IInv, TypeOK, Numbered, Progress
<1>3. SameTree(i, j) <=> Linked(i, j)
  <2>1. \A S \in SUBSET Idx :
           S \in Unbroken <=>
              \A x, y \in Idx : Share(x, y) => (x \in S <=> y \in S)
    BY <1>2, PairsSuffice
  <2>2. Unbroken \subseteq SUBSET Idx
    BY DEF Unbroken
  <2>3. QED BY <2>1, <2>2 DEF SameTree, Linked
<1>4. ASSUME NEW k \in Idx, k \in InAnyCross
      PROVE  group[k] = Members(k) /\ group[k] # None /\ k \in group[k]
  <2>1. group[k] = Members(k)
    BY <1>2, <1>4
  <2>2. Members(k) \in SUBSET (1..N)
    BY DEF Members, InAnyCross, Holders, Idx
  <2>3. k \in Members(k)
    BY <1>4 DEF Members
  <2>4. QED BY <2>1, <2>2, <2>3, GroupsAssumption
<1>5. group[i] # None <=> IsDup(i) # {}
  BY <1>2, <1>4, MarkedIffGrouped
<1>6. ASSUME IsDup(i) # {}, IsDup(j) # {}
      PROVE  group[i] = group[j] <=> Linked(i, j)
  <2>1. i \in InAnyCross /\ j \in InAnyCross
    BY <1>6, MarkedIffGrouped
  <2>2. group[i] = group[j] <=> Root(i) = Root(j)
    BY <1>4, <2>1 DEF Members
  <2>3. Root(i) = Root(j) <=> SameTree(i, j)
    BY <1>1, <1>2, RootIs
  <2>4. QED BY <1>3, <2>2, <2>3
<1>7. QED BY <1>5, <1>6

\* When group_emails is done its groups are the classes of e-mails linked by
\* shared hashes, and an e-mail has a group if and only if one of its parts is
\* marked as a duplicate: for any number of e-mails, whatever they share, and
\* in whatever order the unions were made (dedup.py, group_emails).
THEOREM GroupsCorrect == Spec => []GroupsAreComponents
BY InitIInv, NextIInv, GroupsFollow, PTL DEF Spec

-----------------------------------------------------------------------------
(* The ranks.                                                              *)

\* Counting, for each element of a finite ordered set S, the elements before it
\* numbers S from 0 on, in its order. (B[x] is the set of those before x.)
LEMMA RanksCount ==
    ASSUME NEW S, IsFiniteSet(S), NEW B \in [S -> SUBSET S],
           \A x \in S : x \notin B[x],
           \A x, y \in S : x = y \/ x \in B[y] \/ y \in B[x],
           \A x, y \in S : y \in B[x] => B[y] \subseteq B[x]
    PROVE  /\ \A x \in S : Cardinality(B[x]) \in Nat
           /\ {Cardinality(B[x]) : x \in S} = 0..(Cardinality(S) - 1)
           /\ \A x, y \in S : y \in B[x] <=> Cardinality(B[y]) < Cardinality(B[x])
<1> DEFINE n == Cardinality(S)
           f == [x \in S |-> Cardinality(B[x])]
<1>1. n \in Nat /\ \A T \in SUBSET S : IsFiniteSet(T) /\ Cardinality(T) \in Nat
  BY FS_Subset, FS_CardinalityType
<1>2. ASSUME NEW T \in SUBSET S, NEW U \in SUBSET T, U # T
      PROVE  Cardinality(U) < Cardinality(T)
  <2>1. Cardinality(U) <= Cardinality(T) /\ Cardinality(U) # Cardinality(T)
    BY <1>1, <1>2, FS_Subset
  <2>2. Cardinality(U) \in Nat /\ Cardinality(T) \in Nat
    BY <1>1
  <2>3. QED BY <2>1, <2>2
<1>3. ASSUME NEW x \in S, NEW y \in S, y \in B[x]
      PROVE  Cardinality(B[y]) < Cardinality(B[x])
  <2>1. B[x] \in SUBSET S /\ B[y] \in SUBSET B[x] /\ B[y] # B[x]
    BY <1>3
  <2>2. QED BY <1>2, <2>1
<1>4. \A x \in S : Cardinality(B[x]) \in Nat
  BY <1>1
<1>5. \A x, y \in S : y \in B[x] <=> Cardinality(B[y]) < Cardinality(B[x])
  <2> SUFFICES ASSUME NEW x \in S, NEW y \in S, Cardinality(B[y]) < Cardinality(B[x])
               PROVE  y \in B[x]
    BY <1>3
  <2>1. ~(x \in B[y]) /\ x # y
    BY <1>3, <1>4
  <2>2. QED BY <2>1
<1>6. ASSUME NEW x \in S PROVE Cardinality(B[x]) \in 0..(n - 1)
  <2>1. B[x] # S /\ B[x] \in SUBSET S /\ S \in SUBSET S
    OBVIOUS
  <2>2. Cardinality(B[x]) < n
    BY <1>2, <2>1
  <2>3. QED BY <1>1, <1>4, <2>2
<1>7. f \in Injection(S, 0..(n - 1))
  <2>1. f \in [S -> 0..(n - 1)]
    BY <1>6
  <2>2. ASSUME NEW x \in S, NEW y \in S, f[x] = f[y] PROVE x = y
    <3>1. ~(Cardinality(B[x]) < Cardinality(B[y])) /\ ~(Cardinality(B[y]) < Cardinality(B[x]))
      BY <1>4, <2>2
    <3>2. QED BY <1>3, <3>1
  <2>3. QED BY <2>1, <2>2 DEF Injection, IsInjective
<1>8. IsFiniteSet(0..(n - 1)) /\ Cardinality(0..(n - 1)) = n
  <2> HIDE DEF n
  <2>1. n - 1 \in Int /\ 0 \in Int
    BY <1>1
  <2>2. /\ IsFiniteSet(0..(n - 1))
        /\ Cardinality(0..(n - 1)) = IF 0 > n - 1 THEN 0 ELSE n - 1 - 0 + 1
    BY <2>1, FS_Interval
  <2>3. QED BY <1>1, <2>2
<1>9. f \in Surjection(S, 0..(n - 1))
  <2> HIDE DEF f
  <2>1. Cardinality(S) = Cardinality(0..(n - 1)) <=> f \in Surjection(S, 0..(n - 1))
    BY <1>7, <1>8, FS_Injection
  <2>2. QED BY <1>8, <2>1
<1>10. {Cardinality(B[x]) : x \in S} = 0..(n - 1)
  <2>1. {f[x] : x \in S} = 0..(n - 1)
    <3> HIDE DEF f
    <3>1. QED BY <1>9 DEF Surjection
  <2>2. QED BY <2>1
<1>11. QED BY <1>4, <1>5, <1>10

\* An e-mail is before another one of its group by date, then by path.
LEMMA BeforeIsOrder ==
    ASSUME input \in [Idx -> Mails], NEW x \in Idx, NEW y \in Idx
    PROVE  /\ ~Before(x, x)
           /\ x = y \/ Before(x, y) \/ Before(y, x)
           /\ \A z \in Idx : Before(x, y) /\ Before(y, z) => Before(x, z)
           /\ Before(x, y) => Date[input[x]] <= Date[input[y]]
<1>1. \A i \in Idx : i \in Nat /\ Date[input[i]] \in Nat
  BY GroupsAssumption, PartsAssumption DEF Idx
<1>2. QED BY <1>1 DEF Before

RankedInv ==
    pc = "done" =>
        rank = [i \in Idx |-> IF i \in InAnyCross THEN RankIn(Members(i), i) ELSE None]

LEMMA RankedAlways == Spec => []RankedInv
<1>1. Init => RankedInv
  BY DEF Init, RankedInv
<1>2. RankedInv /\ [Next]_vars => RankedInv'
  <2> SUFFICES ASSUME RankedInv, [Next]_vars, pc' = "done" PROVE RankedInv'
    BY DEF RankedInv
  <2>1. CASE Number
    <3>1. /\ InAnyCross' = InAnyCross /\ \A i : Members(i)' = Members(i)
          /\ \A i, j : Before(i, j)' = Before(i, j)
      <4>1. UNCHANGED <<input, parent>>
        BY <2>1 DEF Number
      <4>2. InAnyCross' = InAnyCross
        BY <4>1, InputStays
      <4>3. \A x : Root(x)' = Root(x)
        BY <4>1 DEF Root, IsRoot, SameTree, Unbroken
      <4>4. QED BY <4>1, <4>2, <4>3 DEF Members, Before
    <3>2. \A S, i : RankIn(S, i)' = RankIn(S, i)
      BY <3>1 DEF RankIn
    <3>3. QED BY <2>1, <3>1, <3>2 DEF Number, RankedInv
  <2>2. CASE UNCHANGED vars
    <3>1. /\ InAnyCross' = InAnyCross /\ \A i : Members(i)' = Members(i)
          /\ \A i, j : Before(i, j)' = Before(i, j)
      <4>1. UNCHANGED <<input, parent, pc, rank>>
        BY <2>2 DEF vars
      <4>2. InAnyCross' = InAnyCross
        BY <4>1, InputStays
      <4>3. \A x : Root(x)' = Root(x)
        BY <4>1 DEF Root, IsRoot, SameTree, Unbroken
      <4>4. QED BY <4>1, <4>2, <4>3 DEF Members, Before
    <3>2. \A S, i : RankIn(S, i)' = RankIn(S, i)
      BY <3>1 DEF RankIn
    <3>3. QED BY <2>2, <3>1, <3>2 DEF vars, RankedInv
  <2>3. QED
    BY <2>1, <2>2 DEF Next, Collect, NextUnion, FindA, FindB, Link
<1>3. QED BY <1>1, <1>2, PTL DEF Spec

\* When group_emails is done, the ranks of each group are 0, 1, 2 ..., each
\* once, and the e-mail of the lower rank is never the newer one: the one of
\* rank 0, which is kept, is an oldest one (ordering.py, sort_emails).
THEOREM RanksFollowDates == Spec => []OldestFirst
<1>1. IInv /\ RankedInv => OldestFirst
  <2> SUFFICES ASSUME IInv, RankedInv, pc = "done", NEW i \in Idx, group[i] # None
               PROVE  /\ {rank[j] : j \in group[i]} = 0..(Cardinality(group[i]) - 1)
                      /\ \A j \in group[i] :
                            rank[j] < rank[i] => Date[input[j]] <= Date[input[i]]
    BY DEF OldestFirst
  <2> DEFINE S == Members(i)
             B == [x \in S |-> {y \in S : Before(y, x)}]
  <2>1. /\ group = [k \in Idx |-> IF k \in InAnyCross THEN Members(k) ELSE None]
        /\ rank = [k \in Idx |-> IF k \in InAnyCross THEN RankIn(Members(k), k) ELSE None]
        /\ input \in [Idx -> Mails]
    BY DEF IInv, Numbered, RankedInv, TypeOK
  <2>2. i \in InAnyCross /\ group[i] = S /\ i \in S
    BY <2>1 DEF Members
  <2>3. S \in SUBSET Idx /\ S \subseteq InAnyCross
    BY DEF Members, InAnyCross, Holders
  <2>4. \A j \in S : Members(j) = S
    BY DEF Members
  <2>5. \A j \in S : rank[j] = Cardinality(B[j])
    BY <2>1, <2>3, <2>4 DEF RankIn
  <2>6. IsFiniteSet(S)
    BY <2>3, SubsetsFinite
  <2>7. /\ B \in [S -> SUBSET S]
        /\ \A x \in S : x \notin B[x]
        /\ \A x, y \in S : x = y \/ x \in B[y] \/ y \in B[x]
    BY <2>1, <2>3, BeforeIsOrder
  <2>8. ASSUME NEW x \in S, NEW y \in S, y \in B[x] PROVE B[y] \subseteq B[x]
    BY <2>1, <2>3, <2>8, BeforeIsOrder
  <2>9. \A x \in S, y \in S : y \in B[x] => Before(y, x)
    OBVIOUS
  <2> HIDE DEF S, B
  <2>10. /\ {Cardinality(B[x]) : x \in S} = 0..(Cardinality(S) - 1)
         /\ \A x, y \in S : y \in B[x] <=> Cardinality(B[y]) < Cardinality(B[x])
    BY <2>6, <2>7, <2>8, RanksCount
  <2>11. {rank[j] : j \in S} = 0..(Cardinality(S) - 1)
    BY <2>5, <2>10
  <2>12. ASSUME NEW j \in S, rank[j] < rank[i] PROVE Date[input[j]] <= Date[input[i]]
    <3>1. Before(j, i)
      BY <2>2, <2>5, <2>9, <2>10, <2>12
    <3>2. QED BY <2>1, <2>3, <2>2, <3>1, BeforeIsOrder
  <2>13. QED BY <2>2, <2>11, <2>12
<1>2. QED BY InitIInv, NextIInv, RankedAlways, <1>1, PTL DEF Spec
=============================================================================
