----------------------------- MODULE DupGroups -----------------------------
(***************************************************************************)
(* dedup.group_emails: which e-mails of a scan share an attachment, found  *)
(* with union-find, and how the groups are numbered and ranked. It is a    *)
(* sequential program; what makes it interesting is that its loops take    *)
(* their input in dictionary order, and that every find rewrites the array *)
(* the next one follows. Here the pairs come in any order, and a step is   *)
(* one assignment to the array.                                            *)
(***************************************************************************)
EXTENDS MailParts

CONSTANTS
    N,    \* the number of records
    None  \* Python's None

ASSUME GroupsAssumption ==
    /\ N \in Nat \ {0}
    /\ None \notin Nat /\ \A S \in SUBSET (1..N) : S # None

Idx == 1..N

VARIABLES
    input,  \* the records: each one's message, in the order of their paths
    shares, \* the unions to make: pairs of indices
    parent, \* the union-find array
    pc,     \* the statement the loop is at
    a, b,   \* the two nodes of the union in progress; find moves them up
    group,  \* dup_group_id of each record, or None
    rank    \* dup_rank of each record, or None

vars == <<input, shares, parent, pc, a, b, group, rank>>

-----------------------------------------------------------------------------
(* The cross-mail hashes.                                                  *)

HashesAt(i) == Hashes("library", input[i])

\* The indices of the e-mails with hash h, each once, in order.
Holders(h) == {i \in Idx : h \in HashesAt(i)}

CrossHashes == {h \in UNION {HashesAt(i) : i \in Idx} : Cardinality(Holders(h)) >= 2}

InAnyCross == UNION {Holders(h) : h \in CrossHashes}

\* The pairs of the first member of S with each other one.
FirstWithEach(S) == {s \in S \X S : s[1] # s[2] /\ \A k \in S : s[1] <= k}

\* Mutant: the last holder is left out.
UnionsShort ==
    UNION {{s \in FirstWithEach(Holders(h)) : \E k \in Holders(h) : k > s[2]}
           : h \in CrossHashes}

\* union(parent, idxs[0], idxs[i]) for each hash and each i >= 1.
Unions == UNION {FirstWithEach(Holders(h)) : h \in CrossHashes}

\* is_dup of a part.
IsDup(i) == {k \in PartsOf("library", input[i]) :
               Hash("library", input[i], k) \in CrossHashes}

Collect ==
    /\ pc = "collect"
    /\ shares' = Unions
    /\ pc' = "next"
    /\ UNCHANGED <<input, parent, a, b, group, rank>>

-----------------------------------------------------------------------------
(* Union-find.                                                             *)

NextUnion ==
    /\ pc = "next"
    /\ \/ \E s \in shares :
            /\ a' = s[1] /\ b' = s[2]
            /\ shares' = shares \ {s}
            /\ pc' = "findA"
       \/ shares = {} /\ pc' = "number" /\ UNCHANGED <<a, b, shares>>
    /\ UNCHANGED <<input, parent, group, rank>>

IsRoot(x) == parent[x] = x

\* Mutant: the indices are mixed up.
HalveAbove(x) == [parent EXCEPT ![parent[x]] = parent[x]]

\* Path halving.
Halve(x) == [parent EXCEPT ![x] = parent[parent[x]]]

\* Mutant: find does not move up.
FindStays ==
    /\ pc = "findA"
    /\ IF IsRoot(a) THEN pc' = "findB" /\ UNCHANGED parent
                    ELSE parent' = Halve(a) /\ UNCHANGED pc
    /\ UNCHANGED <<input, shares, a, b, group, rank>>

FindA ==
    /\ pc = "findA"
    /\ IF IsRoot(a)
       THEN pc' = "findB" /\ UNCHANGED <<parent, a>>
       ELSE /\ parent' = Halve(a)
            /\ a' = parent'[a]
            /\ UNCHANGED pc
    /\ UNCHANGED <<input, shares, b, group, rank>>

FindB ==
    /\ pc = "findB"
    /\ IF IsRoot(b)
       THEN pc' = "link" /\ UNCHANGED <<parent, b>>
       ELSE /\ parent' = Halve(b)
            /\ b' = parent'[b]
            /\ UNCHANGED pc
    /\ UNCHANGED <<input, shares, a, group, rank>>

\* if ra != rb: parent[ra] = rb. (If they are equal, the assignment changes
\* nothing.)
Link ==
    /\ pc = "link"
    /\ parent' = [parent EXCEPT ![a] = b]
    /\ pc' = "next"
    /\ UNCHANGED <<input, shares, a, b, group, rank>>

-----------------------------------------------------------------------------
(* Numbering the groups.                                                   *)

\* A set of records that no tree of the array straddles.
Unbroken == {S \in SUBSET Idx : \A i \in Idx : i \in S <=> parent[i] \in S}

SameTree(i, j) == \A S \in Unbroken : i \in S <=> j \in S

\* What find returns: the root of x's tree. (The halving it does on the way
\* changes no tree, see FindA.)
Root(x) == CHOOSE r \in Idx : IsRoot(r) /\ SameTree(x, r)

\* root_to_members
Members(x) == {i \in InAnyCross : Root(i) = Root(x)}

\* Mutant: compares dates only.
BeforeByDate(i, j) == Date[input[i]] < Date[input[j]]

\* sort_emails compares dates, then paths.
Before(i, j) ==
    \/ Date[input[i]] < Date[input[j]]
    \/ Date[input[i]] = Date[input[j]] /\ i < j

\* Mutant: subtracts the e-mail itself.
RankWithout(S, i) == Cardinality({j \in S : Before(j, i)}) - 1

RankIn(S, i) == Cardinality({j \in S : Before(j, i)})

\* dup_group_stable_id: a digest of the sorted ids of the members.
GroupId(S) == S

Number ==
    /\ pc = "number"
    /\ group' = [i \in Idx |-> IF i \in InAnyCross THEN GroupId(Members(i)) ELSE None]
    /\ rank' = [i \in Idx |-> IF i \in InAnyCross THEN RankIn(Members(i), i) ELSE None]
    /\ pc' = "done"
    /\ UNCHANGED <<input, shares, parent, a, b>>

-----------------------------------------------------------------------------
Init ==
    /\ input \in [Idx -> Mails]
    /\ shares = {} /\ parent = [i \in Idx |-> i]
    /\ pc = "collect" /\ a = 1 /\ b = 1
    /\ group = [i \in Idx |-> None] /\ rank = [i \in Idx |-> None]

Next == Collect \/ NextUnion \/ FindA \/ FindB \/ Link \/ Number

Spec == Init /\ [][Next]_vars /\ WF_vars(Next)

-----------------------------------------------------------------------------
(* Properties.                                                             *)

TypeOK ==
    /\ input \in [Idx -> Mails]
    /\ shares \in SUBSET (Idx \X Idx)
    /\ parent \in [Idx -> Idx]
    /\ pc \in {"collect", "next", "findA", "findB", "link", "number", "done"}
    /\ a \in Idx /\ b \in Idx
    /\ group \in [Idx -> (SUBSET Idx) \cup {None}]
    /\ rank \in [Idx -> Nat \cup {None}]

\* Path halving and linking implement a partition that is only ever coarsened
\* by pairs of e-mails that share a hash: halving, which rewrites the array
\* while it is being followed, is a stutter.
Partition == INSTANCE Components
                 WITH Nodes <- Idx, pairs <- Unions, unions <- Unbroken
JoinsOnly == Partition!Spec

Share(i, j) == HashesAt(i) \cap HashesAt(j) # {}

\* "If A shares a hash with B, and B shares a hash with C, then A, B, and C are
\* all in the same group": two records are linked when no set of records that
\* is closed under sharing a hash separates them.
Linked(i, j) ==
    \A S \in SUBSET Idx :
        (\A x, y \in Idx : Share(x, y) => (x \in S <=> y \in S)) => (i \in S <=> j \in S)

\* The groups are exactly the classes of linked e-mails, in whatever order the
\* hashes and the e-mails were met; and an e-mail has a group if and only if
\* one of its parts is marked as a duplicate.
GroupsAreComponents ==
    pc = "done" =>
        \A i, j \in Idx :
            /\ group[i] # None <=> IsDup(i) # {}
            /\ IsDup(i) # {} /\ IsDup(j) # {} =>
                   (group[i] = group[j] <=> Linked(i, j))

\* "The canonical member is the oldest e-mail, with filepath as tiebreaker":
\* the ranks of a group are 0, 1, 2 ..., each once, and never put an e-mail
\* before an older one.
OldestFirst ==
    pc = "done" =>
        \A i \in Idx : group[i] # None =>
            /\ {rank[j] : j \in group[i]} = 0..(Cardinality(group[i]) - 1)
            /\ \A j \in group[i] : rank[j] < rank[i] => Date[input[j]] <= Date[input[i]]

\* find ends on the array as it is, whatever was linked and halved before.
Terminates == <>(pc = "done")

=============================================================================
