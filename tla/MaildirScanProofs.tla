------------------------- MODULE MaildirScanProofs -------------------------
(***************************************************************************)
(* What a scan of the library and its reconciliation promise, for any      *)
(* Maildir, any messages and any number of renames.                        *)
(***************************************************************************)
EXTENDS MaildirScan, SequenceTheorems, FiniteSetTheorems, WellFoundedInduction,
        TLAPS

\* The records the library makes.
Rec == [path : Path, mail : Mails, dup : {{}}]

Waiting == {todo[i] : i \in DOMAIN todo}

\* The places where a message was recorded, was recorded or is about to be, and
\* was found by the reconciliation.
SeenAt(m)     == {p \in Places : <<p, m>> \in Paths}
Found(m)      == {p \in Places : <<p, m>> \in Paths \cup pending}
FoundAgain(m) == {p \in Places : <<p, m>> \in listed}

\* It is in a directory that is still to be listed.
Ahead(m) == at[m][1] \in Waiting

Still(m)   == moved[m] = movedThen[m]
OneMove(m) == RenamedMeanwhile(m) <= 1

WorldInv ==
    /\ at \in [Mails -> Places \cup {Unborn, Gone}]
    /\ moved \in [Mails -> Nat] /\ movedThen \in [Mails -> Nat]
    /\ \A m \in Mails : movedThen[m] <= moved[m]
    /\ there \subseteq {m \in Mails : at[m] \in Places}

LibraryTypes ==
    /\ todo \in Seq(Dirs) /\ records \in Seq(Rec)
    /\ pending \subseteq Path /\ listed \subseteq Path
    /\ \A i \in DOMAIN records : records[i].mail = records[i].path[2]

\* A path is listed, and recorded, once.
Once ==
    /\ \A i, j \in DOMAIN records : records[i].path = records[j].path => i = j
    /\ phase = "scanning" =>
         /\ pending \cap Paths = {}
         /\ \A p \in Places, m \in Mails :
               p[1] \in Waiting => <<p, m>> \notin Paths \cup pending
         /\ \A i, j \in DOMAIN todo : todo[i] = todo[j] => i = j

\* A message is recorded, or has been renamed behind the walk, or is still
\* before it.
Covered ==
    /\ phase = "scanning" =>
         \A m \in there \ behind : Found(m) # {} \/ Ahead(m)
    /\ Finished => \A m \in there \ behind : SeenAt(m) # {}

\* A message that stays is met where it is, and nowhere else.
MetThere ==
    /\ phase = "scanning" =>
         \A m \in there : Still(m) =>
            Found(m) = IF Ahead(m) THEN {} ELSE {at[m]}
    /\ phase \in {"scanned", "listing"} =>
         \A m \in there : Still(m) => SeenAt(m) = {at[m]}

\* The reconciliation meets a message that no longer moves where it is, unless
\* the scan has met it exactly once.
MetAgain ==
    /\ phase \in {"scanning", "scanned"} => listed = {}
    /\ phase = "listing" =>
         \A m \in there : OneMove(m) =>
            \/ \E p \in Places : SeenAt(m) = {p}
            \/ /\ FoundAgain(m) \subseteq {at[m]}
               /\ at[m] \in FoundAgain(m) \/ Ahead(m)
    /\ phase = "accepted" =>
         \A m \in there : OneMove(m) => \E p \in Places : SeenAt(m) = {p}

LibraryInv == LibraryTypes /\ Once /\ Covered /\ MetThere /\ MetAgain

IInv == WorldInv /\ (tool = "library" => LibraryInv)

-----------------------------------------------------------------------------
(* Sequences.                                                              *)

LEMMA HeadAndTail ==
    ASSUME NEW S, NEW s \in Seq(S), s # <<>>
    PROVE  /\ Head(s) \in S /\ Tail(s) \in Seq(S)
           /\ {s[i] : i \in DOMAIN s}
                = {Head(s)} \cup {Tail(s)[i] : i \in DOMAIN Tail(s)}
           /\ (\A i, j \in DOMAIN s : s[i] = s[j] => i = j) =>
                /\ \A i, j \in DOMAIN Tail(s) : Tail(s)[i] = Tail(s)[j] => i = j
                /\ \A i \in DOMAIN Tail(s) : Tail(s)[i] # Head(s)
<1>1. /\ Len(s) \in Nat /\ Len(s) >= 1 /\ DOMAIN s = 1..Len(s)
      /\ Head(s) = s[1] /\ Head(s) \in S
  OBVIOUS
<1>2. Tail(s) \in Seq(S) /\ Len(Tail(s)) = Len(s) - 1
  OBVIOUS
<1>3. DOMAIN Tail(s) = 1..(Len(s) - 1)
  BY <1>1, <1>2
<1>4. \A i \in DOMAIN Tail(s) : Tail(s)[i] = s[i + 1] /\ i + 1 \in DOMAIN s
  BY <1>1, <1>2, <1>3
<1>5. \A i \in DOMAIN s : i # 1 => s[i] = Tail(s)[i - 1] /\ i - 1 \in DOMAIN Tail(s)
  BY <1>1, <1>3, <1>4
<1>6. 1 \in DOMAIN s
  BY <1>1
<1>7. {s[i] : i \in DOMAIN s} \subseteq {Head(s)} \cup {Tail(s)[i] : i \in DOMAIN Tail(s)}
  BY <1>1, <1>5
<1>8. {Head(s)} \cup {Tail(s)[i] : i \in DOMAIN Tail(s)} \subseteq {s[i] : i \in DOMAIN s}
  BY <1>1, <1>4, <1>6
<1>9. ASSUME \A i, j \in DOMAIN s : s[i] = s[j] => i = j
      PROVE  /\ \A i, j \in DOMAIN Tail(s) : Tail(s)[i] = Tail(s)[j] => i = j
             /\ \A i \in DOMAIN Tail(s) : Tail(s)[i] # Head(s)
  <2>1. ASSUME NEW i \in DOMAIN Tail(s), NEW j \in DOMAIN Tail(s), Tail(s)[i] = Tail(s)[j]
        PROVE  i = j
    <3>1. i + 1 = j + 1
      BY <1>4, <1>9, <2>1
    <3>2. QED BY <1>1, <1>3, <3>1
  <2>2. ASSUME NEW i \in DOMAIN Tail(s), Tail(s)[i] = Head(s) PROVE FALSE
    <3>1. i + 1 = 1
      BY <1>1, <1>4, <1>6, <1>9, <2>2
    <3>2. QED BY <1>1, <1>3, <3>1
  <2>3. QED BY <2>1, <2>2
<1>10. QED BY <1>1, <1>2, <1>7, <1>8, <1>9

LEMMA LastAdded ==
    ASSUME NEW S, NEW s \in Seq(S), NEW e \in S, NEW t, t = Append(s, e)
    PROVE  /\ t \in Seq(S)
           /\ DOMAIN t = DOMAIN s \cup {Len(s) + 1} /\ Len(s) + 1 \notin DOMAIN s
           /\ t[Len(s) + 1] = e
           /\ \A i \in DOMAIN s : t[i] = s[i]
<1>1. Len(s) \in Nat /\ DOMAIN s = 1..Len(s)
  OBVIOUS
<1>2. t \in Seq(S) /\ Len(t) = Len(s) + 1 /\ DOMAIN t = 1..(Len(s) + 1)
  OBVIOUS
<1>3. t[Len(s) + 1] = e /\ \A i \in DOMAIN s : t[i] = s[i]
  BY <1>1
<1>4. QED BY <1>1, <1>2, <1>3

\* The walk of the library meets each directory once.
LEMMA WalkOnce ==
    /\ SortedDirs \in Seq(Dirs)
    /\ {SortedDirs[i] : i \in DOMAIN SortedDirs} = Dirs
    /\ \A i, j \in DOMAIN SortedDirs : SortedDirs[i] = SortedDirs[j] => i = j
<1> DEFINE n == Len(SortedDirs)
<1>1. /\ SortedDirs \in Seq(Dirs) /\ n = Cardinality(Dirs)
      /\ {SortedDirs[i] : i \in DOMAIN SortedDirs} = Dirs
  BY ScanAssumption
<1>2. n \in Nat /\ DOMAIN SortedDirs = 1..n /\ SortedDirs \in [1..n -> Dirs]
  BY <1>1
<1>3. SortedDirs \in Surjection(1..n, Dirs)
  BY <1>1, <1>2 DEF Surjection
<1>4. IsFiniteSet(1..n) /\ Cardinality(1..n) = n
  <2>1. IsFiniteSet(1..n) /\ Cardinality(1..n) = IF 1 > n THEN 0 ELSE n - 1 + 1
    BY <1>2, FS_Interval
  <2>2. QED BY <1>2, <2>1
<1>5. SortedDirs \in Injection(1..n, Dirs)
  <2> HIDE DEF n
  <2>1. Cardinality(Dirs) = Cardinality(1..n) <=> SortedDirs \in Injection(1..n, Dirs)
    BY <1>3, <1>4, FS_Surjection
  <2>2. Cardinality(1..n) = n /\ n = Cardinality(Dirs)
    BY <1>1, <1>4
  <2>3. QED BY <2>1, <2>2, Zenon
<1>6. QED BY <1>1, <1>2, <1>5 DEF Injection, IsInjective

-----------------------------------------------------------------------------
(* The steps of the world.                                                 *)

LEMMA SameScan ==
    ASSUME UNCHANGED scan
    PROVE  /\ Paths' = Paths /\ Waiting' = Waiting
           /\ \A m : /\ SeenAt(m)' = SeenAt(m) /\ Found(m)' = Found(m)
                     /\ FoundAgain(m)' = FoundAgain(m)
           /\ LibraryTypes => LibraryTypes'
           /\ Once => Once'
<1>1. /\ Paths' = Paths /\ Waiting' = Waiting
      /\ \A m : /\ SeenAt(m)' = SeenAt(m) /\ Found(m)' = Found(m)
                /\ FoundAgain(m)' = FoundAgain(m)
  BY DEF scan, Paths, Waiting, SeenAt, Found, FoundAgain
<1>2. LibraryTypes => LibraryTypes'
  BY DEF scan, LibraryTypes
<1>3. Once => Once'
  BY <1>1 DEF scan, Once
<1>4. QED BY <1>1, <1>2, <1>3

LEMMA InitIInv == Init => IInv
<1>1. \A m \in Mails : Init => moved[m] = 0 /\ movedThen[m] = 0
  BY DEF Init
<1>2. Init => WorldInv
  BY <1>1 DEF Init, WorldInv
<1>3. QED BY <1>2 DEF Init, IInv

LEMMA DeliverStep ==
    ASSUME IInv, NEW m \in Mails, Deliver(m)
    PROVE  IInv'
<1>1. PICK p \in Places : at' = [at EXCEPT ![m] = p]
  BY DEF Deliver, Arrive, Dirs, Places
<1>2. m \notin there /\ UNCHANGED <<moved, scan, hist>>
  BY ScanAssumption DEF Deliver, IInv, WorldInv
<1>3. \A k \in there : at'[k] = at[k]
  BY <1>1, <1>2 DEF IInv, WorldInv
<1>4. WorldInv'
  BY <1>1, <1>2, <1>3 DEF IInv, WorldInv, hist
<1>5. ASSUME tool = "library" PROVE LibraryInv'
  <2>1. LibraryTypes' /\ Once'
    BY <1>2, <1>5, SameScan DEF IInv, LibraryInv
  <2>2. Covered'
    BY <1>2, <1>3, <1>5, SameScan DEF IInv, LibraryInv, Covered, Finished, Ahead, scan, hist
  <2>3. MetThere'
    BY <1>2, <1>3, <1>5, SameScan DEF IInv, LibraryInv, MetThere, Still, Ahead, scan, hist
  <2>4. MetAgain'
    BY <1>2, <1>3, <1>5, SameScan
       DEF IInv, LibraryInv, MetAgain, OneMove, RenamedMeanwhile, Ahead, scan, hist
  <2>5. QED BY <2>1, <2>2, <2>3, <2>4 DEF LibraryInv
<1>6. QED BY <1>2, <1>4, <1>5 DEF IInv, scan

LEMMA DiscardStep ==
    ASSUME IInv, NEW m \in Mails, Discard(m)
    PROVE  IInv'
<1>1. /\ at' = [at EXCEPT ![m] = Gone] /\ there' = there \ {m}
      /\ UNCHANGED <<moved, movedThen, behind, scan>>
  BY DEF Discard, Arrive
<1>2. \A k \in there' : k \in there /\ at'[k] = at[k]
  BY <1>1 DEF IInv, WorldInv
<1>3. WorldInv'
  BY <1>1, <1>2 DEF IInv, WorldInv
<1>4. ASSUME tool = "library" PROVE LibraryInv'
  <2>1. LibraryTypes' /\ Once'
    BY <1>1, <1>4, SameScan DEF IInv, LibraryInv
  <2>2. Covered'
    BY <1>1, <1>2, <1>4, SameScan DEF IInv, LibraryInv, Covered, Finished, Ahead, scan
  <2>3. MetThere'
    BY <1>1, <1>2, <1>4, SameScan DEF IInv, LibraryInv, MetThere, Still, Ahead, scan
  <2>4. MetAgain'
    BY <1>1, <1>2, <1>4, SameScan
       DEF IInv, LibraryInv, MetAgain, OneMove, RenamedMeanwhile, Ahead, scan
  <2>5. QED BY <2>1, <2>2, <2>3, <2>4 DEF LibraryInv
<1>5. QED BY <1>1, <1>3, <1>4 DEF IInv, scan

LEMMA RenameStep ==
    ASSUME IInv, NEW m \in Mails, NEW p, Rename(m, p)
    PROVE  IInv'
<1>1. /\ at' = [at EXCEPT ![m] = p] /\ p \in Places
      /\ moved' = [moved EXCEPT ![m] = @ + 1]
      /\ behind' = IF Ahead(m) /\ p[1] \notin Waiting THEN behind \cup {m} ELSE behind
      /\ UNCHANGED <<scan, there, movedThen>>
  BY DEF Rename, Arrive, Waiting, Ahead
<1>2. \A k \in there : k # m => at'[k] = at[k] /\ moved'[k] = moved[k]
  BY <1>1 DEF IInv, WorldInv
<1>3. at'[m] = p /\ moved'[m] = moved[m] + 1 /\ moved[m] \in Nat /\ movedThen[m] \in Nat
      /\ movedThen[m] <= moved[m]
  BY <1>1 DEF IInv, WorldInv
<1>4. WorldInv'
  <2>1. \A k \in Mails : k # m => at'[k] = at[k] /\ moved'[k] = moved[k]
    BY <1>1 DEF IInv, WorldInv
  <2>2. at' \in [Mails -> Places \cup {Unborn, Gone}] /\ moved' \in [Mails -> Nat]
    BY <1>1 DEF IInv, WorldInv
  <2>3. \A k \in Mails : movedThen[k] <= moved'[k]
    BY <1>3, <2>1 DEF IInv, WorldInv
  <2>4. QED BY <1>1, <1>3, <2>1, <2>2, <2>3 DEF IInv, WorldInv
<1>5. ASSUME tool = "library" PROVE LibraryInv'
  <2>1. LibraryTypes' /\ Once'
    BY <1>1, <1>5, SameScan DEF IInv, LibraryInv
  <2>2. Covered'
    BY <1>1, <1>2, <1>3, <1>5, SameScan DEF IInv, LibraryInv, Covered, Finished, Ahead, scan
  <2>3. ~Still(m)'
    BY <1>1, <1>3 DEF Still
  <2>4. MetThere'
    BY <1>1, <1>2, <1>5, <2>3, SameScan DEF IInv, LibraryInv, MetThere, Still, Ahead, scan
  <2>5. OneMove(m)' => Still(m)
    BY <1>1, <1>3 DEF OneMove, RenamedMeanwhile, Still
  <2>6. OneMove(m)' => OneMove(m)
    BY <1>1, <1>3 DEF OneMove, RenamedMeanwhile
  <2>7. m \in there => at[m] \in Places
    BY DEF IInv, WorldInv
  <2>8. \A k \in there : k # m => (OneMove(k)' <=> OneMove(k))
    BY <1>1, <1>2 DEF OneMove, RenamedMeanwhile
  <2>9. MetAgain'
    <3>1. phase' = phase /\ listed' = listed /\ there' = there
      BY <1>1 DEF scan
    <3>2. phase = "listing" /\ m \in there /\ OneMove(m)' => \E c \in Places : SeenAt(m) = {c}
      BY <1>5, <2>5, <2>7 DEF IInv, LibraryInv, MetThere
    <3>3. QED BY <1>2, <1>5, <2>6, <2>8, <3>1, <3>2, SameScan, <1>1
              DEF IInv, LibraryInv, MetAgain, Ahead
  <2>10. QED BY <2>1, <2>2, <2>4, <2>9 DEF LibraryInv
<1>6. QED BY <1>1, <1>4, <1>5 DEF IInv, scan

LEMMA StartStep ==
    ASSUME IInv, NEW t \in Tools, Start(t)
    PROVE  IInv'
<1>1. /\ tool' = t /\ phase' = "scanning" /\ todo' \in Orders(t)
      /\ pending' = {} /\ records' = <<>> /\ listed' = {} /\ behind' = {}
      /\ there' = {m \in Mails : at[m] \in Places} /\ movedThen' = moved
      /\ UNCHANGED <<at, moved>>
  BY DEF Start, world
<1>2. WorldInv'
  BY <1>1 DEF IInv, WorldInv
<1>3. ASSUME t = "library" PROVE LibraryInv'
  <2>1. todo' = SortedDirs /\ Waiting' = Dirs
    BY <1>1, <1>3, WalkOnce DEF Orders, Waiting
  <2>2. Paths' = {} /\ DOMAIN records' = {} /\ records' \in Seq(Rec)
    BY <1>1 DEF Paths
  <2>3. LibraryTypes'
    BY <1>1, <2>1, <2>2, WalkOnce DEF LibraryTypes
  <2>4. Once'
    BY <1>1, <2>1, <2>2, WalkOnce DEF Once
  <2>5. Covered' /\ MetThere'
    BY <1>1, <2>1, <2>2 DEF Covered, Finished, MetThere, Found, Still, Ahead, Places
  <2>6. MetAgain'
    BY <1>1 DEF MetAgain
  <2>7. QED BY <2>3, <2>4, <2>5, <2>6 DEF LibraryInv
<1>4. QED BY <1>1, <1>2, <1>3 DEF IInv

-----------------------------------------------------------------------------
(* The steps of the walk.                                                  *)

\* World and history stay.
LEMMA SameWorld ==
    ASSUME WorldInv, UNCHANGED <<world, hist>>
    PROVE  /\ WorldInv' /\ there' = there /\ behind' = behind /\ at' = at
           /\ Waiting' = Waiting => \A m : Ahead(m)' <=> Ahead(m)
           /\ \A m : (Still(m)' <=> Still(m)) /\ (OneMove(m)' <=> OneMove(m))
BY DEF WorldInv, world, hist, Still, OneMove, RenamedMeanwhile, Ahead

LEMMA ListDirStep ==
    ASSUME IInv, ListDir
    PROVE  IInv'
<1>1. /\ phase = "scanning" /\ phase' = phase /\ pending = {} /\ todo # <<>>
      /\ pending' = Files(Head(todo)) /\ todo' = Tail(todo)
      /\ tool' = tool /\ records' = records /\ listed' = listed
      /\ UNCHANGED <<world, hist>>
  BY DEF ListDir
<1>2. WorldInv' /\ there' = there /\ behind' = behind /\ at' = at
  BY <1>1, SameWorld DEF IInv
<1>3. ASSUME tool = "library" PROVE LibraryInv'
  <2>1. LibraryTypes /\ Once /\ Covered /\ MetThere /\ MetAgain
    BY <1>3 DEF IInv, LibraryInv
  <2>2. /\ Head(todo) \in Dirs /\ Tail(todo) \in Seq(Dirs)
        /\ Waiting = {Head(todo)} \cup Waiting'
        /\ \A i, j \in DOMAIN todo' : todo'[i] = todo'[j] => i = j
        /\ Head(todo) \notin Waiting'
    <3>1. /\ todo \in Seq(Dirs) /\ todo # <<>> /\ todo' = Tail(todo)
          /\ \A i, j \in DOMAIN todo : todo[i] = todo[j] => i = j
      BY <1>1, <2>1 DEF LibraryTypes, Once
    <3>2. /\ Head(todo) \in Dirs /\ Tail(todo) \in Seq(Dirs)
          /\ {todo[i] : i \in DOMAIN todo}
               = {Head(todo)} \cup {Tail(todo)[i] : i \in DOMAIN Tail(todo)}
          /\ \A i, j \in DOMAIN Tail(todo) : Tail(todo)[i] = Tail(todo)[j] => i = j
          /\ \A i \in DOMAIN Tail(todo) : Tail(todo)[i] # Head(todo)
      BY <3>1, HeadAndTail
    <3>3. QED BY <3>1, <3>2 DEF Waiting
  <2>3. /\ Paths' = Paths
        /\ pending' = {<<at[m], m>> : m \in {n \in Mails : at[n] \in Places /\ at[n][1] = Head(todo)}}
    BY <1>1 DEF Paths, Files
  <2>4. LibraryTypes'
    BY <1>1, <2>1, <2>2, <2>3 DEF LibraryTypes, Path
  <2>5. Once'
    <3>1. pending' \cap Paths' = {}
      BY <1>1, <2>1, <2>2, <2>3 DEF Once
    <3>2. \A p \in Places, m \in Mails : p[1] \in Waiting' => <<p, m>> \notin Paths' \cup pending'
      BY <1>1, <2>1, <2>2, <2>3 DEF Once
    <3>3. QED BY <1>1, <2>1, <2>2, <3>1, <3>2 DEF Once
  <2>6. ASSUME NEW m \in there
        PROVE  /\ Found(m)' = IF at[m][1] = Head(todo) THEN Found(m) \cup {at[m]} ELSE Found(m)
               /\ Ahead(m) => at[m][1] = Head(todo) \/ Ahead(m)'
               /\ at[m][1] = Head(todo) => ~Ahead(m)'
               /\ Ahead(m)' => Ahead(m)
    <3>1. at[m] \in Places /\ m \in Mails
      BY DEF IInv, WorldInv
    <3>2. <<at[m], m>> \in pending' <=> at[m][1] = Head(todo)
      BY <2>3, <3>1
    <3>3. \A p \in Places : <<p, m>> \in pending' => p = at[m]
      BY <2>3
    <3>4. Found(m)' = IF at[m][1] = Head(todo) THEN Found(m) \cup {at[m]} ELSE Found(m)
      BY <1>1, <2>3, <3>1, <3>2, <3>3 DEF Found
    <3>5. QED BY <1>2, <2>2, <3>4 DEF Ahead
  <2>7. Covered'
    <3>1. \A m \in there : at[m][1] = Head(todo) => Found(m)' # {}
      BY <2>6
    <3>2. \A m \in there : Found(m) # {} => Found(m)' # {}
      BY <2>6
    <3>3. QED BY <1>1, <1>2, <2>1, <2>6, <3>1, <3>2 DEF Covered, Finished
  <2>8. MetThere'
    BY <1>1, <1>2, <2>1, <2>2, <2>6, SameWorld DEF MetThere, IInv
  <2>9. MetAgain'
    BY <1>1, <2>1 DEF MetAgain
  <2>10. QED BY <2>4, <2>5, <2>7, <2>8, <2>9 DEF LibraryInv
<1>4. QED BY <1>1, <1>2, <1>3 DEF IInv

LEMMA ReadStep ==
    ASSUME IInv, Read
    PROVE  IInv'
<1>1. PICK p \in pending : ParseOrRaise(p) /\ pending' = pending \ {p}
  BY DEF Read
<1>2. /\ phase = "scanning" /\ tool' = tool /\ todo' = todo /\ listed' = listed
      /\ UNCHANGED <<world, hist>>
  BY DEF Read
<1>3. WorldInv' /\ there' = there /\ behind' = behind /\ at' = at
  BY <1>2, SameWorld DEF IInv
<1>4. ASSUME tool = "library" PROVE LibraryInv'
  <2>1. LibraryTypes /\ Once /\ Covered /\ MetThere /\ MetAgain
    BY <1>4 DEF IInv, LibraryInv
  <2>2. p \in Path /\ Waiting' = Waiting
    BY <1>2, <2>1 DEF LibraryTypes, Waiting
  <2>3. CASE Parses(p)
    <3>1. phase' = phase /\ records' = Append(records, Record(p))
      BY <1>1, <2>3 DEF ParseOrRaise
    <3>2. Record(p) = [path |-> p, mail |-> p[2], dup |-> {}]
      BY <1>4 DEF Record, Marks
    <3>3. Record(p) \in Rec
      BY <2>2, <3>2 DEF Rec, Path
    <3>4. /\ records' \in Seq(Rec)
          /\ DOMAIN records' = DOMAIN records \cup {Len(records) + 1}
          /\ Len(records) + 1 \notin DOMAIN records
          /\ records'[Len(records) + 1] = Record(p)
          /\ \A i \in DOMAIN records : records'[i] = records[i]
      BY <2>1, <3>1, <3>3, LastAdded DEF LibraryTypes
    <3>5. Paths' = Paths \cup {p}
      <4>1. Record(p).path = p
        BY <3>2
      <4>2. QED BY <3>4, <4>1 DEF Paths
    <3>6. LibraryTypes'
      <4>1. \A i \in DOMAIN records' : records'[i].mail = records'[i].path[2]
        BY <2>1, <3>2, <3>4 DEF LibraryTypes
      <4>2. QED BY <1>1, <1>2, <2>1, <3>4, <4>1 DEF LibraryTypes
    <3>7. Once'
      <4>1. p \notin Paths /\ Record(p).path = p
        BY <1>1, <1>2, <2>1, <3>2 DEF Once
      <4>2. \A i \in DOMAIN records : records[i].path \in Paths
        BY DEF Paths
      <4>3. \A i, j \in DOMAIN records' : records'[i].path = records'[j].path => i = j
        BY <2>1, <3>4, <4>1, <4>2 DEF Once
      <4>4. pending' \cap Paths' = {}
        BY <1>1, <1>2, <2>1, <3>5 DEF Once
      <4>5. Paths' \cup pending' = Paths \cup pending
        BY <1>1, <3>5
      <4>6. QED BY <1>2, <2>1, <2>2, <4>3, <4>4, <4>5 DEF Once
    <3>8. \A m : Found(m)' = Found(m)
      BY <1>1, <3>5 DEF Found
    <3>9. Covered'
      BY <1>2, <1>3, <2>1, <2>2, <3>1, <3>8 DEF Covered, Finished, Ahead
    <3>10. MetThere'
      BY <1>2, <1>3, <2>1, <2>2, <3>1, <3>8, SameWorld DEF MetThere, IInv
    <3>11. MetAgain'
      BY <1>2, <2>1, <3>1 DEF MetAgain
    <3>12. QED BY <3>6, <3>7, <3>9, <3>10, <3>11 DEF LibraryInv
  <2>4. CASE ~Parses(p)
    <3>1. phase' = "failed" /\ records' = records
      BY <1>1, <1>4, <2>4 DEF ParseOrRaise
    <3>2. LibraryTypes' /\ Once'
      BY <1>1, <1>2, <2>1, <3>1 DEF LibraryTypes, Once
    <3>3. Covered' /\ MetThere' /\ MetAgain'
      BY <3>1 DEF Covered, Finished, MetThere, MetAgain
    <3>4. QED BY <3>2, <3>3 DEF LibraryInv
  <2>5. QED BY <2>3, <2>4
<1>5. QED BY <1>2, <1>3, <1>4 DEF IInv

\* The records stay.
LEMMA SameRecords ==
    ASSUME records' = records
    PROVE  Paths' = Paths /\ \A m : SeenAt(m)' = SeenAt(m)
BY DEF Paths, SeenAt

LEMMA EndScanStep ==
    ASSUME IInv, EndScan
    PROVE  IInv'
<1>1. /\ phase = "scanning" /\ phase' = "scanned" /\ pending = {} /\ todo = <<>>
      /\ tool' = tool /\ todo' = todo /\ pending' = pending /\ listed' = listed
      /\ UNCHANGED <<world, hist>>
      /\ tool = "library" => records' = records
  BY DEF EndScan
<1>2. WorldInv' /\ there' = there /\ behind' = behind /\ at' = at
  BY <1>1, SameWorld DEF IInv
<1>3. ASSUME tool = "library" PROVE LibraryInv'
  <2>1. LibraryTypes /\ Once /\ Covered /\ MetThere /\ MetAgain
    BY <1>3 DEF IInv, LibraryInv
  <2>2. \A m : ~Ahead(m) /\ Found(m) = SeenAt(m) /\ SeenAt(m)' = SeenAt(m)
    BY <1>1, <1>3, SameRecords DEF Waiting, Ahead, Found, SeenAt
  <2>3. LibraryTypes' /\ Once'
    BY <1>1, <1>3, <2>1 DEF LibraryTypes, Once
  <2>4. Covered' /\ MetThere'
    BY <1>1, <1>2, <2>1, <2>2, SameWorld DEF Covered, Finished, MetThere, IInv
  <2>5. MetAgain'
    BY <1>1, <2>1 DEF MetAgain
  <2>6. QED BY <2>3, <2>4, <2>5 DEF LibraryInv
<1>4. QED BY <1>1, <1>2, <1>3 DEF IInv

LEMMA StartReconcileStep ==
    ASSUME IInv, StartReconcile
    PROVE  IInv'
<1>1. /\ tool = "library" /\ phase = "scanned" /\ phase' = "listing"
      /\ todo' = SortedDirs
      /\ tool' = tool /\ records' = records /\ pending' = pending /\ listed' = listed
      /\ UNCHANGED <<world, hist>>
  BY DEF StartReconcile
<1>2. WorldInv' /\ there' = there /\ behind' = behind /\ at' = at
  BY <1>1, SameWorld DEF IInv
<1>3. LibraryTypes /\ Once /\ Covered /\ MetThere /\ MetAgain
  BY <1>1 DEF IInv, LibraryInv
<1>4. LibraryTypes' /\ Once'
  BY <1>1, <1>3, WalkOnce DEF LibraryTypes, Once
<1>5. Covered' /\ MetThere'
  BY <1>1, <1>2, <1>3, SameWorld, SameRecords DEF Covered, Finished, MetThere, IInv
<1>6. MetAgain'
  <2>1. Waiting' = Dirs /\ \A m : FoundAgain(m)' = {}
    BY <1>1, <1>3, WalkOnce DEF Waiting, FoundAgain, MetAgain
  <2>2. \A m \in there : at[m] \in Places /\ at[m][1] \in Dirs
    BY DEF IInv, WorldInv, Places
  <2>3. QED BY <1>1, <1>2, <2>1, <2>2 DEF MetAgain, Ahead
<1>7. QED BY <1>2, <1>4, <1>5, <1>6 DEF IInv, LibraryInv

LEMMA ListAgainStep ==
    ASSUME IInv, ListAgain
    PROVE  IInv'
<1>1. /\ phase = "listing" /\ phase' = phase /\ todo # <<>>
      /\ listed' = listed \cup Files(Head(todo)) /\ todo' = Tail(todo)
      /\ tool' = tool /\ records' = records /\ pending' = pending
      /\ UNCHANGED <<world, hist>>
  BY DEF ListAgain
<1>2. WorldInv' /\ there' = there /\ behind' = behind /\ at' = at
  BY <1>1, SameWorld DEF IInv
<1>3. ASSUME tool = "library" PROVE LibraryInv'
  <2>1. LibraryTypes /\ Once /\ Covered /\ MetThere /\ MetAgain
    BY <1>3 DEF IInv, LibraryInv
  <2>2. /\ Head(todo) \in Dirs /\ Tail(todo) \in Seq(Dirs)
        /\ Waiting = {Head(todo)} \cup Waiting'
    <3>1. todo \in Seq(Dirs)
      BY <2>1 DEF LibraryTypes
    <3>2. /\ Head(todo) \in Dirs /\ Tail(todo) \in Seq(Dirs)
          /\ {todo[i] : i \in DOMAIN todo}
               = {Head(todo)} \cup {Tail(todo)[i] : i \in DOMAIN Tail(todo)}
      BY <1>1, <3>1, HeadAndTail
    <3>3. QED BY <1>1, <3>2 DEF Waiting
  <2>3. Files(Head(todo)) =
          {<<at[m], m>> : m \in {n \in Mails : at[n] \in Places /\ at[n][1] = Head(todo)}}
    BY DEF Files
  <2>4. LibraryTypes' /\ Once'
    BY <1>1, <2>1, <2>2, <2>3 DEF LibraryTypes, Path, Once
  <2>5. Covered' /\ MetThere'
    BY <1>1, <1>2, <2>1, SameWorld, SameRecords DEF Covered, Finished, MetThere, IInv
  <2>6. ASSUME NEW m \in there
        PROVE  /\ FoundAgain(m)' = IF at[m][1] = Head(todo) THEN FoundAgain(m) \cup {at[m]}
                                                             ELSE FoundAgain(m)
               /\ Ahead(m) => at[m][1] = Head(todo) \/ Ahead(m)'
    <3>1. at[m] \in Places /\ m \in Mails
      BY DEF IInv, WorldInv
    <3>2. <<at[m], m>> \in Files(Head(todo)) <=> at[m][1] = Head(todo)
      BY <2>3, <3>1
    <3>3. \A p \in Places : <<p, m>> \in Files(Head(todo)) => p = at[m]
      BY <2>3
    <3>4. FoundAgain(m)' = IF at[m][1] = Head(todo) THEN FoundAgain(m) \cup {at[m]}
                                                    ELSE FoundAgain(m)
      BY <1>1, <3>1, <3>2, <3>3 DEF FoundAgain
    <3>5. QED BY <1>2, <2>2, <3>4 DEF Ahead
  <2>7. MetAgain'
    BY <1>1, <1>2, <2>1, <2>2, <2>6, SameWorld, SameRecords DEF MetAgain, IInv
  <2>8. QED BY <2>4, <2>5, <2>7 DEF LibraryInv
<1>4. QED BY <1>1, <1>2, <1>3 DEF IInv

LEMMA CompareStep ==
    ASSUME IInv, Compare
    PROVE  IInv'
<1>1. /\ phase = "listing" /\ todo = <<>>
      /\ phase' = IF Paths = listed THEN "accepted" ELSE "mismatch"
      /\ tool' = tool /\ todo' = todo /\ records' = records /\ pending' = pending
      /\ listed' = listed /\ UNCHANGED <<world, hist>>
  BY DEF Compare, Agrees
<1>2. WorldInv' /\ there' = there /\ behind' = behind /\ at' = at
  BY <1>1, SameWorld DEF IInv
<1>3. ASSUME tool = "library" PROVE LibraryInv'
  <2>1. LibraryTypes /\ Once /\ Covered /\ MetThere /\ MetAgain
    BY <1>3 DEF IInv, LibraryInv
  <2>2. LibraryTypes' /\ Once'
    BY <1>1, <2>1 DEF LibraryTypes, Once
  <2>3. Covered' /\ MetThere'
    BY <1>1, <1>2, <2>1, SameWorld, SameRecords DEF Covered, Finished, MetThere, IInv
  <2>4. MetAgain'
    <3>1. \A m : ~Ahead(m)
      BY <1>1 DEF Waiting, Ahead
    <3>2. Paths = listed => \A m : FoundAgain(m) = SeenAt(m)
      BY DEF FoundAgain, SeenAt
    <3>3. \A m \in there : at[m] \in Places
      BY DEF IInv, WorldInv
    <3>4. QED
      BY <1>1, <1>2, <2>1, <3>1, <3>2, <3>3, SameWorld, SameRecords DEF MetAgain, IInv
  <2>5. QED BY <2>2, <2>3, <2>4 DEF LibraryInv
<1>4. QED BY <1>1, <1>2, <1>3 DEF IInv

LEMMA StandStill ==
    ASSUME IInv, UNCHANGED <<world, hist, tool, phase, todo, pending, records, listed>>
    PROVE  IInv'
<1>1. WorldInv' /\ there' = there /\ behind' = behind /\ at' = at
  BY SameWorld DEF IInv
<1>2. ASSUME tool = "library" PROVE LibraryInv'
  <2>1. LibraryTypes /\ Once /\ Covered /\ MetThere /\ MetAgain
    BY <1>2 DEF IInv, LibraryInv
  <2>2. Waiting' = Waiting /\ Paths' = Paths
    BY DEF Waiting, Paths
  <2>3. \A m : Found(m)' = Found(m) /\ FoundAgain(m)' = FoundAgain(m)
    BY <2>2 DEF Found, FoundAgain
  <2>4. LibraryTypes' /\ Once'
    BY <2>1, <2>2 DEF LibraryTypes, Once
  <2>5. Covered' /\ MetThere'
    BY <1>1, <2>1, <2>2, <2>3, SameWorld, SameRecords
       DEF Covered, Finished, MetThere, IInv
  <2>6. MetAgain'
    BY <1>1, <2>1, <2>2, <2>3, SameWorld, SameRecords DEF MetAgain, IInv
  <2>7. QED BY <2>4, <2>5, <2>6 DEF LibraryInv
<1>3. QED BY <1>1, <1>2 DEF IInv

LEMMA NextIInv == IInv /\ [Next]_vars => IInv'
<1> SUFFICES ASSUME IInv, [Next]_vars PROVE IInv'
  OBVIOUS
<1>1. CASE UNCHANGED vars
  BY <1>1, StandStill DEF vars, scan
<1>2. CASE Index
  BY <1>2, StandStill DEF Index
<1>3. CASE World
  BY <1>3, DeliverStep, DiscardStep, RenameStep DEF World
<1>4. QED
  BY <1>1, <1>2, <1>3, StartStep, ListDirStep, ReadStep, EndScanStep,
     StartReconcileStep, ListAgainStep, CompareStep DEF Next

-----------------------------------------------------------------------------
(* What is promised.                                                       *)

LEMMA RecordsArePaths ==
    ASSUME LibraryTypes, NEW i \in DOMAIN records
    PROVE  /\ records[i].path[1] \in Places
           /\ records[i].path = <<records[i].path[1], records[i].mail>>
<1>1. records[i] \in Rec /\ records[i].mail = records[i].path[2]
  BY DEF LibraryTypes
<1>2. records[i].path \in Places \X Mails
  BY <1>1 DEF Rec, Path
<1>3. QED BY <1>1, <1>2

\* A scan of the library that ends without an error has a record of every
\* message that was there all the time, but for those renamed behind it
\* (walk.py, parse_email_file).
THEOREM NothingElseMissed == Spec => []MissedOnlyBehind
<1>1. IInv => MissedOnlyBehind
  <2> SUFFICES ASSUME IInv, Finished, tool = "library", NEW m \in there, m \notin Recorded
               PROVE  m \in behind
    BY DEF MissedOnlyBehind
  <2>1. SeenAt(m) = {}
    <3>1. \A i \in DOMAIN records : records[i].path = <<records[i].path[1], records[i].mail>>
      BY RecordsArePaths DEF IInv, LibraryInv
    <3>2. QED BY <3>1 DEF SeenAt, Paths, Recorded
  <2>2. QED BY <2>1 DEF IInv, LibraryInv, Covered
<1>2. QED BY InitIInv, NextIInv, <1>1, PTL DEF Spec

\* Only the library reconciles.
Reconciles == phase \in {"listing", "accepted"} => tool = "library"

LEMMA LibraryReconciles == Spec => []Reconciles
<1>1. Init => Reconciles
  BY DEF Init, Reconciles
<1>2. Reconciles /\ [Next]_vars => Reconciles'
  <2> SUFFICES ASSUME Reconciles, [Next]_vars PROVE Reconciles'
    OBVIOUS
  <2>1. CASE UNCHANGED scan
    BY <2>1 DEF Reconciles, scan
  <2>2. CASE \E t \in Tools : Start(t)
    BY <2>2 DEF Reconciles, Start
  <2>3. CASE ListDir \/ Read \/ EndScan \/ Index
    BY <2>3 DEF Reconciles, ListDir, Read, EndScan, Index, ParseOrRaise
  <2>4. CASE StartReconcile \/ ListAgain \/ Compare
    BY <2>4 DEF Reconciles, StartReconcile, ListAgain, Compare
  <2>5. World => UNCHANGED scan
    BY DEF World, Deliver, Rename, Discard
  <2>6. UNCHANGED vars => UNCHANGED scan
    BY DEF vars
  <2>7. QED BY <2>1, <2>2, <2>3, <2>4, <2>5, <2>6 DEF Next
<1>3. QED BY <1>1, <1>2, PTL DEF Spec

\* When reconcile_inventory accepts the records of a scan, each message that was
\* there all the time, and was renamed at most once since the scan began, has
\* exactly one record (inventory.py): in any Maildir, and whatever the other
\* messages do.
THEOREM AcceptedIsAlwaysExact == Spec => []AcceptedIsExact
<1>1. IInv /\ Reconciles => AcceptedIsExact
  <2> SUFFICES ASSUME IInv, Reconciles, phase = "accepted",
                      NEW m \in there, RenamedMeanwhile(m) <= 1
               PROVE  Times(m) = 1
    BY DEF AcceptedIsExact
  <2>1. LibraryTypes /\ Once /\ MetAgain
    BY DEF IInv, LibraryInv, Reconciles
  <2>2. PICK d \in Places : SeenAt(m) = {d}
    BY <2>1 DEF MetAgain, OneMove
  <2>3. PICK i \in DOMAIN records : records[i].path = <<d, m>>
    BY <2>2 DEF SeenAt, Paths
  <2>4. records[i].mail = m
    BY <2>1, <2>3, RecordsArePaths
  <2>5. ASSUME NEW j \in DOMAIN records, records[j].mail = m PROVE j = i
    <3>1. records[j].path[1] \in Places /\ records[j].path = <<records[j].path[1], m>>
      BY <2>1, <2>5, RecordsArePaths
    <3>2. records[j].path[1] \in SeenAt(m)
      BY <3>1 DEF SeenAt, Paths
    <3>3. records[j].path = <<d, m>>
      BY <2>2, <3>1, <3>2
    <3>4. QED BY <2>1, <2>3, <3>3 DEF Once
  <2>6. {j \in DOMAIN records : records[j].mail = m} = {i}
    BY <2>4, <2>5
  <2>7. QED BY <2>6, FS_Singleton DEF Times
<1>2. QED BY InitIInv, NextIInv, LibraryReconciles, <1>1, PTL DEF Spec

-----------------------------------------------------------------------------
(* Types, for every tool.                                                  *)

AnyRecord == [path : Path, mail : Mails, dup : SUBSET Nat]

\* A record, and a row, is of the message its path names.
Named ==
    /\ \A i \in DOMAIN records : records[i].mail = records[i].path[2]
    /\ \A r \in rows : r[2] = r[1][2]

TypesInv == TypeOK /\ Named

LEMMA WalksAreSequences ==
    ASSUME NEW t, NEW s \in Orders(t)
    PROVE  s \in Seq(Dirs)
<1>1. SortedDirs \in Seq(Dirs) /\ Cardinality(Dirs) \in Nat
  BY ScanAssumption
<1>2. CASE t = "library"
  BY <1>1, <1>2 DEF Orders
<1>3. CASE t # "library"
  <2>1. s \in SetToSeqs(Dirs)
    BY <1>3 DEF Orders, Unsorted
  <2>2. s \in [1..Cardinality(Dirs) -> Dirs]
    BY <2>1 DEF SetToSeqs
  <2>3. QED BY <1>1, <2>2
<1>4. QED BY <1>2, <1>3

LEMMA PartsAreNumbers ==
    ASSUME NEW t, NEW m \in Mails
    PROVE  /\ PartsOf(t, m) \in SUBSET Nat
           /\ \A seen : Repeats(t, m, seen) \in SUBSET PartsOf(t, m)
<1>1. Structure[m] \in Seq(Part)
  BY PartsAssumption
<1>2. DOMAIN Structure[m] \subseteq Nat
  BY <1>1
<1>3. QED BY <1>2 DEF PartsOf, Repeats

LEMMA FilesArePaths ==
    ASSUME NEW d \in Dirs
    PROVE  Files(d) \subseteq Path
BY DEF Files, Path

LEMMA RecordIsTyped ==
    ASSUME NEW p \in Path
    PROVE  /\ Record(p) \in AnyRecord
           /\ Record(p).path = p /\ Record(p).mail = p[2] /\ p[2] \in Mails
           /\ Record(p).dup = Marks(tool, p[2], records)
<1>1. p[2] \in Mails
  BY DEF Path
<1>2. Marks(tool, p[2], records) \in SUBSET Nat
  BY <1>1, PartsAreNumbers DEF Marks
<1>3. QED BY <1>1, <1>2 DEF Record, AnyRecord

LEMMA DedupIsTyped ==
    ASSUME NEW rs \in Seq(AnyRecord)
    PROVE  /\ Dedup(rs) \in Seq(AnyRecord) /\ DOMAIN Dedup(rs) = DOMAIN rs
           /\ \A i \in DOMAIN rs :
                /\ Dedup(rs)[i].path = rs[i].path /\ Dedup(rs)[i].mail = rs[i].mail
                /\ Dedup(rs)[i].dup = Repeats("attachments", rs[i].mail,
                                           Seen("attachments", SubSeq(rs, 1, i - 1)))
<1> DEFINE D(i) == Repeats("attachments", rs[i].mail,
                           Seen("attachments", SubSeq(rs, 1, i - 1)))
<1>1. ASSUME NEW i \in DOMAIN rs
      PROVE  /\ rs[i] \in AnyRecord /\ D(i) \in SUBSET Nat
             /\ Dedup(rs)[i] = [rs[i] EXCEPT !.dup = D(i)]
  <2>1. rs[i] \in AnyRecord
    OBVIOUS
  <2>2. rs[i].mail \in Mails
    BY <2>1 DEF AnyRecord
  <2>3. D(i) \in SUBSET Nat
    BY <2>2, PartsAreNumbers
  <2>4. QED BY <2>1, <2>3 DEF Dedup
<1>2. DOMAIN Dedup(rs) = DOMAIN rs
  BY DEF Dedup
<1> HIDE DEF D
<1>3. ASSUME NEW i \in DOMAIN rs
      PROVE  /\ Dedup(rs)[i] \in AnyRecord
             /\ Dedup(rs)[i].path = rs[i].path /\ Dedup(rs)[i].mail = rs[i].mail
             /\ Dedup(rs)[i].dup = D(i)
  BY <1>1 DEF AnyRecord
<1>4. Dedup(rs) \in Seq(AnyRecord)
  <2>1. Len(rs) \in Nat /\ DOMAIN rs = 1..Len(rs)
    OBVIOUS
  <2>2. Dedup(rs) \in [1..Len(rs) -> AnyRecord]
    BY <1>2, <1>3, <2>1 DEF Dedup
  <2>3. QED BY <2>1, <2>2
<1>5. QED BY <1>2, <1>3, <1>4 DEF D

LEMMA InitTypes == Init => TypesInv
<1> SUFFICES ASSUME Init PROVE TypesInv
  OBVIOUS
<1>1. moved \in [Mails -> Nat] /\ movedThen \in [Mails -> Nat]
  BY DEF Init
<1>2. QED BY <1>1 DEF Init, TypesInv, TypeOK, Named, Phases

LEMMA NextTypes == TypesInv /\ [Next]_vars => TypesInv'
<1> SUFFICES ASSUME TypesInv, [Next]_vars PROVE TypesInv'
  OBVIOUS
<1> USE DEF TypesInv
<1>1. CASE UNCHANGED vars
  BY <1>1 DEF vars, world, scan, hist, TypeOK, Named
<1>2. CASE World
  <2>1. PICK m \in Mails : Deliver(m) \/ (\E p \in Places : Rename(m, p)) \/ Discard(m)
    BY <1>2 DEF World
  <2>2. CASE Deliver(m)
    BY <2>2 DEF Deliver, Arrive, scan, hist, TypeOK, Named, Dirs, Places
  <2>3. CASE Discard(m)
    BY <2>3 DEF Discard, Arrive, scan, TypeOK, Named
  <2>4. CASE \E p \in Places : Rename(m, p)
    <3>1. PICK p \in Places : Rename(m, p)
      BY <2>4
    <3>2. moved[m] + 1 \in Nat
      BY DEF TypeOK
    <3>3. moved' \in [Mails -> Nat] /\ at' \in [Mails -> Places \cup {Unborn, Gone}]
      BY <3>1, <3>2 DEF Rename, Arrive, TypeOK
    <3>4. behind' \in SUBSET Mails
      BY <3>1 DEF Rename, TypeOK
    <3>5. QED BY <3>1, <3>3, <3>4 DEF Rename, scan, TypeOK, Named
  <2>5. QED BY <2>1, <2>2, <2>3, <2>4
<1>3. CASE \E t \in Tools : Start(t)
  <2>1. PICK t \in Tools : Start(t)
    BY <1>3
  <2>2. todo' \in Seq(Dirs)
    BY <2>1, WalksAreSequences DEF Start
  <2>3. records' \in Seq(AnyRecord) /\ DOMAIN records' = {}
    BY <2>1 DEF Start
  <2>4. QED BY <2>1, <2>2, <2>3 DEF Start, world, TypeOK, Named, Phases, AnyRecord
<1>4. CASE ListDir
  <2>1. Head(todo) \in Dirs /\ Tail(todo) \in Seq(Dirs)
    BY <1>4 DEF ListDir, TypeOK
  <2>2. QED BY <1>4, <2>1, FilesArePaths DEF ListDir, world, hist, TypeOK, Named
<1>5. CASE Read
  <2>1. PICK p \in pending : ParseOrRaise(p) /\ pending' = pending \ {p}
    BY <1>5 DEF Read
  <2>2. p \in Path /\ records \in Seq(AnyRecord)
    BY DEF TypeOK, AnyRecord
  <2>3. records' = Append(records, Record(p)) \/ records' = records
    BY <2>1 DEF ParseOrRaise
  <2>4. records' \in Seq(AnyRecord) /\ \A i \in DOMAIN records' : records'[i].mail = records'[i].path[2]
    <3>1. CASE records' = records
      BY <2>2, <3>1 DEF Named
    <3>2. CASE records' = Append(records, Record(p))
      <4>1. /\ records' \in Seq(AnyRecord)
            /\ DOMAIN records' = DOMAIN records \cup {Len(records) + 1}
            /\ records'[Len(records) + 1] = Record(p)
            /\ \A i \in DOMAIN records : records'[i] = records[i]
        BY <2>2, <3>2, RecordIsTyped, LastAdded
      <4>2. QED BY <2>2, <4>1, RecordIsTyped DEF Named
    <3>3. QED BY <2>3, <3>1, <3>2
  <2>5. phase' \in Phases
    BY <2>1 DEF ParseOrRaise, TypeOK, Phases
  <2>6. QED BY <1>5, <2>1, <2>4, <2>5 DEF Read, world, hist, TypeOK, Named, AnyRecord
<1>6. CASE EndScan
  <2>1. records \in Seq(AnyRecord)
    BY DEF TypeOK, AnyRecord
  <2>2. records' = Dedup(records) \/ records' = records
    BY <1>6 DEF EndScan
  <2>3. records' \in Seq(AnyRecord) /\ \A i \in DOMAIN records' : records'[i].mail = records'[i].path[2]
    BY <2>1, <2>2, DedupIsTyped DEF Named
  <2>4. QED BY <1>6, <2>3 DEF EndScan, world, hist, TypeOK, Named, AnyRecord, Phases
<1>7. CASE Index
  <2>1. ASSUME NEW i \in DOMAIN records
        PROVE  StableId(records[i]) \in Path \X Mails
               /\ StableId(records[i])[2] = StableId(records[i])[1][2]
    <3>1. records \in Seq(AnyRecord)
      BY DEF TypeOK, AnyRecord
    <3>2. records[i] \in AnyRecord
      BY <3>1
    <3>3. records[i].path \in Path /\ records[i].mail \in Mails
      BY <3>2 DEF AnyRecord
    <3>4. records[i].mail = records[i].path[2]
      BY DEF Named
    <3>5. QED BY <3>3, <3>4 DEF StableId
  <2>2. QED BY <1>7, <2>1 DEF Index, world, hist, TypeOK, Named
<1>8. CASE StartReconcile
  BY <1>8, ScanAssumption DEF StartReconcile, world, hist, TypeOK, Named, Phases
<1>9. CASE ListAgain
  <2>1. Head(todo) \in Dirs /\ Tail(todo) \in Seq(Dirs)
    BY <1>9 DEF ListAgain, TypeOK
  <2>2. QED BY <1>9, <2>1, FilesArePaths DEF ListAgain, world, hist, TypeOK, Named
<1>10. CASE Compare
  BY <1>10 DEF Compare, world, hist, TypeOK, Named, Phases
<1>11. QED
  BY <1>1, <1>2, <1>3, <1>4, <1>5, <1>6, <1>7, <1>8, <1>9, <1>10 DEF Next

\* Every variable of a scan keeps its type, whichever tool runs: a record is
\* always complete, with the path it was read from (parser.py and the scripts).
THEOREM ScanTypes == Spec => []TypeOK
BY InitTypes, NextTypes, PTL DEF Spec, TypesInv

-----------------------------------------------------------------------------
(* The rows of a message.                                                  *)

\* Where message m is, or was read, listed or indexed.
Known(m) == {p \in Places : \/ <<p, m>> \in Paths \cup pending
                           \/ <<<<p, m>>, m>> \in rows
                           \/ at[m] = p}

\* It has been in at most one place more than it was renamed.
KnownOnce ==
    \A m \in Mails :
        /\ IsFiniteSet(Known(m)) /\ Cardinality(Known(m)) <= 1 + moved[m]
        /\ at[m] = Unborn => Known(m) = {}

\* A step that makes nothing more known keeps the bound.
LEMMA NothingNewKnown ==
    ASSUME KnownOnce, TypesInv, NEW m \in Mails,
           Known(m)' \subseteq Known(m), moved'[m] = moved[m],
           at'[m] = Unborn => at[m] = Unborn
    PROVE  /\ IsFiniteSet(Known(m)') /\ Cardinality(Known(m)') <= 1 + moved'[m]
           /\ at'[m] = Unborn => Known(m)' = {}
<1>1. moved[m] \in Nat
  BY ScanAssumption DEF TypesInv, TypeOK
<1>2. IsFiniteSet(Known(m)) /\ Cardinality(Known(m)) <= 1 + moved[m]
  BY DEF KnownOnce
<1>3. /\ IsFiniteSet(Known(m)') /\ Cardinality(Known(m)') <= Cardinality(Known(m))
  BY <1>2, FS_Subset
<1>4. Cardinality(Known(m)) \in Nat /\ Cardinality(Known(m)') \in Nat
  BY <1>2, <1>3, FS_CardinalityType
<1>5. at'[m] = Unborn => Known(m)' = {}
  BY DEF KnownOnce
<1>6. Cardinality(Known(m)') <= 1 + moved[m]
  <2> DEFINE c == Cardinality(Known(m))
             e == Cardinality(Known(m)')
  <2> HIDE DEF c, e
  <2>1. c \in Nat /\ e \in Nat /\ e <= c /\ c <= 1 + moved[m]
    BY <1>2, <1>3, <1>4 DEF c, e
  <2>2. e <= 1 + moved[m]
    BY <1>1, <2>1
  <2>3. QED BY <2>2 DEF e
<1>7. QED BY <1>3, <1>5, <1>6

\* A message that comes to d is known there as well.
LEMMA OneMoreKnown ==
    ASSUME KnownOnce, TypesInv, NEW m \in Mails, NEW d \in Places,
           Known(m)' \subseteq Known(m) \cup {d}, at'[m] = d,
           Known(m) = {} \/ moved'[m] = moved[m] + 1,
           moved'[m] \in Nat
    PROVE  /\ IsFiniteSet(Known(m)') /\ Cardinality(Known(m)') <= 1 + moved'[m]
           /\ at'[m] = Unborn => Known(m)' = {}
<1> DEFINE K == Known(m)
           L == Known(m)'
<1>1. moved[m] \in Nat
  BY ScanAssumption DEF TypesInv, TypeOK
<1>2. IsFiniteSet(K) /\ Cardinality(K) <= 1 + moved[m]
  BY DEF KnownOnce
<1>3. L \subseteq K \cup {d} /\ (K = {} \/ moved'[m] = moved[m] + 1)
  OBVIOUS
<1> HIDE DEF K, L
<1>4. IsFiniteSet(K \cup {d}) /\ Cardinality(K \cup {d}) <= Cardinality(K) + 1
  <2>1. Cardinality(K) \in Nat
    BY <1>2, FS_CardinalityType
  <2>2. /\ IsFiniteSet(K \cup {d})
        /\ Cardinality(K \cup {d}) = IF d \in K THEN Cardinality(K) ELSE Cardinality(K) + 1
    BY <1>2, FS_AddElement
  <2>3. QED BY <2>1, <2>2
<1>5. IsFiniteSet(L) /\ Cardinality(L) <= Cardinality(K \cup {d})
  BY <1>3, <1>4, FS_Subset
<1>6. Cardinality(K) \in Nat /\ Cardinality(L) \in Nat /\ Cardinality(K \cup {d}) \in Nat
  BY <1>2, <1>4, <1>5, FS_CardinalityType
<1>7. K = {} => Cardinality(K) = 0
  BY FS_EmptySet
<1>8. Cardinality(L) <= 1 + moved'[m]
  BY <1>1, <1>2, <1>3, <1>4, <1>5, <1>6, <1>7
<1>9. at'[m] # Unborn
  BY ScanAssumption
<1>10. QED BY <1>5, <1>8, <1>9 DEF L

LEMMA InitKnown == Init => KnownOnce
<1> SUFFICES ASSUME Init, NEW m \in Mails
             PROVE  /\ IsFiniteSet(Known(m)) /\ Cardinality(Known(m)) <= 1 + moved[m]
                    /\ at[m] = Unborn => Known(m) = {}
  BY DEF KnownOnce
<1>1. Known(m) = {p \in Places : at[m] = p} /\ moved[m] = 0
  BY DEF Init, Known, Paths
<1>2. CASE at[m] = Unborn
  <2>1. Known(m) = {}
    BY <1>1, <1>2, ScanAssumption
  <2>2. QED BY <1>1, <2>1, FS_EmptySet
<1>3. CASE at[m] \in Places
  <2>1. Known(m) = {at[m]} /\ at[m] # Unborn
    BY <1>1, <1>3, ScanAssumption
  <2>2. IsFiniteSet(Known(m)) /\ Cardinality(Known(m)) = 1
    BY <2>1, FS_Singleton
  <2>3. QED BY <1>1, <2>1, <2>2
<1>4. QED BY <1>2, <1>3 DEF Init

LEMMA NextKnown == KnownOnce /\ TypesInv /\ [Next]_vars => KnownOnce'
<1> SUFFICES ASSUME KnownOnce, TypesInv, [Next]_vars, NEW m \in Mails
             PROVE  /\ IsFiniteSet(Known(m)') /\ Cardinality(Known(m)') <= 1 + moved'[m]
                    /\ at'[m] = Unborn => Known(m)' = {}
  BY DEF KnownOnce
<1>1. ASSUME UNCHANGED world, pending' \subseteq pending, rows' = rows, Paths' \subseteq Paths \cup pending
      PROVE  Known(m)' \subseteq Known(m) /\ moved'[m] = moved[m] /\ at'[m] = at[m]
  BY <1>1 DEF Known, world
<1>2. CASE UNCHANGED vars
  <2>1. Paths' = Paths
    BY <1>2 DEF vars, scan, Paths
  <2>2. QED BY <1>1, <1>2, <2>1, NothingNewKnown DEF vars, scan
<1>3. CASE World
  <2>1. PICK k \in Mails : Deliver(k) \/ (\E p \in Places : Rename(k, p)) \/ Discard(k)
    BY <1>3 DEF World
  <2>2. UNCHANGED scan /\ Paths' = Paths
    BY <2>1 DEF Deliver, Rename, Discard, scan, Paths
  <2>3. at \in [Mails -> Places \cup {Unborn, Gone}] /\ moved \in [Mails -> Nat]
    BY DEF TypesInv, TypeOK
  <2>4. CASE k # m
    <3>1. at'[m] = at[m] /\ moved'[m] = moved[m]
      BY <2>1, <2>3, <2>4 DEF Deliver, Rename, Discard, Arrive
    <3>2. Known(m)' \subseteq Known(m)
      BY <2>2, <3>1 DEF Known, scan
    <3>3. QED BY <3>1, <3>2, NothingNewKnown
  <2>5. CASE k = m /\ Deliver(m)
    <3>1. PICK d \in Places : at'[m] = d
      BY <2>3, <2>5 DEF Deliver, Arrive, Dirs, Places
    <3>2. Known(m)' \subseteq Known(m) \cup {d}
      BY <2>2, <3>1 DEF Known, scan
    <3>3. Known(m) = {} /\ moved' = moved
      BY <2>5 DEF KnownOnce, Deliver
    <3>4. QED BY <2>3, <3>1, <3>2, <3>3, OneMoreKnown
  <2>6. CASE k = m /\ Discard(m)
    <3>1. at'[m] = Gone /\ moved' = moved
      BY <2>3, <2>6 DEF Discard, Arrive
    <3>2. Known(m)' \subseteq Known(m)
      BY <2>2, <3>1, ScanAssumption DEF Known, scan
    <3>3. QED BY <3>1, <3>2, NothingNewKnown, ScanAssumption
  <2>7. CASE k = m /\ \E p \in Places : Rename(m, p)
    <3>1. PICK d \in Places : at'[m] = d /\ moved'[m] = moved[m] + 1
      BY <2>3, <2>7 DEF Rename, Arrive
    <3>2. Known(m)' \subseteq Known(m) \cup {d}
      BY <2>2, <3>1 DEF Known, scan
    <3>3. QED BY <2>3, <3>1, <3>2, OneMoreKnown
  <2>8. QED BY <2>1, <2>4, <2>5, <2>6, <2>7
<1>4. CASE \E t \in Tools : Start(t)
  <2>1. Paths' = {}
    BY <1>4 DEF Start, Paths
  <2>2. QED BY <1>1, <1>4, <2>1, NothingNewKnown DEF Start
<1>5. CASE ListDir
  <2>1. UNCHANGED world /\ rows' = rows /\ Paths' = Paths /\ pending' = Files(Head(todo))
    BY <1>5 DEF ListDir, Paths
  <2>2. Known(m)' \subseteq Known(m) /\ at' = at /\ moved' = moved
    BY <2>1 DEF Known, Files, world
  <2>3. QED BY <2>2, NothingNewKnown
<1>6. CASE Read
  <2>1. PICK p \in pending : ParseOrRaise(p) /\ pending' = pending \ {p}
    BY <1>6 DEF Read
  <2>2. records \in Seq(AnyRecord) /\ p \in Path
    BY DEF TypesInv, TypeOK, AnyRecord
  <2>3. records' = records \/ records' = Append(records, Record(p))
    BY <2>1 DEF ParseOrRaise
  <2>4. Paths' \subseteq Paths \cup {p}
    <3>1. CASE records' = records
      BY <3>1 DEF Paths
    <3>2. CASE records' = Append(records, Record(p))
      BY <2>2, <3>2, RecordIsTyped, LastAdded DEF Paths
    <3>3. QED BY <2>3, <3>1, <3>2
  <2>5. QED BY <1>1, <1>6, <2>1, <2>4, NothingNewKnown DEF Read
<1>7. CASE EndScan
  <2>1. records \in Seq(AnyRecord) /\ (records' = Dedup(records) \/ records' = records)
    BY <1>7 DEF TypesInv, TypeOK, AnyRecord, EndScan
  <2>2. Paths' = Paths
    <3>1. /\ DOMAIN records' = DOMAIN records
          /\ \A i \in DOMAIN records : records'[i].path = records[i].path
      BY <2>1, DedupIsTyped
    <3>2. QED BY <3>1 DEF Paths
  <2>3. QED BY <1>1, <1>7, <2>2, NothingNewKnown DEF EndScan
<1>8. CASE Index
  <2>1. UNCHANGED world /\ Paths' = Paths /\ pending' = pending
    BY <1>8 DEF Index, Paths
  <2>2. ASSUME NEW r \in rows', r \notin rows PROVE r[1] \in Paths
    BY <1>8, <2>2 DEF Index, StableId, Paths
  <2>3. Known(m)' \subseteq Known(m) /\ at' = at /\ moved' = moved
    BY <2>1, <2>2 DEF Known, world
  <2>4. QED BY <2>3, NothingNewKnown
<1>9. CASE StartReconcile \/ ListAgain \/ Compare
  <2>1. UNCHANGED <<world, pending, rows>> /\ Paths' = Paths
    BY <1>9 DEF StartReconcile, ListAgain, Compare, Paths
  <2>2. QED BY <1>1, <2>1, NothingNewKnown
<1>10. QED
  BY <1>2, <1>3, <1>4, <1>5, <1>6, <1>7, <1>8, <1>9 DEF Next

\* However often the library is indexed while its messages are delivered, read,
\* moved and removed, a message has at most one row more than it was renamed:
\* indexing a message where it was makes no second row (ids.py,
\* email_stable_id).
THEOREM RowsFollowRenames == Spec => []RowsAreRenames
<1>1. KnownOnce /\ TypesInv => RowsAreRenames
  <2> SUFFICES ASSUME KnownOnce, TypesInv, NEW m \in Mails
               PROVE  Cardinality({r \in rows : r[2] = m}) <= 1 + moved[m]
    BY DEF RowsAreRenames
  <2> DEFINE R == {r \in rows : r[2] = m}
             f == [r \in R |-> r[1][1]]
  <2>1. ASSUME NEW r \in R
        PROVE  r[1][1] \in Known(m) /\ r = <<<<r[1][1], m>>, m>>
    <3>1. r \in Path \X Mails /\ r[2] = m /\ r[1][2] = m /\ r \in rows
      BY DEF TypesInv, TypeOK, Named
    <3>2. r[1] \in Places \X Mails
      BY <3>1 DEF Path
    <3>3. r = <<r[1], r[2]>> /\ r[1] = <<r[1][1], r[1][2]>> /\ r[1][1] \in Places
      BY <3>1, <3>2
    <3>4. r = <<<<r[1][1], m>>, m>>
      BY <3>1, <3>3
    <3>5. QED BY <3>1, <3>3, <3>4 DEF Known
  <2>2. f \in Injection(R, Known(m))
    BY <2>1 DEF Injection, IsInjective
  <2>3. IsFiniteSet(Known(m)) /\ Cardinality(Known(m)) <= 1 + moved[m]
    BY DEF KnownOnce
  <2> HIDE DEF R, f
  <2>4. IsFiniteSet(R) /\ Cardinality(R) <= Cardinality(Known(m))
    BY <2>2, <2>3, FS_Injection
  <2>5. /\ Cardinality(R) \in Nat /\ Cardinality(Known(m)) \in Nat /\ moved[m] \in Nat
    BY <2>3, <2>4, FS_CardinalityType, ScanAssumption DEF TypesInv, TypeOK
  <2>6. Cardinality(R) <= 1 + moved[m]
    BY <2>3, <2>4, <2>5
  <2>7. QED BY <2>6 DEF R
<1>2. QED BY InitTypes, NextTypes, InitKnown, NextKnown, <1>1, PTL DEF Spec

-----------------------------------------------------------------------------
(* The marks of the two reports.                                           *)

\* The digests in the records before the i-th.
SeenBefore(t, i) == UNION {Hashes(t, records[k].mail) : k \in 1..(i - 1)}

\* A part is marked when its digest is in an earlier record, or earlier in its
\* own.
InOrder(t) ==
    \A i \in DOMAIN records :
        records[i].dup = Repeats(t, records[i].mail, SeenBefore(t, i))

MarkedInOrder ==
    /\ tool = "report" => InOrder("report")
    /\ tool = "attachments" /\ phase = "scanned" => InOrder("attachments")

LEMMA LeastNumber ==
    ASSUME NEW S \in SUBSET Nat, S # {}
    PROVE  \E i \in S : \A k \in S : i <= k
<1>1. PICK i \in S : \A k \in S : ~(<<k, i>> \in OpToRel(<, Nat))
  BY NatLessThanWellFounded, WFMin
<1>2. ASSUME NEW k \in S PROVE i <= k
  <2>1. ~(k < i)
    BY <1>1 DEF OpToRel
  <2>2. QED BY <2>1
<1>3. QED BY <1>2

LEMMA SeenInPrefix ==
    ASSUME NEW t, NEW rs \in Seq(AnyRecord), NEW i \in DOMAIN rs
    PROVE  Seen(t, SubSeq(rs, 1, i - 1)) = UNION {Hashes(t, rs[k].mail) : k \in 1..(i - 1)}
<1>1. i \in 1..Len(rs) /\ Len(rs) \in Nat
  OBVIOUS
<1>2. /\ DOMAIN SubSeq(rs, 1, i - 1) = 1..(i - 1)
      /\ \A k \in 1..(i - 1) : SubSeq(rs, 1, i - 1)[k] = rs[k]
  BY <1>1
<1>3. QED BY <1>2 DEF Seen

LEMMA NextMarked == MarkedInOrder /\ TypesInv /\ [Next]_vars => MarkedInOrder'
<1> SUFFICES ASSUME MarkedInOrder, TypesInv, [Next]_vars PROVE MarkedInOrder'
  OBVIOUS
<1>1. records \in Seq(AnyRecord) /\ Len(records) \in Nat /\ DOMAIN records = 1..Len(records)
  BY DEF TypesInv, TypeOK, AnyRecord
<1>2. ASSUME records' = records, NEW t, InOrder(t) PROVE InOrder(t)'
  BY <1>2 DEF InOrder, SeenBefore
<1>3. CASE UNCHANGED <<tool, phase, records>>
  BY <1>2, <1>3 DEF MarkedInOrder
<1>4. CASE World \/ UNCHANGED vars \/ ListDir \/ Index \/ ListAgain
  <2>1. UNCHANGED <<tool, phase, records>>
    BY <1>4 DEF World, Deliver, Rename, Discard, ListDir, Index, ListAgain, vars, scan
  <2>2. QED BY <1>3, <2>1
<1>5. CASE \E t \in Tools : Start(t)
  BY <1>5 DEF Start, MarkedInOrder, InOrder
<1>6. CASE Read
  <2>1. PICK p \in pending : ParseOrRaise(p)
    BY <1>6 DEF Read
  <2>2. /\ tool' = tool /\ phase = "scanning" /\ phase' # "scanned" /\ p \in Path
        /\ records' = records \/ records' = Append(records, Record(p))
    BY <1>6, <2>1 DEF Read, ParseOrRaise, TypesInv, TypeOK
  <2>3. ASSUME tool = "report", records' = Append(records, Record(p))
        PROVE  InOrder("report")'
    <3>1. InOrder("report")
      BY <2>3 DEF MarkedInOrder
    <3>2. /\ Record(p) \in AnyRecord /\ Record(p).mail = p[2]
          /\ Record(p).dup = Repeats("report", p[2], Seen("report", records))
      BY <2>2, <2>3, RecordIsTyped DEF Marks
    <3>3. /\ DOMAIN records' = DOMAIN records \cup {Len(records) + 1}
          /\ records'[Len(records) + 1] = Record(p)
          /\ \A i \in DOMAIN records : records'[i] = records[i]
      BY <1>1, <2>3, <3>2, LastAdded
    <3>4. \A i \in DOMAIN records' : \A k \in 1..(i - 1) : records'[k] = records[k] /\ k \in DOMAIN records
      BY <1>1, <3>3
    <3>5. ASSUME NEW i \in DOMAIN records'
          PROVE  SeenBefore("report", i)' = SeenBefore("report", i)
      BY <3>4 DEF SeenBefore
    <3>6. SeenBefore("report", Len(records) + 1) = Seen("report", records)
      BY <1>1 DEF SeenBefore, Seen
    <3>7. QED BY <3>1, <3>2, <3>3, <3>5, <3>6 DEF InOrder
  <2>4. QED BY <1>2, <2>2, <2>3 DEF MarkedInOrder
<1>7. CASE EndScan
  <2>1. /\ tool' = tool
        /\ records' = IF tool = "attachments" THEN Dedup(records) ELSE records
    BY <1>7 DEF EndScan
  <2>2. ASSUME tool = "attachments" PROVE InOrder("attachments")'
    <3>1. /\ DOMAIN records' = DOMAIN records
          /\ \A i \in DOMAIN records :
               /\ records'[i].mail = records[i].mail
               /\ records'[i].dup = Repeats("attachments", records[i].mail,
                                       Seen("attachments", SubSeq(records, 1, i - 1)))
      BY <1>1, <2>1, <2>2, DedupIsTyped
    <3>2. \A i \in DOMAIN records :
             Seen("attachments", SubSeq(records, 1, i - 1)) = SeenBefore("attachments", i)
      BY <1>1, SeenInPrefix DEF SeenBefore
    <3>3. ASSUME NEW i \in DOMAIN records
          PROVE  SeenBefore("attachments", i)' = SeenBefore("attachments", i)
      <4>1. \A k \in 1..(i - 1) : k \in DOMAIN records
        BY <1>1
      <4>2. QED BY <3>1, <4>1 DEF SeenBefore
    <3>4. QED BY <3>1, <3>2, <3>3 DEF InOrder
  <2>3. QED BY <1>2, <2>1, <2>2 DEF MarkedInOrder
<1>8. CASE StartReconcile \/ Compare
  <2>1. records' = records /\ tool' = tool /\ phase' # "scanned"
    BY <1>8 DEF StartReconcile, Compare
  <2>2. QED BY <1>2, <2>1 DEF MarkedInOrder
<1>9. QED BY <1>4, <1>5, <1>6, <1>7, <1>8 DEF Next

\* Of the parts with one digest, the first one of the first record is the only
\* one that is not marked.
LEMMA FirstIsUnmarked ==
    ASSUME NEW t, TypesInv, InOrder(t), NEW h \in Seen(t, records)
    PROVE  Cardinality(Unmarked(t, h)) = 1
<1> DEFINE mail(i) == records[i].mail
           I == {i \in DOMAIN records : h \in Hashes(t, mail(i))}
<1>1. records \in Seq(AnyRecord)
  BY DEF TypesInv, TypeOK, AnyRecord
<1>2. DOMAIN records = 1..Len(records) /\ Len(records) \in Nat
  BY <1>1
<1>3. ASSUME NEW i \in DOMAIN records PROVE i \in Nat /\ mail(i) \in Mails
  <2>1. records[i] \in AnyRecord
    BY <1>1
  <2>2. QED BY <1>2, <2>1 DEF AnyRecord
<1>4. I # {} /\ I \in SUBSET Nat
  BY <1>3 DEF Seen
<1>5. PICK i \in I : \A x \in I : i <= x
  BY <1>4, LeastNumber
<1> DEFINE K == {k \in PartsOf(t, mail(i)) : Hash(t, mail(i), k) = h}
<1>6. K # {} /\ K \in SUBSET Nat /\ h # <<>>
  BY <1>3, <1>5, PartsAreNumbers DEF Hashes
<1>7. PICK k \in K : \A x \in K : k <= x
  BY <1>6, LeastNumber
<1>8. \A x \in DOMAIN records : records[x].dup = Repeats(t, mail(x), SeenBefore(t, x))
  BY DEF InOrder
<1>9. <<i, k>> \in Unmarked(t, h)
  <2>1. <<i, k>> \in AllParts(t)
    BY <1>5, <1>7 DEF AllParts
  <2>2. h \notin SeenBefore(t, i)
    <3> SUFFICES ASSUME NEW x \in 1..(i - 1), h \in Hashes(t, mail(x)) PROVE FALSE
      BY DEF SeenBefore
    <3>1. x \in I /\ x < i
      BY <1>2, <1>5
    <3>2. QED BY <1>2, <1>5, <3>1
  <2>3. \A x \in PartsOf(t, mail(i)) : x < k => Hash(t, mail(i), x) # h
    <3> SUFFICES ASSUME NEW x \in K, x < k PROVE FALSE
      OBVIOUS
    <3>1. QED BY <1>6, <1>7
  <2>4. k \notin records[i].dup
    BY <1>5, <1>7, <1>8, <2>2, <2>3 DEF Repeats
  <2>5. QED BY <1>7, <2>1, <2>4 DEF Unmarked
<1>10. ASSUME NEW u \in Unmarked(t, h) PROVE u = <<i, k>>
  <2>1. PICK x \in DOMAIN records : \E y \in PartsOf(t, mail(x)) : u = <<x, y>>
    BY DEF Unmarked, AllParts
  <2>2. PICK y \in PartsOf(t, mail(x)) : u = <<x, y>>
    BY <2>1
  <2>3. Hash(t, mail(x), y) = h /\ y \notin Repeats(t, mail(x), SeenBefore(t, x))
    BY <1>8, <2>2 DEF Unmarked
  <2>4. x \in I
    BY <1>6, <2>2, <2>3 DEF Hashes
  <2>5. x = i
    <3> SUFFICES ASSUME x # i PROVE FALSE
      OBVIOUS
    <3>1. i \in 1..(x - 1)
      BY <1>2, <1>5, <2>4
    <3>2. h \in SeenBefore(t, x)
      BY <1>5, <3>1 DEF SeenBefore
    <3>3. QED BY <1>6, <2>2, <2>3, <3>2 DEF Repeats
  <2>6. y = k
    <3> SUFFICES ASSUME y # k PROVE FALSE
      OBVIOUS
    <3>1. y \in K
      BY <2>2, <2>3, <2>5
    <3>2. k < y
      BY <1>6, <1>7, <3>1
    <3>3. k \in PartsOf(t, mail(x)) /\ Hash(t, mail(x), k) = h
      BY <1>7, <2>5
    <3>4. QED BY <1>6, <2>2, <2>3, <3>2, <3>3 DEF Repeats
  <2>7. QED BY <2>2, <2>5, <2>6
<1>11. Unmarked(t, h) = {<<i, k>>}
  BY <1>9, <1>10
<1>12. QED BY <1>11, FS_Singleton

\* Both reports count one part of each digest as the original and the others as
\* duplicates, the repeated ones in one message as well, whatever the order of
\* the walk and whatever vanished while it ran (scan_maildir of maildir_scan.py,
\* dedup of maildir_attachments_py2.py).
THEOREM OneOriginalOfEach == Spec => []OneOriginal
<1>1. Init => MarkedInOrder
  BY DEF Init, MarkedInOrder
<1>2. MarkedInOrder /\ TypesInv => OneOriginal
  BY FirstIsUnmarked DEF OneOriginal, MarkedInOrder
<1>3. QED BY InitTypes, NextTypes, NextMarked, <1>1, <1>2, PTL DEF Spec
=============================================================================
