---------------------------- MODULE ReviewProofs ----------------------------
(***************************************************************************)
(* Proofs about Review, for every set of photos, every order of them and   *)
(* any number of requests under way.                                       *)
(***************************************************************************)
EXTENDS Review, FiniteSetTheorems, SequenceTheorems, WellFoundedInduction, TLAPS

(***************************************************************************)
(* Lists                                                                   *)
(***************************************************************************)

LEMMA RemoveAtIs ==
    ASSUME NEW S, NEW n \in Seq(S), NEW i \in DOMAIN n
    PROVE  /\ RemoveAt(n, i) \in Seq(S)
           /\ Len(RemoveAt(n, i)) = Len(n) - 1
           /\ \A j \in 1..(Len(n) - 1) : RemoveAt(n, i)[j] = IF j < i THEN n[j] ELSE n[j + 1]
<1>1. i \in 1..Len(n) /\ Len(n) \in Nat
  OBVIOUS
<1> DEFINE a == SubSeq(n, 1, i - 1)  b == SubSeq(n, i + 1, Len(n))
<1>2. /\ a \in Seq(S) /\ Len(a) = i - 1
      /\ \A j \in 1..(i - 1) : a[j] = n[j]
  BY <1>1
<1>3. /\ b \in Seq(S) /\ Len(b) = Len(n) - i
      /\ \A j \in 1..(Len(n) - i) : b[j] = n[i + j]
  BY <1>1
<1>4. RemoveAt(n, i) = a \o b
  BY DEF RemoveAt
<1> HIDE DEF a, b
<1>5. /\ a \o b \in Seq(S) /\ Len(a \o b) = Len(n) - 1
      /\ \A j \in 1..(Len(n) - 1) : (a \o b)[j] = IF j < i THEN a[j] ELSE b[j - (i - 1)]
  <2>1. /\ a \o b \in Seq(S) /\ Len(a \o b) = Len(a) + Len(b)
        /\ \A j \in 1..(Len(a) + Len(b)) : (a \o b)[j] = IF j <= Len(a) THEN a[j] ELSE b[j - Len(a)]
    BY <1>2, <1>3, ConcatProperties
  <2> QED BY <1>1, <1>2, <1>3, <2>1
<1>6. \A j \in 1..(Len(n) - 1) : j >= i => b[j - (i - 1)] = n[j + 1]
  BY <1>1, <1>3
<1> QED BY <1>1, <1>2, <1>4, <1>5, <1>6

LEMMA FunctionIsList == ASSUME NEW S, NEW k \in Nat, NEW m \in [1..k -> S] PROVE m \in Seq(S)
OBVIOUS

\* The least of some numbers up to n, by the well-foundedness of inclusion.
LEMMA LeastNumber ==
    ASSUME NEW n \in Nat, NEW T \in SUBSET (1..n), T # {}
    PROVE  \E k \in T : \A m \in T : k <= m
<1> DEFINE F == {1..k : k \in T}
<1>1. IsFiniteSet(1..n)
  BY FS_Interval
<1>2. IsWellFoundedOn(StrictSubsetOrdering(1..n), FiniteSubsetsOf(1..n))
  BY <1>1, FS_StrictSubsetOrderingWellFounded
<1>3. F \subseteq FiniteSubsetsOf(1..n) /\ F # {}
  <2>1. \A k \in T : IsFiniteSet(1..k) /\ (1..k) \in SUBSET (1..n)
    <3> SUFFICES ASSUME NEW k \in T PROVE IsFiniteSet(1..k) /\ (1..k) \in SUBSET (1..n)
      OBVIOUS
    <3>1. (1..k) \in SUBSET (1..n)
      OBVIOUS
    <3> QED BY <1>1, <3>1, FS_Subset
  <2> QED BY <2>1 DEF FiniteSubsetsOf
<1>4. PICK x \in F : \A y \in F : ~(<<y, x>> \in StrictSubsetOrdering(1..n))
  BY <1>2, <1>3, WFMin
<1>5. PICK k \in T : x = 1..k
  BY <1>4
<1>6. ASSUME NEW m \in T, m < k PROVE FALSE
  <2>1. (1..m) \in SUBSET (1..n) /\ (1..k) \in SUBSET (1..n) /\ (1..m) \subseteq (1..k)
    BY <1>6
  <2>2. k \in (1..k) /\ k \notin (1..m)
    BY <1>6
  <2>3. <<1..m, 1..k>> \in StrictSubsetOrdering(1..n)
    BY <2>1, <2>2 DEF StrictSubsetOrdering
  <2> QED BY <1>4, <1>5, <2>3
<1> QED BY <1>6

LEMMA SetToSeqIs ==
    ASSUME NEW S, IsFiniteSet(S)
    PROVE  /\ SetToSeq(S) \in [1..Cardinality(S) -> S]
           /\ IsInjective(SetToSeq(S))
<1>1. \E f \in [1..Cardinality(S) -> S] : IsInjective(f)
  BY FS_CardinalityType DEF ExistsBijection, Bijection, Injection, IsInjective
<1> QED BY <1>1 DEF SetToSeq

LEMMA OneToSeq == ASSUME NEW x PROVE SetToSeq({x}) = <<x>>
<1>1. Cardinality({x}) = 1 /\ IsFiniteSet({x})
  BY FS_Singleton
<1>2. SetToSeq({x}) \in [1..1 -> {x}]
  BY <1>1, SetToSeqIs
<1> QED BY <1>2

(* The sublist of some of the photos of a list that names each once.       *)
LEMMA InOrderIs ==
    ASSUME NEW U, NEW list \in Seq(U), IsInjective(list), NEW S \in SUBSET ToSet(list)
    PROVE  InOrder(S, list) \in Seq(S) /\ IsInjective(InOrder(S, list))
<1> DEFINE D == {i \in DOMAIN list : list[i] \in S}
           upTo(i) == {j \in D : j <= i}
           rank == [i \in D |-> Cardinality(upTo(i))]
           n == Cardinality(D)
<1>1. /\ D \in SUBSET (1..Len(list)) /\ D \in SUBSET Nat /\ IsFiniteSet(D) /\ n \in Nat
      /\ DOMAIN list = 1..Len(list)
  <2>1. D \in SUBSET (1..Len(list)) /\ DOMAIN list = 1..Len(list) /\ Len(list) \in Nat
    OBVIOUS
  <2>2. IsFiniteSet(1..Len(list))
    BY <2>1, FS_Interval
  <2> QED BY <2>1, <2>2, FS_Subset, FS_CardinalityType
<1>2. \A x, y \in D : list[x] = list[y] => x = y
  BY DEF IsInjective
<1>3. Cardinality(S) = n
  <2>1. [i \in D |-> list[i]] \in Bijection(D, S)
    BY <1>2 DEF Bijection, Injection, Surjection, IsInjective, ToSet
  <2> QED BY <1>1, <2>1, FS_Bijection DEF ExistsBijection
<1>4. (\A i \in D : i \in Nat) /\ n \in Nat /\ \A k \in 1..n : k \in Nat
  BY <1>1
<1> HIDE DEF D, n
<1>5. \A i \in D : upTo(i) \in SUBSET D /\ IsFiniteSet(upTo(i)) /\ rank[i] \in 1..n
  <2> SUFFICES ASSUME NEW i \in D
               PROVE  upTo(i) \in SUBSET D /\ IsFiniteSet(upTo(i)) /\ rank[i] \in 1..n
    OBVIOUS
  <2>1. upTo(i) \in SUBSET D /\ i \in upTo(i)
    BY <1>4
  <2>2. IsFiniteSet(upTo(i)) /\ Cardinality(upTo(i)) <= n
    BY <1>1, <2>1, FS_Subset DEF n
  <2>3. Cardinality(upTo(i)) \in Nat /\ Cardinality(upTo(i)) # 0
    BY <2>1, <2>2, FS_CardinalityType, FS_EmptySet
  <2> QED BY <1>1, <2>1, <2>2, <2>3
<1>6. \A x, y \in D : x < y => rank[x] < rank[y]
  <2> SUFFICES ASSUME NEW x \in D, NEW y \in D, x < y PROVE rank[x] < rank[y]
    OBVIOUS
  <2>1. upTo(x) \in SUBSET upTo(y) /\ y \in upTo(y) /\ y \notin upTo(x)
    BY <1>4
  <2>2. Cardinality(upTo(x)) <= Cardinality(upTo(y)) /\ Cardinality(upTo(x)) # Cardinality(upTo(y))
    BY <1>5, <2>1, FS_Subset
  <2>3. Cardinality(upTo(x)) \in Nat /\ Cardinality(upTo(y)) \in Nat
    BY <1>5, FS_CardinalityType
  <2> QED BY <2>2, <2>3
<1> HIDE DEF rank
<1>7. rank \in Injection(D, 1..n) /\ rank \in [D -> 1..n]
  <2>1. rank \in [D -> 1..n]
    BY <1>5 DEF rank
  <2>2. \A x, y \in D : rank[x] = rank[y] => x = y
    <3> SUFFICES ASSUME NEW x \in D, NEW y \in D, rank[x] = rank[y], x # y PROVE FALSE
      OBVIOUS
    <3>1. x < y \/ y < x
      BY <1>4
    <3>2. rank[x] \in Nat /\ rank[y] \in Nat
      BY <1>5, <1>4
    <3> QED BY <1>6, <3>1, <3>2
  <2> QED BY <2>1, <2>2 DEF Injection, IsInjective
<1>8. rank \in Surjection(D, 1..n)
  <2>1. IsFiniteSet(1..n) /\ Cardinality(1..n) = n
    BY <1>1, FS_Interval
  <2> QED BY <1>7, <2>1, FS_Injection DEF n
<1> DEFINE at == [k \in 1..n |-> CHOOSE i \in D : rank[i] = k]
           q == [k \in 1..n |-> list[at[k]]]
<1>9. \A k \in 1..n : at[k] \in D /\ rank[at[k]] = k
  BY <1>8 DEF Surjection
<1> HIDE DEF at
<1>10. \A j, k \in 1..n : j < k => at[j] < at[k]
  <2> SUFFICES ASSUME NEW j \in 1..n, NEW k \in 1..n, j < k PROVE at[j] < at[k]
    OBVIOUS
  <2>1. at[j] \in D /\ at[k] \in D /\ rank[at[j]] = j /\ rank[at[k]] = k
    BY <1>9
  <2>2. at[j] \in Nat /\ at[k] \in Nat /\ j \in Nat /\ k \in Nat
    BY <1>4, <2>1
  <2>3. at[j] # at[k] /\ ~(at[k] < at[j])
    BY <1>6, <2>1, <2>2
  <2> QED BY <2>2, <2>3
<1>11. \A k \in 1..n : q[k] \in S /\ Place(q[k], list) = at[k]
  BY <1>9 DEF D, Place, IsInjective
<1>12. q \in [1..Cardinality(S) -> S]
       /\ \A j, k \in DOMAIN q : j < k => Place(q[j], list) < Place(q[k], list)
  BY <1>3, <1>10, <1>11
<1>13. /\ InOrder(S, list) \in [1..n -> S]
       /\ \A j, k \in 1..n :
             j < k => Place(InOrder(S, list)[j], list) < Place(InOrder(S, list)[k], list)
  BY <1>3, <1>12 DEF InOrder
<1> DEFINE r == InOrder(S, list)
<1>14. r \in [1..n -> S] /\ \A j, k \in 1..n : j < k => Place(r[j], list) < Place(r[k], list)
  BY <1>13
<1> HIDE DEF r
<1>15. \A j, k \in 1..n : r[j] = r[k] => j = k
  <2> SUFFICES ASSUME NEW j \in 1..n, NEW k \in 1..n, r[j] = r[k], j # k PROVE FALSE
    OBVIOUS
  <2>1. j < k \/ k < j
    BY <1>1
  <2>2. r[j] \in S
    BY <1>14
  <2>3. Place(r[j], list) \in Nat
    <3>1. \E i \in DOMAIN list : list[i] = r[j]
      BY <2>2 DEF ToSet
    <3> QED BY <1>1, <3>1 DEF Place
  <2> QED BY <1>14, <2>1, <2>3
<1>16. r \in Seq(S) /\ IsInjective(r)
  BY <1>1, <1>14, <1>15 DEF IsInjective
<1> QED BY <1>16 DEF r

(***************************************************************************)
(* What the page and the network hold                                      *)
(***************************************************************************)
(* What the page and the network hold.                                     *)
Rows == [choice : EXPORT_CHOICES \cup {"undecided"}, keep : BOOLEAN]
Changes == UNION {[S -> [choice : EXPORT_CHOICES] \cup [keep : BOOLEAN]] : S \in SUBSET Photo}
AllRows == [Photo -> Rows]
Somebody == Photo \cup {None}
Answers == {<<>>} \cup AllRows \cup Rows \cup SUBSET Photo
Sane(r) ==
    /\ r.kind \in {"queue", "pending"} => r.then = "nothing"
    /\ r.kind = "detail" => r.then \in {"nothing", "reread"}
    /\ r.kind = "post" => r.then \in {"nothing", "reload", "advance", "refresh", "group"}
    /\ r.served /\ r.kind = "queue" => r.answer \in AllRows
    /\ r.served /\ r.kind = "detail" /\ r.photo # None => r.answer \in Rows
Requests ==
    {r \in [kind : {"queue", "pending", "detail", "post"}, by : DOMAIN SortOrder,
            photo : Somebody, change : Changes \cup {<<>>},
            then : {"nothing", "reload", "advance", "refresh", "group", "reread"},
            next : Somebody, served : BOOLEAN, answer : Answers] : Sane(r)}
Fresh == {r \in Requests : ~r.served}

ReviewTypes ==
    /\ row \in AllRows /\ sort \in DOMAIN SortOrder
    /\ grid \in [by : DOMAIN SortOrder, rows : AllRows] \cup {NoGrid}
    /\ detail \in [photo : Somebody, row : Rows]
    /\ net \in Seq(Requests)
    /\ viewer \in Seq(Photo) /\ IsInjective(viewer)
    /\ open \in Somebody /\ (open = None => viewer = <<>>)
    /\ calm \in BOOLEAN /\ judged \in Seq(Photo)

(* No answer on its way and no copy is ahead of the server.                *)
NotAhead(rows) == \A p \in Photo : row[p].choice = "undecided" => rows[p].choice = "undecided"
Late == {r \in Requests : r.kind = "queue" /\ r.served => NotAhead(r.answer)}
Behindhand == NotAhead(grid.rows) /\ net \in Seq(Late)

LEMMA NewRequests ==
    ASSUME sort \in DOMAIN SortOrder
    PROVE  /\ Request \in Requests
           /\ \A by \in DOMAIN SortOrder : [Request EXCEPT !.by = by] \in Requests
           /\ \A by \in DOMAIN SortOrder : Refresh(by) \in Seq(Fresh)
           /\ \A p \in Somebody, then \in {"nothing", "reread"} : Read(p, then) \in Fresh
           /\ \A c \in Changes, then \in {"reload", "advance", "refresh", "group"},
                 next \in Somebody : Post(c, then, next) \in Requests
<1>1. <<>> \in Answers /\ None \in Somebody
  BY DEF Answers, Somebody
<1>2. Request \in Requests
  BY <1>1 DEF Request, Requests, Sane
<1>3. \A by \in DOMAIN SortOrder : [Request EXCEPT !.by = by] \in Requests
  BY <1>1 DEF Request, Requests, Sane
<1>4. \A by \in DOMAIN SortOrder : Refresh(by) \in Seq(Fresh)
  <2>1. [Request EXCEPT !.kind = "pending"] \in Fresh
    BY <1>1 DEF Request, Requests, Sane, Fresh
  <2>2. \A by \in DOMAIN SortOrder : [Request EXCEPT !.by = by] \in Fresh
    BY <1>3 DEF Request, Fresh
  <2> QED BY <2>1, <2>2 DEF Refresh
<1>5. \A p \in Somebody, then \in {"nothing", "reread"} : Read(p, then) \in Fresh
  BY <1>1 DEF Read, Request, Requests, Sane, Fresh
<1>6. \A c \in Changes, then \in {"reload", "advance", "refresh", "group"}, next \in Somebody :
          Post(c, then, next) \in Requests
  BY <1>1 DEF Post, Request, Requests, Sane
<1> QED BY <1>2, <1>3, <1>4, <1>5, <1>6

LEMMA FreshIsRequest == Fresh \subseteq Requests /\ Seq(Fresh) \subseteq Seq(Requests)
<1>1. Fresh \subseteq Requests
  BY DEF Fresh
<1> QED BY <1>1, SeqMonotonic

(* The detail is read again with the sort of the request that was saved.   *)
LEMMA RereadIs ==
    ASSUME sort \in DOMAIN SortOrder, NEW r \in Requests
    PROVE  /\ Reread(r) \in Fresh /\ Reread(r) \in Requests
           /\ Reread(r).kind = "detail" /\ Reread(r).then = "reread" /\ Reread(r).by = r.by
           /\ r.by = sort => Reread(r) = Read(r.next, "reread")
<1>1. r.by \in DOMAIN SortOrder /\ r.next \in Somebody
  BY DEF Requests
<1>2. PICK y : y = Read(r.next, "reread")
  OBVIOUS
<1>3. y \in Fresh /\ y \in Requests
  BY <1>1, <1>2, NewRequests, FreshIsRequest
<1>4. y.by = sort /\ y.kind = "detail" /\ y.then = "reread"
  BY <1>2 DEF Read, Request
<1>5. Reread(r) = [y EXCEPT !.by = r.by]
  BY <1>2 DEF Reread
<1>6. Reread(r) \in Requests
  BY <1>1, <1>3, <1>5 DEF Requests, Sane
<1>7. Reread(r).kind = "detail" /\ Reread(r).then = "reread" /\ Reread(r).by = r.by
  BY <1>3, <1>4, <1>5 DEF Requests
<1>8. Reread(r) \in Fresh
  BY <1>3, <1>5, <1>6 DEF Requests, Fresh
<1>9. r.by = sort => Reread(r) = y
  BY <1>3, <1>4, <1>5 DEF Requests
<1> QED BY <1>2, <1>6, <1>7, <1>8, <1>9

LEMMA NewChanges ==
    /\ \A p \in Photo, c \in EXPORT_CHOICES : [q \in {p} |-> [choice |-> c]] \in Changes
    /\ \A p \in Photo, k \in BOOLEAN : [q \in {p} |-> [keep |-> k]] \in Changes
    /\ \A c \in EXPORT_CHOICES : [q \in Photo |-> [choice |-> c]] \in Changes
<1> DEFINE X == [choice : EXPORT_CHOICES] \cup [keep : BOOLEAN]
<1>1. \A S \in SUBSET Photo : [S -> X] \subseteq Changes
  BY DEF Changes
<1>2. \A c \in EXPORT_CHOICES : [choice |-> c] \in X
  OBVIOUS
<1>3. \A k \in BOOLEAN : [keep |-> k] \in X
  OBVIOUS
<1> HIDE DEF X
<1>4. ASSUME NEW S \in SUBSET Photo, NEW x \in X PROVE [q \in S |-> x] \in Changes
  <2>1. [q \in S |-> x] \in [S -> X]
    BY <1>4
  <2> QED BY <1>1, <2>1
<1>5. \A p \in Photo : {p} \in SUBSET Photo
  OBVIOUS
<1> QED BY <1>2, <1>3, <1>4, <1>5

LEMMA ItemsIs == ReviewTypes => Items \in Seq(Photo) /\ IsInjective(Items)
<1> SUFFICES ASSUME ReviewTypes PROVE Items \in Seq(Photo) /\ IsInjective(Items)
  OBVIOUS
<1>1. CASE grid = NoGrid
  BY <1>1 DEF Items, IsInjective
<1>2. CASE grid # NoGrid
  <2> DEFINE S == {p \in Photo : Matches(grid.rows[p])}
  <2>1. grid.by \in DOMAIN SortOrder
    BY <1>2 DEF ReviewTypes
  <2>2. /\ SortOrder[grid.by] \in Seq(Photo) /\ ToSet(SortOrder[grid.by]) = Photo
        /\ IsInjective(SortOrder[grid.by])
    BY <2>1, ReviewAssumption
  <2>3. Items = InOrder(S, SortOrder[grid.by])
    BY <1>2 DEF Items
  <2>4. S \in SUBSET ToSet(SortOrder[grid.by])
    BY <2>2
  <2> HIDE DEF S
  <2>5. Items \in Seq(S) /\ IsInjective(Items)
    BY <2>2, <2>3, <2>4, InOrderIs
  <2>6. Seq(S) \subseteq Seq(Photo)
    BY <2>2, <2>4, SeqMonotonic
  <2> QED BY <2>5, <2>6
<1> QED BY <1>1, <1>2

LEMMA PositionIs ==
    ASSUME viewer \in Seq(Photo)
    PROVE  /\ \A p : Position(p) \in 0..Len(viewer)
           /\ \A p \in ToSet(viewer) : Position(p) \in 1..Len(viewer) /\ viewer[Position(p)] = p
<1>1. \A p \in ToSet(viewer) : Place(p, viewer) \in 1..Len(viewer) /\ viewer[Place(p, viewer)] = p
  BY DEF Place, ToSet
<1> QED BY <1>1 DEF Position

LEMMA AheadIs ==
    ASSUME viewer \in Seq(Photo), viewer # <<>>
    PROVE  /\ \A k \in Nat \ {0} : Ahead(k) \in ToSet(viewer) /\ Ahead(k) \in Photo
           /\ Behind \in ToSet(viewer) /\ Behind \in Photo
           /\ Following \in ToSet(viewer) /\ Following \in Photo
<1>1. Len(viewer) \in Nat /\ Len(viewer) > 0 /\ DOMAIN viewer = 1..Len(viewer)
      /\ \A i \in 1..Len(viewer) : viewer[i] \in Photo
  OBVIOUS
<1>2. Position(open) \in 0..Len(viewer)
  BY PositionIs
<1>3. \A k \in Nat \ {0} : 1 + ((Position(open) + k - 1) % Len(viewer)) \in 1..Len(viewer)
  BY <1>1, <1>2
<1>4. (IF Position(open) <= 1 THEN Len(viewer) ELSE Position(open) - 1) \in 1..Len(viewer)
  BY <1>1, <1>2
<1>5. \A i \in 1..Len(viewer) : viewer[i] \in ToSet(viewer)
  BY <1>1 DEF ToSet
<1> QED BY <1>1, <1>3, <1>4, <1>5 DEF Ahead, Behind, Following

LEMMA FirstUndecidedIs ==
    ASSUME viewer \in Seq(Photo), viewer # <<>>
    PROVE  /\ FirstUndecided = open \/ FirstUndecided \in ToSet(viewer)
           /\ \A k \in 1..Len(viewer) : grid.rows[Ahead(k)].choice = "undecided" =>
                  \E m \in 1..k : FirstUndecided = Ahead(m)
<1> DEFINE found == {k \in 1..Len(viewer) : grid.rows[Ahead(k)].choice = "undecided"}
<1>1. Len(viewer) \in Nat /\ found \in SUBSET (1..Len(viewer))
  OBVIOUS
<1>2. FirstUndecided = IF found = {} THEN open
                       ELSE Ahead(CHOOSE k \in found : \A m \in found : k <= m)
  BY DEF FirstUndecided
<1>3. CASE found = {}
  BY <1>2, <1>3
<1>4. CASE found # {}
  <2> DEFINE first == CHOOSE k \in found : \A m \in found : k <= m
  <2>1. \E k \in found : \A m \in found : k <= m
    BY <1>1, <1>4, LeastNumber
  <2>2. first \in found /\ \A m \in found : first <= m
    BY <2>1
  <2>3. FirstUndecided = Ahead(first)
    BY <1>2, <1>4
  <2> HIDE DEF first
  <2>4. first \in Nat \ {0}
    BY <1>1, <2>2
  <2>5. FirstUndecided \in ToSet(viewer)
    BY <2>3, <2>4, AheadIs
  <2>6. \A k \in found : first \in 1..k
    BY <1>1, <2>2
  <2> QED BY <2>3, <2>5, <2>6
<1> QED BY <1>3, <1>4

-----------------------------------------------------------------------------

\* What is asked of a photo.
LEMMA ChangedRow ==
    ASSUME row \in AllRows, NEW c \in Changes \cup {<<>>}
    PROVE  /\ [p \in Photo |-> Changed(p, c)] \in AllRows
           /\ \A p \in Photo : row[p].choice # "undecided" => Changed(p, c).choice # "undecided"
           /\ \A p \in Photo : p \notin DOMAIN c => Changed(p, c) = row[p]
<1> SUFFICES ASSUME NEW p \in Photo
             PROVE  /\ Changed(p, c) \in Rows
                    /\ row[p].choice # "undecided" => Changed(p, c).choice # "undecided"
                    /\ p \notin DOMAIN c => Changed(p, c) = row[p]
  BY DEF AllRows
<1>1. row[p] \in Rows
  BY DEF AllRows
<1>2. p \notin DOMAIN c => Changed(p, c) = row[p]
  BY DEF Changed
<1>3. CASE p \in DOMAIN c \ Applied
  <2>1. c[p] \in [choice : EXPORT_CHOICES] \/ c[p] \in [keep : BOOLEAN]
    <3>1. c \in Changes
      BY <1>3
    <3> QED BY <1>3, <3>1 DEF Changes
  <2>2. Changed(p, c) = [choice |-> IF "choice" \in DOMAIN c[p] THEN c[p].choice ELSE row[p].choice,
                         keep |-> IF "keep" \in DOMAIN c[p] THEN c[p].keep ELSE row[p].keep]
    BY <1>1, <1>3 DEF Changed, Rows
  <2>3. CASE c[p] \in [choice : EXPORT_CHOICES]
    BY <1>1, <1>2, <2>2, <2>3 DEF Rows, EXPORT_CHOICES
  <2>4. CASE c[p] \in [keep : BOOLEAN]
    BY <1>1, <1>2, <2>2, <2>4 DEF Rows, EXPORT_CHOICES
  <2> QED BY <2>1, <2>3, <2>4
<1>4. CASE p \notin DOMAIN c \ Applied
  BY <1>1, <1>4 DEF Changed
<1> QED BY <1>2, <1>3, <1>4

\* What is asked of a request.
Answer(r) ==
    CASE r.kind = "queue" -> row [] r.kind = "pending" -> Pending(row)
      [] r.kind = "detail" /\ r.photo # None -> row[r.photo] [] OTHER -> <<>>

LEMMA ServedRequest ==
    ASSUME ReviewTypes, NEW i \in DOMAIN net, Serve(i)
    PROVE  /\ net' \in Seq(Requests) /\ DOMAIN net' = DOMAIN net /\ Len(net') = Len(net)
           /\ \A j \in DOMAIN net : j # i => net'[j] = net[j]
           /\ net'[i] = [net[i] EXCEPT !.served = TRUE, !.answer = Answer(net[i])]
           /\ net'[i] \in Requests /\ net[i] \in Requests /\ ~net[i].served
           /\ row' \in AllRows
           /\ row' = IF net[i].kind = "post" THEN [p \in Photo |-> Changed(p, net[i].change)] ELSE row
<1> DEFINE r == net[i]
           x == [r EXCEPT !.served = TRUE, !.answer = Answer(r)]
<1>1. net \in Seq(Requests) /\ row \in AllRows /\ r \in Requests
  BY DEF ReviewTypes
<1>2. /\ net' = [net EXCEPT ![i].served = TRUE, ![i].answer = Answer(r)] /\ ~r.served
      /\ row' = IF r.kind = "post" THEN [p \in Photo |-> Changed(p, r.change)] ELSE row
  BY DEF Serve, Answer
<1>3. Answer(r) \in Answers
  <2>1. Pending(row) \in SUBSET Photo
    BY DEF Pending
  <2>2. r.kind = "detail" /\ r.photo # None => row[r.photo] \in Rows
    BY <1>1 DEF Requests, AllRows, Somebody
  <2> QED BY <1>1, <2>1, <2>2 DEF Answer, Answers
<1>4. r.kind = "queue" => Answer(r) = row
  BY DEF Answer
<1>5. r.kind = "detail" /\ r.photo # None => Answer(r) \in Rows
  <2>1. r.kind = "detail" /\ r.photo # None => Answer(r) = row[r.photo]
    BY DEF Answer
  <2> QED BY <1>1, <2>1 DEF Requests, AllRows, Somebody
<1>6. row' \in AllRows
  <2>1. r.change \in Changes \cup {<<>>}
    BY <1>1 DEF Requests
  <2> QED BY <1>1, <1>2, <2>1, ChangedRow
<1>7. net' = [net EXCEPT ![i] = x]
  BY <1>1, <1>2
<1> HIDE DEF r
<1>8. x \in Requests
  <2> DEFINE a == Answer(r)
  <2> HIDE DEF a
  <2>1. a \in Answers /\ (r.kind = "queue" => a \in AllRows)
        /\ (r.kind = "detail" /\ r.photo # None => a \in Rows)
    BY <1>1, <1>3, <1>4, <1>5 DEF a
  <2>2. [r EXCEPT !.served = TRUE, !.answer = a] \in Requests
    BY <1>1, <2>1 DEF Requests, Sane
  <2> QED BY <2>2 DEF a
<1> HIDE DEF x
<1>9. net' \in Seq(Requests) /\ DOMAIN net' = DOMAIN net /\ Len(net') = Len(net)
      /\ (\A j \in DOMAIN net : j # i => net'[j] = net[j]) /\ net'[i] = x
  BY <1>1, <1>7, <1>8, ExceptSeq
<1> QED BY <1>1, <1>2, <1>6, <1>8, <1>9 DEF x, r

LEMMA FollowUps ==
    ASSUME ReviewTypes, NEW i \in DOMAIN net
    PROVE  /\ FollowUp(i) \in Seq(Fresh) /\ FollowUp(i) \in Seq(Requests) /\ net[i] \in Requests
           /\ RemoveAt(net, i) \in Seq(Requests)
<1>1. net \in Seq(Requests) /\ sort \in DOMAIN SortOrder /\ net[i] \in Requests
  BY DEF ReviewTypes
<1>2. net[i].by \in DOMAIN SortOrder /\ net[i].next \in Somebody
  BY <1>1 DEF Requests
<1>3. /\ Refresh(net[i].by) \in Seq(Fresh)
      /\ Reread(net[i]) \in Fresh /\ Read(net[i].next, "nothing") \in Fresh
  BY <1>1, <1>2, NewRequests, RereadIs
<1>4. FollowUp(i) \in {<<>>, <<Reread(net[i])>>, Refresh(net[i].by),
                       Refresh(net[i].by) \o <<>>,
                       Refresh(net[i].by) \o <<Read(net[i].next, "nothing")>>}
  BY DEF FollowUp
<1>5. FollowUp(i) \in Seq(Fresh)
  <2>1. PICK a, b, c : a = Refresh(net[i].by) /\ b = Reread(net[i])
                       /\ c = Read(net[i].next, "nothing")
    OBVIOUS
  <2>2. a \in Seq(Fresh) /\ b \in Fresh /\ c \in Fresh
    BY <1>3, <2>1
  <2>3. <<>> \in Seq(Fresh) /\ <<b>> \in Seq(Fresh) /\ <<c>> \in Seq(Fresh)
    BY <2>2
  <2>4. a \o <<>> \in Seq(Fresh) /\ a \o <<c>> \in Seq(Fresh)
    BY <2>2, <2>3, ConcatProperties
  <2> QED BY <1>4, <2>1, <2>2, <2>3, <2>4
<1> QED BY <1>1, <1>5, RemoveAtIs, FreshIsRequest

LEMMA TypesInit == Init => ReviewTypes
<1> SUFFICES ASSUME Init PROVE ReviewTypes
  OBVIOUS
<1>1. Undecided \in Rows
  BY DEF Undecided, Rows
<1>2. row \in AllRows /\ [p \in Photo |-> Undecided] \in AllRows
  BY <1>1 DEF Init, AllRows
<1>3. net \in Seq(Requests)
  BY NewRequests, FreshIsRequest DEF Init
<1> QED BY <1>1, <1>2, <1>3 DEF Init, ReviewTypes, NoDetail, Somebody, IsInjective

\* What the user sends is put at the end.
Sent(x) ==
    /\ net' = Append(net, x)
    /\ \/ /\ SetSort /\ sort' \in DOMAIN SortOrder
          /\ x.kind = "queue" /\ x.then = "nothing" /\ x.by = sort'
       \/ /\ sort' = sort /\ x.kind = "post" /\ x.by = sort
          /\ \/ x.then = "reload" /\ open # None /\ x.next = open
             \/ x.then = "refresh" /\ open = None
             \/ /\ x.then = "advance" /\ open # None /\ x.next = Following
                /\ DOMAIN x.change = {open} /\ (calm' => ~Saving)

Acts == SetSort \/ SetFilter \/ ToggleKeep \/ Bulk \/ \E choice \in EXPORT_CHOICES : Choose(choice)

LEMMA ActsSend ==
    ASSUME ReviewTypes, Acts
    PROVE  /\ UNCHANGED <<row, copies, viewer, open, judged>> /\ calm' \in BOOLEAN /\ (calm' => calm)
           /\ \/ UNCHANGED <<net, sort>>
              \/ \E x \in Fresh : Sent(x)
<1>1. sort \in DOMAIN SortOrder /\ calm \in BOOLEAN /\ viewer \in Seq(Photo) /\ open \in Somebody
      /\ detail.row \in Rows
  BY DEF ReviewTypes
<1>2. CASE SetSort
  <2>1. /\ [Request EXCEPT !.by = sort'] \in Fresh /\ sort' \in DOMAIN SortOrder
        /\ net' = Append(net, [Request EXCEPT !.by = sort'])
    BY <1>1, <1>2, NewRequests DEF SetSort, Request, Fresh
  <2>2. Sent([Request EXCEPT !.by = sort'])
    BY <1>2, <2>1 DEF Sent, Request
  <2> QED BY <1>1, <1>2, <2>1, <2>2 DEF SetSort
<1>3. CASE SetFilter
  BY <1>1, <1>3 DEF SetFilter
<1>4. \A c, then, next : LET x == Post(c, then, next)
                        IN  /\ ~x.served /\ x.kind = "post" /\ x.by = sort /\ x.change = c
                            /\ x.then = then /\ x.next = next
  BY DEF Post, Request
<1>5. CASE ToggleKeep
  <2>1. open \in Photo /\ open \in Somebody /\ (~detail.row.keep) \in BOOLEAN
    BY <1>1, <1>5 DEF ToggleKeep, Somebody
  <2>2. [p \in {open} |-> [keep |-> ~detail.row.keep]] \in Changes
    BY <2>1, NewChanges
  <2>3. PICK x : x = Post([p \in {open} |-> [keep |-> ~detail.row.keep]], "reload", open)
    OBVIOUS
  <2>4. x \in Requests
    BY <1>1, <2>1, <2>2, <2>3, NewRequests
  <2>5. ~x.served /\ x.kind = "post" /\ x.by = sort /\ x.then = "reload" /\ x.next = open
    BY <1>4, <2>3
  <2>6. net' = Append(net, x) /\ sort' = sort /\ open # None
    BY <1>5, <2>3 DEF ToggleKeep, panel
  <2>7. x \in Fresh /\ Sent(x)
    BY <2>4, <2>5, <2>6 DEF Fresh, Sent
  <2> QED BY <1>1, <1>5, <2>7 DEF ToggleKeep
<1>6. CASE Bulk
  <2>1. PICK c \in EXPORT_CHOICES :
            net' = Append(net, Post([p \in Photo |-> [choice |-> c]], "refresh", None))
    BY <1>6 DEF Bulk
  <2>2. None \in Somebody /\ [p \in Photo |-> [choice |-> c]] \in Changes
    BY NewChanges DEF Somebody
  <2>3. PICK x : x = Post([p \in Photo |-> [choice |-> c]], "refresh", None)
    OBVIOUS
  <2>4. x \in Requests
    BY <1>1, <2>2, <2>3, NewRequests
  <2>5. ~x.served /\ x.kind = "post" /\ x.by = sort /\ x.then = "refresh"
    BY <1>4, <2>3
  <2>6. net' = Append(net, x) /\ sort' = sort /\ open = None
    BY <1>6, <2>1, <2>3 DEF Bulk, panel
  <2>7. x \in Fresh /\ Sent(x)
    BY <2>4, <2>5, <2>6 DEF Fresh, Sent
  <2> QED BY <1>1, <1>6, <2>7 DEF Bulk
<1>7. ASSUME NEW c \in EXPORT_CHOICES, Choose(c)
      PROVE  /\ UNCHANGED <<row, copies, viewer, open, judged>> /\ calm' \in BOOLEAN
             /\ (calm' => calm) /\ \E x \in Fresh : Sent(x)
  <2>1. open \in Photo
    BY <1>1, <1>7 DEF Choose, Somebody
  <2>2. [p \in {open} |-> [choice |-> c]] \in Changes
    BY <2>1, NewChanges
  <2>3. Following \in Somebody
    <3>1. viewer # <<>> => Following \in Photo
      BY <1>1, AheadIs
    <3> QED BY <3>1 DEF Following, Somebody
  <2>4. PICK x : x = Post([p \in {open} |-> [choice |-> c]], "advance", Following)
    OBVIOUS
  <2>5. x \in Requests
    BY <1>1, <2>2, <2>3, <2>4, NewRequests
  <2>6. /\ ~x.served /\ x.kind = "post" /\ x.by = sort /\ x.then = "advance" /\ x.next = Following
        /\ DOMAIN x.change = {open}
    BY <1>4, <2>4
  <2>7. net' = Append(net, x) /\ sort' = sort /\ open # None /\ (calm' => ~Saving)
    BY <1>7, <2>4 DEF Choose, panel
  <2>8. x \in Fresh /\ Sent(x)
    BY <2>5, <2>6, <2>7 DEF Fresh, Sent
  <2> QED BY <1>1, <1>7, <2>8 DEF Choose
<1> QED BY <1>2, <1>3, <1>5, <1>6, <1>7 DEF Acts

LEMMA TypesOpen ==
    ASSUME ReviewTypes, NEW p \in Photo, OpenPhoto(p)
    PROVE  ReviewTypes' /\ net' = Append(net, Read(p, "nothing"))
<1>1. Items \in Seq(Photo) /\ IsInjective(Items)
  BY ItemsIs
<1>2. p \in Somebody /\ p # None /\ sort \in DOMAIN SortOrder
  BY ReviewAssumption DEF ReviewTypes, Somebody
<1>3. Read(p, "nothing") \in Requests
  BY <1>2, NewRequests, FreshIsRequest
<1> QED BY <1>1, <1>2, <1>3 DEF OpenPhoto, ReviewTypes, panel, copies, NoGrid

LEMMA TypesClose ==
    ASSUME ReviewTypes, CloseViewer
    PROVE  ReviewTypes'
<1>1. \A r \in Requests : Unmounted(r) \in Requests
  BY DEF Unmounted, Requests, Sane, Somebody
<1>2. net \in Seq(Requests)
  BY DEF ReviewTypes
<1>3. [i \in DOMAIN net |-> Unmounted(net[i])] \in Seq(Requests)
  BY <1>1, <1>2
<1>4. NoDetail \in [photo : Somebody, row : Rows]
  BY DEF NoDetail, Somebody, Rows, Undecided
<1>5. IsInjective(<<>>)
  BY DEF IsInjective
<1> QED BY <1>3, <1>4, <1>5 DEF CloseViewer, ReviewTypes, panel, NoGrid, Somebody

\* Where the viewer goes, and what it reads.
LEMMA Steps ==
    ASSUME ReviewTypes, Walk \/ NextUndecided
    PROVE  /\ open' = open \/ (open' \in ToSet(viewer) /\ open' \in Photo)
           /\ open # None /\ viewer # <<>> /\ GoTo(open')
<1>1. viewer \in Seq(Photo)
  BY DEF ReviewTypes
<1>2. \A x \in ToSet(viewer) : x \in Photo
  BY <1>1 DEF ToSet
<1>3. CASE Walk
  BY <1>1, <1>3, AheadIs DEF Walk, GoTo
<1>4. CASE NextUndecided
  BY <1>1, <1>2, <1>4, FirstUndecidedIs DEF NextUndecided, GoTo
<1> QED BY <1>3, <1>4

LEMMA TypesGoTo ==
    ASSUME ReviewTypes, Walk \/ NextUndecided
    PROVE  ReviewTypes'
<1>1. /\ open' \in Photo /\ open # None /\ GoTo(open') /\ sort \in DOMAIN SortOrder
      /\ open' \in Somebody /\ open' # None
  BY Steps, ReviewAssumption DEF ReviewTypes, Somebody
<1>2. Read(open', "nothing") \in Requests
  BY <1>1, NewRequests, FreshIsRequest
<1>3. net' \in Seq(Requests)
  BY <1>1, <1>2 DEF GoTo, ReviewTypes
<1> QED BY <1>1, <1>3 DEF GoTo, ReviewTypes, panel, copies, NoGrid

\* One request for each photo that is not locked.
LEMMA KeepOnlyPosts ==
    ASSUME ReviewTypes, NEW kept \in Photo, KeepOnly(kept)
    PROVE  \E m \in Seq(Requests) :
               /\ net' = net \o m
               /\ \A i \in DOMAIN m : /\ ~m[i].served /\ m[i].kind = "post" /\ m[i].then = "group"
                                      /\ m[i].by = sort
<1> DEFINE T == Photo \ Applied
           new(p) == Post([q \in {p} |-> [choice |-> IF p = kept THEN "enhanced" ELSE "discard"]],
                          "group", None)
           m == [i \in 1..Cardinality(T) |-> new(SetToSeq(T)[i])]
<1>1. IsFiniteSet(T) /\ Cardinality(T) \in Nat
  <2>1. IsFiniteSet(T)
    BY ReviewAssumption, FS_Subset
  <2> QED BY <2>1, FS_CardinalityType
<1>2. SetToSeq(T) \in [1..Cardinality(T) -> T]
  BY <1>1, SetToSeqIs
<1>3. ASSUME NEW p \in Photo
      PROVE  /\ new(p) \in Requests
             /\ ~new(p).served /\ new(p).kind = "post" /\ new(p).then = "group" /\ new(p).by = sort
  <2>1. (IF p = kept THEN "enhanced" ELSE "discard") \in EXPORT_CHOICES
    BY DEF EXPORT_CHOICES
  <2>2. [q \in {p} |-> [choice |-> IF p = kept THEN "enhanced" ELSE "discard"]] \in Changes
    BY <2>1, NewChanges
  <2>3. None \in Somebody /\ sort \in DOMAIN SortOrder
    BY DEF ReviewTypes, Somebody
  <2> QED BY <2>2, <2>3, NewRequests DEF Post, Request
<1>4. net' = net \o m
  BY DEF KeepOnly
<1> HIDE DEF new
<1>5. \A i \in 1..Cardinality(T) : SetToSeq(T)[i] \in Photo
  BY <1>2
<1>6. m \in Seq(Requests)
  <2>1. \A i \in 1..Cardinality(T) : new(SetToSeq(T)[i]) \in Requests
    BY <1>3, <1>5
  <2>2. m \in [1..Cardinality(T) -> Requests]
    BY <2>1
  <2> HIDE DEF m, T
  <2> QED BY <1>1, <2>2, FunctionIsList
<1>7. \A i \in DOMAIN m :
          ~m[i].served /\ m[i].kind = "post" /\ m[i].then = "group" /\ m[i].by = sort
  BY <1>3, <1>5
<1> HIDE DEF m
<1> QED BY <1>4, <1>6, <1>7

LEMMA TypesArrive ==
    ASSUME ReviewTypes, NEW i \in DOMAIN net, Arrive(i)
    PROVE  ReviewTypes'
<1> DEFINE r == net[i]
<1>1. /\ r \in Requests /\ r.served
      /\ net' = RemoveAt(net, i) \o FollowUp(i)
      /\ RemoveAt(net, i) \in Seq(Requests) /\ FollowUp(i) \in Seq(Requests)
  BY FollowUps DEF Arrive
<1>2. net' \in Seq(Requests)
  BY <1>1, ConcatProperties
<1>3. r.kind = "queue" => r.by \in DOMAIN SortOrder /\ r.answer \in AllRows
  BY <1>1 DEF Requests, Sane
<1>4. grid' \in [by : DOMAIN SortOrder, rows : AllRows] \cup {NoGrid}
  BY <1>3 DEF Arrive, Shown, ReviewTypes
<1>5. detail' \in [photo : Somebody, row : Rows]
  <2>1. r.kind = "detail" /\ r.photo # None => r.photo \in Somebody /\ r.answer \in Rows
    BY <1>1 DEF Requests, Sane
  <2> QED BY <2>1 DEF Arrive, Shown, ReviewTypes
<1>6. open' \in Somebody /\ (open' = None => viewer = <<>>)
  BY <1>1 DEF Arrive, ReviewTypes, Requests
<1>7. r.then = "advance" => SetToSeq(DOMAIN r.change) \in Seq(Photo)
  <2> SUFFICES ASSUME r.then = "advance" PROVE SetToSeq(DOMAIN r.change) \in Seq(Photo)
    OBVIOUS
  <2>1. r.change \in Changes \cup {<<>>}
    BY <1>1 DEF Requests
  <2>2. DOMAIN r.change \in SUBSET Photo
    <3>1. CASE r.change \in Changes
      BY <3>1 DEF Changes
    <3>2. CASE r.change = <<>>
      BY <3>2
    <3> QED BY <2>1, <3>1, <3>2
  <2>3. PICK S \in SUBSET Photo : S = DOMAIN r.change
    BY <2>2
  <2>4. IsFiniteSet(S) /\ Cardinality(S) \in Nat
    BY ReviewAssumption, FS_Subset, FS_CardinalityType
  <2>5. SetToSeq(S) \in [1..Cardinality(S) -> S]
    BY <2>4, SetToSeqIs
  <2>6. SetToSeq(S) \in Seq(Photo)
    BY <2>4, <2>5
  <2> QED BY <2>3, <2>6
<1>8. judged' \in Seq(Photo)
  <2>1. judged \in Seq(Photo) /\ <<>> \in Seq(Photo)
    BY DEF ReviewTypes
  <2>2. judged' = judged \o <<>> \/ (r.then = "advance" /\ judged' = judged \o SetToSeq(DOMAIN r.change))
    BY DEF Arrive
  <2> QED BY <1>7, <2>1, <2>2, ConcatProperties
<1>9. calm' \in BOOLEAN
  BY DEF Arrive, ReviewTypes
<1> QED BY <1>2, <1>4, <1>5, <1>6, <1>8, <1>9 DEF Arrive, ReviewTypes, panel, NoGrid

\* A lost request; the rest of a group is given up.
LeftBy(i) ==
    IF net[i].then = "group"
    THEN [j \in DOMAIN net |-> IF net[j].then = "group"
                               THEN [net[j] EXCEPT !.then = "nothing"] ELSE net[j]]
    ELSE net

LEMMA LostIs ==
    ASSUME ReviewTypes, NEW i \in DOMAIN net, Lost(i)
    PROVE  /\ LeftBy(i) \in Seq(Requests) /\ DOMAIN LeftBy(i) = DOMAIN net
           /\ Len(LeftBy(i)) = Len(net) /\ net[i] \in Requests
           /\ RemoveAt(LeftBy(i), i) \in Seq(Requests)
           /\ \E m \in {<<>>, Refresh(net[i].by)} :
                 net' = RemoveAt(LeftBy(i), i) \o m /\ m \in Seq(Fresh) /\ m \in Seq(Requests)
                 /\ (m # <<>> => net[i].then = "reread")
<1>1. net \in Seq(Requests) /\ net[i] \in Requests /\ sort \in DOMAIN SortOrder
  BY DEF ReviewTypes
<1>2. LeftBy(i) \in Seq(Requests) /\ DOMAIN LeftBy(i) = DOMAIN net
  <2>1. \A r \in Requests : r.then = "group" => [r EXCEPT !.then = "nothing"] \in Requests
    BY DEF Requests, Sane
  <2> QED BY <1>1, <2>1 DEF LeftBy
<1>3. Len(LeftBy(i)) = Len(net)
  BY <1>1, <1>2
<1>4. RemoveAt(LeftBy(i), i) \in Seq(Requests)
  BY <1>2, RemoveAtIs
<1>5. Refresh(net[i].by) \in Seq(Fresh) /\ <<>> \in Seq(Fresh)
  <2>1. net[i].by \in DOMAIN SortOrder
    BY <1>1 DEF Requests
  <2> QED BY <1>1, <2>1, NewRequests
<1>6. net' = RemoveAt(LeftBy(i), i) \o (IF net[i].then = "reread" THEN Refresh(net[i].by) ELSE <<>>)
  BY DEF Lost, LeftBy
<1> QED BY <1>1, <1>2, <1>3, <1>4, <1>5, <1>6, FreshIsRequest

LEMMA TypesStep == ReviewTypes /\ [Next]_vars => ReviewTypes'
<1> SUFFICES ASSUME ReviewTypes, [Next]_vars PROVE ReviewTypes'
  OBVIOUS
<1>1. CASE Acts
  <2>1. /\ UNCHANGED <<row, copies, viewer, open, judged>> /\ calm' \in BOOLEAN
        /\ UNCHANGED <<net, sort>> \/ \E x \in Fresh : Sent(x)
    BY <1>1, ActsSend
  <2>2. net' \in Seq(Requests) /\ sort' \in DOMAIN SortOrder
    <3>1. net \in Seq(Requests) /\ sort \in DOMAIN SortOrder
          /\ \A x \in Requests : Append(net, x) \in Seq(Requests)
      BY DEF ReviewTypes
    <3> QED BY <2>1, <3>1, FreshIsRequest DEF Sent
  <2> QED BY <2>1, <2>2 DEF ReviewTypes, NoGrid, copies
<1>2. CASE \E p \in Photo : OpenPhoto(p)
  BY <1>2, TypesOpen
<1>3. CASE CloseViewer
  BY <1>3, TypesClose
<1>4. CASE Walk \/ NextUndecided
  BY <1>4, TypesGoTo
<1>5. CASE \E p \in Photo : KeepOnly(p)
  <2>1. PICK p \in Photo : KeepOnly(p)
    BY <1>5
  <2>2. net' \in Seq(Requests)
    <3>1. PICK m \in Seq(Requests) : net' = net \o m
      BY <2>1, KeepOnlyPosts
    <3>2. net \in Seq(Requests)
      BY DEF ReviewTypes
    <3> QED BY <3>1, <3>2, ConcatProperties
  <2> QED BY <2>1, <2>2 DEF KeepOnly, ReviewTypes, panel, copies, NoGrid
<1>6. ASSUME NEW i \in DOMAIN net, Serve(i) PROVE ReviewTypes'
  BY <1>6, ServedRequest DEF Serve, ReviewTypes, panel, copies, NoGrid
<1>7. CASE \E i \in DOMAIN net : Arrive(i)
  BY <1>7, TypesArrive
<1>8. ASSUME NEW i \in DOMAIN net, Lost(i) PROVE ReviewTypes'
  <2>1. net' \in Seq(Requests)
    <3>1. PICK m : net' = RemoveAt(LeftBy(i), i) \o m /\ m \in Seq(Requests)
                   /\ RemoveAt(LeftBy(i), i) \in Seq(Requests)
      BY <1>8, LostIs
    <3> QED BY <3>1, ConcatProperties
  <2>2. calm' \in BOOLEAN
    BY <1>8 DEF Lost
  <2> QED BY <1>8, <2>1, <2>2 DEF Lost, ReviewTypes, panel, copies, NoGrid
<1>9. CASE UNCHANGED vars
  BY <1>9 DEF vars, panel, copies, ReviewTypes, NoGrid
<1> QED BY <1>1, <1>2, <1>3, <1>4, <1>5, <1>6, <1>7, <1>8, <1>9 DEF Next, Acts

(***************************************************************************)
(* No photo is passed over                                                 *)
(***************************************************************************)
LEMMA FreshIsLate == Fresh \subseteq Late /\ Seq(Fresh) \subseteq Seq(Late)
<1>1. Fresh \subseteq Late
  BY DEF Fresh, Late
<1> QED BY <1>1, SeqMonotonic

LEMMA LateStep == ReviewTypes /\ Behindhand /\ [Next]_vars => Behindhand'
<1> SUFFICES ASSUME ReviewTypes, Behindhand, [Next]_vars PROVE Behindhand'
  OBVIOUS
<1>1. net \in Seq(Late) /\ NotAhead(grid.rows) /\ row \in AllRows
  BY DEF Behindhand, ReviewTypes
<1>2. ASSUME UNCHANGED <<row, grid>>, net' \in Seq(Late) PROVE Behindhand'
  <2>1. Late' = Late
    BY <1>2 DEF Late, NotAhead
  <2>2. NotAhead(grid.rows)'
    BY <1>1, <1>2 DEF NotAhead
  <2> QED BY <1>2, <2>1, <2>2 DEF Behindhand
<1>3. CASE Acts
  <2>1. UNCHANGED <<row, copies>> /\ (UNCHANGED net \/ \E x \in Fresh : net' = Append(net, x))
    BY <1>3, ActsSend DEF Sent
  <2>2. \A x \in Late : Append(net, x) \in Seq(Late)
    BY <1>1
  <2> QED BY <1>1, <1>2, <2>1, <2>2, FreshIsLate DEF copies
<1>4. ASSUME NEW p \in Photo, OpenPhoto(p) PROVE Behindhand'
  <2>1. Read(p, "nothing") \in Late
    BY NewRequests, FreshIsLate DEF ReviewTypes, Somebody
  <2>2. Append(net, Read(p, "nothing")) \in Seq(Late)
    BY <1>1, <2>1
  <2> QED BY <1>2, <1>4, <2>2 DEF OpenPhoto, copies
<1>5. CASE CloseViewer
  <2>1. \A r \in Late : Unmounted(r) \in Late
    BY DEF Unmounted, Late, Requests, Sane, Somebody
  <2>2. [i \in DOMAIN net |-> Unmounted(net[i])] \in Seq(Late)
    BY <1>1, <2>1
  <2> QED BY <1>2, <1>5, <2>2 DEF CloseViewer
<1>6. CASE Walk \/ NextUndecided
  <2>1. open' \in Somebody /\ GoTo(open') /\ sort \in DOMAIN SortOrder
    BY <1>6, Steps DEF ReviewTypes, Somebody
  <2>2. Read(open', "nothing") \in Late
    BY <2>1, NewRequests, FreshIsLate
  <2>3. Append(net, Read(open', "nothing")) \in Seq(Late)
    BY <1>1, <2>2
  <2> QED BY <1>1, <1>2, <2>1, <2>3 DEF GoTo, copies
<1>7. ASSUME NEW p \in Photo, KeepOnly(p) PROVE Behindhand'
  <2>1. PICK m \in Seq(Requests) : net' = net \o m /\ \A i \in DOMAIN m : ~m[i].served
    BY <1>7, KeepOnlyPosts
  <2>2. m \in Seq(Fresh)
    BY <2>1 DEF Fresh
  <2>3. net' \in Seq(Late)
    BY <1>1, <2>1, <2>2, FreshIsLate, ConcatProperties
  <2> QED BY <1>2, <1>7, <2>3 DEF KeepOnly, copies
<1>8. ASSUME NEW i \in DOMAIN net, Serve(i) PROVE Behindhand'
  <2>1. /\ net' \in Seq(Requests) /\ DOMAIN net' = DOMAIN net /\ net[i] \in Requests
        /\ \A j \in DOMAIN net : j # i => net'[j] = net[j]
        /\ net'[i] = [net[i] EXCEPT !.served = TRUE, !.answer = Answer(net[i])]
        /\ net'[i] \in Requests
        /\ row' = IF net[i].kind = "post" THEN [p \in Photo |-> Changed(p, net[i].change)] ELSE row
    BY <1>8, ServedRequest
  <2>2. \A p \in Photo : row'[p].choice = "undecided" => row[p].choice = "undecided"
    <3>1. net[i].change \in Changes \cup {<<>>}
      BY <2>1 DEF Requests
    <3> QED BY <1>1, <2>1, <3>1, ChangedRow
  <2>3. \A rows : NotAhead(rows) => NotAhead(rows)'
    BY <2>2 DEF NotAhead
  <2>4. \A j \in DOMAIN net : net'[j] \in Late'
    <3>1. \A r \in Late : r \in Late'
      BY <2>3 DEF Late
    <3>2. \A j \in DOMAIN net : net[j] \in Late
      BY <1>1
    <3>3. net'[i] \in Late'
      <4>1. net'[i].kind = net[i].kind /\ net'[i].answer = Answer(net[i])
        BY <2>1 DEF Requests
      <4>2. net[i].kind = "queue" => Answer(net[i]) = row' /\ row' = row
        BY <2>1 DEF Answer
      <4>3. \A rows : rows = row' => NotAhead(rows)'
        BY DEF NotAhead
      <4> QED BY <2>1, <4>1, <4>2, <4>3 DEF Late
    <3> QED BY <2>1, <3>1, <3>2, <3>3
  <2>5. net' \in Seq(Late')
    BY <2>1, <2>4
  <2>6. NotAhead(grid.rows)'
    <3>1. grid' = grid
      BY <1>8 DEF Serve, copies
    <3> QED BY <1>1, <2>2, <3>1 DEF NotAhead
  <2> QED BY <2>5, <2>6 DEF Behindhand
<1>9. ASSUME NEW i \in DOMAIN net, Arrive(i) PROVE Behindhand'
  <2>1. /\ net[i] \in Late /\ net[i].served /\ row' = row
        /\ net' = RemoveAt(net, i) \o FollowUp(i)
        /\ grid' = IF net[i].kind = "queue" THEN [by |-> net[i].by, rows |-> net[i].answer] ELSE grid
    BY <1>1, <1>9 DEF Arrive, Shown
  <2>2. RemoveAt(net, i) \in Seq(Late) /\ FollowUp(i) \in Seq(Late)
    BY <1>1, RemoveAtIs, FollowUps, FreshIsLate
  <2>3. net' \in Seq(Late)
    BY <2>1, <2>2, ConcatProperties
  <2>4. NotAhead(grid'.rows)
    BY <1>1, <2>1 DEF Late
  <2>5. Late' = Late /\ NotAhead(grid.rows)'
    BY <2>1, <2>4 DEF Late, NotAhead
  <2> QED BY <2>3, <2>5 DEF Behindhand
<1>10. ASSUME NEW i \in DOMAIN net, Lost(i) PROVE Behindhand'
  <2>1. LeftBy(i) \in Seq(Late) /\ DOMAIN LeftBy(i) = DOMAIN net
    <3>1. \A r \in Late : r.then = "group" => [r EXCEPT !.then = "nothing"] \in Late
      BY DEF Late, Requests, Sane
    <3> QED BY <1>1, <3>1 DEF LeftBy
  <2>2. PICK m : net' = RemoveAt(LeftBy(i), i) \o m /\ m \in Seq(Fresh)
    BY <1>10, LostIs
  <2>3. RemoveAt(LeftBy(i), i) \in Seq(Late)
    BY <2>1, RemoveAtIs
  <2>4. net' \in Seq(Late)
    BY <2>2, <2>3, FreshIsLate, ConcatProperties
  <2> QED BY <1>2, <1>10, <2>4 DEF Lost, copies
<1>11. CASE UNCHANGED vars
  BY <1>1, <1>2, <1>11 DEF vars, copies
<1> QED BY <1>3, <1>4, <1>5, <1>6, <1>7, <1>8, <1>9, <1>10, <1>11 DEF Next, Acts

(* "." goes to the first photo after the open one that the server has as   *)
(* undecided, or to one before it, and stays only if there is none: the    *)
(* grid it looks at is never ahead of the server (review.js:687).          *)
THEOREM NoneIsSkipped == Spec => NothingSkipped
<1>1. Init => Behindhand
  <2> SUFFICES ASSUME Init PROVE Behindhand
    OBVIOUS
  <2>1. net \in Seq(Fresh)
    BY NewRequests DEF Init
  <2> QED BY <2>1, FreshIsLate DEF Init, Behindhand, NotAhead, NoGrid, Undecided
<1>2. ASSUME ReviewTypes, Behindhand, NextUndecided,
             NEW k \in 1..Len(viewer), row[Ahead(k)].choice = "undecided"
      PROVE  \E m \in 1..k : open' = Ahead(m)
  <2>1. viewer \in Seq(Photo) /\ viewer # <<>> /\ k \in Nat \ {0}
    BY <1>2 DEF ReviewTypes, NextUndecided
  <2>2. Ahead(k) \in Photo
    BY <2>1, AheadIs
  <2>3. grid.rows[Ahead(k)].choice = "undecided"
    BY <1>2, <2>2 DEF Behindhand, NotAhead
  <2>4. open' = FirstUndecided
    BY <1>2 DEF NextUndecided, GoTo
  <2> QED BY <2>1, <2>3, <2>4, FirstUndecidedIs
<1>3. ReviewTypes /\ Behindhand /\ [Next]_vars =>
          [NextUndecided =>
               \A k \in 1..Len(viewer) :
                   row[Ahead(k)].choice = "undecided" => \E m \in 1..k : open' = Ahead(m)]_vars
  BY <1>2
<1> QED BY <1>1, <1>3, TypesInit, TypesStep, LateStep, PTL DEF Spec, NothingSkipped

(***************************************************************************)
(* No photo comes up twice                                                 *)
(***************************************************************************)
(* While nothing crossed: one choice under way at a time, and the photos   *)
(* judged are those behind the one that is open.                           *)
NoneOf(n, Q) == \A i \in DOMAIN n : n[i] \notin Q
AtMostOne(n, Q) == \A i, j \in DOMAIN n : n[i] \in Q /\ n[j] \in Q => i = j

Advances == {r \in Requests : r.then = "advance"}
Coming ==
    {r \in Requests : r.then = "advance" =>
        open # None /\ r.next = Following /\ DOMAIN r.change = {open}}
Back(m) == viewer[IF m < Position(open) THEN Position(open) - m ELSE Position(open) + Len(viewer) - m]
InStep ==
    calm =>
        /\ open # None => open \in ToSet(viewer)
        /\ net \in Seq(Coming) /\ AtMostOne(net, Advances)
        /\ \A m \in 1..Len(judged) : m < Len(viewer) => judged[Len(judged) + 1 - m] = Back(m)

LEMMA NoneOfConcat ==
    ASSUME NEW S, NEW n \in Seq(S), NEW m \in Seq(S), NEW Q, NoneOf(m, Q)
    PROVE  /\ NoneOf(n, Q) => NoneOf(n \o m, Q)
           /\ AtMostOne(n, Q) => AtMostOne(n \o m, Q)
<1>1. /\ n \o m \in Seq(S) /\ Len(n \o m) = Len(n) + Len(m) /\ Len(n) \in Nat /\ Len(m) \in Nat
      /\ DOMAIN n = 1..Len(n) /\ DOMAIN m = 1..Len(m) /\ DOMAIN (n \o m) = 1..(Len(n) + Len(m))
      /\ \A j \in 1..(Len(n) + Len(m)) : (n \o m)[j] = IF j <= Len(n) THEN n[j] ELSE m[j - Len(n)]
  BY ConcatProperties, LenProperties
<1>2. \A j \in DOMAIN (n \o m) : (n \o m)[j] \in Q => j \in DOMAIN n /\ (n \o m)[j] = n[j]
  <2> SUFFICES ASSUME NEW j \in DOMAIN (n \o m), (n \o m)[j] \in Q, j > Len(n) PROVE FALSE
    BY <1>1
  <2>1. (n \o m)[j] = m[j - Len(n)] /\ j - Len(n) \in DOMAIN m
    BY <1>1
  <2> QED BY <2>1 DEF NoneOf
<1> QED BY <1>1, <1>2 DEF NoneOf, AtMostOne

LEMMA NoneOfRemove ==
    ASSUME NEW S, NEW n \in Seq(S), NEW i \in DOMAIN n, NEW Q
    PROVE  /\ NoneOf(n, Q) => NoneOf(RemoveAt(n, i), Q)
           /\ AtMostOne(n, Q) => AtMostOne(RemoveAt(n, i), Q)
           /\ AtMostOne(n, Q) /\ n[i] \in Q => NoneOf(RemoveAt(n, i), Q)
<1>1. /\ Len(n) \in Nat /\ DOMAIN n = 1..Len(n) /\ i \in 1..Len(n)
      /\ DOMAIN RemoveAt(n, i) = 1..(Len(n) - 1)
      /\ \A j \in 1..(Len(n) - 1) : RemoveAt(n, i)[j] = IF j < i THEN n[j] ELSE n[j + 1]
  BY RemoveAtIs
<1> DEFINE from(j) == IF j < i THEN j ELSE j + 1
<1>2. \A j \in DOMAIN RemoveAt(n, i) :
          from(j) \in DOMAIN n /\ from(j) # i /\ RemoveAt(n, i)[j] = n[from(j)]
  BY <1>1
<1>3. \A j, k \in DOMAIN RemoveAt(n, i) : from(j) = from(k) => j = k
  BY <1>1
<1> HIDE DEF from
<1> QED BY <1>2, <1>3 DEF NoneOf, AtMostOne

LEMMA AppendIsConcatOne ==
    ASSUME NEW S, NEW n \in Seq(S), NEW x \in S
    PROVE  /\ Append(n, x) = n \o <<x>> /\ <<x>> \in Seq(S)
           /\ \A Q : x \notin Q => NoneOf(<<x>>, Q)
BY DEF NoneOf

LEMMA AppendToNone ==
    ASSUME NEW S, NEW n \in Seq(S), NEW x \in S, NEW Q, NoneOf(n, Q)
    PROVE  AtMostOne(Append(n, x), Q)
<1>1. /\ Len(n) \in Nat /\ DOMAIN n = 1..Len(n) /\ DOMAIN Append(n, x) = 1..(Len(n) + 1)
      /\ \A j \in 1..Len(n) : Append(n, x)[j] = n[j]
  OBVIOUS
<1>2. \A j \in DOMAIN Append(n, x) : Append(n, x)[j] \in Q => j = Len(n) + 1
  BY <1>1 DEF NoneOf
<1> QED BY <1>2 DEF AtMostOne

LEMMA Savings == ReviewTypes => (Saving <=> ~NoneOf(net, Advances))
<1> SUFFICES ASSUME ReviewTypes PROVE Saving <=> ~NoneOf(net, Advances)
  OBVIOUS
<1>1. \A i \in DOMAIN net : net[i] \in Requests
  BY DEF ReviewTypes
<1> QED BY <1>1 DEF Saving, UnderWay, NoneOf, Advances

\* Only a choice advances.
LEMMA NoAdvance ==
    ASSUME ReviewTypes
    PROVE  /\ \A p \in Somebody, then \in {"nothing", "reread"} : Read(p, then) \notin Advances
           /\ \A i \in DOMAIN net : NoneOf(FollowUp(i), Advances)
           /\ \A by : NoneOf(Refresh(by), Advances)
<1>1. \A p, then : Read(p, then).then = then
  BY DEF Read, Request
<1>2. \A by : NoneOf(Refresh(by), Advances)
  BY DEF Refresh, Request, NoneOf, Advances
<1>3. \A p \in Somebody, then \in {"nothing", "reread"} : Read(p, then) \notin Advances
  BY <1>1 DEF Advances
<1>4. ASSUME NEW i \in DOMAIN net PROVE NoneOf(FollowUp(i), Advances)
  <2>1. PICK a, b, c : a = Refresh(net[i].by) /\ b = Reread(net[i])
                       /\ c = Read(net[i].next, "nothing")
    OBVIOUS
  <2>2. a \in Seq(Requests) /\ b \in Requests /\ c \in Requests /\ b \notin Advances /\ c \notin Advances
        /\ NoneOf(a, Advances)
    <3>1. net[i].by \in DOMAIN SortOrder /\ net[i].next \in Somebody /\ sort \in DOMAIN SortOrder
          /\ net[i] \in Requests
      BY DEF ReviewTypes, Requests
    <3>2. b \in Requests /\ b \notin Advances
      BY <2>1, <3>1, RereadIs DEF Advances
    <3> QED BY <1>2, <1>3, <2>1, <3>1, <3>2, NewRequests, FreshIsRequest
  <2>3. FollowUp(i) \in {<<>>, <<b>>, a, a \o <<>>, a \o <<c>>}
    BY <2>1 DEF FollowUp
  <2>4. NoneOf(<<>>, Advances) /\ NoneOf(<<b>>, Advances) /\ NoneOf(<<c>>, Advances)
    BY <2>2 DEF NoneOf
  <2>5. <<>> \in Seq(Requests) /\ <<c>> \in Seq(Requests)
    BY <2>2
  <2>6. NoneOf(a \o <<>>, Advances) /\ NoneOf(a \o <<c>>, Advances)
    BY <2>2, <2>4, <2>5, NoneOfConcat
  <2> QED BY <2>2, <2>3, <2>4, <2>6
<1> QED BY <1>2, <1>3, <1>4

\* The photo after the open one, and what then lies behind.
LEMMA Onward ==
    ASSUME ReviewTypes, open \in ToSet(viewer), viewer' = viewer, open' = Following
    PROVE  /\ open' \in ToSet(viewer') /\ viewer # <<>>
           /\ 1 < Len(viewer) => open = Back(1)' /\ open' # open
           /\ \A m \in Nat : m > 1 /\ m < Len(viewer) => Back(m - 1) = Back(m)'
<1> DEFINE n == Len(viewer)
           p == Position(open)
           q == IF p = n THEN 1 ELSE p + 1
<1>1. /\ viewer \in Seq(Photo) /\ n \in Nat /\ DOMAIN viewer = 1..n
      /\ \A x, y \in 1..n : viewer[x] = viewer[y] => x = y
  BY DEF ReviewTypes, IsInjective
<1>2. p \in 1..n /\ viewer[p] = open /\ viewer # <<>> /\ n > 0
  <2>1. p \in 1..n /\ viewer[p] = open
    BY <1>1, PositionIs
  <2> QED BY <1>1, <2>1
<1>3. q \in 1..n /\ (n > 1 => q # p)
  BY <1>1, <1>2
<1>4. open' = viewer[q]
  <2>1. Following = viewer[1 + ((p + 1 - 1) % n)]
    BY <1>2 DEF Following, Ahead
  <2>2. n \in Nat /\ p \in 1..n
    BY <1>1, <1>2
  <2> HIDE DEF p, n
  <2>3. 1 + ((p + 1 - 1) % n) = IF p = n THEN 1 ELSE p + 1
    <3>1. CASE p = n
      BY <2>2, <3>1
    <3>2. CASE p < n
      BY <2>2, <3>2
    <3> QED BY <2>2, <3>1, <3>2
  <2> QED BY <2>1, <2>3
<1>5. Position(open)' = q
  <2>1. open' \in ToSet(viewer)
    BY <1>1, <1>3, <1>4 DEF ToSet
  <2>2. Place(open', viewer) \in 1..n /\ viewer[Place(open', viewer)] = open'
    BY <1>1, <1>3, <1>4 DEF Place
  <2>3. Position(open)' = Place(open', viewer)
    BY <2>1 DEF Position
  <2> QED BY <1>1, <1>3, <1>4, <2>2, <2>3
<1>6. \A m : Back(m)' = viewer[IF m < q THEN q - m ELSE q + n - m]
  BY <1>5 DEF Back
<1>7. \A m : Back(m) = viewer[IF m < p THEN p - m ELSE p + n - m]
  BY DEF Back
<1>8. n \in Nat /\ p \in 1..n
  BY <1>1, <1>2
<1> HIDE DEF n, p
<1>9. 1 < n => open = Back(1)' /\ open' # open
  <2>1. 1 < n => (IF 1 < q THEN q - 1 ELSE q + n - 1) = p
    BY <1>8
  <2> QED BY <1>1, <1>2, <1>3, <1>4, <1>6, <2>1
<1>10. ASSUME NEW m \in Nat, m > 1, m < n PROVE Back(m - 1) = Back(m)'
  <2>1. (IF m < q THEN q - m ELSE q + n - m) = IF m - 1 < p THEN p - (m - 1) ELSE p + n - (m - 1)
    BY <1>8, <1>10
  <2> QED BY <1>6, <1>7, <2>1
<1>11. open' \in ToSet(viewer')
  BY <1>1, <1>3, <1>4 DEF ToSet
<1> QED BY <1>2, <1>9, <1>10, <1>11 DEF n

\* One choice more has been saved, and the viewer has gone on.
LEMMA JudgedOnward ==
    ASSUME ReviewTypes, open \in ToSet(viewer), viewer' = viewer, open' = Following,
           judged' = judged \o <<open>>,
           \A m \in 1..Len(judged) : m < Len(viewer) => judged[Len(judged) + 1 - m] = Back(m)
    PROVE  (\A m \in 1..Len(judged) : m < Len(viewer) => judged[Len(judged) + 1 - m] = Back(m))'
<1> DEFINE k == Len(judged)
<1>1. /\ k \in Nat /\ Len(viewer) \in Nat /\ judged \in Seq(Photo) /\ open \in Photo
      /\ \A m \in 1..k : m < Len(viewer) => judged[k + 1 - m] = Back(m)
  BY DEF ReviewTypes, ToSet
<1>2. /\ Len(judged') = k + 1 /\ judged'[k + 1] = open
      /\ \A j \in 1..k : judged'[j] = judged[j]
  BY <1>1
<1>3. /\ 1 < Len(viewer) => open = Back(1)'
      /\ \A m \in Nat : m > 1 /\ m < Len(viewer) => Back(m - 1) = Back(m)'
  BY Onward
<1> HIDE DEF k
<1>4. ASSUME NEW m \in 1..(k + 1), m < Len(viewer) PROVE judged'[k + 2 - m] = Back(m)'
  <2>1. CASE m = 1
    BY <1>1, <1>2, <1>3, <1>4, <2>1
  <2>2. CASE m > 1
    <3>1. m - 1 \in 1..k /\ m - 1 < Len(viewer) /\ k + 2 - m \in 1..k /\ k + 1 - (m - 1) = k + 2 - m
      BY <1>1, <1>4, <2>2
    <3>2. judged[k + 2 - m] = Back(m - 1)
      BY <1>1, <3>1
    <3> QED BY <1>1, <1>2, <1>3, <1>4, <2>2, <3>1, <3>2
  <2>3. m = 1 \/ m > 1
    BY <1>1
  <2> QED BY <2>1, <2>2, <2>3
<1>5. \A m \in 1..Len(judged') : m < Len(viewer') => judged'[Len(judged') + 1 - m] = Back(m)'
  BY <1>1, <1>2, <1>4
<1> QED BY <1>5

\* Where the viewer stays, it is enough that what is under way does.
LEMMA Staying ==
    ASSUME ReviewTypes, InStep, UNCHANGED <<viewer, open, judged>>, calm' => calm,
           calm' => net' \in Seq(Coming) /\ AtMostOne(net', Advances)
    PROVE  InStep'
<1>1. Coming' = Coming
  BY DEF Coming, Following, Ahead, Position
<1>2. \A m : Back(m)' = Back(m)
  BY DEF Back, Position
<1> QED BY <1>1, <1>2 DEF InStep, Advances, AtMostOne

\* An answer, and what follows it.
LEMMA InStepArrive ==
    ASSUME ReviewTypes, InStep, NEW i \in DOMAIN net, Arrive(i)
    PROVE  InStep'
<1> SUFFICES ASSUME calm' PROVE InStep'
  BY DEF InStep
<1> DEFINE r == net[i]
<1>1. /\ calm /\ net \in Seq(Coming) /\ AtMostOne(net, Advances)
      /\ open # None => open \in ToSet(viewer)
      /\ \A m \in 1..Len(judged) : m < Len(viewer) => judged[Len(judged) + 1 - m] = Back(m)
  BY DEF Arrive, InStep
<1>2. /\ r \in Requests /\ r \in Coming /\ net \in Seq(Requests)
      /\ judged \in Seq(Photo) /\ viewer \in Seq(Photo) /\ (open = None => viewer = <<>>)
  BY <1>1 DEF ReviewTypes
<1>3. /\ net' = RemoveAt(net, i) \o FollowUp(i)
      /\ open' = IF r.then = "advance" /\ r.next # None THEN r.next ELSE open
      /\ judged' = judged \o (IF r.then = "advance" /\ r.next # None
                              THEN SetToSeq(DOMAIN r.change) ELSE <<>>)
      /\ UNCHANGED viewer
  BY DEF Arrive
<1>4. /\ FollowUp(i) \in Seq(Requests) /\ NoneOf(FollowUp(i), Advances)
      /\ RemoveAt(net, i) \in Seq(Requests) /\ RemoveAt(net, i) \in Seq(Coming)
  BY <1>1, FollowUps, NoAdvance, RemoveAtIs
<1>5. FollowUp(i) \in Seq(Coming)
  BY <1>4 DEF NoneOf, Advances, Coming
<1>6. CASE r.then # "advance" \/ r.next = None
  <2>1. net' \in Seq(Coming)
    BY <1>3, <1>4, <1>5, ConcatProperties
  <2>2. AtMostOne(net', Advances)
    <3>1. AtMostOne(RemoveAt(net, i), Advances)
      BY <1>1, <1>2, NoneOfRemove
    <3> QED BY <1>3, <1>4, <3>1, NoneOfConcat
  <2>3. judged' = judged /\ open' = open
    BY <1>2, <1>3, <1>6
  <2> QED BY <1>1, <1>3, <2>1, <2>2, <2>3, Staying
<1>7. CASE r.then = "advance" /\ r.next # None
  <2>1. open # None /\ r.next = Following /\ DOMAIN r.change = {open} /\ r \in Advances
    BY <1>2, <1>7 DEF Coming, Advances
  <2>2. open \in ToSet(viewer) /\ open' = Following /\ viewer' = viewer
    BY <1>1, <1>3, <1>7, <2>1
  <2>3. judged' = judged \o <<open>>
    BY <1>3, <1>7, <2>1, OneToSeq
  <2>4. NoneOf(RemoveAt(net, i), Advances)
    BY <1>1, <1>2, <2>1, NoneOfRemove
  <2>5. NoneOf(net', Advances) /\ net' \in Seq(Requests)
    BY <1>3, <1>4, <2>4, NoneOfConcat, ConcatProperties
  <2>6. (net \in Seq(Coming))'
    BY <2>5 DEF NoneOf, Advances, Coming
  <2>7. AtMostOne(net, Advances)'
    BY <2>5 DEF NoneOf, Advances, AtMostOne
  <2>8. (open # None => open \in ToSet(viewer))'
    BY <2>2, Onward
  <2>9. (\A m \in 1..Len(judged) : m < Len(viewer) => judged[Len(judged) + 1 - m] = Back(m))'
    BY <1>1, <2>2, <2>3, JudgedOnward
  <2> QED BY <2>6, <2>7, <2>8, <2>9 DEF InStep
<1> QED BY <1>6, <1>7

LEMMA InStepInit == Init => InStep
<1> SUFFICES ASSUME Init PROVE InStep
  OBVIOUS
<1>1. net \in Seq(Requests) /\ NoneOf(net, Advances)
  BY NewRequests, FreshIsRequest, NoAdvance, TypesInit DEF Init
<1>2. net \in Seq(Coming) /\ AtMostOne(net, Advances)
  BY <1>1 DEF NoneOf, Advances, Coming, AtMostOne
<1> QED BY <1>2 DEF Init, InStep

LEMMA InStepStep == ReviewTypes /\ InStep /\ [Next]_vars => InStep'
<1> SUFFICES ASSUME ReviewTypes, InStep, [Next]_vars PROVE InStep'
  OBVIOUS
<1>1. /\ net \in Seq(Requests) /\ sort \in DOMAIN SortOrder /\ open \in Somebody
      /\ viewer \in Seq(Photo) /\ calm \in BOOLEAN
      /\ calm => net \in Seq(Coming) /\ AtMostOne(net, Advances)
  BY DEF ReviewTypes, InStep
<1>2. ASSUME Acts PROVE InStep'
  <2>1. /\ UNCHANGED <<viewer, open, judged>> /\ (calm' => calm)
        /\ UNCHANGED net \/ \E x \in Fresh : Sent(x)
    BY <1>2, ActsSend
  <2>2. ASSUME NEW x \in Fresh, Sent(x), calm'
        PROVE  net' \in Seq(Coming) /\ AtMostOne(net', Advances)
    <3>1. /\ x \in Requests /\ net' = Append(net, x) /\ net \in Seq(Coming)
          /\ x.then = "advance" =>
                open # None /\ x.next = Following /\ DOMAIN x.change = {open} /\ ~Saving
      BY <1>1, <2>1, <2>2, FreshIsRequest DEF Sent
    <3>2. x \in Coming
      BY <3>1 DEF Coming
    <3>3. CASE x.then = "advance"
      <4>1. NoneOf(net, Advances)
        BY <3>1, <3>3, Savings
      <4> QED BY <1>1, <3>1, <3>2, <4>1, AppendToNone
    <3>4. CASE x.then # "advance"
      <4>1. x \notin Advances
        BY <3>4 DEF Advances
      <4>2. <<x>> \in Seq(Requests) /\ NoneOf(<<x>>, Advances) /\ Append(net, x) = net \o <<x>>
        BY <1>1, <3>1, <4>1, AppendIsConcatOne
      <4>3. AtMostOne(net \o <<x>>, Advances)
        BY <1>1, <2>1, <2>2, <4>2, NoneOfConcat
      <4> QED BY <3>1, <3>2, <4>2, <4>3
    <3> QED BY <3>3, <3>4
  <2>3. calm' => net' \in Seq(Coming) /\ AtMostOne(net', Advances)
    BY <1>1, <2>1, <2>2
  <2> QED BY <2>1, <2>3, Staying
<1>3. ASSUME NEW p \in Photo, OpenPhoto(p) PROVE InStep'
  <2> SUFFICES ASSUME calm' PROVE InStep'
    BY DEF InStep
  <2>1. /\ open' = p /\ viewer' = Items /\ p \in ToSet(Items) /\ judged' = <<>>
        /\ net' = Append(net, Read(p, "nothing"))
        /\ \A i \in DOMAIN net : net[i].kind # "post"
    BY <1>3 DEF OpenPhoto
  <2>2. NoneOf(net, Advances)
    BY <1>1, <2>1 DEF NoneOf, Advances, Requests, Sane
  <2>3. Read(p, "nothing") \in Requests /\ Read(p, "nothing") \notin Advances
    BY <1>1, NewRequests, FreshIsRequest, NoAdvance DEF Somebody
  <2>4. NoneOf(<<Read(p, "nothing")>>, Advances) /\ <<Read(p, "nothing")>> \in Seq(Requests)
        /\ net' = net \o <<Read(p, "nothing")>>
    BY <1>1, <2>1, <2>3, AppendIsConcatOne
  <2>5. NoneOf(net', Advances) /\ net' \in Seq(Requests)
    BY <1>1, <2>2, <2>4, NoneOfConcat, ConcatProperties
  <2>6. (net \in Seq(Coming))'
    BY <2>5 DEF NoneOf, Advances, Coming
  <2>7. AtMostOne(net, Advances)'
    BY <2>5 DEF NoneOf, Advances, AtMostOne
  <2> QED BY <2>1, <2>6, <2>7 DEF InStep
<1>4. ASSUME CloseViewer PROVE InStep'
  <2> SUFFICES ASSUME calm' PROVE InStep'
    BY DEF InStep
  <2>1. /\ open' = None /\ judged' = <<>> /\ ~Saving
        /\ net' = [i \in DOMAIN net |-> Unmounted(net[i])]
    BY <1>4 DEF CloseViewer
  <2>2. NoneOf(net', Advances)
    <3>1. NoneOf(net, Advances)
      BY <2>1, Savings
    <3>2. \A r \in Requests : r \notin Advances => Unmounted(r) \notin Advances
      BY DEF Unmounted, Requests, Advances
    <3> QED BY <1>1, <2>1, <3>1, <3>2 DEF NoneOf
  <2>3. net' \in Seq(Requests)
    BY <1>4, TypesClose DEF ReviewTypes, Requests, Changes, Answers, AllRows, Sane, Somebody
  <2>4. (net \in Seq(Coming))'
    BY <2>2, <2>3 DEF NoneOf, Advances, Coming
  <2>5. AtMostOne(net, Advances)'
    BY <2>2, <2>3 DEF NoneOf, Advances, AtMostOne
  <2> QED BY <2>1, <2>4, <2>5 DEF InStep
<1>5. ASSUME Walk \/ NextUndecided PROVE InStep'
  <2> SUFFICES ASSUME calm' PROVE InStep'
    BY DEF InStep
  <2>1. /\ open' = open \/ (open' \in ToSet(viewer) /\ open' \in Photo)
        /\ open # None /\ GoTo(open') /\ open' \in Somebody
    BY <1>1, <1>5, Steps DEF Somebody
  <2>2. /\ viewer' = viewer /\ judged' = <<>> /\ calm /\ ~Saving
        /\ net' = net \/ net' = Append(net, Read(open', "nothing"))
    BY <2>1 DEF GoTo
  <2>3. open' \in ToSet(viewer')
    BY <2>1, <2>2 DEF InStep
  <2>4. NoneOf(net, Advances)
    BY <2>2, Savings
  <2>5. Read(open', "nothing") \in Requests /\ Read(open', "nothing") \notin Advances
    BY <1>1, <2>1, NewRequests, FreshIsRequest, NoAdvance
  <2>6. NoneOf(<<Read(open', "nothing")>>, Advances) /\ <<Read(open', "nothing")>> \in Seq(Requests)
        /\ Append(net, Read(open', "nothing")) = net \o <<Read(open', "nothing")>>
    BY <1>1, <2>5, AppendIsConcatOne
  <2>7. NoneOf(net', Advances) /\ net' \in Seq(Requests)
    BY <1>1, <2>2, <2>4, <2>6, NoneOfConcat, ConcatProperties
  <2>8. (net \in Seq(Coming))'
    BY <2>7 DEF NoneOf, Advances, Coming
  <2>9. AtMostOne(net, Advances)'
    BY <2>7 DEF NoneOf, Advances, AtMostOne
  <2> QED BY <2>2, <2>3, <2>8, <2>9 DEF InStep
<1>6. ASSUME NEW p \in Photo, KeepOnly(p) PROVE InStep'
  <2>1. UNCHANGED <<viewer, open, judged, calm>>
    BY <1>6 DEF KeepOnly
  <2>2. PICK m \in Seq(Requests) :
            net' = net \o m /\ \A i \in DOMAIN m : m[i].kind = "post" /\ m[i].then = "group"
    BY <1>6, KeepOnlyPosts
  <2>3. NoneOf(m, Advances) /\ m \in Seq(Coming)
    BY <2>2 DEF NoneOf, Advances, Coming
  <2>4. calm' => net' \in Seq(Coming) /\ AtMostOne(net', Advances)
    BY <1>1, <2>1, <2>2, <2>3, NoneOfConcat, ConcatProperties
  <2> QED BY <2>1, <2>4, Staying
<1>7. ASSUME NEW i \in DOMAIN net, Serve(i) PROVE InStep'
  <2>1. UNCHANGED <<viewer, open, judged, calm>>
    BY <1>7 DEF Serve
  <2>2. /\ net' \in Seq(Requests) /\ DOMAIN net' = DOMAIN net
        /\ \A j \in DOMAIN net : j # i => net'[j] = net[j]
        /\ net'[i] = [net[i] EXCEPT !.served = TRUE, !.answer = Answer(net[i])]
        /\ net[i] \in Requests
    BY <1>7, ServedRequest
  <2>3. \A j \in DOMAIN net : /\ net'[j] \in Requests /\ net[j] \in Requests
                              /\ net'[j].then = net[j].then /\ net'[j].next = net[j].next
                              /\ net'[j].change = net[j].change
    <3>1. net'[i].then = net[i].then /\ net'[i].next = net[i].next /\ net'[i].change = net[i].change
      BY <2>2 DEF Requests
    <3>2. \A j \in DOMAIN net : net'[j] \in Requests /\ net[j] \in Requests
      BY <1>1, <2>2
    <3> QED BY <2>2, <3>1, <3>2
  <2>4. calm' => net' \in Seq(Coming)
    <3>1. calm' => \A j \in DOMAIN net : net[j] \in Coming
      BY <1>1, <2>1
    <3>2. calm' => \A j \in DOMAIN net' : net'[j] \in Coming
      BY <2>2, <2>3, <3>1 DEF Coming
    <3> QED BY <2>2, <3>2
  <2>5. calm' => AtMostOne(net', Advances)
    BY <1>1, <2>1, <2>2, <2>3 DEF AtMostOne, Advances
  <2> QED BY <2>1, <2>4, <2>5, Staying
<1>8. ASSUME NEW i \in DOMAIN net, Lost(i) PROVE InStep'
  <2>1. UNCHANGED <<viewer, open, judged>> /\ (calm' => calm /\ net[i].kind = "post" /\ net[i].then # "group")
    BY <1>8 DEF Lost
  <2>2. ASSUME calm' PROVE net' \in Seq(Coming) /\ AtMostOne(net', Advances)
    <3>1. net[i] \in Requests /\ LeftBy(i) = net
      BY <1>1, <2>1, <2>2 DEF LeftBy
    <3>2. net' = RemoveAt(net, i)
      <4>1. net[i].then # "reread"
        BY <2>1, <2>2, <3>1 DEF Requests, Sane
      <4>2. net' = RemoveAt(net, i) \o <<>>
        BY <1>8, <3>1, <4>1, LostIs
      <4>3. RemoveAt(net, i) \in Seq(Requests)
        BY <1>1, RemoveAtIs
      <4> QED BY <4>2, <4>3
    <3> QED BY <1>1, <2>1, <2>2, <3>2, RemoveAtIs, NoneOfRemove
  <2> QED BY <2>1, <2>2, Staying
<1>9. CASE UNCHANGED vars
  BY <1>1, <1>9, Staying DEF vars
<1> QED BY <1>2, <1>3, <1>4, <1>5, <1>6, <1>7, <1>8, <1>9, InStepArrive DEF Next, Acts

(* Choosing photo after photo, the viewer comes back to none that has been *)
(* judged while there is one of its list that has not (review.js:657).     *)
THEOREM NoneComesTwice == Spec => []NoneTwice
<1>1. ReviewTypes /\ InStep => NoneTwice
  <2> SUFFICES ASSUME ReviewTypes, InStep, calm, Len(judged) < Len(viewer), open \in ToSet(judged)
               PROVE  FALSE
    BY DEF NoneTwice
  <2> DEFINE n == Len(viewer)
             k == Len(judged)
             p == Position(open)
  <2>1. /\ n \in Nat /\ k \in Nat /\ k < n /\ DOMAIN viewer = 1..n /\ DOMAIN judged = 1..k
        /\ \A x, y \in 1..n : viewer[x] = viewer[y] => x = y
    BY DEF ReviewTypes, IsInjective
  <2>2. open \in ToSet(viewer)
    BY <2>1 DEF ReviewTypes, InStep
  <2>3. p \in 1..n /\ viewer[p] = open
    BY <2>2, PositionIs DEF ReviewTypes
  <2>4. PICK j \in 1..k : judged[j] = open
    BY <2>1 DEF ToSet
  <2>5. \A m \in 1..k : m < n => judged[k + 1 - m] = Back(m)
    BY DEF InStep
  <2>6. \A m : Back(m) = viewer[IF m < p THEN p - m ELSE p + n - m]
    BY DEF Back
  <2>7. n \in Nat /\ k \in Nat /\ p \in 1..n /\ k < n
    BY <2>1, <2>3
  <2> HIDE DEF n, k, p
  <2>8. k + 1 - j \in 1..k /\ k + 1 - j < n /\ k + 1 - (k + 1 - j) = j
    BY <2>7
  <2>9. open = Back(k + 1 - j)
    BY <2>4, <2>5, <2>8
  <2> DEFINE m == k + 1 - j
  <2>10. (IF m < p THEN p - m ELSE p + n - m) \in 1..n /\ (IF m < p THEN p - m ELSE p + n - m) # p
    BY <2>7, <2>8
  <2> QED BY <2>1, <2>3, <2>6, <2>9, <2>10
<1> QED BY <1>1, InStepInit, TypesInit, TypesStep, InStepStep, PTL DEF Spec

(***************************************************************************)
(* When all is answered                                                    *)
(***************************************************************************)
Queues == {r \in Requests : r.kind = "queue"}
Pendings == {r \in Requests : r.kind = "pending"}
Details == {r \in Requests : r.kind = "detail" /\ r.photo # None}

(* What will read the decisions again, and the detail.                     *)
Promises == {r \in Requests : r.then \in {"group", "reread"} \/ (r.served /\ r.then # "nothing")}
Rereads == {r \in Requests : r.served /\ r.then \in {"advance", "reload"}}

(* Those whose answer is, or will be, what the page ought to show.         *)
GridOf(by, rows) == {r \in Queues : r.by = by /\ (r.served => r.answer = rows)}
CountOf(rows) == {r \in Pendings : r.served => r.answer = Pending(rows)}
DetailOf(p, rows) == {r \in Details : r.photo = p /\ (r.served => r.answer = rows[p])}

(* The last of its kind under way is a good one, or none is and the page   *)
(* shows it already.                                                       *)
Ends(n, Q, G) == \E i \in DOMAIN n : n[i] \in Q /\ n[i] \in G /\ \A j \in DOMAIN n : n[j] \in Q => j <= i
Latest(n, Q, G, shown) == Ends(n, Q, G) \/ (NoneOf(n, Q) /\ shown)

\* What is under way for the sort chosen and for the photo that is open.
Kept(by, p) ==
    {r \in Requests :
        /\ r.then # "nothing" => r.by = by
        /\ r.kind = "post" => /\ r.then # "nothing"
                              /\ p # None => r.then = "advance" \/ (r.then = "reload" /\ r.next = p)}
Counted ==
    NoneOf(net, Promises) =>
        /\ Latest(net, Queues, GridOf(sort, row), grid = [by |-> sort, rows |-> row])
        /\ Latest(net, Pendings, CountOf(row), pending = Pending(row))
Detailed ==
    1 < Len(viewer) /\ NoneOf(net, Rereads) =>
        Latest(net, Details, DetailOf(open, row), detail = [photo |-> open, row |-> row[open]])
Caught == calm => net \in Seq(Kept(sort, open)) /\ Counted /\ Detailed

\* More is sent: of another kind, or with a good one at the end.
LEMMA LatestAndMore ==
    ASSUME NEW S, NEW n \in Seq(S), NEW m \in Seq(S), NEW Q, NEW G, NEW shown
    PROVE  /\ NoneOf(m, Q) /\ Latest(n, Q, G, shown) => Latest(n \o m, Q, G, shown)
           /\ Ends(m, Q, G) => Latest(n \o m, Q, G, shown)
<1>1. /\ n \o m \in Seq(S) /\ Len(n) \in Nat /\ Len(m) \in Nat
      /\ DOMAIN n = 1..Len(n) /\ DOMAIN m = 1..Len(m) /\ DOMAIN (n \o m) = 1..(Len(n) + Len(m))
      /\ \A j \in 1..(Len(n) + Len(m)) : (n \o m)[j] = IF j <= Len(n) THEN n[j] ELSE m[j - Len(n)]
  BY ConcatProperties, LenProperties
<1>2. ASSUME NoneOf(m, Q) PROVE \A j \in DOMAIN (n \o m) : (n \o m)[j] \in Q => j \in DOMAIN n
  <2> SUFFICES ASSUME NEW j \in DOMAIN (n \o m), (n \o m)[j] \in Q, j > Len(n) PROVE FALSE
    BY <1>1
  <2>1. (n \o m)[j] = m[j - Len(n)] /\ j - Len(n) \in DOMAIN m
    BY <1>1
  <2> QED BY <1>2, <2>1 DEF NoneOf
<1>3. ASSUME NoneOf(m, Q), Ends(n, Q, G) PROVE Ends(n \o m, Q, G)
  <2>1. PICK i \in DOMAIN n : n[i] \in Q /\ n[i] \in G /\ \A j \in DOMAIN n : n[j] \in Q => j <= i
    BY <1>3 DEF Ends
  <2>2. i \in DOMAIN (n \o m) /\ (n \o m)[i] = n[i]
    BY <1>1
  <2>3. \A j \in DOMAIN (n \o m) : (n \o m)[j] \in Q => j <= i
    BY <1>1, <1>2, <1>3, <2>1
  <2> QED BY <2>1, <2>2, <2>3 DEF Ends
<1>4. ASSUME NoneOf(m, Q), NoneOf(n, Q) PROVE NoneOf(n \o m, Q)
  BY <1>4, NoneOfConcat
<1>5. ASSUME Ends(m, Q, G) PROVE Ends(n \o m, Q, G)
  <2>1. PICK i \in DOMAIN m : m[i] \in Q /\ m[i] \in G /\ \A j \in DOMAIN m : m[j] \in Q => j <= i
    BY <1>5 DEF Ends
  <2>2. Len(n) + i \in DOMAIN (n \o m) /\ (n \o m)[Len(n) + i] = m[i]
    BY <1>1
  <2>3. ASSUME NEW j \in DOMAIN (n \o m), (n \o m)[j] \in Q PROVE j <= Len(n) + i
    <3>1. CASE j <= Len(n)
      BY <1>1, <3>1
    <3>2. CASE j > Len(n)
      <4>1. j - Len(n) \in DOMAIN m /\ (n \o m)[j] = m[j - Len(n)]
        BY <1>1, <3>2
      <4>2. j - Len(n) <= i
        BY <2>1, <2>3, <4>1
      <4> QED BY <1>1, <4>2
    <3> QED BY <1>1, <3>1, <3>2
  <2> QED BY <2>1, <2>2, <2>3 DEF Ends
<1> QED BY <1>3, <1>4, <1>5 DEF Latest

\* One is answered: of another kind, or the first of its kind.
LEMMA LatestAndLess ==
    ASSUME NEW S, NEW n \in Seq(S), NEW i \in DOMAIN n, NEW Q, NEW G, NEW shown, Latest(n, Q, G, shown)
    PROVE  /\ n[i] \notin Q => Latest(RemoveAt(n, i), Q, G, shown)
           /\ \A now : (\A j \in 1..(i - 1) : n[j] \notin Q) /\ n[i] \in Q /\ (n[i] \in G => now)
                           => Latest(RemoveAt(n, i), Q, G, now)
<1> DEFINE m == RemoveAt(n, i)
           from(j) == IF j < i THEN j ELSE j + 1
           to(j) == IF j < i THEN j ELSE j - 1
<1>1. /\ Len(n) \in Nat /\ DOMAIN n = 1..Len(n) /\ i \in 1..Len(n)
      /\ DOMAIN m = 1..(Len(n) - 1)
      /\ \A j \in 1..(Len(n) - 1) : m[j] = IF j < i THEN n[j] ELSE n[j + 1]
  BY RemoveAtIs
<1>2. \A j \in DOMAIN m : from(j) \in DOMAIN n /\ from(j) # i /\ m[j] = n[from(j)] /\ to(from(j)) = j
  BY <1>1
<1>3. \A j \in DOMAIN n : j # i => to(j) \in DOMAIN m /\ m[to(j)] = n[j]
  BY <1>1
<1>4. \A j, k \in DOMAIN n : j # i /\ k # i /\ j <= k => to(j) <= to(k)
  BY <1>1
<1> HIDE DEF m, from, to
<1>5. ASSUME NEW l \in DOMAIN n, l # i, n[l] \in Q, n[l] \in G, \A j \in DOMAIN n : n[j] \in Q => j <= l
      PROVE  Ends(m, Q, G)
  <2>1. to(l) \in DOMAIN m /\ m[to(l)] = n[l]
    BY <1>3, <1>5
  <2>2. ASSUME NEW j \in DOMAIN m, m[j] \in Q PROVE j <= to(l)
    <3>1. from(j) \in DOMAIN n /\ from(j) # i /\ n[from(j)] \in Q /\ to(from(j)) = j
      BY <1>2, <2>2
    <3>2. to(from(j)) <= to(l)
      BY <1>4, <1>5, <3>1
    <3> QED BY <3>1, <3>2
  <2> QED BY <1>5, <2>1, <2>2 DEF Ends
<1>6. ASSUME n[i] \notin Q PROVE Latest(m, Q, G, shown)
  <2>1. CASE Ends(n, Q, G)
    <3>1. PICK l \in DOMAIN n : n[l] \in Q /\ n[l] \in G /\ \A j \in DOMAIN n : n[j] \in Q => j <= l
      BY <2>1 DEF Ends
    <3>2. l # i
      BY <1>6, <3>1
    <3> QED BY <1>5, <3>1, <3>2 DEF Latest
  <2>2. CASE NoneOf(n, Q) /\ shown
    BY <2>2, NoneOfRemove DEF Latest, m
  <2> QED BY <2>1, <2>2 DEF Latest
<1>7. ASSUME NEW now, \A j \in 1..(i - 1) : n[j] \notin Q, n[i] \in Q, n[i] \in G => now
      PROVE  Latest(m, Q, G, now)
  <2>1. Ends(n, Q, G)
    BY <1>7 DEF Latest, NoneOf
  <2>2. PICK l \in DOMAIN n : n[l] \in Q /\ n[l] \in G /\ \A j \in DOMAIN n : n[j] \in Q => j <= l
    BY <2>1 DEF Ends
  <2>3. CASE l # i
    BY <1>5, <2>2, <2>3 DEF Latest
  <2>4. CASE l = i
    <3>1. now
      BY <1>7, <2>2, <2>4
    <3>2. ASSUME NEW j \in DOMAIN m, m[j] \in Q PROVE FALSE
      <4>1. from(j) \in DOMAIN n /\ from(j) # i /\ n[from(j)] \in Q
        BY <1>2, <3>2
      <4>2. from(j) <= i
        BY <2>2, <2>4, <4>1
      <4>3. from(j) \in 1..(i - 1)
        BY <1>1, <4>1, <4>2
      <4> QED BY <1>7, <4>1, <4>3
    <3> QED BY <3>1, <3>2 DEF Latest, NoneOf
  <2> QED BY <2>3, <2>4
<1> QED BY <1>6, <1>7 DEF m

\* What is under way is the same but in what the rest does not look at.
LEMMA LatestAlike ==
    ASSUME NEW n, NEW m, DOMAIN m = DOMAIN n, NEW Q, NEW G, NEW H, NEW shown, NEW now,
           \A j \in DOMAIN n : /\ m[j] \in Q <=> n[j] \in Q
                               /\ n[j] \in Q /\ n[j] \in G => m[j] \in H,
           shown => now, Latest(n, Q, G, shown)
    PROVE  Latest(m, Q, H, now)
<1>1. NoneOf(n, Q) => NoneOf(m, Q)
  BY DEF NoneOf
<1>2. Ends(n, Q, G) => Ends(m, Q, H)
  BY DEF Ends
<1> QED BY <1>1, <1>2 DEF Latest

LEMMA NoneOfParts ==
    ASSUME NEW S, NEW n \in Seq(S), NEW Q
    PROVE  /\ \A m \in Seq(S) : NoneOf(n \o m, Q) => NoneOf(n, Q) /\ NoneOf(m, Q)
           /\ \A i \in DOMAIN n : NoneOf(RemoveAt(n, i), Q) => \A j \in DOMAIN n : j # i => n[j] \notin Q
<1>1. ASSUME NEW m \in Seq(S), NoneOf(n \o m, Q) PROVE NoneOf(n, Q) /\ NoneOf(m, Q)
  <2>1. /\ n \o m \in Seq(S) /\ Len(n) \in Nat /\ Len(m) \in Nat
        /\ DOMAIN n = 1..Len(n) /\ DOMAIN m = 1..Len(m) /\ DOMAIN (n \o m) = 1..(Len(n) + Len(m))
        /\ \A j \in 1..(Len(n) + Len(m)) : (n \o m)[j] = IF j <= Len(n) THEN n[j] ELSE m[j - Len(n)]
    BY ConcatProperties, LenProperties
  <2>2. \A j \in DOMAIN n : j \in DOMAIN (n \o m) /\ (n \o m)[j] = n[j]
    BY <2>1
  <2>3. \A j \in DOMAIN m : Len(n) + j \in DOMAIN (n \o m) /\ (n \o m)[Len(n) + j] = m[j]
    BY <2>1
  <2> QED BY <1>1, <2>2, <2>3 DEF NoneOf
<1>2. ASSUME NEW i \in DOMAIN n, NoneOf(RemoveAt(n, i), Q), NEW j \in DOMAIN n, j # i PROVE n[j] \notin Q
  <2>1. /\ Len(n) \in Nat /\ DOMAIN n = 1..Len(n) /\ i \in 1..Len(n)
        /\ DOMAIN RemoveAt(n, i) = 1..(Len(n) - 1)
        /\ \A l \in 1..(Len(n) - 1) : RemoveAt(n, i)[l] = IF l < i THEN n[l] ELSE n[l + 1]
    BY RemoveAtIs
  <2>2. \E l \in DOMAIN RemoveAt(n, i) : RemoveAt(n, i)[l] = n[j]
    <3>1. CASE j < i
      BY <1>2, <2>1, <3>1
    <3>2. CASE j > i
      <4>1. j - 1 \in 1..(Len(n) - 1) /\ ~(j - 1 < i) /\ j - 1 + 1 = j
        BY <1>2, <2>1, <3>2
      <4> QED BY <2>1, <4>1
    <3> QED BY <1>2, <2>1, <3>1, <3>2
  <2> QED BY <1>2, <2>2 DEF NoneOf
<1> QED BY <1>1, <1>2

\* What is sent to read all again, and to read one photo.
LEMMA RefreshEnds ==
    ASSUME sort \in DOMAIN SortOrder, NEW by \in DOMAIN SortOrder
    PROVE  /\ Refresh(by) \in Seq(Requests)
           /\ NoneOf(Refresh(by), Details) /\ NoneOf(Refresh(by), {r \in Requests : r.kind = "post"})
           /\ NoneOf(Refresh(by), Promises) /\ NoneOf(Refresh(by), Rereads)
           /\ \A rows : /\ Ends(Refresh(by), Queues, GridOf(by, rows))
                        /\ Ends(Refresh(by), Pendings, CountOf(rows))
<1>1. PICK a, b : a = [Request EXCEPT !.by = by] /\ b = [Request EXCEPT !.kind = "pending"]
  OBVIOUS
<1>2. Refresh(by) = <<a, b>> /\ <<a, b>> \in Seq(Requests)
  BY <1>1, NewRequests, FreshIsRequest DEF Refresh
<1>3. /\ a \in Requests /\ b \in Requests
      /\ a.kind = "queue" /\ a.by = by /\ ~a.served /\ a.then = "nothing"
      /\ b.kind = "pending" /\ ~b.served /\ b.then = "nothing"
  <2>1. <<a, b>>[1] = a /\ <<a, b>>[2] = b
    OBVIOUS
  <2>2. a \in Requests /\ b \in Requests
    BY <1>2
  <2> QED BY <1>1, <2>2 DEF Request
<1>4. DOMAIN <<a, b>> = {1, 2} /\ <<a, b>>[1] = a /\ <<a, b>>[2] = b
  OBVIOUS
<1>5. \A rows : Ends(<<a, b>>, Queues, GridOf(by, rows))
  BY <1>3, <1>4 DEF Ends, Queues, GridOf
<1>6. \A rows : Ends(<<a, b>>, Pendings, CountOf(rows))
  BY <1>3, <1>4 DEF Ends, Pendings, CountOf
<1> QED BY <1>2, <1>3, <1>4, <1>5, <1>6 DEF NoneOf, Details, Promises, Rereads

LEMMA ReadEnds ==
    ASSUME sort \in DOMAIN SortOrder, NEW p \in Photo, NEW then \in {"nothing", "reread"}
    PROVE  /\ <<Read(p, then)>> \in Seq(Requests)
           /\ NoneOf(<<Read(p, then)>>, Queues) /\ NoneOf(<<Read(p, then)>>, Pendings)
           /\ Read(p, then).kind = "detail" /\ Read(p, then).by = sort
           /\ then = "reread" => ~NoneOf(<<Read(p, then)>>, Promises)
           /\ \A rows : Ends(<<Read(p, then)>>, Details, DetailOf(p, rows))
<1>1. PICK x : x = Read(p, then)
  OBVIOUS
<1>2. x \in Requests
  BY <1>1, NewRequests, FreshIsRequest DEF Somebody
<1>3. x.kind = "detail" /\ x.photo = p /\ x.by = sort /\ x.then = then /\ ~x.served /\ p # None
  BY <1>1, ReviewAssumption DEF Read, Request
<1>4. DOMAIN <<x>> = {1} /\ <<x>>[1] = x
  OBVIOUS
<1>5. x \in Details /\ \A rows : x \in DetailOf(p, rows)
  BY <1>2, <1>3 DEF Details, DetailOf
<1>6. \A rows : Ends(<<x>>, Details, DetailOf(p, rows))
  BY <1>4, <1>5 DEF Ends
<1>7. then = "reread" => ~NoneOf(<<x>>, Promises)
  BY <1>2, <1>3, <1>4 DEF NoneOf, Promises
<1>8. <<x>> \in Seq(Requests) /\ NoneOf(<<x>>, Queues) /\ NoneOf(<<x>>, Pendings)
  BY <1>2, <1>3, <1>4 DEF NoneOf, Queues, Pendings
<1> QED BY <1>1, <1>3, <1>6, <1>7, <1>8

\* The user sends something more.
LEMMA Sends ==
    ASSUME ReviewTypes, Counted, Detailed, UNCHANGED <<row, copies>>,
           NEW m \in Seq(Requests), net' = net \o m,
           (sort' = sort /\ NoneOf(m, Queues)) \/ Ends(m, Queues, GridOf(sort', row)),
           NoneOf(m, Pendings),
           \/ Ends(m, Details, DetailOf(open', row))
           \/ open' = open /\ viewer' = viewer /\ NoneOf(m, Details)
    PROVE  Counted' /\ Detailed'
<1>1. net \in Seq(Requests)
  BY DEF ReviewTypes
<1>2. /\ NoneOf(net', Promises) => NoneOf(net, Promises)
      /\ NoneOf(net', Rereads) => NoneOf(net, Rereads)
  BY <1>1, NoneOfParts
<1>3. ASSUME NoneOf(net', Promises)
      PROVE  /\ Latest(net', Queues, GridOf(sort', row'), grid' = [by |-> sort', rows |-> row'])
             /\ Latest(net', Pendings, CountOf(row'), pending' = Pending(row'))
  <2>1. /\ Latest(net, Queues, GridOf(sort, row), grid = [by |-> sort, rows |-> row])
        /\ Latest(net, Pendings, CountOf(row), pending = Pending(row))
    BY <1>2, <1>3 DEF Counted
  <2>2. Latest(net', Pendings, CountOf(row), pending = Pending(row))
    BY <1>1, <2>1, LatestAndMore
  <2>3. Latest(net', Queues, GridOf(sort', row), grid = [by |-> sort', rows |-> row])
    BY <1>1, <2>1, LatestAndMore
  <2> QED BY <2>2, <2>3 DEF copies
<1>4. ASSUME 1 < Len(viewer'), NoneOf(net', Rereads)
      PROVE  Latest(net', Details, DetailOf(open', row'), detail' = [photo |-> open', row |-> row'[open']])
  <2>1. Latest(net', Details, DetailOf(open', row), detail = [photo |-> open', row |-> row[open']])
    <3>1. CASE Ends(m, Details, DetailOf(open', row))
      BY <1>1, <3>1, LatestAndMore
    <3>2. CASE open' = open /\ viewer' = viewer /\ NoneOf(m, Details)
      <4>1. Latest(net, Details, DetailOf(open, row), detail = [photo |-> open, row |-> row[open]])
        BY <1>2, <1>4, <3>2 DEF Detailed
      <4>2. Latest(net', Details, DetailOf(open, row), detail = [photo |-> open, row |-> row[open]])
        BY <1>1, <3>2, <4>1, LatestAndMore
      <4> QED BY <3>2, <4>2
    <3> QED BY <3>1, <3>2
  <2> QED BY <2>1 DEF copies
<1> QED BY <1>3, <1>4 DEF Counted, Detailed

LEMMA CaughtServe ==
    ASSUME ReviewTypes, Caught, calm, NEW i \in DOMAIN net, Serve(i)
    PROVE  net' \in Seq(Kept(sort', open')) /\ Counted' /\ Detailed'
<1> DEFINE r == net[i]
<1>1. /\ net' \in Seq(Requests) /\ DOMAIN net' = DOMAIN net
      /\ \A j \in DOMAIN net : j # i => net'[j] = net[j]
      /\ net'[i] = [r EXCEPT !.served = TRUE, !.answer = Answer(r)]
      /\ net'[i] \in Requests /\ r \in Requests
      /\ row' = IF r.kind = "post" THEN [p \in Photo |-> Changed(p, r.change)] ELSE row
  BY ServedRequest
<1>2. UNCHANGED <<sort, open, viewer, grid, pending, detail>>
  BY DEF Serve, panel, copies
<1>3. /\ net'[i].kind = r.kind /\ net'[i].by = r.by /\ net'[i].photo = r.photo
      /\ net'[i].then = r.then /\ net'[i].next = r.next
      /\ net'[i].served /\ net'[i].answer = Answer(r)
  BY <1>1 DEF Requests
<1>4. /\ net \in Seq(Kept(sort, open)) /\ Counted /\ Detailed /\ net \in Seq(Requests)
      /\ r \in Kept(sort, open)
  BY DEF Caught, ReviewTypes
<1>5. net' \in Seq(Kept(sort', open'))
  <2>1. net'[i] \in Kept(sort, open)
    BY <1>1, <1>3, <1>4 DEF Kept
  <2>2. \A j \in DOMAIN net : net'[j] \in Kept(sort, open)
    BY <1>1, <1>4, <2>1
  <2> QED BY <1>1, <1>2, <2>2
<1>6. \A j \in DOMAIN net : net[j] \in Requests /\ net'[j] \in Requests
  BY <1>1, <1>4
<1>7. /\ NoneOf(net', Promises) => NoneOf(net, Promises) /\ r.kind # "post"
      /\ NoneOf(net', Rereads) => NoneOf(net, Rereads) /\ (r.kind = "post" => open = None)
  <2>1. \A j \in DOMAIN net : /\ net[j] \in Promises => net'[j] \in Promises
                              /\ net[j] \in Rereads => net'[j] \in Rereads
    <3>1. /\ r \in Promises => net'[i] \in Promises
          /\ r \in Rereads => net'[i] \in Rereads
      BY <1>1, <1>3 DEF Promises, Rereads
    <3> QED BY <1>1, <3>1
  <2>2. r.kind = "post" => net'[i] \in Promises /\ (open # None => net'[i] \in Rereads)
    BY <1>1, <1>3, <1>4 DEF Kept, Promises, Rereads
  <2> QED BY <1>1, <2>1, <2>2 DEF NoneOf
<1>8. \A j \in DOMAIN net : /\ net'[j] \in Queues <=> net[j] \in Queues
                            /\ net'[j] \in Pendings <=> net[j] \in Pendings
                            /\ net'[j] \in Details <=> net[j] \in Details
  <2>1. /\ net'[i] \in Queues <=> r \in Queues
        /\ net'[i] \in Pendings <=> r \in Pendings
        /\ net'[i] \in Details <=> r \in Details
    BY <1>1, <1>3 DEF Queues, Pendings, Details
  <2> QED BY <1>1, <2>1
<1>9. ASSUME r.kind # "post"
      PROVE  /\ row' = row
             /\ \A j \in DOMAIN net :
                   /\ net[j] \in GridOf(sort, row) => net'[j] \in GridOf(sort', row')
                   /\ net[j] \in CountOf(row) => net'[j] \in CountOf(row')
                   /\ net[j] \in DetailOf(open, row) => net'[j] \in DetailOf(open', row')
  <2>1. row' = row
    BY <1>1, <1>9
  <2>2. /\ r.kind = "queue" => Answer(r) = row
        /\ r.kind = "pending" => Answer(r) = Pending(row)
        /\ r.kind = "detail" /\ r.photo # None => Answer(r) = row[r.photo]
    BY DEF Answer
  <2>3. r \in GridOf(sort, row) => net'[i] \in GridOf(sort, row)
    BY <1>1, <1>3, <2>2 DEF GridOf, Queues
  <2>4. r \in CountOf(row) => net'[i] \in CountOf(row)
    BY <1>1, <1>3, <2>2 DEF CountOf, Pendings
  <2>5. r \in DetailOf(open, row) => net'[i] \in DetailOf(open, row)
    BY <1>1, <1>3, <2>2 DEF DetailOf, Details
  <2> QED BY <1>1, <1>2, <2>1, <2>3, <2>4, <2>5
<1>10. Counted'
  <2> SUFFICES ASSUME NoneOf(net', Promises)
               PROVE  /\ Latest(net', Queues, GridOf(sort', row'), grid' = [by |-> sort', rows |-> row'])
                      /\ Latest(net', Pendings, CountOf(row'), pending' = Pending(row'))
    BY DEF Counted
  <2>1. /\ Latest(net, Queues, GridOf(sort, row), grid = [by |-> sort, rows |-> row])
        /\ Latest(net, Pendings, CountOf(row), pending = Pending(row))
    BY <1>4, <1>7 DEF Counted
  <2> QED BY <1>1, <1>2, <1>7, <1>8, <1>9, <2>1, LatestAlike
<1>11. Detailed'
  <2> SUFFICES ASSUME 1 < Len(viewer'), NoneOf(net', Rereads)
               PROVE  Latest(net', Details, DetailOf(open', row'),
                             detail' = [photo |-> open', row |-> row'[open']])
    BY DEF Detailed
  <2>1. Latest(net, Details, DetailOf(open, row), detail = [photo |-> open, row |-> row[open]])
    BY <1>2, <1>4, <1>7 DEF Detailed
  <2>2. r.kind # "post"
    <3>1. viewer # <<>>
      BY <1>2
    <3> QED BY <1>7, <3>1 DEF ReviewTypes
  <2> QED BY <1>1, <1>2, <1>8, <1>9, <2>1, <2>2, LatestAlike
<1> QED BY <1>5, <1>10, <1>11

LEMMA KeptArrive ==
    ASSUME ReviewTypes, InStep, Caught, calm, calm', NEW i \in DOMAIN net, Arrive(i)
    PROVE  net' \in Seq(Kept(sort', open'))
<1> DEFINE r == net[i]
           leaves == r.then = "advance" /\ r.next # None
<1>1. /\ net \in Seq(Kept(sort, open)) /\ r \in Kept(sort, open) /\ r \in Requests
      /\ sort \in DOMAIN SortOrder /\ net \in Seq(Requests)
  BY DEF Caught, ReviewTypes
<1>2. /\ net' = RemoveAt(net, i) \o FollowUp(i) /\ sort' = sort
      /\ open' = IF leaves THEN r.next ELSE open
      /\ leaves => ~Reloading
      /\ FollowUp(i) \in Seq(Requests) /\ RemoveAt(net, i) \in Seq(Requests)
  BY FollowUps DEF Arrive, panel
<1>3. RemoveAt(net, i) \in Seq(Kept(sort, open'))
  <2>1. \A j \in DOMAIN net : net[j] \in Kept(sort, open')
    <3>1. CASE leaves
      <4>1. \A j \in DOMAIN net : net[j].then # "reload"
        BY <1>2, <3>1 DEF Reloading, UnderWay
      <4>2. open # None
        BY <1>1, <3>1 DEF InStep, Coming
      <4> QED BY <1>1, <1>2, <3>1, <4>1, <4>2 DEF Kept
    <3>2. CASE ~leaves
      BY <1>1, <1>2, <3>2
    <3> QED BY <3>1, <3>2
  <2>2. net \in Seq(Kept(sort, open'))
    BY <1>1, <2>1
  <2> QED BY <2>2, RemoveAtIs
<1>4. FollowUp(i) \in Seq(Kept(sort, open'))
  <2>1. \A j \in DOMAIN FollowUp(i) :
            /\ FollowUp(i)[j].kind # "post"
            /\ FollowUp(i)[j].then # "nothing" => FollowUp(i)[j].by = sort
    <3>1. PICK a, b, c : a = Refresh(r.by) /\ b = Reread(r) /\ c = Read(r.next, "nothing")
      OBVIOUS
    <3>2. r.by \in DOMAIN SortOrder /\ r.next \in Somebody
      BY <1>1 DEF Requests
    <3>3. /\ a \in Seq(Requests) /\ \A j \in DOMAIN a : a[j].kind # "post" /\ a[j].then = "nothing"
          /\ b.kind = "detail" /\ b.by = r.by /\ b \in Requests
          /\ c.kind = "detail" /\ c.by = sort /\ c \in Requests
      <4>1. a = <<[Request EXCEPT !.by = r.by], [Request EXCEPT !.kind = "pending"]>>
        BY <3>1 DEF Refresh
      <4>2. \A j \in DOMAIN a : a[j].kind # "post" /\ a[j].then = "nothing"
        BY <4>1 DEF Request
      <4>3. a \in Seq(Requests) /\ b \in Requests /\ c \in Requests
        BY <1>1, <3>1, <3>2, NewRequests, FreshIsRequest, RereadIs
      <4>4. b.kind = "detail" /\ b.by = r.by
        BY <1>1, <3>1, RereadIs
      <4> QED BY <3>1, <4>2, <4>3, <4>4 DEF Read, Request
    <3>4. \/ r.then = "reload" /\ FollowUp(i) = <<b>>
          \/ FollowUp(i) \in {<<>>, a, a \o <<>>, a \o <<c>>}
      BY <3>1 DEF FollowUp
    <3>7. r.then = "reload" => b.by = sort
      BY <1>1, <3>3 DEF Kept
    <3>5. DOMAIN <<b>> = {1} /\ <<b>>[1] = b /\ DOMAIN <<>> = {} /\ a \o <<>> = a
      BY <3>3
    <3>6. \A j \in DOMAIN (a \o <<c>>) : (a \o <<c>>)[j] = c \/ (j \in DOMAIN a /\ (a \o <<c>>)[j] = a[j])
      <4>1. a \o <<c>> = Append(a, c)
        BY <3>3
      <4> QED BY <3>3, <4>1
    <3> QED BY <3>3, <3>4, <3>5, <3>6, <3>7
  <2>2. \A j \in DOMAIN FollowUp(i) : FollowUp(i)[j] \in Kept(sort, open')
    BY <1>2, <2>1 DEF Kept
  <2> QED BY <1>2, <2>2
<1> QED BY <1>2, <1>3, <1>4, ConcatProperties

LEMMA CountedArrive ==
    ASSUME ReviewTypes, Caught, calm, calm', NEW i \in DOMAIN net, Arrive(i)
    PROVE  Counted'
<1> DEFINE r == net[i]
           n == RemoveAt(net, i)
<1>1. /\ net \in Seq(Kept(sort, open)) /\ r \in Kept(sort, open) /\ r \in Requests /\ Counted
      /\ sort \in DOMAIN SortOrder /\ net \in Seq(Requests)
  BY DEF Caught, ReviewTypes
<1>2. /\ net' = n \o FollowUp(i) /\ r.served /\ ~Overtakes(i) /\ Shown(r) /\ UNCHANGED <<sort, row>>
      /\ FollowUp(i) \in Seq(Requests) /\ n \in Seq(Requests)
  BY FollowUps DEF Arrive, panel
<1> SUFFICES ASSUME NoneOf(net', Promises)
             PROVE  /\ Latest(net', Queues, GridOf(sort, row), grid' = [by |-> sort, rows |-> row])
                    /\ Latest(net', Pendings, CountOf(row), pending' = Pending(row))
  BY <1>2 DEF Counted
<1>3. /\ \A j \in DOMAIN net : j # i => net[j] \notin Promises
      /\ NoneOf(FollowUp(i), Promises)
  BY <1>1, <1>2, NoneOfParts
<1>4. CASE r.then # "nothing"
  <2>1. r.by = sort
    BY <1>1, <1>4 DEF Kept
  <2>2. FollowUp(i) = Refresh(sort) \/ \E p \in Photo : FollowUp(i) = Refresh(sort) \o <<Read(p, "nothing")>>
    <3>1. r.then # "reload"
      <4> SUFFICES ASSUME r.then = "reload" PROVE FALSE
        OBVIOUS
      <4>1. FollowUp(i) = <<Read(r.next, "reread")>>
        BY <1>1, <2>1, RereadIs DEF FollowUp
      <4>2. Read(r.next, "reread") \in Requests
        BY <1>1, NewRequests, FreshIsRequest DEF Requests
      <4>3. Read(r.next, "reread").then = "reread"
        BY DEF Read, Request
      <4>4. Read(r.next, "reread") \in Promises
        BY <4>2, <4>3 DEF Promises
      <4>5. FollowUp(i)[1] = Read(r.next, "reread") /\ 1 \in DOMAIN FollowUp(i)
        BY <4>1
      <4> QED BY <1>3, <4>4, <4>5 DEF NoneOf
    <3>2. r.then = "group" => Others(i) = {}
      <4> SUFFICES ASSUME NEW j \in DOMAIN net, j # i, net[j].then = "group" PROVE FALSE
        BY DEF Others
      <4>1. net[j] \in Promises
        BY <1>1 DEF Promises
      <4> QED BY <1>3, <4>1
    <3>3. r.then \in {"advance", "refresh", "group", "reread"} /\ r.next \in Photo \cup {None}
      BY <1>1, <1>4, <3>1 DEF Requests, Somebody
    <3>4. r.then # "advance" => FollowUp(i) = Refresh(sort)
      BY <2>1, <3>2, <3>3 DEF FollowUp
    <3>5. r.then = "advance" => FollowUp(i) = Refresh(sort) \o
                                   (IF r.next \in {None, open} THEN <<>> ELSE <<Read(r.next, "nothing")>>)
      BY <2>1 DEF FollowUp
    <3>6. Refresh(sort) \o <<>> = Refresh(sort)
      BY <1>1, RefreshEnds
    <3> QED BY <3>3, <3>4, <3>5, <3>6
  <2>3. Ends(FollowUp(i), Queues, GridOf(sort, row)) /\ Ends(FollowUp(i), Pendings, CountOf(row))
    <3>1. /\ Refresh(sort) \in Seq(Requests)
          /\ Ends(Refresh(sort), Queues, GridOf(sort, row)) /\ Ends(Refresh(sort), Pendings, CountOf(row))
      BY <1>1, RefreshEnds
    <3>2. ASSUME NEW p \in Photo
          PROVE  /\ Ends(Refresh(sort) \o <<Read(p, "nothing")>>, Queues, GridOf(sort, row))
                 /\ Ends(Refresh(sort) \o <<Read(p, "nothing")>>, Pendings, CountOf(row))
      <4>1. /\ <<Read(p, "nothing")>> \in Seq(Requests)
            /\ NoneOf(<<Read(p, "nothing")>>, Queues) /\ NoneOf(<<Read(p, "nothing")>>, Pendings)
        BY <1>1, ReadEnds
      <4>2. /\ Latest(Refresh(sort), Queues, GridOf(sort, row), FALSE)
            /\ Latest(Refresh(sort), Pendings, CountOf(row), FALSE)
        BY <3>1 DEF Latest
      <4>3. /\ Latest(Refresh(sort) \o <<Read(p, "nothing")>>, Queues, GridOf(sort, row), FALSE)
            /\ Latest(Refresh(sort) \o <<Read(p, "nothing")>>, Pendings, CountOf(row), FALSE)
        BY <3>1, <4>1, <4>2, LatestAndMore
      <4> QED BY <4>3 DEF Latest
    <3> QED BY <2>2, <3>1, <3>2
  <2> QED BY <1>2, <2>3, LatestAndMore
<1>5. CASE r.then = "nothing"
  <2>1. net' = n
    <3>1. FollowUp(i) = <<>>
      BY <1>5 DEF FollowUp
    <3> QED BY <1>2, <3>1
  <2>2. NoneOf(net, Promises)
    BY <1>1, <1>3, <1>5 DEF NoneOf, Promises
  <2>3. /\ Latest(net, Queues, GridOf(sort, row), grid = [by |-> sort, rows |-> row])
        /\ Latest(net, Pendings, CountOf(row), pending = Pending(row))
    BY <1>1, <2>2 DEF Counted
  <2>4. r.kind # "post" => \A j \in 1..(i - 1) : net[j].kind # r.kind
    BY <1>2 DEF Overtakes
  <2>5. Latest(n, Queues, GridOf(sort, row), grid' = [by |-> sort, rows |-> row])
    <3>1. CASE r \notin Queues
      <4>1. grid' = grid
        BY <1>1, <1>2, <3>1 DEF Shown, Queues
      <4> QED BY <1>1, <2>3, <3>1, <4>1, LatestAndLess
    <3>2. CASE r \in Queues
      <4>1. r \in GridOf(sort, row) => grid' = [by |-> sort, rows |-> row]
        BY <1>2, <3>2 DEF Shown, Queues, GridOf
      <4>2. \A j \in 1..(i - 1) : net[j] \notin Queues
        BY <2>4, <3>2 DEF Queues
      <4> QED BY <1>1, <2>3, <3>2, <4>1, <4>2, LatestAndLess
    <3> QED BY <3>1, <3>2
  <2>6. Latest(n, Pendings, CountOf(row), pending' = Pending(row))
    <3>1. CASE r \notin Pendings
      <4>1. pending' = pending
        BY <1>1, <1>2, <3>1 DEF Shown, Pendings
      <4> QED BY <1>1, <2>3, <3>1, <4>1, LatestAndLess
    <3>2. CASE r \in Pendings
      <4>1. r \in CountOf(row) => pending' = Pending(row)
        BY <1>2, <3>2 DEF Shown, Pendings, CountOf
      <4>2. \A j \in 1..(i - 1) : net[j] \notin Pendings
        BY <2>4, <3>2 DEF Pendings
      <4> QED BY <1>1, <2>3, <3>2, <4>1, <4>2, LatestAndLess
    <3> QED BY <3>1, <3>2
  <2> QED BY <2>1, <2>5, <2>6
<1> QED BY <1>4, <1>5

LEMMA DetailedArrive ==
    ASSUME ReviewTypes, InStep, Caught, calm, calm', NEW i \in DOMAIN net, Arrive(i)
    PROVE  Detailed'
<1> DEFINE r == net[i]
           n == RemoveAt(net, i)
<1>1. /\ net \in Seq(Kept(sort, open)) /\ r \in Kept(sort, open) /\ r \in Requests /\ Detailed
      /\ sort \in DOMAIN SortOrder /\ net \in Seq(Requests) /\ viewer \in Seq(Photo)
      /\ open = None => viewer = <<>>
      /\ r \in Coming
      /\ open # None => open \in ToSet(viewer)
  BY DEF Caught, ReviewTypes, InStep
<1>2. /\ net' = n \o FollowUp(i) /\ r.served /\ ~Overtakes(i) /\ Shown(r)
      /\ UNCHANGED <<sort, row, viewer>>
      /\ open' = IF r.then = "advance" /\ r.next # None THEN r.next ELSE open
      /\ FollowUp(i) \in Seq(Requests) /\ n \in Seq(Requests)
  BY FollowUps DEF Arrive, panel
<1> SUFFICES ASSUME 1 < Len(viewer), NoneOf(net', Rereads)
             PROVE  Latest(net', Details, DetailOf(open', row),
                           detail' = [photo |-> open', row |-> row[open']])
  BY <1>2 DEF Detailed
<1>3. viewer # <<>> /\ open # None /\ open \in ToSet(viewer) /\ open \in Photo
  <2>1. viewer # <<>>
    OBVIOUS
  <2> QED BY <1>1, <2>1 DEF ToSet
<1>4. CASE r.then = "advance"
  <2>1. r.next = Following /\ Following \in Photo /\ Following # None
    BY <1>1, <1>3, <1>4, AheadIs, ReviewAssumption DEF Coming
  <2>2. open' = Following /\ open' # open
    <3>1. open' = Following
      BY <1>2, <1>4, <2>1
    <3> QED BY <1>2, <1>3, <3>1, Onward
  <2>3. FollowUp(i) = Refresh(r.by) \o <<Read(open', "nothing")>>
    BY <1>4, <2>1, <2>2 DEF FollowUp
  <2>4. r.by \in DOMAIN SortOrder
    BY <1>1 DEF Requests
  <2>5. Ends(<<Read(open', "nothing")>>, Details, DetailOf(open', row)) /\ <<Read(open', "nothing")>> \in Seq(Requests)
    BY <1>1, <2>1, <2>2, ReadEnds
  <2>6. Refresh(r.by) \in Seq(Requests)
    BY <1>1, <2>4, RefreshEnds
  <2>7. Ends(FollowUp(i), Details, DetailOf(open', row))
    <3>1. Latest(FollowUp(i), Details, DetailOf(open', row), FALSE)
      BY <2>3, <2>5, <2>6, LatestAndMore
    <3> QED BY <3>1 DEF Latest
  <2> QED BY <1>2, <2>7, LatestAndMore
<1>5. CASE r.then = "reload"
  <2>1. r.kind = "post"
    BY <1>1, <1>5 DEF Requests, Sane
  <2>2. open' = open /\ r.next = open
    BY <1>1, <1>2, <1>3, <1>5, <2>1 DEF Kept
  <2>3. FollowUp(i) = <<Read(open, "reread")>>
    <3>1. r.by = sort
      BY <1>1, <1>5 DEF Kept
    <3> QED BY <1>1, <1>5, <2>2, <3>1, RereadIs DEF FollowUp
  <2>4. Ends(<<Read(open, "reread")>>, Details, DetailOf(open, row))
    BY <1>1, <1>3, ReadEnds
  <2> QED BY <1>2, <2>2, <2>3, <2>4, LatestAndMore
<1>6. CASE r.then \notin {"advance", "reload"}
  <2>1. r.kind # "post" /\ open' = open
    BY <1>1, <1>2, <1>3, <1>6 DEF Kept
  <2>2. NoneOf(FollowUp(i), Details)
    <3>1. r.then \in {"nothing", "reread"}
      BY <1>1, <2>1 DEF Requests, Sane
    <3>2. FollowUp(i) = <<>> \/ FollowUp(i) = Refresh(r.by)
      BY <3>1 DEF FollowUp
    <3>3. NoneOf(Refresh(r.by), Details)
      BY <1>1, RefreshEnds DEF Requests
    <3>4. NoneOf(<<>>, Details)
      BY DEF NoneOf
    <3> QED BY <3>2, <3>3, <3>4
  <2>3. NoneOf(net, Rereads)
    <3>1. \A j \in DOMAIN net : j # i => net[j] \notin Rereads
      BY <1>1, <1>2, NoneOfParts
    <3> QED BY <1>6, <3>1 DEF NoneOf, Rereads
  <2>4. Latest(net, Details, DetailOf(open, row), detail = [photo |-> open, row |-> row[open]])
    BY <1>1, <2>3 DEF Detailed
  <2>5. Latest(n, Details, DetailOf(open, row), detail' = [photo |-> open, row |-> row[open]])
    <3>1. CASE r \notin Details
      <4>1. detail' = detail
        BY <1>1, <1>2, <3>1 DEF Shown, Details
      <4> QED BY <1>1, <2>4, <3>1, <4>1, LatestAndLess
    <3>2. CASE r \in Details
      <4>1. r \in DetailOf(open, row) => detail' = [photo |-> open, row |-> row[open]]
        BY <1>2, <3>2 DEF Shown, Details, DetailOf
      <4>2. \A j \in 1..(i - 1) : net[j] \notin Details
        BY <1>2, <2>1, <3>2 DEF Overtakes, Details
      <4> QED BY <1>1, <2>4, <3>2, <4>1, <4>2, LatestAndLess
    <3> QED BY <3>1, <3>2
  <2> QED BY <1>2, <2>1, <2>2, <2>5, LatestAndMore
<1> QED BY <1>4, <1>5, <1>6

\* What the user does.
LEMMA CaughtActs ==
    ASSUME ReviewTypes, Caught, calm, calm', Acts
    PROVE  net' \in Seq(Kept(sort', open')) /\ Counted' /\ Detailed'
<1>1. /\ net \in Seq(Kept(sort, open)) /\ Counted /\ Detailed
      /\ sort \in DOMAIN SortOrder /\ net \in Seq(Requests)
  BY DEF Caught, ReviewTypes
<1>2. UNCHANGED <<row, copies, viewer, open>> /\ (UNCHANGED <<net, sort>> \/ \E x \in Fresh : Sent(x))
  BY ActsSend
<1>3. CASE UNCHANGED <<net, sort>>
  BY <1>1, <1>2, <1>3 DEF Counted, Detailed, copies
<1>4. ASSUME NEW x \in Fresh, Sent(x)
      PROVE  net' \in Seq(Kept(sort', open')) /\ Counted' /\ Detailed'
  <2>1. x \in Requests /\ ~x.served /\ net' = Append(net, x) /\ open' = open
    BY <1>2, <1>4, FreshIsRequest DEF Sent, Fresh
  <2>2. net' = net \o <<x>> /\ <<x>> \in Seq(Requests) /\ \A Q : x \notin Q => NoneOf(<<x>>, Q)
    BY <1>1, <2>1, AppendIsConcatOne
  <2>3. NoneOf(<<x>>, Pendings) /\ NoneOf(<<x>>, Details)
    <3>1. x.kind \in {"queue", "post"}
      BY <1>4 DEF Sent
    <3>2. x \notin Pendings /\ x \notin Details
      BY <3>1 DEF Pendings, Details
    <3> QED BY <2>2, <3>2
  <2>4. (sort' = sort /\ NoneOf(<<x>>, Queues)) \/ Ends(<<x>>, Queues, GridOf(sort', row))
    <3>1. CASE x.kind = "queue"
      <4>1. x.by = sort'
        BY <1>4, <3>1 DEF Sent
      <4>2. x \in GridOf(sort', row) /\ x \in Queues
        BY <2>1, <3>1, <4>1 DEF GridOf, Queues
      <4>3. DOMAIN <<x>> = {1} /\ <<x>>[1] = x
        OBVIOUS
      <4> QED BY <4>2, <4>3 DEF Ends
    <3>2. CASE x.kind # "queue"
      <4>1. sort' = sort
        BY <1>4, <3>2 DEF Sent
      <4>2. x \notin Queues
        BY <3>2 DEF Queues
      <4> QED BY <2>2, <4>1, <4>2
    <3> QED BY <3>1, <3>2
  <2>5. Counted' /\ Detailed'
    BY <1>1, <1>2, <2>2, <2>3, <2>4, Sends
  <2>6. x \in Kept(sort', open)
    BY <1>4, <2>1 DEF Sent, Kept
  <2>7. net \in Seq(Kept(sort', open))
    <3>1. CASE SetSort
      <4>1. \A j \in DOMAIN net : net[j] \in Kept(sort, open) /\ net[j].then = "nothing"
        <5>1. calm' = (calm /\ \A j \in DOMAIN net : net[j].then = "nothing")
          BY <3>1 DEF SetSort
        <5>2. \A j \in DOMAIN net : net[j].then = "nothing"
          BY <5>1
        <5> QED BY <1>1, <5>2
      <4>2. \A j \in DOMAIN net : net[j] \in Kept(sort', open)
        BY <4>1 DEF Kept
      <4> QED BY <1>1, <4>2
    <3>2. CASE sort' = sort
      BY <1>1, <3>2
    <3> QED BY <1>4, <3>1, <3>2 DEF Sent
  <2>8. net' \in Seq(Kept(sort', open'))
    BY <2>1, <2>6, <2>7
  <2> QED BY <2>5, <2>8
<1> QED BY <1>2, <1>3, <1>4

\* The viewer is opened at a photo, or goes to one.
LEMMA CaughtRead ==
    ASSUME ReviewTypes, Caught, calm, NEW p \in Photo,
           UNCHANGED <<row, panel, copies>>, open' = p, net' = Append(net, Read(p, "nothing")),
           \A j \in DOMAIN net : net[j].kind # "post"
    PROVE  net' \in Seq(Kept(sort', open')) /\ Counted' /\ Detailed'
<1>1. /\ net \in Seq(Kept(sort, open)) /\ Counted /\ Detailed
      /\ sort \in DOMAIN SortOrder /\ net \in Seq(Requests) /\ sort' = sort
  BY DEF Caught, ReviewTypes, panel
<1>2. PICK x : x = Read(p, "nothing")
  OBVIOUS
<1>3. /\ x \in Requests /\ x.kind = "detail" /\ x.then = "nothing"
      /\ NoneOf(<<x>>, Queues) /\ NoneOf(<<x>>, Pendings)
      /\ Ends(<<x>>, Details, DetailOf(p, row))
  <2>1. x.then = "nothing"
    BY <1>2 DEF Read, Request
  <2>2. x \in Requests
    BY <1>1, <1>2, NewRequests, FreshIsRequest DEF Somebody
  <2> QED BY <1>1, <1>2, <2>1, <2>2, ReadEnds
<1>4. net' = net \o <<x>> /\ <<x>> \in Seq(Requests)
  BY <1>1, <1>2, <1>3, AppendIsConcatOne
<1>5. Counted' /\ Detailed'
  BY <1>1, <1>3, <1>4, Sends
<1>6. x \in Kept(sort, p)
  BY <1>3 DEF Kept
<1>7. net \in Seq(Kept(sort, p))
  <2>1. \A j \in DOMAIN net : net[j] \in Kept(sort, p)
    BY <1>1 DEF Kept
  <2> QED BY <1>1, <2>1
<1> QED BY <1>1, <1>2, <1>5, <1>6, <1>7

LEMMA CaughtClose ==
    ASSUME ReviewTypes, Caught, calm, CloseViewer
    PROVE  net' \in Seq(Kept(sort', open')) /\ Counted' /\ Detailed'
<1>1. /\ net \in Seq(Kept(sort, open)) /\ Counted /\ net \in Seq(Requests)
  BY DEF Caught, ReviewTypes
<1>2. /\ UNCHANGED <<row, sort, grid, pending>> /\ open' = None /\ viewer' = <<>>
      /\ net' = [j \in DOMAIN net |-> Unmounted(net[j])]
  BY DEF CloseViewer, panel
<1>3. \A r \in Requests :
          /\ Unmounted(r) \in Requests
          /\ Unmounted(r).kind = r.kind /\ Unmounted(r).by = r.by /\ Unmounted(r).then = r.then
          /\ Unmounted(r).served = r.served /\ Unmounted(r).answer = r.answer
  BY DEF Unmounted, Requests, Sane, Somebody
<1>4. DOMAIN net' = DOMAIN net /\ \A j \in DOMAIN net : net'[j] = Unmounted(net[j]) /\ net[j] \in Requests
  BY <1>1, <1>2
<1>5. net' \in Seq(Kept(sort, None))
  <2>1. \A r \in Kept(sort, open) : Unmounted(r) \in Kept(sort, None)
    BY <1>3 DEF Kept
  <2>2. [j \in DOMAIN net |-> Unmounted(net[j])] \in Seq(Kept(sort, None))
    BY <1>1, <2>1
  <2> QED BY <1>2, <2>2
<1>6. \A j \in DOMAIN net :
          /\ net'[j] \in Promises <=> net[j] \in Promises
          /\ net'[j] \in Queues <=> net[j] \in Queues
          /\ net'[j] \in Pendings <=> net[j] \in Pendings
          /\ net[j] \in GridOf(sort, row) => net'[j] \in GridOf(sort, row)
          /\ net[j] \in CountOf(row) => net'[j] \in CountOf(row)
  BY <1>3, <1>4 DEF Promises, Queues, Pendings, GridOf, CountOf
<1>7. Counted'
  <2> SUFFICES ASSUME NoneOf(net', Promises)
               PROVE  /\ Latest(net', Queues, GridOf(sort, row), grid = [by |-> sort, rows |-> row])
                      /\ Latest(net', Pendings, CountOf(row), pending = Pending(row))
    BY <1>2 DEF Counted
  <2>1. NoneOf(net, Promises)
    BY <1>4, <1>6 DEF NoneOf
  <2>2. /\ Latest(net, Queues, GridOf(sort, row), grid = [by |-> sort, rows |-> row])
        /\ Latest(net, Pendings, CountOf(row), pending = Pending(row))
    BY <1>1, <2>1 DEF Counted
  <2> QED BY <1>4, <1>6, <2>2, LatestAlike
<1>8. Detailed'
  BY <1>2 DEF Detailed
<1> QED BY <1>2, <1>5, <1>7, <1>8

LEMMA CaughtLost ==
    ASSUME ReviewTypes, Caught, calm, calm', NEW i \in DOMAIN net, Lost(i)
    PROVE  net' \in Seq(Kept(sort', open')) /\ Counted' /\ Detailed'
<1>1. /\ net \in Seq(Kept(sort, open)) /\ Counted /\ Detailed /\ net \in Seq(Requests)
      /\ net[i] \in Requests /\ net[i] \in Kept(sort, open)
  BY DEF Caught, ReviewTypes
<1>2. /\ UNCHANGED <<row, sort, copies, viewer, open>>
      /\ net[i].kind = "post" /\ ~net[i].served /\ net[i].then # "group"
  BY DEF Lost, panel
<1>3. net' = RemoveAt(net, i)
  <2>1. net[i].then # "reread" /\ LeftBy(i) = net
    BY <1>1, <1>2 DEF Requests, Sane, LeftBy
  <2>2. net' = RemoveAt(net, i) \o <<>>
    BY <2>1, LostIs
  <2>3. RemoveAt(net, i) \in Seq(Requests)
    BY <1>1, RemoveAtIs
  <2> QED BY <2>2, <2>3
<1>4. /\ net[i] \notin Promises /\ net[i] \notin Rereads
      /\ net[i] \notin Queues /\ net[i] \notin Pendings /\ net[i] \notin Details
  BY <1>1, <1>2 DEF Promises, Rereads, Queues, Pendings, Details, Requests, Sane
<1>5. /\ NoneOf(net', Promises) => NoneOf(net, Promises)
      /\ NoneOf(net', Rereads) => NoneOf(net, Rereads)
  <2>1. /\ NoneOf(net', Promises) => \A j \in DOMAIN net : j # i => net[j] \notin Promises
        /\ NoneOf(net', Rereads) => \A j \in DOMAIN net : j # i => net[j] \notin Rereads
    BY <1>1, <1>3, NoneOfParts
  <2> QED BY <1>4, <2>1 DEF NoneOf
<1>6. Counted'
  <2> SUFFICES ASSUME NoneOf(net', Promises)
               PROVE  /\ Latest(net', Queues, GridOf(sort, row), grid = [by |-> sort, rows |-> row])
                      /\ Latest(net', Pendings, CountOf(row), pending = Pending(row))
    BY <1>2 DEF Counted, copies
  <2>1. /\ Latest(net, Queues, GridOf(sort, row), grid = [by |-> sort, rows |-> row])
        /\ Latest(net, Pendings, CountOf(row), pending = Pending(row))
    BY <1>1, <1>5 DEF Counted
  <2> QED BY <1>1, <1>3, <1>4, <2>1, LatestAndLess
<1>7. Detailed'
  <2> SUFFICES ASSUME 1 < Len(viewer), NoneOf(net', Rereads)
               PROVE  Latest(net', Details, DetailOf(open, row), detail = [photo |-> open, row |-> row[open]])
    BY <1>2 DEF Detailed, copies
  <2>1. Latest(net, Details, DetailOf(open, row), detail = [photo |-> open, row |-> row[open]])
    BY <1>1, <1>5 DEF Detailed
  <2> QED BY <1>1, <1>3, <1>4, <2>1, LatestAndLess
<1> QED BY <1>1, <1>2, <1>3, <1>6, <1>7, RemoveAtIs

LEMMA CaughtStep == ReviewTypes /\ InStep /\ Caught /\ [Next]_vars => Caught'
<1> SUFFICES ASSUME ReviewTypes, InStep, Caught, [Next]_vars, calm'
             PROVE  net' \in Seq(Kept(sort', open')) /\ Counted' /\ Detailed'
  BY DEF Caught
<1>1. /\ net \in Seq(Requests) /\ sort \in DOMAIN SortOrder /\ open \in Somebody
  BY DEF ReviewTypes
<1>2. CASE UNCHANGED vars
  BY <1>2 DEF vars, panel, copies, Caught, Counted, Detailed
<1>3. calm \/ UNCHANGED vars
  <2>1. CASE Acts
    BY <2>1, ActsSend
  <2> QED BY <2>1 DEF Next, Acts, vars, OpenPhoto, CloseViewer, Walk, NextUndecided, GoTo, KeepOnly,
                 Serve, Arrive, Lost
<1>4. ASSUME calm, Next PROVE net' \in Seq(Kept(sort', open')) /\ Counted' /\ Detailed'
  <2>1. CASE Acts
    BY <1>4, <2>1, CaughtActs
  <2>2. ASSUME NEW p \in Photo, OpenPhoto(p)
        PROVE  net' \in Seq(Kept(sort', open')) /\ Counted' /\ Detailed'
    BY <1>4, <2>2, CaughtRead DEF OpenPhoto
  <2>3. CASE CloseViewer
    BY <1>4, <2>3, CaughtClose
  <2>4. CASE Walk \/ NextUndecided
    <3>1. /\ open' = open \/ open' \in Photo
          /\ open # None /\ viewer # <<>> /\ GoTo(open')
      BY <2>4, Steps
    <3>2. /\ UNCHANGED <<row, panel, copies, viewer>> /\ ~Reloading /\ ~Saving
          /\ net' = IF open' = open THEN net ELSE Append(net, Read(open', "nothing"))
      BY <3>1 DEF GoTo
    <3>3. CASE open' = open
      BY <1>4, <3>2, <3>3 DEF Caught, Counted, Detailed, panel, copies
    <3>4. CASE open' # open
      <4>1. \A j \in DOMAIN net : net[j].kind # "post"
        BY <1>4, <3>1, <3>2 DEF Caught, Kept, Reloading, Saving, UnderWay
      <4> QED BY <1>4, <3>1, <3>2, <3>4, <4>1, CaughtRead
    <3> QED BY <3>3, <3>4
  <2>5. ASSUME NEW p \in Photo, KeepOnly(p)
        PROVE  net' \in Seq(Kept(sort', open')) /\ Counted' /\ Detailed'
    <3>1. UNCHANGED <<row, panel, copies, viewer, open>> /\ open = None
      BY <2>5 DEF KeepOnly
    <3>2. PICK m \in Seq(Requests) :
              /\ net' = net \o m
              /\ \A i \in DOMAIN m : m[i].kind = "post" /\ m[i].then = "group" /\ m[i].by = sort
      BY <2>5, KeepOnlyPosts
    <3>3. NoneOf(m, Queues) /\ NoneOf(m, Pendings) /\ NoneOf(m, Details)
      BY <3>2 DEF NoneOf, Queues, Pendings, Details
    <3>4. Counted' /\ Detailed'
      BY <1>4, <3>1, <3>2, <3>3, Sends DEF Caught, panel
    <3>5. m \in Seq(Kept(sort, open))
      <4>1. \A j \in DOMAIN m : m[j] \in Kept(sort, open)
        BY <3>1, <3>2 DEF Kept
      <4> QED BY <3>2, <4>1
    <3>6. net' \in Seq(Kept(sort', open'))
      BY <1>4, <3>1, <3>2, <3>5, ConcatProperties DEF Caught, panel
    <3> QED BY <3>4, <3>6
  <2>6. ASSUME NEW i \in DOMAIN net, Serve(i)
        PROVE  net' \in Seq(Kept(sort', open')) /\ Counted' /\ Detailed'
    BY <1>4, <2>6, CaughtServe
  <2>7. ASSUME NEW i \in DOMAIN net, Arrive(i)
        PROVE  net' \in Seq(Kept(sort', open')) /\ Counted' /\ Detailed'
    BY <1>4, <2>7, KeptArrive, CountedArrive, DetailedArrive
  <2>8. ASSUME NEW i \in DOMAIN net, Lost(i)
        PROVE  net' \in Seq(Kept(sort', open')) /\ Counted' /\ Detailed'
    BY <1>4, <2>8, CaughtLost
  <2> QED BY <1>4, <2>1, <2>2, <2>3, <2>4, <2>5, <2>6, <2>7, <2>8 DEF Next, Acts
<1> QED BY <1>2, <1>3, <1>4

(* When every request has been answered, and none crossed another on the   *)
(* way, the page shows what the server has: the grid in the order chosen,  *)
(* the count of the Export button and the photo in the viewer with its     *)
(* decision (review.js: each mutation reloads what it changed).            *)
THEOREM AllIsShown == Spec => []Settled
<1>1. Init => Caught
  <2> SUFFICES ASSUME Init PROVE Caught
    OBVIOUS
  <2>1. sort \in DOMAIN SortOrder /\ net = Refresh(sort) /\ viewer = <<>>
    BY DEF Init
  <2>2. /\ net \in Seq(Requests)
        /\ Ends(net, Queues, GridOf(sort, row)) /\ Ends(net, Pendings, CountOf(row))
    BY <2>1, RefreshEnds
  <2>3. \A j \in DOMAIN net : net[j].kind # "post" /\ net[j].then = "nothing"
    BY <2>1 DEF Refresh, Request
  <2>4. \A j \in DOMAIN net : net[j] \in Kept(sort, open)
    BY <2>2, <2>3 DEF Kept
  <2>5. net \in Seq(Kept(sort, open))
    BY <2>2, <2>4
  <2> QED BY <2>1, <2>2, <2>5 DEF Caught, Counted, Detailed, Latest
<1>2. ReviewTypes /\ Caught => Settled
  <2> SUFFICES ASSUME ReviewTypes, Caught, calm, net = <<>>
               PROVE  /\ grid = [by |-> sort, rows |-> row]
                      /\ pending = Pending(row)
                      /\ Len(viewer) > 1 => detail = [photo |-> open, row |-> row[open]]
    BY DEF Settled
  <2>1. \A Q : NoneOf(net, Q)
    BY DEF NoneOf
  <2>2. \A Q, G : ~Ends(net, Q, G)
    BY DEF Ends
  <2>3. Latest(net, Queues, GridOf(sort, row), grid = [by |-> sort, rows |-> row])
        /\ Latest(net, Pendings, CountOf(row), pending = Pending(row))
    BY <2>1 DEF Caught, Counted
  <2>4. 1 < Len(viewer) => Latest(net, Details, DetailOf(open, row), detail = [photo |-> open, row |-> row[open]])
    BY <2>1 DEF Caught, Detailed
  <2>5. Len(viewer) > 1 <=> 1 < Len(viewer)
    BY DEF ReviewTypes
  <2> QED BY <2>2, <2>3, <2>4, <2>5 DEF Latest
<1> QED BY <1>1, <1>2, InStepInit, TypesInit, TypesStep, InStepStep, CaughtStep, PTL DEF Spec
=============================================================================
