------------------------ MODULE AuctionListsProofs ------------------------
(* Safety of AuctionLists, for every number of auctions and of loads, every *)
(* order of the list and every page size: what is shown is what was         *)
(* answered for the query that is set.                                      *)
EXTENDS AuctionLists, FiniteSetTheorems, FunctionTheorems, TLAPS

(* The place of an element of a set in the order of a key.                  *)
Place(S, key, x) == Cardinality({y \in S : key[y] <= key[x]})

(* A key orders a set: it is an integer, and another one for each element.  *)
IsKeyOf(key, S) ==
    /\ IsFiniteSet(S)
    /\ \A x \in S : key[x] \in Int
    /\ \A x, y \in S : key[x] = key[y] => x = y

(* The places of a set's elements are numbers from 1 to its size.           *)
LEMMA PlaceType ==
    ASSUME NEW S, NEW key, IsKeyOf(key, S), NEW x \in S
    PROVE  /\ Cardinality(S) \in Nat
           /\ Place(S, key, x) \in 1 .. Cardinality(S)
<1> DEFINE U == {y \in S : key[y] <= key[x]}
<1>1. IsFiniteSet(S) /\ Cardinality(S) \in Nat
  BY FS_CardinalityType DEF IsKeyOf
<1>2. U \in SUBSET S /\ x \in U
  BY DEF IsKeyOf
<1> HIDE DEF U
<1>3. IsFiniteSet(U) /\ Cardinality(U) <= Cardinality(S)
  BY <1>1, <1>2, FS_Subset
<1>4. Cardinality(U) \in Nat /\ Cardinality(U) # 0
  BY <1>2, <1>3, FS_CardinalityType, FS_EmptySet
<1>5. Cardinality(U) \in 1 .. Cardinality(S)
  BY <1>1, <1>3, <1>4
<1> QED  BY <1>1, <1>5 DEF U, Place

(* A larger key has a later place.                                          *)
LEMMA PlaceMonotone ==
    ASSUME NEW S, NEW key, IsKeyOf(key, S), NEW x \in S, NEW y \in S
    PROVE  key[x] < key[y] <=> Place(S, key, x) < Place(S, key, y)
<1>1. ASSUME NEW u \in S, NEW v \in S, key[u] < key[v]
      PROVE  Place(S, key, u) < Place(S, key, v)
  <2> DEFINE U == {z \in S : key[z] <= key[u]}
             V == {z \in S : key[z] <= key[v]}
  <2>1. U \in SUBSET V /\ v \in V /\ v \notin U /\ V \in SUBSET S
    BY <1>1 DEF IsKeyOf
  <2> HIDE DEF U, V
  <2>2. IsFiniteSet(V)
    BY <2>1, FS_Subset DEF IsKeyOf
  <2>3. Cardinality(U) <= Cardinality(V) /\ (Cardinality(V) = Cardinality(U) => V = U) /\ IsFiniteSet(U)
    BY <2>1, <2>2, FS_Subset
  <2>4. Cardinality(U) \in Nat /\ Cardinality(V) \in Nat
    BY <2>2, <2>3, FS_CardinalityType
  <2>5. Cardinality(U) < Cardinality(V)
    BY <2>1, <2>3, <2>4
  <2> QED  BY <2>5 DEF U, V, Place
<1>2. key[x] \in Int /\ key[y] \in Int
  BY DEF IsKeyOf
<1>3. Place(S, key, x) \in Int /\ Place(S, key, y) \in Int
  BY PlaceType
<1>4. key[x] < key[y] \/ key[x] = key[y] \/ key[y] < key[x]
  BY <1>2
<1>5. key[x] = key[y] => x = y
  BY DEF IsKeyOf
<1> QED  BY <1>1, <1>2, <1>3, <1>4, <1>5

(* Each place is taken by one element, the one that Kth finds.              *)
LEMMA KthIsAtPlace ==
    ASSUME NEW S, NEW key, IsKeyOf(key, S)
    PROVE  /\ \A k \in 1 .. Cardinality(S) :
                 Kth(S, key, k) \in S /\ Place(S, key, Kth(S, key, k)) = k
           /\ \A x \in S : Kth(S, key, Place(S, key, x)) = x
<1> DEFINE n == Cardinality(S)
           place == [x \in S |-> Place(S, key, x)]
<1>1. IsFiniteSet(S) /\ n \in Nat
  BY FS_CardinalityType DEF IsKeyOf
<1>2. \A x \in S : Place(S, key, x) \in 1 .. n
  BY PlaceType
<1>3. \A x, y \in S : Place(S, key, x) = Place(S, key, y) => x = y
  <2> SUFFICES ASSUME NEW x \in S, NEW y \in S, Place(S, key, x) = Place(S, key, y)
               PROVE  x = y
    OBVIOUS
  <2>1. ~(key[x] < key[y]) /\ ~(key[y] < key[x])
    <3>1. Place(S, key, x) \in Int /\ Place(S, key, y) \in Int
      BY PlaceType
    <3> QED  BY <3>1, PlaceMonotone
  <2> QED  BY <2>1 DEF IsKeyOf
<1>4. place \in Injection(S, 1 .. n)
  <2>1. place \in [S -> 1 .. n]
    BY <1>2
  <2>2. \A x, y \in S : place[x] = place[y] => x = y
    BY <1>3
  <2> HIDE DEF place
  <2> QED  BY <2>1, <2>2, Fun_IsInj
<1>5. IsFiniteSet(1 .. n) /\ Cardinality(1 .. n) = n
  BY <1>1, FS_Interval
<1>6. place \in Surjection(S, 1 .. n)
  <2> HIDE DEF place
  <2> QED  BY <1>4, <1>5, FS_Injection
<1>7. \A k \in 1 .. n : \E x \in S : Place(S, key, x) = k
  <2>1. \A k \in 1 .. n : \E x \in S : place[x] = k
    <3> HIDE DEF place, n
    <3> QED  BY <1>6, Fun_SurjectionProperties
  <2> QED  BY <2>1
<1>8. \A k \in 1 .. n : Kth(S, key, k) \in S /\ Place(S, key, Kth(S, key, k)) = k
  BY <1>7 DEF Kth, Place
<1> QED  BY <1>2, <1>3, <1>8

(* An enumeration of a set in the order of its key is Kth.                  *)
LEMMA KthUnique ==
    ASSUME NEW S, NEW key, IsKeyOf(key, S), NEW m \in Nat, NEW g \in [1 .. m -> S],
           \A i, j \in 1 .. m : i < j => key[g[i]] < key[g[j]],
           \A x \in S : \E i \in 1 .. m : g[i] = x
    PROVE  m = Cardinality(S) /\ \A k \in 1 .. m : g[k] = Kth(S, key, k)
<1>1. \A i, j \in 1 .. m : g[i] = g[j] => i = j
  <2> SUFFICES ASSUME NEW i \in 1 .. m, NEW j \in 1 .. m, g[i] = g[j] PROVE i = j
    OBVIOUS
  <2>1. key[g[i]] \in Int
    BY DEF IsKeyOf
  <2> QED  BY <2>1
<1>2. g \in Bijection(1 .. m, S)
  BY <1>1, Fun_IsBij
<1>3. m = Cardinality(S)
  BY <1>2, FS_CountingElements DEF ExistsBijection
<1>4. ASSUME NEW k \in 1 .. m PROVE g[k] = Kth(S, key, k)
  <2> DEFINE U == {y \in S : key[y] <= key[g[k]]}
             h == [i \in 1 .. k |-> g[i]]
  <2>1. \A i \in 1 .. k : i \in 1 .. m /\ g[i] \in U
    <3> SUFFICES ASSUME NEW i \in 1 .. k PROVE i \in 1 .. m /\ g[i] \in U
      OBVIOUS
    <3>1. i \in 1 .. m /\ (i < k \/ i = k)
      OBVIOUS
    <3>2. key[g[i]] \in Int /\ key[g[k]] \in Int
      BY <3>1 DEF IsKeyOf
    <3>3. key[g[i]] <= key[g[k]]
      BY <3>1, <3>2
    <3> QED  BY <3>1, <3>3
  <2>2. \A y \in U : \E i \in 1 .. k : g[i] = y
    <3> SUFFICES ASSUME NEW y \in U PROVE \E i \in 1 .. k : g[i] = y
      OBVIOUS
    <3>1. PICK i \in 1 .. m : g[i] = y
      OBVIOUS
    <3>2. key[g[i]] \in Int /\ key[g[k]] \in Int /\ key[g[i]] <= key[g[k]]
      BY <3>1 DEF IsKeyOf
    <3>3. ~(k < i)
      BY <3>2
    <3> QED  BY <3>1, <3>3
  <2>3. h \in [1 .. k -> U] /\ \A i \in 1 .. k : h[i] = g[i]
    BY <2>1
  <2>4. h \in Bijection(1 .. k, U)
    <3> HIDE DEF h, U
    <3>1. \A i, j \in 1 .. k : h[i] = h[j] => i = j
      BY <1>1, <2>1, <2>3
    <3>2. \A y \in U : \E i \in 1 .. k : h[i] = y
      BY <2>2, <2>3
    <3> QED  BY <2>3, <3>1, <3>2, Fun_IsBij
  <2>5. Cardinality(U) = k
    <3> HIDE DEF h, U
    <3> QED  BY <2>4, FS_CountingElements DEF ExistsBijection
  <2>6. Place(S, key, g[k]) = k
    BY <2>5 DEF Place
  <2>7. g[k] \in S /\ Kth(S, key, Place(S, key, g[k])) = g[k]
    BY KthIsAtPlace
  <2> QED  BY <2>6, <2>7
<1> QED  BY <1>3, <1>4

-----------------------------------------------------------------------------
(* Keep.                                                                    *)

(* The positions that Keep keeps, and their order.                          *)
KeptAt(list, wanted) == {i \in DOMAIN list : list[i] \in wanted}
Itself(S) == [i \in S |-> i]

(* A list as the proofs see it: its positions are 1 .. n.                   *)
IsList(list, n) == n \in Nat /\ DOMAIN list = 1 .. n

(* The positions kept are ordered by themselves.                            *)
LEMMA KeptAtType ==
    ASSUME NEW n, NEW list, IsList(list, n), NEW wanted
    PROVE  /\ KeptAt(list, wanted) \subseteq 1 .. n
           /\ IsKeyOf(Itself(KeptAt(list, wanted)), KeptAt(list, wanted))
           /\ Cardinality(KeptAt(list, wanted)) \in Nat
           /\ Cardinality(KeptAt(list, wanted)) <= n
<1>1. KeptAt(list, wanted) \in SUBSET (1 .. n)
  BY DEF KeptAt, IsList
<1>2. n \in Nat /\ IsFiniteSet(1 .. n) /\ Cardinality(1 .. n) = n
  BY FS_Interval DEF IsList
<1>3. IsFiniteSet(KeptAt(list, wanted)) /\ Cardinality(KeptAt(list, wanted)) <= n
  BY <1>1, <1>2, FS_Subset
<1>4. IsKeyOf(Itself(KeptAt(list, wanted)), KeptAt(list, wanted))
  BY <1>1, <1>2, <1>3 DEF IsKeyOf, Itself
<1> QED  BY <1>1, <1>3, <1>4, FS_CardinalityType

(* What Keep returns: the list read at the positions kept, in order.        *)
LEMMA KeepAt ==
    ASSUME NEW n, NEW list, IsList(list, n), NEW wanted
    PROVE  LET at == KeptAt(list, wanted) IN
           /\ IsList(Keep(list, wanted), Cardinality(at))
           /\ Keep(list, wanted) = [k \in 1 .. Cardinality(at) |-> list[Kth(at, Itself(at), k)]]
           /\ \A k \in 1 .. Cardinality(at) :
                 /\ Kth(at, Itself(at), k) \in at
                 /\ Keep(list, wanted)[k] = list[Kth(at, Itself(at), k)]
           /\ \A k, l \in 1 .. Cardinality(at) :
                 k < l => Kth(at, Itself(at), k) < Kth(at, Itself(at), l)
           /\ \A i \in at : \E k \in 1 .. Cardinality(at) : Kth(at, Itself(at), k) = i
<1> DEFINE at == KeptAt(list, wanted)
<1>1. /\ at \subseteq 1 .. n /\ IsKeyOf(Itself(at), at) /\ Cardinality(at) \in Nat
      /\ n \in Nat /\ \A i \in at : Itself(at)[i] = i
  BY KeptAtType DEF IsList, Itself
<1>2. Keep(list, wanted) = [k \in 1 .. Cardinality(at) |-> list[Kth(at, Itself(at), k)]]
  BY DEF Keep, Itself, KeptAt
<1> HIDE DEF at
<1>3. IsList(Keep(list, wanted), Cardinality(at))
  BY <1>1, <1>2 DEF IsList
<1>4. \A k \in 1 .. Cardinality(at) :
         Kth(at, Itself(at), k) \in at /\ Place(at, Itself(at), Kth(at, Itself(at), k)) = k
  BY <1>1, KthIsAtPlace
<1>5. \A k, l \in 1 .. Cardinality(at) :
         k < l => Kth(at, Itself(at), k) < Kth(at, Itself(at), l)
  <2> SUFFICES ASSUME NEW k \in 1 .. Cardinality(at), NEW l \in 1 .. Cardinality(at), k < l
               PROVE  Kth(at, Itself(at), k) < Kth(at, Itself(at), l)
    OBVIOUS
  <2>1. PICK x \in at : x = Kth(at, Itself(at), k)
    BY <1>4
  <2>2. PICK y \in at : y = Kth(at, Itself(at), l)
    BY <1>4
  <2>3. Place(at, Itself(at), x) < Place(at, Itself(at), y)
    BY <1>4, <2>1, <2>2
  <2>4. Itself(at)[x] < Itself(at)[y]
    BY <1>1, <2>3, PlaceMonotone
  <2> QED  BY <1>1, <2>1, <2>2, <2>4
<1>6. \A i \in at : \E k \in 1 .. Cardinality(at) : Kth(at, Itself(at), k) = i
  BY <1>1, KthIsAtPlace, PlaceType
<1> QED  BY <1>2, <1>3, <1>4, <1>5, <1>6 DEF at

(* Keeping from what was kept is keeping what both want.                    *)
LEMMA KeepKeep ==
    ASSUME NEW n, NEW list, IsList(list, n), NEW wanted, NEW also,
           NEW both, both = wanted \cap also
    PROVE  Keep(Keep(list, wanted), also) = Keep(list, both)
<1> DEFINE I == KeptAt(list, wanted)
           p == Cardinality(I)
           f(k) == Kth(I, Itself(I), k)
           kept == Keep(list, wanted)
           J == KeptAt(kept, also)
           q == Cardinality(J)
           h(k) == Kth(J, Itself(J), k)
           M == KeptAt(list, both)
           g == [k \in 1 .. q |-> f(h(k))]
<1>1. /\ IsList(kept, p)
      /\ \A k \in 1 .. p : f(k) \in I /\ kept[k] = list[f(k)]
      /\ \A k, l \in 1 .. p : k < l => f(k) < f(l)
      /\ \A i \in I : \E k \in 1 .. p : f(k) = i
  BY KeepAt
<1>2. /\ IsList(Keep(kept, also), q)
      /\ Keep(kept, also) = [k \in 1 .. q |-> kept[h(k)]]
      /\ \A k \in 1 .. q : h(k) \in J
      /\ \A k, l \in 1 .. q : k < l => h(k) < h(l)
      /\ \A i \in J : \E k \in 1 .. q : h(k) = i
  <2> HIDE DEF kept, p
  <2> QED  BY <1>1, KeepAt
<1>3. /\ Keep(list, both)
          = [k \in 1 .. Cardinality(M) |-> list[Kth(M, Itself(M), k)]]
      /\ M \subseteq 1 .. n /\ IsKeyOf(Itself(M), M) /\ \A i \in M : Itself(M)[i] = i
      /\ n \in Nat
  <2>1. Keep(list, both)
           = [k \in 1 .. Cardinality(M) |-> list[Kth(M, Itself(M), k)]]
    BY DEF Keep, Itself, KeptAt
  <2>2. M \subseteq 1 .. n /\ IsKeyOf(Itself(M), M)
    BY KeptAtType
  <2>3. n \in Nat /\ \A i \in M : Itself(M)[i] = i
    BY DEF Itself, IsList
  <2> QED  BY <2>1, <2>2, <2>3
<1>4. /\ \A i : i \in I <=> i \in 1 .. n /\ list[i] \in wanted
      /\ \A k : k \in J <=> k \in 1 .. p /\ kept[k] \in also
      /\ \A i : i \in M <=> i \in 1 .. n /\ list[i] \in wanted /\ list[i] \in also
  <2>1. DOMAIN list = 1 .. n /\ DOMAIN kept = 1 .. p
    BY <1>1 DEF IsList
  <2> HIDE DEF kept, p
  <2> QED  BY <2>1 DEF KeptAt
<1>5. p \in Nat /\ q \in Nat
  BY <1>1, <1>2 DEF IsList
<1> HIDE DEF I, p, f, kept, J, q, h, M
<1>6. g \in [1 .. q -> M] /\ \A k \in 1 .. q : g[k] = f(h(k)) /\ h(k) \in 1 .. p
  BY <1>1, <1>2, <1>4
<1> HIDE DEF g
<1>7. \A k, l \in 1 .. q : k < l => Itself(M)[g[k]] < Itself(M)[g[l]]
  <2> SUFFICES ASSUME NEW k \in 1 .. q, NEW l \in 1 .. q, k < l
               PROVE  Itself(M)[g[k]] < Itself(M)[g[l]]
    OBVIOUS
  <2>1. h(k) < h(l)
    BY <1>2
  <2>2. f(h(k)) < f(h(l))
    BY <1>1, <1>6, <2>1
  <2> QED  BY <1>3, <1>6, <2>2
<1>8. \A i \in M : \E k \in 1 .. q : g[k] = i
  <2> SUFFICES ASSUME NEW i \in M PROVE \E k \in 1 .. q : g[k] = i
    OBVIOUS
  <2>1. i \in I /\ list[i] \in also
    BY <1>4
  <2>2. PICK j \in 1 .. p : f(j) = i
    BY <1>1, <2>1
  <2>3. j \in J
    BY <1>1, <1>4, <2>1, <2>2
  <2>4. PICK k \in 1 .. q : h(k) = j
    BY <1>2, <2>3
  <2> QED  BY <1>6, <2>2, <2>4
<1>9. q = Cardinality(M) /\ \A k \in 1 .. q : g[k] = Kth(M, Itself(M), k)
  BY <1>3, <1>5, <1>6, <1>7, <1>8, KthUnique
<1>10. \A k \in 1 .. q : kept[h(k)] = list[Kth(M, Itself(M), k)]
  BY <1>1, <1>6, <1>9
<1>11. [k \in 1 .. q |-> kept[h(k)]] = [k \in 1 .. Cardinality(M) |-> list[Kth(M, Itself(M), k)]]
  BY <1>9, <1>10
<1>12. Keep(kept, also) = Keep(list, both)
  BY <1>2, <1>3, <1>11
<1> QED  BY <1>12 DEF kept

(* What Keep returns is a list of elements of the list it was given.        *)
LEMMA KeepType ==
    ASSUME NEW S, NEW list \in Seq(S), NEW wanted
    PROVE  Keep(list, wanted) \in Seq(S) /\ ToSet(Keep(list, wanted)) \subseteq ToSet(list)
<1> DEFINE at == KeptAt(list, wanted)
<1>1. PICK n \in Nat : n = Len(list)
  OBVIOUS
<1>2. IsList(list, n) /\ \A i \in 1 .. n : list[i] \in S
  BY <1>1 DEF IsList
<1>3. /\ IsList(Keep(list, wanted), Cardinality(at))
      /\ \A k \in 1 .. Cardinality(at) :
            Kth(at, Itself(at), k) \in at /\ Keep(list, wanted)[k] = list[Kth(at, Itself(at), k)]
  BY <1>2, KeepAt
<1>4. \A i \in at : i \in 1 .. n /\ i \in DOMAIN list
  BY <1>2 DEF KeptAt, IsList
<1> HIDE DEF at
<1>5. \A k \in 1 .. Cardinality(at) :
         Keep(list, wanted)[k] \in S /\ Keep(list, wanted)[k] \in ToSet(list)
  BY <1>2, <1>3, <1>4 DEF ToSet
<1>6. ToSet(Keep(list, wanted)) \subseteq ToSet(list)
  BY <1>3, <1>5 DEF ToSet, IsList
<1>7. PICK q \in Nat : q = Cardinality(at)
  BY <1>3 DEF IsList
<1>8. Keep(list, wanted) = [k \in 1 .. q |-> Keep(list, wanted)[k]]
  BY <1>7 DEF Keep, KeptAt, at
<1>9. [k \in 1 .. q |-> Keep(list, wanted)[k]] \in Seq(S)
  BY <1>5, <1>7
<1> QED  BY <1>6, <1>8, <1>9

-----------------------------------------------------------------------------
(* The inductive invariant.                                                 *)

ListQueries == [page : Nat \ {0}, sort : Sorts, search : BOOLEAN]
Lists == Seq(Cards(Auctions))
Loads == [query : ListQueries, st : {"sent", "rows", "answered", "error", "401", "done"},
          items : Lists, total : Nat]
Pages == [kind : {"mine", "all"}, st : {"list", "leaving", "left"}, query : ListQueries,
          loading : BOOLEAN, loaded : BOOLEAN, items : Lists, total : Nat]

(* The types of the variables.                                              *)
ListsTypeOK ==
    /\ page \in Pages
    /\ status \in [Auctions -> Statuses]
    /\ loads \in Seq(Loads)
    /\ del \in [Auctions -> {"none", "sent", "read", "ok", "refused", "deleted"}]

(* What ShownIsForQuery says of the page, its last load and the auctions    *)
(* that were deleted.                                                       *)
Follows(p, last, gone) ==
    /\ last.query = p.query /\ last.st = "done"
    /\ Keep(p.items, Cards(Auctions \ gone)) = Keep(last.items, Cards(Auctions \ gone))
    /\ ToSet(p.items) \subseteq ToSet(last.items)
    /\ p.total \in last.total - Cardinality(gone) .. last.total

Showing(p) == p.st # "left" /\ p.loaded /\ ~p.loading

(* The last load was sent for the query that is set, whatever came of it,   *)
(* and a page that shows something has had an answer to one.                *)
Asked(p, calls, gone) ==
    /\ calls # <<>> => calls[Len(calls)].query = p.query
    /\ Showing(p) => calls # <<>> /\ Follows(p, calls[Len(calls)], gone)

ListsInv == ListsTypeOK /\ Asked(page, loads, Deleted)

(* The property of the runs follows.                                        *)
LEMMA ListsInvImplies == ListsInv => ShownIsForQuery
BY DEF ListsInv, Asked, Showing, Follows, ShownIsForQuery, Here

(* The number of rows on a page is at most what is left of the list.        *)
LEMMA RowsOnPage ==
    ASSUME NEW b \in Nat, NEW c \in Int
    PROVE  /\ Max({0, Min({b, c})}) \in Nat
           /\ \A i \in 1 .. Max({0, Min({b, c})}) : i <= c
<1>1. PICK x \in {b, c} : x = Min({b, c})
  <2>1. \E x \in {b, c} : \A y \in {b, c} : x <= y
    OBVIOUS
  <2> QED  BY <2>1 DEF Min
<1>2. \A y \in {b, c} : x <= y
  <2>1. \E z \in {b, c} : \A y \in {b, c} : z <= y
    OBVIOUS
  <2> QED  BY <1>1, <2>1 DEF Min
<1>3. PICK m \in {0, x} : m = Max({0, x})
  <2>1. \E z \in {0, x} : \A y \in {0, x} : z >= y
    OBVIOUS
  <2> QED  BY <2>1 DEF Max
<1>4. \A y \in {0, x} : m >= y
  <2>1. \E z \in {0, x} : \A y \in {0, x} : z >= y
    OBVIOUS
  <2> QED  BY <1>3, <2>1 DEF Max
<1>5. m \in Nat /\ \A i \in 1 .. m : i <= c
  BY <1>2, <1>3, <1>4
<1> QED  BY <1>1, <1>3, <1>5

(* The server answers with cards of auctions, and counts them.              *)
LEMMA ServedType ==
    ASSUME ListsTypeOK, NEW query \in ListQueries
    PROVE  PageOf(query) \in Lists /\ Cardinality(Wanted(query)) \in Nat
<1> DEFINE W == Wanted(query)
           key == Key[query.sort]
           first == (query.page - 1) * PageSize
           c == Cardinality(W)
           rows == Max({0, Min({PageSize, c - first})})
<1>1. W \in SUBSET Auctions /\ IsFiniteSet(Auctions) /\ query.sort \in Sorts
  BY ListsAssumption DEF Wanted, ListQueries
<1>2. IsFiniteSet(W) /\ c \in Nat
  BY <1>1, FS_Subset, FS_CardinalityType
<1>3. key \in [Auctions -> Int] /\ IsInjective(key)
  BY <1>1, ListsAssumption
<1>4. IsKeyOf(key, W)
  <2> HIDE DEF key, W
  <2> QED  BY <1>1, <1>2, <1>3 DEF IsKeyOf, IsInjective
<1>5. first \in Nat /\ PageSize \in Nat
  <2>1. query.page - 1 \in Nat /\ PageSize \in Nat
    BY ListsAssumption DEF ListQueries
  <2> QED  BY <2>1
<1> HIDE DEF W, key, first, c
<1>6. rows \in Nat /\ \A i \in 1 .. rows : i <= c - first
  BY <1>2, <1>5, RowsOnPage
<1> HIDE DEF rows
<1>7. \A i \in 1 .. rows : Kth(W, key, first + i) \in Auctions
  <2> SUFFICES ASSUME NEW i \in 1 .. rows PROVE Kth(W, key, first + i) \in W
    BY <1>1
  <2>1. first + i \in 1 .. c
    BY <1>2, <1>5, <1>6
  <2> QED  BY <1>4, <2>1, KthIsAtPlace DEF c
<1>8. \A i \in 1 .. rows :
         [id |-> Kth(W, key, first + i), status |-> status[Kth(W, key, first + i)]]
            \in Cards(Auctions)
  BY <1>7 DEF ListsTypeOK, Cards
<1>9. [i \in 1 .. rows |->
          [id |-> Kth(W, key, first + i), status |-> status[Kth(W, key, first + i)]]] \in Lists
  BY <1>6, <1>8 DEF Lists
<1>10. PageOf(query) = [i \in 1 .. rows |->
          [id |-> Kth(W, key, first + i), status |-> status[Kth(W, key, first + i)]]]
  BY DEF PageOf, W, key, first, c, rows
<1> QED  BY <1>2, <1>9, <1>10 DEF W, c

(* A step that leaves the list, its loads and the deleted auctions alone.   *)
LEMMA ListsStutter ==
    ASSUME ListsInv, ListsTypeOK', page' = page, loads' = loads, Deleted' = Deleted
    PROVE  ListsInv'
BY DEF ListsInv

(* A page that has been left shows nothing.                                 *)
LEMMA ListsLeft ==
    ASSUME ListsInv, page' = [page EXCEPT !.st = "left"], UNCHANGED <<status, loads, del>>
    PROVE  ListsInv'
<1>1. page' \in Pages /\ page'.st = "left" /\ page'.query = page.query
  BY DEF ListsInv, ListsTypeOK, Pages
<1>2. ListsTypeOK'
  BY <1>1 DEF ListsInv, ListsTypeOK
<1>3. Asked(page', loads', Deleted')
  BY <1>1 DEF ListsInv, Asked, Showing
<1> QED  BY <1>2, <1>3 DEF ListsInv

(* A list with one more element is a list that ends with it.                *)
LEMMA AppendLast ==
    ASSUME NEW S, NEW list \in Seq(S), NEW e \in S
    PROVE  Append(list, e) \in Seq(S) /\ Append(list, e)[Len(Append(list, e))] = e
OBVIOUS

(* A request that is sent and has no answer yet.                            *)
LEMMA LoadType ==
    ASSUME NEW query \in ListQueries
    PROVE  Load(query) \in Loads /\ Load(query).query = query
<1>1. <<>> \in Lists
  BY DEF Lists
<1> QED  BY <1>1 DEF Load, Loads

(* Asking for another query.                                                *)
LEMMA AskKeeps ==
    ASSUME ListsInv, NEW query \in ListQueries, NEW calls \in Seq(Loads), Ask(query, calls)
    PROVE  ListsInv'
<1>1. PICK q \in Pages : q = [page EXCEPT !.query = query, !.loading = TRUE]
  BY DEF ListsInv, ListsTypeOK, Pages
<1>2. q.query = query /\ q.loading = TRUE
  BY <1>1 DEF ListsInv, ListsTypeOK, Pages
<1>3. page' = q /\ loads' = Append(calls, Load(query)) /\ UNCHANGED <<status, del>>
  BY <1>1 DEF Ask
<1>4. PICK l \in Loads : l = Load(query) /\ l.query = query
  BY LoadType
<1>5. PICK ls \in Seq(Loads) : ls = Append(calls, l) /\ ls[Len(ls)] = l
  BY AppendLast
<1>6. loads' = ls
  BY <1>3, <1>4, <1>5
<1>7. ListsTypeOK'
  BY <1>3, <1>6 DEF ListsInv, ListsTypeOK
<1>8. Asked(q, ls, Deleted)
  BY <1>2, <1>4, <1>5 DEF Asked, Showing
<1>9. Deleted' = Deleted
  BY <1>3 DEF Deleted
<1> QED  BY <1>3, <1>6, <1>7, <1>8, <1>9 DEF ListsInv

(* The new values of a query: another order, another page, another text.    *)
LEMMA SortedType ==
    ASSUME NEW q \in ListQueries, NEW sort \in Sorts
    PROVE  [q EXCEPT !.page = 1, !.sort = sort] \in ListQueries
<1>1. PICK one \in Nat \ {0} : one = 1
  OBVIOUS
<1>2. [q EXCEPT !.page = one, !.sort = sort] \in ListQueries
  BY DEF ListQueries
<1> QED  BY <1>1, <1>2

(* (Another page.)                                                          *)
LEMMA TurnedType ==
    ASSUME NEW q \in ListQueries, NEW n \in Nat \ {0}
    PROVE  [q EXCEPT !.page = n] \in ListQueries
BY DEF ListQueries

(* (Another text.)                                                          *)
LEMMA SearchedType ==
    ASSUME NEW q \in ListQueries, NEW on \in BOOLEAN
    PROVE  [q EXCEPT !.search = on] \in ListQueries
BY DEF ListQueries

(* A number of a page that is offered.                                      *)
LEMMA PagesOfType == ASSUME NEW total \in Nat, NEW n \in PagesOf(total) PROVE n \in Nat \ {0}
<1>1. total + PageSize - 1 \in Int /\ PageSize \in Nat \ {0}
  BY ListsAssumption
<1>2. (total + PageSize - 1) \div PageSize \in Int
  BY <1>1
<1> QED  BY <1>2 DEF PagesOf

(* The steps that change the query.                                         *)
LEMMA QuerySteps ==
    ASSUME ListsInv,
           \/ \E sort \in Sorts : MineSort(sort) \/ AllSort(sort)
           \/ \E n \in 1 .. Cardinality(Auctions) : MineTurn(n) \/ AllTurn(n)
           \/ \E on \in BOOLEAN : Search(on)
    PROVE  ListsInv'
<1>1. PICK q \in ListQueries : q = page.query
  BY DEF ListsInv, ListsTypeOK, Pages
<1>2. PICK calls \in Seq(Loads) : calls = loads
  BY DEF ListsInv, ListsTypeOK
<1>3. page.total \in Nat
  BY DEF ListsInv, ListsTypeOK, Pages
<1>4. ASSUME NEW sort \in Sorts, MineSort(sort) \/ AllSort(sort) PROVE ListsInv'
  <2> DEFINE new == [q EXCEPT !.page = 1, !.sort = sort]
  <2>a. new \in ListQueries
    BY SortedType
  <2>1. PICK query \in ListQueries : query = new
    BY <2>a
  <2>2. Ask(query, calls)
    BY <1>1, <1>2, <1>4, <2>1 DEF MineSort, AllSort
  <2> QED  BY <2>2, AskKeeps
<1>5. ASSUME NEW n \in 1 .. Cardinality(Auctions), MineTurn(n) \/ AllTurn(n) PROVE ListsInv'
  <2>1. n \in Nat \ {0}
    BY <1>3, <1>5, PagesOfType DEF MineTurn, AllTurn
  <2> DEFINE new == [q EXCEPT !.page = n]
  <2>a. new \in ListQueries
    BY <2>1, TurnedType
  <2>2. PICK query \in ListQueries : query = new
    BY <2>a
  <2>3. Ask(query, calls)
    BY <1>1, <1>2, <1>5, <2>2 DEF MineTurn, AllTurn
  <2> QED  BY <2>3, AskKeeps
<1>6. ASSUME NEW on \in BOOLEAN, Search(on) PROVE ListsInv'
  <2>1. PICK sort \in Sorts : sort = IF on THEN "relevance" ELSE "newest"
    BY DEF Sorts
  <2> DEFINE first == [q EXCEPT !.search = on]
             then == [page |-> 1, sort |-> sort, search |-> on]
  <2>a. first \in ListQueries /\ then \in ListQueries
    <3>1. first \in ListQueries
      BY SearchedType
    <3>2. then \in ListQueries
      BY DEF ListQueries
    <3> QED  BY <3>1, <3>2
  <2>2. PICK half \in ListQueries : half = first
    BY <2>a
  <2>3. PICK full \in ListQueries : full = then
    BY <2>a
  <2>4. PICK l \in Loads : l = Load(half)
    BY LoadType
  <2> DEFINE cs == IF half = full THEN calls ELSE Append(calls, l)
  <2>b. cs \in Seq(Loads)
    BY AppendLast
  <2>5. PICK both \in Seq(Loads) : both = cs
    BY <2>b
  <2>6. Ask(full, both)
    BY <1>1, <1>2, <1>6, <2>1, <2>2, <2>3, <2>4, <2>5 DEF Search
  <2> QED  BY <2>6, AskKeeps
<1> QED  BY <1>4, <1>5, <1>6

(* One load changes, and the page with it.                                  *)
LEMMA LoadChanges ==
    ASSUME ListsInv, NEW i \in DOMAIN loads, NEW l \in Loads, l.query = loads[i].query,
           NEW p \in Pages, p.query = page.query, loads' = [loads EXCEPT ![i] = l], page' = p, UNCHANGED <<status, del>>,
           Showing(p) => \/ i = Len(loads) /\ Follows(p, l, Deleted)
                         \/ i # Len(loads) /\ p = page
    PROVE  ListsInv'
<1>1. /\ loads \in Seq(Loads) /\ Len(loads) \in Nat /\ DOMAIN loads = 1 .. Len(loads)
  BY DEF ListsInv, ListsTypeOK
<1>2. /\ loads' \in Seq(Loads) /\ Len(loads') = Len(loads) /\ loads'[i] = l
      /\ \A j \in DOMAIN loads : j # i => loads'[j] = loads[j]
  BY <1>1
<1>3. ListsTypeOK'
  BY <1>2 DEF ListsInv, ListsTypeOK
<1>4. Deleted' = Deleted
  BY DEF Deleted
<1>5. Len(loads) \in DOMAIN loads /\ loads # <<>> /\ loads' # <<>>
  BY <1>1, <1>2
<1>6. loads'[Len(loads')].query = p.query
  BY <1>2, <1>5 DEF ListsInv, Asked
<1>7. ASSUME Showing(p) PROVE Follows(p, loads'[Len(loads')], Deleted)
  <2>1. CASE i = Len(loads)
    BY <1>2, <1>7, <2>1
  <2>2. CASE i # Len(loads)
    <3>1. Follows(p, loads[Len(loads)], Deleted)
      BY <1>7, <2>2 DEF ListsInv, Asked
    <3> QED  BY <1>2, <1>5, <2>2, <3>1
  <2> QED  BY <2>1, <2>2
<1>8. Asked(p, loads', Deleted)
  BY <1>5, <1>6, <1>7 DEF Asked
<1> QED  BY <1>3, <1>4, <1>8 DEF ListsInv

(* A load that has not been dealt with goes on.                             *)
LEMMA LoadGoesOn ==
    ASSUME ListsInv, NEW i \in DOMAIN loads, NEW l \in Loads,
           l.query = loads[i].query, loads[i].st # "done",
           loads' = [loads EXCEPT ![i] = l], UNCHANGED <<page, status, del>>
    PROVE  ListsInv'
<1>1. PICK p \in Pages : p = page
  BY DEF ListsInv, ListsTypeOK
<1>2. ASSUME Showing(p), i = Len(loads) PROVE FALSE
  <2>1. Follows(p, loads[i], Deleted)
    BY <1>1, <1>2 DEF ListsInv, Asked
  <2> QED  BY <2>1 DEF Follows
<1> QED  BY <1>1, <1>2, LoadChanges

(* The fields of a load that an answer sets: an error,                      *)
LEMMA LoadSt ==
    ASSUME NEW l \in Loads, NEW st \in {"rows", "answered", "error", "401", "done"}
    PROVE  [l EXCEPT !.st = st] \in Loads /\ [l EXCEPT !.st = st].query = l.query
BY DEF Loads

(* the rows,                                                                *)
LEMMA LoadRows ==
    ASSUME NEW l \in Loads, NEW items \in Lists
    PROVE  /\ [l EXCEPT !.st = "rows", !.items = items] \in Loads
           /\ [l EXCEPT !.st = "rows", !.items = items].query = l.query
BY DEF Loads

(* their number.                                                            *)
LEMMA LoadCount ==
    ASSUME NEW l \in Loads, NEW total \in Nat
    PROVE  /\ [l EXCEPT !.st = "answered", !.total = total] \in Loads
           /\ [l EXCEPT !.st = "answered", !.total = total].query = l.query
BY DEF Loads

(* The server's steps.                                                      *)
LEMMA ServeSteps ==
    ASSUME ListsInv, NEW i \in DOMAIN loads, ServeRows(i) \/ ServeCount(i) \/ ServeError(i)
    PROVE  ListsInv'
<1>1. loads[i] \in Loads
  BY DEF ListsInv, ListsTypeOK
<1>2. PICK l \in Loads : l = loads[i]
  BY <1>1
<1>3. l.query \in ListQueries
  BY DEF Loads
<1>4. PICK rows \in Lists : rows = PageOf(l.query)
  BY <1>3, ServedType DEF ListsInv
<1>5. PICK count \in Nat : count = Cardinality(Wanted(l.query))
  BY <1>3, ServedType DEF ListsInv
<1>6. CASE ServeRows(i)
  <2>1. PICK new \in Loads : new = [l EXCEPT !.st = "rows", !.items = rows] /\ new.query = l.query
    BY LoadRows
  <2>2. /\ loads[i].st # "done" /\ UNCHANGED <<page, status, del>>
        /\ loads' = [loads EXCEPT ![i] = new]
    BY <1>2, <1>4, <1>6, <2>1 DEF ServeRows
  <2> QED  BY <1>2, <2>1, <2>2, LoadGoesOn
<1>7. CASE ServeCount(i)
  <2>1. PICK new \in Loads :
           new = [l EXCEPT !.st = "answered", !.total = count] /\ new.query = l.query
    BY LoadCount
  <2>2. /\ loads[i].st # "done" /\ UNCHANGED <<page, status, del>>
        /\ loads' = [loads EXCEPT ![i] = new]
    BY <1>2, <1>5, <1>7, <2>1 DEF ServeCount
  <2> QED  BY <1>2, <2>1, <2>2, LoadGoesOn
<1>8. CASE ServeError(i)
  <2>1. PICK st \in {"error", "401"} : loads' = [loads EXCEPT ![i].st = st]
    BY <1>8 DEF ServeError
  <2>2. PICK new \in Loads : new = [l EXCEPT !.st = st] /\ new.query = l.query
    BY LoadSt
  <2>3. /\ loads[i].st # "done" /\ UNCHANGED <<page, status, del>>
        /\ loads' = [loads EXCEPT ![i] = new]
    BY <1>2, <1>8, <2>1, <2>2 DEF ServeError
  <2> QED  BY <1>2, <2>2, <2>3, LoadGoesOn
<1> QED  BY <1>6, <1>7, <1>8

(* The deleted auctions are finitely many.                                  *)
LEMMA DeletedFinite == IsFiniteSet(Deleted) /\ Cardinality(Deleted) \in Nat
<1>1. Deleted \in SUBSET Auctions /\ IsFiniteSet(Auctions)
  BY ListsAssumption DEF Deleted
<1> QED  BY <1>1, FS_Subset, FS_CardinalityType

(* The page after an error: it shows nothing.                               *)
LEMMA AfterErrorType ==
    ASSUME ListsTypeOK, NEW st
    PROVE  /\ AfterError(st) \in Pages /\ AfterError(st).query = page.query
           /\ ~Showing(AfterError(st))
<1>1. PICK p \in Pages : p = page
  BY DEF ListsTypeOK
<1>2. PICK new \in {"list", "leaving", "left"} :
         new = IF st = "401" /\ p.kind = "mine" THEN "leaving" ELSE p.st
  BY DEF Pages
<1>3. PICK e \in Pages : e = [p EXCEPT !.loading = FALSE, !.loaded = FALSE, !.st = new]
  <2>1. [p EXCEPT !.loading = FALSE, !.loaded = FALSE, !.st = new] \in Pages
    BY DEF Pages
  <2> QED  BY <2>1
<1>4. e = AfterError(st)
  BY <1>1, <1>2, <1>3 DEF AfterError
<1>5. e.query = p.query /\ ~e.loaded
  BY <1>3 DEF Pages
<1> QED  BY <1>1, <1>4, <1>5 DEF Showing

(* The browser's continuation of an answer.                                 *)
LEMMA DeliverStep ==
    ASSUME ListsInv, NEW i \in DOMAIN loads, Deliver(i)
    PROVE  ListsInv'
<1>1. loads[i] \in Loads /\ page \in Pages /\ ListsTypeOK
  BY DEF ListsInv, ListsTypeOK
<1>2. PICK l \in Loads : l = loads[i]
  BY <1>1
<1>3. PICK new \in Loads : new = [l EXCEPT !.st = "done"] /\ new.query = l.query
  BY LoadSt
<1>4. loads' = [loads EXCEPT ![i] = new] /\ UNCHANGED <<status, del>>
  BY <1>2, <1>3 DEF Deliver
<1>5. CASE Cancelled(i)
  <2>1. PICK p \in Pages : p = page
    BY <1>1
  <2>2. page' = p
    BY <1>5, <2>1 DEF Deliver
  <2>3. Showing(p) => i # Len(loads)
    BY <1>5, <2>1 DEF Cancelled, Here, Showing
  <2> QED  BY <1>2, <1>3, <1>4, <2>1, <2>2, <2>3, LoadChanges
<1>6. CASE ~Cancelled(i) /\ l.st # "answered"
  <2>1. AfterError(l.st) \in Pages /\ AfterError(l.st).query = page.query /\ ~Showing(AfterError(l.st))
    BY <1>1, AfterErrorType
  <2>2. PICK p \in Pages : p = AfterError(l.st) /\ p.query = page.query /\ ~Showing(p)
    BY <2>1
  <2>3. page' = p
    BY <1>2, <1>6, <2>2 DEF Deliver
  <2> QED  BY <1>2, <1>3, <1>4, <2>2, <2>3, LoadChanges
<1>7. CASE ~Cancelled(i) /\ l.st = "answered"
  <2>1. i = Len(loads) /\ loads # <<>>
    BY <1>1, <1>7 DEF Cancelled, ListsTypeOK
  <2>2. l.query = page.query
    BY <1>2, <2>1 DEF ListsInv, Asked
  <2>3. PICK q \in Pages : q = page
    BY <1>1
  <2>4. l.items \in Lists /\ l.total \in Nat
    BY DEF Loads
  <2>5. PICK p \in Pages :
           p = [q EXCEPT !.items = l.items, !.total = l.total, !.loading = FALSE, !.loaded = TRUE]
    <3>1. [q EXCEPT !.items = l.items, !.total = l.total, !.loading = FALSE, !.loaded = TRUE] \in Pages
      BY <2>4 DEF Pages
    <3> QED  BY <3>1
  <2>6. p.query = q.query /\ p.items = l.items /\ p.total = l.total
    BY <2>5 DEF Pages
  <2>7. page' = p
    BY <1>2, <1>7, <2>3, <2>5 DEF Deliver
  <2>8. new.st = "done" /\ new.items = l.items /\ new.total = l.total
    BY <1>3 DEF Loads
  <2>9. p.total \in new.total - Cardinality(Deleted) .. new.total
    BY <2>4, <2>6, <2>8, DeletedFinite
  <2>10. Follows(p, new, Deleted)
    BY <1>3, <2>2, <2>3, <2>6, <2>8, <2>9 DEF Follows
  <2> QED  BY <1>2, <1>3, <1>4, <2>1, <2>3, <2>6, <2>7, <2>10, LoadChanges
<1> QED  BY <1>5, <1>6, <1>7

(* The cards of all auctions but one more.                                  *)
LEMMA CardsBut ==
    ASSUME NEW a, NEW gone
    PROVE  Cards(Auctions \ (gone \cup {a})) = Cards(Auctions \ {a}) \cap Cards(Auctions \ gone)
BY DEF Cards

(* A card that leaves the list with the auction that was deleted.           *)
LEMMA FollowsDeletion ==
    ASSUME NEW a, NEW gone, IsFiniteSet(gone), a \notin gone,
           NEW p \in Pages, NEW last \in Loads, Follows(p, last, gone),
           NEW q \in Pages, q.query = p.query,
           q.items = Keep(p.items, Cards(Auctions \ {a})),
           q.total = IF p.total = 0 THEN 0 ELSE p.total - 1
    PROVE  Follows(q, last, gone \cup {a})
<1> DEFINE A == Cards(Auctions \ {a})
           G == Cards(Auctions \ gone)
           B == Cards(Auctions \ (gone \cup {a}))
<1>a. B = A \cap G
  BY CardsBut
<1> HIDE DEF A, G, B
<1>1. B = A \cap B /\ B = G \cap A
  BY <1>a
<1>2. p.items \in Seq(Cards(Auctions)) /\ last.items \in Seq(Cards(Auctions))
  BY DEF Pages, Loads, Lists
<1>3. PICK shown \in Seq(Cards(Auctions)) : shown = p.items
  BY <1>2
<1>4. PICK served \in Seq(Cards(Auctions)) : served = last.items
  BY <1>2
<1>5. PICK n \in Nat : IsList(shown, n)
  BY DEF IsList
<1>6. PICK m \in Nat : IsList(served, m)
  BY DEF IsList
<1>7. Keep(shown, G) = Keep(served, G)
  BY <1>3, <1>4 DEF Follows, G
<1>8. Keep(Keep(shown, A), B) = Keep(shown, B)
  BY <1>1, <1>5, KeepKeep
<1>9. Keep(Keep(shown, G), A) = Keep(shown, B)
  BY <1>1, <1>5, KeepKeep
<1>10. Keep(Keep(served, G), A) = Keep(served, B)
  BY <1>1, <1>6, KeepKeep
<1>11. Keep(q.items, B) = Keep(last.items, B)
  BY <1>3, <1>4, <1>7, <1>8, <1>9, <1>10 DEF A
<1>12. ToSet(q.items) \subseteq ToSet(last.items)
  <2>1. ToSet(Keep(shown, A)) \subseteq ToSet(shown)
    BY KeepType
  <2> QED  BY <1>3, <2>1 DEF Follows, A
<1>13. Cardinality(gone \cup {a}) = Cardinality(gone) + 1 /\ Cardinality(gone) \in Nat
  BY FS_AddElement, FS_CardinalityType
<1>14. p.total \in Nat /\ last.total \in Nat
  BY DEF Pages, Loads
<1>15. p.total \in last.total - Cardinality(gone) .. last.total
  BY DEF Follows
<1>16. q.total \in last.total - Cardinality(gone \cup {a}) .. last.total
  BY <1>13, <1>14, <1>15
<1> QED  BY <1>11, <1>12, <1>16 DEF Follows, B

(* The answer to a deletion.                                                *)
LEMMA DeleteReturnsStep ==
    ASSUME ListsInv, NEW a \in Auctions, DeleteReturns(a)
    PROVE  ListsInv'
<1>1. /\ page \in Pages /\ loads \in Seq(Loads) /\ Len(loads) \in Nat /\ DOMAIN loads = 1 .. Len(loads)
      /\ del \in [Auctions -> {"none", "sent", "read", "ok", "refused", "deleted"}]
      /\ loads' = loads /\ status' = status
  BY DEF ListsInv, ListsTypeOK, DeleteReturns
<1>2. /\ del' \in [Auctions -> {"none", "sent", "read", "ok", "refused", "deleted"}]
      /\ \A b \in Auctions \ {a} : del'[b] = del[b]
      /\ del'[a] = IF del[a] = "ok" THEN "deleted" ELSE "none"
  BY <1>1 DEF DeleteReturns
<1>3. /\ a \notin Deleted
      /\ Deleted' = IF del[a] = "ok" THEN Deleted \cup {a} ELSE Deleted
  BY <1>1, <1>2 DEF Deleted, DeleteReturns
<1>4. CASE del[a] = "refused"
  <2>1. page' = page /\ Deleted' = Deleted
    BY <1>3, <1>4 DEF DeleteReturns
  <2>2. ListsTypeOK'
    BY <1>1, <1>2, <2>1 DEF ListsInv, ListsTypeOK
  <2> QED  BY <1>1, <2>1, <2>2, ListsStutter
<1>5. CASE del[a] # "refused" /\ ~Here
  <2>1. page' = page
    BY <1>5 DEF DeleteReturns
  <2>2. ListsTypeOK'
    BY <1>1, <1>2, <2>1 DEF ListsInv, ListsTypeOK
  <2>3. Asked(page, loads, Deleted')
    BY <1>5 DEF ListsInv, Asked, Showing, Here
  <2> QED  BY <1>1, <2>1, <2>2, <2>3 DEF ListsInv
<1>6. CASE del[a] # "refused" /\ Here
  <2>1. Deleted' = Deleted \cup {a}
    BY <1>3, <1>6 DEF DeleteReturns
  <2>2. PICK p \in Pages : p = page
    BY <1>1
  <2>3. Keep(p.items, Cards(Auctions \ {a})) \in Lists
    <3>1. p.items \in Seq(Cards(Auctions))
      BY DEF Pages, Lists
    <3> QED  BY <3>1, KeepType DEF Lists
  <2>4. PICK items \in Lists : items = Keep(p.items, Cards(Auctions \ {a}))
    BY <2>3
  <2>5. PICK total \in Nat : total = IF p.total = 0 THEN 0 ELSE p.total - 1
    <3>1. p.total \in Nat
      BY DEF Pages
    <3> QED  BY <3>1
  <2>6. PICK q \in Pages : q = [p EXCEPT !.items = items, !.total = total]
    <3>1. [p EXCEPT !.items = items, !.total = total] \in Pages
      BY DEF Pages
    <3> QED  BY <3>1
  <2>7. /\ q.items = items /\ q.total = total /\ q.query = p.query
        /\ q.st = p.st /\ q.loaded = p.loaded /\ q.loading = p.loading
    BY <2>6 DEF Pages
  <2>8. page' = q
    BY <1>6, <2>2, <2>4, <2>5, <2>6 DEF DeleteReturns
  <2>9. ListsTypeOK'
    BY <1>1, <1>2, <2>8 DEF ListsInv, ListsTypeOK
  <2>10. Showing(q) => Showing(p)
    BY <2>7 DEF Showing
  <2>11. ASSUME Showing(p) PROVE Follows(q, loads[Len(loads)], Deleted \cup {a})
    <3>1. loads # <<>> /\ Follows(p, loads[Len(loads)], Deleted)
      BY <1>1, <2>2, <2>11 DEF ListsInv, Asked
    <3>2. Len(loads) \in DOMAIN loads
      BY <1>1, <3>1
    <3>3. loads[Len(loads)] \in Loads
      BY <1>1, <3>2
    <3>4. PICK last \in Loads : last = loads[Len(loads)]
      BY <3>3
    <3>5. PICK gone : gone = Deleted
      OBVIOUS
    <3>6. IsFiniteSet(gone) /\ a \notin gone /\ Follows(p, last, gone)
      BY <1>3, <3>1, <3>4, <3>5, DeletedFinite
    <3>7. Follows(q, last, gone \cup {a})
      BY <2>4, <2>5, <2>7, <3>6, FollowsDeletion
    <3> QED  BY <3>4, <3>5, <3>7
  <2>12. Asked(q, loads, Deleted \cup {a})
    BY <2>2, <2>7, <2>10, <2>11 DEF ListsInv, Asked
  <2> QED  BY <1>1, <2>1, <2>8, <2>9, <2>12 DEF ListsInv
<1> QED  BY <1>4, <1>5, <1>6

(* The other steps of a deletion, and the scheduler's.                      *)
LEMMA DeletionSteps ==
    ASSUME ListsInv, NEW a \in Auctions,
           Delete(a) \/ Activate(a) \/ DeleteReads(a) \/ DeleteRow(a) \/ DeleteErrs(a)
    PROVE  ListsInv'
<1>1. /\ del \in [Auctions -> {"none", "sent", "read", "ok", "refused", "deleted"}]
      /\ status \in [Auctions -> Statuses] /\ page' = page /\ loads' = loads
  BY DEF ListsInv, ListsTypeOK, Delete, Activate, DeleteReads, DeleteRow, DeleteErrs
<1>2. \/ del' = del
      \/ /\ del[a] # "deleted"
         /\ \E st \in {"sent", "read", "ok", "refused"} : del' = [del EXCEPT ![a] = st]
  BY DEF Delete, Activate, DeleteReads, DeleteRow, DeleteErrs
<1>3. /\ del' \in [Auctions -> {"none", "sent", "read", "ok", "refused", "deleted"}]
      /\ \A b \in Auctions : del'[b] = "deleted" <=> del[b] = "deleted"
  BY <1>1, <1>2
<1>4. Deleted' = Deleted
  BY <1>3 DEF Deleted
<1>5. status' \in [Auctions -> Statuses]
  <2>1. \/ status' = status
        \/ \E st \in Statuses : status' = [status EXCEPT ![a] = st]
    BY DEF Delete, Activate, DeleteReads, DeleteRow, DeleteErrs, Statuses
  <2> QED  BY <1>1, <2>1
<1>6. ListsTypeOK'
  BY <1>1, <1>3, <1>5 DEF ListsInv, ListsTypeOK
<1> QED  BY <1>1, <1>4, <1>6, ListsStutter

-----------------------------------------------------------------------------
(* The theorem.                                                             *)

(* The first loads are sent for the first query.                            *)
LEMMA ListsInit == Init => ListsInv
<1> SUFFICES ASSUME Init PROVE ListsInv
  OBVIOUS
<1>1. /\ status \in [Auctions -> Statuses] /\ Deleted = {}
      /\ del \in [Auctions -> {"none", "sent", "read", "ok", "refused", "deleted"}]
  BY DEF Init, Statuses, Deleted
<1>2. <<>> \in Lists /\ "newest" \in Sorts /\ "relevance" \in Sorts
  BY DEF Lists, Sorts
<1>3. PICK one \in Nat \ {0} : one = 1
  OBVIOUS
<1>4. \A sort \in Sorts, on \in BOOLEAN :
         [page |-> one, sort |-> sort, search |-> on] \in ListQueries
  BY DEF ListQueries
<1>5. PICK plain \in ListQueries : plain = FirstQuery(FALSE)
  BY <1>2, <1>3, <1>4 DEF FirstQuery
<1>6. PICK found \in ListQueries : found = FirstQuery(TRUE)
  BY <1>2, <1>3, <1>4 DEF FirstQuery
<1>7. PICK relevant \in ListQueries : relevant = [FirstQuery(TRUE) EXCEPT !.sort = "relevance"]
  <2>1. [found EXCEPT !.sort = "relevance"] \in ListQueries
    BY <1>2 DEF ListQueries
  <2> QED  BY <1>6, <2>1
<1>8. \A q \in ListQueries : Load(q) \in Loads /\ Load(q).query = q
  BY LoadType
<1>9. \A kind \in {"mine", "all"}, q \in ListQueries :
         /\ Opened(kind, q) \in Pages /\ Opened(kind, q).query = q
         /\ ~Showing(Opened(kind, q))
  BY <1>2 DEF Opened, Pages, Showing
<1>10. CASE \E kind \in {"mine", "all"} :
               page = Opened(kind, plain) /\ loads = <<Load(plain)>>
  <2>1. page \in Pages /\ loads \in Seq(Loads) /\ loads[Len(loads)].query = page.query /\ ~Showing(page)
    BY <1>8, <1>9, <1>10
  <2> QED  BY <1>1, <2>1 DEF ListsInv, ListsTypeOK, Asked
<1>11. CASE /\ page = [Opened("mine", plain) EXCEPT !.loading = FALSE, !.st = "leaving"]
            /\ loads = <<>>
  <2>1. PICK p \in Pages : p = Opened("mine", plain) /\ p.loaded = FALSE
    BY <1>9 DEF Opened
  <2>2. [p EXCEPT !.loading = FALSE, !.st = "leaving"] \in Pages
    BY DEF Pages
  <2>3. page \in Pages /\ page.loaded = FALSE
    BY <1>11, <2>1, <2>2 DEF Pages
  <2>4. loads \in Seq(Loads) /\ ~(loads # <<>>)
    BY <1>11
  <2> QED  BY <1>1, <2>3, <2>4 DEF ListsInv, ListsTypeOK, Asked, Showing
<1>12. CASE page = Opened("all", relevant) /\ loads = <<Load(found), Load(relevant)>>
  <2>1. page \in Pages /\ loads \in Seq(Loads) /\ loads[Len(loads)].query = page.query /\ ~Showing(page)
    BY <1>8, <1>9, <1>12
  <2> QED  BY <1>1, <2>1 DEF ListsInv, ListsTypeOK, Asked
<1> QED  BY <1>5, <1>6, <1>7, <1>10, <1>11, <1>12 DEF Init

(* Whatever the order in which the loads are answered, fail or are          *)
(* cancelled, and whichever auctions are deleted meanwhile, a page that is  *)
(* not loading shows the answer to the query that is set.                   *)
THEOREM ShownFollowsQuery == Spec => []ShownIsForQuery
<1>1. ListsInv /\ [Next]_vars => ListsInv'
  <2> SUFFICES ASSUME ListsInv, [Next]_vars PROVE ListsInv'
    OBVIOUS
  <2>1. CASE \/ \E sort \in Sorts : MineSort(sort) \/ AllSort(sort)
             \/ \E n \in 1 .. Cardinality(Auctions) : MineTurn(n) \/ AllTurn(n)
             \/ \E on \in BOOLEAN : Search(on)
    BY <2>1, QuerySteps
  <2>2. ASSUME NEW i \in DOMAIN loads, ServeRows(i) \/ ServeCount(i) \/ ServeError(i)
        PROVE  ListsInv'
    BY <2>2, ServeSteps
  <2>3. ASSUME NEW i \in DOMAIN loads, Deliver(i) PROVE ListsInv'
    BY <2>3, DeliverStep
  <2>4. CASE Leave
    BY <2>4, ListsLeft DEF Leave
  <2>5. ASSUME NEW a \in Auctions, Edit(a) PROVE ListsInv'
    BY <2>5, ListsLeft DEF Edit
  <2>6. ASSUME NEW a \in Auctions,
               Delete(a) \/ Activate(a) \/ DeleteReads(a) \/ DeleteRow(a) \/ DeleteErrs(a)
        PROVE  ListsInv'
    BY <2>6, DeletionSteps
  <2>7. ASSUME NEW a \in Auctions, DeleteReturns(a) PROVE ListsInv'
    BY <2>7, DeleteReturnsStep
  <2>8. CASE UNCHANGED vars
    <3>1. page' = page /\ loads' = loads /\ Deleted' = Deleted /\ ListsTypeOK'
      BY <2>8 DEF vars, Deleted, ListsInv, ListsTypeOK
    <3> QED  BY <3>1, ListsStutter
  <2> QED  BY <2>1, <2>2, <2>3, <2>4, <2>5, <2>6, <2>7, <2>8 DEF Next
<1> QED  BY ListsInit, <1>1, ListsInvImplies, PTL DEF Spec

=============================================================================
