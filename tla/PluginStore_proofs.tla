------------------------- MODULE PluginStore_proofs -------------------------
(***************************************************************************)
(* Whatever requests run together and wherever the process dies, an active *)
(* release is in the cache, an offered update is taken, and the marker of  *)
(* the first boot is written when its work was done: for any releases, any *)
(* catalogs, any Experiences and any number of threads.  The choice of a   *)
(* newest build rests on the order of versions, which comes first.  The     *)
(* second part is about the plugins of a running process (PluginHost): who is *)
(* disabled has nothing registered, hooks can be ordered, and a layered call  *)
(* fails only with its model, for any plugins, setups and sessions.           *)
(***************************************************************************)
EXTENDS PluginStore, PluginHost, SequenceTheorems, FiniteSetTheorems, WellFoundedInduction, TLAPS

-----------------------------------------------------------------------------
(* The order of versions *)

\* A set of natural numbers has a least one.
LEMMA Least ==
    ASSUME NEW N \in SUBSET Nat, N # {}
    PROVE  \E n \in N : \A m \in N : n <= m
<1>1. PICK n \in N : \A m \in N : <<m, n>> \notin OpToRel(<, Nat)
  BY WFMin, NatLessThanWellFounded, Zenon
<1>2. ASSUME NEW m \in N  PROVE n <= m
  <2>1. n \in Nat /\ m \in Nat
    BY <1>1
  <2>2. m < n => <<m, n>> \in OpToRel(<, Nat)
    BY <2>1 DEF OpToRel
  <2>3. ~(m < n)
    BY <1>1, <2>2
  <2>. QED  BY <2>1, <2>3
<1>. QED  BY <1>2

\* Identifiers are in a total order.
LEMMA IdentifierOrder ==
    ASSUME NEW x \in Identifier, NEW y \in Identifier, NEW z \in Identifier
    PROVE  /\ ~LessIdentifier(x, x)
           /\ LessIdentifier(x, y) /\ LessIdentifier(y, z) => LessIdentifier(x, z)
           /\ LessIdentifier(x, y) \/ x = y \/ LessIdentifier(y, x)
<1>1. ~LessIdentifier(x, x)
  BY DEF Identifier, LessIdentifier
<1>2. LessIdentifier(x, y) /\ LessIdentifier(y, z) => LessIdentifier(x, z)
  BY DEF Identifier, LessIdentifier
<1>3. LessIdentifier(x, y) \/ x = y \/ LessIdentifier(y, x)
  <2>1. x.numeric = y.numeric /\ x.value = y.value => x = y
    BY DEF Identifier
  <2>2. x.numeric \in BOOLEAN /\ y.numeric \in BOOLEAN /\ x.value \in Nat /\ y.value \in Nat
    BY DEF Identifier
  <2>. QED  BY <2>1, <2>2 DEF LessIdentifier
<1>. QED  BY <1>1, <1>2, <1>3

\* ... and so are lists of them, a list coming before those it begins.
LEMMA NoListBeforeItself ==
    ASSUME NEW l \in Seq(Identifier)
    PROVE  ~LessIdentifiers(l, l)
<1>1. SUFFICES ASSUME NEW k \in 1..Len(l), k = Len(l) + 1 \/ LessIdentifier(l[k], l[k])
               PROVE  FALSE
  BY DEF LessIdentifiers
<1>2. Len(l) \in Nat /\ l[k] \in Identifier
  BY ElementOfSeq
<1>. QED  BY <1>1, <1>2, IdentifierOrder

LEMMA ListsBeforeLists ==
    ASSUME NEW a \in Seq(Identifier), NEW b \in Seq(Identifier), NEW c \in Seq(Identifier),
           LessIdentifiers(a, b), LessIdentifiers(b, c)
    PROVE  LessIdentifiers(a, c)
<1>1. Len(a) \in Nat /\ Len(b) \in Nat /\ Len(c) \in Nat
  OBVIOUS
<1>2. PICK k \in 1..Len(b) : /\ k <= Len(a) + 1
                             /\ \A j \in 1..k - 1 : a[j] = b[j]
                             /\ k = Len(a) + 1 \/ LessIdentifier(a[k], b[k])
  BY DEF LessIdentifiers
<1>3. PICK n \in 1..Len(c) : /\ n <= Len(b) + 1
                             /\ \A j \in 1..n - 1 : b[j] = c[j]
                             /\ n = Len(b) + 1 \/ LessIdentifier(b[n], c[n])
  BY DEF LessIdentifiers
<1>4. /\ k \in Nat /\ k >= 1 /\ k <= Len(b) /\ k <= Len(a) + 1
      /\ n \in Nat /\ n >= 1 /\ n <= Len(c) /\ n <= Len(b) + 1
  BY <1>1, <1>2, <1>3
<1>5. ASSUME NEW m \in Nat, m <= k, m <= n
      PROVE  \A j \in 1..m - 1 : a[j] = c[j]
  <2>1. ASSUME NEW j \in 1..m - 1  PROVE a[j] = c[j]
    <3>1. j \in 1..k - 1 /\ j \in 1..n - 1
      BY <1>4, <1>5
    <3>2. a[j] = b[j]
      BY <1>2, <3>1
    <3>3. b[j] = c[j]
      BY <1>3, <3>1
    <3>. QED  BY <3>2, <3>3
  <2>. QED  BY <2>1
<1>6. CASE k < n
  <2>1. k \in 1..n - 1 /\ k \in 1..Len(c)
    BY <1>4, <1>6
  <2>2. b[k] = c[k]
    BY <1>3, <2>1
  <2>3. \A j \in 1..k - 1 : a[j] = c[j]
    BY <1>4, <1>5, <1>6
  <2>4. k = Len(a) + 1 \/ LessIdentifier(a[k], c[k])
    BY <1>2, <2>2
  <2>. QED  BY <1>4, <2>1, <2>3, <2>4 DEF LessIdentifiers
<1>7. CASE n < k
  <2>1. n \in 1..k - 1 /\ n <= Len(a) + 1 /\ n # Len(b) + 1
    BY <1>4, <1>7
  <2>2. a[n] = b[n]
    BY <1>2, <2>1
  <2>3. \A j \in 1..n - 1 : a[j] = c[j]
    BY <1>4, <1>5, <1>7
  <2>4. LessIdentifier(a[n], c[n])
    BY <1>3, <2>1, <2>2
  <2>. QED  BY <2>1, <2>3, <2>4 DEF LessIdentifiers
<1>8. CASE n = k
  <2>1. \A j \in 1..k - 1 : a[j] = c[j]
    BY <1>4, <1>5, <1>8
  <2>2. k # Len(b) + 1 /\ k \in 1..Len(b) /\ k \in 1..Len(c)
    BY <1>4, <1>8
  <2>3. LessIdentifier(b[k], c[k])
    BY <1>3, <1>8, <2>2
  <2>4. b[k] \in Identifier /\ c[k] \in Identifier
    BY <2>2, ElementOfSeq
  <2>5. k # Len(a) + 1 => LessIdentifier(a[k], c[k])
    <3>1. SUFFICES ASSUME k # Len(a) + 1  PROVE LessIdentifier(a[k], c[k])
      OBVIOUS
    <3>2. k \in 1..Len(a) /\ LessIdentifier(a[k], b[k])
      BY <1>1, <1>2, <1>4, <3>1
    <3>3. a[k] \in Identifier
      BY <3>2, ElementOfSeq
    <3>. QED  BY <2>3, <2>4, <3>2, <3>3, IdentifierOrder
  <2>. QED  BY <1>4, <2>1, <2>2, <2>5 DEF LessIdentifiers
<1>. QED  BY <1>4, <1>6, <1>7, <1>8

LEMMA ListsAreOrdered ==
    ASSUME NEW l \in Seq(Identifier), NEW r \in Seq(Identifier)
    PROVE  LessIdentifiers(l, r) \/ l = r \/ LessIdentifiers(r, l)
<1>. DEFINE Short == IF Len(l) < Len(r) THEN Len(l) ELSE Len(r)
            N == {k \in 1..Short : l[k] # r[k]}
<1>1. Len(l) \in Nat /\ Len(r) \in Nat /\ Short \in Nat /\ Short <= Len(l) /\ Short <= Len(r)
  OBVIOUS
<1>2. CASE N = {}
  <2>1. \A k \in 1..Short : l[k] = r[k]
    BY <1>2
  <2>2. CASE Len(l) = Len(r)
    BY <1>1, <2>1, <2>2, SeqEqual
  <2>3. CASE Len(l) < Len(r)
    <3>1. Len(l) + 1 \in 1..Len(r) /\ \A j \in 1..(Len(l) + 1) - 1 : l[j] = r[j]
      BY <1>1, <2>1, <2>3
    <3>. QED  BY <1>1, <3>1 DEF LessIdentifiers
  <2>4. CASE Len(r) < Len(l)
    <3>1. Len(r) + 1 \in 1..Len(l) /\ \A j \in 1..(Len(r) + 1) - 1 : r[j] = l[j]
      BY <1>1, <2>1, <2>4
    <3>. QED  BY <1>1, <3>1 DEF LessIdentifiers
  <2>. QED  BY <1>1, <2>2, <2>3, <2>4
<1>3. CASE N # {}
  <2>1. N \in SUBSET Nat
    BY <1>1
  <2>2. PICK k \in N : \A m \in N : k <= m
    <3>. HIDE DEF N
    <3>. QED  BY <1>3, <2>1, Least
  <2>3. k \in 1..Len(l) /\ k \in 1..Len(r) /\ l[k] # r[k]
    BY <1>1, <2>2
  <2>4. \A j \in 1..k - 1 : l[j] = r[j]
    <3>1. ASSUME NEW j \in 1..k - 1  PROVE l[j] = r[j]
      <4>1. j \in 1..Short /\ j \notin N
        BY <1>1, <2>2
      <4>. QED  BY <4>1
    <3>. QED  BY <3>1
  <2>5. LessIdentifier(l[k], r[k]) \/ LessIdentifier(r[k], l[k])
    BY <2>3, IdentifierOrder, ElementOfSeq
  <2>. QED  BY <1>1, <2>3, <2>4, <2>5 DEF LessIdentifiers
<1>. QED  BY <1>2, <1>3

\* Versions are in a total order: none is before itself, the order is
\* transitive, and two versions that are not the same are ordered (the
\* comparisons of SemanticVersion).
THEOREM PrecedenceIsAnOrder ==
    ASSUME NEW a \in SemanticVersion, NEW b \in SemanticVersion, NEW c \in SemanticVersion
    PROVE  /\ ~Less(a, a)
           /\ Less(a, b) /\ Less(b, c) => Less(a, c)
           /\ Less(a, b) \/ Same(a, b) \/ Less(b, a)
<1>1. /\ a.major \in Nat /\ a.minor \in Nat /\ a.patch \in Nat /\ a.prerelease \in Seq(Identifier)
      /\ b.major \in Nat /\ b.minor \in Nat /\ b.patch \in Nat /\ b.prerelease \in Seq(Identifier)
      /\ c.major \in Nat /\ c.minor \in Nat /\ c.patch \in Nat /\ c.prerelease \in Seq(Identifier)
  BY DEF SemanticVersion
<1>2. ~LessPrerelease(a.prerelease, a.prerelease)
  BY <1>1, NoListBeforeItself DEF LessPrerelease
<1>3. LessPrerelease(a.prerelease, b.prerelease) /\ LessPrerelease(b.prerelease, c.prerelease)
        => LessPrerelease(a.prerelease, c.prerelease)
  BY <1>1, ListsBeforeLists DEF LessPrerelease
<1>4. \/ LessPrerelease(a.prerelease, b.prerelease)
      \/ a.prerelease = b.prerelease
      \/ LessPrerelease(b.prerelease, a.prerelease)
  BY <1>1, ListsAreOrdered DEF LessPrerelease
<1>5. ~Less(a, a)
  BY <1>1, <1>2 DEF Less, LessCore
<1>6. Less(a, b) /\ Less(b, c) => Less(a, c)
  BY <1>1, <1>3 DEF Less, LessCore, SameCore
<1>7. Less(a, b) \/ Same(a, b) \/ Less(b, a)
  BY <1>1, <1>4 DEF Less, Same, LessCore, SameCore
<1>. QED  BY <1>5, <1>6, <1>7

\* Two versions that are the same compare alike with any other.
LEMMA SameIsAlike ==
    ASSUME NEW a \in SemanticVersion, NEW b \in SemanticVersion, NEW c \in SemanticVersion, Same(a, b)
    PROVE  /\ Less(a, c) <=> Less(b, c)
           /\ Less(c, a) <=> Less(c, b)
BY DEF SemanticVersion, Same, Less, LessCore, SameCore

\* A release between two that a plugin accepts is accepted: neither an update
\* nor a downgrade between them meets a dependency the ends meet and breaks it
\* in the middle (satisfies_version).
THEOREM ConstraintsLeaveNoGap ==
    ASSUME NEW expression \in SUBSET Constraint,
           NEW low \in SemanticVersion, NEW mid \in SemanticVersion, NEW high \in SemanticVersion,
           AtMost(low, mid), AtMost(mid, high),
           satisfies_version(low, expression), satisfies_version(high, expression)
    PROVE  satisfies_version(mid, expression)
<1>. SUFFICES ASSUME NEW c \in expression  PROVE Meets(mid, c)
  BY DEF satisfies_version
<1>. DEFINE e == c.version
<1>1. e \in SemanticVersion /\ c.op \in {">=", "<=", ">", "<", "^", "~", "="}
  BY DEF Constraint
<1>2. Meets(low, c) /\ Meets(high, c)
  BY DEF satisfies_version
<1>3. Less(mid, e) => Less(low, e)
  BY <1>1, PrecedenceIsAnOrder, SameIsAlike DEF AtMost
<1>4. Less(e, mid) => Less(e, high)
  BY <1>1, PrecedenceIsAnOrder, SameIsAlike DEF AtMost
<1>5. low.major <= mid.major /\ mid.major <= high.major
  BY DEF AtMost, Less, Same, LessCore, SameCore, SemanticVersion
<1>6. low.major = mid.major /\ mid.major = high.major
        => low.minor <= mid.minor /\ mid.minor <= high.minor
  BY DEF AtMost, Less, Same, LessCore, SameCore, SemanticVersion
<1>7. Less(mid, e) \/ Same(mid, e) \/ Less(e, mid)
  BY <1>1, PrecedenceIsAnOrder
<1>8. ~(Less(e, low) /\ (Less(low, e) \/ Same(low, e))) /\ ~(Less(e, high) /\ Same(high, e))
  BY <1>1, PrecedenceIsAnOrder, SameIsAlike
<1>9. ~(Less(low, e) /\ Same(low, e))
  BY <1>1, PrecedenceIsAnOrder, SameIsAlike
<1>10. Same(mid, e) => ~Less(mid, e) /\ ~Less(e, mid)
  BY <1>1, PrecedenceIsAnOrder, SameIsAlike
<1>11. /\ Less(low, e) \/ Same(low, e) \/ Less(e, low)
       /\ Less(high, e) \/ Same(high, e) \/ Less(e, high)
       /\ ~(Less(high, e) /\ Less(e, high))
  BY <1>1, PrecedenceIsAnOrder
<1>12. Same(mid, e) => (Less(low, e) \/ Same(low, e)) /\ (Less(e, high) \/ Same(high, e))
  BY <1>1, PrecedenceIsAnOrder, SameIsAlike DEF AtMost
<1>13. Less(high, e) => Less(mid, e)
  BY <1>1, PrecedenceIsAnOrder, SameIsAlike DEF AtMost
<1>14. CASE c.op = ">="
  BY <1>2, <1>3, <1>14 DEF Meets, AtLeast
<1>15. CASE c.op = "<="
  BY <1>2, <1>4, <1>7, <1>8, <1>11, <1>15 DEF Meets, Greater
<1>16. CASE c.op = ">"
  BY <1>2, <1>3, <1>8, <1>12, <1>16 DEF Meets, AtMost
<1>17. CASE c.op = "<"
  BY <1>2, <1>4, <1>7, <1>8, <1>11, <1>13, <1>17 DEF Meets, AtLeast
<1>18. CASE c.op = "="
  BY <1>2, <1>3, <1>4, <1>7, <1>8, <1>9, <1>18 DEF Meets
<1>19. CASE c.op = "^"
  <2>1. low.major = e.major /\ high.major = e.major
    BY <1>2, <1>19 DEF Meets
  <2>2. mid.major = e.major
    BY <1>1, <1>5, <2>1 DEF SemanticVersion
  <2>. QED  BY <1>2, <1>3, <1>19, <2>2 DEF Meets, AtLeast
<1>20. CASE c.op = "~"
  <2>1. low.major = e.major /\ high.major = e.major /\ low.minor = e.minor /\ high.minor = e.minor
    BY <1>2, <1>20 DEF Meets
  <2>2. mid.major = e.major /\ mid.minor = e.minor
    BY <1>1, <1>5, <1>6, <2>1 DEF SemanticVersion
  <2>. QED  BY <1>2, <1>3, <1>20, <2>2 DEF Meets, AtLeast
<1>. QED  BY <1>1, <1>14, <1>15, <1>16, <1>17, <1>18, <1>19, <1>20

-----------------------------------------------------------------------------
(* The inductive invariant *)

Fields == {"kind", "step", "release", "previous", "built", "lacking", "rest", "before", "boot"}

Kept == {r \in Releases : disk[r] # "absent"}

\* There may be any number of releases, but no more than finitely many at a time.
StoreTypes ==
    /\ catalog \in SUBSET Releases /\ IsFiniteSet(catalog)
    /\ disk \in [Releases -> {"absent", "whole", "torn", "torn, looks whole"}]
    /\ IsFiniteSet(Kept)
    /\ pointer \in [Ids -> Releases \cup {None}]
    /\ \A i \in Active : pointer[i].id = i
    /\ lock \in Threads \cup {Free}
    /\ DOMAIN op = Threads
    /\ \A t \in Threads : /\ DOMAIN op[t] = Fields
                          /\ op[t].before \in SUBSET Releases /\ IsFiniteSet(op[t].before)
                          /\ op[t].boot \in BOOLEAN
    /\ boot \in {"off", "running", "up"}
    /\ marker \in BOOLEAN

Switching(t) == At(t, "switch") \/ op[t].kind \in {"switch", "update"}

Removing(t) == At(t, "unlink") \/ At(t, "remove")

\* Only a holder of the lock is about to write a pointer or to remove a tree.
LockHeld == \A t \in Threads : Switching(t) \/ Removing(t) => lock = t

\* What it is about to point to or to remove is there, and nothing points to what it is about
\* to remove.
ReleaseStands ==
    \A t \in Threads :
        /\ Switching(t) \/ Removing(t) => op[t].release \in installed_plugins
        /\ At(t, "remove") => \A i \in Active : pointer[i] # op[t].release

StoreInv == StoreTypes /\ LockHeld /\ ReleaseStands /\ ActiveIsInstalled

-----------------------------------------------------------------------------
(* The newest release of a set *)

\* A total preorder of a finite set has a greatest element.
LEMMA Greatest ==
    ASSUME NEW S, IsFiniteSet(S), S # {}, NEW R,
           \A x, y, z \in S : <<x, y>> \in R /\ <<y, z>> \in R => <<x, z>> \in R,
           \A x, y \in S : <<x, y>> \in R \/ <<y, x>> \in R
    PROVE  \E g \in S : \A x \in S : <<x, g>> \in R
<1>. DEFINE Above(x) == {y \in S : <<y, x>> \notin R}
            N == {Cardinality(Above(x)) : x \in S}
<1>1. \A x \in S : IsFiniteSet(Above(x)) /\ Cardinality(Above(x)) \in Nat
  BY FS_Subset, FS_CardinalityType
<1>2. N \in SUBSET Nat /\ N # {}
  BY <1>1
<1>3. PICK n \in N : \A m \in N : n <= m
  <2>. HIDE DEF N
  <2>. QED  BY <1>2, Least
<1>4. PICK g \in S : n = Cardinality(Above(g))
  OBVIOUS
<1>5. ASSUME NEW x \in S, <<x, g>> \notin R  PROVE FALSE
  <2>1. \A z \in Above(x) : z \in Above(g)
    BY <1>5
  <2>2. x \in Above(g) /\ x \notin Above(x)
    BY <1>5
  <2>3. Above(x) \in SUBSET Above(g) /\ Above(x) # Above(g)
    BY <2>1, <2>2
  <2>4. Cardinality(Above(x)) \in N /\ Cardinality(Above(x)) \in Nat /\ Cardinality(Above(g)) \in Nat
    BY <1>1
  <2>5. Cardinality(Above(x)) <= Cardinality(Above(g)) /\ Cardinality(Above(x)) # Cardinality(Above(g))
    <3>. HIDE DEF Above
    <3>. QED  BY <1>1, <2>3, FS_Subset
  <2>6. Cardinality(Above(g)) <= Cardinality(Above(x))
    BY <1>3, <1>4, <2>4
  <2>. HIDE DEF Above
  <2>. QED  BY <2>4, <2>5, <2>6
<1>. QED  BY <1>5

\* Ordered by version and, of one version, by any rank, a set of releases has a last.
LEMMA LastByVersion ==
    ASSUME NEW rs \in SUBSET Releases, IsFiniteSet(rs), rs # {}, NEW rank \in [rs -> Int]
    PROVE  \E r \in rs : \A s \in rs : \/ Less(s.version, r.version)
                                       \/ Same(s.version, r.version) /\ rank[s] <= rank[r]
<1>. DEFINE Upto(s, r) == \/ Less(s.version, r.version)
                          \/ Same(s.version, r.version) /\ rank[s] <= rank[r]
            R == {p \in rs \X rs : Upto(p[1], p[2])}
<1>1. \A r \in rs : r.version \in SemanticVersion /\ rank[r] \in Int
  BY StoreAssumption
<1>2. ASSUME NEW x \in rs, NEW y \in rs, NEW z \in rs, Upto(x, y), Upto(y, z)  PROVE Upto(x, z)
  <2>1. Same(x.version, y.version) /\ Same(y.version, z.version) => Same(x.version, z.version)
    BY DEF Same, SameCore
  <2>. QED  BY <1>1, <1>2, <2>1, PrecedenceIsAnOrder, SameIsAlike
<1>3. ASSUME NEW x \in rs, NEW y \in rs  PROVE Upto(x, y) \/ Upto(y, x)
  <2>1. Same(x.version, y.version) => Same(y.version, x.version)
    BY DEF Same, SameCore
  <2>. QED  BY <1>1, <2>1, PrecedenceIsAnOrder
<1>. HIDE DEF Upto
<1>4. \A x, y \in rs : <<x, y>> \in R <=> Upto(x, y)
  OBVIOUS
<1>5. \E r \in rs : \A s \in rs : <<s, r>> \in R
  <2>. HIDE DEF R
  <2>. QED  BY <1>2, <1>3, <1>4, Greatest
<1>6. \E r \in rs : \A s \in rs : Upto(s, r)
  BY <1>4, <1>5
<1>. QED  BY <1>6 DEF Upto

LEMMA NewestIsThere ==
    ASSUME NEW rs \in SUBSET Releases, IsFiniteSet(rs), rs # {}
    PROVE  /\ Newest(rs) \in rs
           /\ \A s \in rs : \/ Less(s.version, Newest(rs).version)
                            \/ Same(s.version, Newest(rs).version) /\ s.build <= Newest(rs).build
<1>. DEFINE rank == [r \in rs |-> r.build]
<1>1. rank \in [rs -> Int] /\ \A r \in rs : rank[r] = r.build
  BY StoreAssumption
<1>. HIDE DEF rank
<1>2. \E r \in rs : \A s \in rs : Less(s.version, r.version) \/ (Same(s.version, r.version) /\ s.build <= r.build)
  BY <1>1, LastByVersion
<1>. QED  BY <1>2 DEF Newest

LEMMA FirstNewestIsThere ==
    ASSUME NEW rs \in SUBSET Releases, IsFiniteSet(rs), rs # {}
    PROVE  /\ FirstNewest(rs) \in rs
           /\ \A s \in rs : \/ Less(s.version, FirstNewest(rs).version)
                            \/ Same(s.version, FirstNewest(rs).version) /\ FirstNewest(rs).build <= s.build
<1>. DEFINE rank == [r \in rs |-> -r.build]
<1>1. /\ rank \in [rs -> Int]
      /\ \A r, s \in rs : rank[s] <= rank[r] <=> r.build <= s.build
  BY StoreAssumption
<1>. HIDE DEF rank
<1>2. \E r \in rs : \A s \in rs : Less(s.version, r.version) \/ (Same(s.version, r.version) /\ r.build <= s.build)
  BY <1>1, LastByVersion
<1>. QED  BY <1>2 DEF FirstNewest

-----------------------------------------------------------------------------
(* What is offered *)

\* The inventory and update_curated look at releases of one version.
LEMMA OfferIsTaken == StoreTypes => OfferedUpdateIsTaken
<1>. SUFFICES ASSUME StoreTypes, NEW i \in Ids, plugin_state(i) = "update_available"
              PROVE  Accepts(Newest(Offered(i)))
  BY DEF OfferedUpdateIsTaken
<1>. DEFINE candidate == Newest(Offered(i))
<1>1. /\ Offered(i) # {} /\ Cached(i) # {}
      /\ compare_versions(candidate.version, Shown(i).version) > 0
  BY DEF plugin_state
<1>2. /\ Offered(i) \in SUBSET Releases /\ IsFiniteSet(Offered(i))
      /\ Cached(i) \in SUBSET Releases /\ IsFiniteSet(Cached(i))
  <2>1. Offered(i) \in SUBSET catalog /\ Cached(i) \in SUBSET Kept
    BY DEF Offered, Cached, installed_plugins, Validates, Kept
  <2>. QED  BY <2>1, FS_Subset DEF StoreTypes, Kept
<1>3. candidate \in Offered(i) /\ candidate.id = i
  BY <1>1, <1>2, NewestIsThere DEF Offered
<1>4. Newest(Cached(i)) \in Cached(i) /\ FirstNewest(Cached(i)) \in Cached(i)
  BY <1>1, <1>2, NewestIsThere, FirstNewestIsThere
<1>5. /\ candidate.version \in SemanticVersion /\ Shown(i).version \in SemanticVersion
      /\ Reference(i).version \in SemanticVersion
  BY <1>2, <1>3, <1>4, StoreAssumption DEF Shown, Reference
<1>6. Same(Shown(i).version, Reference(i).version)
  <2>1. CASE pointer[i] \in Cached(i)
    BY <2>1 DEF Shown, Reference, Same, SameCore
  <2>2. CASE pointer[i] \notin Cached(i)
    <3>. DEFINE a == Newest(Cached(i))
                b == FirstNewest(Cached(i))
    <3>1. Less(a.version, b.version) \/ Same(a.version, b.version)
      BY <1>1, <1>2, <1>4, FirstNewestIsThere
    <3>2. Less(b.version, a.version) \/ Same(b.version, a.version)
      BY <1>1, <1>2, <1>4, NewestIsThere
    <3>3. a.version \in SemanticVersion /\ b.version \in SemanticVersion
      BY <1>2, <1>4, StoreAssumption
    <3>4. Same(b.version, a.version) => Same(a.version, b.version)
      BY DEF Same, SameCore
    <3>5. Same(a.version, b.version)
      BY <3>1, <3>2, <3>3, <3>4, PrecedenceIsAnOrder
    <3>. QED  BY <2>2, <3>5 DEF Shown, Reference
  <2>. QED  BY <2>1, <2>2
<1>7. Greater(candidate.version, Shown(i).version)
  BY <1>1 DEF compare_versions
<1>8. Greater(candidate.version, Reference(i).version)
  <2>1. Same(candidate.version, Reference(i).version) => Same(candidate.version, Shown(i).version)
    BY <1>6 DEF Same, SameCore
  <2>. QED  BY <1>5, <1>6, <1>7, <2>1, SameIsAlike DEF Greater
<1>. QED  BY <1>1, <1>3, <1>8 DEF Accepts

-----------------------------------------------------------------------------
(* The steps *)

LEMMA StoreInit == Init => StoreInv
<1>. SUFFICES ASSUME Init  PROVE StoreInv
  OBVIOUS
<1>1. Kept = {} /\ Active = {} /\ catalog = {}
  BY DEF Init, Kept, Active
<1>2. StoreTypes
  BY <1>1, FS_EmptySet DEF Init, StoreTypes, NoOp, Fields
<1>3. \A t \in Threads : ~Switching(t) /\ ~Removing(t)
  BY DEF Init, Switching, Removing, At, NoOp
<1>. QED  BY <1>1, <1>2, <1>3 DEF StoreInv, LockHeld, ReleaseStands, At, Removing, ActiveIsInstalled

\* The cache as it is or with a package more.
CacheKept ==
    /\ disk' \in [Releases -> {"absent", "whole", "torn", "torn, looks whole"}]
    /\ IsFiniteSet(Kept')
    /\ installed_plugins \subseteq installed_plugins'

LEMMA CacheStays == ASSUME StoreInv, UNCHANGED disk  PROVE CacheKept
  BY DEF StoreInv, StoreTypes, CacheKept, Kept, installed_plugins, Validates

LEMMA CacheGrows ==
    ASSUME StoreInv, NEW r \in Releases, disk' = Installed(r)
    PROVE  CacheKept
<1>1. Kept' \in SUBSET (Kept \cup {r}) /\ IsFiniteSet(Kept \cup {r})
  BY FS_AddElement DEF StoreInv, StoreTypes, Kept, Installed
<1>2. IsFiniteSet(Kept')
  BY <1>1, FS_Subset
<1>. QED  BY <1>2 DEF StoreInv, StoreTypes, CacheKept, Installed, installed_plugins, Validates

\* What a thread may become without the lock, and with it if it is switching.
MayBecome(t, o) ==
    /\ DOMAIN o = Fields
    /\ o.before \in SUBSET Releases /\ IsFiniteSet(o.before)
    /\ o.boot \in BOOLEAN
    /\ o.step \notin {"unlink", "remove"}
    /\ \/ o.step # "switch" /\ o.kind \notin {"switch", "update"}
       \/ Switching(t) /\ o.release = op[t].release /\ lock' = lock

\* A step that writes no pointer and removes nothing.
LEMMA QuietStep ==
    ASSUME StoreInv, NEW t \in Threads, NEW o, MayBecome(t, o), op' = [op EXCEPT ![t] = o],
           lock' = lock \/ lock' = (IF lock = t THEN Free ELSE lock),
           catalog' \in SUBSET Releases, IsFiniteSet(catalog'), CacheKept,
           pointer' \in [Ids -> Releases \cup {None}],
           \A i \in Ids : pointer'[i] = pointer[i] \/ pointer'[i] = None,
           boot' \in {"off", "running", "up"}, marker' \in BOOLEAN
    PROVE  StoreInv'
<1>1. op'[t] = o /\ (\A u \in Threads : u # t => op'[u] = op[u]) /\ DOMAIN op' = Threads
  BY DEF StoreInv, StoreTypes
<1>2. \A i \in Active' : i \in Active /\ pointer'[i] = pointer[i]
  BY DEF Active
<1>3. StoreTypes'
  BY <1>1, <1>2 DEF StoreInv, StoreTypes, CacheKept, MayBecome
<1>4. \A u \in Threads : Switching(u)' => Switching(u) /\ op'[u].release = op[u].release
  BY <1>1 DEF Switching, At, MayBecome
<1>5. \A u \in Threads : Removing(u)' => Removing(u) /\ u # t /\ op'[u] = op[u]
  BY <1>1 DEF Removing, At, MayBecome
<1>6. LockHeld'
  <2>. SUFFICES ASSUME NEW u \in Threads, Switching(u)' \/ Removing(u)'  PROVE lock' = u
    BY DEF LockHeld
  <2>1. CASE u # t
    BY <1>4, <1>5, <2>1 DEF StoreInv, LockHeld
  <2>2. CASE u = t
    BY <1>1, <1>4, <1>5, <2>2 DEF StoreInv, LockHeld, Switching, At, MayBecome
  <2>. QED  BY <2>1, <2>2
<1>7. ReleaseStands'
  <2>1. ASSUME NEW u \in Threads, Switching(u)'  PROVE op'[u].release \in installed_plugins'
    BY <1>4, <2>1 DEF StoreInv, ReleaseStands, CacheKept
  <2>2. ASSUME NEW u \in Threads, Removing(u)'  PROVE op'[u].release \in installed_plugins'
    BY <1>5, <2>2 DEF StoreInv, ReleaseStands, CacheKept
  <2>3. ASSUME NEW u \in Threads, At(u, "remove")'
        PROVE  At(u, "remove") /\ op'[u].release = op[u].release
    BY <1>5, <2>3 DEF At, Removing
  <2>4. ASSUME NEW u \in Threads, At(u, "remove")', NEW i \in Active'
        PROVE  pointer'[i] # op'[u].release
    BY <1>2, <2>3, <2>4 DEF StoreInv, ReleaseStands
  <2>. QED  BY <2>1, <2>2, <2>4 DEF ReleaseStands
<1>8. ActiveIsInstalled'
  BY <1>2 DEF StoreInv, ActiveIsInstalled, CacheKept
<1>. QED  BY <1>3, <1>6, <1>7, <1>8 DEF StoreInv

\* The environment has no part in the invariant.
LEMMA OnlyEnvironment ==
    ASSUME StoreInv, UNCHANGED <<catalog, disk, pointer, lock, op, marker>>,
           boot' \in {"off", "running", "up"}
    PROVE  StoreInv'
<1>1. Kept' = Kept /\ Active' = Active /\ installed_plugins' = installed_plugins
  BY DEF Kept, Active, installed_plugins, Validates
<1>2. \A t \in Threads : /\ Switching(t)' = Switching(t) /\ Removing(t)' = Removing(t)
                         /\ At(t, "remove")' = At(t, "remove")
  BY DEF Switching, Removing, At
<1>3. StoreTypes'
  BY <1>1 DEF StoreInv, StoreTypes
<1>4. LockHeld' /\ ReleaseStands' /\ ActiveIsInstalled'
  BY <1>1, <1>2 DEF StoreInv, LockHeld, ReleaseStands, ActiveIsInstalled
<1>. QED  BY <1>3, <1>4 DEF StoreInv

\* Of a request that changes the cache only, and of one that only computes.
LEMMA InstallKeeps ==
    ASSUME StoreInv, NEW t \in Threads, install_zip(t)
    PROVE  StoreInv'
<1>1. CacheKept
  BY CacheGrows DEF install_zip
<1>. QED  BY <1>1 DEF install_zip, StoreInv, StoreTypes, LockHeld, ReleaseStands, ActiveIsInstalled,
                      CacheKept, Switching, Removing, At, Active

LEMMA UninstallKeeps ==
    ASSUME StoreInv, NEW t \in Threads, uninstall(t)
    PROVE  StoreInv'
<1>1. PICK r \in installed_plugins :
        op' = [op EXCEPT ![t] = [NoOp EXCEPT !.kind = "uninstall", !.step = "unlink", !.release = r]]
  BY DEF uninstall, Becomes
<1>. DEFINE o == [NoOp EXCEPT !.kind = "uninstall", !.step = "unlink", !.release = r]
<1>2. /\ DOMAIN o = Fields /\ o.step = "unlink" /\ o.kind = "uninstall" /\ o.release = r
      /\ o.before = {} /\ o.boot = FALSE
  BY DEF NoOp, Fields
<1>. HIDE DEF o
<1>3. op'[t] = o /\ (\A u \in Threads : u # t => op'[u] = op[u]) /\ DOMAIN op' = Threads
  BY <1>1 DEF StoreInv, StoreTypes, o
<1>4. \A u \in Threads : ~Switching(u) /\ ~Removing(u)
  BY NameAssumption DEF StoreInv, LockHeld, uninstall
<1>5. StoreTypes'
  BY <1>2, <1>3, FS_EmptySet DEF StoreInv, StoreTypes, uninstall, Becomes, Kept, Active
<1>6. \A u \in Threads : ~Switching(u)' /\ ~At(u, "remove")' /\ (Removing(u)' => u = t)
  BY <1>2, <1>3, <1>4 DEF Switching, Removing, At
<1>7. LockHeld' /\ ReleaseStands'
  <2>1. installed_plugins' = installed_plugins
    BY DEF uninstall, installed_plugins, Validates
  <2>. QED  BY <1>2, <1>3, <1>6, <2>1 DEF LockHeld, ReleaseStands, uninstall
<1>8. ActiveIsInstalled'
  BY DEF StoreInv, ActiveIsInstalled, uninstall, Becomes, Active, installed_plugins, Validates
<1>. QED  BY <1>5, <1>7, <1>8 DEF StoreInv

LEMMA UnlinkKeeps ==
    ASSUME StoreInv, NEW t \in Threads, UnlinkPointer(t)
    PROVE  StoreInv'
<1>. DEFINE r == op[t].release
            kind == IF pointer' # pointer THEN "deactivate" ELSE op[t].kind
            o == [op[t] EXCEPT !.step = "remove", !.kind = kind]
<1>1. r \in Releases /\ r.id \in Ids /\ lock = t
  BY DEF UnlinkPointer, StoreInv, ReleaseStands, LockHeld, Removing, At, Ids, installed_plugins
<1>2. /\ DOMAIN o = Fields /\ o.step = "remove" /\ o.kind = kind /\ o.release = r
      /\ o.before = op[t].before /\ o.boot = op[t].boot
  BY DEF StoreInv, StoreTypes, Fields
<1>3. o.kind \in {"switch", "update"} => op[t].kind \in {"switch", "update"}
  BY <1>2
<1>4. op' = [op EXCEPT ![t] = o]
  BY DEF UnlinkPointer, Becomes
<1>. HIDE DEF o
<1>5. op'[t] = o /\ (\A u \in Threads : u # t => op'[u] = op[u]) /\ DOMAIN op' = Threads
  BY <1>4 DEF StoreInv, StoreTypes
<1>6. \A i \in Active' : i \in Active /\ pointer'[i] = pointer[i] /\ pointer'[i] # r
  <2>1. /\ pointer' \in [Ids -> Releases \cup {None}]
        /\ \A i \in Ids : pointer'[i] = IF i = r.id /\ pointer[i] = r THEN None ELSE pointer[i]
    BY <1>1 DEF UnlinkPointer, StoreInv, StoreTypes
  <2>. QED  BY <2>1 DEF Active, StoreInv, StoreTypes
<1>7. pointer' \in [Ids -> Releases \cup {None}]
  BY <1>1 DEF UnlinkPointer, StoreInv, StoreTypes
<1>8. StoreTypes'
  <2>1. \A u \in Threads : /\ DOMAIN op'[u] = Fields
                           /\ op'[u].before \in SUBSET Releases /\ IsFiniteSet(op'[u].before)
                           /\ op'[u].boot \in BOOLEAN
    BY <1>2, <1>5 DEF StoreInv, StoreTypes
  <2>2. UNCHANGED <<catalog, disk, lock, boot, marker>>
    BY DEF UnlinkPointer, Becomes
  <2>3. \A i \in Active' : pointer'[i].id = i
    BY <1>6 DEF StoreInv, StoreTypes
  <2>. QED  BY <1>5, <1>7, <2>1, <2>2, <2>3 DEF StoreInv, StoreTypes, Kept
<1>9. \A u \in Threads : Switching(u)' => Switching(u) /\ op'[u].release = op[u].release
  BY <1>2, <1>3, <1>5 DEF Switching, At
<1>10. \A u \in Threads : Removing(u)' => Removing(u) /\ op'[u].release = op[u].release
  BY <1>2, <1>5 DEF Removing, At, UnlinkPointer
<1>11. \A u \in Threads : Removing(u) => u = t
  BY <1>1 DEF StoreInv, LockHeld
<1>12. LockHeld'
  BY <1>9, <1>10 DEF StoreInv, LockHeld, UnlinkPointer
<1>13. installed_plugins' = installed_plugins
  BY DEF UnlinkPointer, installed_plugins, Validates
<1>14. ReleaseStands'
  <2>1. ASSUME NEW u \in Threads, Switching(u)'  PROVE op'[u].release \in installed_plugins'
    BY <1>9, <1>13, <2>1 DEF StoreInv, ReleaseStands
  <2>2. ASSUME NEW u \in Threads, Removing(u)'  PROVE op'[u].release \in installed_plugins'
    BY <1>10, <1>13, <2>2 DEF StoreInv, ReleaseStands
  <2>3. ASSUME NEW u \in Threads, At(u, "remove")', NEW i \in Active'
        PROVE  pointer'[i] # op'[u].release
    BY <1>2, <1>5, <1>6, <1>10, <1>11, <2>3 DEF Removing
  <2>. QED  BY <2>1, <2>2, <2>3 DEF ReleaseStands
<1>15. ActiveIsInstalled'
  BY <1>6, <1>13 DEF StoreInv, ActiveIsInstalled
<1>. QED  BY <1>8, <1>12, <1>14, <1>15 DEF StoreInv

\* A tree goes only when nothing points to it and nobody is about to.
LEMMA RemoveKeeps ==
    ASSUME StoreInv, NEW t \in Threads, RemoveTree(t)
    PROVE  StoreInv'
<1>. DEFINE r == op[t].release
            o == IF op[t].kind = "deactivate" THEN Rebuilding(op[t]) ELSE NoOp
<1>1. r \in Releases /\ lock = t /\ lock' = Free /\ (\A i \in Active : pointer[i] # r)
  BY DEF RemoveTree, StoreInv, ReleaseStands, LockHeld, Removing, At, installed_plugins
<1>2. /\ DOMAIN o = Fields /\ o.step \notin {"switch", "unlink", "remove"}
      /\ o.kind \notin {"switch", "update"} /\ o.before = {} /\ o.boot \in BOOLEAN
  BY DEF StoreInv, StoreTypes, Fields, NoOp, Rebuilding
<1>3. op' = [op EXCEPT ![t] = o]
  BY DEF RemoveTree, Becomes
<1>. HIDE DEF o
<1>4. op'[t] = o /\ (\A u \in Threads : u # t => op'[u] = op[u]) /\ DOMAIN op' = Threads
  BY <1>3 DEF StoreInv, StoreTypes
<1>5. /\ disk' \in [Releases -> {"absent", "whole", "torn", "torn, looks whole"}]
      /\ Kept' \in SUBSET Kept /\ \A s \in Releases : s # r => disk'[s] = disk[s]
  BY <1>1 DEF RemoveTree, StoreInv, StoreTypes, Kept
<1>6. IsFiniteSet(Kept')
  BY <1>5, FS_Subset DEF StoreInv, StoreTypes
<1>7. StoreTypes'
  BY <1>1, <1>2, <1>4, <1>5, <1>6, FS_EmptySet DEF StoreInv, StoreTypes, RemoveTree, Becomes, Active
<1>8. \A u \in Threads : ~Switching(u)' /\ ~Removing(u)'
  BY <1>1, <1>2, <1>4 DEF StoreInv, LockHeld, Switching, Removing, At
<1>9. LockHeld' /\ ReleaseStands'
  BY <1>8 DEF LockHeld, ReleaseStands, Removing
<1>10. ActiveIsInstalled'
  BY <1>1, <1>5 DEF StoreInv, StoreTypes, ActiveIsInstalled, RemoveTree, Active, installed_plugins, Validates
<1>. QED  BY <1>7, <1>9, <1>10 DEF StoreInv

LEMMA RebuildKeeps ==
    ASSUME StoreInv, NEW t \in Threads, rebuild_environment(t)
    PROVE  StoreInv'
<1>. DEFINE o == [op[t] EXCEPT !.step = "build", !.previous = pointer, !.built = Requirements(pointer)]
<1>1. MayBecome(t, o)
  <2>1. op[t].kind \notin {"switch", "update"}
    BY NameAssumption DEF StoreInv, LockHeld, Switching, rebuild_environment
  <2>. QED  BY <2>1 DEF StoreInv, StoreTypes, Fields, MayBecome
<1>. QED  BY <1>1, CacheStays, QuietStep DEF rebuild_environment, Becomes, StoreInv, StoreTypes

\* While the environment is built a switch keeps its release and the lock.
LEMMA GoingOn ==
    ASSUME StoreInv, NEW t \in Threads, NEW step \in {"swap out", "swap in"}
    PROVE  lock' = lock => MayBecome(t, [op[t] EXCEPT !.step = step])
  BY DEF StoreInv, StoreTypes, Fields, MayBecome, Switching

LEMMA EndKeeps ==
    ASSUME StoreInv, NEW t \in Threads, NEW done \in BOOLEAN, Ends(t, done), Release(t),
           UNCHANGED <<catalog, disk, pointer>>
    PROVE  StoreInv'
<1>1. MayBecome(t, NoOp)
  BY FS_EmptySet DEF MayBecome, NoOp, Fields
<1>2. boot' \in {"off", "running", "up"} /\ marker' \in BOOLEAN
  BY DEF Ends, Marked, StoreInv, StoreTypes
<1>. QED  BY <1>1, <1>2, CacheStays, QuietStep DEF Ends, Release, StoreInv, StoreTypes

LEMMA AfterEnvKeeps ==
    ASSUME StoreInv, NEW t \in Threads, AfterEnv(t), UNCHANGED <<catalog, disk, pointer>>
    PROVE  StoreInv'
<1>1. CASE op[t].kind \in {"switch", "update"}
  <2>. DEFINE o == [op[t] EXCEPT !.step = "switch"]
  <2>1. MayBecome(t, o)
    BY <1>1 DEF AfterEnv, StoreInv, StoreTypes, Fields, MayBecome, Switching
  <2>. QED  BY <1>1, <2>1, CacheStays, QuietStep DEF AfterEnv, Goes, Becomes, StoreInv, StoreTypes
<1>2. CASE op[t].kind \notin {"switch", "update"}
  BY <1>2, EndKeeps DEF AfterEnv
<1>. QED  BY <1>1, <1>2

LEMMA GoesKeeps ==
    ASSUME StoreInv, NEW t \in Threads, NEW step \in {"swap out", "swap in"}, Goes(t, step),
           UNCHANGED <<catalog, disk, pointer, lock>>
    PROVE  StoreInv'
<1>. DEFINE o == [op[t] EXCEPT !.step = step]
<1>1. MayBecome(t, o)
  BY GoingOn
<1>. QED  BY <1>1, CacheStays, QuietStep DEF Goes, Becomes, StoreInv, StoreTypes

LEMMA EnvironmentKeeps ==
    ASSUME StoreInv, NEW t \in Threads, BuildEnv(t) \/ BuildFails(t) \/ SwapOut(t) \/ SwapIn(t)
    PROVE  StoreInv'
<1>1. CASE BuildEnv(t)
  BY <1>1, AfterEnvKeeps, GoesKeeps DEF BuildEnv
<1>2. CASE BuildFails(t)
  BY <1>2, EndKeeps DEF BuildFails
<1>3. CASE SwapOut(t)
  BY <1>3, GoesKeeps DEF SwapOut
<1>4. CASE SwapIn(t)
  BY <1>4, AfterEnvKeeps, EndKeeps DEF SwapIn
<1>. QED  BY <1>1, <1>2, <1>3, <1>4

\* With the lock, to a release that is in the cache then.
LEMMA SwitchKeeps ==
    ASSUME StoreInv, NEW t \in Threads, NEW kind \in {"switch", "update"}, NEW r \in installed_plugins',
           Switch(t, kind, r), lock = Free, CacheKept, UNCHANGED <<catalog, pointer>>
    PROVE  StoreInv'
<1>. DEFINE o == [NoOp EXCEPT !.kind = kind, !.step = "build", !.release = r, !.previous = pointer,
                              !.built = Requirements([pointer EXCEPT ![r.id] = r])]
<1>1. /\ DOMAIN o = Fields /\ o.step = "build" /\ o.kind = kind /\ o.release = r
      /\ o.before = {} /\ o.boot = FALSE
  BY DEF NoOp, Fields
<1>2. op' = [op EXCEPT ![t] = o] /\ lock' = t /\ UNCHANGED <<boot, marker>>
  BY DEF Switch, Becomes
<1>. HIDE DEF o
<1>3. op'[t] = o /\ (\A u \in Threads : u # t => op'[u] = op[u]) /\ DOMAIN op' = Threads
  BY <1>2 DEF StoreInv, StoreTypes
<1>4. \A u \in Threads : ~Switching(u) /\ ~Removing(u)
  BY NameAssumption DEF StoreInv, LockHeld
<1>5. StoreTypes'
  BY <1>1, <1>2, <1>3, FS_EmptySet DEF StoreInv, StoreTypes, CacheKept, Active
<1>6. \A u \in Threads : ~Removing(u)' /\ (Switching(u)' => u = t)
  BY <1>1, <1>3, <1>4 DEF Switching, Removing, At
<1>7. LockHeld' /\ ReleaseStands'
  BY <1>1, <1>2, <1>3, <1>6 DEF LockHeld, ReleaseStands, Removing
<1>8. ActiveIsInstalled'
  BY DEF StoreInv, ActiveIsInstalled, Active, CacheKept
<1>. QED  BY <1>5, <1>7, <1>8 DEF StoreInv

LEMMA SwitchActivationKeeps ==
    ASSUME StoreInv, NEW t \in Threads, switch_activation(t)
    PROVE  StoreInv'
<1>1. CacheKept /\ installed_plugins' = installed_plugins
  BY CacheStays DEF switch_activation, installed_plugins, Validates
<1>. QED  BY <1>1, SwitchKeeps DEF switch_activation

LEMMA UpdateCuratedKeeps ==
    ASSUME StoreInv, NEW t \in Threads, update_curated(t)
    PROVE  StoreInv'
<1>1. PICK r \in catalog : disk' = Installed(r) /\ disk'[r] # "torn" /\ Switch(t, "update", r)
  BY DEF update_curated
<1>2. r \in Releases
  BY <1>1 DEF StoreInv, StoreTypes
<1>3. CacheKept
  BY <1>1, <1>2, CacheGrows
<1>4. r \in installed_plugins'
  BY <1>1, <1>2 DEF StoreInv, StoreTypes, Installed, installed_plugins, Validates
<1>. QED  BY <1>1, <1>3, <1>4, SwitchKeeps DEF update_curated

\* A pointer is written to a release that is in the cache, while nobody else has the lock.
LEMMA PointerStep ==
    ASSUME StoreInv, NEW t \in Threads, NEW o, op' = [op EXCEPT ![t] = o],
           DOMAIN o = Fields, o.before \in SUBSET Releases, IsFiniteSet(o.before), o.boot \in BOOLEAN,
           o.step \notin {"switch", "unlink", "remove"}, o.kind \notin {"switch", "update"},
           NEW r \in installed_plugins, pointer' = [pointer EXCEPT ![r.id] = r],
           lock \in {Free, t}, lock' = Free,
           boot' \in {"off", "running", "up"}, marker' \in BOOLEAN,
           UNCHANGED <<catalog, disk>>
    PROVE  StoreInv'
<1>1. op'[t] = o /\ (\A u \in Threads : u # t => op'[u] = op[u]) /\ DOMAIN op' = Threads
  BY DEF StoreInv, StoreTypes
<1>2. r \in Releases /\ r.id \in Ids
  BY DEF installed_plugins, Ids
<1>3. /\ pointer' \in [Ids -> Releases \cup {None}] /\ pointer'[r.id] = r
      /\ \A i \in Ids : i # r.id => pointer'[i] = pointer[i]
  BY <1>2 DEF StoreInv, StoreTypes
<1>4. \A i \in Active' : pointer'[i].id = i /\ pointer'[i] \in installed_plugins
  BY <1>2, <1>3 DEF StoreInv, StoreTypes, ActiveIsInstalled, Active
<1>5. StoreTypes'
  BY <1>1, <1>3, <1>4 DEF StoreInv, StoreTypes, Kept
<1>6. \A u \in Threads : ~Switching(u)' /\ ~Removing(u)'
  BY <1>1, NameAssumption DEF StoreInv, LockHeld, Switching, Removing, At
<1>7. LockHeld' /\ ReleaseStands'
  BY <1>6 DEF LockHeld, ReleaseStands, Removing
<1>8. ActiveIsInstalled'
  BY <1>4 DEF ActiveIsInstalled, installed_plugins, Validates
<1>. QED  BY <1>5, <1>7, <1>8 DEF StoreInv

LEMMA SwitchPointerKeeps ==
    ASSUME StoreInv, NEW t \in Threads, SwitchPointer(t)
    PROVE  StoreInv'
<1>1. op[t].release \in installed_plugins /\ lock = t /\ lock' = Free
  BY DEF SwitchPointer, Release, StoreInv, LockHeld, ReleaseStands, Switching
<1>2. /\ DOMAIN NoOp = Fields /\ NoOp.before = {} /\ NoOp.boot = FALSE
      /\ NoOp.step = "idle" /\ NoOp.kind = "none"
  BY DEF NoOp, Fields
<1>3. boot' \in {"off", "running", "up"} /\ marker' \in BOOLEAN /\ op' = [op EXCEPT ![t] = NoOp]
  BY DEF SwitchPointer, Ends, Marked, StoreInv, StoreTypes
<1>. HIDE DEF NoOp
<1>. QED  BY <1>1, <1>2, <1>3, FS_EmptySet, PointerStep DEF SwitchPointer

LEMMA SwitchFailsKeeps ==
    ASSUME StoreInv, NEW t \in Threads, SwitchFails(t)
    PROVE  StoreInv'
<1>. DEFINE o == [op[t] EXCEPT !.kind = "back out", !.step = "build", !.built = Requirements(op[t].previous)]
<1>1. MayBecome(t, o)
  BY DEF StoreInv, StoreTypes, Fields, MayBecome
<1>. QED  BY <1>1, CacheStays, QuietStep DEF SwitchFails, Becomes, StoreInv, StoreTypes

LEMMA DeactivateKeeps ==
    ASSUME StoreInv, NEW t \in Threads, deactivate(t)
    PROVE  StoreInv'
<1>1. MayBecome(t, Rebuilding(op[t]))
  BY FS_EmptySet DEF StoreInv, StoreTypes, Fields, MayBecome, Rebuilding, NoOp
<1>2. /\ pointer' \in [Ids -> Releases \cup {None}]
      /\ \A i \in Ids : pointer'[i] = pointer[i] \/ pointer'[i] = None
  BY DEF deactivate, Active, StoreInv, StoreTypes
<1>. QED  BY <1>1, <1>2, CacheStays, QuietStep DEF deactivate, Becomes, StoreInv, StoreTypes

LEMMA ApplyingIsQuiet ==
    ASSUME StoreInv, NEW t \in Threads, NEW e, NEW b \in BOOLEAN
    PROVE  /\ MayBecome(t, Applying(e))
           /\ MayBecome(t, [Applying(e) EXCEPT !.boot = b])
  BY FS_EmptySet DEF Applying, NoOp, Fields, MayBecome

LEMMA ExperienceKeeps ==
    ASSUME StoreInv, NEW t \in Threads, activate_experience(t)
    PROVE  StoreInv'
  BY ApplyingIsQuiet, CacheStays, QuietStep DEF activate_experience, Becomes, StoreInv, StoreTypes

LEMMA NobodyWrites ==
    ASSUME StoreInv, lock = Free
    PROVE  \A t \in Threads : ~Switching(t) /\ ~Removing(t)
  BY NameAssumption DEF StoreInv, LockHeld

LEMMA InstallCuratedKeeps ==
    ASSUME StoreInv, NEW t \in Threads, install_curated(t)
    PROVE  StoreInv'
<1>1. op[t].kind \notin {"switch", "update"}
  BY NobodyWrites DEF install_curated, Switching
<1>2. CASE op[t].lacking = <<>>
  <2>1. MayBecome(t, [op[t] EXCEPT !.step = "others"])
    BY <1>1 DEF StoreInv, StoreTypes, Fields, MayBecome
  <2>. QED  BY <1>2, <2>1, CacheStays, QuietStep DEF install_curated, Goes, Becomes, StoreInv, StoreTypes
<1>3. CASE op[t].lacking # <<>>
  <2>. DEFINE matches == Head(op[t].lacking) \cap catalog
              o == [op[t] EXCEPT !.lacking = Tail(@)]
  <2>1. CASE matches = {}
    BY <1>3, <2>1, EndKeeps DEF install_curated, Release, StoreInv, StoreTypes
  <2>2. CASE matches # {}
    <3>1. PICK r \in matches : disk' = Installed(r)
      BY <1>3, <2>2 DEF install_curated
    <3>2. CacheKept
      BY <3>1, CacheGrows DEF StoreInv, StoreTypes
    <3>3. MayBecome(t, o)
      BY <1>1 DEF StoreInv, StoreTypes, Fields, MayBecome, install_curated, At
    <3>4. op' = [op EXCEPT ![t] = o] /\ UNCHANGED <<boot, marker>>
      BY <1>3, <2>2 DEF install_curated, Becomes
    <3>. HIDE DEF o
    <3>. QED  BY <3>2, <3>3, <3>4, QuietStep DEF install_curated, StoreInv, StoreTypes
  <2>. QED  BY <2>1, <2>2
<1>. QED  BY <1>2, <1>3

LEMMA DeactivateOthersKeeps ==
    ASSUME StoreInv, NEW t \in Threads, DeactivateOthers(t)
    PROVE  StoreInv'
<1>1. CASE UNCHANGED <<op, boot, marker>> /\ \E i \in Active : pointer' = [pointer EXCEPT ![i] = None]
  <2>1. /\ pointer' \in [Ids -> Releases \cup {None}]
        /\ \A i \in Ids : pointer'[i] = pointer[i] \/ pointer'[i] = None
    BY <1>1 DEF Active, StoreInv, StoreTypes
  <2>2. \A i \in Active' : i \in Active /\ pointer'[i] = pointer[i]
    BY <2>1 DEF Active
  <2>3. UNCHANGED <<catalog, disk, lock, op, boot, marker>>
    BY <1>1 DEF DeactivateOthers
  <2>4. StoreTypes' /\ LockHeld'
    BY <2>1, <2>2, <2>3 DEF StoreInv, StoreTypes, Kept, LockHeld, Switching, Removing, At
  <2>5. installed_plugins' = installed_plugins
    BY <2>3 DEF installed_plugins, Validates
  <2>6. ReleaseStands'
    <3>1. \A u \in Threads : (Switching(u)' <=> Switching(u)) /\ (Removing(u)' <=> Removing(u))
                             /\ (At(u, "remove")' <=> At(u, "remove")) /\ op'[u] = op[u]
      BY <2>3 DEF Switching, Removing, At
    <3>. QED  BY <2>2, <2>5, <3>1 DEF StoreInv, ReleaseStands
  <2>7. ActiveIsInstalled'
    BY <2>2, <2>5 DEF StoreInv, ActiveIsInstalled
  <2>. QED  BY <2>4, <2>6, <2>7 DEF StoreInv
<1>2. CASE Goes(t, "activate") /\ UNCHANGED pointer
  <2>1. MayBecome(t, [op[t] EXCEPT !.step = "activate"])
    BY NobodyWrites DEF DeactivateOthers, StoreInv, StoreTypes, Fields, MayBecome, Switching
  <2>. QED  BY <1>2, <2>1, CacheStays, QuietStep DEF DeactivateOthers, Goes, Becomes, StoreInv, StoreTypes
<1>. QED  BY <1>1, <1>2 DEF DeactivateOthers

LEMMA ActivateKeeps ==
    ASSUME StoreInv, NEW t \in Threads, activate(t)
    PROVE  StoreInv'
<1>1. CASE op[t].rest = <<>>
  <2>1. MayBecome(t, Rebuilding(op[t]))
    BY FS_EmptySet DEF StoreInv, StoreTypes, Fields, MayBecome, Rebuilding, NoOp
  <2>. QED  BY <1>1, <2>1, CacheStays, QuietStep DEF activate, Becomes, StoreInv, StoreTypes
<1>2. CASE op[t].rest # <<>>
  <2>. DEFINE found == Selected(Head(op[t].rest))
              r == Newest(found)
              o == [op[t] EXCEPT !.rest = Tail(@)]
  <2>1. CASE found = {}
    BY <1>2, <2>1, EndKeeps DEF activate, Release, StoreInv, StoreTypes
  <2>2. CASE found # {}
    <3>1. found \in SUBSET Kept /\ found \in SUBSET installed_plugins
      BY DEF Selected, installed_plugins, Validates, Kept
    <3>2. r \in installed_plugins
      BY <2>2, <3>1, NewestIsThere, FS_Subset DEF StoreInv, StoreTypes, Kept
    <3>3. pointer' = [pointer EXCEPT ![r.id] = r] /\ op' = [op EXCEPT ![t] = o]
          /\ UNCHANGED <<boot, marker>>
      BY <1>2, <2>2 DEF activate, Becomes
    <3>4. /\ DOMAIN o = Fields /\ o.before = op[t].before /\ o.boot = op[t].boot
          /\ o.step = op[t].step /\ o.kind = op[t].kind
      BY DEF StoreInv, StoreTypes, Fields
    <3>5. o.step \notin {"switch", "unlink", "remove"} /\ o.kind \notin {"switch", "update"}
      BY <3>4, NobodyWrites DEF activate, At, Switching
    <3>. HIDE DEF o, r
    <3>. QED  BY <3>2, <3>3, <3>4, <3>5, PointerStep DEF activate, StoreInv, StoreTypes
  <2>. QED  BY <2>1, <2>2
<1>. QED  BY <1>1, <1>2

LEMMA HubKeeps ==
    ASSUME StoreInv, NEW t \in Threads,
           sync_hub(t) \/ PublishSnapshot(t) \/ SaveExperiences(t) \/ SyncFails(t)
    PROVE  StoreInv'
<1>1. ASSUME NEW step \in {"save", "synced"}, lock' = lock
      PROVE  MayBecome(t, [op[t] EXCEPT !.step = step])
  BY <1>1 DEF StoreInv, StoreTypes, Fields, MayBecome, Switching
<1>2. CASE sync_hub(t)
  <2>1. MayBecome(t, Syncing(NoOp)) /\ MayBecome(t, Syncing(op[t]))
    BY DEF StoreInv, StoreTypes, Fields, MayBecome, Syncing, NoOp
  <2>. QED  BY <1>2, <2>1, FS_EmptySet, CacheStays, QuietStep DEF sync_hub, Becomes, StoreInv, StoreTypes
<1>3. CASE PublishSnapshot(t)
  <2>1. catalog' \in SUBSET Releases /\ IsFiniteSet(catalog')
    BY <1>3, StoreAssumption DEF PublishSnapshot, ValidatedSnapshot
  <2>. QED  BY <1>1, <1>3, <2>1, CacheStays, QuietStep DEF PublishSnapshot, Goes, Becomes, StoreInv, StoreTypes
<1>4. CASE SaveExperiences(t)
  <2>1. catalog' \in SUBSET Releases /\ IsFiniteSet(catalog')
    BY <1>4 DEF SaveExperiences, StoreInv, StoreTypes
  <2>2. MayBecome(t, NoOp)
    BY FS_EmptySet DEF MayBecome, NoOp, Fields
  <2>3. CASE op[t].boot
    BY <1>1, <1>4, <2>1, <2>3, CacheStays, QuietStep
       DEF SaveExperiences, Goes, Becomes, StoreInv, StoreTypes
  <2>4. CASE ~op[t].boot
    BY <1>4, <2>1, <2>2, <2>4, CacheStays, QuietStep
       DEF SaveExperiences, Ends, Marked, StoreInv, StoreTypes
  <2>. QED  BY <2>3, <2>4
<1>5. CASE SyncFails(t)
  BY <1>1, <1>5, CacheStays, QuietStep DEF SyncFails, Goes, Becomes, StoreInv, StoreTypes
<1>. QED  BY <1>2, <1>3, <1>4, <1>5

\* The process comes up, or goes through the first boot.
LEMMA BootKeeps ==
    ASSUME StoreInv, NEW t \in Threads, Boot(t) \/ ApplyDefault(t)
    PROVE  StoreInv'
<1>1. CASE Boot(t) /\ marker
  BY <1>1, OnlyEnvironment DEF Boot
<1>2. CASE Boot(t) /\ ~marker
  <2>. DEFINE o == [NoOp EXCEPT !.kind = "boot", !.step = "sync", !.boot = TRUE]
  <2>1. MayBecome(t, o)
    BY FS_EmptySet DEF MayBecome, NoOp, Fields
  <2>. QED  BY <1>2, <2>1, CacheStays, QuietStep DEF Boot, StoreInv, StoreTypes
<1>3. CASE ApplyDefault(t)
  <2>1. CASE Ends(t, FALSE)
    <3>1. MayBecome(t, NoOp)
      BY FS_EmptySet DEF MayBecome, NoOp, Fields
    <3>2. boot' \in {"off", "running", "up"} /\ marker' \in BOOLEAN /\ op' = [op EXCEPT ![t] = NoOp]
      BY <2>1 DEF Ends, Marked, StoreInv, StoreTypes
    <3>. QED  BY <1>3, <3>1, <3>2, CacheStays, QuietStep DEF ApplyDefault, StoreInv, StoreTypes
  <2>2. CASE Becomes(t, [Applying(Default) EXCEPT !.boot = TRUE])
    BY <1>3, <2>2, ApplyingIsQuiet, CacheStays, QuietStep DEF ApplyDefault, Becomes, StoreInv, StoreTypes
  <2>. QED  BY <1>3, <2>1, <2>2 DEF ApplyDefault
<1>. QED  BY <1>1, <1>2, <1>3

\* Only a tree that nothing points to is left in part.
LEMMA CrashKeeps ==
    ASSUME StoreInv, Crash
    PROVE  StoreInv'
<1>. DEFINE removing == {op[t].release : t \in {u \in Threads : At(u, "remove")}}
<1>1. \A r \in removing : r \in installed_plugins /\ \A i \in Active : pointer[i] # r
  BY DEF StoreInv, ReleaseStands, Removing
<1>2. PICK left \in {"whole", "torn", "torn, looks whole"} :
        disk' = [r \in Releases |-> IF r \in removing THEN left ELSE disk[r]]
  BY DEF Crash
<1>. HIDE DEF removing
<1>3. disk' \in [Releases -> {"absent", "whole", "torn", "torn, looks whole"}]
  BY <1>2 DEF StoreInv, StoreTypes
<1>4. op' = [t \in Threads |-> NoOp]
  BY DEF Crash
<1>5. IsFiniteSet(Kept')
  <2>1. Kept' \in SUBSET Kept
    BY <1>1, <1>2 DEF Kept, installed_plugins, Validates
  <2>. QED  BY <2>1, FS_Subset DEF StoreInv, StoreTypes
<1>6. StoreTypes'
  <2>1. /\ DOMAIN NoOp = Fields /\ NoOp.before = {} /\ NoOp.boot = FALSE
    BY DEF NoOp, Fields
  <2>. HIDE DEF NoOp
  <2>2. DOMAIN op' = Threads /\ \A t \in Threads : op'[t] = NoOp
    BY <1>4
  <2>3. UNCHANGED <<catalog, pointer, marker>> /\ lock' = Free /\ boot' = "off"
    BY DEF Crash
  <2>. QED  BY <1>3, <1>5, <2>1, <2>2, <2>3, FS_EmptySet DEF StoreInv, StoreTypes, Active
<1>7. \A t \in Threads : ~Switching(t)' /\ ~Removing(t)'
  BY <1>4 DEF Switching, Removing, At, NoOp
<1>8. LockHeld' /\ ReleaseStands'
  BY <1>7 DEF LockHeld, ReleaseStands, Removing
<1>9. ActiveIsInstalled'
  BY <1>1, <1>2 DEF StoreInv, StoreTypes, ActiveIsInstalled, Crash, Active, installed_plugins, Validates
<1>. QED  BY <1>6, <1>8, <1>9 DEF StoreInv
LEMMA StoreStep == StoreInv /\ [Next]_vars => StoreInv'
<1>. SUFFICES ASSUME StoreInv, [Next]_vars  PROVE StoreInv'
  OBVIOUS
<1>1. ASSUME NEW t \in Threads,
             install_zip(t) \/ uninstall(t) \/ UnlinkPointer(t) \/ RemoveTree(t)
      PROVE  StoreInv'
  BY <1>1, InstallKeeps, UninstallKeeps, UnlinkKeeps, RemoveKeeps
<1>2. ASSUME NEW t \in Threads,
             \/ rebuild_environment(t) \/ BuildEnv(t) \/ BuildFails(t) \/ SwapOut(t) \/ SwapIn(t)
      PROVE  StoreInv'
  BY <1>2, RebuildKeeps, EnvironmentKeeps
<1>3. ASSUME NEW t \in Threads,
             \/ switch_activation(t) \/ update_curated(t) \/ SwitchPointer(t) \/ SwitchFails(t) \/ deactivate(t)
      PROVE  StoreInv'
  BY <1>3, SwitchActivationKeeps, UpdateCuratedKeeps, SwitchPointerKeeps, SwitchFailsKeeps, DeactivateKeeps
<1>4. ASSUME NEW t \in Threads,
             activate_experience(t) \/ install_curated(t) \/ DeactivateOthers(t) \/ activate(t)
      PROVE  StoreInv'
  BY <1>4, ExperienceKeeps, InstallCuratedKeeps, DeactivateOthersKeeps, ActivateKeeps
<1>5. ASSUME NEW t \in Threads,
             \/ sync_hub(t) \/ PublishSnapshot(t) \/ SaveExperiences(t) \/ SyncFails(t)
             \/ Boot(t) \/ ApplyDefault(t)
      PROVE  StoreInv'
  BY <1>5, HubKeeps, BootKeeps
<1>6. CASE Crash
  BY <1>6, CrashKeeps
<1>7. CASE UNCHANGED vars
  BY <1>7, OnlyEnvironment DEF vars, StoreInv, StoreTypes
<1>. QED  BY <1>1, <1>2, <1>3, <1>4, <1>5, <1>6, <1>7 DEF Next

\* The invariant holds throughout.
THEOREM StoreInvariant == Spec => []StoreInv
  BY StoreInit, StoreStep, PTL DEF Spec

\* No order of requests, and no death between their steps, leaves a pointer to a
\* package that is gone or does not validate (uninstall, switch_activation).
THEOREM NoDanglingPointer == Spec => []ActiveIsInstalled
<1>1. StoreInv => ActiveIsInstalled
  BY DEF StoreInv
<1>. QED  BY <1>1, StoreInvariant, PTL

\* What the inventory offers as an update, update_curated takes.
THEOREM NoOfferRefused == Spec => []OfferedUpdateIsTaken
<1>1. StoreInv => OfferedUpdateIsTaken
  BY OfferIsTaken DEF StoreInv
<1>. QED  BY <1>1, StoreInvariant, PTL

-----------------------------------------------------------------------------
(* The first boot *)

\* The k-th plugin of the default Experience is active.
Found(k, p) == \E i \in Ids : p[i] # None /\ p[i] \in Default[k]

\* What is done when the first boot is at a step.
Ready(o, p) ==
    /\ o.step \in {"install", "others"} => o.rest = Default
    /\ o.step = "activate" =>
          /\ o.rest \in Seq(SUBSET Releases) /\ Len(o.rest) <= Len(Default)
          /\ \A k \in 1..Len(o.rest) : o.rest[k] = Default[Len(Default) - Len(o.rest) + k]
          /\ \A k \in 1..Len(Default) - Len(o.rest) : Found(k, p)
    /\ o.step \in {"rebuild", "build", "swap out", "swap in"} =>
          \A k \in DOMAIN Default : Found(k, p)
    /\ o.step \in {"build", "swap out", "swap in"} => o.built = Requirements(p)

BootSteps == {"sync", "publish", "save", "synced", "install", "others", "activate",
              "rebuild", "build", "swap out", "swap in"}

BootKinds == {"boot", "sync", "experience", "rebuild"}

\* No request is served before the first boot is over, and none waits for a hub.
BootInv ==
    /\ boot = "off" => \A t \in Threads : At(t, "idle")
    /\ boot = "running" => \A t, u \in Threads : At(t, "idle") \/ At(u, "idle") \/ t = u
    /\ \A t \in Threads :
          op[t].boot => /\ boot = "running"
                        /\ op[t].step \in BootSteps /\ op[t].kind \in BootKinds
                        /\ Ready(op[t], pointer)
    /\ \A t \in Threads : op[t].step \in {"sync", "synced"} => op[t].boot

LEMMA BootInit == Init => BootInv
  BY DEF Init, BootInv, At, NoOp

\* While one thread boots the others are idle.
LEMMA OthersIdle ==
    ASSUME StoreTypes, BootInv, NEW t \in Threads, boot = "up" \/ ~At(t, "idle")
    PROVE  \A u \in Threads : u # t /\ op[u].boot => FALSE
  BY DEF BootInv, At, BootSteps

\* A step of a thread that does not boot.
LEMMA RequestBootKeeps ==
    ASSUME StoreTypes, BootInv, NEW t \in Threads, NEW o, op' = [op EXCEPT ![t] = o],
           boot = "up" \/ ~At(t, "idle"), ~op[t].boot, o.boot = FALSE, boot' = boot,
           o.step \notin {"sync", "synced"}
    PROVE  BootInv'
<1>1. op'[t] = o /\ (\A u \in Threads : u # t => op'[u] = op[u])
  BY DEF StoreTypes
<1>2. \A u \in Threads : ~op'[u].boot
  BY <1>1, OthersIdle
<1>3. boot = "running" => \A u \in Threads : u # t => At(u, "idle")'
  BY <1>1 DEF BootInv, At
<1>4. \A u \in Threads : op'[u].step \notin {"sync", "synced"}
  BY <1>1, OthersIdle DEF BootInv
<1>. QED  BY <1>2, <1>3, <1>4 DEF BootInv

\* A step of the thread that does.
LEMMA BootGoesOn ==
    ASSUME StoreTypes, BootInv, NEW t \in Threads, NEW o, op' = [op EXCEPT ![t] = o],
           op[t].boot, o.boot, o.step \in BootSteps, o.kind \in BootKinds, Ready(o, pointer'),
           boot' = boot
    PROVE  BootInv'
<1>1. op'[t] = o /\ (\A u \in Threads : u # t => op'[u] = op[u])
  BY DEF StoreTypes
<1>2. boot = "running" /\ ~At(t, "idle")
  BY DEF BootInv, At, BootSteps
<1>3. \A u \in Threads : u # t => At(u, "idle")' /\ ~op'[u].boot
  BY <1>1, <1>2, OthersIdle DEF BootInv, At
<1>. QED  BY <1>1, <1>2, <1>3 DEF BootInv

LEMMA EndsBoot ==
    ASSUME StoreTypes, BootInv, NEW t \in Threads, NEW done, Ends(t, done), ~At(t, "idle")
    PROVE  BootInv'
<1>1. /\ op'[t] = NoOp /\ (\A u \in Threads : u # t => op'[u] = op[u])
      /\ NoOp.boot = FALSE /\ NoOp.step = "idle"
  BY DEF StoreTypes, Ends, NoOp
<1>2. \A u \in Threads : ~op'[u].boot
  BY <1>1, OthersIdle
<1>3. boot = "running" => \A u \in Threads : At(u, "idle")'
  BY <1>1 DEF BootInv, At
<1>4. boot # "off" /\ (boot' = "up" \/ boot' = boot)
  BY DEF Ends, BootInv
<1>5. \A u \in Threads : op'[u].step \notin {"sync", "synced"}
  BY <1>1, OthersIdle DEF BootInv
<1>. QED  BY <1>2, <1>3, <1>4, <1>5 DEF BootInv

LEMMA SameBoot ==
    ASSUME BootInv, UNCHANGED <<pointer, op, boot>>
    PROVE  BootInv'
  BY DEF BootInv, At

\* What requests begin, and what only they do.
LEMMA RequestsBootKeep ==
    ASSUME StoreTypes, BootInv, NEW t \in Threads,
           \/ uninstall(t) \/ UnlinkPointer(t) \/ RemoveTree(t)
           \/ switch_activation(t) \/ update_curated(t) \/ SwitchFails(t)
           \/ deactivate(t) \/ activate_experience(t)
    PROVE  BootInv'
<1>1. Idle(t) => ~op[t].boot /\ boot = "up"
  BY DEF Idle, BootInv
<1>2. DOMAIN op[t] = Fields /\ NoOp.boot = FALSE /\ DOMAIN NoOp = Fields
  BY DEF StoreTypes, NoOp, Fields
<1>3. CASE uninstall(t)
  <2>1. PICK r : Becomes(t, [NoOp EXCEPT !.kind = "uninstall", !.step = "unlink", !.release = r])
    BY <1>3 DEF uninstall
  <2>2. /\ [NoOp EXCEPT !.kind = "uninstall", !.step = "unlink", !.release = r].boot = FALSE
        /\ [NoOp EXCEPT !.kind = "uninstall", !.step = "unlink", !.release = r].step = "unlink"
    BY DEF NoOp
  <2>. QED  BY <1>1, <1>3, <2>1, <2>2, RequestBootKeeps DEF uninstall, Becomes
<1>4. CASE UnlinkPointer(t)
  <2>. DEFINE o == [op[t] EXCEPT !.step = "remove",
                                 !.kind = IF pointer' # pointer THEN "deactivate" ELSE op[t].kind]
  <2>1. ~At(t, "idle") /\ ~op[t].boot
    BY <1>4 DEF UnlinkPointer, At, BootInv, BootSteps
  <2>2. o.boot = op[t].boot /\ o.step = "remove" /\ op[t].boot \in BOOLEAN /\ op' = [op EXCEPT ![t] = o] /\ boot' = boot
    BY <1>2, <1>4 DEF UnlinkPointer, Becomes, Fields, StoreTypes
  <2>. HIDE DEF o
  <2>. QED  BY <2>1, <2>2, RequestBootKeeps
<1>5. CASE RemoveTree(t)
  <2>. DEFINE o == IF op[t].kind = "deactivate" THEN Rebuilding(op[t]) ELSE NoOp
  <2>1. ~At(t, "idle") /\ ~op[t].boot /\ op[t].boot \in BOOLEAN
    BY <1>5 DEF RemoveTree, At, BootInv, BootSteps, StoreTypes
  <2>2. o.boot = FALSE /\ o.step \in {"rebuild", "idle"}
    BY <2>1 DEF Rebuilding, NoOp
  <2>3. op' = [op EXCEPT ![t] = o] /\ boot' = boot
    BY <1>5 DEF RemoveTree, Becomes
  <2>. HIDE DEF o
  <2>. QED  BY <2>1, <2>2, <2>3, RequestBootKeeps
<1>6. ASSUME NEW r, NEW kind, Idle(t), Switch(t, kind, r)
      PROVE  BootInv'
  <2>. DEFINE o == [NoOp EXCEPT !.kind = kind, !.step = "build", !.release = r, !.previous = pointer,
                                !.built = Requirements([pointer EXCEPT ![r.id] = r])]
  <2>1. o.boot = FALSE /\ o.step = "build"
    BY DEF NoOp
  <2>2. op' = [op EXCEPT ![t] = o] /\ boot' = boot
    BY <1>6 DEF Switch, Becomes
  <2>. HIDE DEF o
  <2>. QED  BY <1>1, <1>6, <2>1, <2>2, RequestBootKeeps
<1>7. CASE switch_activation(t) \/ update_curated(t)
  BY <1>6, <1>7 DEF switch_activation, update_curated
<1>8. CASE SwitchFails(t)
  <2>. DEFINE o == [op[t] EXCEPT !.kind = "back out", !.step = "build", !.built = Requirements(op[t].previous)]
  <2>1. ~At(t, "idle") /\ ~op[t].boot /\ op[t].boot \in BOOLEAN
    BY <1>8 DEF SwitchFails, At, BootInv, BootSteps, StoreTypes
  <2>2. o.boot = FALSE /\ o.step = "build"
    BY <1>2, <2>1 DEF Fields
  <2>3. op' = [op EXCEPT ![t] = o] /\ boot' = boot
    BY <1>8 DEF SwitchFails, Becomes
  <2>. HIDE DEF o
  <2>. QED  BY <2>1, <2>2, <2>3, RequestBootKeeps
<1>9. CASE deactivate(t)
  <2>1. /\ Rebuilding(op[t]).boot = op[t].boot /\ op[t].boot \in BOOLEAN
        /\ Rebuilding(op[t]).step = "rebuild"
    BY DEF Rebuilding, NoOp, StoreTypes
  <2>. QED  BY <1>1, <1>9, <2>1, RequestBootKeeps DEF deactivate, Becomes
<1>10. CASE activate_experience(t)
  <2>1. \A e : Applying(e).boot = FALSE /\ Applying(e).step = "install"
    BY DEF Applying, NoOp
  <2>. QED  BY <1>1, <1>10, <2>1, RequestBootKeeps DEF activate_experience, Becomes
<1>. QED  BY <1>3, <1>4, <1>5, <1>7, <1>8, <1>9, <1>10

\* The environment is built of the pointers as they stay.
LEMMA EnvironmentBootKeeps ==
    ASSUME StoreTypes, BootInv, NEW t \in Threads,
           \/ rebuild_environment(t) \/ BuildEnv(t) \/ BuildFails(t) \/ SwapOut(t) \/ SwapIn(t) \/ SwitchPointer(t)
    PROVE  BootInv'
<1>1. ~At(t, "idle") /\ DOMAIN op[t] = Fields /\ op[t].boot \in BOOLEAN
  BY DEF StoreTypes, At, rebuild_environment, BuildEnv, BuildFails, SwapOut, SwapIn, SwitchPointer
<1>2. ASSUME NEW step \in {"swap out", "swap in", "switch"}, Goes(t, step), UNCHANGED pointer,
             At(t, "build") \/ At(t, "swap out") \/ At(t, "swap in"),
             step = "switch" => op[t].kind \in {"switch", "update"}
      PROVE  BootInv'
  <2>. DEFINE o == [op[t] EXCEPT !.step = step]
  <2>1. /\ o.step = step /\ o.kind = op[t].kind /\ o.boot = op[t].boot
        /\ o.built = op[t].built /\ o.rest = op[t].rest
    BY <1>1 DEF Fields
  <2>2. op' = [op EXCEPT ![t] = o] /\ boot' = boot
    BY <1>2 DEF Goes, Becomes
  <2>. HIDE DEF o
  <2>3. CASE op[t].boot
    <3>1. Ready(o, pointer') /\ step \in BootSteps
      BY <1>2, <2>1, <2>3 DEF BootInv, Ready, At, BootSteps, BootKinds
    <3>. QED  BY <2>1, <2>2, <2>3, <3>1, BootGoesOn DEF BootInv
  <2>4. CASE ~op[t].boot
    BY <1>1, <2>1, <2>2, <2>4, RequestBootKeeps
  <2>. QED  BY <2>3, <2>4
<1>3. ASSUME AfterEnv(t), UNCHANGED pointer, At(t, "build") \/ At(t, "swap in")
      PROVE  BootInv'
  BY <1>1, <1>2, <1>3, EndsBoot DEF AfterEnv
<1>4. CASE rebuild_environment(t)
  <2>. DEFINE o == [op[t] EXCEPT !.step = "build", !.previous = pointer, !.built = Requirements(pointer)]
  <2>1. /\ o.step = "build" /\ o.kind = op[t].kind /\ o.boot = op[t].boot
        /\ o.built = Requirements(pointer)
    BY <1>1 DEF Fields
  <2>2. op' = [op EXCEPT ![t] = o] /\ boot' = boot /\ pointer' = pointer
    BY <1>4 DEF rebuild_environment, Becomes
  <2>. HIDE DEF o
  <2>3. CASE op[t].boot
    <3>1. Ready(o, pointer')
      BY <1>4, <2>1, <2>2, <2>3 DEF rebuild_environment, BootInv, Ready, At
    <3>. QED  BY <2>1, <2>2, <2>3, <3>1, BootGoesOn DEF BootInv, BootSteps
  <2>4. CASE ~op[t].boot
    BY <1>1, <2>1, <2>2, <2>4, RequestBootKeeps
  <2>. QED  BY <2>3, <2>4
<1>5. CASE BuildEnv(t)
  BY <1>2, <1>3, <1>5 DEF BuildEnv
<1>6. CASE BuildFails(t)
  BY <1>1, <1>6, EndsBoot DEF BuildFails
<1>7. CASE SwapOut(t)
  BY <1>2, <1>7 DEF SwapOut
<1>8. CASE SwapIn(t)
  BY <1>1, <1>3, <1>8, EndsBoot DEF SwapIn
<1>9. CASE SwitchPointer(t)
  BY <1>1, <1>9, EndsBoot DEF SwitchPointer
<1>. QED  BY <1>4, <1>5, <1>6, <1>7, <1>8, <1>9

\* The default Experience, as parse_experience leaves it.
LEMMA TheDefault ==
    /\ Default \in Seq(SUBSET Releases) /\ Len(Default) \in Nat /\ DOMAIN Default = 1..Len(Default)
    /\ \A k, n \in DOMAIN Default : k # n =>
          \A r \in Default[k], s \in Default[n] : r.id # s.id
<1>1. ParsedExperience(Default)
  BY StoreAssumption
<1>2. ASSUME NEW k \in DOMAIN Default, NEW n \in DOMAIN Default, k # n,
             NEW r \in Default[k], NEW s \in Default[n]
      PROVE  r.id # s.id
  <2>1. {x.id : x \in Default[k]} \cap {x.id : x \in Default[n]} = {}
    BY <1>1, <1>2 DEF ParsedExperience
  <2>. QED  BY <2>1
<1>. QED  BY <1>1, <1>2, LenProperties DEF ParsedExperience

LEMMA InstallBootKeeps ==
    ASSUME StoreTypes, BootInv, NEW t \in Threads, install_curated(t)
    PROVE  BootInv'
<1>1. /\ ~At(t, "idle") /\ op[t].step = "install" /\ DOMAIN op[t] = Fields
      /\ op[t].boot \in BOOLEAN /\ pointer' = pointer
  BY DEF StoreTypes, At, install_curated
<1>2. ASSUME NEW o, Becomes(t, o), o.step \in {"install", "others"}, o.kind = op[t].kind,
             o.boot = op[t].boot, o.rest = op[t].rest
      PROVE  BootInv'
  <2>1. op' = [op EXCEPT ![t] = o] /\ boot' = boot
    BY <1>2 DEF Becomes
  <2>2. CASE op[t].boot
    <3>1. Ready(o, pointer') /\ o.step \in BootSteps
      BY <1>1, <1>2, <2>2 DEF BootInv, Ready, BootSteps
    <3>. QED  BY <1>2, <2>1, <2>2, <3>1, BootGoesOn DEF BootInv
  <2>3. CASE ~op[t].boot
    BY <1>1, <1>2, <2>1, <2>3, RequestBootKeeps
  <2>. QED  BY <1>1, <2>2, <2>3
<1>3. CASE op[t].lacking = <<>>
  <2>. DEFINE o == [op[t] EXCEPT !.step = "others"]
  <2>1. o.step = "others" /\ o.kind = op[t].kind /\ o.boot = op[t].boot /\ o.rest = op[t].rest
    BY <1>1 DEF Fields
  <2>2. Becomes(t, o)
    BY <1>3 DEF install_curated, Goes
  <2>. HIDE DEF o
  <2>. QED  BY <1>2, <2>1, <2>2
<1>4. CASE Becomes(t, [op[t] EXCEPT !.lacking = Tail(@)])
  <2>. DEFINE o == [op[t] EXCEPT !.lacking = Tail(@)]
  <2>1. o.step = "install" /\ o.kind = op[t].kind /\ o.boot = op[t].boot /\ o.rest = op[t].rest
    BY <1>1 DEF Fields
  <2>2. Becomes(t, o)
    BY <1>4
  <2>. HIDE DEF o
  <2>. QED  BY <1>2, <2>1, <2>2
<1>5. CASE Ends(t, FALSE)
  BY <1>1, <1>5, EndsBoot
<1>. QED  BY <1>3, <1>4, <1>5 DEF install_curated

LEMMA OthersBootKeeps ==
    ASSUME StoreTypes, BootInv, NEW t \in Threads, DeactivateOthers(t)
    PROVE  BootInv'
<1>1. /\ ~At(t, "idle") /\ op[t].step = "others" /\ DOMAIN op[t] = Fields /\ op[t].boot \in BOOLEAN
  BY DEF StoreTypes, At, DeactivateOthers
<1>2. CASE UNCHANGED <<op, boot, marker>>
  <2>1. \A u \in Threads : op[u].boot => u = t
    BY <1>1, OthersIdle
  <2>2. op[t].boot => Ready(op[t], pointer')
    BY <1>1 DEF BootInv, Ready
  <2>. QED  BY <1>2, <2>1, <2>2 DEF BootInv, At
<1>3. CASE Goes(t, "activate") /\ UNCHANGED pointer
  <2>. DEFINE o == [op[t] EXCEPT !.step = "activate"]
  <2>1. o.step = "activate" /\ o.kind = op[t].kind /\ o.boot = op[t].boot /\ o.rest = op[t].rest
    BY <1>1 DEF Fields
  <2>2. op' = [op EXCEPT ![t] = o] /\ boot' = boot
    BY <1>3 DEF Goes, Becomes
  <2>. HIDE DEF o
  <2>3. CASE op[t].boot
    <3>1. o.rest = Default
      BY <1>1, <2>1, <2>3 DEF BootInv, Ready
    <3>2. Ready(o, pointer') /\ o.step \in BootSteps
      BY <2>1, <3>1, TheDefault DEF Ready, BootSteps
    <3>. QED  BY <2>1, <2>2, <2>3, <3>2, BootGoesOn DEF BootInv
  <2>4. CASE ~op[t].boot
    BY <1>1, <2>1, <2>2, <2>4, RequestBootKeeps
  <2>. QED  BY <1>1, <2>3, <2>4
<1>. QED  BY <1>2, <1>3 DEF DeactivateOthers

\* One more of the Experience's plugins is active, and those before it still are:
\* its plugins are different ones.
LEMMA ActivateBootKeeps ==
    ASSUME StoreTypes, BootInv, NEW t \in Threads, activate(t)
    PROVE  BootInv'
<1>. DEFINE rest == op[t].rest
            found == Selected(Head(rest))
            r == Newest(found)
<1>1. /\ ~At(t, "idle") /\ op[t].step = "activate" /\ DOMAIN op[t] = Fields /\ op[t].boot \in BOOLEAN
  BY DEF StoreTypes, At, activate
<1>2. op[t].boot =>
        /\ rest \in Seq(SUBSET Releases) /\ Len(rest) <= Len(Default)
        /\ \A k \in 1..Len(rest) : rest[k] = Default[Len(Default) - Len(rest) + k]
        /\ \A k \in 1..Len(Default) - Len(rest) : Found(k, pointer)
  BY <1>1 DEF BootInv, Ready
<1>3. CASE rest = <<>>
  <2>1. op' = [op EXCEPT ![t] = Rebuilding(op[t])] /\ boot' = boot /\ pointer' = pointer
    BY <1>3 DEF activate, Becomes
  <2>2. /\ Rebuilding(op[t]).boot = op[t].boot /\ Rebuilding(op[t]).step = "rebuild"
        /\ Rebuilding(op[t]).kind = "rebuild"
    BY DEF Rebuilding, NoOp
  <2>3. CASE op[t].boot
    <3>1. \A k \in DOMAIN Default : Found(k, pointer)
      BY <1>2, <1>3, <2>3, TheDefault
    <3>2. Ready(Rebuilding(op[t]), pointer')
      BY <2>1, <2>2, <3>1 DEF Ready
    <3>. QED  BY <2>1, <2>2, <2>3, <3>2, BootGoesOn DEF BootSteps, BootKinds
  <2>4. CASE ~op[t].boot
    BY <1>1, <2>1, <2>2, <2>4, RequestBootKeeps
  <2>. QED  BY <1>1, <2>3, <2>4
<1>4. CASE rest # <<>> /\ found = {}
  BY <1>1, <1>4, EndsBoot DEF activate
<1>5. CASE rest # <<>> /\ found # {}
  <2>. DEFINE o == [op[t] EXCEPT !.rest = Tail(@)]
  <2>1. /\ o.boot = op[t].boot /\ o.step = "activate" /\ o.kind = op[t].kind /\ o.rest = Tail(rest)
    BY <1>1 DEF Fields
  <2>2. op' = [op EXCEPT ![t] = o] /\ boot' = boot /\ pointer' = [pointer EXCEPT ![r.id] = r]
    BY <1>5 DEF activate, Becomes
  <2>3. r \in Releases /\ r \in Head(rest) /\ r.id \in Ids
    <3>1. found \in SUBSET Kept
      BY DEF Selected, installed_plugins, Validates, Kept
    <3>2. r \in found
      BY <1>5, <3>1, NewestIsThere, FS_Subset DEF StoreTypes, Kept
    <3>. QED  BY <3>2 DEF Selected, installed_plugins, Ids
  <2>. HIDE DEF o, r, found
  <2>4. CASE op[t].boot
    <3>. DEFINE n == Len(Default) - Len(rest) + 1
    <3>9. /\ Len(Default) \in Nat /\ DOMAIN Default = 1..Len(Default) /\ Len(rest) <= Len(Default)
      BY <1>2, <2>4, TheDefault
    <3>1. /\ Len(rest) \in Nat \ {0} /\ n \in DOMAIN Default /\ Head(rest) = Default[n]
          /\ Tail(rest) \in Seq(SUBSET Releases) /\ Len(Tail(rest)) = Len(rest) - 1
          /\ \A k \in 1..Len(rest) - 1 : Tail(rest)[k] = rest[k + 1]
      <4>1. Len(rest) \in Nat \ {0} /\ Head(rest) = rest[1]
        BY <1>2, <1>5, <2>4, EmptySeq, LenProperties
      <4>2. n \in DOMAIN Default
        BY <3>9, <4>1
      <4>3. rest[1] = Default[n]
        <5>1. \A k \in 1..Len(rest) : rest[k] = Default[Len(Default) - Len(rest) + k]
          BY <1>2, <2>4
        <5>2. 1 \in 1..Len(rest)
          BY <4>1
        <5>. HIDE DEF rest
        <5>. QED  BY <5>1, <5>2
      <4>. QED  BY <1>2, <1>5, <2>4, <4>1, <4>2, <4>3, HeadTailProperties
    <3>2. pointer'[r.id] = r /\ r # None /\ \A i \in Ids : i # r.id => pointer'[i] = pointer[i]
      BY <2>2, <2>3, NameAssumption DEF StoreTypes
    <3>3. ASSUME NEW k \in 1..n  PROVE Found(k, pointer')
      <4>1. CASE k = n
        BY <2>3, <3>1, <3>2, <4>1 DEF Found
      <4>2. CASE k # n
        <5>1. k \in 1..Len(Default) - Len(rest) /\ k \in DOMAIN Default
          <6>. DEFINE all == Len(Default)
                      left == Len(rest)
          <6>1. /\ all \in Nat /\ left \in Nat \ {0} /\ left <= all
                /\ n = all - left + 1 /\ DOMAIN Default = 1..all
            BY <3>9, <3>1
          <6>. HIDE DEF all, left, n
          <6>2. k \in 1..all - left /\ k \in 1..all
            BY <6>1, <4>2
          <6>. QED  BY <6>1, <6>2 DEF all, left
        <5>2. PICK i \in Ids : pointer[i] # None /\ pointer[i] \in Default[k]
          BY <1>2, <2>4, <5>1 DEF Found
        <5>3. pointer[i].id = i
          BY <5>2 DEF StoreTypes, Active
        <5>4. i # r.id
          <6>1. r \in Default[n] /\ n \in DOMAIN Default /\ k # n
            BY <2>3, <3>1, <4>2
          <6>. HIDE DEF n
          <6>. QED  BY <5>1, <5>2, <5>3, <6>1, TheDefault
        <5>. QED  BY <3>2, <5>2, <5>4 DEF Found
      <4>. QED  BY <4>1, <4>2
    <3>4. Len(Default) - Len(Tail(rest)) = n
      <4>. DEFINE size == Len(rest)
                  less == Len(Tail(rest))
      <4>1. size \in Nat /\ Len(Default) \in Nat /\ less = size - 1
        BY <3>1, <3>9
      <4>. HIDE DEF size, less
      <4>2. Len(Default) - less = Len(Default) - size + 1
        BY <4>1
      <4>. QED  BY <4>2 DEF size, less
    <3>5. \A k \in 1..Len(Tail(rest)) : Tail(rest)[k] = Default[Len(Default) - Len(Tail(rest)) + k]
      <4>1. ASSUME NEW k \in 1..Len(rest) - 1  PROVE Tail(rest)[k] = Default[n + k]
        <5>1. k + 1 \in 1..Len(rest) /\ n + k = Len(Default) - Len(rest) + (k + 1)
          BY <3>1, TheDefault
        <5>. QED  BY <1>2, <2>4, <3>1, <5>1
      <4>. QED  BY <3>1, <3>4, <4>1
    <3>6. Len(Tail(rest)) <= Len(Default)
      BY <1>2, <2>4, <3>1, TheDefault
    <3>7. Ready(o, pointer')
      BY <2>1, <3>1, <3>3, <3>4, <3>5, <3>6 DEF Ready
    <3>. QED  BY <2>1, <2>2, <2>4, <3>7, BootGoesOn DEF BootInv, BootSteps
  <2>5. CASE ~op[t].boot
    BY <1>1, <2>1, <2>2, <2>5, RequestBootKeeps
  <2>. QED  BY <1>1, <2>4, <2>5
<1>. QED  BY <1>3, <1>4, <1>5

LEMMA HubBootKeeps ==
    ASSUME StoreTypes, BootInv, NEW t \in Threads,
           sync_hub(t) \/ PublishSnapshot(t) \/ SaveExperiences(t) \/ SyncFails(t)
    PROVE  BootInv'
<1>1. DOMAIN op[t] = Fields /\ op[t].boot \in BOOLEAN
  BY DEF StoreTypes
<1>2. ASSUME NEW o, Becomes(t, o), ~At(t, "idle"), o.step \in {"publish", "save", "synced"},
             op[t].boot => o.kind \in BootKinds, o.boot = op[t].boot, o.step = "synced" => o.boot
      PROVE  BootInv'
  <2>1. op' = [op EXCEPT ![t] = o] /\ boot' = boot
    BY <1>2 DEF Becomes
  <2>2. CASE op[t].boot
    <3>1. Ready(o, pointer') /\ o.step \in BootSteps
      BY <1>2 DEF Ready, BootSteps
    <3>. QED  BY <1>2, <2>1, <2>2, <3>1, BootGoesOn
  <2>3. CASE ~op[t].boot
    BY <1>1, <1>2, <2>1, <2>3, RequestBootKeeps
  <2>. QED  BY <1>1, <2>2, <2>3
<1>3. ASSUME NEW step \in {"save", "synced"}, Goes(t, step), ~At(t, "idle"),
             step = "synced" => op[t].boot
      PROVE  BootInv'
  <2>. DEFINE o == [op[t] EXCEPT !.step = step]
  <2>1. o.step = step /\ o.kind = op[t].kind /\ o.boot = op[t].boot
    BY <1>1 DEF Fields
  <2>2. Becomes(t, o)
    BY <1>3 DEF Goes
  <2>. HIDE DEF o
  <2>. QED  BY <1>2, <1>3, <2>1, <2>2 DEF BootInv
<1>4. CASE Idle(t) /\ Becomes(t, Syncing(NoOp))
  <2>1. Syncing(NoOp).boot = FALSE /\ Syncing(NoOp).step = "publish"
    BY DEF Syncing, NoOp
  <2>2. boot = "up" /\ ~op[t].boot
    BY <1>4 DEF Idle, BootInv
  <2>. QED  BY <1>4, <2>1, <2>2, RequestBootKeeps DEF Becomes
<1>5. CASE At(t, "sync") /\ Becomes(t, Syncing(op[t]))
  <2>1. /\ Syncing(op[t]).step = "publish" /\ Syncing(op[t]).kind = "sync"
        /\ Syncing(op[t]).boot = op[t].boot
    BY <1>1 DEF Syncing, Fields
  <2>2. ~At(t, "idle")
    BY <1>5 DEF At
  <2>. QED  BY <1>2, <1>5, <2>1, <2>2 DEF BootKinds
<1>6. CASE PublishSnapshot(t)
  BY <1>3, <1>6 DEF PublishSnapshot, At
<1>7. CASE SaveExperiences(t)
  BY <1>3, <1>7, EndsBoot DEF SaveExperiences, At
<1>8. CASE SyncFails(t)
  BY <1>3, <1>8 DEF SyncFails, At, BootInv
<1>. QED  BY <1>4, <1>5, <1>6, <1>7, <1>8 DEF sync_hub

LEMMA ProcessBootKeeps ==
    ASSUME StoreTypes, BootInv, NEW t \in Threads, Boot(t) \/ ApplyDefault(t)
    PROVE  BootInv'
<1>1. CASE Boot(t) /\ marker
  BY <1>1 DEF Boot, BootInv
<1>2. CASE Boot(t) /\ ~marker
  <2>. DEFINE o == [NoOp EXCEPT !.kind = "boot", !.step = "sync", !.boot = TRUE]
  <2>1. o.step = "sync" /\ o.kind = "boot" /\ o.boot
    BY DEF NoOp
  <2>2. op'[t] = o /\ (\A u \in Threads : u # t => op'[u] = op[u]) /\ boot' = "running"
    BY <1>2 DEF Boot, StoreTypes
  <2>. HIDE DEF o
  <2>3. \A u \in Threads : At(u, "idle") /\ ~op[u].boot
    BY <1>2 DEF Boot, BootInv
  <2>4. Ready(o, pointer')
    BY <2>1 DEF Ready
  <2>5. \A u \in Threads : op'[u].step \in {"sync", "synced"} => op'[u].boot
    BY <2>1, <2>2, <2>3 DEF At
  <2>6. \A u \in Threads : op'[u].boot => u = t
    BY <2>2, <2>3
  <2>7. \A u \in Threads : u # t => At(u, "idle")'
    BY <2>2, <2>3 DEF At
  <2>. QED  BY <2>1, <2>2, <2>4, <2>5, <2>6, <2>7 DEF BootInv, BootSteps, BootKinds
<1>3. CASE ApplyDefault(t) /\ Ends(t, FALSE)
  BY <1>3, EndsBoot DEF ApplyDefault, At
<1>4. CASE ApplyDefault(t) /\ Becomes(t, [Applying(Default) EXCEPT !.boot = TRUE])
  <2>. DEFINE o == [Applying(Default) EXCEPT !.boot = TRUE]
  <2>1. o.step = "install" /\ o.kind = "experience" /\ o.boot /\ o.rest = Default
    BY DEF Applying, NoOp
  <2>2. op' = [op EXCEPT ![t] = o] /\ boot' = boot
    BY <1>4 DEF Becomes
  <2>. HIDE DEF o
  <2>3. Ready(o, pointer')
    BY <2>1 DEF Ready
  <2>4. op[t].boot
    BY <1>4 DEF ApplyDefault, BootInv, At
  <2>. QED  BY <2>1, <2>2, <2>3, <2>4, BootGoesOn DEF BootSteps, BootKinds
<1>. QED  BY <1>1, <1>2, <1>3, <1>4 DEF ApplyDefault

LEMMA BootStep == StoreInv /\ BootInv /\ [Next]_vars => BootInv'
<1>. SUFFICES ASSUME StoreTypes, BootInv, [Next]_vars  PROVE BootInv'
  BY DEF StoreInv
<1>1. ASSUME NEW t \in Threads, install_zip(t)  PROVE BootInv'
  BY <1>1, SameBoot DEF install_zip
<1>2. ASSUME NEW t \in Threads,
             \/ uninstall(t) \/ UnlinkPointer(t) \/ RemoveTree(t)
             \/ switch_activation(t) \/ update_curated(t) \/ SwitchFails(t)
             \/ deactivate(t) \/ activate_experience(t)
      PROVE  BootInv'
  BY <1>2, RequestsBootKeep
<1>3. ASSUME NEW t \in Threads,
             \/ rebuild_environment(t) \/ BuildEnv(t) \/ BuildFails(t) \/ SwapOut(t) \/ SwapIn(t)
             \/ SwitchPointer(t)
      PROVE  BootInv'
  BY <1>3, EnvironmentBootKeeps
<1>4. ASSUME NEW t \in Threads, install_curated(t) \/ DeactivateOthers(t) \/ activate(t)
      PROVE  BootInv'
  BY <1>4, InstallBootKeeps, OthersBootKeeps, ActivateBootKeeps
<1>5. ASSUME NEW t \in Threads,
             \/ sync_hub(t) \/ PublishSnapshot(t) \/ SaveExperiences(t) \/ SyncFails(t)
             \/ Boot(t) \/ ApplyDefault(t)
      PROVE  BootInv'
  BY <1>5, HubBootKeeps, ProcessBootKeeps
<1>6. CASE Crash
  <2>1. (\A t \in Threads : op'[t] = NoOp) /\ boot' = "off"
    BY <1>6 DEF Crash
  <2>2. NoOp.step = "idle" /\ NoOp.boot = FALSE
    BY DEF NoOp
  <2>. QED  BY <2>1, <2>2 DEF BootInv, At
<1>7. CASE UNCHANGED vars
  BY <1>7, SameBoot DEF vars
<1>. QED  BY <1>1, <1>2, <1>3, <1>4, <1>5, <1>6, <1>7 DEF Next

\* Only the end of a first boot that built its environment writes the marker.
LEMMA MarkerStep ==
    ASSUME StoreInv, BootInv, [Next]_vars, marker' # marker
    PROVE  /\ \A k \in DOMAIN Default : \E i \in Active : pointer[i] \in Default[k]
           /\ env' = Requirements(pointer)
<1>1. ASSUME NEW t \in Threads, NEW done \in BOOLEAN, Ends(t, done)
      PROVE  op[t].boot /\ done
  <2>1. op[t].boot \in BOOLEAN /\ marker \in BOOLEAN
    BY DEF StoreInv, StoreTypes
  <2>2. CASE ~op[t].boot
    BY <1>1, <2>2 DEF Ends, Marked
  <2>3. CASE op[t].boot
    <3>1. marker' = (marker \/ done)
      BY <1>1, <2>3 DEF Ends, Marked
    <3>2. CASE ~done
      BY <2>1, <3>1, <3>2
    <3>. QED  BY <2>3, <3>2
  <2>. QED  BY <2>1, <2>2, <2>3
<1>2. ASSUME NEW t \in Threads, AfterEnv(t), At(t, "build") \/ At(t, "swap in"), env' = op[t].built
      PROVE  /\ \A k \in DOMAIN Default : \E i \in Active : pointer[i] \in Default[k]
             /\ env' = Requirements(pointer)
  <2>1. Ends(t, TRUE)
    BY <1>2 DEF AfterEnv, Goes, Becomes
  <2>2. Ready(op[t], pointer)
    BY <1>1, <2>1 DEF BootInv
  <2>. QED  BY <1>2, <2>2 DEF Ready, At, Found, Active
<1>4. ASSUME NEW t \in Threads, BuildEnv(t) \/ SwapIn(t)
      PROVE  /\ \A k \in DOMAIN Default : \E i \in Active : pointer[i] \in Default[k]
             /\ env' = Requirements(pointer)
  BY <1>1, <1>2, <1>4 DEF BuildEnv, SwapIn, Goes, Becomes
<1>5. ASSUME NEW t \in Threads, SwitchPointer(t)  PROVE FALSE
  BY <1>1, <1>5 DEF SwitchPointer, BootInv, BootSteps, At
<1>6. ASSUME NEW t \in Threads, SaveExperiences(t)  PROVE FALSE
  BY <1>1, <1>6 DEF SaveExperiences, Goes, Becomes
<1>7. ASSUME NEW t \in Threads,
             \/ BuildFails(t) \/ install_curated(t) \/ activate(t) \/ ApplyDefault(t)
      PROVE  FALSE
  BY <1>1, <1>7 DEF BuildFails, install_curated, activate, ApplyDefault, Goes, Becomes
<1>8. ASSUME NEW t \in Threads,
             \/ install_zip(t) \/ uninstall(t) \/ UnlinkPointer(t) \/ RemoveTree(t)
             \/ rebuild_environment(t) \/ SwapOut(t) \/ switch_activation(t) \/ update_curated(t)
             \/ SwitchFails(t) \/ deactivate(t) \/ activate_experience(t) \/ DeactivateOthers(t)
             \/ sync_hub(t) \/ PublishSnapshot(t) \/ SyncFails(t) \/ Boot(t)
      PROVE  FALSE
  BY <1>8 DEF install_zip, uninstall, UnlinkPointer, RemoveTree, rebuild_environment, SwapOut,
              switch_activation, update_curated, Switch, SwitchFails, deactivate, activate_experience,
              DeactivateOthers, sync_hub, PublishSnapshot, SyncFails, Boot, Goes, Becomes
<1>. QED  BY <1>4, <1>5, <1>6, <1>7, <1>8 DEF Next, Crash, vars

\* The marker of the first boot is written when each plugin of the default Experience
\* is active and the environment is the active set's, whatever failed or died before
\* (prepare_runtime_config).
THEOREM MarkerIsEarned == Spec => MarkerMeansReady
<1>1. BootInv /\ StoreInv /\ [Next]_vars =>
        [marker' # marker =>
            /\ \A k \in DOMAIN Default : \E i \in Active : pointer[i] \in Default[k]
            /\ env' = Requirements(pointer)]_vars
  BY MarkerStep
<1>. QED  BY <1>1, StoreInvariant, BootInit, BootStep, PTL DEF Spec, MarkerMeansReady

-----------------------------------------------------------------------------
(* The host: Kahn's algorithm, what is registered, and what is called         *)

\* What a setup can register.
Handlers == [plugin : Plugins, kind : Kinds, n : Nat, priority : Int,
             before : SUBSET Nat, after : SUBSET Nat]

LEMMA PluginsAreIds == Plugins \subseteq Nat \ {0}
BY HostAssumption DEF Plugins

\* Sooner is total and transitive.
LEMMA SoonerOrders ==
    ASSUME NEW x \in Handlers, NEW y \in Handlers, NEW z \in Handlers
    PROVE  /\ Sooner(x, y) \/ Sooner(y, x)
           /\ Sooner(x, y) /\ Sooner(y, z) => Sooner(x, z)
<1>1. /\ x.priority \in Int /\ y.priority \in Int /\ z.priority \in Int
      /\ x.plugin \in Nat /\ y.plugin \in Nat /\ z.plugin \in Nat
      /\ x.n \in Nat /\ y.n \in Nat /\ z.n \in Nat
  BY PluginsAreIds DEF Handlers
<1>. QED  BY <1>1 DEF Sooner

\* So that some handler of a finite set is the soonest.
LEMMA Soonest ==
    ASSUME NEW S \in SUBSET Handlers, IsFiniteSet(S), S # {}
    PROVE  \E x \in S : \A y \in S : Sooner(x, y)
<1> DEFINE Bad == {k \in Nat : \E T \in SUBSET S : /\ T # {} /\ Cardinality(T) = k
                                                   /\ ~(\E x \in T : \A y \in T : Sooner(x, y))}
<1> SUFFICES ASSUME ~(\E x \in S : \A y \in S : Sooner(x, y))
             PROVE  FALSE
  OBVIOUS
<1>1. Bad \in SUBSET Nat /\ Bad # {}
  <2>1. Cardinality(S) \in Nat
    BY FS_CardinalityType
  <2>2. Cardinality(S) \in Bad
    BY <2>1
  <2>. QED  BY <2>2
<1>2. PICK k \in Bad : \A j \in Bad : k <= j
  BY <1>1, Least
<1>3. PICK T \in SUBSET S : /\ T # {} /\ Cardinality(T) = k
                            /\ ~(\E x \in T : \A y \in T : Sooner(x, y))
  BY <1>2
<1>4. PICK t \in T : TRUE
  BY <1>3
<1> DEFINE U == T \ {t}
<1>5. IsFiniteSet(T)
  BY <1>3, FS_Subset
<1>6. IsFiniteSet(U) /\ Cardinality(U) = k - 1 /\ k \in Nat
  BY <1>2, <1>3, <1>4, <1>5, FS_RemoveElement
<1>7. U # {}
  <2>1. Sooner(t, t)
    BY <1>3, <1>4, SoonerOrders
  <2>. QED  BY <1>3, <1>4, <2>1
<1>8. k - 1 \in Nat
  BY <1>6, FS_CardinalityType
<1>9. k - 1 \notin Bad
  BY <1>2, <1>6, <1>8
<1>10. PICK x \in U : \A y \in U : Sooner(x, y)
  BY <1>3, <1>6, <1>7, <1>8, <1>9
<1>11. x \in Handlers /\ t \in Handlers /\ T \subseteq Handlers /\ x \in T
  BY <1>3, <1>4, <1>10
<1>12. CASE Sooner(x, t)
  BY <1>3, <1>10, <1>11, <1>12
<1>13. CASE Sooner(t, x)
  <2>1. \A y \in U : Sooner(t, y)
    BY <1>10, <1>11, <1>13, SoonerOrders
  <2>2. Sooner(t, t)
    BY <1>11, SoonerOrders
  <2>3. \A y \in T : Sooner(t, y)
    BY <2>1, <2>2
  <2>. QED  BY <1>3, <1>4, <2>3
<1>. QED  BY <1>11, <1>12, <1>13, SoonerOrders

\* Each of these is preceded by one of them.
Stuck(D) == D # {} /\ \A r \in D : \E m \in D : Precedes(m, r)

\* Kahn's algorithm takes all there are, unless some are stuck: where it stops, what
\* it has not taken is.
LEMMA TakesAll ==
    ASSUME NEW nodes \in SUBSET Handlers, IsFiniteSet(nodes), \A D \in SUBSET nodes : ~Stuck(D)
    PROVE  Orders(nodes) # {}
<1> DEFINE N == Cardinality(nodes)
           Begun(k) == \E order \in [1..k -> nodes] : \A i \in 1..k : Taken(nodes, order, i)
           Short == {k \in 0..N : ~Begun(k)}
<1>1. N \in Nat
  BY FS_CardinalityType
<1> SUFFICES ASSUME ~Begun(N)
             PROVE  FALSE
  BY DEF Orders
<1>2. Short \in SUBSET Nat /\ Short # {}
  BY <1>1
<1>3. PICK k \in Short : \A j \in Short : k <= j
  BY <1>2, Least
<1>4. k \in 0..N /\ ~Begun(k)
  BY <1>3
<1>5. k # 0
  <2>1. Begun(0)
    <3>1. [i \in 1..0 |-> CHOOSE x \in nodes : TRUE] \in [1..0 -> nodes] /\ \A i \in 1..0 : FALSE
      OBVIOUS
    <3>. QED  BY <3>1
  <2>. QED  BY <1>4, <2>1
<1>6. k - 1 \in 0..N /\ k - 1 \notin Short /\ k \in Nat
  BY <1>1, <1>3, <1>4, <1>5
<1>7. PICK order \in [1..k - 1 -> nodes] : \A i \in 1..k - 1 : Taken(nodes, order, i)
  BY <1>6
<1> DEFINE done == {order[i] : i \in 1..k - 1}
<1>8. \E x \in nodes : x \notin done
  <2>1. order \in Surjection(1..k - 1, done)
    BY <1>7 DEF Surjection
  <2>2. IsFiniteSet(1..k - 1) /\ Cardinality(1..k - 1) = k - 1
    BY <1>6, FS_Interval
  <2>3. IsFiniteSet(done) /\ Cardinality(done) <= k - 1
    BY <2>1, <2>2, FS_Surjection
  <2>4. Cardinality(done) \in Nat
    BY <2>3, FS_CardinalityType
  <2>5. done # nodes
    <3>1. PICK n \in Nat : n = Cardinality(done) /\ n <= k - 1
      BY <2>3, <2>4
    <3>2. n # N
      BY <1>1, <1>4, <1>6, <3>1
    <3>. QED  BY <3>1, <3>2, Zenon
  <2>6. done \subseteq nodes
    BY <1>7
  <2>. QED  BY <2>5, <2>6
<1> DEFINE ready == Takeable(nodes, done)
<1>9. ready # {}
  <2>1. ~Stuck(nodes \ done)
    OBVIOUS
  <2>2. PICK x \in nodes \ done : \A m \in nodes \ done : ~Precedes(m, x)
    BY <1>8, <2>1 DEF Stuck
  <2>3. x \in ready
    BY <2>2 DEF Takeable
  <2>. QED  BY <2>3
<1>10. ready \in SUBSET Handlers /\ IsFiniteSet(ready) /\ ready \subseteq nodes
  <2>1. ready \in SUBSET nodes
    BY DEF Takeable
  <2>. QED  BY <2>1, FS_Subset
<1>11. PICK x \in ready : \A y \in ready : Sooner(x, y)
  BY <1>9, <1>10, Soonest
<1> DEFINE longer == [i \in 1..k |-> IF i = k THEN x ELSE order[i]]
<1>12. longer \in [1..k -> nodes]
  BY <1>6, <1>7, <1>10, <1>11
<1>13. ASSUME NEW i \in 1..k
       PROVE  Taken(nodes, longer, i)
  <2>1. \A j \in 1..i - 1 : longer[j] = order[j]
    BY <1>6
  <2>2. {longer[j] : j \in 1..i - 1} = {order[j] : j \in 1..i - 1}
    BY <2>1
  <2>3. CASE i = k
    <3>1. longer[i] = x
      BY <2>3
    <3>2. {longer[j] : j \in 1..i - 1} = done
      BY <2>2, <2>3
    <3>. QED  BY <1>11, <3>1, <3>2 DEF Taken
  <2>4. CASE i # k
    <3>1. i \in 1..k - 1 /\ longer[i] = order[i]
      BY <1>6, <2>4
    <3>2. Taken(nodes, order, i)
      BY <1>7, <3>1
    <3>. QED  BY <2>2, <3>1, <3>2 DEF Taken
  <2>. QED  BY <2>3, <2>4
<1>14. Begun(k)
  BY <1>12, <1>13
<1>. QED  BY <1>4, <1>14

\* And where it takes all, none are stuck: the first of them it took had one of them
\* before it.
LEMMA NoneStuck ==
    ASSUME NEW nodes \in SUBSET Handlers, IsFiniteSet(nodes), Orders(nodes) # {},
           NEW D \in SUBSET nodes, Stuck(D)
    PROVE  FALSE
<1> DEFINE N == Cardinality(nodes)
<1>1. N \in Nat
  BY FS_CardinalityType
<1>2. PICK order \in [1..N -> nodes] : \A i \in 1..N : Taken(nodes, order, i)
  BY DEF Orders
<1>3. order \in Injection(1..N, nodes)
  <2>1. ASSUME NEW i \in 1..N, NEW j \in 1..N, i < j
        PROVE  order[i] # order[j]
    <3>1. order[j] \notin {order[m] : m \in 1..j - 1}
      BY <1>2 DEF Taken, Takeable
    <3>2. i \in 1..j - 1
      BY <1>1, <2>1
    <3>. QED  BY <3>1, <3>2
  <2>2. \A i, j \in 1..N : order[i] = order[j] => i = j
    <3> SUFFICES ASSUME NEW i \in 1..N, NEW j \in 1..N, order[i] = order[j], i # j
                 PROVE  FALSE
      OBVIOUS
    <3>1. i < j \/ j < i
      BY <1>1
    <3>. QED  BY <2>1, <3>1
  <2>. QED  BY <1>2, <2>2 DEF Injection, IsInjective
<1>4. order \in Surjection(1..N, nodes)
  <2>1. IsFiniteSet(1..N) /\ Cardinality(1..N) = N
    BY <1>1, FS_Interval
  <2>. QED  BY <1>3, <2>1, FS_Injection
<1> DEFINE Places == {i \in 1..N : order[i] \in D}
<1>5. Places \in SUBSET Nat /\ Places # {}
  <2>1. PICK r \in D : TRUE
    BY DEF Stuck
  <2>2. PICK i \in 1..N : order[i] = r
    BY <1>4, <2>1 DEF Surjection
  <2>3. i \in Places
    BY <2>1, <2>2
  <2>. QED  BY <1>1, <2>3
<1>6. PICK i \in Places : \A j \in Places : i <= j
  BY <1>5, Least
<1>7. PICK m \in D : Precedes(m, order[i])
  BY <1>6 DEF Stuck
<1>8. m \in {order[j] : j \in 1..i - 1}
  <2>1. Taken(nodes, order, i)
    BY <1>2, <1>6
  <2>. QED  BY <1>7, <2>1 DEF Taken, Takeable
<1>9. PICK j \in 1..i - 1 : order[j] = m
  BY <1>8
<1>10. i \in 1..N
  BY <1>6
<1>11. j \in 1..N /\ j < i
  BY <1>1, <1>9, <1>10
<1>12. j \in Places
  BY <1>7, <1>9, <1>11
<1>. QED  BY <1>1, <1>6, <1>10, <1>11, <1>12

\* A hook that could be ordered still can when handlers are gone.
LEMMA FewerInOrder ==
    ASSUME NEW nodes \in SUBSET Handlers, IsFiniteSet(nodes), Orders(nodes) # {},
           NEW fewer \in SUBSET nodes
    PROVE  Orders(fewer) # {}
<1>1. IsFiniteSet(fewer) /\ fewer \in SUBSET Handlers
  BY FS_Subset
<1>2. \A D \in SUBSET fewer : ~Stuck(D)
  BY NoneStuck
<1>. QED  BY <1>1, <1>2, TakesAll

-----------------------------------------------------------------------------
(* What is registered *)

RegistryInv ==
    /\ loaded \cup disabled \cup pending = Plugins
    /\ pending \subseteq manifests /\ loaded \subseteq manifests
    /\ pending \cap (loaded \cup disabled) = {}
    /\ setup \in [plugin : Nat, k : Nat] /\ (setup = NoSetup \/ setup.plugin \in pending)
    /\ registrations \in SUBSET Handlers /\ IsFiniteSet(registrations)
    /\ \A r \in registrations : r.plugin \in (loaded \ disabled) \cup {setup.plugin}
    /\ owners \in [Names -> Int] /\ commands \in [Names -> Int]
    /\ \A n \in Names : owners[n] \in (loaded \ disabled) \cup {setup.plugin, Core, Nobody}
    /\ \A n \in Names : commands[n] \in {owners[n], Nobody} \ {Core}
    /\ HooksHaveAnOrder

LEMMA OfAHook ==
    ASSUME NEW regs \in SUBSET Handlers, IsFiniteSet(regs), NEW kind
    PROVE  Hook(regs, kind) \in SUBSET Handlers /\ IsFiniteSet(Hook(regs, kind))
<1>1. Hook(regs, kind) \in SUBSET regs
  BY DEF Hook
<1>. QED  BY <1>1, FS_Subset

\* Disabling a plugin leaves nothing of it, and every hook in order.
LEMMA Disables ==
    ASSUME RegistryInv, NEW p \in Plugins, disable_for_boot(p)
    PROVE  /\ registrations' \in SUBSET Handlers /\ IsFiniteSet(registrations')
           /\ \A r \in registrations' : r \in registrations /\ r.plugin # p
           /\ owners' \in [Names -> Int] /\ commands' \in [Names -> Int]
           /\ \A n \in Names : owners'[n] = Nobody \/ (owners'[n] = owners[n] /\ owners[n] # p)
           /\ \A n \in Names : commands'[n] \in {owners'[n], Nobody} \ {Core}
           /\ HooksHaveAnOrder'
           /\ disabled' = disabled \cup {p}
<1>1. registrations' = {r \in registrations : r.plugin # p} /\ disabled' = disabled \cup {p}
  BY DEF disable_for_boot, Without
<1>2. registrations' \in SUBSET registrations /\ \A r \in registrations' : r.plugin # p
  BY <1>1
<1>3. registrations' \in SUBSET Handlers /\ IsFiniteSet(registrations')
  BY <1>2, FS_Subset DEF RegistryInv
<1>4. /\ owners' = [n \in Names |-> IF owners[n] = p THEN Nobody ELSE owners[n]]
      /\ commands' = [n \in Names |-> IF commands[n] = p THEN Nobody ELSE commands[n]]
  BY DEF disable_for_boot, Freed
<1>5. p # Core /\ p # Nobody /\ Nobody \in Int /\ Core # Nobody
  BY PluginsAreIds DEF Core, Nobody
<1>6. /\ owners \in [Names -> Int] /\ commands \in [Names -> Int]
      /\ \A n \in Names : commands[n] \in {owners[n], Nobody} \ {Core}
  BY DEF RegistryInv
<1>7. owners' \in [Names -> Int] /\ commands' \in [Names -> Int]
  BY <1>4, <1>5, <1>6
<1>8. \A n \in Names : owners'[n] = Nobody \/ (owners'[n] = owners[n] /\ owners[n] # p)
  BY <1>4
<1>9. \A n \in Names : commands'[n] \in {owners'[n], Nobody} \ {Core}
  BY <1>4, <1>5, <1>6
<1>10. HooksHaveAnOrder'
  <2>1. ASSUME NEW kind \in Kinds
        PROVE  ~Cyclic(registrations', kind)
    <3>1. Hook(registrations, kind) \in SUBSET Handlers /\ IsFiniteSet(Hook(registrations, kind))
      BY OfAHook DEF RegistryInv
    <3>2. Orders(Hook(registrations, kind)) # {}
      BY DEF RegistryInv, HooksHaveAnOrder, Cyclic
    <3>3. Hook(registrations', kind) \in SUBSET Hook(registrations, kind)
      BY <1>2 DEF Hook
    <3>. QED  BY <3>1, <3>2, <3>3, FewerInOrder DEF Cyclic
  <2>. QED  BY <2>1 DEF HooksHaveAnOrder
<1>. QED  BY <1>1, <1>2, <1>3, <1>7, <1>8, <1>9, <1>10

LEMMA RegistryInit == HostInit => RegistryInv
<1> SUFFICES ASSUME HostInit
             PROVE  RegistryInv
  OBVIOUS
<1>1. registrations = {} /\ IsFiniteSet({}) /\ registrations \in SUBSET Handlers
  BY FS_EmptySet DEF HostInit
<1>2. HooksHaveAnOrder
  <2>1. ASSUME NEW kind \in Kinds
        PROVE  Orders(Hook(registrations, kind)) # {}
    <3>1. Hook(registrations, kind) = {}
      BY <1>1 DEF Hook
    <3>2. \A D \in SUBSET {} : ~Stuck(D)
      BY DEF Stuck
    <3>. QED  BY <1>1, <3>1, <3>2, TakesAll
  <2>. QED  BY <2>1 DEF HooksHaveAnOrder, Cyclic
<1>3. /\ owners \in [Names -> Int] /\ commands \in [Names -> Int]
      /\ \A n \in Names : owners[n] \in {Core, Nobody} /\ commands[n] = Nobody /\ Nobody # Core
  BY DEF HostInit, Core, Nobody
<1>4. setup = NoSetup /\ NoSetup \in [plugin : Nat, k : Nat]
  BY DEF HostInit, NoSetup, Nobody
<1>5. /\ loaded \cup disabled \cup pending = Plugins
      /\ pending \subseteq manifests /\ loaded \subseteq manifests
      /\ pending \cap (loaded \cup disabled) = {}
  BY DEF HostInit
<1>. QED  BY <1>1, <1>2, <1>3, <1>4, <1>5 DEF RegistryInv

\* A plugin that is disabled while the server runs, or before its setup.
LEMMA RaiseKeeps ==
    ASSUME RegistryInv, NEW p \in Plugins, disable_for_boot(p), UNCHANGED booted, p \notin pending
    PROVE  RegistryInv'
<1>1. UNCHANGED <<manifests, pending, loaded, setup>>
  BY DEF booted
<1>2. setup.plugin # p
  BY PluginsAreIds DEF RegistryInv, NoSetup, Nobody
<1>3. \A r \in registrations' : r.plugin \in (loaded' \ disabled') \cup {setup'.plugin}
  BY <1>1, Disables DEF RegistryInv
<1>4. \A n \in Names : owners'[n] \in (loaded' \ disabled') \cup {setup'.plugin, Core, Nobody}
  BY <1>1, Disables DEF RegistryInv
<1>. QED  BY <1>1, <1>3, <1>4, Disables DEF RegistryInv

LEMMA BootTurnKeeps ==
    ASSUME RegistryInv, BootTurn
    PROVE  RegistryInv'
<1>1. PICK p \in pending :
         /\ setup = NoSetup
         /\ \/ pending' = pending \ {p} /\ disable_for_boot(p) /\ UNCHANGED setup
            \/ setup' = [plugin |-> p, k |-> 0] /\ UNCHANGED <<pending, registry>>
  BY DEF BootTurn
<1>2. UNCHANGED <<manifests, loaded>> /\ p \in Plugins /\ p \in Nat
  BY PluginsAreIds DEF BootTurn, RegistryInv
<1>3. \A r \in registrations : r.plugin \in loaded \ disabled
  <2>1. \A r \in registrations : r.plugin # NoSetup.plugin
    BY PluginsAreIds DEF RegistryInv, NoSetup, Nobody, Handlers
  <2>. QED  BY <1>1, <2>1 DEF RegistryInv
<1>9. \A n \in Names : owners[n] \in (loaded \ disabled) \cup {Core, Nobody}
  BY <1>1 DEF RegistryInv, NoSetup
<1>4. CASE pending' = pending \ {p} /\ disable_for_boot(p) /\ UNCHANGED setup
  <2>1. /\ loaded' \cup disabled' \cup pending' = Plugins
        /\ pending' \subseteq manifests' /\ loaded' \subseteq manifests'
        /\ pending' \cap (loaded' \cup disabled') = {}
    BY <1>2, <1>4, Disables DEF RegistryInv
  <2>2. \A r \in registrations' : r.plugin \in loaded' \ disabled'
    BY <1>2, <1>3, <1>4, Disables
  <2>3. setup' = NoSetup /\ setup' \in [plugin : Nat, k : Nat]
    BY <1>1, <1>4 DEF RegistryInv
  <2>4. \A n \in Names : owners'[n] \in (loaded' \ disabled') \cup {Core, Nobody}
    BY <1>2, <1>4, <1>9, Disables
  <2>. QED  BY <1>2, <1>4, <2>1, <2>2, <2>3, <2>4, Disables DEF RegistryInv
<1>5. CASE setup' = [plugin |-> p, k |-> 0] /\ UNCHANGED <<pending, registry>>
  <2>1. UNCHANGED <<disabled, registrations, owners, commands>>
    BY <1>5 DEF registry
  <2>2. setup' \in [plugin : Nat, k : Nat] /\ setup'.plugin \in pending'
    BY <1>2, <1>5
  <2>3. HooksHaveAnOrder'
    BY <2>1 DEF RegistryInv, HooksHaveAnOrder
  <2>4. \A n \in Names : owners'[n] \in (loaded' \ disabled') \cup {Core, Nobody}
    BY <1>2, <1>9, <2>1
  <2>. QED  BY <1>2, <1>3, <1>5, <2>1, <2>2, <2>3, <2>4 DEF RegistryInv
<1>. QED  BY <1>1, <1>4, <1>5

LEMMA GivesUpKeeps ==
    ASSUME RegistryInv, GivesUp
    PROVE  RegistryInv'
<1>1. /\ setup = NoSetup /\ pending' = {} /\ disabled' = disabled \cup pending
      /\ UNCHANGED <<manifests, loaded, setup, registrations, owners, commands>>
  BY DEF GivesUp
<1>2. \A r \in registrations : r.plugin \in loaded \ disabled
  <2>1. \A r \in registrations : r.plugin # NoSetup.plugin
    BY PluginsAreIds DEF RegistryInv, NoSetup, Nobody, Handlers
  <2>. QED  BY <1>1, <2>1 DEF RegistryInv
<1>3. \A n \in Names : owners[n] \in (loaded \ disabled) \cup {Core, Nobody}
  BY <1>1 DEF RegistryInv, NoSetup
<1>4. /\ loaded' \cup disabled' \cup pending' = Plugins
      /\ pending' \subseteq manifests' /\ loaded' \subseteq manifests'
      /\ pending' \cap (loaded' \cup disabled') = {}
      /\ loaded \ disabled = loaded' \ disabled'
  BY <1>1 DEF RegistryInv
<1>5. HooksHaveAnOrder'
  BY <1>1 DEF RegistryInv, HooksHaveAnOrder
<1>. QED  BY <1>1, <1>2, <1>3, <1>4, <1>5 DEF RegistryInv

\* What a setup asks for other than commands has a place in its hook, or is not kept.
LEMMA AsksKeeps ==
    ASSUME RegistryInv, Asks
    PROVE  RegistryInv'
<1>1. PICK p \in Plugins, k \in Nat :
         /\ setup.plugin = p /\ p \in pending /\ setup' = [setup EXCEPT !.k = @ + 1]
         /\ k \in DOMAIN Setup[p]
         /\ \/ /\ CommandRegistered(p, Setup[p][k])
               /\ UNCHANGED registrations
            \/ /\ Setup[p][k].kind # "command"
               /\ registrations' = Registered(registrations, Registration(p, k))
               /\ UNCHANGED <<owners, commands>>
         /\ UNCHANGED <<manifests, pending, loaded, disabled>>
  <2>1. setup.plugin \in Plugins /\ setup.plugin \in pending /\ setup.k + 1 \in Nat
    BY DEF RegistryInv, Asks
  <2>2. setup.k + 1 \in DOMAIN Setup[setup.plugin]
    <3>1. setup.k < Len(Setup[setup.plugin])
      BY DEF Asks
    <3>5. PICK q \in Plugins : q = setup.plugin
      BY <2>1
    <3>6. Setup[q] \in Seq({Setup[q][i] : i \in DOMAIN Setup[q]})
      BY HostAssumption, Zenon
    <3>2. PICK s, T : s = Setup[setup.plugin] /\ s \in Seq(T)
      BY <3>5, <3>6
    <3>3. Len(s) \in Nat /\ DOMAIN s = 1..Len(s)
      BY <3>2
    <3>4. setup.k + 1 \in 1..Len(s)
      BY <2>1, <3>1, <3>2, <3>3 DEF RegistryInv
    <3>. QED  BY <3>2, <3>3, <3>4
  <2>. QED  BY <2>1, <2>2, Zenon DEF Asks
<1>2. setup' \in [plugin : Nat, k : Nat] /\ setup'.plugin = p
  BY <1>1 DEF RegistryInv
<1>3. CASE CommandRegistered(p, Setup[p][k]) /\ UNCHANGED registrations
  <2>1. CASE UNCHANGED <<owners, commands>>
    BY <1>1, <1>2, <1>3, <2>1 DEF RegistryInv, HooksHaveAnOrder
  <2>2. CASE ~UNCHANGED <<owners, commands>>
    <3>6. PICK ask : ask = Setup[p][k]
      OBVIOUS
    <3>7. PICK names : names = {ask.name} \cup ask.aliases
      OBVIOUS
    <3>8. /\ \A n \in names : owners[n] = Nobody
          /\ owners' = [n \in Names |-> IF n \in names THEN p ELSE owners[n]]
          /\ commands' = [commands EXCEPT ![ask.name] = p]
      BY <1>3, <2>2, <3>6, <3>7, Zenon DEF CommandRegistered
    <3>1. PICK a :
             /\ a \in names /\ \A n \in names : owners[n] = Nobody
             /\ owners' = [n \in Names |-> IF n \in names THEN p ELSE owners[n]]
             /\ commands' = [commands EXCEPT ![a] = p]
      BY <3>7, <3>8
    <3>2. p \in Int /\ p # Core /\ p # Nobody
      BY <1>1, PluginsAreIds DEF Core, Nobody
    <3>3. owners' \in [Names -> Int] /\ commands' \in [Names -> Int]
      BY <3>1, <3>2 DEF RegistryInv
    <3>4. \A n \in Names : owners'[n] \in (loaded \ disabled) \cup {setup.plugin, Core, Nobody}
      BY <1>1, <3>1 DEF RegistryInv
    <3>5. \A n \in Names : commands'[n] \in {owners'[n], Nobody} \ {Core}
      BY <3>1, <3>2 DEF RegistryInv
    <3>. QED  BY <1>1, <1>2, <1>3, <3>3, <3>4, <3>5 DEF RegistryInv, HooksHaveAnOrder
  <2>. QED  BY <2>1, <2>2
<1>4. CASE /\ Setup[p][k].kind # "command"
           /\ registrations' = Registered(registrations, Registration(p, k))
           /\ UNCHANGED <<owners, commands>>
  <2>1. PICK r : r = Registration(p, k)
    OBVIOUS
  <2>2. r \in Handlers /\ r.plugin = p
    <3>1. Setup[p][k].kind \in Kinds
      BY <1>1, <1>4, HostAssumption
    <3>2. /\ Manifest[p].priority \in Int /\ Manifest[p].before \subseteq Nat /\ Manifest[p].after \subseteq Nat
          /\ Ordered(Setup[p][k].order)
      BY <1>1, <1>4, <3>1, HostAssumption
    <3>3. Later(p) \subseteq Nat
      BY PluginsAreIds DEF Later, Plugins
    <3>. QED  BY <1>1, <2>1, <3>1, <3>2, <3>3 DEF Registration, Handlers, Ordered
  <2>3. CASE registrations' = registrations
    BY <1>1, <1>2, <1>4, <2>3 DEF RegistryInv, HooksHaveAnOrder
  <2>4. CASE registrations' = registrations \cup {r} /\ ~Cyclic(registrations \cup {r}, r.kind)
    <3>1. registrations' \in SUBSET Handlers /\ IsFiniteSet(registrations')
      BY <2>2, <2>4, FS_AddElement DEF RegistryInv
    <3>2. \A q \in registrations' : q.plugin \in (loaded' \ disabled') \cup {setup'.plugin}
      BY <1>1, <1>2, <2>2, <2>4 DEF RegistryInv
    <3>3. ASSUME NEW kind \in Kinds
          PROVE  ~Cyclic(registrations', kind)
      <4>1. CASE kind = r.kind
        BY <2>4, <4>1
      <4>2. CASE kind # r.kind
        <5>1. Hook(registrations', kind) = Hook(registrations, kind)
          BY <2>4, <4>2 DEF Hook
        <5>. QED  BY <5>1 DEF RegistryInv, HooksHaveAnOrder, Cyclic
      <4>. QED  BY <4>1, <4>2
    <3>. QED  BY <1>1, <1>2, <1>4, <3>1, <3>2, <3>3 DEF RegistryInv, HooksHaveAnOrder
  <2>. QED  BY <1>4, <2>1, <2>3, <2>4 DEF Registered
<1>. QED  BY <1>1, <1>3, <1>4

LEMMA LoadKeeps ==
    ASSUME RegistryInv, Load
    PROVE  RegistryInv'
<1>1. PICK p \in Plugins :
         /\ setup.plugin = p /\ p \in pending /\ setup' = NoSetup /\ pending' = pending \ {p}
         /\ \/ loaded' = loaded \cup {p} /\ UNCHANGED registry
            \/ disable_for_boot(p) /\ UNCHANGED loaded
         /\ UNCHANGED manifests
  <2>1. setup.plugin \in Plugins /\ setup.plugin \in pending
    BY DEF RegistryInv, Load
  <2>. QED  BY <2>1, Zenon DEF Load
<1>2. setup' \in [plugin : Nat, k : Nat]
  BY <1>1 DEF NoSetup, Nobody
<1>3. CASE loaded' = loaded \cup {p} /\ UNCHANGED registry
  <2>1. UNCHANGED <<disabled, registrations, owners, commands>>
    BY <1>3 DEF registry
  <2>2. p \notin disabled
    BY <1>1 DEF RegistryInv
  <2>3. (loaded \ disabled) \cup {p} = loaded' \ disabled'
    BY <1>3, <2>1, <2>2
  <2>4. /\ loaded' \cup disabled' \cup pending' = Plugins
        /\ pending' \subseteq manifests' /\ loaded' \subseteq manifests'
        /\ pending' \cap (loaded' \cup disabled') = {}
    BY <1>1, <1>3, <2>1 DEF RegistryInv
  <2>5. \A r \in registrations' : r.plugin \in loaded' \ disabled'
    BY <1>1, <2>1, <2>3 DEF RegistryInv
  <2>6. \A n \in Names : owners'[n] \in (loaded' \ disabled') \cup {Core, Nobody}
    BY <1>1, <2>1, <2>3 DEF RegistryInv
  <2>7. HooksHaveAnOrder'
    BY <2>1 DEF RegistryInv, HooksHaveAnOrder
  <2>. QED  BY <1>1, <1>2, <2>1, <2>4, <2>5, <2>6, <2>7 DEF RegistryInv
<1>4. CASE disable_for_boot(p) /\ UNCHANGED loaded
  <2>1. disabled' = disabled \cup {p}
    BY <1>4, Disables
  <2>2. /\ loaded' \cup disabled' \cup pending' = Plugins
        /\ pending' \subseteq manifests' /\ loaded' \subseteq manifests'
        /\ pending' \cap (loaded' \cup disabled') = {}
    BY <1>1, <1>4, <2>1 DEF RegistryInv
  <2>3. \A r \in registrations' : r.plugin \in loaded' \ disabled'
    BY <1>1, <1>4, <2>1, Disables DEF RegistryInv
  <2>4. \A n \in Names : owners'[n] \in (loaded' \ disabled') \cup {Core, Nobody}
    BY <1>1, <1>4, <2>1, Disables DEF RegistryInv
  <2>. QED  BY <1>1, <1>2, <1>4, <2>2, <2>3, <2>4, Disables DEF RegistryInv
<1>. QED  BY <1>1, <1>3, <1>4

-----------------------------------------------------------------------------
(* What is called *)

Frames == [layer : Nat, mode : {"handler", "fallback", "model"}, n : Nat]

Calls == [kind : Kinds \cup {"none", "strict_filter", "command"}, rest : Seq(Handlers), plugin : Int,
          stack : Seq(Frames), signal : {"none", "ok", "raise", "logged", "running"},
          answer : {"none", "ok", "failed"}]

\* A frame is of one of the call's layers, or of the model below them all.
FramesInv(k) ==
    \A i \in DOMAIN k.stack :
        /\ k.stack[i].layer \in 1..Len(k.rest) + 1
        /\ k.stack[i].mode # "model" => k.stack[i].layer <= Len(k.rest)

Sound(k) ==
    /\ k \in Calls /\ FramesInv(k)
    /\ k.stack # <<>> => k.kind = "wrapper"
    /\ k.kind = "wrapper" /\ k.stack = <<>> /\ k.signal = "raise" => k.answer = "failed"

CallInv ==
    /\ call \in [Callers -> Calls] /\ log \in [Callers -> BOOLEAN]
    /\ \A c \in Callers :
         /\ Sound(call[c])
         /\ log[c] <=> call[c].kind = "command" /\ call[c].signal # "none"
         /\ call[c].kind # "none" => pending = {}

LEMMA NoCallIsSound == Sound(NoCall)
<1>1. <<>> \in Seq(Handlers) /\ <<>> \in Seq(Frames) /\ DOMAIN <<>> = {} /\ Nobody \in Int
  BY DEF Nobody
<1>. QED  BY <1>1 DEF Sound, FramesInv, NoCall, Calls

\* Who was not called still has what it had.
LEMMA CallChanges ==
    ASSUME CallInv, NEW c \in Callers, NEW k, Sound(k), call' = [call EXCEPT ![c] = k],
           k.kind # "none" => pending = {}, UNCHANGED pending,
           log' = [log EXCEPT ![c] = (k.kind = "command" /\ k.signal # "none")]
    PROVE  CallInv'
<1>1. k \in Calls
  BY DEF Sound
<1>2. call' \in [Callers -> Calls] /\ log' \in [Callers -> BOOLEAN]
  BY <1>1 DEF CallInv
<1>3. ASSUME NEW d \in Callers
      PROVE  /\ Sound(call'[d])
             /\ log'[d] <=> call'[d].kind = "command" /\ call'[d].signal # "none"
             /\ call'[d].kind # "none" => pending' = {}
  <2>1. CASE d = c
    <3>1. call'[d] = k /\ log'[d] = (k.kind = "command" /\ k.signal # "none")
      BY <2>1 DEF CallInv
    <3>. QED  BY <3>1
  <2>2. CASE d # c
    <3>1. call'[d] = call[d] /\ log'[d] = log[d]
      BY <2>2 DEF CallInv
    <3>. QED  BY <3>1 DEF CallInv
  <2>. QED  BY <2>1, <2>2
<1>4. \A d \in Callers : Sound(call[d])'
  BY <1>3 DEF Sound, FramesInv
<1>. QED  BY <1>2, <1>3, <1>4 DEF CallInv

\* The same where the log is left as it is.
LEMMA CallGoesOn ==
    ASSUME CallInv, NEW c \in Callers, NEW k, Sound(k), call' = [call EXCEPT ![c] = k],
           k.kind # "none" => pending = {}, UNCHANGED <<pending, log>>,
           k.kind = "command" /\ k.signal # "none" <=> call[c].kind = "command" /\ call[c].signal # "none"
    PROVE  CallInv'
<1>1. log[c] = (k.kind = "command" /\ k.signal # "none")
  BY DEF CallInv
<1>2. log' = [log EXCEPT ![c] = (k.kind = "command" /\ k.signal # "none")]
  BY <1>1 DEF CallInv
<1>. QED  BY <1>2, CallChanges

\* A hook in order is a sequence of handlers.
LEMMA OrderedHandlers ==
    ASSUME RegistryInv, NEW kind \in Kinds
    PROVE  ordered(kind) \in Seq(Handlers)
<1>1. PICK nodes : nodes = Hook(registrations, kind)
  OBVIOUS
<1>2. nodes \in SUBSET Handlers /\ IsFiniteSet(nodes) /\ Orders(nodes) # {}
  BY <1>1, OfAHook DEF RegistryInv, HooksHaveAnOrder, Cyclic
<1>3. ordered(kind) \in Orders(nodes)
  BY <1>1, <1>2 DEF ordered
<1>4. ordered(kind) \in [1..Cardinality(nodes) -> Handlers] /\ Cardinality(nodes) \in Nat
  BY <1>2, <1>3, FS_CardinalityType DEF Orders
<1>. QED  BY <1>4

LEMMA FrameType ==
    ASSUME NEW layers \in Seq(Handlers), NEW i \in 1..Len(layers) + 1
    PROVE  /\ Frame(layers, i) \in Frames /\ Frame(layers, i).layer = i
           /\ Frame(layers, i).mode # "model" => i <= Len(layers)
BY DEF Frame, Frames

\* What is below the top frame is a frame of the same call.
LEMMA DeeperIsSound ==
    ASSUME NEW k \in Calls, FramesInv(k), k.kind = "wrapper", k.stack # <<>>,
           k.stack[Len(k.stack)].layer <= Len(k.rest)
    PROVE  Sound(Deeper(k)) /\ Deeper(k).kind = "wrapper"
<1>1. PICK frame : frame = Frame(k.rest, k.stack[Len(k.stack)].layer + 1)
  OBVIOUS
<1>2. /\ k.rest \in Seq(Handlers) /\ k.stack \in Seq(Frames) /\ Len(k.stack) \in DOMAIN k.stack
      /\ Len(k.rest) \in Nat /\ Len(k.stack) \in Nat
  <2>1. k.rest \in Seq(Handlers) /\ k.stack \in Seq(Frames)
    BY DEF Calls
  <2>. QED  BY <2>1
<1>3. k.stack[Len(k.stack)].layer + 1 \in 1..Len(k.rest) + 1
  BY <1>2 DEF FramesInv
<1>4. /\ frame \in Frames /\ frame.layer \in 1..Len(k.rest) + 1
      /\ frame.mode # "model" => frame.layer <= Len(k.rest)
  BY <1>1, <1>2, <1>3, FrameType
<1>5. PICK stack : stack = Append(k.stack, frame)
  OBVIOUS
<1>6. stack \in Seq(Frames) /\ stack # <<>> /\ DOMAIN stack = 1..Len(k.stack) + 1
  BY <1>2, <1>4, <1>5
<1>7. ASSUME NEW i \in DOMAIN stack
      PROVE  /\ stack[i].layer \in 1..Len(k.rest) + 1
             /\ stack[i].mode # "model" => stack[i].layer <= Len(k.rest)
  <2>1. CASE i = Len(k.stack) + 1
    BY <1>2, <1>4, <1>5, <2>1
  <2>2. CASE i # Len(k.stack) + 1
    <3>1. i \in DOMAIN k.stack /\ stack[i] = k.stack[i]
      BY <1>2, <1>4, <1>5, <1>6, <2>2
    <3>. QED  BY <3>1 DEF FramesInv
  <2>. QED  BY <2>1, <2>2
<1>8. PICK d : d = Deeper(k)
  OBVIOUS
<1>9. d = [k EXCEPT !.stack = stack, !.signal = "none"]
  BY <1>1, <1>5, <1>8 DEF Deeper
<1>10. /\ d \in Calls /\ d.stack = stack /\ d.rest = k.rest /\ d.kind = "wrapper"
  BY <1>6, <1>9 DEF Calls
<1>11. Sound(d)
  BY <1>6, <1>7, <1>10 DEF Sound, FramesInv
<1>. QED  BY <1>8, <1>10, <1>11

\* Whom the top frame returns to is below it.
LEMMA NearestType ==
    ASSUME NEW stack \in Seq(Frames), stack # <<>>
    PROVE  Nearest(stack) \in 0..Len(stack) - 1
<1>1. Len(stack) \in Nat \ {0}
  OBVIOUS
<1>2. CASE Running(stack) = {}
  BY <1>1, <1>2 DEF Nearest
<1>3. CASE Running(stack) # {}
  <2>1. Running(stack) \in SUBSET (1..Len(stack) - 1)
    BY DEF Running
  <2> DEFINE Above == {m \in Nat : \A i \in Running(stack) : i <= m}
  <2>2. Len(stack) \in Above
    BY <1>1, <2>1
  <2>3. PICK m \in Above : \A j \in Above : m <= j
    BY <2>2, Least
  <2>4. m \in Running(stack)
    <3>1. PICK r \in Running(stack) : TRUE
      BY <1>3
    <3>2. r \in Nat \ {0} /\ r <= m /\ m \in Nat
      BY <2>1, <2>3, <3>1
    <3>3. m - 1 \in Nat /\ ~(m <= m - 1)
      BY <3>2
    <3>4. m - 1 \notin Above
      BY <2>3, <3>3
    <3>5. PICK i \in Running(stack) : ~(i <= m - 1)
      BY <3>3, <3>4
    <3>6. i \in Nat /\ i <= m
      BY <2>1, <2>3, <3>5
    <3>7. i = m
      BY <3>2, <3>5, <3>6
    <3>. QED  BY <3>5, <3>7
  <2>5. Nearest(stack) \in Running(stack)
    BY <1>3, <2>3, <2>4 DEF Nearest
  <2>. QED  BY <1>1, <2>1, <2>5
<1>. QED  BY <1>2, <1>3

LEMMA ReturnedIsSound ==
    ASSUME NEW k \in Calls, FramesInv(k), k.kind = "wrapper", k.stack # <<>>,
           NEW signal \in {"ok", "raise"}, signal = "raise" => k.answer = "failed"
    PROVE  Sound(Returned(k, signal)) /\ Returned(k, signal).kind = "wrapper"
<1>1. PICK j : j = Nearest(k.stack)
  OBVIOUS
<1>2. k.stack \in Seq(Frames) /\ j \in 0..Len(k.stack) - 1 /\ Len(k.stack) \in Nat
  <2>1. k.stack \in Seq(Frames)
    BY DEF Calls
  <2>. QED  BY <1>1, <2>1, NearestType
<1>3. PICK stack : stack = SubSeq(k.stack, 1, j)
  OBVIOUS
<1>4. /\ stack \in Seq(Frames) /\ DOMAIN stack = 1..j
      /\ \A i \in DOMAIN stack : i \in DOMAIN k.stack /\ stack[i] = k.stack[i]
  <2>1. \A i \in 1..j : i \in DOMAIN k.stack /\ k.stack[i] \in Frames
    BY <1>2
  <2>2. stack = [i \in 1..j |-> k.stack[i]]
    BY <1>2, <1>3
  <2>3. stack \in [1..j -> Frames]
    BY <2>1, <2>2
  <2>. QED  BY <1>2, <2>1, <2>2, <2>3
<1>5. PICK q : q = Returned(k, signal)
  OBVIOUS
<1>6. q = [k EXCEPT !.stack = stack, !.signal = signal]
  BY <1>1, <1>3, <1>5 DEF Returned
<1>7. /\ q \in Calls /\ q.stack = stack /\ q.rest = k.rest /\ q.kind = "wrapper"
      /\ q.signal = signal /\ q.answer = k.answer
  BY <1>4, <1>6 DEF Calls
<1>8. FramesInv(q)
  BY <1>4, <1>7 DEF FramesInv
<1>9. Sound(q)
  BY <1>7, <1>8 DEF Sound
<1>. QED  BY <1>5, <1>7, <1>9

\* The frame on top, changed but for its layer.
LEMMA TopIsSound ==
    ASSUME NEW k \in Calls, FramesInv(k), k.kind = "wrapper", k.stack # <<>>,
           NEW frame \in Frames, frame.layer = k.stack[Len(k.stack)].layer,
           frame.mode # "model" \/ k.stack[Len(k.stack)].mode = "model" \/ frame.layer \in 1..Len(k.rest),
           k.stack[Len(k.stack)].mode = "model" => frame.mode = "model",
           NEW q, q = [k EXCEPT !.stack = [k.stack EXCEPT ![Len(k.stack)] = frame]]
    PROVE  /\ q \in Calls /\ FramesInv(q) /\ q.kind = "wrapper" /\ q.stack # <<>> /\ q.rest = k.rest
           /\ Len(q.stack) = Len(k.stack) /\ q.stack[Len(q.stack)] = frame
<1>1. k.rest \in Seq(Handlers) /\ k.stack \in Seq(Frames)
  BY DEF Calls
<1>2. Len(k.stack) \in DOMAIN k.stack /\ DOMAIN k.stack = 1..Len(k.stack)
  BY <1>1
<1>3. PICK stack : stack = [k.stack EXCEPT ![Len(k.stack)] = frame]
  OBVIOUS
<1>4. /\ stack \in Seq(Frames) /\ Len(stack) = Len(k.stack) /\ stack # <<>> /\ DOMAIN stack = DOMAIN k.stack
      /\ stack[Len(k.stack)] = frame /\ \A i \in DOMAIN stack : i # Len(k.stack) => stack[i] = k.stack[i]
  BY <1>1, <1>2, <1>3
<1>5. q \in Calls /\ q.stack = stack /\ q.kind = "wrapper" /\ q.rest = k.rest
  BY <1>3, <1>4 DEF Calls
<1>6. FramesInv(q)
  BY <1>2, <1>4, <1>5 DEF FramesInv
<1>. QED  BY <1>4, <1>5, <1>6

\* A layer's step: what it wraps is called, or it returns, or it falls back.
LEMMA LayerFrame ==
    ASSUME CallInv, NEW c \in Callers, InLayer(c)
    PROVE  /\ call[c] \in Calls /\ FramesInv(call[c]) /\ call[c].kind = "wrapper" /\ call[c].stack # <<>>
           /\ Top(c) \in Frames /\ Top(c).mode = "handler" /\ Top(c).layer \in 1..Len(call[c].rest)
           /\ call[c].rest \in Seq(Handlers) /\ pending = {}
<1>1. /\ call[c] \in Calls /\ FramesInv(call[c]) /\ call[c].kind = "wrapper" /\ call[c].stack # <<>>
      /\ pending = {}
  BY DEF CallInv, InLayer, Sound
<1>2. call[c].rest \in Seq(Handlers) /\ call[c].stack \in Seq(Frames)
  BY <1>1 DEF Calls
<1>3. Len(call[c].stack) \in DOMAIN call[c].stack
  BY <1>1, <1>2
<1>4. Top(c) \in Frames /\ Top(c).mode = "handler"
  BY <1>2, <1>3 DEF Top, InLayer
<1>5. Top(c).layer \in 1..Len(call[c].rest) + 1 /\ Top(c).layer <= Len(call[c].rest)
  BY <1>1, <1>3, <1>4 DEF FramesInv, Top
<1>. QED  BY <1>1, <1>2, <1>4, <1>5

LEMMA ModelFrame ==
    ASSUME CallInv, NEW c \in Callers, InModel(c)
    PROVE  /\ call[c] \in Calls /\ FramesInv(call[c]) /\ call[c].kind = "wrapper" /\ call[c].stack # <<>>
           /\ Top(c) \in Frames /\ Top(c).mode = "model" /\ pending = {}
<1>1. /\ call[c] \in Calls /\ FramesInv(call[c]) /\ call[c].kind = "wrapper" /\ call[c].stack # <<>>
      /\ pending = {}
  BY DEF CallInv, InModel, Sound
<1>2. call[c].stack \in Seq(Frames)
  BY <1>1 DEF Calls
<1>3. Len(call[c].stack) \in DOMAIN call[c].stack
  BY <1>1, <1>2
<1>. QED  BY <1>1, <1>2, <1>3 DEF Top, InModel

LEMMA CallsNextKeeps ==
    ASSUME CallInv, NEW c \in Callers, CallsNext(c)
    PROVE  CallInv'
<1>1. PICK k, top : k = call[c] /\ top = Top(c)
  OBVIOUS
<1>2. /\ k \in Calls /\ FramesInv(k) /\ k.kind = "wrapper" /\ k.stack # <<>>
      /\ top \in Frames /\ top.mode = "handler" /\ top.layer \in 1..Len(k.rest)
      /\ k.rest \in Seq(Handlers) /\ pending = {}
  BY <1>1, LayerFrame DEF CallsNext
<1>3. top = k.stack[Len(k.stack)]
  BY <1>1 DEF Top
<1>4. PICK frame : frame = [top EXCEPT !.n = @ + 1]
  OBVIOUS
<1>5. frame \in Frames /\ frame.layer = top.layer /\ frame.mode = "handler"
  BY <1>2, <1>4 DEF Frames
<1>6. PICK q : q = Again(k)
  OBVIOUS
<1>7. q = [k EXCEPT !.stack = [k.stack EXCEPT ![Len(k.stack)] = frame]]
  BY <1>3, <1>4, <1>6 DEF Again
<1>8. /\ q \in Calls /\ FramesInv(q) /\ q.kind = "wrapper" /\ q.stack # <<>> /\ q.rest = k.rest
      /\ q.stack[Len(q.stack)] = frame
  BY <1>2, <1>3, <1>5, <1>7, TopIsSound
<1>9. Sound(Deeper(q)) /\ Deeper(q).kind = "wrapper"
  <2>1. q.stack[Len(q.stack)].layer <= Len(q.rest)
    BY <1>2, <1>5, <1>8
  <2>. QED  BY <1>8, <2>1, DeeperIsSound
<1>10. call' = [call EXCEPT ![c] = Deeper(q)] /\ UNCHANGED <<pending, log>>
  BY <1>1, <1>6 DEF CallsNext, booted
<1>. QED  BY <1>1, <1>2, <1>9, <1>10, CallGoesOn

LEMMA LayerReturnsKeeps ==
    ASSUME CallInv, NEW c \in Callers, LayerReturns(c)
    PROVE  CallInv'
<1>1. PICK k : k = call[c]
  OBVIOUS
<1>2. k \in Calls /\ FramesInv(k) /\ k.kind = "wrapper" /\ k.stack # <<>> /\ pending = {}
  BY <1>1, LayerFrame DEF LayerReturns
<1>3. Sound(Returned(k, "ok")) /\ Returned(k, "ok").kind = "wrapper"
  BY <1>2, ReturnedIsSound
<1>4. call' = [call EXCEPT ![c] = Returned(k, "ok")] /\ UNCHANGED <<pending, log>>
  BY <1>1 DEF LayerReturns, booted
<1>. QED  BY <1>1, <1>2, <1>3, <1>4, CallGoesOn

LEMMA LayerRaisesKeeps ==
    ASSUME CallInv, NEW c \in Callers, LayerRaises(c)
    PROVE  CallInv'
<1>1. PICK k, top : k = call[c] /\ top = Top(c)
  OBVIOUS
<1>2. /\ k \in Calls /\ FramesInv(k) /\ k.kind = "wrapper" /\ k.stack # <<>>
      /\ top \in Frames /\ top.mode = "handler" /\ top.layer \in 1..Len(k.rest)
      /\ k.rest \in Seq(Handlers) /\ pending = {}
  BY <1>1, LayerFrame DEF LayerRaises
<1>3. top = k.stack[Len(k.stack)]
  BY <1>1 DEF Top
<1>4. PICK frame : frame = [top EXCEPT !.mode = "fallback"]
  OBVIOUS
<1>5. frame \in Frames /\ frame.layer = top.layer /\ frame.mode = "fallback"
  BY <1>2, <1>4 DEF Frames
<1>6. PICK q : q = [k EXCEPT !.stack[Len(k.stack)].mode = "fallback"]
  OBVIOUS
<1>7. q = [k EXCEPT !.stack = [k.stack EXCEPT ![Len(k.stack)] = frame]]
  BY <1>3, <1>4, <1>6
<1>8. /\ q \in Calls /\ FramesInv(q) /\ q.kind = "wrapper" /\ q.stack # <<>> /\ q.rest = k.rest
      /\ q.stack[Len(q.stack)] = frame
  BY <1>2, <1>3, <1>5, <1>7, TopIsSound
<1>9. Sound(Deeper(q)) /\ Deeper(q).kind = "wrapper"
  <2>1. q.stack[Len(q.stack)].layer <= Len(q.rest)
    BY <1>2, <1>5, <1>8
  <2>. QED  BY <1>8, <2>1, DeeperIsSound
<1>10. call' = [call EXCEPT ![c] = Deeper(q)] /\ UNCHANGED <<pending, log>>
  BY <1>1, <1>6 DEF LayerRaises, booted, FellBack
<1>. QED  BY <1>1, <1>2, <1>9, <1>10, CallGoesOn

LEMMA ModelKeeps ==
    ASSUME CallInv, NEW c \in Callers, ModelAnswers(c) \/ ModelFails(c) \/ ModelRetried(c)
    PROVE  CallInv'
<1>1. PICK k, top : k = call[c] /\ top = Top(c)
  OBVIOUS
<1>2. /\ k \in Calls /\ FramesInv(k) /\ k.kind = "wrapper" /\ k.stack # <<>>
      /\ top \in Frames /\ top.mode = "model" /\ pending = {}
  BY <1>1, ModelFrame DEF ModelAnswers, ModelFails, ModelRetried
<1>3. UNCHANGED <<pending, log>>
  BY DEF ModelAnswers, ModelFails, ModelRetried, booted
<1>4. ASSUME NEW signal \in {"ok", "raise"}, NEW answer \in {"ok", "failed"},
             signal = "raise" => answer = "failed",
             call' = [call EXCEPT ![c] = Returned([@ EXCEPT !.answer = answer], signal)]
      PROVE  CallInv'
  <2>1. PICK q : q = [k EXCEPT !.answer = answer]
    OBVIOUS
  <2>2. /\ q \in Calls /\ FramesInv(q) /\ q.kind = "wrapper" /\ q.stack # <<>> /\ q.answer = answer
    BY <1>2, <2>1 DEF Calls, FramesInv
  <2>3. Sound(Returned(q, signal)) /\ Returned(q, signal).kind = "wrapper"
    BY <1>4, <2>2, ReturnedIsSound
  <2>4. call' = [call EXCEPT ![c] = Returned(q, signal)]
    BY <1>1, <1>4, <2>1
  <2>. QED  BY <1>1, <1>2, <1>3, <2>3, <2>4, CallGoesOn
<1>5. CASE ModelAnswers(c)
  BY <1>4, <1>5 DEF ModelAnswers
<1>6. CASE ModelFails(c)
  BY <1>4, <1>6 DEF ModelFails
<1>7. CASE ModelRetried(c)
  <2>1. top = k.stack[Len(k.stack)]
    BY <1>1 DEF Top
  <2>2. PICK frame : frame = [top EXCEPT !.n = @ + 1]
    OBVIOUS
  <2>3. frame \in Frames /\ frame.layer = top.layer /\ frame.mode = "model"
    BY <1>2, <2>2 DEF Frames
  <2>4. PICK q : q = Again(k)
    OBVIOUS
  <2>5. q = [k EXCEPT !.stack = [k.stack EXCEPT ![Len(k.stack)] = frame]]
    BY <2>1, <2>2, <2>4 DEF Again
  <2>6. q \in Calls /\ FramesInv(q) /\ q.kind = "wrapper" /\ q.stack # <<>>
    BY <1>2, <2>1, <2>3, <2>5, TopIsSound
  <2>7. Sound(q)
    BY <2>6 DEF Sound
  <2>8. call' = [call EXCEPT ![c] = q]
    BY <1>1, <1>7, <2>4 DEF ModelRetried
  <2>. QED  BY <1>1, <1>2, <1>3, <2>6, <2>7, <2>8, CallGoesOn
<1>. QED  BY <1>5, <1>6, <1>7

LEMMA BeginKeeps ==
    ASSUME RegistryInv, CallInv, NEW c \in Callers, Begin(c)
    PROVE  CallInv'
<1>12. PICK kind \in {"filter", "strict_filter", "action", "wrapper"} :
         LET called == ordered(IF kind = "strict_filter" THEN "filter" ELSE kind)
         IN  call' = [call EXCEPT ![c] = [NoCall EXCEPT !.kind = kind, !.rest = called,
                                           !.stack = IF kind = "wrapper" THEN <<Frame(called, 1)>> ELSE <<>>]]
  BY Zenon DEF Begin
<1>1. PICK called :
         /\ called = ordered(IF kind = "strict_filter" THEN "filter" ELSE kind)
         /\ call' = [call EXCEPT ![c] = [NoCall EXCEPT !.kind = kind, !.rest = called,
                                           !.stack = IF kind = "wrapper" THEN <<Frame(called, 1)>> ELSE <<>>]]
  BY <1>12
<1>2. pending = {} /\ call[c].kind = "none" /\ UNCHANGED <<pending, log>>
  BY DEF Begin, booted
<1>3. called \in Seq(Handlers)
  BY <1>1, OrderedHandlers DEF Kinds
<1>4. /\ Frame(called, 1) \in Frames /\ Frame(called, 1).layer = 1
      /\ Frame(called, 1).mode # "model" => 1 <= Len(called)
  <2>1. 1 \in 1..Len(called) + 1
    <3>1. Len(called) \in Nat
      BY <1>3, LenProperties
    <3>. QED  BY <3>1
  <2>. QED  BY <1>3, <2>1, FrameType
<1>5. PICK stack : stack = IF kind = "wrapper" THEN <<Frame(called, 1)>> ELSE <<>>
  OBVIOUS
<1>6. /\ stack \in Seq(Frames)
      /\ stack # <<>> <=> kind = "wrapper"
      /\ \A i \in DOMAIN stack : stack[i] = Frame(called, 1)
  <2>1. CASE kind = "wrapper"
    BY <1>4, <1>5, <2>1
  <2>2. CASE kind # "wrapper"
    BY <1>5, <2>2
  <2>. QED  BY <2>1, <2>2
<1>7. PICK k : k = [NoCall EXCEPT !.kind = kind, !.rest = called, !.stack = stack]
  OBVIOUS
<1>8. /\ k.kind = kind /\ k.rest = called /\ k.stack = stack /\ k.signal = "none" /\ k.answer = "none"
      /\ k.plugin = Nobody /\ k \in Calls
  <2>1. NoCall \in Calls
    BY NoCallIsSound DEF Sound
  <2>2. NoCall.signal = "none" /\ NoCall.answer = "none" /\ NoCall.plugin = Nobody
    BY DEF NoCall
  <2>3. PICK none : none = NoCall
    OBVIOUS
  <2>4. kind \in Kinds \cup {"none", "strict_filter", "command"}
    BY DEF Kinds
  <2>5. k \in Calls
    BY <1>3, <1>6, <1>7, <2>1, <2>3, <2>4 DEF Calls
  <2>. QED  BY <1>7, <2>1, <2>2, <2>3, <2>5 DEF Calls
<1>9. FramesInv(k)
  <2>1. 1 \in 1..Len(called) + 1
    <3>1. Len(called) \in Nat
      BY <1>3, LenProperties
    <3>. QED  BY <3>1
  <2>. QED  BY <1>4, <1>6, <1>8, <2>1 DEF FramesInv
<1>10. Sound(k)
  BY <1>6, <1>8, <1>9 DEF Sound
<1>11. call' = [call EXCEPT ![c] = k]
  BY <1>1, <1>5, <1>7
<1>. QED  BY <1>1, <1>2, <1>8, <1>10, <1>11, CallGoesOn

LEMMA HandlerKeeps ==
    ASSUME CallInv, NEW c \in Callers, HandlerReturns(c) \/ HandlerRaises(c) \/ End(c)
    PROVE  CallInv'
<1>1. /\ Sound(call[c]) /\ call[c].kind \notin {"none", "command"} /\ UNCHANGED <<pending, log>>
      /\ call[c].kind # "none" => pending = {}
  BY DEF CallInv, HandlerReturns, HandlerRaises, End, booted
<1>2. CASE call' = [call EXCEPT ![c] = NoCall]
  <2>1. NoCall.kind = "none" /\ Sound(NoCall)
    BY NoCallIsSound DEF NoCall
  <2>. QED  BY <1>1, <1>2, <2>1, CallGoesOn
<1>3. CASE /\ call[c].kind \in {"filter", "strict_filter", "action"} /\ call[c].rest # <<>>
           /\ call' = [call EXCEPT ![c] = Passed(call[c])]
  <2>1. PICK k : k = call[c]
    OBVIOUS
  <2>2. PICK q : q = Passed(k)
    OBVIOUS
  <2>3. k \in Calls /\ k.kind \in {"filter", "strict_filter", "action"} /\ k.stack = <<>> /\ k.rest # <<>>
    BY <1>1, <1>3, <2>1 DEF Sound
  <2>4. Tail(k.rest) \in Seq(Handlers)
    <3>1. k.rest \in Seq(Handlers)
      BY <2>3 DEF Calls
    <3>. QED  BY <2>3, <3>1, HeadTailProperties
  <2>5. q \in Calls /\ q.kind = k.kind /\ q.stack = <<>>
    BY <2>2, <2>3, <2>4 DEF Calls, Passed
  <2>6. Sound(q)
    <3>1. q.kind # "wrapper" /\ DOMAIN <<>> = {}
      BY <2>3, <2>5
    <3>. QED  BY <2>5, <3>1 DEF Sound, FramesInv
  <2>7. call' = [call EXCEPT ![c] = q]
    BY <1>3, <2>1, <2>2
  <2>. QED  BY <1>1, <2>1, <2>3, <2>5, <2>6, <2>7, CallGoesOn
<1>4. CASE HandlerReturns(c)
  BY <1>3, <1>4 DEF HandlerReturns
<1>5. CASE HandlerRaises(c)
  <2>1. CASE call[c].kind = "strict_filter"
    BY <1>2, <1>5, <2>1 DEF HandlerRaises
  <2>2. CASE call[c].kind # "strict_filter"
    BY <1>3, <1>5, <2>2 DEF HandlerRaises
  <2>. QED  BY <2>1, <2>2
<1>6. CASE End(c)
  BY <1>2, <1>6 DEF End
<1>. QED  BY <1>4, <1>5, <1>6

LEMMA CommandKeeps ==
    ASSUME RegistryInv, CallInv, NEW c \in Callers,
           execute_command(c) \/ CommandBegins(c) \/ CommandRuns(c) \/ CommandEnds(c)
    PROVE  CallInv'
<1>1. UNCHANGED pending /\ NoCall.kind = "none" /\ Sound(NoCall)
  BY NoCallIsSound DEF execute_command, CommandBegins, CommandRuns, CommandEnds, booted, NoCall
<1>2. CASE execute_command(c)
  <2>1. PICK p : /\ p \in Int
                 /\ call' = [call EXCEPT ![c] = [NoCall EXCEPT !.kind = "command", !.plugin = p]]
    <3>1. PICK n \in Names :
             call' = [call EXCEPT ![c] = [NoCall EXCEPT !.kind = "command", !.plugin = commands[n]]]
      BY <1>2 DEF execute_command
    <3>2. commands[n] \in Int
      BY DEF RegistryInv
    <3>. QED  BY <3>1, <3>2
  <2>2. PICK k : k = [NoCall EXCEPT !.kind = "command", !.plugin = p]
    OBVIOUS
  <2>3. k.kind = "command" /\ k.signal = "none" /\ k.stack = <<>> /\ k \in Calls
    <3>1. NoCall \in Calls
      BY <1>1 DEF Sound
    <3>2. NoCall.signal = "none" /\ NoCall.stack = <<>>
      BY DEF NoCall
    <3>. QED  BY <2>1, <2>2, <3>1, <3>2 DEF Calls
  <2>4. Sound(k)
    BY <2>3 DEF Sound, FramesInv
  <2>5. call[c].kind = "none" /\ pending = {} /\ UNCHANGED log /\ call' = [call EXCEPT ![c] = k]
    BY <1>2, <2>1, <2>2 DEF execute_command
  <2>. QED  BY <1>1, <2>3, <2>4, <2>5, CallGoesOn
<1>3. ASSUME NEW signal \in {"logged", "running"}, call[c].kind = "command",
             call' = [call EXCEPT ![c].signal = signal],
             log' = [log EXCEPT ![c] = TRUE]
      PROVE  CallInv'
  <2>1. PICK k : k = call[c]
    OBVIOUS
  <2>2. PICK q : q = [k EXCEPT !.signal = signal]
    OBVIOUS
  <2>3. k \in Calls /\ k.stack = <<>> /\ k.kind = "command" /\ pending = {}
    BY <1>3, <2>1 DEF CallInv, Sound
  <2>4. q \in Calls /\ q.stack = <<>> /\ q.kind = "command" /\ q.signal = signal
    BY <2>2, <2>3 DEF Calls
  <2>5. Sound(q)
    BY <2>4 DEF Sound, FramesInv
  <2>6. call' = [call EXCEPT ![c] = q]
    BY <1>3, <2>1, <2>2
  <2>7. log' = [log EXCEPT ![c] = (q.kind = "command" /\ q.signal # "none")]
    BY <1>3, <2>4
  <2>. QED  BY <1>1, <2>3, <2>5, <2>6, <2>7, CallChanges
<1>4. ASSUME call' = [call EXCEPT ![c] = NoCall], log' = [log EXCEPT ![c] = FALSE]
      PROVE  CallInv'
  <2>1. log' = [log EXCEPT ![c] = (NoCall.kind = "command" /\ NoCall.signal # "none")]
    BY <1>1, <1>4
  <2>. QED  BY <1>1, <1>4, <2>1, CallChanges
<1>5. CASE CommandBegins(c)
  <2>1. CASE call' = [call EXCEPT ![c].signal = "logged"] /\ log' = [log EXCEPT ![c] = TRUE]
    BY <1>3, <1>5, <2>1 DEF CommandBegins
  <2>2. CASE call' = [call EXCEPT ![c] = NoCall] /\ UNCHANGED log
    <3>1. call[c].signal = "none"
      BY <1>5 DEF CommandBegins
    <3>. QED  BY <1>1, <2>2, <3>1, CallGoesOn
  <2>. QED  BY <1>5, <2>1, <2>2 DEF CommandBegins
<1>6. CASE CommandRuns(c)
  <2>1. call[c].kind = "command" /\ call[c].signal = "logged" /\ UNCHANGED log
    BY <1>6 DEF CommandRuns
  <2>2. log' = [log EXCEPT ![c] = TRUE]
    BY <2>1 DEF CallInv
  <2>. QED  BY <1>3, <1>6, <2>1, <2>2 DEF CommandRuns
<1>7. CASE CommandEnds(c)
  BY <1>4, <1>7 DEF CommandEnds
<1>. QED  BY <1>2, <1>5, <1>6, <1>7

-----------------------------------------------------------------------------
HostInv == RegistryInv /\ CallInv

LEMMA HostInvInit == HostInit => HostInv
<1> SUFFICES ASSUME HostInit
             PROVE  CallInv
  BY RegistryInit DEF HostInv
<1>1. call = [c \in Callers |-> NoCall] /\ log = [c \in Callers |-> FALSE] /\ NoCall.kind = "none"
  BY DEF HostInit, NoCall
<1>2. NoCall \in Calls /\ Sound(NoCall)
  BY NoCallIsSound DEF Sound
<1>. QED  BY <1>1, <1>2 DEF CallInv

\* What raises is a plugin's, and none is being set up.
LEMMA HostInvNext == HostInv /\ [HostNext]_hostVars => HostInv'
<1> SUFFICES ASSUME HostInv, [HostNext]_hostVars
             PROVE  HostInv'
  OBVIOUS
<1>1. RegistryInv /\ CallInv
  BY DEF HostInv
<1>2. ASSUME UNCHANGED <<booted, registry>>
      PROVE  RegistryInv'
  <2>1. UNCHANGED <<manifests, pending, loaded, setup, disabled, registrations, owners, commands>>
    BY <1>2 DEF booted, registry
  <2>. QED  BY <1>1, <2>1 DEF RegistryInv, HooksHaveAnOrder
<1>3. ASSUME UNCHANGED <<call, log>>, pending' \subseteq pending
      PROVE  CallInv'
  BY <1>1, <1>3 DEF CallInv, Sound, FramesInv
<1>4. CASE BootTurn \/ GivesUp \/ Asks \/ Load
  <2>1. RegistryInv'
    BY <1>1, <1>4, BootTurnKeeps, GivesUpKeeps, AsksKeeps, LoadKeeps
  <2>2. UNCHANGED <<call, log>> /\ pending' \subseteq pending
    BY <1>4 DEF BootTurn, GivesUp, Asks, Load
  <2>. QED  BY <1>3, <2>1, <2>2 DEF HostInv
<1>5. ASSUME NEW c \in Callers
      PROVE  /\ HandlerRaises(c) => RegistryInv'
             /\ LayerRaises(c) => RegistryInv'
  <2>1. HandlerRaises(c) => RegistryInv'
    <3> SUFFICES ASSUME HandlerRaises(c)
                 PROVE  RegistryInv'
      OBVIOUS
    <3>1. Sound(call[c]) /\ call[c].rest # <<>> /\ pending = {}
      BY <1>1 DEF HandlerRaises, CallInv
    <3>2. call[c].rest \in Seq(Handlers)
      BY <3>1 DEF Sound, Calls
    <3>3. Head(call[c].rest) \in Handlers
      BY <3>1, <3>2
    <3>4. PICK p \in Plugins : p = Head(call[c].rest).plugin
      BY <3>3 DEF Handlers
    <3>5. disable_for_boot(p) /\ UNCHANGED booted
      BY <3>4 DEF HandlerRaises
    <3>. QED  BY <1>1, <3>1, <3>5, RaiseKeeps
  <2>2. LayerRaises(c) => RegistryInv'
    <3> SUFFICES ASSUME LayerRaises(c)
                 PROVE  RegistryInv'
      OBVIOUS
    <3>1. Top(c).layer \in 1..Len(call[c].rest) /\ call[c].rest \in Seq(Handlers) /\ pending = {}
      BY <1>1, LayerFrame DEF LayerRaises
    <3>2. call[c].rest[Top(c).layer] \in Handlers
      BY <3>1
    <3>3. PICK p \in Plugins : p = call[c].rest[Top(c).layer].plugin
      BY <3>2 DEF Handlers
    <3>4. disable_for_boot(p) /\ UNCHANGED booted
      BY <3>3 DEF LayerRaises
    <3>. QED  BY <1>1, <3>1, <3>4, RaiseKeeps
  <2>. QED  BY <2>1, <2>2
<1>6. CASE \E c \in Callers : HandlerRaises(c) \/ LayerRaises(c)
  BY <1>1, <1>5, <1>6, HandlerKeeps, LayerRaisesKeeps DEF HostInv
<1>7. CASE \E c \in Callers : Begin(c) \/ HandlerReturns(c) \/ End(c)
  <2>1. UNCHANGED <<booted, registry>>
    BY <1>7 DEF Begin, HandlerReturns, End
  <2>. QED  BY <1>1, <1>2, <1>7, <2>1, BeginKeeps, HandlerKeeps DEF HostInv
<1>8. CASE \E c \in Callers : CallsNext(c) \/ LayerReturns(c) \/ ModelAnswers(c) \/ ModelRetried(c) \/ ModelFails(c)
  <2>1. UNCHANGED <<booted, registry>>
    BY <1>8 DEF CallsNext, LayerReturns, ModelAnswers, ModelRetried, ModelFails
  <2>. QED  BY <1>1, <1>2, <1>8, <2>1, CallsNextKeeps, LayerReturnsKeeps, ModelKeeps DEF HostInv
<1>9. CASE \E c \in Callers : execute_command(c) \/ CommandBegins(c) \/ CommandRuns(c) \/ CommandEnds(c)
  <2>1. UNCHANGED <<booted, registry>>
    BY <1>9 DEF execute_command, CommandBegins, CommandRuns, CommandEnds
  <2>. QED  BY <1>1, <1>2, <1>9, <2>1, CommandKeeps DEF HostInv
<1>10. CASE UNCHANGED hostVars
  <2>1. UNCHANGED <<booted, registry, call, log, pending>>
    BY <1>10 DEF hostVars, booted, registry
  <2>. QED  BY <1>2, <1>3, <2>1 DEF HostInv
<1>. QED  BY <1>4, <1>6, <1>7, <1>8, <1>9, <1>10 DEF HostNext

LEMMA HostInvHolds == HostSpec => []HostInv
BY HostInvInit, HostInvNext, PTL DEF HostSpec

\* TYPE CORRECTNESS: a plugin is pending, loaded or disabled, and only a loaded one, or
\* the one whose setup is running, has hooks and slash names (PluginHost, disable_for_boot).
THEOREM WhoIsDisabledHasNothing == HostSpec => []TypeOK
<1>1. HostInv => TypeOK
  BY Zenon DEF HostInv, RegistryInv, CallInv, Sound, TypeOK
<1>. QED  BY <1>1, HostInvHolds, PTL

\* THE ORDER OF A HOOK: whatever was registered, refused and disabled, and in whatever
\* order, the handlers of a hook can be ordered, so that a call never fails for it (ordered).
THEOREM HooksCanBeCalled == HostSpec => []HooksHaveAnOrder
<1>1. HostInv => HooksHaveAnOrder
  BY DEF HostInv, RegistryInv
<1>. QED  BY <1>1, HostInvHolds, PTL

\* THE LAYERS OF A MODEL CALL: it fails only if the model failed under all the layers, last
\* of all; no plugin's error is the turn's (call_wrapped).
THEOREM OnlyTheModelFails == HostSpec => []FailureIsTheModels
<1>1. HostInv => FailureIsTheModels
  BY DEF HostInv, CallInv, Sound, FailureIsTheModels
<1>. QED  BY <1>1, HostInvHolds, PTL
=============================================================================
