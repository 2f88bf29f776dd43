-------------------------- MODULE Analysis_proofs --------------------------
(***************************************************************************)
(* Proofs about the scores, for any facts there may be of a program, a     *)
(* token, a person or an agent.  The scorers are piecewise linear: each    *)
(* is shown to follow its inputs, and the invariants compare two answers   *)
(* of the same scorer.                                                     *)
(***************************************************************************)
EXTENDS Analysis, FiniteSetTheorems, TLAPS

-----------------------------------------------------------------------------
(***************************************************************************)
(* Arithmetic.                                                             *)
(***************************************************************************)
\* What a dimension may be.
Points == 0 .. 10000

LEMMA PointsAreIntegers ==
    \A z \in Points : z \in Int /\ 0 <= z /\ z <= 10000
BY DEF Points

LEMMA IsPoints ==
    ASSUME NEW z \in Int, 0 <= z, z <= 10000
    PROVE  z \in Points
BY SMTT(30) DEF Points

LEMMA LeastIs ==
    ASSUME NEW S \in SUBSET Int, NEW a \in S, \A b \in S : a <= b
    PROVE  Min(S) = a
<1> PICK m : m = Min(S)
  OBVIOUS
<1>1. m \in S /\ \A b \in S : m <= b
  BY DEF Min
<1>2. m <= a /\ a <= m /\ m \in Int /\ a \in Int
  BY <1>1
<1> QED
  BY <1>2

LEMMA GreatestIs ==
    ASSUME NEW S \in SUBSET Int, NEW a \in S, \A b \in S : b <= a
    PROVE  Max(S) = a
<1> PICK m : m = Max(S)
  OBVIOUS
<1>1. m \in S /\ \A b \in S : b <= m
  BY DEF Max
<1>2. m <= a /\ a <= m /\ m \in Int /\ a \in Int
  BY <1>1
<1> QED
  BY <1>2

LEMMA LeastAndGreatest ==
    ASSUME NEW a \in Int, NEW b \in Int
    PROVE  /\ Min({a, b}) = (IF a <= b THEN a ELSE b)
           /\ Max({a, b}) = (IF a <= b THEN b ELSE a)
<1> PICK S : S = {a, b}
  OBVIOUS
<1>1. S \in SUBSET Int /\ a \in S /\ b \in S /\ \A c \in S : c = a \/ c = b
  OBVIOUS
<1>2. CASE a <= b
  <2>1. (\A c \in S : a <= c) /\ (\A c \in S : c <= b)
    BY <1>1, <1>2
  <2>2. Min(S) = a /\ Max(S) = b
    BY <1>1, <2>1, LeastIs, GreatestIs
  <2> QED
    BY <1>2, <2>2
<1>3. CASE ~(a <= b)
  <2>1. (\A c \in S : b <= c) /\ (\A c \in S : c <= a)
    BY <1>1, <1>3
  <2>2. Min(S) = b /\ Max(S) = a
    BY <1>1, <2>1, LeastIs, GreatestIs
  <2> QED
    BY <1>3, <2>2
<1> QED
  BY <1>2, <1>3

LEMMA GreatestInt ==
    ASSUME NEW a \in Int, NEW b \in Int
    PROVE  Max({a, b}) \in Int
<1>1. Max({a, b}) = (IF a <= b THEN b ELSE a)
  BY LeastAndGreatest
<1> QED
  BY <1>1

LEMMA PositivePart ==
    ASSUME NEW x \in Int
    PROVE  /\ Max({0, x}) \in Int
           /\ \A y \in Int : x <= y => Max({0, x}) <= Max({0, y})
<1>1. 0 \in Int
  OBVIOUS
<1>2. Max({0, x}) = IF 0 <= x THEN x ELSE 0
  BY <1>1, LeastAndGreatest
<1>3. ASSUME NEW y \in Int, x <= y PROVE Max({0, x}) <= Max({0, y})
  <2>1. Max({0, y}) = IF 0 <= y THEN y ELSE 0
    BY <1>1, LeastAndGreatest
  <2> QED
    BY <1>2, <1>3, <2>1
<1> QED
  BY <1>2, <1>3

LEMMA AtMostIs ==
    ASSUME NEW bound \in Int, NEW x \in Int
    PROVE  AtMost(bound, x) = (IF x < bound THEN x ELSE bound) /\ AtMost(bound, x) \in Int
<1>1. Min({bound, x}) = (IF bound <= x THEN bound ELSE x)
  BY LeastAndGreatest
<1> QED
  BY <1>1 DEF AtMost

LEMMA ClampIs ==
    ASSUME NEW x \in Int
    PROVE  /\ Clamp(x) = (IF x < 0 THEN 0 ELSE IF x < 10000 THEN x ELSE 10000)
           /\ Clamp(x) \in Points
<1>1. PICK y : y = Min({10000, x})
  OBVIOUS
<1>2. PICK z : z = Max({0, y})
  OBVIOUS
<1>3. y = (IF x < 10000 THEN x ELSE 10000) /\ y \in Int
  BY <1>1, LeastAndGreatest
<1>4. z = (IF 0 <= y THEN y ELSE 0)
  BY <1>2, <1>3, LeastAndGreatest
<1>5. Clamp(x) = z
  BY <1>1, <1>2 DEF Clamp, Full
<1>6. z = (IF x < 0 THEN 0 ELSE IF x < 10000 THEN x ELSE 10000) /\ z \in 0 .. 10000
  BY <1>3, <1>4
<1>7. z \in Points
  BY <1>6 DEF Points
<1> QED
  BY <1>5, <1>6, <1>7

LEMMA ClampBounded ==
    ASSUME NEW x \in Int
    PROVE  Clamp(x) \in Points
BY ClampIs

LEMMA ClampFollows ==
    ASSUME NEW x \in Int, NEW y \in Int, x <= y
    PROVE  Clamp(x) <= Clamp(y) /\ Clamp(x) \in Int /\ Clamp(y) \in Int
<1> PICK u : u = Clamp(x)
  OBVIOUS
<1> PICK v : v = Clamp(y)
  OBVIOUS
<1>1. /\ u = (IF x < 0 THEN 0 ELSE IF x < 10000 THEN x ELSE 10000)
      /\ v = (IF y < 0 THEN 0 ELSE IF y < 10000 THEN y ELSE 10000)
  BY ClampIs
<1>2. u <= v /\ u \in Int /\ v \in Int
  BY <1>1
<1> QED
  BY <1>2

LEMMA ClampGains ==
    ASSUME NEW x \in Int, NEW y \in Int, NEW more \in Nat, x <= y + more
    PROVE  Clamp(x) <= Clamp(y) + more
<1>1. PICK u : u = Clamp(x)
  OBVIOUS
<1>2. PICK v : v = Clamp(y)
  OBVIOUS
<1>3. /\ u = (IF x < 0 THEN 0 ELSE IF x < 10000 THEN x ELSE 10000)
      /\ v = (IF y < 0 THEN 0 ELSE IF y < 10000 THEN y ELSE 10000)
  BY <1>1, <1>2, ClampIs
<1>4. u <= v + more
  BY <1>3
<1> QED
  BY <1>1, <1>2, <1>4

LEMMA AtMostFollows ==
    ASSUME NEW bound \in Int, NEW x \in Int, NEW y \in Int, x <= y
    PROVE  AtMost(bound, x) <= AtMost(bound, y) /\ AtMost(bound, x) \in Int /\ AtMost(bound, y) \in Int
<1>1. PICK u : u = AtMost(bound, x)
  OBVIOUS
<1>2. PICK v : v = AtMost(bound, y)
  OBVIOUS
<1>3. u = (IF x < bound THEN x ELSE bound) /\ v = (IF y < bound THEN y ELSE bound)
  BY <1>1, <1>2, AtMostIs
<1>4. u <= v /\ u \in Int /\ v \in Int
  BY <1>3
<1> QED
  BY <1>1, <1>2, <1>4

\* A share of what was found, capped at 30.
LEMMA ShareFollows ==
    ASSUME NEW a \in Nat, NEW b \in Nat, a <= b
    PROVE  /\ AtMost(30, 10 * a) <= AtMost(30, 10 * b)
           /\ AtMost(30, 10 * a) \in Nat /\ AtMost(30, 10 * b) \in Nat
           /\ AtMost(30, 8 * a) <= AtMost(30, 8 * b)
           /\ AtMost(30, 8 * a) \in Nat /\ AtMost(30, 8 * b) \in Nat
<1>1. \A x \in Nat, y \in Nat : x <= y => /\ AtMost(30, x) <= AtMost(30, y)
                                       /\ AtMost(30, x) \in Nat /\ AtMost(30, y) \in Nat
  <2> TAKE x \in Nat, y \in Nat
  <2> HAVE x <= y
  <2>1. 30 \in Int /\ x \in Int /\ y \in Int
    OBVIOUS
  <2>2. AtMost(30, x) = (IF x < 30 THEN x ELSE 30) /\ AtMost(30, y) = (IF y < 30 THEN y ELSE 30)
    BY <2>1, AtMostIs
  <2> QED
    BY <2>2
<1>2. PICK x \in Nat, y \in Nat, v \in Nat, w \in Nat :
         x = 10 * a /\ y = 10 * b /\ v = 8 * a /\ w = 8 * b /\ x <= y /\ v <= w
  OBVIOUS
<1> QED
  BY <1>1, <1>2

LEMMA FiveFinite ==
    ASSUME NEW a, NEW b, NEW c, NEW d, NEW e
    PROVE  IsFiniteSet({a, b, c, d, e}) /\ Cardinality({a, b, c, d, e}) \in 0 .. 5
<1>1. IsFiniteSet({}) /\ Cardinality({}) = 0
  BY FS_EmptySet
<1>2. IsFiniteSet({a}) /\ Cardinality({a}) = 1
  BY FS_Singleton
<1>3. IsFiniteSet({a} \cup {b}) /\ Cardinality({a} \cup {b}) \in 1 .. 2
  BY <1>2, FS_AddElement
<1>4. IsFiniteSet({a} \cup {b} \cup {c}) /\ Cardinality({a} \cup {b} \cup {c}) \in 1 .. 3
  BY <1>3, FS_AddElement
<1>5. /\ IsFiniteSet({a} \cup {b} \cup {c} \cup {d})
      /\ Cardinality({a} \cup {b} \cup {c} \cup {d}) \in 1 .. 4
  BY <1>4, FS_AddElement
<1>6. /\ IsFiniteSet({a} \cup {b} \cup {c} \cup {d} \cup {e})
      /\ Cardinality({a} \cup {b} \cup {c} \cup {d} \cup {e}) \in 1 .. 5
  BY <1>5, FS_AddElement
<1>7. {a} \cup {b} \cup {c} \cup {d} \cup {e} = {a, b, c, d, e}
  OBVIOUS
<1>8. \A n \in 1 .. 5 : n \in 0 .. 5
  OBVIOUS
<1> QED
  BY <1>6, <1>7, <1>8

LEMMA WhenFollows ==
    ASSUME NEW c \in BOOLEAN, NEW d \in BOOLEAN, NEW points \in Nat, c => d
    PROVE  /\ When(c, points) <= When(d, points)
           /\ When(c, points) \in {0, points} /\ When(d, points) \in {0, points}
BY DEF When

\* A quotient lies within a bound its dividend lies within.
LEMMA DivBound ==
    ASSUME NEW a \in Int, NEW b \in Nat \ {0}, NEW k \in Int, a <= k * b
    PROVE  a \div b <= k /\ a \div b \in Int
<1> PICK q \in Int : q = a \div b
  OBVIOUS
<1>1. b * q <= a
  OBVIOUS
<1>2. b * q <= b * k
  BY <1>1
<1>3. q <= k
  BY <1>2
<1> QED
  BY <1>3

\* A fraction a/b that is not greater than c/d has a quotient that is not.
Under(a, b, c, d) == a * d <= c * b

LEMMA DivFollows ==
    ASSUME NEW a \in Int, NEW b \in Nat \ {0}, NEW c \in Int, NEW d \in Nat \ {0},
           Under(a, b, c, d)
    PROVE  a \div b <= c \div d /\ a \div b \in Int /\ c \div d \in Int
<1> PICK q \in Int : q = a \div b
  OBVIOUS
<1> PICK r \in Int : r = c \div d
  OBVIOUS
<1>1. b * q <= a /\ c < d * (r + 1)
  OBVIOUS
<1>0. a * d <= c * b
  BY DEF Under
<1>2. (b * q) * d <= a * d
  BY <1>1
<1>3. c * b < (d * (r + 1)) * b
  BY <1>1
<1>4. (b * q) * d < (d * (r + 1)) * b
  BY <1>0, <1>2, <1>3
<1>5. (b * d) * q < (b * d) * (r + 1) /\ b * d > 0
  BY <1>4
<1>6. q < r + 1
  BY <1>5
<1> QED
  BY <1>6

\* A share of a positive whole, in points.
Covered(x, whole) == x <= 10000 * whole

LEMMA ShareOf ==
    ASSUME NEW c \in Nat \ {0}, NEW x \in Nat, NEW y \in Nat, x <= y, Covered(y, c)
    PROVE  x \div c <= y \div c /\ x \div c \in Points /\ y \div c \in Points
<1>1. x \div c <= y \div c /\ x \div c \in Int /\ y \div c \in Int
  <2>1. Under(x, c, y, c)
    BY DEF Under
  <2>2. x \in Int /\ y \in Int
    OBVIOUS
  <2> QED
    BY <2>1, <2>2, DivFollows
<1>2. y \div c <= 10000
  <2>1. y \in Int /\ 10000 \in Int /\ y <= 10000 * c
    BY DEF Covered
  <2> QED
    BY <2>1, DivBound
<1>3. 0 <= x \div c
  <2>1. PICK z \in Int : z = 0
    OBVIOUS
  <2>2. Under(z, c, x, c) /\ x \in Int
    BY <2>1 DEF Under
  <2>3. z \div c <= x \div c
    BY <2>2, DivFollows
  <2>4. z \div c = 0
    BY <2>1
  <2> QED
    BY <2>3, <2>4
<1>4. PICK q \in Int, r \in Int : q = x \div c /\ r = y \div c
  BY <1>1
<1>5. q <= r /\ 0 <= q /\ r <= 10000
  BY <1>1, <1>2, <1>3, <1>4
<1>6. q \in Points /\ r \in Points
  BY <1>5, IsPoints
<1> QED
  BY <1>4, <1>5, <1>6

LEMMA Older ==
    ASSUME NEW a \in Nat, NEW b \in Nat, a <= b
    PROVE  /\ (2000 * a) \div 365 <= (2000 * b) \div 365
           /\ (2000 * a) \div 365 \in Int /\ (2000 * b) \div 365 \in Int
OBVIOUS

LEMMA ProductFollows ==
    ASSUME NEW k \in Nat, NEW x \in Nat, NEW y \in Nat, x <= y
    PROVE  k * x <= k * y /\ k * x \in Nat /\ k * y \in Nat
OBVIOUS

-----------------------------------------------------------------------------
(***************************************************************************)
(* The scorers follow their inputs.                                        *)
(***************************************************************************)
NameInput ==
    [verified: BOOLEAN, audits: Nat, ageDays: Nat, team: BOOLEAN, ecosystem: Int,
     securityTxt: BOOLEAN]

\* Nothing that speaks for a name lowers its score.
LEMMA NameFollows ==
    ASSUME NEW x \in NameInput, NEW y \in NameInput, x.verified => y.verified,
           x.audits = y.audits, x.ageDays <= y.ageDays, x.team => y.team,
           x.ecosystem <= y.ecosystem, x.securityTxt = y.securityTxt
    PROVE  NameScore(x) <= NameScore(y) /\ NameScore(x) \in Points
<1>1. /\ x.audits \in Nat /\ x.ageDays \in Nat /\ y.ageDays \in Nat
      /\ x.ecosystem \in Int /\ y.ecosystem \in Int
      /\ x.verified \in BOOLEAN /\ y.verified \in BOOLEAN /\ x.team \in BOOLEAN /\ y.team \in BOOLEAN
      /\ x.securityTxt \in BOOLEAN
  BY DEF NameInput
<1>2. PICK a \in Int, b \in Int : a = (2000 * x.ageDays) \div 365 /\ b = (2000 * y.ageDays) \div 365
                               /\ a <= b
  BY <1>1, Older
<1>3. PICK c \in Int : c = AtMost(2000, 667 * x.audits)
  <2>1. 667 * x.audits \in Int
    BY <1>1
  <2> QED
    BY <2>1, AtMostFollows
<1>4a. AtMost(2000, a) <= AtMost(2000, b) /\ AtMost(2000, a) \in Int /\ AtMost(2000, b) \in Int
  <2>1. 2000 \in Int /\ a \in Int /\ b \in Int /\ a <= b
    BY <1>2
  <2> QED
    BY <2>1, AtMostFollows
<1>4. PICK d \in Int, e \in Int : d = AtMost(2000, a) /\ e = AtMost(2000, b) /\ d <= e
  BY <1>4a
<1>5a. /\ AtMost(2000, x.ecosystem) <= AtMost(2000, y.ecosystem)
       /\ AtMost(2000, x.ecosystem) \in Int /\ AtMost(2000, y.ecosystem) \in Int
  <2>1. PICK m \in Int, n \in Int : m = x.ecosystem /\ n = y.ecosystem
    BY <1>1
  <2>2. m <= n
    BY <2>1
  <2>3. AtMost(2000, m) <= AtMost(2000, n) /\ AtMost(2000, m) \in Int /\ AtMost(2000, n) \in Int
    BY <2>2, AtMostFollows
  <2> QED
    BY <2>1, <2>3
<1>5. PICK f \in Int, g \in Int : /\ f = AtMost(2000, x.ecosystem) /\ g = AtMost(2000, y.ecosystem)
                               /\ f <= g
  BY <1>5a
<1>6. PICK h \in {0, 2000}, i \in {0, 2000} : /\ h = When(x.verified, 2000)
                                           /\ i = When(y.verified, 2000) /\ h <= i
  BY <1>1, WhenFollows
<1>7. PICK j \in {500, 2000}, k \in {500, 2000} : /\ j = (IF x.team THEN 2000 ELSE 500)
                                               /\ k = (IF y.team THEN 2000 ELSE 500) /\ j <= k
  BY <1>1
<1>8. PICK l \in {0, 200} : l = When(x.securityTxt, 200) /\ l = When(y.securityTxt, 200)
  BY <1>1 DEF When
<1>9. PICK u \in Int, v \in Int : u = h + c + d + j + f + l /\ v = i + c + e + k + g + l /\ u <= v
  BY <1>3, <1>4, <1>5, <1>6, <1>7, <1>8
<1>10. NameScore(x) = Clamp(u)
  BY <1>2, <1>3, <1>4, <1>5, <1>6, <1>7, <1>8, <1>9 DEF NameScore
<1>11. NameScore(y) = Clamp(v)
  BY <1>2, <1>3, <1>4, <1>5, <1>6, <1>7, <1>8, <1>9 DEF NameScore
<1>12. Clamp(u) <= Clamp(v) /\ Clamp(u) \in Points
  <2>1. u <= v
    BY <1>9
  <2>2. Clamp(u) <= Clamp(v)
    BY <2>1, ClampFollows
  <2>3. Clamp(u) \in Points
    BY <1>9, ClampBounded
  <2> QED
    BY <2>2, <2>3
<1> QED
  BY <1>10, <1>11, <1>12

ImageInput == [missingSigners: Nat, missingOwners: Nat, unsafeCpi: Nat, unvalidated: Nat]

\* The more there is to find, the lower the image.
LEMMA ImageFollows ==
    ASSUME NEW x \in ImageInput, NEW y \in ImageInput,
           y.missingSigners <= x.missingSigners, y.missingOwners <= x.missingOwners,
           y.unsafeCpi <= x.unsafeCpi, y.unvalidated <= x.unvalidated
    PROVE  ImageScore(x) <= ImageScore(y) /\ ImageScore(x) \in Points
<1>1. PICK a \in Nat, b \in Nat, c \in Nat, d \in Nat :
         a = x.missingSigners /\ b = x.missingOwners /\ c = x.unsafeCpi /\ d = x.unvalidated
  BY DEF ImageInput
<1>2. PICK e \in Nat, f \in Nat, g \in Nat, h \in Nat :
         e = y.missingSigners /\ f = y.missingOwners /\ g = y.unsafeCpi /\ h = y.unvalidated
  BY DEF ImageInput
<1>3. PICK u \in Int : u = 10000 - 2000 * a - 1200 * b - 1500 * c - 800 * d
  OBVIOUS
<1>4. PICK v \in Int : v = 10000 - 2000 * e - 1200 * f - 1500 * g - 800 * h
  OBVIOUS
<1>5. u <= v
  BY <1>1, <1>2, <1>3, <1>4
<1>6. ImageScore(x) = Clamp(u) /\ ImageScore(y) = Clamp(v)
  BY <1>1, <1>2, <1>3, <1>4 DEF ImageScore, Full
<1>7. Clamp(u) <= Clamp(v) /\ Clamp(u) \in Points
  BY <1>5, ClampFollows, ClampBounded
<1> QED
  BY <1>6, <1>7

EssenceInput ==
    [complexity: Int, upgradeable: BOOLEAN, multisig: BOOLEAN, timelock: BOOLEAN, cpi: Nat]

\* The parts of an essence: what is left for simplicity, for the calls to other programs, and
\* for the authority to upgrade.
Simplicity(complexity) == Max({0, Min({2500, 2500 - ((complexity - 500) * 5) \div 2})})
Isolation(cpi) == Max({0, 2500 - 200 * cpi})
Upgrade(in) ==
    2500 - (IF in.upgradeable THEN 1000 + When(~in.multisig, 500) + When(~in.timelock, 500) ELSE 0)

LEMMA UpgradeIs ==
    ASSUME NEW in, NEW u \in BOOLEAN, in.upgradeable <=> u, ~in.multisig, u => ~in.timelock
    PROVE  Upgrade(in) = (IF u THEN 500 ELSE 2500)
<1>1. CASE u
  <2>1. When(~in.multisig, 500) = 500 /\ When(~in.timelock, 500) = 500
    BY <1>1 DEF When
  <2>2. Upgrade(in) = 2500 - (1000 + 500 + 500)
    BY <1>1, <2>1 DEF Upgrade
  <2> QED
    BY <1>1, <2>2
<1>2. CASE ~u
  BY <1>2 DEF Upgrade
<1> QED
  BY <1>1, <1>2

LEMMA SimplicityIs ==
    ASSUME NEW c \in Int PROVE Simplicity(c) \in Int
<1>1. PICK m \in Int : m = 2500 - ((c - 500) * 5) \div 2
  OBVIOUS
<1>2. Min({2500, m}) \in Int
  <2>1. 2500 \in Int /\ m \in Int
    BY <1>1
  <2> QED
    BY <2>1, LeastAndGreatest
<1>3. PICK n \in Int : n = Min({2500, m})
  BY <1>2
<1>4. Max({0, n}) \in Int
  BY PositivePart
<1> QED
  BY <1>1, <1>3, <1>4 DEF Simplicity

LEMMA IsolationFollows ==
    ASSUME NEW k \in Int, NEW l \in Int, l <= k
    PROVE  Isolation(k) <= Isolation(l) /\ Isolation(k) \in Int /\ Isolation(l) \in Int
<1>1. PICK m \in Int, n \in Int : m = 2500 - 200 * k /\ n = 2500 - 200 * l /\ m <= n
  OBVIOUS
<1>2. m \in Int /\ n \in Int /\ m <= n
  BY <1>1
<1>3. Max({0, m}) <= Max({0, n}) /\ Max({0, m}) \in Int /\ Max({0, n}) \in Int
  BY <1>2, PositivePart
<1> QED
  BY <1>1, <1>3 DEF Isolation

\* An essence falls with the calls to other programs and with what an upgrade costs, by no
\* more than the difference of that.
LEMMA EssenceFollows ==
    ASSUME NEW x \in EssenceInput, NEW y \in EssenceInput, NEW more \in Nat,
           x.complexity = y.complexity, y.cpi <= x.cpi, Upgrade(x) <= Upgrade(y) + more
    PROVE  /\ EssenceScore(x) <= EssenceScore(y) + more
           /\ EssenceScore(x) \in Points
<1>1. /\ x.complexity \in Int /\ x.cpi \in Nat /\ y.cpi \in Nat
      /\ Upgrade(x) \in Int /\ Upgrade(y) \in Int
  BY DEF EssenceInput, Upgrade, When
<1>2. PICK a \in Int : a = Simplicity(x.complexity)
  BY <1>1, SimplicityIs
<1>3. PICK b \in Int, c \in Int : b = Isolation(x.cpi) /\ c = Isolation(y.cpi) /\ b <= c
  <2>1. PICK m \in Int, n \in Int : m = x.cpi /\ n = y.cpi /\ n <= m
    BY <1>1
  <2>2. m \in Int /\ n \in Int /\ n <= m
    BY <2>1
  <2>3. Isolation(m) <= Isolation(n) /\ Isolation(m) \in Int /\ Isolation(n) \in Int
    BY <2>2, IsolationFollows
  <2> QED
    BY <2>1, <2>3
<1>4. PICK u \in Int, v \in Int : /\ u = a + Upgrade(x) + b /\ v = a + Upgrade(y) + c
                                  /\ u <= v + more
  BY <1>1, <1>3
<1>5. EssenceScore(x) = Clamp(u) /\ EssenceScore(y) = Clamp(v)
  BY <1>2, <1>3, <1>4 DEF EssenceScore, Upgrade, Simplicity, Isolation
<1>6. Clamp(u) \in Points
  BY ClampBounded
<1>7. Clamp(u) <= Clamp(v) + more
  <2>1. u \in Int /\ v \in Int /\ u <= v + more /\ more \in Nat
    BY <1>4
  <2> QED
    BY <2>1, ClampGains
<1> QED
  BY <1>5, <1>6, <1>7

LEMMA DeductionFollows ==
    ASSUME NEW c \in Int, NEW d \in Int, c <= d
    PROVE  /\ PatternDeduction(c) <= PatternDeduction(d)
           /\ PatternDeduction(c) \in 0 .. 4 /\ PatternDeduction(d) \in 0 .. 4
           /\ c <= 30 => PatternDeduction(c) = 0
BY DEF PatternDeduction, When

\* What a confidence in each pattern costs; the threshold for a match hides none of it.
Losses(f) == UNION {{p} \X (1 .. PatternDeduction(f[p])) : p \in DOMAIN f}

LEMMA MatchedLoses ==
    ASSUME NEW S, NEW f \in [S -> Int]
    PROVE  Deductions(Matched(f)) = Losses(f)
<1> DEFINE T == {p \in S : f[p] > 30}
<1>1. Matched(f) = [p \in T |-> f[p]]
  BY DEF Matched
<1>2. Deductions(Matched(f)) = UNION {{p} \X (1 .. PatternDeduction(f[p])) : p \in T}
  <2>1. DOMAIN Matched(f) = T /\ \A p \in T : Matched(f)[p] = f[p]
    BY <1>1
  <2>2. PICK g : g = [p \in T |-> PatternDeduction(Matched(f)[p])]
    OBVIOUS
  <2>3. DOMAIN g = T /\ \A p \in T : g[p] = PatternDeduction(f[p])
    BY <2>1, <2>2
  <2>4. Deductions(Matched(f)) = Units(g)
    BY <2>1, <2>2 DEF Deductions
  <2>5. Units(g) = UNION {{p} \X (1 .. PatternDeduction(f[p])) : p \in T}
    BY <2>3 DEF Units
  <2> QED
    BY <2>4, <2>5
<1>3. \A p \in S : p \notin T => 1 .. PatternDeduction(f[p]) = {}
  <2> TAKE p \in S
  <2> HAVE p \notin T
  <2>1. f[p] \in Int /\ f[p] <= 30
    OBVIOUS
  <2>2. PatternDeduction(f[p]) = 0
    BY <2>1, DeductionFollows
  <2> QED
    BY <2>2
<1> QED
  BY <1>2, <1>3 DEF Losses

LEMMA LossesFinite ==
    ASSUME NEW S, IsFiniteSet(S), NEW f \in [S -> Int]
    PROVE  IsFiniteSet(Losses(f)) /\ Cardinality(Losses(f)) \in Nat
<1>1. Losses(f) \subseteq S \X (0 .. 4)
  <2>1. \A p \in S : 1 .. PatternDeduction(f[p]) \subseteq 0 .. 4
    <3> TAKE p \in S
    <3>1. f[p] \in Int
      OBVIOUS
    <3>2. PatternDeduction(f[p]) \in 0 .. 4
      BY <3>1, DeductionFollows
    <3> QED
      BY <3>2
  <2> QED
    BY <2>1 DEF Losses
<1>2. IsFiniteSet(0 .. 4)
  <2>1. 0 \in Int /\ 4 \in Int
    OBVIOUS
  <2> QED
    BY <2>1, FS_Interval
<1>3. IsFiniteSet(S \X (0 .. 4))
  BY <1>2, FS_Product
<1> QED
  BY <1>1, <1>3, FS_Subset, FS_CardinalityType

LEMMA LossesFollow ==
    ASSUME NEW S, IsFiniteSet(S), NEW f \in [S -> Int], NEW g \in [S -> Int],
           \A p \in S : f[p] <= g[p]
    PROVE  Cardinality(Losses(f)) <= Cardinality(Losses(g))
<1>1. \A p \in S : 1 .. PatternDeduction(f[p]) \subseteq 1 .. PatternDeduction(g[p])
  <2> TAKE p \in S
  <2>1. f[p] \in Int /\ g[p] \in Int /\ f[p] <= g[p]
    OBVIOUS
  <2>2. PatternDeduction(f[p]) <= PatternDeduction(g[p]) /\ PatternDeduction(f[p]) \in 0 .. 4
        /\ PatternDeduction(g[p]) \in 0 .. 4
    BY <2>1, DeductionFollows
  <2> QED
    BY <2>2
<1>2. Losses(f) \subseteq Losses(g)
  BY <1>1 DEF Losses
<1> QED
  BY <1>2, LossesFinite, FS_Subset

\* A likeness gains at most 5 points for each deduction less.
LEMMA LikenessFollows ==
    ASSUME NEW M, NEW N, NEW s \in Int, NEW t \in Int, NEW k \in Nat, t <= s,
           Cardinality(Deductions(M)) \in Nat, Cardinality(Deductions(N)) \in Nat,
           Cardinality(Deductions(N)) <= Cardinality(Deductions(M)) + k
    PROVE  /\ LikenessScore(M, s) <= LikenessScore(N, t) + 500 * k
           /\ LikenessScore(M, s) \in Points
<1>1. PICK c \in Nat, d \in Nat : /\ c = Cardinality(Deductions(M))
                                  /\ d = Cardinality(Deductions(N)) /\ d <= c + k
  OBVIOUS
<1>2. PICK u \in Int, v \in Int : /\ u = 10000 - 500 * c - 30 * s /\ v = 10000 - 500 * d - 30 * t
                                  /\ u <= v + 500 * k
  BY <1>1
<1>3. LikenessScore(M, s) = Clamp(u) /\ LikenessScore(N, t) = Clamp(v)
  BY <1>1, <1>2 DEF LikenessScore, Full
<1>4. Clamp(u) \in Points
  BY ClampBounded
<1>5. Clamp(u) <= Clamp(v) + 500 * k
  <2>1. PICK m \in Nat : m = 500 * k
    OBVIOUS
  <2>2. u \in Int /\ v \in Int /\ u <= v + m /\ m \in Nat
    BY <1>2, <2>1
  <2>3. Clamp(u) <= Clamp(v) + m
    BY <2>2, ClampGains
  <2> QED
    BY <2>1, <2>3
<1> QED
  BY <1>3, <1>4, <1>5

-----------------------------------------------------------------------------
(***************************************************************************)
(* A score has four dimensions within bounds, and its mean follows them.   *)
(***************************************************************************)
ScoreSet == [name: Points, image: Points, likeness: Points, essence: Points]

LEMMA CompositeFollows ==
    ASSUME NEW s \in ScoreSet, NEW t \in ScoreSet, NEW more \in Nat,
           s.name + s.image + s.likeness + s.essence
             <= t.name + t.image + t.likeness + t.essence + 4 * more
    PROVE  Composite(s) <= Composite(t) + more
<1>0. \A r \in ScoreSet : /\ r.name \in Int /\ r.image \in Int
                          /\ r.likeness \in Int /\ r.essence \in Int
  <2>1. \A z \in Points : z \in Int
    BY DEF Points
  <2> TAKE r \in ScoreSet
  <2>2. r.name \in Points /\ r.image \in Points /\ r.likeness \in Points /\ r.essence \in Points
    BY DEF ScoreSet
  <2> QED
    BY <2>1, <2>2
<1>1. PICK a \in Int, b \in Int : /\ a = s.name + s.image + s.likeness + s.essence
                                  /\ b = t.name + t.image + t.likeness + t.essence
                                  /\ a <= b + 4 * more
  BY <1>0
<1>2. (a + 2) \div 4 <= (b + 2) \div 4 + more
  BY <1>1
<1> QED
  BY <1>1, <1>2 DEF Composite

LEMMA MeanFollows ==
    ASSUME NEW s \in ScoreSet, NEW t \in ScoreSet, s.name <= t.name, s.image <= t.image,
           s.likeness <= t.likeness, s.essence <= t.essence
    PROVE  Composite(s) <= Composite(t) /\ Composite(s) \in Nat /\ Composite(t) \in Nat
<1>1. \A r \in ScoreSet : /\ r.name \in Nat /\ r.image \in Nat
                          /\ r.likeness \in Nat /\ r.essence \in Nat
  <2>1. \A z \in Points : z \in Nat
    BY DEF Points
  <2> TAKE r \in ScoreSet
  <2>2. r.name \in Points /\ r.image \in Points /\ r.likeness \in Points /\ r.essence \in Points
    BY DEF ScoreSet
  <2> QED
    BY <2>1, <2>2
<1>2. PICK a \in Nat, b \in Nat : /\ a = s.name + s.image + s.likeness + s.essence + 2
                                  /\ b = t.name + t.image + t.likeness + t.essence + 2
                                  /\ a <= b
  BY <1>1
<1>3. a \div 4 <= b \div 4 /\ a \div 4 \in Nat /\ b \div 4 \in Nat
  BY <1>2
<1> QED
  BY <1>2, <1>3 DEF Composite

LEMMA CompositeIs ==
    \A s \in ScoreSet : Composite(s) \in Int
<1> TAKE s \in ScoreSet
<1>1. /\ s.name \in Points /\ s.image \in Points
      /\ s.likeness \in Points /\ s.essence \in Points
  BY DEF ScoreSet
<1>2. s.name <= s.name /\ s.image <= s.image /\ s.likeness <= s.likeness /\ s.essence <= s.essence
  BY <1>1, PointsAreIntegers
<1> QED
  BY <1>2, MeanFollows

\* 25 points and 20 points more in two dimensions are 11.25 more in the mean.
LEMMA GainsFollow ==
    ASSUME NEW s \in ScoreSet, NEW t \in ScoreSet, s.name <= t.name, s.image <= t.image,
           s.likeness <= t.likeness + 2500, s.essence <= t.essence + 2000
    PROVE  Composite(s) <= Composite(t) + 1125
<1>1. \A r \in ScoreSet : /\ r.name \in Points /\ r.image \in Points
                          /\ r.likeness \in Points /\ r.essence \in Points
  BY DEF ScoreSet
<1>2. /\ s.name + s.image + s.likeness + s.essence
           <= t.name + t.image + t.likeness + t.essence + 4 * 1125
      /\ 1125 \in Nat
  BY <1>1, PointsAreIntegers
<1> QED
  BY <1>2, CompositeFollows

-----------------------------------------------------------------------------
(***************************************************************************)
(* Programs.                                                               *)
(***************************************************************************)
IdlFacts ==
    [hasIdl: BOOLEAN, instructions: Nat, unsafeCpi: Nat, missingSigners: Nat, unvalidated: Nat]

LEMMA IdlIs ==
    ASSUME NEW f \in ProgramFacts, NEW m
    PROVE  AnalyzeIdl(f, m) \in IdlFacts /\ Upgradeable(f, m) \in BOOLEAN
<1>1. /\ f.hasIdl \in BOOLEAN /\ f.instructions \in Nat /\ f.cpi \in Nat /\ f.writable \in Nat
      /\ f.readonly \in Nat /\ f.writable + f.readonly \in Nat /\ f.upgradeable \in BOOLEAN
  BY DEF ProgramFacts
<1> QED
  BY <1>1 DEF AnalyzeIdl, IdlFacts, Upgradeable

\* The more there is to find in an IDL, the more confidence in every pattern.
LEMMA ConfidenceFollows ==
    ASSUME NEW x \in IdlFacts, NEW y \in IdlFacts, NEW c, NEW up \in BOOLEAN,
           x.hasIdl = y.hasIdl, x.unsafeCpi <= y.unsafeCpi,
           x.missingSigners <= y.missingSigners, x.unvalidated <= y.unvalidated
    PROVE  /\ PatternConfidence(c, x, up) <= PatternConfidence(c, y, up)
           /\ PatternConfidence(c, x, up) \in Int /\ PatternConfidence(c, y, up) \in Int
<1>1. /\ x.missingSigners \in Nat /\ y.missingSigners \in Nat /\ x.unvalidated \in Nat
      /\ y.unvalidated \in Nat /\ x.unsafeCpi \in Nat /\ y.unsafeCpi \in Nat
      /\ x.hasIdl \in BOOLEAN /\ x.hasIdl = y.hasIdl
  BY DEF IdlFacts
<1>2. CASE c = "access_control"
  <2>1. PICK a \in Nat, b \in Nat : a = x.missingSigners /\ b = y.missingSigners /\ a <= b
    BY <1>1
  <2>2. /\ PatternConfidence(c, x, up) = (IF a > 0 THEN 60 + AtMost(30, 10 * a) ELSE 0)
        /\ PatternConfidence(c, y, up) = (IF b > 0 THEN 60 + AtMost(30, 10 * b) ELSE 0)
    BY <1>2, <2>1 DEF PatternConfidence
  <2>3. AtMost(30, 10 * a) <= AtMost(30, 10 * b) /\ AtMost(30, 10 * a) \in Nat
        /\ AtMost(30, 10 * b) \in Nat
    BY <2>1, ShareFollows
  <2> QED
    BY <2>1, <2>2, <2>3
<1>3. CASE c = "account_validation"
  <2>1. PICK a \in Nat, b \in Nat : a = x.unvalidated /\ b = y.unvalidated /\ a <= b
    BY <1>1
  <2>2. /\ PatternConfidence(c, x, up) = (IF a > 0 THEN 50 + AtMost(30, 8 * a) ELSE 0)
        /\ PatternConfidence(c, y, up) = (IF b > 0 THEN 50 + AtMost(30, 8 * b) ELSE 0)
    BY <1>3, <2>1 DEF PatternConfidence
  <2>3. AtMost(30, 8 * a) <= AtMost(30, 8 * b) /\ AtMost(30, 8 * a) \in Nat
        /\ AtMost(30, 8 * b) \in Nat
    BY <2>1, ShareFollows
  <2> QED
    BY <2>1, <2>2, <2>3
<1>4. CASE c = "cross_program"
  <2>1. PICK a \in Nat, b \in Nat : a = x.unsafeCpi /\ b = y.unsafeCpi /\ a <= b
    BY <1>1
  <2>2. /\ PatternConfidence(c, x, up) = (IF a > 0 THEN 50 + AtMost(30, 10 * a) ELSE 0)
        /\ PatternConfidence(c, y, up) = (IF b > 0 THEN 50 + AtMost(30, 10 * b) ELSE 0)
    BY <1>4, <2>1 DEF PatternConfidence
  <2>3. AtMost(30, 10 * a) <= AtMost(30, 10 * b) /\ AtMost(30, 10 * a) \in Nat
        /\ AtMost(30, 10 * b) \in Nat
    BY <2>1, ShareFollows
  <2> QED
    BY <2>1, <2>2, <2>3
<1>5. CASE c = "rug_pull"
  <2>1. /\ PatternConfidence(c, x, up) = When(up, 30) + When(~x.hasIdl, 20)
        /\ PatternConfidence(c, y, up) = When(up, 30) + When(~x.hasIdl, 20)
    BY <1>1, <1>5 DEF PatternConfidence
  <2>2. When(up, 30) + When(~x.hasIdl, 20) \in Nat
    BY <1>1 DEF When
  <2> QED
    BY <2>1, <2>2
<1>6. CASE c = "signature_verification"
  <2>1. PICK a \in Nat, b \in Nat : a = x.missingSigners /\ b = y.missingSigners /\ a <= b
    BY <1>1
  <2>2. /\ PatternConfidence(c, x, up) = (IF a > 1 THEN 40 ELSE 0)
        /\ PatternConfidence(c, y, up) = (IF b > 1 THEN 40 ELSE 0)
    BY <1>6, <2>1 DEF PatternConfidence
  <2> QED
    BY <2>1, <2>2
<1>7. CASE c \notin {"access_control", "account_validation", "cross_program", "rug_pull",
                     "signature_verification"}
  BY <1>7 DEF PatternConfidence
<1> QED
  BY <1>2, <1>3, <1>4, <1>5, <1>6, <1>7

LEMMA ProgramPatternsFinite ==
    IsFiniteSet(ProgramPatterns)
<1>1. IsFiniteSet({"SOL-006", "SOL-011", "SOL-012", "SOL-013", "SOL-014"})
  BY FiveFinite
<1>2. IsFiniteSet({"rug_pull"})
  BY FS_Singleton
<1>3. IsFiniteSet({"SOL-006", "SOL-011", "SOL-012", "SOL-013", "SOL-014"} \X {"rug_pull"})
  BY <1>1, <1>2, FS_Product
<1>4. IsFiniteSet({<<"SOL-001", "signature_verification">>, <<"SOL-003", "account_validation">>,
                   <<"SOL-008", "access_control">>, <<"SOL-010", "cross_program">>,
                   <<"SOL-010", "cross_program">>})
  BY FiveFinite
<1>5. IsFiniteSet({<<"SOL-001", "signature_verification">>, <<"SOL-003", "account_validation">>,
                   <<"SOL-008", "access_control">>, <<"SOL-010", "cross_program">>})
  BY <1>4, FS_Subset
<1> QED
  BY <1>3, <1>5, FS_Union DEF ProgramPatterns

\* The confidence in each pattern of a program.
Confidences(f, m) ==
    [p \in IF "patterns" \in m THEN {} ELSE ProgramPatterns |->
        PatternConfidence(p[2], AnalyzeIdl(f, m), Upgradeable(f, m))]

LEMMA ConfidencesAre ==
    ASSUME NEW f \in ProgramFacts, NEW m
    PROVE  /\ Confidences(f, m) \in [IF "patterns" \in m THEN {} ELSE ProgramPatterns -> Int]
           /\ IsFiniteSet(IF "patterns" \in m THEN {} ELSE ProgramPatterns)
           /\ Deductions(MatchExploitPatterns(f, m)) = Losses(Confidences(f, m))
           /\ Cardinality(Losses(Confidences(f, m))) \in Nat
<1> DEFINE S == IF "patterns" \in m THEN {} ELSE ProgramPatterns
<1>1. \A p \in S : PatternConfidence(p[2], AnalyzeIdl(f, m), Upgradeable(f, m)) \in Int
  <2> TAKE p \in S
  <2>1. PICK x \in IdlFacts, up \in BOOLEAN : x = AnalyzeIdl(f, m) /\ up = Upgradeable(f, m)
    BY IdlIs
  <2>2. x.unsafeCpi <= x.unsafeCpi /\ x.missingSigners <= x.missingSigners
        /\ x.unvalidated <= x.unvalidated
    BY DEF IdlFacts
  <2>3. \A c : PatternConfidence(c, x, up) \in Int
    BY <2>2, ConfidenceFollows
  <2> QED
    BY <2>1, <2>3
<1>2. Confidences(f, m) \in [S -> Int]
  BY <1>1 DEF Confidences
<1>3. IsFiniteSet(S)
  BY ProgramPatternsFinite, FS_EmptySet
<1>4. MatchExploitPatterns(f, m) = Matched(Confidences(f, m))
  BY DEF MatchExploitPatterns, Confidences
<1> HIDE DEF S
<1>5. /\ Deductions(Matched(Confidences(f, m))) = Losses(Confidences(f, m))
      /\ Cardinality(Losses(Confidences(f, m))) \in Nat
  BY <1>2, <1>3, MatchedLoses, LossesFinite
<1> QED
  BY <1>2, <1>3, <1>4, <1>5 DEF S

\* The answers of the lookups that move a program's score.
ProgramNameInput(f, m) ==
    [verified |-> AnalyzeIdl(f, m).hasIdl, audits |-> IF f.known THEN 3 ELSE 0,
     ageDays |-> Age(f, "age", m), team |-> f.known,
     ecosystem |-> EcosystemScore(f, m), securityTxt |-> FALSE]
ProgramImageInput(f, m) ==
    [missingSigners |-> AnalyzeIdl(f, m).missingSigners, missingOwners |-> 0,
     unsafeCpi |-> AnalyzeIdl(f, m).unsafeCpi, unvalidated |-> AnalyzeIdl(f, m).unvalidated]
ProgramEssenceInput(f, m) ==
    [complexity |-> Max({500, 80 * AnalyzeIdl(f, m).instructions}),
     upgradeable |-> Upgradeable(f, m), multisig |-> FALSE,
     timelock |-> ~Upgradeable(f, m), cpi |-> AnalyzeIdl(f, m).unsafeCpi]

LEMMA ProgramScoreIs ==
    ASSUME NEW f, NEW m
    PROVE  ProgramScore(f, m) =
             [name |-> NameScore(ProgramNameInput(f, m)),
              image |-> ImageScore(ProgramImageInput(f, m)),
              likeness |-> LikenessScore(MatchExploitPatterns(f, m), 0),
              essence |-> EssenceScore(ProgramEssenceInput(f, m))]
BY DEF ProgramScore, ProgramNameInput, ProgramImageInput, ProgramEssenceInput

Ecosystem(known, listed, age) ==
    AtMost(2000, When(known, 1500) + When(listed, 1000)
                 + (IF age > 365 THEN 500 ELSE IF age > 90 THEN 300 ELSE When(age > 30, 100)))

LEMMA EcosystemFollows ==
    ASSUME NEW known \in BOOLEAN, NEW l \in BOOLEAN, NEW k \in BOOLEAN, l => k,
           NEW a \in Nat, NEW b \in Nat, a <= b
    PROVE  /\ Ecosystem(known, l, a) <= Ecosystem(known, k, b)
           /\ Ecosystem(known, l, a) \in Int /\ Ecosystem(known, k, b) \in Int
<1>1. PICK w \in {0, 1500} : w = When(known, 1500)
  BY DEF When
<1>2. PICK u \in {0, 1000}, v \in {0, 1000} : u = When(l, 1000) /\ v = When(k, 1000) /\ u <= v
  BY DEF When
<1>3. PICK x \in Nat, y \in Nat :
        /\ x = (IF a > 365 THEN 500 ELSE IF a > 90 THEN 300 ELSE When(a > 30, 100))
        /\ y = (IF b > 365 THEN 500 ELSE IF b > 90 THEN 300 ELSE When(b > 30, 100))
        /\ x <= y
  BY DEF When
<1>4. PICK p \in Int, q \in Int : p = w + u + x /\ q = w + v + y /\ p <= q
  BY <1>2, <1>3
<1>5. AtMost(2000, p) <= AtMost(2000, q) /\ AtMost(2000, p) \in Int /\ AtMost(2000, q) \in Int
  <2>1. 2000 \in Int /\ p \in Int /\ q \in Int /\ p <= q
    BY <1>4
  <2> QED
    BY <2>1, AtMostFollows
<1> QED
  BY <1>1, <1>2, <1>3, <1>4, <1>5 DEF Ecosystem

\* The name of a program falls with every lookup that fails.
LEMMA ProgramNameFollows ==
    ASSUME NEW f \in ProgramFacts, NEW g \in ProgramFacts, NEW m, NEW n, n \subseteq m,
           f.hasIdl = g.hasIdl, f.known = g.known, f.listed = g.listed, f.ageDays = g.ageDays
    PROVE  /\ NameScore(ProgramNameInput(f, m)) <= NameScore(ProgramNameInput(g, n))
           /\ NameScore(ProgramNameInput(f, m)) \in Points
<1>1. /\ f.hasIdl \in BOOLEAN /\ f.known \in BOOLEAN /\ f.listed \in BOOLEAN /\ f.ageDays \in Nat
  BY DEF ProgramFacts
<1>2. /\ Age(f, "age", m) <= Age(g, "age", n)
      /\ Age(f, "age", m) \in Nat /\ Age(g, "age", n) \in Nat
  BY <1>1 DEF Age
<1>3. /\ AnalyzeIdl(f, m).hasIdl => AnalyzeIdl(g, n).hasIdl
      /\ AnalyzeIdl(f, m).hasIdl \in BOOLEAN /\ AnalyzeIdl(g, n).hasIdl \in BOOLEAN
  BY <1>1 DEF AnalyzeIdl
<1>4. /\ Listed(f, "jupiter", m) => Listed(g, "jupiter", n)
      /\ Listed(f, "jupiter", m) \in BOOLEAN /\ Listed(g, "jupiter", n) \in BOOLEAN
  BY <1>1 DEF Listed
<1>5. /\ EcosystemScore(f, m) <= EcosystemScore(g, n)
      /\ EcosystemScore(f, m) \in Int /\ EcosystemScore(g, n) \in Int
  <2>1. PICK k \in BOOLEAN, l \in BOOLEAN, j \in BOOLEAN, a \in Nat, b \in Nat :
          /\ k = f.known /\ l = Listed(f, "jupiter", m) /\ j = Listed(g, "jupiter", n)
          /\ a = Age(f, "age", m) /\ b = Age(g, "age", n) /\ a <= b /\ (l => j)
    BY <1>1, <1>2, <1>4
  <2>2. (l => j) /\ a <= b
    BY <2>1
  <2>3. /\ Ecosystem(k, l, a) <= Ecosystem(k, j, b)
        /\ Ecosystem(k, l, a) \in Int /\ Ecosystem(k, j, b) \in Int
    BY <2>2, EcosystemFollows
  <2>4. EcosystemScore(f, m) = Ecosystem(k, l, a) /\ EcosystemScore(g, n) = Ecosystem(k, j, b)
    BY <2>1 DEF EcosystemScore, Ecosystem
  <2> QED
    BY <2>3, <2>4
<1>6. PICK x \in NameInput, y \in NameInput :
        x = ProgramNameInput(f, m) /\ y = ProgramNameInput(g, n)
  BY <1>1, <1>2, <1>3, <1>5 DEF ProgramNameInput, NameInput
<1>7. /\ x.verified => y.verified
      /\ x.audits = y.audits /\ x.ageDays <= y.ageDays /\ (x.team => y.team)
      /\ x.ecosystem <= y.ecosystem /\ x.securityTxt = y.securityTxt
  BY <1>1, <1>2, <1>3, <1>5, <1>6 DEF ProgramNameInput
<1>8. NameScore(x) <= NameScore(y) /\ NameScore(x) \in Points
  BY <1>7, NameFollows
<1> QED
  BY <1>6, <1>8

LEMMA ProgramImageFollows ==
    ASSUME NEW f \in ProgramFacts, NEW g \in ProgramFacts, NEW m, NEW n,
           "idl" \in m <=> "idl" \in n, f.hasIdl = g.hasIdl,
           g.writable <= f.writable, g.readonly <= f.readonly, g.cpi <= f.cpi
    PROVE  /\ ImageScore(ProgramImageInput(f, m)) <= ImageScore(ProgramImageInput(g, n))
           /\ ImageScore(ProgramImageInput(f, m)) \in Points
<1>1. PICK x \in ImageInput, y \in ImageInput :
        x = ProgramImageInput(f, m) /\ y = ProgramImageInput(g, n)
  <2>1. AnalyzeIdl(f, m) \in IdlFacts /\ AnalyzeIdl(g, n) \in IdlFacts
    BY IdlIs
  <2> QED
    BY <2>1 DEF ProgramImageInput, ImageInput, IdlFacts
<1>2. /\ f.writable \in Nat /\ f.readonly \in Nat /\ f.cpi \in Nat
      /\ g.writable \in Nat /\ g.readonly \in Nat /\ g.cpi \in Nat
  BY DEF ProgramFacts
<1>3. /\ y.missingSigners <= x.missingSigners /\ y.missingOwners <= x.missingOwners
      /\ y.unsafeCpi <= x.unsafeCpi /\ y.unvalidated <= x.unvalidated
  BY <1>1, <1>2 DEF ProgramImageInput, AnalyzeIdl
<1>4. ImageScore(x) <= ImageScore(y) /\ ImageScore(x) \in Points
  BY <1>3, ImageFollows
<1> QED
  BY <1>1, <1>4

\* With the authority not known an essence gains at most 20 points.
LEMMA ProgramEssenceFollows ==
    ASSUME NEW f \in ProgramFacts, NEW g \in ProgramFacts, NEW m, NEW n,
           "idl" \in m <=> "idl" \in n, f.hasIdl = g.hasIdl, f.instructions = g.instructions,
           g.cpi <= f.cpi, f.upgradeable = g.upgradeable
    PROVE  /\ ("authority" \in m <=> "authority" \in n) =>
                EssenceScore(ProgramEssenceInput(f, m)) <= EssenceScore(ProgramEssenceInput(g, n))
           /\ EssenceScore(ProgramEssenceInput(f, m))
                <= EssenceScore(ProgramEssenceInput(g, n)) + 2000
           /\ EssenceScore(ProgramEssenceInput(f, m)) \in Points
<1>1. /\ AnalyzeIdl(f, m) \in IdlFacts /\ AnalyzeIdl(g, n) \in IdlFacts
      /\ Upgradeable(f, m) \in BOOLEAN /\ Upgradeable(g, n) \in BOOLEAN
  BY IdlIs
<1>2. AnalyzeIdl(f, m).instructions = AnalyzeIdl(g, n).instructions
  BY DEF AnalyzeIdl
<1>3. Max({500, 80 * AnalyzeIdl(f, m).instructions}) \in Int
  <2>1. PICK i \in Int : i = 80 * AnalyzeIdl(f, m).instructions
    BY <1>1 DEF IdlFacts
  <2>2. 500 \in Int /\ i \in Int
    BY <2>1
  <2>3. Max({500, i}) \in Int
    BY <2>2, GreatestInt
  <2> QED
    BY <2>1, <2>3
<1>4. AnalyzeIdl(f, m).unsafeCpi \in Nat /\ AnalyzeIdl(g, n).unsafeCpi \in Nat
  BY <1>1 DEF IdlFacts
<1>5. AnalyzeIdl(g, n).unsafeCpi <= AnalyzeIdl(f, m).unsafeCpi
  <2>1. f.cpi \in Nat /\ g.cpi \in Nat
    BY DEF ProgramFacts
  <2> QED
    BY <2>1 DEF AnalyzeIdl
<1>6a. PICK k \in Int, u \in BOOLEAN, v \in BOOLEAN, a \in Nat, b \in Nat :
         /\ k = Max({500, 80 * AnalyzeIdl(f, m).instructions})
         /\ u = Upgradeable(f, m) /\ v = Upgradeable(g, n)
         /\ a = AnalyzeIdl(f, m).unsafeCpi /\ b = AnalyzeIdl(g, n).unsafeCpi
  BY <1>1, <1>3, <1>4
<1>6b. /\ ProgramEssenceInput(f, m) = [complexity |-> k, upgradeable |-> u, multisig |-> FALSE,
                                       timelock |-> ~u, cpi |-> a]
       /\ ProgramEssenceInput(g, n) = [complexity |-> k, upgradeable |-> v, multisig |-> FALSE,
                                       timelock |-> ~v, cpi |-> b]
  BY <1>2, <1>6a DEF ProgramEssenceInput
<1>6. PICK x \in EssenceInput, y \in EssenceInput :
        x = ProgramEssenceInput(f, m) /\ y = ProgramEssenceInput(g, n)
  BY <1>6b DEF EssenceInput
<1>7. x.complexity = y.complexity /\ y.cpi <= x.cpi
  BY <1>5, <1>6, <1>6a, <1>6b
<1>8. /\ Upgrade(x) = (IF Upgradeable(f, m) THEN 500 ELSE 2500)
      /\ Upgrade(y) = (IF Upgradeable(g, n) THEN 500 ELSE 2500)
  <2>1. /\ x.upgradeable = u /\ x.multisig = FALSE /\ x.timelock = ~u
        /\ y.upgradeable = v /\ y.multisig = FALSE /\ y.timelock = ~v
    BY <1>6, <1>6b
  <2>2. /\ (x.upgradeable <=> u) /\ ~x.multisig /\ (u => ~x.timelock)
        /\ (y.upgradeable <=> v) /\ ~y.multisig /\ (v => ~y.timelock)
    BY <2>1
  <2>3. Upgrade(x) = (IF u THEN 500 ELSE 2500)
    BY <2>2, UpgradeIs
  <2>4. Upgrade(y) = (IF v THEN 500 ELSE 2500)
    BY <2>2, UpgradeIs
  <2> QED
    BY <1>6a, <2>3, <2>4
<1>9. EssenceScore(x) <= EssenceScore(y) + 2000 /\ EssenceScore(x) \in Points
  <2>1. Upgrade(x) <= Upgrade(y) + 2000 /\ 2000 \in Nat
    BY <1>8
  <2> QED
    BY <1>7, <2>1, EssenceFollows
<1>10. ASSUME "authority" \in m <=> "authority" \in n
       PROVE  EssenceScore(x) <= EssenceScore(y)
  <2>1. Upgradeable(f, m) = Upgradeable(g, n)
    BY <1>10 DEF Upgradeable
  <2>2. Upgrade(x) <= Upgrade(y) + 0 /\ 0 \in Nat
    BY <1>8, <2>1
  <2>3. EssenceScore(x) <= EssenceScore(y) + 0 /\ EssenceScore(y) \in Int
    <3>1. EssenceScore(y) \in Points
      <4>1. Upgrade(y) <= Upgrade(y) + 0 /\ y.cpi <= y.cpi /\ 0 \in Nat
        BY <1>8 DEF EssenceInput
      <4> QED
        BY <4>1, EssenceFollows
    <3>2. EssenceScore(y) \in Int
      BY <3>1, PointsAreIntegers
    <3>3. EssenceScore(x) <= EssenceScore(y) + 0
      BY <1>7, <2>2, EssenceFollows
    <3> QED
      BY <3>2, <3>3
  <2> QED
    BY <2>3
<1> QED
  BY <1>6, <1>9, <1>10

\* The less there is to find, the higher the likeness.
LEMMA ProgramLikenessFollows ==
    ASSUME NEW f \in ProgramFacts, NEW g \in ProgramFacts, NEW m, NEW n,
           "patterns" \in m <=> "patterns" \in n, "idl" \in m <=> "idl" \in n,
           "authority" \in m <=> "authority" \in n,
           f.hasIdl = g.hasIdl, f.upgradeable = g.upgradeable,
           g.writable <= f.writable, g.readonly <= f.readonly, g.cpi <= f.cpi
    PROVE  /\ LikenessScore(MatchExploitPatterns(f, m), 0)
                <= LikenessScore(MatchExploitPatterns(g, n), 0)
           /\ LikenessScore(MatchExploitPatterns(f, m), 0) \in Points
<1> DEFINE S == IF "patterns" \in m THEN {} ELSE ProgramPatterns
<1>1. PICK x \in IdlFacts, y \in IdlFacts, up \in BOOLEAN :
        /\ x = AnalyzeIdl(f, m) /\ y = AnalyzeIdl(g, n)
        /\ up = Upgradeable(f, m) /\ up = Upgradeable(g, n)
  <2>1. Upgradeable(f, m) = Upgradeable(g, n)
    BY DEF Upgradeable
  <2> QED
    BY <2>1, IdlIs
<1>2. /\ y.hasIdl = x.hasIdl /\ y.unsafeCpi <= x.unsafeCpi
      /\ y.missingSigners <= x.missingSigners /\ y.unvalidated <= x.unvalidated
  <2>1. /\ f.writable \in Nat /\ f.readonly \in Nat /\ f.cpi \in Nat
        /\ g.writable \in Nat /\ g.readonly \in Nat /\ g.cpi \in Nat
    BY DEF ProgramFacts
  <2> QED
    BY <1>1, <2>1 DEF AnalyzeIdl
<1>3. /\ Confidences(f, m) = [p \in S |-> PatternConfidence(p[2], x, up)]
      /\ Confidences(g, n) = [p \in S |-> PatternConfidence(p[2], y, up)]
  BY <1>1 DEF Confidences
<1>4. \A c : PatternConfidence(c, y, up) <= PatternConfidence(c, x, up)
  <2> TAKE c
  <2> QED
    BY <1>2, ConfidenceFollows
<1>5. /\ Confidences(f, m) \in [S -> Int] /\ Confidences(g, n) \in [S -> Int]
      /\ IsFiniteSet(S)
      /\ Deductions(MatchExploitPatterns(f, m)) = Losses(Confidences(f, m))
      /\ Deductions(MatchExploitPatterns(g, n)) = Losses(Confidences(g, n))
      /\ Cardinality(Losses(Confidences(f, m))) \in Nat
      /\ Cardinality(Losses(Confidences(g, n))) \in Nat
  BY ConfidencesAre
<1>6. \A p \in S : Confidences(g, n)[p] <= Confidences(f, m)[p]
  BY <1>3, <1>4
<1> HIDE DEF S
<1>7. Cardinality(Losses(Confidences(g, n))) <= Cardinality(Losses(Confidences(f, m)))
  BY <1>5, <1>6, LossesFollow
<1>8. PICK M, N : M = MatchExploitPatterns(f, m) /\ N = MatchExploitPatterns(g, n)
  OBVIOUS
<1>9. /\ Cardinality(Deductions(M)) \in Nat /\ Cardinality(Deductions(N)) \in Nat
      /\ Cardinality(Deductions(N)) <= Cardinality(Deductions(M)) + 0
      /\ 0 <= 0 /\ 0 \in Int /\ 0 \in Nat
  BY <1>5, <1>7, <1>8
<1>10. LikenessScore(M, 0) <= LikenessScore(N, 0) + 500 * 0 /\ LikenessScore(M, 0) \in Points
  BY <1>9, LikenessFollows
<1>11. LikenessScore(N, 0) \in Points
  <2>1. Cardinality(Deductions(N)) <= Cardinality(Deductions(N)) + 0
    BY <1>9
  <2> QED
    BY <1>9, <2>1, LikenessFollows
<1>12. LikenessScore(M, 0) <= LikenessScore(N, 0)
  BY <1>10, <1>11, PointsAreIntegers
<1> QED
  BY <1>8, <1>10, <1>12

\* Without the authority five rug pull patterns cost 5 points each less, at most.
LEMMA AuthorityInLikeness ==
    ASSUME NEW f \in ProgramFacts, NEW m
    PROVE  LikenessScore(MatchExploitPatterns(f, m \cup {"authority"}), 0)
             <= LikenessScore(MatchExploitPatterns(f, m), 0) + 2500
<1> DEFINE n == m \cup {"authority"}
           S == IF "patterns" \in m THEN {} ELSE ProgramPatterns
           rug == {"SOL-006", "SOL-011", "SOL-012", "SOL-013", "SOL-014"}
           R == (rug \X {"rug_pull"}) \X {1}
<1>1. PICK x \in IdlFacts, up \in BOOLEAN : x = AnalyzeIdl(f, m) /\ up = Upgradeable(f, m)
  BY IdlIs
<1>2. AnalyzeIdl(f, n) = x /\ Upgradeable(f, n) = FALSE
  BY <1>1 DEF AnalyzeIdl, Upgradeable
<1>3. /\ Confidences(f, m) = [p \in S |-> PatternConfidence(p[2], x, up)]
      /\ Confidences(f, n) = [p \in S |-> PatternConfidence(p[2], x, FALSE)]
  BY <1>1, <1>2 DEF Confidences
<1>4. \A p \in S : p[2] # "rug_pull" =>
         PatternConfidence(p[2], x, up) = PatternConfidence(p[2], x, FALSE)
  BY DEF PatternConfidence
<1>5. \A p \in S : p[2] = "rug_pull" =>
         /\ p \in rug \X {"rug_pull"}
         /\ PatternDeduction(PatternConfidence(p[2], x, up)) \in {0, 1}
  <2> TAKE p \in S
  <2> HAVE p[2] = "rug_pull"
  <2>1. p \in rug \X {"rug_pull"}
    BY DEF ProgramPatterns
  <2>2. PatternConfidence(p[2], x, up) = When(up, 30) + When(~x.hasIdl, 20)
    BY DEF PatternConfidence
  <2>3. When(up, 30) + When(~x.hasIdl, 20) \in 0 .. 50
    BY DEF When
  <2>4. PatternDeduction(When(up, 30) + When(~x.hasIdl, 20)) \in {0, 1}
    BY <2>3 DEF PatternDeduction, When
  <2> QED
    BY <2>1, <2>2, <2>4
<1>6. Losses(Confidences(f, m)) \subseteq Losses(Confidences(f, n)) \cup R
  <2>1. \A p \in S : p[2] # "rug_pull" =>
           {p} \X (1 .. PatternDeduction(Confidences(f, m)[p]))
             = {p} \X (1 .. PatternDeduction(Confidences(f, n)[p]))
    <3> TAKE p \in S
    <3> HAVE p[2] # "rug_pull"
    <3>1. /\ Confidences(f, m)[p] = PatternConfidence(p[2], x, up)
          /\ Confidences(f, n)[p] = PatternConfidence(p[2], x, FALSE)
      BY <1>3
    <3>2. PatternConfidence(p[2], x, up) = PatternConfidence(p[2], x, FALSE)
      BY <1>4
    <3>3. Confidences(f, m)[p] = Confidences(f, n)[p]
      BY <3>1, <3>2
    <3> QED
      BY <3>3
  <2>2. \A p \in S : p[2] = "rug_pull" =>
           {p} \X (1 .. PatternDeduction(Confidences(f, m)[p])) \subseteq R
    <3> TAKE p \in S
    <3> HAVE p[2] = "rug_pull"
    <3>1. 1 .. PatternDeduction(Confidences(f, m)[p]) \subseteq {1}
      BY <1>3, <1>5
    <3> QED
      BY <1>5, <3>1
  <2>3. DOMAIN Confidences(f, m) = S /\ DOMAIN Confidences(f, n) = S
    BY <1>3
  <2> SUFFICES ASSUME NEW z \in Losses(Confidences(f, m))
               PROVE  z \in Losses(Confidences(f, n)) \cup R
    OBVIOUS
  <2>4. PICK p \in S : z \in {p} \X (1 .. PatternDeduction(Confidences(f, m)[p]))
    BY <2>3 DEF Losses
  <2>5. CASE p[2] = "rug_pull"
    BY <2>2, <2>4, <2>5
  <2>6. CASE p[2] # "rug_pull"
    <3>1. z \in {p} \X (1 .. PatternDeduction(Confidences(f, n)[p]))
      BY <2>1, <2>4, <2>6
    <3> QED
      BY <2>3, <3>1 DEF Losses
  <2> QED
    BY <2>5, <2>6
<1>7. IsFiniteSet(R) /\ Cardinality(R) \in 0 .. 5
  <2>1. IsFiniteSet(rug) /\ Cardinality(rug) \in 0 .. 5
    BY FiveFinite
  <2>2. /\ IsFiniteSet({"rug_pull"}) /\ Cardinality({"rug_pull"}) = 1
        /\ IsFiniteSet({1}) /\ Cardinality({1}) = 1
    BY FS_Singleton
  <2>3. /\ IsFiniteSet(rug \X {"rug_pull"})
        /\ Cardinality(rug \X {"rug_pull"}) = Cardinality(rug) * Cardinality({"rug_pull"})
    BY <2>1, <2>2, FS_Product
  <2>4. /\ IsFiniteSet(R)
        /\ Cardinality(R) = Cardinality(rug \X {"rug_pull"}) * Cardinality({1})
    BY <2>2, <2>3, FS_Product
  <2> QED
    BY <2>1, <2>2, <2>3, <2>4
<1>8. /\ Confidences(f, m) \in [S -> Int] /\ Confidences(f, n) \in [S -> Int] /\ IsFiniteSet(S)
      /\ Deductions(MatchExploitPatterns(f, m)) = Losses(Confidences(f, m))
      /\ Deductions(MatchExploitPatterns(f, n)) = Losses(Confidences(f, n))
      /\ Cardinality(Losses(Confidences(f, m))) \in Nat
      /\ Cardinality(Losses(Confidences(f, n))) \in Nat
  <2>1. ("patterns" \in n) = ("patterns" \in m)
    OBVIOUS
  <2> QED
    BY <2>1, ConfidencesAre
<1>9. PICK A, B, C : A = Losses(Confidences(f, m)) /\ B = Losses(Confidences(f, n)) /\ C = R
  OBVIOUS
<1>10. Cardinality(A) <= Cardinality(B) + 5
  <2>1. IsFiniteSet(B)
    BY <1>8, <1>9, LossesFinite
  <2>2. IsFiniteSet(C) /\ Cardinality(C) \in 0 .. 5 /\ A \subseteq B \cup C
    BY <1>6, <1>7, <1>9
  <2>3. /\ IsFiniteSet(B \cup C)
        /\ Cardinality(B \cup C) = Cardinality(B) + Cardinality(C) - Cardinality(B \cap C)
    BY <2>1, <2>2, FS_Union
  <2>4. Cardinality(A) <= Cardinality(B \cup C)
    BY <2>2, <2>3, FS_Subset
  <2>5. Cardinality(B \cap C) \in Nat
    BY <2>1, FS_Subset, FS_CardinalityType
  <2>6. Cardinality(A) \in Nat /\ Cardinality(B) \in Nat
    BY <1>8, <1>9
  <2> QED
    BY <2>2, <2>3, <2>4, <2>5, <2>6
<1>11. PICK M, N : M = MatchExploitPatterns(f, n) /\ N = MatchExploitPatterns(f, m)
  OBVIOUS
<1>12. /\ Cardinality(Deductions(M)) \in Nat /\ Cardinality(Deductions(N)) \in Nat
       /\ Cardinality(Deductions(N)) <= Cardinality(Deductions(M)) + 5
       /\ 0 <= 0 /\ 0 \in Int /\ 5 \in Nat
  BY <1>8, <1>9, <1>10, <1>11
<1>13. LikenessScore(M, 0) <= LikenessScore(N, 0) + 500 * 5
  BY <1>12, LikenessFollows
<1> QED
  BY <1>11, <1>13

-----------------------------------------------------------------------------
(***************************************************************************)
(* Tokens.  A lookup of n answers where one of m may have failed.          *)
(***************************************************************************)
TokenNameInput(f, m) ==
    [verified |-> Listed(f, "jupiter", m), audits |-> 0,
     ageDays |-> IF Age(f, "age", m) # 0 THEN Age(f, "age", m) ELSE Age(f, "mintAge", m),
     team |-> f.known /\ ~SerialDeployer(f, m),
     ecosystem |-> EcosystemScore(f, m), securityTxt |-> FALSE]
TokenImageInput(f, m) ==
    [missingSigners |-> 0, unvalidated |-> 0,
     missingOwners |-> IF f.mintAuthority THEN 1 ELSE 0,
     unsafeCpi |-> IF f.freezeAuthority /\ ~LpDetected(f, m) THEN 1 ELSE 0]
TokenEssenceInput(f, m) ==
    [complexity |-> 500, upgradeable |-> f.mintAuthority, multisig |-> FALSE,
     timelock |-> TRUE, cpi |-> Holders(f, m).whales]

LEMMA TokenScoreIs ==
    ASSUME NEW f, NEW m
    PROVE  TokenScore(f, m) =
             [name |-> NameScore(TokenNameInput(f, m)),
              image |-> ImageScore(TokenImageInput(f, m)),
              likeness |-> LikenessScore(MatchTokenPatterns(f, m), RugSimilarity(f, m)),
              essence |-> EssenceScore(TokenEssenceInput(f, m))]
BY DEF TokenScore, TokenNameInput, TokenImageInput, TokenEssenceInput

LEMMA MintIs ==
    ASSUME NEW f \in MintFacts, NEW m
    PROVE  /\ f.mintAuthority \in BOOLEAN /\ f.freezeAuthority \in BOOLEAN
           /\ f.known \in BOOLEAN /\ f.listed \in BOOLEAN /\ f.ageDays \in Nat
           /\ f.walletAccounts \in Nat
           /\ Holders(f, m).top5 \in Nat /\ Holders(f, m).largest \in Nat
           /\ Holders(f, m).whales \in Nat
           /\ SerialDeployer(f, m) \in BOOLEAN /\ LpDetected(f, m) \in BOOLEAN
<1>1. /\ f.mintAuthority \in BOOLEAN /\ f.freezeAuthority \in BOOLEAN
      /\ f.known \in BOOLEAN /\ f.listed \in BOOLEAN /\ f.ageDays \in Nat
      /\ f.walletAccounts \in Nat /\ f.holders \in [top5: Nat, largest: Nat, whales: Nat]
  BY DEF MintFacts
<1> QED
  BY <1>1 DEF Holders, SerialDeployer, LpDetected, Listed

LEMMA TokenNameFollows ==
    ASSUME NEW f \in MintFacts, NEW m, NEW n, n \subseteq m, "wallet" \in m <=> "wallet" \in n
    PROVE  /\ NameScore(TokenNameInput(f, m)) <= NameScore(TokenNameInput(f, n))
           /\ NameScore(TokenNameInput(f, m)) \in Points
<1>1. /\ f.known \in BOOLEAN /\ f.listed \in BOOLEAN /\ f.ageDays \in Nat
      /\ SerialDeployer(f, m) \in BOOLEAN
  BY MintIs
<1>2. /\ Age(f, "age", m) <= Age(f, "age", n)
      /\ Age(f, "age", m) \in {0, f.ageDays} /\ Age(f, "age", n) \in {0, f.ageDays}
      /\ Age(f, "mintAge", m) <= Age(f, "mintAge", n)
      /\ Age(f, "mintAge", m) \in {0, f.ageDays} /\ Age(f, "mintAge", n) \in {0, f.ageDays}
  BY <1>1 DEF Age
<1>3. /\ Listed(f, "jupiter", m) => Listed(f, "jupiter", n)
      /\ Listed(f, "jupiter", m) \in BOOLEAN /\ Listed(f, "jupiter", n) \in BOOLEAN
  BY <1>1 DEF Listed
<1>4. SerialDeployer(f, m) = SerialDeployer(f, n)
  BY DEF SerialDeployer
<1>5. PICK k \in BOOLEAN, l \in BOOLEAN, j \in BOOLEAN, t \in BOOLEAN, a \in Nat, b \in Nat :
        /\ k = f.known /\ l = Listed(f, "jupiter", m) /\ j = Listed(f, "jupiter", n)
        /\ a = Age(f, "age", m) /\ b = Age(f, "age", n)
        /\ t = (f.known /\ ~SerialDeployer(f, m))
  BY <1>1, <1>2, <1>3
<1>6. (l => j) /\ a <= b
  BY <1>2, <1>3, <1>5
<1>7. /\ Ecosystem(k, l, a) <= Ecosystem(k, j, b)
      /\ Ecosystem(k, l, a) \in Int /\ Ecosystem(k, j, b) \in Int
  BY <1>6, EcosystemFollows
<1>8. EcosystemScore(f, m) = Ecosystem(k, l, a) /\ EcosystemScore(f, n) = Ecosystem(k, j, b)
  BY <1>5 DEF EcosystemScore, Ecosystem
<1>9. PICK c \in Nat, d \in Nat :
        /\ c = (IF Age(f, "age", m) # 0 THEN Age(f, "age", m) ELSE Age(f, "mintAge", m))
        /\ d = (IF Age(f, "age", n) # 0 THEN Age(f, "age", n) ELSE Age(f, "mintAge", n))
        /\ c <= d
  BY <1>1, <1>2
<1>10. PICK v \in Int, w \in Int : v = EcosystemScore(f, m) /\ w = EcosystemScore(f, n) /\ v <= w
  BY <1>7, <1>8
<1>11. /\ TokenNameInput(f, m) = [verified |-> l, audits |-> 0, ageDays |-> c, team |-> t,
                                  ecosystem |-> v, securityTxt |-> FALSE]
       /\ TokenNameInput(f, n) = [verified |-> j, audits |-> 0, ageDays |-> d, team |-> t,
                                  ecosystem |-> w, securityTxt |-> FALSE]
  BY <1>4, <1>5, <1>9, <1>10 DEF TokenNameInput
<1>12. PICK x \in NameInput, y \in NameInput :
         x = TokenNameInput(f, m) /\ y = TokenNameInput(f, n)
  BY <1>11 DEF NameInput
<1>13. /\ x.verified => y.verified
       /\ x.audits = y.audits /\ x.ageDays <= y.ageDays /\ (x.team => y.team)
       /\ x.ecosystem <= y.ecosystem /\ x.securityTxt = y.securityTxt
  BY <1>6, <1>9, <1>10, <1>11, <1>12
<1>14. NameScore(x) <= NameScore(y) /\ NameScore(x) \in Points
  BY <1>13, NameFollows
<1> QED
  BY <1>12, <1>14

LEMMA TokenImageFollows ==
    ASSUME NEW f \in MintFacts, NEW m, NEW n, n \subseteq m
    PROVE  /\ ImageScore(TokenImageInput(f, m)) <= ImageScore(TokenImageInput(f, n))
           /\ ImageScore(TokenImageInput(f, m)) \in Points
<1>1. PICK o \in {0, 1} : o = (IF f.mintAuthority THEN 1 ELSE 0)
  OBVIOUS
<1>2. PICK a \in {0, 1}, b \in {0, 1} :
        /\ a = (IF f.freezeAuthority /\ ~LpDetected(f, m) THEN 1 ELSE 0)
        /\ b = (IF f.freezeAuthority /\ ~LpDetected(f, n) THEN 1 ELSE 0)
        /\ b <= a
  <2>1. LpDetected(f, m) => LpDetected(f, n)
    BY DEF LpDetected, Listed
  <2> QED
    BY <2>1
<1>3. /\ TokenImageInput(f, m) = [missingSigners |-> 0, unvalidated |-> 0, missingOwners |-> o,
                                  unsafeCpi |-> a]
      /\ TokenImageInput(f, n) = [missingSigners |-> 0, unvalidated |-> 0, missingOwners |-> o,
                                  unsafeCpi |-> b]
  BY <1>1, <1>2 DEF TokenImageInput
<1>4. PICK x \in ImageInput, y \in ImageInput :
        x = TokenImageInput(f, m) /\ y = TokenImageInput(f, n)
  BY <1>3 DEF ImageInput
<1>5. /\ y.missingSigners <= x.missingSigners /\ y.missingOwners <= x.missingOwners
      /\ y.unsafeCpi <= x.unsafeCpi /\ y.unvalidated <= x.unvalidated
  BY <1>2, <1>3, <1>4
<1>6. ImageScore(x) <= ImageScore(y) /\ ImageScore(x) \in Points
  BY <1>5, ImageFollows
<1> QED
  BY <1>4, <1>6

LEMMA TokenEssenceIs ==
    ASSUME NEW f \in MintFacts, NEW m
    PROVE  EssenceScore(TokenEssenceInput(f, m)) \in Points
<1>1. PICK u \in BOOLEAN, w \in Nat : u = f.mintAuthority /\ w = Holders(f, m).whales
  BY MintIs
<1>2. PICK k \in Int : k = 500
  OBVIOUS
<1>2b. PICK l \in BOOLEAN : l = FALSE
  OBVIOUS
<1>2c. PICK t \in BOOLEAN : t = TRUE
  OBVIOUS
<1>3. PICK x \in EssenceInput : x = TokenEssenceInput(f, m)
  <2>1. TokenEssenceInput(f, m) = [complexity |-> k, upgradeable |-> u, multisig |-> l,
                                   timelock |-> t, cpi |-> w]
    BY <1>1, <1>2, <1>2b, <1>2c DEF TokenEssenceInput
  <2> QED
    BY <2>1 DEF EssenceInput
<1>4. Upgrade(x) <= Upgrade(x) + 0 /\ x.cpi <= x.cpi /\ 0 \in Nat
  BY DEF Upgrade, When, EssenceInput
<1>5. EssenceScore(x) \in Points
  BY <1>4, EssenceFollows
<1> QED
  BY <1>3, <1>5

\* The confidence in each pattern of a token.
TokenConfidences(f, m) ==
    [id \in IF "patterns" \in m THEN {} ELSE TokenPatterns |-> TokenConfidence(id, f, m)]

\* A liquidity pool not found adds to the confidence in two patterns.
LEMMA TokenConfidenceFollows ==
    ASSUME NEW f \in MintFacts, NEW m, NEW n, NEW id \in TokenPatterns, n \subseteq m,
           "holders" \in m <=> "holders" \in n, "wallet" \in m <=> "wallet" \in n
    PROVE  /\ TokenConfidence(id, f, n) <= TokenConfidence(id, f, m)
           /\ TokenConfidence(id, f, n) \in Int /\ TokenConfidence(id, f, m) \in Int
<1>1. Holders(f, m) = Holders(f, n) /\ SerialDeployer(f, m) = SerialDeployer(f, n)
  BY DEF Holders, SerialDeployer
<1>2. PICK t \in Nat, l \in Nat, a \in BOOLEAN, z \in BOOLEAN, s \in BOOLEAN,
           p \in BOOLEAN, q \in BOOLEAN :
        /\ t = Holders(f, m).top5 /\ l = Holders(f, m).largest
        /\ a = f.mintAuthority /\ z = f.freezeAuthority
        /\ s = SerialDeployer(f, m) /\ p = LpDetected(f, m) /\ q = LpDetected(f, n)
  BY MintIs
<1>3. p => q
  BY <1>2 DEF LpDetected, Listed
<1>4. CASE id = "SOL-006"
  <2>1. /\ TokenConfidence(id, f, m) = When(a, 30) + When(z, 20)
        /\ TokenConfidence(id, f, n) = When(a, 30) + When(z, 20)
    BY <1>2, <1>4 DEF TokenConfidence
  <2>2. When(a, 30) + When(z, 20) \in Nat
    BY DEF When
  <2> QED
    BY <2>1, <2>2
<1>5. CASE id = "SOL-011"
  <2>1. PICK u \in Int, v \in Int : /\ u = (IF t > 80 THEN 80 ELSE When(t > 60, 50))
                                    /\ v = When(l > 50, 70)
    BY DEF When
  <2>2. TokenConfidence(id, f, m) = Max({u, v}) /\ TokenConfidence(id, f, n) = Max({u, v})
    BY <1>1, <1>2, <1>5, <2>1 DEF TokenConfidence
  <2>3. u \in Int /\ v \in Int
    BY <2>1
  <2>4. PICK w \in Int : w = Max({u, v})
    BY <2>3, GreatestInt
  <2> QED
    BY <2>2, <2>4
<1>6. CASE id = "SOL-012"
  <2>1. TokenConfidence(id, f, m) = When(s, 60) /\ TokenConfidence(id, f, n) = When(s, 60)
    BY <1>1, <1>2, <1>6 DEF TokenConfidence
  <2>2. When(s, 60) \in Nat
    BY DEF When
  <2> QED
    BY <2>1, <2>2
<1>7. CASE id = "SOL-013"
  <2>1. TokenConfidence(id, f, m) = When(~p, 50) /\ TokenConfidence(id, f, n) = When(~q, 50)
    BY <1>2, <1>7 DEF TokenConfidence
  <2>2. When(~p, 50) \in {0, 50} /\ When(~q, 50) \in {0, 50} /\ When(~q, 50) <= When(~p, 50)
    BY <1>3 DEF When
  <2> QED
    BY <2>1, <2>2
<1>8. CASE id = "SOL-014"
  <2>1. PICK k \in {70, 85} : k = (IF a THEN 85 ELSE 70)
    OBVIOUS
  <2>2. /\ TokenConfidence(id, f, m) = When(z /\ ~p, k)
        /\ TokenConfidence(id, f, n) = When(z /\ ~q, k)
    BY <1>2, <1>8, <2>1 DEF TokenConfidence
  <2>3. /\ When(z /\ ~p, k) \in {0, k} /\ When(z /\ ~q, k) \in {0, k}
        /\ When(z /\ ~q, k) <= When(z /\ ~p, k)
    BY <1>3, <2>1 DEF When
  <2> QED
    BY <2>1, <2>2, <2>3
<1> QED
  BY <1>4, <1>5, <1>6, <1>7, <1>8 DEF TokenPatterns

LEMMA TokenConfidencesAre ==
    ASSUME NEW f \in MintFacts, NEW m
    PROVE  /\ TokenConfidences(f, m) \in [IF "patterns" \in m THEN {} ELSE TokenPatterns -> Int]
           /\ IsFiniteSet(IF "patterns" \in m THEN {} ELSE TokenPatterns)
           /\ Deductions(MatchTokenPatterns(f, m)) = Losses(TokenConfidences(f, m))
           /\ Cardinality(Losses(TokenConfidences(f, m))) \in Nat
<1> DEFINE S == IF "patterns" \in m THEN {} ELSE TokenPatterns
<1>1. \A id \in S : TokenConfidence(id, f, m) \in Int
  <2> TAKE id \in S
  <2>1. id \in TokenPatterns /\ m \subseteq m
    OBVIOUS
  <2> QED
    BY <2>1, TokenConfidenceFollows
<1>2. TokenConfidences(f, m) \in [S -> Int]
  BY <1>1 DEF TokenConfidences
<1>3. IsFiniteSet(S)
  <2>1. IsFiniteSet({"SOL-006", "SOL-011", "SOL-012", "SOL-013", "SOL-014"})
    BY FiveFinite
  <2> QED
    BY <2>1, FS_EmptySet DEF TokenPatterns
<1>4. MatchTokenPatterns(f, m) = Matched(TokenConfidences(f, m))
  BY DEF MatchTokenPatterns, TokenConfidences
<1> HIDE DEF S
<1>5. /\ Deductions(Matched(TokenConfidences(f, m))) = Losses(TokenConfidences(f, m))
      /\ Cardinality(Losses(TokenConfidences(f, m))) \in Nat
  BY <1>2, <1>3, MatchedLoses, LossesFinite
<1> QED
  BY <1>2, <1>3, <1>4, <1>5 DEF S

LEMMA SimilarityFollows ==
    ASSUME NEW f \in MintFacts, NEW m, NEW n, n \subseteq m,
           "holders" \in m <=> "holders" \in n, "wallet" \in m <=> "wallet" \in n
    PROVE  /\ RugSimilarity(f, n) <= RugSimilarity(f, m)
           /\ RugSimilarity(f, n) \in Int /\ RugSimilarity(f, m) \in Int
<1>1. Holders(f, m) = Holders(f, n) /\ SerialDeployer(f, m) = SerialDeployer(f, n)
  BY DEF Holders, SerialDeployer
<1>2. PICK t \in Nat, a \in BOOLEAN, z \in BOOLEAN, s \in BOOLEAN, p \in BOOLEAN, q \in BOOLEAN :
        /\ t = Holders(f, m).top5 /\ a = f.mintAuthority /\ z = f.freezeAuthority
        /\ s = SerialDeployer(f, m) /\ p = LpDetected(f, m) /\ q = LpDetected(f, n)
  BY MintIs
<1>3. PICK c \in Nat, d \in Nat : c = Age(f, "mintAge", m) /\ d = Age(f, "mintAge", n) /\ c <= d
  <2>1. f.ageDays \in Nat
    BY MintIs
  <2> QED
    BY <2>1 DEF Age
<1>4. PICK k \in Int : k = When(a, 20) + When(z, 15) + (IF t > 80 THEN 20 ELSE When(t > 60, 10))
  BY DEF When
<1>5. PICK u \in {0, 15}, v \in {0, 15} : u = When(~p, 15) /\ v = When(~q, 15) /\ v <= u
  <2>1. p => q
    BY <1>2 DEF LpDetected, Listed
  <2> QED
    BY <2>1 DEF When
<1>6. PICK w \in {0, 15} : w = When(s, 15)
  BY DEF When
<1>7. PICK x \in {0, 5, 15}, y \in {0, 5, 15} :
        /\ x = (IF c < 1 /\ a THEN 15 ELSE When(c < 7, 5))
        /\ y = (IF d < 1 /\ a THEN 15 ELSE When(d < 7, 5))
        /\ y <= x
  BY <1>3 DEF When
<1>8. RugSimilarity(f, m) = k + u + w + x /\ RugSimilarity(f, n) = k + v + w + y
  BY <1>1, <1>2, <1>3, <1>4, <1>5, <1>6, <1>7 DEF RugSimilarity
<1> QED
  BY <1>5, <1>7, <1>8

\* The fewer lookups fail, but for those of FailOpen, the higher the likeness.
LEMMA TokenLikenessFollows ==
    ASSUME NEW f \in MintFacts, NEW m, NEW n, n \subseteq m,
           "patterns" \in m <=> "patterns" \in n,
           "holders" \in m <=> "holders" \in n, "wallet" \in m <=> "wallet" \in n
    PROVE  /\ LikenessScore(MatchTokenPatterns(f, m), RugSimilarity(f, m))
                <= LikenessScore(MatchTokenPatterns(f, n), RugSimilarity(f, n))
           /\ LikenessScore(MatchTokenPatterns(f, m), RugSimilarity(f, m)) \in Points
<1> DEFINE S == IF "patterns" \in m THEN {} ELSE TokenPatterns
<1>1. /\ TokenConfidences(f, m) \in [S -> Int] /\ TokenConfidences(f, n) \in [S -> Int]
      /\ IsFiniteSet(S)
      /\ Deductions(MatchTokenPatterns(f, m)) = Losses(TokenConfidences(f, m))
      /\ Deductions(MatchTokenPatterns(f, n)) = Losses(TokenConfidences(f, n))
      /\ Cardinality(Losses(TokenConfidences(f, m))) \in Nat
      /\ Cardinality(Losses(TokenConfidences(f, n))) \in Nat
  BY TokenConfidencesAre
<1>2. \A id \in S : TokenConfidences(f, n)[id] <= TokenConfidences(f, m)[id]
  <2> TAKE id \in S
  <2>1. /\ TokenConfidences(f, n)[id] = TokenConfidence(id, f, n)
        /\ TokenConfidences(f, m)[id] = TokenConfidence(id, f, m)
    BY DEF TokenConfidences
  <2>2. id \in TokenPatterns
    OBVIOUS
  <2>3. TokenConfidence(id, f, n) <= TokenConfidence(id, f, m)
    BY <2>2, TokenConfidenceFollows
  <2> QED
    BY <2>1, <2>3
<1> HIDE DEF S
<1>3. Cardinality(Losses(TokenConfidences(f, n))) <= Cardinality(Losses(TokenConfidences(f, m)))
  BY <1>1, <1>2, LossesFollow
<1>3a. PICK M, N : M = MatchTokenPatterns(f, m) /\ N = MatchTokenPatterns(f, n)
  OBVIOUS
<1>4. PICK s \in Int, t \in Int : s = RugSimilarity(f, m) /\ t = RugSimilarity(f, n) /\ t <= s
  <2>1. /\ RugSimilarity(f, n) <= RugSimilarity(f, m)
        /\ RugSimilarity(f, n) \in Int /\ RugSimilarity(f, m) \in Int
    BY SimilarityFollows
  <2> QED
    BY <2>1
<1>5. /\ Cardinality(Deductions(M)) \in Nat /\ Cardinality(Deductions(N)) \in Nat
      /\ Cardinality(Deductions(N)) <= Cardinality(Deductions(M)) + 0
      /\ t <= s /\ 0 \in Nat
  BY <1>1, <1>3, <1>3a, <1>4
<1>6. LikenessScore(M, s) <= LikenessScore(N, t) + 500 * 0 /\ LikenessScore(M, s) \in Points
  BY <1>5, LikenessFollows
<1>7. LikenessScore(N, t) \in Points
  <2>1. Cardinality(Deductions(N)) <= Cardinality(Deductions(N)) + 0 /\ t <= t
    BY <1>5
  <2> QED
    BY <1>5, <2>1, LikenessFollows
<1>8. LikenessScore(M, s) <= LikenessScore(N, t)
  BY <1>6, <1>7, PointsAreIntegers
<1> QED
  BY <1>3a, <1>4, <1>6, <1>8

-----------------------------------------------------------------------------
(***************************************************************************)
(* Persons and agents.                                                     *)
(***************************************************************************)
\* What the news of a person weigh: sentiment, and the share of good news.
NewsWeight(p, q, r) ==
    LET n == Max({p + q + r, 1})
    IN  (1500 * (p - q)) \div n + (IF p + q + r > 0 THEN (2500 * p) \div n ELSE 1250)

LEMMA NewsWeightIs ==
    ASSUME NEW p \in Nat, NEW q \in Nat, NEW r \in Nat
    PROVE  /\ p + q + r = 0 => NewsWeight(p, q, r) = 1250
           /\ p + q + r > 0 => NewsWeight(p, q, r) = (1500 * (p - q)) \div (p + q + r)
                                                     + (2500 * p) \div (p + q + r)
           /\ NewsWeight(p, q, r) \in Int
<1>1. PICK c \in Nat : c = p + q + r
  OBVIOUS
<1>2. CASE c = 0
  <2>1. Max({c, 1}) = 1
    <3>1. c \in Int /\ 1 \in Int /\ c <= 1
      BY <1>2
    <3> QED
      BY <3>1, LeastAndGreatest
  <2>2. p = 0 /\ q = 0 /\ r = 0
    BY <1>1, <1>2
  <2>3. (1500 * (p - q)) \div 1 = 0
    BY <2>2
  <2> QED
    BY <1>1, <1>2, <2>1, <2>3 DEF NewsWeight
<1>3. CASE c > 0
  <2>1. Max({c, 1}) = c
    <3>1. c \in Int /\ 1 \in Int /\ 1 <= c
      BY <1>3
    <3> QED
      BY <3>1, LeastAndGreatest
  <2>2. (1500 * (p - q)) \div c \in Int /\ (2500 * p) \div c \in Int
    BY <1>3
  <2> QED
    BY <1>1, <1>3, <2>1, <2>2 DEF NewsWeight
<1> QED
  BY <1>2, <1>3

LEMMA PersonImageIs ==
    ASSUME NEW tally \in Tallies
    PROVE  /\ PersonImageScore(tally)
                = Clamp(2500 + NewsWeight(tally.positive, tally.negative, tally.neutral))
           /\ PersonImageScore(tally) \in Points
<1>1. PICK p \in Nat, q \in Nat, r \in Nat :
        p = tally.positive /\ q = tally.negative /\ r = tally.neutral
  BY DEF Tallies
<1>2. PICK c \in Int : c = p + q + r
  OBVIOUS
<1>3. PICK n \in Int : n = Max({c, 1})
  <2>1. c \in Int /\ 1 \in Int
    BY <1>2
  <2> QED
    BY <2>1, GreatestInt
<1>4. n > 0
  <2>1. c \in Int /\ 1 \in Int
    BY <1>2
  <2>2. Max({c, 1}) = (IF c <= 1 THEN 1 ELSE c)
    BY <2>1, LeastAndGreatest
  <2> QED
    BY <1>2, <1>3, <2>2
<1>5. PICK u \in Int, v \in Int : /\ u = (1500 * (p - q)) \div n
                                  /\ v = (IF c > 0 THEN (2500 * p) \div n ELSE 1250)
  BY <1>4
<1>6. PersonImageScore(tally) = Clamp(2500 + u + v)
  BY <1>1, <1>2, <1>3, <1>5 DEF PersonImageScore
<1>7. NewsWeight(p, q, r) = u + v
  BY <1>2, <1>3, <1>5 DEF NewsWeight
<1>8. PICK w \in Int : w = 2500 + u + v /\ w = 2500 + NewsWeight(p, q, r)
  BY <1>5, <1>7
<1>9. Clamp(w) \in Points
  BY ClampBounded
<1> QED
  BY <1>1, <1>6, <1>8, <1>9

\* k times a number over k.
LEMMA WholeShare ==
    ASSUME NEW k \in Nat \ {0}, NEW m \in Int
    PROVE  (m * k) \div k = m
<1>1. PICK a \in Int : a = m * k
  OBVIOUS
<1>2. Under(a, k, m, 1) /\ Under(m, 1, a, k)
  BY <1>1 DEF Under
<1>3. a \div k <= m \div 1 /\ m \div 1 <= a \div k /\ a \div k \in Int /\ m \div 1 \in Int
  BY <1>2, DivFollows
<1>4. m \div 1 = m
  OBVIOUS
<1> QED
  BY <1>1, <1>3, <1>4

\* Good news moves both fractions up, however many there are of it.
LEMMA GoodNewsWeighsUp ==
    ASSUME NEW p \in Nat, NEW q \in Nat, NEW r \in Nat, NEW k \in Nat
    PROVE  NewsWeight(p, q, r) <= NewsWeight(p + k, q, r)
<1>0. CASE k = 0
  <2>1. NewsWeight(p, q, r) \in Int /\ p + k = p
    BY <1>0, NewsWeightIs
  <2> QED
    BY <2>1
<1>1. CASE k > 0 /\ p + q + r = 0
  <2>1. p = 0 /\ q = 0 /\ r = 0 /\ p + k + q + r > 0 /\ p + k + q + r = k
    BY <1>1
  <2>2. (1500 * k) \div k = 1500 /\ (2500 * k) \div k = 2500
    BY <1>1, WholeShare
  <2>3. NewsWeight(p, q, r) = 1250
    BY <1>1, NewsWeightIs
  <2>4. NewsWeight(p + k, q, r) = (1500 * (p + k - q)) \div (p + k + q + r)
                                  + (2500 * (p + k)) \div (p + k + q + r)
    <3>1. PICK g \in Nat : g = p + k
      OBVIOUS
    <3>2. g + q + r > 0
      BY <2>1, <3>1
    <3>3. NewsWeight(g, q, r) = (1500 * (g - q)) \div (g + q + r)
                                + (2500 * g) \div (g + q + r)
      BY <3>2, NewsWeightIs
    <3> QED
      BY <3>1, <3>3
  <2>5. p + k - q = k /\ p + k = k
    BY <2>1
  <2> QED
    BY <2>1, <2>2, <2>3, <2>4, <2>5
<1>2. CASE k > 0 /\ p + q + r > 0
  <2>1. PICK c \in Nat \ {0}, d \in Nat \ {0} : c = p + q + r /\ d = p + k + q + r /\ d = c + k
    BY <1>2
  <2>2. PICK e \in Int, f \in Int : e = p - q /\ f = p + k - q /\ f = e + k /\ e <= c /\ p <= c
    BY <2>1
  <2>3. e * d <= f * c
    <3>1. e * k <= c * k
      BY <2>1, <2>2
    <3>2. e * d = e * c + e * k /\ f * c = e * c + c * k
      BY <2>1, <2>2
    <3> QED
      BY <3>1, <3>2
  <2>4. p * d <= (p + k) * c
    <3>1. p * k <= c * k
      BY <2>1, <2>2
    <3>2. p * d = p * c + p * k /\ (p + k) * c = p * c + c * k
      BY <2>1
    <3> QED
      BY <3>1, <3>2
  <2>5. PICK s \in Int, t \in Int, u \in Int, v \in Int :
          /\ s = 1500 * e /\ t = 1500 * f /\ u = 2500 * p /\ v = 2500 * (p + k)
          /\ s * d <= t * c /\ u * d <= v * c
    <3>1. (1500 * e) * d <= (1500 * f) * c
      BY <2>3
    <3>2. (2500 * p) * d <= (2500 * (p + k)) * c
      BY <2>4
    <3> QED
      BY <3>1, <3>2
  <2>6. Under(s, c, t, d) /\ Under(u, c, v, d)
    BY <2>5 DEF Under
  <2>7. /\ s \div c <= t \div d /\ s \div c \in Int /\ t \div d \in Int
        /\ u \div c <= v \div d /\ u \div c \in Int /\ v \div d \in Int
    BY <2>6, DivFollows
  <2>8. /\ NewsWeight(p, q, r) = s \div c + u \div c
        /\ NewsWeight(p + k, q, r) = t \div d + v \div d
    <3>1. /\ NewsWeight(p, q, r) = (1500 * (p - q)) \div c + (2500 * p) \div c
          /\ NewsWeight(p + k, q, r) = (1500 * (p + k - q)) \div d + (2500 * (p + k)) \div d
      BY <1>2, <2>1, NewsWeightIs
    <3> QED
      BY <2>2, <2>5, <3>1
  <2> QED
    BY <2>7, <2>8
<1> QED
  BY <1>0, <1>1, <1>2

\* Bad news moves the balance down, and the share of good news too.
LEMMA BadNewsWeighsDown ==
    ASSUME NEW p \in Nat, NEW q \in Nat, NEW r \in Nat, NEW k \in Nat
    PROVE  NewsWeight(p, q + k, r) <= NewsWeight(p, q, r)
<1>0. CASE k = 0
  <2>1. NewsWeight(p, q, r) \in Int /\ q + k = q
    BY <1>0, NewsWeightIs
  <2> QED
    BY <2>1
<1>1. CASE k > 0 /\ p + q + r = 0
  <2>1. /\ p = 0 /\ q = 0 /\ r = 0 /\ p + (q + k) + r > 0 /\ p + (q + k) + r = k
        /\ 1500 * (p - (q + k)) = (-1500) * k /\ 2500 * p = 0 * k
    BY <1>1
  <2>2. ((-1500) * k) \div k = -1500 /\ (0 * k) \div k = 0
    BY <1>1, WholeShare
  <2>3. NewsWeight(p, q, r) = 1250
    BY <1>1, NewsWeightIs
  <2>4. NewsWeight(p, q + k, r) = (1500 * (p - (q + k))) \div (p + (q + k) + r)
                                  + (2500 * p) \div (p + (q + k) + r)
    <3>1. PICK g \in Nat : g = q + k
      OBVIOUS
    <3>2. p + g + r > 0
      BY <2>1, <3>1
    <3>3. NewsWeight(p, g, r) = (1500 * (p - g)) \div (p + g + r)
                                + (2500 * p) \div (p + g + r)
      BY <3>2, NewsWeightIs
    <3> QED
      BY <3>1, <3>3
  <2> QED
    BY <2>1, <2>2, <2>3, <2>4
<1>2. CASE k > 0 /\ p + q + r > 0
  <2>1. PICK c \in Nat \ {0}, d \in Nat \ {0} : c = p + q + r /\ d = p + (q + k) + r /\ d = c + k
    BY <1>2
  <2>2. PICK e \in Int, f \in Int :
          e = p - q /\ f = p - (q + k) /\ f = e - k /\ 0 <= e + c /\ p <= c
    BY <2>1
  <2>3. f * c <= e * d
    <3>1. 0 <= (e + c) * k
      BY <2>1, <2>2
    <3>2. e * d = e * c + e * k /\ f * c = e * c - c * k /\ (e + c) * k = e * k + c * k
      BY <2>1, <2>2
    <3> QED
      BY <3>1, <3>2
  <2>4. p * c <= p * d
    <3>1. p * d = p * c + p * k /\ 0 <= p * k
      BY <2>1
    <3> QED
      BY <3>1
  <2>5. PICK s \in Int, t \in Int, u \in Int :
          s = 1500 * f /\ t = 1500 * e /\ u = 2500 * p /\ s * c <= t * d /\ u * c <= u * d
    <3>1. (1500 * f) * c <= (1500 * e) * d
      BY <2>3
    <3>2. (2500 * p) * c <= (2500 * p) * d
      BY <2>4
    <3> QED
      BY <3>1, <3>2
  <2>6. Under(s, d, t, c) /\ Under(u, d, u, c)
    BY <2>5 DEF Under
  <2>7. /\ s \div d <= t \div c /\ s \div d \in Int /\ t \div c \in Int
        /\ u \div d <= u \div c /\ u \div d \in Int /\ u \div c \in Int
    BY <2>6, DivFollows
  <2>8. /\ NewsWeight(p, q, r) = t \div c + u \div c
        /\ NewsWeight(p, q + k, r) = s \div d + u \div d
    <3>1. /\ NewsWeight(p, q, r) = (1500 * (p - q)) \div c + (2500 * p) \div c
          /\ NewsWeight(p, q + k, r) = (1500 * (p - (q + k))) \div d + (2500 * p) \div d
      BY <1>2, <2>1, NewsWeightIs
    <3> QED
      BY <2>2, <2>5, <3>1
  <2> QED
    BY <2>7, <2>8
<1> QED
  BY <1>0, <1>1, <1>2

LEMMA PersonScoresAre ==
    ASSUME NEW person \in PersonFacts
    PROVE  /\ PersonScores(person) \in ScoreSet
           /\ BaseValues[person.level] \in Nat /\ CategoryMultipliers[person.category] \in Nat
<1>1. /\ person.level \in {"unverified", "verified", "premium"}
      /\ person.category \in {"athlete", "musician", "creator", "entrepreneur", "actor",
                              "politician", "scientist", "general"}
      /\ person.tally \in Tallies
  BY DEF PersonFacts, VerificationPoints, CategoryMultipliers, Tallies
<1>2. /\ BaseValues[person.level] \in Nat /\ VerificationPoints[person.level] \in {0, 2000, 3000}
      /\ CategoryMultipliers[person.category] \in Nat
  BY <1>1 DEF BaseValues, VerificationPoints, CategoryMultipliers
<1>3. VerificationPoints[person.level] \in Points /\ 5000 \in Points /\ 1000 \in Points
  <2>1. 0 \in Points /\ 2000 \in Points /\ 3000 \in Points /\ 5000 \in Points /\ 1000 \in Points
    BY DEF Points
  <2> QED
    BY <1>2, <2>1
<1>4. PersonImageScore(person.tally) \in Points
  BY <1>1, PersonImageIs
<1> QED
  BY <1>2, <1>3, <1>4 DEF PersonScores, ScoreSet

\* What a person is worth follows the weight of the news.
LEMMA FairValueFollows ==
    ASSUME NEW x \in PersonFacts, NEW y \in PersonFacts,
           x.level = y.level, x.category = y.category,
           NewsWeight(x.tally.positive, x.tally.negative, x.tally.neutral)
             <= NewsWeight(y.tally.positive, y.tally.negative, y.tally.neutral)
    PROVE  FairValue(x) <= FairValue(y)
<1>1. x.tally \in Tallies /\ y.tally \in Tallies
  BY DEF PersonFacts, Tallies
<1>2. PICK u \in Int, v \in Int :
        /\ u = 2500 + NewsWeight(x.tally.positive, x.tally.negative, x.tally.neutral)
        /\ v = 2500 + NewsWeight(y.tally.positive, y.tally.negative, y.tally.neutral)
        /\ u <= v
  <2>1. \A t \in Tallies : NewsWeight(t.positive, t.negative, t.neutral) \in Int
    <3> TAKE t \in Tallies
    <3>1. PICK p \in Nat, q \in Nat, r \in Nat :
            p = t.positive /\ q = t.negative /\ r = t.neutral
      BY DEF Tallies
    <3>2. NewsWeight(p, q, r) \in Int
      BY NewsWeightIs
    <3> QED
      BY <3>1, <3>2
  <2> QED
    BY <1>1, <2>1
<1>3. PersonImageScore(x.tally) <= PersonImageScore(y.tally)
  <2>1. PersonImageScore(x.tally) = Clamp(u) /\ PersonImageScore(y.tally) = Clamp(v)
    BY <1>1, <1>2, PersonImageIs
  <2>2. u \in Int /\ v \in Int /\ u <= v
    BY <1>2
  <2>3. Clamp(u) <= Clamp(v)
    BY <2>2, ClampFollows
  <2> QED
    BY <2>1, <2>3
<1>4. PICK s \in ScoreSet, t \in ScoreSet : s = PersonScores(x) /\ t = PersonScores(y)
  BY PersonScoresAre
<1>5. /\ s.name <= t.name /\ s.image <= t.image /\ s.likeness <= t.likeness
      /\ s.essence <= t.essence
  <2>1. /\ s.name = t.name /\ s.image <= t.image /\ s.likeness = t.likeness
        /\ s.essence = t.essence
    BY <1>3, <1>4 DEF PersonScores
  <2>2. s.name \in Points /\ s.likeness \in Points /\ s.essence \in Points
    BY DEF ScoreSet
  <2> QED
    BY <2>1, <2>2, PointsAreIntegers
<1>6. Composite(s) <= Composite(t) /\ Composite(s) \in Nat /\ Composite(t) \in Nat
  BY <1>5, MeanFollows
<1>7. PICK b \in Nat, c \in Nat, m \in Nat, d \in Nat :
        /\ b = BaseValues[x.level] /\ m = CategoryMultipliers[x.category]
        /\ c = Composite(s) /\ d = Composite(t) /\ c <= d
  BY <1>6, PersonScoresAre
<1>8. FairValue(x) = 2 * b * c * m /\ FairValue(y) = 2 * b * d * m
  BY <1>4, <1>7 DEF FairValue
<1>9. 2 * b * c * m <= 2 * b * d * m
  <2>1. 2 * b * c * m = (2 * b * m) * c /\ 2 * b * d * m = (2 * b * m) * d
    BY <1>7
  <2>2. PICK k \in Nat : k = 2 * b * m
    BY <1>7
  <2>3. k * c <= k * d
    BY <1>7, ProductFollows
  <2> QED
    BY <2>1, <2>2, <2>3
<1> QED
  BY <1>8, <1>9

LEMMA FairValueIs ==
    \A x \in PersonFacts : FairValue(x) \in Int
<1> TAKE x \in PersonFacts
<1>1. PICK b \in Int, c \in Int, m \in Int :
        /\ b = BaseValues[x.level] /\ m = CategoryMultipliers[x.category]
        /\ c = Composite(PersonScores(x))
  <2>1. /\ BaseValues[x.level] \in Int /\ CategoryMultipliers[x.category] \in Int
        /\ PersonScores(x) \in ScoreSet
    BY PersonScoresAre
  <2> QED
    BY <2>1, CompositeIs
<1>2. 2 * b * c * m \in Int
  OBVIOUS
<1> QED
  BY <1>1, <1>2 DEF FairValue

\* The marks on an agent's contributions are on contributions it has: none is counted
\* verified or penalized that is not there, nor as both that is not as each.
Consistent(a) ==
    /\ a.both <= a.verified /\ a.both <= a.penalized
    /\ a.verified + a.penalized - a.both <= a.contributions
AgentsScored == {a \in AgentFacts : Consistent(a)}

LEMMA ScoredAgent ==
    ASSUME NEW a \in AgentsScored
    PROVE  /\ a.contributions \in Nat /\ a.verified \in Nat /\ a.penalized \in Nat
           /\ a.both \in Nat /\ a.points \in Int
           /\ a.verified <= a.contributions /\ a.penalized <= a.contributions
<1>1. /\ a.contributions \in Nat /\ a.verified \in Nat /\ a.penalized \in Nat
      /\ a.both \in Nat /\ a.points \in Int
  BY DEF AgentsScored, AgentFacts
<1>2. Consistent(a)
  BY DEF AgentsScored
<1> QED
  BY <1>1, <1>2 DEF Consistent

AgentBase(verified, penalized, contributions) ==
    IF contributions = 0 THEN 5000
    ELSE (7000 * verified + 3000 * (contributions - penalized)) \div contributions

LEMMA AgentBaseFollows ==
    ASSUME NEW c \in Nat, NEW v \in Nat, NEW p \in Nat, NEW w \in Nat, NEW q \in Nat,
           v <= c, p <= c, w <= c, q <= c, v <= w, q <= p
    PROVE  /\ AgentBase(v, p, c) <= AgentBase(w, q, c)
           /\ AgentBase(v, p, c) \in Points /\ AgentBase(w, q, c) \in Points
<1>1. CASE c = 0
  <2>1. AgentBase(v, p, c) = 5000 /\ AgentBase(w, q, c) = 5000
    BY <1>1 DEF AgentBase
  <2>2. 5000 \in Int /\ 0 <= 5000 /\ 5000 <= 10000
    OBVIOUS
  <2>3. 5000 \in Points
    BY <2>2, IsPoints
  <2> QED
    BY <2>1, <2>2, <2>3
<1>2. CASE c > 0
  <2>1. PICK x \in Nat, y \in Nat : /\ x = 7000 * v + 3000 * (c - p)
                                    /\ y = 7000 * w + 3000 * (c - q)
                                    /\ x <= y /\ x <= 10000 * c /\ y <= 10000 * c
    OBVIOUS
  <2>2. PICK d \in Nat \ {0} : d = c
    BY <1>2
  <2>3. x \div c <= y \div c /\ x \div c \in Points /\ y \div c \in Points
    <3>1. x <= y /\ y <= 10000 * d
      BY <2>1, <2>2
    <3>2. Covered(y, d)
      BY <3>1 DEF Covered
    <3>3. x <= y
      BY <2>1
    <3>4. x \div d <= y \div d /\ x \div d \in Points /\ y \div d \in Points
      BY <3>2, <3>3, ShareOf
    <3> QED
      BY <2>2, <3>4
  <2>4. AgentBase(v, p, c) = x \div c /\ AgentBase(w, q, c) = y \div c
    BY <1>2, <2>1 DEF AgentBase
  <2> QED
    BY <2>3, <2>4
<1> QED
  BY <1>1, <1>2

LEMMA AgentImageFollows ==
    ASSUME NEW x \in AgentsScored, NEW y \in AgentsScored, x.contributions = y.contributions,
           x.verified <= y.verified, y.penalized <= x.penalized, x.online => y.online
    PROVE  /\ AgentImageScore(x) <= AgentImageScore(y)
           /\ AgentImageScore(x) \in Points
<1>1. PICK c \in Nat, v \in Nat, p \in Nat, w \in Nat, q \in Nat, on \in BOOLEAN, up \in BOOLEAN :
        /\ c = x.contributions /\ v = x.verified /\ p = x.penalized /\ w = y.verified
        /\ q = y.penalized /\ on = x.online /\ up = y.online
  BY DEF AgentsScored, AgentFacts
<1>2. v <= c /\ p <= c /\ w <= c /\ q <= c /\ v <= w /\ q <= p /\ (on => up)
  BY <1>1, ScoredAgent
<1>3. PICK a \in Int, b \in Int : /\ a = AgentBase(v, p, c) /\ b = AgentBase(w, q, c)
                                  /\ a <= b /\ 0 <= a /\ a <= 10000 /\ b <= 10000
  <2>1. /\ AgentBase(v, p, c) <= AgentBase(w, q, c)
        /\ AgentBase(v, p, c) \in Points /\ AgentBase(w, q, c) \in Points
    BY <1>2, AgentBaseFollows
  <2> QED
    BY <2>1, PointsAreIntegers
<1>4. PICK d \in Int, e \in Int : d = a + 1000 /\ e = b + 1000
  OBVIOUS
<1>5. /\ AgentImageScore(x) = (IF on THEN AtMost(10000, d) ELSE a)
      /\ AgentImageScore(y) = (IF up THEN AtMost(10000, e) ELSE b)
  BY <1>1, <1>3, <1>4 DEF AgentImageScore, AgentBase, Full
<1>6. /\ AtMost(10000, d) = (IF d < 10000 THEN d ELSE 10000)
      /\ AtMost(10000, e) = (IF e < 10000 THEN e ELSE 10000)
  <2>1. 10000 \in Int /\ d \in Int /\ e \in Int
    BY <1>4
  <2> QED
    BY <2>1, AtMostIs
<1>7. PICK k \in Int, l \in Int : /\ k = (IF on THEN AtMost(10000, d) ELSE a)
                                  /\ l = (IF up THEN AtMost(10000, e) ELSE b)
                                  /\ k <= l /\ 0 <= k /\ k <= 10000
  BY <1>2, <1>3, <1>4, <1>6
<1>8. k \in Points
  BY <1>7, IsPoints
<1> QED
  BY <1>5, <1>7, <1>8

LEMMA AgentLikenessIs ==
    ASSUME NEW x \in AgentsScored
    PROVE  AgentLikenessScore(x) \in Points
<1>1. PICK c \in Nat, k \in Nat : c = x.contributions /\ k = x.capabilities
  BY DEF AgentsScored, AgentFacts
<1>2. PICK N : N = {n \in {1, 5, 20} : c >= n}
  OBVIOUS
<1>3. IsFiniteSet({1, 5, 20, 1, 5})
  BY FiveFinite
<1>4. N \subseteq {1, 5, 20, 1, 5}
  BY <1>2
<1>5. PICK d \in Nat : d = Cardinality(N)
  BY <1>3, <1>4, FS_Subset, FS_CardinalityType
<1>6. PICK m \in Int : m = 1500 * k
  OBVIOUS
<1>7. PICK a \in Int : a = AtMost(4000, m)
  <2>1. 4000 \in Int /\ m \in Int
    BY <1>6
  <2> QED
    BY <2>1, AtMostIs
<1>8. PICK w \in Int : w = 2000 * d + a
  OBVIOUS
<1>9. AgentLikenessScore(x) = Clamp(w)
  BY <1>1, <1>2, <1>5, <1>6, <1>7, <1>8 DEF AgentLikenessScore
<1>10. Clamp(w) \in Points
  BY ClampBounded
<1> QED
  BY <1>9, <1>10

\* What the average contribution, in hundredths of a point, is worth.
Reward(average) ==
    IF average >= 5000 THEN 8000 + AtMost(2000, (average - 5000) \div 5)
    ELSE IF average >= 1000 THEN 5000 + (3 * (average - 1000)) \div 4
    ELSE 5 * average

LEMMA RewardFollows ==
    ASSUME NEW a \in Nat, NEW b \in Nat, a <= b
    PROVE  Reward(a) <= Reward(b) /\ Reward(a) \in Points /\ Reward(b) \in Points
<1>1. PICK u \in Int, v \in Int : u = (a - 5000) \div 5 /\ v = (b - 5000) \div 5 /\ u <= v
  OBVIOUS
<1>2. PICK x \in Int, y \in Int : /\ x = (3 * (a - 1000)) \div 4 /\ y = (3 * (b - 1000)) \div 4
                                  /\ x <= y /\ (a < 5000 => x <= 2999) /\ (b < 5000 => y <= 2999)
                                  /\ (a >= 1000 => 0 <= x) /\ (b >= 1000 => 0 <= y)
                                  /\ (a >= 5000 => 0 <= u) /\ (b >= 5000 => 0 <= v)
  BY <1>1
<1>3. PICK s \in Int, t \in Int : /\ s = AtMost(2000, u) /\ t = AtMost(2000, v)
                                  /\ s = (IF u < 2000 THEN u ELSE 2000)
                                  /\ t = (IF v < 2000 THEN v ELSE 2000)
  <2>1. 2000 \in Int /\ u \in Int /\ v \in Int
    BY <1>1
  <2>2. AtMost(2000, u) = (IF u < 2000 THEN u ELSE 2000) /\ AtMost(2000, u) \in Int
    BY <2>1, AtMostIs
  <2>3. AtMost(2000, v) = (IF v < 2000 THEN v ELSE 2000) /\ AtMost(2000, v) \in Int
    BY <2>1, AtMostIs
  <2> QED
    BY <2>2, <2>3
<1>4. PICK p \in Int, q \in Int :
        /\ p = (IF a >= 5000 THEN 8000 + s ELSE IF a >= 1000 THEN 5000 + x ELSE 5 * a)
        /\ q = (IF b >= 5000 THEN 8000 + t ELSE IF b >= 1000 THEN 5000 + y ELSE 5 * b)
  OBVIOUS
<1>5. p <= q /\ 0 <= p /\ p <= 10000 /\ 0 <= q /\ q <= 10000
  <2>1. s <= t
    BY <1>1, <1>3
  <2>2. a >= 5000 => s \in 0 .. 2000
    BY <1>2, <1>3
  <2>3. b >= 5000 => t \in 0 .. 2000
    BY <1>2, <1>3
  <2>4. /\ x <= y /\ (a < 5000 => x <= 2999) /\ (b < 5000 => y <= 2999)
        /\ (a >= 1000 => 0 <= x) /\ (b >= 1000 => 0 <= y)
    BY <1>2
  <2> QED
    BY <1>4, <2>1, <2>2, <2>3, <2>4
<1>6. Reward(a) = p
  BY <1>1, <1>2, <1>3, <1>4 DEF Reward
<1>7. Reward(b) = q
  BY <1>1, <1>2, <1>3, <1>4 DEF Reward
<1>8. p \in Points /\ q \in Points
  BY <1>5, IsPoints
<1> QED
  BY <1>5, <1>6, <1>7, <1>8

LEMMA AgentEssenceFollows ==
    ASSUME NEW x \in AgentsScored, NEW y \in AgentsScored, x.contributions = y.contributions,
           x.points <= y.points
    PROVE  /\ AgentEssenceScore(x) <= AgentEssenceScore(y)
           /\ AgentEssenceScore(x) \in Points
<1>1. PICK c \in Nat, p \in Int, q \in Int : c = x.contributions /\ p = x.points /\ q = y.points
  BY DEF AgentsScored, AgentFacts
<1>2. PICK d \in Nat \ {0} : d = Max({c, 1})
  <2>1. c \in Int /\ 1 \in Int
    OBVIOUS
  <2>2. Max({c, 1}) = (IF c <= 1 THEN 1 ELSE c)
    BY <2>1, LeastAndGreatest
  <2> QED
    BY <2>2
<1>3. /\ AgentEssenceScore(x) = (IF p <= 0 THEN 0 ELSE Reward((100 * p) \div d))
      /\ AgentEssenceScore(y) = (IF q <= 0 THEN 0 ELSE Reward((100 * q) \div d))
  BY <1>1, <1>2 DEF AgentEssenceScore, Reward
<1>4. ASSUME NEW r \in Int, r > 0 PROVE (100 * r) \div d \in Nat
  BY <1>4
<1>5. 0 \in Points
  BY DEF Points
<1>6. CASE p <= 0
  <2>1. AgentEssenceScore(y) \in Points
    <3>1. CASE q <= 0
      BY <1>3, <1>5, <3>1
    <3>2. CASE q > 0
      <4>1. PICK b \in Nat : b = (100 * q) \div d
        BY <1>4, <3>2
      <4>2. Reward(b) \in Points
        BY <4>1, RewardFollows
      <4> QED
        BY <1>3, <3>2, <4>1, <4>2
    <3> QED
      BY <3>1, <3>2
  <2>2. AgentEssenceScore(x) = 0
    BY <1>3, <1>6
  <2> QED
    BY <1>5, <2>1, <2>2, PointsAreIntegers
<1>7. CASE p > 0
  <2>1. q > 0 /\ p <= q
    BY <1>1, <1>7
  <2>2. PICK a \in Nat, b \in Nat : a = (100 * p) \div d /\ b = (100 * q) \div d
    BY <1>4, <1>7, <2>1
  <2>3. a <= b
    <3>1. PICK u \in Int, v \in Int : u = 100 * p /\ v = 100 * q /\ u <= v
      BY <2>1
    <3>2. Under(u, d, v, d)
      BY <3>1 DEF Under
    <3>3. u \div d <= v \div d
      BY <3>2, DivFollows
    <3> QED
      BY <2>2, <3>1, <3>3
  <2>4. Reward(a) <= Reward(b) /\ Reward(a) \in Points
    BY <2>3, RewardFollows
  <2>5. AgentEssenceScore(x) = Reward(a) /\ AgentEssenceScore(y) = Reward(b)
    BY <1>3, <1>7, <2>1, <2>2
  <2> QED
    BY <2>4, <2>5
<1> QED
  BY <1>6, <1>7

LEMMA AgentScoresAre ==
    ASSUME NEW x \in AgentsScored
    PROVE  AgentScores(x) \in ScoreSet
<1>1. x.filled \in 0 .. 5 /\ x.verified \in Nat /\ x.penalized \in Nat /\ x.points \in Int
  BY DEF AgentsScored, AgentFacts
<1>2. 2000 * x.filled \in Points
  BY <1>1, IsPoints
<1>3. AgentImageScore(x) \in Points
  <2>1. x.verified <= x.verified /\ x.penalized <= x.penalized
    BY <1>1
  <2> QED
    BY <2>1, AgentImageFollows
<1>4. AgentEssenceScore(x) \in Points
  <2>1. x.points <= x.points
    BY <1>1
  <2> QED
    BY <2>1, AgentEssenceFollows
<1> QED
  BY <1>2, <1>3, <1>4, AgentLikenessIs DEF AgentScores, ScoreSet

\* A standing that is no worse is worth no less.
LEMMA StandingFollows ==
    ASSUME NEW x \in AgentsScored, NEW y \in AgentsScored, x.contributions = y.contributions,
           x.filled = y.filled, x.capabilities = y.capabilities,
           x.verified <= y.verified, y.penalized <= x.penalized, x.online => y.online,
           x.points <= y.points
    PROVE  Composite(AgentScores(x)) <= Composite(AgentScores(y))
<1>1. PICK s \in ScoreSet, t \in ScoreSet : s = AgentScores(x) /\ t = AgentScores(y)
  BY AgentScoresAre
<1>2. /\ AgentImageScore(x) <= AgentImageScore(y)
      /\ AgentEssenceScore(x) <= AgentEssenceScore(y)
  BY AgentImageFollows, AgentEssenceFollows
<1>3. AgentLikenessScore(x) = AgentLikenessScore(y)
  BY DEF AgentLikenessScore
<1>4. /\ s.name = t.name /\ s.image <= t.image /\ s.likeness = t.likeness
      /\ s.essence <= t.essence
  BY <1>1, <1>2, <1>3 DEF AgentScores
<1>5. s.name <= t.name /\ s.likeness <= t.likeness
  <2>1. s.name \in Points /\ s.likeness \in Points
    BY DEF ScoreSet
  <2> QED
    BY <1>4, <2>1, PointsAreIntegers
<1>6. Composite(s) <= Composite(t)
  BY <1>4, <1>5, MeanFollows
<1> QED
  BY <1>1, <1>6

-----------------------------------------------------------------------------
(***************************************************************************)
(* The scores of a scan.                                                   *)
(***************************************************************************)
LEMMA ProgramScoreParts ==
    ASSUME NEW f \in ProgramFacts, NEW m
    PROVE  /\ ScoreOf(f, m).name = NameScore(ProgramNameInput(f, m))
           /\ ScoreOf(f, m).image = ImageScore(ProgramImageInput(f, m))
           /\ ScoreOf(f, m).likeness = LikenessScore(MatchExploitPatterns(f, m), 0)
           /\ ScoreOf(f, m).essence = EssenceScore(ProgramEssenceInput(f, m))
           /\ ScoreOf(f, m) \in ScoreSet
<1>1. f.kind = "program"
  BY DEF ProgramFacts
<1>2. ScoreOf(f, m) = [name |-> NameScore(ProgramNameInput(f, m)),
                       image |-> ImageScore(ProgramImageInput(f, m)),
                       likeness |-> LikenessScore(MatchExploitPatterns(f, m), 0),
                       essence |-> EssenceScore(ProgramEssenceInput(f, m))]
  BY <1>1, ProgramScoreIs DEF ScoreOf
<1>3. f.writable \in Nat /\ f.readonly \in Nat /\ f.cpi \in Nat
  BY DEF ProgramFacts
<1>4. f.writable <= f.writable /\ f.readonly <= f.readonly /\ f.cpi <= f.cpi
  BY <1>3
<1>5. NameScore(ProgramNameInput(f, m)) \in Points
  BY ProgramNameFollows
<1>6. ImageScore(ProgramImageInput(f, m)) \in Points
  BY <1>4, ProgramImageFollows
<1>7. LikenessScore(MatchExploitPatterns(f, m), 0) \in Points
  BY <1>4, ProgramLikenessFollows
<1>8. EssenceScore(ProgramEssenceInput(f, m)) \in Points
  BY <1>4, ProgramEssenceFollows
<1> QED
  BY <1>2, <1>5, <1>6, <1>7, <1>8 DEF ScoreSet

LEMMA TokenScoreParts ==
    ASSUME NEW f \in MintFacts, NEW m
    PROVE  /\ ScoreOf(f, m).name = NameScore(TokenNameInput(f, m))
           /\ ScoreOf(f, m).image = ImageScore(TokenImageInput(f, m))
           /\ ScoreOf(f, m).likeness
                = LikenessScore(MatchTokenPatterns(f, m), RugSimilarity(f, m))
           /\ ScoreOf(f, m).essence = EssenceScore(TokenEssenceInput(f, m))
           /\ ScoreOf(f, m) \in ScoreSet
<1>1. f.kind = "mint"
  BY DEF MintFacts
<1>2. ScoreOf(f, m) = [name |-> NameScore(TokenNameInput(f, m)),
                       image |-> ImageScore(TokenImageInput(f, m)),
                       likeness |-> LikenessScore(MatchTokenPatterns(f, m), RugSimilarity(f, m)),
                       essence |-> EssenceScore(TokenEssenceInput(f, m))]
  BY <1>1, TokenScoreIs DEF ScoreOf
<1>3. NameScore(TokenNameInput(f, m)) \in Points
  BY TokenNameFollows
<1>4. ImageScore(TokenImageInput(f, m)) \in Points
  BY TokenImageFollows
<1>5. LikenessScore(MatchTokenPatterns(f, m), RugSimilarity(f, m)) \in Points
  BY TokenLikenessFollows
<1>6. EssenceScore(TokenEssenceInput(f, m)) \in Points
  BY TokenEssenceIs
<1> QED
  BY <1>2, <1>3, <1>4, <1>5, <1>6 DEF ScoreSet

\* A program with less to find in it scores no lower.
LEMMA FewerFindings ==
    ASSUME NEW f \in ProgramFacts, NEW g \in ProgramFacts, NEW m,
           f.hasIdl = g.hasIdl, f.instructions = g.instructions, f.upgradeable = g.upgradeable,
           f.known = g.known, f.listed = g.listed, f.ageDays = g.ageDays,
           g.writable <= f.writable, g.readonly <= f.readonly, g.cpi <= f.cpi
    PROVE  Composite(ScoreOf(f, m)) <= Composite(ScoreOf(g, m))
<1>1. PICK s \in ScoreSet, t \in ScoreSet : s = ScoreOf(f, m) /\ t = ScoreOf(g, m)
  BY ProgramScoreParts
<1>2. NameScore(ProgramNameInput(f, m)) <= NameScore(ProgramNameInput(g, m))
  BY ProgramNameFollows
<1>3. ImageScore(ProgramImageInput(f, m)) <= ImageScore(ProgramImageInput(g, m))
  BY ProgramImageFollows
<1>4. LikenessScore(MatchExploitPatterns(f, m), 0) <= LikenessScore(MatchExploitPatterns(g, m), 0)
  BY ProgramLikenessFollows
<1>5. EssenceScore(ProgramEssenceInput(f, m)) <= EssenceScore(ProgramEssenceInput(g, m))
  BY ProgramEssenceFollows
<1>6. /\ s.name <= t.name /\ s.image <= t.image
      /\ s.likeness <= t.likeness /\ s.essence <= t.essence
  BY <1>1, <1>2, <1>3, <1>4, <1>5, ProgramScoreParts
<1>7. Composite(s) <= Composite(t)
  BY <1>6, MeanFollows
<1> QED
  BY <1>1, <1>7

\* Lookups that fail lower a score, but for those of FailOpen.
LEMMA FewerFailures ==
    ASSUME NEW f \in ProgramFacts \cup MintFacts, NEW m, NEW n, n \subseteq m,
           m \cap FailOpen = n \cap FailOpen
    PROVE  Composite(ScoreOf(f, m)) <= Composite(ScoreOf(f, n))
<1>1. /\ "patterns" \in m <=> "patterns" \in n
      /\ "idl" \in m <=> "idl" \in n
      /\ "authority" \in m <=> "authority" \in n
      /\ "holders" \in m <=> "holders" \in n
      /\ "wallet" \in m <=> "wallet" \in n
  BY DEF FailOpen
<1>2. CASE f \in ProgramFacts
  <2>1. PICK s \in ScoreSet, t \in ScoreSet : s = ScoreOf(f, m) /\ t = ScoreOf(f, n)
    BY <1>2, ProgramScoreParts
  <2>2. f.writable \in Nat /\ f.readonly \in Nat /\ f.cpi \in Nat
    BY <1>2 DEF ProgramFacts
  <2>3. f.writable <= f.writable /\ f.readonly <= f.readonly /\ f.cpi <= f.cpi
    BY <2>2
  <2>4. NameScore(ProgramNameInput(f, m)) <= NameScore(ProgramNameInput(f, n))
    BY <1>2, ProgramNameFollows
  <2>5. ImageScore(ProgramImageInput(f, m)) <= ImageScore(ProgramImageInput(f, n))
    BY <1>1, <1>2, <2>3, ProgramImageFollows
  <2>6. LikenessScore(MatchExploitPatterns(f, m), 0)
          <= LikenessScore(MatchExploitPatterns(f, n), 0)
    BY <1>1, <1>2, <2>3, ProgramLikenessFollows
  <2>7. EssenceScore(ProgramEssenceInput(f, m)) <= EssenceScore(ProgramEssenceInput(f, n))
    BY <1>1, <1>2, <2>3, ProgramEssenceFollows
  <2>8. /\ s.name <= t.name /\ s.image <= t.image
        /\ s.likeness <= t.likeness /\ s.essence <= t.essence
    BY <1>2, <2>1, <2>4, <2>5, <2>6, <2>7, ProgramScoreParts
  <2>9. Composite(s) <= Composite(t)
    BY <2>8, MeanFollows
  <2> QED
    BY <2>1, <2>9
<1>3. CASE f \in MintFacts
  <2>1. PICK s \in ScoreSet, t \in ScoreSet : s = ScoreOf(f, m) /\ t = ScoreOf(f, n)
    BY <1>3, TokenScoreParts
  <2>2. NameScore(TokenNameInput(f, m)) <= NameScore(TokenNameInput(f, n))
    BY <1>1, <1>3, TokenNameFollows
  <2>3. ImageScore(TokenImageInput(f, m)) <= ImageScore(TokenImageInput(f, n))
    BY <1>3, TokenImageFollows
  <2>4. LikenessScore(MatchTokenPatterns(f, m), RugSimilarity(f, m))
          <= LikenessScore(MatchTokenPatterns(f, n), RugSimilarity(f, n))
    BY <1>1, <1>3, TokenLikenessFollows
  <2>5. TokenEssenceInput(f, m) = TokenEssenceInput(f, n)
    BY <1>1 DEF TokenEssenceInput, Holders
  <2>6. s.essence = t.essence /\ s.essence \in Points
    <3>1. s.essence \in Points
      BY DEF ScoreSet
    <3> QED
      BY <1>3, <2>1, <2>5, <3>1, TokenScoreParts
  <2>7. s.name <= t.name /\ s.image <= t.image /\ s.likeness <= t.likeness
    BY <1>3, <2>1, <2>2, <2>3, <2>4, TokenScoreParts
  <2>8. s.essence <= t.essence
    BY <2>6, PointsAreIntegers
  <2>9. Composite(s) <= Composite(t)
    BY <2>7, <2>8, MeanFollows
  <2> QED
    BY <2>1, <2>9
<1> QED
  BY <1>2, <1>3

\* The authority's lookup failing adds at most 5 for the upgrade risk and 6.25 for the rug
\* pull patterns.
LEMMA AuthorityMissed ==
    ASSUME NEW f \in ProgramFacts \cup MintFacts, NEW m
    PROVE  Composite(ScoreOf(f, m \cup {"authority"})) <= Composite(ScoreOf(f, m)) + 500 + 625
<1> DEFINE n == m \cup {"authority"}
<1>1. CASE f \in ProgramFacts
  <2>1. PICK s \in ScoreSet, t \in ScoreSet : s = ScoreOf(f, n) /\ t = ScoreOf(f, m)
    BY <1>1, ProgramScoreParts
  <2>2. f.writable \in Nat /\ f.readonly \in Nat /\ f.cpi \in Nat
    BY <1>1 DEF ProgramFacts
  <2>3. f.writable <= f.writable /\ f.readonly <= f.readonly /\ f.cpi <= f.cpi
    BY <2>2
  <2>4. "idl" \in n <=> "idl" \in m
    OBVIOUS
  <2>5. NameScore(ProgramNameInput(f, n)) <= NameScore(ProgramNameInput(f, m))
    <3>1. m \subseteq n
      OBVIOUS
    <3> QED
      BY <1>1, <3>1, ProgramNameFollows
  <2>6. ImageScore(ProgramImageInput(f, n)) <= ImageScore(ProgramImageInput(f, m))
    BY <1>1, <2>3, <2>4, ProgramImageFollows
  <2>7. LikenessScore(MatchExploitPatterns(f, n), 0)
          <= LikenessScore(MatchExploitPatterns(f, m), 0) + 2500
    BY <1>1, AuthorityInLikeness
  <2>8. EssenceScore(ProgramEssenceInput(f, n)) <= EssenceScore(ProgramEssenceInput(f, m)) + 2000
    BY <1>1, <2>3, <2>4, ProgramEssenceFollows
  <2>9. /\ s.name <= t.name /\ s.image <= t.image
        /\ s.likeness <= t.likeness + 2500 /\ s.essence <= t.essence + 2000
    BY <1>1, <2>1, <2>5, <2>6, <2>7, <2>8, ProgramScoreParts
  <2>10. Composite(s) <= Composite(t) + 1125
    BY <2>9, GainsFollow
  <2>11. Composite(t) \in Int
    BY CompositeIs
  <2>12. Composite(s) <= Composite(t) + 500 + 625
    BY <2>10, <2>11
  <2> QED
    BY <2>1, <2>12
<1>2. CASE f \in MintFacts
  <2>1. ScoreOf(f, n) = ScoreOf(f, m)
    <3>1. f.kind = "mint"
      BY <1>2 DEF MintFacts
    <3>2. TokenScore(f, n) = TokenScore(f, m)
      <4>1. \A l : l # "authority" => (l \in n <=> l \in m)
        OBVIOUS
      <4> HIDE DEF n
      <4>2. TokenNameInput(f, n) = TokenNameInput(f, m)
        <5>1. /\ Listed(f, "jupiter", n) = Listed(f, "jupiter", m)
              /\ Age(f, "age", n) = Age(f, "age", m)
              /\ Age(f, "mintAge", n) = Age(f, "mintAge", m)
              /\ SerialDeployer(f, n) = SerialDeployer(f, m)
          BY <4>1 DEF Listed, Age, SerialDeployer
        <5>2. EcosystemScore(f, n) = EcosystemScore(f, m)
          BY <5>1 DEF EcosystemScore
        <5> QED
          BY <5>1, <5>2 DEF TokenNameInput
      <4>3. TokenImageInput(f, n) = TokenImageInput(f, m)
        BY <4>1 DEF TokenImageInput, LpDetected, Listed
      <4>4. /\ Holders(f, n) = Holders(f, m) /\ SerialDeployer(f, n) = SerialDeployer(f, m)
            /\ LpDetected(f, n) = LpDetected(f, m) /\ Age(f, "mintAge", n) = Age(f, "mintAge", m)
        BY <4>1 DEF Holders, SerialDeployer, LpDetected, Listed, Age
      <4>5. MatchTokenPatterns(f, n) = MatchTokenPatterns(f, m)
        <5>1. \A id : TokenConfidence(id, f, n) = TokenConfidence(id, f, m)
          BY <4>4 DEF TokenConfidence
        <5>2. TokenConfidences(f, n) = TokenConfidences(f, m)
          BY <4>1, <5>1 DEF TokenConfidences
        <5> QED
          BY <5>2 DEF MatchTokenPatterns, TokenConfidences
      <4>6. RugSimilarity(f, n) = RugSimilarity(f, m)
        BY <4>4 DEF RugSimilarity
      <4>7. TokenEssenceInput(f, n) = TokenEssenceInput(f, m)
        BY <4>4 DEF TokenEssenceInput
      <4> QED
        BY <4>2, <4>3, <4>5, <4>6, <4>7, TokenScoreIs
    <3> QED
      BY <3>1, <3>2 DEF ScoreOf
  <2>2. Composite(ScoreOf(f, m)) \in Int
    BY <1>2, TokenScoreParts, CompositeIs
  <2> QED
    BY <2>1, <2>2
<1> QED
  BY <1>1, <1>2

-----------------------------------------------------------------------------
(***************************************************************************)
(* The specification.  What a scan recorded is the score of its subject    *)
(* with the lookups that failed: the properties of a scored scan are then  *)
(* those of ScoreOf.                                                       *)
(***************************************************************************)
AnalysisInv ==
    /\ subject \in ProgramFacts \cup MintFacts \cup PersonFacts \cup AgentsScored
    /\ phase \in {"requested", "program", "token", "error", "scored"}
    /\ missed \subseteq TypeLookups \cup ProgramLookups \cup TokenLookups
    /\ score \in ScoreSet
    /\ subject.kind = "person" => score \in {NoScore, PersonScores(subject)}
    /\ phase = "program" => subject.kind = "program"
    /\ phase = "token" => subject.kind = "mint"
    /\ phase = "scored" => /\ subject.kind \in {"program", "mint"}
                           /\ score = ScoreOf(subject, missed)

LEMMA KindsDiffer ==
    /\ \A f \in ProgramFacts : f.kind = "program"
    /\ \A f \in MintFacts : f.kind = "mint"
    /\ \A f \in PersonFacts : f.kind = "person"
    /\ \A f \in AgentsScored : f.kind = "agent"
BY DEF ProgramFacts, MintFacts, PersonFacts, AgentsScored, AgentFacts

\* News added to news.
LEMMA AddedIs ==
    ASSUME NEW t \in Tallies, NEW u \in Tallies
    PROVE  /\ Added(t, u) \in Tallies
           /\ Added(t, u).positive = t.positive + u.positive
           /\ Added(t, u).negative = t.negative + u.negative
           /\ Added(t, u).neutral = t.neutral + u.neutral
<1>1. /\ t.positive \in Nat /\ t.negative \in Nat /\ t.neutral \in Nat
      /\ u.positive \in Nat /\ u.negative \in Nat /\ u.neutral \in Nat
  BY DEF Tallies
<1> QED
  BY <1>1 DEF Added, Tallies

LEMMA OneEvent ==
    ASSUME NEW sign \in Signs
    PROVE  [NoNews EXCEPT ![sign] = 1] \in Tallies
<1>1. CASE sign = "positive"
  BY <1>1 DEF NoNews, Tallies
<1>2. CASE sign = "negative"
  BY <1>2 DEF NoNews, Tallies
<1>3. CASE sign = "neutral"
  BY <1>3 DEF NoNews, Tallies
<1> QED
  BY <1>1, <1>2, <1>3 DEF Signs

\* A person with one more event that nobody has valued.
LEMMA ConfirmedMore ==
    ASSUME NEW x \in PersonFacts, NEW sign \in Signs, NEW y,
           y = [x EXCEPT !.pending = Added(@, [NoNews EXCEPT ![sign] = 1])]
    PROVE  /\ y \in PersonFacts
           /\ y.level = x.level /\ y.category = x.category /\ y.tally = x.tally
<1>1. x.pending \in Tallies
  BY DEF PersonFacts
<1>2. PICK t \in Tallies : t = Added(x.pending, [NoNews EXCEPT ![sign] = 1])
  BY <1>1, OneEvent, AddedIs
<1>3. y = [x EXCEPT !.pending = t]
  BY <1>2
<1> QED
  BY <1>3 DEF PersonFacts

\* A person that is valued again.
LEMMA ValuedAgain ==
    ASSUME NEW x \in PersonFacts, NEW sign \in Signs, NEW y,
           y = [x EXCEPT !.tally = Recount(x, sign), !.pending = NoNews]
    PROVE  /\ y \in PersonFacts
           /\ y.level = x.level /\ y.category = x.category
           /\ y.tally.positive >= x.tally.positive
           /\ y.tally.negative >= x.tally.negative
           /\ y.tally.neutral >= x.tally.neutral
<1>1. x.tally \in Tallies /\ x.pending \in Tallies /\ NoNews \in Tallies
  BY DEF PersonFacts, NoNews, Tallies
<1>2. PICK o \in Tallies : o = [NoNews EXCEPT ![sign] = 1]
  BY OneEvent
<1>3. PICK t \in Tallies : t = Added(x.tally, x.pending)
  BY <1>1, AddedIs
<1>4. PICK u \in Tallies : u = Added(t, o)
  BY AddedIs
<1>5. u = Recount(x, sign)
  BY <1>2, <1>3, <1>4 DEF Recount
<1>6. /\ u.positive = x.tally.positive + x.pending.positive + o.positive
      /\ u.negative = x.tally.negative + x.pending.negative + o.negative
      /\ u.neutral = x.tally.neutral + x.pending.neutral + o.neutral
  BY <1>1, <1>3, <1>4, AddedIs
<1>7. \A n \in Tallies : n.positive \in Nat /\ n.negative \in Nat /\ n.neutral \in Nat
  BY DEF Tallies
<1>8. /\ u.positive >= x.tally.positive
      /\ u.negative >= x.tally.negative
      /\ u.neutral >= x.tally.neutral
  BY <1>1, <1>6, <1>7
<1>9. PICK z : z = [x EXCEPT !.tally = u]
  OBVIOUS
<1>10. z \in PersonFacts /\ z.level = x.level /\ z.category = x.category /\ z.tally = u
  BY <1>9 DEF PersonFacts
<1>11. y = [z EXCEPT !.pending = NoNews]
  BY <1>5, <1>9 DEF PersonFacts
<1>12. y \in PersonFacts /\ y.level = z.level /\ y.category = z.category /\ y.tally = z.tally
  BY <1>1, <1>10, <1>11 DEF PersonFacts
<1> QED
  BY <1>8, <1>10, <1>12

\* An agent with other counters: what each verdict and award makes of one.
Standing(x, c, v, p, b, n) ==
    [x EXCEPT !.contributions = c, !.verified = v, !.penalized = p, !.both = b, !.points = n]

\* Each counter of it lies within what an agent has of it.
Fits(c, v, p, b, n) ==
    /\ c \in Nat /\ v \in Nat /\ p \in Nat /\ b \in Nat /\ n \in Int
    /\ b <= v /\ b <= p /\ v + p - b <= c

LEMMA StandingIs ==
    ASSUME NEW x \in AgentsScored, NEW c, NEW v, NEW p, NEW b, NEW n, Fits(c, v, p, b, n),
           NEW y, y = Standing(x, c, v, p, b, n)
    PROVE  /\ y \in AgentsScored
           /\ y.filled = x.filled /\ y.capabilities = x.capabilities /\ y.online = x.online
           /\ y.contributions = c /\ y.verified = v /\ y.penalized = p /\ y.points = n
<1>0. x \in AgentFacts
  BY DEF AgentsScored
<1>1. PICK z : z = [x EXCEPT !.contributions = c]
  OBVIOUS
<1>2. /\ z \in AgentFacts /\ z.filled = x.filled /\ z.capabilities = x.capabilities
      /\ z.online = x.online /\ z.contributions = c
  BY <1>0, <1>1 DEF AgentFacts, Fits
<1>3. PICK w : w = [z EXCEPT !.verified = v]
  OBVIOUS
<1>4. /\ w \in AgentFacts /\ w.filled = x.filled /\ w.capabilities = x.capabilities
      /\ w.online = x.online /\ w.contributions = c /\ w.verified = v
  BY <1>2, <1>3 DEF AgentFacts, Fits
<1>5. PICK q : q = [w EXCEPT !.penalized = p]
  OBVIOUS
<1>6. /\ q \in AgentFacts /\ q.filled = x.filled /\ q.capabilities = x.capabilities
      /\ q.online = x.online /\ q.contributions = c /\ q.verified = v /\ q.penalized = p
  BY <1>4, <1>5 DEF AgentFacts, Fits
<1>7. PICK d : d = [q EXCEPT !.both = b]
  OBVIOUS
<1>8. /\ d \in AgentFacts /\ d.filled = x.filled /\ d.capabilities = x.capabilities
      /\ d.online = x.online /\ d.contributions = c /\ d.verified = v /\ d.penalized = p
      /\ d.both = b
  BY <1>6, <1>7 DEF AgentFacts, Fits
<1>9. y = [d EXCEPT !.points = n]
  BY <1>1, <1>3, <1>5, <1>7 DEF Standing
<1>10. /\ y \in AgentFacts
       /\ y.filled = x.filled /\ y.capabilities = x.capabilities /\ y.online = x.online
       /\ y.contributions = c /\ y.verified = v /\ y.penalized = p /\ y.both = b
       /\ y.points = n
  BY <1>8, <1>9 DEF AgentFacts, Fits
<1>11. Consistent(y)
  BY <1>10 DEF Consistent, Fits
<1> QED
  BY <1>10, <1>11 DEF AgentsScored

LEMMA Awarded ==
    ASSUME NEW x \in AgentsScored
    PROVE  /\ Award(x) \in AgentsScored
           /\ Award(x).online = x.online
           /\ Award(x).verified = x.verified /\ Award(x).penalized = x.penalized
<1>1. /\ x.contributions \in Nat /\ x.verified \in Nat /\ x.penalized \in Nat
      /\ x.both \in Nat /\ x.points \in Int /\ Consistent(x) /\ x \in AgentFacts
  BY ScoredAgent DEF AgentsScored
<1>2. PICK c \in Nat, n \in Int : c = x.contributions + 1 /\ n = x.points + 50
  BY <1>1
<1>3. Award(x) = Standing(x, c, x.verified, x.penalized, x.both, n)
  BY <1>1, <1>2 DEF Award, Standing, AgentFacts
<1>4. /\ x.both <= x.verified /\ x.both <= x.penalized
      /\ x.verified + x.penalized - x.both <= c
  BY <1>1, <1>2 DEF Consistent
<1>5. Fits(c, x.verified, x.penalized, x.both, n)
  BY <1>1, <1>4 DEF Fits
<1>6. PICK y : y = Award(x)
  OBVIOUS
<1>7. /\ y \in AgentsScored /\ y.online = x.online
      /\ y.verified = x.verified /\ y.penalized = x.penalized
  BY <1>3, <1>5, <1>6, StandingIs
<1> QED
  BY <1>6, <1>7

\* What a verdict makes of the counters: a mark of verification more or less, a penalty
\* more, and never a penalty less.
LEMMA JudgedIs ==
    ASSUME NEW x \in AgentsScored, NEW mark \in Marks, NEW valid \in BOOLEAN,
           Marked(x, mark) > 0, NEW y, y = Judged(x, mark, valid)
    PROVE  /\ y \in AgentsScored
           /\ y.filled = x.filled /\ y.capabilities = x.capabilities
           /\ y.online = x.online /\ y.contributions = x.contributions
           /\ valid => /\ x.verified <= y.verified /\ y.penalized = x.penalized
                       /\ y.points = x.points
           /\ ~valid => /\ y.verified <= x.verified /\ x.penalized <= y.penalized
                        /\ y.points <= x.points
<1>1. /\ x.contributions \in Nat /\ x.verified \in Nat /\ x.penalized \in Nat
      /\ x.both \in Nat /\ x.points \in Int /\ Consistent(x) /\ x \in AgentFacts
  BY ScoredAgent DEF AgentsScored
<1>2. PICK c \in Nat, v \in Nat, p \in Nat, b \in Nat, n \in Int :
        /\ c = x.contributions /\ v = x.verified /\ p = x.penalized /\ b = x.both
        /\ n = x.points
  BY <1>1
<1>3. b <= v /\ b <= p /\ v + p - b <= c
  BY <1>1, <1>2 DEF Consistent
<1>4. CASE valid
  <2>1. PICK w \in Nat, d \in Nat :
          /\ w = v + When(mark \in {"none", "penalized"}, 1)
          /\ d = b + When(mark = "penalized", 1)
          /\ v <= w /\ d <= w /\ d <= p /\ w + p - d <= c
    <3>1. CASE mark = "none"
      <4>1. c - v - p + b > 0
        BY <1>2, <3>1 DEF Marked
      <4>2. When(mark \in {"none", "penalized"}, 1) = 1 /\ When(mark = "penalized", 1) = 0
        BY <3>1 DEF When
      <4> QED
        BY <1>3, <4>1, <4>2
    <3>2. CASE mark = "penalized"
      <4>1. p - b > 0
        BY <1>2, <3>2 DEF Marked
      <4>2. When(mark \in {"none", "penalized"}, 1) = 1 /\ When(mark = "penalized", 1) = 1
        BY <3>2 DEF When
      <4> QED
        BY <1>3, <4>1, <4>2
    <3>3. CASE mark \in {"verified", "both"}
      <4>1. When(mark \in {"none", "penalized"}, 1) = 0 /\ When(mark = "penalized", 1) = 0
        BY <3>3 DEF When
      <4> QED
        BY <1>3, <4>1
    <3> QED
      BY <3>1, <3>2, <3>3 DEF Marks
  <2>2. y = Standing(x, c, w, p, d, n)
    BY <1>1, <1>2, <1>4, <2>1 DEF Judged, Standing, AgentFacts
  <2>3. Fits(c, w, p, d, n)
    BY <1>2, <1>3, <2>1 DEF Fits
  <2>4. /\ y \in AgentsScored
        /\ y.filled = x.filled /\ y.capabilities = x.capabilities /\ y.online = x.online
        /\ y.contributions = c /\ y.verified = w /\ y.penalized = p /\ y.points = n
    BY <2>2, <2>3, StandingIs
  <2> QED
    BY <1>2, <1>3, <1>4, <2>1, <2>4
<1>5. CASE ~valid
  <2>1. PICK w \in Nat, d \in Nat, q \in Nat, m \in Int :
          /\ w = v - When(mark \in {"verified", "both"}, 1)
          /\ d = b - When(mark = "both", 1)
          /\ q = p + When(mark \in {"none", "verified"}, 1)
          /\ m = n - When(mark \in {"none", "verified"}, 70)
          /\ w <= v /\ p <= q /\ m <= n /\ d <= w /\ d <= q /\ w + q - d <= c
    <3>1. CASE mark = "none"
      <4>1. c - v - p + b > 0
        BY <1>2, <3>1 DEF Marked
      <4>2. /\ When(mark \in {"verified", "both"}, 1) = 0 /\ When(mark = "both", 1) = 0
            /\ When(mark \in {"none", "verified"}, 1) = 1
            /\ When(mark \in {"none", "verified"}, 70) = 70
        BY <3>1 DEF When
      <4> QED
        BY <1>3, <4>1, <4>2
    <3>2. CASE mark = "verified"
      <4>1. v - b > 0
        BY <1>2, <3>2 DEF Marked
      <4>2. /\ When(mark \in {"verified", "both"}, 1) = 1 /\ When(mark = "both", 1) = 0
            /\ When(mark \in {"none", "verified"}, 1) = 1
            /\ When(mark \in {"none", "verified"}, 70) = 70
        BY <3>2 DEF When
      <4> QED
        BY <1>3, <4>1, <4>2
    <3>3. CASE mark = "both"
      <4>1. b > 0
        BY <1>2, <3>3 DEF Marked
      <4>2. /\ When(mark \in {"verified", "both"}, 1) = 1 /\ When(mark = "both", 1) = 1
            /\ When(mark \in {"none", "verified"}, 1) = 0
            /\ When(mark \in {"none", "verified"}, 70) = 0
        BY <3>3 DEF When
      <4> QED
        BY <1>3, <4>1, <4>2
    <3>4. CASE mark = "penalized"
      <4>1. /\ When(mark \in {"verified", "both"}, 1) = 0 /\ When(mark = "both", 1) = 0
            /\ When(mark \in {"none", "verified"}, 1) = 0
            /\ When(mark \in {"none", "verified"}, 70) = 0
        BY <3>4 DEF When
      <4> QED
        BY <1>3, <4>1
    <3> QED
      BY <3>1, <3>2, <3>3, <3>4 DEF Marks
  <2>2. y = Standing(x, c, w, q, d, m)
    BY <1>1, <1>2, <1>5, <2>1 DEF Judged, Standing, AgentFacts
  <2>3. Fits(c, w, q, d, m)
    BY <1>2, <1>3, <2>1 DEF Fits
  <2>4. /\ y \in AgentsScored
        /\ y.filled = x.filled /\ y.capabilities = x.capabilities /\ y.online = x.online
        /\ y.contributions = c /\ y.verified = w /\ y.penalized = q /\ y.points = m
    BY <2>2, <2>3, StandingIs
  <2> QED
    BY <1>2, <1>3, <1>5, <2>1, <2>4
<1> QED
  BY <1>4, <1>5

LEMMA CameOnline ==
    ASSUME NEW x \in AgentsScored, NEW y, y = [x EXCEPT !.online = TRUE]
    PROVE  /\ y \in AgentsScored
           /\ y.filled = x.filled /\ y.capabilities = x.capabilities
           /\ y.contributions = x.contributions /\ y.verified = x.verified
           /\ y.penalized = x.penalized /\ y.points = x.points /\ y.online
<1>1. x \in AgentFacts /\ Consistent(x)
  BY DEF AgentsScored
<1>2. y \in AgentFacts
  BY <1>1 DEF AgentFacts
<1>3. /\ y.filled = x.filled /\ y.capabilities = x.capabilities
      /\ y.contributions = x.contributions /\ y.verified = x.verified
      /\ y.penalized = x.penalized /\ y.points = x.points /\ y.online /\ y.both = x.both
  BY <1>1 DEF AgentFacts
<1>4. y \in AgentsScored
  BY <1>1, <1>2, <1>3 DEF AgentsScored, Consistent
<1> QED
  BY <1>3, <1>4

LEMMA InvInit ==
    Init => AnalysisInv
<1> SUFFICES ASSUME Init PROVE AnalysisInv
  OBVIOUS
<1>1. subject \in ProgramFacts \cup MintFacts \cup PersonFacts \cup AgentsScored
  <2>1. \A a \in Agents : a \in AgentsScored
    <3> TAKE a \in Agents
    <3>1. /\ a \in AgentFacts /\ a.contributions = 0 /\ a.verified = 0 /\ a.penalized = 0
          /\ a.both = 0
      BY AnalysisAssumption DEF NewAgents
    <3> QED
      BY <3>1 DEF AgentsScored, Consistent
  <2> QED
    BY <2>1, AnalysisAssumption DEF Init
<1>2. score \in ScoreSet
  <2>1. 0 \in Points
    BY DEF Points
  <2> QED
    BY <2>1 DEF Init, NoScore, ScoreSet
<1>3. phase = "requested" /\ missed = {} /\ score = NoScore
  BY DEF Init
<1> QED
  BY <1>1, <1>2, <1>3 DEF AnalysisInv

LEMMA InvStep ==
    AnalysisInv /\ [Next]_vars => AnalysisInv'
<1> SUFFICES ASSUME AnalysisInv, [Next]_vars PROVE AnalysisInv'
  OBVIOUS
<1>1. ASSUME NEW failed \in SUBSET TypeLookups, Classify(failed) PROVE AnalysisInv'
  <2>1. /\ phase' \in {"program", "error"} /\ subject' = subject /\ score' = score
        /\ missed' = failed /\ (phase' = "program" => subject.kind = "program")
    BY <1>1 DEF Classify
  <2> QED
    BY <2>1 DEF AnalysisInv
<1>2. ASSUME EnterToken PROVE AnalysisInv'
  BY <1>2 DEF EnterToken, AnalysisInv
<1>3. ASSUME NEW failed \in SUBSET (ProgramLookups \cup TokenLookups), Analyze(failed)
      PROVE  AnalysisInv'
  <2>1. /\ phase \in {"program", "token"} /\ phase' = "scored" /\ missed' = failed
        /\ subject' = subject /\ score' = ScoreOf(subject, failed)
    BY <1>3 DEF Analyze
  <2>2. subject.kind \in {"program", "mint"}
    BY <2>1 DEF AnalysisInv
  <2>3. subject \in ProgramFacts \cup MintFacts
    BY <2>2, KindsDiffer DEF AnalysisInv
  <2>4. ScoreOf(subject, failed) \in ScoreSet
    BY <2>3, ProgramScoreParts, TokenScoreParts
  <2> QED
    BY <2>1, <2>2, <2>3, <2>4 DEF AnalysisInv
<1>4. ASSUME NEW sign \in Signs, Revalue(sign)
      PROVE  AnalysisInv'
  <2>1. /\ subject.kind = "person"
        /\ subject' = [subject EXCEPT !.tally = Recount(subject, sign), !.pending = NoNews]
        /\ score' = PersonScores(subject') /\ phase' = phase /\ missed' = missed
    BY <1>4 DEF Revalue
  <2>2. subject \in PersonFacts
    BY <2>1, KindsDiffer DEF AnalysisInv
  <2>3. subject' \in PersonFacts
    BY <2>1, <2>2, ValuedAgain
  <2>4. score' \in ScoreSet
    BY <2>1, <2>3, PersonScoresAre
  <2>5. phase \notin {"program", "token", "scored"}
    BY <2>1 DEF AnalysisInv
  <2> QED
    BY <2>1, <2>3, <2>4, <2>5 DEF AnalysisInv
<1>5. ASSUME NEW agent, agent \in AgentsScored, subject.kind = "agent", AgentStep(agent)
      PROVE  AnalysisInv'
  <2>1. /\ subject' = agent /\ score' = AgentScores(agent)
        /\ phase' = phase /\ missed' = missed
    BY <1>5 DEF AgentStep
  <2>2. score' \in ScoreSet
    BY <1>5, <2>1, AgentScoresAre
  <2>3. phase \notin {"program", "token", "scored"} /\ agent.kind = "agent"
    BY <1>5, KindsDiffer DEF AnalysisInv
  <2> QED
    BY <1>5, <2>1, <2>2, <2>3 DEF AnalysisInv
<1>5a. ASSUME AwardAgent PROVE AnalysisInv'
  <2>1. subject.kind = "agent" /\ AgentStep(Award(subject))
    BY <1>5a DEF AwardAgent
  <2>2. subject \in AgentsScored
    BY <2>1, KindsDiffer DEF AnalysisInv
  <2>3. Award(subject) \in AgentsScored
    BY <2>2, Awarded
  <2> QED
    BY <1>5, <2>1, <2>3
<1>5b. ASSUME NEW mark \in Marks, NEW valid \in BOOLEAN, JudgeAgent(mark, valid)
       PROVE  AnalysisInv'
  <2>1. /\ subject.kind = "agent" /\ AgentStep(Judged(subject, mark, valid))
        /\ Marked(subject, mark) > 0
    BY <1>5b DEF JudgeAgent
  <2>2. subject \in AgentsScored
    BY <2>1, KindsDiffer DEF AnalysisInv
  <2>3. Judged(subject, mark, valid) \in AgentsScored
    BY <2>1, <2>2, JudgedIs
  <2> QED
    BY <1>5, <2>1, <2>3
<1>5c. ASSUME NEW sign \in Signs, ConfirmUnvalued(sign) PROVE AnalysisInv'
  <2>1. /\ subject.kind = "person"
        /\ subject' = [subject EXCEPT !.pending = Added(@, [NoNews EXCEPT ![sign] = 1])]
        /\ phase' = phase /\ missed' = missed /\ score' = score
    BY <1>5c DEF ConfirmUnvalued
  <2>2. subject \in PersonFacts
    BY <2>1, KindsDiffer DEF AnalysisInv
  <2>3. /\ subject' \in PersonFacts
        /\ subject'.level = subject.level /\ subject'.tally = subject.tally
    BY <2>1, <2>2, ConfirmedMore
  <2>4. PersonScores(subject') = PersonScores(subject)
    BY <2>3 DEF PersonScores
  <2>5. phase \notin {"program", "token", "scored"}
    BY <2>1 DEF AnalysisInv
  <2> QED
    BY <2>1, <2>3, <2>4, <2>5 DEF AnalysisInv
<1>6. ASSUME Heartbeat PROVE AnalysisInv'
  <2>1. /\ subject.kind = "agent" /\ subject' = [subject EXCEPT !.online = TRUE]
        /\ phase' = phase /\ missed' = missed /\ score' = score
    BY <1>6 DEF Heartbeat
  <2>2. subject \in AgentsScored
    BY <2>1, KindsDiffer DEF AnalysisInv
  <2>3. subject' \in AgentsScored
    BY <2>1, <2>2, CameOnline
  <2>4. phase \notin {"program", "token", "scored"} /\ subject'.kind = "agent"
    BY <2>1, <2>3, KindsDiffer DEF AnalysisInv
  <2> QED
    BY <2>1, <2>3, <2>4 DEF AnalysisInv
<1>7. CASE UNCHANGED vars
  BY <1>7 DEF vars, AnalysisInv
<1> QED
  BY <1>1, <1>2, <1>3, <1>4, <1>5a, <1>5b, <1>5c, <1>6, <1>7 DEF Next

\* A score is the score of what was looked up and answered, a person's the one of the events
\* counted last, and the marks an agent is scored by are on contributions it has, whatever
\* verdicts followed one another.
THEOREM ScoresAreOfTheSubject == Spec => []AnalysisInv
<1> QED
  BY InvInit, InvStep, PTL DEF Spec

\* Every dimension is within bounds whatever a program, a token, a person's news or an
\* agent's contributions are.
THEOREM TypeCorrect == Spec => []TypeOK
<1>1. AnalysisInv => TypeOK
  <2> SUFFICES ASSUME AnalysisInv PROVE TypeOK
    OBVIOUS
  <2>1. subject.kind \in {"program", "mint", "person", "agent"}
    BY KindsDiffer DEF AnalysisInv
  <2>2. \A d \in DOMAIN score : score[d] \in Points
    BY DEF AnalysisInv, ScoreSet
  <2>3. /\ phase \in {"requested", "program", "token", "error", "scored"}
        /\ missed \subseteq TypeLookups \cup ProgramLookups \cup TokenLookups
    BY DEF AnalysisInv
  <2>4. \A d \in DOMAIN score : score[d] \in 0 .. Full
    BY <2>2 DEF Points, Full
  <2> QED
    BY <2>1, <2>3, <2>4 DEF TypeOK
<1> QED
  BY <1>1, ScoresAreOfTheSubject, PTL

\* Truncated dimensions averaged in integers lose less than 1.75 points: not a grade's width.
LEMMA GradeLost ==
    ASSUME NEW s \in ScoreSet
    PROVE  LET chain == GradeRank(100 * OnchainTotal(s))
               database == GradeRank(Composite(s))
           IN  chain <= database /\ database <= chain + 1
<1>1. /\ s.name \in Points /\ s.image \in Points
      /\ s.likeness \in Points /\ s.essence \in Points
      /\ DOMAIN s = {"name", "image", "likeness", "essence"}
  BY DEF ScoreSet
<1>2. PICK a \in Int, b \in Int, c \in Int, d \in Int :
        /\ a = s.name /\ b = s.image /\ c = s.likeness /\ d = s.essence
  BY <1>1, PointsAreIntegers
<1>3. PICK t \in Int : t = (a \div 100 + b \div 100 + c \div 100 + d \div 100) \div 4
  OBVIOUS
<1>4. PICK u \in Int : u = (a + b + c + d + 2) \div 4
  OBVIOUS
<1>5. OnchainTotal(s) = t
  <2>1. /\ Recorded(s).name = a \div 100 /\ Recorded(s).image = b \div 100
        /\ Recorded(s).likeness = c \div 100 /\ Recorded(s).essence = d \div 100
    BY <1>1, <1>2 DEF Recorded
  <2> QED
    BY <1>3, <2>1 DEF OnchainTotal
<1>6. Composite(s) = u
  BY <1>2, <1>4 DEF Composite
<1>7. PICK k \in Int : k = 100 * t
  OBVIOUS
<1>8. k <= u /\ u <= k + 999
  <2>1. PICK e \in Int, f \in Int, g \in Int, h \in Int :
          /\ e = a \div 100 /\ f = b \div 100 /\ g = c \div 100 /\ h = d \div 100
          /\ 100 * e <= a /\ a <= 100 * e + 99 /\ 100 * f <= b /\ b <= 100 * f + 99
          /\ 100 * g <= c /\ c <= 100 * g + 99 /\ 100 * h <= d /\ d <= 100 * h + 99
    OBVIOUS
  <2>2. t = (e + f + g + h) \div 4
    BY <1>3, <2>1
  <2>3. 4 * t <= e + f + g + h /\ e + f + g + h <= 4 * t + 3
    BY <2>2
  <2>4. 4 * u <= a + b + c + d + 2 /\ a + b + c + d + 2 <= 4 * u + 3
    BY <1>4
  <2> QED
    BY <1>7, <2>1, <2>3, <2>4
<1>9. GradeRank(k) <= GradeRank(u) /\ GradeRank(u) <= GradeRank(k) + 1
  BY <1>8 DEF GradeRank
<1> QED
  BY <1>5, <1>6, <1>7, <1>9

\* The grade on chain is the grade in the database or the one below.
THEOREM GradesAgree == Spec => []OnchainGradeFollows
<1>1. AnalysisInv => OnchainGradeFollows
  BY GradeLost DEF AnalysisInv, OnchainGradeFollows
<1> QED
  BY <1>1, ScoresAreOfTheSubject, PTL

\* A registry that does not answer never lifts a score; the authority that does not, by at
\* most 11.25.
THEOREM SilenceNeverHelps == Spec => []RegistriesFailClosed
<1>1. AnalysisInv => RegistriesFailClosed
  <2> SUFFICES ASSUME AnalysisInv, phase = "scored"
               PROVE  LET answered == missed \cap FailOpen
                      IN  /\ Composite(ScoreOf(subject, missed))
                               <= Composite(ScoreOf(subject, answered))
                          /\ Composite(ScoreOf(subject, missed \cup {"authority"}))
                               <= Composite(ScoreOf(subject, missed)) + 500 + 625
    BY DEF RegistriesFailClosed
  <2>1. subject \in ProgramFacts \cup MintFacts
    BY KindsDiffer DEF AnalysisInv
  <2>2. /\ missed \cap FailOpen \subseteq missed
        /\ missed \cap FailOpen = (missed \cap FailOpen) \cap FailOpen
    OBVIOUS
  <2> QED
    BY <2>1, <2>2, FewerFailures, AuthorityMissed
<1> QED
  BY <1>1, ScoresAreOfTheSubject, PTL

\* More to find in a published IDL never scores better.
THEOREM FindingsCount == Spec => []FindingsNeverHelp
<1>1. AnalysisInv => FindingsNeverHelp
  <2> SUFFICES ASSUME AnalysisInv, phase = "scored", subject.kind = "program", subject.hasIdl,
                      NEW w \in 0 .. subject.writable, NEW r \in 0 .. subject.readonly,
                      NEW c \in 0 .. subject.cpi
               PROVE  Composite(ScoreOf(subject, missed))
                        <= Composite(ScoreOf([subject EXCEPT !.writable = w, !.readonly = r,
                                                             !.cpi = c], missed))
    BY Zenon DEF FindingsNeverHelp
  <2>1. subject \in ProgramFacts
    BY KindsDiffer DEF AnalysisInv
  <2>2. PICK f \in ProgramFacts : f = subject
    BY <2>1
  <2>3. PICK g : g = [f EXCEPT !.writable = w, !.readonly = r, !.cpi = c]
    OBVIOUS
  <2>4. f.writable \in Nat /\ f.readonly \in Nat /\ f.cpi \in Nat
    BY DEF ProgramFacts
  <2>5. w \in Nat /\ r \in Nat /\ c \in Nat /\ w <= f.writable /\ r <= f.readonly /\ c <= f.cpi
    BY <2>2, <2>4
  <2>6. /\ g \in ProgramFacts
        /\ f.hasIdl = g.hasIdl /\ f.instructions = g.instructions
        /\ f.upgradeable = g.upgradeable /\ f.known = g.known /\ f.listed = g.listed
        /\ f.ageDays = g.ageDays /\ g.writable = w /\ g.readonly = r /\ g.cpi = c
    BY <2>3, <2>5 DEF ProgramFacts
  <2>7. g.writable <= f.writable /\ g.readonly <= f.readonly /\ g.cpi <= f.cpi
    BY <2>5, <2>6
  <2>8. Composite(ScoreOf(f, missed)) <= Composite(ScoreOf(g, missed))
    BY <2>6, <2>7, FewerFindings
  <2> QED
    BY <2>2, <2>3, <2>8
<1> QED
  BY <1>1, ScoresAreOfTheSubject, PTL

\* A person valued again after good news only is worth no less, after bad news only no more.
LEMMA PersonStep ==
    ASSUME NEW x \in PersonFacts, NEW y \in PersonFacts,
           y.level = x.level, y.category = x.category,
           y.tally.positive >= x.tally.positive, y.tally.negative >= x.tally.negative
    PROVE  /\ /\ y.tally.negative = x.tally.negative
              /\ y.tally.neutral = x.tally.neutral
              => FairValue(y) >= FairValue(x)
           /\ /\ y.tally.positive = x.tally.positive
              /\ y.tally.neutral = x.tally.neutral
              => FairValue(y) <= FairValue(x)
<1>1. PICK p \in Nat, q \in Nat, r \in Nat, g \in Nat, h \in Nat, i \in Nat :
        /\ p = x.tally.positive /\ q = x.tally.negative /\ r = x.tally.neutral
        /\ g = y.tally.positive /\ h = y.tally.negative /\ i = y.tally.neutral
        /\ p <= g /\ q <= h
  BY DEF PersonFacts, Tallies
<1>2. FairValue(x) \in Int /\ FairValue(y) \in Int
  BY FairValueIs
<1>3. ASSUME h = q, i = r PROVE FairValue(y) >= FairValue(x)
  <2>1. PICK k \in Nat : g = p + k
    <3>1. g - p \in Nat /\ g = p + (g - p)
      BY <1>1
    <3> QED
      BY <3>1
  <2>2. NewsWeight(p, q, r) <= NewsWeight(p + k, q, r)
    BY GoodNewsWeighsUp
  <2>3. FairValue(x) <= FairValue(y)
    BY <1>1, <1>3, <2>1, <2>2, FairValueFollows
  <2> QED
    BY <1>2, <2>3
<1>4. ASSUME g = p, i = r PROVE FairValue(y) <= FairValue(x)
  <2>1. PICK k \in Nat : h = q + k
    <3>1. h - q \in Nat /\ h = q + (h - q)
      BY <1>1
    <3> QED
      BY <3>1
  <2>2. NewsWeight(p, q + k, r) <= NewsWeight(p, q, r)
    BY BadNewsWeighsDown
  <2> QED
    BY <1>1, <1>4, <2>1, <2>2, FairValueFollows
<1> QED
  BY <1>1, <1>3, <1>4

\* What a verdict does to the score of an agent.
LEMMA AgentMove ==
    ASSUME NEW x \in AgentsScored, NEW mark \in Marks, NEW valid \in BOOLEAN, NEW y,
           Marked(x, mark) > 0, y = Judged(x, mark, valid)
    PROVE  /\ y.online = x.online
           /\ y.verified > x.verified => Composite(AgentScores(y)) >= Composite(AgentScores(x))
           /\ y.verified < x.verified \/ y.penalized > x.penalized =>
                  Composite(AgentScores(y)) <= Composite(AgentScores(x))
<1>1. /\ y \in AgentsScored
      /\ y.filled = x.filled /\ y.capabilities = x.capabilities
      /\ y.online = x.online /\ y.contributions = x.contributions
      /\ valid => x.verified <= y.verified /\ y.penalized = x.penalized /\ y.points = x.points
      /\ ~valid => /\ y.verified <= x.verified /\ x.penalized <= y.penalized
                   /\ y.points <= x.points
  BY JudgedIs
<1>2. /\ x.verified \in Nat /\ x.penalized \in Nat /\ x.points \in Int
      /\ y.verified \in Nat /\ y.penalized \in Nat /\ y.points \in Int
  BY <1>1, ScoredAgent
<1>3. Composite(AgentScores(x)) \in Int /\ Composite(AgentScores(y)) \in Int
  BY <1>1, AgentScoresAre, CompositeIs
<1>4. CASE valid
  <2>1. x.verified <= y.verified /\ y.penalized <= x.penalized /\ x.points <= y.points
    <3>1. x.verified <= y.verified /\ y.penalized = x.penalized /\ y.points = x.points
      BY <1>1, <1>4
    <3> QED
      BY <1>2, <3>1
  <2>2. Composite(AgentScores(x)) <= Composite(AgentScores(y))
    <3>1. x.online => y.online
      BY <1>1
    <3> QED
      BY <1>1, <2>1, <3>1, StandingFollows
  <2>3. ~(y.penalized > x.penalized) /\ ~(y.verified < x.verified)
    BY <1>2, <2>1
  <2> QED
    BY <1>1, <1>3, <2>2, <2>3
<1>5. CASE ~valid
  <2>1. /\ y.verified <= x.verified /\ x.penalized <= y.penalized /\ (y.online => x.online)
        /\ y.points <= x.points /\ x.contributions = y.contributions
        /\ x.filled = y.filled /\ x.capabilities = y.capabilities
    BY <1>1, <1>5
  <2>2. Composite(AgentScores(y)) <= Composite(AgentScores(x))
    BY <1>1, <2>1, StandingFollows
  <2>3. ~(y.verified > x.verified)
    BY <1>2, <2>1
  <2> QED
    BY <1>1, <1>3, <2>2, <2>3
<1> QED
  BY <1>4, <1>5

\* News and verdicts count their way: the person's value and the agent's score move with
\* them or stay, though each is partly a ratio of counters that grow together.
THEOREM NewsCounts == Spec => NewsCountsItsWay
<1> DEFINE Step ==
             /\ subject.kind = "person" /\ score # NoScore =>
                  /\ /\ subject'.tally.negative = subject.tally.negative
                     /\ subject'.tally.neutral = subject.tally.neutral
                     => FairValue(subject') >= FairValue(subject)
                  /\ /\ subject'.tally.positive = subject.tally.positive
                     /\ subject'.tally.neutral = subject.tally.neutral
                     => FairValue(subject') <= FairValue(subject)
             /\ subject.kind = "agent" =>
                  /\ subject'.verified > subject.verified \/ subject'.online # subject.online =>
                         Composite(AgentScores(subject')) >= Composite(AgentScores(subject))
                  /\ subject'.verified < subject.verified \/ subject'.penalized > subject.penalized =>
                         Composite(AgentScores(subject')) <= Composite(AgentScores(subject))
<1>1. AnalysisInv /\ [Next]_vars => [Step]_vars
  <2> SUFFICES ASSUME AnalysisInv, [Next]_vars PROVE Step \/ UNCHANGED vars
    OBVIOUS
  <2>1. ASSUME NEW failed \in SUBSET TypeLookups, Classify(failed) PROVE Step
    <3>1. subject.kind \in {"program", "mint"}
      BY <2>1 DEF Classify
    <3> QED
      BY <3>1
  <2>2. ASSUME EnterToken PROVE Step
    <3>1. subject.kind = "mint"
      BY <2>2 DEF EnterToken
    <3> QED
      BY <3>1
  <2>3. ASSUME NEW failed \in SUBSET (ProgramLookups \cup TokenLookups), Analyze(failed)
        PROVE  Step
    <3>1. subject.kind \in {"program", "mint"}
      BY <2>3 DEF Analyze, AnalysisInv
    <3> QED
      BY <3>1
  <2>4. ASSUME NEW sign \in Signs, Revalue(sign) PROVE Step
    <3>1. /\ subject.kind = "person"
          /\ subject' = [subject EXCEPT !.tally = Recount(subject, sign), !.pending = NoNews]
      BY <2>4 DEF Revalue
    <3>2. subject \in PersonFacts
      BY <3>1, KindsDiffer DEF AnalysisInv
    <3>3. PICK x, y : x = subject /\ y = subject'
      OBVIOUS
    <3>4. /\ x \in PersonFacts /\ y \in PersonFacts
          /\ y.level = x.level /\ y.category = x.category
          /\ y.tally.positive >= x.tally.positive /\ y.tally.negative >= x.tally.negative
      BY <3>1, <3>2, <3>3, ValuedAgain
    <3>5. /\ /\ y.tally.negative = x.tally.negative
             /\ y.tally.neutral = x.tally.neutral
             => FairValue(y) >= FairValue(x)
          /\ /\ y.tally.positive = x.tally.positive
             /\ y.tally.neutral = x.tally.neutral
             => FairValue(y) <= FairValue(x)
      BY <3>4, PersonStep
    <3> QED
      BY <3>1, <3>3, <3>5
  <2>4a. ASSUME NEW sign \in Signs, ConfirmUnvalued(sign) PROVE Step
    <3>1. /\ subject.kind = "person"
          /\ subject' = [subject EXCEPT !.pending = Added(@, [NoNews EXCEPT ![sign] = 1])]
      BY <2>4a DEF ConfirmUnvalued
    <3>2. subject \in PersonFacts
      BY <3>1, KindsDiffer DEF AnalysisInv
    <3>3. PICK x, y : x = subject /\ y = subject'
      OBVIOUS
    <3>4. /\ x \in PersonFacts /\ y \in PersonFacts
          /\ y.level = x.level /\ y.category = x.category /\ y.tally = x.tally
      BY <3>1, <3>2, <3>3, ConfirmedMore
    <3>5. FairValue(y) = FairValue(x) /\ FairValue(x) \in Int
      BY <3>4, FairValueIs DEF FairValue, PersonScores
    <3>6. FairValue(y) >= FairValue(x) /\ FairValue(y) <= FairValue(x)
      BY <3>5
    <3> QED
      BY <3>1, <3>3, <3>6
  <2>5. ASSUME AwardAgent PROVE Step
    <3>1. subject.kind = "agent" /\ subject' = Award(subject)
      BY <2>5 DEF AwardAgent, AgentStep
    <3>2. subject \in AgentsScored
      BY <3>1, KindsDiffer DEF AnalysisInv
    <3>3. /\ subject'.online = subject.online /\ subject'.verified = subject.verified
          /\ subject'.penalized = subject.penalized
      BY <3>1, <3>2, Awarded
    <3>4. subject.verified \in Nat /\ subject.penalized \in Nat
      BY <3>2, ScoredAgent
    <3> QED
      BY <3>1, <3>3, <3>4
  <2>5a. ASSUME NEW mark \in Marks, NEW valid \in BOOLEAN, JudgeAgent(mark, valid)
         PROVE  Step
    <3>1. /\ subject.kind = "agent" /\ subject' = Judged(subject, mark, valid)
          /\ Marked(subject, mark) > 0
      BY <2>5a DEF JudgeAgent, AgentStep
    <3>2. subject \in AgentsScored
      BY <3>1, KindsDiffer DEF AnalysisInv
    <3>3. PICK x, y : x = subject /\ y = subject'
      OBVIOUS
    <3>4. x \in AgentsScored /\ y = Judged(x, mark, valid) /\ Marked(x, mark) > 0
      BY <3>1, <3>2, <3>3
    <3>5. /\ y.online = x.online
          /\ y.verified > x.verified => Composite(AgentScores(y)) >= Composite(AgentScores(x))
          /\ y.verified < x.verified \/ y.penalized > x.penalized =>
                 Composite(AgentScores(y)) <= Composite(AgentScores(x))
      BY <3>4, AgentMove
    <3> QED
      BY <3>1, <3>3, <3>5
  <2>6. ASSUME Heartbeat PROVE Step
    <3>1. subject.kind = "agent" /\ subject' = [subject EXCEPT !.online = TRUE]
      BY <2>6 DEF Heartbeat
    <3>2. subject \in AgentsScored
      BY <3>1, KindsDiffer DEF AnalysisInv
    <3>3. PICK x, y : x = subject /\ y = subject'
      OBVIOUS
    <3>4. x \in AgentsScored /\ y = [x EXCEPT !.online = TRUE]
      BY <3>1, <3>2, <3>3
    <3>5. /\ y \in AgentsScored /\ y.filled = x.filled /\ y.capabilities = x.capabilities
          /\ y.contributions = x.contributions /\ y.verified = x.verified
          /\ y.penalized = x.penalized /\ y.points = x.points /\ y.online
      BY <3>4, CameOnline
    <3>6. /\ x.verified \in Nat /\ x.penalized \in Nat /\ x.points \in Int
      BY <3>4 DEF AgentsScored, AgentFacts
    <3>7. Composite(AgentScores(x)) <= Composite(AgentScores(y))
      <4>1. /\ x.verified <= y.verified /\ y.penalized <= x.penalized /\ (x.online => y.online)
            /\ x.points <= y.points
        BY <3>5, <3>6
      <4> QED
        BY <3>4, <3>5, <4>1, StandingFollows
    <3>8. Composite(AgentScores(x)) \in Int /\ Composite(AgentScores(y)) \in Int
      BY <3>4, <3>5, AgentScoresAre, CompositeIs
    <3>9. /\ ~(y.penalized > x.penalized) /\ ~(y.verified < x.verified)
          /\ Composite(AgentScores(y)) >= Composite(AgentScores(x))
      BY <3>5, <3>6, <3>7, <3>8
    <3> QED
      BY <3>1, <3>3, <3>9
  <2>7. CASE UNCHANGED vars
    BY <2>7
  <2> QED
    BY <2>1, <2>2, <2>3, <2>4, <2>4a, <2>5, <2>5a, <2>6, <2>7 DEF Next
<1> QED
  BY <1>1, ScoresAreOfTheSubject, PTL DEF Spec, NewsCountsItsWay
=============================================================================
