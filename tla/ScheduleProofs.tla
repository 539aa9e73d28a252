---------------------------- MODULE ScheduleProofs ----------------------------
(***************************************************************************)
(* The schedule engine against what a schedule means, and the table on top *)
(* of it.  EngineIsRight: for every rule validation lets pass, every zone  *)
(* and every instant, NextOccurrence returns the first firing strictly     *)
(* after the instant, where FoldRepeatsNone (the run FoldMinutes shows     *)
(* that the condition is needed).  The table's theorems follow from it and *)
(* from the invariant EntriesFollow.  Nothing is assumed of the sizes of   *)
(* hours, days and months but what CalendarAssumption says.                *)
(***************************************************************************)
EXTENDS TimeTable, FiniteSetTheorems, WellFoundedInduction, TLAPS

-----------------------------------------------------------------------------
(* Division, and the boundaries of a period.                               *)

\* Division and remainder, in one equation.
LEMMA DivMod ==
    ASSUME NEW n \in Int, NEW d \in Nat \ {0}
    PROVE  /\ n \div d \in Int
           /\ n % d \in 0..(d - 1)
           /\ n = (n \div d) * d + (n % d)
BY SMT

\* Two multiples of d lie d apart at least.
LEMMA Scaled ==
    ASSUME NEW k \in Int, NEW l \in Int, NEW d \in Nat \ {0}, k < l
    PROVE  k * d + d <= l * d
<1>1. PICK i \in Nat : l = k + 1 + i
  <2>1. l - k - 1 \in Nat /\ l = k + 1 + (l - k - 1)
    OBVIOUS
  <2> QED BY <2>1
<1>2. l * d = k * d + d + i * d /\ i * d \in Nat /\ k * d \in Int
  BY <1>1, SMT
<1> QED BY <1>2

\* Quotient and remainder are the only pair the equation has.
LEMMA DivModUnique ==
    ASSUME NEW n \in Int, NEW d \in Nat \ {0}, NEW q \in Int, NEW r \in 0..(d - 1),
           n = q * d + r
    PROVE  n \div d = q /\ n % d = r
<1> DEFINE p == n \div d
           m == n % d
<1>1. p \in Int /\ m \in 0..(d - 1) /\ n = p * d + m
  BY DivMod
<1> HIDE DEF p, m
<1>2. p * d \in Int /\ q * d \in Int
  BY <1>1, SMT
<1>3. ~(p < q)
  <2>1. p < q => p * d + d <= q * d
    BY <1>1, Scaled
  <2> QED BY <1>1, <1>2, <2>1
<1>4. ~(q < p)
  <2>1. q < p => q * d + d <= p * d
    BY <1>1, Scaled
  <2> QED BY <1>1, <1>2, <2>1
<1>5. p = q
  BY <1>1, <1>3, <1>4
<1>6. m = r
  BY <1>1, <1>2, <1>5
<1> QED BY <1>5, <1>6 DEF p, m

\* n is a multiple of d, or lies strictly between two.
LEMMA Multiple ==
    ASSUME NEW n \in Int, NEW d \in Nat \ {0}
    PROVE  n % d = 0 <=> \E k \in Int : n = k * d
<1>1. ASSUME n % d = 0 PROVE \E k \in Int : n = k * d
  <2> DEFINE q == n \div d
  <2>1. q \in Int /\ n = q * d + 0
    BY <1>1, DivMod
  <2> HIDE DEF q
  <2>2. q * d \in Int
    BY <2>1, SMT
  <2> QED BY <2>1, <2>2
<1>2. ASSUME NEW k \in Int, n = k * d PROVE n % d = 0
  <2>1. n = k * d + 0 /\ 0 \in 0..(d - 1)
    BY <1>2
  <2> QED BY <2>1, DivModUnique
<1> QED BY <1>1, <1>2

\* The remainder by a period says the remainder by its divisors.
LEMMA ModMod ==
    ASSUME NEW x \in Int, NEW P \in Nat \ {0}, NEW e \in Nat \ {0}, P % e = 0
    PROVE  (x % P) % e = x % e
<1>1. PICK k \in Int : P = k * e
  BY Multiple
<1> DEFINE q == x \div P
           p == x % P
           i == p \div e
           r == p % e
<1>2. q \in Int /\ p \in Int /\ x = q * P + p
  BY DivMod
<1> HIDE DEF q, p
<1>3. i \in Int /\ r \in 0..(e - 1) /\ p = i * e + r
  BY <1>2, DivMod
<1> HIDE DEF i, r
<1>4. x = (q * k + i) * e + r /\ q * k + i \in Int
  BY <1>1, <1>2, <1>3, SMT
<1>5. x % e = r
  BY <1>3, <1>4, DivModUnique
<1> QED BY <1>5 DEF r, p

\* The next boundary of size e within a period of P, as a time on the wall.
BoundaryAfter(x, P, e) == x - (x % P) + NextBoundary(e, x % P)

\* It is the next multiple of e, if e divides the period.
LEMMA NextMultiple ==
    ASSUME NEW x \in Int, NEW P \in Nat \ {0}, NEW e \in Nat \ {0}, P % e = 0
    PROVE  /\ BoundaryAfter(x, P, e) \in Int
           /\ x < BoundaryAfter(x, P, e) /\ BoundaryAfter(x, P, e) <= x + e
           /\ BoundaryAfter(x, P, e) % e = 0
           /\ \A v \in Int : x < v /\ v < BoundaryAfter(x, P, e) => v % e # 0
<1>1. PICK k \in Int : P = k * e
  BY Multiple
<1> DEFINE q == x \div P
           p == x % P
           i == p \div e
           r == p % e
           a == q * k + i
           w == BoundaryAfter(x, P, e)
<1>2. q \in Int /\ p \in Int /\ x = q * P + p
  BY DivMod
<1> HIDE DEF q, p
<1>3. i \in Int /\ r \in 0..(e - 1) /\ p = i * e + r
  BY <1>2, DivMod
<1>4. w = x - p + (i + 1) * e
  BY DEF NextBoundary, BoundaryAfter, p
<1> HIDE DEF i, r, w
<1>5. a \in Int /\ x = a * e + r /\ w = (a + 1) * e /\ a * e \in Int
      /\ (a + 1) * e = a * e + e
  BY <1>1, <1>2, <1>3, <1>4, SMT
<1> HIDE DEF a
<1>6. w \in Int /\ x < w /\ w <= x + e
  BY <1>3, <1>5
<1>7. w % e = 0
  <2>1. a + 1 \in Int /\ w = (a + 1) * e
    BY <1>5
  <2>2. \E m \in Int : w = m * e
    BY <2>1
  <2> QED BY <1>6, <2>2, Multiple
<1>8. ASSUME NEW v \in Int, x < v, v < w, v % e = 0 PROVE FALSE
  <2>1. PICK m \in Int : v = m * e
    BY <1>8, Multiple
  <2>2. m <= a => v <= x
    <3>1. m < a => m * e + e <= a * e
      BY <1>5, Scaled
    <3>2. m * e \in Int
      BY <2>1
    <3> QED BY <1>3, <1>5, <2>1, <3>1, <3>2
  <2>3. a < m => w <= v
    BY <1>5, <2>1, Scaled
  <2> QED BY <1>5, <1>6, <1>8, <2>1, <2>2, <2>3
<1> QED BY <1>6, <1>7, <1>8 DEF w

\* Dividing twice is dividing by the product.
LEMMA DivDiv ==
    ASSUME NEW p \in Int, NEW h \in Nat \ {0}, NEW e \in Nat \ {0}
    PROVE  /\ e * h \in Nat \ {0}
           /\ (p \div h) \div e = p \div (e * h)
<1> DEFINE q == p \div h
           r == p % h
           i == q \div e
           s == q % e
<1>1. q \in Int /\ r \in 0..(h - 1) /\ p = q * h + r
  BY DivMod
<1> HIDE DEF q, r
<1>2. i \in Int /\ s \in 0..(e - 1) /\ q = i * e + s
  BY <1>1, DivMod
<1> HIDE DEF i, s
<1>3. e * h \in Nat \ {0}
  BY SMT
<1>4. p = i * (e * h) + (s * h + r)
  BY <1>1, <1>2, SMT
<1>5. s * h + r \in 0..((e * h) - 1)
  <2>1. s * h + h <= e * h
    BY <1>2, Scaled
  <2>2. s * h \in Nat
    BY <1>2, SMT
  <2> QED BY <1>1, <1>3, <2>1, <2>2
<1>6. p \div (e * h) = i
  BY <1>2, <1>3, <1>4, <1>5, DivModUnique
<1> QED BY <1>3, <1>6 DEF i, q

\* What a step that shares a divisor's name means: the hour rule names the multiples of
\* its interval in minutes, and steps to the next.
LEMMA HourMultiples ==
    ASSUME NEW w \in Int, NEW e \in Nat \ {0}, (Day \div Hour) % e = 0
    PROVE  /\ e * Hour \in Nat \ {0} /\ Day % (e * Hour) = 0
           /\ (w % Hour = 0 /\ ((w % Day) \div Hour) % e = 0) <=> w % (e * Hour) = 0
<1> DEFINE b == w % Day
           c == b \div Hour
           eh == e * Hour
<1>0. Hour \in Nat \ {0} /\ Day \in Nat \ {0} /\ Day % Hour = 0
  BY CalendarAssumption
<1>1. eh \in Nat \ {0}
  BY <1>0, DivDiv
<1>2. b \in Int /\ c \in Int
  BY <1>0, DivMod
<1>3. Day % eh = 0
  <2> DEFINE h == Day \div Hour
  <2>1. h \in Int /\ Day = h * Hour
    <3>1. Day = h * Hour + (Day % Hour) /\ h \in Int
      BY <1>0, DivMod
    <3> HIDE DEF h
    <3> QED BY <1>0, <3>1
  <2>2. \E k \in Int : h = k * e
    BY <2>1, Multiple
  <2> HIDE DEF h
  <2>3. PICK k \in Int : h = k * e
    BY <2>2
  <2>4. Day = k * eh
    BY <1>0, <2>1, <2>3, SMT
  <2> HIDE DEF eh
  <2> QED BY <1>0, <1>1, <2>4, Multiple
<1>4. b % eh = w % eh /\ b % Hour = w % Hour
  <2> HIDE DEF eh
  <2> QED BY <1>0, <1>1, <1>3, ModMod
<1>5. (b % Hour = 0 /\ c % e = 0) <=> b % eh = 0
  <2> HIDE DEF b, eh
  <2>1. ASSUME b % Hour = 0, c % e = 0 PROVE b % eh = 0
    <3>1. b = c * Hour
      <4>1. b = c * Hour + (b % Hour) /\ c \in Int
        BY <1>0, <1>2, DivMod
      <4> HIDE DEF c
      <4> QED BY <1>0, <2>1, <4>1
    <3> HIDE DEF c
    <3>2. PICK k \in Int : c = k * e
      BY <1>2, <2>1, Multiple
    <3>3. b = k * eh
      BY <1>0, <3>1, <3>2, SMT DEF eh
    <3> QED BY <1>1, <1>2, <3>3, Multiple
  <2>2. ASSUME b % eh = 0 PROVE b % Hour = 0 /\ c % e = 0
    <3>1. PICK k \in Int : b = k * eh
      BY <1>1, <1>2, <2>2, Multiple
    <3>2. b = (k * e) * Hour + 0 /\ k * e \in Int /\ 0 \in 0..(Hour - 1)
      BY <1>0, <3>1, SMT DEF eh
    <3>3. b \div Hour = k * e /\ b % Hour = 0
      BY <1>0, <1>2, <3>2, DivModUnique
    <3>4. c % e = 0
      <4>1. c = k * e
        BY <3>3
      <4> HIDE DEF c
      <4> QED BY <1>2, <4>1, Multiple
    <3> QED BY <3>3, <3>4
  <2> QED BY <2>1, <2>2
<1> QED BY <1>1, <1>3, <1>4, <1>5

-----------------------------------------------------------------------------
(* The wall clock.                                                         *)

\* t is the first of all instants whose clock shows w or has jumped past it.
FirstAt(z, w, t) ==
    /\ t \in Int
    /\ Local(z, t) >= w
    /\ \A u \in Int : u < t => Local(z, u) < w

\* The clock on both sides of the zone's transition.
LEMMA ZoneFacts ==
    ASSUME NEW z \in ZoneType
    PROVE  /\ z.base \in Int /\ z.at \in Int /\ z.shift \in Int /\ z.shift >= -Day
           /\ Day \in Nat \ {0}
           /\ \A t \in Int : /\ Local(z, t) \in Int
                             /\ t < z.at => Local(z, t) = t + z.base
                             /\ t >= z.at => Local(z, t) = t + z.base + z.shift
BY CalendarAssumption DEF ZoneType, Local

\* A later time on the wall is not reached earlier.
LEMMA FirstMonotone ==
    ASSUME NEW z \in ZoneType, NEW v \in Int, NEW w \in Int, v <= w,
           NEW t, NEW u, FirstAt(z, v, t), FirstAt(z, w, u)
    PROVE  t <= u
<1>1. t \in Int /\ u \in Int /\ Local(z, u) \in Int /\ Local(z, u) >= w
  BY ZoneFacts DEF FirstAt
<1>2. u < t => Local(z, u) < v
  BY <1>1 DEF FirstAt
<1> QED BY <1>1, <1>2

\* The least of two integers at most.
LEMMA MinOfPair ==
    ASSUME NEW a \in Int, NEW b \in Int, NEW S, S \subseteq {a, b}, S # {}
    PROVE  Min(S) \in S /\ \A n \in S : Min(S) <= n
<1>1. PICK m \in S : \A n \in S : m <= n
  <2>1. CASE a \in S /\ b \in S
    <3>1. CASE a <= b
      BY <2>1, <3>1
    <3>2. CASE ~(a <= b)
      BY <2>1, <3>2
    <3>. QED BY <3>1, <3>2
  <2>2. CASE ~(a \in S /\ b \in S)
    <3>1. PICK m \in S : TRUE
      OBVIOUS
    <3>2. \A n \in S : n = m
      BY <2>2, <3>1
    <3>3. m \in Int
      BY <3>1
    <3>. QED BY <3>1, <3>2, <3>3
  <2>. QED BY <2>1, <2>2
<1>. QED BY <1>1 DEF Min

\* A least member is the minimum.
LEMMA MinIs ==
    ASSUME NEW S \in SUBSET Int, NEW m \in S, \A n \in S : m <= n
    PROVE  Min(S) = m
<1>1. \A k \in S : (\A n \in S : k <= n) => k = m
  OBVIOUS
<1> QED BY <1>1 DEF Min

\* A wall-clock time that does not exist resolves to the end of the gap.
LEMMA GapResolves ==
    ASSUME NEW z \in ZoneType, NEW w \in Int, Instants(z, w) = {}
    PROVE  /\ ResolveWallClock(z, w) = z.at
           /\ z.shift > 0
           /\ w - z.base >= z.at /\ w - z.base - z.shift < z.at
<1>. DEFINE u0 == z.at + z.base + z.shift
<1>. DEFINE probes == {u \in (w + 1)..(w + z.shift) : Cardinality(Instants(z, u)) = 1}
<1>0. z.base \in Int /\ z.at \in Int /\ z.shift \in Int
  BY ZoneFacts
<1>1. w - z.base >= z.at /\ w - z.base - z.shift < z.at
  <2>1. Local(z, w - z.base) # w /\ Local(z, w - z.base - z.shift) # w
    BY DEF Instants
  <2>2. CASE w - z.base < z.at
    BY <1>0, <2>1, <2>2 DEF Local
  <2>3. CASE w - z.base - z.shift >= z.at
    BY <1>0, <2>1, <2>3 DEF Local
  <2>. QED BY <1>0, <2>2, <2>3
<1>2. u0 \in (w + 1)..(w + z.shift) /\ z.shift > 0
  BY <1>0, <1>1
<1>3. Instants(z, u0) = {z.at}
  BY <1>0, <1>2 DEF Instants, Local
<1>4. \A u \in (w + 1)..(w + z.shift) : u < u0 => Instants(z, u) = {}
  BY <1>0, <1>1, <1>2 DEF Instants, Local
<1>5. u0 \in probes
  BY <1>2, <1>3, FS_Singleton
<1>6. \A u \in probes : u0 <= u
  <2>. TAKE u \in probes
  <2>1. u \in Int /\ u0 \in Int /\ Instants(z, u) # {}
    BY <1>0, FS_EmptySet
  <2>. QED BY <1>4, <2>1
<1>7. Min(probes) = u0
  <2>1. probes \in SUBSET Int
    BY <1>0
  <2>. HIDE DEF probes, u0
  <2>. QED BY <1>5, <1>6, <2>1, MinIs
<1>8. Min({z.at}) = z.at
  BY <1>0, MinIs
<1>9. ResolveWallClock(z, w) = Min(Instants(z, Min(probes)))
  BY DEF ResolveWallClock
<1>. QED BY <1>1, <1>2, <1>3, <1>7, <1>8, <1>9

\* Resolving picks the first instant that shows the time or has jumped past it:
\* across a gap, in a fold, and elsewhere.
LEMMA ResolvesToFirst ==
    ASSUME NEW z \in ZoneType, NEW w \in Int
    PROVE  FirstAt(z, w, ResolveWallClock(z, w))
<1> DEFINE a == w - z.base
           b == w - z.base - z.shift
           S == Instants(z, w)
<1>0. /\ z.base \in Int /\ z.at \in Int /\ z.shift \in Int /\ a \in Int /\ b \in Int
      /\ \A t \in Int : /\ Local(z, t) \in Int
                        /\ t < z.at => Local(z, t) = t + z.base
                        /\ t >= z.at => Local(z, t) = t + z.base + z.shift
  BY ZoneFacts
<1>1. CASE S = {}
  <2>1. ResolveWallClock(z, w) = z.at /\ z.shift > 0 /\ a >= z.at /\ b < z.at
    BY <1>1, GapResolves
  <2>2. Local(z, z.at) = z.at + z.base + z.shift
    BY <1>0
  <2>3. \A u \in Int : u < z.at => Local(z, u) < w
    BY <1>0, <2>1
  <2> QED BY <1>0, <2>1, <2>2, <2>3 DEF FirstAt
<1>2. CASE S # {}
  <2>1. S \subseteq {a, b} /\ \A t \in S : Local(z, t) = w
    BY DEF Instants
  <2>2. ResolveWallClock(z, w) = Min(S)
    BY <1>2 DEF ResolveWallClock
  <2>3. Min(S) \in S /\ \A n \in S : Min(S) <= n
    <3> HIDE DEF S, a, b
    <3> QED BY <1>0, <1>2, <2>1, MinOfPair
  <2>4. a \in S <=> a < z.at \/ z.shift = 0
    BY <1>0 DEF Instants
  <2>5. b \in S <=> b >= z.at \/ z.shift = 0
    BY <1>0 DEF Instants
  <2> DEFINE r == Min(S)
  <2>6. r \in Int /\ Local(z, r) = w /\ r \in {a, b} /\ (a \in S => r <= a)
    <3> HIDE DEF S, a, b
    <3> QED BY <1>0, <2>1, <2>3
  <2>7. r \in S
    BY <2>3
  <2> HIDE DEF r, S
  <2>8. \A u \in Int : u < r => Local(z, u) < w
    <3> SUFFICES ASSUME NEW u \in Int, u < r PROVE Local(z, u) < w
      OBVIOUS
    <3>1. CASE u < z.at
      <4>1. Local(z, u) = u + z.base
        BY <1>0, <3>1
      <4>2. r <= a \/ a >= z.at
        BY <1>0, <2>4, <2>6
      <4> QED BY <1>0, <2>6, <3>1, <4>1, <4>2
    <3>2. CASE u >= z.at
      <4>1. Local(z, u) = u + z.base + z.shift
        BY <1>0, <3>2
      <4>2. Local(z, r) = r + z.base + z.shift
        BY <1>0, <2>6, <3>2
      <4> QED BY <1>0, <2>6, <3>2, <4>1, <4>2
    <3> QED BY <1>0, <3>1, <3>2
  <2>9. r = ResolveWallClock(z, w)
    BY <2>2 DEF r, S
  <2> QED BY <1>0, <2>6, <2>8, <2>9 DEF FirstAt
<1> QED BY <1>1, <1>2

\* Between two instants the clock shows the time gone by, less a day at most.
LEMMA FirstIsNear ==
    ASSUME NEW z \in ZoneType, NEW w \in Int, NEW t \in Int, NEW n, FirstAt(z, w, n),
           w > Local(z, t)
    PROVE  n <= t + (w - Local(z, t)) + Day
<1>0. /\ z.base \in Int /\ z.at \in Int /\ z.shift \in Int /\ z.shift >= -Day
      /\ Day \in Nat
      /\ \A u \in Int : /\ Local(z, u) \in Int
                        /\ u < z.at => Local(z, u) = u + z.base
                        /\ u >= z.at => Local(z, u) = u + z.base + z.shift
  BY ZoneFacts
<1> DEFINE u == t + (w - Local(z, t)) + Day
<1>1. u \in Int /\ u > t /\ n \in Int
  BY <1>0 DEF FirstAt
<1>2. Local(z, u) >= w
  <2> DEFINE l == Local(z, t)
             k == Local(z, u)
  <2>1. /\ l \in Int /\ k \in Int
        /\ t < z.at => l = t + z.base
        /\ t >= z.at => l = t + z.base + z.shift
        /\ u < z.at => k = u + z.base
        /\ u >= z.at => k = u + z.base + z.shift
    <3> HIDE DEF u
    <3> QED BY <1>0, <1>1
  <2>2. u = t + (w - l) + Day
    OBVIOUS
  <2> HIDE DEF u, l
  <2> QED BY <1>0, <1>1, <2>1, <2>2
<1>3. ~(u < n)
  <2> HIDE DEF u
  <2>1. u < n => Local(z, u) < w
    BY <1>1 DEF FirstAt
  <2> QED BY <1>0, <1>1, <1>2, <2>1
<1> HIDE DEF u
<1>4. n <= u
  BY <1>1, <1>3
<1> QED BY <1>4 DEF u

-----------------------------------------------------------------------------
(* The rules.                                                              *)

\* What validation leaves of the fields of each kind of rule.
LEMMA RuleFacts ==
    ASSUME NEW s \in RuleType
    PROVE  \/ /\ s.kind = "minute"
              /\ s.every \in {n \in 1..Hour : Hour % n = 0}
           \/ /\ s.kind = "hour"
              /\ s.every \in {n \in 1..(Day \div Hour) : (Day \div Hour) % n = 0}
           \/ /\ s.kind = "calendar" /\ s.time \in 0..(Day - 1)
              /\ s.monthly = FALSE
              /\ s.days \in (SUBSET (0..(Week - 1))) \ {{}}
           \/ /\ s.kind = "calendar" /\ s.time \in 0..(Day - 1)
              /\ s.monthly = TRUE /\ s.lastDay = FALSE
              /\ s.onDay \in 1..LongMonth
           \/ /\ s.kind = "calendar" /\ s.time \in 0..(Day - 1)
              /\ s.monthly = TRUE /\ s.lastDay = TRUE
<1> DEFINE E1 == {n \in 1..Hour : Hour % n = 0}
           E2 == {n \in 1..(Day \div Hour) : (Day \div Hour) % n = 0}
           D == (SUBSET (0..(Week - 1))) \ {{}}
           T == 0..(Day - 1)
           F == {FALSE}
           G == {TRUE}
<1>1. \/ s \in [kind : {"minute"}, every : E1]
      \/ s \in [kind : {"hour"}, every : E2]
      \/ s \in [kind : {"calendar"}, monthly : F, days : D, time : T]
      \/ s \in [kind : {"calendar"}, monthly : G, lastDay : F,
                onDay : 1..LongMonth, time : T]
      \/ s \in [kind : {"calendar"}, monthly : G, lastDay : G, onDay : {0}, time : T]
  BY Zenon DEF RuleType
<1> HIDE DEF E1, E2, D, T, F, G
<1>2. \/ s.kind = "minute" /\ s.every \in E1
      \/ s.kind = "hour" /\ s.every \in E2
      \/ s.kind = "calendar" /\ s.monthly \in F /\ s.days \in D /\ s.time \in T
      \/ s.kind = "calendar" /\ s.monthly \in G /\ s.lastDay \in F
           /\ s.onDay \in 1..LongMonth /\ s.time \in T
      \/ s.kind = "calendar" /\ s.monthly \in G /\ s.lastDay \in G /\ s.time \in T
  BY <1>1
<1>3. \A b : (b \in F => b = FALSE) /\ (b \in G => b = TRUE)
  BY Zenon DEF F, G
<1>4. \/ s.kind = "minute" /\ s.every \in E1
      \/ s.kind = "hour" /\ s.every \in E2
      \/ s.kind = "calendar" /\ s.monthly = FALSE /\ s.days \in D /\ s.time \in T
      \/ s.kind = "calendar" /\ s.monthly = TRUE /\ s.lastDay = FALSE
           /\ s.onDay \in 1..LongMonth /\ s.time \in T
      \/ s.kind = "calendar" /\ s.monthly = TRUE /\ s.lastDay = TRUE /\ s.time \in T
  BY <1>2, <1>3, Zenon
<1> QED BY <1>4, Zenon DEF E1, E2, D, T

-----------------------------------------------------------------------------
(* The aligned kinds.                                                      *)

\* What the schedule means without any horizon: t is the first instant of a named time.
Fires(z, s, t) == \E w \in Int : Names(s, w) /\ FirstAt(z, w, t)

\* How far ahead of an instant the next firing may lie.
Reach == (Week + 4 * LongMonth + 4) * Day

\* n is the first firing strictly after t.
IsNext(z, s, t, n) ==
    /\ n \in Int /\ n > t /\ n <= t + Reach
    /\ Fires(z, s, n)
    /\ \A f : Fires(z, s, f) /\ f > t => n <= f

\* The reach of a search holds an hour, a day and the walk over months.
LEMMA ReachIsLong ==
    /\ Reach \in Nat /\ Reach >= 2 * Day
    /\ {Hour, Day, Week, ShortMonth, LongMonth} \subseteq Nat \ {0}
    /\ Week * Day \in Nat /\ LongMonth * Day \in Nat
    /\ Reach = Week * Day + 4 * (LongMonth * Day) + 4 * Day
<1>1. {Hour, Day, Week, ShortMonth, LongMonth} \subseteq Nat \ {0}
  BY CalendarAssumption
<1>2. Week * Day \in Nat /\ LongMonth * Day \in Nat
  BY <1>1, SMT
<1>3. Reach = Week * Day + 4 * (LongMonth * Day) + 4 * Day
  BY <1>1, SMT DEF Reach
<1> QED BY <1>1, <1>2, <1>3

\* What is named before the clock's time is not reached after it.
LEMMA PassedIsPassed ==
    ASSUME NEW z \in ZoneType, NEW t \in Int, NEW w \in Int, NEW f, FirstAt(z, w, f), f > t
    PROVE  w > Local(z, t)
BY ZoneFacts DEF FirstAt

\* The next named time on the wall is that of the next firing, if a fold does not
\* repeat it.
LEMMA NextNamedIsNext ==
    ASSUME NEW z \in ZoneType, NEW s, NEW t \in Int, NEW w \in Int,
           Local(z, t) < w, w <= Local(z, t) + Day, Names(s, w),
           \A v \in Int : Local(z, t) < v /\ v < w => ~Names(s, v),
           \A v \in (z.at + z.base + z.shift + 1)..(z.at + z.base - 1) : ~Names(s, v)
    PROVE  IsNext(z, s, t, ResolveWallClock(z, w))
<1> DEFINE n == ResolveWallClock(z, w)
<1>1. FirstAt(z, w, n) /\ n \in Int /\ Local(z, n) >= w
  BY ResolvesToFirst DEF FirstAt
<1> HIDE DEF n
<1>0. /\ z.base \in Int /\ z.at \in Int /\ z.shift \in Int /\ Day \in Nat
      /\ \A u \in Int : /\ Local(z, u) \in Int
                        /\ u < z.at => Local(z, u) = u + z.base
                        /\ u >= z.at => Local(z, u) = u + z.base + z.shift
  BY ZoneFacts
<1>2. n > t
  <2> SUFFICES ASSUME ~(n > t) PROVE FALSE
    OBVIOUS
  <2>1. n < z.at /\ z.at <= t
    BY <1>0, <1>1
  <2>2. w \in (z.at + z.base + z.shift + 1)..(z.at + z.base - 1)
    BY <1>0, <1>1, <2>1
  <2> QED BY <2>2
<1>3. n <= t + Reach
  <2>1. n <= t + (w - Local(z, t)) + Day
    BY <1>1, FirstIsNear
  <2> QED BY <1>0, <1>1, <2>1, ReachIsLong
<1>4. ASSUME NEW f, Fires(z, s, f), f > t PROVE n <= f
  <2>1. PICK v \in Int : Names(s, v) /\ FirstAt(z, v, f)
    BY <1>4 DEF Fires
  <2>2. v > Local(z, t)
    BY <1>4, <2>1, PassedIsPassed
  <2>3. w <= v
    BY <1>0, <2>1, <2>2
  <2> QED BY <1>1, <2>1, <2>3, FirstMonotone
<1>5. IsNext(z, s, t, n)
  BY <1>1, <1>2, <1>3, <1>4 DEF IsNext, Fires
<1> QED BY <1>5 DEF n

\* next_minute: the boundary picked is the next the rule names, and resolves to its
\* instant.
LEMMA MinuteIsNext ==
    ASSUME NEW z \in ZoneType, NEW s \in RuleType, s.kind = "minute", FoldRepeatsNone(z, s),
           NEW t \in Int
    PROVE  IsNext(z, s, t, NextOccurrence(z, s, t))
<1> DEFINE x == Local(z, t)
           e == s.every
           w == BoundaryAfter(x, Hour, e)
<1>0. Hour \in Nat \ {0} /\ Day \in Nat \ {0} /\ x \in Int /\ Hour <= Day
  <2>1. Hour \in Nat \ {0} /\ Day \in Nat \ {0} /\ Day % Hour = 0
    BY CalendarAssumption
  <2>2. Hour <= Day
    <3>1. PICK k \in Int : Day = k * Hour
      BY <2>1, Multiple
    <3>2. k < 1 => k * Hour + Hour <= 1 * Hour
      BY <2>1, Scaled
    <3>3. 0 < k
      BY <2>1, <3>1, <3>2
    <3>4. 0 * Hour + Hour <= k * Hour
      BY <2>1, <3>3, Scaled
    <3> QED BY <2>1, <3>1, <3>4
  <2> QED BY <2>1, <2>2, ZoneFacts
<1>1. e \in Nat \ {0} /\ Hour % e = 0 /\ e <= Hour
  <2>1. e \in {n \in 1..Hour : Hour % n = 0}
    BY RuleFacts
  <2> HIDE DEF e
  <2> QED BY <1>0, <2>1
<1>2. \A v : Names(s, v) <=> (v % Hour) % e = 0
  BY DEF Names
<1>3. \A v \in Int : Names(s, v) <=> v % e = 0
  <2> HIDE DEF e
  <2> TAKE v \in Int
  <2>1. (v % Hour) % e = v % e
    BY <1>0, <1>1, ModMod
  <2> QED BY <1>2, <2>1
<1>4. NextOccurrence(z, s, t) = ResolveWallClock(z, w)
  BY DEF NextOccurrence, NextMinuteAligned, BoundaryAfter
<1>5. /\ w \in Int /\ x < w /\ w <= x + e /\ w % e = 0
      /\ \A v \in Int : x < v /\ v < w => v % e # 0
  <2> HIDE DEF e, x
  <2> QED BY <1>0, <1>1, NextMultiple, Zenon
<1>6. \A v \in (z.at + z.base + z.shift + 1)..(z.at + z.base - 1) : ~Names(s, v)
  BY DEF FoldRepeatsNone
<1>7. IsNext(z, s, t, ResolveWallClock(z, w))
  <2> HIDE DEF w, e
  <2>1. w <= x + Day
    <3> HIDE DEF x
    <3> QED BY <1>0, <1>1, <1>5
  <2>2. Names(s, w) /\ \A v \in Int : x < v /\ v < w => ~Names(s, v)
    <3> HIDE DEF x
    <3> QED BY <1>3, <1>5
  <2> QED BY <1>5, <1>6, <2>1, <2>2, NextNamedIsNext
<1> QED BY <1>4, <1>7

\* next_hour, likewise: its intervals are counted in minutes of the day.
LEMMA HourIsNext ==
    ASSUME NEW z \in ZoneType, NEW s \in RuleType, s.kind = "hour", FoldRepeatsNone(z, s),
           NEW t \in Int
    PROVE  IsNext(z, s, t, NextOccurrence(z, s, t))
<1> DEFINE x == Local(z, t)
           h == s.every
           e == h * Hour
           w == BoundaryAfter(x, Day, e)
<1>0. Hour \in Nat \ {0} /\ Day \in Nat \ {0} /\ x \in Int
  BY CalendarAssumption, ZoneFacts
<1>1. h \in Nat \ {0} /\ (Day \div Hour) % h = 0 /\ h <= Day \div Hour
  <2>1. h \in {n \in 1..(Day \div Hour) : (Day \div Hour) % n = 0}
    BY RuleFacts
  <2>2. Day \div Hour \in Int
    BY <1>0, DivMod
  <2> HIDE DEF h
  <2> QED BY <2>1, <2>2
<1>2. e \in Nat \ {0} /\ Day % e = 0
  <2> HIDE DEF h
  <2> QED BY <1>1, HourMultiples
<1>3. e <= Day
  <2>0. Day \in Int
    BY <1>0
  <2> HIDE DEF e
  <2>1. PICK k \in Int : Day = k * e
    BY <1>0, <1>2, <2>0, Multiple, Zenon
  <2>2. k < 1 => k * e + e <= 1 * e
    BY <1>2, Scaled
  <2>3. 0 < k
    BY <1>0, <1>2, <2>1, <2>2
  <2>4. 0 * e + e <= k * e
    BY <1>2, <2>3, Scaled
  <2> QED BY <1>0, <1>2, <2>1, <2>4
<1>4. \A v \in Int : Names(s, v) <=> v % e = 0
  <2>1. \A v : Names(s, v) <=> v % Hour = 0 /\ ((v % Day) \div Hour) % h = 0
    BY DEF Names
  <2> HIDE DEF h
  <2>2. \A v \in Int : (v % Hour = 0 /\ ((v % Day) \div Hour) % h = 0) <=> v % (h * Hour) = 0
    BY <1>1, HourMultiples
  <2> QED BY <2>1, <2>2
<1>5. NextOccurrence(z, s, t) = ResolveWallClock(z, w)
  <2> DEFINE p == x % Day
             a == (p \div Hour) \div h
  <2>1. NextOccurrence(z, s, t)
          = ResolveWallClock(z, x - p + NextBoundary(h, p \div Hour) * Hour)
    BY DEF NextOccurrence, NextHourAligned
  <2>2. p \in Int
    <3> HIDE DEF x
    <3> QED BY <1>0, DivMod
  <2>3. a = p \div e
    <3>1. Hour \in Nat \ {0} /\ h \in Nat \ {0}
      BY <1>0, <1>1
    <3> HIDE DEF h, p
    <3>2. (p \div Hour) \div h = p \div (h * Hour)
      BY <2>2, <3>1, DivDiv, Zenon
    <3> QED BY <3>2
  <2>4. a \in Int
    <3> HIDE DEF p, e, a
    <3> QED BY <1>2, <2>2, <2>3, DivMod
  <2>5. NextBoundary(h, p \div Hour) * Hour = (a + 1) * h * Hour
    BY DEF NextBoundary
  <2>6. (a + 1) * h * Hour = (a + 1) * e
    <3> HIDE DEF a, h
    <3> QED BY <1>0, <1>1, <2>4, SMT
  <2>7. NextBoundary(e, p) = (a + 1) * e
    <3> HIDE DEF p, e, a
    <3> QED BY <2>3 DEF NextBoundary
  <2>8. w = x - p + NextBoundary(h, p \div Hour) * Hour
    <3>1. w = x - p + NextBoundary(e, p)
      BY DEF BoundaryAfter
    <3> HIDE DEF x, p, e, h, a, w
    <3> QED BY <2>5, <2>6, <2>7, <3>1
  <2> QED BY <2>1, <2>8
<1>6. /\ w \in Int /\ x < w /\ w <= x + e /\ w % e = 0
      /\ \A v \in Int : x < v /\ v < w => v % e # 0
  <2> HIDE DEF e, x
  <2> QED BY <1>0, <1>2, NextMultiple, Zenon
<1>7. \A v \in (z.at + z.base + z.shift + 1)..(z.at + z.base - 1) : ~Names(s, v)
  BY DEF FoldRepeatsNone
<1>8. IsNext(z, s, t, ResolveWallClock(z, w))
  <2> HIDE DEF w, e
  <2>1. w <= x + Day
    <3> HIDE DEF x
    <3> QED BY <1>0, <1>2, <1>3, <1>6
  <2>2. Names(s, w) /\ \A v \in Int : x < v /\ v < w => ~Names(s, v)
    <3> HIDE DEF x
    <3> QED BY <1>4, <1>6
  <2> QED BY <1>6, <1>7, <2>1, <2>2, NextNamedIsNext
<1> QED BY <1>5, <1>8

\* A set of naturals with a member has a least one.
LEMMA LeastNumber ==
    ASSUME NEW S \in SUBSET Nat, S # {}
    PROVE  \E x \in S : \A y \in S : x <= y
<1> DEFINE R == {p \in Nat \X Nat : p[1] < p[2]}
<1>1. IsWellFoundedOn(R, Nat)
  BY NatLessThanWellFounded, Zenon DEF OpToRel
<1>2. \E x \in S : \A y \in S : <<y, x>> \notin R
  <2> HIDE DEF R
  <2> QED BY <1>1, WFMin
<1>3. PICK x \in S : \A y \in S : <<y, x>> \notin R
  BY <1>2
<1>4. ASSUME NEW y \in S PROVE x <= y
  <2>1. y \in Nat /\ x \in Nat
    OBVIOUS
  <2>2. <<y, x>> \notin R
    BY <1>3
  <2>3. ~(y < x)
    BY <2>1, <2>2
  <2> QED BY <2>1, <2>3
<1> QED BY <1>3, <1>4

\* So has a set of integers that goes down to lo.
LEMMA LeastInteger ==
    ASSUME NEW S \in SUBSET Int, NEW lo \in Int, \A x \in S : lo <= x, S # {}
    PROVE  Min(S) \in S /\ \A y \in S : Min(S) <= y
<1> DEFINE D == {x - lo : x \in S}
<1>1. D \in SUBSET Nat /\ D # {}
  <2>1. \A x \in S : x - lo \in Nat
    OBVIOUS
  <2> QED BY <2>1
<1>2. PICK d \in D : \A e \in D : d <= e
  <2> HIDE DEF D
  <2> QED BY <1>1, LeastNumber
<1>3. PICK x \in S : d = x - lo
  OBVIOUS
<1>4. ASSUME NEW y \in S PROVE x <= y
  <2>1. y - lo \in D /\ x \in Int /\ y \in Int
    OBVIOUS
  <2>2. x - lo <= y - lo
    BY <1>2, <1>3, <2>1
  <2> QED BY <2>1, <2>2
<1> QED BY <1>4 DEF Min

-----------------------------------------------------------------------------
(* Months.                                                                   *)

\* Each month starts where the one before it ends, and of two one is long.
LEMMA MonthFacts ==
    ASSUME NEW m \in Int
    PROVE  /\ MonthStart(m) \in Int /\ MonthLength(m) \in Nat \ {0}
           /\ MonthLength(m) <= LongMonth
           /\ MonthStart(m + 1) = MonthStart(m) + MonthLength(m)
           /\ MonthLength(m) = LongMonth \/ MonthLength(m + 1) = LongMonth
<1> DEFINE q == m \div 2
           r == m % 2
           c == ShortMonth + LongMonth
<1>0. ShortMonth \in Nat \ {0} /\ LongMonth \in Nat \ {0} /\ ShortMonth <= LongMonth
  BY CalendarAssumption
<1>1. q \in Int /\ r \in 0..1 /\ m = q * 2 + r
  BY DivMod
<1>2. MonthStart(m) = q * c + r * ShortMonth
  BY DEF MonthStart
<1>3. MonthLength(m) = IF r = 0 THEN ShortMonth ELSE LongMonth
  BY DEF MonthLength
<1> HIDE DEF q, r
<1>4. q * c \in Int /\ (q + 1) * c = q * c + c
  BY <1>0, <1>1, SMT
<1>5. CASE r = 0
  <2>1. m + 1 = q * 2 + 1
    BY <1>1, <1>5
  <2>2. (m + 1) \div 2 = q /\ (m + 1) % 2 = 1
    BY <1>1, <2>1, DivModUnique
  <2>3. MonthStart(m + 1) = q * c + 1 * ShortMonth /\ MonthLength(m + 1) = LongMonth
    BY <2>2 DEF MonthStart, MonthLength
  <2> HIDE DEF c
  <2> QED BY <1>0, <1>2, <1>3, <1>4, <1>5, <2>3
<1>6. CASE r = 1
  <2>1. m + 1 = (q + 1) * 2 + 0
    BY <1>1, <1>6
  <2>2. (m + 1) \div 2 = q + 1 /\ (m + 1) % 2 = 0
    BY <1>1, <2>1, DivModUnique
  <2>3. MonthStart(m + 1) = (q + 1) * c + 0 * ShortMonth /\ MonthLength(m) = LongMonth
    BY <1>3, <1>6, <2>2 DEF MonthStart
  <2>4. MonthStart(m + 1) = q * c + c
    <3>1. c \in Nat
      BY <1>0
    <3> HIDE DEF c
    <3> QED BY <1>0, <1>4, <2>3, <3>1
  <2> QED BY <1>0, <1>2, <1>3, <1>4, <1>6, <2>3, <2>4
<1> QED BY <1>1, <1>5, <1>6

\* A month ends before a later one starts.
LEMMA MonthOrder ==
    ASSUME NEW m \in Int, NEW n \in Int, m < n
    PROVE  MonthStart(m) + MonthLength(m) <= MonthStart(n)
<1> DEFINE q == m \div 2
           r == m % 2
           k == n \div 2
           l == n % 2
           c == ShortMonth + LongMonth
<1>0. ShortMonth \in Nat \ {0} /\ LongMonth \in Nat \ {0} /\ c \in Nat \ {0}
  BY CalendarAssumption
<1>1. /\ q \in Int /\ r \in 0..1 /\ m = q * 2 + r
      /\ k \in Int /\ l \in 0..1 /\ n = k * 2 + l
  BY DivMod
<1>2. /\ MonthStart(m) = q * c + r * ShortMonth
      /\ MonthStart(n) = k * c + l * ShortMonth
  BY DEF MonthStart
<1>3. MonthLength(m) = IF r = 0 THEN ShortMonth ELSE LongMonth
  BY DEF MonthLength
<1>4. c = ShortMonth + LongMonth
  OBVIOUS
<1> HIDE DEF q, r, k, l, c
<1>5. q * c \in Int /\ k * c \in Int
  BY <1>0, <1>1, SMT
<1>6. CASE q < k
  <2>1. q * c + c <= k * c
    BY <1>0, <1>1, <1>6, Scaled
  <2>2. l * ShortMonth >= 0 /\ l * ShortMonth \in Int
    BY <1>0, <1>1
  <2>3. MonthStart(m) + MonthLength(m) <= q * c + c
    BY <1>0, <1>1, <1>2, <1>3, <1>4, <1>5
  <2>4. MonthStart(n) >= k * c /\ MonthStart(n) \in Int
    BY <1>2, <1>5, <2>2
  <2> QED BY <1>0, <1>5, <2>1, <2>3, <2>4, MonthFacts
<1>7. CASE q = k
  <2>1. r = 0 /\ l = 1
    BY <1>1, <1>7
  <2> QED BY <1>0, <1>2, <1>3, <1>5, <1>7, <2>1
<1>8. ~(k < q)
  BY <1>1
<1> QED BY <1>1, <1>6, <1>7, <1>8

\* Every date lies in its month, and in no other.
LEMMA MonthOfIs ==
    ASSUME NEW d \in Int
    PROVE  /\ MonthOf(d) \in Int
           /\ MonthStart(MonthOf(d)) <= d
           /\ d < MonthStart(MonthOf(d)) + MonthLength(MonthOf(d))
           /\ \A m \in Int : MonthStart(m) <= d /\ d < MonthStart(m) + MonthLength(m)
                               => MonthOf(d) = m
<1> DEFINE c == ShortMonth + LongMonth
           q == d \div c
           r == d % c
           Fits(m) == MonthStart(m) <= d /\ d < MonthStart(m) + MonthLength(m)
           S == {2 * q + i : i \in 0..1}
<1>0. ShortMonth \in Nat \ {0} /\ LongMonth \in Nat \ {0} /\ c \in Nat \ {0}
  BY CalendarAssumption
<1>1. q \in Int /\ r \in 0..(c - 1) /\ d = q * c + r
  BY <1>0, DivMod
<1>2. MonthOf(d) = CHOOSE m \in S : Fits(m)
  BY DEF MonthOf
<1>c. c = ShortMonth + LongMonth
  OBVIOUS
<1> HIDE DEF q, r, c
<1>3. \A i \in 0..1 : (2 * q + i) \div 2 = q /\ (2 * q + i) % 2 = i
  <2> TAKE i \in 0..1
  <2>1. 2 * q + i = q * 2 + i /\ 2 * q + i \in Int
    BY <1>1
  <2> QED BY <1>1, <2>1, DivModUnique
<1>4. /\ MonthStart(2 * q + 0) = q * c + 0 * ShortMonth
      /\ MonthLength(2 * q + 0) = ShortMonth
      /\ MonthStart(2 * q + 1) = q * c + 1 * ShortMonth
      /\ MonthLength(2 * q + 1) = LongMonth
  BY <1>3 DEF MonthStart, MonthLength, c
<1>5. q * c \in Int
  BY <1>0, <1>1, SMT
<1>6. \E m \in S : Fits(m)
  <2>1. CASE r < ShortMonth
    <3>1. Fits(2 * q + 0)
      BY <1>0, <1>1, <1>4, <1>5, <2>1
    <3> QED BY <3>1
  <2>2. CASE ~(r < ShortMonth)
    <3>1. Fits(2 * q + 1)
      BY <1>0, <1>1, <1>4, <1>5, <1>c, <2>2
    <3> QED BY <3>1
  <2> QED BY <2>1, <2>2
<1>7. MonthOf(d) \in S /\ Fits(MonthOf(d))
  <2> HIDE DEF S, Fits
  <2> QED BY <1>2, <1>6
<1>8. MonthOf(d) \in Int
  BY <1>1, <1>7
<1>9. ASSUME NEW m \in Int, Fits(m) PROVE MonthOf(d) = m
  <2> DEFINE n == MonthOf(d)
  <2>0. n \in Int /\ Fits(n)
    BY <1>7, <1>8
  <2> HIDE DEF n
  <2>1. ~(m < n)
    <3>1. m < n => MonthStart(m) + MonthLength(m) <= MonthStart(n)
      BY <2>0, MonthOrder
    <3> QED BY <1>9, <2>0, <3>1, MonthFacts
  <2>2. ~(n < m)
    <3>1. n < m => MonthStart(n) + MonthLength(n) <= MonthStart(m)
      BY <2>0, MonthOrder
    <3> QED BY <1>9, <2>0, <3>1, MonthFacts
  <2> QED BY <2>0, <2>1, <2>2 DEF n
<1> QED BY <1>7, <1>8, <1>9

-----------------------------------------------------------------------------
(* Dates.                                                                    *)

\* A rule of dates, as validation lets it pass.
CalendarRule == {s \in RuleType : s.kind = "calendar"}

\* The rule names the date d.
FiresOn(s, d) ==
    IF s.monthly THEN d \in MonthlyDates(s, MonthOf(d)) ELSE CalendarFiresOn(s, d)

\* The dates of a month that a monthly rule names lie in that month; a long month
\* has one.
LEMMA MonthlyDatesFit ==
    ASSUME NEW s \in CalendarRule, s.monthly = TRUE, NEW m \in Int
    PROVE  /\ \A d \in MonthlyDates(s, m) :
                 d \in Int /\ MonthStart(m) <= d /\ d < MonthStart(m) + MonthLength(m)
           /\ MonthLength(m) = LongMonth => MonthlyDates(s, m) # {}
<1> DEFINE day == IF s.lastDay THEN MonthLength(m) ELSE s.onDay
<1>0. MonthStart(m) \in Int /\ MonthLength(m) \in Nat \ {0}
  BY MonthFacts
<1>1. day \in Nat \ {0} /\ (MonthLength(m) = LongMonth => day <= MonthLength(m))
  <2>0. LongMonth \in Nat
    BY CalendarAssumption
  <2>1. s \in RuleType /\ s.kind = "calendar"
    BY DEF CalendarRule
  <2>2. \/ s.lastDay = FALSE /\ s.onDay \in 1..LongMonth
        \/ s.lastDay = TRUE
    BY <2>1, RuleFacts
  <2>3. CASE s.lastDay = TRUE
    <3>1. day = MonthLength(m)
      BY <2>3, Zenon
    <3> HIDE DEF day
    <3> QED BY <1>0, <3>1
  <2>4. CASE s.lastDay = FALSE /\ s.onDay \in 1..LongMonth
    <3>1. day = s.onDay
      BY <2>4, Zenon
    <3> HIDE DEF day
    <3> QED BY <2>0, <2>4, <3>1
  <2> QED BY <2>2, <2>3, <2>4
<1>2. MonthlyDates(s, m)
        = IF day <= MonthLength(m) THEN {MonthStart(m) + day - 1} ELSE {}
  BY DEF MonthlyDates
<1> HIDE DEF day
<1>3. CASE day <= MonthLength(m)
  <2>1. MonthlyDates(s, m) = {MonthStart(m) + day - 1}
    BY <1>2, <1>3
  <2>2. \A d \in MonthlyDates(s, m) : d = MonthStart(m) + day - 1
    BY <2>1
  <2> QED BY <1>0, <1>1, <1>3, <2>1, <2>2
<1>4. CASE ~(day <= MonthLength(m))
  BY <1>1, <1>2, <1>4
<1> QED BY <1>3, <1>4

\* Which dates each calendar kind names, and which it walks over.
LEMMA FiresOnKinds ==
    ASSUME NEW s \in CalendarRule
    PROVE  /\ s.kind = "calendar" /\ s.time \in 0..(Day - 1)
           /\ \/ /\ s.monthly = TRUE
                 /\ \A d : FiresOn(s, d) <=> d \in MonthlyDates(s, MonthOf(d))
                 /\ \A t : DatesFrom(s, t)
                       = UNION {MonthlyDates(s, m) : m \in MonthOf(t)..(MonthOf(t) + 4)}
              \/ /\ s.monthly = FALSE
                 /\ s.days \in (SUBSET (0..(Week - 1))) \ {{}}
                 /\ \A d : FiresOn(s, d) <=> (d % Week) \in s.days
                 /\ \A t : DatesFrom(s, t) = {d \in t..(t + 2 * Week) : FiresOn(s, d)}
<1>1. s \in RuleType /\ s.kind = "calendar"
  BY DEF CalendarRule
<1>2. /\ s.time \in 0..(Day - 1)
      /\ s.monthly = TRUE
           \/ (s.monthly = FALSE /\ s.days \in (SUBSET (0..(Week - 1))) \ {{}})
  BY <1>1, RuleFacts
<1>3. CASE s.monthly = TRUE
  BY <1>1, <1>2, <1>3, Zenon DEF FiresOn, DatesFrom
<1>4. CASE s.monthly = FALSE /\ s.days \in (SUBSET (0..(Week - 1))) \ {{}}
  <2>1. \A d : FiresOn(s, d) <=> CalendarFiresOn(s, d)
    BY <1>4, Zenon DEF FiresOn
  <2>2. \A t : DatesFrom(s, t) = {d \in t..(t + 2 * Week) : CalendarFiresOn(s, d)}
    BY <1>4, Zenon DEF DatesFrom
  <2>3. \A t : DatesFrom(s, t) = {d \in t..(t + 2 * Week) : FiresOn(s, d)}
    BY <2>1, <2>2
  <2>4. \A d : FiresOn(s, d) <=> (d % Week) \in s.days
    BY <2>1, Zenon DEF CalendarFiresOn
  <2> QED BY <1>1, <1>2, <1>4, <2>3, <2>4, Zenon
<1> QED BY <1>2, <1>3, <1>4

\* The walk over dates visits dates the rule names, none of them far back, and one
\* that is two days ahead or more, but not too many.
LEMMA WalkReaches ==
    ASSUME NEW s \in CalendarRule, NEW today \in Int
    PROVE  /\ DatesFrom(s, today) \in SUBSET Int
           /\ \A d \in DatesFrom(s, today) : FiresOn(s, d)
           /\ \E lo \in Int : \A d \in DatesFrom(s, today) : lo <= d
           /\ \E d \in DatesFrom(s, today) :
                 today + 2 <= d /\ d <= today + Week + 4 * LongMonth
<1>0. Week \in Nat \ {0} /\ LongMonth \in Nat \ {0}
  BY CalendarAssumption
<1>1. CASE s.monthly = TRUE
  <2> DEFINE M == MonthOf(today)
             D == DatesFrom(s, today)
  <2>1. D = UNION {MonthlyDates(s, m) : m \in M..(M + 4)}
    BY <1>1, FiresOnKinds
  <2>2. /\ M \in Int /\ MonthStart(M) <= today
        /\ today < MonthStart(M) + MonthLength(M)
    BY MonthOfIs
  <2> HIDE DEF M
  <2>3. \A d \in D : \E m \in M..(M + 4) : d \in MonthlyDates(s, m)
    BY <2>1
  <2> HIDE DEF D
  <2>4. ASSUME NEW d \in D
        PROVE  d \in Int /\ FiresOn(s, d) /\ MonthStart(M) <= d
    <3>1. PICK m \in M..(M + 4) : d \in MonthlyDates(s, m)
      BY <2>3
    <3>2. m \in Int /\ M <= m
      BY <2>2
    <3>3. d \in Int /\ MonthStart(m) <= d /\ d < MonthStart(m) + MonthLength(m)
      BY <1>1, <3>1, <3>2, MonthlyDatesFit
    <3>4. MonthOf(d) = m
      BY <3>2, <3>3, MonthOfIs
    <3>5. FiresOn(s, d)
      BY <1>1, <3>1, <3>4, FiresOnKinds
    <3>6. MonthStart(M) <= MonthStart(m)
      <4>1. CASE M = m
        BY <2>2, <4>1, MonthFacts
      <4>2. CASE M < m
        BY <2>2, <3>2, <4>2, MonthOrder, MonthFacts
      <4> QED BY <2>2, <3>2, <4>1, <4>2
    <3>7. MonthStart(M) \in Int /\ MonthStart(m) \in Int
      BY <2>2, <3>2, MonthFacts
    <3> QED BY <3>3, <3>5, <3>6, <3>7
  <2>5. \E d \in D : today + 2 <= d /\ d <= today + Week + 4 * LongMonth
    <3> DEFINE L(i) == MonthLength(M + i)
               B(i) == MonthStart(M + i)
    <3>1. /\ B(0) \in Int /\ B(1) = B(0) + L(0)
          /\ L(0) \in Nat \ {0} /\ L(0) <= LongMonth
      BY <2>2, MonthFacts
    <3>2. /\ B(2) = B(1) + L(1) /\ L(1) \in Nat \ {0} /\ L(1) <= LongMonth
      <4>1. M + 1 \in Int /\ (M + 1) + 1 = M + 2
        BY <2>2
      <4> QED BY <4>1, MonthFacts
    <3>3. /\ B(3) = B(2) + L(2) /\ L(2) \in Nat \ {0} /\ L(2) <= LongMonth
          /\ L(2) = LongMonth \/ L(3) = LongMonth
      <4>1. M + 2 \in Int /\ (M + 2) + 1 = M + 3
        BY <2>2
      <4> QED BY <4>1, MonthFacts
    <3>4. L(3) \in Nat \ {0} /\ L(3) <= LongMonth
      <4>1. M + 3 \in Int
        BY <2>2
      <4> QED BY <4>1, MonthFacts
    <3>5. B(0) <= today /\ today < B(0) + L(0)
      <4>1. M + 0 = M
        BY <2>2
      <4> QED BY <2>2, <4>1
    <3>6. PICK i \in {2, 3} : L(i) = LongMonth
      BY <3>3
    <3>7. M + i \in Int /\ M + i \in M..(M + 4)
      BY <2>2
    <3>8. PICK d : d \in MonthlyDates(s, M + i)
      BY <1>1, <3>6, <3>7, MonthlyDatesFit
    <3>9. d \in Int /\ B(i) <= d /\ d < B(i) + L(i)
      BY <1>1, <3>7, <3>8, MonthlyDatesFit
    <3>10. d \in D
      BY <2>1, <3>7, <3>8 DEF D
    <3>11. i = 2 \/ i = 3
      OBVIOUS
    <3> HIDE DEF B, L
    <3>12. today + 2 <= d /\ d <= today + Week + 4 * LongMonth
      <4>1. CASE i = 2
        BY <1>0, <3>1, <3>2, <3>3, <3>5, <3>9, <4>1
      <4>2. CASE i = 3
        BY <1>0, <3>1, <3>2, <3>3, <3>4, <3>5, <3>9, <4>2
      <4> QED BY <3>11, <4>1, <4>2
    <3> QED BY <3>10, <3>12
  <2>6. MonthStart(M) \in Int
    BY <2>2, MonthFacts
  <2> QED BY <2>4, <2>5, <2>6 DEF D
<1>2. CASE s.monthly = FALSE
  <2>1. /\ s.days \in (SUBSET (0..(Week - 1))) \ {{}}
        /\ \A d : FiresOn(s, d) <=> (d % Week) \in s.days
        /\ DatesFrom(s, today) = {d \in today..(today + 2 * Week) : FiresOn(s, d)}
    BY <1>2, FiresOnKinds
  <2>2. PICK a : a \in s.days /\ a \in 0..(Week - 1)
    BY <2>1
  <2> DEFINE y == today + 2
             q == (a - y) \div Week
             r == (a - y) % Week
             d == y + r
  <2>3. y \in Int /\ a \in Int /\ a - y \in Int
    BY <1>0, <2>2
  <2>4. q \in Int /\ r \in 0..(Week - 1) /\ a - y = q * Week + r
    <3> HIDE DEF y
    <3> QED BY <1>0, <2>3, DivMod
  <2>y. y = today + 2
    OBVIOUS
  <2> HIDE DEF y, q, r
  <2>5. d = (-q) * Week + a /\ -q \in Int /\ d \in Int
    BY <1>0, <2>3, <2>4, SMT
  <2>6. d % Week = a
    BY <1>0, <2>2, <2>5, DivModUnique
  <2>7. d \in today..(today + 2 * Week) /\ today + 2 <= d /\ d <= today + Week + 4 * LongMonth
    BY <1>0, <2>3, <2>4, <2>y
  <2>8. FiresOn(s, d)
    BY <2>1, <2>2, <2>6
  <2>9. d \in DatesFrom(s, today)
    BY <2>1, <2>7, <2>8
  <2>10. \A e \in DatesFrom(s, today) : e \in Int /\ FiresOn(s, e) /\ today <= e
    BY <2>1, <1>0
  <2> HIDE DEF d
  <2> QED BY <2>7, <2>9, <2>10
<1> QED BY <1>1, <1>2, FiresOnKinds

\* A date from today on that the walk leaves out is later than all it visits.
LEMMA WalkLeavesOutLater ==
    ASSUME NEW s \in CalendarRule, NEW today \in Int, NEW d \in Int, FiresOn(s, d),
           today <= d, d \notin DatesFrom(s, today)
    PROVE  \A c \in DatesFrom(s, today) : c <= d
<1>0. Week \in Nat \ {0}
  BY CalendarAssumption
<1>1. CASE s.monthly = TRUE
  <2> DEFINE M == MonthOf(today)
             n == MonthOf(d)
             D == DatesFrom(s, today)
  <2>1. /\ D = UNION {MonthlyDates(s, m) : m \in M..(M + 4)}
        /\ d \in MonthlyDates(s, n)
    BY <1>1, FiresOnKinds
  <2>2. /\ M \in Int /\ MonthStart(M) <= today
        /\ n \in Int /\ d < MonthStart(n) + MonthLength(n) /\ MonthStart(n) <= d
    BY MonthOfIs
  <2> HIDE DEF M, n, D
  <2>3. ~(n < M)
    <3>1. n < M => MonthStart(n) + MonthLength(n) <= MonthStart(M)
      BY <2>2, MonthOrder
    <3> QED BY <2>2, <3>1, MonthFacts
  <2>4. n \notin M..(M + 4)
    BY <2>1 DEF D
  <2>5. M + 4 < n
    BY <2>2, <2>3, <2>4
  <2>6. ASSUME NEW c \in D PROVE c <= d
    <3>1. PICK m \in M..(M + 4) : c \in MonthlyDates(s, m)
      BY <2>1
    <3>2. m \in Int /\ m < n
      BY <2>2, <2>5
    <3>3. c \in Int /\ c < MonthStart(m) + MonthLength(m)
      BY <1>1, <3>1, <3>2, MonthlyDatesFit
    <3>4. MonthStart(m) + MonthLength(m) <= MonthStart(n)
      BY <2>2, <3>2, MonthOrder
    <3>5. MonthStart(m) \in Int /\ MonthLength(m) \in Int /\ MonthStart(n) \in Int
      BY <2>2, <3>2, MonthFacts
    <3> QED BY <2>2, <3>3, <3>4, <3>5
  <2> QED BY <2>6 DEF D
<1>2. CASE s.monthly = FALSE
  <2>1. DatesFrom(s, today) = {e \in today..(today + 2 * Week) : FiresOn(s, e)}
    BY <1>2, FiresOnKinds
  <2>2. d > today + 2 * Week
    BY <1>0, <2>1
  <2> QED BY <1>0, <2>1, <2>2
<1> QED BY <1>1, <1>2, FiresOnKinds

-----------------------------------------------------------------------------
(* The calendar kinds.                                                     *)

\* A calendar rule fires where the wall shows its time on one of its dates.
LEMMA FiresOnADate ==
    ASSUME NEW z \in ZoneType, NEW s \in CalendarRule, NEW f
    PROVE  Fires(z, s, f) <=> \E d \in Int : FiresOn(s, d) /\ FirstAt(z, d * Day + s.time, f)
<1>0. Day \in Nat \ {0} /\ s.kind = "calendar" /\ s.time \in 0..(Day - 1)
  BY CalendarAssumption, FiresOnKinds
<1>1. \A w : Names(s, w) <=> w % Day = s.time /\ FiresOn(s, w \div Day)
  BY <1>0, Zenon DEF Names, FiresOn
<1>2. ASSUME NEW w \in Int, Names(s, w), FirstAt(z, w, f)
      PROVE  \E d \in Int : FiresOn(s, d) /\ FirstAt(z, d * Day + s.time, f)
  <2> DEFINE d == w \div Day
  <2>1. d \in Int /\ w = d * Day + (w % Day)
    BY <1>0, DivMod
  <2>2. w % Day = s.time /\ FiresOn(s, d)
    BY <1>1, <1>2
  <2> HIDE DEF d
  <2>3. w = d * Day + s.time
    BY <2>1, <2>2
  <2> QED BY <1>2, <2>1, <2>2, <2>3
<1>3. ASSUME NEW d \in Int, FiresOn(s, d), FirstAt(z, d * Day + s.time, f)
      PROVE  \E w \in Int : Names(s, w) /\ FirstAt(z, w, f)
  <2> DEFINE w == d * Day + s.time
  <2>1. w \in Int
    BY <1>0, SMT
  <2>2. w = d * Day + s.time
    OBVIOUS
  <2> HIDE DEF w
  <2>3. w \div Day = d /\ w % Day = s.time
    BY <1>0, <2>1, <2>2, DivModUnique
  <2>4. Names(s, w)
    BY <1>1, <1>3, <2>3
  <2> QED BY <1>3, <2>1, <2>2, <2>4
<1> QED BY <1>2, <1>3 DEF Fires

\* In the past the clock showed no more than a day beyond what it shows.
LEMMA ClockFallsADay ==
    ASSUME NEW z \in ZoneType, NEW t \in Int, NEW u \in Int, u <= t
    PROVE  Local(z, u) <= Local(z, t) + Day
BY ZoneFacts

\* next_calendar: the earliest of the walk's resolved dates after the instant is the
\* next firing, though the walk leaves dates out and begins before today.
LEMMA CalendarIsNext ==
    ASSUME NEW z \in ZoneType, NEW s \in CalendarRule, NEW t \in Int
    PROVE  IsNext(z, s, t, NextOccurrence(z, s, t))
<1> DEFINE x == Local(z, t)
           today == x \div Day
           At(d) == d * Day + s.time
           Candidate(d) == ResolveWallClock(z, At(d))
           D == DatesFrom(s, today)
           later == {d \in D : Candidate(d) > t}
           first == Min(later)
           n == Candidate(first)
<1>0. /\ Day \in Nat \ {0} /\ x \in Int /\ s.time \in 0..(Day - 1) /\ s.kind = "calendar"
      /\ Week \in Nat \ {0} /\ LongMonth \in Nat \ {0}
  BY CalendarAssumption, ZoneFacts, FiresOnKinds
<1>1. NextOccurrence(z, s, t) = n
  <2>1. NextOccurrence(z, s, t) = NextCalendar(z, s, t)
    BY <1>0 DEF NextOccurrence
  <2>2. NextCalendar(z, s, t) = n
    BY DEF NextCalendar
  <2> QED BY <2>1, <2>2
<1>2. today \in Int /\ today * Day <= x /\ x < today * Day + Day /\ today * Day \in Int
  <2>1. today \in Int /\ x % Day \in 0..(Day - 1) /\ x = today * Day + (x % Day)
    <3> HIDE DEF x
    <3> QED BY <1>0, DivMod
  <2> HIDE DEF today
  <2>2. today * Day \in Int
    BY <1>0, <2>1, SMT
  <2> HIDE DEF x
  <2> QED BY <1>0, <2>1, <2>2
<1> HIDE DEF today
<1>3. \A d \in Int : At(d) \in Int /\ d * Day \in Int
  BY <1>0, SMT
<1>4. \A d \in Int : FirstAt(z, At(d), Candidate(d)) /\ Candidate(d) \in Int
  <2> TAKE d \in Int
  <2>1. At(d) \in Int
    BY <1>3
  <2> HIDE DEF At
  <2> QED BY <2>1, ResolvesToFirst DEF FirstAt
<1>5. \A c, d \in Int : c <= d => At(c) <= At(d) /\ Candidate(c) <= Candidate(d)
  <2> SUFFICES ASSUME NEW c \in Int, NEW d \in Int, c <= d
               PROVE  At(c) <= At(d) /\ Candidate(c) <= Candidate(d)
    OBVIOUS
  <2>1. c * Day <= d * Day
    <3>1. CASE c = d
      BY <1>3, <3>1
    <3>2. CASE c < d
      <4>1. c * Day + Day <= d * Day
        BY <1>0, <3>2, Scaled
      <4> QED BY <1>0, <1>3, <4>1
    <3> QED BY <3>1, <3>2
  <2>2. At(c) <= At(d) /\ At(c) \in Int /\ At(d) \in Int
    BY <1>0, <1>3, <2>1
  <2>3. FirstAt(z, At(c), Candidate(c)) /\ FirstAt(z, At(d), Candidate(d))
    BY <1>4
  <2> HIDE DEF At, Candidate
  <2> QED BY <2>2, <2>3, FirstMonotone
<1>6. D \in SUBSET Int /\ \A d \in D : FiresOn(s, d)
  BY <1>2, WalkReaches
<1>7. PICK far \in D : today + 2 <= far /\ far <= today + Week + 4 * LongMonth
  BY <1>2, WalkReaches
<1>8. Candidate(far) > t /\ Candidate(far) <= t + Reach
  <2> DEFINE w == At(far)
             m == Candidate(far)
  <2>1. far \in Int /\ w \in Int /\ FirstAt(z, w, m) /\ m \in Int /\ Local(z, m) >= w
    BY <1>3, <1>4, <1>6 DEF FirstAt
  <2>2. w = far * Day + s.time /\ far * Day \in Int
    BY <1>3, <2>1
  <2>3. far * Day >= today * Day + 2 * Day
    <3>1. (today + 1) * Day + Day <= far * Day
      BY <1>0, <1>2, <1>7, <2>1, Scaled
    <3>2. (today + 1) * Day = today * Day + Day
      BY <1>0, <1>2, SMT
    <3> QED BY <1>0, <1>2, <2>2, <3>1, <3>2
  <2>4. far * Day <= today * Day + Week * Day + 4 * (LongMonth * Day)
    <3> DEFINE e == today + Week + 4 * LongMonth
    <3>1. e \in Int /\ far <= e
      BY <1>0, <1>2, <1>7
    <3>2. e * Day = today * Day + Week * Day + 4 * (LongMonth * Day)
      BY <1>0, <1>2, SMT
    <3>3. far < e => far * Day + Day <= e * Day
      <4> HIDE DEF e
      <4> QED BY <1>0, <2>1, <3>1, Scaled
    <3> HIDE DEF e
    <3>4. CASE far = e
      BY <3>2, <3>4, <2>2
    <3>5. CASE far < e
      <4>1. e * Day \in Int
        BY <1>0, <3>1, SMT
      <4>2. far * Day <= e * Day
        BY <1>0, <2>2, <3>3, <3>5, <4>1
      <4> QED BY <3>2, <4>2
    <3> QED BY <2>1, <3>1, <3>4, <3>5
  <2> HIDE DEF w, m
  <2>5. m > t
    <3> SUFFICES ASSUME m <= t PROVE FALSE
      BY <2>1
    <3>1. Local(z, m) <= x + Day /\ Local(z, m) \in Int
      BY <2>1, ClockFallsADay, ZoneFacts
    <3> HIDE DEF x
    <3> QED BY <1>0, <1>2, <2>1, <2>2, <2>3, <3>1
  <2>6. m <= t + Reach
    <3>1. w > x
      <4> HIDE DEF x
      <4> QED BY <1>0, <1>2, <2>1, <2>2, <2>3
    <3>2. m <= t + (w - x) + Day
      BY <2>1, <3>1, FirstIsNear
    <3>3. w - x <= Week * Day + 4 * (LongMonth * Day) + Day
      <4> HIDE DEF x
      <4> QED BY <1>0, <1>2, <2>2, <2>4, ReachIsLong
    <3> HIDE DEF x
    <3> QED BY <1>0, <2>1, <3>2, <3>3, ReachIsLong
  <2> QED BY <2>5, <2>6 DEF m
<1>9. first \in later /\ \A d \in later : first <= d
  <2>1. PICK lo \in Int : \A d \in D : lo <= d
    BY <1>2, WalkReaches
  <2>2. later \in SUBSET Int /\ far \in later /\ \A d \in later : lo <= d
    BY <1>6, <1>8, <2>1
  <2> HIDE DEF later
  <2> QED BY <2>2, LeastInteger
<1>10. first \in Int /\ first \in D /\ n > t
  <2> HIDE DEF D, Candidate
  <2> QED BY <1>6, <1>9
<1>11. n <= t + Reach
  <2>1. far \in later /\ far \in Int
    BY <1>6, <1>8
  <2>2. first <= far
    BY <1>9, <2>1
  <2>3. n <= Candidate(far)
    <3> HIDE DEF Candidate, first
    <3> QED BY <1>5, <1>10, <2>1, <2>2
  <2>4. n \in Int /\ Candidate(far) \in Int
    <3> HIDE DEF Candidate, first
    <3> QED BY <1>4, <1>10, <2>1
  <2> HIDE DEF Candidate, n
  <2> QED BY <1>8, <2>3, <2>4, ReachIsLong
<1>12. ASSUME NEW f, Fires(z, s, f), f > t PROVE n <= f
  <2>1. PICK d \in Int : FiresOn(s, d) /\ FirstAt(z, At(d), f)
    BY <1>12, FiresOnADate
  <2>2. At(d) \in Int /\ f \in Int
    BY <1>3, <2>1 DEF FirstAt
  <2>3. At(d) > x
    <3> HIDE DEF At
    <3> QED BY <1>12, <2>1, <2>2, PassedIsPassed
  <2>4. today <= d
    <3> SUFFICES ASSUME d < today PROVE FALSE
      BY <1>2
    <3>1. d * Day + Day <= today * Day
      BY <1>0, <1>2, Scaled
    <3> HIDE DEF x
    <3> QED BY <1>0, <1>2, <1>3, <2>3, <3>1
  <2>5. f = Candidate(d)
    <3>1. FirstAt(z, At(d), Candidate(d)) /\ Candidate(d) \in Int
      BY <1>4
    <3> HIDE DEF At, Candidate
    <3>2. f <= Candidate(d) /\ Candidate(d) <= f
      BY <2>1, <2>2, <3>1, FirstMonotone
    <3> QED BY <2>2, <3>1, <3>2
  <2>6. first <= d
    <3>1. CASE d \in D
      <4>1. d \in later
        BY <1>12, <2>5, <3>1
      <4> HIDE DEF later, first
      <4> QED BY <1>9, <4>1
    <3>2. CASE d \notin D
      <4> HIDE DEF first
      <4> QED BY <1>2, <1>10, <2>1, <2>4, <3>2, WalkLeavesOutLater DEF D
    <3> QED BY <3>1, <3>2
  <2> HIDE DEF Candidate, first
  <2> QED BY <1>5, <1>10, <2>5, <2>6
<1>13. Fires(z, s, n) /\ n \in Int
  <2>1. FiresOn(s, first) /\ FirstAt(z, At(first), n) /\ n \in Int
    <3> HIDE DEF At, Candidate, first, D
    <3> QED BY <1>4, <1>6, <1>10
  <2> HIDE DEF n
  <2> QED BY <1>10, <2>1, FiresOnADate
<1> HIDE DEF n
<1>14. IsNext(z, s, t, n)
  BY <1>10, <1>11, <1>12, <1>13 DEF IsNext
<1> QED BY <1>1, <1>14

-----------------------------------------------------------------------------
(* The engine, and what its meaning is on a horizon of TLC's.              *)

\* The engine is right for every rule that validation passes, at every instant, in
\* every zone: across a gap, in a fold that repeats no boundary, over every month.
THEOREM EngineIsRight ==
    ASSUME NEW z \in ZoneType, NEW s \in RuleType, FoldRepeatsNone(z, s), NEW t \in Int
    PROVE  IsNext(z, s, t, NextOccurrence(z, s, t))
<1>1. s.kind = "minute" \/ s.kind = "hour" \/ s.kind = "calendar"
  BY RuleFacts
<1>2. CASE s.kind = "calendar"
  BY <1>2, CalendarIsNext DEF CalendarRule
<1> QED BY <1>1, <1>2, MinuteIsNext, HourIsNext

\* A set of integers that goes up to hi has a greatest member.
LEMMA GreatestInteger ==
    ASSUME NEW S \in SUBSET Int, NEW hi \in Int, \A x \in S : x <= hi, S # {}
    PROVE  Max(S) \in S /\ \A y \in S : Max(S) >= y
<1> DEFINE D == {hi - x : x \in S}
<1>1. D \in SUBSET Nat /\ D # {}
  <2>1. \A x \in S : hi - x \in Nat
    OBVIOUS
  <2> QED BY <2>1
<1>2. PICK d \in D : \A e \in D : d <= e
  <2> HIDE DEF D
  <2> QED BY <1>1, LeastNumber
<1>3. PICK x \in S : d = hi - x
  OBVIOUS
<1>4. ASSUME NEW y \in S PROVE x >= y
  <2>1. hi - y \in D /\ x \in Int /\ y \in Int
    OBVIOUS
  <2>2. hi - x <= hi - y
    BY <1>2, <1>3, <2>1
  <2> QED BY <2>1, <2>2
<1> QED BY <1>4 DEF Max

\* After a day the clock has made up for any fold.
LEMMA ClockRegains ==
    ASSUME NEW z \in ZoneType, NEW u \in Int, NEW v \in Int, u + Day < v
    PROVE  Local(z, u) <= Local(z, v)
BY ZoneFacts

\* The firings of a horizon are firings, but for those near its beginning, where a
\* fold may lie; and they are all there are.
LEMMA FiringsWithin ==
    ASSUME NEW z \in ZoneType, NEW s, NEW a \in Int, NEW b \in Int, a <= b
    PROVE  /\ \A f \in Firings(z, s, a..b) : f \in Int /\ (f > a + Day => Fires(z, s, f))
           /\ \A f : Fires(z, s, f) /\ a < f /\ f <= b => f \in Firings(z, s, a..b)
<1> DEFINE H == a..b
           walls == {Local(z, t) : t \in H}
           named == {w \in Min(walls)..Max(walls) : Names(s, w)}
           R(w) == {t \in H : Local(z, t) >= w}
<1>0. /\ z.base \in Int /\ z.at \in Int /\ z.shift \in Int /\ z.shift >= -Day /\ Day \in Nat
      /\ \A u \in Int : /\ Local(z, u) \in Int
                        /\ u < z.at => Local(z, u) = u + z.base
                        /\ u >= z.at => Local(z, u) = u + z.base + z.shift
  BY ZoneFacts
<1>1. Firings(z, s, a..b) = {Min(R(w)) : w \in named}
  BY DEF Firings, Reached
<1>2. walls \in SUBSET Int /\ walls # {}
  <2>1. a \in H /\ \A t \in H : Local(z, t) \in Int
    BY <1>0
  <2> HIDE DEF H
  <2> QED BY <2>1
<1>3. Min(walls) \in walls /\ \A y \in walls : Min(walls) <= y
  <2> DEFINE lo == a + z.base - Day
  <2>1. lo \in Int /\ \A t \in H : lo <= Local(z, t)
    BY <1>0
  <2>2. \A y \in walls : lo <= y
    BY <2>1
  <2> HIDE DEF walls, lo
  <2> QED BY <1>2, <2>1, <2>2, LeastInteger
<1>4. Max(walls) \in walls /\ \A y \in walls : Max(walls) >= y
  <2>1. PICK hi \in Int : \A t \in H : Local(z, t) <= hi
    <3>1. CASE z.shift >= 0
      <4>1. b + z.base + z.shift \in Int /\ \A t \in H : Local(z, t) <= b + z.base + z.shift
        BY <1>0, <3>1
      <4> QED BY <4>1
    <3>2. CASE z.shift < 0
      <4>1. b + z.base \in Int /\ \A t \in H : Local(z, t) <= b + z.base
        BY <1>0, <3>2
      <4> QED BY <4>1
    <3> QED BY <1>0, <3>1, <3>2
  <2>2. \A y \in walls : y <= hi
    BY <2>1
  <2> HIDE DEF walls
  <2> QED BY <1>2, <2>1, <2>2, GreatestInteger
<1>5. \A w : R(w) \in SUBSET Int /\ \A t \in R(w) : a <= t
  OBVIOUS
<1>6. ASSUME NEW w \in named
      PROVE  /\ w \in Int /\ Names(s, w)
             /\ Min(R(w)) \in R(w) /\ \A t \in R(w) : Min(R(w)) <= t
  <2>1. w \in Int /\ Names(s, w) /\ w <= Max(walls)
    BY <1>2, <1>3, <1>4
  <2>2. R(w) # {}
    BY <1>0, <1>4, <2>1
  <2> HIDE DEF R
  <2> QED BY <1>5, <2>1, <2>2, LeastInteger
<1>7. ASSUME NEW f \in Firings(z, s, a..b)
      PROVE  f \in Int /\ (f > a + Day => Fires(z, s, f))
  <2>1. PICK w \in named : f = Min(R(w))
    BY <1>1, <1>7
  <2>2. w \in Int /\ Names(s, w) /\ f \in R(w) /\ \A t \in R(w) : f <= t
    BY <1>6, <2>1
  <2>3. f \in Int /\ Local(z, f) >= w /\ f <= b
    BY <2>2
  <2>4. \A u \in a..b : u < f => Local(z, u) < w
    BY <1>0, <2>2
  <2>5. ASSUME f > a + Day, NEW u \in Int, u < f PROVE Local(z, u) < w
    <3>1. CASE u >= a
      BY <2>3, <2>4, <2>5, <3>1
    <3>2. CASE u < a
      <4> DEFINE v == a + Day
      <4>1. v \in a..b /\ v < f
        BY <1>0, <2>3, <2>5
      <4>2. Local(z, v) < w /\ Local(z, v) \in Int
        BY <1>0, <2>4, <4>1
      <4>3. Local(z, u) <= Local(z, v)
        <5>1. v \in Int /\ u + Day < v
          BY <1>0, <3>2
        <5> HIDE DEF v
        <5> QED BY <5>1, ClockRegains
      <4> QED BY <1>0, <2>2, <4>2, <4>3
    <3> QED BY <3>1, <3>2
  <2> QED BY <2>2, <2>3, <2>5 DEF Fires, FirstAt
<1>8. ASSUME NEW f, Fires(z, s, f), a < f, f <= b PROVE f \in Firings(z, s, a..b)
  <2>1. PICK w \in Int : Names(s, w) /\ FirstAt(z, w, f)
    BY <1>8 DEF Fires
  <2>2. f \in Int /\ Local(z, f) >= w /\ \A u \in Int : u < f => Local(z, u) < w
    BY <2>1 DEF FirstAt
  <2>3. f \in H /\ a \in H
    BY <1>8, <2>2
  <2>4. Local(z, f) \in walls /\ Local(z, a) \in walls /\ Local(z, a) < w
    BY <1>8, <2>2, <2>3
  <2>5. w \in Min(walls)..Max(walls)
    <3>1. Local(z, f) \in Int /\ Local(z, a) \in Int
      BY <1>0, <2>2
    <3> HIDE DEF walls
    <3>2. Min(walls) \in Int /\ Max(walls) \in Int
      BY <1>2, <1>3, <1>4
    <3>3. Min(walls) <= Local(z, a) /\ Local(z, f) <= Max(walls)
      BY <1>3, <1>4, <2>4, <3>1, <3>2
    <3> QED BY <2>2, <2>4, <3>1, <3>2, <3>3
  <2>6. f \in R(w) /\ \A t \in R(w) : f <= t
    BY <1>0, <2>2, <2>3
  <2>7. Min(R(w)) = f
    <3> HIDE DEF R
    <3> QED BY <1>5, <2>6, MinIs
  <2>8. w \in named
    BY <2>1, <2>5
  <2> HIDE DEF named, R
  <2> QED BY <1>1, <2>7, <2>8
<1> QED BY <1>7, <1>8

-----------------------------------------------------------------------------
(* The table.                                                                *)

\* The configuration is one users may have, in zones whose folds do no harm.
Configured ==
    /\ schedule \in Configs
    /\ \A j \in Job : FoldRepeatsNone(schedule[j].zone, schedule[j].rule)

\* Within the lookback and the horizon an entry is the next of the job's firings.
LEMMA EntryIsNext ==
    ASSUME Configured, NEW j \in Job, NEW t \in (-Lookback)..Horizon
    PROVE  /\ FiringsOf(j) \in SUBSET Int
           /\ NextFor(j, t) \in FiringsOf(j)
           /\ NextFor(j, t) > t
           /\ \A u \in FiringsOf(j) : u > t => NextFor(j, t) <= u
<1> DEFINE z == schedule[j].zone
           s == schedule[j].rule
           F == FiringsOf(j)
           n == NextFor(j, t)
           a == -(Lookback + 2 * Day)
           b == Horizon + Reach
<1>0. /\ Lookback \in Nat /\ Horizon \in Nat /\ Day \in Nat /\ Reach \in Nat /\ t \in Int
      /\ -Lookback <= t /\ t <= Horizon
  BY TableAssumption, ReachIsLong
<1>1. schedule \in [Job -> [zone : ZoneType, rule : RuleType]]
  BY TableAssumption DEF Configured
<1>2. z \in ZoneType /\ s \in RuleType /\ FoldRepeatsNone(z, s)
  BY <1>1 DEF Configured
<1>3. F = Firings(z, s, a..b)
  <2>1. schedule[j] \in Range(schedule)
    BY <1>1 DEF Range
  <2>2. schedule[j] \in UNION {Range(c) : c \in Configs}
    BY <2>1 DEF Configured
  <2>3. AllFirings[schedule[j]] = Firings(z, s, Around)
    BY <2>2 DEF AllFirings
  <2>4. Around = a..b
    BY DEF Around, Reach
  <2> QED BY <2>3, <2>4 DEF FiringsOf
<1>4. IsNext(z, s, t, n)
  BY <1>0, <1>2, EngineIsRight DEF NextFor
<1> HIDE DEF z, s, F, n
<1>5. /\ \A f \in F : f \in Int /\ (f > a + Day => Fires(z, s, f))
      /\ \A f : Fires(z, s, f) /\ a < f /\ f <= b => f \in F
  <2>1. a \in Int /\ b \in Int /\ a <= b
    BY <1>0
  <2> HIDE DEF a, b
  <2> QED BY <1>2, <1>3, <2>1, FiringsWithin
<1>6. a + Day <= t
  BY <1>0
<1>7. a \in Int /\ b \in Int /\ a < t
  BY <1>0, <1>6, ReachIsLong
<1>8. n \in Int /\ n > t /\ n <= b
  BY <1>0, <1>4 DEF IsNext
<1> HIDE DEF a, b
<1>9. n \in F
  BY <1>0, <1>4, <1>5, <1>7, <1>8 DEF IsNext
<1>10. \A u \in F : u > t => n <= u
  <2> TAKE u \in F
  <2> HAVE u > t
  <2>1. u \in Int /\ u > a + Day
    BY <1>0, <1>5, <1>6, <1>7
  <2> QED BY <1>4, <1>5, <2>1 DEF IsNext
<1> QED BY <1>5, <1>8, <1>9, <1>10 DEF F, n

\* What pop_due has done so far with job j since it began: nothing, or it has taken the
\* job's entry, which was due, once, and computed the next from now.
Untouched(j) ==
    /\ since[j] = before[j]
    /\ \A i \in 1..Len(due) : due[i].job # j

TakenOnce(j) ==
    /\ since[j] = clock
    /\ \E i \in 1..Len(due) :
         /\ due[i].job = j
         /\ due[i].at = NextFor(j, before[j]) /\ due[i].at <= clock
         /\ \A k \in 1..Len(due) : due[k].job = j => k = i

\* The inductive invariant: the table holds for each job the entry computed from
\* `since`, and that is `now` for the jobs in `due` and what it was for the others.
EntriesFollow ==
    /\ Configured
    /\ clock \in 0..Horizon
    /\ since \in [Job -> 0..clock] /\ before \in [Job -> 0..clock]
    /\ heap = {Entry(j, since[j]) : j \in Job}
    /\ due \in Seq([job : Job, at : Int])
    /\ \A j \in Job : Untouched(j) \/ TakenOnce(j)

\* At the end of pop_due nothing in the table is due any more.
NothingLeft == ~popping /\ due # <<>> => \A e \in heap : e.at > clock

\* The instants the table computes from lie where EntryIsNext applies.
LEMMA InstantsInRange ==
    ASSUME EntriesFollow, NEW j \in Job
    PROVE  /\ since[j] \in (-Lookback)..Horizon /\ since[j] \in Int /\ since[j] <= clock
           /\ before[j] \in (-Lookback)..Horizon /\ before[j] \in Int
           /\ clock \in (-Lookback)..Horizon /\ clock \in Int
BY TableAssumption DEF EntriesFollow

\* A round of pop_due takes the job's entry, once: the next one lies after now.
LEMMA PopEntryFollows ==
    ASSUME EntriesFollow, PopEntry
    PROVE  EntriesFollow'
<1>1. PICK e \in heap :
        /\ e.at <= clock
        /\ due' = Append(due, e)
        /\ heap' = (heap \ {e}) \cup {Entry(e.job, clock)}
        /\ since' = [since EXCEPT ![e.job] = clock]
  BY DEF PopEntry
<1>2. UNCHANGED <<schedule, clock, popping, before>>
  BY DEF PopEntry
<1>3. PICK j \in Job : e = Entry(j, since[j])
  BY DEF EntriesFollow
<1>4. e.job = j /\ e.at = NextFor(j, since[j])
  BY <1>3 DEF Entry
<1>5. /\ Configured /\ clock \in 0..Horizon /\ since \in [Job -> 0..clock]
      /\ before \in [Job -> 0..clock] /\ heap = {Entry(k, since[k]) : k \in Job}
      /\ due \in Seq([job : Job, at : Int])
  BY DEF EntriesFollow
<1>6. Configured' /\ clock' \in 0..Horizon /\ before' \in [Job -> 0..clock']
  BY <1>2, <1>5 DEF Configured
<1>7. /\ since' \in [Job -> 0..clock'] /\ since'[j] = clock
      /\ \A k \in Job \ {j} : since'[k] = since[k]
  BY <1>1, <1>2, <1>4, <1>5
<1>9. heap' = {Entry(k, since'[k]) : k \in Job}
  <2>1. \A k \in Job : \A t : Entry(k, t).job = k
    BY DEF Entry
  <2>2. \A k \in Job : Entry(k, since[k]) # e => k # j
    BY <1>3
  <2>3. \A k \in Job \ {j} : Entry(k, since[k]) # e
    BY <1>4, <2>1
  <2>4. heap' = {Entry(k, since[k]) : k \in Job \ {j}} \cup {Entry(j, clock)}
    BY <1>1, <1>3, <1>4, <1>5, <2>2, <2>3
  <2> QED BY <1>7, <2>4
<1>10. {Entry(k, since'[k]) : k \in Job} = {Entry(k, since[k])' : k \in Job}
  <2>1. \A k \in Job : Entry(k, since'[k]) = Entry(k, since[k])'
    BY <1>2 DEF Entry, NextFor
  <2> QED BY <2>1
<1>11. e.at \in Int /\ e.at > since[j]
  <2>1. since[j] \in (-Lookback)..Horizon
    BY InstantsInRange
  <2> QED BY <1>4, <1>5, <2>1, EntryIsNext
<1>12. e \in [job : Job, at : Int]
  <2>1. e = [job |-> j, at |-> NextFor(j, since[j])]
    BY <1>3 DEF Entry
  <2> QED BY <1>4, <1>11, <2>1
<1>13. /\ due' \in Seq([job : Job, at : Int]) /\ Len(due') = Len(due) + 1
       /\ Len(due) \in Nat
       /\ due'[Len(due) + 1] = e /\ \A i \in 1..Len(due) : due'[i] = due[i]
  BY <1>1, <1>5, <1>12
<1>14. since[j] < clock
  BY <1>1, <1>5, <1>11
<1>15. Untouched(j)
  BY <1>14, <1>5 DEF EntriesFollow, TakenOnce
<1>16. TakenOnce(j)'
  <2> DEFINE i == Len(due) + 1
  <2>1. i \in 1..Len(due') /\ due'[i] = e
    BY <1>13
  <2>2. e.at = NextFor(j, before[j]) /\ NextFor(j, before[j])' = NextFor(j, before[j])
    BY <1>2, <1>4, <1>15 DEF Untouched, NextFor
  <2>3. \A k \in 1..Len(due') : due'[k].job = j => k = i
    BY <1>13, <1>15 DEF Untouched
  <2> HIDE DEF i
  <2> QED BY <1>1, <1>2, <1>4, <1>7, <2>1, <2>2, <2>3 DEF TakenOnce
<1>17. ASSUME NEW k \in Job, k # j PROVE (Untouched(k) \/ TakenOnce(k))'
  <2>1. since'[k] = since[k] /\ before' = before /\ clock' = clock
    BY <1>2, <1>7, <1>17
  <2>2. CASE Untouched(k)
    <3>1. \A i \in 1..Len(due') : due'[i].job # k
      BY <1>4, <1>13, <1>17, <2>2 DEF Untouched
    <3> QED BY <2>1, <2>2, <3>1 DEF Untouched
  <2>3. CASE TakenOnce(k)
    <3>1. PICK i \in 1..Len(due) :
            /\ due[i].job = k /\ due[i].at = NextFor(k, before[k]) /\ due[i].at <= clock
            /\ \A l \in 1..Len(due) : due[l].job = k => l = i
      BY <2>3 DEF TakenOnce
    <3>2. i \in 1..Len(due') /\ due'[i] = due[i]
      BY <1>13
    <3>3. \A l \in 1..Len(due') : due'[l].job = k => l = i
      <4> TAKE l \in 1..Len(due')
      <4>1. CASE l \in 1..Len(due)
        BY <1>13, <3>1, <4>1
      <4>2. CASE l = Len(due) + 1
        BY <1>4, <1>13, <1>17, <4>2
      <4> QED BY <1>13, <4>1, <4>2
    <3>4. NextFor(k, before[k])' = NextFor(k, before[k])
      BY <1>2 DEF NextFor
    <3>5. since[k] = clock
      BY <2>3 DEF TakenOnce
    <3> QED BY <2>1, <3>1, <3>2, <3>3, <3>4, <3>5 DEF TakenOnce
  <2> QED BY <2>2, <2>3 DEF EntriesFollow
<1> QED BY <1>6, <1>7, <1>9, <1>10, <1>13, <1>16, <1>17 DEF EntriesFollow

\* Every step keeps each job's entry that of its `since`.
LEMMA EntriesFollowInductive ==
    ASSUME EntriesFollow, [Next]_vars
    PROVE  EntriesFollow'
<1>0. /\ Configured /\ clock \in 0..Horizon /\ since \in [Job -> 0..clock]
      /\ before \in [Job -> 0..clock] /\ heap = {Entry(k, since[k]) : k \in Job}
      /\ due \in Seq([job : Job, at : Int])
      /\ \A j \in Job : Untouched(j) \/ TakenOnce(j)
  BY DEF EntriesFollow
<1>1. CASE Advance
  <2>1. /\ clock' \in 0..Horizon /\ clock <= clock' /\ due' = <<>> /\ before' = since
        /\ schedule' = schedule /\ heap' = heap /\ since' = since
    BY <1>0, <1>1, TableAssumption DEF Advance
  <2>2. since' \in [Job -> 0..clock'] /\ before' \in [Job -> 0..clock']
    BY <1>0, <2>1
  <2>3. heap' = {Entry(k, since[k])' : k \in Job}
    BY <1>0, <2>1 DEF Entry, NextFor
  <2>4. \A j \in Job : Untouched(j)'
    BY <2>1 DEF Untouched
  <2>5. due' \in Seq([job : Job, at : Int])
    BY <2>1
  <2> QED BY <1>0, <2>1, <2>2, <2>3, <2>4, <2>5 DEF EntriesFollow, Configured
<1>2. CASE Reload
  <2>1. /\ schedule' = schedule /\ clock' = clock /\ due' = <<>> /\ before' = since'
        /\ since' = [j \in Job |-> clock] /\ heap' = {Entry(j, clock) : j \in Job}
    BY <1>2 DEF Reload, BuiltFrom
  <2>2. since' \in [Job -> 0..clock'] /\ before' \in [Job -> 0..clock']
    BY <1>0, <2>1
  <2>3. heap' = {Entry(k, since[k])' : k \in Job}
    BY <2>1 DEF Entry, NextFor
  <2>4. \A j \in Job : Untouched(j)'
    BY <2>1 DEF Untouched
  <2>5. due' \in Seq([job : Job, at : Int])
    BY <2>1
  <2> QED BY <1>0, <2>1, <2>2, <2>3, <2>4, <2>5 DEF EntriesFollow, Configured
<1>3. CASE PopDue
  <2>1. /\ schedule' = schedule /\ clock' = clock /\ due' = <<>> /\ before' = since
        /\ since' = since /\ heap' = heap
    BY <1>3 DEF PopDue
  <2>2. heap' = {Entry(k, since[k])' : k \in Job}
    BY <1>0, <2>1 DEF Entry, NextFor
  <2>3. \A j \in Job : Untouched(j)'
    BY <2>1 DEF Untouched
  <2>4. due' \in Seq([job : Job, at : Int])
    BY <2>1
  <2> QED BY <1>0, <2>1, <2>2, <2>3, <2>4 DEF EntriesFollow, Configured
<1>4. CASE PopEntry
  BY <1>4, PopEntryFollows
<1>5. CASE PopEnds \/ UNCHANGED vars
  <2>1. UNCHANGED <<schedule, clock, heap, since, due, before>>
    BY <1>5 DEF PopEnds, vars
  <2>2. heap' = {Entry(k, since[k])' : k \in Job}
    BY <1>0, <2>1 DEF Entry, NextFor
  <2>3. \A j \in Job : (Untouched(j) \/ TakenOnce(j))'
    BY <1>0, <2>1 DEF Untouched, TakenOnce, NextFor
  <2> QED BY <1>0, <2>1, <2>2, <2>3 DEF EntriesFollow, Configured
<1> QED BY <1>1, <1>2, <1>3, <1>4, <1>5 DEF Next

\* pop_due ends when nothing is due, and until the next step that stays so.
LEMMA NothingLeftInductive ==
    ASSUME NothingLeft, [Next]_vars
    PROVE  NothingLeft'
<1>1. CASE Advance
  BY <1>1 DEF Advance, NothingLeft
<1>2. CASE Reload
  BY <1>2 DEF Reload, NothingLeft
<1>3. CASE PopDue
  BY <1>3 DEF PopDue, NothingLeft
<1>4. CASE PopEntry
  BY <1>4 DEF PopEntry, NothingLeft
<1>5. CASE PopEnds
  BY <1>5 DEF PopEnds, NothingLeft
<1>6. CASE UNCHANGED vars
  BY <1>6 DEF vars, NothingLeft
<1> QED BY <1>1, <1>2, <1>3, <1>4, <1>5, <1>6 DEF Next

\* The table's invariant, from start-up on.
THEOREM TableInvariant == Spec => [](EntriesFollow /\ NothingLeft)
<1>1. Init => EntriesFollow /\ NothingLeft
  <2> SUFFICES ASSUME Init PROVE EntriesFollow /\ NothingLeft
    OBVIOUS
  <2>1. /\ schedule \in Configs /\ clock = 0 /\ heap = {Entry(j, 0) : j \in Job}
        /\ since = [j \in Job |-> 0] /\ due = <<>> /\ before = since
        /\ \A j \in Job : FoldRepeatsNone(schedule[j].zone, schedule[j].rule)
    BY DEF Init, InitAnyFold
  <2>2. Horizon \in Nat
    BY TableAssumption
  <2>3. since \in [Job -> 0..clock] /\ clock \in 0..Horizon
    BY <2>1, <2>2
  <2>4. heap = {Entry(j, since[j]) : j \in Job}
    BY <2>1
  <2>5. \A j \in Job : Untouched(j)
    BY <2>1 DEF Untouched
  <2>6. due \in Seq([job : Job, at : Int])
    BY <2>1
  <2> QED BY <2>1, <2>3, <2>4, <2>5, <2>6 DEF EntriesFollow, NothingLeft, Configured
<1>2. EntriesFollow /\ NothingLeft /\ [Next]_vars => (EntriesFollow /\ NothingLeft)'
  BY EntriesFollowInductive, NothingLeftInductive
<1> QED BY <1>1, <1>2, PTL DEF Spec

\* Every entry is the first firing strictly after the instant it was computed from
\* (the doc comments of the next_* functions): whatever rules, zones, gaps and folds
\* the jobs have, after any series of sleeps, reloads and pop_dues.
THEOREM ContractHolds == Spec => []EngineMeetsContract
<1>1. EntriesFollow => EngineMeetsContract
  <2> SUFFICES ASSUME EntriesFollow, NEW j \in Job
               PROVE  \E e \in heap :
                        /\ e.job = j
                        /\ e.at = Min({t \in FiringsOf(j) : t > since[j]})
    BY DEF EngineMeetsContract
  <2> DEFINE F == FiringsOf(j)
             n == NextFor(j, since[j])
             S == {t \in F : t > since[j]}
  <2>1. /\ F \in SUBSET Int /\ n \in F /\ n > since[j]
        /\ \A u \in F : u > since[j] => n <= u
    BY InstantsInRange, EntryIsNext DEF EntriesFollow
  <2> HIDE DEF F, n
  <2>2. S \in SUBSET Int /\ n \in S /\ \A u \in S : n <= u
    BY <2>1
  <2>3. Min(S) = n
    <3> HIDE DEF S
    <3> QED BY <2>2, MinIs
  <2>4. Entry(j, since[j]) \in heap
    BY DEF EntriesFollow
  <2>5. Entry(j, since[j]).job = j /\ Entry(j, since[j]).at = n
    BY DEF Entry, n
  <2> QED BY <2>3, <2>4, <2>5 DEF F
<1> QED BY <1>1, TableInvariant, PTL

\* "Next minute-aligned firing strictly after `after`" (scheduler.rs) holds of every
\* entry of the table, so pop_due ends, wherever no fold repeats a boundary.
THEOREM TableFiresLater == Spec => []FiresStrictlyAfter
<1>1. EntriesFollow => FiresStrictlyAfter
  <2> SUFFICES ASSUME EntriesFollow, NEW e \in heap PROVE e.at > since[e.job]
    BY DEF FiresStrictlyAfter
  <2>1. PICK j \in Job : e = Entry(j, since[j])
    BY DEF EntriesFollow
  <2>2. e.job = j /\ e.at = NextFor(j, since[j])
    BY <2>1 DEF Entry
  <2>3. NextFor(j, since[j]) > since[j]
    BY InstantsInRange, EntryIsNext DEF EntriesFollow
  <2> QED BY <2>2, <2>3
<1> QED BY <1>1, TableInvariant, PTL

\* One pop_due dispatches a job once if a firing of it has elapsed, under the key of
\* the first, and otherwise not at all (scheduler.rs, pop_due), however long the sleep
\* and however many firings went by.
THEOREM BacklogCollapses == Spec => []PopTakesWhatElapsed
<1>1. EntriesFollow /\ NothingLeft => PopTakesWhatElapsed
  <2> DEFINE elapsed(j) == {t \in FiringsOf(j) : before[j] < t /\ t <= clock}
             taken(j) == {i \in 1..Len(due) : due[i].job = j}
  <2> SUFFICES ASSUME EntriesFollow, NothingLeft, ~popping, due # <<>>, NEW j \in Job
               PROVE  IF elapsed(j) = {} THEN taken(j) = {}
                      ELSE Cardinality(taken(j)) = 1
                             /\ \A i \in taken(j) : due[i].at = Min(elapsed(j))
    BY DEF PopTakesWhatElapsed
  <2>0. Untouched(j) \/ TakenOnce(j)
    BY DEF EntriesFollow
  <2>1. CASE Untouched(j)
    <3>1. /\ FiringsOf(j) \in SUBSET Int
          /\ \A u \in FiringsOf(j) : u > before[j] => NextFor(j, before[j]) <= u
          /\ NextFor(j, before[j]) \in Int /\ before[j] \in Int /\ clock \in Int
      BY InstantsInRange, EntryIsNext DEF EntriesFollow
    <3>4. NextFor(j, before[j]) > clock
      <4>1. since[j] = before[j] /\ Entry(j, since[j]) \in heap
        BY <2>1 DEF Untouched, EntriesFollow
      <4>2. Entry(j, since[j]).at = NextFor(j, since[j])
        BY DEF Entry
      <4>3. \A e \in heap : e.at > clock
        BY DEF NothingLeft
      <4> QED BY <4>1, <4>2, <4>3
    <3>2. elapsed(j) = {}
      BY <3>1, <3>4
    <3>3. taken(j) = {}
      BY <2>1 DEF Untouched
    <3> QED BY <3>2, <3>3
  <2>2. CASE TakenOnce(j)
    <3> DEFINE n == NextFor(j, before[j])
               F == FiringsOf(j)
               E == elapsed(j)
    <3>1. PICK i \in 1..Len(due) :
            /\ due[i].job = j /\ due[i].at = n /\ n <= clock
            /\ \A k \in 1..Len(due) : due[k].job = j => k = i
      BY <2>2 DEF TakenOnce
    <3>2. /\ F \in SUBSET Int /\ n \in F /\ n > before[j]
          /\ \A u \in F : u > before[j] => n <= u
      BY InstantsInRange, EntryIsNext DEF EntriesFollow
    <3>4. E \in SUBSET Int /\ n \in E /\ \A u \in E : n <= u
      <4> HIDE DEF n, F
      <4>1. E = {t \in F : before[j] < t /\ t <= clock}
        BY DEF F
      <4>2. n \in Int /\ before[j] \in Int
        BY <3>2, InstantsInRange
      <4> HIDE DEF E
      <4> QED BY <3>1, <3>2, <4>1, <4>2
    <3>5. taken(j) = {i}
      BY <3>1
    <3> HIDE DEF n, E
    <3>6. Min(E) = n /\ E # {}
      BY <3>4, MinIs
    <3>7. Cardinality(taken(j)) = 1
      BY <3>5, FS_Singleton
    <3>8. \A k \in taken(j) : due[k].at = Min(E)
      BY <3>1, <3>5, <3>6
    <3> QED BY <3>6, <3>7, <3>8 DEF E
  <2> QED BY <2>0, <2>1, <2>2
<1> QED BY <1>1, TableInvariant, PTL

\* g lists the iterates of f from a, c times.
IterateOf(g, f, a, c) ==
    /\ g = [n \in 0..c |-> g[n]]
    /\ g[0] = a
    /\ \A n \in 1..c : g[n] = f[g[n - 1]]

\* A function can be iterated from any point of its domain.
LEMMA Iterates ==
    ASSUME NEW D, NEW f \in [D -> D], NEW a \in D, NEW c \in Nat
    PROVE  \E g : IterateOf(g, f, a, c) /\ \A n \in 0..c : g[n] \in D
<1> DEFINE Iterate(g, k) == g[0] = a /\ \A n \in 1..k : g[n] = f[g[n - 1]]
           Short == {k \in Nat : ~ \E g \in [0..k -> D] : Iterate(g, k)}
<1> SUFFICES ASSUME Short # {} PROVE FALSE
  <2>1. ASSUME Short = {} PROVE \E g \in [0..c -> D] : Iterate(g, c)
    BY <2>1
  <2>2. ASSUME NEW g \in [0..c -> D], Iterate(g, c)
        PROVE  IterateOf(g, f, a, c) /\ \A n \in 0..c : g[n] \in D
    BY <2>2 DEF IterateOf
  <2> QED BY <2>1, <2>2
<1>1. PICK k \in Short : \A y \in Short : k <= y
  <2>1. Short \in SUBSET Nat
    OBVIOUS
  <2> HIDE DEF Short
  <2> QED BY <2>1, LeastNumber
<1>2. k # 0
  <2>1. [n \in 0..0 |-> a] \in [0..0 -> D] /\ Iterate([n \in 0..0 |-> a], 0)
    OBVIOUS
  <2> QED BY <2>1
<1>3. k - 1 \in Nat /\ k \in Nat
  BY <1>2
<1>4. PICK g \in [0..(k - 1) -> D] : Iterate(g, k - 1)
  <2>1. k - 1 \notin Short
    <3> HIDE DEF Short
    <3> QED BY <1>1, <1>3
  <2> QED BY <1>3, <2>1
<1> DEFINE h == [n \in 0..k |-> IF n = k THEN f[g[k - 1]] ELSE g[n]]
<1>5. /\ \A n \in 0..(k - 1) : h[n] = g[n]
      /\ h[k] = f[g[k - 1]]
  BY <1>3
<1>6. h \in [0..k -> D]
  <2>1. g[k - 1] \in D
    BY <1>3
  <2>2. f[g[k - 1]] \in D
    BY <2>1
  <2>3. \A n \in 0..k : (IF n = k THEN f[g[k - 1]] ELSE g[n]) \in D
    BY <1>3, <2>2
  <2> QED BY <2>3
<1> HIDE DEF h
<1>7. h[0] = a
  BY <1>3, <1>4, <1>5
<1>8. ASSUME NEW n \in 1..k PROVE h[n] = f[h[n - 1]]
  <2>1. n - 1 \in 0..(k - 1) /\ (n = k \/ n \in 1..(k - 1))
    BY <1>3
  <2>2. h[n - 1] = g[n - 1]
    BY <1>5, <2>1
  <2>3. CASE n = k
    BY <1>5, <2>2, <2>3
  <2>4. CASE n \in 1..(k - 1)
    <3>1. h[n] = g[n]
      BY <1>3, <1>5, <2>4
    <3> QED BY <1>4, <2>2, <2>4, <3>1
  <2> QED BY <2>1, <2>3, <2>4
<1> QED BY <1>3, <1>6, <1>7, <1>8

\* The steps of the missed-run walk of job j: from the anchor, the next firing each
\* time, up to the first that is in the future.
Walk(j, anchor, W) ==
    /\ W[0] = anchor
    /\ \A n \in 1..MissedCap : W[n] = IF W[n - 1] > clock THEN W[n - 1] ELSE NextFor(j, W[n - 1])

\* The walk missed_occurrences takes exists, and never leaves the window but upwards.
LEMMA MissedWalks ==
    ASSUME EntriesFollow, NEW j \in Job
    PROVE  \E W : /\ Walk(j, clock - Lookback, W)
                  /\ Missed(j, clock - Lookback) = {t \in {W[n] : n \in 1..MissedCap} : t <= clock}
                  /\ \A n \in 0..MissedCap : W[n] \in Int /\ W[n] >= clock - Lookback
<1> DEFINE anchor == clock - Lookback
           D == {t \in Int : t >= anchor}
           Next1(t) == IF t > clock THEN t ELSE NextFor(j, t)
           f == [t \in D |-> Next1(t)]
           Step(g) == [n \in 0..MissedCap |->
                         IF n = 0 THEN anchor
                         ELSE IF g[n - 1] > clock THEN g[n - 1] ELSE NextFor(j, g[n - 1])]
           U == CHOOSE g : g = Step(g)
<1>0. MissedCap \in Nat /\ Lookback \in Nat /\ clock \in 0..Horizon /\ Horizon \in Nat
  BY TableAssumption DEF EntriesFollow
<1>1. f \in [D -> D]
  <2> SUFFICES ASSUME NEW t \in D PROVE Next1(t) \in D
    OBVIOUS
  <2>1. CASE t > clock
    BY <2>1
  <2>2. CASE ~(t > clock)
    <3>1. t \in (-Lookback)..Horizon /\ t \in Int /\ t >= anchor
      BY <1>0, <2>2
    <3>2. NextFor(j, t) \in Int /\ NextFor(j, t) > t
      BY <3>1, EntryIsNext DEF EntriesFollow
    <3> QED BY <1>0, <2>2, <3>1, <3>2
  <2> QED BY <2>1, <2>2
<1>2. PICK g : IterateOf(g, f, anchor, MissedCap) /\ \A n \in 0..MissedCap : g[n] \in D
  <2>1. anchor \in D
    BY <1>0
  <2>2. MissedCap \in Nat
    BY <1>0
  <2> HIDE DEF D, f, anchor
  <2> QED BY <1>1, <2>1, <2>2, Iterates
<1>3. g = Step(g)
  <2>0. /\ g = [n \in 0..MissedCap |-> g[n]] /\ g[0] = anchor
        /\ \A n \in 1..MissedCap : g[n] = f[g[n - 1]]
    BY <1>2 DEF IterateOf
  <2> SUFFICES ASSUME NEW n \in 0..MissedCap PROVE g[n] = Step(g)[n]
    BY <2>0
  <2>1. CASE n = 0
    BY <2>0, <2>1
  <2>2. CASE n # 0
    <3>1. n \in 1..MissedCap /\ n - 1 \in 0..MissedCap
      BY <1>0, <2>2
    <3>2. g[n - 1] \in D
      BY <1>2, <3>1
    <3>3. g[n] = Next1(g[n - 1])
      <4> HIDE DEF D, Next1
      <4> QED BY <2>0, <3>1, <3>2
    <3> QED BY <2>2, <3>3
  <2> QED BY <2>1, <2>2
<1>4. U = Step(U)
  <2> HIDE DEF Step
  <2> QED BY <1>3
<1>5. Missed(j, anchor) = {t \in {U[n] : n \in 1..MissedCap} : t <= clock}
  BY DEF Missed
<1> HIDE DEF U
<1>6. /\ U[0] = anchor
      /\ \A n \in 1..MissedCap : U[n] = IF U[n - 1] > clock THEN U[n - 1] ELSE NextFor(j, U[n - 1])
  <2>1. \A n \in 0..MissedCap : U[n] = IF n = 0 THEN anchor
                         ELSE IF U[n - 1] > clock THEN U[n - 1] ELSE NextFor(j, U[n - 1])
    BY <1>4
  <2>2. 0 \in 0..MissedCap
    BY <1>0
  <2>3. ASSUME NEW n \in 1..MissedCap PROVE n \in 0..MissedCap /\ n # 0
    BY <1>0
  <2> HIDE DEF anchor
  <2> QED BY <2>1, <2>2, <2>3, Zenon
<1>7. \A n \in 0..MissedCap : U[n] \in D
  <2> DEFINE Out == {n \in 0..MissedCap : U[n] \notin D}
  <2> SUFFICES ASSUME Out # {} PROVE FALSE
    OBVIOUS
  <2>1. PICK n \in Out : \A y \in Out : n <= y
    <3>1. Out \in SUBSET Nat
      BY <1>0
    <3> HIDE DEF Out
    <3> QED BY <3>1, LeastNumber
  <2>2. anchor \in D
    BY <1>0
  <2>3. n # 0 /\ n \in 0..MissedCap /\ U[n] \notin D
    BY <1>6, <2>2
  <2>4. n \in 1..MissedCap /\ n - 1 \in 0..MissedCap /\ ~(n <= n - 1)
    BY <1>0, <2>3
  <2>5. U[n - 1] \in D
    BY <2>1, <2>4
  <2>6. U[n] = f[U[n - 1]]
    <3> HIDE DEF D
    <3> QED BY <1>6, <2>4, <2>5
  <2> HIDE DEF D, f
  <2> QED BY <1>1, <2>3, <2>5, <2>6
<1> QED BY <1>5, <1>6, <1>7 DEF Walk

\* Stepping from lo to the next member of F each time, up to the first beyond hi, one
\* meets the members of F up to hi and no others, the earliest `cap` of them.
LEMMA StepsMeetTheEarliest ==
    ASSUME NEW F \in SUBSET Int, NEW lo \in Int, NEW hi \in Int, lo <= hi,
           NEW cap \in Nat, NEW W, W[0] = lo, \A n \in 0..cap : W[n] \in Int,
           \A n \in 1..cap :
              \/ W[n - 1] > hi /\ W[n] = W[n - 1]
              \/ /\ W[n - 1] <= hi /\ W[n] \in F /\ W[n] > W[n - 1]
                 /\ \A u \in F : u > W[n - 1] => W[n] <= u
    PROVE  {t \in {W[n] : n \in 1..cap} : t <= hi}
             = {t \in {u \in F : lo < u /\ u <= hi} :
                  Cardinality({u \in {v \in F : lo < v /\ v <= hi} : u <= t}) <= cap}
<1> DEFINE Win == {u \in F : lo < u /\ u <= hi}
           Upto(t) == {u \in Win : u <= t}
           Seen(n) == {t \in {W[k] : k \in 1..n} : t <= hi}
           Met(n) == /\ W[n] <= hi => Upto(W[n]) = Seen(n) /\ Cardinality(Seen(n)) = n
                     /\ W[n] > hi => Win = Seen(n) /\ Cardinality(Seen(n)) <= n
<1>1. Win \in SUBSET Int /\ IsFiniteSet(Win) /\ \A u : u \in Win <=> u \in F /\ lo < u /\ u <= hi
  <2>0. \A u \in Win : u \in lo..hi
    OBVIOUS
  <2>1. IsFiniteSet(lo..hi)
    BY FS_Interval
  <2>2. IsFiniteSet(Win)
    <3> HIDE DEF Win
    <3> QED BY <2>0, <2>1, FS_Subset
  <2> QED BY <2>2 DEF Win
<1> HIDE DEF Win
<1>2. \A t : Upto(t) \in SUBSET Win /\ IsFiniteSet(Upto(t))
  <2> TAKE t
  <2>1. Upto(t) \in SUBSET Win
    BY DEF Upto
  <2> QED BY <1>1, <2>1, FS_Subset
<1> HIDE DEF Upto
<1>3. \A t, u : u \in Upto(t) <=> u \in Win /\ u <= t
  BY DEF Upto
<1>4. \A u \in Win : u \in F /\ u \in Int /\ lo < u /\ u <= hi
  BY <1>1
<1>5. Met(0)
  <2>0. \A u \in Upto(lo) : FALSE
    BY <1>3, <1>4
  <2>1. Seen(0) = {} /\ Upto(W[0]) = {}
    BY <2>0
  <2> HIDE DEF Seen
  <2> QED BY <2>1, FS_EmptySet
<1>6. ASSUME NEW n \in 1..cap, Met(n - 1) PROVE Met(n)
  <2>0. n - 1 \in 0..cap /\ n \in 0..cap /\ n \in Int /\ W[n - 1] \in Int /\ W[n] \in Int
    OBVIOUS
  <2>1. Seen(n) = IF W[n] <= hi THEN Seen(n - 1) \cup {W[n]} ELSE Seen(n - 1)
    <3>1. 1..n = (1..(n - 1)) \cup {n}
      BY <2>0
    <3> QED BY <3>1
  <2>2. CASE W[n - 1] > hi
    <3>1. W[n] = W[n - 1]
      BY <2>0, <2>2
    <3>2. Seen(n) = Seen(n - 1)
      <4> HIDE DEF Seen
      <4> QED BY <2>0, <2>1, <2>2, <3>1
    <3>3. Win = Seen(n - 1) /\ Cardinality(Seen(n - 1)) <= n - 1
      BY <1>6, <2>2
    <3>4. Cardinality(Win) \in Nat
      BY <1>1, FS_CardinalityType
    <3> HIDE DEF Seen
    <3> QED BY <2>0, <2>2, <3>1, <3>2, <3>3, <3>4
  <2>3. CASE W[n - 1] <= hi
    <3>0. /\ W[n] \in F /\ W[n] > W[n - 1]
          /\ \A u \in F : u > W[n - 1] => W[n] <= u
      BY <2>0, <2>3
    <3>1. Upto(W[n - 1]) = Seen(n - 1) /\ Cardinality(Seen(n - 1)) = n - 1
      BY <1>6, <2>3
    <3>2. lo <= W[n - 1]
      <4> DEFINE Low == {k \in 0..cap : ~(lo <= W[k])}
      <4> SUFFICES ASSUME Low # {} PROVE FALSE
        BY <2>0
      <4>1. PICK k \in Low : \A y \in Low : k <= y
        <5>1. Low \in SUBSET Nat
          OBVIOUS
        <5> HIDE DEF Low
        <5> QED BY <5>1, LeastNumber
      <4>2. k # 0 /\ k \in 0..cap /\ ~(lo <= W[k])
        OBVIOUS
      <4>3. k - 1 \in 0..cap /\ k \in 1..cap /\ ~(k <= k - 1)
        BY <4>2
      <4>4. lo <= W[k - 1]
        BY <4>1, <4>3
      <4>5. W[k] >= W[k - 1] /\ W[k] \in Int /\ W[k - 1] \in Int
        BY <4>3
      <4> QED BY <4>2, <4>4, <4>5
    <3>3. CASE W[n] <= hi
      <4>1. W[n] \in Win /\ W[n] \notin Upto(W[n - 1])
        BY <1>1, <1>3, <2>0, <3>0, <3>2, <3>3
      <4>2. Upto(W[n]) = Upto(W[n - 1]) \cup {W[n]}
        <5>1. \A u \in Upto(W[n]) : u \in Upto(W[n - 1]) \/ u = W[n]
          BY <1>3, <1>4, <2>0, <3>0
        <5>2. \A u \in Upto(W[n - 1]) : u \in Upto(W[n])
          BY <1>3, <1>4, <2>0, <3>0
        <5>3. W[n] \in Upto(W[n])
          BY <1>3, <2>0, <4>1
        <5> QED BY <5>1, <5>2, <5>3
      <4> HIDE DEF Seen
      <4>3. Upto(W[n]) = Seen(n)
        BY <2>1, <3>1, <3>3, <4>2
      <4>4. Cardinality(Upto(W[n])) = n
        <5>1. Cardinality(Upto(W[n])) = Cardinality(Upto(W[n - 1])) + 1
          BY <1>2, <4>1, <4>2, FS_AddElement
        <5> QED BY <2>0, <3>1, <5>1
      <4> QED BY <2>0, <3>3, <4>3, <4>4
    <3>4. CASE W[n] > hi
      <4>1. Win = Upto(W[n - 1])
        <5>1. \A u \in Win : u \in Upto(W[n - 1])
          BY <1>3, <1>4, <2>0, <3>0, <3>4
        <5> QED BY <1>2, <5>1
      <4> HIDE DEF Seen
      <4> QED BY <2>0, <2>1, <3>1, <3>4, <4>1
    <3> QED BY <2>0, <3>3, <3>4
  <2> QED BY <2>0, <2>2, <2>3
<1>7. Met(cap)
  <2> DEFINE Wrong == {n \in 0..cap : ~Met(n)}
  <2> HIDE DEF Met
  <2> SUFFICES ASSUME Wrong # {} PROVE FALSE
    <3>1. cap \in 0..cap
      OBVIOUS
    <3> QED BY <3>1
  <2>1. PICK n \in Wrong : \A y \in Wrong : n <= y
    <3>1. Wrong \in SUBSET Nat
      OBVIOUS
    <3> HIDE DEF Wrong
    <3> QED BY <3>1, LeastNumber
  <2>2. n # 0 /\ n \in 0..cap /\ ~Met(n)
    BY <1>5
  <2>3. n - 1 \in 0..cap /\ n \in 1..cap /\ ~(n <= n - 1)
    BY <2>2
  <2>4. Met(n - 1)
    BY <2>1, <2>3
  <2> QED BY <1>6, <2>2, <2>3, <2>4
<1>8. Seen(cap) = {t \in Win : Cardinality(Upto(t)) <= cap}
  <2>0. W[cap] \in Int /\ \A t : Cardinality(Upto(t)) \in Nat
    <3> QED BY <1>2, FS_CardinalityType
  <2>1. CASE W[cap] > hi
    <3>1. Win = Seen(cap) /\ Cardinality(Win) <= cap /\ Cardinality(Win) \in Nat
      BY <1>1, <1>7, <2>1, FS_CardinalityType
    <3> HIDE DEF Seen
    <3>2. \A t : Cardinality(Upto(t)) <= Cardinality(Win)
      BY <1>1, <1>2, FS_Subset
    <3> QED BY <2>0, <3>1, <3>2
  <2>2. CASE W[cap] <= hi
    <3>1. Upto(W[cap]) = Seen(cap) /\ Cardinality(Upto(W[cap])) = cap
      BY <1>7, <2>2
    <3>2. ASSUME NEW t \in Win, t <= W[cap] PROVE Cardinality(Upto(t)) <= cap
      <4>1. Upto(t) \in SUBSET Upto(W[cap])
        <5>1. \A u \in Upto(t) : u \in Upto(W[cap])
          BY <1>3, <1>4, <2>0, <3>2
        <5> QED BY <5>1
      <4>2. Cardinality(Upto(t)) <= Cardinality(Upto(W[cap]))
        BY <1>2, <4>1, FS_Subset
      <4> QED BY <3>1, <4>2
    <3>3. ASSUME NEW t \in Win, ~(t <= W[cap]) PROVE ~(Cardinality(Upto(t)) <= cap)
      <4> DEFINE V == Upto(W[cap]) \cup {t}
      <4>1. V \in SUBSET Upto(t) /\ t \notin Upto(W[cap])
        <5>1. \A u \in Upto(W[cap]) : u \in Upto(t)
          BY <1>3, <1>4, <2>0, <3>3
        <5>2. t \in Upto(t) /\ t \notin Upto(W[cap])
          BY <1>3, <1>4, <3>3
        <5> QED BY <5>1, <5>2
      <4>2. Cardinality(V) = cap + 1
        BY <1>2, <3>1, <4>1, FS_AddElement
      <4> HIDE DEF V
      <4>3. Cardinality(V) <= Cardinality(Upto(t))
        BY <1>2, <4>1, FS_Subset
      <4> QED BY <2>0, <4>2, <4>3
    <3>4. Upto(W[cap]) = {t \in Win : t <= W[cap]}
      BY DEF Upto
    <3> HIDE DEF Seen
    <3> QED BY <3>1, <3>2, <3>3, <3>4
  <2> QED BY <2>0, <2>1, <2>2
<1> QED BY <1>8 DEF Win, Upto

\* The missed-run walk finds the firings of its window and no others, the earliest
\* MissedCap of them (daemon.rs, missed_occurrences), over every lookback and cap.
THEOREM MissedRunsAreFound == Spec => []MissedAreTheFirings
<1>1. EntriesFollow => MissedAreTheFirings
  <2> SUFFICES ASSUME EntriesFollow, NEW j \in Job
               PROVE  LET anchor == clock - Lookback
                          window == {t \in FiringsOf(j) : anchor < t /\ t <= clock}
                      IN Missed(j, anchor)
                           = {t \in window : Cardinality({u \in window : u <= t}) <= MissedCap}
    BY DEF MissedAreTheFirings
  <2> DEFINE F == FiringsOf(j)
             anchor == clock - Lookback
             window == {t \in F : anchor < t /\ t <= clock}
  <2>0. /\ MissedCap \in Nat /\ Lookback \in Nat /\ clock \in 0..Horizon /\ Horizon \in Nat
        /\ anchor \in Int /\ clock \in Int /\ anchor <= clock /\ anchor >= -Lookback
    BY TableAssumption DEF EntriesFollow
  <2>1. PICK W : /\ Walk(j, anchor, W)
                 /\ Missed(j, anchor) = {t \in {W[n] : n \in 1..MissedCap} : t <= clock}
                 /\ \A n \in 0..MissedCap : W[n] \in Int /\ W[n] >= anchor
    BY MissedWalks
  <2>2. F \in SUBSET Int
    BY InstantsInRange, EntryIsNext DEF EntriesFollow
  <2>3. ASSUME NEW n \in 1..MissedCap
        PROVE  \/ W[n - 1] > clock /\ W[n] = W[n - 1]
               \/ /\ W[n - 1] <= clock /\ W[n] \in F /\ W[n] > W[n - 1]
                  /\ \A u \in F : u > W[n - 1] => W[n] <= u
    <3>1. n - 1 \in 0..MissedCap
      BY <2>0
    <3>2. W[n - 1] \in Int /\ W[n - 1] >= anchor
      BY <2>1, <3>1
    <3>3. W[n] = IF W[n - 1] > clock THEN W[n - 1] ELSE NextFor(j, W[n - 1])
      BY <2>1 DEF Walk
    <3>4. CASE W[n - 1] > clock
      BY <3>3, <3>4
    <3>5. CASE ~(W[n - 1] > clock)
      <4>1. W[n - 1] \in (-Lookback)..Horizon
        BY <2>0, <3>2, <3>5
      <4>2. W[n] = NextFor(j, W[n - 1])
        BY <3>3, <3>5
      <4>3. /\ NextFor(j, W[n - 1]) \in F /\ NextFor(j, W[n - 1]) > W[n - 1]
            /\ \A u \in F : u > W[n - 1] => NextFor(j, W[n - 1]) <= u
        BY <4>1, EntryIsNext DEF EntriesFollow
      <4> QED BY <2>0, <3>2, <3>5, <4>2, <4>3
    <3> QED BY <3>4, <3>5
  <2>4. W[0] = anchor
    BY <2>1 DEF Walk
  <2> HIDE DEF F, anchor
  <2>5. {t \in {W[n] : n \in 1..MissedCap} : t <= clock}
          = {t \in window : Cardinality({u \in window : u <= t}) <= MissedCap}
    BY <2>0, <2>1, <2>2, <2>3, <2>4, StepsMeetTheEarliest
  <2> QED BY <2>1, <2>5 DEF F, anchor
<1> QED BY <1>1, TableInvariant, PTL
===============================================================================
