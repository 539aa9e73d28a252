--------------------------- MODULE DailyLogProofs ---------------------------
(***************************************************************************)
(* That the output of runs is read back as it was printed, for any runs,   *)
(* streams, number of lines and days.  The invariant relates three things: *)
(* the line a drain thread holds is the last printed and its record is in  *)
(* the open file while the thread has the writer (Holding); the files hold *)
(* the lines of a stream up to the last written, in order, and none on a   *)
(* later day than the line held (InOrderOf); and in a file only one run    *)
(* writes to, records and line ends take turns (TakeTurns).  The reader is *)
(* then followed through its two concatenations, of the records of a file  *)
(* and of the files (Flattened).                                           *)
(***************************************************************************)
EXTENDS DailyLog, FiniteSetTheorems, WellFoundedInduction, TLAPS

\* A set of naturals with a member has a least one.
LEMMA LeastNumber ==
    ASSUME NEW S \in SUBSET Nat, S # {}
    PROVE  \E x \in S : \A y \in S : x <= y
<1> DEFINE R == {p \in Nat \X Nat : p[1] < p[2]}
<1>1. IsWellFoundedOn(R, Nat)
  BY NatLessThanWellFounded, Zenon DEF OpToRel
<1>2. \E x \in S : \A y \in S : <<y, x>> \notin R
  <2> HIDE DEF R
  <2> QED BY <1>1, WFMin
<1>3. PICK x \in S : \A y \in S : <<y, x>> \notin R
  BY <1>2
<1>4. ASSUME NEW y \in S PROVE x <= y
  <2>1. y \in Nat /\ x \in Nat
    OBVIOUS
  <2>2. <<y, x>> \notin R
    BY <1>3
  <2>3. ~(y < x)
    BY <2>1, <2>2
  <2> QED BY <2>1, <2>3
<1> QED BY <1>3, <1>4

-----------------------------------------------------------------------------
(* Reading.                                                                  *)

Increasing(q) == \A i, k \in 1..Len(q) : i < k => q[i] < q[k]
Members(q) == {q[i] : i \in 1..Len(q)}

\* Two increasing sequences, one after the other.
LEMMA Joined ==
    ASSUME NEW p \in Seq(Nat), NEW q \in Seq(Nat), Increasing(p), Increasing(q),
           \A x \in Members(p), y \in Members(q) : x < y
    PROVE  /\ p \o q \in Seq(Nat) /\ Increasing(p \o q)
           /\ Members(p \o q) = Members(p) \cup Members(q)
<1> DEFINE m == Len(p)
           n == Len(q)
           j == p \o q
<1>1. /\ m \in Nat /\ n \in Nat /\ j \in Seq(Nat) /\ Len(j) = m + n
      /\ \A i \in 1..m : j[i] = p[i] /\ p[i] \in Members(p) /\ p[i] \in Nat
      /\ \A i \in 1..n : q[i] \in Members(q) /\ q[i] \in Nat
      /\ \A i \in (m + 1)..(m + n) : j[i] = q[i - m]
  BY DEF Members
<1> HIDE DEF j, m, n
<1>2. \A i \in 1..(m + n) : i \in 1..m \/ (i \in (m + 1)..(m + n) /\ i - m \in 1..n)
  BY <1>1
<1>3. Increasing(j)
  <2> SUFFICES ASSUME NEW i \in 1..(m + n), NEW k \in 1..(m + n), i < k PROVE j[i] < j[k]
    BY <1>1 DEF Increasing
  <2>1. CASE i \in 1..m /\ k \in 1..m
    BY <1>1, <2>1 DEF Increasing, m
  <2>2. CASE i \in 1..m /\ k \in (m + 1)..(m + n) /\ k - m \in 1..n
    BY <1>1, <2>2
  <2>3. CASE i \in (m + 1)..(m + n) /\ k \in (m + 1)..(m + n)
    <3>1. i - m \in 1..n /\ k - m \in 1..n /\ i - m < k - m
      BY <1>1, <2>3
    <3>2. q[i - m] < q[k - m]
      BY <3>1 DEF Increasing, n
    <3> QED BY <1>1, <2>3, <3>2
  <2> QED BY <1>1, <1>2, <2>1, <2>2, <2>3
<1>4. Members(j) = Members(p) \cup Members(q)
  <2>1. ASSUME NEW x \in Members(j) PROVE x \in Members(p) \/ x \in Members(q)
    <3>1. PICK i \in 1..(m + n) : x = j[i]
      BY <1>1 DEF Members
    <3> QED BY <1>1, <1>2, <3>1
  <2>2. ASSUME NEW x \in Members(p) PROVE x \in Members(j)
    <3>1. PICK i \in 1..m : x = p[i]
      BY DEF Members, m
    <3>2. i \in 1..Len(j) /\ x = j[i]
      BY <1>1, <3>1
    <3> QED BY <3>2 DEF Members
  <2>3. ASSUME NEW x \in Members(q) PROVE x \in Members(j)
    <3>1. PICK i \in 1..n : x = q[i]
      BY DEF Members, n
    <3>2. m + i \in (m + 1)..(m + n) /\ (m + i) - m = i
      BY <1>1
    <3>3. m + i \in 1..Len(j) /\ x = j[m + i]
      BY <1>1, <3>1, <3>2
    <3> QED BY <3>3 DEF Members
  <2> QED BY <2>1, <2>2, <2>3
<1> QED BY <1>1, <1>3, <1>4 DEF j

\* What FlattenSeq defines exists.
LEMMA JoinExists ==
    ASSUME NEW parts, NEW n \in Nat
    PROVE  \E g : g = [i \in 1..n |-> IF i = 1 THEN parts[i] ELSE g[i - 1] \o parts[i]]
<1> DEFINE Step(k, g) == [i \in 1..k |-> IF i = 1 THEN parts[i] ELSE g[i - 1] \o parts[i]]
           Short == {k \in Nat : ~ \E g : g = Step(k, g)}
<1> SUFFICES ASSUME Short # {} PROVE FALSE
  OBVIOUS
<1>1. PICK k \in Short : \A y \in Short : k <= y
  <2>1. Short \in SUBSET Nat
    OBVIOUS
  <2> HIDE DEF Short
  <2> QED BY <2>1, LeastNumber
<1>2. k # 0
  <2>1. Step(0, <<>>) = <<>>
    OBVIOUS
  <2> QED BY <2>1
<1>3. k - 1 \in Nat /\ k \in Nat /\ ~(k <= k - 1)
  BY <1>2
<1>4. PICK g : g = Step(k - 1, g)
  <2>1. k - 1 \notin Short
    <3> HIDE DEF Short
    <3> QED BY <1>1, <1>3
  <2> HIDE DEF Step
  <2> QED BY <1>3, <2>1
<1> DEFINE last == IF k = 1 THEN parts[k] ELSE g[k - 1] \o parts[k]
           h == [i \in 1..k |-> IF i = k THEN last ELSE g[i]]
<1>5. /\ \A i \in 1..(k - 1) : h[i] = g[i]
      /\ h[k] = last /\ h = [i \in 1..k |-> h[i]]
  <2> HIDE DEF last
  <2>1. k \in 1..k /\ \A i \in 1..(k - 1) : i \in 1..k /\ i # k
    BY <1>3
  <2> QED BY <2>1
<1>6. \A i \in 1..(k - 1) : g[i] = IF i = 1 THEN parts[i] ELSE g[i - 1] \o parts[i]
  <2> TAKE i \in 1..(k - 1)
  <2>1. g[i] = Step(k - 1, g)[i]
    <3> HIDE DEF Step
    <3> QED BY <1>4
  <2> QED BY <2>1
<1>7. \A i \in 1..k : h[i] = IF i = 1 THEN parts[i] ELSE h[i - 1] \o parts[i]
  <2> TAKE i \in 1..k
  <2>1. i # 1 => i - 1 \in 1..(k - 1)
    BY <1>3
  <2>2. i # 1 => h[i - 1] = g[i - 1]
    BY <1>5, <2>1
  <2>3. CASE i = k
    <3> HIDE DEF h
    <3> QED BY <1>5, <2>2, <2>3
  <2>4. CASE i # k
    <3>1. i \in 1..(k - 1)
      BY <1>3, <2>4
    <3> HIDE DEF h
    <3> QED BY <1>5, <1>6, <2>2, <3>1
  <2> QED BY <2>3, <2>4
<1>8. h = Step(k, h)
  <2> HIDE DEF h
  <2> QED BY <1>5, <1>7
<1> QED BY <1>3, <1>8

\* Increasing parts, each beyond those before it, make an increasing whole.
LEMMA Flattened ==
    ASSUME NEW n \in Nat, NEW parts \in [1..n -> Seq(Nat)],
           \A i \in 1..n : Increasing(parts[i]),
           \A i, k \in 1..n : i < k => \A x \in Members(parts[i]), y \in Members(parts[k]) : x < y
    PROVE  /\ FlattenSeq(parts) \in Seq(Nat) /\ Increasing(FlattenSeq(parts))
           /\ Members(FlattenSeq(parts)) = UNION {Members(parts[i]) : i \in 1..n}
<1> DEFINE U == CHOOSE g : g = [i \in 1..n |-> IF i = 1 THEN parts[i] ELSE g[i - 1] \o parts[i]]
           Upto(i) == UNION {Members(parts[k]) : k \in 1..i}
           Good(i) == /\ U[i] \in Seq(Nat) /\ Increasing(U[i])
                      /\ Members(U[i]) = Upto(i)
<1>1. Len(parts) = n /\ parts \in Seq(Seq(Nat))
  OBVIOUS
<1>2. n # 0 => FlattenSeq(parts) = U[n]
  BY <1>1 DEF FlattenSeq
<1>3. n = 0 => FlattenSeq(parts) = <<>>
  BY <1>1 DEF FlattenSeq
<1>4. \A i \in 1..n : U[i] = IF i = 1 THEN parts[i] ELSE U[i - 1] \o parts[i]
  <2>1. U = [i \in 1..n |-> IF i = 1 THEN parts[i] ELSE U[i - 1] \o parts[i]]
    BY JoinExists
  <2> HIDE DEF U
  <2> QED BY <2>1
<1> HIDE DEF U
<1>5. \A i \in 1..n : Good(i)
  <2> DEFINE Bad == {i \in 1..n : ~Good(i)}
  <2> SUFFICES ASSUME Bad # {} PROVE FALSE
    OBVIOUS
  <2> HIDE DEF Good
  <2>1. PICK i \in Bad : \A y \in Bad : i <= y
    <3>1. Bad \in SUBSET Nat
      OBVIOUS
    <3> HIDE DEF Bad
    <3> QED BY <3>1, LeastNumber
  <2>2. i \in 1..n /\ ~Good(i)
    OBVIOUS
  <2>3. CASE i = 1
    <3>1. Upto(1) = Members(parts[1]) /\ U[1] = parts[1] /\ 1 \in 1..n
      BY <1>4, <2>2, <2>3
    <3> HIDE DEF Upto
    <3> QED BY <2>2, <2>3, <3>1 DEF Good
  <2>4. CASE i # 1
    <3>1. i - 1 \in 1..n /\ ~(i <= i - 1) /\ i \in Int
      BY <2>2, <2>4
    <3>2. Good(i - 1)
      BY <2>1, <3>1
    <3>3. U[i] = U[i - 1] \o parts[i]
      BY <1>4, <2>2, <2>4
    <3>4. \A x \in Upto(i - 1), y \in Members(parts[i]) : x < y
      <4> TAKE x \in Upto(i - 1), y \in Members(parts[i])
      <4>1. PICK k \in 1..(i - 1) : x \in Members(parts[k])
        OBVIOUS
      <4>2. k \in 1..n /\ k < i
        BY <2>2
      <4> QED BY <2>2, <4>1, <4>2
    <3>5. Upto(i) = Upto(i - 1) \cup Members(parts[i])
      <4>1. 1..i = (1..(i - 1)) \cup {i}
        BY <3>1, <2>2
      <4> QED BY <4>1
    <3> HIDE DEF Upto
    <3>6. parts[i] \in Seq(Nat) /\ Increasing(parts[i])
      BY <2>2
    <3>7. Good(i)
      BY <3>2, <3>3, <3>4, <3>5, <3>6, Joined DEF Good
    <3> QED BY <2>2, <3>7
  <2> QED BY <2>3, <2>4
<1>6. CASE n = 0
  <2>1. Members(<<>>) = {} /\ Increasing(<<>>) /\ <<>> \in Seq(Nat)
    BY DEF Members, Increasing
  <2>2. Upto(n) = {}
    BY <1>6
  <2> QED BY <1>3, <1>6, <2>1, <2>2
<1>7. CASE n # 0
  <2>1. n \in 1..n
    BY <1>7
  <2> QED BY <1>2, <1>5, <1>7, <2>1
<1> QED BY <1>6, <1>7

-----------------------------------------------------------------------------
(* Writing.                                                                  *)

Write == [run : Run, stream : Stream, n : Nat \ {0}] \cup {LineEnd}

LogTypes ==
    /\ day \in Day
    /\ files \in [Day -> Seq(Write)]
    /\ printed \in [Run -> [Stream -> Nat]]
    /\ held \in [Run -> [Stream -> [n : Nat, date : 0 .. MaxDay]]]
    /\ lock \in [Run -> Stream \cup {Nobody}]
    /\ current \in [Run -> 0 .. MaxDay]

\* The records of stream s of run r, and where a file has them.
RecordsOf(r, s) == {w \in Write : w.run = r /\ w.stream = s}
Records(f, r, s) == {i \in 1..Len(f) : f[i] \in RecordsOf(r, s)}

\* How many of the stream's lines are in the files.
Written(r, s) == printed[r][s] - (IF held[r][s] = Nothing \/ lock[r] = s THEN 0 ELSE 1)

\* The line a drain thread holds is the last one printed, and while the thread has the
\* writer its record is in the file that is open.
Holding(r, s) ==
    /\ held[r][s] # Nothing => held[r][s].n = printed[r][s] /\ held[r][s].n # 0
                                 /\ held[r][s].date \in 1..day
    /\ lock[r] = s => /\ held[r][s] # Nothing /\ current[r] = held[r][s].date
                      /\ \E i : i \in Records(files[current[r]], r, s)

\* The files hold the stream's lines from the first to the last written, in order, and
\* on no later day than the line that comes next.
InOrderOf(r, s) ==
    /\ \A d \in Day : \A i : i \in Records(files[d], r, s) =>
         /\ files[d][i].n \in 1..Written(r, s)
         /\ d <= day /\ (held[r][s] # Nothing => d <= held[r][s].date)
    /\ \A d, e \in Day : \A i, k :
         i \in Records(files[d], r, s) /\ k \in Records(files[e], r, s) /\ (d < e \/ (d = e /\ i < k))
           => files[d][i].n < files[e][k].n
    /\ \A n \in 1..Written(r, s) :
         \E d \in Day : \E i : i \in Records(files[d], r, s) /\ files[d][i].n = n

\* Where only r writes, records and line ends take turns, and a record is without its
\* line end only while a thread of r has the writer.
OnlyBy(f, r) == \A i \in 1..Len(f) : f[i].run \in {r, "none"}
Alternates(f) == \A i \in 1..Len(f) : f[i].run = "none" <=> i % 2 = 0
TakeTurns(r, d) ==
    OnlyBy(files[d], r) =>
        /\ Alternates(files[d])
        /\ Len(files[d]) % 2 = 1 <=> lock[r] # Nobody /\ current[r] = d

LogInv ==
    /\ LogTypes
    /\ \A r \in Run, s \in Stream : Holding(r, s) /\ InOrderOf(r, s)
    /\ \A r \in Run, d \in Day : TakeTurns(r, d)

\* One more write at the end of a day's file.
LEMMA OneMoreWrite ==
    ASSUME LogTypes, NEW D \in Day, NEW w \in Write, files' = [files EXCEPT ![D] = Append(@, w)]
    PROVE  /\ files' \in [Day -> Seq(Write)]
           /\ \A d \in Day : d # D => files'[d] = files[d]
           /\ Len(files[D]) \in Nat /\ Len(files'[D]) = Len(files[D]) + 1
           /\ files'[D][Len(files[D]) + 1] = w
           /\ \A i \in 1..Len(files[D]) : files'[D][i] = files[D][i]
<1>1. files[D] \in Seq(Write) /\ files \in [Day -> Seq(Write)]
  BY DEF LogTypes
<1>2. Append(files[D], w) \in Seq(Write) /\ files'[D] = Append(files[D], w)
  BY <1>1
<1> QED BY <1>1, <1>2

\* The records there are stay.
LEMMA RecordsStay ==
    ASSUME LogTypes, NEW D \in Day, NEW w \in Write, files' = [files EXCEPT ![D] = Append(@, w)],
           NEW r \in Run, NEW s \in Stream, NEW d \in Day, NEW i \in Records(files[d], r, s)
    PROVE  i \in Records(files'[d], r, s) /\ files'[d][i] = files[d][i]
<1>1. CASE d = D
  BY <1>1, OneMoreWrite DEF Records
<1>2. CASE d # D
  BY <1>2 DEF LogTypes
<1> QED BY <1>1, <1>2

\* The records of a stream the write is not of are where they were.
LEMMA OtherRecords ==
    ASSUME LogTypes, NEW D \in Day, NEW w \in Write, files' = [files EXCEPT ![D] = Append(@, w)],
           NEW r \in Run, NEW s \in Stream, NEW d \in Day, w \notin RecordsOf(r, s)
    PROVE  Records(files'[d], r, s) = Records(files[d], r, s)
<1>1. CASE d = D
  <2>1. /\ Len(files[D]) \in Nat /\ Len(files'[D]) = Len(files[D]) + 1
        /\ files'[D][Len(files[D]) + 1] = w
        /\ \A k \in 1..Len(files[D]) : files'[D][k] = files[D][k]
    BY OneMoreWrite
  <2>2. 1..Len(files'[D]) = 1..Len(files[D]) \cup {Len(files[D]) + 1}
    BY <2>1
  <2> QED BY <1>1, <2>1, <2>2 DEF Records
<1>2. CASE d # D
  BY <1>2 DEF LogTypes
<1> QED BY <1>1, <1>2

\* A stream that the write is not of, and of which nothing else changes.
LEMMA OthersStay ==
    ASSUME LogTypes, NEW D \in Day, NEW w \in Write, files' = [files EXCEPT ![D] = Append(@, w)],
           NEW r \in Run, NEW s \in Stream, w \notin RecordsOf(r, s),
           InOrderOf(r, s), Written(r, s)' = Written(r, s),
           day' = day, held'[r][s] = held[r][s] \/ held'[r][s] = Nothing
    PROVE  InOrderOf(r, s)'
<1>1. ASSUME NEW d \in Day, NEW i
      PROVE  /\ i \in Records(files'[d], r, s) <=> i \in Records(files[d], r, s)
             /\ i \in Records(files[d], r, s) => files'[d][i] = files[d][i]
  <2>1. Records(files'[d], r, s) = Records(files[d], r, s)
    BY OtherRecords
  <2>2. i \in Records(files[d], r, s) => files'[d][i] = files[d][i]
    BY RecordsStay
  <2> QED BY <2>1, <2>2
<1>2. ASSUME NEW d \in Day, NEW i, i \in Records(files'[d], r, s)
      PROVE  /\ files'[d][i].n \in 1..Written(r, s)'
             /\ d <= day' /\ (held'[r][s] # Nothing => d <= held'[r][s].date)
  BY <1>1, <1>2 DEF InOrderOf
<1>3. ASSUME NEW d \in Day, NEW e \in Day, NEW i, NEW k,
             i \in Records(files'[d], r, s), k \in Records(files'[e], r, s),
             d < e \/ (d = e /\ i < k)
      PROVE  files'[d][i].n < files'[e][k].n
  <2>1. i \in Records(files[d], r, s) /\ k \in Records(files[e], r, s)
    BY <1>1, <1>3
  <2>2. files[d][i].n < files[e][k].n
    BY <1>3, <2>1, Zenon DEF InOrderOf
  <2> QED BY <1>1, <2>1, <2>2
<1>4. ASSUME NEW n \in 1..Written(r, s)'
      PROVE  \E d \in Day : \E i : i \in Records(files'[d], r, s) /\ files'[d][i].n = n
  <2>1. PICK d \in Day : \E i : i \in Records(files[d], r, s) /\ files[d][i].n = n
    BY DEF InOrderOf
  <2>2. PICK i : i \in Records(files[d], r, s) /\ files[d][i].n = n
    BY <2>1
  <2>3. i \in Records(files'[d], r, s) /\ files'[d][i].n = n
    BY <1>1, <2>2
  <2> QED BY <2>3
<1> QED BY <1>2, <1>3, <1>4, Zenon DEF InOrderOf

-----------------------------------------------------------------------------
(* The steps.                                                                *)

\* What appending a record changes: the file of the record's own date.
LEMMA AppendsRecord ==
    ASSUME LogInv, NEW r \in Run, NEW s \in Stream, AppendRecord(r, s)
    PROVE  LET D == held[r][s].date
               w == [run |-> r, stream |-> s, n |-> held[r][s].n]
           IN /\ held[r][s] # Nothing /\ lock[r] = Nobody /\ D \in Day /\ D \in 1..day
              /\ w \in Write /\ held[r][s].n = printed[r][s]
              /\ files' = [files EXCEPT ![D] = Append(@, w)]
              /\ lock' = [lock EXCEPT ![r] = s] /\ current' = [current EXCEPT ![r] = D]
              /\ UNCHANGED <<day, printed, held>>
<1>1. /\ held[r][s] # Nothing /\ lock[r] = Nobody
      /\ held[r][s].n = printed[r][s] /\ held[r][s].n # 0 /\ held[r][s].date \in 1..day
  BY DEF AppendRecord, LogInv, Holding
<1>2. held[r][s].n \in Nat /\ day \in 1..MaxDay /\ MaxDay \in Nat
  BY LogAssumption DEF LogInv, LogTypes, Day
<1>3. held[r][s].date \in Day
  BY <1>1, <1>2 DEF Day
<1>4. [run |-> r, stream |-> s, n |-> held[r][s].n] \in Write
  BY <1>1, <1>2 DEF Write
<1> QED BY <1>1, <1>3, <1>4 DEF AppendRecord

\* What appending its line end changes: the same file.
LEMMA AppendsLineEnd ==
    ASSUME LogInv, NEW r \in Run, NEW s \in Stream, AppendLineEnd(r, s)
    PROVE  LET D == current[r]
           IN /\ lock[r] = s /\ held[r][s] # Nothing /\ D = held[r][s].date
              /\ D \in Day /\ LineEnd \in Write
              /\ \E i : i \in Records(files[D], r, s)
              /\ files' = [files EXCEPT ![D] = Append(@, LineEnd)]
              /\ held' = [held EXCEPT ![r][s] = Nothing] /\ lock' = [lock EXCEPT ![r] = Nobody]
              /\ UNCHANGED <<day, printed, current>>
<1>1. /\ lock[r] = s /\ held[r][s] # Nothing /\ current[r] = held[r][s].date
      /\ held[r][s].date \in 1..day /\ \E i : i \in Records(files[current[r]], r, s)
  BY DEF AppendLineEnd, LogInv, Holding
<1>2. day \in 1..MaxDay /\ MaxDay \in Nat
  BY LogAssumption DEF LogInv, LogTypes, Day
<1>3. current[r] \in Day
  BY <1>1, <1>2 DEF Day
<1>4. LineEnd \in Write
  BY DEF Write
<1> QED BY <1>1, <1>3, <1>4 DEF AppendLineEnd

\* Every step keeps the types.
LEMMA LogTypesKept ==
    ASSUME LogInv, [Next]_vars
    PROVE  LogTypes'
<1>0. /\ LogTypes /\ MaxDay \in Nat \ {0} /\ day \in 1..MaxDay
      /\ files \in [Day -> Seq(Write)] /\ printed \in [Run -> [Stream -> Nat]]
      /\ held \in [Run -> [Stream -> [n : Nat, date : 0 .. MaxDay]]]
      /\ lock \in [Run -> Stream \cup {Nobody}] /\ current \in [Run -> 0 .. MaxDay]
  BY LogAssumption DEF LogInv, LogTypes, Day
<1>1. CASE Midnight
  <2>1. day' \in Day
    BY <1>0, <1>1 DEF Midnight, Day
  <2> QED BY <1>0, <1>1, <2>1 DEF Midnight, LogTypes
<1>2. CASE \E r \in Run, s \in Stream : Stamp(r, s)
  <2>1. PICK r \in Run, s \in Stream : Stamp(r, s)
    BY <1>2
  <2> DEFINE h == [n |-> printed[r][s] + 1, date |-> day]
  <2>2. printed[r][s] + 1 \in Nat /\ h \in [n : Nat, date : 0 .. MaxDay]
    BY <1>0
  <2>3. /\ printed' = [printed EXCEPT ![r][s] = printed[r][s] + 1]
        /\ held' = [held EXCEPT ![r][s] = h]
        /\ UNCHANGED <<day, files, lock, current>>
    BY <2>1 DEF Stamp
  <2> HIDE DEF h
  <2> QED BY <1>0, <2>2, <2>3 DEF LogTypes
<1>3. CASE \E r \in Run, s \in Stream : AppendRecord(r, s)
  <2>1. PICK r \in Run, s \in Stream : AppendRecord(r, s)
    BY <1>3
  <2> DEFINE D == held[r][s].date
             w == [run |-> r, stream |-> s, n |-> held[r][s].n]
  <2>2. /\ D \in Day /\ w \in Write /\ files' = [files EXCEPT ![D] = Append(@, w)]
        /\ lock' = [lock EXCEPT ![r] = s] /\ current' = [current EXCEPT ![r] = D]
        /\ UNCHANGED <<day, printed, held>>
    BY <2>1, AppendsRecord
  <2> HIDE DEF D, w
  <2>3. files' \in [Day -> Seq(Write)]
    BY <1>0, <2>2, OneMoreWrite
  <2>4. D \in 0 .. MaxDay
    BY <1>0, <2>2 DEF Day
  <2>5. lock' \in [Run -> Stream \cup {Nobody}] /\ current' \in [Run -> 0 .. MaxDay]
    BY <1>0, <2>2, <2>4
  <2> QED BY <1>0, <2>2, <2>3, <2>5 DEF LogTypes
<1>4. CASE \E r \in Run, s \in Stream : AppendLineEnd(r, s)
  <2>1. PICK r \in Run, s \in Stream : AppendLineEnd(r, s)
    BY <1>4
  <2> DEFINE D == current[r]
  <2>2. /\ D \in Day /\ LineEnd \in Write /\ files' = [files EXCEPT ![D] = Append(@, LineEnd)]
        /\ held' = [held EXCEPT ![r][s] = Nothing] /\ lock' = [lock EXCEPT ![r] = Nobody]
        /\ UNCHANGED <<day, printed, current>>
    BY <2>1, AppendsLineEnd
  <2> HIDE DEF D
  <2>3. files' \in [Day -> Seq(Write)]
    BY <1>0, <2>2, OneMoreWrite
  <2>4. Nothing \in [n : Nat, date : 0 .. MaxDay]
    BY <1>0 DEF Nothing
  <2>5. lock' \in [Run -> Stream \cup {Nobody}]
        /\ held' \in [Run -> [Stream -> [n : Nat, date : 0 .. MaxDay]]]
    BY <1>0, <2>2, <2>4
  <2> QED BY <1>0, <2>2, <2>3, <2>5 DEF LogTypes
<1>5. CASE UNCHANGED vars
  BY <1>0, <1>5 DEF vars, LogTypes
<1> QED BY <1>1, <1>2, <1>3, <1>4, <1>5 DEF Next

\* What the invariant says of one stream.
LEMMA StreamFacts ==
    ASSUME LogInv, NEW r \in Run, NEW s \in Stream
    PROVE  /\ printed[r][s] \in Nat /\ held[r][s].n \in Nat /\ held[r][s].date \in Nat
           /\ Written(r, s) \in Int /\ day \in Nat /\ lock[r] \in Stream \cup {Nobody} /\ s # Nobody
           /\ Nobody \notin Stream /\ "none" \notin Run
           /\ Holding(r, s) /\ InOrderOf(r, s)
<1>1. /\ held[r][s] \in [n : Nat, date : 0 .. MaxDay] /\ printed[r][s] \in Nat
      /\ MaxDay \in Nat /\ day \in 1 .. MaxDay /\ lock[r] \in Stream \cup {Nobody}
  BY LogAssumption DEF LogInv, LogTypes, Day
<1>2. Written(r, s) \in Int
  BY <1>1 DEF Written
<1> QED BY <1>1, <1>2, LogAssumption DEF LogInv, Nobody

\* A record is the next of its stream, and of no other.
LEMMA StreamsAfterRecord ==
    ASSUME LogInv, NEW r \in Run, NEW s \in Stream, AppendRecord(r, s),
           NEW q \in Run, NEW t \in Stream
    PROVE  (Holding(q, t) /\ InOrderOf(q, t))'
<1> DEFINE D == held[r][s].date
           w == [run |-> r, stream |-> s, n |-> held[r][s].n]
           last == Len(files[D]) + 1
<1>1. /\ held[r][s] # Nothing /\ lock[r] = Nobody /\ D \in Day /\ D \in 1..day
      /\ w \in Write /\ held[r][s].n = printed[r][s]
      /\ files' = [files EXCEPT ![D] = Append(@, w)]
      /\ lock' = [lock EXCEPT ![r] = s] /\ current' = [current EXCEPT ![r] = D]
      /\ UNCHANGED <<day, printed, held>>
  BY AppendsRecord
<1>2. LogTypes /\ lock \in [Run -> Stream \cup {Nobody}] /\ current \in [Run -> 0 .. MaxDay]
  BY DEF LogInv, LogTypes
<1>3. /\ printed[r][s] \in Nat /\ Written(r, s) \in Int /\ s # Nobody
      /\ Holding(r, s) /\ InOrderOf(r, s) /\ day \in Nat
  BY StreamFacts
<1>4. Holding(q, t) /\ InOrderOf(q, t)
  BY StreamFacts
<1>5. /\ w \in RecordsOf(r, s) /\ w.n = printed[r][s]
      /\ r # q \/ s # t => w \notin RecordsOf(q, t)
  BY <1>1 DEF RecordsOf
<1> HIDE DEF D, w
<1>7. CASE r = q /\ s = t
  <2>1. Len(files[D]) \in Nat /\ files'[D][last] = w
    BY <1>1, <1>2, OneMoreWrite
  <2>2. /\ Records(files'[D], r, s) = Records(files[D], r, s) \cup {last}
        /\ \A d \in Day : d # D => files'[d] = files[d]
        /\ \A d \in Day : \A i \in Records(files[d], r, s) : files'[d][i] = files[d][i]
    <3>1. Records(files'[D], r, s) = Records(files[D], r, s) \cup {last}
      <4>1. /\ Len(files[D]) \in Nat /\ Len(files'[D]) = last /\ files'[D][last] = w
            /\ \A k \in 1..Len(files[D]) : files'[D][k] = files[D][k]
        BY <1>1, <1>2, OneMoreWrite
      <4>2. 1..Len(files'[D]) = 1..Len(files[D]) \cup {last}
        BY <4>1
      <4> HIDE DEF last
      <4> QED BY <1>5, <4>1, <4>2 DEF Records
    <3>2. \A d \in Day : d # D => files'[d] = files[d]
      BY <1>1, <1>2, OneMoreWrite
    <3>3. \A d \in Day : \A i \in Records(files[d], r, s) :
            i \in Records(files'[d], r, s) /\ files'[d][i] = files[d][i]
      BY <1>1, <1>2, RecordsStay
    <3> QED BY <3>1, <3>2, <3>3
  <2>3. /\ Written(r, s) = printed[r][s] - 1 /\ Written(r, s)' = printed[r][s]
        /\ printed[r][s] \in Nat /\ lock'[r] = s /\ current'[r] = D
    BY <1>1, <1>2, <1>3 DEF Written
  <2>4. printed[r][s] # 0
    BY <1>1, <1>3 DEF Holding
  <2>5. Holding(r, s)'
    <3>1. last \in Records(files'[D], r, s)
      BY <1>1, <2>2
    <3>2. /\ held[r][s] # Nothing => held[r][s].n = printed[r][s] /\ held[r][s].n # 0
                                       /\ held[r][s].date \in 1..day
      BY <1>3 DEF Holding
    <3> QED BY <1>1, <2>3, <3>1, <3>2 DEF Holding, D
  <2>6. ASSUME NEW d \in Day, NEW i, i \in Records(files[d], r, s)
        PROVE  /\ files[d][i].n \in 1..(printed[r][s] - 1) /\ d <= day /\ d <= D
               /\ i \in 1..Len(files[d])
    BY <1>1, <1>3, <2>3, <2>6 DEF InOrderOf, Records, D
  <2>7. ASSUME NEW d \in Day, NEW i, i \in Records(files'[d], r, s)
        PROVE  files'[d][i].n \in 1..printed[r][s] /\ d <= day /\ d <= D
    <3>1. CASE i \in Records(files[d], r, s)
      <4>1. files'[d][i] = files[d][i]
        BY <2>2, <3>1
      <4>2. files[d][i].n \in 1..(printed[r][s] - 1) /\ d <= day /\ d <= D
        BY <2>6, <3>1
      <4> QED BY <2>3, <4>1, <4>2
    <3>2. CASE d = D /\ i = last
      <4>1. files'[d][i].n = printed[r][s]
        BY <1>5, <2>1, <3>2
      <4>2. D \in Int /\ D <= day
        BY <1>1, <1>3
      <4> QED BY <2>3, <2>4, <3>2, <4>1, <4>2
    <3> QED BY <2>2, <2>7, <3>1, <3>2
  <2>8. ASSUME NEW d \in Day, NEW e \in Day, NEW i, NEW k,
               i \in Records(files'[d], r, s), k \in Records(files'[e], r, s),
               d < e \/ (d = e /\ i < k)
        PROVE  files'[d][i].n < files'[e][k].n
    <3>1. CASE i \in Records(files[d], r, s) /\ k \in Records(files[e], r, s)
      <4>1. files[d][i].n < files[e][k].n
        BY <1>3, <2>8, <3>1, Zenon DEF InOrderOf
      <4> QED BY <2>2, <3>1, <4>1
    <3>2. CASE i \in Records(files[d], r, s) /\ e = D /\ k = last
      <4>1. files'[d][i].n \in 1..(printed[r][s] - 1) /\ files'[e][k].n = printed[r][s]
        BY <1>5, <2>1, <2>2, <2>6, <3>2
      <4> QED BY <2>3, <4>1
    <3>3. CASE d = D /\ i = last
      <4>1. e \in Int /\ D \in Int /\ d \in Int
        BY <1>1, LogAssumption DEF Day
      <4>2. CASE e = D /\ k = last
        BY <2>1, <2>8, <3>3, <4>1, <4>2
      <4>3. CASE k \in Records(files[e], r, s)
        <5>1. e <= D /\ k \in 1..Len(files[e])
          BY <2>6, <4>3
        <5> QED BY <2>1, <2>8, <3>3, <4>1, <5>1
      <4> QED BY <2>2, <2>8, <4>2, <4>3
    <3> QED BY <2>2, <2>8, <3>1, <3>2, <3>3
  <2>9. ASSUME NEW n \in 1..printed[r][s]
        PROVE  \E d \in Day : \E i : i \in Records(files'[d], r, s) /\ files'[d][i].n = n
    <3>1. CASE n = printed[r][s]
      <4>1. last \in Records(files'[D], r, s) /\ files'[D][last].n = n
        BY <1>5, <2>1, <2>2, <3>1
      <4> QED BY <1>1, <4>1
    <3>2. CASE n # printed[r][s]
      <4>1. n \in 1..Written(r, s)
        BY <2>3, <3>2
      <4>2. PICK d \in Day : \E i : i \in Records(files[d], r, s) /\ files[d][i].n = n
        BY <1>3, <4>1 DEF InOrderOf
      <4>3. PICK i : i \in Records(files[d], r, s) /\ files[d][i].n = n
        BY <4>2
      <4> QED BY <2>2, <4>3
    <3> QED BY <3>1, <3>2
  <2>10. InOrderOf(r, s)'
    BY <1>1, <2>3, <2>7, <2>8, <2>9, Zenon DEF InOrderOf, D
  <2> QED BY <1>7, <2>5, <2>10
<1>8. CASE r # q \/ s # t
  <2>1. Written(q, t)' = Written(q, t)
    <3>1. CASE r # q
      BY <1>1, <1>2, <3>1 DEF Written
    <3>2. CASE r = q /\ s # t
      <4>1. lock'[q] = s /\ lock[q] = Nobody /\ t # Nobody
        BY <1>1, <1>2, <3>2, StreamFacts
      <4> QED BY <1>1, <1>8, <3>2, <4>1 DEF Written
    <3> QED BY <1>8, <3>1, <3>2
  <2>2. InOrderOf(q, t)'
    BY <1>1, <1>2, <1>4, <1>5, <1>8, <2>1, OthersStay
  <2>3. Holding(q, t)'
    <3>1. lock'[q] = t => q # r /\ lock[q] = t /\ current'[q] = current[q]
      BY <1>1, <1>2, <1>8
    <3>2. ASSUME lock[q] = t
          PROVE  \E i : i \in Records(files'[current[q]], q, t)
      <4>1. current[q] \in Day
        <5>1. held[q][t] # Nothing /\ current[q] = held[q][t].date /\ held[q][t].date \in 1..day
          BY <1>4, <3>2 DEF Holding
        <5> QED BY <1>2, <5>1, LogAssumption DEF LogTypes, Day
      <4>2. PICK i : i \in Records(files[current[q]], q, t)
        BY <1>4, <3>2 DEF Holding
      <4>3. \A d \in Day : \A k \in Records(files[d], q, t) : k \in Records(files'[d], q, t)
        BY <1>1, <1>2, RecordsStay
      <4> QED BY <4>1, <4>2, <4>3
    <3> QED BY <1>1, <1>4, <3>1, <3>2 DEF Holding
  <2> QED BY <2>2, <2>3
<1> QED BY <1>7, <1>8

\* A line end is of no stream.
LEMMA StreamsAfterLineEnd ==
    ASSUME LogInv, NEW r \in Run, NEW s \in Stream, AppendLineEnd(r, s),
           NEW q \in Run, NEW t \in Stream
    PROVE  (Holding(q, t) /\ InOrderOf(q, t))'
<1> DEFINE D == current[r]
<1>1. /\ lock[r] = s /\ held[r][s] # Nothing /\ D \in Day /\ LineEnd \in Write
      /\ files' = [files EXCEPT ![D] = Append(@, LineEnd)]
      /\ held' = [held EXCEPT ![r][s] = Nothing] /\ lock' = [lock EXCEPT ![r] = Nobody]
      /\ UNCHANGED <<day, printed, current>>
  BY AppendsLineEnd
<1>2. /\ LogTypes /\ lock \in [Run -> Stream \cup {Nobody}]
      /\ held \in [Run -> [Stream -> [n : Nat, date : 0 .. MaxDay]]]
      /\ day \in 1..MaxDay /\ MaxDay \in Nat
  BY LogAssumption DEF LogInv, LogTypes, Day
<1>3. Holding(q, t) /\ InOrderOf(q, t) /\ s # Nobody /\ t # Nobody
  BY StreamFacts
<1>4. LineEnd \notin RecordsOf(q, t)
  BY LogAssumption DEF LineEnd, RecordsOf
<1> HIDE DEF D
<1>5. held'[q][t] = held[q][t] \/ (q = r /\ t = s /\ held'[q][t] = Nothing)
  BY <1>1, <1>2
<1>6. lock'[q] = t => q # r /\ lock[q] = t
  BY <1>1, <1>2, <1>3
<1>7. Written(q, t)' = Written(q, t)
  <2>1. CASE q = r /\ t = s
    BY <1>1, <1>2, <2>1 DEF Written
  <2>2. CASE q # r \/ t # s
    <3>1. held'[q][t] = held[q][t] /\ (lock'[q] = t <=> lock[q] = t)
      BY <1>1, <1>2, <1>3, <2>2
    <3> QED BY <1>1, <3>1 DEF Written
  <2> QED BY <2>1, <2>2
<1>8. InOrderOf(q, t)'
  BY <1>1, <1>2, <1>3, <1>4, <1>5, <1>7, OthersStay
<1>9. Holding(q, t)'
  <2>1. \A d \in Day : \A i \in Records(files[d], q, t) :
          i \in Records(files'[d], q, t) /\ files'[d][i] = files[d][i]
    BY <1>1, <1>2, RecordsStay
  <2>2. ASSUME lock'[q] = t
        PROVE  /\ held'[q][t] # Nothing /\ current'[q] = held'[q][t].date
               /\ \E i : i \in Records(files'[current'[q]], q, t)
    <3>1. /\ held[q][t] # Nothing /\ current[q] = held[q][t].date /\ held[q][t].date \in 1..day
          /\ \E i : i \in Records(files[current[q]], q, t)
      BY <1>3, <1>6, <2>2 DEF Holding
    <3>2. current[q] \in Day
      BY <1>2, <3>1 DEF Day
    <3> QED BY <1>1, <1>5, <1>6, <2>1, <2>2, <3>1, <3>2
  <2>3. held'[q][t] # Nothing => held'[q][t].n = printed'[q][t] /\ held'[q][t].n # 0
                                   /\ held'[q][t].date \in 1..day'
    BY <1>1, <1>3, <1>5 DEF Holding
  <2> QED BY <2>2, <2>3 DEF Holding
<1> QED BY <1>8, <1>9

\* A stamped line comes after all that are written.
LEMMA StreamsAfterStamp ==
    ASSUME LogInv, NEW r \in Run, NEW s \in Stream, Stamp(r, s),
           NEW q \in Run, NEW t \in Stream
    PROVE  (Holding(q, t) /\ InOrderOf(q, t))'
<1> DEFINE h == [n |-> printed[r][s] + 1, date |-> day]
<1>1. /\ held[r][s] = Nothing /\ printed' = [printed EXCEPT ![r][s] = printed[r][s] + 1]
      /\ held' = [held EXCEPT ![r][s] = h] /\ UNCHANGED <<day, files, lock, current>>
  BY DEF Stamp
<1>2. /\ held \in [Run -> [Stream -> [n : Nat, date : 0 .. MaxDay]]]
      /\ printed \in [Run -> [Stream -> Nat]]
      /\ day \in 1..MaxDay /\ MaxDay \in Nat
  BY LogAssumption DEF LogInv, LogTypes, Day
<1>3. Holding(q, t) /\ InOrderOf(q, t) /\ Holding(r, s)
  BY StreamFacts
<1>4. /\ h.n = printed[r][s] + 1 /\ h.date = day /\ h # Nothing /\ printed[r][s] \in Nat
  BY <1>2 DEF Nothing
<1> HIDE DEF h
<1>5. CASE q = r /\ t = s
  <2>1. held'[q][t] = h /\ printed'[q][t] = printed[r][s] + 1 /\ lock[q] # t
    BY <1>1, <1>2, <1>3, <1>5 DEF Holding
  <2>2. Written(q, t)' = Written(q, t)
    BY <1>1, <1>4, <1>5, <2>1 DEF Written
  <2>3. \A d \in Day : \A i : i \in Records(files[d], q, t) => d <= held'[q][t].date
    BY <1>3, <1>4, <2>1 DEF InOrderOf
  <2>4. InOrderOf(q, t)'
    BY <1>1, <1>3, <2>2, <2>3 DEF InOrderOf
  <2>5. Holding(q, t)'
    BY <1>1, <1>2, <1>4, <2>1 DEF Holding
  <2> QED BY <2>4, <2>5
<1>6. CASE q # r \/ t # s
  <2>1. held'[q][t] = held[q][t] /\ printed'[q][t] = printed[q][t]
    BY <1>1, <1>2, <1>6
  <2>2. Written(q, t)' = Written(q, t)
    BY <1>1, <2>1 DEF Written
  <2>3. InOrderOf(q, t)'
    BY <1>1, <1>3, <2>1, <2>2 DEF InOrderOf
  <2>4. Holding(q, t)'
    BY <1>1, <1>3, <2>1 DEF Holding
  <2> QED BY <2>3, <2>4
<1> QED BY <1>5, <1>6

\* The clock only moves on.
LEMMA StreamsAfterMidnight ==
    ASSUME LogInv, Midnight, NEW q \in Run, NEW t \in Stream
    PROVE  (Holding(q, t) /\ InOrderOf(q, t))'
<1>1. day' = day + 1 /\ UNCHANGED <<files, printed, held, lock, current>>
  BY DEF Midnight
<1>2. Holding(q, t) /\ InOrderOf(q, t) /\ day \in Nat /\ held[q][t].date \in Nat
  BY StreamFacts
<1>3. Written(q, t)' = Written(q, t)
  BY <1>1 DEF Written
<1>4. Holding(q, t)'
  BY <1>1, <1>2 DEF Holding
<1>5. \A d \in Day : \A i : i \in Records(files[d], q, t) => d <= day'
  <2>1. \A d \in Day : d \in Nat
    BY LogAssumption DEF Day
  <2> QED BY <1>1, <1>2, <2>1 DEF InOrderOf
<1>6. InOrderOf(q, t)'
  BY <1>1, <1>2, <1>3, <1>5 DEF InOrderOf
<1> QED BY <1>4, <1>6

\* Records and line ends go on taking turns with one more write.
LEMMA OneMoreTurn ==
    ASSUME LogTypes, NEW D \in Day, NEW w \in Write, files' = [files EXCEPT ![D] = Append(@, w)],
           NEW r \in Run, OnlyBy(files'[D], r)
    PROVE  /\ OnlyBy(files[D], r) /\ w.run \in {r, "none"}
           /\ Alternates(files[D]) /\ (w.run = "none" <=> Len(files[D]) % 2 = 1)
                => Alternates(files'[D])
           /\ Len(files'[D]) % 2 = 1 <=> Len(files[D]) % 2 # 1
<1> DEFINE m == Len(files[D])
<1>1. /\ m \in Nat /\ Len(files'[D]) = m + 1 /\ files'[D][m + 1] = w
      /\ \A k \in 1..m : files'[D][k] = files[D][k]
  BY OneMoreWrite
<1> HIDE DEF m
<1>2. /\ \A k \in 1..m : k \in 1..(m + 1)
      /\ m + 1 \in 1..(m + 1) /\ \A k \in 1..(m + 1) : k \in 1..m \/ k = m + 1
  BY <1>1
<1>3. OnlyBy(files[D], r) /\ w.run \in {r, "none"}
  BY <1>1, <1>2 DEF OnlyBy, m
<1>4. (m + 1) % 2 = 1 <=> m % 2 # 1
  BY <1>1
<1>5. (m + 1) % 2 = 0 <=> m % 2 = 1
  BY <1>1
<1>6. ASSUME Alternates(files[D]), w.run = "none" <=> m % 2 = 1
      PROVE  Alternates(files'[D])
  <2> SUFFICES ASSUME NEW k \in 1..(m + 1) PROVE files'[D][k].run = "none" <=> k % 2 = 0
    BY <1>1 DEF Alternates
  <2>1. CASE k \in 1..m
    BY <1>1, <1>6, <2>1 DEF Alternates, m
  <2>2. CASE k = m + 1
    BY <1>1, <1>5, <1>6, <2>2
  <2> QED BY <1>2, <2>1, <2>2
<1> QED BY <1>1, <1>3, <1>4, <1>6 DEF m

\* A record of r follows a line end, since nobody had r's writer.
LEMMA TurnsAfterRecord ==
    ASSUME LogInv, NEW r \in Run, NEW s \in Stream, AppendRecord(r, s),
           NEW q \in Run, NEW d \in Day
    PROVE  TakeTurns(q, d)'
<1> DEFINE D == held[r][s].date
           w == [run |-> r, stream |-> s, n |-> held[r][s].n]
<1>1. /\ lock[r] = Nobody /\ D \in Day /\ w \in Write
      /\ files' = [files EXCEPT ![D] = Append(@, w)]
      /\ lock' = [lock EXCEPT ![r] = s] /\ current' = [current EXCEPT ![r] = D]
  BY AppendsRecord
<1>2. w.run = r /\ r # "none" /\ s # Nobody
  BY StreamFacts
<1> HIDE DEF D, w
<1>3. LogTypes /\ lock \in [Run -> Stream \cup {Nobody}] /\ current \in [Run -> 0 .. MaxDay]
  BY DEF LogInv, LogTypes
<1>4. TakeTurns(q, d)
  BY DEF LogInv
<1>5. CASE d = D
  <2> SUFFICES ASSUME OnlyBy(files'[D], q)
               PROVE  /\ Alternates(files'[D])
                      /\ Len(files'[D]) % 2 = 1 <=> lock'[q] # Nobody /\ current'[q] = D
    BY <1>1, <1>5, Zenon DEF TakeTurns
  <2>1. /\ OnlyBy(files[D], q) /\ w.run \in {q, "none"}
        /\ Alternates(files[D]) /\ (w.run = "none" <=> Len(files[D]) % 2 = 1)
             => Alternates(files'[D])
        /\ Len(files'[D]) % 2 = 1 <=> Len(files[D]) % 2 # 1
    BY <1>1, <1>3, OneMoreTurn
  <2>2. q = r
    BY <1>2, <2>1
  <2>3. Alternates(files[D]) /\ Len(files[D]) % 2 # 1
    BY <1>1, <1>4, <1>5, <2>1, <2>2 DEF TakeTurns
  <2> QED BY <1>1, <1>2, <1>3, <2>1, <2>2, <2>3
<1>6. CASE d # D
  <2>1. files'[d] = files[d]
    BY <1>1, <1>3, <1>6 DEF LogTypes
  <2>2. lock'[q] # Nobody /\ current'[q] = d <=> lock[q] # Nobody /\ current[q] = d
    BY <1>1, <1>3, <1>6
  <2> QED BY <1>4, <2>1, <2>2 DEF TakeTurns
<1> QED BY <1>5, <1>6

\* A line end of r follows its record, since its thread has the writer.
LEMMA TurnsAfterLineEnd ==
    ASSUME LogInv, NEW r \in Run, NEW s \in Stream, AppendLineEnd(r, s),
           NEW q \in Run, NEW d \in Day
    PROVE  TakeTurns(q, d)'
<1> DEFINE D == current[r]
<1>1. /\ lock[r] = s /\ D \in Day /\ LineEnd \in Write
      /\ \E i : i \in Records(files[D], r, s)
      /\ files' = [files EXCEPT ![D] = Append(@, LineEnd)]
      /\ lock' = [lock EXCEPT ![r] = Nobody] /\ UNCHANGED current
  BY AppendsLineEnd
<1>2. LineEnd.run = "none" /\ r # "none" /\ s # Nobody
  BY StreamFacts DEF LineEnd
<1>3. LogTypes /\ lock \in [Run -> Stream \cup {Nobody}] /\ current \in [Run -> 0 .. MaxDay]
  BY DEF LogInv, LogTypes
<1>4. TakeTurns(q, d)
  BY DEF LogInv
<1>5. CASE d = D
  <2> HIDE DEF D
  <2> SUFFICES ASSUME OnlyBy(files'[D], q)
               PROVE  /\ Alternates(files'[D])
                      /\ Len(files'[D]) % 2 = 1 <=> lock'[q] # Nobody /\ current'[q] = D
    BY <1>1, <1>5, Zenon DEF TakeTurns, D
  <2>1. /\ OnlyBy(files[D], q)
        /\ Alternates(files[D]) /\ (LineEnd.run = "none" <=> Len(files[D]) % 2 = 1)
             => Alternates(files'[D])
        /\ Len(files'[D]) % 2 = 1 <=> Len(files[D]) % 2 # 1
    BY <1>1, <1>3, OneMoreTurn
  <2>2. q = r
    BY <1>1, <1>2, <2>1 DEF OnlyBy, Records, RecordsOf
  <2>3. Alternates(files[D]) /\ Len(files[D]) % 2 = 1
    BY <1>1, <1>2, <1>4, <1>5, <2>1, <2>2 DEF TakeTurns, D
  <2> QED BY <1>1, <1>2, <1>3, <2>1, <2>2, <2>3
<1>6. CASE d # D
  <2>1. files'[d] = files[d]
    BY <1>1, <1>3, <1>6 DEF LogTypes
  <2>2. lock'[q] # Nobody /\ current'[q] = d <=> lock[q] # Nobody /\ current[q] = d
    BY <1>1, <1>2, <1>3, <1>6
  <2> QED BY <1>4, <2>1, <2>2 DEF TakeTurns
<1> QED BY <1>5, <1>6

\* The files hold the lines of every stream in order and complete up to the last
\* written, whatever the interleaving of the drain threads and of midnight.
THEOREM LinesInOrder == Spec => []LogInv
<1>1. Init => LogInv
  <2> SUFFICES ASSUME Init PROVE LogInv
    OBVIOUS
  <2>1. LogTypes
    <3>1. 1 \in Day /\ Nothing \in [n : Nat, date : 0 .. MaxDay] /\ 0 \in 0 .. MaxDay
      BY LogAssumption DEF Day, Nothing
    <3> QED BY <3>1 DEF Init, LogTypes
  <2>2. ASSUME NEW r \in Run, NEW s \in Stream PROVE Holding(r, s) /\ InOrderOf(r, s)
    <3>1. /\ held[r][s] = Nothing /\ lock[r] = Nobody /\ s # Nobody /\ printed[r][s] = 0
          /\ \A d \in Day : Records(files[d], r, s) = {}
      BY LogAssumption DEF Init, Nobody, Records
    <3>2. Written(r, s) = 0
      BY <3>1 DEF Written
    <3>3. 1..Written(r, s) = {}
      BY <3>2
    <3>4. Holding(r, s)
      BY <3>1 DEF Holding
    <3>5. InOrderOf(r, s)
      BY <3>1, <3>3 DEF InOrderOf
    <3> QED BY <3>4, <3>5
  <2>3. ASSUME NEW r \in Run, NEW d \in Day PROVE TakeTurns(r, d)
    <3>1. files[d] = <<>> /\ lock[r] = Nobody
      BY DEF Init
    <3>2. Len(files[d]) = 0 /\ 1..Len(files[d]) = {} /\ Len(files[d]) % 2 # 1
      BY <3>1
    <3>3. Alternates(files[d])
      BY <3>2 DEF Alternates
    <3> QED BY <3>1, <3>2, <3>3 DEF TakeTurns
  <2> QED BY <2>1, <2>2, <2>3 DEF LogInv
<1>2. LogInv /\ [Next]_vars => LogInv'
  <2> SUFFICES ASSUME LogInv, [Next]_vars PROVE LogInv'
    OBVIOUS
  <2>1. LogTypes'
    BY LogTypesKept
  <2>2. ASSUME NEW q \in Run, NEW t \in Stream PROVE (Holding(q, t) /\ InOrderOf(q, t))'
    <3>1. CASE Midnight
      BY <3>1, StreamsAfterMidnight
    <3>2. CASE \E r \in Run, s \in Stream : Stamp(r, s)
      BY <3>2, StreamsAfterStamp
    <3>3. CASE \E r \in Run, s \in Stream : AppendRecord(r, s)
      BY <3>3, StreamsAfterRecord
    <3>4. CASE \E r \in Run, s \in Stream : AppendLineEnd(r, s)
      BY <3>4, StreamsAfterLineEnd
    <3>5. CASE UNCHANGED vars
      <4>1. Holding(q, t) /\ InOrderOf(q, t)
        BY StreamFacts
      <4>2. (Holding(q, t) /\ InOrderOf(q, t))' <=> Holding(q, t) /\ InOrderOf(q, t)
        BY <3>5 DEF vars, Holding, InOrderOf, Written
      <4> QED BY <4>1, <4>2
    <3> QED BY <3>1, <3>2, <3>3, <3>4, <3>5 DEF Next
  <2>3. ASSUME NEW q \in Run, NEW d \in Day PROVE TakeTurns(q, d)'
    <3>1. CASE \E r \in Run, s \in Stream : AppendRecord(r, s)
      BY <3>1, TurnsAfterRecord
    <3>2. CASE \E r \in Run, s \in Stream : AppendLineEnd(r, s)
      BY <3>2, TurnsAfterLineEnd
    <3>3. CASE UNCHANGED <<files, lock, current>>
      <4>1. TakeTurns(q, d)
        BY DEF LogInv
      <4> QED BY <3>3, <4>1 DEF TakeTurns
    <3>4. \/ UNCHANGED <<files, lock, current>>
          \/ \E r \in Run, s \in Stream : AppendRecord(r, s) \/ AppendLineEnd(r, s)
      BY DEF Next, Midnight, Stamp, vars
    <3> QED BY <3>1, <3>2, <3>3, <3>4
  <2> QED BY <2>1, <2>2, <2>3, Zenon DEF LogInv, Day
<1> QED BY <1>1, <1>2, PTL DEF Spec

-----------------------------------------------------------------------------
(* The reader.                                                               *)

\* An increasing sequence of all the numbers from 1 to N is N long.
LEMMA AsLongAsItsMembers ==
    ASSUME NEW N \in Nat, NEW q \in Seq(Nat), Increasing(q), Members(q) = 1..N
    PROVE  Len(q) = N
<1> DEFINE L == Len(q)
<1>1. L \in Nat /\ q \in [1..L -> Nat] /\ \A i \in 1..L : q[i] \in 1..N
  BY DEF Members
<1>2. \A y \in 1..N : \E i \in 1..L : q[i] = y
  BY DEF Members
<1>3. \A i, k \in 1..L : q[i] = q[k] => i = k
  <2> SUFFICES ASSUME NEW i \in 1..L, NEW k \in 1..L, q[i] = q[k], i < k PROVE FALSE
    BY <1>1
  <2>1. q[i] < q[k] /\ q[i] \in Nat /\ q[k] \in Nat
    BY <1>1 DEF Increasing
  <2> QED BY <2>1
<1> HIDE DEF L
<1>4. q \in [1..L -> 1..N]
  BY <1>1
<1>5. q \in Bijection(1..L, 1..N)
  BY <1>2, <1>3, <1>4 DEF Bijection, Injection, Surjection, IsInjective
<1>6. ExistsBijection(1..L, 1..N)
  BY <1>5 DEF ExistsBijection
<1>7. Cardinality(1..N) = L
  BY <1>1, <1>6, FS_CountingElements, Zenon
<1>8. Cardinality(1..N) = N
  <2>1. Cardinality(1..N) = IF 1 > N THEN 0 ELSE N - 1 + 1
    BY FS_Interval
  <2> QED BY <2>1
<1> QED BY <1>7, <1>8 DEF L

\* The records a reader sees as such: alone on their line.
WholeRecords(f, r, s) == {i \in Records(f, r, s) : Parses(f, i)}

\* A file is read record by record.
LEMMA FileIsRead ==
    ASSUME NEW f \in Seq(Write), NEW r \in Run, NEW s \in Stream,
           \A i, k \in Records(f, r, s) : i < k => f[i].n < f[k].n
    PROVE  /\ ReadFile(f, r, s) \in Seq(Nat) /\ Increasing(ReadFile(f, r, s))
           /\ Members(ReadFile(f, r, s)) = {f[i].n : i \in WholeRecords(f, r, s)}
<1> DEFINE m == Len(f)
           parts == [i \in 1..m |->
                       IF f[i].run = r /\ f[i].stream = s /\ Parses(f, i) THEN <<f[i].n>> ELSE <<>>]
           W == WholeRecords(f, r, s)
<1>1. m \in Nat /\ DOMAIN f = 1..m /\ \A i \in 1..m : f[i] \in Write /\ f[i].n \in Nat
  BY DEF Write, LineEnd
<1>2. W \subseteq 1..m /\ W \subseteq Records(f, r, s)
      /\ \A i \in 1..m : i \in W <=> f[i].run = r /\ f[i].stream = s /\ Parses(f, i)
  BY <1>1 DEF WholeRecords, Records, RecordsOf
<1> HIDE DEF W
<1>3. \A i \in 1..m : parts[i] = IF i \in W THEN <<f[i].n>> ELSE <<>>
  BY <1>2
<1>4. ReadFile(f, r, s) = FlattenSeq(parts)
  BY <1>1 DEF ReadFile
<1>5. parts = [i \in 1..m |-> parts[i]]
  OBVIOUS
<1> HIDE DEF m, parts
<1>6. \A x \in Nat : <<x>> \in Seq(Nat) /\ Members(<<x>>) = {x} /\ Increasing(<<x>>)
  BY DEF Members, Increasing
<1>7. <<>> \in Seq(Nat) /\ Members(<<>>) = {} /\ Increasing(<<>>)
  BY DEF Members, Increasing
<1>8. \A i \in 1..m : /\ parts[i] \in Seq(Nat) /\ Increasing(parts[i])
                      /\ Members(parts[i]) = IF i \in W THEN {f[i].n} ELSE {}
  BY <1>1, <1>3, <1>6, <1>7
<1>9. parts \in [1..m -> Seq(Nat)]
  BY <1>5, <1>8
<1>10. ASSUME NEW i \in 1..m, NEW k \in 1..m, i < k,
              NEW x \in Members(parts[i]), NEW y \in Members(parts[k])
       PROVE  x < y
  <2>1. i \in W /\ k \in W /\ x = f[i].n /\ y = f[k].n
    BY <1>8
  <2> QED BY <1>2, <1>10, <2>1
<1>11. /\ FlattenSeq(parts) \in Seq(Nat) /\ Increasing(FlattenSeq(parts))
       /\ Members(FlattenSeq(parts)) = UNION {Members(parts[i]) : i \in 1..m}
  <2>1. \A i, k \in 1..m : i < k => \A x \in Members(parts[i]), y \in Members(parts[k]) : x < y
    BY <1>10
  <2> QED BY <1>1, <1>8, <1>9, <2>1, Flattened
<1>12. UNION {Members(parts[i]) : i \in 1..m} = {f[i].n : i \in W}
  <2>1. ASSUME NEW i \in 1..m, NEW x \in Members(parts[i]) PROVE x \in {f[k].n : k \in W}
    BY <1>8, <2>1
  <2>2. ASSUME NEW i \in W PROVE f[i].n \in Members(parts[i]) /\ i \in 1..m
    BY <1>2, <1>8, <2>2
  <2> QED BY <2>1, <2>2
<1> QED BY <1>4, <1>11, <1>12 DEF W

\* The files are read one after the other.
LEMMA LogsAreRead ==
    ASSUME LogInv, NEW r \in Run, NEW s \in Stream
    PROVE  /\ ReadLogs(r, s) \in Seq(Nat) /\ Increasing(ReadLogs(r, s))
           /\ Members(ReadLogs(r, s)) =
                UNION {{files[d][i].n : i \in WholeRecords(files[d], r, s)} : d \in Day}
<1> DEFINE parts == [d \in Day |-> ReadFile(files[d], r, s)]
           R(d) == Records(files[d], r, s)
           W(d) == WholeRecords(files[d], r, s)
<1>1. /\ files \in [Day -> Seq(Write)] /\ Day = 1..MaxDay /\ MaxDay \in Nat
  BY LogAssumption DEF LogInv, LogTypes, Day
<1>2. \A d, e \in Day : \A i, k : i \in R(d) /\ k \in R(e) /\ (d < e \/ (d = e /\ i < k))
        => files[d][i].n < files[e][k].n
  BY DEF LogInv, InOrderOf
<1>3. ASSUME NEW d \in Day
      PROVE  /\ parts[d] \in Seq(Nat) /\ Increasing(parts[d])
             /\ Members(parts[d]) = {files[d][i].n : i \in W(d)}
  <2>1. \A i, k \in R(d) : i < k => files[d][i].n < files[d][k].n
    BY <1>2
  <2>2. files[d] \in Seq(Write) /\ parts[d] = ReadFile(files[d], r, s)
    BY <1>1
  <2> QED BY <2>1, <2>2, FileIsRead
<1>4. \A d \in Day : W(d) \subseteq R(d)
  BY DEF WholeRecords
<1>5. ReadLogs(r, s) = FlattenSeq(parts) /\ parts = [d \in Day |-> parts[d]]
  BY DEF ReadLogs
<1> HIDE DEF parts, R, W
<1>6. parts \in [1..MaxDay -> Seq(Nat)]
  BY <1>1, <1>3, <1>5
<1>7. ASSUME NEW d \in Day, NEW e \in Day, d < e,
             NEW x \in Members(parts[d]), NEW y \in Members(parts[e])
      PROVE  x < y
  <2>1. PICK i \in W(d) : x = files[d][i].n
    BY <1>3
  <2>2. PICK k \in W(e) : y = files[e][k].n
    BY <1>3
  <2>3. i \in R(d) /\ k \in R(e)
    BY <1>4
  <2> QED BY <1>2, <1>7, <2>1, <2>2, <2>3
<1>8. /\ FlattenSeq(parts) \in Seq(Nat) /\ Increasing(FlattenSeq(parts))
      /\ Members(FlattenSeq(parts)) = UNION {Members(parts[d]) : d \in 1..MaxDay}
  <2>1. \A d, e \in 1..MaxDay : d < e => \A x \in Members(parts[d]), y \in Members(parts[e]) : x < y
    BY <1>1, <1>7
  <2>2. \A d \in 1..MaxDay : Increasing(parts[d])
    BY <1>1, <1>3
  <2> QED BY <1>1, <1>6, <2>1, <2>2, Flattened
<1>9. UNION {Members(parts[d]) : d \in 1..MaxDay} = UNION {{files[d][i].n : i \in W(d)} : d \in Day}
  <2> DEFINE Read(d) == {files[d][i].n : i \in W(d)}
  <2>1. \A d \in Day : Members(parts[d]) = Read(d)
    BY <1>3
  <2> HIDE DEF Read
  <2>2. UNION {Members(parts[d]) : d \in Day} = UNION {Read(d) : d \in Day}
    BY <2>1
  <2> QED BY <1>1, <2>2 DEF Read
<1> QED BY <1>5, <1>8, <1>9 DEF W

\* Between two appends, the records of a run that is alone each have a line.
LEMMA EveryRecordWhole ==
    ASSUME LogInv, NEW r \in Run, NEW s \in Stream, Alone(r), lock[r] = Nobody, NEW d \in Day
    PROVE  WholeRecords(files[d], r, s) = Records(files[d], r, s)
<1> DEFINE f == files[d]
           m == Len(f)
<1>1. f \in Seq(Write) /\ m \in Nat /\ \A i \in 1..m : f[i] \in Write
  BY DEF LogInv, LogTypes
<1>2. \A i \in 1..m : f[i].run = "none" => f[i] = LineEnd
  BY <1>1, LogAssumption DEF Write
<1> SUFFICES ASSUME NEW i \in Records(f, r, s) PROVE Parses(f, i)
  BY DEF WholeRecords
<1>3. i \in 1..m /\ f[i].run = r /\ f[i].run # "none"
  BY LogAssumption DEF Records, RecordsOf
<1>4. OnlyBy(f, r)
  <2>1. DOMAIN f = 1..m
    BY <1>1
  <2> QED BY <1>3, <2>1 DEF Alone, OnlyBy
<1>5. Alternates(f) /\ m % 2 # 1
  BY <1>4 DEF LogInv, TakeTurns
<1> HIDE DEF f, m
<1>6. \A k \in 1..m : f[k].run = "none" <=> k % 2 = 0
  BY <1>5 DEF Alternates, m
<1>7. i % 2 # 0 /\ i # m
  BY <1>1, <1>3, <1>5, <1>6
<1>8. i # 1 => i - 1 \in 1..m /\ (i - 1) % 2 = 0
  BY <1>1, <1>3, <1>7
<1>9. i + 1 \in 1..m /\ (i + 1) % 2 = 0
  BY <1>1, <1>3, <1>7
<1>10. f[i] # LineEnd
  BY <1>3 DEF LineEnd
<1> QED BY <1>2, <1>6, <1>8, <1>9, <1>10 DEF Parses

\* Lines are read back in the order they were printed, and all of them when no other run
\* wrote to the files.
LEMMA ReadBack == LogInv => OutputReadsBack
<1> SUFFICES ASSUME LogInv, NEW r \in Run, NEW s \in Stream
             PROVE  LET read == ReadLogs(r, s) IN
                    /\ \A i, k \in DOMAIN read : i < k => read[i] < read[k]
                    /\ Alone(r) /\ lock[r] = Nobody =>
                         Len(read) = printed[r][s] - (IF held[r][s] = Nothing THEN 0 ELSE 1)
  BY DEF OutputReadsBack
<1> DEFINE read == ReadLogs(r, s)
           N == Written(r, s)
<1>1. /\ read \in Seq(Nat) /\ Increasing(read)
      /\ Members(read) = UNION {{files[d][i].n : i \in WholeRecords(files[d], r, s)} : d \in Day}
  BY LogsAreRead
<1> HIDE DEF read
<1>2. \A i, k \in DOMAIN read : i < k => read[i] < read[k]
  BY <1>1 DEF Increasing
<1>3. ASSUME Alone(r), lock[r] = Nobody
      PROVE  Len(read) = printed[r][s] - (IF held[r][s] = Nothing THEN 0 ELSE 1)
  <2>1. /\ printed[r][s] \in Nat /\ s # Nobody /\ held[r][s].n \in Nat
        /\ Holding(r, s) /\ InOrderOf(r, s)
    BY StreamFacts
  <2>2. N = printed[r][s] - (IF held[r][s] = Nothing THEN 0 ELSE 1)
    BY <1>3, <2>1 DEF Written
  <2>3. N \in Nat
    BY <2>1, <2>2 DEF Holding
  <2>4. \A d \in Day : WholeRecords(files[d], r, s) = Records(files[d], r, s)
    BY <1>3, EveryRecordWhole
  <2>5. ASSUME NEW x \in Members(read) PROVE x \in 1..N
    <3>1. PICK d \in Day : \E i \in WholeRecords(files[d], r, s) : x = files[d][i].n
      BY <1>1
    <3> QED BY <2>1, <2>4, <3>1 DEF InOrderOf
  <2>6. ASSUME NEW x \in 1..N PROVE x \in Members(read)
    <3>1. PICK d \in Day : \E i : i \in Records(files[d], r, s) /\ files[d][i].n = x
      BY <2>1 DEF InOrderOf
    <3>2. PICK i : i \in Records(files[d], r, s) /\ files[d][i].n = x
      BY <3>1
    <3> QED BY <1>1, <2>4, <3>2
  <2>7. Members(read) = 1..N
    BY <2>5, <2>6
  <2> HIDE DEF N
  <2>8. Len(read) = N
    BY <1>1, <2>3, <2>7, AsLongAsItsMembers
  <2> QED BY <2>2, <2>8
<1> QED BY <1>2, <1>3 DEF read

\* Reading a run's logs gives the lines of a stream in the order they were printed, and
\* all of them when the run was alone in its files and is between two appends.
THEOREM OutputIsReadBack == Spec => []OutputReadsBack
BY LinesInOrder, ReadBack, PTL
=============================================================================
