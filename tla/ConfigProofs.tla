---------------------------- MODULE ConfigProofs ----------------------------
(***************************************************************************)
(* What a file that is accepted means and what its hash tells apart, for   *)
(* every file and every series of edits.  Where a list needs induction it  *)
(* goes by the least position that would break the claim.                  *)
(***************************************************************************)
EXTENDS ConfigEdit, TLAPS, WellFoundedInduction

-----------------------------------------------------------------------------
(* Numbers.                                                                  *)

\* A set of naturals with a member has a least one.
LEMMA LeastNumber ==
    ASSUME NEW S \in SUBSET Nat, S # {}
    PROVE  \E x \in S : \A y \in S : x <= y
<1> DEFINE R == {p \in Nat \X Nat : p[1] < p[2]}
<1>1. IsWellFoundedOn(R, Nat)
  BY NatLessThanWellFounded, Zenon DEF OpToRel
<1>2. \E x \in S : \A y \in S : <<y, x>> \notin R
  <2> HIDE DEF R
  <2> QED BY <1>1, WFMin
<1>3. PICK x \in S : \A y \in S : <<y, x>> \notin R
  BY <1>2
<1>4. ASSUME NEW y \in S PROVE x <= y
  <2>1. y \in Nat /\ x \in Nat
    OBVIOUS
  <2>2. <<y, x>> \notin R
    BY <1>3
  <2>3. ~(y < x)
    BY <2>1, <2>2
  <2> QED BY <2>1, <2>3
<1> QED BY <1>3, <1>4

\* The least and the greatest of some line numbers are among them.
LEMMA MinIsIn ==
    ASSUME NEW S \in SUBSET Nat, S # {}
    PROVE  Min(S) \in S /\ \A y \in S : Min(S) <= y
BY LeastNumber DEF Min

LEMMA MaxIsIn ==
    ASSUME NEW n \in Nat, NEW S \in SUBSET (0 .. n), S # {}
    PROVE  Max(S) \in S /\ \A y \in S : y <= Max(S)
<1> DEFINE D == {n - s : s \in S}
<1>1. D \in SUBSET Nat /\ D # {}
  <2>1. \A s \in S : n - s \in Nat
    OBVIOUS
  <2> QED BY <2>1
<1>2. PICK d \in D : \A e \in D : d <= e
  <2> HIDE DEF D
  <2> QED BY <1>1, LeastNumber
<1>3. PICK s \in S : d = n - s
  OBVIOUS
<1>4. ASSUME NEW y \in S PROVE s >= y
  <2>1. n - y \in D
    OBVIOUS
  <2>2. n - s <= n - y
    BY <1>2, <1>3, <2>1
  <2> QED BY <2>2
<1>5. \E x \in S : \A y \in S : x >= y
  BY <1>4
<1>6. Max(S) \in S /\ \A y \in S : Max(S) >= y
  BY <1>5 DEF Max
<1> QED BY <1>6

\* The empty text is no word.
LEMMA EmptyIsNoWord ==
    Empty # "none" /\ Empty \notin {"m", "h", "minutes", "hours", "named", "error"}
BY Zenon DEF Empty

-----------------------------------------------------------------------------
(* What FlattenSeq makes of a list: a prefix at a time.                      *)

LEMMA Flattened ==
    ASSUME NEW S, NEW seqs \in Seq(Seq(S)), seqs # <<>>
    PROVE  \E U : /\ U[1] = seqs[1] /\ \A i \in 2 .. Len(seqs) : U[i] = U[i - 1] \o seqs[i]
                  /\ \A i \in 1 .. Len(seqs) : U[i] \in Seq(S)
                  /\ FlattenSeq(seqs) = U[Len(seqs)]
<1> DEFINE N == Len(seqs)
           Step(n, g) == [i \in 1 .. n |-> IF i = 1 THEN seqs[i] ELSE g[i - 1] \o seqs[i]]
           Found(n) == \E g : g = Step(n, g)
           U == CHOOSE g : g = Step(N, g)
<1>1. N \in Nat \ {0} /\ \A i \in 1 .. N : seqs[i] \in Seq(S)
  OBVIOUS
<1>2. \A n \in 1 .. N : Found(n)
  <2> DEFINE Wrong == {n \in 1 .. N : ~Found(n)}
  <2> SUFFICES ASSUME Wrong # {} PROVE FALSE
    OBVIOUS
  <2>1. PICK w \in Wrong : \A y \in Wrong : w <= y
    <3> HIDE DEF Found
    <3>1. Wrong \in SUBSET Nat
      <4> HIDE DEF N
      <4> QED BY <1>1
    <3> HIDE DEF Wrong
    <3> QED BY <3>1, LeastNumber
  <2>2. w \in 1 .. N /\ ~Found(w)
    OBVIOUS
  <2>3. CASE w = 1
    <3> DEFINE h == [i \in 1 .. 1 |-> seqs[i]]
    <3>1. h = Step(1, h)
      OBVIOUS
    <3>2. Found(1)
      <4> HIDE DEF h, Step
      <4> QED BY <3>1
    <3> HIDE DEF Found
    <3> QED BY <2>2, <2>3, <3>2
  <2>4. CASE w # 1
    <3>1. w - 1 \in 1 .. N /\ w \in Nat
      BY <1>1, <2>2, <2>4
    <3>2. Found(w - 1)
      <4>1. w - 1 \notin Wrong
        <5> HIDE DEF Wrong
        <5> QED BY <1>1, <2>1, <2>2, <3>1
      <4> HIDE DEF Found
      <4> QED BY <3>1, <4>1
    <3>3. PICK g : g = Step(w - 1, g)
      BY <3>2
    <3> DEFINE h == [i \in 1 .. w |-> IF i = w THEN g[w - 1] \o seqs[w] ELSE g[i]]
    <3>4. \A i \in 1 .. w : h[i] = IF i = 1 THEN seqs[i] ELSE h[i - 1] \o seqs[i]
      <4> SUFFICES ASSUME NEW i \in 1 .. w
                   PROVE  h[i] = IF i = 1 THEN seqs[i] ELSE h[i - 1] \o seqs[i]
        OBVIOUS
      <4>1. CASE i = w
        <5>1. h[i] = g[w - 1] \o seqs[w] /\ h[i - 1] = g[w - 1]
          <6> HIDE DEF N
          <6>1. w - 1 \in 1 .. w /\ w - 1 # w /\ w \in 1 .. w
            BY <1>1, <3>1, <2>4
          <6>2. h[w] = g[w - 1] \o seqs[w]
            BY <6>1
          <6>3. h[w - 1] = g[w - 1]
            BY <6>1
          <6> HIDE DEF h
          <6> QED BY <4>1, <6>2, <6>3
        <5> HIDE DEF h
        <5> QED BY <2>4, <4>1, <5>1
      <4>2. CASE i # w
        <5>1. i \in 1 .. w - 1 /\ h[i] = g[i] /\ (i # 1 => i - 1 \in 1 .. w - 1 /\ h[i - 1] = g[i - 1])
          BY <3>1, <4>2
        <5>2. g[i] = Step(w - 1, g)[i]
          <6> HIDE DEF Step
          <6> QED BY <3>3
        <5>3. g[i] = IF i = 1 THEN seqs[i] ELSE g[i - 1] \o seqs[i]
          BY <5>1, <5>2
        <5> HIDE DEF h, Step
        <5> QED BY <5>1, <5>3
      <4> QED BY <4>1, <4>2
    <3>5. h = Step(w, h)
      <4>1. h = [i \in 1 .. w |-> h[i]]
        OBVIOUS
      <4> HIDE DEF h
      <4> QED BY <3>4, <4>1
    <3>6. Found(w)
      <4> HIDE DEF h, Step
      <4> QED BY <3>5
    <3> HIDE DEF Found
    <3> QED BY <2>2, <3>6
  <2> QED BY <2>3, <2>4
<1>3. U = Step(N, U)
  <2>1. Found(N)
    <3> HIDE DEF Found
    <3> QED BY <1>1, <1>2
  <2> HIDE DEF Step
  <2> QED BY <2>1
<1>4. FlattenSeq(seqs) = U[N]
  BY <1>1 DEF FlattenSeq
<1> HIDE DEF U
<1>5. \A i \in 1 .. N : U[i] = IF i = 1 THEN seqs[i] ELSE U[i - 1] \o seqs[i]
  <2>1. \A i \in 1 .. N : U[i] = Step(N, U)[i]
    <3> HIDE DEF Step
    <3> QED BY <1>3
  <2> HIDE DEF N
  <2> QED BY <2>1
<1>6. U[1] = seqs[1] /\ \A i \in 2 .. N : U[i] = U[i - 1] \o seqs[i]
  <2> HIDE DEF Step, N, Found
  <2>1. 1 \in 1 .. N /\ \A i \in 2 .. N : i \in 1 .. N /\ i # 1
    BY <1>1
  <2>2. U[1] = seqs[1]
    BY <1>5, <2>1
  <2>3. \A i \in 2 .. N : U[i] = U[i - 1] \o seqs[i]
    BY <1>5, <2>1
  <2> QED BY <2>2, <2>3
<1>7. \A i \in 1 .. N : U[i] \in Seq(S)
  <2> DEFINE Wrong == {i \in 1 .. N : U[i] \notin Seq(S)}
  <2> SUFFICES ASSUME Wrong # {} PROVE FALSE
    OBVIOUS
  <2>1. PICK w \in Wrong : \A y \in Wrong : w <= y
    <3>1. Wrong \in SUBSET Nat
      BY <1>1
    <3> HIDE DEF Wrong
    <3> QED BY <3>1, LeastNumber
  <2>2. w \in 1 .. N /\ U[w] \notin Seq(S)
    OBVIOUS
  <2> HIDE DEF N, Step
  <2>3. w # 1
    BY <1>1, <1>6, <2>2
  <2>4. w - 1 \in 1 .. N /\ w - 1 \notin Wrong /\ w \in 2 .. N
    BY <1>1, <2>1, <2>2, <2>3
  <2>5. U[w - 1] \in Seq(S) /\ U[w] = U[w - 1] \o seqs[w] /\ seqs[w] \in Seq(S)
    BY <1>1, <1>6, <2>2, <2>4
  <2> QED BY <2>2, <2>5
<1> HIDE DEF Step
<1> QED BY <1>4, <1>6, <1>7

LEMMA FlattenIsSeq ==
    ASSUME NEW S, NEW seqs \in Seq(Seq(S))
    PROVE  FlattenSeq(seqs) \in Seq(S)
<1>1. CASE seqs = <<>>
  BY <1>1 DEF FlattenSeq
<1>2. CASE seqs # <<>>
  <2>1. PICK U : /\ \A i \in 1 .. Len(seqs) : U[i] \in Seq(S)
                 /\ FlattenSeq(seqs) = U[Len(seqs)]
    BY <1>2, Flattened
  <2>2. Len(seqs) \in 1 .. Len(seqs)
    BY <1>2
  <2> QED BY <2>1, <2>2
<1> QED BY <1>1, <1>2

-----------------------------------------------------------------------------
(* The words of a list.                                                      *)

Interval == {ParseEveryInterval(token) : token \in RawToken}

\* Where all are words, each is there, in its place.
LEMMA AllWords ==
    ASSUME NEW parsed \in Seq(Interval), \A i \in DOMAIN parsed : parsed[i].kind = "named"
    PROVE  Words(parsed) = [k \in 1 .. Len(parsed) |-> parsed[k].word]
<1> DEFINE N == Len(parsed)
           W == {parsed[k].word : k \in 1 .. N}
           seqs == [i \in 1 .. N |-> <<parsed[i].word>>]
<1>1. N \in Nat /\ DOMAIN parsed = 1 .. N
  OBVIOUS
<1>2. \A i \in 1 .. N : <<parsed[i].word>> \in Seq(W)
  <2>1. \A i \in 1 .. N : parsed[i].word \in W
    OBVIOUS
  <2> HIDE DEF W
  <2> QED BY <2>1
<1>3. seqs \in Seq(Seq(W)) /\ Len(seqs) = N
  <2> HIDE DEF W
  <2> QED BY <1>1, <1>2
<1>4. Words(parsed) = FlattenSeq(seqs)
  <2>1. seqs = [i \in DOMAIN parsed |->
                   IF parsed[i].kind = "named" THEN <<parsed[i].word>> ELSE <<>>]
    BY <1>1
  <2> HIDE DEF seqs
  <2> QED BY <2>1 DEF Words
<1>5. \A i \in 1 .. N : seqs[i] = <<parsed[i].word>>
  OBVIOUS
<1>6. CASE N = 0
  <2>1. seqs = <<>>
    BY <1>6
  <2>2. FlattenSeq(seqs) = <<>>
    <3> HIDE DEF seqs
    <3> QED BY <2>1 DEF FlattenSeq
  <2>3. [k \in 1 .. N |-> parsed[k].word] = <<>>
    BY <1>6
  <2> QED BY <1>4, <2>2, <2>3
<1>7. CASE N # 0
  <2> HIDE DEF seqs, W
  <2>1. PICK U : /\ U[1] = seqs[1] /\ \A i \in 2 .. N : U[i] = U[i - 1] \o seqs[i]
                 /\ \A i \in 1 .. N : U[i] \in Seq(W)
                 /\ FlattenSeq(seqs) = U[N]
    <3> HIDE DEF N
    <3>1. seqs # <<>>
      BY <1>3, <1>7
    <3>2. PICK V : /\ V[1] = seqs[1] /\ \A i \in 2 .. Len(seqs) : V[i] = V[i - 1] \o seqs[i]
                   /\ \A i \in 1 .. Len(seqs) : V[i] \in Seq(W)
                   /\ FlattenSeq(seqs) = V[Len(seqs)]
      BY <1>3, <3>1, Flattened
    <3>3. /\ V[1] = seqs[1] /\ \A i \in 2 .. N : V[i] = V[i - 1] \o seqs[i]
          /\ \A i \in 1 .. N : V[i] \in Seq(W)
          /\ FlattenSeq(seqs) = V[N]
      BY <1>3, <3>2
    <3> QED BY <3>3
  <2> DEFINE Right(i) == Len(U[i]) = i /\ \A k \in 1 .. i : U[i][k] = parsed[k].word
             Wrong == {i \in 1 .. N : ~Right(i)}
  <2>2. Wrong = {}
    <3> SUFFICES ASSUME Wrong # {} PROVE FALSE
      OBVIOUS
    <3>1. PICK w \in Wrong : \A y \in Wrong : w <= y
      <4>1. Wrong \in SUBSET Nat
        BY <1>1
      <4> HIDE DEF Wrong
      <4> QED BY <4>1, LeastNumber
    <3>2. w \in 1 .. N /\ ~Right(w)
      OBVIOUS
    <3> HIDE DEF N
    <3>3. Right(1)
      <4>1. 1 \in 1 .. N
        BY <1>1, <1>7
      <4>2. U[1] = <<parsed[1].word>>
        BY <1>5, <2>1, <4>1
      <4> QED BY <4>2
    <3>4. w # 1
      <4> HIDE DEF Right
      <4> QED BY <3>2, <3>3
    <3>5. w - 1 \in 1 .. N /\ w \in 2 .. N /\ Right(w - 1)
      <4> HIDE DEF Right
      <4> QED BY <1>1, <3>1, <3>2, <3>4
    <3>6. U[w] = U[w - 1] \o <<parsed[w].word>> /\ U[w - 1] \in Seq(W)
      BY <1>5, <2>1, <3>2, <3>5
    <3>7. Len(U[w]) = w
      BY <3>2, <3>5, <3>6
    <3>8. \A k \in 1 .. w : U[w][k] = parsed[k].word
      BY <3>2, <3>5, <3>6
    <3> QED BY <3>2, <3>7, <3>8
  <2>3. Right(N) /\ U[N] \in Seq(W)
    <3>1. N \in 1 .. N
      BY <1>1, <1>7
    <3> HIDE DEF Right, N
    <3> QED BY <2>1, <2>2, <3>1
  <2>4. U[N] = [k \in 1 .. N |-> parsed[k].word]
    <3> HIDE DEF N
    <3> QED BY <1>1, <2>3
  <2> QED BY <1>4, <2>1, <2>4
<1> QED BY <1>6, <1>7

-----------------------------------------------------------------------------
(* A schedule.                                                               *)

Typed(raw) ==
    /\ raw.every.tokens \in Seq(RawToken) /\ raw.args \in Seq(STRING)
    /\ raw.lastDay \in BOOLEAN /\ raw.timeout.n \in Nat
    /\ raw.retries.given \in BOOLEAN /\ raw.retries.n \in Int

\* A schedule that validation passes says how often, in one way, in words it knows.
LEMMA Checked ==
    ASSUME NEW raw, CheckSchedule(raw) = {}
    PROVE  /\ HasEvery(raw) <=> raw.cron = "none"
           /\ raw.zone # Empty
           /\ \A i \in DOMAIN raw.every.tokens : CheckToken(raw.every.tokens[i]) = {}
<1> DEFINE Each == {CheckToken(raw.every.tokens[i]) : i \in DOMAIN raw.every.tokens}
           Wrong(code, P) == IF P THEN {code} ELSE {}
<1>1. (HasEvery(raw) <=> raw.cron = "none") /\ raw.zone # Empty
  <2>1. /\ Wrong("schedule.invalid", HasEvery(raw) <=> raw.cron # "none") \subseteq CheckSchedule(raw)
        /\ Wrong("schedule.timezone_invalid", raw.zone \in {Empty, "bad"}) \subseteq CheckSchedule(raw)
    BY DEF CheckSchedule
  <2> HIDE DEF Wrong
  <2>2. Wrong("schedule.invalid", HasEvery(raw) <=> raw.cron # "none") = {}
        /\ Wrong("schedule.timezone_invalid", raw.zone \in {Empty, "bad"}) = {}
    BY <2>1
  <2> USE DEF Wrong
  <2>3. ~(HasEvery(raw) <=> raw.cron # "none")
    BY <2>2
  <2>4. raw.zone \notin {Empty, "bad"}
    BY <2>2
  <2> QED BY <2>3, <2>4
<1>2. UNION Each = {}
  BY DEF CheckSchedule
<1>3. \A c \in Each : c = {}
  <2> HIDE DEF Each
  <2> QED BY <1>2
<1> QED BY <1>1, <1>3

\* The tokens that say something, and what becomes of them.
Minutes(n) == [unit |-> "m", n |-> n, word |-> Empty]
Hours(n) == [unit |-> "h", n |-> n, word |-> Empty]
Word(word) == [unit |-> Empty, n |-> 0, word |-> word]
Parsed(kind, n, word) == [kind |-> kind, n |-> n, word |-> word]

\* What a token that validation passes may be, and how it is parsed.
LEMMA CheckedToken ==
    ASSUME NEW token \in RawToken, CheckToken(token) = {}
    PROVE  \/ \E n : token = Minutes(n) /\ ParseEveryInterval(token) = Parsed("minutes", n, Empty)
           \/ \E n : token = Hours(n) /\ ParseEveryInterval(token) = Parsed("hours", n, Empty)
           \/ \E w : token = Word(w) /\ ParseEveryInterval(token) = Parsed("named", 0, w)
<1>1. CASE token \in [unit : {"m", "h"}, n : Nat, word : {Empty}]
  <2>1. CASE token.unit = "m"
    <3>1. token = Minutes(token.n)
      BY <1>1, <2>1 DEF Minutes
    <3>2. ParseEveryInterval(token) = Parsed("minutes", token.n, Empty)
      BY <2>1, EmptyIsNoWord DEF ParseEveryInterval, Parsed
    <3> QED BY <3>1, <3>2, Zenon
  <2>2. CASE token.unit = "h"
    <3>1. token = Hours(token.n)
      BY <1>1, <2>2 DEF Hours
    <3>2. ParseEveryInterval(token) = Parsed("hours", token.n, Empty)
      BY <2>2, EmptyIsNoWord DEF ParseEveryInterval, Parsed
    <3> QED BY <3>1, <3>2, Zenon
  <2> QED BY <1>1, <2>1, <2>2
<1>2. CASE token \in [unit : {Empty}, n : {0}, word : STRING] /\ token.word \in Named
  <2>1. token = Word(token.word)
    BY <1>2 DEF Word
  <2>2. ParseEveryInterval(token) = Parsed("named", 0, token.word)
    BY <1>2, EmptyIsNoWord DEF ParseEveryInterval, Parsed
  <2> QED BY <2>1, <2>2, Zenon
<1>3. CASE token.unit \notin {"m", "h"} /\ ~(token.unit = Empty /\ token.word \in Named)
  <2>1. ParseEveryInterval(token).kind = "error"
    BY <1>3 DEF ParseEveryInterval, NoInterval
  <2> QED BY <2>1 DEF CheckToken
<1>4. CASE token \in [unit : {Empty}, n : {0}, word : STRING] /\ token.word \notin Named
  BY <1>3, <1>4, EmptyIsNoWord
<1>5. CASE token \in [unit : STRING \ {"m", "h", Empty}, n : Nat, word : STRING]
  BY <1>3, <1>5
<1> QED BY <1>1, <1>2, <1>4, <1>5 DEF RawToken

LEMMA EveryIsSpoken ==
    ASSUME NEW raw, NEW zone, Typed(raw), CheckSchedule(raw) = {}, raw.cron = "none",
           ~BadList(raw)
    PROVE  Spoken(NormalizeSchedule(raw, zone)) = ToSet(raw.every.tokens)
<1> DEFINE tokens == raw.every.tokens
           parsed == [i \in DOMAIN tokens |-> ParseEveryInterval(tokens[i])]
           S == NormalizeSchedule(raw, zone)
           N == Len(tokens)
<1>1. tokens \in Seq(RawToken) /\ N \in Nat /\ DOMAIN tokens = 1 .. N
  BY DEF Typed
<1>2. parsed \in Seq(Interval) /\ Len(parsed) = N
  BY <1>1 DEF Interval
<1>3. \A i \in 1 .. N : tokens[i] \in RawToken /\ CheckToken(tokens[i]) = {}
  <2>1. \A i \in DOMAIN raw.every.tokens : CheckToken(raw.every.tokens[i]) = {}
    BY Checked
  <2>2. \A i \in 1 .. N : CheckToken(tokens[i]) = {}
    BY <1>1, <2>1
  <2>3. \A i \in 1 .. N : tokens[i] \in RawToken
    <3> HIDE DEF tokens
    <3> QED BY <1>1
  <2> QED BY <2>2, <2>3
<1>4. HasEvery(raw)
  BY Checked
<1>10. S = IF raw.cron # "none" THEN Cron(raw, zone)
           ELSE IF Len(parsed) = 1 /\ parsed[1].kind \in {"minutes", "hours"}
                THEN Aligned(parsed[1].kind, parsed[1].n)
           ELSE Calendar(raw, zone, IF Words(parsed) # <<>> THEN Words(parsed) ELSE <<"day">>)
  BY DEF NormalizeSchedule
<1>11. \A i \in 1 .. N : parsed[i] = ParseEveryInterval(tokens[i])
  BY <1>1
<1> HIDE DEF tokens, parsed, S, N
<1>5. N = 1 \/ (N > 1 /\ \A i \in 1 .. N : tokens[i].unit \notin {"m", "h"})
  <2>1. ~(tokens = <<>> \/ \E t \in ToSet(tokens) : t.unit \in {"m", "h"}) \/ N = 1
    BY <1>4 DEF BadList, tokens, N
  <2>2. N = 1 \/ (N # 0 /\ \A t \in ToSet(tokens) : t.unit \notin {"m", "h"})
    BY <1>1, <2>1
  <2> QED BY <1>1, <2>2 DEF ToSet
<1>6. ToSet(tokens) = {tokens[i] : i \in 1 .. N}
  BY <1>1 DEF ToSet
<1>7. ASSUME NEW k, N = 1, tokens[1] = Minutes(k),
             ParseEveryInterval(tokens[1]) = Parsed("minutes", k, Empty)
      PROVE  Spoken(S) = ToSet(tokens)
  <2>1. parsed[1].kind = "minutes" /\ parsed[1].n = k
    BY <1>7, <1>11 DEF Parsed
  <2>2. S = Aligned("minutes", k)
    BY <1>2, <1>7, <1>10, <2>1
  <2>3. Spoken(S) = {Minutes(k)}
    BY <2>2 DEF Spoken, Aligned, Minutes
  <2> QED BY <1>6, <1>7, <2>3
<1>8. ASSUME NEW k, N = 1, tokens[1] = Hours(k),
             ParseEveryInterval(tokens[1]) = Parsed("hours", k, Empty)
      PROVE  Spoken(S) = ToSet(tokens)
  <2>1. parsed[1].kind = "hours" /\ parsed[1].n = k
    BY <1>8, <1>11 DEF Parsed
  <2>2. S = Aligned("hours", k)
    BY <1>2, <1>8, <1>10, <2>1
  <2>3. Spoken(S) = {Hours(k)}
    BY <2>2 DEF Spoken, Aligned, Hours
  <2> QED BY <1>6, <1>8, <2>3
<1>9. ASSUME N >= 1,
             \A i \in 1 .. N : \E w :
                 tokens[i] = Word(w) /\ ParseEveryInterval(tokens[i]) = Parsed("named", 0, w)
      PROVE  Spoken(S) = ToSet(tokens)
  <2> DEFINE days == [k \in 1 .. N |-> tokens[k].word]
  <2>1. \A i \in 1 .. N : parsed[i].kind = "named" /\ parsed[i].word = tokens[i].word
    <3> SUFFICES ASSUME NEW i \in 1 .. N
                 PROVE  parsed[i].kind = "named" /\ parsed[i].word = tokens[i].word
      OBVIOUS
    <3>1. PICK w : tokens[i] = Word(w) /\ ParseEveryInterval(tokens[i]) = Parsed("named", 0, w)
      BY <1>9
    <3>2. parsed[i] = Parsed("named", 0, w)
      BY <1>11, <3>1
    <3> QED BY <3>1, <3>2 DEF Parsed, Word
  <2>2. Words(parsed) = [k \in 1 .. Len(parsed) |-> parsed[k].word]
    <3>1. DOMAIN parsed = 1 .. N
      BY <1>2
    <3> QED BY <1>2, <2>1, <3>1, AllWords
  <2>3. Words(parsed) = days
    BY <1>2, <2>1, <2>2
  <2>4. days # <<>>
    BY <1>1, <1>9
  <2>5. S = Calendar(raw, zone, days)
    <3>1. ~(Len(parsed) = 1 /\ parsed[1].kind \in {"minutes", "hours"})
      BY <1>2, <1>9, <2>1
    <3> HIDE DEF days
    <3> QED BY <1>10, <2>3, <2>4, <3>1
  <2>6. Spoken(S) = {Word(days[i]) : i \in DOMAIN days}
    BY <2>5 DEF Spoken, Calendar, Word
  <2>7. \A i \in 1 .. N : Word(days[i]) = tokens[i]
    <3> SUFFICES ASSUME NEW i \in 1 .. N PROVE Word(days[i]) = tokens[i]
      OBVIOUS
    <3>1. PICK w : tokens[i] = Word(w)
      BY <1>9
    <3>2. days[i] = w
      BY <3>1 DEF Word
    <3> QED BY <3>1, <3>2
  <2> QED BY <1>6, <2>6, <2>7
<1> QED
  <2>1. \A i \in 1 .. N :
          \/ \E n : tokens[i] = Minutes(n) /\ ParseEveryInterval(tokens[i]) = Parsed("minutes", n, Empty)
          \/ \E n : tokens[i] = Hours(n) /\ ParseEveryInterval(tokens[i]) = Parsed("hours", n, Empty)
          \/ \E w : tokens[i] = Word(w) /\ ParseEveryInterval(tokens[i]) = Parsed("named", 0, w)
    BY <1>3, CheckedToken
  <2>2. 1 \in 1 .. N
    BY <1>1, <1>5
  <2>3. CASE N = 1
    <3>1. ASSUME NEW w, tokens[1] = Word(w), ParseEveryInterval(tokens[1]) = Parsed("named", 0, w)
          PROVE  Spoken(S) = ToSet(tokens)
      BY <1>9, <2>3, <3>1
    <3>2. Spoken(S) = ToSet(tokens)
      BY <1>7, <1>8, <2>1, <2>2, <2>3, <3>1
    <3> QED BY <3>2 DEF S, tokens
  <2>4. CASE N > 1 /\ \A i \in 1 .. N : tokens[i].unit \notin {"m", "h"}
    <3>1. \A i \in 1 .. N : \E w :
              tokens[i] = Word(w) /\ ParseEveryInterval(tokens[i]) = Parsed("named", 0, w)
      <4>1. \A n : Minutes(n).unit = "m" /\ Hours(n).unit = "h"
        BY DEF Minutes, Hours
      <4> QED BY <2>1, <2>4, <4>1
    <3>2. Spoken(S) = ToSet(tokens)
      BY <1>1, <1>9, <2>4, <3>1
    <3> QED BY <3>2 DEF S, tokens
  <2> QED BY <1>5, <2>3, <2>4

\* A list that normalize does not know is taken for another one.
LEMMA ListIsLost ==
    ASSUME NEW raw, NEW zone, Typed(raw), CheckSchedule(raw) = {}, raw.cron = "none", BadList(raw)
    PROVE  Spoken(NormalizeSchedule(raw, zone)) # ToSet(raw.every.tokens)
<1> DEFINE tokens == raw.every.tokens
           parsed == [i \in DOMAIN tokens |-> ParseEveryInterval(tokens[i])]
           days == IF Words(parsed) # <<>> THEN Words(parsed) ELSE <<"day">>
           S == NormalizeSchedule(raw, zone)
<1>1. tokens \in Seq(RawToken) /\ Len(parsed) = Len(tokens) /\ Len(tokens) # 1
  BY DEF Typed, BadList
<1>2. S = Calendar(raw, zone, days)
  BY <1>1 DEF NormalizeSchedule
<1>3. Spoken(S) = {Word(days[i]) : i \in DOMAIN days}
  <2> HIDE DEF days, S
  <2> QED BY <1>2 DEF Spoken, Calendar, Word
<1>4. CASE tokens = <<>>
  <2>1. parsed = <<>> /\ Words(parsed) = <<>>
    <3>1. parsed = <<>>
      BY <1>4
    <3>2. \A i \in DOMAIN parsed : parsed[i].kind = "named"
      BY <3>1
    <3>3. parsed \in Seq(Interval)
      BY <3>1
    <3>4. Words(parsed) = [k \in 1 .. Len(parsed) |-> parsed[k].word]
      <4> HIDE DEF parsed
      <4> QED BY <3>2, <3>3, AllWords
    <3>5. Words(parsed) = <<>>
      <4> HIDE DEF parsed
      <4> QED BY <3>1, <3>4
    <3> QED BY <3>1, <3>5
  <2>2. days = <<"day">>
    <3> HIDE DEF parsed
    <3> QED BY <2>1
  <2> HIDE DEF days, S
  <2>3. Word("day") \in Spoken(S)
    BY <1>3, <2>2
  <2>4. ToSet(tokens) = {}
    BY <1>4 DEF ToSet
  <2> HIDE DEF tokens
  <2>5. Spoken(S) # ToSet(tokens)
    BY <2>3, <2>4
  <2> QED BY <2>5 DEF S, tokens
<1>5. CASE \E t \in ToSet(tokens) : t.unit \in {"m", "h"}
  <2> HIDE DEF days, S, tokens
  <2>1. \A t \in Spoken(S) : t.unit = Empty
    BY <1>3 DEF Word
  <2>2. Spoken(S) # ToSet(tokens)
    BY <1>5, <2>1, EmptyIsNoWord
  <2> QED BY <2>2 DEF S, tokens
<1> QED BY <1>4, <1>5 DEF BadList

LEMMA IntervalKinds ==
    ASSUME NEW token
    PROVE  ParseEveryInterval(token).kind \in {"minutes", "hours"} <=> token.unit \in {"m", "h"}
<1>1. CASE token.unit = "m"
  BY <1>1, EmptyIsNoWord DEF ParseEveryInterval
<1>2. CASE token.unit = "h"
  BY <1>2, EmptyIsNoWord DEF ParseEveryInterval
<1>3. CASE token.unit \notin {"m", "h"}
  BY <1>3 DEF ParseEveryInterval, NoInterval
<1> QED BY <1>1, <1>2, <1>3

\* What becomes of the other keys of a schedule.
LEMMA ScheduleIsKept ==
    ASSUME NEW raw, NEW zone, Typed(raw)
    PROVE  LET s == NormalizeSchedule(raw, zone) IN
           /\ s.kind = "calendar" <=> ~Ruled(raw)
           /\ s.kind = "calendar" => /\ s.onDay = raw.onDay /\ s.lastDay = raw.lastDay
                                     /\ raw.at # "none" => s.at = raw.at
           /\ raw.cron # "none" => s.kind = "cron" /\ s.at = raw.cron
<1> DEFINE tokens == raw.every.tokens
           parsed == [i \in DOMAIN tokens |-> ParseEveryInterval(tokens[i])]
           s == NormalizeSchedule(raw, zone)
           one == Len(parsed) = 1 /\ parsed[1].kind \in {"minutes", "hours"}
<1>1. \/ raw.cron # "none" /\ s = Cron(raw, zone)
      \/ raw.cron = "none" /\ one /\ s = Aligned(parsed[1].kind, parsed[1].n)
      \/ raw.cron = "none" /\ ~one /\ \E days : s = Calendar(raw, zone, days)
  <2> HIDE DEF one
  <2> QED BY DEF NormalizeSchedule, one
<1>2. one <=> Len(tokens) = 1 /\ tokens[1].unit \in {"m", "h"}
  <2>1. Len(parsed) = Len(tokens) /\ (Len(tokens) = 1 => parsed[1] = ParseEveryInterval(tokens[1]))
    BY DEF Typed
  <2>2. ParseEveryInterval(tokens[1]).kind \in {"minutes", "hours"} <=> tokens[1].unit \in {"m", "h"}
    BY IntervalKinds
  <2> HIDE DEF parsed, tokens
  <2> QED BY <2>1, <2>2
<1>3. Ruled(raw) <=> raw.cron # "none" \/ one
  <2> HIDE DEF one
  <2> QED BY <1>2 DEF Ruled
<1>4. \A kind, n : Aligned(kind, n).kind = kind
  BY DEF Aligned
<1>5. Cron(raw, zone).kind = "cron" /\ Cron(raw, zone).at = raw.cron
  BY DEF Cron, Aligned
<1>6. \A days : LET c == Calendar(raw, zone, days) IN
          /\ c.kind = "calendar" /\ c.onDay = raw.onDay /\ c.lastDay = raw.lastDay
          /\ raw.at # "none" => c.at = raw.at
  BY DEF Calendar, Or
<1>7. one => parsed[1].kind \in {"minutes", "hours"}
  OBVIOUS
<1> HIDE DEF s, one, parsed
<1>8. /\ s.kind = "calendar" <=> ~Ruled(raw)
      /\ s.kind = "calendar" => /\ s.onDay = raw.onDay /\ s.lastDay = raw.lastDay
                                /\ raw.at # "none" => s.at = raw.at
      /\ raw.cron # "none" => s.kind = "cron" /\ s.at = raw.cron
  <2>1. CASE raw.cron # "none" /\ s = Cron(raw, zone)
    BY <1>3, <1>5, <2>1
  <2>2. CASE raw.cron = "none" /\ one /\ s = Aligned(parsed[1].kind, parsed[1].n)
    BY <1>3, <1>4, <1>7, <2>2
  <2>3. ASSUME NEW days, raw.cron = "none", ~one, s = Calendar(raw, zone, days)
        PROVE  <1>8!1 /\ <1>8!2 /\ <1>8!3
    BY <1>3, <1>6, <2>3
  <2> QED BY <1>1, <2>1, <2>2, <2>3
<1> QED BY <1>8 DEF s

\* A number reckoned modulo d is kept when it is below d, and not otherwise.
LEMMA BelowModulus ==
    ASSUME NEW a \in Nat, NEW d \in Nat \ {0}
    PROVE  a % d = a <=> a < d
<1>1. a % d \in 0 .. d - 1 /\ a = d * (a \div d) + (a % d) /\ a \div d \in Nat
  OBVIOUS
<1>2. CASE a < d
  OBVIOUS
<1>3. CASE a >= d
  BY <1>1, <1>3
<1> QED BY <1>2, <1>3

LEMMA DurationIsKept ==
    ASSUME NEW raw, NEW defaults, Typed(raw), CheckJob(raw) = {}, raw.timeout.unit # "none"
    PROVE  Timeout(raw, defaults) = Seconds(raw.timeout) <=> ~(Seconds(raw.timeout) >= U64)
<1> DEFINE Wrong(code, P) == IF P THEN {code} ELSE {}
           Late == raw.timeout.unit # "none" /\ ParseDuration(raw.timeout) = Err
           d == raw.timeout
<1>1. Wrong("duration.invalid", Late) \subseteq CheckJob(raw)
  BY DEF CheckJob
<1>2. ~Late
  <2>1. Wrong("duration.invalid", Late) = {}
    BY <1>1
  <2> HIDE DEF Late
  <2> QED BY <2>1
<1>3. Timeout(raw, defaults) = ParseDuration(d) /\ ParseDuration(d) # Err
  BY <1>2 DEF Timeout
<1>4. d.unit \in DOMAIN Unit /\ ParseDuration(d) = Seconds(d) % U64 /\ d.n \in Nat
  BY <1>3 DEF ParseDuration, Typed
<1>5. Seconds(d) \in Nat
  <2>1. DOMAIN Unit = {"s", "m", "h", "d"} /\ Unit[d.unit] \in Nat
    BY <1>4 DEF Unit
  <2>2. Seconds(d) = d.n * Unit[d.unit]
    BY <1>4 DEF Seconds
  <2> QED BY <1>4, <2>1, <2>2
<1> HIDE DEF d
<1>6. Seconds(d) % U64 = Seconds(d) <=> Seconds(d) < U64
  BY <1>5, RulesAssumption, BelowModulus
<1>7. Timeout(raw, defaults) = Seconds(d) <=> ~(Seconds(d) >= U64)
  BY <1>3, <1>4, <1>5, <1>6, RulesAssumption
<1> QED BY <1>7 DEF d

LEMMA RetriesAreKept ==
    ASSUME NEW raw, NEW defaults, Typed(raw), CheckJob(raw) = {}, raw.retries.given
    PROVE  MaxRetries(raw, defaults) = raw.retries.n <=> ~(raw.retries.n >= U32)
<1> DEFINE Wrong(code, P) == IF P THEN {code} ELSE {}
           Negative == raw.retries.given /\ raw.retries.n < 0
<1>1. Wrong("field.type", Negative) \subseteq CheckJob(raw)
  BY DEF CheckJob
<1>2. ~Negative
  <2>1. Wrong("field.type", Negative) = {}
    BY <1>1
  <2> HIDE DEF Negative
  <2> QED BY <2>1
<1>3. MaxRetries(raw, defaults) = IF raw.retries.n \in 0 .. U32 - 1 THEN raw.retries.n ELSE 0
  BY DEF MaxRetries
<1> QED BY <1>2, <1>3, RulesAssumption DEF Typed

LEMMA WordsAreKept ==
    ASSUME NEW raw, NEW defaults
    PROVE  LET job == NormalizeJob(raw, defaults) IN
           /\ raw.zone # "none" => job.zone = raw.zone
           /\ raw.missed # "none" =>
                  (job.missed = raw.missed <=> raw.missed \in {"skip", "run_once", "run_all"})
           /\ raw.overlap # "none" =>
                  (job.overlap = raw.overlap <=> raw.overlap \in {"skip", "queue", "kill"})
BY DEF NormalizeJob, Or, ParseMissedRunPolicy, ParseOverlapPolicy

\* What a job loses between validation and its normal form.
LEMMA LostIsUnnoticed ==
    ASSUME NEW raw, NEW defaults, Typed(raw), CheckSchedule(raw) = {}, CheckJob(raw) = {}
    PROVE  Lost(raw, NormalizeJob(raw, defaults)) = Unnoticed(raw)
<1> DEFINE job == NormalizeJob(raw, defaults)
           s == job.schedule
           calendar == s.kind = "calendar"
<1>1. /\ s = NormalizeSchedule(raw, Or(raw.zone, defaults.zone))
      /\ job.timeout = Timeout(raw, defaults) /\ job.retries = MaxRetries(raw, defaults)
  BY DEF NormalizeJob
<1>2. HasEvery(raw) <=> raw.cron = "none"
  BY Checked
<1>3. /\ calendar <=> ~Ruled(raw)
      /\ calendar => /\ s.onDay = raw.onDay /\ s.lastDay = raw.lastDay
                     /\ raw.at # "none" => s.at = raw.at
      /\ raw.cron # "none" => s.kind = "cron" /\ s.at = raw.cron
  <2> HIDE DEF s
  <2> QED BY <1>1, ScheduleIsKept
<1>4. /\ raw.zone # "none" => job.zone = raw.zone
      /\ raw.missed # "none" =>
             (job.missed = raw.missed <=> raw.missed \in {"skip", "run_once", "run_all"})
      /\ raw.overlap # "none" =>
             (job.overlap = raw.overlap <=> raw.overlap \in {"skip", "queue", "kill"})
  BY WordsAreKept
<1>5. HasEvery(raw) => (Spoken(s) = ToSet(raw.every.tokens) <=> ~BadList(raw))
  <2> HIDE DEF s
  <2> QED BY <1>1, <1>2, EveryIsSpoken, ListIsLost
<1>6. raw.timeout.unit # "none" =>
          (job.timeout = Seconds(raw.timeout) <=> ~(Seconds(raw.timeout) >= U64))
  <2> HIDE DEF job
  <2> QED BY <1>1, DurationIsKept
<1>7. raw.retries.given => (job.retries = raw.retries.n <=> ~(raw.retries.n >= U32))
  <2> HIDE DEF job
  <2> QED BY <1>1, RetriesAreKept
<1>8. BadList(raw) => HasEvery(raw)
  BY DEF BadList
<1> HIDE DEF job
<1>9. /\ (HasEvery(raw) /\ Spoken(s) # ToSet(raw.every.tokens)) <=> BadList(raw)
      /\ ~(raw.cron # "none" /\ ~(s.kind = "cron" /\ s.at = raw.cron))
      /\ (raw.at # "none" /\ ~(calendar /\ s.at = raw.at)) <=> (raw.at # "none" /\ Ruled(raw))
      /\ (raw.onDay # Err /\ ~(calendar /\ s.onDay = raw.onDay)) <=> (raw.onDay # Err /\ Ruled(raw))
      /\ (raw.lastDay /\ ~(calendar /\ s.lastDay)) <=> (raw.lastDay /\ Ruled(raw))
      /\ ~(raw.zone # "none" /\ job.zone # raw.zone)
      /\ (raw.timeout.unit # "none" /\ job.timeout # Seconds(raw.timeout)) <=>
             (raw.timeout.unit # "none" /\ Seconds(raw.timeout) >= U64)
      /\ (raw.missed # "none" /\ job.missed # raw.missed) <=>
             raw.missed \notin {"none", "skip", "run_once", "run_all"}
      /\ (raw.overlap # "none" /\ job.overlap # raw.overlap) <=>
             raw.overlap \notin {"none", "skip", "queue", "kill"}
      /\ (raw.retries.given /\ job.retries # raw.retries.n) <=>
             (raw.retries.given /\ raw.retries.n >= U32)
  <2> HIDE DEF s, calendar
  <2>1. (HasEvery(raw) /\ Spoken(s) # ToSet(raw.every.tokens)) <=> BadList(raw)
    BY <1>5, <1>8
  <2>2. ~(raw.cron # "none" /\ ~(s.kind = "cron" /\ s.at = raw.cron))
    BY <1>3
  <2>3. /\ (raw.at # "none" /\ ~(calendar /\ s.at = raw.at)) <=> (raw.at # "none" /\ Ruled(raw))
        /\ (raw.onDay # Err /\ ~(calendar /\ s.onDay = raw.onDay)) <=> (raw.onDay # Err /\ Ruled(raw))
    BY <1>3
  <2>4. (raw.lastDay /\ ~(calendar /\ s.lastDay)) <=> (raw.lastDay /\ Ruled(raw))
    BY <1>3, Zenon
  <2>5. ~(raw.zone # "none" /\ job.zone # raw.zone)
    BY <1>4
  <2>6. (raw.timeout.unit # "none" /\ job.timeout # Seconds(raw.timeout)) <=>
             (raw.timeout.unit # "none" /\ Seconds(raw.timeout) >= U64)
    BY <1>6
  <2>7. /\ (raw.missed # "none" /\ job.missed # raw.missed) <=>
             raw.missed \notin {"none", "skip", "run_once", "run_all"}
        /\ (raw.overlap # "none" /\ job.overlap # raw.overlap) <=>
             raw.overlap \notin {"none", "skip", "queue", "kill"}
    BY <1>4
  <2>8. (raw.retries.given /\ job.retries # raw.retries.n) <=>
             (raw.retries.given /\ raw.retries.n >= U32)
    BY <1>7
  <2> QED BY <2>1, <2>2, <2>3, <2>4, <2>5, <2>6, <2>7, <2>8
<1>10. Lost(raw, job) = Unnoticed(raw)
  <2> HIDE DEF s, calendar
  <2>1. If(HasEvery(raw) /\ Spoken(s) # ToSet(raw.every.tokens), "every") = If(BadList(raw), "every")
    BY <1>9, Zenon DEF If
  <2>2. If(raw.cron # "none" /\ ~(s.kind = "cron" /\ s.at = raw.cron), "cron") = {}
    BY <1>9, Zenon DEF If
  <2>3. If(raw.at # "none" /\ ~(calendar /\ s.at = raw.at), "at")
            = If(raw.at # "none" /\ Ruled(raw), "at")
    BY <1>9, Zenon DEF If
  <2>4. If(raw.onDay # Err /\ ~(calendar /\ s.onDay = raw.onDay), "on_day")
            = If(raw.onDay # Err /\ Ruled(raw), "on_day")
    BY <1>9, Zenon DEF If
  <2>5. If(raw.lastDay /\ ~(calendar /\ s.lastDay), "last_day")
            = If(raw.lastDay /\ Ruled(raw), "last_day")
    BY <1>9, Zenon DEF If
  <2>6. If(raw.zone # "none" /\ job.zone # raw.zone, "timezone") = {}
    BY <1>9, Zenon DEF If
  <2>7. If(raw.timeout.unit # "none" /\ job.timeout # Seconds(raw.timeout), "timeout")
            = If(raw.timeout.unit # "none" /\ Seconds(raw.timeout) >= U64, "timeout")
    BY <1>9, Zenon DEF If
  <2>8. If(raw.missed # "none" /\ job.missed # raw.missed, "missed_run_policy")
            = If(raw.missed \notin {"none", "skip", "run_once", "run_all"}, "missed_run_policy")
    BY <1>9, Zenon DEF If
  <2>9. If(raw.overlap # "none" /\ job.overlap # raw.overlap, "overlap_policy")
            = If(raw.overlap \notin {"none", "skip", "queue", "kill"}, "overlap_policy")
    BY <1>9, Zenon DEF If
  <2>10. If(raw.retries.given /\ job.retries # raw.retries.n, "max_retries")
            = If(raw.retries.given /\ raw.retries.n >= U32, "max_retries")
    BY <1>9, Zenon DEF If
  <2>11. \A a, b, c, d, e, f, g, h :
           a \cup {} \cup b \cup c \cup d \cup {} \cup e \cup f \cup g \cup h
               = a \cup b \cup c \cup d \cup e \cup f \cup g \cup h
    OBVIOUS
  <2> QED
    BY <2>1, <2>2, <2>3, <2>4, <2>5, <2>6, <2>7, <2>8, <2>9, <2>10, <2>11
    DEF Lost, Unnoticed, s, calendar
<1> QED BY <1>10 DEF job

-----------------------------------------------------------------------------
(* The canonical text.                                                       *)

IsSeq(x) == \E S : x \in Seq(S)

\* Sequences without a line end.
NoEnd(x) == \E S : x \in Seq(S) /\ Mark("LF") \notin S

LEMMA NoEndIsSeq ==
    ASSUME NEW x, NoEnd(x)
    PROVE  IsSeq(x)
BY DEF NoEnd, IsSeq

LEMMA NoEndFour ==
    ASSUME NEW c1, NEW c2, NEW c3, NEW c4,
           \A c \in {c1, c2, c3, c4} : c # Mark("LF")
    PROVE  NoEnd(<<c1, c2, c3, c4>>)
<1>1. <<c1, c2, c3, c4>> \in Seq({c1, c2, c3, c4})
  OBVIOUS
<1>2. Mark("LF") \notin {c1, c2, c3, c4}
  OBVIOUS
<1> QED BY <1>1, <1>2 DEF NoEnd

LEMMA NoEndAlone ==
    ASSUME NEW c, c.is # "mark"
    PROVE  NoEnd(<<c>>)
<1>1. \E S : S = {c}
  OBVIOUS
<1>2. PICK S : S = {c}
  BY <1>1
<1>3. <<c>> \in Seq(S)
  BY <1>2
<1>4. Mark("LF") \notin S
  BY <1>2 DEF Mark
<1> QED BY <1>3, <1>4 DEF NoEnd

LEMMA NoEndJoined ==
    ASSUME NEW x, NEW y, NoEnd(x), NoEnd(y)
    PROVE  NoEnd(x \o y)
<1>1. PICK S : x \in Seq(S) /\ Mark("LF") \notin S
  BY DEF NoEnd
<1>2. PICK T : y \in Seq(T) /\ Mark("LF") \notin T
  BY DEF NoEnd
<1>3. x \o y \in Seq(S \cup T) /\ Mark("LF") \notin S \cup T
  BY <1>1, <1>2
<1> QED BY <1>3 DEF NoEnd

LEMMA JoinedAt ==
    ASSUME NEW S, NEW T, NEW s \in Seq(S), NEW t \in Seq(T)
    PROVE  /\ \A i \in 1 .. Len(s) : (s \o t)[i] = s[i]
           /\ \A i \in 1 .. Len(t) : (s \o t)[Len(s) + i] = t[i]
           /\ Len(s \o t) = Len(s) + Len(t)
OBVIOUS

\* What stands after the value of a line.
LEMMA LineIsSeq ==
    ASSUME NEW key, NEW value, NEW rest, NoEnd(value), IsSeq(rest)
    PROVE  IsSeq(CanonLine(key, value, rest))
<1>1. PICK S : value \in Seq(S)
  BY DEF NoEnd
<1>2. PICK R : rest \in Seq(R)
  BY DEF IsSeq
<1> DEFINE A == S \cup R \cup {Chars(key), Mark("LF")}
<1>3. value \in Seq(A) /\ rest \in Seq(A) /\ Chars(key) \in A /\ Mark("LF") \in A
  BY <1>1, <1>2
<1> HIDE DEF A
<1>4. (<<Chars(key)>> \o value) \o (<<Mark("LF")>> \o rest) \in Seq(A)
  BY <1>3
<1> QED BY <1>4 DEF IsSeq, CanonLine

\* The first line end of a line is where it ends.
LEMMA LineSplits ==
    ASSUME NEW key, NEW v, NEW w, NEW r, NEW q, NoEnd(v), NoEnd(w), IsSeq(r), IsSeq(q),
           CanonLine(key, v, r) = CanonLine(key, w, q)
    PROVE  v \in {w} /\ r \in {q}
<1> DEFINE end == Mark("LF")
           a == <<Chars(key)>> \o v
           b == <<Chars(key)>> \o w
           x == a \o (<<end>> \o r)
<1>1. PICK S : v \in Seq(S) /\ end \notin S
  BY DEF NoEnd
<1>2. PICK T : w \in Seq(T) /\ end \notin T
  BY DEF NoEnd
<1>3. PICK R : r \in Seq(R)
  BY DEF IsSeq
<1>4. PICK Q : q \in Seq(Q)
  BY DEF IsSeq
<1>5. Chars(key) # end
  BY DEF Chars, Mark
<1>6. x = b \o (<<end>> \o q)
  BY DEF CanonLine
<1> DEFINE U == S \cup T \cup {Chars(key)}
           W == R \cup Q \cup {end}
<1>7. /\ v \in Seq(U) /\ w \in Seq(U) /\ Chars(key) \in U /\ end \notin U
      /\ r \in Seq(W) /\ q \in Seq(W) /\ end \in W
  <2> HIDE DEF end
  <2> QED BY <1>1, <1>2, <1>3, <1>4, <1>5
<1> HIDE DEF U, W, end
<1>8. /\ a \in Seq(U) /\ b \in Seq(U) /\ Len(a) = Len(v) + 1 /\ Len(b) = Len(w) + 1
      /\ <<end>> \o r \in Seq(W) /\ <<end>> \o q \in Seq(W)
      /\ (<<end>> \o r)[1] = end /\ (<<end>> \o q)[1] = end
      /\ Len(<<end>> \o r) = Len(r) + 1 /\ Len(<<end>> \o q) = Len(q) + 1
      /\ Len(v) \in Nat /\ Len(w) \in Nat /\ Len(r) \in Nat /\ Len(q) \in Nat
  BY <1>7
<1>9. /\ \A i \in 1 .. Len(v) : v[i] = a[i + 1]
      /\ \A i \in 1 .. Len(w) : w[i] = b[i + 1]
      /\ \A i \in 1 .. Len(r) : r[i] = (<<end>> \o r)[i + 1]
      /\ \A i \in 1 .. Len(q) : q[i] = (<<end>> \o q)[i + 1]
  BY <1>7
<1> DEFINE re == <<end>> \o r
           qe == <<end>> \o q
<1> HIDE DEF a, b, re, qe
<1>10. x = a \o re /\ x = b \o qe
  BY <1>6 DEF re, qe
<1> HIDE DEF x
<1>11. /\ a \in Seq(U) /\ b \in Seq(U) /\ re \in Seq(W) /\ qe \in Seq(W)
       /\ re[1] = end /\ qe[1] = end /\ Len(re) = Len(r) + 1 /\ Len(qe) = Len(q) + 1
       /\ Len(a) = Len(v) + 1 /\ Len(b) = Len(w) + 1
  BY <1>8 DEF re, qe
<1>12. /\ \A i \in 1 .. Len(a) : x[i] = a[i]
       /\ \A i \in 1 .. Len(b) : x[i] = b[i]
       /\ \A i \in 1 .. Len(re) : x[Len(a) + i] = re[i]
       /\ \A i \in 1 .. Len(qe) : x[Len(b) + i] = qe[i]
       /\ Len(x) = Len(a) + Len(re) /\ Len(x) = Len(b) + Len(qe)
  <2>1. /\ \A i \in 1 .. Len(a) : (a \o re)[i] = a[i]
        /\ \A i \in 1 .. Len(re) : (a \o re)[Len(a) + i] = re[i]
        /\ Len(a \o re) = Len(a) + Len(re)
    <3>1. a \in Seq(U) /\ re \in Seq(W)
      BY <1>11
    <3> QED BY <3>1, JoinedAt, Zenon
  <2>2. /\ \A i \in 1 .. Len(b) : (b \o qe)[i] = b[i]
        /\ \A i \in 1 .. Len(qe) : (b \o qe)[Len(b) + i] = qe[i]
        /\ Len(b \o qe) = Len(b) + Len(qe)
    <3>1. b \in Seq(U) /\ qe \in Seq(W)
      BY <1>11
    <3> QED BY <3>1, JoinedAt, Zenon
  <2> QED BY <1>10, <2>1, <2>2
<1>13. x[Len(a) + 1] = end /\ x[Len(b) + 1] = end
  <2>1. 1 \in 1 .. Len(re) /\ 1 \in 1 .. Len(qe)
    BY <1>8, <1>11
  <2> QED BY <1>11, <1>12, <2>1
<1>14. Len(a) = Len(b)
  <2>1. ~(Len(a) < Len(b))
    <3> SUFFICES ASSUME Len(a) < Len(b) PROVE FALSE
      OBVIOUS
    <3>1. Len(a) + 1 \in 1 .. Len(b)
      BY <1>8, <1>11
    <3>2. b[Len(a) + 1] \in U /\ b[Len(a) + 1] = end
      BY <1>11, <1>12, <1>13, <3>1
    <3> QED BY <1>7, <3>2
  <2>2. ~(Len(b) < Len(a))
    <3> SUFFICES ASSUME Len(b) < Len(a) PROVE FALSE
      OBVIOUS
    <3>1. Len(b) + 1 \in 1 .. Len(a)
      BY <1>8, <1>11
    <3>2. a[Len(b) + 1] \in U /\ a[Len(b) + 1] = end
      BY <1>11, <1>12, <1>13, <3>1
    <3> QED BY <1>7, <3>2
  <2> QED BY <1>8, <1>11, <2>1, <2>2
<1>15. Len(v) = Len(w) /\ Len(r) = Len(q)
  BY <1>8, <1>11, <1>12, <1>14
<1>16. \A i \in 1 .. Len(v) : v[i] = w[i]
  <2> SUFFICES ASSUME NEW i \in 1 .. Len(v) PROVE v[i] = w[i]
    OBVIOUS
  <2>1. i + 1 \in 1 .. Len(a) /\ i + 1 \in 1 .. Len(b) /\ i \in 1 .. Len(w)
    BY <1>8, <1>11, <1>15
  <2> QED BY <1>9, <1>12, <2>1
<1>17. \A i \in 1 .. Len(r) : r[i] = q[i]
  <2> SUFFICES ASSUME NEW i \in 1 .. Len(r) PROVE r[i] = q[i]
    OBVIOUS
  <2>1. i + 1 \in 1 .. Len(re) /\ i + 1 \in 1 .. Len(qe) /\ i \in 1 .. Len(q)
    BY <1>8, <1>11, <1>15
  <2>2. x[Len(a) + (i + 1)] = re[i + 1] /\ x[Len(b) + (i + 1)] = qe[i + 1]
    BY <1>12, <2>1
  <2>3. r[i] = re[i + 1] /\ q[i] = qe[i + 1]
    BY <1>9, <2>1 DEF re, qe
  <2> QED BY <1>14, <2>2, <2>3
<1>18. v = w
  BY <1>7, <1>15, <1>16
<1>19. r = q
  BY <1>7, <1>15, <1>17
<1> QED BY <1>18, <1>19

-----------------------------------------------------------------------------
(* Words in the canonical text.                                              *)

\* What one symbol says.
LEMMA SymbolsApart ==
    /\ \A u, v : <<Chars(u)>> = <<Chars(v)>> => u \in {v}
    /\ \A m, n : <<Number(m)>> = <<Number(n)>> => m \in {n}
    /\ \A m, n : <<Digits(m)>> = <<Digits(n)>> => m \in {n}
    /\ \A f, g \in BOOLEAN : <<YesNo(f)>> = <<YesNo(g)>> => f \in {g}
    /\ \A u : Chars(u).is # "mark" /\ Digits(u).is # "mark" /\ Number(u).is # "mark"
              /\ YesNo(u).is # "mark"
<1>1. \A u, v : <<Chars(u)>> = <<Chars(v)>> => u \in {v}
  BY DEF Chars
<1>2. \A m, n : <<Digits(m)>> = <<Digits(n)>> => m \in {n}
  BY DEF Digits
<1>3. \A m, n : <<Number(m)>> = <<Number(n)>> => m \in {n}
  BY DEF Number, Digits, Chars
<1>4. \A f, g \in BOOLEAN : <<YesNo(f)>> = <<YesNo(g)>> => f \in {g}
  BY DEF YesNo, Chars
<1>5. \A u : Chars(u).is # "mark" /\ Digits(u).is # "mark" /\ Number(u).is # "mark"
             /\ YesNo(u).is # "mark"
  BY DEF YesNo, Number, Digits, Chars
<1> QED BY <1>1, <1>2, <1>3, <1>4, <1>5

Pure(word) == word \notin DOMAIN Spelled

LEMMA PureWord ==
    ASSUME NEW word, Pure(word)
    PROVE  /\ Spell(word) = <<Chars(word)>> /\ NoEnd(Spell(word))
           /\ Spell(Blank(word)) = <<Chars(Blank(word))>> /\ NoEnd(Spell(Blank(word)))
<1>1. \A u : NoEnd(<<Chars(u)>>)
  BY SymbolsApart, NoEndAlone
<1>2. Empty \notin DOMAIN Spelled
  BY RulesAssumption
<1>3. Spell(word) = <<Chars(word)>> /\ Spell(Blank(word)) = <<Chars(Blank(word))>>
  BY <1>2 DEF Spell, Blank, Pure
<1> QED BY <1>1, <1>3

\* Words without a separator stand at every other place, the separator between them.
LEMMA JoinShape ==
    ASSUME NEW sep, NEW S, NEW words \in Seq(S), words # <<>>,
           \A k \in DOMAIN words : Pure(words[k])
    PROVE  /\ Len(Join(sep, words)) = 2 * Len(words) - 1
           /\ \A k \in 1 .. Len(words) : Join(sep, words)[2 * k - 1] = Chars(words[k])
           /\ \E W : Join(sep, words) \in Seq(W)
                     /\ \A c \in W : c = Mark(sep) \/ \E u : c = Chars(u)
<1> DEFINE N == Len(words)
           Place(i) == <<Mark(sep)>> \o Spell(words[i])
           seqs == [i \in DOMAIN words |-> Place(i)]
           W == {Mark(sep)} \cup {Chars(u) : u \in S}
<1>1. N \in Nat \ {0} /\ DOMAIN words = 1 .. N /\ \A i \in 1 .. N : words[i] \in S
  OBVIOUS
<1>2. \A i \in 1 .. N : Spell(words[i]) = <<Chars(words[i])>>
  BY <1>1, PureWord
<1>3. \A i \in 1 .. N : /\ Place(i) \in Seq(W) /\ Len(Place(i)) = 2
                        /\ Place(i)[2] = Chars(words[i])
  <2> SUFFICES ASSUME NEW i \in 1 .. N
               PROVE  Place(i) \in Seq(W) /\ Len(Place(i)) = 2 /\ Place(i)[2] = Chars(words[i])
    OBVIOUS
  <2>1. Chars(words[i]) \in W /\ Mark(sep) \in W
    BY <1>1
  <2>2. Place(i) = <<Mark(sep)>> \o <<Chars(words[i])>>
    BY <1>2
  <2> HIDE DEF W, Place
  <2> QED BY <2>1, <2>2
<1> HIDE DEF Place
<1>4. seqs \in Seq(Seq(W)) /\ Len(seqs) = N /\ seqs # <<>> /\ \A i \in 1 .. N : seqs[i] = Place(i)
  <2> HIDE DEF W
  <2> QED BY <1>1, <1>3
<1>5. Join(sep, words) = Tail(FlattenSeq(seqs))
  BY DEF Join, Place
<1> HIDE DEF seqs, W, N
<1>6. PICK U : /\ U[1] = seqs[1] /\ \A i \in 2 .. N : U[i] = U[i - 1] \o seqs[i]
               /\ \A i \in 1 .. N : U[i] \in Seq(W)
               /\ FlattenSeq(seqs) = U[N]
  <2>1. PICK V : /\ V[1] = seqs[1] /\ \A i \in 2 .. Len(seqs) : V[i] = V[i - 1] \o seqs[i]
                 /\ \A i \in 1 .. Len(seqs) : V[i] \in Seq(W)
                 /\ FlattenSeq(seqs) = V[Len(seqs)]
    BY <1>4, Flattened
  <2>2. /\ V[1] = seqs[1] /\ \A i \in 2 .. N : V[i] = V[i - 1] \o seqs[i]
        /\ \A i \in 1 .. N : V[i] \in Seq(W)
        /\ FlattenSeq(seqs) = V[N]
    BY <1>4, <2>1
  <2> QED BY <2>2
<1> DEFINE Right(i) == Len(U[i]) = 2 * i /\ \A k \in 1 .. i : U[i][2 * k] = Chars(words[k])
           Wrong == {i \in 1 .. N : ~Right(i)}
<1>7. Wrong = {}
  <2> SUFFICES ASSUME Wrong # {} PROVE FALSE
    OBVIOUS
  <2>1. PICK w \in Wrong : \A y \in Wrong : w <= y
    <3>1. Wrong \in SUBSET Nat
      BY <1>1
    <3> HIDE DEF Wrong
    <3> QED BY <3>1, LeastNumber
  <2>2. w \in 1 .. N /\ ~Right(w)
    OBVIOUS
  <2>3. Right(1)
    <3>1. 1 \in 1 .. N
      BY <1>1
    <3>2. U[1] = Place(1)
      BY <1>4, <1>6, <3>1
    <3> QED BY <1>3, <3>1, <3>2
  <2>4. w # 1
    <3> HIDE DEF Right
    <3> QED BY <2>2, <2>3
  <2>5. w - 1 \in 1 .. N /\ w \in 2 .. N /\ Right(w - 1)
    <3> HIDE DEF Right
    <3> QED BY <1>1, <2>1, <2>2, <2>4
  <2>6. U[w] = U[w - 1] \o Place(w) /\ U[w - 1] \in Seq(W) /\ Place(w) \in Seq(W)
    BY <1>3, <1>4, <1>6, <2>2, <2>5
  <2>7. Len(U[w]) = 2 * w /\ Len(U[w - 1]) + 2 = 2 * w
    <3>1. Len(U[w - 1]) = 2 * (w - 1)
      BY <2>5
    <3>2. Len(U[w]) = Len(U[w - 1]) + Len(Place(w))
      BY <2>6, JoinedAt
    <3>3. Len(Place(w)) = 2 /\ w \in Nat
      BY <1>1, <1>3, <2>2
    <3> HIDE DEF Right
    <3> QED BY <3>1, <3>2, <3>3
  <2>8. \A k \in 1 .. w : U[w][2 * k] = Chars(words[k])
    <3> SUFFICES ASSUME NEW k \in 1 .. w PROVE U[w][2 * k] = Chars(words[k])
      OBVIOUS
    <3>1. CASE k # w
      <4>1. k \in 1 .. w - 1 /\ 2 * k \in 1 .. Len(U[w - 1])
        BY <1>1, <2>2, <2>5, <3>1
      <4>2. U[w][2 * k] = U[w - 1][2 * k]
        BY <1>3, <2>2, <2>6, <4>1
      <4> QED BY <2>5, <4>1, <4>2
    <3>2. CASE k = w
      <4>1. 2 \in 1 .. Len(Place(w)) /\ Place(w)[2] = Chars(words[w])
        BY <1>3, <2>2
      <4>2. U[w][Len(U[w - 1]) + 2] = Place(w)[2]
        BY <2>6, <4>1, JoinedAt
      <4> HIDE DEF Right
      <4> QED BY <2>7, <3>2, <4>1, <4>2
    <3> QED BY <3>1, <3>2
  <2> QED BY <2>2, <2>7, <2>8
<1>8. Right(N) /\ U[N] \in Seq(W)
  <2>1. N \in 1 .. N
    BY <1>1
  <2> HIDE DEF Right
  <2> QED BY <1>6, <1>7, <2>1
<1> DEFINE j == Join(sep, words)
<1>9. j = Tail(U[N])
  BY <1>5, <1>6
<1> HIDE DEF j
<1>10. Len(j) = 2 * N - 1 /\ j \in Seq(W)
  BY <1>1, <1>8, <1>9
<1>11. \A k \in 1 .. N : j[2 * k - 1] = Chars(words[k])
  <2> SUFFICES ASSUME NEW k \in 1 .. N PROVE j[2 * k - 1] = Chars(words[k])
    OBVIOUS
  <2>1. 2 * k - 1 \in 1 .. Len(U[N]) - 1
    BY <1>1, <1>8
  <2>2. j[2 * k - 1] = U[N][(2 * k - 1) + 1]
    BY <1>8, <1>9, <2>1
  <2>3. (2 * k - 1) + 1 = 2 * k
    BY <1>1
  <2> QED BY <1>8, <2>2, <2>3
<1>12. \A c \in W : c = Mark(sep) \/ \E u : c = Chars(u)
  BY DEF W
<1> QED BY <1>10, <1>11, <1>12 DEF j, N

LEMMA ListsTellApart ==
    ASSUME NEW sep, NEW S, NEW a \in Seq(S), NEW b \in Seq(S), a # <<>>, b # <<>>,
           \A k \in DOMAIN a : Pure(a[k]), \A k \in DOMAIN b : Pure(b[k]),
           Join(sep, a) = Join(sep, b)
    PROVE  a \in {b}
<1>1. \A u, v : Chars(u) = Chars(v) => u \in {v}
  BY DEF Chars
<1>2. /\ Len(Join(sep, a)) = 2 * Len(a) - 1
      /\ \A k \in 1 .. Len(a) : Join(sep, a)[2 * k - 1] = Chars(a[k])
  BY JoinShape
<1>3. /\ Len(Join(sep, b)) = 2 * Len(b) - 1
      /\ \A k \in 1 .. Len(b) : Join(sep, b)[2 * k - 1] = Chars(b[k])
  BY JoinShape
<1>4. Len(a) = Len(b)
  BY <1>2, <1>3
<1>5. \A k \in 1 .. Len(a) : a[k] = b[k]
  <2> SUFFICES ASSUME NEW k \in 1 .. Len(a) PROVE a[k] = b[k]
    OBVIOUS
  <2>1. Chars(a[k]) = Chars(b[k])
    BY <1>2, <1>3, <1>4
  <2> QED BY <1>1, <2>1
<1> QED BY <1>4, <1>5

\* Joined, two lists of such words look the same only if they are the same, but for
\* the empty list and the list of an empty word.
LEMMA JoinTellsApart ==
    ASSUME NEW sep, NEW S, NEW a \in Seq(S), NEW b \in Seq(S),
           \A k \in DOMAIN a : Pure(a[k]), \A k \in DOMAIN b : Pure(b[k]),
           a # <<Empty>>, b # <<Empty>>, Join(sep, a) = Join(sep, b)
    PROVE  a \in {b}
<1>1. \A u, v : Chars(u) = Chars(v) => u \in {v}
  BY DEF Chars
<1>2. ASSUME NEW words \in Seq(S), \A k \in DOMAIN words : Pure(words[k]),
             words # <<>>, Join(sep, words) = <<Chars(Empty)>>
      PROVE  words = <<Empty>>
  <2>1. 2 * Len(words) - 1 = 1 /\ Len(words) \in Nat
    <3>1. Len(Join(sep, words)) = 2 * Len(words) - 1
      BY <1>2, JoinShape
    <3>2. Len(<<Chars(Empty)>>) = 1
      OBVIOUS
    <3>3. Len(words) \in Nat
      OBVIOUS
    <3>4. 2 * Len(words) - 1 = 1
      BY <1>2, <3>1, <3>2, Zenon
    <3> QED BY <3>3, <3>4
  <2>2. Len(words) = 1
    <3> DEFINE n == Len(words)
    <3>1. 2 * n - 1 = 1 /\ n \in Nat
      BY <2>1
    <3> HIDE DEF n
    <3>2. n = 1
      BY <3>1
    <3> QED BY <3>2 DEF n
  <2>3. Join(sep, words)[2 * 1 - 1] = Chars(words[1])
    <3>1. 1 \in 1 .. Len(words)
      BY <2>2
    <3>2. \A k \in 1 .. Len(words) : Join(sep, words)[2 * k - 1] = Chars(words[k])
      BY <1>2, JoinShape
    <3> QED BY <3>1, <3>2
  <2>4. Chars(Empty) = Chars(words[1])
    BY <1>2, <2>3
  <2>5. words[1] = Empty
    BY <1>1, <2>4
  <2> QED BY <2>2, <2>5
<1>3. Join(sep, <<>>) = <<Chars(Empty)>>
  BY DEF Join
<1>4. CASE a = <<>>
  <2>1. Join(sep, b) = <<Chars(Empty)>>
    BY <1>3, <1>4
  <2> QED BY <1>2, <1>4, <2>1
<1>5. CASE b = <<>>
  <2>1. Join(sep, a) = <<Chars(Empty)>>
    BY <1>3, <1>5
  <2> QED BY <1>2, <1>5, <2>1
<1>6. CASE a # <<>> /\ b # <<>>
  BY <1>6, ListsTellApart
<1> QED BY <1>4, <1>5, <1>6

LEMMA JoinHasNoEnd ==
    ASSUME NEW sep, NEW S, sep # "LF", NEW words \in Seq(S),
           \A k \in DOMAIN words : Pure(words[k])
    PROVE  NoEnd(Join(sep, words))
<1>1. CASE words = <<>>
  <2>1. Join(sep, words) = <<Chars(Empty)>>
    BY <1>1 DEF Join
  <2> QED BY <2>1, SymbolsApart, NoEndAlone
<1>2. CASE words # <<>>
  <2>1. PICK W : Join(sep, words) \in Seq(W)
                 /\ \A c \in W : c = Mark(sep) \/ \E u : c = Chars(u)
    BY <1>2, JoinShape
  <2>2. Mark("LF") # Mark(sep) /\ \A u : Mark("LF") # Chars(u)
    BY DEF Mark, Chars
  <2> QED BY <2>1, <2>2 DEF NoEnd
<1> QED BY <1>1, <1>2

-----------------------------------------------------------------------------
(* A schedule in the canonical text.                                         *)

DayName == STRING \cup {"day"}

LEMMA OneInSeq ==
    ASSUME NEW S, NEW w \in S
    PROVE  <<w>> \in Seq(S)
OBVIOUS

LEMMA WordsAreTexts ==
    ASSUME NEW tokens \in Seq(RawToken)
    PROVE  Words([i \in DOMAIN tokens |-> ParseEveryInterval(tokens[i])]) \in Seq(DayName)
<1> DEFINE parsed == [i \in DOMAIN tokens |-> ParseEveryInterval(tokens[i])]
           Said(i) == IF parsed[i].kind = "named" THEN <<parsed[i].word>> ELSE <<>>
           seqs == [i \in DOMAIN parsed |-> Said(i)]
<1>1. Len(tokens) \in Nat /\ DOMAIN parsed = 1 .. Len(tokens) /\ DOMAIN tokens = 1 .. Len(tokens)
  OBVIOUS
<1>2. \A i \in 1 .. Len(tokens) : parsed[i].kind = "named" => parsed[i].word \in DayName
  <2> SUFFICES ASSUME NEW i \in 1 .. Len(tokens), parsed[i].kind = "named"
               PROVE  parsed[i].word \in DayName
    OBVIOUS
  <2>1. tokens[i] \in RawToken /\ parsed[i] = ParseEveryInterval(tokens[i])
    <3>1. parsed[i] = ParseEveryInterval(tokens[i])
      BY <1>1
    <3>2. tokens[i] \in RawToken
      <4> HIDE DEF parsed
      <4> QED OBVIOUS
    <3> QED BY <3>1, <3>2
  <2>2. tokens[i].unit \notin {"m", "h"} => tokens[i].word \in DayName
    <3> HIDE DEF parsed
    <3> QED BY <2>1 DEF RawToken, DayName
  <2>3. ParseEveryInterval(tokens[i]).kind = "named" =>
            tokens[i].unit \notin {"m", "h"} /\ ParseEveryInterval(tokens[i]).word = tokens[i].word
    <3> HIDE DEF parsed
    <3>1. CASE tokens[i].unit = "m"
      BY <3>1, EmptyIsNoWord DEF ParseEveryInterval
    <3>2. CASE tokens[i].unit = "h"
      BY <3>2, EmptyIsNoWord DEF ParseEveryInterval
    <3>3. CASE tokens[i].unit \notin {"m", "h"}
      BY <3>3 DEF ParseEveryInterval, NoInterval
    <3> QED BY <3>1, <3>2, <3>3
  <2> HIDE DEF parsed
  <2> QED BY <2>1, <2>2, <2>3
<1> HIDE DEF parsed
<1>3. \A i \in 1 .. Len(tokens) : Said(i) \in Seq(DayName)
  <2> SUFFICES ASSUME NEW i \in 1 .. Len(tokens) PROVE Said(i) \in Seq(DayName)
    OBVIOUS
  <2>1. CASE parsed[i].kind = "named"
    <3> DEFINE w == parsed[i].word
    <3>1. w \in DayName /\ Said(i) = <<w>>
      BY <1>2, <2>1
    <3> HIDE DEF w, Said
    <3>2. <<w>> \in Seq(DayName)
      BY <3>1, OneInSeq, Zenon
    <3> QED BY <3>1, <3>2, Zenon
  <2>2. CASE parsed[i].kind # "named"
    <3>1. Said(i) = <<>>
      BY <2>2
    <3> HIDE DEF Said
    <3> QED BY <3>1
  <2> QED BY <2>1, <2>2
<1> HIDE DEF Said
<1>4. seqs \in Seq(Seq(DayName))
  BY <1>1, <1>3
<1>5. Words(parsed) = FlattenSeq(seqs)
  BY DEF Words, Said
<1> HIDE DEF seqs
<1> QED BY <1>4, <1>5, FlattenIsSeq DEF parsed

\* The three shapes a schedule may have.
LEMMA ShapeOfSchedule ==
    ASSUME NEW raw, NEW zone, Typed(raw)
    PROVE  \/ NormalizeSchedule(raw, zone) = Cron(raw, zone)
           \/ \E kind \in {"minutes", "hours"} : \E n : NormalizeSchedule(raw, zone) = Aligned(kind, n)
           \/ \E days \in Seq(DayName) :
                  days # <<>> /\ NormalizeSchedule(raw, zone) = Calendar(raw, zone, days)
<1> DEFINE tokens == raw.every.tokens
           parsed == [i \in DOMAIN tokens |-> ParseEveryInterval(tokens[i])]
           days == IF Words(parsed) # <<>> THEN Words(parsed) ELSE <<"day">>
<1>1. days \in Seq(DayName) /\ days # <<>>
  <2>1. Words(parsed) \in Seq(DayName)
    <3>1. tokens \in Seq(RawToken)
      BY DEF Typed
    <3> HIDE DEF tokens
    <3> QED BY <3>1, WordsAreTexts, Zenon
  <2>2. <<"day">> \in Seq(DayName)
    <3>1. "day" \in DayName
      BY DEF DayName
    <3> QED BY <3>1, OneInSeq, Zenon
  <2>3. <<"day">> # <<>>
    OBVIOUS
  <2> HIDE DEF parsed
  <2> QED BY <2>1, <2>2, <2>3
<1>2. \/ NormalizeSchedule(raw, zone) = Cron(raw, zone)
      \/ /\ parsed[1].kind \in {"minutes", "hours"}
         /\ NormalizeSchedule(raw, zone) = Aligned(parsed[1].kind, parsed[1].n)
      \/ NormalizeSchedule(raw, zone) = Calendar(raw, zone, days)
  BY DEF NormalizeSchedule
<1> HIDE DEF days, parsed
<1> QED BY <1>1, <1>2

\* Tuples put together.
LEMMA Tuple2 ==
    ASSUME NEW c1, NEW c2
    PROVE  <<c1>> \o <<c2>> = <<c1, c2>>
<1> DEFINE S == {c1, c2}
           p == <<c1>> \o <<c2>>
           q == <<c1, c2>>
<1>1. <<c1>> \in Seq(S) /\ <<c2>> \in Seq(S) /\ q \in Seq(S)
  OBVIOUS
<1>2. q[1] = c1 /\ q[2] = c2 /\ Len(q) = 2
  OBVIOUS
<1> HIDE DEF S, q
<1>3. p \in Seq(S) /\ Len(p) = 2 /\ p[1] = c1 /\ p[2] = c2
  BY <1>1
<1> HIDE DEF p
<1>4. \A i \in 1 .. Len(p) : p[i] = q[i]
  BY <1>2, <1>3
<1>5. p = q
  BY <1>1, <1>2, <1>3, <1>4
<1> QED BY <1>5 DEF p, q

LEMMA Tuple3 ==
    ASSUME NEW c1, NEW c2, NEW c3
    PROVE  <<c1, c2>> \o <<c3>> = <<c1, c2, c3>>
<1> DEFINE S == {c1, c2, c3}
           h == <<c1, c2>>
           e == <<c3>>
           p == h \o e
           q == <<c1, c2, c3>>
<1>1. h \in Seq(S) /\ e \in Seq(S) /\ q \in Seq(S)
  OBVIOUS
<1>2. /\ q[1] = c1 /\ q[2] = c2 /\ q[3] = c3 /\ Len(q) = 3
      /\ h[1] = c1 /\ h[2] = c2 /\ Len(h) = 2 /\ e[1] = c3 /\ Len(e) = 1
  OBVIOUS
<1> HIDE DEF S, q, h, e
<1>3. p \in Seq(S) /\ Len(p) = 3 /\ p[1] = c1 /\ p[2] = c2 /\ p[3] = c3
  <2>1. /\ \A i \in 1 .. Len(h) : (h \o e)[i] = h[i]
        /\ \A i \in 1 .. Len(e) : (h \o e)[Len(h) + i] = e[i]
        /\ Len(h \o e) = Len(h) + Len(e)
    BY <1>1, JoinedAt, Zenon
  <2>2. p \in Seq(S)
    BY <1>1
  <2> HIDE DEF p
  <2>3. /\ \A i \in 1 .. 2 : p[i] = h[i]
        /\ \A i \in 1 .. 1 : p[2 + i] = e[i]
        /\ Len(p) = 2 + 1
    BY <1>2, <2>1 DEF p
  <2> QED BY <1>2, <2>2, <2>3
<1> HIDE DEF p
<1>4. \A i \in 1 .. Len(p) : p[i] = q[i]
  BY <1>2, <1>3
<1>5. p = q
  BY <1>1, <1>2, <1>3, <1>4
<1> QED BY <1>5 DEF p, q, h, e

LEMMA Tuple4 ==
    ASSUME NEW c1, NEW c2, NEW c3, NEW c4
    PROVE  <<c1, c2, c3>> \o <<c4>> = <<c1, c2, c3, c4>>
<1> DEFINE S == {c1, c2, c3, c4}
           h == <<c1, c2, c3>>
           e == <<c4>>
           p == h \o e
           q == <<c1, c2, c3, c4>>
<1>1. h \in Seq(S) /\ e \in Seq(S) /\ q \in Seq(S)
  OBVIOUS
<1>2. /\ q[1] = c1 /\ q[2] = c2 /\ q[3] = c3 /\ q[4] = c4 /\ Len(q) = 4
      /\ h[1] = c1 /\ h[2] = c2 /\ h[3] = c3 /\ Len(h) = 3 /\ e[1] = c4 /\ Len(e) = 1
  OBVIOUS
<1> HIDE DEF S, q, h, e
<1>3. p \in Seq(S) /\ Len(p) = 4 /\ p[1] = c1 /\ p[2] = c2 /\ p[3] = c3 /\ p[4] = c4
  <2>1. /\ \A i \in 1 .. Len(h) : (h \o e)[i] = h[i]
        /\ \A i \in 1 .. Len(e) : (h \o e)[Len(h) + i] = e[i]
        /\ Len(h \o e) = Len(h) + Len(e)
    BY <1>1, JoinedAt, Zenon
  <2>2. p \in Seq(S)
    BY <1>1
  <2> HIDE DEF p
  <2>3. /\ \A i \in 1 .. 3 : p[i] = h[i]
        /\ \A i \in 1 .. 1 : p[3 + i] = e[i]
        /\ Len(p) = 3 + 1
    BY <1>2, <2>1 DEF p
  <2> QED BY <1>2, <2>2, <2>3
<1> HIDE DEF p
<1>4. \A i \in 1 .. Len(p) : p[i] = q[i]
  BY <1>2, <1>3
<1>5. p = q
  BY <1>1, <1>2, <1>3, <1>4
<1> QED BY <1>5 DEF p, q, h, e

PureSchedule(s) == Pure(s.at) /\ Pure(s.zone) /\ \A k \in DOMAIN s.days : Pure(s.days[k])

\* What stands behind the days of a calendar.
Suffix(s) ==
    <<Mark(":at=")>> \o Spell(s.at) \o <<Mark(":tz=")>> \o Spell(Blank(s.zone))
    \o <<Mark(":on_day="), Number(s.onDay), Mark(":last_day="), YesNo(s.lastDay)>>

\* A time and a zone without a separator.
AtZone(c, s) == <<c, Chars(s.at), Mark(":tz="), Chars(Blank(s.zone))>>

LEMMA AtZoneShape ==
    ASSUME NEW c, NEW s, PureSchedule(s)
    PROVE  <<c>> \o Spell(s.at) \o <<Mark(":tz=")>> \o Spell(Blank(s.zone)) = AtZone(c, s)
<1> DEFINE u == Chars(s.at)
           m == Mark(":tz=")
           v == Chars(Blank(s.zone))
<1>1. Spell(s.at) = <<u>> /\ Spell(Blank(s.zone)) = <<v>>
  BY PureWord DEF PureSchedule
<1> HIDE DEF u, m, v
<1>2. <<c>> \o <<u>> = <<c, u>>
  BY Tuple2, Zenon
<1>3. <<c, u>> \o <<m>> = <<c, u, m>>
  BY Tuple3, Zenon
<1>4. <<c, u, m>> \o <<v>> = <<c, u, m, v>>
  BY Tuple4, Zenon
<1>5. <<c>> \o Spell(s.at) \o <<m>> \o Spell(Blank(s.zone)) = <<c, u, m, v>>
  BY <1>1, <1>2, <1>3, <1>4, Zenon
<1> QED BY <1>5 DEF u, m, v, AtZone

\* It is of the same length for all, and each field has its place.
LEMMA SuffixShape ==
    ASSUME NEW s, PureSchedule(s)
    PROVE  /\ NoEnd(Suffix(s)) /\ Len(Suffix(s)) \in {8}
           /\ Suffix(s)[2] = Chars(s.at) /\ Suffix(s)[6] = Number(s.onDay)
           /\ Suffix(s)[8] = YesNo(s.lastDay)
<1> DEFINE front == AtZone(Mark(":at="), s)
           back == <<Mark(":on_day="), Number(s.onDay), Mark(":last_day="), YesNo(s.lastDay)>>
<1>1. Suffix(s) = front \o back
  <2> HIDE DEF front, back
  <2>1. <<Mark(":at=")>> \o Spell(s.at) \o <<Mark(":tz=")>> \o Spell(Blank(s.zone)) = front
    BY AtZoneShape DEF front
  <2>2. Suffix(s) = <<Mark(":at=")>> \o Spell(s.at) \o <<Mark(":tz=")>> \o Spell(Blank(s.zone)) \o back
    BY DEF Suffix, back
  <2> QED BY <2>1, <2>2, Zenon
<1>2. \A u : Chars(u) # Mark("LF") /\ Number(u) # Mark("LF") /\ YesNo(u) # Mark("LF")
  BY DEF Chars, Number, YesNo, Digits, Mark
<1>3. \A u : u # "LF" => Mark(u) # Mark("LF")
  BY DEF Mark
<1>4. NoEnd(front) /\ NoEnd(back)
  BY <1>2, <1>3, NoEndFour DEF AtZone
<1>5. /\ Len(front) = 4 /\ front[2] = Chars(s.at) /\ Len(back) = 4
      /\ back[2] = Number(s.onDay) /\ back[4] = YesNo(s.lastDay)
  BY DEF AtZone
<1> HIDE DEF front, back
<1>6. NoEnd(front \o back)
  BY <1>4, NoEndJoined
<1>7. PICK F : front \in Seq(F)
  BY <1>4 DEF NoEnd
<1>8. PICK B : back \in Seq(B)
  BY <1>4 DEF NoEnd
<1>9. /\ \A i \in 1 .. Len(front) : (front \o back)[i] = front[i]
      /\ \A i \in 1 .. Len(back) : (front \o back)[Len(front) + i] = back[i]
      /\ Len(front \o back) = Len(front) + Len(back)
  BY <1>7, <1>8, JoinedAt, Zenon
<1>10. /\ (front \o back)[2] = front[2] /\ (front \o back)[6] = back[2]
       /\ (front \o back)[8] = back[4] /\ Len(front \o back) = 8
  BY <1>5, <1>9
<1> QED BY <1>1, <1>5, <1>6, <1>10

LEMMA CronShape ==
    ASSUME NEW s, PureSchedule(s), s.kind = "cron"
    PROVE  CanonicalSchedule(s) = AtZone(Chars("cron:"), s)
<1>1. CanonicalSchedule(s) =
          <<Chars("cron:")>> \o Spell(s.at) \o <<Mark(":tz=")>> \o Spell(Blank(s.zone))
  BY DEF CanonicalSchedule
<1> QED BY <1>1, AtZoneShape, Zenon

LEMMA CalendarShape ==
    ASSUME NEW s, s.kind = "calendar"
    PROVE  CanonicalSchedule(s) = (<<Chars("calendar:days=")>> \o Join(",", s.days)) \o Suffix(s)
BY DEF CanonicalSchedule, Suffix

LEMMA AlignedShape ==
    ASSUME NEW s, s.kind \in {"minutes", "hours"}
    PROVE  CanonicalSchedule(s) = <<Chars(s.kind), Digits(s.n)>>
BY DEF CanonicalSchedule

\* Two texts with ends of one length.
LEMMA SameSeq ==
    ASSUME NEW S, NEW x \in Seq(S), NEW y \in Seq(S), Len(x) \in {Len(y)},
           \A i \in 1 .. Len(x) : x[i] \in {y[i]}
    PROVE  x \in {y}
OBVIOUS

Ended(c, v, f) == (<<c>> \o v) \o f

LEMMA EndsSplit ==
    ASSUME NEW c, NEW v, NEW w, NEW f, NEW g, IsSeq(v), IsSeq(w), IsSeq(f), IsSeq(g),
           Len(f) \in {8}, Len(g) \in {8}, Ended(c, v, f) = Ended(c, w, g)
    PROVE  v \in {w} /\ f \in {g}
<1> DEFINE a == <<c>> \o v
           b == <<c>> \o w
<1>1. PICK V : v \in Seq(V)
  BY DEF IsSeq
<1>2. PICK W : w \in Seq(W)
  BY DEF IsSeq
<1>3. PICK F : f \in Seq(F)
  BY DEF IsSeq
<1>4. PICK G : g \in Seq(G)
  BY DEF IsSeq
<1> DEFINE A == V \cup W \cup {c}
           B == F \cup G
<1>5. v \in Seq(A) /\ w \in Seq(A) /\ c \in A /\ f \in Seq(B) /\ g \in Seq(B)
  BY <1>1, <1>2, <1>3, <1>4
<1> HIDE DEF A, B
<1>6. /\ a \in Seq(A) /\ b \in Seq(A) /\ Len(a) = Len(v) + 1 /\ Len(b) = Len(w) + 1
      /\ Len(v) \in Nat /\ Len(w) \in Nat
  BY <1>5
<1>7. /\ \A i \in 1 .. Len(v) : v[i] = a[i + 1]
      /\ \A i \in 1 .. Len(w) : w[i] = b[i + 1]
  BY <1>5
<1>8. a \o f = b \o g
  BY DEF Ended
<1> HIDE DEF a, b
<1> DEFINE x == a \o f
<1>9. /\ \A i \in 1 .. Len(a) : x[i] = a[i]
      /\ \A i \in 1 .. Len(f) : x[Len(a) + i] = f[i]
      /\ Len(x) = Len(a) + Len(f)
  <2>1. a \in Seq(A) /\ f \in Seq(B)
    BY <1>5, <1>6
  <2> QED BY <2>1, JoinedAt
<1>10. /\ \A i \in 1 .. Len(b) : x[i] = b[i]
       /\ \A i \in 1 .. Len(g) : x[Len(b) + i] = g[i]
       /\ Len(x) = Len(b) + Len(g)
  <2>1. b \in Seq(A) /\ g \in Seq(B)
    BY <1>5, <1>6
  <2>2. /\ \A i \in 1 .. Len(b) : (b \o g)[i] = b[i]
        /\ \A i \in 1 .. Len(g) : (b \o g)[Len(b) + i] = g[i]
        /\ Len(b \o g) = Len(b) + Len(g)
    BY <2>1, JoinedAt
  <2> QED BY <1>8, <2>2
<1> HIDE DEF x
<1>11. Len(f) = 8 /\ Len(g) = 8
  OBVIOUS
<1>12. Len(a) = Len(b) /\ Len(v) = Len(w)
  BY <1>6, <1>9, <1>10, <1>11
<1>13. \A i \in 1 .. Len(v) : v[i] = w[i]
  <2> SUFFICES ASSUME NEW i \in 1 .. Len(v) PROVE v[i] = w[i]
    OBVIOUS
  <2>1. i + 1 \in 1 .. Len(a) /\ i + 1 \in 1 .. Len(b) /\ i \in 1 .. Len(w)
    BY <1>6, <1>12
  <2>2. a[i + 1] = b[i + 1]
    BY <1>9, <1>10, <2>1
  <2> QED BY <1>7, <2>1, <2>2
<1>14. \A i \in 1 .. Len(f) : f[i] = g[i]
  <2> SUFFICES ASSUME NEW i \in 1 .. Len(f) PROVE f[i] = g[i]
    OBVIOUS
  <2>1. x[Len(a) + i] = f[i] /\ i \in 1 .. Len(g)
    BY <1>9, <1>11
  <2>2. x[Len(b) + i] = g[i]
    BY <1>10, <2>1
  <2> QED BY <1>12, <2>1, <2>2
<1>15. v = w
  BY <1>5, <1>12, <1>13
<1>16. f = g
  <2>1. Len(f) \in {Len(g)}
    BY <1>11
  <2>2. \A i \in 1 .. Len(f) : f[i] \in {g[i]}
    BY <1>14
  <2>3. f \in {g}
    BY <1>5, <2>1, <2>2, SameSeq, Zenon
  <2> QED BY <2>3
<1> QED BY <1>15, <1>16

\* The shapes, and what their texts begin with.
LEMMA ScheduleText ==
    ASSUME NEW raw, NEW zone, Typed(raw), PureSchedule(NormalizeSchedule(raw, zone))
    PROVE  LET s == NormalizeSchedule(raw, zone) IN
           /\ NoEnd(CanonicalSchedule(s))
           /\ \/ s = Cron(raw, zone) /\ CanonicalSchedule(s)[1] = Chars("cron:")
              \/ /\ \E kind \in {"minutes", "hours"} : \E n : s = Aligned(kind, n)
                 /\ CanonicalSchedule(s)[1] = Chars(s.kind)
              \/ /\ \E days \in Seq(DayName) : days # <<>> /\ s = Calendar(raw, zone, days)
                 /\ CanonicalSchedule(s)[1] = Chars("calendar:days=")
<1> DEFINE s == NormalizeSchedule(raw, zone)
<1>1. \/ s = Cron(raw, zone)
      \/ \E kind \in {"minutes", "hours"} : \E n : s = Aligned(kind, n)
      \/ \E days \in Seq(DayName) : days # <<>> /\ s = Calendar(raw, zone, days)
  BY ShapeOfSchedule
<1>2. PureSchedule(s)
  OBVIOUS
<1>3. /\ Cron(raw, zone).kind = "cron"
      /\ \A kind, n : Aligned(kind, n).kind = kind
      /\ \A days : Calendar(raw, zone, days).kind = "calendar" /\ Calendar(raw, zone, days).days = days
  BY DEF Cron, Aligned, Calendar
<1> HIDE DEF s
<1> DEFINE C == CanonicalSchedule(s)
<1>4. \A u : Chars(u) # Mark("LF") /\ Number(u) # Mark("LF") /\ YesNo(u) # Mark("LF")
             /\ Digits(u) # Mark("LF")
  BY DEF Chars, Number, YesNo, Digits, Mark
<1>5. \A u : u # "LF" => Mark(u) # Mark("LF")
  BY DEF Mark
<1>6. CASE s = Cron(raw, zone)
  <2>1. C = <<Chars("cron:"), Chars(s.at), Mark(":tz="), Chars(Blank(s.zone))>>
    BY <1>2, <1>3, <1>6, CronShape DEF AtZone
  <2>2. NoEnd(C)
    BY <1>4, <1>5, <2>1, NoEndFour
  <2>3. C[1] = Chars("cron:")
    BY <2>1
  <2> QED BY <1>6, <2>2, <2>3 DEF s
<1>7. CASE \E kind \in {"minutes", "hours"} : \E n : s = Aligned(kind, n)
  <2>1. s.kind \in {"minutes", "hours"}
    BY <1>3, <1>7
  <2>2. C = <<Chars(s.kind), Digits(s.n)>>
    BY <2>1, AlignedShape
  <2>3. NoEnd(C)
    <3>1. NoEnd(<<Chars(s.kind)>>) /\ NoEnd(<<Digits(s.n)>>)
      BY SymbolsApart, NoEndAlone
    <3>2. <<Chars(s.kind)>> \o <<Digits(s.n)>> = <<Chars(s.kind), Digits(s.n)>>
      BY Tuple2
    <3> QED BY <2>2, <3>1, <3>2, NoEndJoined
  <2>4. C[1] = Chars(s.kind)
    BY <2>2
  <2> QED BY <1>7, <2>3, <2>4 DEF s
<1>8. CASE \E days \in Seq(DayName) : days # <<>> /\ s = Calendar(raw, zone, days)
  <2>1. s.kind = "calendar" /\ s.days \in Seq(DayName) /\ s.days # <<>>
    BY <1>3, <1>8
  <2>2. C = (<<Chars("calendar:days=")>> \o Join(",", s.days)) \o Suffix(s)
    BY <2>1, CalendarShape
  <2>3. NoEnd(<<Chars("calendar:days=")>>) /\ NoEnd(Join(",", s.days))
    BY <1>2, <2>1, SymbolsApart, NoEndAlone, JoinHasNoEnd DEF PureSchedule
  <2>4. NoEnd(Suffix(s))
    BY <1>2, SuffixShape
  <2>5. NoEnd(C)
    BY <2>2, <2>3, <2>4, NoEndJoined
  <2>6. C[1] = Chars("calendar:days=")
    <3> DEFINE c == Chars("calendar:days=")
               j == Join(",", s.days)
               f == Suffix(s)
    <3>1. IsSeq(j) /\ IsSeq(f)
      BY <2>3, <2>4, NoEndIsSeq
    <3> HIDE DEF c, j, f, C
    <3>2. C = (<<c>> \o j) \o f
      BY <2>2 DEF c, j, f, C
    <3>3. C[1] = c
      <4>1. PICK J : j \in Seq(J)
        BY <3>1 DEF IsSeq
      <4>2. PICK F : f \in Seq(F)
        BY <3>1 DEF IsSeq
      <4>3. <<c>> \o j \in Seq(J \cup {c}) /\ Len(<<c>> \o j) >= 1 /\ (<<c>> \o j)[1] = c
        <5>1. j \in Seq(J \cup {c})
          BY <4>1
        <5> QED BY <5>1
      <4>4. ((<<c>> \o j) \o f)[1] = (<<c>> \o j)[1]
        <5> DEFINE k == <<c>> \o j
        <5>1. k \in Seq(J \cup {c}) /\ Len(k) >= 1
          BY <4>3
        <5> HIDE DEF k
        <5>2. (k \o f)[1] = k[1]
          BY <4>2, <5>1
        <5> QED BY <5>2 DEF k
      <4> QED BY <3>2, <4>3, <4>4
    <3> QED BY <3>3 DEF c
  <2> QED BY <1>8, <2>5, <2>6 DEF s
<1> QED BY <1>1, <1>6, <1>7, <1>8

LEMMA ScheduleTellsApart ==
    ASSUME NEW r, NEW q, NEW zone, Typed(r), Typed(q),
           PureSchedule(NormalizeSchedule(r, zone)), PureSchedule(NormalizeSchedule(q, zone)),
           CanonicalSchedule(NormalizeSchedule(r, zone)) = CanonicalSchedule(NormalizeSchedule(q, zone))
    PROVE  NormalizeSchedule(r, zone) \in {NormalizeSchedule(q, zone)}
<1> DEFINE s == NormalizeSchedule(r, zone)
           t == NormalizeSchedule(q, zone)
           C == CanonicalSchedule(s)
<1>1. \/ s = Cron(r, zone) /\ C[1] = Chars("cron:")
      \/ (\E kind \in {"minutes", "hours"} : \E n : s = Aligned(kind, n)) /\ C[1] = Chars(s.kind)
      \/ /\ \E days \in Seq(DayName) : days # <<>> /\ s = Calendar(r, zone, days)
         /\ C[1] = Chars("calendar:days=")
  BY ScheduleText
<1>2. \/ t = Cron(q, zone) /\ C[1] = Chars("cron:")
      \/ (\E kind \in {"minutes", "hours"} : \E n : t = Aligned(kind, n)) /\ C[1] = Chars(t.kind)
      \/ /\ \E days \in Seq(DayName) : days # <<>> /\ t = Calendar(q, zone, days)
         /\ C[1] = Chars("calendar:days=")
  BY ScheduleText
<1>3. C = CanonicalSchedule(t) /\ PureSchedule(s) /\ PureSchedule(t)
  OBVIOUS
<1>4. /\ \A u, v : Chars(u) = Chars(v) => u \in {v}
      /\ \A u, v : Digits(u) = Digits(v) => u \in {v}
      /\ \A u, v : Number(u) = Number(v) => u \in {v}
      /\ \A f, g \in BOOLEAN : YesNo(f) = YesNo(g) => f \in {g}
  BY DEF Chars, Digits, Number, YesNo
<1>5. \A kind, n : Aligned(kind, n).kind = kind /\ Aligned(kind, n).n = n
  BY DEF Aligned
<1>6. /\ \A d : Calendar(r, zone, d).kind = "calendar" /\ Calendar(r, zone, d).days = d
      /\ \A d : Calendar(q, zone, d).kind = "calendar" /\ Calendar(q, zone, d).days = d
      /\ Cron(r, zone).kind = "cron" /\ Cron(q, zone).kind = "cron"
      /\ Cron(r, zone).at = r.cron /\ Cron(q, zone).at = q.cron
  BY DEF Cron, Aligned, Calendar
<1> HIDE DEF s, t
<1>7. CanonicalSchedule(s) = C /\ CanonicalSchedule(t) = C
  BY <1>3
<1> HIDE DEF C
<1>8. ASSUME s = Cron(r, zone), t = Cron(q, zone) PROVE s = t
  <2>1. /\ C = <<Chars("cron:"), Chars(s.at), Mark(":tz="), Chars(Blank(s.zone))>>
        /\ C = <<Chars("cron:"), Chars(t.at), Mark(":tz="), Chars(Blank(t.zone))>>
    BY <1>3, <1>6, <1>7, <1>8, CronShape DEF AtZone
  <2>2. Chars(s.at) = Chars(t.at)
    BY <2>1
  <2>3. s.at \in {t.at}
    BY <1>4, <2>2, Zenon
  <2>4. s.at = r.cron /\ t.at = q.cron
    BY <1>6, <1>8
  <2>5. r.cron = q.cron
    BY <2>3, <2>4
  <2>6. Cron(r, zone) = Cron(q, zone)
    BY <2>5 DEF Cron
  <2> QED BY <1>8, <2>6
<1>9. ASSUME NEW k \in {"minutes", "hours"}, NEW m, s = Aligned(k, m),
             NEW l \in {"minutes", "hours"}, NEW n, t = Aligned(l, n)
      PROVE  s = t
  <2>1. /\ C = <<Chars(s.kind), Digits(s.n)>> /\ C = <<Chars(t.kind), Digits(t.n)>>
        /\ s.kind = k /\ t.kind = l /\ s.n = m /\ t.n = n
    BY <1>5, <1>7, <1>9, AlignedShape
  <2>2. Chars(k) = Chars(l) /\ Digits(m) = Digits(n)
    BY <2>1
  <2>3. k \in {l} /\ m \in {n}
    BY <1>4, <2>2, Zenon
  <2> QED BY <1>9, <2>3
<1>10. ASSUME NEW d \in Seq(DayName), d # <<>>, s = Calendar(r, zone, d),
              NEW e \in Seq(DayName), e # <<>>, t = Calendar(q, zone, e)
       PROVE  s = t
  <2> DEFINE c == Chars("calendar:days=")
             a == <<c>> \o Join(",", d)
             b == <<c>> \o Join(",", e)
             f == Suffix(s)
             g == Suffix(t)
  <2>1. s.kind = "calendar" /\ t.kind = "calendar" /\ s.days = d /\ t.days = e
    BY <1>6, <1>10
  <2>2. C = a \o f /\ C = b \o g
    BY <1>7, <2>1, CalendarShape
  <2>3. /\ IsSeq(f) /\ Len(f) \in {8}
        /\ f[2] = Chars(s.at) /\ f[6] = Number(s.onDay) /\ f[8] = YesNo(s.lastDay)
        /\ IsSeq(g) /\ Len(g) \in {8}
        /\ g[2] = Chars(t.at) /\ g[6] = Number(t.onDay) /\ g[8] = YesNo(t.lastDay)
    BY <1>3, SuffixShape, NoEndIsSeq
  <2>4. /\ \A k \in DOMAIN d : Pure(d[k])
        /\ \A k \in DOMAIN e : Pure(e[k])
    BY <1>3, <2>1 DEF PureSchedule
  <2>5. IsSeq(Join(",", d)) /\ IsSeq(Join(",", e))
    BY <2>4, JoinHasNoEnd, NoEndIsSeq
  <2> HIDE DEF f, g, c
  <2>6. f \in {g} /\ Join(",", d) \in {Join(",", e)}
    <3> DEFINE v == Join(",", d)
               w == Join(",", e)
    <3>1. IsSeq(v) /\ IsSeq(w) /\ IsSeq(f) /\ IsSeq(g) /\ Len(f) \in {8} /\ Len(g) \in {8}
      BY <2>3, <2>5
    <3>2. Ended(c, v, f) = Ended(c, w, g)
      BY <2>2 DEF Ended
    <3> HIDE DEF v, w
    <3>3. f \in {g} /\ v \in {w}
      BY <3>1, <3>2, EndsSplit, Zenon
    <3> QED BY <3>3 DEF v, w
  <2>7. d \in {e}
    <3>1. Join(",", d) = Join(",", e)
      BY <2>6
    <3> QED BY <1>10, <2>4, <3>1, ListsTellApart
  <2>8. /\ Chars(s.at) = Chars(t.at) /\ Number(s.onDay) = Number(t.onDay)
        /\ YesNo(s.lastDay) = YesNo(t.lastDay)
    BY <2>3, <2>6
  <2>9. s.lastDay \in BOOLEAN /\ t.lastDay \in BOOLEAN
    BY <1>10 DEF Calendar, Typed
  <2>10. s.at \in {t.at} /\ s.onDay \in {t.onDay} /\ s.lastDay \in {t.lastDay}
    BY <1>4, <2>8, <2>9, Zenon
  <2>11. /\ s.at = Or(r.at, "00:00") /\ t.at = Or(q.at, "00:00")
         /\ s.onDay = r.onDay /\ t.onDay = q.onDay /\ s.lastDay = r.lastDay /\ t.lastDay = q.lastDay
    BY <1>10 DEF Calendar
  <2>12. /\ Or(r.at, "00:00") = Or(q.at, "00:00") /\ d = e
         /\ r.onDay = q.onDay /\ r.lastDay = q.lastDay
    BY <2>7, <2>10, <2>11
  <2> QED BY <1>10, <2>12 DEF Calendar
<1>11. s = t
  <2>1. /\ ~(C[1] = Chars("cron:") /\ C[1] = Chars("calendar:days="))
        /\ \A k \in {"minutes", "hours"} :
               C[1] = Chars(k) => C[1] # Chars("cron:") /\ C[1] # Chars("calendar:days=")
    BY DEF Chars
  <2>2. \A kind, n : s = Aligned(kind, n) => s.kind = kind
    BY <1>5
  <2>3. \A kind, n : t = Aligned(kind, n) => t.kind = kind
    BY <1>5
  <2>8. /\ (\E kind \in {"minutes", "hours"} : \E n : s = Aligned(kind, n)) => s.kind \in {"minutes", "hours"}
        /\ (\E kind \in {"minutes", "hours"} : \E n : t = Aligned(kind, n)) => t.kind \in {"minutes", "hours"}
    BY <2>2, <2>3
  <2>4. CASE C[1] = Chars("cron:")
    <3>1. s = Cron(r, zone)
      BY <1>1, <2>1, <2>4, <2>8, Zenon
    <3>2. t = Cron(q, zone)
      BY <1>2, <2>1, <2>4, <2>8, Zenon
    <3> QED BY <1>8, <3>1, <3>2
  <2>5. CASE C[1] = Chars("calendar:days=")
    <3>1. \E days \in Seq(DayName) : days # <<>> /\ s = Calendar(r, zone, days)
      BY <1>1, <2>1, <2>5, <2>8, Zenon
    <3>2. \E days \in Seq(DayName) : days # <<>> /\ t = Calendar(q, zone, days)
      BY <1>2, <2>1, <2>5, <2>8, Zenon
    <3> QED BY <1>10, <3>1, <3>2, Zenon
  <2>6. CASE C[1] # Chars("cron:") /\ C[1] # Chars("calendar:days=")
    <3>1. \E kind \in {"minutes", "hours"} : \E n : s = Aligned(kind, n)
      BY <1>1, <2>6, Zenon
    <3>2. \E kind \in {"minutes", "hours"} : \E n : t = Aligned(kind, n)
      BY <1>2, <2>6, Zenon
    <3> QED BY <1>9, <3>1, <3>2, Zenon
  <2> QED BY <2>4, <2>5, <2>6
<1> QED BY <1>11 DEF s, t

-----------------------------------------------------------------------------
(* The text.                                                                 *)

\* A line holds a raw job, and a comment starts no item.
IsLine(l) ==
    \E key, dash, val, raw :
        /\ l = Line(key, dash, val, raw)
        /\ raw \in RawJob /\ (dash => key # "comment")

IsText(t) == \E S : t \in Seq(S) /\ \A l \in S : IsLine(l)

LEMMA LineFields ==
    ASSUME NEW l, IsLine(l)
    PROVE  /\ l.raw \in RawJob
           /\ l.dash => l.key # "comment"
           /\ \A val : IsLine([l EXCEPT !.val = val])
<1>1. PICK key, dash, val, raw :
          l = Line(key, dash, val, raw) /\ raw \in RawJob /\ (dash => key # "comment")
  BY DEF IsLine
<1>2. \A v : [l EXCEPT !.val = v] = Line(key, dash, v, raw)
  BY <1>1 DEF Line
<1>3. \A v : IsLine([l EXCEPT !.val = v])
  <2> SUFFICES ASSUME NEW v PROVE IsLine([l EXCEPT !.val = v])
    OBVIOUS
  <2>1. IsLine(Line(key, dash, v, raw))
    BY <1>1 DEF IsLine
  <2> QED BY <1>2, <2>1
<1> QED BY <1>1, <1>3 DEF Line

LEMMA LineAt ==
    ASSUME NEW t, IsText(t)
    PROVE  /\ Len(t) \in Nat /\ DOMAIN t = 1 .. Len(t)
           /\ \A i \in 1 .. Len(t) : IsLine(t[i])
BY DEF IsText

LEMMA PartOfText ==
    ASSUME NEW t, IsText(t), NEW a \in Int, NEW b \in Int, a >= 1, b <= Len(t)
    PROVE  IsText(SubSeq(t, a, b))
<1>1. PICK S : t \in Seq(S) /\ \A l \in S : IsLine(l)
  BY DEF IsText
<1>2. SubSeq(t, a, b) \in Seq(S)
  BY <1>1
<1> QED BY <1>1, <1>2 DEF IsText

LEMMA JoinedText ==
    ASSUME NEW t, NEW u, IsText(t), IsText(u)
    PROVE  IsText(t \o u)
<1>1. PICK S : t \in Seq(S) /\ \A l \in S : IsLine(l)
  BY DEF IsText
<1>2. PICK T : u \in Seq(T) /\ \A l \in T : IsLine(l)
  BY DEF IsText
<1>3. t \in Seq(S \cup T) /\ u \in Seq(S \cup T)
  BY <1>1, <1>2
<1>4. t \o u \in Seq(S \cup T)
  BY <1>3
<1>5. \A l \in S \cup T : IsLine(l)
  BY <1>1, <1>2
<1> QED BY <1>4, <1>5 DEF IsText


LEMMA ReplacedText ==
    ASSUME NEW t, IsText(t), NEW k \in 1 .. Len(t), NEW l, IsLine(l)
    PROVE  IsText(ReplaceAt(t, k, l))
<1>1. PICK S : t \in Seq(S) /\ \A x \in S : IsLine(x)
  BY DEF IsText
<1>2. [t EXCEPT ![k] = l] \in Seq(S \cup {l})
  BY <1>1
<1>3. \A x \in S \cup {l} : IsLine(x)
  BY <1>1
<1> QED BY <1>2, <1>3 DEF IsText, ReplaceAt

LEMMA OneLine ==
    ASSUME NEW l, IsLine(l)
    PROVE  IsText(<<l>>)
<1>1. \E S : S = {l}
  OBVIOUS
<1>2. PICK S : S = {l}
  BY <1>1
<1>3. <<l>> \in Seq(S) /\ \A x \in S : IsLine(x)
  BY <1>2
<1> QED BY <1>3 DEF IsText

LEMMA InsertedText ==
    ASSUME NEW t, IsText(t), NEW k \in 1 .. Len(t), NEW l, IsLine(l)
    PROVE  IsText(InsertAt(t, k + 1, l))
<1>1. Len(t) \in Nat
  BY LineAt
<1>2. IsText(SubSeq(t, 1, (k + 1) - 1)) /\ IsText(SubSeq(t, k + 1, Len(t)))
  BY <1>1, PartOfText
<1>3. IsText(<<l>>)
  BY OneLine
<1> QED BY <1>2, <1>3, JoinedText DEF InsertAt

-----------------------------------------------------------------------------
(* Where the jobs are.                                                       *)

LEMMA WhereJobsAre ==
    ASSUME NEW t, IsText(t)
    PROVE  JobsAt(t) \in Nat /\ SeqEnd(t) \in 1 .. Len(t) + 1
<1> DEFINE J == {i \in 1 .. Len(t) : t[i].key = "jobs"}
           E == {k \in ContentLines(t) : k > JobsAt(t) /\ t[k].key \in TopKeys} \cup {Len(t) + 1}
<1>1. Len(t) \in Nat /\ DOMAIN t = 1 .. Len(t)
  BY LineAt
<1>2. JobsAt(t) = IF J # {} THEN Min(J) ELSE 0
  BY DEF JobsAt, SelectInSeq
<1>3. J # {} => Min(J) \in J
  <2> J \in SUBSET Nat
    BY <1>1
  <2> HIDE DEF J
  <2> QED BY MinIsIn
<1>4. JobsAt(t) \in Nat
  BY <1>1, <1>2, <1>3
<1>5. SeqEnd(t) = Min(E)
  BY DEF SeqEnd
<1>6. E \in SUBSET (1 .. Len(t) + 1) /\ E # {}
  BY <1>1 DEF ContentLines
<1>7. Min(E) \in E
  <2> E \in SUBSET Nat
    BY <1>1, <1>6
  <2> HIDE DEF E
  <2> QED BY <1>6, MinIsIn
<1> HIDE DEF E
<1> QED BY <1>4, <1>5, <1>6, <1>7

LEMMA WhereItemsAre ==
    ASSUME NEW t, IsText(t), NEW i \in Items(t)
    PROVE  /\ i \in 1 .. Len(t) /\ i \in ContentLines(t)
           /\ NextItem(t, i) \in i + 1 .. Len(t) + 1
           /\ LastLine(t, i) \in i .. Len(t)
           /\ Entries(t, i) \subseteq 1 .. Len(t)
<1> DEFINE K == {k \in Items(t) : k > i} \cup {SeqEnd(t)}
           next == NextItem(t, i)
           C == {k \in ContentLines(t) : k < next}
<1>1. Len(t) \in Nat /\ DOMAIN t = 1 .. Len(t)
  BY LineAt
<1>2. JobsAt(t) \in Nat /\ SeqEnd(t) \in 1 .. Len(t) + 1
  BY WhereJobsAre
<1>3. \A k \in Items(t) : k \in 1 .. Len(t) /\ k < SeqEnd(t) /\ t[k].dash
  BY <1>1, <1>2 DEF Items
<1>4. i \in ContentLines(t)
  <2>1. IsLine(t[i])
    BY <1>3, LineAt
  <2>2. t[i].key # "comment"
    BY <1>3, <2>1, LineFields
  <2> QED BY <1>1, <1>3, <2>2 DEF ContentLines
<1>5. next \in i + 1 .. Len(t) + 1
  <2>1. K \in SUBSET (i + 1 .. Len(t) + 1) /\ K # {}
    BY <1>1, <1>2, <1>3
  <2>2. K \in SUBSET Nat
    BY <1>1, <1>3, <2>1
  <2>3. Min(K) \in K
    <3> HIDE DEF K
    <3> QED BY <2>1, <2>2, MinIsIn
  <2>4. next = Min(K)
    BY DEF NextItem
  <2> HIDE DEF K, next
  <2> QED BY <2>1, <2>3, <2>4
<1>6. LastLine(t, i) \in i .. Len(t)
  <2>1. C \in SUBSET (0 .. Len(t)) /\ i \in C
    <3> HIDE DEF next
    <3> QED BY <1>1, <1>3, <1>4, <1>5 DEF ContentLines
  <2>2. LastLine(t, i) = Max(C)
    BY DEF LastLine
  <2> HIDE DEF C
  <2>3. Max(C) \in C /\ i <= Max(C)
    BY <1>1, <2>1, MaxIsIn
  <2>4. Max(C) \in 0 .. Len(t) /\ i \in 1 .. Len(t)
    BY <1>3, <2>1, <2>3
  <2> QED BY <1>1, <2>2, <2>3, <2>4
<1>7. Entries(t, i) \subseteq 1 .. Len(t)
  BY <1>1 DEF Entries, ContentLines
<1> QED BY <1>3, <1>4, <1>5, <1>6, <1>7

\* The schedule of a job that parses is there.
LEMMA JobIsTyped ==
    ASSUME NEW t, IsText(t), Parses(t), NEW i \in Items(t)
    PROVE  Typed(JobAt(t, i).raw)
<1>1. i \in 1 .. Len(t) /\ Entries(t, i) \subseteq 1 .. Len(t)
  BY WhereItemsAre
<1>2. \A k \in 1 .. Len(t) : t[k].raw \in RawJob
  BY LineAt, LineFields
<1>3. CASE t[i].key = "flow"
  <2>1. JobAt(t, i).raw = t[i].raw
    BY <1>3 DEF JobAt
  <2> QED BY <1>1, <1>2, <2>1 DEF Typed, RawJob
<1>4. CASE t[i].key # "flow"
  <2> DEFINE s == CHOOSE k \in Entries(t, i) : t[k].key = "schedule"
  <2>1. MapKeys \subseteq {t[k].key : k \in Entries(t, i)}
    BY <1>4 DEF Parses
  <2>2. \E k \in Entries(t, i) : t[k].key = "schedule"
    BY <2>1 DEF MapKeys
  <2>3. s \in Entries(t, i)
    BY <2>2
  <2>4. JobAt(t, i).raw = [t[s].raw EXCEPT !.enabled = Value(t, i, "enabled")]
    BY <1>4 DEF JobAt
  <2> HIDE DEF s
  <2>5. t[s].raw \in RawJob
    BY <1>1, <1>2, <2>3
  <2>6. LET raw == JobAt(t, i).raw IN
        /\ raw.every = t[s].raw.every /\ raw.args = t[s].raw.args
        /\ raw.lastDay = t[s].raw.lastDay /\ raw.timeout = t[s].raw.timeout
        /\ raw.retries = t[s].raw.retries
    BY <2>4, <2>5 DEF RawJob
  <2>7. Typed(t[s].raw)
    BY <2>5 DEF Typed, RawJob
  <2> QED BY <2>6, <2>7 DEF Typed
<1> QED BY <1>3, <1>4

-----------------------------------------------------------------------------
(* The edits leave a text behind.                                            *)

\* What belongs to a job ends inside the text.
LEMMA SpanIsInside ==
    ASSUME NEW t, IsText(t), NEW i \in Items(t), NEW to \in JobItemLineSpan(t, i)
    PROVE  to \in 0 .. Len(t)
<1>1. Len(t) \in Nat
  BY LineAt
<1>2. /\ NextItem(t, i) \in i + 1 .. Len(t) + 1 /\ i \in 1 .. Len(t)
      /\ LastLine(t, i) \in i .. Len(t) /\ SeqEnd(t) \in 1 .. Len(t) + 1
  BY WhereItemsAre, WhereJobsAre
<1>3. to \in {NextItem(t, i) - 1, LastLine(t, i), SeqEnd(t) - 1}
  BY DEF JobItemLineSpan
<1> QED BY <1>1, <1>2, <1>3

LEMMA EntryEndsInside ==
    ASSUME NEW t, IsText(t), NEW i \in 1 .. Len(t), i \in ContentLines(t), NEW k \in EndOfEntry(t, i)
    PROVE  k \in 1 .. Len(t)
<1> DEFINE P == {l \in ContentLines(t) : l > i /\ t[l].key # "nested"} \cup {Len(t) + 1}
           past == Min(P)
           C == {l \in ContentLines(t) : l < past}
<1>1. Len(t) \in Nat /\ DOMAIN t = 1 .. Len(t)
  BY LineAt
<1>2. past \in i + 1 .. Len(t) + 1
  <2>1. P \in SUBSET (i + 1 .. Len(t) + 1) /\ P # {} /\ P \in SUBSET Nat
    BY <1>1 DEF ContentLines
  <2> HIDE DEF P
  <2> QED BY <2>1, MinIsIn
<1> HIDE DEF P
<1>3. Max(C) \in 1 .. Len(t)
  <2>1. C \in SUBSET (0 .. Len(t)) /\ C \subseteq 1 .. Len(t) /\ i \in C
    <3> HIDE DEF past
    <3> QED BY <1>1, <1>2 DEF ContentLines
  <2> HIDE DEF C
  <2> QED BY <1>1, <2>1, MaxIsIn
<1>4. Min({past, Len(t)}) \in 1 .. Len(t)
  <2> DEFINE M == {past, Len(t)}
  <2>1. M \in SUBSET Nat /\ M # {} /\ Len(t) \in M /\ M \subseteq 1 .. Len(t) + 1
    <3> HIDE DEF past
    <3> QED BY <1>1, <1>2
  <2> HIDE DEF M
  <2>2. Min(M) \in M /\ Min(M) <= Len(t)
    BY <2>1, MinIsIn
  <2>3. Min(M) \in 1 .. Len(t)
    <3>1. Min(M) \in 1 .. Len(t) + 1
      BY <2>1, <2>2
    <3> QED BY <1>1, <2>2, <3>1
  <2> QED BY <2>3 DEF M
<1>5. k \in {i, Max(C), Min({past, Len(t)})}
  BY DEF EndOfEntry, P
<1> QED BY <1>3, <1>4, <1>5

LEMMA SetEnabledText ==
    ASSUME NEW t, IsText(t), NEW id, NEW to, NEW u \in SetEnabled(t, id, to)
    PROVE  IsText(u)
<1> DEFINE line == Line("enabled", FALSE, to, t[1].raw)
           At(i) == {k \in Entries(t, i) : t[k].key = "enabled"}
<1>1. PICK i \in LocateJob(t, id) :
          u \in IF At(i) # {} THEN {ReplaceAt(t, k, [t[k] EXCEPT !.val = to]) : k \in At(i)}
                ELSE {InsertAt(t, k + 1, line) : k \in EndOfEntry(t, i)}
  BY DEF SetEnabled
<1>2. i \in Items(t)
  BY DEF LocateJob
<1>3. /\ i \in 1 .. Len(t) /\ i \in ContentLines(t) /\ Entries(t, i) \subseteq 1 .. Len(t)
      /\ Len(t) \in Nat /\ \A k \in 1 .. Len(t) : IsLine(t[k])
  BY <1>2, WhereItemsAre, LineAt
<1>4. IsLine(line)
  <2>1. t[1].raw \in RawJob
    BY <1>3, LineFields
  <2> QED BY <2>1 DEF IsLine
<1>5. CASE At(i) # {}
  <2>1. PICK k \in At(i) : u = ReplaceAt(t, k, [t[k] EXCEPT !.val = to])
    BY <1>1, <1>5
  <2>2. k \in 1 .. Len(t) /\ IsLine([t[k] EXCEPT !.val = to])
    BY <1>3, LineFields
  <2> QED BY <2>1, <2>2, ReplacedText
<1>6. CASE At(i) = {}
  <2> HIDE DEF line
  <2>1. PICK k \in EndOfEntry(t, i) : u = InsertAt(t, k + 1, line)
    BY <1>1, <1>6
  <2>2. k \in 1 .. Len(t)
    BY <1>3, EntryEndsInside
  <2> QED BY <1>4, <2>1, <2>2, InsertedText
<1> QED BY <1>5, <1>6

LEMMA RemoveJobText ==
    ASSUME NEW t, IsText(t), NEW id, NEW u \in RemoveJob(t, id)
    PROVE  IsText(u)
<1>1. PICK i \in LocateJob(t, id) : \E to \in JobItemLineSpan(t, i) :
          u = SubSeq(t, 1, i - 1) \o SubSeq(t, to + 1, Len(t))
  BY DEF RemoveJob
<1>2. i \in Items(t)
  BY DEF LocateJob
<1>3. PICK to \in JobItemLineSpan(t, i) : u = SubSeq(t, 1, i - 1) \o SubSeq(t, to + 1, Len(t))
  BY <1>1
<1>4. i \in 1 .. Len(t) /\ to \in 0 .. Len(t) /\ Len(t) \in Nat
  BY <1>2, WhereItemsAre, SpanIsInside, LineAt
<1>5. IsText(SubSeq(t, 1, i - 1)) /\ IsText(SubSeq(t, to + 1, Len(t)))
  BY <1>4, PartOfText
<1> QED BY <1>3, <1>5, JoinedText

LEMMA AppendJobText ==
    ASSUME NEW t, IsText(t), NEW m \in Mutations, m.op = "add", NEW u \in AppendJob(t, m)
    PROVE  IsText(u)
<1>1. m.raw \in RawJob
  BY EditAssumption DEF Mutation
<1>2. Items(t) # {} /\ Max(Items(t)) \in Items(t)
  <2>1. Items(t) # {}
    BY DEF AppendJob
  <2>2. Items(t) \in SUBSET (0 .. Len(t)) /\ Len(t) \in Nat
    BY WhereItemsAre, LineAt
  <2> QED BY <2>1, <2>2, MaxIsIn
<1>3. PICK to \in JobItemLineSpan(t, Max(Items(t))) :
          u = SubSeq(t, 1, to) \o BuildBlock(m) \o SubSeq(t, to + 1, Len(t))
  BY <1>2 DEF AppendJob
<1>4. to \in 0 .. Len(t) /\ Len(t) \in Nat
  BY <1>2, SpanIsInside, LineAt
<1>5. IsText(SubSeq(t, 1, to)) /\ IsText(SubSeq(t, to + 1, Len(t)))
  BY <1>4, PartOfText
<1>6. IsText(BuildBlock(m))
  <2> DEFINE L(key, dash, val) == Line(key, dash, val, m.raw)
  <2>1. \A key, dash, val : (dash => key # "comment") => IsLine(L(key, dash, val))
    BY <1>1 DEF IsLine
  <2>2. IsText(<<L("id", TRUE, m.id)>>)
    BY <2>1, OneLine
  <2>3. IsText(IF m.disabled THEN <<L("enabled", FALSE, "false")>> ELSE <<>>)
    <3>1. IsText(<<L("enabled", FALSE, "false")>>)
      BY <2>1, OneLine
    <3>2. IsText(<<>>)
      BY DEF IsText
    <3> QED BY <3>1, <3>2
  <2>4. IsText(<<L("schedule", FALSE, Empty), L("nested", FALSE, Empty),
                 L("execution", FALSE, Empty), L("nested", FALSE, Empty)>>)
    <3> DEFINE S == {L("schedule", FALSE, Empty), L("nested", FALSE, Empty),
                     L("execution", FALSE, Empty)}
    <3>1. \A l \in S : IsLine(l)
      BY <2>1
    <3>2. \A a, b, c \in S : <<a, b, c, b>> \in Seq(S)
      <4> HIDE DEF S
      <4> QED OBVIOUS
    <3>3. <<L("schedule", FALSE, Empty), L("nested", FALSE, Empty),
            L("execution", FALSE, Empty), L("nested", FALSE, Empty)>> \in Seq(S)
      BY <3>2
    <3> HIDE DEF S, L
    <3> QED BY <3>1, <3>3 DEF IsText
  <2> HIDE DEF L
  <2>5. IsText(<<L("id", TRUE, m.id)>>
               \o (IF m.disabled THEN <<L("enabled", FALSE, "false")>> ELSE <<>>))
    BY <2>2, <2>3, JoinedText
  <2> QED BY <2>4, <2>5, JoinedText DEF BuildBlock, L
<1> QED BY <1>3, <1>5, <1>6, JoinedText

-----------------------------------------------------------------------------
(* The theorems.                                                             *)

LEMMA TextInvariant == Spec => []IsText(text)
<1>1. Init => IsText(text)
  <2> SUFFICES ASSUME Init PROVE IsText(text)
    OBVIOUS
  <2>1. text \in Seq(TextLine)
    BY EditAssumption DEF Init
  <2>2. \A l \in TextLine : IsLine(l)
    <3> SUFFICES ASSUME NEW l \in TextLine PROVE IsLine(l)
      OBVIOUS
    <3>1. l = Line(l.key, l.dash, l.val, l.raw)
      BY DEF TextLine, Line
    <3>2. l.raw \in RawJob /\ (l.dash => l.key # "comment")
      BY DEF TextLine
    <3> QED BY <3>1, <3>2, Zenon DEF IsLine
  <2> QED BY <2>1, <2>2 DEF IsText
<1>2. IsText(text) /\ [Next]_vars => IsText(text)'
  <2> SUFFICES ASSUME IsText(text), [Next]_vars PROVE IsText(text')
    OBVIOUS
  <2>1. CASE Next
    <3>1. PICK m \in Mutations : text' \in Render(text, m)
      BY <2>1 DEF Next, Apply
    <3>2. m.op \in {"pause", "resume", "remove", "add"}
      BY EditAssumption DEF Mutation
    <3>3. CASE m.op = "pause"
      BY <3>1, <3>3, SetEnabledText DEF Render
    <3>4. CASE m.op = "resume"
      BY <3>1, <3>4, SetEnabledText DEF Render
    <3>5. CASE m.op = "remove"
      BY <3>1, <3>5, RemoveJobText DEF Render
    <3>6. CASE m.op = "add"
      BY <3>1, <3>6, AppendJobText DEF Render
    <3> QED BY <3>2, <3>3, <3>4, <3>5, <3>6
  <2>2. CASE UNCHANGED vars
    BY <2>2 DEF vars
  <2> QED BY <2>1, <2>2
<1> QED BY <1>1, <1>2, PTL DEF Spec

\* Each job of a file that is accepted has passed validation.
LEMMA AcceptedJobs ==
    ASSUME NEW t, Accepted(t), NEW i \in Items(t)
    PROVE  CheckSchedule(JobAt(t, i).raw) = {} /\ CheckJob(JobAt(t, i).raw) = {}
<1> DEFINE E(k) == CheckSchedule(JobsIn(t)[k].raw) \cup CheckJob(JobsIn(t)[k].raw)
           All == {E(k) : k \in DOMAIN JobsIn(t)}
<1>1. UNION All \subseteq ValidateConfig(JobsIn(t))
  BY DEF ValidateConfig
<1>2. ValidateConfig(JobsIn(t)) = {}
  BY DEF Accepted
<1>3. i \in DOMAIN JobsIn(t) /\ JobsIn(t)[i] = JobAt(t, i)
  BY DEF JobsIn
<1>4. E(i) \in All
  BY <1>3
<1>5. E(i) = {}
  <2> HIDE DEF All, E
  <2> QED BY <1>1, <1>2, <1>4
<1> QED BY <1>3, <1>5

\* In every file that the edits leave behind and the daemon takes, the keys of a job
\* whose value its normal form does not have are those that Unnoticed names, no fewer
\* and no more: lists of `every` with an interval among other tokens, times and days
\* beside an interval or a cron expression, durations over u64, retries over u32 and
\* policy words nobody knows.  Every other value that check_schedule and check_job let
\* pass is what normalize_job makes of it, whatever the texts, lists and numbers.
THEOREM MeaningIsKept == Spec => []ValidMeansSaid
<1>1. IsText(text) => ValidMeansSaid
  <2> SUFFICES ASSUME IsText(text), Accepted(text), NEW i \in Items(text)
               PROVE  LET raw == JobAt(text, i).raw IN
                      Lost(raw, NormalizeJob(raw, DefaultsOf(text))) = Unnoticed(raw)
    BY DEF ValidMeansSaid
  <2>1. Typed(JobAt(text, i).raw)
    BY JobIsTyped DEF Accepted
  <2>2. CheckSchedule(JobAt(text, i).raw) = {} /\ CheckJob(JobAt(text, i).raw) = {}
    BY AcceptedJobs
  <2> QED BY <2>1, <2>2, LostIsUnnoticed
<1> QED BY <1>1, TextInvariant, PTL

-----------------------------------------------------------------------------
(* A job in the canonical text.                                              *)

Values(job) ==
    <<<<YesNo(job.enabled)>>, CanonicalSchedule(job.schedule), Spell(job.command),
      Join("US", job.args), Spell(Blank(job.cwd)), <<Number(job.timeout)>>,
      Spell(Blank(job.zone)), <<Chars(job.overlap)>>, <<Chars(job.missed)>>,
      <<Digits(job.retries)>>>>

\* The text from each line on.
From10(v) == CanonLine("max_retries=", v[10], <<>>)
From9(v) == CanonLine("missed=", v[9], From10(v))
From8(v) == CanonLine("overlap=", v[8], From9(v))
From7(v) == CanonLine("timezone=", v[7], From8(v))
From6(v) == CanonLine("timeout_secs=", v[6], From7(v))
From5(v) == CanonLine("cwd=", v[5], From6(v))
From4(v) == CanonLine("args=", v[4], From5(v))
From3(v) == CanonLine("command=", v[3], From4(v))
From2(v) == CanonLine("schedule=", v[2], From3(v))
From1(v) == CanonLine("enabled=", v[1], From2(v))

LEMMA FromFirst ==
    ASSUME NEW job
    PROVE  CanonicalJob(job) = From1(Values(job))
BY DEF CanonicalJob, CanonicalPolicies, Values, From1, From2, From3, From4, From5, From6, From7,
       From8, From9, From10

NoneEnds(v) == \A i \in 1 .. 10 : NoEnd(v[i])

\* Line by line, where no value holds a line end.
LEMMA LinesSplit ==
    ASSUME NEW v, NEW w, NoneEnds(v), NoneEnds(w), From1(v) \in {From1(w)}
    PROVE  \A i \in 1 .. 10 : v[i] \in {w[i]}
<1>1. IsSeq(<<>>)
  BY DEF IsSeq
<1>2. /\ NoEnd(v[1]) /\ NoEnd(v[2]) /\ NoEnd(v[3]) /\ NoEnd(v[4]) /\ NoEnd(v[5])
      /\ NoEnd(v[6]) /\ NoEnd(v[7]) /\ NoEnd(v[8]) /\ NoEnd(v[9]) /\ NoEnd(v[10])
      /\ NoEnd(w[1]) /\ NoEnd(w[2]) /\ NoEnd(w[3]) /\ NoEnd(w[4]) /\ NoEnd(w[5])
      /\ NoEnd(w[6]) /\ NoEnd(w[7]) /\ NoEnd(w[8]) /\ NoEnd(w[9]) /\ NoEnd(w[10])
  BY DEF NoneEnds
<1>3. IsSeq(From10(v)) /\ IsSeq(From10(w))
  BY <1>2, <1>1, LineIsSeq, Zenon DEF From10
<1>4. IsSeq(From9(v)) /\ IsSeq(From9(w))
  BY <1>2, <1>3, LineIsSeq, Zenon DEF From9
<1>5. IsSeq(From8(v)) /\ IsSeq(From8(w))
  BY <1>2, <1>4, LineIsSeq, Zenon DEF From8
<1>6. IsSeq(From7(v)) /\ IsSeq(From7(w))
  BY <1>2, <1>5, LineIsSeq, Zenon DEF From7
<1>7. IsSeq(From6(v)) /\ IsSeq(From6(w))
  BY <1>2, <1>6, LineIsSeq, Zenon DEF From6
<1>8. IsSeq(From5(v)) /\ IsSeq(From5(w))
  BY <1>2, <1>7, LineIsSeq, Zenon DEF From5
<1>9. IsSeq(From4(v)) /\ IsSeq(From4(w))
  BY <1>2, <1>8, LineIsSeq, Zenon DEF From4
<1>10. IsSeq(From3(v)) /\ IsSeq(From3(w))
  BY <1>2, <1>9, LineIsSeq, Zenon DEF From3
<1>11. IsSeq(From2(v)) /\ IsSeq(From2(w))
  BY <1>2, <1>10, LineIsSeq, Zenon DEF From2
<1>12. v[1] \in {w[1]} /\ From2(v) \in {From2(w)}
  <2> DEFINE a == v[1]
             b == w[1]
  <2>1. NoEnd(a) /\ NoEnd(b)
    BY <1>2
  <2>2. CanonLine("enabled=", a, From2(v)) = CanonLine("enabled=", b, From2(w))
    BY DEF From1
  <2> HIDE DEF a, b
  <2>3. a \in {b} /\ From2(v) \in {From2(w)}
    BY <1>11, <2>1, <2>2, LineSplits, Zenon
  <2> QED BY <2>3 DEF a, b
<1>13. v[2] \in {w[2]} /\ From3(v) \in {From3(w)}
  <2> DEFINE a == v[2]
             b == w[2]
  <2>1. NoEnd(a) /\ NoEnd(b)
    BY <1>2
  <2>2. CanonLine("schedule=", a, From3(v)) = CanonLine("schedule=", b, From3(w))
    BY <1>12 DEF From2
  <2> HIDE DEF a, b
  <2>3. a \in {b} /\ From3(v) \in {From3(w)}
    BY <1>10, <2>1, <2>2, LineSplits, Zenon
  <2> QED BY <2>3 DEF a, b
<1>14. v[3] \in {w[3]} /\ From4(v) \in {From4(w)}
  <2> DEFINE a == v[3]
             b == w[3]
  <2>1. NoEnd(a) /\ NoEnd(b)
    BY <1>2
  <2>2. CanonLine("command=", a, From4(v)) = CanonLine("command=", b, From4(w))
    BY <1>13 DEF From3
  <2> HIDE DEF a, b
  <2>3. a \in {b} /\ From4(v) \in {From4(w)}
    BY <1>9, <2>1, <2>2, LineSplits, Zenon
  <2> QED BY <2>3 DEF a, b
<1>15. v[4] \in {w[4]} /\ From5(v) \in {From5(w)}
  <2> DEFINE a == v[4]
             b == w[4]
  <2>1. NoEnd(a) /\ NoEnd(b)
    BY <1>2
  <2>2. CanonLine("args=", a, From5(v)) = CanonLine("args=", b, From5(w))
    BY <1>14 DEF From4
  <2> HIDE DEF a, b
  <2>3. a \in {b} /\ From5(v) \in {From5(w)}
    BY <1>8, <2>1, <2>2, LineSplits, Zenon
  <2> QED BY <2>3 DEF a, b
<1>16. v[5] \in {w[5]} /\ From6(v) \in {From6(w)}
  <2> DEFINE a == v[5]
             b == w[5]
  <2>1. NoEnd(a) /\ NoEnd(b)
    BY <1>2
  <2>2. CanonLine("cwd=", a, From6(v)) = CanonLine("cwd=", b, From6(w))
    BY <1>15 DEF From5
  <2> HIDE DEF a, b
  <2>3. a \in {b} /\ From6(v) \in {From6(w)}
    BY <1>7, <2>1, <2>2, LineSplits, Zenon
  <2> QED BY <2>3 DEF a, b
<1>17. v[6] \in {w[6]} /\ From7(v) \in {From7(w)}
  <2> DEFINE a == v[6]
             b == w[6]
  <2>1. NoEnd(a) /\ NoEnd(b)
    BY <1>2
  <2>2. CanonLine("timeout_secs=", a, From7(v)) = CanonLine("timeout_secs=", b, From7(w))
    BY <1>16 DEF From6
  <2> HIDE DEF a, b
  <2>3. a \in {b} /\ From7(v) \in {From7(w)}
    BY <1>6, <2>1, <2>2, LineSplits, Zenon
  <2> QED BY <2>3 DEF a, b
<1>18. v[7] \in {w[7]} /\ From8(v) \in {From8(w)}
  <2> DEFINE a == v[7]
             b == w[7]
  <2>1. NoEnd(a) /\ NoEnd(b)
    BY <1>2
  <2>2. CanonLine("timezone=", a, From8(v)) = CanonLine("timezone=", b, From8(w))
    BY <1>17 DEF From7
  <2> HIDE DEF a, b
  <2>3. a \in {b} /\ From8(v) \in {From8(w)}
    BY <1>5, <2>1, <2>2, LineSplits, Zenon
  <2> QED BY <2>3 DEF a, b
<1>19. v[8] \in {w[8]} /\ From9(v) \in {From9(w)}
  <2> DEFINE a == v[8]
             b == w[8]
  <2>1. NoEnd(a) /\ NoEnd(b)
    BY <1>2
  <2>2. CanonLine("overlap=", a, From9(v)) = CanonLine("overlap=", b, From9(w))
    BY <1>18 DEF From8
  <2> HIDE DEF a, b
  <2>3. a \in {b} /\ From9(v) \in {From9(w)}
    BY <1>4, <2>1, <2>2, LineSplits, Zenon
  <2> QED BY <2>3 DEF a, b
<1>20. v[9] \in {w[9]} /\ From10(v) \in {From10(w)}
  <2> DEFINE a == v[9]
             b == w[9]
  <2>1. NoEnd(a) /\ NoEnd(b)
    BY <1>2
  <2>2. CanonLine("missed=", a, From10(v)) = CanonLine("missed=", b, From10(w))
    BY <1>19 DEF From9
  <2> HIDE DEF a, b
  <2>3. a \in {b} /\ From10(v) \in {From10(w)}
    BY <1>3, <2>1, <2>2, LineSplits, Zenon
  <2> QED BY <2>3 DEF a, b
<1>21. v[10] \in {w[10]}
  <2> DEFINE a == v[10]
             b == w[10]
  <2>1. NoEnd(a) /\ NoEnd(b)
    BY <1>2
  <2>2. CanonLine("max_retries=", a, <<>>) = CanonLine("max_retries=", b, <<>>)
    BY <1>20 DEF From10
  <2> HIDE DEF a, b
  <2>3. a \in {b}
    BY <1>1, <2>1, <2>2, LineSplits, Zenon
  <2> QED BY <2>3 DEF a, b
<1> QED BY <1>12, <1>13, <1>14, <1>15, <1>16, <1>17, <1>18, <1>19, <1>20, <1>21

\* Jobs whose texts hold no separator: what the text of such a job is made of.
LEMMA CleanValues ==
    ASSUME NEW r, NEW defaults, Typed(r), Clean(NormalizeJob(r, defaults))
    PROVE  LET job == NormalizeJob(r, defaults) IN
           /\ Pure(job.command) /\ Pure(job.cwd) /\ Pure(job.zone)
           /\ \A k \in DOMAIN job.args : Pure(job.args[k])
           /\ PureSchedule(job.schedule)
           /\ \A i \in 1 .. 10 : NoEnd(Values(job)[i])
<1> DEFINE job == NormalizeJob(r, defaults)
           s == job.schedule
<1>1. s = NormalizeSchedule(r, job.zone) /\ job.args = r.args
  BY DEF NormalizeJob
<1>2. Clean(job) /\ r.args \in Seq(STRING)
  BY DEF Typed
<1> HIDE DEF job
<1>3. /\ Pure(job.command) /\ Pure(job.cwd) /\ Pure(job.zone) /\ Pure(s.at) /\ Pure(s.zone)
      /\ \A k \in DOMAIN job.args : Pure(job.args[k])
      /\ \A k \in DOMAIN s.days : Pure(s.days[k])
  BY <1>2 DEF Clean, Pure, ToSet
<1>4. PureSchedule(s)
  BY <1>3 DEF PureSchedule
<1>5. NoEnd(CanonicalSchedule(s))
  <2> DEFINE zone == job.zone
  <2>1. s = NormalizeSchedule(r, zone)
    BY <1>1
  <2> HIDE DEF zone, s
  <2>2. PureSchedule(NormalizeSchedule(r, zone))
    BY <1>4, <2>1
  <2> QED BY <2>1, <2>2, ScheduleText
<1>6. NoEnd(Spell(job.command)) /\ NoEnd(Spell(Blank(job.cwd))) /\ NoEnd(Spell(Blank(job.zone)))
  BY <1>3, PureWord
<1>7. NoEnd(Join("US", job.args))
  <2> DEFINE args == job.args
  <2>1. args \in Seq(STRING) /\ \A k \in DOMAIN args : Pure(args[k])
    BY <1>1, <1>2, <1>3
  <2>2. "US" # "LF"
    OBVIOUS
  <2> HIDE DEF args
  <2>3. NoEnd(Join("US", args))
    BY <2>1, <2>2, JoinHasNoEnd
  <2> QED BY <2>3 DEF args
<1>8. /\ NoEnd(<<YesNo(job.enabled)>>) /\ NoEnd(<<Number(job.timeout)>>)
      /\ NoEnd(<<Chars(job.overlap)>>) /\ NoEnd(<<Chars(job.missed)>>)
      /\ NoEnd(<<Digits(job.retries)>>)
  BY SymbolsApart, NoEndAlone
<1> DEFINE V == Values(job)
<1>9. /\ V[1] = <<YesNo(job.enabled)>> /\ V[2] = CanonicalSchedule(s) /\ V[3] = Spell(job.command)
      /\ V[4] = Join("US", job.args) /\ V[5] = Spell(Blank(job.cwd)) /\ V[6] = <<Number(job.timeout)>>
      /\ V[7] = Spell(Blank(job.zone)) /\ V[8] = <<Chars(job.overlap)>>
      /\ V[9] = <<Chars(job.missed)>> /\ V[10] = <<Digits(job.retries)>>
  BY DEF Values
<1> HIDE DEF V, s
<1>10. \A i \in 1 .. 10 : NoEnd(V[i])
  <2>1. /\ NoEnd(V[1]) /\ NoEnd(V[2]) /\ NoEnd(V[3]) /\ NoEnd(V[4]) /\ NoEnd(V[5])
        /\ NoEnd(V[6]) /\ NoEnd(V[7]) /\ NoEnd(V[8]) /\ NoEnd(V[9]) /\ NoEnd(V[10])
    BY <1>5, <1>6, <1>7, <1>8, <1>9
  <2>2. \A i \in 1 .. 10 : i \in {1, 2, 3, 4, 5, 6, 7, 8, 9, 10}
    OBVIOUS
  <2> QED BY <2>1, <2>2
<1> QED BY <1>3, <1>4, <1>10 DEF V, s, job

LEMMA JobIsRendered ==
    ASSUME NEW r, NEW q, NEW defaults, Typed(r), Typed(q), r.zone # Empty, q.zone # Empty,
           Clean(NormalizeJob(r, defaults)), Clean(NormalizeJob(q, defaults)),
           ~Ambiguous(NormalizeJob(r, defaults)), ~Ambiguous(NormalizeJob(q, defaults)),
           CanonicalJob(NormalizeJob(r, defaults)) = CanonicalJob(NormalizeJob(q, defaults))
    PROVE  NormalizeJob(r, defaults) \in {NormalizeJob(q, defaults)}
<1> DEFINE x == NormalizeJob(r, defaults)
           y == NormalizeJob(q, defaults)
           V == Values(x)
           W == Values(y)
<1>1. /\ Pure(x.command) /\ Pure(x.cwd) /\ Pure(x.zone) /\ PureSchedule(x.schedule)
      /\ \A k \in DOMAIN x.args : Pure(x.args[k])
      /\ \A i \in 1 .. 10 : NoEnd(V[i])
  BY CleanValues
<1>2. /\ Pure(y.command) /\ Pure(y.cwd) /\ Pure(y.zone) /\ PureSchedule(y.schedule)
      /\ \A k \in DOMAIN y.args : Pure(y.args[k])
      /\ \A i \in 1 .. 10 : NoEnd(W[i])
  BY CleanValues
<1>3. /\ x.args = r.args /\ y.args = q.args /\ x.args # <<Empty>> /\ y.args # <<Empty>>
      /\ x.cwd # Empty /\ y.cwd # Empty
      /\ x.zone = Or(r.zone, defaults.zone) /\ y.zone = Or(q.zone, defaults.zone)
      /\ x.schedule = NormalizeSchedule(r, x.zone) /\ y.schedule = NormalizeSchedule(q, y.zone)
      /\ x.enabled \in BOOLEAN /\ y.enabled \in BOOLEAN
  BY DEF NormalizeJob, Ambiguous
<1>4. From1(V) = From1(W)
  BY FromFirst
<1> HIDE DEF x, y
<1>5. \A i \in 1 .. 10 : V[i] = W[i]
  <2> HIDE DEF V, W
  <2>1. NoneEnds(V) /\ NoneEnds(W)
    BY <1>1, <1>2 DEF NoneEnds
  <2>2. \A i \in 1 .. 10 : V[i] \in {W[i]}
    BY <1>4, <2>1, LinesSplit
  <2> QED BY <2>2
<1>6. /\ V[1] = <<YesNo(x.enabled)>> /\ V[2] = CanonicalSchedule(x.schedule) /\ V[3] = Spell(x.command)
      /\ V[4] = Join("US", x.args) /\ V[5] = Spell(Blank(x.cwd)) /\ V[6] = <<Number(x.timeout)>>
      /\ V[7] = Spell(Blank(x.zone)) /\ V[8] = <<Chars(x.overlap)>>
      /\ V[9] = <<Chars(x.missed)>> /\ V[10] = <<Digits(x.retries)>>
  BY DEF Values
<1>7. /\ W[1] = <<YesNo(y.enabled)>> /\ W[2] = CanonicalSchedule(y.schedule) /\ W[3] = Spell(y.command)
      /\ W[4] = Join("US", y.args) /\ W[5] = Spell(Blank(y.cwd)) /\ W[6] = <<Number(y.timeout)>>
      /\ W[7] = Spell(Blank(y.zone)) /\ W[8] = <<Chars(y.overlap)>>
      /\ W[9] = <<Chars(y.missed)>> /\ W[10] = <<Digits(y.retries)>>
  BY DEF Values
<1> HIDE DEF V, W
<1>8. /\ <<YesNo(x.enabled)>> = <<YesNo(y.enabled)>>
      /\ CanonicalSchedule(x.schedule) = CanonicalSchedule(y.schedule)
      /\ Spell(x.command) = Spell(y.command) /\ Join("US", x.args) = Join("US", y.args)
      /\ Spell(Blank(x.cwd)) = Spell(Blank(y.cwd)) /\ <<Number(x.timeout)>> = <<Number(y.timeout)>>
      /\ Spell(Blank(x.zone)) = Spell(Blank(y.zone)) /\ <<Chars(x.overlap)>> = <<Chars(y.overlap)>>
      /\ <<Chars(x.missed)>> = <<Chars(y.missed)>> /\ <<Digits(x.retries)>> = <<Digits(y.retries)>>
  <2>1. /\ V[1] = W[1] /\ V[2] = W[2] /\ V[3] = W[3] /\ V[4] = W[4] /\ V[5] = W[5]
        /\ V[6] = W[6] /\ V[7] = W[7] /\ V[8] = W[8] /\ V[9] = W[9] /\ V[10] = W[10]
    BY <1>5
  <2> QED BY <1>6, <1>7, <2>1
<1>9. /\ x.enabled = y.enabled /\ x.timeout = y.timeout /\ x.overlap = y.overlap
      /\ x.missed = y.missed /\ x.retries = y.retries
  <2>1. /\ x.enabled \in {y.enabled} /\ x.timeout \in {y.timeout} /\ x.overlap \in {y.overlap}
        /\ x.missed \in {y.missed} /\ x.retries \in {y.retries}
    BY <1>3, <1>8, SymbolsApart, Zenon
  <2> QED BY <2>1
<1>10. x.command = y.command /\ Blank(x.cwd) = Blank(y.cwd) /\ Blank(x.zone) = Blank(y.zone)
  <2>1. /\ <<Chars(x.command)>> = <<Chars(y.command)>>
        /\ <<Chars(Blank(x.cwd))>> = <<Chars(Blank(y.cwd))>>
        /\ <<Chars(Blank(x.zone))>> = <<Chars(Blank(y.zone))>>
    BY <1>1, <1>2, <1>8, PureWord
  <2>2. /\ x.command \in {y.command} /\ Blank(x.cwd) \in {Blank(y.cwd)}
        /\ Blank(x.zone) \in {Blank(y.zone)}
    BY <2>1, SymbolsApart, Zenon
  <2> QED BY <2>2
<1>11. x.args = y.args
  <2> DEFINE a == x.args
             b == y.args
  <2>1. a \in Seq(STRING) /\ b \in Seq(STRING)
    BY <1>3 DEF Typed
  <2>2. Join("US", a) = Join("US", b) /\ a # <<Empty>> /\ b # <<Empty>>
    BY <1>3, <1>8
  <2>3. (\A k \in DOMAIN a : Pure(a[k])) /\ (\A k \in DOMAIN b : Pure(b[k]))
    BY <1>1, <1>2
  <2> HIDE DEF a, b
  <2>4. a \in {b}
    BY <2>1, <2>2, <2>3, JoinTellsApart
  <2> QED BY <2>4 DEF a, b
<1>12. x.cwd = y.cwd
  BY <1>3, <1>10 DEF Blank
<1>13. x.zone = y.zone
  BY <1>3, <1>10 DEF Or, Blank
<1>14. x.schedule = y.schedule
  <2> DEFINE zone == x.zone
  <2>1. x.schedule = NormalizeSchedule(r, zone) /\ y.schedule = NormalizeSchedule(q, zone)
    BY <1>3, <1>13
  <2> HIDE DEF zone
  <2>2. /\ PureSchedule(NormalizeSchedule(r, zone)) /\ PureSchedule(NormalizeSchedule(q, zone))
        /\ CanonicalSchedule(NormalizeSchedule(r, zone)) = CanonicalSchedule(NormalizeSchedule(q, zone))
    BY <1>1, <1>2, <1>8, <2>1
  <2>3. NormalizeSchedule(r, zone) \in {NormalizeSchedule(q, zone)}
    BY <2>2, ScheduleTellsApart
  <2> QED BY <2>1, <2>3
<1>15. x = y
  <2>1. /\ x = [enabled |-> x.enabled, schedule |-> x.schedule, command |-> x.command,
                args |-> x.args, cwd |-> x.cwd, timeout |-> x.timeout, zone |-> x.zone,
                overlap |-> x.overlap, missed |-> x.missed, retries |-> x.retries]
        /\ y = [enabled |-> y.enabled, schedule |-> y.schedule, command |-> y.command,
                args |-> y.args, cwd |-> y.cwd, timeout |-> y.timeout, zone |-> y.zone,
                overlap |-> y.overlap, missed |-> y.missed, retries |-> y.retries]
    BY DEF x, y, NormalizeJob
  <2> QED BY <1>9, <1>10, <1>11, <1>12, <1>13, <1>14, <2>1, Zenon
<1> QED BY <1>15 DEF x, y

\* In every file that the edits leave behind and the daemon takes, two jobs without a
\* separator in their texts have the same canonical text only if they are the same in
\* every field that decides how they run (canonical_job): the line ends, the separators
\* between words and the keys keep the values apart, whatever the words are.
THEOREM HashesTellApart == Spec => []HashTellsJobsApart
<1>1. IsText(text) => HashTellsJobsApart
  <2> SUFFICES ASSUME IsText(text), Accepted(text) PROVE HashTellsJobsApart
    BY DEF HashTellsJobsApart
  <2> DEFINE defaults == DefaultsOf(text)
             N(i) == NormalizeJob(JobAt(text, i).raw, defaults)
  <2>1. ASSUME NEW i \in Items(text), NEW k \in Items(text),
               Clean(N(i)), Clean(N(k)), ~Ambiguous(N(i)), ~Ambiguous(N(k)),
               CanonicalJob(N(i)) = CanonicalJob(N(k))
        PROVE  N(i) = N(k)
    <3> DEFINE r == JobAt(text, i).raw
               q == JobAt(text, k).raw
    <3>1. r.zone # Empty /\ q.zone # Empty
      BY <2>1, AcceptedJobs, Checked
    <3>2. Typed(r) /\ Typed(q)
      BY <2>1, JobIsTyped DEF Accepted
    <3> HIDE DEF r, q, defaults
    <3>3. NormalizeJob(r, defaults) \in {NormalizeJob(q, defaults)}
      BY <2>1, <3>1, <3>2, JobIsRendered DEF r, q
    <3> QED BY <3>3 DEF r, q
  <2> DEFINE jobs == {job \in NormalJobs(text) : Clean(job) /\ ~Ambiguous(job)}
  <2>2. \A x \in jobs : \E i \in Items(text) : x = N(i) /\ Clean(N(i)) /\ ~Ambiguous(N(i))
    <3> HIDE DEF defaults
    <3> QED BY DEF NormalJobs, defaults
  <2> HIDE DEF N, jobs
  <2>3. \A x, y \in jobs : CanonicalJob(x) = CanonicalJob(y) => x = y
    BY <2>1, <2>2
  <2>4. LET hashed == {[job |-> job, as |-> CanonicalJob(job)] : job \in jobs}
        IN  \A x, y \in hashed : x.as = y.as => x.job = y.job
    BY <2>3
  <2> QED BY <2>4 DEF HashTellsJobsApart, jobs
<1> QED BY <1>1, TextInvariant, PTL
=============================================================================
