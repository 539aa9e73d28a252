----------------------------- MODULE MCTimeTable -----------------------------
(* A day of four hours of two minutes, a week of two days, months of two and   *)
(* three days; transitions on the second day, by half an hour up to two hours. *)
EXTENDS TimeTable, TLC

CONSTANTS j1, j2

Minute(every) == [kind |-> "minute", every |-> every]
Hourly(every) == [kind |-> "hour", every |-> every]
Weekly(days, time) ==
    [kind |-> "calendar", monthly |-> FALSE, days |-> days, time |-> time]
OnDay(n, time) ==
    [kind |-> "calendar", monthly |-> TRUE, lastDay |-> FALSE, onDay |-> n, time |-> time]
LastDay(time) ==
    [kind |-> "calendar", monthly |-> TRUE, lastDay |-> TRUE, onDay |-> 0, time |-> time]

Zone(base, at, shift) == [base |-> base, at |-> at, shift |-> shift]

Transitions == {Zone(0, a, s) : a \in {11, 14}, s \in {-4, -2, -1, 1, 2, 4}}
                  \cup {Zone(2, 14, s) : s \in {-4, -2, 0, 2, 4}}

Rules == {Minute(1), Minute(2), Hourly(1), Hourly(2), Weekly({0, 1}, 3),
          Weekly({1}, 0), OnDay(3, 5), LastDay(2)}

\* Every rule in every zone, beside a daily job in a zone without transitions.
Beside == [zone |-> Zone(0, 0, 0), rule |-> Weekly({0, 1}, 3)]
EveryRule == {(j1 :> [zone |-> z, rule |-> r]) @@ (j2 :> Beside) :
                z \in Transitions, r \in Rules}

\* A job every minute in a zone whose clock falls back by an hour.
FallBack == {[j \in Job |-> [zone |-> Zone(0, 14, -2), rule |-> Minute(1)]]}
=============================================================================
