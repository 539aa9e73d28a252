---------------------------- MODULE ConfigRules ----------------------------
(***************************************************************************)
(* What a job's entry in the file means: validate_config decides which     *)
(* files are refused, normalize resolves a job against the defaults, and   *)
(* canonical_job renders what config_hash is taken of.  The two readers of *)
(* an entry were written apart: validation is to stop what normalize could *)
(* only replace by a default.                                              *)
(*                                                                         *)
(* A raw job is a record with "none" for a key that is not there.  A text  *)
(* that needs no more than its verdict is "bad" or anything else.          *)
(***************************************************************************)
EXTENDS Integers, FiniteSets, SequencesExt

CONSTANTS
    U64, U32,   \* where u64 and u32 end (2^64 and 2^32 in the code)
    NotKebab,   \* ids that break the rule for ids
    Spelled     \* of each text that holds a separator: its symbols

Err == -1           \* Err(()), None
Empty == ""         \* String::new()

\* A token of `every`: a number with a unit, or a word.
RawToken == [unit : {"m", "h"}, n : Nat, word : {Empty}]
            \cup [unit : {Empty}, n : {0}, word : STRING]
            \cup [unit : STRING \ {"m", "h", Empty}, n : Nat, word : STRING]

RawJob ==
    [enabled : STRING,
     every : [form : {"none", "one", "given"}, tokens : Seq(RawToken)],
     cron : STRING, at : STRING, onDay : Int, lastDay : BOOLEAN, zone : STRING,
     command : STRING, args : Seq(STRING), cwd : STRING,
     timeout : [n : Nat, unit : STRING], missed : STRING, overlap : STRING,
     retries : [given : BOOLEAN, n : Int]]

-----------------------------------------------------------------------------
(* config.rs: the shorthands.                                                *)

Weekdays == {"monday", "wednesday", "friday"}
Named == {"day", "weekday", "month"} \cup Weekdays

ASSUME RulesAssumption ==
    /\ U64 \in Nat \ {0} /\ U32 \in Nat \ {0} /\ "none" \notin NotKebab
    /\ DOMAIN Spelled \cap (Named \cup {Empty, "none"}) = {}

NoInterval == [kind |-> "error", n |-> 0, word |-> Empty]

ParseEveryInterval(token) ==
    CASE token.unit = "m" -> [kind |-> "minutes", n |-> token.n, word |-> Empty]
      [] token.unit = "h" -> [kind |-> "hours", n |-> token.n, word |-> Empty]
      [] token.unit = Empty /\ token.word \in Named -> [kind |-> "named", n |-> 0, word |-> token.word]
      [] OTHER -> NoInterval

Unit == [s |-> 1, m |-> 60, h |-> 3600, d |-> 86400]

\* What a duration says.
Seconds(text) == IF text.unit \in DOMAIN Unit THEN text.n * Unit[text.unit] ELSE Err

\* The number is to fit u64; a release build multiplies modulo 2^64.
ParseDuration(text) ==
    IF text.unit \in DOMAIN Unit /\ text.n < U64 THEN Seconds(text) % U64 ELSE Err

-----------------------------------------------------------------------------
(* validation.rs: the codes of the diagnostics.                              *)

Divides(n, whole) == n # 0 /\ whole % n = 0

\* Mutant: a word that is no interval is left to normalize.
CheckTokenNumbers(token) ==
    LET i == ParseEveryInterval(token) IN
    CASE i.kind = "minutes" -> IF Divides(i.n, 60) THEN {} ELSE {"schedule.non_divisor"}
      [] i.kind = "hours"   -> IF Divides(i.n, 24) THEN {} ELSE {"schedule.non_divisor"}
      [] OTHER              -> {}

CheckToken(token) ==
    LET i == ParseEveryInterval(token) IN
    CASE i.kind = "minutes" -> IF Divides(i.n, 60) THEN {} ELSE {"schedule.non_divisor"}
      [] i.kind = "hours"   -> IF Divides(i.n, 24) THEN {} ELSE {"schedule.non_divisor"}
      [] i.kind = "named"   -> {}
      [] OTHER              -> {"schedule.invalid"}

HasEvery(raw) == raw.every.form # "none"

CheckSchedule(raw) ==
    LET wrong(code, P) == IF P THEN {code} ELSE {} IN
    wrong("schedule.invalid", HasEvery(raw) <=> raw.cron # "none")
    \cup wrong("schedule.invalid", raw.onDay # Err /\ raw.lastDay)
    \cup wrong("schedule.invalid", raw.onDay # Err /\ raw.onDay \notin 1 .. 31)
    \cup (UNION {CheckToken(raw.every.tokens[i]) : i \in DOMAIN raw.every.tokens})
    \cup wrong("schedule.invalid", raw.at = "bad")
    \cup wrong("schedule.cron_invalid", raw.cron = "bad")
    \cup wrong("schedule.timezone_invalid", raw.zone \in {Empty, "bad"})

IsKebab(id) == id \notin NotKebab

\* Warnings (command not found, timeout over a day) stop nobody.
CheckJob(raw) ==
    LET wrong(code, P) == IF P THEN {code} ELSE {} IN
    wrong("execution.command_missing", raw.command \in {"none", "blank"})
    \cup wrong("duration.invalid", raw.timeout.unit # "none" /\ ParseDuration(raw.timeout) = Err)
    \cup wrong("field.type", raw.retries.given /\ raw.retries.n < 0)

\* The errors of a config: a family of [id, raw].  A job may do without an id,
\* and the defaults are not looked at.
ValidateConfig(jobs) ==
    (UNION {CheckSchedule(jobs[i].raw) \cup CheckJob(jobs[i].raw) : i \in DOMAIN jobs})
    \cup {"job.id_invalid" : i \in {k \in DOMAIN jobs : ~IsKebab(jobs[k].id)}}
    \cup (IF \E i, k \in DOMAIN jobs :
               i # k /\ jobs[i].id # "none" /\ jobs[i].id = jobs[k].id
          THEN {"job.id_duplicate"} ELSE {})

-----------------------------------------------------------------------------
(* config.rs: normalize_job.                                                 *)

\* Job field, then `defaults`, then the built-in default.
Or(own, default) == IF own # "none" THEN own ELSE default

ParseOverlapPolicy(text) == IF text \in {"queue", "kill"} THEN text ELSE "skip"
ParseMissedRunPolicy(text) == IF text \in {"run_once", "run_all"} THEN text ELSE "skip"

Timeout(raw, defaults) ==
    LET secs(d) == IF d.unit = "none" THEN Err ELSE ParseDuration(d) IN
    IF secs(raw.timeout) # Err THEN secs(raw.timeout) ELSE secs(defaults.timeout)

MaxRetries(raw, defaults) ==
    LET r == IF raw.retries.given THEN raw.retries ELSE defaults.retries IN
    IF r.given /\ r.n \in 0 .. U32 - 1 THEN r.n ELSE 0     \* u32::try_from

Calendar(raw, zone, days) ==
    [kind |-> "calendar", n |-> 0, days |-> days, at |-> Or(raw.at, "00:00"), zone |-> zone,
     onDay |-> raw.onDay, lastDay |-> raw.lastDay]
Aligned(kind, n) ==
    [kind |-> kind, n |-> n, days |-> <<>>, at |-> Empty, zone |-> "none", onDay |-> Err,
     lastDay |-> FALSE]
Cron(raw, zone) == [Aligned("cron", 0) EXCEPT !.at = raw.cron, !.zone = zone]

\* The words among the intervals, in order.
Words(parsed) ==
    FlattenSeq([i \in DOMAIN parsed |->
                   IF parsed[i].kind = "named" THEN <<parsed[i].word>> ELSE <<>>])

NormalizeSchedule(raw, zone) ==
    LET parsed == [i \in DOMAIN raw.every.tokens |-> ParseEveryInterval(raw.every.tokens[i])]
        days   == Words(parsed)
        one    == Len(parsed) = 1
    IN
    IF raw.cron # "none" THEN Cron(raw, zone)
    ELSE IF one /\ parsed[1].kind \in {"minutes", "hours"} THEN Aligned(parsed[1].kind, parsed[1].n)
    ELSE Calendar(raw, zone, IF days # <<>> THEN days ELSE <<"day">>)

NormalizeJob(raw, defaults) ==
    LET zone == Or(raw.zone, defaults.zone) IN
    [enabled |-> raw.enabled # "false", schedule |-> NormalizeSchedule(raw, zone),
     command |-> raw.command, args |-> raw.args, cwd |-> raw.cwd,
     timeout |-> Timeout(raw, defaults), zone |-> zone,
     overlap |-> ParseOverlapPolicy(Or(raw.overlap, defaults.overlap)),
     missed |-> ParseMissedRunPolicy(Or(raw.missed, defaults.missed)),
     retries |-> MaxRetries(raw, defaults)]

-----------------------------------------------------------------------------
(* config.rs: canonical_job, the text the hash is taken of.  A text is a      *)
(* sequence of symbols: stretches without a separator, numbers, separators.  *)

Chars(text) == [is |-> "chars", text |-> text, n |-> 0]
Digits(n) == [is |-> "digits", text |-> Empty, n |-> n]
Mark(separator) == [is |-> "mark", text |-> separator, n |-> 0]

Spell(word) == IF word \in DOMAIN Spelled THEN Spelled[word] ELSE <<Chars(word)>>
Blank(word) == IF word = "none" THEN Empty ELSE word
YesNo(flag) == Chars(IF flag THEN "true" ELSE "false")
Number(n) == IF n = Err THEN Chars(Empty) ELSE Digits(n)

\* words.join(separator)
Join(separator, words) ==
    IF words = <<>> THEN <<Chars(Empty)>>
    ELSE Tail(FlattenSeq([i \in DOMAIN words |-> <<Mark(separator)>> \o Spell(words[i])]))

CanonicalSchedule(s) ==
    CASE s.kind = "calendar" ->
            <<Chars("calendar:days=")>> \o Join(",", s.days)
            \o (<<Mark(":at=")>> \o Spell(s.at) \o <<Mark(":tz=")>> \o Spell(Blank(s.zone))
                \o <<Mark(":on_day="), Number(s.onDay), Mark(":last_day="), YesNo(s.lastDay)>>)
      [] s.kind = "cron" ->
            <<Chars("cron:")>> \o Spell(s.at) \o <<Mark(":tz=")>> \o Spell(Blank(s.zone))
      [] OTHER -> <<Chars(s.kind), Digits(s.n)>>

\* writeln!, and what follows.
CanonLine(key, value, rest) == (<<Chars(key)>> \o value) \o (<<Mark("LF")>> \o rest)

\* Mutant: a field that was added later is not rendered.
CanonicalWithoutMissed(job) ==
    CanonLine("overlap=", <<Chars(job.overlap)>>,
    CanonLine("max_retries=", <<Digits(job.retries)>>, <<>>))

CanonicalPolicies(job) ==
    CanonLine("overlap=", <<Chars(job.overlap)>>,
    CanonLine("missed=", <<Chars(job.missed)>>,
    CanonLine("max_retries=", <<Digits(job.retries)>>, <<>>)))

CanonicalJob(job) ==
    CanonLine("enabled=", <<YesNo(job.enabled)>>,
    CanonLine("schedule=", CanonicalSchedule(job.schedule),
    CanonLine("command=", Spell(job.command),
    CanonLine("args=", Join("US", job.args),
    CanonLine("cwd=", Spell(Blank(job.cwd)),
    CanonLine("timeout_secs=", <<Number(job.timeout)>>,
    CanonLine("timezone=", Spell(Blank(job.zone)),
    CanonicalPolicies(job))))))))
=============================================================================
