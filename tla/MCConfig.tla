------------------------------ MODULE MCConfig ------------------------------
(* Files and edits for TLC.  One family of files varies what is written about *)
(* two jobs, the other how it is laid out.                                   *)
EXTENDS ConfigEdit

-----------------------------------------------------------------------------
(* What may be written about a job.                                          *)

Token(unit, n, word) == [unit |-> unit, n |-> n, word |-> word]
M(n) == Token("m", n, "")
H(n) == Token("h", n, "")
W(word) == Token("", 0, word)
Dur(n, unit) == [n |-> n, unit |-> unit]
NoDur == Dur(0, "none")
Retry(n) == [given |-> TRUE, n |-> n]
NoRetry == [given |-> FALSE, n |-> 0]

Plain == [enabled |-> "none", every |-> [form |-> "one", tokens |-> <<M(15)>>], cron |-> "none",
          at |-> "none", onDay |-> Err, lastDay |-> FALSE, zone |-> "none",
          command |-> "tidy", args |-> <<>>, cwd |-> "none", timeout |-> NoDur,
          missed |-> "none", overlap |-> "none", retries |-> NoRetry]

Every(tokens) == [Plain EXCEPT !.every = [form |-> "given", tokens |-> tokens]]
NoEvery == [Plain EXCEPT !.every = [form |-> "none", tokens |-> <<>>]]
Schedules ==
    {Every(<<t>>) : t \in {M(0), M(7), M(60), H(0), H(5), H(6), W("day"), W("friday"),
                           W("fortnight"), Token("x", 3, "")}}
    \cup {Every(ts) : ts \in {<<>>, <<M(15), M(30)>>, <<W("monday"), W("friday")>>,
                              <<W("monday"), W("sometime")>>}}
    \cup {NoEvery, [Plain EXCEPT !.cron = "hourly"]}
    \cup {[NoEvery EXCEPT !.cron = c, !.zone = z] : c \in {"hourly", "daily", "bad"},
                                                    z \in {"none", "rome"}}
    \cup {[Every(<<W("month")>>) EXCEPT !.onDay = d, !.lastDay = l, !.at = a] :
             d \in {Err, 0, 31, 32}, l \in BOOLEAN, a \in {"none", "03:00", "bad"}}
    \cup {[raw EXCEPT !.onDay = d, !.lastDay = l, !.at = "03:00"] :
             raw \in {Every(<<H(6)>>), [NoEvery EXCEPT !.cron = "daily"]},
             d \in {Err, 31}, l \in BOOLEAN}
    \cup {[Every(<<W("day")>>) EXCEPT !.zone = z] : z \in {"rome", "utc", "bad"}}
Policies ==
    {[Plain EXCEPT !.timeout = d] : d \in {Dur(15, "m"), Dur(4, "d"), Dur(U64, "s"),
                                          Dur(3, "weeks")}}
    \cup {[Plain EXCEPT !.missed = m, !.overlap = o] : m \in {"none", "run_once", "run_any"},
                                                       o \in {"none", "skip", "queue", "abort"}}
    \cup {[Plain EXCEPT !.retries = Retry(n)] : n \in {-1, 0, 2, U32}}
    \cup {[Plain EXCEPT !.command = c] : c \in {"none", "blank", "sweep"}}
    \cup {[Plain EXCEPT !.args = a, !.cwd = d] : a \in {<<>>, <<"">>, <<"x">>, <<"x", "y">>},
                                                 d \in {"none", "", "tmp"}}
    \cup {[Plain EXCEPT !.args = <<"x US y">>],
          [Plain EXCEPT !.args = <<"x LF cwd=tmp">>, !.cwd = "z"],
          [Plain EXCEPT !.args = <<"x">>, !.cwd = "tmp LF cwd=z"]}
Symbols ==
    [word \in {"x US y", "x LF cwd=tmp", "tmp LF cwd=z"} |->
        CASE word = "x US y"       -> <<Chars("x"), Mark("US"), Chars("y")>>
          [] word = "x LF cwd=tmp" -> <<Chars("x"), Mark("LF"), Chars("cwd="), Chars("tmp")>>
          [] word = "tmp LF cwd=z" -> <<Chars("tmp"), Mark("LF"), Chars("cwd="), Chars("z")>>]
Bodies == {Plain} \cup Schedules \cup Policies

SomeDefaults == {[Plain EXCEPT !.zone = "utc", !.missed = "run_once", !.timeout = Dur(1, "h")],
                 [Plain EXCEPT !.zone = "nowhere", !.overlap = "queue",
                               !.timeout = Dur(3, "weeks"), !.retries = Retry(-1)]}

-----------------------------------------------------------------------------
(* Layouts.                                                                  *)

Key(key, val) == Line(key, FALSE, val, Plain)
Note(c) == Key("comment", c)
Version == Key("version", "1")
Jobs == Key("jobs", "block")
Defaults(raw) == Line("defaults", FALSE, "", raw)
Sub == Key("nested", "")
Schedule(raw) == <<Line("schedule", FALSE, "", raw), Sub>>
Execution == <<Key("execution", ""), Sub>>
Dash(lines) == <<[lines[1] EXCEPT !.dash = TRUE]>> \o Tail(lines)

Usual(id, raw) == Dash(<<Key("id", id)>> \o Schedule(raw) \o Execution)
Flow(id) == <<Line("flow", TRUE, id, Plain)>>
Layouts(id) ==
    {Usual(id, Plain), Flow(id),
     Dash(<<Key("id", id), Note(id), Key("enabled", "true")>> \o Schedule(Plain) \o Execution),
     Dash(Schedule(Plain) \o <<Key("id", id)>> \o Execution),
     Dash(Schedule(Plain) \o Execution \o <<Key("id", id), Key("enabled", "false")>>),
     Dash(Execution \o Schedule(Plain) \o <<Note(id), Key("id", id)>>),
     Dash(Schedule(Plain) \o Execution)}

\* Each entry by itself, and two files of all that are valid.
Headed(lines) == {<<Version>> \o d \o <<Jobs>> \o lines :
                  d \in {<<>>} \cup {<<Defaults(x)>> : x \in SomeDefaults}}
Valid == {raw \in Bodies : CheckSchedule(raw) \cup CheckJob(raw) = {}}
All(bodies) == FoldSet(LAMBDA raw, lines : lines \o Usual(ToString(Len(lines)), raw), <<>>,
                       bodies \cap Valid)
Written == (UNION {Headed(Usual("job", raw)) : raw \in Bodies}) \cup Headed(All(Schedules)) \cup Headed(All(Policies))

LaidOut == {<<Version, Jobs, Note("top")>> \o x \o d \o y \o e :
            x \in Layouts("a") \cup Layouts("b"),
            d \in {<<>>, <<Note("between")>>}, y \in Layouts("b") \cup {<<>>},
            e \in {<<>>, <<Note("end")>>, <<Note("end"), Defaults(Plain), Note("last")>>}}
Odd == {<<Version, Key("jobs", "flow")>>, <<Version, Jobs>>, <<Key("version", "2"), Jobs>> \o Flow("a")}

AllTexts == Written \cup LaidOut \cup Odd

Add(id, disabled, raw) == [op |-> "add", id |-> id, disabled |-> disabled, raw |-> raw]
Edits == [op : {"pause", "resume", "remove"}, id : {"a", "b"}]
         \cup {Add("b", FALSE, Plain), Add("c", TRUE, Plain), Add("No Kebab", FALSE, Plain),
               Add("c", FALSE, Every(<<M(7)>>)), Add("c", FALSE, [NoEvery EXCEPT !.cron = "daily"])}
=============================================================================
