---------------------------- MODULE ConfigEdit ----------------------------
(***************************************************************************)
(* The edits of `jobs pause|resume|remove|add`: each finds a span of lines *)
(* in the text of the file, splices it, and is refused unless the outcome  *)
(* parses and validates.  A text is a sequence of lines; JobsOf reads it   *)
(* as YAML does, and knows nothing of how the edits find their spans.      *)
(***************************************************************************)
EXTENDS ConfigRules

CONSTANTS
    Texts,          \* the files to begin with
    Mutations,      \* [op, id] each; an "add" also has `disabled` and `raw`
    EmptyParses,    \* the YAML library takes an empty `jobs:` for an empty list
    MaxEdits

\* A line: a key of the top level, a key of a job, "nested" below such a key, or a
\* comment.  `dash` starts a list item; "flow" is a job written {in braces}.  The
\* line of `schedule` stands for the whole job but its id and its `enabled`.
Line(key, dash, val, raw) == [key |-> key, dash |-> dash, val |-> val, raw |-> raw]
TextLine == {l \in [key : STRING, dash : BOOLEAN, val : STRING, raw : RawJob] :
                 l.dash => l.key # "comment"}
Mutation == [op : {"pause", "resume", "remove"}, id : STRING]
            \cup [op : {"add"}, id : STRING, disabled : BOOLEAN, raw : RawJob]

ASSUME EditAssumption ==
    /\ Texts \subseteq Seq(TextLine) /\ Mutations \subseteq Mutation
    /\ MaxEdits \in Nat

VARIABLES text, last, edits
vars == <<text, last, edits>>

TopKeys == {"version", "jobs", "defaults"}
MapKeys == {"schedule", "execution"}

ContentLines(t) == {i \in DOMAIN t : t[i].key # "comment"}
JobsAt(t) == SelectInSeq(t, LAMBDA l : l.key = "jobs")
NextContent(t, i) == Min({k \in ContentLines(t) : k > i} \cup {Len(t) + 1})
SeqEnd(t) ==
    LET jobs == JobsAt(t) IN
    Min({k \in ContentLines(t) : k > jobs /\ t[k].key \in TopKeys} \cup {Len(t) + 1})
Items(t) == {i \in JobsAt(t) + 1 .. SeqEnd(t) - 1 : t[i].dash}
NextItem(t, i) == Min({k \in Items(t) : k > i} \cup {SeqEnd(t)})
LastLine(t, i) == LET next == NextItem(t, i) IN Max({k \in ContentLines(t) : k < next})
Entries(t, i) ==
    LET lines == i .. LastLine(t, i) IN {k \in ContentLines(t) \cap lines : t[k].key # "nested"}

-----------------------------------------------------------------------------
(* config::parse, by what YAML says of lines and indentation.                *)

Value(t, i, key) ==
    LET at == {k \in Entries(t, i) : t[k].key = key} IN
    IF at = {} THEN "none" ELSE t[CHOOSE k \in at : TRUE].val

JobAt(t, i) ==
    IF t[i].key = "flow" THEN [id |-> t[i].val, raw |-> t[i].raw]
    ELSE LET s == CHOOSE k \in Entries(t, i) : t[k].key = "schedule" IN
         [id |-> Value(t, i, "id"), raw |-> [t[s].raw EXCEPT !.enabled = Value(t, i, "enabled")]]

\* Line numbers in order.
InOrder(S, t) == SelectSeq([i \in DOMAIN t |-> i], LAMBDA i : i \in S)

JobsIn(t) == [i \in Items(t) |-> JobAt(t, i)]
JobsOf(t) == LET items == InOrder(Items(t), t) IN
             [n \in DOMAIN items |-> JobAt(t, items[n])]

Parses(t) ==
    /\ \A i \in ContentLines(t) :
         \* what is nested stands below its key, and a key has what is nested
         LET below == NextContent(t, i) IN
         (t[i].key \in MapKeys \cup (IF t[i].key = "nested" THEN {"nested"} ELSE {}))
             \/ (below <= Len(t) => t[below].key # "nested")
    /\ \A i \in ContentLines(t) : t[i].key \in MapKeys =>
         NextContent(t, i) <= Len(t) /\ t[NextContent(t, i)].key = "nested"
    /\ \A i \in Items(t) : t[i].key # "flow" =>
         /\ MapKeys \subseteq {t[k].key : k \in Entries(t, i)}
         /\ \A k, l \in Entries(t, i) : t[k].key = t[l].key => k = l
    /\ Items(t) # {} \/ t[JobsAt(t)].val = "flow" \/ EmptyParses

DefaultsOf(t) == LET at == SelectInSeq(t, LAMBDA l : l.key = "defaults") IN
                   t[IF at = 0 THEN 1 ELSE at].raw

\* config_mutation::validate
Accepted(t) ==
    /\ Parses(t)
    /\ t[1].val = "1"       \* version.unsupported
    /\ ValidateConfig(JobsIn(t)) = {}

-----------------------------------------------------------------------------
(* config_edit.rs: the spans.                                                *)

\* find_job_item and locate_job: the first block item of that id in a block list.
LocateJob(t, id) ==
    LET named == {i \in Items(t) : (t[i].key = "flow" /\ t[i].val = id) \/ Value(t, i, "id") = id}
    IN {i \in named : t[JobsAt(t)].val # "flow" /\ t[i].key # "flow"
                      /\ \A k \in named : i <= k}

\* Where the node of the entry at line i ends.  That of a nested value is for the
\* YAML library to say: at its last line, or at the token that ends it.
EndOfEntry(t, i) ==
    IF t[i].key \notin MapKeys THEN {i}
    ELSE LET past == Min({k \in ContentLines(t) : k > i /\ t[k].key # "nested"} \cup {Len(t) + 1})
         IN {Max({k \in ContentLines(t) : k < past}), Min({past, Len(t)})}

\* plan_set_enabled: the value is replaced, or a line inserted after the first entry.
SetEnabled(t, id, to) ==
    LET line == Line("enabled", FALSE, to, t[1].raw) IN
    UNION {LET at == {k \in Entries(t, i) : t[k].key = "enabled"} IN
           IF at # {} THEN {ReplaceAt(t, k, [t[k] EXCEPT !.val = to]) : k \in at}
           ELSE {InsertAt(t, k + 1, line) : k \in EndOfEntry(t, i)}
           : i \in LocateJob(t, id)}

\* Mutant: a last item's span is not trimmed back to its own content.
SpanToNextKey(t, i) == {NextItem(t, i) - 1} \cup (IF NextItem(t, i) = SeqEnd(t) THEN {Len(t)} ELSE {})

\* job_item_line_span, its last line: up to the next item, or to the last line of
\* content; whether a comment behind it belongs to it is for the YAML library to say.
JobItemLineSpan(t, i) ==
    IF NextItem(t, i) \in Items(t) THEN {NextItem(t, i) - 1}
    ELSE {LastLine(t, i), SeqEnd(t) - 1}

RemoveJob(t, id) ==
    UNION {{SubSeq(t, 1, i - 1) \o SubSeq(t, to + 1, Len(t)) : to \in JobItemLineSpan(t, i)}
           : i \in LocateJob(t, id)}

\* job_block::build_block
BuildBlock(m) ==
    <<Line("id", TRUE, m.id, m.raw)>>
    \o (IF m.disabled THEN <<Line("enabled", FALSE, "false", m.raw)>> ELSE <<>>)
    \o <<Line("schedule", FALSE, Empty, m.raw), Line("nested", FALSE, Empty, m.raw),
         Line("execution", FALSE, Empty, m.raw), Line("nested", FALSE, Empty, m.raw)>>

\* An empty list, or one in brackets, is refused.
AppendJob(t, m) ==
    IF Items(t) = {} \/ t[JobsAt(t)].val = "flow" THEN {}
    ELSE {SubSeq(t, 1, to) \o BuildBlock(m) \o SubSeq(t, to + 1, Len(t))
          : to \in JobItemLineSpan(t, Max(Items(t)))}

\* config_mutation::render
Render(t, m) ==
    CASE m.op = "pause"  -> SetEnabled(t, m.id, "false")
      [] m.op = "resume" -> SetEnabled(t, m.id, "true")
      [] m.op = "remove" -> RemoveJob(t, m.id)
      [] m.op = "add"    -> {f \in AppendJob(t, m) : IsKebab(m.id)}

-----------------------------------------------------------------------------
NoEdit == [op |-> "none", id |-> "none"]

Init == text \in Texts /\ last = NoEdit /\ edits = 0

\* apply_to_disk: what is not accepted leaves the file as it is.
Apply ==
    /\ edits < MaxEdits /\ edits' = edits + 1
    /\ \E m \in Mutations :
         /\ text' \in {t \in Render(text, m) : Accepted(t)}
         /\ last' = m

Next == Apply
Spec == Init /\ [][Next]_vars

-----------------------------------------------------------------------------
(* Properties.                                                               *)

\* What an edit is to do to the list of jobs.
Switch(jobs, id, to) ==
    [n \in DOMAIN jobs |-> IF jobs[n].id = id THEN [jobs[n] EXCEPT !.raw.enabled = to]
                                              ELSE jobs[n]]
Meant(jobs, m) ==
    CASE m.op = "pause"  -> Switch(jobs, m.id, "false")
      [] m.op = "resume" -> Switch(jobs, m.id, "true")
      [] m.op = "remove" -> SelectSeq(jobs, LAMBDA j : j.id # m.id)
      [] m.op = "add"    -> Append(jobs, [id |-> m.id, raw |->
             [m.raw EXCEPT !.enabled = IF m.disabled THEN "false" ELSE "none"]])

\* The lines of the other jobs and of the rest of the file.
Others(t, id) ==
    LET own == UNION {i .. NextItem(t, i) - 1 :
                      i \in {k \in Items(t) : Value(t, k, "id") = id}}
        kept == InOrder(ContentLines(t) \ own, t)
    IN [n \in DOMAIN kept |-> t[kept[n]]]

Comments(t, lines) == {t[i].val : i \in {k \in lines \cap DOMAIN t : t[k].key = "comment"}}

\* The lines outside the job that is removed: `End` says where that job ends.
Outside(t, m, End(_, _)) ==
    IF m.op # "remove" THEN DOMAIN t
    ELSE DOMAIN t \ UNION {i .. End(t, i) : i \in LocateJob(t, m.id)}

UpToNext(t, i) == NextItem(t, i) - 1
UpToNextJob(t, i) == IF NextItem(t, i) \in Items(t) THEN UpToNext(t, i) ELSE LastLine(t, i)

\* An edit of a valid file does to the jobs what it says and touches no other line.
\* Pausing, resuming and adding lose no comment, and removing loses none above the
\* job or from the next job on; but those between the job and the next one it does
\* lose, wherever they belong (set_enabled, remove_job, append_job on the text,
\* against what the text means).
EditsDoWhatTheySay == [][Accepted(text) =>
    /\ JobsOf(text') = Meant(JobsOf(text), last')
    /\ Others(text', last'.id) = Others(text, last'.id)
    /\ Comments(text, Outside(text, last', UpToNext)) \subseteq Comments(text', DOMAIN text')
    /\ Comments(text', DOMAIN text') \subseteq Comments(text, Outside(text, last', UpToNextJob))]_vars

\* What the module's doc says of the edits: comments survive every one of them, but
\* for those between the lines of a job that is removed.  They do not: removing a job
\* takes what stands behind its last line too.
EditsKeepComments == [][Accepted(text) =>
    Comments(text, Outside(text, last', LastLine)) \subseteq Comments(text', DOMAIN text')]_vars

\* What a schedule answers to, read back from its normal form.
Spoken(s) == CASE s.kind = "minutes" -> {[unit |-> "m", n |-> s.n, word |-> Empty]}
               [] s.kind = "hours" -> {[unit |-> "h", n |-> s.n, word |-> Empty]}
               [] s.kind = "calendar" ->
                      {[unit |-> Empty, n |-> 0, word |-> s.days[i]] : i \in DOMAIN s.days}
               [] OTHER -> {}

If(P, key) == IF P THEN {key} ELSE {}

\* The keys of a job whose value its normal form does not have.
Lost(raw, job) ==
    LET s == job.schedule
        calendar == s.kind = "calendar"
    IN  If(HasEvery(raw) /\ Spoken(s) # ToSet(raw.every.tokens), "every")
        \cup If(raw.cron # "none" /\ ~(s.kind = "cron" /\ s.at = raw.cron), "cron")
        \cup If(raw.at # "none" /\ ~(calendar /\ s.at = raw.at), "at")
        \cup If(raw.onDay # Err /\ ~(calendar /\ s.onDay = raw.onDay), "on_day")
        \cup If(raw.lastDay /\ ~(calendar /\ s.lastDay), "last_day")
        \cup If(raw.zone # "none" /\ job.zone # raw.zone, "timezone")
        \cup If(raw.timeout.unit # "none" /\ job.timeout # Seconds(raw.timeout), "timeout")
        \cup If(raw.missed # "none" /\ job.missed # raw.missed, "missed_run_policy")
        \cup If(raw.overlap # "none" /\ job.overlap # raw.overlap, "overlap_policy")
        \cup If(raw.retries.given /\ job.retries # raw.retries.n, "max_retries")

\* Lists that pass validation and that normalize does not know: empty ones, and ones
\* with an interval among other tokens.
BadList(raw) ==
    /\ HasEvery(raw) /\ Len(raw.every.tokens) # 1
    /\ raw.every.tokens = <<>> \/ \E t \in ToSet(raw.every.tokens) : t.unit \in {"m", "h"}

\* Schedules that have no time of day and no day of the month.
Ruled(raw) ==
    raw.cron # "none" \/ (Len(raw.every.tokens) = 1 /\ raw.every.tokens[1].unit \in {"m", "h"})

\* The keys whose value passes validation and means something else or nothing.
Unnoticed(raw) ==
    If(BadList(raw), "every")
    \cup If(raw.at # "none" /\ Ruled(raw), "at")
    \cup If(raw.onDay # Err /\ Ruled(raw), "on_day")
    \cup If(raw.lastDay /\ Ruled(raw), "last_day")
    \cup If(raw.timeout.unit # "none" /\ Seconds(raw.timeout) >= U64, "timeout")
    \cup If(raw.missed \notin {"none", "skip", "run_once", "run_all"}, "missed_run_policy")
    \cup If(raw.overlap \notin {"none", "skip", "queue", "kill"}, "overlap_policy")
    \cup If(raw.retries.given /\ raw.retries.n >= U32, "max_retries")

\* What validation lets pass that the job then does not do is exactly what Unnoticed
\* says, and all of it happens: lists of `every` with an interval in them, times and
\* days beside an interval or a cron expression, durations over u64, retries over
\* u32, and policy words nobody knows.  Every other value is in the normal form
\* (check_schedule and check_job against normalize_job).
ValidMeansSaid == Accepted(text) =>
    \A raw \in {JobAt(text, i).raw : i \in Items(text)} :
        Lost(raw, NormalizeJob(raw, DefaultsOf(text))) = Unnoticed(raw)

\* What the comment at the fallback says: validation is the real gate, so that it is
\* never taken for a job that passed.
ValidationIsTheGate == Accepted(text) =>
    \A raw \in {JobAt(text, i).raw : i \in Items(text)} :
        "every" \notin Lost(raw, NormalizeJob(raw, DefaultsOf(text)))

NormalJobs(t) == {NormalizeJob(JobAt(t, i).raw, DefaultsOf(t)) : i \in Items(t)}

\* Words that the canonical text cannot tell from nothing.
Ambiguous(job) == job.args = <<Empty>> \/ job.cwd = Empty

\* No text of the job holds a separator.
Clean(job) ==
    LET s == job.schedule IN
    DOMAIN Spelled \cap ({job.command, job.cwd, job.zone, s.at, s.zone}
                         \cup ToSet(job.args) \cup ToSet(s.days)) = {}

\* Two jobs without a separator in their texts have the same config_hash only if they
\* run the same way (canonical_job renders every field that matters, and its
\* separators keep them apart).
HashTellsJobsApart == Accepted(text) =>
    LET jobs == {job \in NormalJobs(text) : Clean(job) /\ ~Ambiguous(job)}
        hashed == {[job |-> job, as |-> CanonicalJob(job)] : job \in jobs}
    IN  \A x, y \in hashed : x.as = y.as => x.job = y.job

\* What the comment of canonical_job says: every value is delimited so that distinct
\* inputs cannot collide.
DistinctInputsDiffer == Accepted(text) =>
    LET hashed == {[job |-> job, as |-> CanonicalJob(job)] : job \in NormalJobs(text)}
    IN  \A x, y \in hashed : x.as = y.as => x.job = y.job
=============================================================================
