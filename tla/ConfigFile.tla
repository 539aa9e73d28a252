---------------------------- MODULE ConfigFile ----------------------------
(* What the desired-state file goes through as long as one daemon owns it:  *)
(* surgical mutations, each applied to what the write before it left; whole *)
(* texts from `jobs edit`, which always parse and overwrite whatever is     *)
(* there, with no look at what it is; and what somebody spoils by hand.     *)
(* While the file is not served, anybody may write anything.                *)
EXTENDS Sequences

CONSTANTS
    Job,
    Broken,      \* a file that does not parse or does not validate
    EmptyParses  \* the YAML library takes an empty `jobs:` for an empty list

VARIABLES
    content,  \* the desired state: which jobs there are, and whether they are on
    log,      \* the mutations committed so far, in order
    served    \* nobody but one daemon is writing

Content == [Job -> {"absent", "on", "off"}]
Present(f) == {j \in Job : f[j] # "absent"}

\* Whether a surgical mutation can be made to f: the job is there, or is not yet,
\* and a removal leaves a file that parses.  Nothing can be added to an empty list.
Allowed(f, m) ==
    /\ f # Broken
    /\ Present(f) # {}
    /\ (m.op = "add") <=> (m.job \notin Present(f))
    /\ m.op = "remove" => (Present(f) # {m.job} \/ EmptyParses)

Stays(op) == CASE op = "pause" -> "off" [] op = "remove" -> "absent" [] OTHER -> "on"

\* The contents a mutation leaves in place of f: none when it is refused.  A
\* replacement is not compared with f.
Candidates(f, m) ==
    IF m.op = "replace" THEN {m.to}
    ELSE {[f EXCEPT ![m.job] = Stays(m.op)] : g \in {h \in {f} : Allowed(h, m)}}

Surgical == [op : {"pause", "resume", "remove", "add"}, job : Job]
Replace  == [op : {"replace"}, to : Content]
ByHand   == [op : {"replace"}, to : {Broken}]

Init == content \in Content /\ log = <<>> /\ served \in BOOLEAN

Write(m) == content' \in Candidates(content, m) /\ log' = Append(log, m)

Mutate    == \E m \in Surgical : Write(m)
Overwrite == \E m \in Replace : Write(m)
Spoil     == \E m \in ByHand : Write(m)
Commit    == Mutate \/ Overwrite \/ Spoil

Spec == Init /\ [][(~served \/ Commit) /\ served' \in BOOLEAN]_<<content, log>>
=============================================================================
