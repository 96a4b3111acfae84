------------------------------- MODULE Replay -------------------------------
(***************************************************************************)
(* `proxctl replay` (src/pkg/trace/replay.go, src/internal/root/replay.go): *)
(* load and verify a trace, then walk it record by record in one of three  *)
(* modes, with an executor that may answer anything.                       *)
(***************************************************************************)
EXTENDS Integers, Sequences, SequencesExt

CONSTANTS MaxLen,     \* longest trace considered
          Numbers,    \* the JSON numbers an output may hold, on a decimal grid
          Floats,     \* those among the points of the grid that are float64s
          Even,       \* the floats whose last bit is 0
          Overflow    \* from here on strconv.ParseFloat reports a range error

(* json.Unmarshal into an interface{} makes every number, whole or not, the *)
(* nearest float64, and of two that are equally near the even one.         *)
Distance(v, f) == IF v < f THEN f - v ELSE v - f
Nearest(v) == {f \in Floats : \A g \in Floats : Distance(v, f) <= Distance(v, g)}
IsFloatOf(f, v) == f \in Nearest(v) /\ (Nearest(v) = {f} \/ f \in Even)
Float(v) == CHOOSE f \in Floats : IsFloatOf(f, v)

ASSUME ReplayAssumption ==
    /\ MaxLen \in Nat
    /\ Numbers \subseteq Nat /\ Floats \subseteq Nat /\ Overflow \in Nat
    /\ \A v \in Numbers : v < Overflow => \E f \in Floats : IsFloatOf(f, v)

(* An output is absent, text that is not JSON, or a document, reduced to a  *)
(* number in it and to one of two texts that spell it.  A recorded output  *)
(* was compacted by json.Marshal.                                          *)
Absent     == [kind |-> "absent", value |-> 0, layout |-> "compact"]
Text       == [kind |-> "text", value |-> 0, layout |-> "compact"]
Json(L)    == [kind : {"json"}, value : Numbers, layout : L]
Recorded   == {Absent} \cup Json({"compact"})
Answer     == {Absent, Text} \cup Json({"compact", "spaced"})
Failure    == [kind |-> "failure", value |-> 0, layout |-> "compact"]

Record     == [decision : {"executed"}, output : Recorded]
              \cup [decision : {"skipped", "denied", "failed"}, output : {Absent}]

VARIABLES
    trace,    \* the records of the file
    intact,   \* LoadAll reads the whole file and its chain is valid
    mode,     \* strict, observe or dry-run
    idx,      \* cursor of Replay's loop
    got,      \* what the executor answered to each record it was given
    results,  \* Replay's results
    ret       \* what the command returned; "loading" before Replay runs

vars == <<trace, intact, mode, idx, got, results, ret>>

TypeOK ==
    /\ trace \in BoundedSeq(Record, MaxLen)
    /\ intact \in BOOLEAN
    /\ mode \in {"strict", "observe", "dry-run"}
    /\ idx \in 1 .. Len(trace) + 1
    /\ DOMAIN got \subseteq 1 .. Len(trace)
    /\ \A k \in DOMAIN got : got[k] \in Answer \cup {Failure}
    /\ results \in BoundedSeq({"match", "diverged", "exec-error"}, Len(trace))
    /\ ret \in {"loading", "running", "ok", "error"}

(* runReplay's choice of mode: --dry-run wins over --observe.               *)
ModeOf(observe, dryRun) ==
    IF dryRun THEN "dry-run" ELSE IF observe THEN "observe" ELSE "strict"

Init ==
    /\ trace \in BoundedSeq(Record, MaxLen)
    /\ intact \in BOOLEAN
    /\ \E observe, dryRun \in BOOLEAN : mode = ModeOf(observe, dryRun)
    /\ idx = 1
    /\ got = <<>>
    /\ results = <<>>
    /\ ret = "loading"

-----------------------------------------------------------------------------
(* Mutant: two outputs that both parse are taken to be equal.               *)
EqualNormalizedParses(a, b) == a = b \/ (a.kind = "json" /\ b.kind = "json")

(* json.Unmarshal fails for text and for a number out of range.            *)
Decodes(a) == a.kind = "json" /\ a.value < Overflow

(* Equal bytes, or two documents that are written alike once decoded.      *)
EqualNormalized(a, b) ==
    \/ a = b
    \/ Decodes(a) /\ Decodes(b) /\ Float(a.value) = Float(b.value)

(* The reference: the two outputs are the same JSON value.                 *)
SameValue(a, b) == a.kind = b.kind /\ a.value = b.value
Between(f, v, w) == (v <= f /\ f <= w) \/ (w <= f /\ f <= v)

Load ==
    /\ ret = "loading"
    /\ ret' = IF ~intact THEN "error" ELSE IF trace = <<>> THEN "ok" ELSE "running"
    /\ UNCHANGED <<trace, intact, mode, idx, got, results>>

AtRecord == ret = "running" /\ idx <= Len(trace)

(* Mutant: no "continue" after the branch of a failed execution.            *)
ResultTwice(r) ==
    /\ results' = results \o (IF r = "exec-error" THEN <<r, "diverged">> ELSE <<r>>)
    /\ idx' = idx + 1
    /\ ret' = IF mode = "strict" /\ r # "match" THEN "error" ELSE ret
    /\ UNCHANGED <<trace, intact, mode>>

Result(r) ==
    /\ results' = Append(results, r)
    /\ idx' = idx + 1
    /\ ret' = IF mode = "strict" /\ r # "match" THEN "error" ELSE ret
    /\ UNCHANGED <<trace, intact, mode>>

(* Mutant: records that were denied or failed are executed as well.         *)
MustExecuteAll(rec) == mode # "dry-run"

MustExecute(rec) == mode # "dry-run" /\ rec.decision = "executed"

Pass ==
    /\ AtRecord
    /\ ~MustExecute(trace[idx])
    /\ got' = got
    /\ Result("match")

(* Mutant: a failed execution counts as a match.                            *)
ExecuteLenient ==
    /\ AtRecord
    /\ MustExecute(trace[idx])
    /\ \E a \in Answer \cup {Failure} :
        /\ got' = [k \in DOMAIN got \cup {idx} |-> IF k = idx THEN a ELSE got[k]]
        /\ Result(IF a = Failure \/ EqualNormalized(a, trace[idx].output)
                  THEN "match" ELSE "diverged")

Execute ==
    /\ AtRecord
    /\ MustExecute(trace[idx])
    /\ \E a \in Answer \cup {Failure} :
        /\ got' = [k \in DOMAIN got \cup {idx} |-> IF k = idx THEN a ELSE got[k]]
        /\ Result(IF a = Failure THEN "exec-error"
                  ELSE IF EqualNormalized(a, trace[idx].output) THEN "match"
                  ELSE "diverged")

Finish ==
    /\ ret = "running"
    /\ idx = Len(trace) + 1
    /\ ret' = "ok"
    /\ UNCHANGED <<trace, intact, mode, idx, got, results>>

Terminated == ret \in {"ok", "error"} /\ UNCHANGED vars

Next == Load \/ Pass \/ Execute \/ Finish \/ Terminated

Spec == Init /\ [][Next]_vars

-----------------------------------------------------------------------------
Returned == ret \in {"ok", "error"}

(* Nothing is executed for a trace that does not load or in a dry run, nor  *)
(* for a record whose tool did not run originally, and never after a strict *)
(* replay has met a divergence: replay repeats side effects, so the order   *)
(* of the checks in Replay matters.                                         *)
OnlyWhatRan ==
    \A k \in DOMAIN got :
        /\ intact /\ mode # "dry-run" /\ trace[k].decision = "executed"
        /\ mode = "strict" =>
               \A j \in DOMAIN got :
                   j < k => EqualNormalized(got[j], trace[j].output)

(* The command returns nil exactly when the trace loads and, in strict mode, *)
(* every execution answered with the recorded output up to normalisation.  *)
(* An observe or dry-run replay never fails for what the executor did.     *)
VerdictIsRight ==
    Returned =>
        (ret = "ok") =
            (intact /\ (mode = "strict" =>
                \A k \in 1 .. Len(trace) :
                    trace[k].decision = "executed" =>
                        k \in DOMAIN got /\ got[k] # Failure
                            /\ EqualNormalized(got[k], trace[k].output)))

(* What normalisation forgives: a strict replay that returns nil has got    *)
(* the recorded values, however laid out, or two numbers, neither of them   *)
(* out of range, with at most one float64 from the one to the other.  Two   *)
(* numbers a float64 can hold are thus never taken for each other; of any   *)
(* others, fractions included, only the nearest float64 is compared.       *)
StrictIsExact ==
    mode = "strict" /\ ret = "ok" =>
        \A k \in DOMAIN got :
            LET a == got[k] b == trace[k].output IN
            \/ SameValue(a, b)
            \/ /\ Decodes(a) /\ Decodes(b)
               /\ \A f, g \in Floats :
                     Between(f, a.value, b.value) /\ Between(g, a.value, b.value)
                         => f = g
=============================================================================
