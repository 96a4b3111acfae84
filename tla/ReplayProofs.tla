---------------------------- MODULE ReplayProofs ----------------------------
(***************************************************************************)
(* For traces of every length and every set of outputs: replay executes    *)
(* only what ran, its verdict is right, and a strict replay that returns   *)
(* nil has got the recorded values, or numbers with one nearest float64.   *)
(***************************************************************************)
EXTENDS Replay, TLAPS

(* The executor answered record k with the recorded output.                *)
Matches(k) == got[k] # Failure /\ EqualNormalized(got[k], trace[k].output)

(* One result for each record passed, one answer for each of them that was *)
(* to be executed.                                                         *)
CursorInv ==
    /\ Len(results) = idx - 1
    /\ DOMAIN got = {k \in 1 .. idx - 1 : MustExecute(trace[k])}
    /\ idx > 1 => intact

(* In strict mode only the last answer can have been a wrong one, and it   *)
(* ended the replay.                                                       *)
StrictInv ==
    mode = "strict" =>
        \A k \in DOMAIN got : k < idx - 1 \/ ret # "error" => Matches(k)

RetInv ==
    /\ ret = "running" => intact
    /\ ret = "ok" => intact /\ idx = Len(trace) + 1
    /\ ret = "error" =>
          ~intact \/ (mode = "strict" /\ \E k \in DOMAIN got : ~Matches(k))

IInv == TypeOK /\ CursorInv /\ StrictInv /\ RetInv

-----------------------------------------------------------------------------
(* Sequences no longer than n, of elements of S.                           *)
LEMMA Bounded ==
  ASSUME NEW S, NEW n \in Nat, NEW s
  PROVE  s \in BoundedSeq(S, n) <=> s \in Seq(S) /\ Len(s) <= n
<1>1. BoundedSeq(S, n) = UNION {[1 .. m -> S] : m \in 0 .. n}
  BY DEF BoundedSeq, SeqOf
<1>2. ASSUME s \in BoundedSeq(S, n)
      PROVE  s \in Seq(S) /\ Len(s) <= n
  <2>1. PICK m \in 0 .. n : s \in [1 .. m -> S]
    BY <1>1, <1>2
  <2>2. QED
    BY <2>1
<1>3. ASSUME s \in Seq(S), Len(s) <= n
      PROVE  s \in BoundedSeq(S, n)
  <2>1. Len(s) \in 0 .. n /\ s \in [1 .. Len(s) -> S]
    BY <1>3
  <2>2. QED
    BY <1>1, <2>1
<1>4. QED
  BY <1>2, <1>3

(* Two numbers with one float64 have no other float64 between them: it     *)
(* would be nearer to one of the two.                                      *)
LEMMA OneFloat ==
  ASSUME NEW v \in Numbers, NEW w \in Numbers, v < Overflow, w < Overflow,
         Float(v) = Float(w)
  PROVE  \A f \in Floats : Between(f, v, w) => f = Float(v)
<1>1. Numbers \subseteq Nat /\ Floats \subseteq Nat
  BY ReplayAssumption
<1>2. ASSUME NEW x \in Numbers, x < Overflow
      PROVE  Float(x) \in Floats /\ \A g \in Floats : Distance(x, Float(x)) <= Distance(x, g)
  <2>1. \E f \in Floats : IsFloatOf(f, x)
    BY <1>2, ReplayAssumption
  <2>2. Float(x) \in Floats /\ IsFloatOf(Float(x), x)
    BY <2>1 DEF Float
  <2>3. QED
    BY <2>2 DEF IsFloatOf, Nearest
<1>3. ASSUME NEW f \in Floats, Between(f, v, w)
      PROVE  f = Float(v)
  <2>1. PICK h \in Floats : h = Float(v)
    BY <1>2
  <2>2. Distance(v, h) <= Distance(v, f) /\ Distance(w, h) <= Distance(w, f)
    BY <1>2, <2>1
  <2>3. v \in Nat /\ w \in Nat /\ f \in Nat /\ h \in Nat
    BY <1>1
  <2>4. f = h
    BY <1>3, <2>2, <2>3 DEF Between, Distance
  <2>5. QED
    BY <2>1, <2>4
<1>4. QED
  BY <1>3

LEMMA ValuesAreNumbers ==
  \A a \in Answer \cup Recorded : a.kind = "json" => a.value \in Numbers
<1>1. \A L : \A a \in Json(L) : a.value \in Numbers
  BY DEF Json
<1>2. Absent.kind # "json" /\ Text.kind # "json"
  BY DEF Absent, Text
<1>3. QED
  BY <1>1, <1>2 DEF Answer, Recorded

LEMMA InitInv == Init => IInv
<1> SUFFICES ASSUME Init PROVE IInv
  OBVIOUS
<1>1. trace \in Seq(Record) /\ Len(trace) <= MaxLen /\ MaxLen \in Nat
  BY Bounded, ReplayAssumption DEF Init
<1>2. <<>> \in BoundedSeq({"match", "diverged", "exec-error"}, Len(trace))
  <2>1. <<>> \in Seq({"match", "diverged", "exec-error"}) /\ Len(<<>>) <= Len(trace)
    BY <1>1
  <2>2. Len(trace) \in Nat
    BY <1>1
  <2>3. QED
    BY <2>1, <2>2, Bounded
<1>3. DOMAIN got = {}
  BY DEF Init
<1>4. TypeOK
  BY <1>1, <1>2, <1>3 DEF Init, TypeOK, ModeOf
<1>5. CursorInv /\ StrictInv /\ RetInv
  BY <1>3 DEF Init, CursorInv, StrictInv, RetInv
<1>6. QED
  BY <1>4, <1>5 DEF IInv

(* A record is passed with result r.                                       *)
LEMMA ResultTypes ==
  ASSUME TypeOK, CursorInv, AtRecord, NEW r \in {"match", "diverged", "exec-error"}, Result(r)
  PROVE  /\ trace' \in BoundedSeq(Record, MaxLen) /\ mode' \in {"strict", "observe", "dry-run"}
         /\ idx' \in 1 .. Len(trace') + 1
         /\ results' \in BoundedSeq({"match", "diverged", "exec-error"}, Len(trace'))
         /\ ret' \in {"loading", "running", "ok", "error"}
         /\ Len(results') = idx' - 1
<1>1. trace \in Seq(Record) /\ trace' = trace /\ mode' = mode /\ idx' = idx + 1
  BY Bounded, ReplayAssumption DEF TypeOK, Result
<1>2. idx \in 1 .. Len(trace) /\ Len(results) = idx - 1
  BY <1>1 DEF TypeOK, AtRecord, CursorInv
<1>3. results \in Seq({"match", "diverged", "exec-error"})
  BY <1>1, Bounded DEF TypeOK
<1>4. results' \in Seq({"match", "diverged", "exec-error"}) /\ Len(results') = Len(results) + 1
  BY <1>3 DEF Result
<1>5. results' \in BoundedSeq({"match", "diverged", "exec-error"}, Len(trace'))
  BY <1>1, <1>2, <1>4, Bounded
<1>6. QED
  BY <1>1, <1>2, <1>4, <1>5 DEF Result, TypeOK

LEMMA PassInv == IInv /\ Pass => IInv'
<1> SUFFICES ASSUME IInv, Pass PROVE IInv'
  OBVIOUS
<1>1. /\ Result("match") /\ AtRecord /\ got' = got /\ ~MustExecute(trace[idx])
      /\ trace' = trace /\ intact' = intact /\ mode' = mode /\ idx' = idx + 1
      /\ ret = "running" /\ ret' = ret
  BY DEF Pass, Result, AtRecord
<1>2. idx \in Nat \ {0}
  BY DEF IInv, TypeOK
<1>3. TypeOK' /\ Len(results') = idx' - 1
  BY <1>1, ResultTypes DEF IInv, TypeOK
<1>4. CursorInv'
  <2>1. 1 .. idx' - 1 = (1 .. idx - 1) \cup {idx}
    BY <1>1, <1>2
  <2>2. \A k : MustExecute(trace[k])' <=> MustExecute(trace[k])
    BY <1>1 DEF MustExecute
  <2>3. DOMAIN got' = {k \in 1 .. idx' - 1 : MustExecute(trace[k])'}
    BY <1>1, <2>1, <2>2 DEF IInv, CursorInv
  <2>4. intact
    BY <1>1 DEF IInv, RetInv
  <2>5. QED
    BY <1>1, <1>3, <2>3, <2>4 DEF CursorInv
<1>5. StrictInv' /\ RetInv'
  BY <1>1 DEF IInv, StrictInv, RetInv, Matches
<1>6. QED
  BY <1>3, <1>4, <1>5 DEF IInv

LEMMA ExecuteInv == IInv /\ Execute => IInv'
<1> SUFFICES ASSUME IInv, Execute PROVE IInv'
  OBVIOUS
<1>1. PICK a \in Answer \cup {Failure} :
         /\ got' = [k \in DOMAIN got \cup {idx} |-> IF k = idx THEN a ELSE got[k]]
         /\ Result(IF a = Failure THEN "exec-error"
                   ELSE IF EqualNormalized(a, trace[idx].output) THEN "match"
                   ELSE "diverged")
  BY DEF Execute
<1> DEFINE right == a # Failure /\ EqualNormalized(a, trace[idx].output)
<1>2. PICK r \in {"match", "diverged", "exec-error"} : Result(r) /\ (r = "match" <=> right)
  BY <1>1
<1>3. /\ AtRecord /\ MustExecute(trace[idx]) /\ ret = "running"
      /\ trace' = trace /\ intact' = intact /\ mode' = mode /\ idx' = idx + 1
      /\ ret' = IF mode = "strict" /\ ~right THEN "error" ELSE ret
  BY <1>2 DEF Execute, AtRecord, Result
<1>4. idx \in Nat /\ idx >= 1 /\ idx \notin DOMAIN got /\ intact /\ Len(trace) \in Nat
  BY <1>3, Bounded, ReplayAssumption DEF IInv, TypeOK, CursorInv, RetInv
<1>5. DOMAIN got' = DOMAIN got \cup {idx} /\ got'[idx] = a
      /\ \A k \in DOMAIN got : got'[k] = got[k]
  BY <1>1, <1>4
<1>6. TypeOK' /\ Len(results') = idx' - 1
  <2>1. DOMAIN got' \subseteq 1 .. Len(trace')
    BY <1>3, <1>4, <1>5 DEF IInv, TypeOK, AtRecord
  <2>2. \A k \in DOMAIN got' : got'[k] \in Answer \cup {Failure}
    BY <1>5 DEF IInv, TypeOK
  <2>3. QED
    BY <1>2, <1>3, <2>1, <2>2, ResultTypes DEF IInv, TypeOK
<1>7. CursorInv'
  <2>1. 1 .. idx' - 1 = (1 .. idx - 1) \cup {idx}
    BY <1>3, <1>4
  <2>2. \A k : MustExecute(trace[k])' <=> MustExecute(trace[k])
    BY <1>3 DEF MustExecute
  <2>3. DOMAIN got' = {k \in 1 .. idx' - 1 : MustExecute(trace[k])'}
    BY <1>3, <1>5, <2>1, <2>2 DEF IInv, CursorInv
  <2>4. QED
    BY <1>3, <1>4, <1>6, <2>3 DEF CursorInv
<1>8. /\ \A k \in {idx} : Matches(k)' <=> right
      /\ \A k \in DOMAIN got : Matches(k)' <=> Matches(k)
  BY <1>3, <1>5 DEF Matches
<1>9. StrictInv'
  <2>1. mode = "strict" => \A k \in DOMAIN got : Matches(k) /\ k < idx' - 1
    BY <1>3, <1>4 DEF IInv, StrictInv, CursorInv
  <2>2. mode = "strict" /\ ret' # "error" => right
    BY <1>3
  <2>3. QED
    BY <1>3, <1>4, <1>5, <1>8, <2>1, <2>2 DEF StrictInv
<1>10. RetInv'
  <2>1. ret' = "error" => mode = "strict" /\ \E k \in DOMAIN got' : ~Matches(k)'
    BY <1>3, <1>5, <1>8
  <2>2. QED
    BY <1>3, <1>4, <2>1 DEF RetInv
<1>11. QED
  BY <1>6, <1>7, <1>9, <1>10 DEF IInv

LEMMA StepInv == IInv /\ [Next]_vars => IInv'
<1> SUFFICES ASSUME IInv, [Next]_vars PROVE IInv'
  OBVIOUS
<1>1. CASE Load
  <2>1. /\ trace' = trace /\ intact' = intact /\ mode' = mode /\ idx' = idx
        /\ got' = got /\ results' = results
        /\ ret' = IF ~intact THEN "error" ELSE IF trace = <<>> THEN "ok" ELSE "running"
    BY <1>1 DEF Load
  <2>2. TypeOK' /\ CursorInv'
    BY <2>1 DEF IInv, TypeOK, CursorInv, MustExecute
  <2>3. StrictInv'
    BY <1>1, <2>1 DEF IInv, StrictInv, Matches, Load
  <2>4. RetInv'
    <3>1. trace = <<>> => idx = Len(trace) + 1
      BY DEF IInv, TypeOK
    <3>2. intact \in BOOLEAN
      BY DEF IInv, TypeOK
    <3>3. QED
      BY <2>1, <3>1, <3>2 DEF RetInv
  <2>5. QED
    BY <2>2, <2>3, <2>4 DEF IInv
<1>2. CASE Pass
  BY <1>2, PassInv
<1>3. CASE Execute
  BY <1>3, ExecuteInv
<1>4. CASE Finish
  <2>1. /\ trace' = trace /\ intact' = intact /\ mode' = mode /\ idx' = idx
        /\ got' = got /\ results' = results
        /\ ret = "running" /\ ret' = "ok" /\ idx = Len(trace) + 1
    BY <1>4 DEF Finish
  <2>2. TypeOK' /\ CursorInv'
    BY <2>1 DEF IInv, TypeOK, CursorInv, MustExecute
  <2>3. StrictInv' /\ RetInv'
    BY <2>1 DEF IInv, StrictInv, RetInv, Matches
  <2>4. QED
    BY <2>2, <2>3 DEF IInv
<1>5. CASE UNCHANGED vars
  BY <1>5 DEF vars, IInv, TypeOK, CursorInv, StrictInv, RetInv, Matches, MustExecute
<1>6. QED
  BY <1>1, <1>2, <1>3, <1>4, <1>5 DEF Next, Terminated

-----------------------------------------------------------------------------
(* The inductive invariant holds for every trace and every executor.       *)
THEOREM Invariance == Spec => []IInv
BY InitInv, StepInv, PTL DEF Spec

(* Every variable keeps its type.                                          *)
THEOREM TypeCorrect == Spec => []TypeOK
<1>1. IInv => TypeOK
  BY DEF IInv
<1>2. QED
  BY <1>1, Invariance, PTL

(* No side effect is repeated for a trace that does not verify, in a dry   *)
(* run, for a record whose tool did not run, or after a strict divergence. *)
THEOREM OnlyRan == Spec => []OnlyWhatRan
<1>1. ASSUME IInv, NEW k \in DOMAIN got
      PROVE  /\ intact /\ mode # "dry-run" /\ trace[k].decision = "executed"
             /\ mode = "strict" =>
                   \A j \in DOMAIN got : j < k => EqualNormalized(got[j], trace[j].output)
  <2>1. k \in 1 .. idx - 1 /\ MustExecute(trace[k]) /\ idx \in Nat
    BY <1>1 DEF IInv, CursorInv, TypeOK
  <2>2. intact /\ mode # "dry-run" /\ trace[k].decision = "executed"
    BY <1>1, <2>1 DEF IInv, CursorInv, MustExecute
  <2>3. ASSUME mode = "strict", NEW j \in DOMAIN got, j < k
        PROVE  EqualNormalized(got[j], trace[j].output)
    <3>1. j \in 1 .. idx - 1 /\ j < idx - 1
      BY <1>1, <2>1, <2>3 DEF IInv, CursorInv
    <3>2. QED
      BY <1>1, <2>3, <3>1 DEF IInv, StrictInv, Matches
  <2>4. QED
    BY <2>2, <2>3
<1>2. IInv => OnlyWhatRan
  BY <1>1 DEF OnlyWhatRan
<1>3. QED
  BY <1>2, Invariance, PTL

(* replay returns nil exactly when the trace verifies and, in strict mode, *)
(* every execution answered with the recorded output.                      *)
THEOREM RightVerdict == Spec => []VerdictIsRight
<1> DEFINE allMatch == \A k \in 1 .. Len(trace) :
                          trace[k].decision = "executed" =>
                             k \in DOMAIN got /\ got[k] # Failure
                                /\ EqualNormalized(got[k], trace[k].output)
<1>1. ASSUME IInv, ret = "ok"
      PROVE  intact /\ (mode = "strict" => allMatch)
  <2>1. intact /\ idx = Len(trace) + 1 /\ Len(trace) \in Nat
    BY <1>1, Bounded, ReplayAssumption DEF IInv, RetInv, TypeOK
  <2>2. ASSUME mode = "strict", NEW k \in 1 .. Len(trace), trace[k].decision = "executed"
        PROVE  k \in DOMAIN got /\ Matches(k)
    <3>1. k \in 1 .. idx - 1 /\ MustExecute(trace[k])
      BY <2>1, <2>2 DEF MustExecute
    <3>2. QED
      BY <1>1, <2>2, <3>1 DEF IInv, CursorInv, StrictInv
  <2>3. QED
    BY <2>1, <2>2 DEF Matches
<1>2. ASSUME IInv, ret = "error"
      PROVE  ~(intact /\ (mode = "strict" => allMatch))
  <2>1. CASE ~intact
    BY <2>1
  <2>2. CASE mode = "strict" /\ \E k \in DOMAIN got : ~Matches(k)
    <3>1. PICK k \in DOMAIN got : ~Matches(k)
      BY <2>2
    <3>2. k \in 1 .. Len(trace) /\ trace[k].decision = "executed"
      BY <1>2 DEF IInv, TypeOK, CursorInv, MustExecute
    <3>3. QED
      BY <2>2, <3>1, <3>2 DEF Matches
  <2>3. QED
    BY <1>2, <2>1, <2>2 DEF IInv, RetInv
<1>3. IInv => VerdictIsRight
  BY <1>1, <1>2 DEF VerdictIsRight, Returned
<1>4. QED
  BY <1>3, Invariance, PTL

(* A strict replay that returns nil has got the recorded values, or numbers *)
(* with at most one float64 from the one to the other.                     *)
THEOREM ExactWhenStrict == Spec => []StrictIsExact
<1>1. ASSUME IInv, mode = "strict", ret = "ok", NEW k \in DOMAIN got
      PROVE  \/ SameValue(got[k], trace[k].output)
             \/ /\ Decodes(got[k]) /\ Decodes(trace[k].output)
                /\ \A f, g \in Floats :
                      /\ Between(f, got[k].value, trace[k].output.value)
                      /\ Between(g, got[k].value, trace[k].output.value)
                      => f = g
  <2>1. got[k] # Failure /\ EqualNormalized(got[k], trace[k].output)
    BY <1>1 DEF IInv, StrictInv, Matches
  <2>2. got[k] \in Answer
    BY <1>1, <2>1 DEF IInv, TypeOK
  <2>3. trace[k].output \in Recorded
    <3>1. trace \in Seq(Record) /\ k \in 1 .. Len(trace)
      BY <1>1, Bounded, ReplayAssumption DEF IInv, TypeOK
    <3>2. trace[k] \in Record
      BY <3>1
    <3>3. QED
      BY <3>2 DEF Record, Recorded
  <2>4. CASE got[k] = trace[k].output
    BY <2>4 DEF SameValue
  <2>5. CASE /\ Decodes(got[k]) /\ Decodes(trace[k].output)
             /\ Float(got[k].value) = Float(trace[k].output.value)
    <3>1. PICK v \in Numbers, w \in Numbers :
              v = got[k].value /\ w = trace[k].output.value
      BY <2>2, <2>3, <2>5, ValuesAreNumbers DEF Decodes
    <3>2. v < Overflow /\ w < Overflow /\ Float(v) = Float(w)
      BY <2>5, <3>1 DEF Decodes
    <3>3. \A f \in Floats : Between(f, v, w) => f = Float(v)
      BY <3>2, OneFloat
    <3>4. QED
      BY <2>5, <3>1, <3>3
  <2>6. QED
    BY <2>1, <2>4, <2>5 DEF EqualNormalized
<1>2. IInv => StrictIsExact
  BY <1>1 DEF StrictIsExact
<1>3. QED
  BY <1>2, Invariance, PTL
=============================================================================
