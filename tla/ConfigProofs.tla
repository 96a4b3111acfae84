---------------------------- MODULE ConfigProofs ----------------------------
(***************************************************************************)
(* For every set of placeholder kinds and filters, any number of           *)
(* placeholders and any number of $ref slots: Config is well typed; a      *)
(* manifest that loads has in every field the value its references lead    *)
(* to, when they all go to earlier parts of the env; and Load reports the  *)
(* placeholders that have no source, and no others.                        *)
(*                                                                         *)
(* Meaning follows references a fixed number of times.  The first lemmas   *)
(* turn it into one equation, Meaning(f) from the Meaning of the field f   *)
(* names (MeaningIs), which holds where references go back.  Then where    *)
(* the walk stands: a field is Fresh until its part is walked.  IInv says  *)
(* that a fresh field holds what was written and any other what it means,  *)
(* so a reference, which is read when the field it names is no longer      *)
(* fresh, reads that field's meaning.                                      *)
(***************************************************************************)
EXTENDS Config, Integers, TLAPS, WellFoundedInduction, FiniteSetTheorems

(* The two entries of Metadata.Tags, which are one part.                   *)
Tags == {"tag1", "tag2"}

(* The parts of the i-th stage of the walk.                                *)
PartsOf(i) ==
    CASE i = 1 -> {{"domain"}}
      [] i = 2 -> {Tags}
      [] i = 3 -> {{"description"}}
      [] OTHER -> {{"ip1"}, {"ip2"}}

(* The part that holds f.                                                 *)
PartOf(f) == IF f \in Tags THEN Tags ELSE {f}

(* How many stages the walk has, and the one it is in.                     *)
NStages == IF slots[1] = "inline" THEN 5 ELSE 4
Pos   == NStages - Len(todo) + 1

Before == {"read", "refs", "profile", "circular", "unreadable"}
After  == {"validate", "ok", "invalid"}

(* The walk has not come to f.                                             *)
Fresh(f) ==
    \/ ret \in Before
    \/ /\ ret = "walk"
       /\ \/ Stage(f) > Pos
          \/ Stage(f) = Pos /\ PartOf(f) \in Head(todo)

(* f was written as a placeholder that has neither a source nor a default,  *)
(* or refers to no key.                                                    *)
Missing(f) ==
    \/ written[f].kind = "badref"
    \/ /\ written[f].kind \in {"env", "file"}
       /\ ~Found(written[f]) /\ ~written[f].default

(* A value encoded at most max times.                                      *)
Plain(v, max) ==
    /\ v \in [kind : {"value"}, of : Origin, default : {FALSE}, base64 : Nat]
    /\ v.base64 <= max

(* How often a text can have been encoded by now.                          *)
Encoded ==
    IF ret \in Before THEN 0
    ELSE 2 * (5 - Len(todo)) + IF todo # <<>> /\ Head(todo) \in {{{"ip1"}}, {{"ip2"}}}
                               THEN 1 ELSE 0

(* What can be written in a field.                                        *)
WrittenInv ==
    /\ written = [f \in Fields |-> written[f]]
    /\ \A f \in Fields : \/ written[f] \in Placeholder
                         \/ written[f] = Value(f, 0)
                         \/ f = "description" /\ written[f] = Absent

(* A text is a value or still what some field was written as.              *)
TextInv ==
    /\ text = [f \in Fields |-> text[f]]
    /\ \A f \in Fields :
          \/ Plain(text[f], Encoded)
          \/ text[f] \in Placeholder /\ \E g \in Fields : text[f] = written[g]
    /\ written["description"] = Absent
          => text["description"] \in {Absent, Value("profile", 0)}

(* The rest of the current stage, and the stages after it.                 *)
TodoInv ==
    /\ todo \in Seq(SUBSET (SUBSET Fields))
    /\ ret = "walk" => /\ Len(todo) \in 0 .. NStages
                       /\ todo # <<>> => /\ Head(todo) \subseteq PartsOf(Pos)
                                         /\ Head(todo) # {}
                       /\ \A i \in 2 .. Len(todo) : todo[i] = PartsOf(Pos + i - 1)
    /\ ret # "walk" => todo = <<>>

(* Errors are kept until the walk is over, and then decide its result.      *)
ControlInv ==
    /\ source \in {"unset", "empty", "set"}
    /\ slots \in Seq({"inline", "manifest", "file"}) /\ Len(slots) <= NSlots
    /\ ret \in Before \cup After \cup {"walk", "unresolved"}
    /\ ret \in Before \cup After => errs = {}
    /\ ret = "unresolved" => errs # {}
    /\ errs \subseteq Fields

(* What a text is before the walk comes to it and after.                   *)
MeansInv ==
    \A f \in Fields :
        /\ Fresh(f) => text[f] = Own(f)
        /\ ~Fresh(f) /\ errs = {} /\ GoesBack(f) => text[f] = Meaning(f)

(* The walk finds what is missing, and reports nothing else.               *)
MissInv ==
    /\ \A f \in Fields : Missing(f) => Fresh(f) \/ f \in errs
    /\ errs # {} => \E f \in Fields : Missing(f)

IInv == WrittenInv /\ TextInv /\ TodoInv /\ ControlInv /\ MeansInv /\ MissInv

(* The fields of the model.                                                *)
LEMMA SixFields == Cardinality(Fields) = 6
<1> DEFINE a0 == {}
           a1 == {"domain"}
           a2 == a1 \cup {"tag1"}
           a3 == a2 \cup {"tag2"}
           a4 == a3 \cup {"description"}
           a5 == a4 \cup {"ip1"}
           a6 == a5 \cup {"ip2"}
<1>1. IsFiniteSet({}) /\ Cardinality({}) = 0
  BY FS_EmptySet
<1>2. IsFiniteSet({} \cup {"domain"}) /\ Cardinality({} \cup {"domain"}) = 1
  BY <1>1, FS_AddElement
<1>3. a1 = {} \cup {"domain"}
  OBVIOUS
<1>4. IsFiniteSet(a1) /\ Cardinality(a1) = 1
  BY <1>2, <1>3
<1>5. IsFiniteSet(a2) /\ Cardinality(a2) = 2
  BY <1>4, FS_AddElement
<1>6. IsFiniteSet(a3) /\ Cardinality(a3) = 3
  BY <1>5, FS_AddElement
<1>7. IsFiniteSet(a4) /\ Cardinality(a4) = 4
  BY <1>6, FS_AddElement
<1>8. IsFiniteSet(a5) /\ Cardinality(a5) = 5
  BY <1>7, FS_AddElement
<1>9. IsFiniteSet(a6) /\ Cardinality(a6) = 6
  BY <1>8, FS_AddElement
<1>10. a6 = Fields
  BY DEF Fields, IPs
<1>11. QED
  BY <1>9, <1>10

-----------------------------------------------------------------------------
(* References followed.                                                    *)

(* Induction on the naturals, over a set, from the well-foundedness of <.  *)
LEMMA Induct ==
  ASSUME NEW S, 0 \in S, \A n \in Nat : n \in S => n + 1 \in S
  PROVE  Nat \subseteq S
<1> DEFINE T == Nat \ S
<1>1. SUFFICES ASSUME T # {} PROVE FALSE
  OBVIOUS
<1>2. PICK x \in T : \A y \in T : ~ (<<y, x>> \in OpToRel(<, Nat))
  BY <1>1, NatLessThanWellFounded, WFMin
<1>3. x \in Nat /\ x # 0 /\ x - 1 \in Nat /\ x - 1 < x /\ x = (x - 1) + 1
  OBVIOUS
<1>4. x - 1 \notin T
  <2>1. x - 1 \in T => <<x - 1, x>> \in OpToRel(<, Nat)
    BY <1>3 DEF OpToRel
  <2>2. QED
    BY <2>1, <1>2
<1>5. QED
  BY <1>3, <1>4

(* A value, however often it was encoded.                                  *)
Encodable == [kind : {"value"}, of : Origin, default : {FALSE}, base64 : Nat]

LeafType(leaf) ==
    \A f \in Fields : \/ leaf[f] \in Encodable
                      \/ /\ leaf[f].kind # "value" /\ leaf[f].of \in Fields
                         /\ leaf[f].base64 \in Nat

(* One more reference followed.                                            *)
Once(leaf, k, before) ==
    [f \in Fields |->
        IF leaf[f].kind = "value" THEN leaf[f]
        ELSE IF k = 0 THEN Value("raw-placeholder", 0)
        ELSE Base64(before[leaf[f].of], leaf[f].base64)]

IsFollowed(leaf, n, g) == g = [k \in 0 .. n |-> Once(leaf, k, g[k - 1])]

(* Nothing is followed the first time.                                     *)
LEMMA FirstOnce ==
  ASSUME NEW leaf, NEW x, NEW y
  PROVE  Once(leaf, 0, x) = Once(leaf, 0, y)
BY DEF Once

(* The function that Followed chooses exists.                              *)
LEMMA FollowedExists ==
  ASSUME NEW leaf, NEW n \in Nat
  PROVE  \E g : IsFollowed(leaf, n, g)
<1> DEFINE S == {m \in Nat : \E g : IsFollowed(leaf, m, g)}
<1>1. 0 \in S
  <2> DEFINE h == [k \in 0 .. 0 |-> Once(leaf, 0, 0)]
  <2>1. \A k \in 0 .. 0 : h[k] = Once(leaf, k, h[k - 1])
    <3>1. h[0] = Once(leaf, 0, 0) /\ Once(leaf, 0, 0) = Once(leaf, 0, h[0 - 1])
      BY FirstOnce
    <3>2. QED
      BY <3>1
  <2>2. \E e : h = [k \in 0 .. 0 |-> e[k]]
    <3>1. PICK x : x = Once(leaf, 0, 0)
      OBVIOUS
    <3>2. h = [k \in 0 .. 0 |-> x]
      BY <3>1
    <3>3. h = [k \in 0 .. 0 |-> h[k]]
      BY <3>2
    <3>4. QED
      BY <3>3
  <2> HIDE DEF h
  <2>3. QED
    BY <2>1, <2>2 DEF IsFollowed
<1>2. ASSUME NEW m \in Nat, m \in S
      PROVE  m + 1 \in S
  <2>1. PICK g : g = [k \in 0 .. m |-> Once(leaf, k, g[k - 1])]
    BY <1>2 DEF IsFollowed
  <2> DEFINE h == [k \in 0 .. m + 1 |-> IF k = m + 1 THEN Once(leaf, m + 1, g[m]) ELSE g[k]]
  <2>2. ASSUME NEW k \in 0 .. m + 1
        PROVE  h[k] = Once(leaf, k, h[k - 1])
    <3>1. CASE k = m + 1
      <4>1. k - 1 = m /\ k - 1 \in 0 .. m + 1 /\ k - 1 # m + 1
        BY <3>1
      <4>2. h[k] = Once(leaf, m + 1, g[m]) /\ h[k - 1] = g[m]
        BY <4>1, <3>1
      <4>3. QED
        BY <4>1, <4>2, <3>1
    <3>2. CASE k # m + 1 /\ k # 0
      <4>1. k - 1 \in 0 .. m + 1 /\ k - 1 # m + 1 /\ k \in 0 .. m
        BY <3>2
      <4>2. h[k] = g[k] /\ h[k - 1] = g[k - 1]
        BY <4>1, <3>2
      <4>3. QED
        BY <4>1, <4>2, <3>2, <2>1
    <3>3. CASE k = 0
      <4>1. 0 # m + 1 /\ 0 \in 0 .. m
        OBVIOUS
      <4>2. h[0] = g[0]
        BY <4>1
      <4>3. g[0] = Once(leaf, 0, g[0 - 1])
        BY <2>1, <4>1
      <4>4. Once(leaf, 0, g[0 - 1]) = Once(leaf, 0, h[0 - 1])
        BY FirstOnce
      <4>5. QED
        BY <4>2, <4>3, <4>4, <3>3
    <3>4. QED
      BY <3>1, <3>2, <3>3
  <2>3. IsFollowed(leaf, m + 1, h)
    <3>1. \E e : h = [k \in 0 .. m + 1 |-> e[k]]
      OBVIOUS
    <3> HIDE DEF h
    <3>2. QED
      BY <3>1, <2>2 DEF IsFollowed
  <2> HIDE DEF h
  <2>4. QED
    BY <2>3
<1> HIDE DEF S
<1>3. Nat \subseteq S
  BY <1>1, <1>2, Induct
<1>4. QED
  BY <1>3 DEF S

(* The recursion of Followed.                                              *)
LEMMA FollowSteps ==
  ASSUME NEW leaf
  PROVE  \A k \in 0 .. 6 : Followed(leaf)[k] = Once(leaf, k, Followed(leaf)[k - 1])
<1>1. Followed(leaf) = CHOOSE g : IsFollowed(leaf, Cardinality(Fields), g)
  BY DEF Followed, IsFollowed, Once
<1>2. IsFollowed(leaf, 6, Followed(leaf))
  BY <1>1, FollowedExists, SixFields
<1>3. PICK g : g = Followed(leaf)
  OBVIOUS
<1>4. g = [k \in 0 .. 6 |-> Once(leaf, k, g[k - 1])]
  BY <1>2, <1>3 DEF IsFollowed
<1>5. QED
  BY <1>3, <1>4

(* Encoding a value counts up.                                             *)
LEMMA Base64Type ==
  ASSUME NEW v \in Encodable, NEW times \in Nat
  PROVE  /\ Base64(v, times) \in Encodable
         /\ Base64(v, times).base64 = v.base64 + times
         /\ Base64(v, times).kind = "value"
<1>1. v.kind = "value" /\ v.base64 \in Nat
  BY DEF Encodable
<1>2. CASE times = 0
  BY <1>1, <1>2 DEF Base64
<1>3. CASE times # 0
  <2>1. Base64(v, times) = [v EXCEPT !.base64 = v.base64 + times]
    BY <1>1, <1>3 DEF Base64
  <2>2. PICK w, b : w = [v EXCEPT !.base64 = b] /\ b = v.base64 + times
    OBVIOUS
  <2>3. b \in Nat
    BY <1>1, <2>2
  <2>4. w \in Encodable /\ w.base64 = b /\ w.kind = "value"
    BY <2>2, <2>3 DEF Encodable
  <2>5. QED
    BY <2>1, <2>2, <2>4
<1>4. QED
  BY <1>2, <1>3

(* The values the code itself makes.                                       *)
LEMMA ValueType ==
  ASSUME NEW of \in Origin, NEW times \in Nat
  PROVE  Value(of, times) \in Encodable /\ Value(of, times).base64 = times
BY DEF Value, Encodable

(* Following ends in a value at every field.                               *)
LEMMA FollowedType ==
  ASSUME NEW leaf, LeafType(leaf)
  PROVE  \A k \in 0 .. 6 : \A f \in Fields : Followed(leaf)[k][f] \in Encodable
<1> DEFINE S == {k \in Nat : k <= 6 => \A f \in Fields : Followed(leaf)[k][f] \in Encodable}
<1>1. 0 \in S
  <2>1. Followed(leaf)[0] = Once(leaf, 0, Followed(leaf)[0 - 1])
    BY FollowSteps
  <2>2. ASSUME NEW f \in Fields PROVE Followed(leaf)[0][f] \in Encodable
    <3>1. Value("raw-placeholder", 0) \in Encodable
      BY ValueType DEF Origin
    <3>2. leaf[f].kind = "value" => leaf[f] \in Encodable
      BY DEF LeafType
    <3>3. QED
      BY <2>1, <3>1, <3>2 DEF Once
  <2>3. QED
    BY <2>2
<1>2. ASSUME NEW m \in Nat, m \in S
      PROVE  m + 1 \in S
  <2>1. SUFFICES ASSUME m + 1 <= 6, NEW f \in Fields
                 PROVE  Followed(leaf)[m + 1][f] \in Encodable
    OBVIOUS
  <2>2. \A g \in Fields : Followed(leaf)[m][g] \in Encodable
    BY <1>2, <2>1
  <2>3. PICK k, before : k = m + 1 /\ before = Followed(leaf)[m]
    OBVIOUS
  <2>4. k \in 0 .. 6 /\ k - 1 = m /\ k # 0
    BY <2>1, <2>3
  <2>5. Followed(leaf)[k] = Once(leaf, k, before)
    BY <2>3, <2>4, FollowSteps
  <2>6. CASE leaf[f].kind = "value"
    <3>1. Followed(leaf)[k][f] = leaf[f]
      BY <2>5, <2>6 DEF Once
    <3>2. QED
      BY <2>3, <2>6, <3>1 DEF LeafType
  <2>7. CASE leaf[f].kind # "value"
    <3>1. leaf[f].of \in Fields /\ leaf[f].base64 \in Nat
      BY <2>7 DEF LeafType, Encodable
    <3>2. Followed(leaf)[k][f] = Base64(before[leaf[f].of], leaf[f].base64)
      BY <2>4, <2>5, <2>7 DEF Once
    <3>3. before[leaf[f].of] \in Encodable
      BY <2>2, <2>3, <3>1
    <3>4. QED
      BY <2>3, <3>1, <3>2, <3>3, Base64Type
  <2>8. QED
    BY <2>6, <2>7
<1> HIDE DEF S
<1>3. Nat \subseteq S
  BY <1>1, <1>2, Induct
<1>4. QED
  BY <1>3 DEF S

(* Where references only go back, following them once more changes nothing. *)
LEMMA Settled ==
  ASSUME NEW leaf, LeafType(leaf), NEW T \in SUBSET Fields,
         \A g \in T : leaf[g].kind # "value" =>
                         leaf[g].of \in T /\ Stage(leaf[g].of) < Stage(g)
  PROVE  \A g \in T : Followed(leaf)[6][g] =
             IF leaf[g].kind = "value" THEN leaf[g]
             ELSE Base64(Followed(leaf)[6][leaf[g].of], leaf[g].base64)
<1>0. \A g \in Fields : Stage(g) \in 1 .. 4
  BY DEF Stage
<1> DEFINE After6(k, g) == IF leaf[g].kind = "value" THEN leaf[g]
                           ELSE Base64(Followed(leaf)[k][leaf[g].of], leaf[g].base64)
<1>1. ASSUME NEW k \in 0 .. 5, NEW g \in T
      PROVE  Followed(leaf)[k + 1][g] = After6(k, g)
  <2>1. PICK n : n = k + 1
    OBVIOUS
  <2>2. n \in 0 .. 6 /\ n - 1 = k /\ n # 0
    BY <2>1
  <2>3. Followed(leaf)[n] = Once(leaf, n, Followed(leaf)[k])
    BY <2>2, FollowSteps
  <2>4. QED
    BY <2>1, <2>2, <2>3 DEF Once
<1> DEFINE S == {k \in Nat : k <= 5 =>
                    \A g \in T : Stage(g) <= k + 1 =>
                        Followed(leaf)[k + 1][g] = Followed(leaf)[k][g]}
<1>2. 0 \in S
  <2>1. SUFFICES ASSUME NEW g \in T, Stage(g) <= 0 + 1
                 PROVE  Followed(leaf)[0 + 1][g] = Followed(leaf)[0][g]
    OBVIOUS
  <2>2. leaf[g].kind = "value"
    <3>1. SUFFICES ASSUME leaf[g].kind # "value" PROVE FALSE
      OBVIOUS
    <3>2. PICK a, b : a = Stage(leaf[g].of) /\ b = Stage(g)
      OBVIOUS
    <3>3. a \in 1 .. 4 /\ b \in 1 .. 4 /\ a < b /\ b <= 0 + 1
      BY <1>0, <2>1, <3>1, <3>2
    <3>4. QED
      BY <3>3
  <2>3. Followed(leaf)[0 + 1][g] = leaf[g]
    BY <1>1, <2>2
  <2>4. Followed(leaf)[0] = Once(leaf, 0, Followed(leaf)[0 - 1])
    BY FollowSteps
  <2>5. Followed(leaf)[0][g] = leaf[g]
    BY <2>2, <2>4 DEF Once
  <2>6. QED
    BY <2>3, <2>5
<1>3. ASSUME NEW m \in Nat, m \in S
      PROVE  m + 1 \in S
  <2>1. SUFFICES ASSUME m + 1 <= 5, NEW g \in T, Stage(g) <= (m + 1) + 1
                 PROVE  Followed(leaf)[(m + 1) + 1][g] = Followed(leaf)[m + 1][g]
    OBVIOUS
  <2>2. PICK k : k = m + 1
    OBVIOUS
  <2>3. k \in 0 .. 5 /\ m \in 0 .. 5 /\ m <= 5
    BY <2>1, <2>2
  <2>4. /\ Followed(leaf)[k + 1][g] = After6(k, g)
        /\ Followed(leaf)[m + 1][g] = After6(m, g)
    BY <1>1, <2>3
  <2>5. CASE leaf[g].kind = "value"
    BY <2>2, <2>4, <2>5
  <2>6. CASE leaf[g].kind # "value"
    <3>1. PICK o : o = leaf[g].of
      OBVIOUS
    <3>2. o \in T /\ Stage(o) < Stage(g)
      BY <2>6, <3>1
    <3>3. Stage(o) <= m + 1
      <4>1. PICK a, b : a = Stage(o) /\ b = Stage(g)
        OBVIOUS
      <4>2. a \in 1 .. 4 /\ b \in 1 .. 4 /\ a < b /\ b <= (m + 1) + 1
        BY <1>0, <2>1, <3>2, <4>1
      <4>3. a <= m + 1
        BY <4>2
      <4>4. QED
        BY <4>1, <4>3
    <3>4. Followed(leaf)[m + 1][o] = Followed(leaf)[m][o]
      BY <1>3, <2>3, <3>2, <3>3
    <3>5. QED
      BY <2>2, <2>4, <2>6, <3>1, <3>4
  <2>7. QED
    BY <2>5, <2>6
<1> HIDE DEF S
<1>4. Nat \subseteq S
  BY <1>2, <1>3, Induct
<1>5. \A g \in T : Followed(leaf)[6][g] = Followed(leaf)[5][g]
  <2>1. 5 \in S
    BY <1>4
  <2>2. \A g \in T : Stage(g) <= 5 + 1 => Followed(leaf)[5 + 1][g] = Followed(leaf)[5][g]
    BY <2>1 DEF S
  <2>3. \A g \in T : Stage(g) <= 5 + 1
    BY <1>0
  <2>4. QED
    BY <2>2, <2>3
<1>6. \A g \in T : Followed(leaf)[6][g] = After6(5, g)
  <2>1. \A g \in T : Followed(leaf)[5 + 1][g] = After6(5, g)
    BY <1>1
  <2>2. QED
    BY <2>1
<1>7. QED
  BY <1>5, <1>6

-----------------------------------------------------------------------------
(* What the fields hold.                                                   *)

(* A placeholder is no value, and only a reference names a field.          *)
LEMMA PlaceholderIs ==
  ASSUME NEW t \in Placeholder
  PROVE  /\ t.kind \in {"env", "file", "vault", "gen", "ref", "badref"}
         /\ t.kind # "value"
         /\ (t.kind = "ref") <=> (t.of \in Fields)
         /\ t.base64 \in {0, 1} /\ t.base64 \in Nat
<1>1. /\ t.kind \in Kinds /\ t.base64 \in Encodings
      /\ (t.kind = "ref") <=> (t.of \in Fields)
  BY DEF Placeholder
<1>2. /\ t.kind \in {"env", "file", "vault", "gen", "ref", "badref"}
      /\ t.base64 \in {0, 1}
  BY <1>1, ConfigAssumption
<1>3. t.kind # "value" /\ t.base64 \in Nat
  BY <1>2
<1>4. QED
  BY <1>1, <1>2, <1>3

(* A value is no placeholder.                                              *)
LEMMA EncodableIs ==
  /\ \A v \in Encodable : v.kind = "value" /\ v.base64 \in Nat /\ v \notin Placeholder
  /\ \A f \in Fields : Value(f, 0) \in Encodable
  /\ \A v, max : Plain(v, max) <=> v \in Encodable /\ v.base64 <= max
  /\ Absent \in Encodable /\ Absent.base64 = 0
  /\ Value("profile", 0) \in Encodable /\ Value("profile", 0).base64 = 0
<1>1. \A v \in Encodable : v.kind = "value" /\ v.base64 \in Nat /\ v \notin Placeholder
  BY PlaceholderIs DEF Encodable
<1>2. \A f \in Fields : Value(f, 0) \in Encodable
  BY DEF Value, Encodable, Origin
<1>3. \A v, max : Plain(v, max) <=> v \in Encodable /\ v.base64 <= max
  BY DEF Plain, Encodable
<1>4. /\ Absent \in Encodable /\ Absent.base64 = 0
      /\ Value("profile", 0) \in Encodable /\ Value("profile", 0).base64 = 0
  BY ValueType DEF Absent, Origin
<1>5. QED
  BY <1>1, <1>2, <1>3, <1>4

(* What a field holds before the walk is a value or as it was written.     *)
LEMMA OwnIs ==
  ASSUME WrittenInv, TextInv, NEW f \in Fields
  PROVE  /\ \/ Own(f) \in Encodable /\ Own(f).base64 = 0
            \/ Own(f) \in Placeholder /\ Own(f) = written[f]
         /\ IsRef(f) <=> Own(f).kind = "ref"
         /\ written[f].kind # "value" => Own(f) = written[f]
<1>1. CASE f = "description" /\ written[f] = Absent
  <2>1. Own(f) \in {Absent, Value("profile", 0)}
    BY <1>1 DEF Own, TextInv
  <2>2. written[f].kind = "value" /\ Own(f).kind = "value"
    BY <1>1, <2>1, EncodableIs
  <2>3. QED
    BY <2>1, <2>2, EncodableIs DEF IsRef
<1>2. CASE ~(f = "description" /\ written[f] = Absent)
  <2>1. Own(f) = written[f]
    BY <1>2 DEF Own
  <2>2. written[f] \in Placeholder \/ written[f] = Value(f, 0)
    BY <1>2 DEF WrittenInv
  <2>3. Value(f, 0) \in Encodable /\ Value(f, 0).base64 = 0
    BY ValueType DEF Origin
  <2>4. QED
    BY <2>1, <2>2, <2>3 DEF IsRef
<1>3. QED
  BY <1>1, <1>2

(* Only a reference depends on the structure it is expanded in.            *)
LEMMA LookupIs ==
  ASSUME NEW t \in Placeholder, NEW s, NEW r
  PROVE  /\ t.kind = "ref" => Lookup(t, s) = s[t.of]
         /\ t.kind # "ref" /\ ~Fails(t) =>
               /\ Lookup(t, s) \in Encodable /\ Lookup(t, s).base64 = 0
               /\ Lookup(t, s) = Lookup(t, r)
<1>1. t.kind \in {"env", "file", "vault", "gen", "ref"} \/ Fails(t)
  BY PlaceholderIs DEF Fails
<1>2. CASE t.kind = "ref"
  BY <1>2 DEF Lookup
<1>3. CASE t.kind \in {"env", "file"}
  <2>1. /\ Lookup(t, s) \in {Value("source", 0), Value("empty", 0), Value("default", 0)}
        /\ Lookup(t, s) = Lookup(t, r)
    BY <1>3 DEF Lookup
  <2>2. QED
    BY <1>3, <2>1, ValueType DEF Origin
<1>4. CASE t.kind \in {"vault", "gen"}
  <2>1. /\ Lookup(t, s) \in {Value("marker", 0), Value("password", 0)}
        /\ Lookup(t, s) = Lookup(t, r)
    BY <1>4 DEF Lookup
  <2>2. QED
    BY <1>4, <2>1, ValueType DEF Origin
<1>5. QED
  BY <1>1, <1>2, <1>3, <1>4

(* A leaf is a value, but for a reference.                                 *)
LEMMA LeavesIs ==
  ASSUME WrittenInv, TextInv, NEW f \in Fields
  PROVE  /\ ~IsRef(f) => Leaves[f] \in Encodable
         /\ IsRef(f) => /\ Leaves[f] = written[f] /\ written[f] \in Placeholder
                        /\ written[f].of \in Fields
         /\ Own(f).kind = "value" => Leaves[f] = Own(f)
         /\ ~IsRef(f) /\ Own(f).kind # "value" /\ ~Fails(Own(f))
               => Leaves[f] = Base64(Lookup(Own(f), written), Own(f).base64)
<1>1. Leaves[f] = IF Own(f).kind \in {"value", "ref"} THEN Own(f)
                  ELSE IF Fails(Own(f)) THEN Value("raw-placeholder", 0)
                  ELSE Base64(Lookup(Own(f), written), Own(f).base64)
  BY DEF Leaves
<1>2. IsRef(f) <=> Own(f).kind = "ref"
  BY OwnIs
<1>3. CASE Own(f) \in Encodable
  BY <1>1, <1>2, <1>3, EncodableIs
<1>4. CASE Own(f) \in Placeholder /\ Own(f) = written[f]
  <2>1. CASE Own(f).kind = "ref"
    BY <1>1, <1>2, <1>4, <2>1, PlaceholderIs
  <2>2. CASE Own(f).kind # "ref" /\ Fails(Own(f))
    <3>1. Leaves[f] = Value("raw-placeholder", 0)
      BY <1>1, <1>4, <2>2, PlaceholderIs
    <3>2. Leaves[f] \in Encodable
      BY <3>1, ValueType DEF Origin
    <3>3. QED
      BY <1>2, <1>4, <2>2, <3>2, PlaceholderIs
  <2>3. CASE Own(f).kind # "ref" /\ ~Fails(Own(f))
    <3>1. Leaves[f] = Base64(Lookup(Own(f), written), Own(f).base64)
      BY <1>1, <1>4, <2>3, PlaceholderIs
    <3>2. Lookup(Own(f), written) \in Encodable /\ Own(f).base64 \in Nat
      BY <1>4, <2>3, LookupIs, PlaceholderIs
    <3>3. Leaves[f] \in Encodable
      BY <3>1, <3>2, Base64Type
    <3>4. Own(f).kind # "value"
      BY <1>4, PlaceholderIs
    <3>5. QED
      BY <1>2, <2>3, <3>1, <3>3, <3>4
  <2>4. QED
    BY <2>1, <2>2, <2>3
<1>5. QED
  BY <1>3, <1>4, OwnIs

(* The field that a reference back names has references back itself.       *)
LEMMA GoesBackTo ==
  ASSUME NEW f \in Fields, GoesBack(f), IsRef(f)
  PROVE  GoesBack(written[f].of) /\ Stage(written[f].of) < Stage(f)
BY DEF GoesBack, Closed

(* Meaning, as one equation where references go back.                      *)
LEMMA MeaningIs ==
  ASSUME WrittenInv, TextInv, NEW f \in Fields, GoesBack(f)
  PROVE  /\ Meaning(f) \in Encodable
         /\ Own(f).kind = "value" => Meaning(f) = Own(f)
         /\ IsRef(f) => Meaning(f) = Base64(Meaning(written[f].of), written[f].base64)
         /\ Own(f).kind # "value" /\ ~IsRef(f) /\ ~Fails(Own(f))
               => Meaning(f) = Base64(Lookup(Own(f), written), Own(f).base64)
<1>1. PICK T \in SUBSET Fields :
         /\ f \in T /\ Closed(T)
         /\ \A g \in T : IsRef(g) => Stage(written[g].of) < Stage(g)
  BY DEF GoesBack
<1>2. PICK leaf : leaf = Leaves
  OBVIOUS
<1>3. ASSUME NEW g \in Fields
      PROVE  /\ ~IsRef(g) => leaf[g] \in Encodable /\ leaf[g].kind = "value"
             /\ IsRef(g) => /\ leaf[g] = written[g] /\ leaf[g].kind # "value"
                            /\ leaf[g].of \in Fields /\ leaf[g].base64 \in Nat
  BY <1>2, LeavesIs, EncodableIs, PlaceholderIs
<1>4. LeafType(leaf)
  BY <1>3 DEF LeafType
<1>5. \A g \in T : leaf[g].kind # "value" =>
                      leaf[g].of \in T /\ Stage(leaf[g].of) < Stage(g)
  BY <1>1, <1>3 DEF Closed
<1>6. \A g \in T : Followed(leaf)[6][g] =
             IF leaf[g].kind = "value" THEN leaf[g]
             ELSE Base64(Followed(leaf)[6][leaf[g].of], leaf[g].base64)
  BY <1>4, <1>5, Settled
<1>7. \A g \in Fields : Meaning(g) = Followed(leaf)[6][g]
  BY <1>2, SixFields DEF Meaning
<1>8. Meaning(f) \in Encodable
  <2>1. Followed(leaf)[6][f] \in Encodable
    BY <1>4, FollowedType
  <2>2. QED
    BY <1>7, <2>1
<1>9. ~IsRef(f) => Meaning(f) = leaf[f]
  BY <1>1, <1>3, <1>6, <1>7
<1>10. IsRef(f) => Meaning(f) = Base64(Meaning(written[f].of), written[f].base64)
  <2>1. SUFFICES ASSUME IsRef(f)
                 PROVE  Meaning(f) = Base64(Meaning(written[f].of), written[f].base64)
    OBVIOUS
  <2>2. PICK o : o = written[f].of
    OBVIOUS
  <2>3. o \in Fields /\ leaf[f] = written[f] /\ leaf[f].kind # "value"
    BY <1>3, <2>1, <2>2
  <2>4. Meaning(f) = Base64(Followed(leaf)[6][o], written[f].base64)
    BY <1>1, <1>6, <1>7, <2>2, <2>3
  <2>5. QED
    BY <1>7, <2>2, <2>3, <2>4
<1>11. Own(f).kind = "value" => ~IsRef(f)
  BY OwnIs
<1>12. QED
  BY <1>2, <1>8, <1>9, <1>10, <1>11, LeavesIs

-----------------------------------------------------------------------------
(* The walk.                                                               *)

(* Concatenation, element by element.                                      *)
LEMMA Appended ==
  ASSUME NEW S, NEW s \in Seq(S), NEW t \in Seq(S)
  PROVE  /\ s \o t \in Seq(S) /\ Len(s \o t) = Len(s) + Len(t)
         /\ \A i \in 1 .. Len(s) : (s \o t)[i] = s[i]
         /\ \A i \in 1 .. Len(t) : (s \o t)[Len(s) + i] = t[i]
OBVIOUS

(* The stages of the walk, by number.                                      *)
LEMMA StagesAre ==
  /\ NStages \in {4, 5} /\ Len(Stages) = NStages
  /\ Stages \in Seq(SUBSET (SUBSET Fields))
  /\ \A i \in 1 .. NStages : Stages[i] = PartsOf(i)
<1>1. PICK S, nodes : S = SUBSET (SUBSET Fields) /\ nodes = {{"ip1"}, {"ip2"}}
  OBVIOUS
<1>2. PICK s : s = <<{{"domain"}}, {{"tag1", "tag2"}}, {{"description"}}, nodes>>
  OBVIOUS
<1>3. PICK t : t = IF slots[1] = "inline" THEN <<nodes>> ELSE <<>>
  OBVIOUS
<1>4. {{"domain"}} \in S /\ {{"tag1", "tag2"}} \in S /\ {{"description"}} \in S /\ nodes \in S
  BY <1>1 DEF Fields, IPs
<1>5. s \in Seq(S) /\ Len(s) = 4 /\ t \in Seq(S)
  BY <1>2, <1>3, <1>4
<1>6. /\ s[1] = PartsOf(1) /\ s[2] = PartsOf(2) /\ s[3] = PartsOf(3) /\ s[4] = PartsOf(4)
      /\ nodes = PartsOf(5)
  BY <1>1, <1>2 DEF PartsOf, Tags
<1>7. Len(t) = NStages - 4 /\ (Len(t) = 1 => t[1] = nodes) /\ NStages \in {4, 5}
  BY <1>3 DEF NStages
<1>8. Stages = s \o t
  BY <1>1, <1>2, <1>3 DEF Stages
<1>9. /\ s \o t \in Seq(S) /\ Len(s \o t) = Len(s) + Len(t)
      /\ \A i \in 1 .. Len(s) : (s \o t)[i] = s[i]
      /\ \A i \in 1 .. Len(t) : (s \o t)[Len(s) + i] = t[i]
  <2>1. s \in Seq(S) /\ t \in Seq(S)
    BY <1>5
  <2>2. s \o t \in Seq(S) /\ Len(s \o t) = Len(s) + Len(t)
    BY <2>1, Appended
  <2>3. \A i \in 1 .. Len(s) : (s \o t)[i] = s[i]
    BY <2>1, Appended
  <2>4. \A i \in 1 .. Len(t) : (s \o t)[Len(s) + i] = t[i]
    BY <2>1, Appended
  <2>5. QED
    BY <2>2, <2>3, <2>4
<1>10. PICK r, n : r = s \o t /\ n = NStages
  OBVIOUS
<1>11. /\ r[1] = PartsOf(1) /\ r[2] = PartsOf(2) /\ r[3] = PartsOf(3) /\ r[4] = PartsOf(4)
       /\ n = 5 => r[5] = PartsOf(5)
       /\ Len(r) = n /\ n \in {4, 5}
  <2>1. n = 5 => r[4 + 1] = t[1] /\ t[1] = nodes
    BY <1>5, <1>7, <1>9, <1>10
  <2>2. \A i \in {1, 2, 3, 4} : r[i] = s[i]
    BY <1>5, <1>9, <1>10
  <2>3. Len(r) = n /\ n \in {4, 5}
    BY <1>5, <1>7, <1>9, <1>10
  <2>4. 4 + 1 = 5
    OBVIOUS
  <2>5. QED
    BY <1>6, <2>1, <2>2, <2>3, <2>4
<1>12. \A i \in 1 .. n : r[i] = PartsOf(i)
  <2>1. \A i \in 1 .. n : i \in {1, 2, 3, 4} \/ (n = 5 /\ i = 5)
    BY <1>11
  <2>2. QED
    BY <1>11, <2>1
<1>13. QED
  BY <1>1, <1>8, <1>9, <1>10, <1>11, <1>12

(* Every field is in one part, of one stage, and of the fifth if it is an  *)
(* address of an inline hypervisor.                                        *)
LEMMA FieldPart ==
  ASSUME NEW f \in Fields
  PROVE  /\ Stage(f) \in 1 .. 4 /\ f \in PartOf(f) /\ PartOf(f) \in PartsOf(Stage(f))
         /\ \A i \in 1 .. 5 : \A p \in PartsOf(i) :
               f \in p => PartOf(f) = p /\ (Stage(f) = i \/ i = 5)
<1>1. f \in {"domain", "tag1", "tag2", "description", "ip1", "ip2"}
  BY DEF Fields, IPs
<1>2. Stage(f) \in 1 .. 4 /\ f \in PartOf(f) /\ PartOf(f) \in PartsOf(Stage(f))
  BY <1>1 DEF Stage, PartOf, PartsOf, Tags
<1>3. ASSUME NEW i \in 1 .. 5, NEW p, p \in PartsOf(i), f \in p
      PROVE  PartOf(f) = p /\ (Stage(f) = i \/ i = 5)
  <2>1. i \in {1, 2, 3, 4, 5}
    OBVIOUS
  <2>2. \/ i = 1 /\ p = {"domain"}
        \/ i = 2 /\ p = Tags
        \/ i = 3 /\ p = {"description"}
        \/ i \in {4, 5} /\ p \in {{"ip1"}, {"ip2"}}
    BY <1>3, <2>1 DEF PartsOf
  <2>3. QED
    BY <1>1, <1>3, <2>2 DEF Stage, PartOf, Tags
<1>4. QED
  BY <1>2, <1>3

(* A part has fields of the model.                                         *)
LEMMA PartFields ==
  ASSUME NEW i, NEW p \in PartsOf(i)
  PROVE  p \subseteq Fields
BY DEF PartsOf, Tags, Fields, IPs

(* Where the walk stands.                                                  *)
LEMMA AtPart ==
  ASSUME IInv, NEW part, Walk(part)
  PROVE  /\ Len(todo) \in 1 .. 5 /\ Len(todo) <= NStages
         /\ Pos \in 1 .. NStages /\ Pos \in 1 .. 5 /\ Len(todo) = NStages - Pos + 1
         /\ Head(todo) = todo[1] /\ Head(todo) \subseteq PartsOf(Pos)
         /\ part \in Head(todo) /\ part \in PartsOf(Pos) /\ part \subseteq Fields
         /\ ret = "walk"
<1>1. ret = "walk" /\ todo # <<>> /\ part \in Head(todo)
  BY DEF Walk
<1>2. PICK n, k : n = NStages /\ k = Len(todo)
  OBVIOUS
<1>3. /\ todo \in Seq(SUBSET (SUBSET Fields)) /\ k \in 0 .. n
      /\ Head(todo) \subseteq PartsOf(Pos)
  BY <1>1, <1>2 DEF IInv, TodoInv
<1>4. n \in {4, 5}
  BY <1>2, StagesAre
<1>5. k # 0
  BY <1>1, <1>2, <1>3
<1>6. k \in 1 .. 5 /\ k <= n
  BY <1>3, <1>4, <1>5
<1>7. Pos = n - k + 1
  BY <1>2 DEF Pos
<1>8. Head(todo) = todo[1]
  BY <1>2, <1>3, <1>6
<1>9. /\ Pos \in 1 .. n /\ Pos \in 1 .. 5 /\ k = n - Pos + 1
  BY <1>4, <1>6, <1>7
<1>10. part \subseteq Fields
  BY <1>1, <1>3, PartFields
<1>11. QED
  BY <1>1, <1>2, <1>3, <1>6, <1>8, <1>9, <1>10

(* The rest of the walk.                                                   *)
LEMMA WalkOn ==
  ASSUME IInv, NEW part, Walk(part)
  PROVE  /\ todo' \in Seq(SUBSET (SUBSET Fields))
         /\ Len(todo)' \in 0 .. 5
         /\ \/ /\ Head(todo) = {part} /\ Len(todo)' = Len(todo) - 1 /\ Pos' = Pos + 1
               /\ todo' # <<>> => Head(todo)' = PartsOf(Pos + 1) /\ Pos < NStages
               /\ \A i \in 2 .. Len(todo)' : todo'[i] = PartsOf((Pos + 1) + i - 1)
            \/ /\ Head(todo) # {part} /\ Len(todo)' = Len(todo) /\ Pos' = Pos
               /\ todo' # <<>>
               /\ Head(todo)' = Head(todo) \ {part}
               /\ \A i \in 2 .. Len(todo)' : todo'[i] = PartsOf(Pos + i - 1)
<1>1. PICK n, k, p, s, t : n = NStages /\ k = Len(todo) /\ p = Pos /\ s = todo /\ t = todo'
  OBVIOUS
<1>2. /\ k \in 1 .. 5 /\ k <= n /\ p \in 1 .. n /\ k = n - p + 1 /\ n \in {4, 5}
      /\ k = Len(s)
  BY <1>1, AtPart, StagesAre
<1>3. /\ s \in Seq(SUBSET (SUBSET Fields))
      /\ \A i \in 2 .. k : s[i] = PartsOf(p + i - 1)
  <2>1. ret = "walk"
    BY DEF Walk
  <2>2. QED
    BY <1>1, <2>1 DEF IInv, TodoInv
<1>4. NStages' = NStages /\ Pos' = n - Len(t) + 1
  BY <1>1 DEF Walk, NStages, Pos
<1>5. CASE Head(s) = {part}
  <2>1. t = Tail(s)
    BY <1>1, <1>5 DEF Walk
  <2>2. /\ t \in Seq(SUBSET (SUBSET Fields)) /\ Len(t) = k - 1
        /\ \A i \in 1 .. k - 1 : t[i] = s[i + 1]
    BY <1>2, <1>3, <2>1
  <2>3. Pos' = p + 1 /\ Len(t) \in 0 .. 5
    <3>1. PICK m : m = Len(t)
      OBVIOUS
    <3>2. m = k - 1 /\ Pos' = n - m + 1
      BY <1>4, <2>2, <3>1
    <3>3. m \in 0 .. 5 /\ n - m + 1 = p + 1
      <4>1. n \in Int /\ p \in Int /\ k \in Int /\ k = n - p + 1 /\ m = k - 1
        BY <1>2, <3>2
      <4>2. m \in Int /\ n - m + 1 = p + 1
        BY <4>1
      <4>3. QED
        BY <1>2, <4>1, <4>2
    <3>4. QED
      BY <3>1, <3>2, <3>3
  <2>4. \A i \in 1 .. k - 1 : t[i] = PartsOf((p + 1) + i - 1)
    <3>1. SUFFICES ASSUME NEW i \in 1 .. k - 1 PROVE t[i] = PartsOf((p + 1) + i - 1)
      OBVIOUS
    <3>2. i + 1 \in 2 .. k /\ p + (i + 1) - 1 = (p + 1) + i - 1
      BY <1>2
    <3>3. s[i + 1] = PartsOf(p + (i + 1) - 1)
      BY <1>3, <3>2
    <3>4. QED
      BY <2>2, <3>2, <3>3
  <2>5. t # <<>> => Head(t) = PartsOf(p + 1) /\ p < n
    <3>1. SUFFICES ASSUME t # <<>> PROVE Head(t) = PartsOf(p + 1) /\ p < n
      OBVIOUS
    <3>2. k - 1 # 0 /\ Head(t) = t[1]
      BY <1>2, <2>2, <3>1
    <3>3. 1 \in 1 .. k - 1 /\ (p + 1) + 1 - 1 = p + 1 /\ p < n
      BY <1>2, <3>2
    <3>4. t[1] = PartsOf((p + 1) + 1 - 1)
      BY <2>4, <3>3
    <3>5. QED
      BY <3>2, <3>3, <3>4
  <2>6. \A i \in 2 .. k - 1 : i \in 1 .. k - 1
    OBVIOUS
  <2>7. QED
    BY <1>1, <1>5, <2>2, <2>3, <2>4, <2>5, <2>6
<1>6. CASE Head(s) # {part}
  <2>1. PICK x : x = Head(s) \ {part}
    OBVIOUS
  <2>2. t = [s EXCEPT ![1] = x]
    <3>1. Head(s) = s[1]
      BY <1>2, <1>3
    <3>2. QED
      BY <1>1, <1>6, <2>1, <3>1 DEF Walk
  <2>3. x \in SUBSET (SUBSET Fields)
    BY <1>2, <1>3, <2>1
  <2>4. /\ t \in Seq(SUBSET (SUBSET Fields)) /\ Len(t) = k
        /\ Head(t) = x /\ t # <<>> /\ \A i \in 2 .. k : t[i] = s[i]
    BY <1>2, <1>3, <2>2, <2>3
  <2>5. Pos' = p /\ k \in 0 .. 5
    BY <1>2, <1>4, <2>4
  <2>6. QED
    BY <1>1, <1>3, <1>6, <2>1, <2>4, <2>5
<1>7. QED
  BY <1>1, <1>5, <1>6

(* The walk has come to a field of part and to no other.                   *)
LEMMA WalkFresh ==
  ASSUME IInv, NEW part, Walk(part), NEW f \in Fields
  PROVE  Fresh(f)' <=> Fresh(f) /\ f \notin part
<1>1. PICK p, n, g : p = Pos /\ n = NStages /\ g = Stage(f)
  OBVIOUS
<1>2. /\ p \in 1 .. 5 /\ p \in 1 .. n /\ n \in {4, 5} /\ part \in PartsOf(p)
      /\ Head(todo) \subseteq PartsOf(p) /\ part \in Head(todo) /\ ret = "walk"
  BY <1>1, AtPart, StagesAre
<1>3. /\ g \in 1 .. 4 /\ f \in PartOf(f) /\ PartOf(f) \in PartsOf(g)
      /\ f \in part => PartOf(f) = part /\ (g = p \/ p = 5)
  BY <1>1, <1>2, FieldPart
<1>4. ret' = "walk" /\ "walk" \notin Before
  BY <1>2 DEF Walk, Before
<1>5. Fresh(f) <=> g > p \/ (g = p /\ PartOf(f) \in Head(todo))
  BY <1>1, <1>2, <1>4 DEF Fresh
<1>6. Fresh(f)' <=> g > Pos' \/ (g = Pos' /\ PartOf(f) \in Head(todo)')
  BY <1>1, <1>4 DEF Fresh
<1>7. f \in part <=> PartOf(f) = part
  BY <1>3
<1>8. CASE /\ Head(todo) = {part} /\ Pos' = p + 1
           /\ todo' # <<>> => Head(todo)' = PartsOf(p + 1) /\ p < n
           /\ Len(todo)' = Len(todo) - 1
  <2>1. CASE g = p + 1
    <3>1. todo' # <<>>
      <4>1. p < 4 /\ p < n
        BY <1>2, <1>3, <2>1
      <4>2. PICK k : k = Len(todo)
        OBVIOUS
      <4>3. k = n - p + 1 /\ k \in 1 .. 5
        BY <1>1, <4>2, AtPart
      <4>4. k - 1 # 0
        BY <1>2, <4>1, <4>3
      <4>5. Len(todo') # 0
        BY <1>8, <4>2, <4>4
      <4>6. QED
        BY <4>5
    <3>2. PartOf(f) \in Head(todo)'
      BY <1>3, <1>8, <2>1, <3>1
    <3>3. g > p /\ g # p /\ p # 5
      BY <1>2, <1>3, <2>1
    <3>4. QED
      BY <1>3, <1>5, <1>6, <1>8, <2>1, <3>2, <3>3
  <2>2. CASE g # p + 1
    <3>1. (g > p + 1) <=> (g > p)
      BY <1>2, <1>3, <2>2
    <3>2. g > p => g # p /\ p # 5
      BY <1>2, <1>3
    <3>3. QED
      BY <1>3, <1>5, <1>6, <1>7, <1>8, <2>2, <3>1, <3>2
  <2>3. QED
    BY <2>1, <2>2
<1>9. CASE Head(todo) # {part} /\ Pos' = p /\ Head(todo)' = Head(todo) \ {part}
  <2>1. g > p => g # p /\ p # 5
    BY <1>2, <1>3
  <2>2. QED
    BY <1>3, <1>5, <1>6, <1>7, <1>9, <2>1
<1>10. QED
  BY <1>1, <1>8, <1>9, WalkOn

(* Every step of the walk may encode once more.                             *)
LEMMA WalkEncoded ==
  ASSUME IInv, NEW part, Walk(part)
  PROVE  Encoded \in Nat /\ Encoded' \in Nat /\ Encoded' >= Encoded + 1
<1> DEFINE Half(h) == h \in {{{"ip1"}}, {{"ip2"}}}
<1>1. PICK k, l, h, i : k = Len(todo) /\ l = Len(todo)' /\ h = Head(todo) /\ i = Head(todo)'
  OBVIOUS
<1>2. /\ k \in 1 .. 5 /\ ret = "walk" /\ Pos \in 1 .. 5
      /\ h \subseteq PartsOf(Pos) /\ part \in h
  BY <1>1, AtPart
<1>3. ret' = "walk" /\ "walk" \notin Before
  BY <1>2 DEF Walk, Before
<1>4. todo # <<>>
  BY DEF Walk
<1>5. Encoded = 2 * (5 - k) + (IF Half(h) THEN 1 ELSE 0)
  BY <1>1, <1>2, <1>3, <1>4 DEF Encoded
<1>6. Encoded' = 2 * (5 - l) + (IF todo' # <<>> /\ Half(i) THEN 1 ELSE 0)
  BY <1>1, <1>3 DEF Encoded
<1>7. PICK d, e : d = (IF Half(h) THEN 1 ELSE 0)
                  /\ e = (IF todo' # <<>> /\ Half(i) THEN 1 ELSE 0)
  OBVIOUS
<1>8. d \in {0, 1} /\ e \in {0, 1}
  BY <1>7
<1>9. CASE h = {part} /\ l = k - 1
  <2>1. Encoded = 2 * (5 - k) + d /\ Encoded' = 2 * (5 - (k - 1)) + e
    BY <1>5, <1>6, <1>7, <1>9
  <2>2. QED
    BY <1>2, <1>8, <2>1
<1>10. CASE h # {part} /\ l = k /\ todo' # <<>> /\ i = h \ {part}
  <2>1. h = {{"ip1"}, {"ip2"}}
    <3>1. Pos \in {1, 2, 3, 4, 5}
      BY <1>2
    <3>2. \A x, y : h \subseteq {x} /\ y \in h => h = {y}
      OBVIOUS
    <3>3. CASE Pos \in {1, 2, 3}
      <4>1. PartsOf(Pos) \in {{{"domain"}}, {Tags}, {{"description"}}}
        BY <3>3 DEF PartsOf
      <4>2. PICK x : PartsOf(Pos) = {x}
        BY <4>1
      <4>3. h = {part}
        BY <1>2, <3>2, <4>2
      <4>4. QED
        BY <1>10, <4>3
    <3>4. CASE Pos \in {4, 5}
      <4>1. PartsOf(Pos) = {{"ip1"}, {"ip2"}}
        BY <3>4 DEF PartsOf
      <4>2. \A a, b : h \subseteq {a, b} /\ part \in h /\ h # {part} => h = {a, b}
        BY Zenon
      <4>3. h \subseteq {{"ip1"}, {"ip2"}}
        BY <1>2, <4>1
      <4>4. QED
        BY <1>2, <1>10, <4>2, <4>3
    <3>5. QED
      BY <3>1, <3>3, <3>4
  <2>2. "ip1" # "ip2"
    OBVIOUS
  <2>3. ~Half(h) /\ Half(i)
    <3>1. PICK a, b : a = {"ip1"} /\ b = {"ip2"}
      OBVIOUS
    <3>2. a # b
      BY <2>2, <3>1
    <3>3. h = {a, b} /\ (part = a \/ part = b)
      BY <1>2, <2>1, <3>1
    <3>4. h # {a} /\ h # {b}
      BY <3>2, <3>3
    <3>5. i = {a} \/ i = {b}
      BY <1>10, <3>2, <3>3
    <3>6. QED
      BY <3>1, <3>4, <3>5
  <2>4. Encoded = 2 * (5 - k) + 0 /\ Encoded' = 2 * (5 - k) + 1
    BY <1>5, <1>6, <1>10, <2>3
  <2>5. QED
    BY <1>2, <2>4
<1>11. QED
  BY <1>1, <1>9, <1>10, WalkOn

(* The new text of a field of the part.                                    *)
LEMMA WalkText ==
  ASSUME IInv, NEW part, Walk(part), NEW f \in Fields
  PROVE  /\ f \notin part => text'[f] = text[f]
         /\ f \in part => text'[f] = Expanded(text[f], text)
         /\ text' = [g \in Fields |-> text'[g]]
         /\ written' = written /\ source' = source /\ slots' = slots /\ ret' = ret
         /\ errs' = errs \cup {g \in part : Fails(text[g])}
         /\ part \subseteq Fields /\ ret = "walk"
<1>1. part \subseteq Fields /\ ret = "walk"
  BY AtPart
<1>2. text' = [g \in Fields |-> IF g \in part THEN Expanded(text[g], text) ELSE text[g]]
  BY DEF Walk
<1>3. text' = [g \in Fields |-> text'[g]]
  BY <1>2
<1>4. QED
  BY <1>1, <1>2, <1>3 DEF Walk

(* A value, and a placeholder that fails, stay as they are.                *)
LEMMA ExpandedIs ==
  ASSUME NEW t, NEW s
  PROVE  /\ t.kind = "value" => Expanded(t, s) = t
         /\ t.kind # "value" /\ Fails(t) => Expanded(t, s) = t
         /\ t.kind # "value" /\ ~Fails(t) => Expanded(t, s) = Base64(Lookup(t, s), t.base64)
BY DEF Expanded

(* A text stays a value or something the manifest has.                     *)
LEMMA WalkTextType ==
  ASSUME IInv, NEW part, Walk(part), NEW f \in Fields
  PROVE  \/ Plain(text'[f], Encoded')
         \/ text'[f] \in Placeholder /\ \E g \in Fields : text'[f] = written[g]
<1>1. PICK E, F : E = Encoded /\ F = Encoded'
  OBVIOUS
<1>2. E \in Nat /\ F \in Nat /\ F >= E + 1
  BY <1>1, WalkEncoded
<1>3. ASSUME NEW g \in Fields
      PROVE  \/ text[g] \in Encodable /\ text[g].base64 <= E
             \/ text[g] \in Placeholder /\ \E h \in Fields : text[g] = written[h]
  BY <1>1, EncodableIs DEF IInv, TextInv
<1>4. ASSUME NEW v \in Encodable, v.base64 <= E, NEW b \in {0, 1}
      PROVE  Plain(Base64(v, b), F)
  <2>1. Base64(v, b) \in Encodable /\ Base64(v, b).base64 = v.base64 + b
    BY Base64Type
  <2>2. PICK a : a = v.base64
    OBVIOUS
  <2>3. a \in Nat /\ a <= E
    BY <1>4, <2>2, EncodableIs
  <2>4. a + b <= F
    BY <1>2, <2>3
  <2>5. QED
    BY <2>1, <2>2, <2>4, EncodableIs
<1>5. CASE f \notin part \/ text'[f] = text[f]
  <2>1. text'[f] = text[f]
    BY <1>5, WalkText
  <2>2. CASE text[f] \in Encodable /\ text[f].base64 <= E
    <3>1. Base64(text[f], 0) = text[f]
      BY DEF Base64
    <3>2. QED
      BY <1>1, <1>4, <2>1, <2>2, <3>1
  <2>3. QED
    BY <1>3, <2>1, <2>2
<1>6. CASE f \in part /\ text'[f] # text[f]
  <2>1. PICK t : t = text[f]
    OBVIOUS
  <2>2. text'[f] = Expanded(t, text)
    BY <1>6, <2>1, WalkText
  <2>3. t.kind # "value" /\ ~Fails(t)
    BY <1>6, <2>1, <2>2, ExpandedIs
  <2>4. t \in Placeholder
    BY <1>3, <2>1, <2>3, EncodableIs
  <2>5. text'[f] = Base64(Lookup(t, text), t.base64) /\ t.base64 \in {0, 1}
    BY <2>2, <2>3, <2>4, ExpandedIs, PlaceholderIs
  <2>6. CASE t.kind # "ref"
    <3>1. Lookup(t, text) \in Encodable /\ Lookup(t, text).base64 = 0
      BY <2>3, <2>4, <2>6, LookupIs
    <3>2. 0 <= E
      BY <1>2
    <3>3. QED
      BY <1>1, <1>4, <2>5, <3>1, <3>2
  <2>7. CASE t.kind = "ref"
    <3>1. PICK o : o = t.of
      OBVIOUS
    <3>2. o \in Fields /\ Lookup(t, text) = text[o]
      BY <2>4, <2>7, <3>1, LookupIs, PlaceholderIs
    <3>3. CASE text[o] \in Encodable /\ text[o].base64 <= E
      BY <1>1, <1>4, <2>5, <3>2, <3>3
    <3>4. CASE text[o] \in Placeholder /\ \E h \in Fields : text[o] = written[h]
      <4>1. CASE t.base64 = 0
        <5>1. text'[f] = text[o]
          BY <2>5, <3>2, <4>1 DEF Base64
        <5>2. QED
          BY <3>4, <5>1
      <4>2. CASE t.base64 = 1
        <5>1. text[o].kind # "value"
          BY <3>4, PlaceholderIs
        <5>2. text'[f] = Value("raw-placeholder", 1)
          BY <2>5, <3>2, <4>2, <5>1 DEF Base64
        <5>3. Value("raw-placeholder", 1) \in Encodable
              /\ Value("raw-placeholder", 1).base64 = 1
          BY ValueType DEF Origin
        <5>4. 1 <= F
          BY <1>2
        <5>5. QED
          BY <1>1, <5>2, <5>3, <5>4, EncodableIs
      <4>3. QED
        BY <2>5, <4>1, <4>2
    <3>5. QED
      BY <1>3, <3>2, <3>3, <3>4
  <2>8. QED
    BY <2>6, <2>7
<1>7. QED
  BY <1>5, <1>6

-----------------------------------------------------------------------------
(* The steps.                                                              *)

(* What the steps that leave the fields' own contents alone keep.          *)
LEMMA SameMeaning ==
  ASSUME written' = written, source' = source,
         \A f \in Fields : Own(f)' = Own(f)
  PROVE  /\ \A f \in Fields : Meaning(f)' = Meaning(f)
         /\ \A f \in Fields : GoesBack(f)' <=> GoesBack(f)
         /\ \A f \in Fields : Missing(f)' <=> Missing(f)
<1>0. \A f \in Fields : Fails(Own(f))' <=> Fails(Own(f))
  BY DEF Fails, Found
<1>1. Leaves' = [f \in Fields |->
                   IF Own(f)'.kind \in {"value", "ref"} THEN Own(f)'
                   ELSE IF Fails(Own(f))' THEN Value("raw-placeholder", 0)
                   ELSE Base64(Lookup(Own(f), written)', Own(f)'.base64)]
  BY DEF Leaves, Base64, Value
<1>2. \A f \in Fields : Lookup(Own(f), written)' = Lookup(Own(f), written)
  BY DEF Lookup, Found
<1>3. Leaves' = Leaves
  BY <1>0, <1>1, <1>2 DEF Leaves
<1>4. \A f \in Fields : Meaning(f)' = Meaning(f)
  BY <1>3 DEF Meaning
<1>5. \A f \in Fields : GoesBack(f)' <=> GoesBack(f)
  BY DEF GoesBack, Closed, IsRef
<1>6. \A f \in Fields : Missing(f)' <=> Missing(f)
  BY DEF Missing, Found
<1>7. QED
  BY <1>4, <1>5, <1>6

(* Own depends on the manifest and the text alone.                         *)
LEMMA SameText ==
  ASSUME written' = written, text' = text
  PROVE  \A f \in Fields : Own(f)' = Own(f)
BY DEF Own

(* A step that changes neither a text nor what the walk has come to.        *)
LEMMA Quiet ==
  ASSUME IInv, UNCHANGED <<written, source, text, errs>>,
         \A f \in Fields : Fresh(f)' <=> Fresh(f),
         Encoded \in Nat, Encoded' \in Nat, Encoded <= Encoded',
         TodoInv', ControlInv'
  PROVE  IInv'
<1>1. \A f \in Fields : Own(f)' = Own(f)
  BY SameText
<1>2. /\ \A f \in Fields : Meaning(f)' = Meaning(f)
      /\ \A f \in Fields : GoesBack(f)' <=> GoesBack(f)
      /\ \A f \in Fields : Missing(f)' <=> Missing(f)
  BY <1>1, SameMeaning
<1>3. WrittenInv'
  BY DEF IInv, WrittenInv
<1>4. TextInv'
  <2>1. PICK E, F : E = Encoded /\ F = Encoded'
    OBVIOUS
  <2>2. \A v : Plain(v, E) => Plain(v, F)
    <3>1. \A v : Plain(v, E) => v.base64 \in Nat /\ v.base64 <= E
      BY DEF Plain
    <3>2. E \in Nat /\ F \in Nat /\ E <= F
      BY <2>1
    <3>3. \A b \in Nat : b <= E => b <= F
      BY <3>2
    <3>4. QED
      BY <3>1, <3>3 DEF Plain
  <2>3. TextInv
    BY DEF IInv
  <2>4. QED
    BY <2>1, <2>2, <2>3 DEF TextInv
<1>5. MeansInv'
  BY <1>1, <1>2 DEF IInv, MeansInv
<1>6. MissInv'
  BY <1>2 DEF IInv, MissInv
<1>7. QED
  BY <1>3, <1>4, <1>5, <1>6 DEF IInv

(* Encoded, at each place of the code.                                     *)
LEMMA EncodedIs ==
  /\ ret \in Before => Encoded = 0
  /\ ret \notin Before /\ todo = <<>> => Encoded = 10
  /\ IInv => Encoded \in 0 .. 11
<1>1. ret \in Before => Encoded = 0
  BY DEF Encoded
<1>2. ret \notin Before /\ todo = <<>> => Encoded = 10
  <2>1. todo = <<>> => Len(todo) = 0
    OBVIOUS
  <2>2. QED
    BY <2>1 DEF Encoded
<1>3. IInv => Encoded \in 0 .. 11
  <2>1. SUFFICES ASSUME IInv, ret \notin Before, todo # <<>> PROVE Encoded \in 0 .. 11
    BY <1>1, <1>2
  <2>2. PICK k, n : k = Len(todo) /\ n = NStages
    OBVIOUS
  <2>3. ret = "walk" /\ k \in 0 .. n /\ n \in {4, 5}
    BY <2>1, <2>2, StagesAre DEF IInv, TodoInv
  <2>4. PICK e : e = (IF todo # <<>> /\ Head(todo) \in {{{"ip1"}}, {{"ip2"}}} THEN 1 ELSE 0)
    OBVIOUS
  <2>5. e \in {0, 1} /\ Encoded = 2 * (5 - k) + e
    BY <2>1, <2>2, <2>4 DEF Encoded
  <2>6. QED
    BY <2>3, <2>5
<1>4. QED
  BY <1>1, <1>2, <1>3

(* Nothing is fresh once the walk is over, and everything before it.        *)
LEMMA FreshIs ==
  ASSUME NEW f \in Fields
  PROVE  /\ ret \in Before => Fresh(f)
         /\ ret \notin Before /\ ret # "walk" => ~Fresh(f)
         /\ ret = "walk" /\ todo = <<>> => ~Fresh(f)
<1>1. ret \in Before => Fresh(f)
  BY DEF Fresh
<1>2. ret \notin Before /\ ret # "walk" => ~Fresh(f)
  BY DEF Fresh
<1>3. ret = "walk" /\ todo = <<>> => ~Fresh(f)
  <2>1. SUFFICES ASSUME ret = "walk", todo = <<>> PROVE ~Fresh(f)
    OBVIOUS
  <2>2. PICK n, g : n = NStages /\ g = Stage(f)
    OBVIOUS
  <2>3. n \in {4, 5} /\ g \in 1 .. 4
    BY <2>2, StagesAre, FieldPart
  <2>4. Pos = n - 0 + 1
    <3>1. Len(todo) = 0
      BY <2>1
    <3>2. QED
      BY <2>2, <3>1 DEF Pos
  <2>5. ~(g > Pos) /\ g # Pos
    BY <2>3, <2>4
  <2>6. QED
    BY <2>1, <2>2, <2>5 DEF Fresh, Before
<1>4. QED
  BY <1>1, <1>2, <1>3

(* The manifest before Load.                                               *)
LEMMA InitInv == Init => IInv
<1>1. SUFFICES ASSUME Init PROVE IInv
  OBVIOUS
<1>2. PICK F \in SUBSET Fields :
         /\ Cardinality(F) <= MaxPlaceholders
         /\ \E w \in [F -> Placeholder], d \in {Absent, Value("description", 0)} :
                written = [f \in Fields |->
                             IF f \in F THEN w[f]
                             ELSE IF f = "description" THEN d ELSE Value(f, 0)]
  BY <1>1 DEF Init
<1>3. PICK w \in [F -> Placeholder], d \in {Absent, Value("description", 0)} :
         written = [f \in Fields |->
                      IF f \in F THEN w[f]
                      ELSE IF f = "description" THEN d ELSE Value(f, 0)]
  BY <1>2
<1>4. /\ ret = "read" /\ todo = <<>> /\ errs = {} /\ slots = <<>> /\ text = written
      /\ source \in {"unset", "empty", "set"}
  BY <1>1 DEF Init
<1>5. WrittenInv
  <2>1. written = [f \in Fields |-> written[f]]
    BY <1>3
  <2>2. ASSUME NEW f \in Fields
        PROVE  \/ written[f] \in Placeholder
               \/ written[f] = Value(f, 0)
               \/ f = "description" /\ written[f] = Absent
    BY <1>3
  <2>3. QED
    BY <2>1, <2>2 DEF WrittenInv
<1>6. ret \in Before
  BY <1>4 DEF Before
<1>7. TextInv
  <2>1. Encoded = 0
    BY <1>6, EncodedIs
  <2>2. ASSUME NEW f \in Fields
        PROVE  \/ Plain(text[f], Encoded)
               \/ text[f] \in Placeholder /\ \E g \in Fields : text[f] = written[g]
    <3>1. CASE written[f] \in Placeholder
      BY <1>4, <3>1
    <3>2. CASE written[f] = Value(f, 0)
      <4>1. Value(f, 0) \in Encodable /\ Value(f, 0).base64 = 0
        BY ValueType DEF Origin
      <4>2. QED
        BY <1>4, <2>1, <3>2, <4>1, EncodableIs
    <3>3. CASE written[f] = Absent
      BY <1>4, <2>1, <3>3, EncodableIs
    <3>4. QED
      BY <1>5, <3>1, <3>2, <3>3 DEF WrittenInv
  <2>3. QED
    BY <1>4, <1>5, <2>2 DEF TextInv, WrittenInv
<1>8. TodoInv
  BY <1>4 DEF TodoInv
<1>9. ControlInv
  <2>1. slots \in Seq({"inline", "manifest", "file"}) /\ Len(slots) = 0
    BY <1>4
  <2>2. 0 <= NSlots
    BY ConfigAssumption
  <2>3. QED
    BY <1>4, <1>6, <2>1, <2>2 DEF ControlInv, Before, After
<1>10. MeansInv
  BY <1>4, <1>6, FreshIs DEF MeansInv, Own
<1>11. MissInv
  BY <1>4, <1>6, FreshIs DEF MissInv
<1>12. QED
  BY <1>5, <1>7, <1>8, <1>9, <1>10, <1>11 DEF IInv

(* The profile fills in a description that the manifest leaves out.        *)
LEMMA ReadStep == IInv /\ Read => IInv'
<1>1. SUFFICES ASSUME IInv, Read PROVE IInv'
  OBVIOUS
<1>2. /\ ret = "read" /\ ret' \in {"profile", "refs"}
      /\ UNCHANGED <<written, source, slots, todo, errs>>
  BY <1>1 DEF Read
<1>3. ret \in Before /\ ret' \in Before
  BY <1>2 DEF Before
<1>4. Encoded = 0 /\ Encoded' = 0
  BY <1>3, EncodedIs DEF Encoded
<1>5. \A f \in Fields : Fresh(f) /\ Fresh(f)'
  BY <1>3 DEF Fresh
<1>6. TodoInv'
  BY <1>1, <1>2 DEF IInv, TodoInv
<1>7. ControlInv'
  BY <1>1, <1>2, <1>3 DEF IInv, ControlInv, Before
<1>8. CASE text' = text
  BY <1>1, <1>2, <1>4, <1>5, <1>6, <1>7, <1>8, Quiet
<1>9. CASE text' = [text EXCEPT !["description"] = Merged(@)]
  <2>1. /\ text = [f \in Fields |-> text[f]]
        /\ WrittenInv /\ TextInv
        /\ \A f \in Fields : text[f] = Own(f)
    BY <1>1, <1>5 DEF IInv, TextInv, MeansInv
  <2>2. "description" \in Fields
    BY DEF Fields
  <2>3. /\ \A f \in Fields : f # "description" => text'[f] = text[f]
        /\ text'["description"] = Merged(text["description"])
        /\ text' = [f \in Fields |-> text'[f]]
    BY <1>9, <2>1, <2>2
  <2>4. ASSUME NEW f \in Fields, text'[f] # text[f]
        PROVE  /\ f = "description" /\ written[f] = Absent
               /\ text'[f] = Value("profile", 0)
    <3>1. f = "description" /\ text[f] = Absent /\ text'[f] = Value("profile", 0)
      BY <2>3, <2>4 DEF Merged
    <3>2. written[f] = Absent
      BY <2>1, <3>1 DEF Own
    <3>3. QED
      BY <3>1, <3>2
  <2>5. WrittenInv'
    BY <1>2, <2>1 DEF WrittenInv
  <2>6. TextInv'
    <3>1. ASSUME NEW f \in Fields
          PROVE  \/ Plain(text'[f], 0)
                 \/ text'[f] \in Placeholder /\ \E g \in Fields : text'[f] = written[g]
      <4>1. Plain(Value("profile", 0), 0)
        BY EncodableIs
      <4>2. QED
        BY <1>4, <2>1, <2>4, <4>1 DEF TextInv
    <3>2. written["description"] = Absent
             => text'["description"] \in {Absent, Value("profile", 0)}
      BY <2>1, <2>2, <2>4 DEF TextInv
    <3>3. QED
      BY <1>2, <1>4, <2>3, <3>1, <3>2 DEF TextInv
  <2>7. MeansInv'
    <3>1. ASSUME NEW f \in Fields PROVE text'[f] = Own(f)'
      BY <1>2, <2>1, <2>4 DEF Own
    <3>2. QED
      BY <1>5, <3>1 DEF MeansInv
  <2>8. MissInv'
    <3>1. errs' = {}
      BY <1>1, <1>2, <1>3 DEF IInv, ControlInv
    <3>2. QED
      BY <1>5, <3>1 DEF MissInv
  <2>9. QED
    BY <1>6, <1>7, <2>5, <2>6, <2>7, <2>8 DEF IInv
<1>10. QED
  BY <1>1, <1>8, <1>9 DEF Read

(* No slot changes a text.                                                 *)
LEMMA ResolveRefStep ==
  ASSUME IInv, NEW s \in {"inline", "manifest", "file"}, ResolveRef(s)
  PROVE  IInv'
<1>1. /\ ret = "refs" /\ ret' \in {"circular", "refs", "unreadable"}
      /\ Len(slots) < NSlots /\ slots' = Append(slots, s)
      /\ UNCHANGED <<written, source, text, todo, errs>>
  BY DEF ResolveRef
<1>2. ret \in Before /\ ret' \in Before
  BY <1>1 DEF Before
<1>3. Encoded = 0 /\ Encoded' = 0
  BY <1>2, EncodedIs DEF Encoded
<1>4. \A f \in Fields : Fresh(f) /\ Fresh(f)'
  BY <1>2 DEF Fresh
<1>5. TodoInv'
  BY <1>1 DEF IInv, TodoInv
<1>6. ControlInv'
  <2>1. PICK n : n = Len(slots)
    OBVIOUS
  <2>2. /\ slots \in Seq({"inline", "manifest", "file"})
        /\ n \in Nat /\ n < NSlots /\ NSlots \in Nat
    BY <1>1, <2>1, ConfigAssumption DEF IInv, ControlInv
  <2>3. slots' \in Seq({"inline", "manifest", "file"}) /\ Len(slots') = n + 1
    BY <1>1, <2>1, <2>2
  <2>4. n + 1 <= NSlots
    BY <2>2
  <2>5. QED
    BY <1>1, <1>2, <2>3, <2>4 DEF IInv, ControlInv, Before
<1>7. QED
  BY <1>1, <1>3, <1>4, <1>5, <1>6, Quiet

(* Every field is fresh when the walk starts.                              *)
LEMMA StartWalkStep == IInv /\ StartWalk => IInv'
<1>1. SUFFICES ASSUME IInv, StartWalk PROVE IInv'
  OBVIOUS
<1>2. /\ ret = "refs" /\ ret' = "walk" /\ todo' = Stages
      /\ UNCHANGED <<written, source, slots, text, errs>>
  BY <1>1 DEF StartWalk
<1>3. PICK n, t : n = NStages /\ t = todo'
  OBVIOUS
<1>4. /\ n \in {4, 5} /\ Len(t) = n /\ t \in Seq(SUBSET (SUBSET Fields))
      /\ \A i \in 1 .. n : t[i] = PartsOf(i)
  BY <1>2, <1>3, StagesAre
<1>5. NStages' = n /\ Pos' = 1
  <2>1. NStages' = n
    BY <1>2, <1>3 DEF NStages
  <2>2. Pos' = n - n + 1
    BY <1>3, <1>4, <2>1 DEF Pos
  <2>3. QED
    BY <1>4, <2>1, <2>2
<1>6. t # <<>> /\ Head(t) = PartsOf(1)
  BY <1>4
<1>7. ret \in Before /\ "walk" \notin Before
  BY <1>2 DEF Before
<1>8. \A f \in Fields : Fresh(f) /\ Fresh(f)'
  <2>1. ASSUME NEW f \in Fields PROVE Fresh(f)'
    <3>1. PICK g : g = Stage(f)
      OBVIOUS
    <3>2. g \in 1 .. 4 /\ PartOf(f) \in PartsOf(g)
      BY <3>1, FieldPart
    <3>3. g > 1 \/ g = 1
      BY <3>2
    <3>4. g > Pos' \/ (g = Pos' /\ PartOf(f) \in Head(todo'))
      BY <1>3, <1>5, <1>6, <3>2, <3>3
    <3>5. QED
      BY <1>2, <3>1, <3>4 DEF Fresh
  <2>2. QED
    BY <1>7, <2>1, FreshIs
<1>9. TodoInv'
  <2>1. \A i \in 2 .. n : t[i] = PartsOf(1 + i - 1)
    <3>1. \A i \in 2 .. n : i \in 1 .. n /\ 1 + i - 1 = i
      BY <1>4
    <3>2. QED
      BY <1>4, <3>1
  <2>2. PartsOf(1) # {}
    <3>1. PartsOf(1) = {{"domain"}}
      BY DEF PartsOf
    <3>2. QED
      BY <3>1
  <2>3. n \in 0 .. n
    BY <1>4
  <2>4. QED
    BY <1>2, <1>3, <1>4, <1>5, <1>6, <2>1, <2>2, <2>3 DEF TodoInv
<1>10. ControlInv'
  BY <1>1, <1>2, <1>7 DEF IInv, ControlInv, After
<1>11. Encoded = 0 /\ Encoded' \in Nat
  <2>1. Encoded' = 2 * (5 - n) + (IF todo' # <<>> /\ Head(todo)' \in {{{"ip1"}}, {{"ip2"}}}
                                  THEN 1 ELSE 0)
    BY <1>2, <1>3, <1>4, <1>7 DEF Encoded
  <2>2. PICK e : e = (IF todo' # <<>> /\ Head(todo)' \in {{{"ip1"}}, {{"ip2"}}}
                      THEN 1 ELSE 0)
    OBVIOUS
  <2>3. e \in {0, 1}
    BY <2>2
  <2>4. 2 * (5 - n) + e \in Nat
    BY <1>4, <2>3
  <2>5. QED
    BY <1>7, <2>1, <2>2, <2>4, EncodedIs
<1>12. QED
  BY <1>1, <1>2, <1>8, <1>9, <1>10, <1>11, Quiet

(* The walk is over.                                                       *)
LEMMA EndWalkStep == IInv /\ EndWalk => IInv'
<1>1. SUFFICES ASSUME IInv, EndWalk PROVE IInv'
  OBVIOUS
<1>2. /\ ret = "walk" /\ todo = <<>>
      /\ ret' = IF errs = {} THEN "validate" ELSE "unresolved"
      /\ UNCHANGED <<written, source, slots, text, todo, errs>>
  BY <1>1 DEF EndWalk
<1>3. ret' \in {"validate", "unresolved"} /\ ret \notin Before /\ ret' \notin Before
      /\ ret' # "walk"
  BY <1>2 DEF Before
<1>4. Encoded = 10 /\ Encoded' = 10
  <2>1. Encoded = 10
    BY <1>2, <1>3, EncodedIs
  <2>2. Encoded' = Encoded
    BY <1>2, <1>3 DEF Encoded
  <2>3. QED
    BY <2>1, <2>2
<1>5. \A f \in Fields : ~Fresh(f) /\ ~Fresh(f)'
  <2>1. \A f \in Fields : ~Fresh(f)
    BY <1>2, FreshIs
  <2>2. QED
    BY <1>3, <2>1 DEF Fresh
<1>6. TodoInv'
  BY <1>1, <1>2, <1>3 DEF IInv, TodoInv
<1>7. ControlInv'
  BY <1>1, <1>2, <1>3 DEF IInv, ControlInv, Before, After
<1>8. QED
  BY <1>1, <1>2, <1>4, <1>5, <1>6, <1>7, Quiet

(* Validate changes no text.                                               *)
LEMMA CheckStep == IInv /\ Check => IInv'
<1>1. SUFFICES ASSUME IInv, Check PROVE IInv'
  OBVIOUS
<1>2. /\ ret = "validate" /\ ret' \in {"ok", "invalid"}
      /\ UNCHANGED <<written, source, slots, text, todo, errs>>
  BY <1>1 DEF Check
<1>3. ret \notin Before /\ ret' \notin Before /\ ret # "walk" /\ ret' # "walk"
      /\ todo = <<>>
  BY <1>1, <1>2 DEF Before, IInv, TodoInv
<1>4. Encoded = 10 /\ Encoded' = 10
  <2>1. Encoded = 10
    BY <1>3, EncodedIs
  <2>2. Encoded' = Encoded
    BY <1>2, <1>3 DEF Encoded
  <2>3. QED
    BY <2>1, <2>2
<1>5. \A f \in Fields : ~Fresh(f) /\ ~Fresh(f)'
  BY <1>3 DEF Fresh
<1>6. TodoInv'
  BY <1>1, <1>2, <1>3 DEF IInv, TodoInv
<1>7. ControlInv'
  BY <1>1, <1>2 DEF IInv, ControlInv, After
<1>8. QED
  BY <1>1, <1>2, <1>4, <1>5, <1>6, <1>7, Quiet

(* Nothing happens.                                                        *)
LEMMA LoadedStep == IInv /\ UNCHANGED vars => IInv'
<1>1. SUFFICES ASSUME IInv, UNCHANGED vars PROVE IInv'
  OBVIOUS
<1>2. UNCHANGED <<written, source, slots, text, todo, errs, ret>>
  BY <1>1 DEF vars
<1>3. NStages' = NStages /\ Pos' = Pos /\ Encoded' = Encoded
  BY <1>2 DEF NStages, Pos, Encoded
<1>4. \A f \in Fields : Fresh(f)' <=> Fresh(f)
  BY <1>2, <1>3 DEF Fresh
<1>5. TodoInv'
  BY <1>1, <1>2, <1>3 DEF IInv, TodoInv
<1>6. ControlInv'
  BY <1>1, <1>2 DEF IInv, ControlInv
<1>7. Encoded \in Nat /\ Encoded <= Encoded
  BY <1>1, EncodedIs
<1>8. QED
  BY <1>1, <1>2, <1>3, <1>4, <1>5, <1>6, <1>7, Quiet

(* A step of the walk leaves what a field means.                           *)
LEMMA WalkOwn ==
  ASSUME IInv, NEW part, Walk(part)
  PROVE  /\ \A f \in Fields : Own(f)' = Own(f)
         /\ written["description"] = Absent => text'["description"] = text["description"]
<1>1. written' = written
  BY WalkText DEF Walk
<1>2. "description" \in Fields
  BY DEF Fields
<1>3. ASSUME written["description"] = Absent
      PROVE  text'["description"] = text["description"]
  <2>1. text["description"] \in {Absent, Value("profile", 0)}
    BY <1>3 DEF IInv, TextInv
  <2>2. text["description"].kind = "value"
    BY <2>1, EncodableIs
  <2>3. QED
    BY <1>2, <2>2, WalkText, ExpandedIs
<1>4. \A f \in Fields : Own(f)' = Own(f)
  BY <1>1, <1>3 DEF Own
<1>5. QED
  BY <1>3, <1>4

(* A reference that goes back is read when the field it names is done.      *)
LEMMA WalkMeaning ==
  ASSUME IInv, NEW part, Walk(part), NEW f \in part, GoesBack(f),
         errs = {}, ~Fails(text[f])
  PROVE  text'[f] = Meaning(f)
<1>1. f \in Fields /\ ret = "walk"
  BY AtPart
<1>2. PICK t, o, b : t = text[f] /\ o = Own(f) /\ b = o.base64
  OBVIOUS
<1>3. text'[f] = Expanded(t, text)
  BY <1>1, <1>2, WalkText
<1>4. WrittenInv /\ TextInv /\ MeansInv
  BY DEF IInv
<1>5. CASE ~Fresh(f)
  <2>1. t = Meaning(f) /\ Meaning(f) \in Encodable
    BY <1>1, <1>2, <1>4, <1>5, MeaningIs DEF MeansInv
  <2>2. t.kind = "value"
    BY <2>1, EncodableIs
  <2>3. QED
    BY <1>3, <2>1, <2>2, ExpandedIs
<1>6. CASE Fresh(f)
  <2>1. t = o
    BY <1>1, <1>2, <1>4, <1>6 DEF MeansInv
  <2>2. \/ o \in Encodable
        \/ o \in Placeholder /\ o = written[f]
    BY <1>1, <1>2, <1>4, OwnIs
  <2>3. IsRef(f) <=> o.kind = "ref"
    BY <1>1, <1>2, <1>4, OwnIs
  <2>4. CASE o \in Encodable
    <3>1. o.kind = "value"
      BY <2>4, EncodableIs
    <3>2. Meaning(f) = o
      BY <1>1, <1>2, <1>4, <3>1, MeaningIs
    <3>3. QED
      BY <1>3, <2>1, <3>1, <3>2, ExpandedIs
  <2>5. CASE o \in Placeholder /\ o = written[f] /\ IsRef(f)
    <3>1. o.kind = "ref" /\ o.kind # "value"
      BY <2>3, <2>5
    <3>2. PICK g : g = o.of
      OBVIOUS
    <3>3. g \in Fields
      BY <2>5, <3>1, <3>2, PlaceholderIs
    <3>4. GoesBack(g) /\ Stage(g) < Stage(f)
      BY <1>1, <2>5, <3>2, GoesBackTo
    <3>5. ~Fresh(g)
      <4>1. PICK p, i, j : p = Pos /\ i = Stage(f) /\ j = Stage(g)
        OBVIOUS
      <4>2. p \in 1 .. 5 /\ i \in 1 .. 4 /\ j \in 1 .. 4 /\ j < i /\ (i = p \/ p = 5)
        <5>1. p \in 1 .. 5 /\ part \in PartsOf(p)
          BY <4>1, AtPart
        <5>2. i = p \/ p = 5
          BY <1>1, <4>1, <5>1, FieldPart
        <5>3. i \in 1 .. 4 /\ j \in 1 .. 4
          BY <1>1, <3>3, <4>1, FieldPart
        <5>4. QED
          BY <3>4, <4>1, <5>1, <5>2, <5>3
      <4>3. ~(j > p) /\ j # p
        BY <4>2
      <4>4. ret \notin Before
        BY <1>1 DEF Before
      <4>5. QED
        BY <4>1, <4>3, <4>4 DEF Fresh
    <3>6. text[g] = Meaning(g)
      BY <1>4, <3>3, <3>4, <3>5 DEF MeansInv
    <3>7. Lookup(t, text) = text[g]
      BY <2>1, <2>5, <3>1, <3>2, LookupIs
    <3>8. text'[f] = Base64(text[g], b)
      BY <1>2, <1>3, <2>1, <3>1, <3>7, ExpandedIs
    <3>9. Meaning(f) = Base64(Meaning(g), b)
      BY <1>1, <1>2, <1>4, <2>5, <3>2, MeaningIs
    <3>10. QED
      BY <3>6, <3>8, <3>9
  <2>6. CASE o \in Placeholder /\ ~IsRef(f)
    <3>1. o.kind # "value" /\ o.kind # "ref"
      BY <2>3, <2>6, PlaceholderIs
    <3>2. text'[f] = Base64(Lookup(o, text), b)
      BY <1>2, <1>3, <2>1, <3>1, ExpandedIs
    <3>3. ~Fails(o)
      BY <1>2, <2>1
    <3>4. Lookup(o, text) = Lookup(o, written)
      BY <2>6, <3>1, <3>3, LookupIs
    <3>5. Meaning(f) = Base64(Lookup(o, written), b)
      BY <1>1, <1>2, <1>4, <2>6, <3>1, <3>3, MeaningIs
    <3>6. QED
      BY <3>2, <3>4, <3>5
  <2>7. QED
    BY <2>2, <2>4, <2>5, <2>6
<1>7. QED
  BY <1>5, <1>6

(* A placeholder that has no source is met, and nothing else is an error.   *)
LEMMA WalkMissing ==
  ASSUME IInv, NEW part, Walk(part)
  PROVE  MissInv'
<1>1. /\ written' = written /\ source' = source
      /\ errs' = errs \cup {g \in part : Fails(text[g])} /\ part \subseteq Fields
      /\ "domain" \in Fields
  BY WalkText DEF Fields
<1>2. \A f \in Fields : Missing(f)' <=> Missing(f)
  BY <1>1, WalkOwn, SameMeaning
<1>3. WrittenInv /\ TextInv /\ MeansInv /\ MissInv
  BY DEF IInv
<1>4. ASSUME NEW f \in Fields, Missing(f)
      PROVE  Fresh(f)' \/ f \in errs'
  <2>1. CASE f \in errs
    BY <1>1, <2>1
  <2>2. CASE Fresh(f) /\ f \notin part
    BY <2>2, WalkFresh
  <2>3. CASE Fresh(f) /\ f \in part
    <3>1. written[f].kind # "value"
      BY <1>4 DEF Missing
    <3>2. text[f] = written[f]
      BY <1>3, <2>3, <3>1, OwnIs DEF MeansInv
    <3>3. Fails(text[f])
      BY <1>4, <3>2 DEF Missing, Fails
    <3>4. QED
      BY <1>1, <2>3, <3>3
  <2>4. QED
    BY <1>3, <1>4, <2>1, <2>2, <2>3 DEF MissInv
<1>5. ASSUME errs' # {}
      PROVE  \E f \in Fields : Missing(f)
  <2>1. CASE errs # {}
    BY <1>3, <2>1 DEF MissInv
  <2>2. CASE errs = {}
    <3>1. PICK g \in part : Fails(text[g])
      BY <1>1, <1>5, <2>2
    <3>2. text[g].kind # "value"
      BY <3>1 DEF Fails
    <3>3. PICK f \in Fields : text[g] = written[f]
      BY <1>1, <1>3, <3>2, EncodableIs DEF TextInv
    <3>4. Missing(f)
      BY <3>1, <3>3 DEF Fails, Missing
    <3>5. QED
      BY <3>4
  <2>3. QED
    BY <2>1, <2>2
<1>6. QED
  BY <1>2, <1>4, <1>5 DEF MissInv

(* The stages still to come stay in order.                                 *)
LEMMA WalkTodo ==
  ASSUME IInv, NEW part, Walk(part)
  PROVE  TodoInv'
<1>1. PICK k, l, n, p, q : /\ k = Len(todo) /\ l = Len(todo)' /\ n = NStages
                           /\ p = Pos /\ q = Pos'
  OBVIOUS
<1>2. /\ k \in 1 .. 5 /\ k <= n /\ p \in 1 .. n /\ p \in 1 .. 5 /\ n \in {4, 5}
      /\ Head(todo) \subseteq PartsOf(p) /\ part \in Head(todo) /\ ret = "walk"
  BY <1>1, AtPart, StagesAre
<1>3. ret' = "walk" /\ NStages' = n
  BY <1>1, <1>2 DEF Walk, NStages
<1>4. todo' \in Seq(SUBSET (SUBSET Fields)) /\ l \in 0 .. 5
  BY <1>1, WalkOn
<1>5. \/ /\ Head(todo) = {part} /\ l = k - 1 /\ q = p + 1
         /\ todo' # <<>> => Head(todo)' = PartsOf(p + 1) /\ p < n
         /\ \A i \in 2 .. l : todo'[i] = PartsOf((p + 1) + i - 1)
      \/ /\ Head(todo) # {part} /\ l = k /\ q = p
         /\ todo' # <<>>
         /\ Head(todo)' = Head(todo) \ {part}
         /\ \A i \in 2 .. l : todo'[i] = PartsOf(p + i - 1)
  BY <1>1, WalkOn
<1>6. l \in 0 .. n
  BY <1>2, <1>4, <1>5
<1>7. \A i \in 2 .. l : todo'[i] = PartsOf(q + i - 1)
  BY <1>5
<1>8. \A i : PartsOf(i) # {}
  <2>1. \A i : PartsOf(i) \in {{{"domain"}}, {Tags}, {{"description"}}, {{"ip1"}, {"ip2"}}}
    BY DEF PartsOf
  <2>2. /\ {{"domain"}} # {} /\ {Tags} # {} /\ {{"description"}} # {}
        /\ {{"ip1"}, {"ip2"}} # {}
    OBVIOUS
  <2>3. QED
    BY <2>1, <2>2, Zenon
<1>9. todo' # <<>> => Head(todo)' \subseteq PartsOf(q) /\ Head(todo)' # {}
  BY <1>2, <1>5, <1>8
<1>10. QED
  BY <1>1, <1>3, <1>4, <1>6, <1>7, <1>9 DEF TodoInv

(* Expanding a part.                                                       *)
LEMMA WalkStep ==
  ASSUME IInv, NEW part, Walk(part)
  PROVE  IInv'
<1>1. /\ written' = written /\ source' = source /\ slots' = slots /\ ret' = ret
      /\ errs' = errs \cup {g \in part : Fails(text[g])} /\ part \subseteq Fields
      /\ text' = [f \in Fields |-> text'[f]] /\ ret = "walk"
  <2>1. "domain" \in Fields
    BY DEF Fields
  <2>2. QED
    BY <2>1, WalkText
<1>2. /\ \A f \in Fields : Meaning(f)' = Meaning(f)
      /\ \A f \in Fields : GoesBack(f)' <=> GoesBack(f)
  BY <1>1, WalkOwn, SameMeaning
<1>3. WrittenInv'
  BY <1>1 DEF IInv, WrittenInv
<1>4. TextInv'
  <2>1. \A f \in Fields :
           \/ Plain(text[f], Encoded)'
           \/ text'[f] \in Placeholder /\ \E g \in Fields : text'[f] = written'[g]
    BY <1>1, WalkTextType DEF Plain
  <2>2. written'["description"] = Absent
           => text'["description"] \in {Absent, Value("profile", 0)}
    BY <1>1, WalkOwn DEF IInv, TextInv
  <2>3. QED
    BY <1>1, <2>1, <2>2 DEF TextInv
<1>5. ControlInv'
  BY <1>1 DEF IInv, ControlInv, Before, After
<1>6. MeansInv'
  <2>1. ASSUME NEW f \in Fields, Fresh(f)'
        PROVE  text'[f] = Own(f)'
    <3>1. Fresh(f) /\ f \notin part
      BY <2>1, WalkFresh
    <3>2. text'[f] = text[f] /\ text[f] = Own(f)
      BY <3>1, WalkText DEF IInv, MeansInv
    <3>3. QED
      BY <3>2, WalkOwn
  <2>2. ASSUME NEW f \in Fields, ~Fresh(f)', errs' = {}, GoesBack(f)'
        PROVE  text'[f] = Meaning(f)'
    <3>1. GoesBack(f) /\ errs = {} /\ Meaning(f)' = Meaning(f)
      BY <1>1, <1>2, <2>2
    <3>2. CASE f \in part
      <4>1. ~Fails(text[f])
        BY <1>1, <2>2, <3>2
      <4>2. QED
        BY <3>1, <3>2, <4>1, WalkMeaning
    <3>3. CASE f \notin part
      <4>1. ~Fresh(f)
        BY <2>2, <3>3, WalkFresh
      <4>2. text'[f] = text[f]
        BY <3>3, WalkText
      <4>3. text[f] = Meaning(f)
        BY <3>1, <4>1 DEF IInv, MeansInv
      <4>4. QED
        BY <3>1, <4>2, <4>3
    <3>4. QED
      BY <3>2, <3>3
  <2>3. QED
    BY <2>1, <2>2 DEF MeansInv
<1>7. QED
  BY <1>3, <1>4, <1>5, <1>6, WalkMissing, WalkTodo DEF IInv

-----------------------------------------------------------------------------
(* The theorems.                                                           *)

(* The inductive invariant.                                                *)
THEOREM Invariance == Spec => []IInv
<1>1. IInv /\ [Next]_vars => IInv'
  <2>1. SUFFICES ASSUME IInv, [Next]_vars PROVE IInv'
    OBVIOUS
  <2>2. CASE Read
    BY <2>1, <2>2, ReadStep
  <2>3. CASE StartWalk
    BY <2>1, <2>3, StartWalkStep
  <2>4. CASE EndWalk
    BY <2>1, <2>4, EndWalkStep
  <2>5. CASE Check
    BY <2>1, <2>5, CheckStep
  <2>6. CASE Loaded
    BY <2>1, <2>6, LoadedStep DEF Loaded
  <2>7. CASE \E s \in {"inline", "manifest", "file"} : ResolveRef(s)
    BY <2>1, <2>7, ResolveRefStep
  <2>8. CASE \E part \in {{f} : f \in Fields} \cup {{"tag1", "tag2"}} : Walk(part)
    BY <2>1, <2>8, WalkStep
  <2>9. CASE UNCHANGED vars
    BY <2>1, <2>9, LoadedStep
  <2>10. QED
    BY <2>1, <2>2, <2>3, <2>4, <2>5, <2>6, <2>7, <2>8, <2>9 DEF Next
<1>2. QED
  BY <1>1, InitInv, PTL DEF Spec

(* IInv bounds how often a text can have been encoded.                     *)
LEMMA Typed == IInv => TypeOK
<1>1. SUFFICES ASSUME IInv PROVE TypeOK
  OBVIOUS
<1>2. \A f \in Fields : written[f] \in Text
  <2>1. ASSUME NEW f \in Fields PROVE written[f] \in Text
    <3>1. written[f] \in Placeholder \/ written[f] = Value(f, 0) \/ written[f] = Absent
      BY <1>1 DEF IInv, WrittenInv
    <3>2. Value(f, 0) \in Text /\ Absent \in Text
      BY SixFields DEF Text, Value, Absent, Origin
    <3>3. QED
      BY <3>1, <3>2 DEF Text
  <2>2. QED
    BY <2>1
<1>3. \A f \in Fields : text[f] \in Text
  <2>1. ASSUME NEW f \in Fields PROVE text[f] \in Text
    <3>1. PICK E : E = Encoded
      OBVIOUS
    <3>2. E \in 0 .. 11
      BY <1>1, <3>1, EncodedIs
    <3>3. text[f] \in Placeholder \/ Plain(text[f], E)
      BY <1>1, <3>1 DEF IInv, TextInv
    <3>4. CASE Plain(text[f], E)
      <4>1. PICK v : v = text[f]
        OBVIOUS
      <4>2. /\ v \in [kind : {"value"}, of : Origin, default : {FALSE}, base64 : Nat]
            /\ v.base64 <= E
        BY <3>4, <4>1 DEF Plain
      <4>3. v.base64 \in 0 .. 12
        BY <3>2, <4>2
      <4>4. v \in [kind : {"value"}, of : Origin, default : {FALSE}, base64 : 0 .. 12]
        BY <4>2, <4>3
      <4>5. 2 * Cardinality(Fields) = 12
        BY SixFields
      <4>6. QED
        BY <4>1, <4>4, <4>5 DEF Text
    <3>5. QED
      BY <3>3, <3>4 DEF Text
  <2>2. QED
    BY <2>1
<1>4. written \in [Fields -> Text] /\ text \in [Fields -> Text]
  BY <1>1, <1>2, <1>3 DEF IInv, WrittenInv, TextInv
<1>5. slots \in BoundedSeq({"inline", "manifest", "file"}, NSlots)
  <2>1. slots \in Seq({"inline", "manifest", "file"}) /\ Len(slots) <= NSlots
    BY <1>1 DEF IInv, ControlInv
  <2>2. PICK n : n = Len(slots)
    OBVIOUS
  <2>3. n \in Nat /\ n <= NSlots /\ NSlots \in Nat
    BY <2>1, <2>2, ConfigAssumption
  <2>4. n \in 0 .. NSlots
    BY <2>3
  <2>5. slots \in [1 .. n -> {"inline", "manifest", "file"}]
    BY <2>1, <2>2
  <2>6. QED
    BY <2>4, <2>5 DEF BoundedSeq, SeqOf
<1>6. Len(todo) <= 5
  <2>1. PICK k, n : k = Len(todo) /\ n = NStages
    OBVIOUS
  <2>2. CASE ret = "walk"
    <3>1. k \in 0 .. n /\ n \in {4, 5}
      BY <1>1, <2>1, <2>2, StagesAre DEF IInv, TodoInv
    <3>2. QED
      BY <2>1, <3>1
  <2>3. CASE ret # "walk"
    BY <1>1, <2>3 DEF IInv, TodoInv
  <2>4. QED
    BY <2>2, <2>3
<1>7. QED
  BY <1>1, <1>4, <1>5, <1>6 DEF IInv, TodoInv, ControlInv, Before, After, TypeOK

(* A loaded manifest has no fresh field.                                   *)
LEMMA Means == IInv => ExpandsToMeaning
<1>1. SUFFICES ASSUME IInv, ret \in {"ok", "invalid"}, NEW f \in Fields, GoesBack(f)
               PROVE  text[f] = Meaning(f)
  BY DEF ExpandsToMeaning
<1>2. ret \notin Before /\ ret # "walk" /\ errs = {}
  BY <1>1 DEF IInv, ControlInv, Before, After
<1>3. ~Fresh(f)
  BY <1>2, FreshIs
<1>4. QED
  BY <1>1, <1>2, <1>3 DEF IInv, MeansInv

(* An error of the walk is a missing source or key, and each is an error.  *)
LEMMA Reported == IInv => MissingIsReported
<1>1. SUFFICES ASSUME IInv PROVE MissingIsReported
  OBVIOUS
<1>2. PICK M : M = {f \in Fields : Missing(f)}
  OBVIOUS
<1>3. M = {f \in Fields : \/ written[f].kind = "badref"
                          \/ /\ written[f].kind \in {"env", "file"}
                             /\ ~Found(written[f]) /\ ~written[f].default}
  BY <1>2 DEF Missing
<1>4. ASSUME ret = "unresolved" PROVE M # {} /\ M \subseteq errs
  <2>1. errs # {} /\ ret \notin Before /\ ret # "walk"
    BY <1>1, <1>4 DEF IInv, ControlInv, Before
  <2>2. QED
    BY <1>1, <1>2, <2>1, FreshIs DEF IInv, MissInv
<1>5. ASSUME ret \in {"ok", "invalid"} PROVE M = {}
  <2>1. errs = {} /\ ret \notin Before /\ ret # "walk"
    BY <1>1, <1>5 DEF IInv, ControlInv, Before, After
  <2>2. QED
    BY <1>1, <1>2, <2>1, FreshIs DEF IInv, MissInv
<1>6. QED
  BY <1>3, <1>4, <1>5 DEF MissingIsReported

(* Type correctness of Load's state: no text is ever encoded more often    *)
(* than the walk has places for, whatever the manifest.                    *)
THEOREM TypeCorrect == Spec => []TypeOK
BY Invariance, Typed, PTL

(* A manifest that loads has, in every field whose references all go to     *)
(* earlier parts of the env, the value at the end of the chain, encoded by  *)
(* each filter on the way once (pkg/config/resolver.go).                    *)
THEOREM MeaningGiven == Spec => []ExpandsToMeaning
BY Invariance, Means, PTL

(* Load reports every placeholder that has neither a source nor a default,  *)
(* and every reference whose path names no key, and fails over              *)
(* placeholders for no other reason.                                        *)
THEOREM MissingReported == Spec => []MissingIsReported
BY Invariance, Reported, PTL
=============================================================================
