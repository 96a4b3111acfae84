----------------------------- MODULE TraceProofs -----------------------------
(***************************************************************************)
(* For every number of records: Trace is well typed, what Sync reported is *)
(* in the durable part of the file, whole, and what a reader makes of the  *)
(* file: its records are a chain, the promises of an untorn file are kept, *)
(* and what was synced and can be read stays readable.                     *)
(***************************************************************************)
EXTENDS Trace, Integers, TLAPS, WellFoundedInduction, SequenceTheorems

(* The pieces of the records written so far.                               *)
PieceOf(n) == {Newline} \cup ((1 .. n) \X {"head", "rest"})

Verdict == {"refused", "buffered", "flushed", "synced", "lost"}

TypeInv ==
    /\ link \in Seq(0 .. MaxRecords) /\ Len(link) <= MaxRecords
    /\ promise \in Seq(Verdict) /\ Len(promise) = Len(link)
    /\ file \in Seq(PieceOf(Len(link))) /\ buf \in Seq(PieceOf(Len(link)))
    /\ durable \in 0 .. Len(file)
    /\ prev \in 0 .. Len(link)
    /\ writer \in {"none", "open", "failed"} /\ torn \in BOOLEAN

(* The line of record r is among the first n pieces of f, in one piece.    *)
Whole(f, n, r) == \E i \in 1 .. n - 2 : LineAt(f, i, r)

(* How far the line of each record has come.  A failed writer has lost its *)
(* buffer, a closed one has told the fate of every record.                 *)
Durability ==
    \A r \in Records :
        /\ promise[r] = "synced" => Whole(file, durable, r)
        /\ promise[r] = "flushed" => Whole(file, Len(file), r)
        /\ promise[r] = "buffered" =>
              /\ writer # "none"
              /\ writer = "open" => Whole(file \o buf, Len(file) + Len(buf), r)

IInv == TypeInv /\ Durability

-----------------------------------------------------------------------------
(* Sequences.                                                              *)
LEMMA Grows ==
  ASSUME NEW n \in Nat, NEW s \in Seq(PieceOf(n))
  PROVE  s \in Seq(PieceOf(n + 1))
<1>1. PieceOf(n) \subseteq PieceOf(n + 1)
  BY DEF PieceOf
<1>2. QED
  BY <1>1

LEMMA Cut ==
  ASSUME NEW S, NEW s \in Seq(S), NEW k \in 0 .. Len(s)
  PROVE  /\ SubSeq(s, 1, k) \in Seq(S) /\ Len(SubSeq(s, 1, k)) = k
         /\ SubSeq(s, k + 1, Len(s)) \in Seq(S)
         /\ Len(SubSeq(s, k + 1, Len(s))) = Len(s) - k
         /\ \A i \in 1 .. k : SubSeq(s, 1, k)[i] = s[i]
         /\ \A i \in 1 .. Len(s) - k : SubSeq(s, k + 1, Len(s))[i] = s[k + i]
OBVIOUS

LEMMA Join ==
  ASSUME NEW S, NEW s \in Seq(S), NEW t \in Seq(S)
  PROVE  /\ s \o t \in Seq(S) /\ Len(s \o t) = Len(s) + Len(t)
         /\ \A i \in 1 .. Len(s) : (s \o t)[i] = s[i]
         /\ \A i \in 1 .. Len(t) : (s \o t)[Len(s) + i] = t[i]
OBVIOUS

(* A line stays where it is when the sequence grows behind it, or is cut   *)
(* there.                                                                  *)
LEMMA Stays ==
  ASSUME NEW f, NEW g, NEW n \in Nat, NEW m \in Nat, n <= m, NEW r,
         \A i \in 1 .. n : g[i] = f[i], Whole(f, n, r)
  PROVE  Whole(g, m, r)
<1>1. PICK i \in 1 .. n - 2 : LineAt(f, i, r)
  BY DEF Whole
<1>2. i \in 1 .. m - 2 /\ i \in 1 .. n /\ i + 1 \in 1 .. n /\ i + 2 \in 1 .. n
  OBVIOUS
<1>3. LineAt(g, i, r)
  BY <1>1, <1>2 DEF LineAt
<1>4. QED
  BY <1>2, <1>3 DEF Whole

(* The line a Write appends.                                               *)
LEMMA LinePieces ==
  ASSUME NEW r \in Nat \ {0}
  PROVE  /\ Line(r) \in Seq(PieceOf(r)) /\ Len(Line(r)) = 3
         /\ Line(r)[1] = <<r, "head">> /\ Line(r)[2] = <<r, "rest">>
         /\ Line(r)[3] = Newline
<1>1. <<r, "head">> \in PieceOf(r) /\ <<r, "rest">> \in PieceOf(r) /\ Newline \in PieceOf(r)
  BY DEF PieceOf
<1>2. QED
  BY <1>1 DEF Line

(* What the buffer spills moves from one sequence to the other.            *)
LEMMA Spilled ==
  ASSUME NEW S, NEW f \in Seq(S), NEW p \in Seq(S), NEW k \in 0 .. Len(p)
  PROVE  (f \o SubSeq(p, 1, k)) \o SubSeq(p, k + 1, Len(p)) = f \o p
<1>1. PICK a : a = SubSeq(p, 1, k)
  OBVIOUS
<1>2. PICK b : b = SubSeq(p, k + 1, Len(p))
  OBVIOUS
<1>3. a \in Seq(S) /\ b \in Seq(S)
  BY <1>1, <1>2, Cut
<1>4. (f \o a) \o b = f \o (a \o b)
  BY <1>3, ConcatAssociative, SMTT(20)
<1>5. a \o b = p
  <2>1. a \o b = SubSeq(p, 1, Len(p))
    <3>1. /\ 1 \in 1 .. Len(p) + 1 /\ k \in 1 - 1 .. Len(p)
          /\ Len(p) \in k .. Len(p)
      OBVIOUS
    <3>2. SubSeq(p, 1, k) \o SubSeq(p, k + 1, Len(p)) = SubSeq(p, 1, Len(p))
      BY <3>1, ConcatAdjacentSubSeq, Zenon
    <3>3. QED
      BY <1>1, <1>2, <3>2
  <2>2. QED
    BY <2>1, SubSeqFull
<1>6. QED
  BY <1>1, <1>2, <1>4, <1>5

LEMMA PromisedType ==
  ASSUME TypeInv, NEW from, NEW to \in Verdict
  PROVE  /\ Promised(from, to) \in Seq(Verdict)
         /\ Len(Promised(from, to)) = Len(link)
         /\ \A r \in Records :
               Promised(from, to)[r] = IF promise[r] \in from THEN to ELSE promise[r]
<1>1. Len(link) \in Nat /\ \A r \in Records : promise[r] \in Verdict
  BY DEF TypeInv, Records
<1>2. QED
  BY <1>1 DEF Promised, Records

-----------------------------------------------------------------------------
(* Reading the last record back: the last newline before the end exists.   *)
LEMMA Greatest ==
  ASSUME NEW n \in Nat, NEW T, T \subseteq 0 .. n, T # {}
  PROVE  \E x \in T : \A y \in T : y <= x
<1> DEFINE D == {n - y : y \in T}
<1>1. D \subseteq Nat /\ D # {}
  <2>1. \A y \in T : n - y \in Nat
    OBVIOUS
  <2>2. QED
    BY <2>1
<1>2. PICK d \in D : \A y \in D : ~ (<<y, d>> \in OpToRel(<, Nat))
  BY <1>1, NatLessThanWellFounded, WFMin
<1>3. \A y \in D : y \in Nat /\ d \in Nat /\ ~(y < d)
  BY <1>1, <1>2 DEF OpToRel
<1>4. PICK x \in T : d = n - x
  OBVIOUS
<1>5. ASSUME NEW y \in T
      PROVE  y <= x
  <2>1. ~(n - y < n - x)
    BY <1>3, <1>4
  <2>2. QED
    BY <2>1
<1>6. QED
  BY <1>5

(* The last line of a file: what follows its last newline but one.         *)
LEMMA LastLineIs ==
  ASSUME NEW n \in Nat, NEW f \in Seq(PieceOf(n)), NEW end,
         end = IF EndsInNewline(f) /\ f # <<>> THEN Len(f) - 1 ELSE Len(f)
  PROVE  /\ end \in 0 .. Len(f)
         /\ \E i \in 0 .. end : /\ i = 0 \/ f[i] = Newline
                                /\ \A j \in i + 1 .. end : f[j] # Newline
                                /\ LastLine(f) = SubSeq(f, i + 1, end)
<1> DEFINE C(i)  == /\ i = 0 \/ f[i] = Newline
                    /\ \A j \in i + 1 .. end : f[j] # Newline
           start == CHOOSE i \in 0 .. end : C(i)
<1>1. end \in 0 .. Len(f)
  <2>1. f # <<>> => Len(f) > 0
    OBVIOUS
  <2>2. QED
    BY <2>1
<1>2. \E i \in 0 .. end : C(i)
  <2> DEFINE T == {0} \cup {i \in 1 .. end : f[i] = Newline}
  <2>1. T \subseteq 0 .. end /\ T # {} /\ end \in Nat
    BY <1>1
  <2> HIDE DEF T
  <2>2. PICK x \in T : \A y \in T : y <= x
    BY <2>1, Greatest
  <2>3. C(x)
    BY <1>1, <2>1, <2>2 DEF T
  <2>4. QED
    BY <2>1, <2>3
<1>3. LastLine(f) = SubSeq(f, start + 1, end)
  BY DEF LastLine
<1> HIDE DEF C
<1>4. start \in 0 .. end /\ C(start)
  BY <1>2
<1> HIDE DEF start
<1>5. QED
  BY <1>1, <1>3, <1>4 DEF C

LEMMA LastLineType ==
  ASSUME NEW n \in Nat, NEW f \in Seq(PieceOf(n)), IsRecord(LastLine(f))
  PROVE  LastLine(f)[1][1] \in 1 .. n
<1>1. PICK end : end = IF EndsInNewline(f) /\ f # <<>> THEN Len(f) - 1 ELSE Len(f)
  OBVIOUS
<1>2. PICK i \in 0 .. end : LastLine(f) = SubSeq(f, i + 1, end)
  BY <1>1, LastLineIs, ZenonT(30)
<1>3. end \in 0 .. Len(f)
  BY <1>1, LastLineIs
<1>4. /\ Len(LastLine(f)) = 2 /\ LastLine(f)[1][2] = "head"
  BY DEF IsRecord
<1>5. LastLine(f)[1] \in PieceOf(n)
  <2>1. LastLine(f) \in Seq(PieceOf(n))
    BY <1>2, <1>3
  <2>2. 1 \in 1 .. Len(LastLine(f))
    BY <1>4
  <2>3. QED
    BY <2>1, <2>2, ElementOfSeq
<1>6. QED
  BY <1>4, <1>5 DEF PieceOf, Newline

-----------------------------------------------------------------------------
(* The steps.                                                              *)
LEMMA SpillType ==
  ASSUME NEW n \in Nat, file \in Seq(PieceOf(n)), NEW p \in Seq(PieceOf(n)),
         NEW k \in 0 .. Len(p)
  PROVE  /\ file \o SubSeq(p, 1, k) \in Seq(PieceOf(n))
         /\ Len(file) <= Len(file \o SubSeq(p, 1, k))
         /\ SubSeq(p, k + 1, Len(p)) \in Seq(PieceOf(n))
         /\ \A i \in 1 .. Len(file) : (file \o SubSeq(p, 1, k))[i] = file[i]
<1>1. PICK a : a = SubSeq(p, 1, k)
  OBVIOUS
<1>2. a \in Seq(PieceOf(n)) /\ SubSeq(p, k + 1, Len(p)) \in Seq(PieceOf(n))
  BY <1>1, Cut
<1>3. /\ file \o a \in Seq(PieceOf(n)) /\ Len(file \o a) = Len(file) + Len(a)
      /\ \A i \in 1 .. Len(file) : (file \o a)[i] = file[i]
  BY <1>2, Join
<1>4. QED
  BY <1>1, <1>2, <1>3

LEMMA AllGrows ==
  ASSUME TypeInv, NEW p \in Seq(PieceOf(Len(link)))
  PROVE  /\ file \o p \in Seq(PieceOf(Len(link)))
         /\ Len(file \o p) = Len(file) + Len(p)
         /\ \A i \in 1 .. Len(file) : (file \o p)[i] = file[i]
BY Join DEF TypeInv

(* The record of a Write, and the pieces it brings.                        *)
LEMMA NextLine ==
  ASSUME TypeInv, NEW r, r = Len(link) + 1
  PROVE  /\ r \in Nat \ {0} /\ PieceOf(Len(link)) \subseteq PieceOf(r)
         /\ file \in Seq(PieceOf(r)) /\ buf \in Seq(PieceOf(r))
         /\ Line(r) \in Seq(PieceOf(r)) /\ Len(Line(r)) = 3
         /\ buf \o Line(r) \in Seq(PieceOf(r))
         /\ Len(buf \o Line(r)) = Len(buf) + 3
<1>1. Len(link) \in Nat /\ r \in Nat \ {0}
  BY DEF TypeInv
<1>2. Line(r) \in Seq(PieceOf(r)) /\ Len(Line(r)) = 3
  BY <1>1, LinePieces
<1>3. file \in Seq(PieceOf(r)) /\ buf \in Seq(PieceOf(r))
  BY <1>1, Grows DEF TypeInv
<1>4. buf \o Line(r) \in Seq(PieceOf(r)) /\ Len(buf \o Line(r)) = Len(buf) + Len(Line(r))
  BY <1>2, <1>3, Join
<1>5. PieceOf(Len(link)) \subseteq PieceOf(r)
  BY <1>1 DEF PieceOf
<1>6. QED
  BY <1>1, <1>2, <1>3, <1>4, <1>5

LEMMA StepTypes ==
  ASSUME TypeInv, [Next]_vars
  PROVE  TypeInv'
<1>0. Len(link) \in Nat /\ Len(promise) = Len(link) /\ Len(file) \in Nat /\ Len(buf) \in Nat
  BY DEF TypeInv
<1>1. CASE Open
  <2>1. IsRecord(LastLine(file)) => LastLine(file)[1][1] \in 1 .. Len(link)
    BY <1>0, LastLineType DEF TypeInv
  <2>2. prev' \in 0 .. Len(link)
    BY <1>0, <1>1, <2>1 DEF Open, NoHash
  <2>3. QED
    BY <1>1, <2>2 DEF Open, TypeInv
<1>2. CASE Write
  <2> DEFINE r == Len(link) + 1
  <2>1. PICK k \in 0 .. Len(buf \o Line(r)) :
           /\ file' = file \o SubSeq(buf \o Line(r), 1, k)
           /\ buf' = SubSeq(buf \o Line(r), k + 1, Len(buf \o Line(r)))
    BY <1>2 DEF Write, Spill
  <2>2. link' \in Seq(0 .. MaxRecords) /\ Len(link') = r /\ Len(link') <= MaxRecords
    BY <1>0, <1>2, MaxRecordsAssumption DEF Write, TypeInv
  <2>3. promise' \in Seq(Verdict) /\ Len(promise') = r
    BY <1>0, <1>2 DEF Write, TypeInv, Verdict
  <2>4. /\ file' \in Seq(PieceOf(r)) /\ buf' \in Seq(PieceOf(r))
        /\ Len(file) <= Len(file')
    BY <1>0, <2>1, NextLine, SpillType
  <2>5. /\ durable' = durable /\ writer' = writer /\ torn' = torn /\ prev' = r
    BY <1>2 DEF Write
  <2>6. durable' \in 0 .. Len(file') /\ prev' \in 0 .. Len(link')
    BY <1>0, <2>2, <2>4, <2>5 DEF TypeInv
  <2>7. QED
    BY <2>2, <2>3, <2>4, <2>5, <2>6 DEF TypeInv
<1>3. CASE WriteFails
  <2> DEFINE r == Len(link) + 1
  <2>1. PICK k \in 0 .. Len(buf \o Line(r)) - 1 :
           file' = file \o SubSeq(buf \o Line(r), 1, k)
    BY <1>3 DEF WriteFails, FlushFails
  <2>2. link' \in Seq(0 .. MaxRecords) /\ Len(link') = r /\ Len(link') <= MaxRecords
    BY <1>0, <1>3, MaxRecordsAssumption DEF WriteFails, TypeInv
  <2>3. promise' \in Seq(Verdict) /\ Len(promise') = r
    BY <1>0, <1>3 DEF WriteFails, TypeInv, Verdict
  <2>4. file' \in Seq(PieceOf(r)) /\ Len(file) <= Len(file')
    <3>1. k \in 0 .. Len(buf \o Line(r))
      BY <1>0, <2>1, NextLine
    <3>2. QED
      BY <1>0, <2>1, <3>1, NextLine, SpillType
  <2>5. /\ durable' = durable /\ writer' = "failed" /\ torn' = torn /\ prev' = prev
        /\ buf' = <<>>
    BY <1>3 DEF WriteFails, FlushFails
  <2>6. durable' \in 0 .. Len(file') /\ prev' \in 0 .. Len(link')
    BY <1>0, <2>2, <2>4, <2>5 DEF TypeInv
  <2>7. QED
    BY <2>2, <2>3, <2>4, <2>5, <2>6 DEF TypeInv
<1>4. CASE Sync \/ Close
  <2>1. file' = file \o buf /\ buf' = <<>> /\ link' = link /\ prev' = prev /\ torn' = torn
    BY <1>4 DEF Sync, Close
  <2>2. file' \in Seq(PieceOf(Len(link))) /\ Len(file) <= Len(file')
    BY <1>0, <2>1, AllGrows DEF TypeInv
  <2>3. durable' \in 0 .. Len(file') /\ writer' \in {"none", "open"}
    BY <1>0, <1>4, <2>2 DEF Sync, Close, TypeInv
  <2>4. promise' \in Seq(Verdict) /\ Len(promise') = Len(link)
    BY <1>4, PromisedType DEF Sync, Close, Verdict
  <2>5. QED
    BY <2>1, <2>2, <2>3, <2>4 DEF TypeInv
<1>5. CASE SyncFails \/ CloseFails
  <2>1. \E k \in 0 .. Len(buf) : file' = file \o SubSeq(buf, 1, k)
    <3>1. CASE SyncFails /\ file' = file \o buf
      <4>1. SubSeq(buf, 1, Len(buf)) = buf
        BY SubSeqFull DEF TypeInv
      <4>2. Len(buf) \in 0 .. Len(buf) /\ file' = file \o SubSeq(buf, 1, Len(buf))
        BY <1>0, <3>1, <4>1
      <4>3. QED
        BY <4>2
    <3>2. CASE SyncFails /\ FlushFails(buf)
      <4>1. PICK k \in 0 .. Len(buf) - 1 : file' = file \o SubSeq(buf, 1, k)
        BY <3>2 DEF FlushFails
      <4>2. k \in 0 .. Len(buf)
        BY <1>0
      <4>3. QED
        BY <4>1, <4>2
    <3>3. CASE CloseFails
      BY <3>3 DEF CloseFails
    <3>4. QED
      BY <1>5, <3>1, <3>2, <3>3 DEF SyncFails
  <2>2. file' \in Seq(PieceOf(Len(link))) /\ Len(file) <= Len(file')
    BY <1>0, <2>1, SpillType DEF TypeInv
  <2>3. /\ buf' = <<>> /\ link' = link /\ prev' = prev /\ torn' = torn
        /\ durable' = durable /\ writer' \in {"none", "open", "failed"}
    BY <1>5 DEF SyncFails, CloseFails, FlushFails, TypeInv
  <2>4. promise' \in Seq(Verdict) /\ Len(promise') = Len(link)
    BY <1>5, PromisedType DEF SyncFails, CloseFails, Verdict, TypeInv
  <2>5. durable' \in 0 .. Len(file')
    BY <1>0, <2>2, <2>3 DEF TypeInv
  <2>6. QED
    BY <2>2, <2>3, <2>4, <2>5 DEF TypeInv
<1>6. CASE Crash \/ PowerLoss
  <2>1. \E k \in durable .. Len(file) :
           file' = SubSeq(file, 1, k) /\ durable' \in {durable, k} /\ durable' <= k
    <3>1. CASE Crash
      <4>1. SubSeq(file, 1, Len(file)) = file
        BY SubSeqFull DEF TypeInv
      <4>2. Len(file) \in durable .. Len(file) /\ durable <= Len(file)
        BY <1>0 DEF TypeInv
      <4>3. file' = SubSeq(file, 1, Len(file)) /\ durable' = durable
        BY <3>1, <4>1 DEF Crash
      <4>4. QED
        BY <4>2, <4>3
    <3>2. CASE PowerLoss
      BY <1>0, <3>2 DEF PowerLoss, TypeInv
    <3>3. QED
      BY <1>6, <3>1, <3>2
  <2>2. file' \in Seq(PieceOf(Len(link))) /\ durable' \in 0 .. Len(file')
    <3>1. PICK k \in durable .. Len(file) :
             file' = SubSeq(file, 1, k) /\ durable' \in {durable, k} /\ durable' <= k
      BY <2>1
    <3>2. k \in 0 .. Len(file)
      BY <1>0 DEF TypeInv
    <3>3. file' \in Seq(PieceOf(Len(link))) /\ Len(file') = k
      BY <3>1, <3>2, Cut DEF TypeInv
    <3>4. QED
      BY <1>0, <3>1, <3>2, <3>3 DEF TypeInv
  <2>3. buf' = <<>> /\ writer' = "none" /\ link' = link /\ prev' = prev /\ torn' = torn
    BY <1>6 DEF Crash, PowerLoss
  <2>4. promise' \in Seq(Verdict) /\ Len(promise') = Len(link)
    BY <1>6, PromisedType DEF Crash, PowerLoss, Verdict
  <2>5. QED
    BY <2>2, <2>3, <2>4 DEF TypeInv
<1>7. CASE UNCHANGED vars
  BY <1>7 DEF vars, TypeInv
<1>8. QED
  BY <1>1, <1>2, <1>3, <1>4, <1>5, <1>6, <1>7 DEF Next

(* What is written stays written when the file grows.                      *)
LEMMA Written ==
  ASSUME IInv, NEW r \in Records, NEW f, NEW d \in Nat, Len(f) \in Nat,
         Len(file) <= Len(f), \A i \in 1 .. Len(file) : f[i] = file[i], durable <= d
  PROVE  /\ promise[r] = "synced" => Whole(f, d, r)
         /\ promise[r] = "flushed" => Whole(f, Len(f), r)
<1>1. /\ durable \in Nat /\ Len(file) \in Nat /\ durable <= Len(file)
      /\ promise[r] = "synced" => Whole(file, durable, r)
      /\ promise[r] = "flushed" => Whole(file, Len(file), r)
  BY DEF IInv, TypeInv, Durability
<1>2. \A i \in 1 .. durable : f[i] = file[i]
  BY <1>1
<1>3. QED
  BY <1>1, <1>2, Stays

(* With the buffer, everything is written.                                 *)
LEMMA Everything ==
  ASSUME IInv, writer = "open", NEW r \in Records,
         promise[r] \in {"buffered", "flushed", "synced"}
  PROVE  Whole(file \o buf, Len(file \o buf), r)
<1>1. /\ Len(file) \in Nat /\ Len(buf) \in Nat /\ Len(file \o buf) = Len(file) + Len(buf)
      /\ \A i \in 1 .. Len(file) : (file \o buf)[i] = file[i]
      /\ durable \in Nat /\ durable <= Len(file)
  BY AllGrows DEF IInv, TypeInv
<1>2. CASE promise[r] = "buffered"
  BY <1>1, <1>2 DEF IInv, Durability
<1>3. CASE promise[r] # "buffered"
  <2>1. Len(file \o buf) \in Nat /\ Len(file) <= Len(file \o buf)
        /\ durable <= Len(file \o buf)
    BY <1>1
  <2>2. QED
    BY <1>1, <1>3, <2>1, Written
<1>4. QED
  BY <1>2, <1>3

LEMMA StepDurable ==
  ASSUME IInv, [Next]_vars
  PROVE  Durability'
<1>0. /\ TypeInv /\ TypeInv' /\ Len(link) \in Nat /\ Len(file) \in Nat /\ Len(file') \in Nat
      /\ durable \in Nat /\ durable <= Len(file) /\ Len(promise) = Len(link)
      /\ Len(buf) \in Nat
  BY StepTypes DEF IInv, TypeInv
<1>1. CASE Open \/ UNCHANGED vars
  <2>1. UNCHANGED <<file, durable, buf, link, promise>>
    BY <1>1 DEF Open, vars
  <2>2. writer' = writer \/ (writer = "none" /\ writer' = "open")
    BY <1>1 DEF Open, vars
  <2>3. QED
    BY <2>1, <2>2 DEF IInv, Durability, Records
<1>2. CASE Write
  <2>0. PICK n : n = Len(link) + 1
    OBVIOUS
  <2>1. PICK k \in 0 .. Len(buf \o Line(n)) :
           /\ file' = file \o SubSeq(buf \o Line(n), 1, k)
           /\ buf' = SubSeq(buf \o Line(n), k + 1, Len(buf \o Line(n)))
    BY <1>2, <2>0 DEF Write, Spill
  <2>2. PICK L : L = Line(n)
    OBVIOUS
  <2>3. /\ n \in Nat \ {0} /\ file \in Seq(PieceOf(n)) /\ buf \in Seq(PieceOf(n))
        /\ L \in Seq(PieceOf(n)) /\ Len(L) = 3 /\ buf \o L \in Seq(PieceOf(n))
        /\ L[1] = <<n, "head">> /\ L[2] = <<n, "rest">> /\ L[3] = Newline
    BY <1>0, <2>0, <2>2, NextLine, LinePieces
  <2>4. /\ Len(file) <= Len(file') /\ \A i \in 1 .. Len(file) : file'[i] = file[i]
    BY <2>1, <2>2, <2>3, SpillType
  <2>5. PICK g : g = file \o buf
    OBVIOUS
  <2>6. PICK h : h = g \o L
    OBVIOUS
  <2>7. g \in Seq(PieceOf(n)) /\ Len(g) = Len(file) + Len(buf)
    BY <2>3, <2>5, Join
  <2>8. /\ Len(h) = Len(g) + 3
        /\ \A i \in 1 .. Len(g) : h[i] = g[i]
        /\ \A i \in 1 .. 3 : h[Len(g) + i] = L[i]
    <3>1. PICK S : S = PieceOf(n)
      OBVIOUS
    <3>2. g \in Seq(S) /\ L \in Seq(S)
      BY <2>3, <2>7, <3>1
    <3>3. /\ Len(g \o L) = Len(g) + Len(L)
          /\ \A i \in 1 .. Len(g) : (g \o L)[i] = g[i]
          /\ \A i \in 1 .. Len(L) : (g \o L)[Len(g) + i] = L[i]
      BY <3>2, Join
    <3>4. QED
      BY <2>3, <2>6, <3>3
  <2>9. file' \o buf' = h /\ Len(file') + Len(buf') = Len(h)
    <3>1. file' \o buf' = file \o (buf \o L)
      BY <2>1, <2>2, <2>3, Spilled, ZenonT(30)
    <3>2. (file \o buf) \o L = file \o (buf \o L)
      <4>1. PICK S : S = PieceOf(n)
        OBVIOUS
      <4>2. file \in Seq(S) /\ buf \in Seq(S) /\ L \in Seq(S)
        BY <2>3, <4>1
      <4>3. QED
        BY <4>2, ConcatAssociative
    <3>3. Len(file' \o buf') = Len(file') + Len(buf')
      BY <1>0, Join DEF TypeInv
    <3>4. QED
      BY <2>5, <2>6, <3>1, <3>2, <3>3
  <2>10. /\ writer = "open" /\ writer' = "open" /\ durable' = durable
         /\ link' = Append(link, prev) /\ promise' = Append(promise, "buffered")
    BY <1>2 DEF Write
  <2>11. /\ Records' = 1 .. n /\ promise'[n] = "buffered"
         /\ \A r \in Records : promise'[r] = promise[r]
    BY <1>0, <2>0, <2>10 DEF Records, TypeInv
  <2>12. ASSUME NEW r \in Records
         PROVE  /\ promise[r] = "synced" => Whole(file', durable', r)
                /\ promise[r] = "flushed" => Whole(file', Len(file'), r)
                /\ promise[r] = "buffered"
                   => Whole(file' \o buf', Len(file') + Len(buf'), r)
    <3>1. promise[r] = "buffered" => Whole(g, Len(g), r)
      BY <2>5, <2>10, Everything
    <3>2. Len(g) \in Nat /\ Len(h) \in Nat /\ Len(g) <= Len(h)
      BY <1>0, <2>7, <2>8
    <3>3. promise[r] = "buffered" => Whole(h, Len(h), r)
      BY <2>8, <3>1, <3>2, Stays
    <3>4. durable' \in Nat /\ durable <= durable'
      BY <1>0, <2>10
    <3>5. /\ promise[r] = "synced" => Whole(file', durable', r)
          /\ promise[r] = "flushed" => Whole(file', Len(file'), r)
      BY <1>0, <2>4, <3>4, Written
    <3>6. QED
      BY <2>9, <3>3, <3>5
  <2>13. Whole(file' \o buf', Len(file') + Len(buf'), n)
    <3>1. Len(g) \in Nat /\ Len(g) + 1 \in 1 .. Len(h) - 2
      BY <1>0, <2>7, <2>8
    <3>2. LineAt(h, Len(g) + 1, n)
      <4>1. h[Len(g) + 1] = L[1] /\ h[Len(g) + 2] = L[2] /\ h[Len(g) + 3] = L[3]
        BY <2>8
      <4>2. Len(g) + 1 + 1 = Len(g) + 2 /\ Len(g) + 1 + 2 = Len(g) + 3
        BY <3>1
      <4>3. QED
        BY <2>3, <4>1, <4>2 DEF LineAt
    <3>3. QED
      BY <2>9, <3>1, <3>2 DEF Whole
  <2>14. ASSUME NEW r \in Records'
         PROVE  /\ promise'[r] = "synced" => Whole(file', durable', r)
                /\ promise'[r] = "flushed" => Whole(file', Len(file'), r)
                /\ promise'[r] = "buffered"
                   => Whole(file' \o buf', Len(file') + Len(buf'), r)
    <3>1. r \in Records \/ r = n
      BY <1>0, <2>0, <2>11 DEF Records
    <3>2. QED
      BY <2>11, <2>12, <2>13, <3>1
  <2>15. QED
    BY <2>10, <2>14 DEF Durability, Records
<1>3. CASE WriteFails
  <2>0. PICK n : n = Len(link) + 1
    OBVIOUS
  <2>1. PICK p : p = buf \o Line(n)
    OBVIOUS
  <2>2. n \in Nat /\ file \in Seq(PieceOf(n)) /\ p \in Seq(PieceOf(n)) /\ Len(p) \in Nat
    BY <1>0, <2>0, <2>1, NextLine
  <2>3. PICK k \in 0 .. Len(p) - 1 : file' = file \o SubSeq(p, 1, k)
    BY <1>3, <2>0, <2>1 DEF WriteFails, FlushFails
  <2>4. Len(file) <= Len(file') /\ \A i \in 1 .. Len(file) : file'[i] = file[i]
    <3>1. k \in 0 .. Len(p)
      BY <2>2
    <3>2. QED
      BY <2>2, <2>3, <3>1, SpillType
  <2>5. /\ writer' = "failed" /\ durable' = durable
        /\ link' = Append(link, prev) /\ promise' = Append(promise, "refused")
    BY <1>3 DEF WriteFails, FlushFails
  <2>6. /\ Records' = 1 .. n /\ promise'[n] = "refused"
        /\ \A r \in Records : promise'[r] = promise[r]
    BY <1>0, <2>0, <2>5 DEF Records, TypeInv
  <2>7. ASSUME NEW r \in Records'
        PROVE  /\ promise'[r] = "synced" => Whole(file', durable', r)
               /\ promise'[r] = "flushed" => Whole(file', Len(file'), r)
    <3>1. CASE r = n
      BY <2>6, <3>1
    <3>2. CASE r \in Records
      <4>1. durable' \in Nat /\ durable <= durable'
        BY <1>0, <2>5
      <4>2. /\ promise[r] = "synced" => Whole(file', durable', r)
            /\ promise[r] = "flushed" => Whole(file', Len(file'), r)
        BY <1>0, <2>4, <3>2, <4>1, Written
      <4>3. QED
        BY <2>6, <3>2, <4>2
    <3>3. QED
      BY <1>0, <2>0, <2>6, <3>1, <3>2 DEF Records
  <2>8. QED
    BY <2>5, <2>7 DEF Durability, Records
<1>4. CASE Sync \/ Close
  <2>1. /\ writer = "open" /\ file' = file \o buf /\ link' = link
        /\ durable <= durable' /\ durable' \in Nat
        /\ \/ durable' = Len(file') /\ promise' = Promised({"buffered", "flushed"}, "synced")
           \/ durable' = durable /\ promise' = Promised({"buffered"}, "flushed")
    BY <1>0, <1>4, AllGrows DEF Sync, Close, TypeInv
  <2>2. ASSUME NEW r \in Records
        PROVE  /\ promise'[r] = "synced" => Whole(file', durable', r)
               /\ promise'[r] = "flushed" => Whole(file', Len(file'), r)
               /\ promise'[r] # "buffered"
    <3>1. promise[r] \in {"buffered", "flushed", "synced"} => Whole(file', Len(file'), r)
      BY <2>1, Everything
    <3>2. promise[r] = "synced" => Whole(file', durable', r)
      <4>1. /\ buf \in Seq(PieceOf(Len(link)))
            /\ Len(file) <= Len(file') /\ \A i \in 1 .. Len(file) : file'[i] = file[i]
        BY <1>0, <2>1, AllGrows DEF TypeInv
      <4>2. QED
        BY <1>0, <2>1, <4>1, Written
    <3>3. CASE durable' = Len(file') /\ promise' = Promised({"buffered", "flushed"}, "synced")
      <4>1. promise'[r] = IF promise[r] \in {"buffered", "flushed"} THEN "synced" ELSE promise[r]
        BY <1>0, <3>3, PromisedType DEF Verdict
      <4>2. QED
        BY <3>1, <3>2, <3>3, <4>1
    <3>4. CASE durable' = durable /\ promise' = Promised({"buffered"}, "flushed")
      <4>1. promise'[r] = IF promise[r] \in {"buffered"} THEN "flushed" ELSE promise[r]
        BY <1>0, <3>4, PromisedType DEF Verdict
      <4>2. QED
        BY <3>1, <3>2, <3>4, <4>1
    <3>5. QED
      BY <2>1, <3>3, <3>4
  <2>3. QED
    BY <2>1, <2>2 DEF Durability, Records
<1>5. CASE SyncFails \/ CloseFails
  <2>1. /\ Len(file) <= Len(file') /\ \A i \in 1 .. Len(file) : file'[i] = file[i]
        /\ link' = link /\ durable' = durable
    <3>1. CASE file' = file \o buf
      BY <1>0, <1>5, <3>1, AllGrows DEF SyncFails, CloseFails, TypeInv
    <3>2. CASE \E k \in 0 .. Len(buf) : file' = file \o SubSeq(buf, 1, k)
      BY <1>0, <1>5, <3>2, SpillType DEF SyncFails, CloseFails, TypeInv
    <3>3. CASE SyncFails /\ FlushFails(buf)
      <4>1. PICK k \in 0 .. Len(buf) - 1 : file' = file \o SubSeq(buf, 1, k)
        BY <3>3 DEF FlushFails
      <4>2. k \in 0 .. Len(buf)
        BY <1>0
      <4>3. QED
        BY <3>2, <4>1, <4>2
    <3>4. QED
      BY <1>5, <3>1, <3>2, <3>3 DEF SyncFails, CloseFails
  <2>2. ASSUME NEW r \in Records
        PROVE  /\ promise[r] = "synced" => Whole(file', durable', r)
               /\ promise[r] = "flushed" => Whole(file', Len(file'), r)
    BY <1>0, <2>1, Written
  <2>3. CASE CloseFails
    <3>1. \A r \in Records :
             promise'[r] = IF promise[r] \in {"buffered"} THEN "lost" ELSE promise[r]
      BY <1>0, <2>3, PromisedType DEF CloseFails, Verdict
    <3>2. QED
      BY <2>1, <2>2, <3>1 DEF Durability, Records
  <2>4. CASE SyncFails /\ writer' = "failed"
    BY <2>1, <2>2, <2>4 DEF SyncFails, Durability, Records
  <2>5. CASE SyncFails /\ writer' # "failed"
    <3>1. writer = "open" /\ file' = file \o buf /\ buf' = <<>> /\ promise' = promise
      BY <2>5 DEF SyncFails, FlushFails
    <3>2. file' \o buf' = file' /\ Len(file') + Len(buf') = Len(file')
      BY <1>0, <3>1, ConcatEmptySeq DEF TypeInv
    <3>3. ASSUME NEW r \in Records, promise[r] = "buffered"
          PROVE  Whole(file' \o buf', Len(file') + Len(buf'), r)
      BY <3>1, <3>2, <3>3, Everything
    <3>4. writer' = "open"
      BY <2>5, <3>1 DEF SyncFails, FlushFails
    <3>5. QED
      BY <2>1, <2>2, <3>1, <3>3, <3>4 DEF Durability, Records
  <2>6. QED
    BY <1>5, <2>3, <2>4, <2>5
<1>6. CASE Crash
  <2>1. \A r \in Records :
           promise'[r] = IF promise[r] \in {"buffered"} THEN "lost" ELSE promise[r]
    BY <1>0, <1>6, PromisedType DEF Crash, Verdict
  <2>2. QED
    BY <1>6, <2>1 DEF Crash, IInv, Durability, Records
<1>7. CASE PowerLoss
  <2>1. PICK k \in durable .. Len(file) : file' = SubSeq(file, 1, k) /\ durable' = k
    BY <1>7 DEF PowerLoss
  <2>2. k \in Nat /\ durable <= k /\ \A i \in 1 .. durable : file'[i] = file[i]
    <3>1. k \in 0 .. Len(file)
      BY <1>0
    <3>2. \A i \in 1 .. k : file'[i] = file[i]
      BY <1>0, <2>1, <3>1, Cut DEF TypeInv
    <3>3. QED
      BY <1>0, <3>1, <3>2
  <2>3. \A r \in Records : promise'[r] = IF promise[r] \in {"buffered", "flushed"}
                                         THEN "lost" ELSE promise[r]
    BY <1>0, <1>7, PromisedType DEF PowerLoss, Verdict
  <2>4. ASSUME NEW r \in Records, promise[r] = "synced"
        PROVE  Whole(file', durable', r)
    <3>1. Whole(file, durable, r)
      BY <2>4 DEF IInv, Durability
    <3>2. QED
      BY <1>0, <2>1, <2>2, <3>1, Stays
  <2>5. link' = link
    BY <1>7 DEF PowerLoss
  <2>6. QED
    BY <2>3, <2>4, <2>5 DEF Durability, Records
<1>8. QED
  BY <1>1, <1>2, <1>3, <1>4, <1>5, <1>6, <1>7 DEF Next

-----------------------------------------------------------------------------
(* The invariant of the two theorems below.                                *)
THEOREM Invariance == Spec => []IInv
<1>1. Init => IInv
  <2> SUFFICES ASSUME Init PROVE IInv
    OBVIOUS
  <2>1. /\ link = <<>> /\ Len(link) = 0 /\ promise = <<>> /\ file = <<>> /\ buf = <<>>
        /\ durable = 0 /\ prev = 0 /\ writer = "none" /\ torn = FALSE
    BY DEF Init, NoHash
  <2>2. TypeInv
    <3>1. \A S : <<>> \in Seq(S)
      BY EmptySeq
    <3>2. /\ link \in Seq(0 .. MaxRecords) /\ promise \in Seq(Verdict)
          /\ file \in Seq(PieceOf(Len(link))) /\ buf \in Seq(PieceOf(Len(link)))
      BY <2>1, <3>1, Zenon
    <3>3. Len(link) <= MaxRecords /\ Len(promise) = Len(link)
      BY <2>1, MaxRecordsAssumption
    <3>4. durable \in 0 .. Len(file) /\ prev \in 0 .. Len(link)
      <4>1. Len(file) = 0
        BY <2>1
      <4>2. QED
        BY <2>1, <4>1
    <3>5. QED
      BY <2>1, <3>2, <3>3, <3>4 DEF TypeInv
  <2>3. Records = {}
    BY <2>1 DEF Records
  <2>4. QED
    BY <2>2, <2>3 DEF IInv, Durability
<1>2. IInv /\ [Next]_vars => IInv'
  BY StepTypes, StepDurable DEF IInv
<1>3. QED
  BY <1>1, <1>2, PTL DEF Spec

(* The type invariant the run checks.                                      *)
THEOREM TypeCorrect == Spec => []TypeOK
<1>1. ASSUME TypeInv PROVE TypeOK
  <2>1. Len(link) \in Nat /\ Len(link) <= MaxRecords
    BY <1>1 DEF TypeInv
  <2>2. PieceOf(Len(link)) \subseteq Piece
    BY <2>1, MaxRecordsAssumption DEF PieceOf, Piece
  <2>3. file \in Seq(Piece) /\ buf \in Seq(Piece)
    BY <1>1, <2>2, SeqMonotonic DEF TypeInv
  <2>4. promise \in [Records -> Verdict]
    BY <1>1 DEF TypeInv, Records
  <2>5. prev \in {NoHash} \cup Records
    BY <1>1, <2>1 DEF TypeInv, NoHash, Records
  <2>6. QED
    BY <1>1, <2>3, <2>4, <2>5 DEF TypeInv, TypeOK, Verdict
<1>2. IInv => TypeOK
  BY <1>1 DEF IInv
<1>3. QED
  BY <1>2, Invariance, PTL

(* A record that Sync reported as written survives everything: failing     *)
(* flushes, crashes, power losses and writers opened on a torn tail.       *)
THEOREM Durable == Spec => []SyncedIsDurable
<1>1. IInv => SyncedIsDurable
  BY DEF IInv, Durability, Whole, SyncedIsDurable
<1>2. QED
  BY <1>1, Invariance, PTL

-----------------------------------------------------------------------------
(* Reading is a recursive function: it exists, and two equations say what  *)
(* it is.                                                                  *)
(* Induction on the naturals, over a set, from the well-foundedness of <.  *)
LEMMA Induct ==
  ASSUME NEW S, 0 \in S, \A n \in Nat : n \in S => n + 1 \in S
  PROVE  Nat \subseteq S
<1> DEFINE T == Nat \ S
<1>1. SUFFICES ASSUME T # {} PROVE FALSE
  OBVIOUS
<1>2. PICK x \in T : \A y \in T : ~ (<<y, x>> \in OpToRel(<, Nat))
  BY <1>1, NatLessThanWellFounded, WFMin
<1>3. x \in Nat /\ x # 0 /\ x - 1 \in Nat /\ x - 1 < x /\ x = (x - 1) + 1
  OBVIOUS
<1>4. x - 1 \notin T
  <2>1. x - 1 \in T => <<x - 1, x>> \in OpToRel(<, Nat)
    BY <1>3 DEF OpToRel
  <2>2. QED
    BY <2>1, <1>2
<1>5. QED
  BY <1>3, <1>4

(* What a reader has before the first piece.                               *)
Start == [recs |-> <<>>, line |-> <<>>, ok |-> TRUE]

IsReading(f, n, g) ==
    g = [k \in 0 .. n |-> IF k = 0 THEN Start ELSE ReadPiece(g[k - 1], f[k])]

LEMMA ReadingExists ==
  ASSUME NEW f, NEW n \in Nat
  PROVE  \E g : IsReading(f, n, g)
<1> DEFINE S == {m \in Nat : \E g : IsReading(f, m, g)}
<1>1. 0 \in S
  <2> DEFINE h == [k \in 0 .. 0 |-> Start]
  <2>1. h = [k \in 0 .. 0 |-> IF k = 0 THEN Start ELSE ReadPiece(h[k - 1], f[k])]
    OBVIOUS
  <2>2. QED
    BY <2>1 DEF IsReading
<1>2. ASSUME NEW m \in Nat, m \in S
      PROVE  m + 1 \in S
  <2>1. PICK g : g = [k \in 0 .. m |-> IF k = 0 THEN Start ELSE ReadPiece(g[k - 1], f[k])]
    BY <1>2 DEF IsReading
  <2> DEFINE h == [k \in 0 .. m + 1 |->
                     IF k = m + 1 THEN ReadPiece(g[m], f[m + 1]) ELSE g[k]]
  <2>2. ASSUME NEW k \in 0 .. m + 1
        PROVE  h[k] = IF k = 0 THEN Start ELSE ReadPiece(h[k - 1], f[k])
    <3>1. CASE k = m + 1
      <4>1. k - 1 = m /\ k - 1 \in 0 .. m + 1 /\ k - 1 # m + 1 /\ k # 0
        BY <3>1
      <4>2. h[k] = ReadPiece(g[m], f[m + 1]) /\ h[k - 1] = g[m]
        BY <4>1, <3>1
      <4>3. QED
        BY <4>1, <4>2, <3>1
    <3>2. CASE k # m + 1 /\ k # 0
      <4>1. k - 1 \in 0 .. m + 1 /\ k - 1 # m + 1 /\ k \in 0 .. m
        BY <3>2
      <4>2. h[k] = g[k] /\ h[k - 1] = g[k - 1]
        BY <4>1, <3>2
      <4>3. QED
        BY <4>1, <4>2, <3>2, <2>1
    <3>3. CASE k = 0
      <4>1. 0 # m + 1 /\ 0 \in 0 .. m
        OBVIOUS
      <4>2. h[0] = g[0]
        BY <4>1
      <4>3. QED
        BY <4>1, <4>2, <3>3, <2>1
    <3>4. QED
      BY <3>1, <3>2, <3>3
  <2>3. IsReading(f, m + 1, h)
    <3>1. \E e : h = [k \in 0 .. m + 1 |-> e[k]]
      OBVIOUS
    <3> HIDE DEF h
    <3>2. QED
      BY <3>1, <2>2 DEF IsReading
  <2> HIDE DEF h
  <2>4. QED
    BY <2>3
<1> HIDE DEF S
<1>3. Nat \subseteq S
  BY <1>1, <1>2, Induct
<1>4. QED
  BY <1>3 DEF S

(* The recursion of Reading, as two equations.                             *)
LEMMA ReadSteps ==
  ASSUME NEW f, Len(f) \in Nat
  PROVE  /\ Reading(f)[0] = Start
         /\ \A k \in 1 .. Len(f) : Reading(f)[k] = ReadPiece(Reading(f)[k - 1], f[k])
<1>1. Reading(f) = CHOOSE g : IsReading(f, Len(f), g)
  BY DEF Reading, IsReading, Start
<1>2. IsReading(f, Len(f), Reading(f))
  BY <1>1, ReadingExists
<1>3. PICK g : g = Reading(f)
  OBVIOUS
<1>4. \A k \in 0 .. Len(f) : g[k] = IF k = 0 THEN Start ELSE ReadPiece(g[k - 1], f[k])
  BY <1>2, <1>3 DEF IsReading
<1>5. QED
  BY <1>3, <1>4

(* The same function of the same pieces.                                   *)
LEMMA SamePrefix ==
  ASSUME NEW f, NEW g, Len(f) \in Nat, Len(g) \in Nat,
         NEW n \in 0 .. Len(f), n <= Len(g), \A i \in 1 .. n : g[i] = f[i]
  PROVE  \A k \in 0 .. n : Reading(g)[k] = Reading(f)[k]
<1> DEFINE S == {k \in Nat : k <= n => Reading(g)[k] = Reading(f)[k]}
<1>1. 0 \in S
  BY ReadSteps
<1>2. ASSUME NEW k \in Nat, k \in S
      PROVE  k + 1 \in S
  <2>1. SUFFICES ASSUME k + 1 <= n
                 PROVE  Reading(g)[k + 1] = Reading(f)[k + 1]
    OBVIOUS
  <2>2. k + 1 \in 1 .. Len(f) /\ k + 1 \in 1 .. Len(g) /\ (k + 1) - 1 = k /\ g[k + 1] = f[k + 1]
    BY <2>1
  <2>3. Reading(g)[k] = Reading(f)[k]
    BY <1>2, <2>1
  <2>4. /\ Reading(g)[k + 1] = ReadPiece(Reading(g)[k], g[k + 1])
        /\ Reading(f)[k + 1] = ReadPiece(Reading(f)[k], f[k + 1])
    BY <2>2, ReadSteps
  <2>5. QED
    BY <2>2, <2>3, <2>4
<1> HIDE DEF S
<1>3. Nat \subseteq S
  BY <1>1, <1>2, Induct
<1>4. QED
  BY <1>3 DEF S

-----------------------------------------------------------------------------
(* What a reader has at any moment, when n records have been written.      *)
ReadState(n) ==
    [recs : Seq(1 .. n), line : Seq(PieceOf(n) \ {Newline}), ok : BOOLEAN]

LEMMA RecordLine ==
  ASSUME NEW n \in Nat, NEW l \in Seq(PieceOf(n)), IsRecord(l)
  PROVE  /\ l[1][1] \in 1 .. n /\ l # <<>> /\ Len(l) = 2
         /\ l[1] = <<l[1][1], "head">> /\ l[2] = <<l[1][1], "rest">>
<1>0. /\ Len(l) = 2 /\ l[1][1] = l[2][1]
      /\ l[1][2] = "head" /\ l[2][2] = "rest"
  BY DEF IsRecord
<1>1. l[1] \in PieceOf(n) /\ l[2] \in PieceOf(n)
  <2>1. 1 \in 1 .. Len(l) /\ 2 \in 1 .. Len(l)
    BY <1>0
  <2>2. QED
    BY <2>1, ElementOfSeq
<1>2. l[1] \in (1 .. n) \X {"head", "rest"} /\ l[2] \in (1 .. n) \X {"head", "rest"}
  BY <1>0, <1>1 DEF PieceOf, Newline
<1>3. l[1] = <<l[1][1], l[1][2]>> /\ l[2] = <<l[2][1], l[2][2]>> /\ l[1][1] \in 1 .. n
  BY <1>2
<1>4. QED
  BY <1>0, <1>3

LEMMA EndFacts ==
  ASSUME NEW n \in Nat, NEW s \in ReadState(n)
  PROVE  /\ EndLine(s) \in ReadState(n) /\ EndLine(s).line = <<>>
         /\ EndLine(s).ok = (s.ok /\ (s.line = <<>> \/ IsRecord(s.line)))
         /\ s.ok /\ IsRecord(s.line) => EndLine(s).recs = Append(s.recs, s.line[1][1])
         /\ ~(s.ok /\ IsRecord(s.line)) => EndLine(s).recs = s.recs
<1>1. s.recs \in Seq(1 .. n) /\ s.line \in Seq(PieceOf(n)) /\ s.ok \in BOOLEAN
  BY DEF ReadState
<1>2. IsRecord(s.line) => s.line[1][1] \in 1 .. n
  BY <1>1, RecordLine
<1>3. IsRecord(s.line) \in BOOLEAN
  BY DEF IsRecord
<1>4. PICK rec : rec = IsRecord(s.line)
  OBVIOUS
<1>5. EndLine(s) = [recs |-> IF s.ok /\ rec THEN Append(s.recs, s.line[1][1]) ELSE s.recs,
                    line |-> <<>>, ok |-> s.ok /\ (s.line = <<>> \/ rec)]
  BY <1>4 DEF EndLine
<1>6. /\ EndLine(s).line = <<>> /\ EndLine(s).ok = (s.ok /\ (s.line = <<>> \/ rec))
      /\ EndLine(s).recs = IF s.ok /\ rec THEN Append(s.recs, s.line[1][1]) ELSE s.recs
  BY <1>5
<1>7. EndLine(s) \in ReadState(n)
  <2>1. (IF s.ok /\ rec THEN Append(s.recs, s.line[1][1]) ELSE s.recs) \in Seq(1 .. n)
    <3>1. CASE s.ok /\ rec
      <4>1. PICK r : r = s.line[1][1]
        OBVIOUS
      <4>2. r \in 1 .. n
        BY <1>2, <1>4, <3>1, <4>1
      <4>3. Append(s.recs, r) \in Seq(1 .. n)
        BY <1>1, <4>2
      <4>4. QED
        BY <3>1, <4>1, <4>3
    <3>2. CASE ~(s.ok /\ rec)
      BY <1>1, <3>2
    <3>3. QED
      BY <3>1, <3>2
  <2>2. <<>> \in Seq(PieceOf(n) \ {Newline})
    BY EmptySeq
  <2>3. (s.ok /\ (s.line = <<>> \/ rec)) \in BOOLEAN
    OBVIOUS
  <2>4. QED
    BY <1>5, <2>1, <2>2, <2>3 DEF ReadState
<1>8. QED
  BY <1>4, <1>6, <1>7

LEMMA PieceFacts ==
  ASSUME NEW n \in Nat, NEW s \in ReadState(n), NEW p \in PieceOf(n)
  PROVE  /\ ReadPiece(s, p) \in ReadState(n)
         /\ p = Newline => ReadPiece(s, p) = EndLine(s)
         /\ p # Newline => /\ ReadPiece(s, p).recs = s.recs /\ ReadPiece(s, p).ok = s.ok
                           /\ ReadPiece(s, p).line = Append(s.line, p)
<1>1. CASE p = Newline
  BY <1>1, EndFacts DEF ReadPiece
<1>2. CASE p # Newline
  <2>1. s = [recs |-> s.recs, line |-> s.line, ok |-> s.ok]
    BY DEF ReadState
  <2>2. ReadPiece(s, p) = [recs |-> s.recs, line |-> Append(s.line, p), ok |-> s.ok]
    BY <1>2, <2>1 DEF ReadPiece
  <2>3. Append(s.line, p) \in Seq(PieceOf(n) \ {Newline})
    BY <1>2 DEF ReadState
  <2>4. QED
    BY <1>2, <2>2, <2>3 DEF ReadState
<1>3. QED
  BY <1>1, <1>2

LEMMA ReadTypes ==
  ASSUME NEW n \in Nat, NEW f \in Seq(PieceOf(n))
  PROVE  \A k \in 0 .. Len(f) : Reading(f)[k] \in ReadState(n)
<1> DEFINE S == {k \in Nat : k <= Len(f) => Reading(f)[k] \in ReadState(n)}
<1>1. 0 \in S
  <2>1. Start \in ReadState(n)
    BY DEF Start, ReadState
  <2>2. QED
    BY <2>1, ReadSteps
<1>2. ASSUME NEW k \in Nat, k \in S
      PROVE  k + 1 \in S
  <2>1. SUFFICES ASSUME k + 1 <= Len(f)
                 PROVE  Reading(f)[k + 1] \in ReadState(n)
    OBVIOUS
  <2>2. k + 1 \in 1 .. Len(f) /\ (k + 1) - 1 = k
    BY <2>1
  <2>3. Reading(f)[k] \in ReadState(n) /\ f[k + 1] \in PieceOf(n)
    BY <1>2, <2>1, <2>2
  <2>4. Reading(f)[k + 1] = ReadPiece(Reading(f)[k], f[k + 1])
    BY <2>2, ReadSteps
  <2>5. QED
    BY <2>3, <2>4, PieceFacts
<1> HIDE DEF S
<1>3. Nat \subseteq S
  BY <1>1, <1>2, Induct
<1>4. QED
  BY <1>3 DEF S

(* Append, for the provers a name and no construction.                     *)
Longer(s, x) == Append(s, x)

LEMMA ReadNext ==
  ASSUME NEW n \in Nat, NEW f \in Seq(PieceOf(n)), NEW k \in 1 .. Len(f),
         NEW s, s = Reading(f)[k - 1], NEW t, t = Reading(f)[k], NEW p, p = f[k]
  PROVE  /\ s \in ReadState(n) /\ t \in ReadState(n) /\ p \in PieceOf(n)
         /\ p = Newline => t = EndLine(s)
         /\ p # Newline => t.recs = s.recs /\ t.ok = s.ok /\ t.line = Longer(s.line, p)
<1>1. k - 1 \in 0 .. Len(f) /\ k \in 0 .. Len(f) /\ Len(f) \in Nat
  OBVIOUS
<1>2. s \in ReadState(n) /\ t \in ReadState(n)
  BY <1>1, ReadTypes
<1>3. p \in PieceOf(n)
  BY ElementOfSeq
<1>4. t = ReadPiece(s, p)
  BY <1>1, ReadSteps
<1>5. QED
  BY <1>2, <1>3, <1>4, PieceFacts, SMTT(20) DEF Longer

LEMMA AppendSet ==
  ASSUME NEW S, NEW s \in Seq(S), NEW x \in S
  PROVE  ToSet(Append(s, x)) = ToSet(s) \cup {x}
<1>1. /\ Append(s, x) \in Seq(S) /\ Len(Append(s, x)) = Len(s) + 1
      /\ \A i \in 1 .. Len(s) : Append(s, x)[i] = s[i]
      /\ Append(s, x)[Len(s) + 1] = x
  BY AppendProperties
<1>2. Len(s) \in Nat /\ DOMAIN s = 1 .. Len(s) /\ DOMAIN Append(s, x) = 1 .. Len(s) + 1
  BY <1>1
<1>3. PICK t : t = Append(s, x)
  OBVIOUS
<1>4. 1 .. Len(s) + 1 = (1 .. Len(s)) \cup {Len(s) + 1}
  BY <1>2
<1>5. {t[i] : i \in 1 .. Len(s) + 1} = {s[i] : i \in 1 .. Len(s)} \cup {x}
  BY <1>1, <1>3, <1>4
<1>6. QED
  BY <1>2, <1>3, <1>5 DEF ToSet

(* The records of a line's end.                                            *)
LEMMA EndSet ==
  ASSUME NEW n \in Nat, NEW s \in ReadState(n)
  PROVE  ToSet(EndLine(s).recs)
            = ToSet(s.recs) \cup (IF s.ok /\ IsRecord(s.line) THEN {s.line[1][1]} ELSE {})
<1>1. s.recs \in Seq(1 .. n) /\ s.line \in Seq(PieceOf(n))
  BY DEF ReadState
<1>2. CASE s.ok /\ IsRecord(s.line)
  <2>1. s.line[1][1] \in 1 .. n
    BY <1>1, <1>2, RecordLine
  <2>2. PICK r : r = s.line[1][1]
    OBVIOUS
  <2>3. EndLine(s).recs = Append(s.recs, r)
    BY <1>2, <2>2, EndFacts
  <2>4. ToSet(Append(s.recs, r)) = ToSet(s.recs) \cup {r}
    BY <1>1, <2>1, <2>2, AppendSet
  <2>5. QED
    BY <1>2, <2>2, <2>3, <2>4
<1>3. CASE ~(s.ok /\ IsRecord(s.line))
  BY <1>3, EndFacts
<1>4. QED
  BY <1>2, <1>3

(* What has been read stays, and what has failed stays failed.             *)
LEMMA ReadMore ==
  ASSUME NEW n \in Nat, NEW f \in Seq(PieceOf(n)), NEW i \in 0 .. Len(f)
  PROVE  \A k \in i .. Len(f) :
            /\ ToSet(Reading(f)[i].recs) \subseteq ToSet(Reading(f)[k].recs)
            /\ ToSet(Reading(f)[i].recs) \subseteq ToSet(EndLine(Reading(f)[k]).recs)
            /\ Reading(f)[k].ok => Reading(f)[i].ok
<1> DEFINE S == {d \in Nat : i + d <= Len(f) =>
                    /\ ToSet(Reading(f)[i].recs) \subseteq ToSet(Reading(f)[i + d].recs)
                    /\ Reading(f)[i + d].ok => Reading(f)[i].ok}
<1>1. 0 \in S
  <2>1. i + 0 = i
    OBVIOUS
  <2>2. QED
    BY <2>1
<1>2. ASSUME NEW d \in Nat, d \in S
      PROVE  d + 1 \in S
  <2>1. SUFFICES ASSUME i + (d + 1) <= Len(f)
                 PROVE  /\ ToSet(Reading(f)[i].recs) \subseteq ToSet(Reading(f)[i + (d + 1)].recs)
                        /\ Reading(f)[i + (d + 1)].ok => Reading(f)[i].ok
    OBVIOUS
  <2>2. PICK k : k = i + (d + 1)
    OBVIOUS
  <2>3. k \in 1 .. Len(f) /\ k - 1 = i + d /\ i + d <= Len(f)
    BY <2>1, <2>2
  <2>4. PICK s, t : s = Reading(f)[k - 1] /\ t = Reading(f)[k]
    OBVIOUS
  <2>5. /\ s \in ReadState(n)
        /\ f[k] = Newline => t = EndLine(s)
        /\ f[k] # Newline => t.recs = s.recs /\ t.ok = s.ok
    BY <2>3, <2>4, ReadNext
  <2>6. ToSet(s.recs) \subseteq ToSet(t.recs) /\ (t.ok => s.ok)
    BY <2>5, EndSet, EndFacts
  <2>7. ToSet(Reading(f)[i].recs) \subseteq ToSet(s.recs) /\ (s.ok => Reading(f)[i].ok)
    BY <1>2, <2>3, <2>4
  <2>8. QED
    BY <2>2, <2>4, <2>6, <2>7
<1> HIDE DEF S
<1>3. Nat \subseteq S
  BY <1>1, <1>2, Induct
<1>4. TAKE k \in i .. Len(f)
<1>5. k - i \in S /\ i + (k - i) = k /\ k \in 0 .. Len(f) /\ k <= Len(f)
  BY <1>3
<1>6. /\ ToSet(Reading(f)[i].recs) \subseteq ToSet(Reading(f)[k].recs)
      /\ Reading(f)[k].ok => Reading(f)[i].ok
  BY <1>5 DEF S
<1>7. ToSet(Reading(f)[k].recs) \subseteq ToSet(EndLine(Reading(f)[k]).recs)
  BY <1>5, ReadTypes, EndSet
<1>8. QED
  BY <1>6, <1>7

(* The line being read: what follows the last newline.                     *)
LEMMA LineSince ==
  ASSUME NEW n \in Nat, NEW f \in Seq(PieceOf(n)), NEW i \in 0 .. Len(f),
         i = 0 \/ f[i] = Newline, NEW m \in i .. Len(f),
         \A j \in i + 1 .. m : f[j] # Newline
  PROVE  Reading(f)[m].line = SubSeq(f, i + 1, m)
<1> DEFINE S == {d \in Nat : i + d <= m => Reading(f)[i + d].line = SubSeq(f, i + 1, i + d)}
<1>0. Len(f) \in Nat /\ i \in Nat /\ m \in Nat /\ m <= Len(f)
  OBVIOUS
<1>1. 0 \in S
  <2>1. i + 0 = i /\ SubSeq(f, i + 1, i) = <<>>
    BY <1>0, SubSeqEmpty
  <2>2. CASE i = 0
    <3>1. Reading(f)[0].line = <<>>
      BY <1>0, ReadSteps DEF Start
    <3>2. QED
      BY <2>1, <2>2, <3>1
  <2>3. CASE i # 0
    <3>1. i \in 1 .. Len(f) /\ f[i] = Newline
      BY <2>3
    <3>2. PICK s, t : s = Reading(f)[i - 1] /\ t = Reading(f)[i]
      OBVIOUS
    <3>3. s \in ReadState(n) /\ t = EndLine(s)
      BY <3>1, <3>2, ReadNext
    <3>4. Reading(f)[i].line = <<>>
      BY <3>2, <3>3, EndFacts
    <3>5. QED
      BY <2>1, <3>4
  <2>4. QED
    BY <1>0, <2>2, <2>3
<1>2. ASSUME NEW d \in Nat, d \in S
      PROVE  d + 1 \in S
  <2>1. SUFFICES ASSUME i + (d + 1) <= m
                 PROVE  Reading(f)[i + (d + 1)].line = SubSeq(f, i + 1, i + (d + 1))
    OBVIOUS
  <2>2. PICK k : k = i + (d + 1)
    OBVIOUS
  <2>3. k \in 1 .. Len(f) /\ k - 1 = i + d /\ i + d <= m /\ k \in i + 1 .. m
    BY <1>0, <2>1, <2>2
  <2>4. PICK s, t, p : s = Reading(f)[k - 1] /\ t = Reading(f)[k] /\ p = f[k]
    OBVIOUS
  <2>5. s \in ReadState(n) /\ p \in PieceOf(n) /\ t.line = Longer(s.line, p)
    <3>1. p # Newline
      BY <2>3, <2>4
    <3>2. QED
      BY <2>3, <2>4, <3>1, ReadNext
  <2>6. s.line = SubSeq(f, i + 1, k - 1)
    BY <1>2, <2>3, <2>4
  <2>7. SubSeq(f, i + 1, k) = SubSeq(f, i + 1, k - 1) \o <<f[k]>>
    <3>1. i + 1 \in 1 .. Len(f) /\ k \in i + 1 .. Len(f)
      BY <1>0, <2>3
    <3>2. QED
      BY <3>1, SubSeqRecursiveSecond
  <2>8. Longer(s.line, p) = s.line \o <<p>>
    <3>1. s.line \in Seq(PieceOf(n)) /\ p \in PieceOf(n)
      BY <2>5 DEF ReadState
    <3>2. QED
      BY <3>1, AppendIsConcat DEF Longer
  <2>9. QED
    BY <2>2, <2>4, <2>5, <2>6, <2>7, <2>8
<1> HIDE DEF S
<1>3. Nat \subseteq S
  BY <1>1, <1>2, Induct
<1>4. m - i \in S /\ i + (m - i) = m
  BY <1>0, <1>3
<1>5. QED
  BY <1>4 DEF S

(* It is empty just after a newline, and ends in the last piece otherwise. *)
LEMMA LastPiece ==
  ASSUME NEW n \in Nat, NEW f \in Seq(PieceOf(n)), NEW k \in 1 .. Len(f),
         NEW l, l = Reading(f)[k].line
  PROVE  /\ l \in Seq(PieceOf(n)) /\ (l = <<>> <=> f[k] = Newline)
         /\ f[k] # Newline => l[Len(l)] = f[k]
<1>1. PICK s, t, p : s = Reading(f)[k - 1] /\ t = Reading(f)[k] /\ p = f[k]
  OBVIOUS
<1>2. /\ s \in ReadState(n) /\ t \in ReadState(n) /\ p \in PieceOf(n)
      /\ p = Newline => t = EndLine(s)
      /\ p # Newline => t.line = Longer(s.line, p)
  BY <1>1, ReadNext
<1>3. s.line \in Seq(PieceOf(n)) /\ t.line \in Seq(PieceOf(n))
  BY <1>2 DEF ReadState
<1>4. CASE f[k] = Newline
  BY <1>1, <1>2, <1>3, <1>4, EndFacts
<1>5. CASE f[k] # Newline
  <2>1. PICK q : q = s.line
    OBVIOUS
  <2>2. l = Append(q, p) /\ q \in Seq(PieceOf(n)) /\ p \in PieceOf(n)
    BY <1>1, <1>2, <1>3, <1>5, <2>1 DEF Longer
  <2>3. Len(q) \in Nat /\ Len(l) = Len(q) + 1 /\ l[Len(q) + 1] = p /\ l # <<>>
    BY <2>2, AppendProperties
  <2>4. QED
    BY <1>1, <1>3, <1>5, <2>3
<1>6. QED
  BY <1>4, <1>5

LEMMA LongerFacts ==
  ASSUME NEW S, NEW s \in Seq(S), NEW x \in S
  PROVE  /\ Longer(s, x) \in Seq(S) /\ Longer(s, x) # <<>>
         /\ Len(Longer(s, x)) = Len(s) + 1
         /\ \A i \in 1 .. Len(s) : Longer(s, x)[i] = s[i]
         /\ Longer(s, x)[Len(s) + 1] = x
BY AppendProperties DEF Longer

(* The three pieces of a line, read after a line l.                        *)
LEMMA ReadLine ==
  ASSUME NEW n \in Nat, NEW f \in Seq(PieceOf(n)), NEW i \in 1 .. Len(f) - 2,
         NEW r \in 1 .. n, LineAt(f, i, r),
         NEW s0, s0 = Reading(f)[i - 1], NEW s1, s1 = Reading(f)[i],
         NEW s2, s2 = Reading(f)[i + 1], NEW s3, s3 = Reading(f)[i + 2]
  PROVE  /\ s0 \in ReadState(n) /\ s1 \in ReadState(n) /\ s2 \in ReadState(n)
         /\ s1.recs = s0.recs /\ s1.ok = s0.ok /\ ~IsRecord(s1.line)
         /\ s2.recs = s0.recs /\ s2.ok = s0.ok /\ s2.line # <<>>
         /\ IsRecord(s2.line) <=> s0.line = <<>>
         /\ IsRecord(s2.line) => s2.line[1][1] = r
         /\ s3 = EndLine(s2)
<1>1. /\ i \in 1 .. Len(f) /\ i + 1 \in 1 .. Len(f) /\ i + 2 \in 1 .. Len(f)
      /\ (i + 1) - 1 = i /\ (i + 2) - 1 = i + 1
  OBVIOUS
<1>2. PICK p, q : p = f[i] /\ q = f[i + 1]
  OBVIOUS
<1>3. p # Newline /\ q # Newline /\ f[i + 2] = Newline
  BY <1>2 DEF LineAt, Newline
<1>4. p[1] = r /\ q[1] = r /\ p[2] = "head" /\ q[2] = "rest"
  BY <1>2 DEF LineAt
<1>5. /\ s0 \in ReadState(n) /\ s1 \in ReadState(n) /\ p \in PieceOf(n)
      /\ s1.recs = s0.recs /\ s1.ok = s0.ok /\ s1.line = Longer(s0.line, p)
  <2>1. i \in 1 .. Len(f) /\ p = f[i] /\ p # Newline
    BY <1>1, <1>2, <1>3
  <2>2. s0 \in ReadState(n) /\ s1 \in ReadState(n) /\ p \in PieceOf(n)
    BY <2>1, ReadNext
  <2>3. s1.recs = s0.recs /\ s1.line = Longer(s0.line, p)
    BY <2>1, ReadNext
  <2>4. s1.ok = s0.ok
    BY <2>1, ReadNext
  <2>5. QED
    BY <2>2, <2>3, <2>4
<1>6. /\ s2 \in ReadState(n) /\ q \in PieceOf(n)
      /\ s2.recs = s1.recs /\ s2.ok = s1.ok /\ s2.line = Longer(s1.line, q)
  <2>1. i + 1 \in 1 .. Len(f) /\ s1 = Reading(f)[(i + 1) - 1] /\ q = f[i + 1] /\ q # Newline
    BY <1>1, <1>2, <1>3
  <2>2. s2 \in ReadState(n) /\ q \in PieceOf(n)
    BY <2>1, ReadNext
  <2>3. s2.recs = s1.recs /\ s2.line = Longer(s1.line, q)
    BY <2>1, ReadNext
  <2>4. s2.ok = s1.ok
    BY <2>1, ReadNext
  <2>5. QED
    BY <2>2, <2>3, <2>4
<1>7. s3 = EndLine(s2)
  BY <1>1, <1>3, ReadNext
<1>8. PICK l0, l1, l2 : l0 = s0.line /\ l1 = s1.line /\ l2 = s2.line
  OBVIOUS
<1>9. l0 \in Seq(PieceOf(n)) /\ l1 \in Seq(PieceOf(n)) /\ l2 \in Seq(PieceOf(n))
  <2>1. s0 \in ReadState(n) /\ s1 \in ReadState(n) /\ s2 \in ReadState(n)
    BY <1>5, <1>6
  <2>2. \A s \in ReadState(n) : s.line \in Seq(PieceOf(n))
    BY DEF ReadState
  <2>3. QED
    BY <1>8, <2>1, <2>2
<1>10. Len(l1) = Len(l0) + 1 /\ l1[Len(l0) + 1] = p
  <2>1. l1 = Longer(l0, p) /\ p \in PieceOf(n)
    BY <1>5, <1>8
  <2>2. QED
    BY <1>9, <2>1, LongerFacts
<1>11. Len(l2) = Len(l1) + 1 /\ l2[Len(l1) + 1] = q /\ \A j \in 1 .. Len(l1) : l2[j] = l1[j]
  <2>1. l2 = Longer(l1, q) /\ q \in PieceOf(n)
    BY <1>6, <1>8
  <2>2. Len(l2) = Len(l1) + 1 /\ l2[Len(l1) + 1] = q
    BY <1>9, <2>1, LongerFacts
  <2>3. \A j \in 1 .. Len(l1) : l2[j] = l1[j]
    <3>1. PICK S : S = PieceOf(n)
      OBVIOUS
    <3>2. l1 \in Seq(S) /\ q \in S
      BY <1>9, <2>1, <3>1
    <3>3. \A j \in 1 .. Len(l1) : Longer(l1, q)[j] = l1[j]
      BY <3>2, LongerFacts
    <3>4. QED
      BY <2>1, <3>3
  <2>4. QED
    BY <2>2, <2>3
<1>12. Len(l0) \in Nat /\ (l0 = <<>> <=> Len(l0) = 0) /\ (l2 = <<>> => Len(l2) = 0)
  BY <1>9
<1>13. ~IsRecord(l1)
  <2>1. CASE Len(l1) = 2
    <3>1. l1[2] = p
      BY <1>10, <1>12, <2>1
    <3>2. QED
      BY <1>4, <3>1 DEF IsRecord
  <2>2. QED
    BY <2>1 DEF IsRecord
<1>14. CASE l0 = <<>>
  <2>1. Len(l1) = 1 /\ Len(l2) = 2 /\ l1[1] = p /\ l2[1] = p /\ l2[2] = q
    <3>1. Len(l0) = 0 /\ Len(l1) = 1 /\ Len(l2) = 2 /\ 1 \in 1 .. Len(l1)
      BY <1>10, <1>11, <1>12, <1>14
    <3>2. QED
      BY <1>10, <1>11, <3>1
  <2>2. IsRecord(l2) /\ l2[1][1] = r
    BY <1>4, <2>1 DEF IsRecord
  <2>3. QED
    BY <1>5, <1>6, <1>7, <1>8, <1>11, <1>12, <1>13, <1>14, <2>1, <2>2
<1>15. CASE l0 # <<>>
  <2>1. PICK d \in Nat : Len(l2) = d + 2 /\ d # 0
    BY <1>10, <1>11, <1>12, <1>15
  <2>2. l2 # <<>> /\ Len(l2) # 2
    BY <1>12, <2>1
  <2>3. ~IsRecord(l2)
    BY <2>2 DEF IsRecord
  <2>4. QED
    BY <1>5, <1>6, <1>7, <1>8, <1>13, <1>15, <2>2, <2>3
<1>16. QED
  BY <1>14, <1>15

(* A whole line that a reader gets past without an error is a record read. *)
LEMMA WholeRead ==
  ASSUME NEW n \in Nat, NEW f \in Seq(PieceOf(n)), NEW i \in 1 .. Len(f) - 2,
         NEW r \in 1 .. n, LineAt(f, i, r), Reading(f)[i + 2].ok
  PROVE  r \in ToSet(Reading(f)[i + 2].recs)
<1>1. PICK s0, s1, s2, s3 : /\ s0 = Reading(f)[i - 1] /\ s1 = Reading(f)[i]
                            /\ s2 = Reading(f)[i + 1] /\ s3 = Reading(f)[i + 2]
  OBVIOUS
<1>3. /\ s2 \in ReadState(n) /\ s2.line # <<>> /\ s3 = EndLine(s2)
      /\ IsRecord(s2.line) => s2.line[1][1] = r
  BY <1>1, ReadLine
<1>4. s2.ok /\ IsRecord(s2.line)
  <2>1. EndLine(s2).ok
    BY <1>1, <1>3
  <2>2. QED
    BY <1>3, <2>1, EndFacts, ZenonT(30)
<1>5. QED
  BY <1>1, <1>3, <1>4, EndSet

(* A record read is that of a line whose second piece has been read.       *)
LEMMA ReadFrom ==
  ASSUME NEW n \in Nat, NEW f \in Seq(PieceOf(n)), NEW k \in 0 .. Len(f),
         NEW r \in ToSet(EndLine(Reading(f)[k]).recs)
  PROVE  \E j \in 1 .. k : /\ f[j] = <<r, "rest">>
                           /\ r \in ToSet(EndLine(Reading(f)[j]).recs)
<1> DEFINE S == {m \in Nat : m <= Len(f) /\ r \in ToSet(EndLine(Reading(f)[m]).recs) =>
                   \E j \in 1 .. m : /\ f[j] = <<r, "rest">>
                                     /\ r \in ToSet(EndLine(Reading(f)[j]).recs)}
<1>1. ASSUME NEW m \in 0 .. Len(f), NEW s, s = Reading(f)[m], r \in ToSet(EndLine(s).recs)
      PROVE  \/ r \in ToSet(s.recs)
             \/ m \in 1 .. Len(f) /\ f[m] = <<r, "rest">>
  <2>1. SUFFICES ASSUME r \notin ToSet(s.recs)
                 PROVE  m \in 1 .. Len(f) /\ f[m] = <<r, "rest">>
    OBVIOUS
  <2>2. s \in ReadState(n)
    BY <1>1, ReadTypes
  <2>3. IsRecord(s.line) /\ r = s.line[1][1]
    BY <1>1, <2>1, <2>2, EndSet
  <2>4. PICK l : l = s.line
    OBVIOUS
  <2>5. l \in Seq(PieceOf(n))
    BY <2>2, <2>4 DEF ReadState
  <2>6. Len(l) = 2 /\ l # <<>> /\ l[2] = <<r, "rest">>
    BY <2>3, <2>4, <2>5, RecordLine
  <2>7. m # 0
    <3>1. Reading(f)[0].line = <<>>
      BY ReadSteps DEF Start
    <3>2. QED
      BY <1>1, <2>4, <2>6, <3>1
  <2>8. m \in 1 .. Len(f)
    BY <2>7
  <2>9. l = Reading(f)[m].line
    BY <1>1, <2>4
  <2>10. f[m] # Newline /\ l[Len(l)] = f[m]
    <3>1. f[m] # Newline
      BY <2>6, <2>8, <2>9, LastPiece
    <3>2. QED
      BY <2>8, <2>9, <3>1, LastPiece
  <2>11. QED
    BY <2>6, <2>8, <2>10
<1>2. 0 \in S
  <2>1. Reading(f)[0].recs = <<>> /\ 0 \in 0 .. Len(f) /\ ToSet(<<>>) = {}
    BY ReadSteps DEF Start, ToSet
  <2>2. QED
    BY <1>1, <2>1
<1>3. ASSUME NEW m \in Nat, m \in S
      PROVE  m + 1 \in S
  <2>1. SUFFICES ASSUME m + 1 <= Len(f), r \in ToSet(EndLine(Reading(f)[m + 1]).recs)
                 PROVE  \E j \in 1 .. m + 1 : /\ f[j] = <<r, "rest">>
                                              /\ r \in ToSet(EndLine(Reading(f)[j]).recs)
    OBVIOUS
  <2>2. m \in 0 .. Len(f) /\ m + 1 \in 1 .. Len(f) /\ (m + 1) - 1 = m /\ m + 1 \in 0 .. Len(f)
    BY <2>1
  <2>3. PICK s, t, p : s = Reading(f)[m] /\ t = Reading(f)[m + 1] /\ p = f[m + 1]
    OBVIOUS
  <2>4. CASE r \in ToSet(t.recs)
    <3>1. r \in ToSet(EndLine(s).recs)
      <4>1. /\ s \in ReadState(n)
            /\ p = Newline => t = EndLine(s)
            /\ p # Newline => t.recs = s.recs
        BY <2>2, <2>3, ReadNext
      <4>2. QED
        BY <2>4, <4>1, EndSet
    <3>2. PICK j \in 1 .. m : f[j] = <<r, "rest">> /\ r \in ToSet(EndLine(Reading(f)[j]).recs)
      BY <1>3, <2>1, <2>3, <3>1
    <3>3. QED
      BY <3>2
  <2>5. CASE r \notin ToSet(t.recs)
    BY <1>1, <2>1, <2>2, <2>3, <2>5
  <2>6. QED
    BY <2>4, <2>5
<1> HIDE DEF S
<1>4. Nat \subseteq S
  BY <1>2, <1>3, Induct
<1>5. k \in S /\ k <= Len(f)
  BY <1>4
<1>6. QED
  BY <1>5 DEF S

-----------------------------------------------------------------------------
(* The chain of the records read.                                          *)
(* VerifyChain, of the links lk.                                           *)
Chained(lk, recs) ==
    \A i \in DOMAIN recs : lk[recs[i]] = IF i = 1 THEN NoHash ELSE recs[i - 1]

Latest(recs) == IF recs = <<>> THEN NoHash ELSE recs[Len(recs)]

LEMMA ChainGrows ==
  ASSUME NEW S, NEW lk, NEW recs \in Seq(S), NEW r \in S, NEW more, more = Append(recs, r)
  PROVE  /\ Chained(lk, more) => Chained(lk, recs)
         /\ Chained(lk, recs) /\ lk[r] = Latest(recs) => Chained(lk, more)
<1>1. /\ DOMAIN recs = 1 .. Len(recs) /\ DOMAIN more = 1 .. Len(recs) + 1 /\ Len(recs) \in Nat
      /\ more[Len(recs) + 1] = r /\ \A i \in 1 .. Len(recs) : more[i] = recs[i]
  OBVIOUS
<1>2. recs = <<>> <=> Len(recs) = 0
  OBVIOUS
<1>3. PICK m : m = Len(recs)
  OBVIOUS
<1>4. ASSUME Chained(lk, more)
      PROVE  Chained(lk, recs)
  <2>1. ASSUME NEW i \in 1 .. m
        PROVE  lk[recs[i]] = IF i = 1 THEN NoHash ELSE recs[i - 1]
    <3>1. i \in 1 .. m + 1 /\ more[i] = recs[i] /\ (i # 1 => i - 1 \in 1 .. m)
      BY <1>1, <1>3
    <3>2. lk[more[i]] = IF i = 1 THEN NoHash ELSE more[i - 1]
      BY <1>1, <1>3, <1>4, <3>1 DEF Chained
    <3>3. QED
      BY <1>1, <1>3, <3>1, <3>2
  <2>2. QED
    BY <1>1, <1>3, <2>1 DEF Chained
<1>5. ASSUME Chained(lk, recs), lk[r] = Latest(recs)
      PROVE  Chained(lk, more)
  <2>1. ASSUME NEW i \in 1 .. m + 1
        PROVE  lk[more[i]] = IF i = 1 THEN NoHash ELSE more[i - 1]
    <3>1. i # 1 => i - 1 \in 1 .. m
      BY <1>1, <1>3
    <3>2. CASE i \in 1 .. m
      BY <1>1, <1>3, <1>5, <3>1, <3>2 DEF Chained
    <3>3. CASE i = m + 1
      <4>1. more[i] = r /\ i - 1 = m /\ (i = 1 <=> recs = <<>>)
        BY <1>1, <1>2, <1>3, <3>3
      <4>2. i # 1 => more[i - 1] = recs[m]
        BY <1>1, <1>3, <3>1, <4>1
      <4>3. QED
        BY <1>3, <1>5, <4>1, <4>2 DEF Latest
    <3>4. QED
      BY <1>1, <1>3, <3>2, <3>3
  <2>2. QED
    BY <1>1, <1>3, <2>1 DEF Chained
<1>6. QED
  BY <1>4, <1>5

(* The link of a new record is none of the old ones.                       *)
LEMMA ChainKept ==
  ASSUME NEW n \in Nat, NEW S, NEW lk \in Seq(S), Len(lk) = n, NEW h \in S,
         NEW recs \in Seq(1 .. n)
  PROVE  Chained(Append(lk, h), recs) <=> Chained(lk, recs)
<1>1. \A r \in 1 .. n : Append(lk, h)[r] = lk[r]
  OBVIOUS
<1>2. DOMAIN recs = 1 .. Len(recs) /\ \A i \in DOMAIN recs : recs[i] \in 1 .. n
  OBVIOUS
<1>3. \A i \in DOMAIN recs : Append(lk, h)[recs[i]] = lk[recs[i]]
  BY <1>1, <1>2
<1>4. QED
  BY <1>3, Zenon DEF Chained

LEMMA EndChain ==
  ASSUME NEW n \in Nat, NEW lk, NEW s \in ReadState(n), Chained(lk, EndLine(s).recs)
  PROVE  Chained(lk, s.recs)
<1>1. PICK recs, l : recs = s.recs /\ l = s.line
  OBVIOUS
<1>2. recs \in Seq(1 .. n) /\ l \in Seq(PieceOf(n))
  BY <1>1 DEF ReadState
<1>3. CASE s.ok /\ IsRecord(s.line)
  <2>1. PICK r : r = l[1][1]
    OBVIOUS
  <2>2. r \in 1 .. n
    BY <1>1, <1>2, <1>3, <2>1, RecordLine
  <2>3. EndLine(s).recs = Append(recs, r)
    BY <1>1, <1>3, <2>1, EndFacts
  <2>4. QED
    BY <1>1, <1>2, <2>2, <2>3, ChainGrows
<1>4. CASE ~(s.ok /\ IsRecord(s.line))
  BY <1>4, EndFacts
<1>5. QED
  BY <1>3, <1>4

-----------------------------------------------------------------------------
(* What holds of the pieces written, the file's and the buffer's together. *)
NoBlank(f)  == \A i \in 1 .. Len(f) : f[i] = Newline => i > 1 /\ f[i - 1] # Newline
Distinct(f) == \A i, j \in 1 .. Len(f) : f[i] = f[j] /\ f[i] # Newline => i = j
Sound(f, lk) == \A k \in 0 .. Len(f) : Chained(lk, EndLine(Reading(f)[k]).recs)
Stream(f, lk) == NoBlank(f) /\ Distinct(f) /\ Sound(f, lk)

Clean(f) == Reading(f)[Len(f)].ok
AtStart(f) == Reading(f)[Len(f)].line = <<>>

(* A record linked to h continues the chain that a reader finds in f.      *)
Resumed(f, h) == Clean(f) /\ AtStart(f) => h = Latest(Reading(f)[Len(f)].recs)

LEMMA CutStream ==
  ASSUME NEW n \in Nat, NEW f \in Seq(PieceOf(n)), NEW g \in Seq(PieceOf(n)), NEW lk,
         Len(g) <= Len(f), \A i \in 1 .. Len(g) : g[i] = f[i]
  PROVE  /\ Stream(f, lk) => Stream(g, lk)
         /\ Clean(f) => Clean(g)
<1>0. Len(f) \in Nat /\ Len(g) \in Nat /\ Len(g) \in 0 .. Len(f) /\ Len(f) \in 0 .. Len(f)
  OBVIOUS
<1>1. \A k \in 0 .. Len(g) : Reading(g)[k] = Reading(f)[k]
  BY <1>0, SamePrefix
<1>2. NoBlank(f) => NoBlank(g)
  <2>1. \A i \in 1 .. Len(g) : i \in 1 .. Len(f) /\ (i > 1 => i - 1 \in 1 .. Len(g))
    BY <1>0
  <2>2. QED
    BY <2>1 DEF NoBlank
<1>3. Distinct(f) => Distinct(g)
  <2>1. \A i \in 1 .. Len(g) : i \in 1 .. Len(f)
    BY <1>0
  <2>2. QED
    BY <2>1 DEF Distinct
<1>4. Sound(f, lk) => Sound(g, lk)
  <2>1. \A k \in 0 .. Len(g) : k \in 0 .. Len(f)
    BY <1>0
  <2>2. QED
    BY <1>1, <2>1 DEF Sound
<1>5. Clean(f) => Clean(g)
  <2>1. Len(f) \in Len(g) .. Len(f) /\ Len(g) \in 0 .. Len(g)
    BY <1>0
  <2>2. Reading(f)[Len(f)].ok => Reading(f)[Len(g)].ok
    BY <1>0, <2>1, ReadMore
  <2>3. QED
    BY <1>1, <2>1, <2>2 DEF Clean
<1>6. QED
  BY <1>2, <1>3, <1>4, <1>5 DEF Stream

(* What the three pieces of a line do to the records read.                 *)
Effect(s0, s1, s2, s3, r) ==
    /\ EndLine(s1).recs = s0.recs /\ EndLine(s2) = s3
    /\ EndLine(s3).recs = s3.recs /\ s3.line = <<>>
    /\ s3.ok <=> s0.ok /\ s0.line = <<>>
    /\ s3.ok => s3.recs = Longer(s0.recs, r)
    /\ ~s3.ok => s3.recs = s0.recs

LEMMA LineEffect ==
  ASSUME NEW n \in Nat, NEW f \in Seq(PieceOf(n)), NEW i \in 1 .. Len(f) - 2,
         NEW r \in 1 .. n, LineAt(f, i, r),
         NEW s0, s0 = Reading(f)[i - 1], NEW s1, s1 = Reading(f)[i],
         NEW s2, s2 = Reading(f)[i + 1], NEW s3, s3 = Reading(f)[i + 2]
  PROVE  Effect(s0, s1, s2, s3, r)
<1>1. s0 \in ReadState(n) /\ s1 \in ReadState(n) /\ s2 \in ReadState(n)
  BY ReadLine
<1>2. s1.recs = s0.recs /\ s2.recs = s0.recs /\ s3 = EndLine(s2) /\ s2.line # <<>>
  BY ReadLine
<1>3. s2.ok = s0.ok
  BY ReadLine
<1>4. /\ ~IsRecord(s1.line) /\ (IsRecord(s2.line) <=> s0.line = <<>>)
      /\ IsRecord(s2.line) => s2.line[1][1] = r
  BY ReadLine
<1>5. EndLine(s1).recs = s0.recs
  BY <1>1, <1>2, <1>4, EndFacts
<1>6. s3 \in ReadState(n) /\ s3.line = <<>>
  BY <1>1, <1>2, EndFacts
<1>7. EndLine(s3).recs = s3.recs
  <2>1. ~IsRecord(s3.line)
    <3>1. Len(<<>>) # 2
      OBVIOUS
    <3>2. QED
      BY <1>6, <3>1 DEF IsRecord
  <2>2. QED
    BY <1>6, <2>1, EndFacts
<1>8. CASE s0.ok /\ s0.line = <<>>
  <2>1. s2.ok /\ IsRecord(s2.line)
    BY <1>3, <1>4, <1>8
  <2>2. s3.ok
    BY <1>1, <1>2, <2>1, EndFacts
  <2>3. s3.recs = Append(s2.recs, s2.line[1][1])
    BY <1>1, <1>2, <2>1, EndFacts
  <2>4. s3.recs = Longer(s0.recs, r)
    BY <1>2, <1>4, <2>1, <2>3 DEF Longer
  <2>5. QED
    BY <1>2, <1>5, <1>6, <1>7, <1>8, <2>2, <2>4 DEF Effect
<1>9. CASE ~(s0.ok /\ s0.line = <<>>)
  <2>1. ~(s2.ok /\ IsRecord(s2.line))
    BY <1>3, <1>4, <1>9
  <2>2. ~s3.ok
    BY <1>1, <1>2, <2>1, EndFacts
  <2>3. s3.recs = s2.recs
    BY <1>1, <1>2, <2>1, EndFacts
  <2>4. QED
    BY <1>2, <1>5, <1>6, <1>7, <1>9, <2>2, <2>3 DEF Effect
<1>10. QED
  BY <1>8, <1>9

(* A line and its link, appended to a stream.                              *)
Adds(f, g, m) ==
    /\ Len(g) = Len(f) + 3 /\ \A i \in 1 .. Len(f) : g[i] = f[i]
    /\ LineAt(g, Len(f) + 1, m)

Continues(f, g, lk2, m) ==
    /\ Stream(g, lk2) /\ AtStart(g) /\ Resumed(g, m)
    /\ Clean(f) /\ AtStart(f) => Clean(g)

LEMMA AddLine ==
  ASSUME NEW n \in Nat, NEW m \in Nat, NEW f \in Seq(PieceOf(n)), NEW g \in Seq(PieceOf(m)),
         NEW lk \in Seq(Nat), NEW h \in Nat, NEW lk2
  PROVE  /\ m = n + 1 /\ Len(lk) = n /\ lk2 = Longer(lk, h)
         /\ Adds(f, g, m) /\ Stream(f, lk) /\ Resumed(f, h)
         => Continues(f, g, lk2, m)
<1>1. SUFFICES ASSUME m = n + 1, Len(lk) = n, lk2 = Append(lk, h),
                      Adds(f, g, m), Stream(f, lk), Resumed(f, h)
               PROVE  Continues(f, g, lk2, m)
  BY DEF Longer
<1>2. PICK len \in Nat : len = Len(f)
  OBVIOUS
<1>3. /\ Len(g) = len + 3 /\ \A i \in 1 .. len : g[i] = f[i]
      /\ LineAt(g, len + 1, m)
  BY <1>1, <1>2 DEF Adds
<1>4. /\ len \in Nat /\ Len(f) \in Nat /\ Len(g) \in Nat /\ m \in Nat /\ n \in Nat
      /\ len + 1 \in 1 .. Len(g) - 2 /\ len + 1 \in 1 .. Len(g) /\ len + 2 \in 1 .. Len(g)
      /\ len + 3 \in 1 .. Len(g) /\ len \in 0 .. Len(f) /\ len <= Len(g) /\ m \in 1 .. m
      /\ (len + 1) - 1 = len /\ (len + 1) + 1 = len + 2 /\ (len + 1) + 2 = len + 3
  BY <1>1, <1>2, <1>3
<1>5. g[len + 1] = <<m, "head">> /\ g[len + 2] = <<m, "rest">> /\ g[len + 3] = Newline
  BY <1>4, <1>3 DEF LineAt
<1>6. g[len + 1] # Newline /\ g[len + 2] # Newline /\ g[len + 1] # g[len + 2]
  BY <1>5 DEF Newline
<1>7. \A i \in 1 .. len : g[i] = f[i] /\ f[i] \in PieceOf(n)
  BY <1>2, <1>3
<1>8. g[len + 1] \notin PieceOf(n) /\ g[len + 2] \notin PieceOf(n)
  BY <1>1, <1>5 DEF PieceOf, Newline
<1>9. \A i \in 1 .. Len(g) : i \in 1 .. len \/ i = len + 1 \/ i = len + 2 \/ i = len + 3
  BY <1>3
<1>10. NoBlank(g)
  <2>1. ASSUME NEW i \in 1 .. Len(g), g[i] = Newline
        PROVE  i > 1 /\ g[i - 1] # Newline
    <3>1. CASE i \in 1 .. len
      <4>1. i \in 1 .. Len(f) /\ f[i] = Newline
        BY <1>2, <1>7, <2>1, <3>1
      <4>2. i > 1 /\ f[i - 1] # Newline
        BY <1>1, <4>1 DEF Stream, NoBlank
      <4>3. i - 1 \in 1 .. len
        BY <1>4, <3>1, <4>2
      <4>4. QED
        BY <1>7, <4>2, <4>3
    <3>2. CASE i = len + 3
      <4>1. i > 1 /\ i - 1 = len + 2
        BY <1>4, <3>2
      <4>2. QED
        BY <1>6, <4>1
    <3>3. QED
      BY <1>6, <1>9, <2>1, <3>1, <3>2
  <2>2. QED
    BY <2>1 DEF NoBlank
<1>11. Distinct(g)
  <2>1. ASSUME NEW i \in 1 .. Len(g), NEW j \in 1 .. Len(g), g[i] = g[j], g[i] # Newline
        PROVE  i = j
    <3>1. CASE i \in 1 .. len /\ j \in 1 .. len
      BY <1>1, <1>2, <1>7, <2>1, <3>1 DEF Stream, Distinct
    <3>2. CASE ~(i \in 1 .. len /\ j \in 1 .. len)
      BY <1>5, <1>6, <1>7, <1>8, <1>9, <2>1, <3>2
    <3>3. QED
      BY <3>1, <3>2
  <2>2. QED
    BY <2>1 DEF Distinct
<1>12. \A k \in 0 .. len : Reading(g)[k] = Reading(f)[k]
  BY <1>4, <1>2, <1>3, SamePrefix
<1>13. PICK s0, s1, s2, s3 : /\ s0 = Reading(g)[len] /\ s1 = Reading(g)[len + 1]
                            /\ s2 = Reading(g)[len + 2] /\ s3 = Reading(g)[len + 3]
  OBVIOUS
<1>14. s0 = Reading(f)[len] /\ s0 \in ReadState(n)
  BY <1>4, <1>2, <1>12, <1>13, ReadTypes
<1>15. PICK fresh : fresh = (s0.ok /\ s0.line = <<>>)
  OBVIOUS
<1>16. PICK recs, more : recs = s0.recs /\ more = Longer(recs, m)
  OBVIOUS
<1>17. recs \in Seq(1 .. n) /\ recs \in Seq(1 .. m)
  <2>1. \A s \in ReadState(n) : s.recs \in Seq(1 .. n)
    BY DEF ReadState
  <2>2. 1 .. n \subseteq 1 .. m
    BY <1>1
  <2>3. QED
    BY <1>14, <1>16, <2>1, <2>2, SeqMonotonic
<1>18. Len(more) = Len(recs) + 1 /\ more[Len(recs) + 1] = m /\ more # <<>>
  <2>1. PICK S : S = 1 .. m
    OBVIOUS
  <2>2. recs \in Seq(S) /\ m \in S
    BY <1>4, <1>17, <2>1
  <2>3. Len(more) = Len(recs) + 1 /\ more # <<>>
    BY <1>16, <2>2, LongerFacts
  <2>4. more[Len(recs) + 1] = m
    <3>1. PICK x \in S : x = m
      BY <2>2
    <3>2. Longer(recs, x)[Len(recs) + 1] = x
      BY <2>2, LongerFacts
    <3>3. QED
      BY <1>16, <3>1, <3>2
  <2>5. QED
    BY <2>3, <2>4
<1>19. /\ EndLine(s1).recs = recs /\ EndLine(s2).recs = s3.recs
       /\ EndLine(s3).recs = s3.recs /\ s3.line = <<>>
       /\ fresh => s3.ok /\ s3.recs = more
       /\ ~fresh => ~s3.ok /\ s3.recs = recs
  <2>0. PICK i \in Nat : i = len + 1
    OBVIOUS
  <2>1. /\ i \in 1 .. Len(g) - 2 /\ m \in 1 .. m /\ m \in Nat /\ LineAt(g, i, m)
        /\ s0 = Reading(g)[i - 1] /\ s1 = Reading(g)[i]
        /\ s2 = Reading(g)[i + 1] /\ s3 = Reading(g)[i + 2]
    BY <1>4, <1>13, <1>3, <2>0
  <2>2. Effect(s0, s1, s2, s3, m)
    BY <2>1, LineEffect
  <2>3. QED
    BY <1>15, <1>16, <2>2 DEF Effect
<1>20. Chained(lk2, recs)
  <2>1. Chained(lk, EndLine(s0).recs)
    BY <1>1, <1>2, <1>4, <1>14 DEF Stream, Sound
  <2>2. Chained(lk, recs)
    BY <1>14, <1>16, <2>1, EndChain
  <2>3. QED
    BY <1>1, <1>17, <2>2, ChainKept
<1>21. fresh => Chained(lk2, more)
  <2>1. SUFFICES ASSUME fresh
                 PROVE  Chained(lk2, more)
    OBVIOUS
  <2>2. h = Latest(recs)
    BY <1>1, <1>2, <1>14, <1>15, <1>16, <2>1 DEF Resumed, Clean, AtStart
  <2>3. lk2[m] = h
    BY <1>1
  <2>4. m \in 1 .. m /\ more = Append(recs, m)
    BY <1>4, <1>16 DEF Longer
  <2>5. QED
    BY <1>17, <1>20, <2>2, <2>3, <2>4, ChainGrows
<1>22. Chained(lk2, s3.recs)
  BY <1>19, <1>20, <1>21
<1>23. Sound(g, lk2)
  <2>1. ASSUME NEW k \in 0 .. len
        PROVE  Chained(lk2, EndLine(Reading(g)[k]).recs)
    <3>1. Reading(g)[k] = Reading(f)[k] /\ k \in 0 .. Len(f)
      BY <1>2, <1>12
    <3>2. EndLine(Reading(f)[k]).recs \in Seq(1 .. n)
      BY <3>1, ReadTypes, EndFacts DEF ReadState
    <3>3. Chained(lk, EndLine(Reading(f)[k]).recs)
      BY <1>1, <3>1 DEF Stream, Sound
    <3>4. PICK r : r = EndLine(Reading(f)[k]).recs
      OBVIOUS
    <3>5. Chained(lk2, r)
      BY <1>1, <3>2, <3>3, <3>4, ChainKept
    <3>6. QED
      BY <3>1, <3>4, <3>5
  <2>2. Chained(lk2, EndLine(s1).recs)
    BY <1>19, <1>20
  <2>3. Chained(lk2, EndLine(s2).recs) /\ Chained(lk2, EndLine(s3).recs)
    BY <1>19, <1>22
  <2>4. \A k \in 0 .. Len(g) : k \in 0 .. len \/ k = len + 1 \/ k = len + 2 \/ k = len + 3
    BY <1>4, <1>3
  <2>5. QED
    BY <1>13, <2>1, <2>2, <2>3, <2>4 DEF Sound
<1>24. Reading(g)[Len(g)] = s3
  BY <1>13, <1>3
<1>25. Resumed(g, m)
  <2>1. Latest(more) = m
    BY <1>18 DEF Latest
  <2>2. QED
    BY <1>19, <1>24, <2>1 DEF Resumed, Clean
<1>26. Clean(f) /\ AtStart(f) => Clean(g)
  BY <1>2, <1>14, <1>15, <1>19, <1>24 DEF Clean, AtStart
<1>27. AtStart(g)
  BY <1>19, <1>24 DEF AtStart
<1>28. QED
  BY <1>10, <1>11, <1>23, <1>25, <1>26, <1>27 DEF Stream, Continues

(* What NewWriter finds in a file without a blank line.                    *)
LastHash(f) == IF IsRecord(LastLine(f)) THEN LastLine(f)[1][1] ELSE NoHash

LEMMA OpenResumes ==
  ASSUME NEW n \in Nat, NEW f \in Seq(PieceOf(n)), NoBlank(f)
  PROVE  Resumed(f, LastHash(f)) /\ (EndsInNewline(f) => AtStart(f))
<1>0. Len(f) \in Nat
  OBVIOUS
<1>1. CASE f = <<>>
  <2>1. Len(f) = 0 /\ Reading(f)[Len(f)] = Start
    BY <1>1, ReadSteps
  <2>2. ~IsRecord(LastLine(f))
    <3>1. PICK end, i : end = Len(f) /\ i \in 0 .. end /\ LastLine(f) = SubSeq(f, i + 1, end)
      BY <1>1, LastLineIs
    <3>2. LastLine(f) = <<>>
      BY <2>1, <3>1, SubSeqEmpty
    <3>3. Len(LastLine(f)) # 2
      BY <3>2
    <3>4. QED
      BY <3>3 DEF IsRecord
  <2>3. QED
    BY <2>1, <2>2 DEF Resumed, LastHash, Latest, Start, AtStart
<1>2. CASE f # <<>>
  <2>1. Len(f) \in 1 .. Len(f)
    BY <1>0, <1>2
  <2>2. EndsInNewline(f) <=> f[Len(f)] = Newline
    BY <1>2 DEF EndsInNewline, Last
  <2>3. AtStart(f) <=> f[Len(f)] = Newline
    BY <2>1, LastPiece DEF AtStart
  <2>4. SUFFICES ASSUME Clean(f), f[Len(f)] = Newline
                 PROVE  LastHash(f) = Latest(Reading(f)[Len(f)].recs)
    BY <2>2, <2>3 DEF Resumed
  <2>5. PICK end : end = Len(f) - 1
    OBVIOUS
  <2>6. end \in 0 .. Len(f) /\ end # 0 /\ end \in 1 .. Len(f) /\ f[end] # Newline
    BY <1>0, <2>1, <2>4, <2>5 DEF NoBlank
  <2>7. PICK i \in 0 .. end : /\ i = 0 \/ f[i] = Newline
                              /\ \A j \in i + 1 .. end : f[j] # Newline
                              /\ LastLine(f) = SubSeq(f, i + 1, end)
    BY <1>2, <2>2, <2>4, <2>5, LastLineIs
  <2>8. PICK s, t : s = Reading(f)[end] /\ t = Reading(f)[Len(f)]
    OBVIOUS
  <2>9. s.line = LastLine(f)
    <3>1. i \in 0 .. Len(f) /\ end \in i .. Len(f)
      BY <1>0, <2>6, <2>7
    <3>2. QED
      BY <2>7, <2>8, <3>1, LineSince
  <2>10. s.line # <<>>
    BY <2>6, <2>8, LastPiece
  <2>11. s \in ReadState(n) /\ t = EndLine(s)
    BY <2>1, <2>4, <2>5, <2>8, ReadNext
  <2>12. s.ok /\ IsRecord(s.line)
    <3>1. t.ok
      BY <2>4, <2>8 DEF Clean
    <3>2. s.ok
      BY <2>11, <3>1, EndFacts
    <3>3. IsRecord(s.line)
      BY <2>10, <2>11, <3>1, EndFacts
    <3>4. QED
      BY <3>2, <3>3
  <2>13. PICK recs, l : recs = s.recs /\ l = s.line
    OBVIOUS
  <2>14. recs \in Seq(1 .. n) /\ l[1][1] \in 1 .. n
    <3>1. l \in Seq(PieceOf(n)) /\ recs \in Seq(1 .. n)
      BY <2>11, <2>13 DEF ReadState
    <3>2. QED
      BY <2>12, <2>13, <3>1, RecordLine
  <2>15. PICK r : r = l[1][1]
    OBVIOUS
  <2>16. t.recs = Append(recs, r)
    BY <2>11, <2>12, <2>13, <2>15, EndFacts
  <2>17. Latest(t.recs) = r
    <3>1. PICK S : S = 1 .. n
      OBVIOUS
    <3>2. recs \in Seq(S) /\ r \in S
      BY <2>14, <2>15, <3>1
    <3>3. /\ Append(recs, r) # <<>> /\ Len(Append(recs, r)) = Len(recs) + 1
          /\ Append(recs, r)[Len(recs) + 1] = r
      BY <3>2, AppendProperties
    <3>4. QED
      BY <2>16, <3>3 DEF Latest
  <2>18. LastHash(f) = r
    BY <2>9, <2>12, <2>13, <2>15 DEF LastHash
  <2>19. QED
    BY <2>8, <2>17, <2>18
<1>3. QED
  BY <1>1, <1>2

-----------------------------------------------------------------------------
(* The stream along the steps.                                             *)
(* What has been written, in the file or still in the buffer, in the order *)
(* of the Write calls: a sound stream, which the writer's next record will *)
(* continue; a clean one too, as long as nothing torn has been written on. *)
StreamInv ==
    /\ writer # "open" => buf = <<>>
    /\ Stream(file \o buf, link)
    /\ writer = "open" => Resumed(file \o buf, prev)
    /\ ~torn => /\ Clean(file \o buf)
                /\ writer = "open" => AtStart(file \o buf)

LEMMA PrefixJoin ==
  ASSUME NEW S, NEW f \in Seq(S), NEW p \in Seq(S), NEW k \in 0 .. Len(p),
         NEW g, g = f \o SubSeq(p, 1, k), NEW h, h = f \o p
  PROVE  Len(g) <= Len(h) /\ \A i \in 1 .. Len(g) : g[i] = h[i]
<1>1. PICK a : a = SubSeq(p, 1, k)
  OBVIOUS
<1>2. a \in Seq(S) /\ Len(a) = k /\ \A i \in 1 .. k : a[i] = p[i]
  BY <1>1, Cut
<1>3. /\ Len(g) = Len(f) + k
      /\ \A i \in 1 .. Len(f) : g[i] = f[i]
      /\ \A i \in 1 .. k : g[Len(f) + i] = a[i]
  BY <1>1, <1>2, Join
<1>4. /\ Len(h) = Len(f) + Len(p)
      /\ \A i \in 1 .. Len(f) : h[i] = f[i]
      /\ \A i \in 1 .. Len(p) : h[Len(f) + i] = p[i]
  BY Join
<1>5. PICK m, l : m = Len(f) /\ l = Len(p)
  OBVIOUS
<1>6. m \in Nat /\ l \in Nat /\ k \in 0 .. l
  BY <1>5
<1>7. ASSUME NEW i \in 1 .. m + k
      PROVE  g[i] = h[i]
  <2>1. CASE i <= m
    <3>1. i \in 1 .. m
      BY <1>6, <2>1
    <3>2. QED
      BY <1>3, <1>4, <1>5, <3>1
  <2>2. CASE i > m
    <3>1. PICK j \in 1 .. k : i = m + j
      <4>1. i - m \in 1 .. k /\ i = m + (i - m)
        BY <1>6, <2>2
      <4>2. QED
        BY <4>1
    <3>2. j \in 1 .. l
      BY <1>6
    <3>3. g[m + j] = a[j] /\ h[m + j] = p[j] /\ a[j] = p[j]
      BY <1>2, <1>3, <1>4, <1>5, <3>2
    <3>4. QED
      BY <3>1, <3>3
  <2>3. i <= m \/ i > m
    BY <1>6
  <2>4. QED
    BY <2>1, <2>2, <2>3
<1>8. QED
  BY <1>3, <1>4, <1>5, <1>6, <1>7

(* The stream a Write makes, if all of it is written.                      *)
LEMMA WrittenLine ==
  ASSUME TypeInv, NEW n, n = Len(link) + 1, NEW f, f = file \o buf, NEW h, h = f \o Line(n)
  PROVE  /\ n \in Nat /\ Len(link) \in Nat
         /\ f \in Seq(PieceOf(Len(link))) /\ h \in Seq(PieceOf(n))
         /\ Adds(f, h, n) /\ h = file \o (buf \o Line(n))
<1>0. Len(link) \in Nat /\ file \in Seq(PieceOf(Len(link))) /\ buf \in Seq(PieceOf(Len(link)))
  BY DEF TypeInv
<1>1. /\ n \in Nat \ {0} /\ PieceOf(Len(link)) \subseteq PieceOf(n)
      /\ file \in Seq(PieceOf(n)) /\ buf \in Seq(PieceOf(n))
      /\ Line(n) \in Seq(PieceOf(n)) /\ Len(Line(n)) = 3
  BY NextLine
<1>2. f \in Seq(PieceOf(Len(link)))
  BY <1>0, Join
<1>3. PICK S : S = PieceOf(n)
  OBVIOUS
<1>4. PICK l : l = Line(n)
  OBVIOUS
<1>5. file \in Seq(S) /\ buf \in Seq(S) /\ l \in Seq(S) /\ Len(l) = 3
  BY <1>1, <1>3, <1>4
<1>6. f \in Seq(S)
  BY <1>5, Join
<1>7. h = file \o (buf \o l)
  BY <1>4, <1>5, ConcatAssociative
<1>8. /\ h \in Seq(S) /\ Len(h) = Len(f) + Len(l)
      /\ \A i \in 1 .. Len(f) : h[i] = f[i]
      /\ \A i \in 1 .. Len(l) : h[Len(f) + i] = l[i]
  BY <1>4, <1>5, <1>6, Join
<1>9. LineAt(h, Len(f) + 1, n)
  <2>1. l[1] = <<n, "head">> /\ l[2] = <<n, "rest">> /\ l[3] = Newline
    BY <1>1, <1>4, LinePieces
  <2>2. 1 \in 1 .. 3 /\ 2 \in 1 .. 3 /\ 3 \in 1 .. 3
    OBVIOUS
  <2>3. h[Len(f) + 1] = l[1] /\ h[Len(f) + 2] = l[2] /\ h[Len(f) + 3] = l[3]
    BY <1>5, <1>8, <2>2
  <2>4. (Len(f) + 1) + 1 = Len(f) + 2 /\ (Len(f) + 1) + 2 = Len(f) + 3
    BY <1>6
  <2>5. QED
    BY <2>1, <2>3, <2>4 DEF LineAt
<1>10. Adds(f, h, n)
  BY <1>5, <1>8, <1>9 DEF Adds
<1>11. QED
  BY <1>0, <1>1, <1>2, <1>3, <1>4, <1>7, <1>8, <1>10

(* The steps that leave no open writer: the file is the start of what was  *)
(* written.                                                                *)
LEMMA Shrinks ==
  ASSUME StreamInv, TypeInv, TypeInv', NEW f, f = file \o buf,
         Len(file') <= Len(f), \A i \in 1 .. Len(file') : file'[i] = f[i],
         buf' = <<>>, link' = link, torn' = torn, writer' # "open"
  PROVE  StreamInv'
<1>1. PICK g : g = file'
  OBVIOUS
<1>2. Len(link) \in Nat /\ f \in Seq(PieceOf(Len(link))) /\ g \in Seq(PieceOf(Len(link)))
  BY <1>1, Join DEF TypeInv
<1>3. Stream(f, link) /\ (~torn => Clean(f))
  BY DEF StreamInv
<1>4. Stream(g, link) /\ (~torn => Clean(g))
  BY <1>1, <1>2, <1>3, CutStream
<1>5. file' \o buf' = g
  BY <1>1, <1>2, ConcatEmptySeq
<1>6. QED
  BY <1>4, <1>5 DEF StreamInv

(* A flush that works moves the buffer into the file.                      *)
LEMMA Flushes ==
  ASSUME StreamInv, TypeInv, file' = file \o buf, buf' = <<>>, writer' = writer,
         link' = link, torn' = torn, prev' = prev
  PROVE  StreamInv'
<1>1. file \o buf \in Seq(PieceOf(Len(link)))
  BY Join DEF TypeInv
<1>2. file' \o buf' = file \o buf
  BY <1>1, ConcatEmptySeq
<1>3. QED
  BY <1>2 DEF StreamInv

LEMMA StepStream ==
  ASSUME StreamInv, TypeInv, TypeInv', [Next]_vars
  PROVE  StreamInv'
<1>0. /\ Len(link) \in Nat /\ Len(file) \in Nat /\ Len(buf) \in Nat /\ prev \in Nat
      /\ file \in Seq(PieceOf(Len(link))) /\ buf \in Seq(PieceOf(Len(link)))
      /\ link \in Seq(Nat)
  <2>1. link \in Seq(0 .. MaxRecords) /\ 0 .. MaxRecords \subseteq Nat
    BY DEF TypeInv
  <2>2. link \in Seq(Nat)
    BY <2>1, SeqMonotonic
  <2>3. QED
    BY <2>2 DEF TypeInv
<1>1. PICK f : f = file \o buf
  OBVIOUS
<1>2. /\ f \in Seq(PieceOf(Len(link))) /\ Len(f) = Len(file) + Len(buf)
      /\ \A i \in 1 .. Len(file) : f[i] = file[i]
  BY <1>0, <1>1, Join
<1>3. CASE Open
  <2>1. /\ buf = <<>> /\ buf' = <<>> /\ file' = file /\ link' = link /\ writer' = "open"
        /\ prev' = LastHash(file) /\ torn' = (torn \/ ~EndsInNewline(file))
    BY <1>3 DEF Open, StreamInv, LastHash
  <2>2. file \o buf = file /\ file' \o buf' = file
    BY <1>0, <2>1, ConcatEmptySeq
  <2>3. Stream(file, link) /\ (~torn => Clean(file))
    BY <2>2 DEF StreamInv
  <2>4. Resumed(file, LastHash(file)) /\ (EndsInNewline(file) => AtStart(file))
    BY <1>0, <2>3, OpenResumes DEF Stream
  <2>5. QED
    BY <2>1, <2>2, <2>3, <2>4 DEF StreamInv
<1>4. CASE Write
  <2>1. PICK n, h : n = Len(link) + 1 /\ h = f \o Line(n)
    OBVIOUS
  <2>2. /\ n \in Nat /\ h \in Seq(PieceOf(n)) /\ Adds(f, h, n)
        /\ h = file \o (buf \o Line(n))
    BY <1>1, <2>1, WrittenLine
  <2>3. PICK p : p = buf \o Line(n)
    OBVIOUS
  <2>4. PICK k \in 0 .. Len(p) : file' = file \o SubSeq(p, 1, k) /\ buf' = SubSeq(p, k + 1, Len(p))
    BY <1>4, <2>1, <2>3 DEF Write, Spill
  <2>5. file \in Seq(PieceOf(n)) /\ p \in Seq(PieceOf(n))
    BY <2>1, <2>3, NextLine
  <2>6. file' \o buf' = h
    BY <2>2, <2>3, <2>4, <2>5, Spilled
  <2>7. /\ writer = "open" /\ writer' = "open" /\ link' = Append(link, prev)
        /\ prev' = n /\ torn' = torn
    BY <1>4, <2>1 DEF Write
  <2>8. Stream(f, link) /\ Resumed(f, prev) /\ (~torn => Clean(f) /\ AtStart(f))
    BY <1>1, <2>7 DEF StreamInv
  <2>9. PICK lk2 : lk2 = Longer(link, prev)
    OBVIOUS
  <2>10. /\ Stream(h, lk2) /\ AtStart(h) /\ Resumed(h, n)
         /\ Clean(f) /\ AtStart(f) => Clean(h)
    <3>1. PICK l : l = Len(link)
      OBVIOUS
    <3>2. /\ l \in Nat /\ n = l + 1 /\ f \in Seq(PieceOf(l)) /\ h \in Seq(PieceOf(n))
          /\ link \in Seq(Nat) /\ prev \in Nat /\ n \in Nat
      BY <1>0, <1>2, <2>1, <2>2, <3>1
    <3>3. Continues(f, h, lk2, n)
      BY <2>2, <2>8, <2>9, <3>1, <3>2, AddLine
    <3>4. QED
      BY <3>3 DEF Continues
  <2>11. QED
    BY <2>6, <2>7, <2>8, <2>9, <2>10 DEF StreamInv, Longer
<1>5. CASE WriteFails
  <2>1. PICK n, h : n = Len(link) + 1 /\ h = f \o Line(n)
    OBVIOUS
  <2>2. /\ n \in Nat /\ h \in Seq(PieceOf(n)) /\ Adds(f, h, n)
        /\ h = file \o (buf \o Line(n))
    BY <1>1, <2>1, WrittenLine
  <2>3. PICK p : p = buf \o Line(n)
    OBVIOUS
  <2>4. PICK k \in 0 .. Len(p) - 1 : file' = file \o SubSeq(p, 1, k)
    BY <1>5, <2>1, <2>3 DEF WriteFails, FlushFails
  <2>5. file \in Seq(PieceOf(n)) /\ p \in Seq(PieceOf(n)) /\ k \in 0 .. Len(p)
    BY <2>1, <2>3, NextLine
  <2>6. /\ writer = "open" /\ writer' = "failed" /\ link' = Append(link, prev)
        /\ buf' = <<>> /\ torn' = torn
    BY <1>5, <2>1 DEF WriteFails, FlushFails
  <2>7. PICK g : g = file'
    OBVIOUS
  <2>8. Len(g) <= Len(h) /\ \A i \in 1 .. Len(g) : g[i] = h[i]
    <3>1. PICK S : S = PieceOf(n)
      OBVIOUS
    <3>2. /\ file \in Seq(S) /\ p \in Seq(S) /\ k \in 0 .. Len(p)
          /\ g = file \o SubSeq(p, 1, k) /\ h = file \o p
      BY <2>2, <2>3, <2>4, <2>5, <2>7, <3>1
    <3>3. QED
      BY <3>2, PrefixJoin
  <2>9. g \in Seq(PieceOf(n)) /\ file' \o buf' = g
    <3>1. Len(link') = n
      BY <1>0, <2>1, <2>6
    <3>2. g \in Seq(PieceOf(n))
      BY <2>7, <3>1 DEF TypeInv
    <3>3. QED
      BY <2>6, <2>7, <3>2, ConcatEmptySeq
  <2>10. Stream(f, link) /\ Resumed(f, prev) /\ (~torn => Clean(f) /\ AtStart(f))
    BY <1>1, <2>6 DEF StreamInv
  <2>11. PICK lk2 : lk2 = Longer(link, prev)
    OBVIOUS
  <2>12. Stream(h, lk2) /\ (Clean(f) /\ AtStart(f) => Clean(h))
    <3>1. PICK l : l = Len(link)
      OBVIOUS
    <3>2. /\ l \in Nat /\ n = l + 1 /\ f \in Seq(PieceOf(l)) /\ h \in Seq(PieceOf(n))
          /\ link \in Seq(Nat) /\ prev \in Nat /\ n \in Nat
      BY <1>0, <1>2, <2>1, <2>2, <3>1
    <3>3. Continues(f, h, lk2, n)
      BY <2>2, <2>10, <2>11, <3>1, <3>2, AddLine
    <3>4. QED
      BY <3>3 DEF Continues
  <2>13. Stream(g, lk2) /\ (Clean(h) => Clean(g))
    BY <2>2, <2>8, <2>9, <2>12, CutStream
  <2>14. QED
    BY <2>6, <2>9, <2>10, <2>11, <2>12, <2>13 DEF StreamInv, Longer
<1>6. CASE Sync
  BY <1>6, Flushes DEF Sync
<1>7. CASE Close
  <2>1. file' = f /\ buf' = <<>> /\ link' = link /\ torn' = torn /\ writer' # "open"
    BY <1>1, <1>7 DEF Close
  <2>2. Len(file') <= Len(f) /\ \A i \in 1 .. Len(file') : file'[i] = f[i]
    BY <1>2, <2>1
  <2>3. QED
    BY <1>1, <2>1, <2>2, Shrinks
<1>8. CASE SyncFails /\ file' = file \o buf /\ writer' = writer
  BY <1>8, Flushes DEF SyncFails, FlushFails
<1>9. CASE (SyncFails /\ FlushFails(buf)) \/ CloseFails
  <2>1. PICK k \in 0 .. Len(buf) : file' = file \o SubSeq(buf, 1, k)
    <3>1. CASE SyncFails /\ FlushFails(buf)
      <4>1. PICK k \in 0 .. Len(buf) - 1 : file' = file \o SubSeq(buf, 1, k)
        BY <3>1 DEF FlushFails
      <4>2. k \in 0 .. Len(buf)
        BY <1>0
      <4>3. QED
        BY <4>1, <4>2
    <3>2. CASE CloseFails
      BY <3>2 DEF CloseFails
    <3>3. QED
      BY <1>9, <3>1, <3>2
  <2>2. buf' = <<>> /\ link' = link /\ torn' = torn /\ writer' # "open"
    BY <1>9 DEF SyncFails, FlushFails, CloseFails
  <2>3. Len(file') <= Len(f) /\ \A i \in 1 .. Len(file') : file'[i] = f[i]
    <3>1. PICK g : g = file'
      OBVIOUS
    <3>2. Len(g) <= Len(f) /\ \A i \in 1 .. Len(g) : g[i] = f[i]
      BY <1>0, <1>1, <2>1, <3>1, PrefixJoin
    <3>3. QED
      BY <3>1, <3>2
  <2>4. QED
    BY <1>1, <2>2, <2>3, Shrinks
<1>10. CASE Crash \/ PowerLoss
  <2>1. buf' = <<>> /\ link' = link /\ torn' = torn /\ writer' # "open"
    BY <1>10 DEF Crash, PowerLoss
  <2>2. Len(file') <= Len(file) /\ \A i \in 1 .. Len(file') : file'[i] = file[i]
    <3>1. CASE Crash
      <4>1. file' = file
        BY <3>1 DEF Crash
      <4>2. QED
        BY <1>0, <4>1
    <3>2. CASE PowerLoss
      <4>1. PICK k \in durable .. Len(file) : file' = SubSeq(file, 1, k)
        BY <3>2 DEF PowerLoss
      <4>2. k \in 0 .. Len(file) /\ k <= Len(file)
        BY <1>0 DEF TypeInv
      <4>3. Len(file') = k /\ \A i \in 1 .. k : file'[i] = file[i]
        BY <1>0, <4>1, <4>2, Cut
      <4>4. QED
        BY <4>2, <4>3
    <3>3. QED
      BY <1>10, <3>1, <3>2
  <2>3. Len(file') \in Nat
    BY DEF TypeInv
  <2>4. Len(file') <= Len(f) /\ \A i \in 1 .. Len(file') : file'[i] = f[i]
    <3>1. \A i \in 1 .. Len(file') : i \in 1 .. Len(file)
      BY <1>0, <2>2, <2>3
    <3>2. QED
      BY <1>0, <1>2, <2>2, <2>3, <3>1
  <2>5. QED
    BY <1>1, <2>1, <2>4, Shrinks
<1>11. CASE UNCHANGED vars
  BY <1>11 DEF vars, StreamInv
<1>12. QED
  BY <1>3, <1>4, <1>5, <1>6, <1>7, <1>8, <1>9, <1>10, <1>11 DEF Next, SyncFails

-----------------------------------------------------------------------------
(* The three properties.                                                   *)
(* No step touches what has been synced.                                   *)
LEMMA DurableKept ==
  ASSUME TypeInv, [Next]_vars
  PROVE  durable <= Len(file') /\ \A i \in 1 .. durable : file'[i] = file[i]
<1>0. /\ Len(link) \in Nat /\ Len(file) \in Nat /\ Len(buf) \in Nat
      /\ file \in Seq(PieceOf(Len(link))) /\ buf \in Seq(PieceOf(Len(link)))
      /\ durable \in Nat /\ durable <= Len(file)
  BY DEF TypeInv
<1>1. SUFFICES \/ Len(file) <= Len(file') /\ \A i \in 1 .. Len(file) : file'[i] = file[i]
               \/ \E k \in durable .. Len(file) :
                     Len(file') = k /\ \A i \in 1 .. k : file'[i] = file[i]
  <2>1. Len(file') \in Nat
    BY StepTypes DEF TypeInv
  <2>2. \A k \in durable .. Len(file) : durable <= k /\ \A i \in 1 .. durable : i \in 1 .. k
    BY <1>0
  <2>3. \A i \in 1 .. durable : i \in 1 .. Len(file)
    BY <1>0
  <2>4. Len(file) <= Len(file') => durable <= Len(file')
    BY <1>0, <2>1
  <2>5. QED
    BY <2>2, <2>3, <2>4
<1>2. CASE Write \/ WriteFails
  <2>1. PICK n, p : n = Len(link) + 1 /\ p = buf \o Line(n)
    OBVIOUS
  <2>2. /\ n \in Nat /\ file \in Seq(PieceOf(n)) /\ p \in Seq(PieceOf(n)) /\ Len(p) \in Nat
    BY <1>0, <2>1, NextLine
  <2>3. PICK k \in 0 .. Len(p) : file' = file \o SubSeq(p, 1, k)
    <3>1. CASE Write
      BY <2>1, <3>1 DEF Write, Spill
    <3>2. CASE WriteFails
      <4>1. PICK k \in 0 .. Len(p) - 1 : file' = file \o SubSeq(p, 1, k)
        BY <2>1, <3>2 DEF WriteFails, FlushFails
      <4>2. k \in 0 .. Len(p)
        BY <2>2
      <4>3. QED
        BY <4>1, <4>2
    <3>3. QED
      BY <1>2, <3>1, <3>2
  <2>4. QED
    BY <2>2, <2>3, SpillType
<1>3. CASE file' = file \o buf
  BY <1>0, <1>3, AllGrows
<1>4. CASE (SyncFails /\ FlushFails(buf)) \/ CloseFails
  <2>1. PICK k \in 0 .. Len(buf) : file' = file \o SubSeq(buf, 1, k)
    <3>1. CASE SyncFails /\ FlushFails(buf)
      <4>1. PICK k \in 0 .. Len(buf) - 1 : file' = file \o SubSeq(buf, 1, k)
        BY <3>1 DEF FlushFails
      <4>2. k \in 0 .. Len(buf)
        BY <1>0
      <4>3. QED
        BY <4>1, <4>2
    <3>2. CASE CloseFails
      BY <3>2 DEF CloseFails
    <3>3. QED
      BY <1>4, <3>1, <3>2
  <2>2. QED
    BY <1>0, <2>1, SpillType
<1>5. CASE PowerLoss
  <2>1. PICK k \in durable .. Len(file) : file' = SubSeq(file, 1, k)
    BY <1>5 DEF PowerLoss
  <2>2. k \in 0 .. Len(file)
    BY <1>0
  <2>3. Len(file') = k /\ \A i \in 1 .. k : file'[i] = file[i]
    BY <1>0, <2>1, <2>2, Cut
  <2>4. QED
    BY <2>3
<1>6. CASE UNCHANGED file
  BY <1>0, <1>6
<1>7. QED
  BY <1>2, <1>3, <1>4, <1>5, <1>6
     DEF Next, vars, Open, Sync, Close, SyncFails, Crash

(* What the file holds: the start of what was written.                     *)
LEMMA FileStream ==
  ASSUME IInv, StreamInv
  PROVE  /\ Len(link) \in Nat /\ file \in Seq(PieceOf(Len(link)))
         /\ Stream(file, link) /\ (~torn => Clean(file))
<1>1. /\ Len(link) \in Nat /\ file \in Seq(PieceOf(Len(link)))
      /\ buf \in Seq(PieceOf(Len(link)))
  BY DEF IInv, TypeInv
<1>2. PICK f : f = file \o buf
  OBVIOUS
<1>3. /\ f \in Seq(PieceOf(Len(link))) /\ Len(file) <= Len(f)
      /\ \A i \in 1 .. Len(file) : file[i] = f[i]
  BY <1>1, <1>2, Join
<1>4. Stream(f, link) /\ (~torn => Clean(f))
  BY <1>2 DEF StreamInv
<1>5. QED
  BY <1>1, <1>3, <1>4, CutStream

LEMMA ReadableIs ==
  ASSUME NEW f
  PROVE  Readable(f) = ToSet(EndLine(Reading(f)[Len(f)]).recs)
BY DEF Readable, All

THEOREM Streams == Spec => []StreamInv
<1>1. Init => StreamInv
  <2> SUFFICES ASSUME Init PROVE StreamInv
    OBVIOUS
  <2>1. /\ file = <<>> /\ buf = <<>> /\ writer = "none"
    BY DEF Init
  <2>2. PICK f : f = file \o buf
    OBVIOUS
  <2>3. f = <<>> /\ Len(f) = 0
    BY <2>1, <2>2
  <2>4. Reading(f)[0] = Start
    BY <2>3, ReadSteps
  <2>5. EndLine(Start).recs = <<>> /\ Start.ok /\ DOMAIN <<>> = {}
    <3>1. ~IsRecord(<<>>)
      BY DEF IsRecord
    <3>2. QED
      BY <3>1 DEF EndLine, Start
  <2>6. Chained(link, <<>>)
    BY <2>5 DEF Chained
  <2>7. Stream(f, link)
    BY <2>3, <2>4, <2>5, <2>6 DEF Stream, NoBlank, Distinct, Sound
  <2>8. Clean(f)
    BY <2>3, <2>4, <2>5 DEF Clean
  <2>9. QED
    BY <2>1, <2>2, <2>7, <2>8 DEF StreamInv
<1>2. StreamInv /\ IInv /\ IInv' /\ [Next]_vars => StreamInv'
  BY StepStream DEF IInv
<1>3. QED
  BY <1>1, <1>2, Invariance, PTL DEF Spec

(* Whatever crashes, fails or is reopened, LoadAll meets no broken link.    *)
THEOREM ChainVerified == Spec => []ChainNeverBroken
<1>1. IInv /\ StreamInv => ChainNeverBroken
  <2>1. SUFFICES ASSUME IInv, StreamInv
                 PROVE  ChainNeverBroken
    OBVIOUS
  <2>2. Len(file) \in 0 .. Len(file) /\ Sound(file, link)
    BY <2>1, FileStream DEF Stream
  <2>3. Chained(link, All(file).recs)
    BY <2>2 DEF Sound, All
  <2>4. QED
    BY <2>3 DEF Chained, ChainNeverBroken, VerifyChain
<1>2. QED
  BY <1>1, Invariance, Streams, PTL

(* A whole line of a record, in a file read to there without an error.     *)
LEMMA WholeReadable ==
  ASSUME IInv, StreamInv, ~torn, NEW r \in Records, NEW d \in 0 .. Len(file),
         Whole(file, d, r)
  PROVE  r \in Readable(file)
<1>1. PICK n, len : n = Len(link) /\ len = Len(file)
  OBVIOUS
<1>2. n \in Nat /\ len \in Nat /\ file \in Seq(PieceOf(n)) /\ Clean(file) /\ r \in 1 .. n
  BY <1>1, FileStream DEF Records
<1>3. PICK i \in 1 .. d - 2 : LineAt(file, i, r)
  BY DEF Whole
<1>4. i \in 1 .. Len(file) - 2 /\ i + 2 \in 0 .. Len(file) /\ len \in i + 2 .. Len(file)
  BY <1>1, <1>2
<1>5. Reading(file)[i + 2].ok
  <2>1. Reading(file)[len].ok
    BY <1>1, <1>2 DEF Clean
  <2>2. QED
    BY <1>2, <1>4, <2>1, ReadMore
<1>6. r \in ToSet(Reading(file)[i + 2].recs)
  BY <1>2, <1>3, <1>4, <1>5, WholeRead
<1>7. r \in ToSet(EndLine(Reading(file)[len]).recs)
  BY <1>2, <1>4, <1>6, ReadMore
<1>8. QED
  BY <1>1, <1>7, ReadableIs

(* As long as nothing torn has been written on, what Sync or Close has     *)
(* reported is read back, and a file that ends in a newline loads.         *)
THEOREM PromiseKept == Spec => []PromisesKept
<1>1. IInv /\ StreamInv => PromisesKept
  <2>1. SUFFICES ASSUME IInv, StreamInv, ~torn
                 PROVE  /\ \A r \in Records :
                              promise[r] \in {"flushed", "synced"} => r \in Readable(file)
                        /\ EndsInNewline(file) => LoadAllOk(file)
    BY DEF PromisesKept
  <2>2. ASSUME NEW r \in Records, promise[r] \in {"flushed", "synced"}
        PROVE  r \in Readable(file)
    <3>1. durable \in 0 .. Len(file) /\ Len(file) \in 0 .. Len(file)
      BY <2>1 DEF IInv, TypeInv
    <3>2. Whole(file, durable, r) \/ Whole(file, Len(file), r)
      BY <2>1, <2>2 DEF IInv, Durability
    <3>3. QED
      BY <2>1, <3>1, <3>2, WholeReadable
  <2>3. ASSUME EndsInNewline(file)
        PROVE  LoadAllOk(file)
    <3>1. PICK n, len, s : n = Len(link) /\ len = Len(file) /\ s = Reading(file)[len]
      OBVIOUS
    <3>2. n \in Nat /\ len \in Nat /\ file \in Seq(PieceOf(n)) /\ Clean(file) /\ NoBlank(file)
      BY <2>1, <3>1, FileStream DEF Stream
    <3>3. AtStart(file)
      BY <2>3, <3>2, OpenResumes
    <3>4. s \in ReadState(n) /\ s.ok /\ s.line = <<>>
      <4>1. len \in 0 .. Len(file)
        BY <3>1, <3>2
      <4>2. s \in ReadState(n)
        BY <3>1, <3>2, <4>1, ReadTypes
      <4>3. QED
        BY <3>1, <3>2, <3>3, <4>2 DEF Clean, AtStart
    <3>5. EndLine(s).ok
      BY <3>4 DEF EndLine
    <3>6. All(file).ok
      BY <3>1, <3>5 DEF All
    <3>7. VerifyChain(All(file).recs)
      <4>1. len \in 0 .. Len(file) /\ Sound(file, link)
        BY <2>1, <3>1, <3>2, FileStream DEF Stream
      <4>2. Chained(link, All(file).recs)
        BY <3>1, <4>1 DEF Sound, All
      <4>3. QED
        BY <4>2 DEF Chained, VerifyChain
    <3>8. QED
      BY <3>6, <3>7 DEF LoadAllOk
  <2>4. QED
    BY <2>2, <2>3
<1>2. QED
  BY <1>1, Invariance, Streams, PTL

(* A record that Sync reported and that can be read stays readable, in a   *)
(* torn file too: it is read from what no step touches.                    *)
THEOREM SyncedReadable == Spec => SyncedStaysReadable
<1> DEFINE A == \A r \in Records :
                  promise[r] = "synced" /\ r \in Readable(file) => r \in Readable(file')
<1>1. IInv /\ StreamInv /\ IInv' /\ StreamInv' /\ [Next]_vars => [A]_vars
  <2>1. SUFFICES ASSUME IInv, StreamInv, IInv', StreamInv', [Next]_vars,
                        NEW r \in Records, promise[r] = "synced", r \in Readable(file)
                 PROVE  r \in Readable(file')
    OBVIOUS
  <2>2. PICK f, g, n, m : f = file /\ g = file' /\ n = Len(link) /\ m = Len(link')
    OBVIOUS
  <2>3. /\ n \in Nat /\ f \in Seq(PieceOf(n)) /\ Distinct(f) /\ Len(f) \in Nat
        /\ m \in Nat /\ g \in Seq(PieceOf(m)) /\ Len(g) \in Nat
    <3>1. n \in Nat /\ f \in Seq(PieceOf(n)) /\ Distinct(f)
      BY <2>1, <2>2, FileStream DEF Stream
    <3>2. m \in Nat /\ g \in Seq(PieceOf(m))
      BY <2>1, <2>2 DEF IInv, TypeInv
    <3>3. QED
      BY <3>1, <3>2
  <2>4. durable \in 0 .. Len(f) /\ durable <= Len(g) /\ \A i \in 1 .. durable : g[i] = f[i]
    BY <2>1, <2>2, DurableKept DEF IInv, TypeInv
  <2>5. PICK i \in 1 .. durable - 2 : LineAt(f, i, r)
    BY <2>1, <2>2 DEF IInv, Durability, Whole
  <2>6. /\ i + 1 \in 1 .. Len(f) /\ i + 2 \in 1 .. Len(f) /\ (i + 2) - 1 = i + 1
        /\ i + 2 \in 0 .. Len(g) /\ i + 2 \in 0 .. durable
    BY <2>3, <2>4
  <2>7. f[i + 1] = <<r, "rest">> /\ f[i + 2] = Newline /\ f[i + 1] # Newline
    BY <2>5 DEF LineAt, Newline
  <2>8. PICK j \in 1 .. Len(f) : /\ f[j] = <<r, "rest">>
                                 /\ r \in ToSet(EndLine(Reading(f)[j]).recs)
    <3>1. r \in ToSet(EndLine(Reading(f)[Len(f)]).recs)
      BY <2>1, <2>2, ReadableIs
    <3>2. Len(f) \in 0 .. Len(f)
      BY <2>3
    <3>3. QED
      BY <2>3, <3>1, <3>2, ReadFrom
  <2>9. j = i + 1
    BY <2>3, <2>6, <2>7, <2>8 DEF Distinct
  <2>10. Reading(f)[i + 2] = EndLine(Reading(f)[i + 1])
    BY <2>3, <2>6, <2>7, ReadNext
  <2>11. r \in ToSet(Reading(f)[i + 2].recs)
    BY <2>8, <2>9, <2>10
  <2>12. Reading(g)[i + 2] = Reading(f)[i + 2]
    BY <2>3, <2>4, <2>6, SamePrefix
  <2>13. Len(g) \in i + 2 .. Len(g)
    BY <2>3, <2>6
  <2>14. r \in ToSet(EndLine(Reading(g)[Len(g)]).recs)
    BY <2>3, <2>6, <2>11, <2>12, <2>13, ReadMore
  <2>15. QED
    BY <2>2, <2>14, ReadableIs
<1>2. QED
  BY <1>1, Invariance, Streams, PTL DEF Spec, SyncedStaysReadable

=============================================================================
